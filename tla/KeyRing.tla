-------------------------------- MODULE KeyRing --------------------------------
(***************************************************************************)
(* The pool of upstream keys of a service: rows of mcp_service_keys that   *)
(* an owner edits (model/mcp_service_key.go, service/service_keys.go), and *)
(* the selectors built from them (internal/mcp/bridge/key_selector.go).    *)
(* Connections share the registered selector, keep the one they were made  *)
(* with, and take a key out of use when the upstream refuses it.  The pool *)
(* of a marketplace item works alike.                                      *)
(*                                                                         *)
(* s.mu and r.mu make what they guard one step, but for the building of a  *)
(* selector, which reads the rows while it holds r.mu.                     *)
(***************************************************************************)
EXTENDS Naturals, FiniteSets

CONSTANTS Conns,    \* upstream connections
          Editors,  \* requests that edit the pool
          Secrets,  \* key values
          NoRing,   \* no selector
          MaxRings, \* bound on the selectors built
          MaxIds,   \* bound on the rows ever written
          MaxPool   \* MaxServiceKeys

ASSUME KeyRingAssumption ==
  /\ Secrets # {} /\ MaxRings \in Nat \ {0} /\ MaxIds \in Nat \ {0} /\ MaxPool \in Nat
  /\ NoRing \notin (1 .. MaxRings) \cup Conns

VARIABLES
  rows,     \* the table
  rings,    \* the selectors ever built
  current,  \* the registered selector
  builder,  \* the connection that holds r.mu, and what it has read
  conn,     \* connections
  editor,   \* edits
  refused,  \* ids of the rows whose value the upstream has refused (history)
  ids       \* the ids given out

keyActors == <<conn, editor>>
keyVars == <<rows, rings, current, builder, keyActors, refused, ids>>

KeyStatuses == {"on", "off", "auto"}
RingIds == 1 .. MaxRings
KeyRows == [id : 1 .. MaxIds, pos : 1 .. MaxIds, val : Secrets, st : KeyStatuses]
Rings == [keys : SUBSET KeyRows, cursor : 1 .. MaxIds, polling : BOOLEAN]
ASSUME NoRingAssumption == NoRing \notin Rings

AnySecret == CHOOSE v \in Secrets : TRUE
IdleConn == [at |-> "idle", ring |-> NoRing, pos |-> 1, id |-> 1]
IdleEditor == [at |-> "idle", n |-> 0, val |-> AnySecret]

KeyTypeOK ==
  /\ rows \in SUBSET KeyRows
  /\ rings \in [RingIds -> Rings \cup {NoRing}]
  /\ current \in RingIds \cup {NoRing}
  /\ builder \in [by : Conns \cup {NoRing}, seen : SUBSET KeyRows]
  /\ conn \in [Conns -> [at : {"idle", "build", "ready", "sent", "refused", "disable"},
                         ring : RingIds \cup {NoRing}, pos : 1 .. MaxIds, id : 1 .. MaxIds]]
  /\ editor \in [Editors -> [at : {"idle", "append", "invalidate"}, n : 0 .. MaxIds + 1, val : Secrets]]
  /\ refused \in SUBSET (1 .. MaxIds)
  /\ ids \in 0 .. MaxIds

Unlocked == [by |-> NoRing, seen |-> {}]
Row(i, p, v) == [id |-> i, pos |-> p, val |-> v, st |-> "on"]

KeyInit ==
  /\ rows = {Row(1, 1, AnySecret)} /\ ids = 1
  /\ rings = [g \in RingIds |-> NoRing] /\ current = NoRing
  /\ builder = Unlocked
  /\ conn = [c \in Conns |-> IdleConn]
  /\ editor = [e \in Editors |-> IdleEditor]
  /\ refused = {}

-----------------------------------------------------------------------------
(* The registry.                                                             *)

Enabled(g) == {k \in rings[g].keys : k.st = "on"}
ConnAt(c, l) == conn' = [conn EXCEPT ![c].at = l]
ConnReady(c, g) == conn' = [conn EXCEPT ![c] = [IdleConn EXCEPT !.at = "ready", !.ring = g]]

\* Get finds a selector, ...
GetRing(c) ==
  /\ conn[c].at = "idle" /\ builder.by = NoRing /\ current # NoRing
  /\ ConnReady(c, current)
  /\ UNCHANGED <<rows, rings, current, builder, editor, refused, ids>>

\* ... or locks the registry and reads the rows.
ReadPool(c) ==
  /\ conn[c].at = "idle" /\ builder.by = NoRing /\ current = NoRing
  /\ builder' = [by |-> c, seen |-> rows]
  /\ ConnAt(c, "build")
  /\ UNCHANGED <<rows, rings, current, editor, refused, ids>>

\* The mode is that of the service row the caller has loaded, which may be old.
BuildRing(c) ==
  /\ conn[c].at = "build"
  /\ IF builder.seen = {}
       THEN conn' = [conn EXCEPT ![c] = IdleConn] /\ UNCHANGED <<rings, current>>
       ELSE \E g \in RingIds, m \in BOOLEAN :
              /\ rings[g] = NoRing /\ \A h \in 1 .. g - 1 : rings[h] # NoRing
              /\ rings' = [rings EXCEPT ![g] = [keys |-> builder.seen, cursor |-> 1, polling |-> m]]
              /\ current' = g
              /\ ConnReady(c, g)
  /\ builder' = Unlocked
  /\ UNCHANGED <<rows, editor, refused, ids>>

-----------------------------------------------------------------------------
(* A connection and its selector.                                            *)

\* The cursor is an index into the keys in their order.
Index(g, k) == Cardinality({j \in rings[g].keys : j.pos <= k.pos})
\* How far the cursor has to move to reach key k.
Distance(g, k) ==
  LET n == Cardinality(rings[g].keys) IN (Index(g, k) + n - rings[g].cursor) % n

\* Pick: any enabled key, or the first one from the cursor on.
Pick(c) ==
  LET g == conn[c].ring  n == Cardinality(rings[g].keys) IN
  /\ conn[c].at = "ready"
  /\ \E k \in Enabled(g) :
       /\ rings[g].polling => \A j \in Enabled(g) : Distance(g, k) <= Distance(g, j)
       /\ conn' = [conn EXCEPT ![c].at = "sent", ![c].pos = k.pos, ![c].id = k.id]
       /\ rings' = IF rings[g].polling THEN [rings EXCEPT ![g].cursor = (Index(g, k) % n) + 1] ELSE rings
  /\ UNCHANGED <<rows, current, builder, editor, refused, ids>>

\* RoundTrip: the upstream serves the request, or refuses its key.
Answered(c) ==
  /\ conn[c].at = "sent"
  /\ \/ ConnReady(c, conn[c].ring) /\ UNCHANGED refused
     \/ ConnAt(c, "refused") /\ refused' = refused \cup {conn[c].id}
  /\ UNCHANGED <<rows, rings, current, builder, editor, ids>>

Victim(c) == {k \in rings[conn[c].ring].keys : k.pos = conn[c].pos}

\* OnAuthFailure under s.mu: the key is looked up by its number, ...
DisableInRing(c) ==
  LET g == conn[c].ring IN
  /\ conn[c].at = "refused"
  /\ IF \E k \in Victim(c) : k.st = "on"
       THEN \E k \in Victim(c) :
              /\ rings' = [rings EXCEPT ![g].keys = (@ \ {k}) \cup {[k EXCEPT !.st = "auto"]}]
              /\ conn' = [conn EXCEPT ![c].at = "disable", ![c].id = k.id]
       ELSE ConnReady(c, conn[c].ring) /\ UNCHANGED rings
  /\ UNCHANGED <<rows, current, builder, editor, refused, ids>>

\* The row is found by the number of the key (to test the checks).
FoundByNumber(c) == {r \in rows : r.pos = conn[c].pos}

Found(c) == {r \in rows : r.id = conn[c].id}

WithStatus(R, s) == (rows \ R) \cup {[r EXCEPT !.st = s] : r \in R}

\* ... and outside s.mu its row is disabled by id, unless the database fails.
DisableRow(c) ==
  /\ conn[c].at = "disable"
  /\ rows' = WithStatus(Found(c), "auto") \/ UNCHANGED rows
  /\ ConnReady(c, conn[c].ring)
  /\ UNCHANGED <<rings, current, builder, editor, refused, ids>>

Disconnect(c) ==
  /\ conn[c].at = "ready"
  /\ conn' = [conn EXCEPT ![c] = IdleConn]
  /\ UNCHANGED <<rows, rings, current, builder, editor, refused, ids>>

-----------------------------------------------------------------------------
(* Edits: the rows first, then invalidateKeyRuntime.                         *)

EditDone(e) == editor' = [editor EXCEPT ![e].at = "invalidate"]
Edits(e, new) ==
  /\ editor[e].at = "idle"
  /\ rows' = new
  /\ EditDone(e)
  /\ UNCHANGED <<rings, current, builder, conn, refused>>

\* AppendKeys reads the pool; a value it holds already is skipped.
AppendRead(e, v) ==
  /\ editor[e].at = "idle"
  /\ Cardinality(rows) < MaxPool /\ \A r \in rows : r.val # v
  /\ editor' = [editor EXCEPT ![e] = [at |-> "append", n |-> Cardinality(rows) + 1, val |-> v]]
  /\ UNCHANGED <<rows, rings, current, builder, conn, refused, ids>>

\* The unique index on the number.
NumberFree(n) == \A r \in rows : r.pos # n

\* The next number is the count of the rows: when it is taken the insert fails,
\* and nothing is invalidated.
AppendWrite(e) ==
  /\ editor[e].at = "append"
  /\ IF NumberFree(editor[e].n)
       THEN /\ ids < MaxIds /\ ids' = ids + 1
            /\ rows' = rows \cup {Row(ids + 1, editor[e].n, editor[e].val)}
            /\ EditDone(e)
       ELSE editor' = [editor EXCEPT ![e] = IdleEditor] /\ UNCHANGED <<rows, ids>>
  /\ UNCHANGED <<rings, current, builder, conn, refused>>

\* ReplaceKeys: a transaction; the new rows are numbered from 1.
Replace(e, V) ==
  /\ IsFiniteSet(V) /\ V # {} /\ Cardinality(V) <= MaxPool /\ ids + Cardinality(V) <= MaxIds
  /\ \E order \in [1 .. Cardinality(V) -> V] :
       /\ \A v \in V : \E i \in DOMAIN order : order[i] = v
       /\ Edits(e, {Row(ids + i, i, order[i]) : i \in DOMAIN order})
  /\ ids' = ids + Cardinality(V)

SetKeyStatus(e, r, s) == Edits(e, WithStatus({r}, s)) /\ UNCHANGED ids
EnableAll(e) == Edits(e, WithStatus(rows, "on")) /\ UNCHANGED ids
DeleteKey(e, r) == Edits(e, rows \ {r}) /\ UNCHANGED ids
DeleteDisabled(e) == Edits(e, {r \in rows : r.st = "on"}) /\ UNCHANGED ids
\* downgradeToSingleKey empties the pool.
DeleteAll(e) == Edits(e, {}) /\ UNCHANGED ids

\* The registry is not locked (to test the checks).
MayInvalidateAlways == TRUE

MayInvalidate == builder.by = NoRing

Invalidate(e) ==
  /\ editor[e].at = "invalidate" /\ MayInvalidate
  /\ current' = NoRing
  /\ editor' = [editor EXCEPT ![e] = IdleEditor]
  /\ UNCHANGED <<rows, rings, builder, conn, refused, ids>>

KeyNext ==
  \/ \E c \in Conns :
       \/ GetRing(c) \/ ReadPool(c) \/ BuildRing(c) \/ Pick(c) \/ Answered(c)
       \/ DisableInRing(c) \/ DisableRow(c) \/ Disconnect(c)
  \/ \E e \in Editors :
       \/ \E v \in Secrets : AppendRead(e, v)
       \/ AppendWrite(e)
       \/ \E V \in SUBSET Secrets : Replace(e, V)
       \/ \E r \in rows : DeleteKey(e, r) \/ SetKeyStatus(e, r, "on") \/ SetKeyStatus(e, r, "off")
       \/ EnableAll(e) \/ DeleteDisabled(e) \/ DeleteAll(e) \/ Invalidate(e)

KeySpec == KeyInit /\ [][KeyNext]_keyVars

-----------------------------------------------------------------------------
(* Properties                                                                *)

\* However a refusal is delayed, and whatever the owner does to the pool in the
\* meantime: a row is taken out of use only if the upstream refused that row.
OnlyRefusedDisabled == \A r \in rows : r.st = "auto" => r.id \in refused

\* Once no edit is half-way, the registered selector holds the rows of the
\* table: no removed key, none that the owner has switched off is offered, and
\* none that the owner has added or switched on is missing.
Editing == \E e \in Editors : editor[e].at = "invalidate"
RingFollowsEdits ==
  current # NoRing /\ ~ Editing =>
    /\ {k.id : k \in rings[current].keys} = {r.id : r \in rows}
    /\ \A k \in rings[current].keys, r \in rows :
         k.id = r.id => (k.st = "on" => r.st # "off") /\ (k.st = "off" => r.st # "on")
===============================================================================
