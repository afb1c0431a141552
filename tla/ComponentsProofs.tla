--------------------------- MODULE ComponentsProofs ---------------------------
(***************************************************************************)
(* Machine-checked proofs about three components that share no state:      *)
(* KeyRing, for any number of connections, editors, key values, selectors  *)
(* and rows; BlobStore, for any savers, erasers, slots and bounds; and     *)
(* Marketplace, for any administrators, requests, names and snapshots.     *)
(***************************************************************************)
EXTENDS KeyRing, BlobStore, Marketplace, FiniteSetTheorems, FunctionTheorems, TLAPS

-----------------------------------------------------------------------------
(* The pool of keys: what its two safety properties need to be inductive.   *)

\* Keys of one pool, or of one selector, are told apart by id and by number.
Distinct(K) == \A j, k \in K : j.id = k.id \/ j.pos = k.pos => j = k

\* What is out of use was refused.
RefusedOnly(K) == \A k \in K : k.st = "auto" => k.id \in refused

\* Keys K are those of table R, and none is on that the owner has off.
Follows(K, R) ==
  /\ {k.id : k \in K} = {r.id : r \in R}
  /\ \A k \in K, r \in R :
       k.id = r.id => (k.st = "on" => r.st # "off") /\ (k.st = "off" => r.st # "on")

Pools == /\ Distinct(rows) /\ RefusedOnly(rows) /\ \A r \in rows : r.id <= ids
         /\ Distinct(builder.seen) /\ RefusedOnly(builder.seen)
         /\ \A g \in RingIds : rings[g] # NoRing =>
              Distinct(rings[g].keys) /\ RefusedOnly(rings[g].keys)

\* An append was numbered after the rows there were.
AppendsBehind ==
  \A e \in Editors : editor[e].n <= ids + 1 /\ (editor[e].at = "append" => editor[e].n # 0)

\* A connection that sent a key, or deals with its refusal, knows its row.
ConnsKnow ==
  \A c \in Conns :
    /\ conn[c].at = "build" => builder.by = c
    /\ conn[c].at \in {"ready", "sent", "refused", "disable"} =>
         conn[c].ring \in RingIds /\ rings[conn[c].ring] # NoRing
    /\ conn[c].at \in {"sent", "refused"} =>
         \E k \in rings[conn[c].ring].keys : k.pos = conn[c].pos /\ k.id = conn[c].id
    /\ conn[c].at \in {"refused", "disable"} => conn[c].id \in refused

\* The registered selector, or the one in the making, is what the edits left.
SelectorsFollow ==
  /\ current # NoRing => rings[current] # NoRing
  /\ current # NoRing /\ ~Editing => Follows(rings[current].keys, rows)
  /\ builder.by # NoRing /\ ~Editing => Follows(builder.seen, rows)

KeyInv == KeyTypeOK /\ Pools /\ AppendsBehind /\ ConnsKnow /\ SelectorsFollow

-----------------------------------------------------------------------------
(* Sets of keys.                                                            *)

\* A pool has no more keys than numbers.
LEMMA PoolSize ==
  ASSUME NEW K \in SUBSET KeyRows, Distinct(K)
  PROVE  IsFiniteSet(K) /\ Cardinality(K) \in 0 .. MaxIds
<1> DEFINE f == [k \in K |-> k.pos]
<1>1. f \in Injection(K, 1 .. MaxIds)
  <2>1. f \in [K -> 1 .. MaxIds]
    BY DEF KeyRows
  <2>2. \A j, k \in K : f[j] = f[k] => j = k
    BY DEF Distinct
  <2> QED
    BY <2>1, <2>2 DEF Injection, IsInjective
<1>2. IsFiniteSet(1 .. MaxIds) /\ Cardinality(1 .. MaxIds) = MaxIds
  BY KeyRingAssumption, FS_Interval
<1>3. IsFiniteSet(K) /\ Cardinality(K) <= Cardinality(1 .. MaxIds)
  BY <1>1, <1>2, FS_Injection
<1> QED
  BY <1>2, <1>3, FS_CardinalityType, KeyRingAssumption

\* The rows of the table are as many as ids were given out, at most.
LEMMA TableSize ==
  ASSUME KeyInv
  PROVE  IsFiniteSet(rows) /\ Cardinality(rows) \in 0 .. ids
<1> DEFINE f == [r \in rows |-> r.id]
<1>1. ids \in Nat /\ rows \in SUBSET KeyRows
  BY KeyRingAssumption DEF KeyInv, KeyTypeOK
<1>2. f \in Injection(rows, 1 .. ids)
  <2>1. f \in [rows -> 1 .. ids]
    BY <1>1 DEF KeyInv, Pools, KeyRows
  <2>2. \A j, k \in rows : f[j] = f[k] => j = k
    BY DEF KeyInv, Pools, Distinct
  <2> QED
    BY <2>1, <2>2 DEF Injection, IsInjective
<1>3. IsFiniteSet(1 .. ids) /\ Cardinality(1 .. ids) = ids
  BY <1>1, FS_Interval
<1>4. IsFiniteSet(rows) /\ Cardinality(rows) <= Cardinality(1 .. ids)
  BY <1>2, <1>3, FS_Injection
<1> QED
  BY <1>1, <1>3, <1>4, FS_CardinalityType

\* Keys R of pool K get status s.
Restate(K, R, s) == (K \ R) \cup {[r EXCEPT !.st = s] : r \in R}

\* N holds the keys of K, of which some of R may have got status s.
SameKeys(N, K, R, s) ==
  /\ N \in SUBSET KeyRows
  /\ \A x \in N : \E k \in K : /\ x.id = k.id /\ x.pos = k.pos
                               /\ \/ x = k
                                  \/ k \in R /\ x.st = s
  /\ {x.id : x \in N} = {k.id : k \in K}
  /\ \A k \in K : \E x \in N : x.id = k.id /\ x.pos = k.pos
  /\ Distinct(K) => Distinct(N)

\* Some keys of a pool get another status: ids and numbers stay.
LEMMA Restated ==
  ASSUME NEW K \in SUBSET KeyRows, NEW R \in SUBSET K, NEW s \in KeyStatuses
  PROVE  SameKeys(Restate(K, R, s), K, R, s)
<1> DEFINE N == Restate(K, R, s)
<1> USE DEF Restate
<1>1. ASSUME NEW r \in R
      PROVE  LET x == [r EXCEPT !.st = s] IN
             x \in KeyRows /\ x.id = r.id /\ x.pos = r.pos /\ x.st = s
  BY DEF KeyRows
<1>2. \A x \in N : \E k \in K : /\ x.id = k.id /\ x.pos = k.pos
                                /\ \/ x = k /\ k \notin R
                                   \/ k \in R /\ x.st = s /\ x = [k EXCEPT !.st = s]
  BY <1>1
<1>3. \A k \in K : \E x \in N : x.id = k.id /\ x.pos = k.pos
  BY <1>1
<1>4. N \in SUBSET KeyRows
  BY <1>1
<1>5. ASSUME Distinct(K), NEW x \in N, NEW y \in N, x.id = y.id \/ x.pos = y.pos
      PROVE  x = y
  <2>1. PICK j \in K : /\ x.id = j.id /\ x.pos = j.pos
                       /\ \/ x = j /\ j \notin R
                          \/ j \in R /\ x.st = s /\ x = [j EXCEPT !.st = s]
    BY <1>2
  <2>2. PICK k \in K : /\ y.id = k.id /\ y.pos = k.pos
                       /\ \/ y = k /\ k \notin R
                          \/ k \in R /\ y.st = s /\ y = [k EXCEPT !.st = s]
    BY <1>2
  <2>3. j = k
    BY <1>5, <2>1, <2>2 DEF Distinct
  <2> QED
    BY <2>1, <2>2, <2>3
<1>6. {x.id : x \in N} = {k.id : k \in K}
  <2>1. \A x \in N : \E k \in K : x.id = k.id
    BY <1>2
  <2>2. \A k \in K : \E x \in N : x.id = k.id
    BY <1>3
  <2>3. \A i \in {x.id : x \in N} : i \in {k.id : k \in K}
    BY <2>1
  <2>4. \A i \in {k.id : k \in K} : i \in {x.id : x \in N}
    BY <2>2, Zenon
  <2> QED
    BY <2>3, <2>4
<1> HIDE DEF N
<1> QED
  BY <1>2, <1>3, <1>4, <1>5, <1>6 DEF Distinct, SameKeys, N

-----------------------------------------------------------------------------
(* Connections.                                                             *)

ConnRows == [at : {"idle", "build", "ready", "sent", "refused", "disable"},
             ring : RingIds \cup {NoRing}, pos : 1 .. MaxIds, id : 1 .. MaxIds]

\* Where a connection goes is a typed step of it alone.
LEMMA ConnSteps ==
  ASSUME KeyInv, NEW c \in Conns
  PROVE  /\ IdleConn \in ConnRows /\ IdleConn.at = "idle"
         /\ conn \in [Conns -> ConnRows]
         /\ \A g \in RingIds \cup {NoRing} : ConnReady(c, g) =>
              /\ conn' \in [Conns -> ConnRows]
              /\ conn'[c].at = "ready" /\ conn'[c].ring = g
              /\ \A d \in Conns \ {c} : conn'[d] = conn[d]
         /\ \A l \in {"build", "refused"} : ConnAt(c, l) =>
              /\ conn' \in [Conns -> ConnRows]
              /\ conn'[c].at = l /\ conn'[c].ring = conn[c].ring
              /\ conn'[c].pos = conn[c].pos /\ conn'[c].id = conn[c].id
              /\ \A d \in Conns \ {c} : conn'[d] = conn[d]
<1>1. IdleConn \in ConnRows /\ IdleConn.at = "idle"
  BY KeyRingAssumption DEF IdleConn, ConnRows
<1>2. conn \in [Conns -> ConnRows]
  BY DEF KeyInv, KeyTypeOK, ConnRows
<1>3. ASSUME NEW g \in RingIds \cup {NoRing}, ConnReady(c, g)
      PROVE  /\ conn' \in [Conns -> ConnRows]
             /\ conn'[c].at = "ready" /\ conn'[c].ring = g
             /\ \A d \in Conns \ {c} : conn'[d] = conn[d]
  <2>1. LET x == [IdleConn EXCEPT !.at = "ready", !.ring = g] IN
        x \in ConnRows /\ x.at = "ready" /\ x.ring = g
    BY <1>1 DEF ConnRows
  <2> QED
    BY <1>2, <1>3, <2>1 DEF ConnReady
<1>4. ASSUME NEW l \in {"build", "refused"}, ConnAt(c, l)
      PROVE  /\ conn' \in [Conns -> ConnRows]
             /\ conn'[c].at = l /\ conn'[c].ring = conn[c].ring
             /\ conn'[c].pos = conn[c].pos /\ conn'[c].id = conn[c].id
             /\ \A d \in Conns \ {c} : conn'[d] = conn[d]
  <2>1. LET x == [conn[c] EXCEPT !.at = l] IN
        x \in ConnRows /\ x.at = l /\ x.ring = conn[c].ring /\ x.pos = conn[c].pos /\ x.id = conn[c].id
    BY <1>2 DEF ConnRows
  <2> QED
    BY <1>2, <1>4, <2>1 DEF ConnAt
<1> QED
  BY <1>1, <1>2, <1>3, <1>4

\* What one connection knows does not depend on the others, while the selectors
\* keep the ids and numbers of their keys and no refusal is forgotten.
LEMMA ConnsKeep ==
  ASSUME KeyInv, NEW c \in Conns,
         \A d \in Conns \ {c} : conn'[d] = conn[d],
         \A d \in Conns \ {c} : conn[d].at = "build" => builder'.by = builder.by,
         \A g \in RingIds : rings[g] # NoRing =>
           /\ rings'[g] # NoRing
           /\ \A k \in rings[g].keys : \E j \in rings'[g].keys : j.id = k.id /\ j.pos = k.pos,
         refused \subseteq refused',
         /\ conn'[c].at = "build" => builder'.by = c
         /\ conn'[c].at \in {"ready", "sent", "refused", "disable"} =>
              conn'[c].ring \in RingIds /\ rings'[conn'[c].ring] # NoRing
         /\ conn'[c].at \in {"sent", "refused"} =>
              \E k \in rings'[conn'[c].ring].keys : k.pos = conn'[c].pos /\ k.id = conn'[c].id
         /\ conn'[c].at \in {"refused", "disable"} => conn'[c].id \in refused'
  PROVE  ConnsKnow'
<1>1. ASSUME NEW d \in Conns \ {c}
      PROVE  /\ conn'[d].at = "build" => builder'.by = d
             /\ conn'[d].at \in {"ready", "sent", "refused", "disable"} =>
                  conn'[d].ring \in RingIds /\ rings'[conn'[d].ring] # NoRing
             /\ conn'[d].at \in {"sent", "refused"} =>
                  \E k \in rings'[conn'[d].ring].keys : k.pos = conn'[d].pos /\ k.id = conn'[d].id
             /\ conn'[d].at \in {"refused", "disable"} => conn'[d].id \in refused'
  BY DEF KeyInv, ConnsKnow
<1> QED
  BY <1>1 DEF ConnsKnow

\* A connection gets the registered selector, starts to build one, or ends.
LEMMA ConnLooks ==
  ASSUME KeyInv, NEW c \in Conns, GetRing(c) \/ ReadPool(c) \/ Disconnect(c) \/ Answered(c)
  PROVE  KeyInv'
<1> USE ConnSteps, ConnsKeep DEF KeyInv
<1>1. CASE GetRing(c)
  <2>1. current \in RingIds /\ rings[current] # NoRing
    BY <1>1 DEF GetRing, KeyTypeOK, SelectorsFollow
  <2>2. ConnReady(c, current) /\ UNCHANGED <<rows, rings, current, builder, editor, refused, ids>>
    BY <1>1 DEF GetRing
  <2>3. KeyTypeOK'
    BY <2>1, <2>2 DEF KeyTypeOK, ConnRows
  <2>4. ConnsKnow'
    BY <2>1, <2>2
  <2> QED
    BY <2>2, <2>3, <2>4 DEF Pools, RefusedOnly, AppendsBehind, SelectorsFollow, Editing
<1>2. CASE ReadPool(c)
  <2>1. /\ ConnAt(c, "build") /\ builder' = [by |-> c, seen |-> rows] /\ builder.by = NoRing
        /\ UNCHANGED <<rows, rings, current, editor, refused, ids>>
    BY <1>2 DEF ReadPool
  <2>2. KeyTypeOK'
    BY <2>1 DEF KeyTypeOK, ConnRows
  <2>3. \A d \in Conns : conn[d].at # "build"
    BY <2>1, KeyRingAssumption DEF ConnsKnow
  <2>4. ConnsKnow'
    BY <2>1, <2>3
  <2>5. Pools'
    BY <2>1 DEF Pools, RefusedOnly
  <2>6. Follows(rows, rows)
    BY DEF Follows, Pools, Distinct
  <2>7. SelectorsFollow'
    BY <2>1, <2>6 DEF SelectorsFollow, Editing
  <2> QED
    BY <2>1, <2>2, <2>4, <2>5, <2>7 DEF AppendsBehind
<1>3. CASE Disconnect(c)
  <2>1. conn' = [conn EXCEPT ![c] = IdleConn] /\ UNCHANGED <<rows, rings, current, builder, editor, refused, ids>>
    BY <1>3 DEF Disconnect
  <2>2. KeyTypeOK'
    BY <2>1 DEF KeyTypeOK, ConnRows
  <2>3. ConnsKnow'
    BY <2>1
  <2> QED
    BY <2>1, <2>2, <2>3 DEF Pools, RefusedOnly, AppendsBehind, SelectorsFollow, Editing
<1>4. CASE Answered(c)
  <2>1. /\ conn[c].at = "sent" /\ UNCHANGED <<rows, rings, current, builder, editor, ids>>
        /\ refused \subseteq refused' /\ refused' \subseteq refused \cup {conn[c].id}
    BY <1>4 DEF Answered
  <2>2. /\ conn[c].ring \in RingIds /\ rings[conn[c].ring] # NoRing /\ conn[c].id \in 1 .. MaxIds
        /\ \E k \in rings[conn[c].ring].keys : k.pos = conn[c].pos /\ k.id = conn[c].id
    BY <2>1 DEF ConnsKnow, ConnRows
  <2>3. CASE ConnReady(c, conn[c].ring)
    <3>1. ConnsKnow'
      BY <2>1, <2>2, <2>3
    <3>2. KeyTypeOK'
      BY <2>1, <2>2, <2>3 DEF KeyTypeOK, ConnRows
    <3> QED
      BY <2>1, <3>1, <3>2 DEF Pools, RefusedOnly, AppendsBehind, SelectorsFollow, Editing
  <2>4. CASE ConnAt(c, "refused") /\ refused' = refused \cup {conn[c].id}
    <3>1. ConnsKnow'
      BY <2>1, <2>2, <2>4
    <3>2. KeyTypeOK'
      BY <2>1, <2>2, <2>4 DEF KeyTypeOK, ConnRows
    <3> QED
      BY <2>1, <3>1, <3>2 DEF Pools, RefusedOnly, AppendsBehind, SelectorsFollow, Editing
  <2> QED
    BY <1>4, <2>3, <2>4 DEF Answered
<1> QED
  BY <1>1, <1>2, <1>3, <1>4

\* A selector is built of what was read, and registered.
LEMMA ConnBuilds ==
  ASSUME KeyInv, NEW c \in Conns, BuildRing(c)
  PROVE  KeyInv'
<1> USE ConnSteps, ConnsKeep DEF KeyInv
<1>1. /\ conn[c].at = "build" /\ builder.by = c /\ builder.by # NoRing
      /\ builder' = Unlocked /\ UNCHANGED <<rows, editor, refused, ids>>
  BY KeyRingAssumption DEF BuildRing, ConnsKnow
<1>2. \A d \in Conns \ {c} : conn[d].at # "build"
  BY <1>1 DEF ConnsKnow
<1>3. Distinct(builder.seen) /\ RefusedOnly(builder.seen) /\ builder.seen \in SUBSET KeyRows
  BY DEF Pools, KeyTypeOK
<1>4. Unlocked.by = NoRing /\ Unlocked.seen = {} /\ Unlocked \in [by : Conns \cup {NoRing}, seen : SUBSET KeyRows]
  BY DEF Unlocked
<1>5. CASE builder.seen = {}
  <2>1. conn' = [conn EXCEPT ![c] = IdleConn] /\ UNCHANGED <<rings, current>>
    BY <1>5 DEF BuildRing
  <2>2. KeyTypeOK'
    BY <1>1, <1>4, <2>1 DEF KeyTypeOK, ConnRows
  <2>3. ConnsKnow'
    BY <1>1, <1>2, <2>1
  <2>4. Pools'
    BY <1>1, <1>4, <2>1 DEF Pools, RefusedOnly, Distinct
  <2> QED
    BY <1>1, <1>4, <2>1, <2>2, <2>3, <2>4 DEF AppendsBehind, SelectorsFollow, Editing
<1>6. CASE builder.seen # {}
  <2>1. PICK g \in RingIds, m \in BOOLEAN :
          /\ rings[g] = NoRing
          /\ rings' = [rings EXCEPT ![g] = [keys |-> builder.seen, cursor |-> 1, polling |-> m]]
          /\ current' = g /\ ConnReady(c, g)
    BY <1>6 DEF BuildRing
  <2>2. [keys |-> builder.seen, cursor |-> 1, polling |-> m] \in Rings
    BY <1>3, KeyRingAssumption DEF Rings
  <2>3. /\ rings'[g] # NoRing /\ rings'[g].keys = builder.seen
        /\ \A h \in RingIds \ {g} : rings'[h] = rings[h]
    BY <2>1, <2>2, NoRingAssumption DEF KeyTypeOK
  <2>4. KeyTypeOK'
    BY <1>1, <1>4, <2>1, <2>2 DEF KeyTypeOK, ConnRows
  <2>5. ConnsKnow'
    BY <1>1, <1>2, <2>1, <2>3
  <2>6. Pools'
    BY <1>1, <1>3, <1>4, <2>3 DEF Pools, RefusedOnly, Distinct
  <2>7. SelectorsFollow'
    <3>1. current' # NoRing /\ rings'[current'] # NoRing /\ rings'[current'].keys = builder.seen
      BY <2>1, <2>3, KeyRingAssumption DEF RingIds
    <3> QED
      BY <1>1, <1>4, <3>1 DEF SelectorsFollow, Editing
  <2> QED
    BY <1>1, <2>4, <2>5, <2>6, <2>7 DEF AppendsBehind
<1> QED
  BY <1>5, <1>6

\* A key is picked: its number and id are noted, and the cursor goes past it.
LEMMA ConnPicks ==
  ASSUME KeyInv, NEW c \in Conns, Pick(c)
  PROVE  KeyInv'
<1> USE ConnSteps, ConnsKeep DEF KeyInv
<1> DEFINE g == conn[c].ring
           n == Cardinality(rings[g].keys)
<1>1. /\ conn[c].at = "ready" /\ g \in RingIds /\ rings[g] # NoRing
      /\ UNCHANGED <<rows, current, builder, editor, refused, ids>>
  BY DEF Pick, ConnsKnow
<1>2. rings[g] \in Rings /\ rings[g].keys \in SUBSET KeyRows /\ Distinct(rings[g].keys)
  BY <1>1 DEF KeyTypeOK, Pools, Rings
<1>3. IsFiniteSet(rings[g].keys) /\ n \in 0 .. MaxIds
  BY <1>2, PoolSize
<1>4. PICK k \in Enabled(g) :
        /\ conn' = [conn EXCEPT ![c].at = "sent", ![c].pos = k.pos, ![c].id = k.id]
        /\ rings' = IF rings[g].polling THEN [rings EXCEPT ![g].cursor = (Index(g, k) % n) + 1] ELSE rings
  BY DEF Pick
<1>5. k \in rings[g].keys /\ k \in KeyRows
  BY <1>2 DEF Enabled
<1>6. Index(g, k) \in Nat
  BY <1>3, FS_Subset, FS_CardinalityType DEF Index
<1>7. n # 0
  BY <1>3, <1>5, FS_EmptySet
<1>8. (Index(g, k) % n) + 1 \in 1 .. MaxIds
  <2> DEFINE i == Index(g, k)
  <2>1. i \in Nat /\ n \in Nat \ {0} /\ n <= MaxIds /\ MaxIds \in Nat
    BY <1>3, <1>6, <1>7, KeyRingAssumption
  <2> HIDE DEF i, n
  <2>2. i % n \in 0 .. n - 1
    BY <2>1
  <2>3. (i % n) + 1 \in 1 .. MaxIds
    BY <2>1, <2>2
  <2> QED
    BY <2>3 DEF i
<1>9. LET x == [conn[c] EXCEPT !.at = "sent", !.pos = k.pos, !.id = k.id] IN
      x \in ConnRows /\ x.at = "sent" /\ x.pos = k.pos /\ x.id = k.id /\ x.ring = g
  <2>1. conn[c] \in ConnRows /\ k.pos \in 1 .. MaxIds /\ k.id \in 1 .. MaxIds
    BY <1>5 DEF KeyRows
  <2> QED
    BY <2>1 DEF ConnRows
<1>10. /\ conn' \in [Conns -> ConnRows] /\ conn'[c].at = "sent" /\ conn'[c].pos = k.pos
       /\ conn'[c].id = k.id /\ conn'[c].ring = g
       /\ \A d \in Conns \ {c} : conn'[d] = conn[d]
  BY <1>4, <1>9
<1>11. /\ rings' \in [RingIds -> Rings \cup {NoRing}]
       /\ \A h \in RingIds : /\ rings'[h] # NoRing <=> rings[h] # NoRing
                             /\ rings[h] # NoRing => rings'[h].keys = rings[h].keys
  <2> DEFINE v == (Index(g, k) % n) + 1
  <2>1. \A h \in RingIds : rings[h] # NoRing => rings[h] \in Rings
    BY DEF KeyTypeOK
  <2>2. v \in 1 .. MaxIds
    BY <1>8
  <2> HIDE DEF v, n
  <2>3. LET x == [rings[g] EXCEPT !.cursor = v] IN x \in Rings /\ x.keys = rings[g].keys
    BY <1>2, <2>2 DEF Rings
  <2>4. rings' = [rings EXCEPT ![g] = [rings[g] EXCEPT !.cursor = v]] \/ rings' = rings
    BY <1>4 DEF v
  <2>5. rings \in [RingIds -> Rings \cup {NoRing}]
    BY DEF KeyTypeOK
  <2>6. CASE rings' = rings
    BY <2>5, <2>6
  <2>7. CASE rings' = [rings EXCEPT ![g] = [rings[g] EXCEPT !.cursor = v]]
    <3> DEFINE x == [rings[g] EXCEPT !.cursor = v]
    <3>1. x \in Rings /\ x # NoRing /\ x.keys = rings[g].keys
      BY <2>3, NoRingAssumption
    <3>2. rings' = [rings EXCEPT ![g] = x]
      BY <2>7
    <3> HIDE DEF x
    <3> QED
      BY <1>1, <2>5, <3>1, <3>2
  <2> QED
    BY <2>4, <2>6, <2>7
<1>12. KeyTypeOK'
  BY <1>1, <1>10, <1>11 DEF KeyTypeOK, ConnRows
<1>13. ConnsKnow'
  BY <1>1, <1>5, <1>10, <1>11
<1>14. Pools'
  BY <1>1, <1>11 DEF Pools, RefusedOnly
<1>15. SelectorsFollow'
  <2>1. current # NoRing => /\ current \in RingIds /\ rings[current] # NoRing
                            /\ rings'[current].keys = rings[current].keys
    BY <1>11 DEF SelectorsFollow, KeyTypeOK
  <2> QED
    BY <1>1, <1>11, <2>1 DEF SelectorsFollow, Editing
<1> QED
  BY <1>1, <1>12, <1>13, <1>14, <1>15 DEF AppendsBehind

\* A key of the selector is put out of use: the one that was refused, by its number.
LEMMA ConnDisables ==
  ASSUME KeyInv, NEW c \in Conns, DisableInRing(c)
  PROVE  KeyInv'
<1> USE ConnSteps, ConnsKeep DEF KeyInv
<1> DEFINE g == conn[c].ring
<1>1. /\ conn[c].at = "refused" /\ g \in RingIds /\ rings[g] # NoRing
      /\ UNCHANGED <<rows, current, builder, editor, refused, ids>>
  BY DEF DisableInRing, ConnsKnow
<1>2. rings[g] \in Rings /\ rings[g].keys \in SUBSET KeyRows /\ Distinct(rings[g].keys)
      /\ RefusedOnly(rings[g].keys)
  BY <1>1 DEF KeyTypeOK, Pools, Rings
<1>3. CASE ~ \E k \in Victim(c) : k.st = "on"
  <2>1. ConnReady(c, g) /\ UNCHANGED rings
    BY <1>3 DEF DisableInRing
  <2>2. KeyTypeOK'
    BY <1>1, <2>1 DEF KeyTypeOK, ConnRows
  <2>3. ConnsKnow'
    BY <1>1, <2>1
  <2> QED
    BY <1>1, <2>1, <2>2, <2>3 DEF Pools, RefusedOnly, AppendsBehind, SelectorsFollow, Editing
<1>4. CASE \E k \in Victim(c) : k.st = "on"
  <2>1. PICK k \in Victim(c) :
          /\ rings' = [rings EXCEPT ![g].keys = (@ \ {k}) \cup {[k EXCEPT !.st = "auto"]}]
          /\ conn' = [conn EXCEPT ![c].at = "disable", ![c].id = k.id]
    BY <1>4 DEF DisableInRing
  <2>2. k \in rings[g].keys /\ k \in KeyRows /\ k.pos = conn[c].pos /\ k.id \in 1 .. MaxIds
    BY <1>2, <2>1 DEF Victim, KeyRows
  <2>3. k.id = conn[c].id /\ conn[c].id \in refused
    BY <1>1, <1>2, <2>2 DEF ConnsKnow, Distinct
  <2> DEFINE K == rings[g].keys
             N == (K \ {k}) \cup {[k EXCEPT !.st = "auto"]}
             new == [rings[g] EXCEPT !.keys = N]
  <2>4. /\ N \in SUBSET KeyRows /\ Distinct(N) /\ {x.id : x \in N} = {j.id : j \in K}
        /\ \A x \in N : \E j \in K : /\ x.id = j.id /\ x.pos = j.pos
                                     /\ \/ x = j
                                        \/ j \in {k} /\ x.st = "auto"
        /\ \A j \in K : \E x \in N : x.id = j.id /\ x.pos = j.pos
    <3>1. N = Restate(K, {k}, "auto")
      BY DEF Restate
    <3>2. {k} \in SUBSET K /\ "auto" \in KeyStatuses /\ K \in SUBSET KeyRows
      BY <1>2, <2>2 DEF KeyStatuses
    <3> HIDE DEF N, K
    <3>3. SameKeys(N, K, {k}, "auto")
      BY <3>1, <3>2, Restated
    <3>4. Distinct(K)
      BY <1>2 DEF K
    <3> QED
      BY <3>3, <3>4 DEF SameKeys
  <2>5. RefusedOnly(N)
    BY <1>2, <2>3, <2>4 DEF RefusedOnly
  <2>6. rings' = [rings EXCEPT ![g] = new]
    BY <2>1
  <2>7. new \in Rings /\ new # NoRing /\ new.keys = N
    BY <1>2, <2>4, NoRingAssumption DEF Rings
  <2> HIDE DEF new, N
  <2>8. /\ rings' \in [RingIds -> Rings \cup {NoRing}] /\ rings'[g] # NoRing /\ rings'[g].keys = N
        /\ \A h \in RingIds \ {g} : rings'[h] = rings[h]
    BY <1>1, <2>6, <2>7 DEF KeyTypeOK
  <2>9. LET x == [conn[c] EXCEPT !.at = "disable", !.id = k.id] IN
        x \in ConnRows /\ x.at = "disable" /\ x.id = k.id /\ x.ring = g
    <3>1. conn[c] \in ConnRows
      OBVIOUS
    <3> QED
      BY <2>2, <3>1 DEF ConnRows
  <2>10. /\ conn' \in [Conns -> ConnRows] /\ conn'[c].at = "disable" /\ conn'[c].id = k.id
         /\ conn'[c].ring = g /\ \A d \in Conns \ {c} : conn'[d] = conn[d]
    BY <2>1, <2>9
  <2>11. KeyTypeOK'
    BY <1>1, <2>8, <2>10 DEF KeyTypeOK, ConnRows
  <2>12. ConnsKnow'
    BY <1>1, <2>3, <2>4, <2>8, <2>10
  <2>13. Pools'
    BY <1>1, <2>4, <2>5, <2>8 DEF Pools, RefusedOnly
  <2>14. SelectorsFollow'
    <3>1. Follows(K, rows) => Follows(N, rows)
      BY <2>2, <2>4 DEF Follows
    <3>2. current # NoRing => current \in RingIds
      BY DEF KeyTypeOK
    <3> QED
      BY <1>1, <2>8, <3>1, <3>2 DEF SelectorsFollow, Editing
  <2> QED
    BY <1>1, <2>11, <2>12, <2>13, <2>14 DEF AppendsBehind
<1> QED
  BY <1>3, <1>4

\* The row of the refused key is put out of use, wherever it is by now.
LEMMA RowDisabled ==
  ASSUME KeyInv, NEW c \in Conns, DisableRow(c)
  PROVE  KeyInv'
<1> USE ConnSteps, ConnsKeep DEF KeyInv
<1>1. /\ conn[c].at = "disable" /\ ConnReady(c, conn[c].ring)
      /\ conn[c].ring \in RingIds /\ rings[conn[c].ring] # NoRing /\ conn[c].id \in refused
      /\ UNCHANGED <<rings, current, builder, editor, refused, ids>>
  BY DEF DisableRow, ConnsKnow
<1>2. rows \in SUBSET KeyRows /\ Distinct(rows) /\ RefusedOnly(rows) /\ \A r \in rows : r.id <= ids
  BY DEF KeyTypeOK, Pools
<1>3. ConnsKnow'
  BY <1>1
<1>4. CASE UNCHANGED rows
  <2>1. KeyTypeOK'
    BY <1>1, <1>4 DEF KeyTypeOK, ConnRows
  <2> QED
    BY <1>1, <1>3, <1>4, <2>1 DEF Pools, RefusedOnly, AppendsBehind, SelectorsFollow, Editing
<1>5. CASE rows' = WithStatus(Found(c), "auto")
  <2>1. /\ rows' \in SUBSET KeyRows /\ Distinct(rows') /\ {x.id : x \in rows'} = {r.id : r \in rows}
        /\ \A x \in rows' : \E r \in rows : /\ x.id = r.id /\ x.pos = r.pos
                                            /\ \/ x = r
                                               \/ r \in Found(c) /\ x.st = "auto"
    <3>1. rows' = Restate(rows, Found(c), "auto")
      BY <1>5 DEF WithStatus, Restate
    <3>2. Found(c) \in SUBSET rows /\ "auto" \in KeyStatuses
      BY DEF Found, KeyStatuses
    <3>3. SameKeys(rows', rows, Found(c), "auto")
      BY <1>2, <3>1, <3>2, Restated
    <3> QED
      BY <1>2, <3>3 DEF SameKeys
  <2>2. RefusedOnly(rows') /\ \A x \in rows' : x.id <= ids
    BY <1>1, <1>2, <2>1 DEF RefusedOnly, Found
  <2>3. KeyTypeOK'
    BY <1>1, <2>1 DEF KeyTypeOK, ConnRows
  <2>4. Pools'
    BY <1>1, <2>1, <2>2 DEF Pools, RefusedOnly
  <2>5. ASSUME NEW K, Follows(K, rows) PROVE Follows(K, rows')
    BY <2>1, <2>5 DEF Follows
  <2>6. SelectorsFollow'
    BY <1>1, <2>5 DEF SelectorsFollow, Editing
  <2> QED
    BY <1>1, <1>3, <2>3, <2>4, <2>6 DEF AppendsBehind
<1> QED
  BY <1>4, <1>5 DEF DisableRow

-----------------------------------------------------------------------------
(* Edits.                                                                   *)

EditorRows == [at : {"idle", "append", "invalidate"}, n : 0 .. MaxIds + 1, val : Secrets]

\* An edit that has written leaves the pool in order, and the selectors to be dropped.
LEMMA EditWritten ==
  ASSUME KeyInv, NEW e \in Editors, UNCHANGED <<rings, current, builder, conn, refused>>,
         editor' \in [Editors -> EditorRows], editor'[e].at = "invalidate",
         \A d \in Editors : editor'[d].n <= ids + 1 /\ (editor'[d].at = "append" => editor'[d].n # 0),
         rows' \in SUBSET KeyRows, Distinct(rows'), RefusedOnly(rows'),
         ids' \in 0 .. MaxIds, ids <= ids', \A r \in rows' : r.id <= ids'
  PROVE  KeyInv'
<1>1. KeyTypeOK'
  BY DEF KeyInv, KeyTypeOK, EditorRows
<1>2. Pools'
  BY DEF KeyInv, Pools, RefusedOnly
<1>3. AppendsBehind'
  <2>1. ids \in Int /\ ids' \in Int
    BY KeyRingAssumption DEF KeyInv, KeyTypeOK
  <2>2. \A d \in Editors : editor'[d].n \in Int
    BY KeyRingAssumption DEF EditorRows
  <2> QED
    BY <2>1, <2>2 DEF AppendsBehind
<1>4. ConnsKnow'
  BY DEF KeyInv, ConnsKnow
<1>5. SelectorsFollow'
  BY DEF KeyInv, SelectorsFollow, Editing
<1> QED
  BY <1>1, <1>2, <1>3, <1>4, <1>5 DEF KeyInv

\* The edits that add no row: some rows get another status, or go.
LEMMA EditRows ==
  ASSUME KeyInv, NEW e \in Editors,
         \/ \E r \in rows : DeleteKey(e, r) \/ SetKeyStatus(e, r, "on") \/ SetKeyStatus(e, r, "off")
         \/ EnableAll(e) \/ DeleteDisabled(e) \/ DeleteAll(e)
  PROVE  KeyInv'
<1>1. /\ rows \in SUBSET KeyRows /\ Distinct(rows) /\ RefusedOnly(rows) /\ \A r \in rows : r.id <= ids
      /\ ids \in 0 .. MaxIds /\ ids \in Int /\ editor \in [Editors -> EditorRows]
      /\ \A d \in Editors : editor[d].n <= ids + 1 /\ (editor[d].at = "append" => editor[d].n # 0)
  BY KeyRingAssumption DEF KeyInv, KeyTypeOK, Pools, EditorRows, AppendsBehind
<1>2. ASSUME NEW new, Edits(e, new), ids' = ids, new \in SUBSET KeyRows, Distinct(new),
             RefusedOnly(new), \A r \in new : r.id <= ids
      PROVE  KeyInv'
  <2>1. /\ editor' \in [Editors -> EditorRows] /\ editor'[e].at = "invalidate"
        /\ \A d \in Editors : editor'[d].n = editor[d].n /\ editor'[d].at \in {editor[d].at, "invalidate"}
    <3>1. LET x == [editor[e] EXCEPT !.at = "invalidate"] IN
          x \in EditorRows /\ x.at = "invalidate" /\ x.n = editor[e].n
      BY <1>1 DEF EditorRows
    <3>2. editor' = [editor EXCEPT ![e].at = "invalidate"]
      BY <1>2 DEF Edits, EditDone
    <3> QED
      BY <1>1, <3>1, <3>2
  <2>2. rows' = new /\ UNCHANGED <<rings, current, builder, conn, refused>>
    BY <1>2 DEF Edits
  <2> QED
    BY <1>1, <1>2, <2>1, <2>2, EditWritten
<1>3. ASSUME NEW R \in SUBSET rows, NEW s \in {"on", "off"}
      PROVE  LET new == WithStatus(R, s) IN
             /\ new \in SUBSET KeyRows /\ Distinct(new) /\ RefusedOnly(new)
             /\ \A r \in new : r.id <= ids
  <2>1. SameKeys(WithStatus(R, s), rows, R, s)
    <3>1. WithStatus(R, s) = Restate(rows, R, s) /\ s \in KeyStatuses
      BY DEF WithStatus, Restate, KeyStatuses
    <3> QED
      BY <1>1, <3>1, Restated
  <2> QED
    BY <1>1, <2>1 DEF SameKeys, RefusedOnly
<1>4. ASSUME NEW new \in SUBSET rows
      PROVE  /\ new \in SUBSET KeyRows /\ Distinct(new) /\ RefusedOnly(new)
             /\ \A r \in new : r.id <= ids
  BY <1>1 DEF Distinct, RefusedOnly
<1>5. ASSUME NEW r \in rows, DeleteKey(e, r) PROVE KeyInv'
  <2>1. rows \ {r} \in SUBSET rows
    OBVIOUS
  <2> QED
    BY <1>2, <1>4, <1>5, <2>1 DEF DeleteKey
<1>6. ASSUME NEW r \in rows, NEW s \in {"on", "off"}, SetKeyStatus(e, r, s) PROVE KeyInv'
  <2>1. {r} \in SUBSET rows
    OBVIOUS
  <2> QED
    BY <1>2, <1>3, <1>6, <2>1 DEF SetKeyStatus
<1>7. CASE EnableAll(e)
  BY <1>2, <1>3, <1>7 DEF EnableAll
<1>8. CASE DeleteDisabled(e)
  <2>1. {r \in rows : r.st = "on"} \in SUBSET rows
    OBVIOUS
  <2> QED
    BY <1>2, <1>4, <1>8, <2>1 DEF DeleteDisabled
<1>9. CASE DeleteAll(e)
  BY <1>2, <1>4, <1>9 DEF DeleteAll
<1> QED
  BY <1>5, <1>6, <1>7, <1>8, <1>9

\* The edits that add rows: numbers that are taken are refused, and ids are new.
LEMMA EditAdds ==
  ASSUME KeyInv, NEW e \in Editors,
         \/ \E v \in Secrets : AppendRead(e, v)
         \/ AppendWrite(e)
         \/ \E V \in SUBSET Secrets : Replace(e, V)
  PROVE  KeyInv'
<1> USE DEF KeyInv
<1>1. /\ rows \in SUBSET KeyRows /\ Distinct(rows) /\ RefusedOnly(rows) /\ \A r \in rows : r.id <= ids
      /\ ids \in 0 .. MaxIds /\ ids \in Nat /\ MaxIds \in Nat /\ editor \in [Editors -> EditorRows]
      /\ \A d \in Editors : editor[d].n <= ids + 1 /\ (editor[d].at = "append" => editor[d].n # 0)
  BY KeyRingAssumption DEF KeyTypeOK, Pools, EditorRows, AppendsBehind
<1>a. ASSUME EditDone(e)
      PROVE  /\ editor' \in [Editors -> EditorRows] /\ editor'[e].at = "invalidate"
             /\ \A d \in Editors :
                  editor'[d].n <= ids + 1 /\ (editor'[d].at = "append" => editor'[d].n # 0)
  <2>1. LET x == [editor[e] EXCEPT !.at = "invalidate"] IN
        x \in EditorRows /\ x.at = "invalidate" /\ x.n = editor[e].n
    BY <1>1 DEF EditorRows
  <2>2. editor' = [editor EXCEPT ![e].at = "invalidate"]
    BY <1>a DEF EditDone
  <2> QED
    BY <1>1, <2>1, <2>2
<1>2. ASSUME NEW v \in Secrets, AppendRead(e, v) PROVE KeyInv'
  <2> DEFINE n == Cardinality(rows) + 1
             x == [at |-> "append", n |-> n, val |-> v]
  <2>1. n \in 1 .. ids + 1 /\ n \in 0 .. MaxIds + 1
    BY <1>1, TableSize
  <2>2. editor' = [editor EXCEPT ![e] = x] /\ UNCHANGED <<rows, rings, current, builder, conn, refused, ids>>
    BY <1>2 DEF AppendRead
  <2> HIDE DEF n
  <2>3. x \in EditorRows /\ x.at = "append" /\ x.n = n
    BY <2>1 DEF EditorRows
  <2>4. KeyTypeOK'
    BY <2>2, <2>3 DEF KeyTypeOK, EditorRows
  <2>5. AppendsBehind'
    <3>1. n <= ids + 1 /\ n # 0
      BY <1>1, <2>1
    <3> QED
      BY <1>1, <2>2, <2>3, <3>1 DEF AppendsBehind
  <2>6. Editing' = Editing
    <3>1. \A d \in Editors : editor'[d].at = "invalidate" <=> editor[d].at = "invalidate"
      BY <1>1, <1>2, <2>2, <2>3 DEF AppendRead
    <3> QED
      BY <3>1 DEF Editing
  <2> QED
    BY <2>2, <2>4, <2>5, <2>6 DEF Pools, RefusedOnly, ConnsKnow, SelectorsFollow
<1>3. CASE AppendWrite(e)
  <2> DEFINE n == editor[e].n
             new == Row(ids + 1, n, editor[e].val)
  <2>1. CASE NumberFree(n)
    <3>1. /\ editor[e].at = "append" /\ ids < MaxIds /\ ids' = ids + 1 /\ rows' = rows \cup {new}
          /\ EditDone(e) /\ UNCHANGED <<rings, current, builder, conn, refused>>
      BY <1>3, <2>1 DEF AppendWrite
    <3>2. n \in Nat /\ n # 0 /\ n <= ids + 1 /\ editor[e].val \in Secrets
      BY <1>1, <3>1 DEF EditorRows
    <3>3. ids + 1 \in 1 .. MaxIds /\ n \in 1 .. MaxIds /\ ids' \in 0 .. MaxIds
      BY <1>1, <3>1, <3>2
    <3>4. new \in KeyRows /\ new.id = ids + 1 /\ new.pos = n /\ new.st = "on"
      BY <3>2, <3>3 DEF Row, KeyRows, KeyStatuses
    <3>5. \A r \in rows : r.id # ids + 1 /\ r.pos # n /\ r.id <= ids + 1
      <4>1. \A r \in rows : r.id \in Nat
        BY <1>1 DEF KeyRows
      <4> QED
        BY <1>1, <2>1, <4>1 DEF NumberFree
    <3> HIDE DEF n, new
    <3>6. Distinct(rows') /\ RefusedOnly(rows') /\ rows' \in SUBSET KeyRows
          /\ \A r \in rows' : r.id <= ids'
      BY <1>1, <3>1, <3>3, <3>4, <3>5 DEF Distinct, RefusedOnly
    <3>7. ids <= ids'
      BY <1>1, <3>1
    <3> QED
      BY <1>a, <3>1, <3>3, <3>6, <3>7, EditWritten
  <2>2. CASE ~NumberFree(n)
    <3>1. editor' = [editor EXCEPT ![e] = IdleEditor] /\ editor[e].at = "append"
          /\ UNCHANGED <<rows, ids, rings, current, builder, conn, refused>>
      BY <1>3, <2>2 DEF AppendWrite
    <3>2. IdleEditor \in EditorRows /\ IdleEditor.n = 0 /\ IdleEditor.at = "idle"
      BY KeyRingAssumption DEF IdleEditor, EditorRows, AnySecret
    <3>3. KeyTypeOK'
      BY <3>1, <3>2 DEF KeyTypeOK, EditorRows
    <3>4. AppendsBehind'
      BY <1>1, <3>1, <3>2 DEF AppendsBehind
    <3>5. Editing' = Editing
      <4>1. \A d \in Editors : editor'[d].at = "invalidate" <=> editor[d].at = "invalidate"
        BY <1>1, <3>1, <3>2
      <4> QED
        BY <4>1 DEF Editing
    <3> QED
      BY <3>1, <3>3, <3>4, <3>5 DEF Pools, RefusedOnly, ConnsKnow, SelectorsFollow
  <2> QED
    BY <2>1, <2>2
<1>4. ASSUME NEW V \in SUBSET Secrets, Replace(e, V) PROVE KeyInv'
  <2> DEFINE m == Cardinality(V)
  <2>1. m \in Nat /\ ids + m <= MaxIds
    BY <1>4, FS_CardinalityType DEF Replace
  <2>2. PICK order \in [1 .. m -> V] : Edits(e, {Row(ids + i, i, order[i]) : i \in DOMAIN order})
    BY <1>4 DEF Replace
  <2> DEFINE new == {Row(ids + i, i, order[i]) : i \in 1 .. m}
  <2>3. /\ rows' = new /\ EditDone(e) /\ ids' = ids + m
        /\ UNCHANGED <<rings, current, builder, conn, refused>>
    BY <1>4, <2>2 DEF Edits, Replace
  <2> HIDE DEF m
  <2>4. ASSUME NEW i \in 1 .. m
        PROVE  LET x == Row(ids + i, i, order[i]) IN
               x \in KeyRows /\ x.id = ids + i /\ x.pos = i /\ x.st = "on" /\ ids + i <= ids + m
    <3>1. ids + i \in 1 .. MaxIds /\ i \in 1 .. MaxIds /\ ids + i <= ids + m
      BY <1>1, <2>1
    <3>2. order[i] \in Secrets
      BY <2>2
    <3> QED
      BY <3>1, <3>2 DEF Row, KeyRows, KeyStatuses
  <2>5. \A x \in new : \E i \in 1 .. m : x = Row(ids + i, i, order[i])
    OBVIOUS
  <2> HIDE DEF new
  <2>6. new \in SUBSET KeyRows /\ RefusedOnly(new) /\ \A r \in new : r.id <= ids + m
    BY <2>4, <2>5 DEF RefusedOnly
  <2>7. Distinct(new)
    <3> SUFFICES ASSUME NEW j \in new, NEW k \in new, j.id = k.id \/ j.pos = k.pos
                 PROVE  j = k
      BY DEF Distinct
    <3>1. PICK a \in 1 .. m : j = Row(ids + a, a, order[a])
      BY <2>5
    <3>2. PICK b \in 1 .. m : k = Row(ids + b, b, order[b])
      BY <2>5
    <3>3. ids + a = ids + b \/ a = b
      BY <2>4, <3>1, <3>2
    <3>4. a = b
      BY <1>1, <2>1, <3>3
    <3> QED
      BY <3>1, <3>2, <3>4
  <2>8. ids' \in 0 .. MaxIds /\ ids <= ids'
    BY <1>1, <2>1, <2>3
  <2> QED
    BY <1>a, <2>3, <2>6, <2>7, <2>8, EditWritten
<1> QED
  BY <1>2, <1>3, <1>4

\* The selectors are dropped when nobody builds one.
LEMMA EditDrops ==
  ASSUME KeyInv, NEW e \in Editors, Invalidate(e)
  PROVE  KeyInv'
<1> USE DEF KeyInv
<1>1. /\ builder.by = NoRing /\ current' = NoRing /\ editor' = [editor EXCEPT ![e] = IdleEditor]
      /\ UNCHANGED <<rows, rings, builder, conn, refused, ids>>
  BY DEF Invalidate, MayInvalidate
<1>2. IdleEditor \in EditorRows /\ IdleEditor.n = 0 /\ IdleEditor.at = "idle" /\ ids \in Nat
  BY KeyRingAssumption DEF IdleEditor, EditorRows, AnySecret, KeyTypeOK
<1>3. KeyTypeOK'
  BY <1>1, <1>2 DEF KeyTypeOK, EditorRows
<1>4. editor \in [Editors -> EditorRows]
  BY DEF KeyTypeOK, EditorRows
<1>5. AppendsBehind'
  <2>1. \A d \in Editors : editor'[d] = editor[d] \/ editor'[d] = IdleEditor
    BY <1>1, <1>4
  <2> QED
    BY <1>1, <1>2, <2>1 DEF AppendsBehind
<1> QED
  BY <1>1, <1>3, <1>5 DEF Pools, RefusedOnly, ConnsKnow, SelectorsFollow

\* The invariant is inductive.
LEMMA KeyStep == KeyInv /\ [KeyNext]_keyVars => KeyInv'
<1> SUFFICES ASSUME KeyInv, [KeyNext]_keyVars PROVE KeyInv'
  OBVIOUS
<1>1. CASE UNCHANGED keyVars
  BY <1>1 DEF keyVars, keyActors, KeyInv, KeyTypeOK, Pools, RefusedOnly, AppendsBehind, ConnsKnow,
              SelectorsFollow, Editing
<1>2. ASSUME NEW c \in Conns,
             \/ GetRing(c) \/ ReadPool(c) \/ BuildRing(c) \/ Pick(c) \/ Answered(c)
             \/ DisableInRing(c) \/ DisableRow(c) \/ Disconnect(c)
      PROVE  KeyInv'
  BY <1>2, ConnLooks, ConnBuilds, ConnPicks, ConnDisables, RowDisabled
<1>3. ASSUME NEW e \in Editors,
             \/ \E v \in Secrets : AppendRead(e, v)
             \/ AppendWrite(e)
             \/ \E V \in SUBSET Secrets : Replace(e, V)
             \/ \E r \in rows : DeleteKey(e, r) \/ SetKeyStatus(e, r, "on") \/ SetKeyStatus(e, r, "off")
             \/ EnableAll(e) \/ DeleteDisabled(e) \/ DeleteAll(e) \/ Invalidate(e)
      PROVE  KeyInv'
  BY <1>3, EditRows, EditAdds, EditDrops
<1> QED
  BY <1>1, <1>2, <1>3 DEF KeyNext

\* A service with one key satisfies it.
LEMMA KeyStart == KeyInit => KeyInv
<1> SUFFICES ASSUME KeyInit PROVE KeyInv
  OBVIOUS
<1>1. LET r == Row(1, 1, AnySecret) IN r \in KeyRows /\ r.id = 1 /\ r.st = "on"
  BY KeyRingAssumption DEF Row, KeyRows, AnySecret, KeyStatuses
<1>2. rows = {Row(1, 1, AnySecret)} /\ ids = 1 /\ current = NoRing /\ builder = Unlocked
  BY DEF KeyInit
<1>3. IdleConn \in ConnRows /\ IdleConn.at = "idle"
  BY KeyRingAssumption DEF IdleConn, ConnRows
<1>4. IdleEditor \in EditorRows /\ IdleEditor.n = 0 /\ IdleEditor.at = "idle"
  BY KeyRingAssumption DEF IdleEditor, EditorRows, AnySecret
<1>5. KeyTypeOK
  <2>1. 1 \in 0 .. MaxIds
    BY KeyRingAssumption
  <2>2. conn \in [Conns -> ConnRows] /\ editor \in [Editors -> EditorRows]
    BY <1>3, <1>4 DEF KeyInit
  <2>3. builder \in [by : Conns \cup {NoRing}, seen : SUBSET KeyRows]
    BY <1>2 DEF Unlocked
  <2>4. rings \in [RingIds -> Rings \cup {NoRing}] /\ refused \in SUBSET (1 .. MaxIds)
    BY DEF KeyInit
  <2> QED
    BY <1>1, <1>2, <2>1, <2>2, <2>3, <2>4 DEF KeyTypeOK, ConnRows, EditorRows
<1>6. Pools
  BY <1>1, <1>2 DEF KeyInit, Pools, Distinct, RefusedOnly, Unlocked
<1>7. AppendsBehind /\ ConnsKnow /\ SelectorsFollow
  BY <1>2, <1>3, <1>4 DEF KeyInit, AppendsBehind, ConnsKnow, SelectorsFollow, Unlocked
<1> QED
  BY <1>5, <1>6, <1>7 DEF KeyInv

\* The table, the selectors and whoever works with them are what they should be; the
\* cursor of a selector always points at one of its keys' places.
THEOREM KeyType == KeySpec => []KeyTypeOK
<1>1. KeyInv => KeyTypeOK
  BY DEF KeyInv
<1> QED
  BY <1>1, KeyStart, KeyStep, PTL DEF KeySpec

\* However many connections share a selector, and whatever is done to the pool
\* between a refusal and its effect, no row is put out of use that was not refused.
THEOREM OnlyRefused == KeySpec => []OnlyRefusedDisabled
<1>1. KeyInv => OnlyRefusedDisabled
  BY DEF KeyInv, Pools, RefusedOnly, OnlyRefusedDisabled
<1> QED
  BY <1>1, KeyStart, KeyStep, PTL DEF KeySpec

\* No edit is lost on the selector that is registered, although selectors are built
\* from rows that were read before the edit.
THEOREM EditsReachRing == KeySpec => []RingFollowsEdits
<1>1. KeyInv => RingFollowsEdits
  BY DEF KeyInv, SelectorsFollow, Follows, RingFollowsEdits
<1> QED
  BY <1>1, KeyStart, KeyStep, PTL DEF KeySpec

-----------------------------------------------------------------------------
(* The blob store.                                                          *)

\* Rows are told apart by their ids, pending ones are slots, and who deletes a row
\* knows its blob.
RowsNamed ==
  /\ \A a \in uploads : a.id <= uploadNo /\ (a.pending => a.blob \in Slots)
  /\ \A a, b \in uploads : a.id = b.id => a.blob = b.blob
ErasersNamed ==
  \A d \in Erasers :
    /\ erasing[d].id <= uploadNo
    /\ erasing[d].at \in {"delete", "reap"} => \A a \in uploads : a.id = erasing[d].id => a.blob = erasing[d].blob
    /\ erasing[d].at = "reap" => erasing[d].blob \in Slots

BlobInv == BlobTypeOK /\ RowsNamed /\ ErasersNamed /\ NoOrphanBlob

SaverRows == [at : {"idle", "count", "put", "create", "recover", "slotPut", "mark"},
              blob : BlobKeys, owner : Uploaders]
EraserRows == [at : {"idle", "delete", "reap", "count", "erase"}, id : 0 .. MaxUploads, blob : BlobKeys]

\* The records of the idle are of their types.
LEMMA IdleBlobRows ==
  /\ IdleSaver \in SaverRows /\ IdleSaver.at = "idle"
  /\ IdleEraser \in EraserRows /\ IdleEraser.at = "idle" /\ IdleEraser.id = 0
BY BlobKeysAssumption, BlobBoundAssumption DEF IdleSaver, SaverRows, IdleEraser, EraserRows, BlobKeys

\* A saver's step that touches no row and no blob keeps the invariant, if the saver
\* does not walk away from a blob.
LEMMA SaverMoves ==
  ASSUME BlobInv, NEW s \in Savers, NEW x \in SaverRows, saving' = [saving EXCEPT ![s] = x],
         uploads' = uploads, erasing' = erasing, uploadNo' = uploadNo, blobs' \in SUBSET BlobKeys,
         opened' \in SUBSET Slots, adrift' \in SUBSET BlobKeys, adrift \subseteq adrift',
         \A k \in blobs' \ adrift' :
           \/ k \in blobs /\ ~ (saving[s].at \in {"create", "mark"} /\ saving[s].blob = k)
           \/ References(k) # {}
           \/ x.at \in {"create", "mark"} /\ x.blob = k
  PROVE  BlobInv'
<1>1. saving \in [Savers -> SaverRows]
  BY DEF BlobInv, BlobTypeOK, SaverRows
<1>2. saving' \in [Savers -> SaverRows] /\ saving'[s] = x /\ \A t \in Savers \ {s} : saving'[t] = saving[t]
  BY <1>1
<1>3. BlobTypeOK'
  BY <1>2 DEF BlobInv, BlobTypeOK, SaverRows
<1>4. ASSUME NEW k \in blobs' \ adrift' PROVE References(k)' # {} \/ SavedFor(k)' \/ ErasedFor(k)'
  <2>1. /\ References(k)' = References(k) /\ (ErasedFor(k)' <=> ErasedFor(k))
        /\ \A t \in Savers \ {s} : saving[t].at \in {"create", "mark"} /\ saving[t].blob = k => SavedFor(k)'
        /\ x.at \in {"create", "mark"} /\ x.blob = k => SavedFor(k)'
    BY <1>2 DEF References, ErasedFor, SavedFor
  <2>2. CASE k \in blobs /\ ~ (saving[s].at \in {"create", "mark"} /\ saving[s].blob = k)
    <3>1. References(k) # {} \/ SavedFor(k) \/ ErasedFor(k)
      BY <1>4, <2>2 DEF BlobInv, NoOrphanBlob
    <3> QED
      BY <2>1, <2>2, <3>1 DEF SavedFor
  <2> QED
    BY <1>4, <2>1, <2>2
<1> QED
  BY <1>3, <1>4 DEF BlobInv, RowsNamed, ErasersNamed, NoOrphanBlob

\* Saving the content of an image.
LEMMA ImageSaverStep ==
  ASSUME BlobInv, NEW s \in Savers,
         \/ \E k \in Contents, o \in Uploaders : SaveLookup(s, k, o)
         \/ SaveCount(s) \/ SavePut(s) \/ SaveRecover(s)
         \/ \E k \in Slots : SlotCheck(s, k)
         \/ SlotPut(s)
  PROVE  BlobInv'
<1> DEFINE x == saving[s]
<1>1. x \in SaverRows /\ blobs \in SUBSET BlobKeys /\ opened \in SUBSET Slots /\ adrift \in SUBSET BlobKeys
  BY DEF BlobInv, BlobTypeOK, SaverRows
<1>2. ASSUME NEW k \in Contents, NEW o \in Uploaders, SaveLookup(s, k, o) PROVE BlobInv'
  <2> DEFINE y == [at |-> "count", blob |-> k, owner |-> o]
  <2>1. y \in SaverRows /\ y.at = "count"
    BY DEF SaverRows, BlobKeys
  <2> HIDE DEF y
  <2>2. /\ x.at = "idle" /\ saving' = [saving EXCEPT ![s] = y]
        /\ UNCHANGED <<uploads, blobs, erasing, opened, uploadNo, adrift>>
    BY <1>2 DEF SaveLookup, y
  <2> QED
    BY <1>1, <2>1, <2>2, SaverMoves
<1>3. ASSUME NEW l \in {"put", "create", "recover", "mark"}, SaverAt(s, l),
             UNCHANGED <<uploads, erasing, opened, uploadNo, adrift>>,
             blobs' \in {blobs, blobs \cup {x.blob}}, x.at \notin {"create", "mark"},
             blobs' # blobs => l \in {"create", "mark"}
      PROVE  BlobInv'
  <2> DEFINE y == [x EXCEPT !.at = l]
  <2>1. y \in SaverRows /\ y.at = l /\ y.blob = x.blob /\ x.blob \in BlobKeys
    BY <1>1 DEF SaverRows
  <2>2. saving' = [saving EXCEPT ![s] = y]
    BY <1>3 DEF SaverAt
  <2> HIDE DEF y
  <2>3. \A k \in blobs' : k \in blobs \/ (k = x.blob /\ l \in {"create", "mark"})
    BY <1>3
  <2>4. blobs' \in SUBSET BlobKeys
    BY <1>1, <1>3, <2>1
  <2> QED
    BY <1>1, <1>3, <2>1, <2>2, <2>3, <2>4, SaverMoves
<1>4. CASE SaveCount(s)
  <2>1. PICK l \in {"put", "create"} : SaverAt(s, l)
    BY <1>4 DEF SaveCount
  <2> QED
    BY <1>3, <1>4, <2>1 DEF SaveCount
<1>5. CASE SavePut(s)
  BY <1>3, <1>5 DEF SavePut
<1>6. ASSUME SaverDone(s), x.at \notin {"create", "mark"},
             UNCHANGED <<uploads, blobs, erasing, opened, uploadNo, adrift>>
      PROVE  BlobInv'
  BY <1>1, <1>6, IdleBlobRows, SaverMoves DEF SaverDone
<1>7. CASE SaveRecover(s)
  BY <1>6, <1>7 DEF SaveRecover
<1>8. ASSUME NEW k \in Slots, SlotCheck(s, k) PROVE BlobInv'
  <2> DEFINE y == [IdleSaver EXCEPT !.at = "slotPut", !.blob = k]
  <2>1. y \in SaverRows /\ y.at = "slotPut"
    BY IdleBlobRows DEF SaverRows, BlobKeys
  <2>2. /\ x.at = "idle" /\ saving' = [saving EXCEPT ![s] = y]
        /\ UNCHANGED <<uploads, blobs, erasing, opened, uploadNo, adrift>>
    BY <1>8 DEF SlotCheck
  <2> HIDE DEF y
  <2> QED
    BY <1>1, <2>1, <2>2, SaverMoves
<1>9. CASE SlotPut(s)
  BY <1>3, <1>6, <1>9 DEF SlotPut
<1> QED
  BY <1>2, <1>4, <1>5, <1>7, <1>8, <1>9

\* A row is added, for a saver that is done or for a slot.
LEMMA UploadAdded ==
  ASSUME BlobInv, NEW k \in BlobKeys, NEW o \in Uploaders, NEW p \in BOOLEAN, AddUpload(k, o, p),
         p => k \in Slots, blobs' = blobs, erasing' = erasing, adrift' = adrift, opened' \in SUBSET Slots,
         \/ saving' = saving
         \/ \E s \in Savers : saving[s].blob = k /\ saving' = [saving EXCEPT ![s] = IdleSaver]
  PROVE  BlobInv'
<1> DEFINE a == [id |-> uploadNo + 1, blob |-> k, owner |-> o, pending |-> p]
<1>1. /\ uploadNo \in Nat /\ uploadNo + 1 \in 1 .. MaxUploads /\ uploadNo' = uploadNo + 1
      /\ uploads' = uploads \cup {a} /\ uploads \in SUBSET Uploads
  BY BlobBoundAssumption DEF BlobInv, BlobTypeOK, AddUpload
<1>2. a \in Uploads /\ a.id = uploadNo + 1 /\ a.blob = k /\ a.pending = p
  BY <1>1 DEF Uploads
<1> HIDE DEF a
<1>3. uploads' \in SUBSET Uploads /\ \A b \in uploads' : b \in uploads \/ b = a
  BY <1>1, <1>2
<1>4. saving' \in [Savers -> SaverRows] /\ \A s \in Savers : saving'[s] = saving[s] \/ saving[s].blob = k
  <2>1. saving \in [Savers -> SaverRows]
    BY DEF BlobInv, BlobTypeOK, SaverRows
  <2> QED
    BY <2>1, IdleBlobRows
<1>5. BlobTypeOK'
  BY <1>1, <1>3, <1>4 DEF BlobInv, BlobTypeOK, SaverRows
<1>6. \A b \in uploads : b.id \in Nat /\ b.id <= uploadNo
  BY <1>1 DEF BlobInv, RowsNamed, Uploads
<1>7. RowsNamed'
  <2>1. \A b \in uploads' : b.id <= uploadNo' /\ (b.pending => b.blob \in Slots)
    BY <1>1, <1>2, <1>3, <1>6 DEF BlobInv, RowsNamed
  <2>2. \A b \in uploads : b.id # a.id
    BY <1>1, <1>2, <1>6
  <2>3. \A b, c \in uploads' : b.id = c.id => b.blob = c.blob
    BY <1>3, <2>2 DEF BlobInv, RowsNamed
  <2> QED
    BY <2>1, <2>3 DEF RowsNamed
<1>8. ErasersNamed'
  <2>1. \A d \in Erasers : erasing[d].id \in Nat /\ erasing[d].id <= uploadNo
    BY BlobBoundAssumption DEF BlobInv, BlobTypeOK, ErasersNamed
  <2>2. \A d \in Erasers : erasing[d].id <= uploadNo' /\ erasing[d].id # a.id
    BY <1>1, <1>2, <2>1
  <2> QED
    BY <1>3, <2>2 DEF BlobInv, ErasersNamed
<1>9. ASSUME NEW h \in blobs' \ adrift' PROVE References(h)' # {} \/ SavedFor(h)' \/ ErasedFor(h)'
  <2>1. CASE h = k
    BY <1>1, <1>2, <2>1 DEF References
  <2>2. CASE h # k
    <3>1. References(h) # {} \/ SavedFor(h) \/ ErasedFor(h)
      BY <1>9 DEF BlobInv, NoOrphanBlob
    <3>2. References(h) \subseteq References(h)'
      BY <1>1 DEF References
    <3>3. SavedFor(h) => SavedFor(h)'
      BY <1>4, <2>2 DEF SavedFor
    <3>4. ErasedFor(h) => ErasedFor(h)'
      BY DEF ErasedFor
    <3> QED
      BY <3>1, <3>2, <3>3, <3>4
  <2> QED
    BY <2>1, <2>2
<1> QED
  BY <1>5, <1>7, <1>8, <1>9 DEF BlobInv, NoOrphanBlob

\* The row of an image: written, refused because the owner has one, or failed.
LEMMA RowCreated ==
  ASSUME BlobInv, NEW s \in Savers, SaveCreate(s)
  PROVE  BlobInv'
<1> DEFINE x == saving[s]
<1>1. /\ x \in SaverRows /\ x.at = "create" /\ blobs \in SUBSET BlobKeys /\ opened \in SUBSET Slots
      /\ adrift \in SUBSET BlobKeys /\ UNCHANGED <<blobs, erasing, opened>>
      /\ x.blob \in BlobKeys /\ x.owner \in Uploaders
  BY DEF BlobInv, BlobTypeOK, SaverRows, SaveCreate
<1>2. CASE AddUpload(x.blob, x.owner, FALSE) /\ SaverDone(s) /\ UNCHANGED adrift
  BY <1>1, <1>2, UploadAdded DEF SaverDone
<1>3. CASE /\ SaverAt(s, "recover")
           /\ adrift' = IF OwnedBy(x.owner, x.blob) = {} THEN adrift \cup {x.blob} ELSE adrift
           /\ UNCHANGED <<uploads, uploadNo>>
  <2> DEFINE y == [x EXCEPT !.at = "recover"]
  <2>1. y \in SaverRows /\ y.at = "recover" /\ saving' = [saving EXCEPT ![s] = y]
    BY <1>1, <1>3 DEF SaverRows, SaverAt
  <2>2. References(x.blob) # {} \/ x.blob \in adrift'
    BY <1>3 DEF OwnedBy
  <2>3. \A k \in blobs' \ adrift' : References(k) # {} \/ (k \in blobs /\ k # x.blob)
    BY <1>1, <2>2
  <2>4. adrift' \in SUBSET BlobKeys /\ adrift \subseteq adrift'
    BY <1>1, <1>3
  <2> HIDE DEF y
  <2> QED
    BY <1>1, <1>3, <2>1, <2>3, <2>4, SaverMoves
<1> QED
  BY <1>2, <1>3 DEF SaveCreate

\* The slot is marked as uploaded, the blob taken back, or both fail.
LEMMA SlotMarked ==
  ASSUME BlobInv, NEW s \in Savers, SlotMark(s)
  PROVE  BlobInv'
<1> DEFINE x == saving[s]
           k == saving[s].blob
<1>1. /\ x \in SaverRows /\ x.at = "mark" /\ blobs \in SUBSET BlobKeys /\ opened \in SUBSET Slots
      /\ adrift \in SUBSET BlobKeys /\ UNCHANGED <<erasing, opened, uploadNo>> /\ SaverDone(s)
      /\ k \in BlobKeys /\ saving \in [Savers -> SaverRows] /\ uploads \in SUBSET Uploads
  BY DEF BlobInv, BlobTypeOK, SaverRows, SlotMark
<1>2. CASE blobs' = blobs \ {k} /\ UNCHANGED <<uploads, adrift>>
  <2>1. \A h \in blobs' \ adrift' : h \in blobs /\ h # k
    BY <1>2
  <2> QED
    BY <1>1, <1>2, <2>1, IdleBlobRows, SaverMoves DEF SaverDone
<1>3. CASE adrift' = adrift \cup {k} /\ UNCHANGED <<uploads, blobs>>
  <2>1. \A h \in blobs' \ adrift' : h \in blobs /\ h # k
    BY <1>3
  <2> QED
    BY <1>1, <1>3, <2>1, IdleBlobRows, SaverMoves DEF SaverDone
<1>4. CASE /\ uploads' = {[a EXCEPT !.pending = @ /\ a.blob # k] : a \in uploads}
           /\ adrift' = IF References(k) = {} THEN adrift \cup {k} ELSE adrift
           /\ UNCHANGED blobs
  <2>1. \A a \in uploads : [a EXCEPT !.pending = @ /\ a.blob # k] \in uploads'
    BY <1>4
  <2>2. ASSUME NEW a \in uploads
        PROVE  LET b == [a EXCEPT !.pending = @ /\ a.blob # k] IN
               b \in Uploads /\ b.id = a.id /\ b.blob = a.blob /\ (b.pending => a.pending)
    BY <1>1 DEF Uploads
  <2>3. \A b \in uploads' : \E a \in uploads : b = [a EXCEPT !.pending = @ /\ a.blob # k]
    BY <1>4
  <2>4. /\ uploads' \in SUBSET Uploads
        /\ \A b \in uploads' : \E a \in uploads : b.id = a.id /\ b.blob = a.blob /\ (b.pending => a.pending)
    <3> SUFFICES ASSUME NEW b \in uploads'
                 PROVE  /\ b \in Uploads
                        /\ \E a \in uploads : b.id = a.id /\ b.blob = a.blob /\ (b.pending => a.pending)
      OBVIOUS
    <3>1. PICK a \in uploads : b = [a EXCEPT !.pending = @ /\ a.blob # k]
      BY <2>3
    <3>2. b \in Uploads /\ b.id = a.id /\ b.blob = a.blob /\ (b.pending => a.pending)
      BY <2>2, <3>1
    <3> QED
      BY <3>2
  <2>5. \A a \in uploads : \E b \in uploads' : b.blob = a.blob
    BY <2>1, <2>2
  <2>6. /\ saving' \in [Savers -> SaverRows]
        /\ \A t \in Savers \ {s} : saving'[t] = saving[t]
    BY <1>1, IdleBlobRows DEF SaverDone
  <2>7. adrift' \in SUBSET BlobKeys /\ adrift \subseteq adrift'
    BY <1>1, <1>4
  <2>8. BlobTypeOK'
    BY <1>1, <1>4, <2>4, <2>6, <2>7 DEF BlobInv, BlobTypeOK, SaverRows
  <2>9. RowsNamed'
    BY <1>1, <2>4 DEF BlobInv, RowsNamed
  <2>10. ErasersNamed'
    BY <1>1, <2>4 DEF BlobInv, ErasersNamed
  <2>11. ASSUME NEW h \in blobs' \ adrift' PROVE References(h)' # {} \/ SavedFor(h)' \/ ErasedFor(h)'
    <3>1. References(h) # {} => References(h)' # {}
      BY <2>5 DEF References
    <3>2. h = k => References(h) # {}
      BY <1>4, <2>11
    <3>3. h \in blobs \ adrift
      BY <1>4, <2>7, <2>11
    <3>4. References(h) # {} \/ SavedFor(h) \/ ErasedFor(h)
      BY <3>3 DEF BlobInv, NoOrphanBlob
    <3>5. h # k /\ SavedFor(h) => SavedFor(h)'
      BY <2>6 DEF SavedFor
    <3>6. ErasedFor(h) => ErasedFor(h)'
      BY <1>1 DEF ErasedFor
    <3> QED
      BY <3>1, <3>2, <3>4, <3>5, <3>6
  <2> QED
    BY <2>8, <2>9, <2>10, <2>11 DEF BlobInv, NoOrphanBlob
<1> QED
  BY <1>2, <1>3, <1>4 DEF SlotMark

\* A slot is given out with a row of its own.
LEMMA SlotOpened ==
  ASSUME BlobInv, NEW k \in Slots, NEW o \in Uploaders, OpenSlot(k, o)
  PROVE  BlobInv'
<1>1. k \in BlobKeys /\ opened' \in SUBSET Slots
  BY DEF BlobKeys, OpenSlot, BlobInv, BlobTypeOK
<1> QED
  BY <1>1, UploadAdded DEF OpenSlot

\* An eraser's step that removes no blob it does not account for: the rows that go
\* are those of the id it has in hand.
LEMMA EraserMoves ==
  ASSUME BlobInv, NEW d \in Erasers, NEW x \in EraserRows, erasing' = [erasing EXCEPT ![d] = x],
         saving' = saving, opened' = opened, uploadNo' = uploadNo, blobs' \subseteq blobs,
         uploads' \subseteq uploads, adrift \subseteq adrift', adrift' \in SUBSET BlobKeys,
         x.id <= uploadNo,
         x.at \in {"delete", "reap"} => \A a \in uploads : a.id = x.id => a.blob = x.blob,
         x.at = "reap" => x.blob \in Slots,
         \A k \in blobs' \ adrift' :
           \/ x.at \in {"count", "erase"} /\ x.blob = k
           \/ References(k)' # {}
           \/ References(k)' = References(k) /\ ~ (erasing[d].at \in {"count", "erase"} /\ erasing[d].blob = k)
  PROVE  BlobInv'
<1>1. erasing \in [Erasers -> EraserRows]
  BY DEF BlobInv, BlobTypeOK, EraserRows
<1>2. erasing' \in [Erasers -> EraserRows] /\ erasing'[d] = x /\ \A e \in Erasers \ {d} : erasing'[e] = erasing[e]
  BY <1>1
<1>3. BlobTypeOK'
  BY <1>2 DEF BlobInv, BlobTypeOK, EraserRows
<1>4. RowsNamed'
  BY DEF BlobInv, RowsNamed
<1>5. ErasersNamed'
  BY <1>2 DEF BlobInv, ErasersNamed
<1>6. ASSUME NEW k \in blobs' \ adrift' PROVE References(k)' # {} \/ SavedFor(k)' \/ ErasedFor(k)'
  <2>1. /\ SavedFor(k) => SavedFor(k)'
        /\ x.at \in {"count", "erase"} /\ x.blob = k => ErasedFor(k)'
        /\ ~ (erasing[d].at \in {"count", "erase"} /\ erasing[d].blob = k) /\ ErasedFor(k) => ErasedFor(k)'
    BY <1>2 DEF SavedFor, ErasedFor
  <2>2. References(k) # {} \/ SavedFor(k) \/ ErasedFor(k)
    BY <1>6 DEF BlobInv, NoOrphanBlob
  <2> QED
    BY <1>6, <2>1, <2>2
<1> QED
  BY <1>3, <1>4, <1>5, <1>6 DEF BlobInv, NoOrphanBlob

\* Deleting a row, counting what is left of its blob, erasing it.
LEMMA EraserStep ==
  ASSUME BlobInv, NEW d \in Erasers,
         \/ \E a \in uploads : ListUpload(d, a)
         \/ DeleteUpload(d) \/ ReapSlot(d) \/ CountReferences(d) \/ EraseBlob(d)
  PROVE  BlobInv'
<1> DEFINE z == erasing[d]
<1>1. /\ z \in EraserRows /\ z.blob \in BlobKeys /\ z.id <= uploadNo /\ 0 <= uploadNo
      /\ adrift \in SUBSET BlobKeys /\ uploads \in SUBSET Uploads
      /\ erasing \in [Erasers -> EraserRows]
  BY BlobBoundAssumption DEF BlobInv, BlobTypeOK, EraserRows, ErasersNamed
<1>2. ASSUME NEW a \in uploads, ListUpload(d, a) PROVE BlobInv'
  <2>1. PICK l \in {"delete"} \cup (IF UploadAbandoned(a) THEN {"reap"} ELSE {}) :
          erasing' = [erasing EXCEPT ![d] = [at |-> l, id |-> a.id, blob |-> a.blob]]
    BY <1>2 DEF ListUpload
  <2> DEFINE y == [at |-> l, id |-> a.id, blob |-> a.blob]
  <2>2. /\ a.id \in 1 .. MaxUploads /\ a.blob \in BlobKeys /\ a.id <= uploadNo
        /\ (l = "reap" => a.blob \in Slots) /\ l \in {"delete", "reap"}
        /\ \A b \in uploads : b.id = a.id => b.blob = a.blob
    BY <1>1, <2>1 DEF Uploads, BlobInv, RowsNamed, UploadAbandoned
  <2>3. y \in EraserRows /\ y.at = l /\ y.id = a.id /\ y.blob = a.blob
    <3>1. a.id \in 0 .. MaxUploads
      BY <2>2, BlobBoundAssumption
    <3> QED
      BY <2>2, <3>1 DEF EraserRows
  <2> HIDE DEF y
  <2>4. z.at = "idle" /\ UNCHANGED <<uploads, blobs, saving, opened, uploadNo, adrift>>
    BY <1>2 DEF ListUpload
  <2>5. erasing' = [erasing EXCEPT ![d] = y]
    BY <2>1 DEF y
  <2>6. \A k \in blobs' \ adrift' :
          References(k)' = References(k) /\ ~ (erasing[d].at \in {"count", "erase"} /\ erasing[d].blob = k)
    BY <2>4 DEF References
  <2>7. /\ y.id <= uploadNo
        /\ (y.at \in {"delete", "reap"} => \A b \in uploads : b.id = y.id => b.blob = y.blob)
        /\ (y.at = "reap" => y.blob \in Slots)
    <3>1. y.blob = a.blob
      BY DEF y
    <3> QED
      BY <2>2, <2>3, <3>1
  <2>8. blobs' \subseteq blobs /\ uploads' \subseteq uploads /\ adrift \subseteq adrift' /\ adrift' \in SUBSET BlobKeys
    BY <1>1, <2>4
  <2> QED
    BY <2>3, <2>4, <2>5, <2>6, <2>7, <2>8, EraserMoves
<1>3. ASSUME NEW l \in {"count", "erase"}, EraserAt(d, l), UNCHANGED <<blobs, saving, opened, uploadNo, adrift>>,
             uploads' \subseteq uploads,
             \A a \in uploads : a \notin uploads' => a.blob = z.blob
      PROVE  BlobInv'
  <2> DEFINE y == [z EXCEPT !.at = l]
  <2>1. y \in EraserRows /\ y.at = l /\ y.id = z.id /\ y.blob = z.blob /\ erasing' = [erasing EXCEPT ![d] = y]
    BY <1>1, <1>3 DEF EraserRows, EraserAt
  <2>2. ASSUME NEW k, k # z.blob PROVE References(k)' = References(k)
    BY <1>3, <2>2 DEF References
  <2> HIDE DEF y
  <2> QED
    BY <1>1, <1>3, <2>1, <2>2, EraserMoves
<1>4. CASE DeleteUpload(d)
  <2>1. /\ z.at = "delete" /\ EraserAt(d, "count") /\ uploads' = {a \in uploads : a.id # z.id}
        /\ UNCHANGED <<blobs, saving, opened, uploadNo, adrift>>
    BY <1>4 DEF DeleteUpload
  <2>2. \A a \in uploads : a.id = z.id => a.blob = z.blob
    BY <2>1 DEF BlobInv, ErasersNamed
  <2> QED
    BY <1>3, <2>1, <2>2
<1>5. ASSUME EraserDone(d), UNCHANGED <<saving, opened, uploadNo>>, blobs' \subseteq blobs, uploads' \subseteq uploads,
             adrift \subseteq adrift', adrift' \in SUBSET BlobKeys,
             \A k \in blobs' \ adrift' :
               References(k)' # {} \/ (k # z.blob /\ References(k)' = References(k))
      PROVE  BlobInv'
  BY <1>1, <1>5, IdleBlobRows, EraserMoves DEF EraserDone
<1>6. CASE ReapSlot(d)
  <2>1. /\ z.at = "reap" /\ EraserDone(d) /\ uploads' = {a \in uploads : a.id # z.id}
        /\ adrift' = adrift \cup (blobs \cap Slots \cap {z.blob})
        /\ UNCHANGED <<blobs, saving, opened, uploadNo>>
    BY <1>6 DEF ReapSlot
  <2>2. z.blob \in Slots /\ \A a \in uploads : a.id = z.id => a.blob = z.blob
    BY <2>1 DEF BlobInv, ErasersNamed
  <2>3. ASSUME NEW k, k # z.blob PROVE References(k)' = References(k)
    BY <2>1, <2>2, <2>3 DEF References
  <2>4. \A k \in blobs' \ adrift' : k # z.blob
    BY <2>1, <2>2
  <2>5. uploads' \subseteq uploads /\ adrift \subseteq adrift' /\ adrift' \in SUBSET BlobKeys
    BY <1>1, <2>1
  <2> QED
    BY <1>5, <2>1, <2>3, <2>4, <2>5
<1>7. CASE CountReferences(d)
  <2>1. UNCHANGED <<uploads, blobs, saving, opened, uploadNo>> /\ \A k : References(k)' = References(k)
    BY <1>7 DEF CountReferences, References
  <2>2. CASE EraserAt(d, "erase") /\ UNCHANGED adrift
    BY <1>3, <2>1, <2>2
  <2>3. CASE References(z.blob) # {} /\ EraserDone(d) /\ UNCHANGED adrift
    BY <1>1, <1>5, <2>1, <2>3
  <2>4. CASE EraserDone(d) /\ adrift' = adrift \cup {z.blob}
    BY <1>1, <1>5, <2>1, <2>4
  <2> QED
    BY <1>7, <2>2, <2>3, <2>4 DEF CountReferences
<1>8. CASE EraseBlob(d)
  <2>1. /\ UNCHANGED <<uploads, saving, opened, uploadNo>> /\ EraserDone(d)
        /\ \A k : References(k)' = References(k)
        /\ \/ blobs' = blobs \ {z.blob} /\ UNCHANGED adrift
           \/ adrift' = adrift \cup {z.blob} /\ UNCHANGED blobs
    BY <1>8 DEF EraseBlob, References
  <2> QED
    BY <1>1, <1>5, <2>1
<1> QED
  BY <1>2, <1>4, <1>6, <1>7, <1>8

\* The invariant is inductive.
LEMMA BlobStep == BlobInv /\ [BlobNext]_blobVars => BlobInv'
<1> SUFFICES ASSUME BlobInv, [BlobNext]_blobVars PROVE BlobInv'
  OBVIOUS
<1>1. CASE UNCHANGED blobVars
  BY <1>1 DEF blobVars, BlobInv, BlobTypeOK, RowsNamed, ErasersNamed, NoOrphanBlob, References, SavedFor, ErasedFor
<1>2. CASE BlobNext
  BY <1>2, ImageSaverStep, RowCreated, SlotMarked, SlotOpened, EraserStep DEF BlobNext
<1> QED
  BY <1>1, <1>2

\* An empty store satisfies it.
LEMMA BlobStart == BlobInit => BlobInv
<1> SUFFICES ASSUME BlobInit PROVE BlobInv
  OBVIOUS
<1>1. BlobTypeOK
  BY IdleBlobRows, BlobBoundAssumption DEF BlobInit, BlobTypeOK, SaverRows, EraserRows
<1>2. RowsNamed /\ NoOrphanBlob
  BY DEF BlobInit, RowsNamed, NoOrphanBlob
<1>3. ErasersNamed
  BY IdleBlobRows DEF BlobInit, ErasersNamed
<1> QED
  BY <1>1, <1>2, <1>3 DEF BlobInv

\* The rows and blobs of the store, its savers and its erasers stay in their declared sets.
THEOREM BlobType == BlobSpec => []BlobTypeOK
<1>1. BlobInv => BlobTypeOK
  BY DEF BlobInv
<1> QED
  BY <1>1, BlobStart, BlobStep, PTL DEF BlobSpec

\* However savers and clean-ups interleave, every blob has a row, or somebody who is
\* about to write its row or to erase it, or a step failed or came too late for it.
THEOREM BlobsOwned == BlobSpec => []NoOrphanBlob
<1>1. BlobInv => NoOrphanBlob
  BY DEF BlobInv
<1> QED
  BY <1>1, BlobStart, BlobStep, PTL DEF BlobSpec

-----------------------------------------------------------------------------
(* The marketplace: what its two safety properties need to be inductive.     *)

EditPoints == {"gate", "save", "saveOff", "clean", "unlink", "remove"}

\* Before the item is published nobody has or does anything with it.
BornFirst ==
  /\ item.live => item.born
  /\ ~item.born => /\ Installed = {}
                   /\ \A r \in Requests : ask[r].at = "idle"
                   /\ \A a \in Admins : admin[a].at \notin {"save", "store"}
  /\ \A a \in Admins : admin[a].at = "save" => admin[a].item.live /\ admin[a].item.born

\* Edits and deletions hold the lock of a reference that is there, alone.
LocksHeld ==
  \A r \in Requests : ask[r].at \in EditPoints =>
    /\ ask[r].ref \in Installed /\ ask[r].ref \in locked
    /\ \A q \in Requests \ {r} : ask[q].at \in EditPoints => ask[q].ref # ask[r].ref

\* A row that a later statement names is there, or is known to be gone; a name
\* without a row is not on.
RowsThere ==
  /\ \A r \in Requests : ask[r].at \in {"enable", "store"} => ask[r].ref \in Installed \cup {0}
  /\ \A n \in Names : refs[n].on => refs[n].here

NamesChosen == \A r \in Requests : ask[r].at = "insert" => ask[r].ref \in Names

\* What was read and not overtaken is still so.
AdminCurrent ==
  \A a \in Admins : admin[a].at = "save" /\ admin[a].fresh =>
    /\ item.live
    /\ ~admin[a].push => admin[a].item.snap = item.snap
    /\ IF admin[a].off THEN ~admin[a].item.on ELSE admin[a].item.on \/ ~item.on

InstallCurrent ==
  \A r \in Requests : ask[r].fresh =>
    /\ ask[r].at \in {"look", "enable", "name", "insert"} => Offering
    /\ ask[r].at \in {"look", "name", "insert", "store"} => ask[r].snap = item.snap

EditCurrent ==
  \A r \in Requests : ask[r].fresh =>
    /\ ask[r].at = "gate" => ask[r].snap = refs[ask[r].ref].snap
    /\ ask[r].at \in {"save", "saveOff"} => ask[r].snap = refs[ask[r].ref].snap
    /\ ask[r].at = "save" =>
         IF ask[r].on THEN refs[ask[r].ref].on \/ Offering ELSE ~refs[ask[r].ref].on
  
\* A request that disables has the status off.
OffIsOff == \A r \in Requests : ask[r].at = "saveOff" => ~ask[r].on

MarketInv ==
  /\ MarketTypeOK /\ BornFirst /\ LocksHeld /\ RowsThere /\ NamesChosen
  /\ AdminCurrent /\ InstallCurrent /\ EditCurrent /\ OffIsOff
  /\ ReferencesFollowItem

\* The loader has read the price that stands, or its change is to be announced.
PriceInv ==
  /\ NoStalePrice
  /\ loading # 0 => \/ item.live /\ loading = item.price
                    \/ \E a \in Admins : admin[a].at = "invalidate"

-----------------------------------------------------------------------------
(* Steps.                                                                   *)

\* The steps of a request, and of the user.
InstallStep(r) == AddRead(r) \/ AddLook(r) \/ AddEnable(r) \/ AddName(r) \/ AddInsert(r)

EditStep(r) ==
  \/ EditGate(r) \/ EditSave(r) \/ EditClean(r)
  \/ DeleteUnlink(r) \/ DeleteRemove(r) \/ SyncStore(r)
  \/ \E n \in Names : EditRead(r, n) \/ DeleteRead(r, n) \/ SyncRead(r, n)

UserStep ==
  \/ \E r \in Requests : InstallStep(r) \/ EditStep(r)
  \/ \E n \in Names : AddServices(n) \/ RemoveService(n)

\* The steps of the session pool.
PoolStep == \E S \in SUBSET Installed, v \in Snaps : PoolStores(S, v)

\* The steps of an administrator.
AdminStep(a) ==
  \/ \E p \in PriceTags : Publish(a, p)
  \/ ReadItem(a) \/ SaveItem(a) \/ DeleteItem(a)
  \/ FetchSnapshots(a) \/ StoreSnapshots(a)
  \/ BatchUpdatePricing(a) \/ SetItemEntryPrices(a) \/ InvalidatePricingCacheItem(a)

\* The user touches neither the item nor its prices.
LEMMA UserKeepsItem == UserStep => MarketRest
BY DEF UserStep, InstallStep, EditStep, AddRead, AddLook, AddEnable, AddName, AddInsert, EditGate, EditSave, EditClean,
       DeleteUnlink, DeleteRemove, SyncStore, EditRead, DeleteRead, SyncRead, AddServices,
       RemoveService

\* Every step is one of these.
LEMMA NextCases ==
  MarketNext => \/ \E a \in Admins : AdminStep(a)
                \/ UpstreamChanges \/ LoadItem \/ LoadEntries \/ PriceExpires
                \/ UserStep \/ PoolStep
BY DEF MarketNext, AdminStep, UserStep, InstallStep, EditStep, PoolStep

-----------------------------------------------------------------------------
(* The price cache.                                                         *)

\* NoStalePrice holds initially.
LEMMA PriceInit == MarketInit => PriceInv
BY DEF MarketInit, PriceInv, NoStalePrice

\* An administrator who has changed the item, or a price, has yet to say so.
LEMMA PriceAdmin ==
  ASSUME MarketTypeOK, PriceInv, NEW a \in Admins,
         AdminStep(a)
  PROVE  PriceInv'
<1> USE DEF MarketTypeOK, PriceInv, NoStalePrice, priceVars, refVars, strayVars, Items,
            Overtake, Invalidating, IdleAdmin, NoItem
<1>1. ASSUME NEW p \in PriceTags, Publish(a, p) PROVE PriceInv'
  BY <1>1 DEF Publish
<1>2. CASE ReadItem(a)
  BY <1>2 DEF ReadItem, ReadItemAs
<1>3. CASE SaveItem(a)
  BY <1>3 DEF SaveItem
<1>4. CASE DeleteItem(a)
  BY <1>4 DEF DeleteItem
<1>5. CASE FetchSnapshots(a)
  BY <1>5 DEF FetchSnapshots
<1>6. CASE StoreSnapshots(a)
  BY <1>6 DEF StoreSnapshots
<1>7. CASE BatchUpdatePricing(a)
  BY <1>7 DEF BatchUpdatePricing
<1>8. CASE SetItemEntryPrices(a)
  BY <1>8 DEF SetItemEntryPrices
<1>9. CASE InvalidatePricingCacheItem(a)
  BY <1>9 DEF InvalidatePricingCacheItem
<1> QED
  BY <1>1, <1>2, <1>3, <1>4, <1>5, <1>6, <1>7, <1>8, <1>9 DEF AdminStep

\* A load fills the cache with what it read under the lock.
LEMMA PriceLoad ==
  ASSUME MarketTypeOK, PriceInv, LoadItem \/ LoadEntries \/ PriceExpires
  PROVE  PriceInv'
<1> USE DEF MarketTypeOK, PriceInv, NoStalePrice, priceVars, refVars, strayVars, Items
<1>1. CASE LoadItem
  BY <1>1 DEF LoadItem
<1>2. CASE LoadEntries
  BY <1>2 DEF LoadEntries
<1>3. CASE PriceExpires
  BY <1>3 DEF PriceExpires
<1> QED
  BY <1>1, <1>2, <1>3


-----------------------------------------------------------------------------
(* Type correctness.                                                        *)

\* The constants are numbers, and the idle records are typed.
LEMMA IdleTyped ==
  /\ 0 \in Snaps /\ 0 \in 0 .. MaxAdminOps
  /\ NoItem \in Items /\ NoRef \in RefRows
  /\ IdleAdmin \in AdminRows /\ Invalidating \in AdminRows /\ IdleAsk \in AskRows
<1>1. 0 \in Snaps /\ 0 \in 0 .. MaxAdminOps
  BY MarketAssumption DEF Snaps
<1>2. NoItem \in Items /\ NoRef \in RefRows
  BY <1>1 DEF NoItem, Items, NoRef, RefRows, PriceTags
<1>3. IdleAdmin \in AdminRows /\ IdleAsk \in AskRows
  BY <1>1, <1>2 DEF IdleAdmin, AdminRows, IdleAsk, AskRows
<1>4. Invalidating \in AdminRows
  BY <1>3 DEF Invalidating, AdminRows
<1> QED
  BY <1>1, <1>2, <1>3, <1>4

\* The empty marketplace is typed.
LEMMA MarketInitType == MarketInit => MarketTypeOK
BY IdleTyped DEF MarketInit, MarketTypeOK, NoPrice, PriceTags

\* What a late write leaves is a set of names.
LEMMA LateType ==
  ASSUME MarketTypeOK, NEW S \in SUBSET Names, Late(S)
  PROVE  strayOn' \subseteq Names /\ straySnap' \subseteq Names /\ strayMember' \subseteq members'
BY DEF MarketTypeOK, Late

\* What is overtaken stays typed.
LEMMA OvertakeType ==
  ASSUME MarketTypeOK, NEW a \in Admins, NEW then \in AdminRows, Overtake(a, then)
  PROVE  admin' \in [Admins -> AdminRows] /\ ask' \in [Requests -> AskRows]
<1>1. ASSUME NEW b \in Admins
      PROVE  [admin[b] EXCEPT !.fresh = FALSE] \in AdminRows
  BY DEF MarketTypeOK, AdminRows
<1>2. ASSUME NEW r \in Requests
      PROVE  [ask[r] EXCEPT !.fresh = FALSE] \in AskRows
  BY DEF MarketTypeOK, AskRows
<1> QED
  BY <1>1, <1>2 DEF MarketTypeOK, Overtake

\* One more operation is within the bound.
LEMMA SpendType == MarketTypeOK /\ Spend => adminOps' \in 0 .. MaxAdminOps
<1> SUFFICES ASSUME MarketTypeOK, Spend PROVE adminOps' \in 0 .. MaxAdminOps
  OBVIOUS
<1>1. PICK n \in 0 .. MaxAdminOps : adminOps = n
  BY DEF MarketTypeOK
<1>2. n + 1 \in 0 .. MaxAdminOps
  BY <1>1, MarketAssumption DEF Spend
<1> QED
  BY <1>1, <1>2 DEF Spend

\* References that are synchronised or disabled are typed.
LEMMA RefsType ==
  /\ \A rs \in [Names -> RefRows] : DisableRefs(rs) \in [Names -> RefRows]
  /\ MarketTypeOK => \A s \in Snaps : SyncRefs(s) \in [Names -> RefRows]
<1>1. ASSUME NEW rs \in [Names -> RefRows] PROVE DisableRefs(rs) \in [Names -> RefRows]
  BY DEF DisableRefs, RefRows
<1>2. ASSUME MarketTypeOK, NEW s \in Snaps PROVE SyncRefs(s) \in [Names -> RefRows]
  BY <1>2, IdleTyped DEF MarketTypeOK, SyncRefs, RefRows
<1> QED
  BY <1>1, <1>2

\* Typing: an administrator's steps.
LEMMA AdminType ==
  ASSUME MarketTypeOK, NEW a \in Admins, AdminStep(a)
  PROVE  MarketTypeOK'
<1> USE IdleTyped DEF MarketTypeOK, priceVars, refVars, strayVars
<1>1. admin[a] \in AdminRows /\ admin[a].item \in Items /\ admin[a].item.snap \in Snaps
  BY DEF AdminRows, Items
<1>2. ASSUME NEW p \in PriceTags, Publish(a, p) PROVE MarketTypeOK'
  <2>1. item' \in Items
    BY <1>2 DEF Publish, Items
  <2> QED
    BY <1>2, <2>1 DEF Publish
<1>3. CASE ReadItem(a)
  <2>1. PICK s \in Snaps, push, on, off \in BOOLEAN, p \in PriceTags :
          ReadItemAs(a, s, push, on, off, p)
    BY <1>3 DEF ReadItem
  <2>2. [item EXCEPT !.snap = s, !.on = on, !.price = p] \in Items
    BY DEF Items
  <2>3. [at |-> "save", push |-> push, off |-> off, fresh |-> TRUE,
         item |-> [item EXCEPT !.snap = s, !.on = on, !.price = p]] \in AdminRows
    BY <2>2 DEF AdminRows
  <2>4. admin' \in [Admins -> AdminRows]
    BY <2>1, <2>3 DEF ReadItemAs
  <2> QED
    BY <1>3, <2>4, SpendType DEF ReadItem
<1>4. CASE SaveItem(a)
  <2>1. Installed \in SUBSET Names
    BY DEF Installed
  <2>2. strayOn' \subseteq Names /\ straySnap' \subseteq Names /\ strayMember' \subseteq members'
    BY <1>4, <2>1, LateType DEF SaveItem
  <2>3. refs' \in [Names -> RefRows]
    BY <1>4, <1>1, RefsType DEF SaveItem
  <2>4. admin' \in [Admins -> AdminRows] /\ ask' \in [Requests -> AskRows]
    BY <1>4, OvertakeType DEF SaveItem
  <2> QED
    BY <1>4, <1>1, <2>2, <2>3, <2>4 DEF SaveItem
<1>5. CASE DeleteItem(a)
  <2>1. strayOn' \subseteq Names /\ straySnap' \subseteq Names /\ strayMember' \subseteq members'
    BY <1>5, LateType DEF DeleteItem
  <2>2. refs' \in [Names -> RefRows]
    BY <1>5, RefsType DEF DeleteItem
  <2>3. admin' \in [Admins -> AdminRows] /\ ask' \in [Requests -> AskRows]
    BY <1>5, OvertakeType DEF DeleteItem
  <2>4. item' \in Items
    BY <1>5 DEF DeleteItem, Items
  <2> QED
    BY <1>5, <2>1, <2>2, <2>3, <2>4, SpendType DEF DeleteItem
<1>6. CASE FetchSnapshots(a)
  <2>1. admin' \in [Admins -> AdminRows]
    BY <1>6 DEF FetchSnapshots, IdleAdmin, AdminRows, Items
  <2> QED
    BY <1>6, <2>1, SpendType DEF FetchSnapshots
<1>7. CASE StoreSnapshots(a)
  <2>1. strayOn' \subseteq Names /\ straySnap' \subseteq Names /\ strayMember' \subseteq members'
    BY <1>7, LateType DEF StoreSnapshots
  <2>2. refs' \in [Names -> RefRows]
    BY <1>7, <1>1, RefsType DEF StoreSnapshots
  <2>3. admin' \in [Admins -> AdminRows] /\ ask' \in [Requests -> AskRows]
    BY <1>7, OvertakeType DEF StoreSnapshots
  <2>4. item' \in Items
    BY <1>7, <1>1 DEF StoreSnapshots, Items
  <2> QED
    BY <1>7, <2>1, <2>2, <2>3, <2>4 DEF StoreSnapshots
<1>8. CASE BatchUpdatePricing(a)
  <2>1. item' \in Items
    BY <1>8 DEF BatchUpdatePricing, Items, PriceTags
  <2> QED
    BY <1>8, <2>1, SpendType DEF BatchUpdatePricing
<1>9. CASE SetItemEntryPrices(a)
  <2>1. entry' \in {0, 1}
    BY <1>9 DEF SetItemEntryPrices
  <2> QED
    BY <1>9, <2>1, SpendType DEF SetItemEntryPrices
<1>10. CASE InvalidatePricingCacheItem(a)
  <2>1. cache' \in [price : {0} \cup PriceTags, entry : {0, 1}, blind : BOOLEAN]
    BY <1>10 DEF InvalidatePricingCacheItem, NoPrice
  <2> QED
    BY <1>10, <2>1 DEF InvalidatePricingCacheItem
<1> QED
  BY <1>2, <1>3, <1>4, <1>5, <1>6, <1>7, <1>8, <1>9, <1>10 DEF AdminStep

\* Typing: the price cache and the upstream.
LEMMA PriceType ==
  ASSUME MarketTypeOK, LoadItem \/ LoadEntries \/ PriceExpires \/ UpstreamChanges
  PROVE  MarketTypeOK'
<1> USE DEF MarketTypeOK, priceVars, refVars, strayVars
<1>1. CASE LoadItem
  BY <1>1 DEF LoadItem, Items
<1>2. CASE LoadEntries
  <2>1. cache' \in [price : {0} \cup PriceTags, entry : {0, 1}, blind : BOOLEAN]
    BY <1>2 DEF LoadEntries
  <2> QED
    BY <1>2, <2>1 DEF LoadEntries
<1>3. CASE PriceExpires
  <2>1. cache' \in [price : {0} \cup PriceTags, entry : {0, 1}, blind : BOOLEAN]
    BY <1>3 DEF PriceExpires, NoPrice
  <2> QED
    BY <1>3, <2>1 DEF PriceExpires
<1>4. CASE UpstreamChanges
  <2>1. PICK s \in Snaps : upstream = s
    OBVIOUS
  <2>2. s + 1 \in Snaps
    BY <1>4, <2>1, MarketAssumption DEF UpstreamChanges, Snaps
  <2> QED
    BY <1>4, <2>1, <2>2 DEF UpstreamChanges
<1> QED
  BY <1>1, <1>2, <1>3, <1>4

\* The parts of a request's row.
LEMMA AskParts ==
  MarketTypeOK => \A r \in Requests : /\ ask[r].ref \in {0} \cup Names
                                      /\ ask[r].on \in BOOLEAN /\ ask[r].snap \in Snaps
BY DEF MarketTypeOK, AskRows

\* Where a request goes is a step of it.
LEMMA GoesType ==
  ASSUME MarketTypeOK, NEW r \in Requests,
         NEW then \in {"name", "remove", "save"}
  PROVE  /\ Ends(r) => ask' \in [Requests -> AskRows]
         /\ Goes(r, then) => ask' \in [Requests -> AskRows]
BY IdleTyped DEF MarketTypeOK, Ends, Goes, AskRows

\* Typing: what an edit of a reference outdates.
LEMMA OutdateType ==
  ASSUME MarketTypeOK, NEW r \in Requests, NEW n \in Names, Outdate(r, n)
  PROVE  ask' \in [Requests -> AskRows]
<1>1. ASSUME NEW q \in Requests
      PROVE  [ask[q] EXCEPT !.fresh = FALSE] \in AskRows
  BY DEF MarketTypeOK, AskRows
<1> QED
  BY <1>1, IdleTyped DEF MarketTypeOK, Outdate

\* Typing: the steps of the user that install.
LEMMA InstallType ==
  ASSUME MarketTypeOK, NamesChosen, NEW r \in Requests, InstallStep(r)
  PROVE  MarketTypeOK'
<1> USE IdleTyped, AskParts DEF MarketTypeOK, MarketRest, priceVars, refVars, strayVars
<1>1. CASE AddRead(r)
  <2>1. [IdleAsk EXCEPT !.at = "look", !.snap = item.snap] \in AskRows
    BY DEF AskRows, Items
  <2> QED
    BY <1>1, <2>1 DEF AddRead
<1>2. CASE AddLook(r)
  <2>1. ask' \in [Requests -> AskRows]
    <3>1. CASE Goes(r, "name") \/ Ends(r)
      BY <3>1, GoesType
    <3>2. ASSUME NEW n \in Names,
                 ask' = [ask EXCEPT ![r].at = "enable", ![r].ref = n, ![r].snap = 0]
          PROVE  ask' \in [Requests -> AskRows]
      BY <3>2 DEF AskRows
    <3> QED
      BY <1>2, <3>1, <3>2 DEF AddLook, Installed
  <2> QED
    BY <1>2, <2>1 DEF AddLook
<1>3. CASE AddEnable(r)
  <2>1. CASE ask[r].ref = 0
    <3>1. strayOn' \subseteq Names /\ straySnap' \subseteq Names /\ strayMember' \subseteq members'
      BY <1>3, <2>1, LateType DEF AddEnable
    <3> QED
      BY <1>3, <2>1, <3>1, GoesType DEF AddEnable
  <2>2. CASE ask[r].ref \in Names /\ ask[r].ref # 0
    <3>1. strayOn' \subseteq Names /\ straySnap' \subseteq Names /\ strayMember' \subseteq members'
      BY <1>3, <2>2, LateType DEF AddEnable
    <3>2. refs' \in [Names -> RefRows]
      <4>1. [refs[ask[r].ref] EXCEPT !.on = TRUE] \in RefRows
        BY <2>2 DEF RefRows
      <4> QED
        BY <1>3, <2>2, <4>1 DEF AddEnable
    <3> QED
      BY <1>3, <2>2, <3>1, <3>2, OutdateType DEF AddEnable
  <2> QED
    BY <2>1, <2>2
<1>4. CASE AddName(r)
  <2>1. PICK n \in Names : ask' = [ask EXCEPT ![r].at = "insert", ![r].ref = n]
    BY <1>4 DEF AddName
  <2>2. ask' \in [Requests -> AskRows]
    BY <2>1 DEF AskRows
  <2> QED
    BY <1>4, <2>2 DEF AddName
<1>5. CASE AddInsert(r)
  <2>1. ask[r].ref \in Names
    BY <1>5 DEF AddInsert, NamesChosen
  <2>2. strayOn' \subseteq Names /\ straySnap' \subseteq Names /\ strayMember' \subseteq members'
    BY <1>5, <2>1, LateType DEF AddInsert
  <2>3. refs' \in [Names -> RefRows]
    BY <1>5, <2>1 DEF AddInsert, RefRows
  <2> QED
    BY <1>5, <2>2, <2>3, GoesType DEF AddInsert
<1> QED
  BY <1>1, <1>2, <1>3, <1>4, <1>5 DEF InstallStep

\* Typing: the steps of the user that edit, delete and synchronise.
LEMMA EditType ==
  ASSUME MarketTypeOK, LocksHeld, NEW r \in Requests, EditStep(r)
  PROVE  MarketTypeOK'
<1> USE IdleTyped, AskParts DEF MarketTypeOK, MarketRest, priceVars, refVars, strayVars
<1>1. ask[r].at \in EditPoints => ask[r].ref \in Names
  BY DEF LocksHeld, Installed
<1>2. CASE EditGate(r)
  <2>1. ask' \in [Requests -> AskRows]
    BY <1>2, GoesType DEF EditGate, AskRows
  <2> QED
    BY <1>2, <2>1 DEF EditGate
<1>3. CASE EditSave(r)
  <2>1. ask[r].ref \in Names
    BY <1>1, <1>3 DEF EditSave, EditPoints
  <2>2. strayOn' \subseteq Names /\ straySnap' \subseteq Names /\ strayMember' \subseteq members'
    BY <1>3, <2>1, LateType DEF EditSave
  <2>3. refs' \in [Names -> RefRows]
    BY <1>3, <2>1 DEF EditSave, RefRows
  <2>4. [IdleAsk EXCEPT !.at = "clean", !.ref = ask[r].ref] \in AskRows
    BY <2>1 DEF AskRows
  <2>5. ask' \in [Requests -> AskRows]
    BY <1>3, <2>4, GoesType DEF EditSave
  <2> QED
    BY <1>3, <2>2, <2>3, <2>5 DEF EditSave
<1>4. CASE EditClean(r)
  <2>1. strayOn' \subseteq Names /\ straySnap' \subseteq Names /\ strayMember' \subseteq members'
    BY <1>4, LateType DEF EditClean
  <2> QED
    BY <1>4, <2>1, GoesType DEF EditClean
<1>5. CASE DeleteUnlink(r)
  <2>1. strayOn' \subseteq Names /\ straySnap' \subseteq Names /\ strayMember' \subseteq members'
    BY <1>5, LateType DEF DeleteUnlink
  <2> QED
    BY <1>5, <2>1, GoesType DEF DeleteUnlink
<1>6. CASE DeleteRemove(r)
  <2>1. strayOn' \subseteq Names /\ straySnap' \subseteq Names /\ strayMember' \subseteq members'
    BY <1>6, LateType DEF DeleteRemove
  <2>2. refs' \in [Names -> RefRows]
    BY <1>6 DEF DeleteRemove
  <2>3. ASSUME NEW q \in Requests
        PROVE  [ask[q] EXCEPT !.ref = 0] \in AskRows
    BY DEF AskRows
  <2>4. ask' \in [Requests -> AskRows]
    BY <1>6, <2>3 DEF DeleteRemove
  <2> QED
    BY <1>6, <2>1, <2>2, <2>4 DEF DeleteRemove
<1>7. CASE SyncStore(r)
  <2>1. CASE ask[r].ref = 0
    <3>1. strayOn' \subseteq Names /\ straySnap' \subseteq Names /\ strayMember' \subseteq members'
      BY <1>7, <2>1, LateType DEF SyncStore
    <3> QED
      BY <1>7, <2>1, <3>1, GoesType DEF SyncStore
  <2>2. CASE ask[r].ref \in Names /\ ask[r].ref # 0
    <3>1. strayOn' \subseteq Names /\ straySnap' \subseteq Names /\ strayMember' \subseteq members'
      BY <1>7, <2>2, LateType DEF SyncStore
    <3>2. refs' \in [Names -> RefRows]
      BY <1>7, <2>2 DEF SyncStore, RefRows
    <3> QED
      BY <1>7, <2>2, <3>1, <3>2, OutdateType DEF SyncStore
  <2> QED
    BY <2>1, <2>2
<1>8. ASSUME NEW n \in Names, EditRead(r, n) PROVE MarketTypeOK'
  <2>1. PICK then \in {"gate", "save", "saveOff"} :
          ask' = [ask EXCEPT ![r] = [at |-> then, ref |-> n, fresh |-> TRUE,
                                     on |-> refs[n].on /\ then = "save", snap |-> refs[n].snap]]
    BY <1>8 DEF EditRead
  <2>2. refs[n].snap \in Snaps
    BY DEF RefRows
  <2>3. [at |-> then, ref |-> n, fresh |-> TRUE,
         on |-> refs[n].on /\ then = "save", snap |-> refs[n].snap] \in AskRows
    BY <2>2 DEF AskRows
  <2> QED
    BY <1>8, <2>1, <2>3 DEF EditRead
<1>9. ASSUME NEW n \in Names, DeleteRead(r, n) PROVE MarketTypeOK'
  <2>1. [IdleAsk EXCEPT !.at = "unlink", !.ref = n] \in AskRows
    BY DEF AskRows
  <2> QED
    BY <1>9, <2>1 DEF DeleteRead
<1>10. ASSUME NEW n \in Names, SyncRead(r, n) PROVE MarketTypeOK'
  <2>1. [IdleAsk EXCEPT !.at = "store", !.ref = n, !.snap = item.snap] \in AskRows
    BY DEF AskRows, Items
  <2> QED
    BY <1>10, <2>1 DEF SyncRead
<1> QED
  BY <1>2, <1>3, <1>4, <1>5, <1>6, <1>7, <1>8, <1>9, <1>10 DEF EditStep

\* Typing: membership in groups.
LEMMA GroupType ==
  ASSUME MarketTypeOK, NEW n \in Names, AddServices(n) \/ RemoveService(n)
  PROVE  MarketTypeOK'
<1> USE DEF MarketTypeOK, MarketRest, priceVars, refVars, strayVars
<1>1. strayOn' \subseteq Names /\ straySnap' \subseteq Names /\ strayMember' \subseteq members'
  BY LateType DEF AddServices, RemoveService
<1> QED
  BY <1>1 DEF AddServices, RemoveService

\* Which references are there is not what a push of lists, or a disabling, changes.
LEMMA RefsHere ==
  ASSUME MarketTypeOK
  PROVE  /\ \A s \in Snaps : \A n \in Names :
              /\ SyncRefs(s)[n].here = refs[n].here
              /\ SyncRefs(s)[n].here => /\ SyncRefs(s)[n].snap = s
                                        /\ SyncRefs(s)[n].on = refs[n].on
              /\ SyncRefs(s)[n].on => refs[n].on
         /\ \A rs \in [Names -> RefRows] : \A n \in Names :
              /\ DisableRefs(rs)[n].here = rs[n].here
              /\ DisableRefs(rs)[n].snap = rs[n].snap /\ ~DisableRefs(rs)[n].on
<1>1. ASSUME NEW s \in Snaps, NEW n \in Names
      PROVE  /\ SyncRefs(s)[n].here = refs[n].here
             /\ SyncRefs(s)[n].here => /\ SyncRefs(s)[n].snap = s
                                       /\ SyncRefs(s)[n].on = refs[n].on
             /\ SyncRefs(s)[n].on => refs[n].on
  <2>1. CASE refs[n].here
    <3>1. SyncRefs(s)[n] = [refs[n] EXCEPT !.snap = s]
      BY <2>1 DEF SyncRefs, Installed
    <3> QED
      BY <2>1, <3>1 DEF MarketTypeOK, RefRows
  <2>2. CASE ~refs[n].here
    <3>1. SyncRefs(s)[n] = NoRef
      BY <2>2 DEF SyncRefs, Installed
    <3>2. refs[n].here = FALSE
      BY <2>2 DEF MarketTypeOK, RefRows
    <3>3. NoRef.here = FALSE /\ NoRef.on = FALSE
      BY DEF NoRef
    <3> QED
      BY <3>1, <3>2, <3>3, Zenon
  <2> QED
    BY <2>1, <2>2
<1>2. ASSUME NEW rs \in [Names -> RefRows], NEW n \in Names
      PROVE  /\ DisableRefs(rs)[n].here = rs[n].here
             /\ DisableRefs(rs)[n].snap = rs[n].snap /\ ~DisableRefs(rs)[n].on
  BY DEF DisableRefs, RefRows
<1> QED
  BY <1>1, <1>2

-----------------------------------------------------------------------------
(* The references follow the item.                                          *)

\* An administrator changes what references hold, never which there are, and of
\* the user's requests only that what they read is old.
LEMMA AdminKeeps ==
  ASSUME MarketTypeOK, NEW a \in Admins, AdminStep(a)
  PROVE  /\ Installed' = Installed /\ locked' = locked
         /\ \A r \in Requests :
              /\ ask'[r].at = ask[r].at /\ ask'[r].ref = ask[r].ref
              /\ ask'[r].on = ask[r].on /\ ask'[r].snap = ask[r].snap
              /\ ask'[r].fresh => ask[r].fresh
<1> DEFINE Kept == /\ Installed' = Installed /\ locked' = locked
                   /\ \A r \in Requests :
                        /\ ask'[r].at = ask[r].at /\ ask'[r].ref = ask[r].ref
                        /\ ask'[r].on = ask[r].on /\ ask'[r].snap = ask[r].snap
                        /\ ask'[r].fresh => ask[r].fresh
<1>1. admin[a].item.snap \in Snaps
  BY DEF MarketTypeOK, AdminRows, Items
<1>2. ASSUME UNCHANGED <<refs, locked, ask>> PROVE Kept
  BY <1>2 DEF Installed
<1>3. ASSUME NEW then \in AdminRows, Overtake(a, then), locked' = locked, Installed' = Installed
      PROVE  Kept
  <2>1. ASSUME NEW r \in Requests
        PROVE  LET new == [ask[r] EXCEPT !.fresh = FALSE] IN
               /\ new.at = ask[r].at /\ new.ref = ask[r].ref
               /\ new.on = ask[r].on /\ new.snap = ask[r].snap /\ ~new.fresh
    BY DEF MarketTypeOK, AskRows
  <2> QED
    BY <1>3, <2>1 DEF Overtake
<1>4. CASE SaveItem(a)
  <2>1. \A n \in Names : refs'[n].here = refs[n].here
    BY <1>4, <1>1, RefsHere, RefsType DEF SaveItem, MarketTypeOK
  <2>2. Installed' = Installed
    BY <2>1 DEF Installed
  <2> QED
    BY <1>3, <1>4, <2>2, IdleTyped DEF SaveItem
<1>5. CASE DeleteItem(a)
  <2>1. \A n \in Names : refs'[n].here = refs[n].here
    BY <1>5, <1>1, RefsHere, RefsType DEF DeleteItem, MarketTypeOK
  <2>2. Installed' = Installed
    BY <2>1 DEF Installed
  <2> QED
    BY <1>3, <1>5, <2>2, IdleTyped DEF DeleteItem
<1>6. CASE StoreSnapshots(a)
  <2>1. \A n \in Names : refs'[n].here = refs[n].here
    BY <1>6, <1>1, RefsHere, RefsType DEF StoreSnapshots, MarketTypeOK
  <2>2. Installed' = Installed
    BY <2>1 DEF Installed
  <2> QED
    BY <1>3, <1>6, <2>2, IdleTyped DEF StoreSnapshots
<1>7. CASE ~SaveItem(a) /\ ~DeleteItem(a) /\ ~StoreSnapshots(a)
  BY <1>2, <1>7 DEF AdminStep, Publish, ReadItem, FetchSnapshots, BatchUpdatePricing,
                    SetItemEntryPrices, InvalidatePricingCacheItem, refVars
<1> QED
  BY <1>4, <1>5, <1>6, <1>7

\* What AdminStep leaves of the rows: nothing changes of what references follow,
\* or the item appears, or it is saved, deleted or refreshed.
LEMMA AdminCases ==
  ASSUME MarketTypeOK, NEW a \in Admins, AdminStep(a)
  PROVE  \/ /\ UNCHANGED <<refVars, ask, strayVars>>
            /\ item'.live = item.live /\ item'.on = item.on
            /\ item'.snap = item.snap /\ item'.born = item.born
         \/ \E p \in PriceTags : Publish(a, p)
         \/ SaveItem(a) \/ DeleteItem(a) \/ StoreSnapshots(a)
<1>1. CASE BatchUpdatePricing(a)
  BY <1>1 DEF BatchUpdatePricing, MarketTypeOK, Items
<1>2. CASE ReadItem(a) \/ FetchSnapshots(a) \/ SetItemEntryPrices(a) \/ InvalidatePricingCacheItem(a)
  BY <1>2 DEF ReadItem, FetchSnapshots, SetItemEntryPrices, InvalidatePricingCacheItem
<1> QED
  BY <1>1, <1>2 DEF AdminStep

\* What is overtaken is not current any more.
LEMMA Overtakes ==
  ASSUME MarketTypeOK, NEW a \in Admins, NEW then, Overtake(a, then), then.at # "save"
  PROVE  /\ \A b \in Admins : ~(admin'[b].at = "save" /\ admin'[b].fresh)
         /\ \A r \in Requests : ask'[r].at \in Overtaken => ~ask'[r].fresh
<1>1. ASSUME NEW b \in Admins
      PROVE  LET new == [admin[b] EXCEPT !.fresh = FALSE] IN new.at = admin[b].at /\ ~new.fresh
  BY DEF MarketTypeOK, AdminRows
<1>2. ASSUME NEW r \in Requests
      PROVE  LET new == [ask[r] EXCEPT !.fresh = FALSE] IN new.at = ask[r].at /\ ~new.fresh
  BY DEF MarketTypeOK, AskRows
<1> QED
  BY <1>1, <1>2 DEF Overtake

\* Saving, deleting and refreshing the item overtake.
LEMMA AdminOvertakes ==
  ASSUME MarketTypeOK, NEW a \in Admins,
         SaveItem(a) \/ DeleteItem(a) \/ StoreSnapshots(a)
  PROVE  /\ \A b \in Admins : ~(admin'[b].at = "save" /\ admin'[b].fresh)
         /\ \A r \in Requests : ask'[r].at \in Overtaken => ~ask'[r].fresh
<1>1. Invalidating.at # "save" /\ IdleAdmin.at # "save"
  BY DEF Invalidating, IdleAdmin
<1> QED
  BY <1>1, Overtakes DEF SaveItem, DeleteItem, StoreSnapshots

\* An administrator's step keeps the parts of MarketInv that are about requests.
LEMMA AdminAsks ==
  ASSUME MarketInv, NEW a \in Admins, AdminStep(a)
  PROVE  LocksHeld' /\ NamesChosen' /\ OffIsOff' /\ InstallCurrent' /\ EditCurrent'
<1> USE AdminKeeps DEF MarketInv
<1>1. LocksHeld'
  BY DEF LocksHeld
<1>2. NamesChosen' /\ OffIsOff'
  BY DEF NamesChosen, OffIsOff
<1>3. InstallCurrent' /\ EditCurrent'
  <2>1. CASE SaveItem(a) \/ DeleteItem(a) \/ StoreSnapshots(a)
    BY <2>1, AdminOvertakes DEF InstallCurrent, EditCurrent, Overtaken
  <2>2. ASSUME NEW p \in PriceTags, Publish(a, p) PROVE InstallCurrent' /\ EditCurrent'
    BY <2>2 DEF Publish, BornFirst, InstallCurrent, EditCurrent
  <2>3. CASE /\ UNCHANGED <<refVars, ask, strayVars>>
             /\ item'.live = item.live /\ item'.on = item.on
             /\ item'.snap = item.snap /\ item'.born = item.born
    BY <2>3 DEF InstallCurrent, EditCurrent, Offering, refVars
  <2> QED
    BY <2>1, <2>2, <2>3, AdminCases
<1> QED
  BY <1>1, <1>2, <1>3

\* An administrator's step keeps BornFirst and RowsThere.
LEMMA AdminBorn ==
  ASSUME MarketInv, NEW a \in Admins, AdminStep(a)
  PROVE  BornFirst' /\ RowsThere'
<1> USE AdminKeeps, RefsType, RefsHere DEF MarketInv
<1>1. admin[a].item.snap \in Snaps /\ admin[a].item.live \in BOOLEAN
  BY DEF MarketTypeOK, AdminRows, Items
<1>2. \A n \in Names : refs'[n].on => refs[n].on
  <2>1. CASE SaveItem(a)
    BY <2>1, <1>1 DEF SaveItem, MarketTypeOK
  <2>2. CASE DeleteItem(a)
    BY <2>2 DEF DeleteItem, MarketTypeOK
  <2>3. CASE StoreSnapshots(a)
    BY <2>3, <1>1 DEF StoreSnapshots
  <2>4. CASE UNCHANGED refs
    BY <2>4
  <2> QED
    BY <2>1, <2>2, <2>3, <2>4, AdminCases DEF refVars, Publish
<1>3. RowsThere'
  BY <1>2 DEF RowsThere, Installed
<1>4. item'.live => item'.born
  <2>1. CASE SaveItem(a)
    BY <2>1 DEF SaveItem, BornFirst
  <2>2. CASE StoreSnapshots(a)
    BY <2>2 DEF StoreSnapshots, BornFirst, MarketTypeOK, Items
  <2>3. CASE DeleteItem(a) \/ \E p \in PriceTags : Publish(a, p)
    BY <2>3 DEF DeleteItem, Publish, NoItem
  <2> QED
    BY <2>1, <2>2, <2>3, AdminCases DEF BornFirst
<1>5. item.born => item'.born
  BY <1>1 DEF AdminStep, BornFirst, MarketTypeOK, Items, Publish, ReadItem, SaveItem, DeleteItem,
              FetchSnapshots, StoreSnapshots, BatchUpdatePricing, SetItemEntryPrices,
              InvalidatePricingCacheItem, NoItem
<1>6. \A b \in Admins : \/ admin'[b].at = admin[b].at /\ admin'[b].item = admin[b].item
                        \/ b = a
  <2>1. \A b \in Admins : /\ [admin[b] EXCEPT !.fresh = FALSE].at = admin[b].at
                           /\ [admin[b] EXCEPT !.fresh = FALSE].item = admin[b].item
    BY DEF MarketTypeOK, AdminRows
  <2>2. CASE SaveItem(a) \/ DeleteItem(a) \/ StoreSnapshots(a)
    <3>1. \A b \in Admins \ {a} : admin'[b] \in {admin[b], [admin[b] EXCEPT !.fresh = FALSE]}
      BY <2>2 DEF SaveItem, DeleteItem, StoreSnapshots, Overtake
    <3>2. ASSUME NEW b \in Admins, b # a
          PROVE  admin'[b].at = admin[b].at /\ admin'[b].item = admin[b].item
      <4>1. CASE admin'[b] = admin[b]
        BY <4>1
      <4>2. CASE admin'[b] = [admin[b] EXCEPT !.fresh = FALSE]
        BY <4>2, <2>1
      <4> QED
        BY <3>1, <3>2, <4>1, <4>2
    <3> QED
      BY <3>2
  <2>3. CASE ReadItem(a)
    BY <2>3 DEF ReadItem, ReadItemAs, MarketTypeOK
  <2>4. CASE ~SaveItem(a) /\ ~DeleteItem(a) /\ ~StoreSnapshots(a) /\ ~ReadItem(a)
    BY <2>4 DEF AdminStep, MarketTypeOK, Publish, FetchSnapshots, BatchUpdatePricing,
                SetItemEntryPrices, InvalidatePricingCacheItem
  <2> QED
    BY <2>2, <2>3, <2>4
<1>7. admin'[a].at \in {"save", "store"} => ReadItem(a) \/ FetchSnapshots(a)
  <2>1. Invalidating.at = "invalidate" /\ IdleAdmin.at = "idle"
    BY DEF Invalidating, IdleAdmin
  <2>2. SaveItem(a) \/ DeleteItem(a) \/ StoreSnapshots(a) => admin'[a] \in {Invalidating, IdleAdmin}
    BY DEF SaveItem, DeleteItem, StoreSnapshots, Overtake
  <2>3. (\E p \in PriceTags : Publish(a, p)) \/ BatchUpdatePricing(a) \/ SetItemEntryPrices(a)
          \/ InvalidatePricingCacheItem(a) => admin'[a] \in {Invalidating, IdleAdmin}
    BY DEF Publish, BatchUpdatePricing, SetItemEntryPrices, InvalidatePricingCacheItem, MarketTypeOK
  <2> QED
    BY <2>1, <2>2, <2>3 DEF AdminStep
<1>8. ASSUME ReadItem(a)
      PROVE  admin'[a].item.live /\ admin'[a].item.born /\ item'.born
  <2>1. PICK s \in Snaps, push, on, off \in BOOLEAN, p \in PriceTags :
          ReadItemAs(a, s, push, on, off, p)
    BY <1>8 DEF ReadItem
  <2>2. admin'[a].item = [item EXCEPT !.snap = s, !.on = on, !.price = p]
    BY <2>1 DEF ReadItemAs, MarketTypeOK
  <2>3. item.live /\ item.born /\ item' = item
    BY <1>8 DEF ReadItem, BornFirst
  <2> QED
    BY <2>2, <2>3 DEF MarketTypeOK, Items
<1>9. FetchSnapshots(a) => item'.born /\ admin'[a].at = "store"
  BY DEF FetchSnapshots, BornFirst, IdleAdmin, MarketTypeOK
<1>10. \A b \in Admins : admin'[b].at = "save" => admin'[b].item.live /\ admin'[b].item.born
  BY <1>6, <1>7, <1>8, <1>9 DEF BornFirst
<1>11. ~item'.born => \A b \in Admins : admin'[b].at \notin {"save", "store"}
  BY <1>5, <1>6, <1>7, <1>8, <1>9, <1>1 DEF BornFirst, MarketTypeOK, Items
<1>12. ~item'.born => Installed' = {} /\ \A r \in Requests : ask'[r].at = "idle"
  BY <1>5 DEF BornFirst
<1> QED
  BY <1>3, <1>4, <1>10, <1>11, <1>12 DEF BornFirst

\* An administrator's step keeps AdminCurrent.
LEMMA AdminFresh ==
  ASSUME MarketInv, NEW a \in Admins, AdminStep(a)
  PROVE  AdminCurrent'
<1> USE DEF MarketInv
<1>1. CASE SaveItem(a) \/ DeleteItem(a) \/ StoreSnapshots(a)
  BY <1>1, AdminOvertakes DEF AdminCurrent
<1>2. ASSUME NEW p \in PriceTags, Publish(a, p) PROVE AdminCurrent'
  BY <1>2 DEF Publish, BornFirst, AdminCurrent, Invalidating, IdleAdmin, MarketTypeOK
<1>3. CASE ReadItem(a)
  <2>1. PICK s \in Snaps, push, on, off \in BOOLEAN, p \in PriceTags :
          ReadItemAs(a, s, push, on, off, p)
    BY <1>3 DEF ReadItem
  <2>2. /\ admin'[a].item = [item EXCEPT !.snap = s, !.on = on, !.price = p]
        /\ admin'[a].push = push /\ admin'[a].off = off
        /\ \A b \in Admins \ {a} : admin'[b] = admin[b]
    BY <2>1 DEF ReadItemAs, MarketTypeOK
  <2>3. admin'[a].item.on = on /\ admin'[a].item.snap = s
    BY <2>2 DEF MarketTypeOK, Items
  <2>4. item' = item /\ item.live
    BY <1>3 DEF ReadItem
  <2>5. /\ ~push => s = item.snap
        /\ IF off THEN ~on ELSE on \/ ~item.on
    BY <2>1 DEF ReadItemAs
  <2> QED
    BY <2>2, <2>3, <2>4, <2>5 DEF AdminCurrent
<1>4. CASE BatchUpdatePricing(a) \/ FetchSnapshots(a) \/ SetItemEntryPrices(a)
           \/ InvalidatePricingCacheItem(a)
  <2>1. item'.live = item.live /\ item'.on = item.on /\ item'.snap = item.snap
    BY <1>4 DEF BatchUpdatePricing, FetchSnapshots, SetItemEntryPrices, MarketTypeOK, Items,
                InvalidatePricingCacheItem
  <2>2. \A b \in Admins \ {a} : admin'[b] = admin[b]
    BY <1>4 DEF BatchUpdatePricing, FetchSnapshots, SetItemEntryPrices, MarketTypeOK,
                InvalidatePricingCacheItem
  <2>3. admin'[a].at # "save"
    <3>1. FetchSnapshots(a) => admin'[a].at = "store"
      BY DEF FetchSnapshots, IdleAdmin, MarketTypeOK
    <3>2. Invalidating.at = "invalidate" /\ IdleAdmin.at = "idle"
      BY DEF Invalidating, IdleAdmin
    <3>3. BatchUpdatePricing(a) \/ SetItemEntryPrices(a) \/ InvalidatePricingCacheItem(a)
            => admin'[a] \in {Invalidating, IdleAdmin}
      BY DEF BatchUpdatePricing, SetItemEntryPrices, InvalidatePricingCacheItem, MarketTypeOK
    <3> QED
      BY <1>4, <3>1, <3>2, <3>3
  <2> QED
    BY <2>1, <2>2, <2>3 DEF AdminCurrent
<1> QED
  BY <1>1, <1>2, <1>3, <1>4 DEF AdminStep

\* Whatever a late write leaves unlike the item is noted: what remains to show of a
\* step is that the others follow.
LEMMA LateFollows ==
  ASSUME NEW S, Late(S), members' \subseteq Names,
         \A n \in Names \ (strayOn \cup S) : refs'[n].here /\ refs'[n].on => Offering',
         \A n \in Names \ (straySnap \cup S) :
           refs'[n].here /\ item'.live => refs'[n].snap = item'.snap,
         \A n \in members' \ (strayMember \cup S) :
           refs'[n].on \/ \E r \in Requests : ask'[r].at = "clean" /\ ask'[r].ref = n
  PROVE  ReferencesFollowItem'
<1>1. ASSUME NEW n \in Installed' \ strayOn', refs'[n].on PROVE Offering'
  BY <1>1 DEF Late, Installed
<1>2. ASSUME NEW n \in Installed' \ straySnap', item'.live PROVE refs'[n].snap = item'.snap
  BY <1>2 DEF Late, Installed
<1>3. ASSUME NEW n \in members' \ strayMember'
      PROVE  refs'[n].on \/ \E r \in Requests : ask'[r].at = "clean" /\ ask'[r].ref = n
  BY <1>3 DEF Late
<1> QED
  BY <1>1, <1>2, <1>3 DEF ReferencesFollowItem

\* The references follow an administrator's step.
LEMMA AdminFollows ==
  ASSUME MarketInv, NEW a \in Admins, AdminStep(a), MarketTypeOK'
  PROVE  ReferencesFollowItem'
<1> USE AdminKeeps DEF MarketInv
<1>1. /\ admin[a].item.snap \in Snaps
      /\ refs \in [Names -> RefRows] /\ SyncRefs(admin[a].item.snap) \in [Names -> RefRows]
      /\ Installed \subseteq Names /\ members' \subseteq Names
  BY RefsType DEF MarketTypeOK, AdminRows, Items, Installed
<1>a. \A n \in Names \ strayOn : refs[n].on => Offering
  BY DEF ReferencesFollowItem, RowsThere, Installed
<1>b. \A n \in Names \ straySnap : refs[n].here /\ item.live => refs[n].snap = item.snap
  BY DEF ReferencesFollowItem, Installed
<1>c. \A n \in members \ strayMember :
         refs[n].on \/ \E r \in Requests : ask'[r].at = "clean" /\ ask'[r].ref = n
  BY DEF ReferencesFollowItem
<1>2. CASE SaveItem(a)
  <2> DEFINE S == IF admin[a].fresh THEN {} ELSE Installed
             synced == IF admin[a].push THEN SyncRefs(admin[a].item.snap) ELSE refs
  <2>1. \A n \in Names : /\ refs'[n].here = refs[n].here
                         /\ refs'[n].on => refs[n].on /\ ~admin[a].off
                         /\ refs[n].on => refs'[n].on \/ admin[a].off
                         /\ refs'[n].here =>
                              refs'[n].snap = IF admin[a].push THEN admin[a].item.snap ELSE refs[n].snap
    <3>1. synced \in [Names -> RefRows]
      BY <1>1
    <3>2. \A n \in Names : /\ synced[n].here = refs[n].here
                           /\ synced[n].on => refs[n].on
                           /\ refs[n].on => synced[n].on
                           /\ synced[n].here =>
                                synced[n].snap = IF admin[a].push THEN admin[a].item.snap ELSE refs[n].snap
      BY <1>1, RefsHere DEF RowsThere
    <3>3. refs' = IF admin[a].off THEN DisableRefs(synced) ELSE synced
      BY <1>2 DEF SaveItem
    <3> HIDE DEF synced
    <3> QED
      BY <3>1, <3>2, <3>3, RefsHere
  <2>2. item' = admin[a].item /\ Late(S) /\ members' = IF admin[a].off THEN {} ELSE members
    BY <1>2 DEF SaveItem
  <2>3. admin[a].fresh =>
          /\ item.live
          /\ ~admin[a].push => admin[a].item.snap = item.snap
          /\ IF admin[a].off THEN ~admin[a].item.on ELSE admin[a].item.on \/ ~item.on
    BY <1>2 DEF SaveItem, AdminCurrent
  <2>4. admin[a].item.live
    BY <1>2 DEF SaveItem, BornFirst
  <2>5. \A n \in Names \ (strayOn \cup S) : refs'[n].here /\ refs'[n].on => Offering'
    BY <1>a, <2>1, <2>2, <2>3, <2>4 DEF Installed, Offering
  <2>6. \A n \in Names \ (straySnap \cup S) :
          refs'[n].here /\ item'.live => refs'[n].snap = item'.snap
    BY <1>b, <2>1, <2>2, <2>3 DEF Installed
  <2>7. \A n \in members' \ (strayMember \cup S) :
          refs'[n].on \/ \E r \in Requests : ask'[r].at = "clean" /\ ask'[r].ref = n
    BY <1>1, <1>c, <2>1, <2>2
  <2> HIDE DEF S
  <2> QED
    BY <1>1, <2>2, <2>5, <2>6, <2>7, LateFollows
<1>3. CASE DeleteItem(a)
  <2>1. /\ \A n \in Names : ~refs'[n].on
        /\ ~item'.live /\ members' = {} /\ Late({})
    BY <1>1, <1>3, RefsHere DEF DeleteItem, NoItem
  <2> QED
    BY <1>1, <2>1, LateFollows
<1>4. CASE StoreSnapshots(a)
  <2>1. \A n \in Names : /\ refs'[n].here = refs[n].here
                         /\ refs'[n].on => refs[n].on
                         /\ refs[n].on => refs'[n].on
                         /\ refs'[n].here => refs'[n].snap = admin[a].item.snap
    BY <1>1, <1>4, RefsHere DEF StoreSnapshots, RowsThere
  <2>2. /\ item'.live = item.live /\ item'.on = item.on
        /\ item'.live => item'.snap = admin[a].item.snap
        /\ members' = members /\ Late({})
    BY <1>4 DEF StoreSnapshots, MarketTypeOK, Items
  <2>3. Offering' <=> Offering
    BY <2>2 DEF Offering
  <2> QED
    BY <1>1, <1>a, <1>c, <2>1, <2>2, <2>3, LateFollows
<1>5. ASSUME NEW p \in PriceTags, Publish(a, p) PROVE ReferencesFollowItem'
  BY <1>5, <1>c DEF Publish, BornFirst, ReferencesFollowItem, refVars, strayVars
<1>6. CASE /\ UNCHANGED <<refVars, ask, strayVars>>
           /\ item'.live = item.live /\ item'.on = item.on
           /\ item'.snap = item.snap /\ item'.born = item.born
  BY <1>6 DEF ReferencesFollowItem, Offering, refVars, strayVars
<1> QED
  BY <1>2, <1>3, <1>4, <1>5, <1>6, AdminCases

\* What a step of one request leaves of another: what it does next, and what it
\* has read, which counts as old once the reference it read is written.
LEMMA OthersKept ==
  ASSUME MarketInv, NEW r \in Requests, InstallStep(r) \/ EditStep(r),
         NEW q \in Requests \ {r}
  PROVE  /\ ask'[q].at = ask[q].at /\ ask'[q].on = ask[q].on /\ ask'[q].snap = ask[q].snap
         /\ ask'[q].fresh => ask[q].fresh
         /\ \/ ask'[q].ref = ask[q].ref
            \/ ask'[q].ref = 0 /\ DeleteRemove(r) /\ ask[q].at \in {"enable", "store"}
<1>1. CASE ask'[q] = ask[q]
  BY <1>1
<1>2. ASSUME NEW n \in Names, Outdate(r, n)
      PROVE  ask'[q] \in {ask[q], [ask[q] EXCEPT !.fresh = FALSE]}
  BY <1>2 DEF Outdate
<1>3. CASE ask'[q] = [ask[q] EXCEPT !.fresh = FALSE]
  BY <1>3 DEF MarketInv, MarketTypeOK, AskRows
<1>4. CASE DeleteRemove(r)
  <2>1. \/ ask'[q] = ask[q]
        \/ ask'[q] = [ask[q] EXCEPT !.ref = 0] /\ ask[q].at \in {"enable", "store"}
    BY <1>4 DEF DeleteRemove
  <2> QED
    BY <1>1, <1>4, <2>1 DEF MarketInv, MarketTypeOK, AskRows
<1>5. CASE AddEnable(r)
  BY <1>1, <1>2, <1>3, <1>5, AskParts DEF AddEnable, Ends, MarketInv, MarketTypeOK
<1>6. CASE SyncStore(r)
  BY <1>1, <1>2, <1>3, <1>6, AskParts DEF SyncStore, Ends, MarketInv, MarketTypeOK
<1>7. CASE ~DeleteRemove(r) /\ ~AddEnable(r) /\ ~SyncStore(r) /\ InstallStep(r)
  BY <1>1, <1>7 DEF InstallStep, MarketInv, MarketTypeOK, Ends, Goes, AddRead, AddLook, AddName,
                    AddInsert
<1>8. CASE ~DeleteRemove(r) /\ ~AddEnable(r) /\ ~SyncStore(r) /\ EditStep(r)
  BY <1>1, <1>8 DEF EditStep, MarketInv, MarketTypeOK, Ends, Goes, EditGate, EditSave, EditClean,
                    DeleteUnlink, EditRead, DeleteRead, SyncRead
<1> QED
  BY <1>4, <1>5, <1>6, <1>7, <1>8

\* What a request's own step does to locks and rows: it starts an edit of a
\* reference that nobody has locked, and lets the lock go at the end of it.
LEMMA OwnStep ==
  ASSUME MarketInv, NEW r \in Requests, InstallStep(r) \/ EditStep(r)
  PROVE  /\ ask'[r].at \in EditPoints =>
              /\ ask'[r].ref \in locked'
              /\ \/ ask[r].at \in EditPoints /\ ask'[r].ref = ask[r].ref
                 \/ ask'[r].ref \in Installed \ locked
         /\ \A m \in locked : \/ m \in locked'
                              \/ m = ask[r].ref /\ ask[r].at \in EditPoints /\ ask'[r].at \notin EditPoints
         /\ ask'[r].at \in {"enable", "store"} => ask'[r].ref \in Installed \cup {0}
         /\ ask'[r].at = "insert" => ask'[r].ref \in Names
         /\ ask'[r].at = "saveOff" => ~ask'[r].on
<1> USE DEF MarketInv, MarketTypeOK, Ends, Goes, EditPoints, IdleAsk, refVars
<1>1. CASE AddRead(r)
  BY <1>1 DEF AddRead
<1>2. CASE AddLook(r)
  <2>1. ask' = [ask EXCEPT ![r].at = "name"] => ask'[r].at = "name"
    BY DEF AskRows
  <2>2. ASSUME NEW n \in Installed, ask' = [ask EXCEPT ![r].at = "enable", ![r].ref = n, ![r].snap = 0]
        PROVE  ask'[r].at = "enable" /\ ask'[r].ref = n
    BY <2>2 DEF AskRows
  <2>3. ask' = [ask EXCEPT ![r] = IdleAsk] => ask'[r].at = "idle"
    OBVIOUS
  <2>4. \/ ask'[r].at \in {"name", "idle"}
        \/ ask'[r].at = "enable" /\ ask'[r].ref \in Installed
    BY <1>2, <2>1, <2>2, <2>3 DEF AddLook
  <2>5. locked' = locked
    BY <1>2 DEF AddLook
  <2> QED
    BY <2>4, <2>5
<1>3. CASE AddEnable(r)
  BY <1>3, AskParts DEF AddEnable, Outdate
<1>4. CASE AddName(r)
  <2>1. PICK n \in Names : ask' = [ask EXCEPT ![r].at = "insert", ![r].ref = n]
    BY <1>4 DEF AddName
  <2> QED
    BY <1>4, <2>1 DEF AddName, AskRows
<1>5. CASE AddInsert(r)
  BY <1>5 DEF AddInsert
<1>6. CASE EditGate(r)
  <2>1. ask[r].at = "gate" /\ ask[r].ref \in locked
    BY <1>6 DEF EditGate, LocksHeld
  <2>2. CASE ask' = [ask EXCEPT ![r] = IdleAsk] /\ locked' = locked \ {ask[r].ref}
    BY <2>1, <2>2
  <2>3. CASE ask' = [ask EXCEPT ![r].at = "save", ![r].on = TRUE] /\ locked' = locked
    <3>1. ask'[r].at = "save" /\ ask'[r].ref = ask[r].ref
      BY <2>3 DEF AskRows
    <3> QED
      BY <2>1, <2>3, <3>1
  <2> QED
    BY <1>6, <2>2, <2>3 DEF EditGate
<1>7. CASE EditSave(r)
  <2>1. ask[r].at \in {"save", "saveOff"} /\ ask[r].ref \in locked
    BY <1>7 DEF EditSave, LocksHeld
  <2>2. CASE ask[r].at = "saveOff"
    <3>1. ask'[r].at = "clean" /\ ask'[r].ref = ask[r].ref /\ locked' = locked
      BY <1>7, <2>2 DEF EditSave
    <3> QED
      BY <2>1, <3>1
  <2>3. CASE ask[r].at # "saveOff"
    <3>1. ask'[r].at = "idle" /\ locked' = locked \ {ask[r].ref}
      BY <1>7, <2>3 DEF EditSave
    <3> QED
      BY <2>1, <3>1
  <2> QED
    BY <2>2, <2>3
<1>8. CASE EditClean(r)
  BY <1>8 DEF EditClean
<1>9. CASE DeleteUnlink(r)
  <2>1. ask[r].at = "unlink" /\ ask[r].ref \in locked /\ locked' = locked
    BY <1>9 DEF DeleteUnlink, LocksHeld
  <2>2. ask'[r].at = "remove" /\ ask'[r].ref = ask[r].ref
    BY <1>9 DEF DeleteUnlink, AskRows
  <2> QED
    BY <2>1, <2>2
<1>10. CASE DeleteRemove(r)
  BY <1>10 DEF DeleteRemove
<1>11. CASE SyncStore(r)
  BY <1>11, AskParts DEF SyncStore, Outdate
<1>12. ASSUME NEW n \in Names, EditRead(r, n)
       PROVE  /\ ask'[r].ref = n /\ n \in Installed \ locked /\ locked' = locked \cup {n}
              /\ ask'[r].at \in {"gate", "save", "saveOff"} /\ (ask'[r].at = "saveOff" => ~ask'[r].on)
  <2>1. PICK then \in {"gate", "save", "saveOff"} :
          ask' = [ask EXCEPT ![r] = [at |-> then, ref |-> n, fresh |-> TRUE,
                                     on |-> refs[n].on /\ then = "save", snap |-> refs[n].snap]]
    BY <1>12 DEF EditRead
  <2>2. ask'[r].at = then /\ ask'[r].ref = n /\ (ask'[r].on <=> refs[n].on /\ then = "save")
    BY <2>1
  <2> QED
    BY <1>12, <2>2 DEF EditRead
<1>13. ASSUME NEW n \in Names, DeleteRead(r, n)
       PROVE  /\ ask'[r].ref = n /\ n \in Installed \ locked /\ locked' = locked \cup {n}
              /\ ask'[r].at = "unlink"
  BY <1>13 DEF DeleteRead
<1>14. ASSUME NEW n \in Names, SyncRead(r, n)
       PROVE  ask'[r].ref = n /\ n \in Installed /\ locked' = locked /\ ask'[r].at = "store"
  BY <1>14 DEF SyncRead
<1>15. CASE \E n \in Names : EditRead(r, n) \/ DeleteRead(r, n) \/ SyncRead(r, n)
  BY <1>12, <1>13, <1>14, <1>15
<1> QED
  BY <1>1, <1>2, <1>3, <1>4, <1>5, <1>6, <1>7, <1>8, <1>9, <1>10, <1>11, <1>15
     DEF InstallStep, EditStep

\* What a request's own step does to the rows: only a deletion, at its end, takes one
\* away, and no step leaves a name on that has no row.
LEMMA OwnRows ==
  ASSUME MarketInv, NEW r \in Requests, InstallStep(r) \/ EditStep(r)
  PROVE  /\ \A m \in Installed : \/ m \in Installed'
                                 \/ DeleteRemove(r) /\ m = ask[r].ref
         /\ \A m \in Names : refs'[m].on => refs'[m].here
<1> USE DEF MarketInv, MarketTypeOK, RowsThere, refVars
<1>1. CASE UNCHANGED refs
  BY <1>1 DEF Installed
<1>2. ASSUME NEW n \in Installed, refs' = [refs EXCEPT ![n].on = TRUE]
      PROVE  Installed' = Installed /\ \A m \in Names : refs'[m].on => refs'[m].here
  BY <1>2 DEF Installed, RefRows
<1>3. ASSUME NEW n \in Installed, NEW s, refs' = [refs EXCEPT ![n].snap = s]
      PROVE  Installed' = Installed /\ \A m \in Names : refs'[m].on => refs'[m].here
  BY <1>3 DEF Installed, RefRows
<1>4. ASSUME NEW n \in Names, NEW on, NEW s, refs' = [refs EXCEPT ![n] = [here |-> TRUE, on |-> on, snap |-> s]]
      PROVE  Installed \subseteq Installed' /\ \A m \in Names : refs'[m].on => refs'[m].here
  BY <1>4 DEF Installed, RefRows
<1>5. CASE AddEnable(r)
  BY <1>1, <1>2, <1>5 DEF AddEnable
<1>6. CASE SyncStore(r)
  BY <1>1, <1>3, <1>6 DEF SyncStore
<1>7. CASE AddInsert(r)
  BY <1>1, <1>4, <1>7 DEF AddInsert, NamesChosen
<1>8. CASE EditSave(r)
  <2>1. ask[r].ref \in Names
    BY <1>8 DEF EditSave, LocksHeld, EditPoints, Installed
  <2> QED
    BY <1>4, <1>8, <2>1 DEF EditSave
<1>9. CASE DeleteRemove(r)
  BY <1>9 DEF DeleteRemove, Installed, NoRef, RefRows
<1> QED
  BY <1>1, <1>5, <1>6, <1>7, <1>8, <1>9 DEF InstallStep, EditStep, AddRead, AddLook, AddName,
     EditGate, EditClean, DeleteUnlink, EditRead, DeleteRead, SyncRead

\* Locks, rows and names survive the steps of the requests.
LEMMA UserLocks ==
  ASSUME MarketInv, NEW r \in Requests, InstallStep(r) \/ EditStep(r)
  PROVE  LocksHeld' /\ RowsThere' /\ NamesChosen' /\ OffIsOff'
<1> USE OthersKept, OwnStep, OwnRows DEF MarketInv
<1>1. ASSUME DeleteRemove(r)
      PROVE  /\ ask[r].at = "remove" /\ ask'[r].at = "idle"
             /\ \A q \in Requests :
                  ask'[q].at \in {"enable", "store"} => ask'[q].ref # ask[r].ref
  <2>1. ask[r].at = "remove" /\ ask[r].ref # 0 /\ ask'[r].at = "idle"
    BY <1>1 DEF DeleteRemove, LocksHeld, EditPoints, Installed, Names, IdleAsk, MarketTypeOK
  <2>2. ASSUME NEW q \in Requests \ {r}, ask'[q].at \in {"enable", "store"}
        PROVE  ask'[q].ref # ask[r].ref
    <3>1. ask[q].at \in {"enable", "store"}
      BY <2>2
    <3>2. CASE ask[q].ref = ask[r].ref
      <4>1. ask'[q] = [ask[q] EXCEPT !.ref = 0]
        BY <1>1, <3>1, <3>2 DEF DeleteRemove
      <4> QED
        BY <2>1, <4>1 DEF MarketTypeOK, AskRows
    <3>3. CASE ask[q].ref # ask[r].ref
      BY <2>1, <3>3
    <3> QED
      BY <3>2, <3>3
  <2> QED
    BY <2>1, <2>2
<1>2. LocksHeld'
  <2>1. ASSUME NEW q \in Requests, ask'[q].at \in EditPoints
        PROVE  /\ ask'[q].ref \in Installed /\ ask'[q].ref \in locked'
               /\ q # r => ask[q].at \in EditPoints /\ ask'[q].ref = ask[q].ref
    BY <2>1 DEF LocksHeld, EditPoints
  <2>2. ASSUME NEW p \in Requests, NEW q \in Requests \ {p},
               ask'[p].at \in EditPoints, ask'[q].at \in EditPoints
        PROVE  ask'[q].ref # ask'[p].ref
    BY <2>1, <2>2 DEF LocksHeld
  <2>3. ASSUME NEW q \in Requests, ask'[q].at \in EditPoints
        PROVE  ask'[q].ref \in Installed'
    <3>1. CASE ~DeleteRemove(r)
      BY <2>1, <2>3, <3>1
    <3>2. CASE DeleteRemove(r)
      <4>1. q # r /\ ask[q].at \in EditPoints /\ ask[r].at \in EditPoints
        BY <1>1, <2>1, <2>3, <3>2 DEF EditPoints
      <4>2. ask[q].ref # ask[r].ref
        BY <4>1 DEF LocksHeld
      <4> QED
        BY <2>1, <2>3, <4>1, <4>2
    <3> QED
      BY <3>1, <3>2
  <2> QED
    BY <2>1, <2>2, <2>3 DEF LocksHeld
<1>3. RowsThere'
  <2>1. ASSUME NEW q \in Requests, ask'[q].at \in {"enable", "store"}
        PROVE  ask'[q].ref \in Installed' \cup {0}
    <3>1. ask'[q].ref \in Installed \cup {0}
      BY <2>1 DEF RowsThere
    <3> QED
      BY <1>1, <2>1, <3>1
  <2> QED
    BY <2>1 DEF RowsThere
<1>4. NamesChosen' /\ OffIsOff'
  BY DEF NamesChosen, OffIsOff
<1> QED
  BY <1>2, <1>3, <1>4

\* What installs and synchronises has read is old once the item changes: a request's
\* own step reads the item, or keeps what it read.
LEMMA UserInstalls ==
  ASSUME MarketInv, NEW r \in Requests, InstallStep(r) \/ EditStep(r)
  PROVE  InstallCurrent'
<1> USE DEF MarketInv
<1> DEFINE Fine(q) == ask'[q].fresh =>
             /\ ask'[q].at \in {"look", "enable", "name", "insert"} => Offering
             /\ ask'[q].at \in {"look", "name", "insert", "store"} => ask'[q].snap = item.snap
<1>1. item' = item
  BY UserKeepsItem DEF UserStep, MarketRest
<1>2. ASSUME NEW q \in Requests \ {r} PROVE Fine(q)
  BY OthersKept DEF InstallCurrent
<1>3. Fine(r)
  <2> USE DEF InstallCurrent, MarketTypeOK, Ends, Goes, IdleAsk
  <2>1. CASE AddRead(r)
    BY <2>1 DEF AddRead
  <2>2. CASE AddLook(r)
    <3>1. ask' = [ask EXCEPT ![r].at = "name"] =>
            ask'[r].at = "name" /\ ask'[r].snap = ask[r].snap /\ ask'[r].fresh = ask[r].fresh
      BY DEF AskRows
    <3>2. ASSUME NEW n \in Installed,
                 ask' = [ask EXCEPT ![r].at = "enable", ![r].ref = n, ![r].snap = 0]
          PROVE  ask'[r].at = "enable" /\ ask'[r].fresh = ask[r].fresh
      BY <3>2 DEF AskRows
    <3>3. ask' = [ask EXCEPT ![r] = IdleAsk] => ask'[r].at = "idle"
      OBVIOUS
    <3> QED
      BY <2>2, <3>1, <3>2, <3>3 DEF AddLook
  <2>3. CASE AddEnable(r)
    <3>1. ask'[r].at = "idle"
      BY <2>3 DEF AddEnable, Outdate
    <3> QED
      BY <3>1
  <2>4. CASE AddName(r)
    <3>1. PICK n \in Names : ask' = [ask EXCEPT ![r].at = "insert", ![r].ref = n]
      BY <2>4 DEF AddName
    <3>2. ask'[r].at = "insert" /\ ask'[r].snap = ask[r].snap /\ ask'[r].fresh = ask[r].fresh
      BY <3>1 DEF AskRows
    <3> QED
      BY <2>4, <3>2 DEF AddName
  <2>5. CASE AddInsert(r)
    BY <2>5 DEF AddInsert
  <2>6. CASE EditGate(r)
    <3>1. ask'[r].at \in {"idle", "save"}
      BY <2>6 DEF EditGate, AskRows
    <3> QED
      BY <3>1
  <2>7. CASE EditSave(r)
    <3>1. ask[r].at = "saveOff" => ask'[r].at = "clean"
      BY <2>7 DEF EditSave
    <3>2. ask[r].at # "saveOff" => ask'[r].at = "idle"
      BY <2>7 DEF EditSave
    <3> QED
      BY <3>1, <3>2
  <2>8. CASE EditClean(r)
    BY <2>8 DEF EditClean
  <2>9. CASE DeleteUnlink(r)
    <3>1. ask'[r].at = "remove"
      BY <2>9 DEF DeleteUnlink, AskRows
    <3> QED
      BY <3>1
  <2>10. CASE DeleteRemove(r)
    BY <2>10 DEF DeleteRemove
  <2>11. CASE SyncStore(r)
    <3>1. ask'[r].at = "idle"
      BY <2>11 DEF SyncStore, Outdate
    <3> QED
      BY <3>1
  <2>12. ASSUME NEW n \in Names, EditRead(r, n) PROVE Fine(r)
    <3>1. ask'[r].at \in {"gate", "save", "saveOff"}
      BY <2>12 DEF EditRead
    <3> QED
      BY <3>1
  <2>13. ASSUME NEW n \in Names, DeleteRead(r, n) PROVE Fine(r)
    BY <2>13 DEF DeleteRead
  <2>14. ASSUME NEW n \in Names, SyncRead(r, n) PROVE Fine(r)
    BY <2>14 DEF SyncRead
  <2> QED
    BY <2>1, <2>2, <2>3, <2>4, <2>5, <2>6, <2>7, <2>8, <2>9, <2>10, <2>11, <2>12, <2>13, <2>14
       DEF InstallStep, EditStep
<1> QED
  BY <1>1, <1>2, <1>3 DEF InstallCurrent, Offering

\* No step of a request changes the reference that another edits, or what that one
\* has read of it is old.
LEMMA OthersRef ==
  ASSUME MarketInv, NEW r \in Requests, InstallStep(r) \/ EditStep(r),
         NEW q \in Requests \ {r}, ask[q].at \in {"gate", "save", "saveOff"}, ask'[q].fresh
  PROVE  refs'[ask[q].ref] = refs[ask[q].ref]
<1> USE DEF MarketInv, MarketTypeOK
<1>1. /\ ask[q].ref \in Installed /\ ask[q].ref \in Names /\ ask[q].at \in EditPoints
      /\ ask[r].at \in EditPoints => ask[r].ref # ask[q].ref
  BY DEF LocksHeld, EditPoints, Installed
<1>2. CASE UNCHANGED refs
  BY <1>2
<1>3. ASSUME NEW n \in Names, Outdate(r, n), NEW row, refs' = [refs EXCEPT ![n] = row]
      PROVE  refs'[ask[q].ref] = refs[ask[q].ref]
  <2>1. CASE ask[q].ref = n
    <3>1. ask'[q] = [ask[q] EXCEPT !.fresh = FALSE]
      BY <1>3, <2>1 DEF Outdate
    <3> QED
      BY <3>1 DEF AskRows
  <2>2. CASE ask[q].ref # n
    BY <1>3, <2>2
  <2> QED
    BY <2>1, <2>2
<1>4. CASE AddEnable(r)
  <2>1. ask[r].ref # 0 => ask[r].ref \in Names
    BY AskParts
  <2> QED
    BY <1>2, <1>3, <1>4, <2>1 DEF AddEnable
<1>5. CASE SyncStore(r)
  <2>1. ask[r].ref # 0 => ask[r].ref \in Names
    BY AskParts
  <2> QED
    BY <1>2, <1>3, <1>5, <2>1 DEF SyncStore
<1>6. CASE AddInsert(r)
  BY <1>1, <1>6 DEF AddInsert
<1>7. CASE EditSave(r)
  BY <1>1, <1>7 DEF EditSave, EditPoints
<1>8. CASE DeleteRemove(r)
  BY <1>1, <1>8 DEF DeleteRemove, EditPoints
<1> QED
  BY <1>2, <1>4, <1>5, <1>6, <1>7, <1>8 DEF InstallStep, EditStep, AddRead, AddLook, AddName,
     EditGate, EditClean, DeleteUnlink, EditRead, DeleteRead, SyncRead, refVars

\* Only the read of an edit, and its gate, lead to where it saves.
LEMMA Elsewhere ==
  ASSUME MarketInv, NEW r \in Requests, InstallStep(r) \/ EditStep(r)
  PROVE  \/ EditGate(r) \/ \E n \in Names : EditRead(r, n)
         \/ ask'[r].at \notin {"gate", "save", "saveOff"}
<1> USE DEF MarketInv, MarketTypeOK, Ends, Goes
<1>1. IdleAsk.at = "idle"
  BY DEF IdleAsk
<1>2. CASE AddLook(r)
  <2>1. ask' = [ask EXCEPT ![r].at = "name"] => ask'[r].at = "name"
    BY DEF AskRows
  <2>2. ASSUME NEW n \in Installed, ask' = [ask EXCEPT ![r].at = "enable", ![r].ref = n, ![r].snap = 0]
        PROVE  ask'[r].at = "enable"
    BY <2>2 DEF AskRows
  <2>3. ask' = [ask EXCEPT ![r] = IdleAsk] => ask'[r].at = "idle"
    BY <1>1
  <2> QED
    BY <1>2, <2>1, <2>2, <2>3 DEF AddLook
<1>3. CASE AddName(r)
  BY <1>3 DEF AddName, AskRows
<1>4. CASE EditSave(r)
  <2>1. CASE ask[r].at = "saveOff"
    <3>1. ask'[r] = [IdleAsk EXCEPT !.at = "clean", !.ref = ask[r].ref]
      BY <1>4, <2>1 DEF EditSave
    <3> QED
      BY <3>1 DEF IdleAsk
  <2>2. CASE ask[r].at # "saveOff"
    BY <1>1, <1>4, <2>2 DEF EditSave
  <2> QED
    BY <2>1, <2>2
<1>5. CASE AddEnable(r) \/ SyncStore(r) \/ DeleteRemove(r)
  BY <1>1, <1>5 DEF AddEnable, SyncStore, DeleteRemove, Outdate
<1>6. CASE AddInsert(r) \/ EditClean(r)
  BY <1>1, <1>6 DEF AddInsert, EditClean
<1>7. CASE AddRead(r)
  BY <1>7 DEF AddRead, IdleAsk
<1>8. CASE DeleteUnlink(r)
  BY <1>8 DEF DeleteUnlink, AskRows
<1>9. ASSUME NEW n \in Names, DeleteRead(r, n) PROVE ask'[r].at = "unlink"
  BY <1>9 DEF DeleteRead, IdleAsk
<1>10. ASSUME NEW n \in Names, SyncRead(r, n) PROVE ask'[r].at = "store"
  BY <1>10 DEF SyncRead, IdleAsk
<1> QED
  BY <1>2, <1>3, <1>4, <1>5, <1>6, <1>7, <1>8, <1>9, <1>10 DEF InstallStep, EditStep

\* What an edit has read of its reference, and is not old, is still so.
LEMMA UserEdits ==
  ASSUME MarketInv, NEW r \in Requests, InstallStep(r) \/ EditStep(r)
  PROVE  EditCurrent'
<1> USE DEF MarketInv
<1> DEFINE Reads(q) == ask'[q].at \in {"gate", "save", "saveOff"} =>
             ask'[q].snap = refs'[ask'[q].ref].snap
           Saves(q) == ask'[q].at = "save" =>
             IF ask'[q].on THEN refs'[ask'[q].ref].on \/ Offering ELSE ~refs'[ask'[q].ref].on
           Fine(q) == ask'[q].fresh => Reads(q) /\ Saves(q)
<1>1. Offering' = Offering
  BY UserKeepsItem DEF UserStep, MarketRest, Offering
<1>2. ASSUME NEW q \in Requests \ {r} PROVE Fine(q)
  <2> SUFFICES ASSUME ask'[q].fresh, ask'[q].at \in {"gate", "save", "saveOff"}
               PROVE  Reads(q) /\ Saves(q)
    OBVIOUS
  <2>1. /\ ask[q].fresh /\ ask[q].at = ask'[q].at /\ ask[q].snap = ask'[q].snap
        /\ ask[q].on = ask'[q].on /\ ask[q].ref = ask'[q].ref
    BY OthersKept
  <2>2. refs'[ask[q].ref] = refs[ask[q].ref]
    BY <2>1, OthersRef
  <2> QED
    BY <2>1, <2>2 DEF EditCurrent
<1>3. Fine(r)
  <2>1. CASE EditGate(r)
    <3>1. CASE ask' = [ask EXCEPT ![r] = IdleAsk]
      BY <3>1 DEF IdleAsk, MarketTypeOK
    <3>2. CASE ask' = [ask EXCEPT ![r].at = "save", ![r].on = TRUE] /\ Offering
      <4>1. /\ ask'[r].at = "save" /\ ask'[r].on /\ ask'[r].snap = ask[r].snap
            /\ ask'[r].ref = ask[r].ref /\ ask'[r].fresh = ask[r].fresh
        BY <3>2 DEF MarketTypeOK, AskRows
      <4>2. ask[r].at = "gate" /\ refs' = refs
        BY <2>1 DEF EditGate
      <4> QED
        BY <3>2, <4>1, <4>2 DEF EditCurrent
    <3> QED
      BY <2>1, <3>1, <3>2 DEF EditGate, Ends
  <2>2. ASSUME NEW n \in Names, EditRead(r, n) PROVE Fine(r)
    <3>1. PICK then \in {"gate", "save", "saveOff"} :
            ask' = [ask EXCEPT ![r] = [at |-> then, ref |-> n, fresh |-> TRUE,
                                       on |-> refs[n].on /\ then = "save", snap |-> refs[n].snap]]
      BY <2>2 DEF EditRead
    <3>2. /\ ask'[r].at = then /\ ask'[r].ref = n /\ ask'[r].snap = refs[n].snap
          /\ ask'[r].on <=> refs[n].on /\ then = "save"
      BY <3>1 DEF MarketTypeOK
    <3>3. refs' = refs
      BY <2>2 DEF EditRead
    <3> QED
      BY <3>2, <3>3
  <2>3. CASE ask'[r].at \notin {"gate", "save", "saveOff"}
    BY <2>3
  <2> QED
    BY <2>1, <2>2, <2>3, Elsewhere
<1> QED
  BY <1>1, <1>2, <1>3 DEF EditCurrent

\* Who is to take a reference out of its groups still is, or has.
LEMMA CleansKept ==
  ASSUME MarketInv, NEW r \in Requests, InstallStep(r) \/ EditStep(r),
         NEW q \in Requests, ask[q].at = "clean"
  PROVE  \/ ask'[q].at = "clean" /\ ask'[q].ref = ask[q].ref
         \/ EditClean(r) /\ q = r
<1>1. CASE q # r
  BY <1>1, OthersKept
<1>2. CASE q = r
  BY <1>2 DEF InstallStep, EditStep, AddRead, AddLook, AddEnable, AddName, AddInsert, EditGate,
     EditSave, DeleteUnlink, DeleteRemove, SyncStore, EditRead, DeleteRead, SyncRead
<1> QED
  BY <1>1, <1>2

\* The references follow a request's step: what is fresh makes nothing unlike the
\* item, and what is not is noted.
LEMMA UserFollows ==
  ASSUME MarketInv, NEW r \in Requests, InstallStep(r) \/ EditStep(r), MarketTypeOK'
  PROVE  ReferencesFollowItem'
<1> USE DEF MarketInv
<1> DEFINE n == ask[r].ref
           Cleaning(m) == \E q \in Requests : ask'[q].at = "clean" /\ ask'[q].ref = m
<1>1. /\ item' = item /\ Offering' = Offering
      /\ members' \subseteq Names /\ members \subseteq Names /\ refs \in [Names -> RefRows]
  BY UserKeepsItem DEF UserStep, MarketRest, Offering, MarketTypeOK
<1>a. \A m \in Names \ strayOn : refs[m].on => Offering
  BY DEF ReferencesFollowItem, RowsThere, Installed
<1>b. \A m \in Names \ straySnap : refs[m].here /\ item.live => refs[m].snap = item.snap
  BY DEF ReferencesFollowItem, Installed
<1>c. \A m \in members \ strayMember :
        refs[m].on \/ Cleaning(m) \/ (EditClean(r) /\ m = n)
  BY CleansKept DEF ReferencesFollowItem
<1>2. CASE UNCHANGED <<refs, members, strayVars>> /\ ~EditClean(r)
  BY <1>1, <1>2, <1>c DEF ReferencesFollowItem, Installed, strayVars
<1>3. CASE AddEnable(r)
  <2>1. n = 0 \/ n \in Installed
    BY <1>3 DEF AddEnable, RowsThere
  <2>2. CASE n = 0
    <3>1. refs' = refs /\ members' = members /\ Late({})
      BY <1>3, <2>2 DEF AddEnable
    <3> QED
      BY <1>1, <1>a, <1>b, <1>c, <1>3, <3>1, LateFollows DEF AddEnable, EditClean
  <2>3. CASE n # 0 /\ n \in Installed
    <3> DEFINE S == IF ask[r].fresh THEN {} ELSE {n}
    <3>1. refs' = [refs EXCEPT ![n].on = TRUE] /\ members' = members /\ Late(S)
      BY <1>3, <2>3 DEF AddEnable
    <3>2. ask[r].fresh => Offering
      BY <1>3 DEF AddEnable, InstallCurrent
    <3>3. /\ \A m \in Names \ {n} : refs'[m] = refs[m]
          /\ n \in Names /\ refs'[n].on /\ refs'[n].here = refs[n].here /\ refs'[n].snap = refs[n].snap
      BY <1>1, <2>3, <3>1 DEF Installed, RefRows
    <3>4. \A m \in Names \ (strayOn \cup S) : refs'[m].here /\ refs'[m].on => Offering'
      BY <1>1, <1>a, <3>2, <3>3
    <3>5. \A m \in Names \ (straySnap \cup S) :
            refs'[m].here /\ item'.live => refs'[m].snap = item'.snap
      BY <1>1, <1>b, <3>3
    <3>6. \A m \in members' \ (strayMember \cup S) : refs'[m].on \/ Cleaning(m)
      BY <1>1, <1>c, <1>3, <3>1, <3>3 DEF AddEnable, EditClean
    <3> HIDE DEF S
    <3> QED
      BY <1>1, <3>1, <3>4, <3>5, <3>6, LateFollows
  <2> QED
    BY <2>1, <2>2, <2>3
<1>4. CASE AddInsert(r)
  <2>1. members' = members /\ n \in Names
    BY <1>4 DEF AddInsert, NamesChosen
  <2>2. CASE n \in Installed
    <3>1. refs' = refs /\ Late({})
      BY <1>4, <2>2 DEF AddInsert
    <3> QED
      BY <1>1, <1>a, <1>b, <1>c, <1>4, <2>1, <3>1, LateFollows DEF AddInsert, EditClean
  <2>3. CASE n \notin Installed
    <3> DEFINE S == IF ask[r].fresh THEN {} ELSE {n}
    <3>1. refs' = [refs EXCEPT ![n] = [here |-> TRUE, on |-> TRUE, snap |-> ask[r].snap]] /\ Late(S)
      BY <1>4, <2>3 DEF AddInsert
    <3>2. ask[r].fresh => Offering /\ ask[r].snap = item.snap
      BY <1>4 DEF AddInsert, InstallCurrent
    <3>3. /\ \A m \in Names \ {n} : refs'[m] = refs[m]
          /\ refs'[n].on /\ refs'[n].here /\ refs'[n].snap = ask[r].snap
      BY <1>1, <2>1, <3>1
    <3>4. \A m \in Names \ (strayOn \cup S) : refs'[m].here /\ refs'[m].on => Offering'
      BY <1>1, <1>a, <3>2, <3>3
    <3>5. \A m \in Names \ (straySnap \cup S) :
            refs'[m].here /\ item'.live => refs'[m].snap = item'.snap
      BY <1>1, <1>b, <3>2, <3>3
    <3>6. \A m \in members' \ (strayMember \cup S) : refs'[m].on \/ Cleaning(m)
      BY <1>1, <1>c, <1>4, <2>1, <3>3 DEF AddInsert, EditClean
    <3> HIDE DEF S
    <3> QED
      BY <1>1, <3>1, <3>4, <3>5, <3>6, LateFollows
  <2> QED
    BY <2>2, <2>3
<1>5. CASE EditSave(r)
  <2> DEFINE S == IF ask[r].fresh THEN {} ELSE {n}
  <2>1. /\ ask[r].at \in {"save", "saveOff"} /\ members' = members
        /\ refs' = [refs EXCEPT ![n] = [here |-> TRUE, on |-> ask[r].on, snap |-> ask[r].snap]]
        /\ Late(S)
    BY <1>5 DEF EditSave
  <2>2. n \in Installed /\ n \in Names
    BY <2>1 DEF LocksHeld, EditPoints, Installed
  <2>3. /\ \A m \in Names \ {n} : refs'[m] = refs[m]
        /\ refs'[n].here /\ refs'[n].snap = ask[r].snap /\ (refs'[n].on <=> ask[r].on)
    BY <1>1, <2>1, <2>2
  <2>4. ask[r].fresh =>
          /\ ask[r].snap = refs[n].snap
          /\ ask[r].on => refs[n].on \/ Offering
          /\ ~ask[r].on => ask[r].at = "saveOff" \/ ~refs[n].on
    BY <2>1 DEF EditCurrent, OffIsOff
  <2>5. ~\E q \in Requests : ask[q].at = "clean" /\ ask[q].ref = n
    BY <2>1 DEF LocksHeld, EditPoints
  <2>6. n \in members \ strayMember => refs[n].on
    BY <2>5 DEF ReferencesFollowItem
  <2>7. ask[r].at = "saveOff" => Cleaning(n)
    <3>1. ASSUME ask[r].at = "saveOff" PROVE ask'[r] = [IdleAsk EXCEPT !.at = "clean", !.ref = n]
      BY <1>5, <3>1 DEF EditSave, MarketTypeOK
    <3>2. [IdleAsk EXCEPT !.at = "clean", !.ref = n].at = "clean"
      BY DEF IdleAsk
    <3>3. [IdleAsk EXCEPT !.at = "clean", !.ref = n].ref = n
      BY DEF IdleAsk
    <3> QED
      BY <3>1, <3>2, <3>3
  <2>8. \A m \in Names \ (strayOn \cup S) : refs'[m].here /\ refs'[m].on => Offering'
    BY <1>1, <1>a, <2>3, <2>4
  <2>9. \A m \in Names \ (straySnap \cup S) :
          refs'[m].here /\ item'.live => refs'[m].snap = item'.snap
    BY <1>1, <1>b, <2>2, <2>3, <2>4 DEF Installed
  <2>10. ~EditClean(r)
    BY <2>1 DEF EditClean
  <2>11. \A m \in members' \ (strayMember \cup S) : refs'[m].on \/ Cleaning(m)
    <3>1. ASSUME NEW m \in members' \ (strayMember \cup S), m # n PROVE refs'[m].on \/ Cleaning(m)
      BY <1>1, <1>c, <2>1, <2>3, <2>10, <3>1
    <3>2. n \in members' \ (strayMember \cup S) => refs'[n].on \/ Cleaning(n)
      BY <2>1, <2>3, <2>4, <2>6, <2>7
    <3> QED
      BY <3>1, <3>2
  <2> HIDE DEF S
  <2> QED
    BY <1>1, <2>1, <2>8, <2>9, <2>11, LateFollows
<1>6. CASE EditClean(r)
  <2>1. refs' = refs /\ members' = members \ {n} /\ Late({})
    BY <1>6 DEF EditClean
  <2> QED
    BY <1>1, <1>a, <1>b, <1>c, <2>1, LateFollows
<1>7. CASE DeleteUnlink(r)
  <2>1. refs' = refs /\ members' = members \ {n} /\ Late({}) /\ ~EditClean(r)
    BY <1>7 DEF DeleteUnlink, EditClean
  <2> QED
    BY <1>1, <1>a, <1>b, <1>c, <2>1, LateFollows
<1>8. CASE DeleteRemove(r)
  <2>1. /\ refs' = [refs EXCEPT ![n] = NoRef] /\ members' = members \ {n} /\ Late({})
        /\ ~EditClean(r)
    BY <1>8 DEF DeleteRemove, EditClean
  <2>2. \A m \in Names : refs'[m] = refs[m] \/ (m = n /\ ~refs'[m].here /\ ~refs'[m].on)
    BY <1>1, <2>1 DEF NoRef
  <2>3. \A m \in Names \ {n} : refs'[m] = refs[m]
    BY <1>1, <2>1
  <2> QED
    BY <1>1, <1>a, <1>b, <1>c, <2>1, <2>2, <2>3, LateFollows
<1>9. CASE SyncStore(r)
  <2>1. n = 0 \/ n \in Installed
    BY <1>9 DEF SyncStore, RowsThere
  <2>2. CASE n = 0
    <3>1. refs' = refs /\ members' = members /\ Late({})
      BY <1>9, <2>2 DEF SyncStore
    <3> QED
      BY <1>1, <1>a, <1>b, <1>c, <1>9, <3>1, LateFollows DEF SyncStore, EditClean
  <2>3. CASE n # 0 /\ n \in Installed
    <3> DEFINE S == IF ask[r].fresh THEN {} ELSE {n}
    <3>1. refs' = [refs EXCEPT ![n].snap = ask[r].snap] /\ members' = members /\ Late(S)
      BY <1>9, <2>3 DEF SyncStore
    <3>2. ask[r].fresh => ask[r].snap = item.snap
      BY <1>9 DEF SyncStore, InstallCurrent
    <3>3. /\ \A m \in Names \ {n} : refs'[m] = refs[m]
          /\ n \in Names /\ refs'[n].on = refs[n].on /\ refs'[n].here = refs[n].here
          /\ refs'[n].snap = ask[r].snap
      BY <1>1, <2>3, <3>1 DEF Installed, RefRows
    <3>4. \A m \in Names \ (strayOn \cup S) : refs'[m].here /\ refs'[m].on => Offering'
      BY <1>1, <1>a, <3>3
    <3>5. \A m \in Names \ (straySnap \cup S) :
            refs'[m].here /\ item'.live => refs'[m].snap = item'.snap
      BY <1>1, <1>b, <3>2, <3>3
    <3>6. \A m \in members' \ (strayMember \cup S) : refs'[m].on \/ Cleaning(m)
      BY <1>1, <1>c, <1>9, <3>1, <3>3 DEF SyncStore, EditClean
    <3> HIDE DEF S
    <3> QED
      BY <1>1, <3>1, <3>4, <3>5, <3>6, LateFollows
  <2> QED
    BY <2>1, <2>2, <2>3
<1> QED
  BY <1>2, <1>3, <1>4, <1>5, <1>6, <1>7, <1>8, <1>9 DEF InstallStep, EditStep, AddRead, AddLook,
     AddName, EditGate, EditRead, DeleteRead, SyncRead, EditClean, refVars

\* A request's step leaves item and administrators, and comes after the publication.
LEMMA UserBorn ==
  ASSUME MarketInv, NEW r \in Requests, InstallStep(r) \/ EditStep(r)
  PROVE  BornFirst' /\ AdminCurrent'
<1>1. item' = item /\ admin' = admin
  BY UserKeepsItem DEF UserStep, MarketRest
<1>2. item.born
  BY DEF MarketInv, BornFirst, InstallStep, EditStep, AddRead, AddLook, AddEnable, AddName, AddInsert,
     EditGate, EditSave, EditClean, DeleteUnlink, DeleteRemove, SyncStore, EditRead, DeleteRead,
     SyncRead, Offering
<1> QED
  BY <1>1, <1>2 DEF MarketInv, BornFirst, AdminCurrent

\* A service enters a group, or leaves one: nothing else changes.
LEMMA GroupInv ==
  ASSUME MarketInv, NEW n \in Names, AddServices(n) \/ RemoveService(n)
  PROVE  MarketInv'
<1> USE DEF MarketInv
<1>1. /\ item' = item /\ admin' = admin /\ ask' = ask /\ refs' = refs /\ locked' = locked
      /\ Installed' = Installed /\ Offering' = Offering
  BY DEF AddServices, RemoveService, MarketRest, Installed, Offering
<1>2. MarketTypeOK'
  BY GroupType
<1>3. /\ BornFirst' /\ LocksHeld' /\ RowsThere' /\ NamesChosen'
      /\ AdminCurrent' /\ InstallCurrent' /\ EditCurrent' /\ OffIsOff'
  BY <1>1 DEF BornFirst, LocksHeld, RowsThere, NamesChosen, AdminCurrent, InstallCurrent,
              EditCurrent, OffIsOff
<1>4. ReferencesFollowItem'
  <2> DEFINE S == IF AddServices(n) /\ ~refs[n].on THEN {n} ELSE {}
  <2>1. Late(S) /\ members' \subseteq members \cup {n} /\ (n \in members' \ members => AddServices(n))
    BY DEF AddServices, RemoveService
  <2>2. members' \subseteq Names
    BY <1>2 DEF MarketTypeOK
  <2>3. \A m \in Names \ (strayOn \cup S) : refs'[m].here /\ refs'[m].on => Offering'
    BY <1>1 DEF ReferencesFollowItem, Installed
  <2>4. \A m \in Names \ (straySnap \cup S) :
          refs'[m].here /\ item'.live => refs'[m].snap = item'.snap
    BY <1>1 DEF ReferencesFollowItem, Installed
  <2>5. \A m \in members' \ (strayMember \cup S) :
          refs'[m].on \/ \E r \in Requests : ask'[r].at = "clean" /\ ask'[r].ref = m
    BY <1>1, <2>1 DEF ReferencesFollowItem
  <2> HIDE DEF S
  <2> QED
    BY <2>1, <2>2, <2>3, <2>4, <2>5, LateFollows
<1> QED
  BY <1>2, <1>3, <1>4

\* A session writes the lists of its upstream: what edits had read of the rows is old,
\* and a reference that is now unlike the item is noted.
LEMMA PoolInv ==
  ASSUME MarketInv, NEW S \in SUBSET Installed, NEW v \in Snaps, PoolStores(S, v)
  PROVE  MarketInv'
<1>1. /\ item' = item /\ admin' = admin /\ locked' = locked /\ members' = members
      /\ entry' = entry /\ upstream' = upstream /\ adminOps' = adminOps /\ UNCHANGED priceVars
      /\ strayOn' = strayOn /\ strayMember' = strayMember
  BY DEF PoolStores, MarketRest
<1>2. Offering' = Offering
  BY <1>1 DEF Offering
<1>3. /\ refs \in [Names -> RefRows] /\ ask \in [Requests -> AskRows] /\ S \subseteq Names
  BY DEF MarketInv, MarketTypeOK, Installed
<1>4. ASSUME NEW n \in Names
      PROVE  /\ refs'[n] \in RefRows /\ refs'[n].here = refs[n].here /\ refs'[n].on = refs[n].on
             /\ n \notin S => refs'[n] = refs[n]
  <2>1. [refs[n] EXCEPT !.snap = v] \in RefRows
    BY <1>3 DEF RefRows
  <2>2. [refs[n] EXCEPT !.snap = v].here = refs[n].here /\ [refs[n] EXCEPT !.snap = v].on = refs[n].on
    BY <1>3 DEF RefRows
  <2>3. refs'[n] = IF n \in S THEN [refs[n] EXCEPT !.snap = v] ELSE refs[n]
    BY DEF PoolStores
  <2> QED
    BY <1>3, <2>1, <2>2, <2>3
<1>5. ASSUME NEW q \in Requests
      PROVE  /\ ask'[q] \in AskRows /\ ask'[q].at = ask[q].at /\ ask'[q].ref = ask[q].ref
             /\ ask'[q].on = ask[q].on /\ ask'[q].snap = ask[q].snap
             /\ ask'[q].fresh => ask[q].fresh /\ ask[q].ref \notin S
  <2> DEFINE old == [ask[q] EXCEPT !.fresh = FALSE]
  <2>1. /\ old \in AskRows /\ old.at = ask[q].at /\ old.ref = ask[q].ref
        /\ old.on = ask[q].on /\ old.snap = ask[q].snap /\ ~old.fresh
    BY <1>3 DEF AskRows
  <2>2. ask'[q] = IF ask[q].ref \in S THEN old ELSE ask[q]
    BY DEF PoolStores
  <2> HIDE DEF old
  <2> QED
    BY <1>3, <2>1, <2>2
<1>6. refs' \in [Names -> RefRows] /\ ask' \in [Requests -> AskRows]
  BY <1>4, <1>5 DEF PoolStores
<1>7. Installed' = Installed
  BY <1>4 DEF Installed
<1>8. straySnap' = {n \in straySnap \cup S : item.live /\ refs'[n].snap # item.snap}
  BY DEF PoolStores
<1>9. MarketTypeOK'
  <2>1. straySnap' \subseteq Names
    BY <1>3, <1>8 DEF MarketInv, MarketTypeOK
  <2> QED
    BY <1>1, <1>6, <2>1 DEF MarketInv, MarketTypeOK, priceVars
<1>10. BornFirst' /\ LocksHeld' /\ RowsThere' /\ NamesChosen' /\ AdminCurrent' /\ OffIsOff'
  BY <1>1, <1>4, <1>5, <1>7 DEF MarketInv, BornFirst, LocksHeld, RowsThere, NamesChosen, AdminCurrent, OffIsOff
<1>11. InstallCurrent'
  BY <1>1, <1>2, <1>5 DEF MarketInv, InstallCurrent
<1>12. EditCurrent'
  <2>1. ASSUME NEW q \in Requests, ask'[q].fresh, ask[q].at \in {"gate", "save", "saveOff"}
        PROVE  refs'[ask[q].ref] = refs[ask[q].ref]
    <3>1. ask[q].ref \in Names /\ ask[q].ref \notin S
      BY <1>5, <2>1 DEF MarketInv, LocksHeld, EditPoints, Installed
    <3> QED
      BY <1>4, <3>1
  <2> QED
    BY <1>2, <1>5, <2>1 DEF MarketInv, EditCurrent
<1>13. ReferencesFollowItem'
  <2>1. \A n \in Installed \ strayOn : refs'[n].on => Offering
    BY <1>4 DEF MarketInv, ReferencesFollowItem, Installed
  <2>2. \A n \in Installed \ straySnap' : item.live => refs'[n].snap = item.snap
    BY <1>4, <1>8 DEF MarketInv, ReferencesFollowItem, Installed
  <2>3. \A n \in members \ strayMember : \/ refs'[n].on
                                         \/ \E r \in Requests : ask'[r].at = "clean" /\ ask'[r].ref = n
    BY <1>4, <1>5 DEF MarketInv, MarketTypeOK, ReferencesFollowItem
  <2> QED
    BY <1>1, <1>2, <1>7, <2>1, <2>2, <2>3 DEF ReferencesFollowItem
<1> QED
  BY <1>9, <1>10, <1>11, <1>12, <1>13 DEF MarketInv

\* The invariant is inductive.
LEMMA MarketStep == MarketInv /\ [MarketNext]_marketVars => MarketInv'
<1> SUFFICES ASSUME MarketInv, [MarketNext]_marketVars PROVE MarketInv'
  OBVIOUS
<1>1. ASSUME NEW a \in Admins, AdminStep(a) PROVE MarketInv'
  BY <1>1, AdminType, AdminAsks, AdminBorn, AdminFresh, AdminFollows DEF MarketInv
<1>2. ASSUME NEW r \in Requests, InstallStep(r) \/ EditStep(r) PROVE MarketInv'
  <2>1. MarketTypeOK'
    BY <1>2, InstallType, EditType DEF MarketInv
  <2> QED
    BY <1>2, <2>1, UserBorn, UserLocks, UserInstalls, UserEdits, UserFollows DEF MarketInv
<1>3. CASE UpstreamChanges \/ LoadItem \/ LoadEntries \/ PriceExpires
  <2>1. MarketTypeOK'
    BY <1>3, PriceType DEF MarketInv
  <2>2. UNCHANGED <<item, refVars, admin, ask, strayVars>>
    BY <1>3 DEF UpstreamChanges, LoadItem, LoadEntries, PriceExpires
  <2> QED
    BY <2>1, <2>2 DEF MarketInv, BornFirst, LocksHeld, RowsThere, NamesChosen, AdminCurrent,
       InstallCurrent, EditCurrent, OffIsOff, ReferencesFollowItem, Installed, Offering, refVars,
       strayVars
<1>4. CASE UNCHANGED marketVars
  BY <1>4 DEF MarketInv, MarketTypeOK, BornFirst, LocksHeld, RowsThere, NamesChosen, AdminCurrent,
     InstallCurrent, EditCurrent, OffIsOff, ReferencesFollowItem, Installed, Offering, marketVars,
     refVars, strayVars, priceVars
<1> QED
  BY <1>1, <1>2, <1>3, <1>4, GroupInv, PoolInv, NextCases DEF UserStep, PoolStep

\* The empty marketplace satisfies it.
LEMMA MarketStart == MarketInit => MarketInv
<1> SUFFICES ASSUME MarketInit PROVE MarketInv
  OBVIOUS
<1>1. MarketTypeOK
  BY MarketInitType
<1>2. /\ ~item.live /\ ~item.born /\ Installed = {} /\ members = {}
      /\ \A n \in Names : ~refs[n].on
      /\ \A a \in Admins : admin[a].at = "idle"
      /\ \A r \in Requests : ask[r].at = "idle"
  BY DEF MarketInit, NoItem, NoRef, Installed, IdleAdmin, IdleAsk
<1>3. BornFirst /\ LocksHeld /\ RowsThere /\ NamesChosen
  BY <1>2 DEF BornFirst, LocksHeld, RowsThere, NamesChosen, EditPoints
<1>4. AdminCurrent /\ InstallCurrent /\ EditCurrent /\ OffIsOff /\ ReferencesFollowItem
  BY <1>2 DEF AdminCurrent, InstallCurrent, EditCurrent, OffIsOff, ReferencesFollowItem
<1> QED
  BY <1>1, <1>3, <1>4 DEF MarketInv

-----------------------------------------------------------------------------
(* The theorems.                                                            *)

\* The rows, requests and caches of the marketplace are what they should be.
THEOREM MarketType == MarketSpec => []MarketTypeOK
<1>1. MarketInv => MarketTypeOK
  BY DEF MarketInv
<1> QED
  BY <1>1, MarketStart, MarketStep, PTL DEF MarketSpec

\* Whatever administrators and the user do, and in whatever order their reads and
\* writes fall, a reference that differs from its item (on while the item is not
\* offered, with other lists, in a group while off) was made so by a late write, or
\* has the lists that a session brought from the upstream.
THEOREM ReferencesSafe == MarketSpec => []ReferencesFollowItem
<1>1. MarketInv => ReferencesFollowItem
  BY DEF MarketInv
<1> QED
  BY <1>1, MarketStart, MarketStep, PTL DEF MarketSpec

\* No load of prices leaves an old price in the cache once its change was announced.
THEOREM PriceSafe == MarketSpec => []NoStalePrice
<1>1. MarketTypeOK /\ PriceInv /\ [MarketNext]_marketVars => PriceInv'
  <2> SUFFICES ASSUME MarketTypeOK, PriceInv, [MarketNext]_marketVars PROVE PriceInv'
    OBVIOUS
  <2>1. CASE UpstreamChanges \/ UserStep \/ PoolStep \/ UNCHANGED marketVars
    <3>1. UNCHANGED <<item, entry, admin, cache, loading>>
      BY <2>1, UserKeepsItem DEF UpstreamChanges, MarketRest, marketVars, priceVars, PoolStep, PoolStores
    <3> QED
      BY <3>1 DEF PriceInv, NoStalePrice
  <2> QED
    BY <2>1, PriceAdmin, PriceLoad, NextCases
<1>2. PriceInv => NoStalePrice
  BY DEF PriceInv
<1> QED
  BY <1>1, <1>2, MarketType, PriceInit, PTL DEF MarketSpec
===============================================================================
