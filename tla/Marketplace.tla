----------------------------- MODULE Marketplace -----------------------------
(***************************************************************************)
(* An item of the marketplace, the references by which a user installs it, *)
(* their membership in groups, and the cache of its prices                 *)
(* (service/marketplace.go, service/service.go, model/mcp_service.go,      *)
(* billing/pricing.go).  Administrators edit, price, refresh and delete    *)
(* the item, which brings the references after it; the user installs,      *)
(* edits, synchronises and removes references.                             *)
(*                                                                         *)
(* An edit reads a row, and saves the whole of it later.  A service edit   *)
(* and a service deletion hold the lock of the service; nothing else does. *)
(* What edits do to sessions is in SessionPool: here a session only writes *)
(* the lists of its upstream to the rows.  Virtual items are left out.     *)
(***************************************************************************)
EXTENDS Naturals

CONSTANTS Admins, Requests,
          MaxRefs,     \* names a reference may take: the item's, with -2, ...
          MaxSnaps,    \* bound on the changes of the upstream's lists
          MaxAdminOps  \* bound on what administrators do once it is published

ASSUME MarketAssumption == {MaxRefs, MaxSnaps, MaxAdminOps} \subseteq Nat

VARIABLES
  item,     \* the row of marketplace_items
  entry,    \* the row of mcp_tool_prices for its tool: 0 is none
  upstream, \* the version of the lists the upstream serves
  refs,     \* the references of the user, by name
  members,  \* references with a row in mcp_group_services
  locked,   \* references whose service lock is held
  admin, ask,         \* administrators, requests of the user
  cache, loading,     \* pricingCache, and what the holder of pricingCacheMu has read
  adminOps,
  strayOn,            \* references a late write has left on (history)
  straySnap,          \* ... and with other lists; or a session of the pool (history)
  strayMember         \* references a late write has left in a group while off (history)

refVars == <<refs, members, locked>>
priceVars == <<cache, loading>>
strayVars == <<strayOn, straySnap, strayMember>>
marketVars == <<item, entry, upstream, adminOps, refVars, admin, ask, priceVars, strayVars>>

Names == 1 .. MaxRefs
Snaps == 0 .. MaxSnaps
PriceTags == {1, 2}
Items == [born : BOOLEAN, live : BOOLEAN, on : BOOLEAN, snap : Snaps, price : PriceTags]
NoItem == [born |-> FALSE, live |-> FALSE, on |-> FALSE, snap |-> 0, price |-> 1]
RefRows == [here : BOOLEAN, on : BOOLEAN, snap : Snaps]
NoRef == [here |-> FALSE, on |-> FALSE, snap |-> 0]
IdleAdmin == [at |-> "idle", item |-> NoItem, push |-> FALSE, off |-> FALSE, fresh |-> TRUE]
IdleAsk == [at |-> "idle", ref |-> 0, on |-> FALSE, snap |-> 0, fresh |-> TRUE]
NoPrice == [price |-> 0, entry |-> 0, blind |-> FALSE]

AdminRows == [at : {"idle", "save", "store", "invalidate"},
              item : Items, push : BOOLEAN, off : BOOLEAN, fresh : BOOLEAN]
AskRows == [at : {"idle", "look", "enable", "name", "insert", "gate", "save", "saveOff",
                  "clean", "unlink", "remove", "store"},
            ref : {0} \cup Names, on : BOOLEAN, snap : Snaps, fresh : BOOLEAN]

MarketTypeOK ==
  /\ item \in Items /\ entry \in {0, 1} /\ upstream \in Snaps
  /\ refs \in [Names -> RefRows] /\ members \subseteq Names /\ locked \subseteq Names
  /\ admin \in [Admins -> AdminRows] /\ ask \in [Requests -> AskRows]
  /\ cache \in [price : {0} \cup PriceTags, entry : {0, 1}, blind : BOOLEAN]
  /\ loading \in {0} \cup PriceTags /\ adminOps \in 0 .. MaxAdminOps
  /\ strayOn \subseteq Names /\ straySnap \subseteq Names /\ strayMember \subseteq members

MarketInit ==
  /\ item = NoItem /\ entry = 0 /\ upstream = 0
  /\ refs = [n \in Names |-> NoRef] /\ members = {} /\ locked = {}
  /\ admin = [a \in Admins |-> IdleAdmin] /\ ask = [r \in Requests |-> IdleAsk]
  /\ cache = NoPrice /\ loading = 0 /\ adminOps = 0
  /\ strayOn = {} /\ straySnap = {} /\ strayMember = {}

Installed == {n \in Names : refs[n].here}
Offering == item.live /\ item.on

----------------------------------------------------------------------------
(* Late writes. *)

\* References that a write of what was read before another's leaves unlike the
\* item, until they are like it again.  Conjoined after what the action writes.
Late(S) ==
  /\ strayOn' = {n \in strayOn \cup S : refs'[n].on /\ ~Offering'}
  /\ straySnap' = {n \in straySnap \cup S : refs'[n].here /\ item'.live /\ refs'[n].snap # item'.snap}
  /\ strayMember' = {n \in (strayMember \cup S) \cap members' : ~refs'[n].on}

Overtaken == {"look", "enable", "name", "insert", "gate", "save", "saveOff", "store"}

----------------------------------------------------------------------------
(* Administrators. *)

\* What others read of the item is old from now on.
Overtake(a, then) ==
  /\ admin' = [b \in Admins |-> IF b = a THEN then
                                ELSE IF admin[b].at = "save" THEN [admin[b] EXCEPT !.fresh = FALSE]
                                ELSE admin[b]]
  /\ ask' = [r \in Requests |-> IF ask[r].at \in Overtaken
                                THEN [ask[r] EXCEPT !.fresh = FALSE] ELSE ask[r]]

Invalidating == [IdleAdmin EXCEPT !.at = "invalidate"]

Spend == adminOps < MaxAdminOps /\ adminOps' = adminOps + 1

\* CloneFromService; the name is unique, deleted items included.
Publish(a, p) ==
  /\ admin[a].at = "idle" /\ ~item.born
  /\ item' = [born |-> TRUE, live |-> TRUE, on |-> TRUE, snap |-> upstream, price |-> p]
  /\ admin' = [admin EXCEPT ![a] = Invalidating]
  /\ UNCHANGED <<entry, upstream, adminOps, refVars, ask, priceVars, strayVars>>

\* UpdateItem reads the row and applies the request to it: lists s (pushed to the
\* references), a status (off is said anew to an item that is off), a price.
ReadItemAs(a, s, push, on, off, p) ==
  /\ ~push => s = item.snap
  /\ IF off THEN ~on ELSE on \/ ~item.on
  /\ admin' = [admin EXCEPT ![a] = [at |-> "save", push |-> push, off |-> off, fresh |-> TRUE,
                                    item |-> [item EXCEPT !.snap = s, !.on = on, !.price = p]]]

ReadItem(a) ==
  /\ admin[a].at = "idle" /\ item.live /\ Spend
  /\ \E s \in Snaps, push, on, off \in BOOLEAN, p \in PriceTags : ReadItemAs(a, s, push, on, off, p)
  /\ UNCHANGED <<item, entry, upstream, refVars, ask, priceVars, strayVars>>

\* UpdateMarketplaceRefsByItems.
SyncRefs(s) == [n \in Names |-> IF n \in Installed THEN [refs[n] EXCEPT !.snap = s] ELSE NoRef]

\* DisableMarketplaceRefsByItems, after the lists.
DisableRefs(rs) == [n \in Names |-> [rs[n] EXCEPT !.on = FALSE]]

\* The transaction saves the whole row, a deleted one included, and brings the
\* references after it.
SaveItem(a) ==
  LET c == admin[a]
      synced == IF c.push THEN SyncRefs(c.item.snap) ELSE refs IN
  /\ c.at = "save"
  /\ item' = c.item
  /\ refs' = IF c.off THEN DisableRefs(synced) ELSE synced
  /\ members' = IF c.off THEN {} ELSE members
  /\ Late(IF c.fresh THEN {} ELSE Installed)
  /\ Overtake(a, Invalidating)
  /\ UNCHANGED <<entry, upstream, adminOps, locked, priceVars>>

\* A deletion is soft; its read decides nothing the transaction depends on.
DeleteItem(a) ==
  /\ admin[a].at = "idle" /\ item.live /\ Spend
  /\ item' = [NoItem EXCEPT !.born = TRUE]
  /\ refs' = DisableRefs(refs) /\ members' = {}
  /\ Late({})
  /\ Overtake(a, Invalidating)
  /\ UNCHANGED <<entry, upstream, locked, priceVars>>

UpstreamChanges ==
  /\ upstream < MaxSnaps /\ upstream' = upstream + 1
  /\ UNCHANGED <<item, entry, adminOps, refVars, admin, ask, priceVars, strayVars>>

\* RefreshItemSnapshots connects to the upstream and fetches its lists ...
FetchSnapshots(a) ==
  /\ admin[a].at = "idle" /\ item.live /\ Spend
  /\ admin' = [admin EXCEPT ![a] = [IdleAdmin EXCEPT !.at = "store", !.item.snap = upstream]]
  /\ UNCHANGED <<item, entry, upstream, refVars, ask, priceVars, strayVars>>

\* ... and writes them to the item, unless it was deleted, and to the references.
StoreSnapshots(a) ==
  LET s == admin[a].item.snap IN
  /\ admin[a].at = "store"
  /\ item' = IF item.live THEN [item EXCEPT !.snap = s] ELSE item
  /\ refs' = SyncRefs(s)
  /\ Overtake(a, IdleAdmin)
  /\ UNCHANGED <<entry, upstream, adminOps, members, locked, priceVars>>
  /\ Late({})

\* BatchUpdatePricing, and SetItemEntryPrices.
BatchUpdatePricing(a) ==
  /\ admin[a].at = "idle" /\ item.born /\ Spend
  /\ item' = IF item.live THEN [item EXCEPT !.price = 3 - item.price] ELSE item
  /\ admin' = [admin EXCEPT ![a] = Invalidating]
  /\ UNCHANGED <<entry, upstream, refVars, ask, priceVars, strayVars>>

SetItemEntryPrices(a) ==
  /\ admin[a].at = "idle" /\ item.live /\ Spend
  /\ entry' = 1 - entry
  /\ admin' = [admin EXCEPT ![a] = Invalidating]
  /\ UNCHANGED <<item, upstream, refVars, ask, priceVars, strayVars>>

\* (to test the checks)
InvalidateUnlocked(a) ==
  /\ admin[a].at = "invalidate"
  /\ cache' = NoPrice
  /\ admin' = [admin EXCEPT ![a] = IdleAdmin]
  /\ UNCHANGED <<item, entry, upstream, adminOps, refVars, ask, loading, strayVars>>

\* InvalidatePricingCacheItem waits for pricingCacheMu.
InvalidatePricingCacheItem(a) ==
  /\ admin[a].at = "invalidate" /\ loading = 0
  /\ cache' = NoPrice
  /\ admin' = [admin EXCEPT ![a] = IdleAdmin]
  /\ UNCHANGED <<item, entry, upstream, adminOps, refVars, ask, loading, strayVars>>

----------------------------------------------------------------------------
(* The price cache: a call that misses it holds pricingCacheMu while it reads. *)

LoadItem ==
  /\ loading = 0 /\ cache = NoPrice /\ item.live
  /\ loading' = item.price
  /\ UNCHANGED <<item, entry, upstream, adminOps, refVars, admin, ask, cache, strayVars>>

\* An error of the second read leaves the item without entry prices.
LoadEntries ==
  /\ loading # 0
  /\ \E blind \in BOOLEAN :
       cache' = [price |-> loading, entry |-> IF blind THEN 0 ELSE entry, blind |-> blind]
  /\ loading' = 0
  /\ UNCHANGED <<item, entry, upstream, adminOps, refVars, admin, ask, strayVars>>

\* pricingCacheTTL.
PriceExpires ==
  /\ loading = 0 /\ cache # NoPrice /\ cache' = NoPrice
  /\ UNCHANGED <<item, entry, upstream, adminOps, refVars, admin, ask, loading, strayVars>>

----------------------------------------------------------------------------
(* The user installs. *)

MarketRest == UNCHANGED <<item, entry, upstream, adminOps, admin, priceVars>>

Ends(r) == ask' = [ask EXCEPT ![r] = IdleAsk]
Goes(r, then) == ask' = [ask EXCEPT ![r].at = then]

\* AddToMyServices reads the item, and then looks for a reference; of two it
\* takes the older, which the names do not tell.
AddRead(r) ==
  /\ ask[r].at = "idle" /\ Offering
  /\ ask' = [ask EXCEPT ![r] = [IdleAsk EXCEPT !.at = "look", !.snap = item.snap]]
  /\ MarketRest /\ UNCHANGED <<refVars, strayVars>>

AddLook(r) ==
  /\ ask[r].at = "look"
  /\ \/ Installed = {} /\ Goes(r, "name")
     \/ \E n \in Installed :
          \/ refs[n].on /\ Ends(r)
          \/ ~refs[n].on /\ ask' = [ask EXCEPT ![r].at = "enable", ![r].ref = n, ![r].snap = 0]
  /\ MarketRest /\ UNCHANGED <<refVars, strayVars>>

\* What an edit of reference n has read of it is old from now on.
Outdate(r, n) ==
  ask' = [q \in Requests |-> IF q = r THEN IdleAsk
                             ELSE IF ask[q].ref = n THEN [ask[q] EXCEPT !.fresh = FALSE]
                             ELSE ask[q]]

\* Of a reference deleted meanwhile (0) the update changes no row.
AddEnable(r) ==
  LET n == ask[r].ref IN
  /\ ask[r].at = "enable"
  /\ IF n = 0 THEN Ends(r) /\ UNCHANGED refs
     ELSE refs' = [refs EXCEPT ![n].on = TRUE] /\ Outdate(r, n)
  /\ MarketRest /\ UNCHANGED <<members, locked>>
  /\ Late(IF ask[r].fresh \/ n = 0 THEN {} ELSE {n})

\* The first name that is free ...
AddName(r) ==
  /\ ask[r].at = "name"
  /\ \E n \in Names \ Installed :
       /\ \A k \in 1 .. (n - 1) : k \in Installed
       /\ ask' = [ask EXCEPT ![r].at = "insert", ![r].ref = n]
  /\ MarketRest /\ UNCHANGED <<refVars, strayVars>>

\* ... may be taken when the row is inserted, and the unique index refuses it.
AddInsert(r) ==
  LET n == ask[r].ref IN
  /\ ask[r].at = "insert" /\ Ends(r)
  /\ refs' = IF n \in Installed THEN refs
             ELSE [refs EXCEPT ![n] = [here |-> TRUE, on |-> TRUE, snap |-> ask[r].snap]]
  /\ MarketRest /\ UNCHANGED <<members, locked>>
  /\ Late(IF ask[r].fresh \/ n \in Installed THEN {} ELSE {n})

----------------------------------------------------------------------------
(* The user edits, synchronises and deletes a reference, and groups it. *)

\* update takes the service lock and reads the row; a request to enable passes
\* the gate, the others keep the status or disable.
EditRead(r, n) ==
  /\ ask[r].at = "idle" /\ n \in Installed \ locked
  /\ locked' = locked \cup {n}
  /\ \E then \in {"gate", "save", "saveOff"} :
       ask' = [ask EXCEPT ![r] = [at |-> then, ref |-> n, fresh |-> TRUE,
                                  on |-> refs[n].on /\ then = "save", snap |-> refs[n].snap]]
  /\ MarketRest /\ UNCHANGED <<refs, members, strayVars>>

\* (to test the checks)
EditGateOpen(r) ==
  /\ ask[r].at = "gate"
  /\ ask' = [ask EXCEPT ![r].at = "save", ![r].on = TRUE]
  /\ MarketRest /\ UNCHANGED <<refVars, strayVars>>

\* A reference of an item that is not offered cannot be enabled.
EditGate(r) ==
  /\ ask[r].at = "gate"
  /\ \/ ~Offering /\ Ends(r) /\ locked' = locked \ {ask[r].ref}
     \/ Offering /\ ask' = [ask EXCEPT ![r].at = "save", ![r].on = TRUE] /\ UNCHANGED locked
  /\ MarketRest /\ UNCHANGED <<refs, members, strayVars>>

\* The whole row is saved, status and lists as they were read.
EditSave(r) ==
  LET c == ask[r]
      n == c.ref IN
  /\ c.at \in {"save", "saveOff"}
  /\ refs' = [refs EXCEPT ![n] = [here |-> TRUE, on |-> c.on, snap |-> c.snap]]
  /\ IF c.at = "saveOff"
     THEN ask' = [ask EXCEPT ![r] = [IdleAsk EXCEPT !.at = "clean", !.ref = n]] /\ UNCHANGED locked
     ELSE Ends(r) /\ locked' = locked \ {n}
  /\ MarketRest /\ UNCHANGED members
  /\ Late(IF c.fresh THEN {} ELSE {n})

\* A disabled service leaves its groups.
EditClean(r) ==
  LET n == ask[r].ref IN
  /\ ask[r].at = "clean" /\ Ends(r)
  /\ members' = members \ {n} /\ locked' = locked \ {n}
  /\ MarketRest /\ UNCHANGED refs
  /\ Late({})

\* delete: first the rows of the groups, then the service.
DeleteRead(r, n) ==
  /\ ask[r].at = "idle" /\ n \in Installed \ locked
  /\ locked' = locked \cup {n}
  /\ ask' = [ask EXCEPT ![r] = [IdleAsk EXCEPT !.at = "unlink", !.ref = n]]
  /\ MarketRest /\ UNCHANGED <<refs, members, strayVars>>

DeleteUnlink(r) ==
  /\ ask[r].at = "unlink" /\ Goes(r, "remove")
  /\ members' = members \ {ask[r].ref}
  /\ MarketRest /\ UNCHANGED <<refs, locked>>
  /\ Late({})

\* Who still holds the row holds nothing now: another may take the name.  A row
\* put into a group meanwhile stays and names no service: it is left out.
DeleteRemove(r) ==
  LET n == ask[r].ref IN
  /\ ask[r].at = "remove"
  /\ refs' = [refs EXCEPT ![n] = NoRef]
  /\ members' = members \ {n} /\ locked' = locked \ {n}
  /\ ask' = [q \in Requests |-> IF q = r THEN IdleAsk
                                ELSE IF ask[q].at \in {"enable", "store"} /\ ask[q].ref = n
                                THEN [ask[q] EXCEPT !.ref = 0] ELSE ask[q]]
  /\ MarketRest
  /\ Late({})

\* refreshMarketplaceTools, without the lock: it reads the item ...
SyncRead(r, n) ==
  /\ ask[r].at = "idle" /\ n \in Installed /\ item.live
  /\ ask' = [ask EXCEPT ![r] = [IdleAsk EXCEPT !.at = "store", !.ref = n, !.snap = item.snap]]
  /\ MarketRest /\ UNCHANGED <<refVars, strayVars>>

\* ... and writes its lists to the reference.
SyncStore(r) ==
  LET n == ask[r].ref IN
  /\ ask[r].at = "store"
  /\ IF n = 0 THEN Ends(r) /\ UNCHANGED refs
     ELSE refs' = [refs EXCEPT ![n].snap = ask[r].snap] /\ Outdate(r, n)
  /\ MarketRest /\ UNCHANGED <<members, locked>>
  /\ Late(IF ask[r].fresh \/ n = 0 THEN {} ELSE {n})

\* AddServices asks for no status.
AddServices(n) ==
  /\ n \in Installed \ members
  /\ members' = members \cup {n}
  /\ MarketRest /\ UNCHANGED <<refs, locked, ask>>
  /\ Late(IF refs[n].on THEN {} ELSE {n})

RemoveService(n) ==
  /\ n \in members
  /\ members' = members \ {n}
  /\ MarketRest /\ UNCHANGED <<refs, locked, ask>>
  /\ Late({})

(***************************************************************************)
(* The session pool.                                                       *)
(***************************************************************************)

\* A session writes the lists its upstream has served it: after the connect and
\* when the tools change, to the reference it was opened for, the resources and
\* prompts of a shared process to all that are enabled.  A shared process does
\* not hold the lock of the service.  What was read of the rows before is old.
PoolStores(S, v) ==
  /\ S # {} /\ v <= upstream
  /\ \/ \E n \in Installed : S = {n}
     \/ S = {n \in Installed : refs[n].on}
  /\ refs' = [n \in Names |-> IF n \in S THEN [refs[n] EXCEPT !.snap = v] ELSE refs[n]]
  /\ ask' = [r \in Requests |-> IF ask[r].ref \in S THEN [ask[r] EXCEPT !.fresh = FALSE] ELSE ask[r]]
  /\ straySnap' = {n \in straySnap \cup S : item.live /\ refs'[n].snap # item.snap}
  /\ MarketRest /\ UNCHANGED <<members, locked, strayOn, strayMember>>

MarketNext ==
  \/ \E a \in Admins :
       \/ \E p \in PriceTags : Publish(a, p)
       \/ ReadItem(a) \/ SaveItem(a) \/ DeleteItem(a)
       \/ FetchSnapshots(a) \/ StoreSnapshots(a)
       \/ BatchUpdatePricing(a) \/ SetItemEntryPrices(a) \/ InvalidatePricingCacheItem(a)
  \/ UpstreamChanges \/ LoadItem \/ LoadEntries \/ PriceExpires
  \/ \E r \in Requests :
       \/ AddRead(r) \/ AddLook(r) \/ AddEnable(r) \/ AddName(r) \/ AddInsert(r)
       \/ EditGate(r) \/ EditSave(r) \/ EditClean(r)
       \/ DeleteUnlink(r) \/ DeleteRemove(r) \/ SyncStore(r)
       \/ \E n \in Names : EditRead(r, n) \/ DeleteRead(r, n) \/ SyncRead(r, n)
  \/ \E n \in Names : AddServices(n) \/ RemoveService(n)
  \/ \E S \in SUBSET Installed, v \in Snaps : PoolStores(S, v)

MarketSpec == MarketInit /\ [][MarketNext]_marketVars

----------------------------------------------------------------------------

\* An installed reference follows its item: it is on only while the item is
\* offered, it shows the item's lists, and no group offers it while it is off.
\* What breaks this is a write of what was read before another's, and for the
\* lists a session, which brings those of the upstream; nothing else.
ReferencesFollowItem ==
  /\ \A n \in Installed \ strayOn : refs[n].on => Offering
  /\ \A n \in Installed \ straySnap : item.live => refs[n].snap = item.snap
  /\ \A n \in members \ strayMember :
       \/ refs[n].on
       \/ \E r \in Requests : ask[r].at = "clean" /\ ask[r].ref = n

\* A cached price is the one in the database, or the administrator who changed
\* it has yet to drop it: a call that loads prices while they change never
\* leaves the old ones behind (entry prices it could not read apart).
NoStalePrice ==
  cache # NoPrice =>
    \/ /\ item.live /\ cache.price = item.price
       /\ cache.entry = entry \/ cache.blind
    \/ \E a \in Admins : admin[a].at = "invalidate"
=============================================================================
