-------------------------- MODULE SessionPoolProofs --------------------------
(***************************************************************************)
(* Machine-checked proofs about SessionPool, for any number of request     *)
(* goroutines, keys of any kind, adapters, and any concurrency limit.      *)
(***************************************************************************)
EXTENDS SessionPool, FiniteSetTheorems, TLAPS

\* The key a caller starts with is one of the keys.
LEMMA AnyKeyType == AnyKey \in Keys
BY KeysAssumption DEF AnyKey

\* The request of a caller that asks for nothing is typed.
LEMMA NoRequestType == NoRequest \in Requests
BY AnyKeyType, MaxEditsAssumption DEF NoRequest, Requests, CallerPoints

\* The empty pool is typed.
LEMMA InitTypeOK == Init => TypeOK
<1> SUFFICES ASSUME Init PROVE TypeOK
  OBVIOUS
<1>1. 0 \in Nat /\ 0 \in 0 .. MaxEdits
  BY MaxEditsAssumption
<1>2. /\ pool \in [Keys -> Adapters \cup {None}] /\ closed \in BOOLEAN
      /\ conn \in [Adapters -> {"free", "up", "down", "closed"}]
      /\ keyOf \in [Adapters -> Keys]
  BY AnyKeyType DEF Init
<1>3. cred \in [Adapters -> 0 .. MaxEdits] /\ inUse \in [Adapters -> Nat]
  BY <1>1 DEF Init
<1>4. /\ reaped \in SUBSET Adapters /\ closing \in SUBSET Adapters
      /\ victim \in [Keys -> Adapters \cup {None}]
      /\ req \in [Callers -> Requests]
  BY NoRequestType DEF Init
<1>5. /\ wpc \in [Adapters -> WatchPoints] /\ hpc \in [Adapters -> InboundPoints]
      /\ status \in [Keys -> {"enabled", "disabled", "deleted"}]
      /\ ver \in [Keys -> 0 .. MaxEdits]
      /\ online \in [Keys -> BOOLEAN] /\ apc \in [Keys -> EditPoints]
      /\ seen \in [Keys -> BOOLEAN]
  BY MaxEditsAssumption DEF Init, WatchPoints, InboundPoints, EditPoints
<1> QED
  BY <1>2, <1>4, <1>5, <1>3 DEF TypeOK

-----------------------------------------------------------------------------
(* Type correctness, one lemma per party.                                   *)

\* Typing: taking a session out of the map (Remove).
LEMMA TakeOutType ==
  ASSUME TypeOK, NEW K \in SUBSET Keys, TakeOut(K)
  PROVE  /\ pool' \in [Keys -> Adapters \cup {None}]
         /\ closing' \in SUBSET Adapters
         /\ online' \in [Keys -> BOOLEAN]
<1>1. pool' \in [Keys -> Adapters \cup {None}]
  BY DEF TypeOK, TakeOut
<1>2. online' \in [Keys -> BOOLEAN]
  BY DEF TypeOK, TakeOut
<1>3. {pool[k] : k \in K \cap Keys} \ {None} \subseteq Adapters
  BY DEF TypeOK
<1>4. closing' \in SUBSET Adapters
  BY <1>3 DEF TypeOK, TakeOut
<1> QED
  BY <1>1, <1>2, <1>4

\* Typing: the steps of a request (Acquire, GetOrConnect).
LEMMA CallerTypeOK ==
  ASSUME TypeOK, NEW c \in Callers, CallerStep(c)
  PROVE  TypeOK'
<1> USE PoolNoneAssumption, MaxEditsAssumption DEF TypeOK, poolVars, bornVars, leaseVars,
        rowVars, editVars, Requests, CallerPoints
<1>1. ASSUME NEW k \in Keys, Request(c, k) PROVE TypeOK'
  BY <1>1 DEF Request, Asking
<1>2. CASE Find(c)
  <2>1. CASE Have(c, pool[req[c].key], "lease")
    BY <1>2, <2>1 DEF Find, Have
  <2>2. CASE Return(c)
    BY <1>2, <2>2, NoRequestType DEF Find, Return
  <2>3. CASE Goto(c, "lock")
    BY <1>2, <2>3 DEF Find, Goto
  <2> QED
    BY <1>2, <2>1, <2>2, <2>3 DEF Find
<1>3. CASE LockKey(c)
  BY <1>3 DEF LockKey, Goto
<1>4. CASE Recheck(c)
  BY <1>4 DEF Recheck, Have, Goto
<1>5. ASSUME NEW a \in Adapters, DialOk(c, a) PROVE TypeOK'
  BY <1>5 DEF DialOk, Have
<1>6. CASE DialFail(c)
  BY <1>6, NoRequestType DEF DialFail, Return
<1>7. CASE Publish(c)
  BY <1>7 DEF Publish, SwapIn, Goto
<1>8. CASE PublishRefused(c)
  BY <1>8, NoRequestType DEF PublishRefused, Return
<1>9. CASE FinishPublish(c)
  <2>1. wpc' \in [Adapters -> WatchPoints] /\ victim' \in [Keys -> Adapters \cup {None}]
    BY <1>9 DEF FinishPublish, WatchPoints
  <2>2. req' \in [Callers -> Requests]
    BY <1>9 DEF FinishPublish, Goto
  <2> QED
    BY <1>9, <2>1, <2>2 DEF FinishPublish
<1>10. CASE Lease(c)
  <2>1. req[c].sess \in Adapters
    BY <1>10 DEF Lease, Current, Up
  <2>2. inUse' \in [Adapters -> Nat]
    BY <1>10, <2>1 DEF Lease
  <2>3. req' \in [Callers -> Requests]
    BY <1>10 DEF Lease, Goto
  <2> QED
    BY <1>10, <2>2, <2>3 DEF Lease
<1>11. CASE LeaseRefused(c)
  <2>1. CASE Return(c)
    BY <1>11, <2>1, NoRequestType DEF LeaseRefused, Return
  <2>2. CASE req' = [req EXCEPT ![c] = Asking(req[c].key, req[c].snap, 1)]
    <3>1. Asking(req[c].key, req[c].snap, 1) \in Requests
      BY DEF Asking
    <3>2. req' \in [Callers -> Requests]
      BY <2>2, <3>1
    <3> QED
      BY <1>11, <3>2 DEF LeaseRefused
  <2> QED
    BY <1>11, <2>1, <2>2 DEF LeaseRefused
<1>12. CASE Release(c)
  <2> DEFINE dec(n) == IF n > 0 THEN n - 1 ELSE n
  <2>1. \A n \in Nat : dec(n) \in Nat
    OBVIOUS
  <2>2. inUse' = [inUse EXCEPT ![req[c].sess] = dec(inUse[req[c].sess])]
    BY <1>12 DEF Release
  <2> HIDE DEF dec
  <2>3. inUse' \in [Adapters -> Nat]
    BY <2>1, <2>2
  <2>4. req' \in [Callers -> Requests]
    BY <1>12, NoRequestType DEF Release, Return
  <2> QED
    BY <1>12, <2>3, <2>4 DEF Release
<1> QED
  BY <1>1, <1>2, <1>3, <1>4, <1>5, <1>6, <1>7, <1>8, <1>9, <1>10, <1>11, <1>12 DEF CallerStep

\* Typing: the steps of a socket of a passive service.
LEMMA InboundTypeOK ==
  ASSUME TypeOK, NEW a \in Adapters, InboundStep(a)
  PROVE  TypeOK'
<1> USE DEF TypeOK, poolVars, bornVars, leaseVars, rowVars, editVars, InboundPoints, HGoto
<1>1. ASSUME NEW k \in Keys, Accept(a, k) PROVE TypeOK'
  BY <1>1 DEF Accept
<1>2. CASE Handshake(a)
  BY <1>2 DEF Handshake
<1>3. CASE InboundLock(a)
  BY <1>3 DEF InboundLock
<1>4. CASE InboundCheck(a)
  BY <1>4 DEF InboundCheck
<1>5. CASE Attach(a)
  BY <1>5 DEF Attach, SwapIn
<1>6. CASE AttachFail(a)
  BY <1>6 DEF AttachFail
<1>7. CASE FinishAttach(a)
  BY <1>7 DEF FinishAttach, WatchPoints
<1>8. CASE HandlerReturns(a)
  BY <1>8 DEF HandlerReturns
<1> QED
  BY <1>1, <1>2, <1>3, <1>4, <1>5, <1>6, <1>7, <1>8 DEF InboundStep

\* Typing: the watcher of a connection (observeSession).
LEMMA WatchTypeOK ==
  ASSUME TypeOK, NEW a \in Adapters, WatchStep(a)
  PROVE  TypeOK'
<1> USE DEF TypeOK, poolVars, bornVars, leaseVars, rowVars, editVars, WatchPoints, WGoto
<1>1. CASE WatchFires(a)
  BY <1>1 DEF WatchFires
<1>2. CASE WatchLock(a)
  BY <1>2 DEF WatchLock
<1>3. CASE RemoveIfCurrent(a)
  BY <1>3, TakeOutType DEF RemoveIfCurrent
<1>4. CASE WatchEnds(a)
  BY <1>4 DEF WatchEnds
<1> QED
  BY <1>1, <1>2, <1>3, <1>4 DEF WatchStep

\* Typing: an edit of a service and the removal that follows it.
LEMMA EditTypeOK ==
  ASSUME TypeOK, NEW k \in Keys, EditStep(k)
  PROVE  TypeOK'
<1> USE MaxEditsAssumption DEF TypeOK, poolVars, bornVars, leaseVars, rowVars, editVars,
        EditPoints, AGoto
<1>1. CASE EditBegins(k)
  BY <1>1 DEF EditBegins
<1>2. CASE EditSaves(k)
  <2>1. CASE ChangeRow(k)
    BY <1>2, <2>1 DEF EditSaves, ChangeRow
  <2>2. CASE SwitchRow(k, "disabled") \/ SwitchRow(k, "enabled")
    BY <1>2, <2>2 DEF EditSaves, SwitchRow
  <2>3. CASE DeleteRow(k)
    BY <1>2, <2>3 DEF EditSaves, DeleteRow
  <2> QED
    BY <1>2, <2>1, <2>2, <2>3 DEF EditSaves
<1>3. CASE EditRemoves(k)
  BY <1>3, TakeOutType DEF EditRemoves
<1>4. CASE EditEnds(k)
  BY <1>4 DEF EditEnds
<1> QED
  BY <1>1, <1>2, <1>3, <1>4 DEF EditStep

\* Typing: the reaper, the stop, shutdown, closing and lost connections.
LEMMA OtherTypeOK ==
  ASSUME TypeOK
  PROVE  /\ Reap \/ CloseAll \/ Restart => TypeOK'
         /\ \A a \in Adapters : CloseAdapter(a) \/ Drop(a) => TypeOK'
         /\ \A k \in Keys : StopProcess(k) => TypeOK'
<1> USE DEF TypeOK, poolVars, bornVars, leaseVars, rowVars, editVars
<1>1. CASE Reap
  BY <1>1, TakeOutType DEF Reap, Idle
<1>2. CASE CloseAll
  BY <1>2, TakeOutType DEF CloseAll
<1>3. CASE Restart
  <2>1. 0 \in Nat /\ 0 \in 0 .. MaxEdits
    BY MaxEditsAssumption
  <2>2. /\ pool' \in [Keys -> Adapters \cup {None}] /\ closed' \in BOOLEAN
        /\ conn' \in [Adapters -> {"free", "up", "down", "closed"}]
        /\ keyOf' \in [Adapters -> Keys]
    BY <1>3, AnyKeyType DEF Restart
  <2>3. cred' \in [Adapters -> 0 .. MaxEdits] /\ inUse' \in [Adapters -> Nat]
    BY <1>3, <2>1 DEF Restart
  <2>4. /\ reaped' \in SUBSET Adapters /\ closing' \in SUBSET Adapters
        /\ victim' \in [Keys -> Adapters \cup {None}]
        /\ req' \in [Callers -> Requests]
    BY <1>3, NoRequestType DEF Restart
  <2>5. /\ wpc' \in [Adapters -> WatchPoints] /\ hpc' \in [Adapters -> InboundPoints]
        /\ status' \in [Keys -> {"enabled", "disabled", "deleted"}]
        /\ ver' \in [Keys -> 0 .. MaxEdits]
        /\ online' \in [Keys -> BOOLEAN] /\ apc' \in [Keys -> EditPoints]
        /\ seen' \in [Keys -> BOOLEAN]
    BY <1>3 DEF Restart, WatchPoints, InboundPoints, EditPoints
  <2> QED
    BY <2>2, <2>3, <2>4, <2>5
<1>4. ASSUME NEW a \in Adapters, CloseAdapter(a) PROVE TypeOK'
  BY <1>4 DEF CloseAdapter
<1>5. ASSUME NEW a \in Adapters, Drop(a) PROVE TypeOK'
  BY <1>5 DEF Drop
<1>6. ASSUME NEW k \in Keys, StopProcess(k) PROVE TypeOK'
  BY <1>6, TakeOutType DEF StopProcess
<1> QED
  BY <1>1, <1>2, <1>3, <1>4, <1>5, <1>6

\* Type correctness is inductive.
LEMMA NextTypeOK == TypeOK /\ [Next]_vars => TypeOK'
<1> SUFFICES ASSUME TypeOK, [Next]_vars PROVE TypeOK'
  OBVIOUS
<1>1. CASE UNCHANGED vars
  BY <1>1 DEF vars, TypeOK, poolVars, bornVars, leaseVars, rowVars, editVars
<1>2. CASE Next
  BY <1>2, CallerTypeOK, InboundTypeOK, WatchTypeOK, EditTypeOK, OtherTypeOK DEF Next
<1> QED
  BY <1>1, <1>2

\* Every variable of the pool keeps its type, in particular the lease counter
\* is never negative.
THEOREM TypeCorrect == SafetySpec => []TypeOK
<1> QED
  BY InitTypeOK, NextTypeOK, PTL DEF SafetySpec

-----------------------------------------------------------------------------
(* Where a connection can be: in the pool once, waiting to be closed, or in *)
(* one pair of hands before it is published.                                *)

PoolInv ==
  /\ \A k \in Keys : pool[k] # None => pool[k] \notin closing /\ conn[pool[k]] # "free"
  /\ \A j, k \in Keys : pool[j] = pool[k] /\ pool[j] # None => j = k
  /\ \A a \in closing : conn[a] # "free"
  /\ reaped \subseteq closing

PendingInv ==
  /\ \A c \in Callers : req[c].at = "publish" =>
       /\ req[c].sess \in Adapters \ closing
       /\ conn[req[c].sess] # "free" /\ hpc[req[c].sess] = "none"
       /\ \A k \in Keys : pool[k] # req[c].sess
  /\ \A c, d \in Callers :
       req[c].at = "publish" /\ req[d].at = "publish" /\ req[c].sess = req[d].sess => c = d
  /\ \A a \in Adapters : hpc[a] \in {"handshake", "lock", "check", "publish"} =>
       a \notin closing /\ conn[a] # "free" /\ \A k \in Keys : pool[k] # a
  /\ \A a \in Adapters : conn[a] = "free" => hpc[a] = "none"

HandsInv == PoolInv /\ PendingInv

\* Nobody holds a connection at first.
LEMMA InitHands == Init => HandsInv
BY DEF Init, HandsInv, PoolInv, PendingInv, NoRequest

\* Taking sessions out of the map moves them from the pool to closing.
LEMMA TakeOutHands ==
  ASSUME TypeOK, HandsInv, NEW K \in SUBSET Keys, TakeOut(K),
         reaped' \subseteq reaped \cup {pool[k] : k \in K} \/ reaped' = reaped,
         reaped' \subseteq closing',
         UNCHANGED <<conn, req>>,
         \A a \in Adapters : hpc'[a] = hpc[a]
  PROVE  HandsInv'
<1> USE PoolNoneAssumption DEF TypeOK, HandsInv, PoolInv, PendingInv, TakeOut
<1>1. PoolInv'
  OBVIOUS
<1>2. PendingInv'
  OBVIOUS
<1> QED
  BY <1>1, <1>2

\* A step that moves no connection and brings no goroutine to "publish".
LEMMA StillHands ==
  ASSUME HandsInv, UNCHANGED <<poolVars, conn, hpc, reaped>>,
         \A d \in Callers : req'[d].at = "publish" => req'[d] = req[d]
  PROVE  HandsInv'
BY DEF HandsInv, PoolInv, PendingInv, poolVars

\* A request keeps HandsInv: what it dialled is in its hands alone.
LEMMA CallerHands ==
  ASSUME TypeOK, HandsInv, NEW c \in Callers, CallerStep(c)
  PROVE  HandsInv'
<1> USE PoolNoneAssumption DEF TypeOK, HandsInv, PoolInv, PendingInv, poolVars, bornVars,
        leaseVars, rowVars, editVars, Requests, CallerPoints
<1>1. ASSUME NEW k \in Keys, Request(c, k) PROVE HandsInv'
  BY <1>1 DEF Request, Asking
<1>2. CASE Find(c)
  <2>1. \A d \in Callers : req'[d].at = "publish" => req'[d] = req[d]
    <3>1. CASE Have(c, pool[req[c].key], "lease")
      BY <3>1 DEF Have
    <3>2. CASE Return(c)
      BY <3>2 DEF Return, NoRequest
    <3>3. CASE Goto(c, "lock")
      BY <3>3 DEF Goto
    <3> QED
      BY <1>2, <3>1, <3>2, <3>3 DEF Find
  <2> QED
    BY <1>2, <2>1, StillHands DEF Find
<1>3. CASE LockKey(c)
  BY <1>3 DEF LockKey, Goto
<1>4. CASE Recheck(c)
  <2>1. \A d \in Callers : req'[d].at = "publish" => req'[d] = req[d]
    <3>1. CASE Have(c, pool[req[c].key], "lease")
      BY <3>1 DEF Have
    <3>2. CASE Goto(c, "dial")
      BY <3>2 DEF Goto
    <3> QED
      BY <1>4, <3>1, <3>2 DEF Recheck
  <2> QED
    BY <1>4, <2>1, StillHands DEF Recheck
<1>5. ASSUME NEW a \in Adapters, DialOk(c, a) PROVE HandsInv'
  BY <1>5 DEF DialOk, Have
<1>6. CASE DialFail(c)
  BY <1>6 DEF DialFail, Return, NoRequest
<1>7. CASE Publish(c)
  BY <1>7 DEF Publish, SwapIn, Goto
<1>8. CASE PublishRefused(c)
  BY <1>8 DEF PublishRefused, Return, NoRequest
<1>9. CASE FinishPublish(c)
  BY <1>9 DEF FinishPublish, Goto
<1>10. CASE Lease(c)
  BY <1>10 DEF Lease, Goto
<1>11. CASE LeaseRefused(c)
  <2>1. \A d \in Callers : req'[d].at = "publish" => req'[d] = req[d]
    <3>1. CASE Return(c)
      BY <3>1 DEF Return, NoRequest
    <3>2. CASE req' = [req EXCEPT ![c] = Asking(req[c].key, req[c].snap, 1)]
      BY <3>2 DEF Asking
    <3> QED
      BY <1>11, <3>1, <3>2 DEF LeaseRefused
  <2> QED
    BY <1>11, <2>1, StillHands DEF LeaseRefused
<1>12. CASE Release(c)
  BY <1>12 DEF Release, Return, NoRequest
<1> QED
  BY <1>1, <1>2, <1>3, <1>4, <1>5, <1>6, <1>7, <1>8, <1>9, <1>10, <1>11, <1>12 DEF CallerStep

\* A socket keeps HandsInv.
LEMMA InboundHands ==
  ASSUME TypeOK, HandsInv, NEW a \in Adapters, InboundStep(a)
  PROVE  HandsInv'
<1> USE PoolNoneAssumption DEF TypeOK, HandsInv, PoolInv, PendingInv, poolVars, bornVars,
        leaseVars, rowVars, editVars, InboundPoints, HGoto
<1>1. ASSUME NEW k \in Keys, Accept(a, k) PROVE HandsInv'
  BY <1>1 DEF Accept
<1>2. CASE Handshake(a)
  <2>1. CASE Up(a) /\ HGoto(a, "lock") /\ UNCHANGED conn
    BY <1>2, <2>1 DEF Handshake
  <2>2. CASE HGoto(a, "done") /\ conn' = [conn EXCEPT ![a] = "closed"]
    <3>1. PoolInv'
      BY <1>2, <2>2 DEF Handshake
    <3>2. PendingInv'
      BY <1>2, <2>2 DEF Handshake
    <3> QED
      BY <3>1, <3>2
  <2> QED
    BY <1>2, <2>1, <2>2 DEF Handshake
<1>3. CASE InboundLock(a)
  BY <1>3 DEF InboundLock
<1>4. CASE InboundCheck(a)
  BY <1>4 DEF InboundCheck
<1>5. CASE Attach(a)
  BY <1>5 DEF Attach, SwapIn
<1>6. CASE AttachFail(a)
  BY <1>6 DEF AttachFail
<1>7. CASE FinishAttach(a)
  BY <1>7 DEF FinishAttach
<1>8. CASE HandlerReturns(a)
  BY <1>8 DEF HandlerReturns
<1> QED
  BY <1>1, <1>2, <1>3, <1>4, <1>5, <1>6, <1>7, <1>8 DEF InboundStep

\* A watcher keeps HandsInv.
LEMMA WatchHands ==
  ASSUME TypeOK, HandsInv, NEW a \in Adapters, WatchStep(a)
  PROVE  HandsInv'
<1> USE DEF poolVars, bornVars, leaseVars, rowVars, editVars
<1>1. CASE WatchFires(a) \/ WatchLock(a) \/ WatchEnds(a)
  BY <1>1 DEF WatchFires, WatchLock, WatchEnds, HandsInv, PoolInv, PendingInv
<1>2. CASE RemoveIfCurrent(a) /\ pool[keyOf[a]] = a
  <2>1. TakeOut({keyOf[a]}) /\ UNCHANGED <<conn, req, hpc, reaped>>
    BY <1>2 DEF RemoveIfCurrent
  <2>2. {keyOf[a]} \in SUBSET Keys
    BY DEF TypeOK
  <2>3. reaped' \subseteq closing'
    BY <2>1 DEF TakeOut, HandsInv, PoolInv
  <2> QED
    BY <2>1, <2>2, <2>3, TakeOutHands
<1>3. CASE RemoveIfCurrent(a) /\ pool[keyOf[a]] # a
  BY <1>3 DEF RemoveIfCurrent, HandsInv, PoolInv, PendingInv
<1> QED
  BY <1>1, <1>2, <1>3 DEF WatchStep

\* An edit keeps HandsInv.
LEMMA EditHands ==
  ASSUME TypeOK, HandsInv, NEW k \in Keys, EditStep(k)
  PROVE  HandsInv'
<1> USE DEF poolVars, bornVars, leaseVars, rowVars, editVars
<1>1. CASE EditBegins(k) \/ EditSaves(k) \/ EditEnds(k)
  BY <1>1 DEF EditBegins, EditSaves, EditEnds, HandsInv, PoolInv, PendingInv
<1>2. CASE EditRemoves(k)
  <2>1. TakeOut({k}) /\ UNCHANGED <<conn, req, hpc, reaped>>
    BY <1>2 DEF EditRemoves
  <2>2. reaped' \subseteq closing'
    BY <2>1 DEF TakeOut, HandsInv, PoolInv
  <2> QED
    BY <2>1, <2>2, TakeOutHands
<1> QED
  BY <1>1, <1>2 DEF EditStep

\* Reaper, shutdown, closing and lost connections keep HandsInv.
LEMMA OtherHands ==
  ASSUME TypeOK, HandsInv
  PROVE  /\ Reap \/ CloseAll \/ Restart => HandsInv'
         /\ \A a \in Adapters : CloseAdapter(a) \/ Drop(a) => HandsInv'
         /\ \A k \in Keys : StopProcess(k) => HandsInv'
<1> USE DEF poolVars, bornVars, leaseVars, rowVars, editVars
<1>1. CASE Reap
  <2> PICK K \in SUBSET {k \in Keys : Idle(k)} \ {{}} :
        /\ TakeOut(K)
        /\ reaped' = reaped \cup {pool[k] : k \in K}
        /\ UNCHANGED <<conn, req, hpc>>
    BY <1>1 DEF Reap
  <2>1. None \notin {pool[k] : k \in K}
    BY DEF Idle
  <2>2. reaped' \subseteq closing'
    BY <2>1 DEF TakeOut, HandsInv, PoolInv
  <2> QED
    BY <2>2, TakeOutHands
<1>2. CASE CloseAll
  <2>1. TakeOut(Keys) /\ UNCHANGED <<conn, req, hpc, reaped>>
    BY <1>2 DEF CloseAll
  <2>2. reaped' \subseteq closing'
    BY <2>1 DEF TakeOut, HandsInv, PoolInv
  <2> QED
    BY <2>1, <2>2, TakeOutHands
<1>3. CASE Restart
  BY <1>3 DEF Restart, NoRequest, HandsInv, PoolInv, PendingInv
<1>4. ASSUME NEW a \in Adapters, CloseAdapter(a) PROVE HandsInv'
  BY <1>4 DEF CloseAdapter, TypeOK, HandsInv, PoolInv, PendingInv
<1>5. ASSUME NEW a \in Adapters, Drop(a) PROVE HandsInv'
  BY <1>5 DEF Drop, TypeOK, HandsInv, PoolInv, PendingInv
<1>6. ASSUME NEW k \in Keys, StopProcess(k) PROVE HandsInv'
  <2>1. TakeOut({k}) /\ UNCHANGED <<conn, req, hpc, reaped>>
    BY <1>6 DEF StopProcess
  <2>2. reaped' \subseteq closing'
    BY <2>1 DEF TakeOut, HandsInv, PoolInv
  <2> QED
    BY <2>1, <2>2, TakeOutHands
<1> QED
  BY <1>1, <1>2, <1>3, <1>4, <1>5, <1>6

\* HandsInv is inductive.
LEMMA NextHands == TypeOK /\ HandsInv /\ [Next]_vars => HandsInv'
<1> SUFFICES ASSUME TypeOK, HandsInv, [Next]_vars PROVE HandsInv'
  OBVIOUS
<1>1. CASE UNCHANGED vars
  BY <1>1 DEF vars, HandsInv, PoolInv, PendingInv, poolVars, bornVars, leaseVars
<1>2. CASE Next
  BY <1>2, CallerHands, InboundHands, WatchHands, EditHands, OtherHands DEF Next
<1> QED
  BY <1>1, <1>2

-----------------------------------------------------------------------------
(* Leases.                                                                  *)

LeaseInv ==
  /\ \A c \in Callers : req[c].at = "using" => req[c].sess \in Adapters
  /\ LeaseCountExact
  /\ \A a \in reaped : inUse[a] = 0
  /\ \A a \in Adapters : conn[a] = "free" => inUse[a] = 0
  /\ \A a \in Adapters : Limit # 0 /\ Kind[keyOf[a]] = "shared" => inUse[a] <= Limit

\* The users of a session are finitely many, so they can be counted.
LEMMA UsersFinite ==
  ASSUME NEW a
  PROVE  IsFiniteSet(Users(a)) /\ Cardinality(Users(a)) \in Nat
<1>1. Users(a) \in SUBSET Callers
  BY DEF Users
<1> QED
  BY <1>1, FiniteCallersAssumption, FS_Subset, FS_CardinalityType

\* Nothing is leased at first.
LEMMA InitLease == Init => LeaseInv
<1> SUFFICES ASSUME Init PROVE LeaseInv
  OBVIOUS
<1>1. \A a \in Adapters : Users(a) = {}
  BY DEF Init, Users, NoRequest
<1>2. LeaseCountExact
  BY <1>1, FS_EmptySet DEF Init, LeaseCountExact
<1> QED
  BY <1>2, LimitAssumption DEF Init, LeaseInv, NoRequest

\* A step that starts and ends no lease, creates no adapter and whose reaped
\* sessions, if any, are not leased.
LEMMA StillLeased ==
  ASSUME LeaseInv, UNCHANGED <<inUse, keyOf>>,
         \A a \in reaped' : a \in reaped \/ inUse[a] = 0,
         \A a \in Adapters : conn'[a] = "free" => conn[a] = "free",
         \A c \in Callers : (req[c].at = "using" \/ req'[c].at = "using") => req'[c] = req[c]
  PROVE  LeaseInv'
<1>1. \A a : Users(a)' = Users(a)
  BY DEF Users
<1>2. LeaseCountExact'
  BY <1>1 DEF LeaseInv, LeaseCountExact
<1> QED
  BY <1>2 DEF LeaseInv

\* Lease adds one user and one to the count.
LEMMA LeaseKeeps ==
  ASSUME TypeOK, HandsInv, LeaseInv, NEW c \in Callers, Lease(c)
  PROVE  LeaseInv'
<1> PICK a : a = req[c].sess
  OBVIOUS
<1>1. /\ req[c].at = "lease" /\ Current(c) /\ ~ Busy(a)
      /\ inUse' = [inUse EXCEPT ![a] = @ + 1]
      /\ req' = [req EXCEPT ![c].at = "using"]
      /\ UNCHANGED <<pool, closing, conn, keyOf, reaped>>
  BY DEF Lease, Goto, poolVars, bornVars
<1>2. a \in Adapters /\ conn[a] = "up"
  BY <1>1 DEF Current, Up, TypeOK, Requests
<1>3. a \notin reaped
  BY <1>1, <1>2, PoolNoneAssumption DEF Current, HandsInv, PoolInv, TypeOK, Requests
<1>4. Users(a)' = Users(a) \cup {c} /\ c \notin Users(a)
  BY <1>1 DEF Users, TypeOK, Requests
<1>5. \A x \in Adapters : x # a => Users(x)' = Users(x)
  BY <1>1 DEF Users, TypeOK, Requests
<1>6. Cardinality(Users(a)') = Cardinality(Users(a)) + 1
  BY <1>4, UsersFinite, FS_AddElement
<1>7. LeaseCountExact'
  BY <1>1, <1>2, <1>5, <1>6 DEF LeaseInv, LeaseCountExact, TypeOK
<1>8. \A x \in Adapters : Limit # 0 /\ Kind[keyOf[x]] = "shared" => inUse'[x] <= Limit
  BY <1>1, <1>2, LimitAssumption DEF LeaseInv, Busy, TypeOK
<1> QED
  BY <1>1, <1>2, <1>3, <1>7, <1>8 DEF LeaseInv, TypeOK, Requests

\* Release takes one user and one from the count.
LEMMA ReleaseKeeps ==
  ASSUME TypeOK, HandsInv, LeaseInv, NEW c \in Callers, Release(c)
  PROVE  LeaseInv'
<1> PICK a : a = req[c].sess
  OBVIOUS
<1>1. /\ req[c].at = "using"
      /\ inUse' = [inUse EXCEPT ![a] = IF @ > 0 THEN @ - 1 ELSE @]
      /\ req' = [req EXCEPT ![c] = NoRequest]
      /\ UNCHANGED <<pool, closing, conn, keyOf, reaped>>
  BY DEF Release, Return, poolVars, bornVars
<1>2. a \in Adapters
  BY <1>1 DEF LeaseInv
<1>4. Users(a)' = Users(a) \ {c} /\ c \in Users(a)
  BY <1>1 DEF Users, TypeOK, Requests, NoRequest
<1>5. \A x \in Adapters : x # a => Users(x)' = Users(x)
  BY <1>1 DEF Users, TypeOK, Requests, NoRequest
<1>6. /\ Cardinality(Users(a)') = Cardinality(Users(a)) - 1
      /\ Cardinality(Users(a)') \in Nat
  BY <1>4, UsersFinite, FS_RemoveElement, FS_CardinalityType
<1>7. inUse[a] = Cardinality(Users(a)) /\ inUse[a] \in Nat
  BY <1>2 DEF LeaseInv, LeaseCountExact, TypeOK
<1>8. inUse'[a] = inUse[a] - 1 /\ inUse[a] > 0
  BY <1>1, <1>2, <1>6, <1>7 DEF TypeOK
<1>9. \A x \in Adapters : x # a => inUse'[x] = inUse[x]
  BY <1>1 DEF TypeOK
<1>10. LeaseCountExact'
  BY <1>5, <1>6, <1>7, <1>8, <1>9 DEF LeaseInv, LeaseCountExact
<1>11. \A x \in Adapters : Limit # 0 /\ Kind[keyOf[x]] = "shared" => inUse'[x] <= Limit
  BY <1>8, <1>9, <1>7, LimitAssumption DEF LeaseInv
<1> QED
  BY <1>1, <1>2, <1>8, <1>9, <1>10, <1>11
     DEF LeaseInv, TypeOK, Requests, NoRequest, HandsInv, PoolInv

\* Every step of a request keeps the lease counts exact.
LEMMA CallerLease ==
  ASSUME TypeOK, HandsInv, LeaseInv, NEW c \in Callers, CallerStep(c)
  PROVE  LeaseInv'
<1> USE DEF TypeOK, poolVars, bornVars, leaseVars, rowVars, editVars, Requests, NoRequest
<1>1. ASSUME NEW k \in Keys, Request(c, k) PROVE LeaseInv'
  BY <1>1, StillLeased DEF Request, Asking
<1>2. CASE Find(c)
  <2>1. CASE Have(c, pool[req[c].key], "lease")
    BY <1>2, <2>1, StillLeased DEF Find, Have
  <2>2. CASE Return(c)
    BY <1>2, <2>2, StillLeased DEF Find, Return
  <2>3. CASE Goto(c, "lock")
    BY <1>2, <2>3, StillLeased DEF Find, Goto
  <2> QED
    BY <1>2, <2>1, <2>2, <2>3 DEF Find
<1>3. CASE LockKey(c)
  BY <1>3, StillLeased DEF LockKey, Goto
<1>4. CASE Recheck(c)
  <2>1. CASE Have(c, pool[req[c].key], "lease")
    BY <1>4, <2>1, StillLeased DEF Recheck, Have
  <2>2. CASE Goto(c, "dial")
    BY <1>4, <2>2, StillLeased DEF Recheck, Goto
  <2> QED
    BY <1>4, <2>1, <2>2 DEF Recheck
<1>5. ASSUME NEW a \in Adapters, DialOk(c, a) PROVE LeaseInv'
  <2>1. /\ UNCHANGED <<inUse, reaped>>
        /\ \A d \in Callers : req[d].at = "using" \/ req'[d].at = "using" => req'[d] = req[d]
        /\ \A x \in Adapters : x # a => keyOf'[x] = keyOf[x]
        /\ \A x \in Adapters : conn'[x] = "free" => conn[x] = "free"
    BY <1>5 DEF DialOk, Have
  <2>2. inUse[a] = 0
    BY <1>5 DEF DialOk, LeaseInv
  <2>3. \A x : Users(x)' = Users(x)
    BY <2>1 DEF Users
  <2>4. LeaseCountExact'
    BY <2>1, <2>3 DEF LeaseInv, LeaseCountExact
  <2>5. \A x \in Adapters : Limit # 0 /\ Kind[keyOf'[x]] = "shared" => inUse'[x] <= Limit
    BY <2>1, <2>2, LimitAssumption DEF LeaseInv
  <2> QED
    BY <2>1, <2>4, <2>5 DEF LeaseInv
<1>6. CASE DialFail(c)
  BY <1>6, StillLeased DEF DialFail, Return
<1>7. CASE Publish(c)
  BY <1>7, StillLeased DEF Publish, SwapIn, Goto
<1>8. CASE PublishRefused(c)
  BY <1>8, StillLeased DEF PublishRefused, Return
<1>9. CASE FinishPublish(c)
  BY <1>9, StillLeased DEF FinishPublish, Goto
<1>10. CASE LeaseRefused(c)
  <2>1. CASE Return(c)
    BY <1>10, <2>1, StillLeased DEF LeaseRefused, Return
  <2>2. CASE req' = [req EXCEPT ![c] = Asking(req[c].key, req[c].snap, 1)]
    BY <1>10, <2>2, StillLeased DEF LeaseRefused, Asking
  <2> QED
    BY <1>10, <2>1, <2>2 DEF LeaseRefused
<1> QED
  BY <1>1, <1>2, <1>3, <1>4, <1>5, <1>6, <1>7, <1>8, <1>9, <1>10, LeaseKeeps, ReleaseKeeps
     DEF CallerStep

\* So does a socket of a passive service: a new connection has no users.
LEMMA InboundLease ==
  ASSUME TypeOK, HandsInv, LeaseInv, NEW a \in Adapters, InboundStep(a)
  PROVE  LeaseInv'
<1> USE DEF TypeOK, poolVars, bornVars, leaseVars, rowVars, editVars, HGoto
<1>1. ASSUME NEW k \in Keys, Accept(a, k) PROVE LeaseInv'
  <2>1. /\ UNCHANGED <<inUse, reaped, req>>
        /\ \A x \in Adapters : x # a => keyOf'[x] = keyOf[x]
        /\ \A x \in Adapters : conn'[x] = "free" => conn[x] = "free"
    BY <1>1 DEF Accept
  <2>2. inUse[a] = 0
    BY <1>1 DEF Accept, LeaseInv
  <2>3. \A x : Users(x)' = Users(x)
    BY <2>1 DEF Users
  <2>4. LeaseCountExact'
    BY <2>1, <2>3 DEF LeaseInv, LeaseCountExact
  <2>5. \A x \in Adapters : Limit # 0 /\ Kind[keyOf'[x]] = "shared" => inUse'[x] <= Limit
    BY <2>1, <2>2, LimitAssumption DEF LeaseInv
  <2> QED
    BY <2>1, <2>4, <2>5 DEF LeaseInv
<1>2. CASE Handshake(a)
  BY <1>2, StillLeased DEF Handshake
<1>3. CASE InboundLock(a)
  BY <1>3, StillLeased DEF InboundLock
<1>4. CASE InboundCheck(a)
  BY <1>4, StillLeased DEF InboundCheck
<1>5. CASE Attach(a)
  BY <1>5, StillLeased DEF Attach, SwapIn
<1>6. CASE AttachFail(a)
  BY <1>6, StillLeased DEF AttachFail
<1>7. CASE FinishAttach(a)
  BY <1>7, StillLeased DEF FinishAttach
<1>8. CASE HandlerReturns(a)
  BY <1>8, StillLeased DEF HandlerReturns
<1> QED
  BY <1>1, <1>2, <1>3, <1>4, <1>5, <1>6, <1>7, <1>8 DEF InboundStep

\* So do watchers, edits, the reaper, shutdown and a restart.
LEMMA OtherLease ==
  ASSUME TypeOK, HandsInv, LeaseInv,
         \/ \E a \in Adapters : WatchStep(a) \/ CloseAdapter(a) \/ Drop(a)
         \/ \E k \in Keys : EditStep(k) \/ StopProcess(k)
         \/ Reap \/ CloseAll \/ Restart
  PROVE  LeaseInv'
<1> USE DEF TypeOK, poolVars, bornVars, leaseVars, rowVars, editVars
<1>1. ASSUME NEW a \in Adapters, WatchStep(a) PROVE LeaseInv'
  BY <1>1, StillLeased DEF WatchStep, WatchFires, WatchLock, RemoveIfCurrent, WatchEnds
<1>2. ASSUME NEW a \in Adapters, CloseAdapter(a) PROVE LeaseInv'
  BY <1>2, StillLeased DEF CloseAdapter
<1>3. ASSUME NEW a \in Adapters, Drop(a) PROVE LeaseInv'
  BY <1>3, StillLeased DEF Drop
<1>4. ASSUME NEW k \in Keys, EditStep(k) PROVE LeaseInv'
  BY <1>4, StillLeased DEF EditStep, EditBegins, EditSaves, EditRemoves, EditEnds
<1>5. ASSUME NEW k \in Keys, StopProcess(k) PROVE LeaseInv'
  BY <1>5, StillLeased DEF StopProcess
<1>6. CASE Reap
  BY <1>6, StillLeased DEF Reap, Idle
<1>7. CASE CloseAll
  BY <1>7, StillLeased DEF CloseAll
<1>8. CASE Restart
  <2>1. \A a \in Adapters : Users(a)' = {}
    BY <1>8 DEF Restart, Users, NoRequest
  <2>2. LeaseCountExact'
    BY <1>8, <2>1, FS_EmptySet DEF Restart, LeaseCountExact
  <2> QED
    BY <1>8, <2>2, LimitAssumption DEF Restart, LeaseInv, NoRequest
<1> QED
  BY <1>1, <1>2, <1>3, <1>4, <1>5, <1>6, <1>7, <1>8

\* LeaseInv is inductive.
LEMMA NextLease == TypeOK /\ HandsInv /\ LeaseInv /\ [Next]_vars => LeaseInv'
<1> SUFFICES ASSUME TypeOK, HandsInv, LeaseInv, [Next]_vars PROVE LeaseInv'
  OBVIOUS
<1>1. CASE UNCHANGED vars
  BY <1>1, StillLeased DEF vars, poolVars, bornVars, leaseVars
<1>2. CASE Next
  BY <1>2, CallerLease, InboundLease, OtherLease DEF Next
<1> QED
  BY <1>1, <1>2

\* The invariants of the pool hold of every behaviour.
THEOREM PoolInvariance == SafetySpec => [](TypeOK /\ HandsInv /\ LeaseInv)
<1> QED
  BY InitTypeOK, InitHands, InitLease, NextTypeOK, NextHands, NextLease, PTL DEF SafetySpec

\* The lease counter of a session is the number of requests that use it.
THEOREM LeasesCounted == SafetySpec => []LeaseCountExact
<1>1. LeaseInv => LeaseCountExact
  BY DEF LeaseInv
<1> QED
  BY <1>1, PoolInvariance, PTL

\* No shared process ever serves more requests than the configured limit.
THEOREM LimitKept == SafetySpec => []SharedLimitRespected
<1>1. LeaseInv => SharedLimitRespected
  BY DEF LeaseInv, SharedLimitRespected, LeaseCountExact
<1> QED
  BY <1>1, PoolInvariance, PTL

\* The idle reaper never closes a session under a request.
THEOREM ReaperSafe == SafetySpec => []ReaperSparesLeased
<1>1. LeaseInv => ReaperSparesLeased
  <2> SUFFICES ASSUME LeaseInv, NEW c \in Callers, req[c].at = "using" PROVE req[c].sess \notin reaped
    BY DEF ReaperSparesLeased
  <2>1. req[c].sess \in Adapters /\ c \in Users(req[c].sess)
    BY DEF LeaseInv, Users
  <2>2. inUse[req[c].sess] # 0
    BY <2>1, UsersFinite, FS_EmptySet DEF LeaseInv, LeaseCountExact
  <2> QED
    BY <2>2 DEF LeaseInv
<1> QED
  BY <1>1, PoolInvariance, PTL

-----------------------------------------------------------------------------
(* Shutdown.                                                                *)

\* A closed pool stays empty: publishing looks at the flag under the same mutex.
LEMMA NextClosed == TypeOK /\ ClosedPoolStaysEmpty /\ [Next]_vars => ClosedPoolStaysEmpty'
<1> SUFFICES ASSUME TypeOK, ClosedPoolStaysEmpty, [Next]_vars PROVE ClosedPoolStaysEmpty'
  OBVIOUS
<1> USE DEF ClosedPoolStaysEmpty, TypeOK, poolVars
<1>1. ASSUME NEW c \in Callers, CallerStep(c) PROVE ClosedPoolStaysEmpty'
  BY <1>1 DEF CallerStep, Request, Find, LockKey, Recheck, DialOk, DialFail, Publish,
              PublishRefused, FinishPublish, Lease, LeaseRefused, Release
<1>2. ASSUME NEW a \in Adapters, InboundStep(a) PROVE ClosedPoolStaysEmpty'
  BY <1>2 DEF InboundStep, Accept, Handshake, InboundLock, InboundCheck, Attach, AttachFail,
              FinishAttach, HandlerReturns
<1>3. ASSUME NEW a \in Adapters, WatchStep(a) PROVE ClosedPoolStaysEmpty'
  BY <1>3 DEF WatchStep, WatchFires, WatchLock, RemoveIfCurrent, WatchEnds, TakeOut
<1>4. ASSUME NEW a \in Adapters, CloseAdapter(a) \/ Drop(a) PROVE ClosedPoolStaysEmpty'
  BY <1>4 DEF CloseAdapter, Drop
<1>5. ASSUME NEW k \in Keys, EditStep(k) \/ StopProcess(k) PROVE ClosedPoolStaysEmpty'
  BY <1>5 DEF EditStep, EditBegins, EditSaves, EditRemoves, EditEnds, StopProcess, TakeOut
<1>6. CASE Reap \/ CloseAll \/ Restart
  BY <1>6 DEF Reap, CloseAll, Restart, TakeOut
<1>7. CASE UNCHANGED vars
  BY <1>7 DEF vars
<1> QED
  BY <1>1, <1>2, <1>3, <1>4, <1>5, <1>6, <1>7 DEF Next

\* Once CloseAll has run, no dial or handshake that was under way puts a
\* session into the pool.
THEOREM ShutdownFinal == SafetySpec => []ClosedPoolStaysEmpty
<1>1. Init => ClosedPoolStaysEmpty
  BY DEF Init, ClosedPoolStaysEmpty
<1> QED
  BY <1>1, InitTypeOK, NextTypeOK, NextClosed, PTL DEF SafetySpec

-----------------------------------------------------------------------------
(* No connection is forgotten.                                              *)

\* The places of NoLeakedConnection, for one adapter.
Accounted(a) ==
  \/ InPool(a) \/ a \in closing
  \/ \E c \in Callers : req[c].at = "publish" /\ req[c].sess = a
  \/ hpc[a] \in {"handshake", "lock", "check", "publish"}
  \/ hpc[a] = "open" /\ conn[a] = "down"

\* A step that moves no adapter out of its place.
LEMMA StillAccounted ==
  ASSUME NoLeakedConnection,
         \A a \in Adapters : conn'[a] \in {"up", "down"} =>
           \/ Accounted(a)'
           \/ /\ conn[a] \in {"up", "down"}
              /\ Accounted(a) => Accounted(a)'
  PROVE  NoLeakedConnection'
BY DEF NoLeakedConnection, Accounted

\* Taking sessions out of the map leaves them to be closed.
LEMMA TakeOutAccounted ==
  ASSUME TypeOK, NoLeakedConnection, NEW K \in SUBSET Keys, TakeOut(K),
         UNCHANGED <<conn, req, hpc>>
  PROVE  NoLeakedConnection'
<1>1. ASSUME NEW a \in Adapters, InPool(a) PROVE InPool(a)' \/ a \in closing'
  <2>1. PICK k \in Keys : pool[k] = a
    BY <1>1 DEF InPool
  <2>2. CASE k \in K
    BY <2>1, <2>2, PoolNoneAssumption DEF TakeOut
  <2>3. CASE k \notin K
    BY <2>1, <2>3 DEF TakeOut, InPool
  <2> QED
    BY <2>2, <2>3
<1>2. \A a \in Adapters : a \in closing => a \in closing'
  BY DEF TakeOut
<1>3. \A a \in Adapters : Accounted(a) => Accounted(a)'
  BY <1>1, <1>2 DEF Accounted
<1> QED
  BY <1>3, StillAccounted

\* Publishing puts a session in the map and the one it replaces among those to
\* be closed.
LEMMA SwapInAccounts ==
  ASSUME TypeOK, NEW k \in Keys, NEW b \in Adapters, SwapIn(k, b)
  PROVE  /\ InPool(b)'
         /\ \A a \in Adapters : InPool(a) => InPool(a)' \/ a \in closing'
         /\ closing \subseteq closing'
<1>1. pool'[k] = b /\ \A j \in Keys \ {k} : pool'[j] = pool[j]
  BY DEF SwapIn, TypeOK
<1>2. closing \subseteq closing' /\ (pool[k] # None => pool[k] \in closing')
  BY DEF SwapIn
<1>3. ASSUME NEW a \in Adapters, NEW j \in Keys, pool[j] = a PROVE InPool(a)' \/ a \in closing'
  BY <1>1, <1>2, <1>3, PoolNoneAssumption DEF InPool
<1> QED
  BY <1>1, <1>2, <1>3 DEF InPool

\* A request publishes or closes what it has dialled.
LEMMA CallerAccounts ==
  ASSUME TypeOK, HandsInv, NoLeakedConnection, NEW c \in Callers, CallerStep(c)
  PROVE  NoLeakedConnection'
<1>1. ASSUME req[c].at # "publish", UNCHANGED <<pool, closing, conn, hpc>>,
             \A d \in Callers \ {c} : req'[d] = req[d]
      PROVE  NoLeakedConnection'
  <2>1. \A a \in Adapters : Accounted(a) => Accounted(a)'
    BY <1>1 DEF Accounted, InPool
  <2> QED
    BY <1>1, <2>1, StillAccounted
<1>2. ASSUME NEW k \in Keys, Request(c, k) PROVE NoLeakedConnection'
  BY <1>1, <1>2 DEF Request, poolVars, TypeOK
<1>3. CASE Find(c) \/ LockKey(c) \/ Recheck(c)
  BY <1>1, <1>3 DEF Find, LockKey, Recheck, Have, Return, Goto, poolVars, TypeOK
<1>4. CASE DialFail(c) \/ FinishPublish(c) \/ Lease(c) \/ LeaseRefused(c) \/ Release(c)
  BY <1>1, <1>4 DEF DialFail, FinishPublish, Lease, LeaseRefused, Release, Return, Goto, poolVars, TypeOK
<1>5. ASSUME NEW b \in Adapters, DialOk(c, b) PROVE NoLeakedConnection'
  <2>1. /\ req'[c].at = "publish" /\ req'[c].sess = b
        /\ \A d \in Callers \ {c} : req'[d] = req[d]
        /\ \A a \in Adapters \ {b} : conn'[a] = conn[a]
        /\ req[c].at = "dial" /\ UNCHANGED <<pool, closing, hpc>>
    BY <1>5 DEF DialOk, Have, TypeOK, poolVars, Requests
  <2>2. Accounted(b)'
    BY <2>1 DEF Accounted
  <2>3. \A a \in Adapters \ {b} : Accounted(a) => Accounted(a)'
    BY <2>1 DEF Accounted, InPool
  <2> QED
    BY <2>1, <2>2, <2>3, StillAccounted
<1>6. CASE Publish(c)
  <2>1. PICK k \in Keys, b \in Adapters : k = req[c].key /\ b = req[c].sess
    BY <1>6 DEF Publish, TypeOK, Requests, HandsInv, PendingInv
  <2>2. /\ req[c].at = "publish" /\ SwapIn(k, b) /\ UNCHANGED <<conn, hpc>>
        /\ \A d \in Callers \ {c} : req'[d] = req[d]
    BY <1>6, <2>1 DEF Publish, Goto, TypeOK
  <2>3. /\ InPool(b)' /\ closing \subseteq closing'
        /\ \A a \in Adapters : InPool(a) => InPool(a)' \/ a \in closing'
    BY <2>2, SwapInAccounts
  <2>4. \A a \in Adapters : Accounted(a) => Accounted(a)'
    BY <2>1, <2>2, <2>3 DEF Accounted
  <2> QED
    BY <2>2, <2>4, StillAccounted
<1>7. CASE PublishRefused(c)
  <2>1. /\ UNCHANGED <<pool, closing, hpc>> /\ conn'[req[c].sess] = "closed"
        /\ \A a \in Adapters : a # req[c].sess => conn'[a] = conn[a]
        /\ \A d \in Callers \ {c} : req'[d] = req[d]
    BY <1>7 DEF PublishRefused, Return, TypeOK, HandsInv, PendingInv, poolVars
  <2>2. \A a \in Adapters : a # req[c].sess /\ Accounted(a) => Accounted(a)'
    BY <2>1 DEF Accounted, InPool
  <2> QED
    BY <2>1, <2>2, StillAccounted
<1> QED
  BY <1>2, <1>3, <1>4, <1>5, <1>6, <1>7 DEF CallerStep

\* The handler of a socket attaches or closes it.
LEMMA InboundAccounts ==
  ASSUME TypeOK, HandsInv, NoLeakedConnection, NEW b \in Adapters, InboundStep(b)
  PROVE  NoLeakedConnection'
<1>1. ASSUME UNCHANGED <<pool, closing, req>>, \A a \in Adapters \ {b} : conn'[a] = conn[a] /\ hpc'[a] = hpc[a],
             \/ conn'[b] \notin {"up", "down"}
             \/ hpc'[b] \in {"handshake", "lock", "check", "publish"}
      PROVE  NoLeakedConnection'
  <2>1. \A a \in Adapters \ {b} : Accounted(a) => Accounted(a)'
    BY <1>1 DEF Accounted, InPool
  <2>2. conn'[b] \in {"up", "down"} => Accounted(b)'
    BY <1>1 DEF Accounted
  <2> QED
    BY <1>1, <2>1, <2>2, StillAccounted
<1>2. ASSUME NEW k \in Keys, Accept(b, k) PROVE NoLeakedConnection'
  BY <1>1, <1>2 DEF Accept, HGoto, poolVars, TypeOK
<1>3. CASE Handshake(b)
  BY <1>1, <1>3 DEF Handshake, HGoto, poolVars, TypeOK
<1>4. CASE InboundLock(b)
  BY <1>1, <1>4 DEF InboundLock, HGoto, poolVars, TypeOK
<1>5. CASE InboundCheck(b)
  BY <1>1, <1>5 DEF InboundCheck, HGoto, poolVars, TypeOK
<1>6. CASE AttachFail(b) \/ HandlerReturns(b)
  BY <1>1, <1>6 DEF AttachFail, HandlerReturns, HGoto, poolVars, TypeOK
<1>7. CASE Attach(b)
  <2>1. /\ SwapIn(keyOf[b], b) /\ UNCHANGED <<conn, req>> /\ keyOf[b] \in Keys
        /\ \A a \in Adapters \ {b} : hpc'[a] = hpc[a]
    BY <1>7 DEF Attach, HGoto, TypeOK
  <2>2. /\ InPool(b)' /\ closing \subseteq closing'
        /\ \A a \in Adapters : InPool(a) => InPool(a)' \/ a \in closing'
    BY <2>1, SwapInAccounts
  <2>3. \A a \in Adapters : Accounted(a) => Accounted(a)'
    BY <2>1, <2>2 DEF Accounted
  <2> QED
    BY <2>1, <2>3, StillAccounted
<1>8. CASE FinishAttach(b)
  <2>1. /\ UNCHANGED <<pool, closing, conn, req>> /\ hpc[b] = "closeOld"
        /\ \A a \in Adapters \ {b} : hpc'[a] = hpc[a]
    BY <1>8 DEF FinishAttach, HGoto, TypeOK
  <2>2. \A a \in Adapters : Accounted(a) => Accounted(a)'
    BY <2>1 DEF Accounted, InPool
  <2> QED
    BY <2>1, <2>2, StillAccounted
<1> QED
  BY <1>2, <1>3, <1>4, <1>5, <1>6, <1>7, <1>8 DEF InboundStep

\* Watchers, edits and everybody else only take sessions out, and close them.
LEMMA OtherAccounts ==
  ASSUME TypeOK, HandsInv, NoLeakedConnection,
         \/ \E a \in Adapters : WatchStep(a) \/ CloseAdapter(a) \/ Drop(a)
         \/ \E k \in Keys : EditStep(k) \/ StopProcess(k)
         \/ Reap \/ CloseAll \/ Restart
  PROVE  NoLeakedConnection'
<1>1. ASSUME UNCHANGED <<pool, closing, conn, req, hpc>> PROVE NoLeakedConnection'
  BY <1>1 DEF NoLeakedConnection, InPool
<1>2. ASSUME NEW a \in Adapters, WatchStep(a) PROVE NoLeakedConnection'
  <2>1. CASE WatchFires(a) \/ WatchLock(a) \/ WatchEnds(a)
    BY <1>1, <2>1 DEF WatchFires, WatchLock, WatchEnds, poolVars
  <2>2. CASE RemoveIfCurrent(a)
    <3>1. CASE pool[keyOf[a]] = a
      <4>1. TakeOut({keyOf[a]}) /\ UNCHANGED <<conn, req, hpc>> /\ {keyOf[a]} \in SUBSET Keys
        BY <2>2, <3>1 DEF RemoveIfCurrent, TypeOK
      <4> QED
        BY <4>1, TakeOutAccounted
    <3>2. CASE pool[keyOf[a]] # a
      BY <1>1, <2>2, <3>2 DEF RemoveIfCurrent
    <3> QED
      BY <3>1, <3>2
  <2> QED
    BY <1>2, <2>1, <2>2 DEF WatchStep
<1>3. ASSUME NEW k \in Keys, EditStep(k) PROVE NoLeakedConnection'
  <2>1. CASE EditBegins(k) \/ EditSaves(k) \/ EditEnds(k)
    BY <1>1, <2>1 DEF EditBegins, EditSaves, EditEnds, poolVars
  <2>2. CASE EditRemoves(k)
    BY <2>2, TakeOutAccounted DEF EditRemoves
  <2> QED
    BY <1>3, <2>1, <2>2 DEF EditStep
<1>4. ASSUME NEW k \in Keys, StopProcess(k) PROVE NoLeakedConnection'
  BY <1>4, TakeOutAccounted DEF StopProcess
<1>5. CASE Reap
  BY <1>5, TakeOutAccounted DEF Reap
<1>6. CASE CloseAll
  BY <1>6, TakeOutAccounted DEF CloseAll
<1>7. CASE Restart
  BY <1>7 DEF Restart, NoLeakedConnection
<1>8. ASSUME NEW b \in Adapters, CloseAdapter(b) PROVE NoLeakedConnection'
  <2>1. /\ conn'[b] = "closed" /\ \A a \in Adapters \ {b} : conn'[a] = conn[a]
        /\ closing' = closing \ {b} /\ UNCHANGED <<pool, req, hpc>>
    BY <1>8 DEF CloseAdapter, TypeOK
  <2>2. \A a \in Adapters \ {b} : Accounted(a) => Accounted(a)'
    BY <2>1 DEF Accounted, InPool
  <2> QED
    BY <2>1, <2>2, StillAccounted
<1>9. ASSUME NEW b \in Adapters, Drop(b) PROVE NoLeakedConnection'
  <2>1. /\ conn[b] = "up" /\ conn'[b] = "down" /\ \A a \in Adapters \ {b} : conn'[a] = conn[a]
        /\ UNCHANGED <<pool, closing, req, hpc>>
    BY <1>9 DEF Drop, TypeOK, poolVars
  <2>2. \A a \in Adapters : Accounted(a) => Accounted(a)'
    BY <2>1 DEF Accounted, InPool
  <2> QED
    BY <2>1, <2>2, StillAccounted
<1> QED
  BY <1>2, <1>3, <1>4, <1>5, <1>6, <1>7, <1>8, <1>9

\* NoLeakedConnection is kept by every step.
LEMMA NextAccounted == TypeOK /\ HandsInv /\ NoLeakedConnection /\ [Next]_vars => NoLeakedConnection'
<1> SUFFICES ASSUME TypeOK, HandsInv, NoLeakedConnection, [Next]_vars PROVE NoLeakedConnection'
  OBVIOUS
<1>1. CASE UNCHANGED vars
  BY <1>1 DEF vars, poolVars, NoLeakedConnection, InPool
<1>2. CASE Next
  BY <1>2, CallerAccounts, InboundAccounts, OtherAccounts DEF Next
<1> QED
  BY <1>1, <1>2

\* However dials, handshakes, replacements, removals and shutdown interleave,
\* a live connection is in the pool, about to be closed, or in one pair of hands:
\* no upstream process is left behind.
THEOREM NothingLeaked == SafetySpec => []NoLeakedConnection
<1>1. Init => NoLeakedConnection
  BY DEF Init, NoLeakedConnection
<1> QED
  BY <1>1, InitTypeOK, NextTypeOK, InitHands, NextHands, NextAccounted, PTL DEF SafetySpec

-----------------------------------------------------------------------------
(* The connect lock: one party at a time inside the section of a key.       *)

CallerIn(c, k) == req[c].key = k /\ req[c].at \in {"recheck", "dial", "publish", "closeOld"}
WatcherIn(a, k) == keyOf[a] = k /\ wpc[a] \in {"remove", "closeOld"}
InboundIn(a, k) == keyOf[a] = k /\ hpc[a] \in {"check", "publish", "closeOld"}

\* No two parties are inside the section of one key.
LockInv ==
  \A k \in Keys :
    /\ \A c, d \in Callers : CallerIn(c, k) /\ CallerIn(d, k) => c = d
    /\ \A a, b \in Adapters : WatcherIn(a, k) /\ WatcherIn(b, k) => a = b
    /\ \A a, b \in Adapters : InboundIn(a, k) /\ InboundIn(b, k) => a = b
    /\ \A c \in Callers, a \in Adapters : CallerIn(c, k) => ~ WatcherIn(a, k) /\ ~ InboundIn(a, k)
    /\ \A a, b \in Adapters : WatcherIn(a, k) => ~ InboundIn(b, k)
    /\ EditInside(k) => /\ \A c \in Callers : ~ CallerIn(c, k)
                        /\ \A a \in Adapters : ~ WatcherIn(a, k) /\ ~ InboundIn(a, k)

\* A connection that has not been made is watched by nobody.
MadeInv ==
  /\ \A a \in Adapters : conn[a] = "free" => wpc[a] = "none"
  /\ \A c \in Callers : req[c].at = "closeOld" => req[c].sess \in Adapters /\ conn[req[c].sess] # "free"

\* A step by which nobody enters a section.
LEMMA StillLocked ==
  ASSUME LockInv,
         \A k \in Keys :
           /\ \A c \in Callers : CallerIn(c, k)' => CallerIn(c, k)
           /\ \A a \in Adapters : (WatcherIn(a, k)' => WatcherIn(a, k)) /\ (InboundIn(a, k)' => InboundIn(a, k))
           /\ EditInside(k)' => EditInside(k)
  PROVE  LockInv'
BY DEF LockInv

\* A free lock is one whose section is empty.
LEMMA FreeMeansEmpty ==
  ASSUME NEW k \in Keys, LockFree(k)
  PROVE  /\ \A c \in Callers : ~ CallerIn(c, k)
         /\ \A a \in Adapters : ~ WatcherIn(a, k) /\ ~ InboundIn(a, k)
         /\ ~ EditInside(k)
BY DEF LockFree, CallersInside, WatchersInside, InboundInside, CallerIn, WatcherIn, InboundIn

\* Every step keeps MadeInv.
LEMMA NextMade == TypeOK /\ HandsInv /\ MadeInv /\ [Next]_vars => MadeInv'
<1> SUFFICES ASSUME TypeOK, HandsInv, MadeInv, [Next]_vars PROVE MadeInv'
  OBVIOUS
<1> USE DEF TypeOK, MadeInv
<1>1. ASSUME NEW c \in Callers, CallerStep(c) PROVE MadeInv'
  <2>1. CASE Publish(c)
    BY <2>1 DEF Publish, Goto, HandsInv, PendingInv
  <2>2. CASE FinishPublish(c)
    BY <2>2 DEF FinishPublish, Goto
  <2>3. ASSUME NEW a \in Adapters, DialOk(c, a) PROVE MadeInv'
    BY <2>3 DEF DialOk, Have
  <2>4. CASE PublishRefused(c)
    BY <2>4 DEF PublishRefused, Return, NoRequest, HandsInv, PendingInv
  <2>5. ASSUME UNCHANGED <<conn, wpc>>, req'[c].at # "closeOld", \A d \in Callers \ {c} : req'[d] = req[d]
        PROVE  MadeInv'
    BY <2>5
  <2>6. CASE LeaseRefused(c) \/ (\E k \in Keys : Request(c, k))
    BY <2>5, <2>6 DEF LeaseRefused, Request, Asking, Return, NoRequest
  <2>7. CASE Find(c) \/ LockKey(c) \/ Recheck(c) \/ DialFail(c) \/ Lease(c) \/ Release(c)
    <3>1. UNCHANGED <<conn, wpc>>
      BY <2>7 DEF Find, LockKey, Recheck, DialFail, Lease, Release
    <3>2. req'[c].at # "closeOld"
      BY <2>7 DEF Find, LockKey, Recheck, DialFail, Lease, Release, Have, Goto, Return, NoRequest, Requests
    <3>3. \A d \in Callers \ {c} : req'[d] = req[d]
      BY <2>7 DEF Find, LockKey, Recheck, DialFail, Lease, Release, Have, Goto, Return
    <3> QED
      BY <2>5, <3>1, <3>2, <3>3
  <2> QED
    BY <1>1, <2>1, <2>2, <2>3, <2>4, <2>6, <2>7 DEF CallerStep
<1>2. ASSUME NEW a \in Adapters, InboundStep(a) PROVE MadeInv'
  <2>1. CASE FinishAttach(a)
    BY <2>1 DEF FinishAttach, HandsInv, PendingInv
  <2>2. CASE Attach(a) \/ AttachFail(a) \/ HandlerReturns(a) \/ (\E k \in Keys : Accept(a, k))
    BY <2>2 DEF Attach, AttachFail, HandlerReturns, Accept
  <2>3. CASE Handshake(a) \/ InboundLock(a) \/ InboundCheck(a)
    BY <2>3 DEF Handshake, InboundLock, InboundCheck
  <2> QED
    BY <1>2, <2>1, <2>2, <2>3 DEF InboundStep
<1>3. ASSUME NEW a \in Adapters, WatchStep(a) PROVE MadeInv'
  BY <1>3 DEF WatchStep, WatchFires, WatchLock, RemoveIfCurrent, WatchEnds, WGoto
<1>4. ASSUME NEW a \in Adapters, CloseAdapter(a) \/ Drop(a) PROVE MadeInv'
  BY <1>4 DEF CloseAdapter, Drop
<1>5. ASSUME NEW k \in Keys, EditStep(k) \/ StopProcess(k) PROVE MadeInv'
  BY <1>5 DEF EditStep, EditBegins, EditSaves, EditRemoves, EditEnds, StopProcess
<1>6. CASE Reap \/ CloseAll \/ Restart
  BY <1>6 DEF Reap, CloseAll, Restart, NoRequest
<1>7. CASE UNCHANGED vars
  BY <1>7 DEF vars
<1> QED
  BY <1>1, <1>2, <1>3, <1>4, <1>5, <1>6, <1>7 DEF Next

\* A request enters by LockKey alone, and leaves by itself.
LEMMA CallerLocks ==
  ASSUME TypeOK, HandsInv, MadeInv, LockInv, NEW c \in Callers, CallerStep(c)
  PROVE  LockInv'
<1>1. ASSUME UNCHANGED <<keyOf, wpc, hpc, apc>>, \A d \in Callers \ {c} : req'[d] = req[d],
             \A k \in Keys : CallerIn(c, k)' => CallerIn(c, k)
      PROVE  LockInv'
  <2>1. \A k \in Keys :
          /\ \A d \in Callers : CallerIn(d, k)' => CallerIn(d, k)
          /\ \A a \in Adapters : (WatcherIn(a, k)' => WatcherIn(a, k)) /\ (InboundIn(a, k)' => InboundIn(a, k))
          /\ EditInside(k)' => EditInside(k)
    BY <1>1 DEF CallerIn, WatcherIn, InboundIn, EditInside
  <2> QED
    BY <2>1, StillLocked
<1>2. ASSUME NEW k \in Keys, Request(c, k) PROVE LockInv'
  BY <1>1, <1>2 DEF Request, Asking, bornVars, editVars, CallerIn, TypeOK
<1>3. CASE Find(c)
  BY <1>1, <1>3 DEF Find, Have, Return, NoRequest, Goto, bornVars, editVars, CallerIn, TypeOK, Requests
<1>4. CASE Recheck(c)
  BY <1>1, <1>4 DEF Recheck, Have, Goto, bornVars, editVars, CallerIn, TypeOK, Requests
<1>5. CASE DialFail(c) \/ Publish(c) \/ PublishRefused(c)
  BY <1>1, <1>5 DEF DialFail, Publish, PublishRefused, Return, NoRequest, Goto, bornVars, editVars, CallerIn,
                   TypeOK, Requests
<1>6. CASE Lease(c) \/ LeaseRefused(c) \/ Release(c)
  BY <1>1, <1>6 DEF Lease, LeaseRefused, Release, Return, NoRequest, Asking, Goto, bornVars, editVars, CallerIn,
                   TypeOK, Requests
<1>7. CASE LockKey(c)
  <2>1. PICK k \in Keys : k = req[c].key
    BY DEF TypeOK, Requests
  <2>2. /\ UNCHANGED <<keyOf, wpc, hpc, apc>> /\ \A d \in Callers \ {c} : req'[d] = req[d]
        /\ req'[c].key = k /\ LockFree(k)
    BY <1>7, <2>1 DEF LockKey, Goto, bornVars, editVars, TypeOK, Requests
  <2>3. /\ \A j \in Keys, d \in Callers : CallerIn(d, j)' => CallerIn(d, j) \/ (d = c /\ j = k)
        /\ \A j \in Keys, a \in Adapters : (WatcherIn(a, j)' => WatcherIn(a, j)) /\ (InboundIn(a, j)' => InboundIn(a, j))
        /\ \A j \in Keys : EditInside(j)' => EditInside(j)
    BY <2>2 DEF CallerIn, WatcherIn, InboundIn, EditInside
  <2>4. /\ \A d \in Callers : ~ CallerIn(d, k)
        /\ \A a \in Adapters : ~ WatcherIn(a, k) /\ ~ InboundIn(a, k)
        /\ ~ EditInside(k)
    BY <2>2, FreeMeansEmpty
  <2> QED
    BY <2>3, <2>4 DEF LockInv
<1>8. ASSUME NEW b \in Adapters, DialOk(c, b) PROVE LockInv'
  <2>1. /\ UNCHANGED <<wpc, hpc, apc>> /\ \A d \in Callers \ {c} : req'[d] = req[d]
        /\ req'[c].key = req[c].key /\ req[c].at = "dial"
        /\ \A a \in Adapters \ {b} : keyOf'[a] = keyOf[a]
        /\ wpc[b] = "none" /\ hpc[b] = "none"
    BY <1>8 DEF DialOk, Have, editVars, TypeOK, Requests, MadeInv, HandsInv, PendingInv
  <2>2. \A k \in Keys :
          /\ \A d \in Callers : CallerIn(d, k)' => CallerIn(d, k)
          /\ \A a \in Adapters : (WatcherIn(a, k)' => WatcherIn(a, k)) /\ (InboundIn(a, k)' => InboundIn(a, k))
          /\ EditInside(k)' => EditInside(k)
    BY <2>1 DEF CallerIn, WatcherIn, InboundIn, EditInside
  <2> QED
    BY <2>2, StillLocked
<1>9. CASE FinishPublish(c)
  <2>1. /\ UNCHANGED <<keyOf, hpc, apc>> /\ \A d \in Callers \ {c} : req'[d] = req[d]
        /\ req'[c].at = "lease"
        /\ \A a \in Adapters : wpc'[a] = wpc[a] \/ wpc'[a] = "watching"
    BY <1>9 DEF FinishPublish, Goto, bornVars, editVars, TypeOK, Requests
  <2>2. \A k \in Keys :
          /\ \A d \in Callers : CallerIn(d, k)' => CallerIn(d, k)
          /\ \A a \in Adapters : (WatcherIn(a, k)' => WatcherIn(a, k)) /\ (InboundIn(a, k)' => InboundIn(a, k))
          /\ EditInside(k)' => EditInside(k)
    BY <2>1 DEF CallerIn, WatcherIn, InboundIn, EditInside
  <2> QED
    BY <2>2, StillLocked
<1> QED
  BY <1>2, <1>3, <1>4, <1>5, <1>6, <1>7, <1>8, <1>9 DEF CallerStep

\* A socket enters by InboundLock alone.
LEMMA InboundLocks ==
  ASSUME TypeOK, HandsInv, MadeInv, LockInv, NEW b \in Adapters, InboundStep(b)
  PROVE  LockInv'
<1>1. ASSUME UNCHANGED <<req, apc>>, \A k \in Keys, a \in Adapters : WatcherIn(a, k)' => WatcherIn(a, k),
             \A a \in Adapters \ {b} : keyOf'[a] = keyOf[a] /\ hpc'[a] = hpc[a],
             \A k \in Keys : InboundIn(b, k)' => InboundIn(b, k)
      PROVE  LockInv'
  <2>1. \A k \in Keys :
          /\ \A d \in Callers : CallerIn(d, k)' => CallerIn(d, k)
          /\ \A a \in Adapters : (WatcherIn(a, k)' => WatcherIn(a, k)) /\ (InboundIn(a, k)' => InboundIn(a, k))
          /\ EditInside(k)' => EditInside(k)
    BY <1>1 DEF CallerIn, WatcherIn, InboundIn, EditInside
  <2> QED
    BY <2>1, StillLocked
<1>2. ASSUME NEW k \in Keys, Accept(b, k) PROVE LockInv'
  <2>1. wpc[b] = "none" /\ UNCHANGED <<wpc, req, apc>> /\ hpc'[b] = "handshake"
        /\ \A a \in Adapters \ {b} : keyOf'[a] = keyOf[a] /\ hpc'[a] = hpc[a]
    BY <1>2 DEF Accept, HGoto, editVars, TypeOK, MadeInv
  <2> QED
    BY <1>1, <2>1 DEF WatcherIn, InboundIn
<1>3. CASE Handshake(b) \/ InboundCheck(b) \/ Attach(b)
  BY <1>1, <1>3 DEF Handshake, InboundCheck, Attach, HGoto, bornVars, editVars, TypeOK, WatcherIn, InboundIn
<1>4. CASE AttachFail(b) \/ FinishAttach(b) \/ HandlerReturns(b)
  BY <1>1, <1>4 DEF AttachFail, FinishAttach, HandlerReturns, HGoto, bornVars, editVars, TypeOK, WatcherIn, InboundIn
<1>5. CASE InboundLock(b)
  <2>1. PICK k \in Keys : k = keyOf[b]
    BY DEF TypeOK
  <2>2. /\ UNCHANGED <<keyOf, wpc, req, apc>> /\ \A a \in Adapters \ {b} : hpc'[a] = hpc[a]
        /\ LockFree(k)
    BY <1>5, <2>1 DEF InboundLock, HGoto, bornVars, editVars, TypeOK
  <2>3. /\ \A j \in Keys, d \in Callers : CallerIn(d, j)' => CallerIn(d, j)
        /\ \A j \in Keys, a \in Adapters : WatcherIn(a, j)' => WatcherIn(a, j)
        /\ \A j \in Keys, a \in Adapters : InboundIn(a, j)' => InboundIn(a, j) \/ (a = b /\ j = k)
        /\ \A j \in Keys : EditInside(j)' => EditInside(j)
    BY <2>1, <2>2 DEF CallerIn, WatcherIn, InboundIn, EditInside
  <2>4. /\ \A d \in Callers : ~ CallerIn(d, k)
        /\ \A a \in Adapters : ~ WatcherIn(a, k) /\ ~ InboundIn(a, k)
        /\ ~ EditInside(k)
    BY <2>2, FreeMeansEmpty
  <2> QED
    BY <2>3, <2>4 DEF LockInv
<1> QED
  BY <1>2, <1>3, <1>4, <1>5 DEF InboundStep

\* A watcher enters by WatchLock alone.
LEMMA WatchLocks ==
  ASSUME TypeOK, LockInv, NEW b \in Adapters, WatchStep(b)
  PROVE  LockInv'
<1>1. /\ UNCHANGED <<req, keyOf, hpc, apc>> /\ \A a \in Adapters \ {b} : wpc'[a] = wpc[a]
  BY DEF WatchStep, WatchFires, WatchLock, RemoveIfCurrent, WatchEnds, WGoto, bornVars, editVars, TypeOK
<1>2. /\ \A j \in Keys, d \in Callers : CallerIn(d, j)' => CallerIn(d, j)
      /\ \A j \in Keys, a \in Adapters : (InboundIn(a, j)' => InboundIn(a, j))
      /\ \A j \in Keys : EditInside(j)' => EditInside(j)
      /\ \A j \in Keys, a \in Adapters \ {b} : WatcherIn(a, j)' => WatcherIn(a, j)
  BY <1>1 DEF CallerIn, WatcherIn, InboundIn, EditInside
<1>3. CASE WatchLock(b)
  <2>1. PICK k \in Keys : k = keyOf[b]
    BY DEF TypeOK
  <2>2. \A j \in Keys : WatcherIn(b, j)' => j = k
    BY <1>1, <2>1 DEF WatcherIn
  <2>3. /\ \A d \in Callers : ~ CallerIn(d, k)
        /\ \A a \in Adapters : ~ WatcherIn(a, k) /\ ~ InboundIn(a, k)
        /\ ~ EditInside(k)
    BY <1>3, <2>1, FreeMeansEmpty DEF WatchLock
  <2> QED
    BY <1>2, <2>2, <2>3 DEF LockInv
<1>4. CASE WatchFires(b) \/ RemoveIfCurrent(b) \/ WatchEnds(b)
  <2>1. \A j \in Keys : WatcherIn(b, j)' => WatcherIn(b, j)
    BY <1>1, <1>4 DEF WatchFires, RemoveIfCurrent, WatchEnds, WGoto, WatcherIn, TypeOK
  <2> QED
    BY <1>2, <2>1, StillLocked
<1> QED
  BY <1>3, <1>4 DEF WatchStep

\* An edit under the service lock enters by EditBegins alone.
LEMMA EditLocks ==
  ASSUME TypeOK, LockInv, NEW k \in Keys, EditStep(k)
  PROVE  LockInv'
<1>1. /\ UNCHANGED <<req, keyOf, wpc, hpc>> /\ \A j \in Keys \ {k} : apc'[j] = apc[j]
  BY DEF EditStep, EditBegins, EditSaves, EditRemoves, EditEnds, AGoto, bornVars, TypeOK
<1>2. /\ \A j \in Keys, d \in Callers : CallerIn(d, j)' => CallerIn(d, j)
      /\ \A j \in Keys, a \in Adapters : (WatcherIn(a, j)' => WatcherIn(a, j)) /\ (InboundIn(a, j)' => InboundIn(a, j))
      /\ \A j \in Keys \ {k} : EditInside(j)' => EditInside(j)
  BY <1>1 DEF CallerIn, WatcherIn, InboundIn, EditInside
<1>3. CASE EditBegins(k)
  <2>1. CASE LockedEdit(k)
    <3>1. /\ \A d \in Callers : ~ CallerIn(d, k)
          /\ \A a \in Adapters : ~ WatcherIn(a, k) /\ ~ InboundIn(a, k)
      BY <1>3, <2>1, FreeMeansEmpty DEF EditBegins
    <3> QED
      BY <1>2, <3>1 DEF LockInv
  <2>2. CASE ~ LockedEdit(k)
    <3>1. ~ EditInside(k)'
      BY <2>2 DEF EditInside, LockedEdit
    <3> QED
      BY <1>2, <3>1, StillLocked
  <2> QED
    BY <2>1, <2>2
<1>4. CASE EditSaves(k) \/ EditRemoves(k) \/ EditEnds(k)
  <2>1. EditInside(k)' => EditInside(k)
    BY <1>4 DEF EditSaves, EditRemoves, EditEnds, AGoto, EditInside, LockedEdit, TypeOK
  <2> QED
    BY <1>2, <2>1, StillLocked
<1> QED
  BY <1>3, <1>4 DEF EditStep

\* The connect lock excludes: LockInv is inductive.
LEMMA NextLocked == TypeOK /\ HandsInv /\ MadeInv /\ LockInv /\ [Next]_vars => LockInv'
<1> SUFFICES ASSUME TypeOK, HandsInv, MadeInv, LockInv, [Next]_vars PROVE LockInv'
  OBVIOUS
<1>1. ASSUME UNCHANGED <<req, keyOf, wpc, hpc, apc>> PROVE LockInv'
  BY <1>1, StillLocked DEF CallerIn, WatcherIn, InboundIn, EditInside
<1>2. ASSUME NEW a \in Adapters, CloseAdapter(a) \/ Drop(a) PROVE LockInv'
  BY <1>1, <1>2 DEF CloseAdapter, Drop, bornVars, editVars
<1>3. ASSUME NEW k \in Keys, StopProcess(k) PROVE LockInv'
  BY <1>1, <1>3 DEF StopProcess, bornVars, editVars
<1>4. CASE Reap \/ CloseAll
  BY <1>1, <1>4 DEF Reap, CloseAll, bornVars, editVars
<1>5. CASE Restart
  BY <1>5 DEF Restart, NoRequest, LockInv, CallerIn, WatcherIn, InboundIn, EditInside
<1>6. CASE UNCHANGED vars
  BY <1>1, <1>6 DEF vars, bornVars, editVars
<1> QED
  BY <1>2, <1>3, <1>4, <1>5, <1>6, CallerLocks, InboundLocks, WatchLocks, EditLocks DEF Next

\* Nobody is inside a section at first.
LEMMA InitLocked == Init => MadeInv /\ LockInv
BY DEF Init, NoRequest, MadeInv, LockInv, CallerIn, WatcherIn, InboundIn, EditInside

-----------------------------------------------------------------------------
(* One process for each key.                                                *)

SoleInv ==
  /\ \A k \in Keys : pool[k] # None => keyOf[pool[k]] = k
  /\ \A c \in Callers : req[c].at \in {"lock", "recheck", "dial", "publish", "closeOld"} => ~ Passive(req[c].key)
  /\ \A c \in Callers : req[c].at = "publish" => keyOf[req[c].sess] = req[c].key
  /\ \A c \in Callers, k \in Keys : req[c].at \in {"dial", "publish"} /\ req[c].key = k => ~ Connected(k)
  /\ \A a \in Adapters : hpc[a] # "none" => Passive(keyOf[a])

\* A step that creates and publishes nothing and moves no request forward.
LEMMA StillSole ==
  ASSUME TypeOK, HandsInv, SoleInv, UNCHANGED keyOf,
         \A k \in Keys : pool'[k] \in {pool[k], None},
         \A a \in Adapters : conn'[a] = "up" => conn[a] = "up",
         \A a \in Adapters : hpc[a] = "none" => hpc'[a] = "none",
         \A c \in Callers :
           \/ req'[c] = req[c]
           \/ req'[c].at \notin {"lock", "recheck", "dial", "publish", "closeOld"}
           \/ /\ req'[c].key = req[c].key /\ req[c].at \in {"lock", "recheck", "dial", "publish", "closeOld"}
              /\ req'[c].at \in {"lock", "recheck", "closeOld"}
  PROVE  SoleInv'
<1>1. \A k \in Keys : Connected(k)' => Connected(k)
  BY DEF Connected, Up, TypeOK
<1>2. \A k \in Keys : pool'[k] # None => keyOf'[pool'[k]] = k
  BY DEF SoleInv
<1>3. \A c \in Callers : req'[c].at \in {"lock", "recheck", "dial", "publish", "closeOld"} => ~ Passive(req'[c].key)
  BY DEF SoleInv
<1>4. \A c \in Callers : req'[c].at = "publish" => keyOf'[req'[c].sess] = req'[c].key
  BY DEF SoleInv
<1>5. \A c \in Callers, k \in Keys : req'[c].at \in {"dial", "publish"} /\ req'[c].key = k => ~ Connected(k)'
  BY <1>1 DEF SoleInv
<1>6. \A a \in Adapters : hpc'[a] # "none" => Passive(keyOf'[a])
  BY DEF SoleInv
<1> QED
  BY <1>2, <1>3, <1>4, <1>5, <1>6 DEF SoleInv, Passive

\* A request starts a process only where none is connected.
LEMMA CallerSole ==
  ASSUME TypeOK, HandsInv, LockInv, SoleInv, NEW c \in Callers, CallerStep(c)
  PROVE  SoleInv'
<1> USE DEF poolVars, bornVars
<1>1. ASSUME NEW k \in Keys, Request(c, k) PROVE SoleInv'
  BY <1>1, StillSole DEF Request, Asking, TypeOK
<1>2. CASE Find(c)
  <2>1. CASE Goto(c, "lock") /\ ~ Passive(req[c].key)
    <3>1. /\ req' = [req EXCEPT ![c].at = "lock"] /\ UNCHANGED <<pool, keyOf, conn, hpc>>
      BY <1>2, <2>1 DEF Find, Goto
    <3>2. req'[c].key = req[c].key /\ req'[c].at = "lock" /\ \A d \in Callers \ {c} : req'[d] = req[d]
      BY <3>1 DEF TypeOK, Requests
    <3> QED
      BY <2>1, <3>1, <3>2 DEF SoleInv, Passive, Connected, Up
  <2>2. CASE Have(c, pool[req[c].key], "lease") \/ Return(c)
    BY <1>2, <2>2, StillSole DEF Find, Have, Return, NoRequest, TypeOK, Requests
  <2> QED
    BY <1>2, <2>1, <2>2 DEF Find
<1>3. CASE LockKey(c)
  BY <1>3, StillSole DEF LockKey, Goto, TypeOK, Requests
<1>4. CASE Recheck(c)
  <2>1. CASE Have(c, pool[req[c].key], "lease")
    BY <1>4, <2>1, StillSole DEF Recheck, Have, TypeOK, Requests
  <2>2. CASE ~ Connected(req[c].key) /\ Goto(c, "dial")
    <3>1. /\ req' = [req EXCEPT ![c].at = "dial"] /\ UNCHANGED <<pool, keyOf, conn, hpc>> /\ req[c].at = "recheck"
      BY <1>4, <2>2 DEF Recheck, Goto
    <3>2. req'[c].key = req[c].key /\ req'[c].at = "dial" /\ \A d \in Callers \ {c} : req'[d] = req[d]
      BY <3>1 DEF TypeOK, Requests
    <3> QED
      BY <2>2, <3>1, <3>2 DEF SoleInv, Passive, Connected, Up
  <2> QED
    BY <1>4, <2>1, <2>2 DEF Recheck
<1>5. CASE DialFail(c) \/ PublishRefused(c)
  BY <1>5, StillSole DEF DialFail, PublishRefused, Return, NoRequest, TypeOK
<1>6. CASE FinishPublish(c)
  BY <1>6, StillSole DEF FinishPublish, Goto, TypeOK, Requests
<1>7. CASE Lease(c) \/ LeaseRefused(c) \/ Release(c)
  BY <1>7, StillSole DEF Lease, LeaseRefused, Release, Return, NoRequest, Asking, Goto, TypeOK, Requests
<1>8. ASSUME NEW b \in Adapters, DialOk(c, b) PROVE SoleInv'
  <2>1. /\ req[c].at = "dial" /\ conn[b] = "free" /\ UNCHANGED <<pool, hpc>>
        /\ req'[c].at = "publish" /\ req'[c].sess = b /\ req'[c].key = req[c].key
        /\ \A d \in Callers \ {c} : req'[d] = req[d]
        /\ keyOf'[b] = req[c].key
        /\ \A a \in Adapters \ {b} : keyOf'[a] = keyOf[a] /\ conn'[a] = conn[a]
    BY <1>8 DEF DialOk, Have, TypeOK, Requests
  <2>2. /\ \A k \in Keys : pool[k] # b
        /\ \A d \in Callers : req[d].at = "publish" => req[d].sess \in Adapters \ {b}
        /\ hpc[b] = "none"
    BY <2>1, PoolNoneAssumption DEF HandsInv, PoolInv, PendingInv, TypeOK
  <2>3. \A k \in Keys : Connected(k)' => Connected(k)
    BY <2>1, <2>2 DEF Connected, Up, TypeOK
  <2>4. \A k \in Keys : pool'[k] # None => keyOf'[pool'[k]] = k
    BY <2>1, <2>2 DEF SoleInv, TypeOK
  <2>5. \A d \in Callers, k \in Keys : req'[d].at \in {"dial", "publish"} /\ req'[d].key = k => ~ Connected(k)'
    BY <2>1, <2>3 DEF SoleInv
  <2> QED
    BY <2>1, <2>2, <2>4, <2>5 DEF SoleInv, Passive
<1>9. CASE Publish(c)
  <2>1. PICK k \in Keys, b \in Adapters : k = req[c].key /\ b = req[c].sess
    BY <1>9 DEF Publish, TypeOK, Requests, HandsInv, PendingInv
  <2>2. /\ req[c].at = "publish" /\ pool'[k] = b /\ \A j \in Keys \ {k} : pool'[j] = pool[j]
        /\ UNCHANGED <<conn, keyOf, hpc>>
        /\ req'[c].at = "closeOld" /\ req'[c].key = k
        /\ \A d \in Callers \ {c} : req'[d] = req[d]
    BY <1>9, <2>1 DEF Publish, SwapIn, Goto, TypeOK, Requests
  <2>3. \A d \in Callers \ {c} : req[d].key = k => req[d].at \notin {"dial", "publish"}
    BY <2>1, <2>2 DEF LockInv, CallerIn
  <2>4. \A d \in Callers, j \in Keys : req'[d].at \in {"dial", "publish"} /\ req'[d].key = j => ~ Connected(j)'
    BY <2>2, <2>3 DEF SoleInv, Connected, Up
  <2>5. \A j \in Keys : pool'[j] # None => keyOf'[pool'[j]] = j
    BY <2>1, <2>2 DEF SoleInv
  <2> QED
    BY <2>1, <2>2, <2>4, <2>5 DEF SoleInv, Passive
<1> QED
  BY <1>1, <1>2, <1>3, <1>4, <1>5, <1>6, <1>7, <1>8, <1>9 DEF CallerStep

\* A socket is of a passive service, for which no request dials.
LEMMA InboundSole ==
  ASSUME TypeOK, HandsInv, SoleInv, NEW b \in Adapters, InboundStep(b)
  PROVE  SoleInv'
<1> USE DEF poolVars, bornVars
<1>1. ASSUME NEW k \in Keys, Accept(b, k) PROVE SoleInv'
  <2>1. /\ conn[b] = "free" /\ UNCHANGED <<pool, req>> /\ keyOf'[b] = k /\ Passive(k)
        /\ \A a \in Adapters \ {b} : keyOf'[a] = keyOf[a] /\ conn'[a] = conn[a] /\ hpc'[a] = hpc[a]
    BY <1>1 DEF Accept, HGoto, TypeOK
  <2>2. /\ \A j \in Keys : pool[j] # b
        /\ \A d \in Callers : req[d].at = "publish" => req[d].sess \in Adapters \ {b}
    BY <2>1, PoolNoneAssumption DEF HandsInv, PoolInv, PendingInv, TypeOK
  <2>3. \A j \in Keys : Connected(j)' => Connected(j)
    BY <2>1, <2>2 DEF Connected, Up, TypeOK
  <2>4. \A j \in Keys : pool'[j] # None => keyOf'[pool'[j]] = j
    BY <2>1, <2>2 DEF SoleInv, TypeOK
  <2> QED
    BY <2>1, <2>2, <2>3, <2>4 DEF SoleInv, Passive
<1>2. CASE Attach(b)
  <2>1. PICK k \in Keys : k = keyOf[b]
    BY DEF TypeOK
  <2>2. /\ pool'[k] = b /\ \A j \in Keys \ {k} : pool'[j] = pool[j]
        /\ UNCHANGED <<conn, keyOf, req>> /\ Passive(k)
        /\ \A a \in Adapters : hpc[a] = "none" => hpc'[a] = "none"
    BY <1>2, <2>1 DEF Attach, SwapIn, HGoto, TypeOK, SoleInv
  <2>3. \A d \in Callers, j \in Keys : req'[d].at \in {"dial", "publish"} /\ req'[d].key = j => ~ Connected(j)'
    BY <2>2 DEF SoleInv, Connected, Up
  <2>4. \A j \in Keys : pool'[j] # None => keyOf'[pool'[j]] = j
    BY <2>1, <2>2 DEF SoleInv
  <2> QED
    BY <2>2, <2>3, <2>4 DEF SoleInv, Passive
<1>3. CASE Handshake(b) \/ InboundLock(b) \/ InboundCheck(b)
  BY <1>3, StillSole DEF Handshake, InboundLock, InboundCheck, HGoto, TypeOK
<1>4. CASE AttachFail(b) \/ FinishAttach(b) \/ HandlerReturns(b)
  BY <1>4, StillSole DEF AttachFail, FinishAttach, HandlerReturns, HGoto, TypeOK
<1> QED
  BY <1>1, <1>2, <1>3, <1>4 DEF InboundStep

\* SoleInv is inductive.
LEMMA NextSole == TypeOK /\ HandsInv /\ LockInv /\ SoleInv /\ [Next]_vars => SoleInv'
<1> SUFFICES ASSUME TypeOK, HandsInv, LockInv, SoleInv, [Next]_vars PROVE SoleInv'
  OBVIOUS
<1> USE DEF poolVars, bornVars
<1>1. ASSUME NEW a \in Adapters, WatchStep(a) PROVE SoleInv'
  BY <1>1, StillSole DEF WatchStep, WatchFires, WatchLock, RemoveIfCurrent, WatchEnds, TakeOut
<1>2. ASSUME NEW a \in Adapters, CloseAdapter(a) \/ Drop(a) PROVE SoleInv'
  BY <1>2, StillSole DEF CloseAdapter, Drop, TypeOK
<1>3. ASSUME NEW k \in Keys, EditStep(k) \/ StopProcess(k) PROVE SoleInv'
  BY <1>3, StillSole DEF EditStep, EditBegins, EditSaves, EditRemoves, EditEnds, StopProcess, TakeOut
<1>4. CASE Reap \/ CloseAll
  BY <1>4, StillSole DEF Reap, CloseAll, TakeOut
<1>5. CASE Restart
  BY <1>5 DEF Restart, NoRequest, SoleInv
<1>6. CASE UNCHANGED vars
  BY <1>6, StillSole DEF vars
<1> QED
  BY <1>1, <1>2, <1>3, <1>4, <1>5, <1>6, CallerSole, InboundSole DEF Next

\* The empty pool.
LEMMA InitSole == Init => SoleInv
BY DEF Init, NoRequest, SoleInv

\* Of two live connections of a key that nobody is closing, each is in the pool or
\* in the hands of the one request inside the lock: they are the same.
LEMMA SoleMeansOne ==
  ASSUME TypeOK, LockInv, SoleInv, NoLeakedConnection
  PROVE  OneProcessPerKey
<1>1. SUFFICES ASSUME NEW a \in Adapters, NEW b \in Adapters, Up(a), Up(b), keyOf[a] = keyOf[b],
                      ~ Passive(keyOf[a]), a \notin closing, b \notin closing
               PROVE  a = b
  BY DEF OneProcessPerKey
<1>2. PICK k \in Keys : k = keyOf[a]
  BY DEF TypeOK
<1>3. ASSUME NEW x \in Adapters, Up(x), keyOf[x] = k, x \notin closing
      PROVE  \/ pool[k] = x
             \/ \E c \in Callers : req[c].at = "publish" /\ req[c].sess = x /\ req[c].key = k
  <2>1. hpc[x] = "none" /\ conn[x] = "up"
    BY <1>1, <1>2, <1>3 DEF SoleInv, Up
  <2>2. InPool(x) \/ \E c \in Callers : req[c].at = "publish" /\ req[c].sess = x
    BY <1>3, <2>1 DEF NoLeakedConnection
  <2> QED
    BY <1>3, <2>2, PoolNoneAssumption DEF InPool, SoleInv
<1>4. \A c \in Callers : req[c].at = "publish" /\ req[c].key = k => ~ Connected(k)
  BY DEF SoleInv
<1>5. pool[k] \in {a, b} => Connected(k)
  BY <1>1 DEF Connected
<1>6. \A c, d \in Callers : req[c].at = "publish" /\ req[d].at = "publish" /\ req[c].key = k /\ req[d].key = k => c = d
  BY DEF LockInv, CallerIn
<1> QED
  BY <1>1, <1>2, <1>3, <1>4, <1>5, <1>6

\* The inductive invariant behind the lock and the single process.
PlaceInv == TypeOK /\ HandsInv /\ MadeInv /\ LockInv /\ SoleInv /\ NoLeakedConnection

\* It holds of every behaviour.
LEMMA PlaceInvariance == SafetySpec => []PlaceInv
<1>1. Init => PlaceInv
  BY InitTypeOK, InitHands, InitLocked, InitSole DEF PlaceInv, Init, NoLeakedConnection
<1>2. PlaceInv /\ [Next]_vars => PlaceInv'
  BY NextTypeOK, NextHands, NextMade, NextLocked, NextSole, NextAccounted DEF PlaceInv
<1> QED
  BY <1>1, <1>2, PTL DEF SafetySpec

\* However many requests race for a service that is not connected, at most one
\* live connection of it exists apart from those being closed.
THEOREM OneProcessEach == SafetySpec => []OneProcessPerKey
<1>1. PlaceInv => OneProcessPerKey
  BY SoleMeansOne DEF PlaceInv
<1> QED
  BY <1>1, PlaceInvariance, PTL

-----------------------------------------------------------------------------
(* Who was let in, and what the row says of it.                             *)

AdmitInv ==
  /\ PassiveCredentialCurrent
  /\ \A a \in Adapters : hpc[a] = "publish" => status[keyOf[a]] = "enabled" /\ cred[a] = ver[keyOf[a]]

OnlineInv ==
  /\ OnlineMeansAttached
  /\ \A k \in Keys : online[k] \/ seen[k] => Passive(k)
  /\ ~ closed => \A k \in Keys : apc[k] = "save" /\ seen[k] => pool[k] # None

\* A step that lets nobody in and writes no row.
LEMMA StillAdmitted ==
  ASSUME AdmitInv, UNCHANGED <<status, ver>>,
         \A k \in Keys : Passive(k) => pool'[k] \in {pool[k], None},
         \A k \in Keys : pool[k] # None => cred'[pool[k]] = cred[pool[k]],
         \A k \in Keys : apc[k] = "remove" => apc'[k] = "remove" \/ pool'[k] = None,
         \A a \in Adapters : hpc'[a] = "publish" => hpc[a] = "publish" /\ keyOf'[a] = keyOf[a] /\ cred'[a] = cred[a]
  PROVE  AdmitInv'
<1>1. PassiveCredentialCurrent'
  BY DEF AdmitInv, PassiveCredentialCurrent, Passive
<1>2. \A a \in Adapters : hpc'[a] = "publish" => status'[keyOf'[a]] = "enabled" /\ cred'[a] = ver'[keyOf'[a]]
  BY DEF AdmitInv
<1> QED
  BY <1>1, <1>2 DEF AdmitInv

\* A request changes the pool of no passive service.
LEMMA CallerAdmits ==
  ASSUME PlaceInv, AdmitInv, NEW c \in Callers, CallerStep(c)
  PROVE  AdmitInv'
<1> USE DEF PlaceInv, bornVars, rowVars, editVars
<1>1. ASSUME NEW b \in Adapters, DialOk(c, b) PROVE AdmitInv'
  <2>1. /\ UNCHANGED <<pool, status, ver, apc, hpc>> /\ hpc[b] = "none" /\ \A k \in Keys : pool[k] # b
        /\ \A a \in Adapters \ {b} : keyOf'[a] = keyOf[a] /\ cred'[a] = cred[a]
    BY <1>1, PoolNoneAssumption DEF DialOk, HandsInv, PoolInv, PendingInv, TypeOK, poolVars
  <2>2. \A k \in Keys : pool[k] # None => cred'[pool[k]] = cred[pool[k]]
    BY <2>1 DEF TypeOK
  <2> QED
    BY <2>1, <2>2, StillAdmitted
<1>2. CASE Publish(c)
  <2>1. PICK k \in Keys : k = req[c].key
    BY DEF TypeOK, Requests
  <2>2. ~ Passive(k) /\ \A j \in Keys \ {k} : pool'[j] = pool[j]
    BY <1>2, <2>1 DEF Publish, SwapIn, TypeOK, SoleInv
  <2> QED
    BY <1>2, <2>2, StillAdmitted DEF Publish
<1>3. ASSUME UNCHANGED <<pool, keyOf, cred, status, ver, apc, hpc>> PROVE AdmitInv'
  BY <1>3, StillAdmitted
<1>4. ASSUME NEW k \in Keys, Request(c, k) PROVE AdmitInv'
  BY <1>3, <1>4 DEF Request, poolVars
<1>5. CASE Find(c) \/ LockKey(c) \/ Recheck(c) \/ DialFail(c)
  BY <1>3, <1>5 DEF Find, LockKey, Recheck, DialFail, poolVars
<1>6. CASE PublishRefused(c) \/ FinishPublish(c)
  BY <1>3, <1>6 DEF PublishRefused, FinishPublish, poolVars
<1>7. CASE Lease(c) \/ LeaseRefused(c) \/ Release(c)
  BY <1>3, <1>7 DEF Lease, LeaseRefused, Release, poolVars
<1> QED
  BY <1>1, <1>2, <1>4, <1>5, <1>6, <1>7 DEF CallerStep

\* A socket is attached with the credential that was looked at again under the lock.
LEMMA InboundAdmits ==
  ASSUME PlaceInv, AdmitInv, NEW b \in Adapters, InboundStep(b)
  PROVE  AdmitInv'
<1> USE DEF PlaceInv, bornVars, rowVars, editVars
<1>1. ASSUME NEW k \in Keys, Accept(b, k) PROVE AdmitInv'
  <2>1. /\ UNCHANGED <<pool, status, ver, apc>> /\ hpc'[b] = "handshake" /\ \A j \in Keys : pool[j] # b
        /\ \A a \in Adapters \ {b} : keyOf'[a] = keyOf[a] /\ cred'[a] = cred[a] /\ hpc'[a] = hpc[a]
    BY <1>1, PoolNoneAssumption DEF Accept, HGoto, HandsInv, PoolInv, TypeOK, poolVars
  <2>2. \A j \in Keys : pool[j] # None => cred'[pool[j]] = cred[pool[j]]
    BY <2>1 DEF TypeOK
  <2> QED
    BY <2>1, <2>2, StillAdmitted
<1>2. CASE InboundCheck(b)
  <2>1. /\ UNCHANGED <<pool, status, ver, apc, keyOf, cred>> /\ \A a \in Adapters \ {b} : hpc'[a] = hpc[a]
        /\ hpc'[b] = "publish" => status[keyOf[b]] = "enabled" /\ cred[b] = ver[keyOf[b]]
    BY <1>2 DEF InboundCheck, HGoto, TypeOK, poolVars
  <2>2. PassiveCredentialCurrent'
    BY <2>1 DEF AdmitInv, PassiveCredentialCurrent
  <2> QED
    BY <2>1, <2>2 DEF AdmitInv
<1>3. CASE Attach(b)
  <2>1. PICK k \in Keys : k = keyOf[b]
    BY DEF TypeOK
  <2>2. /\ pool'[k] = b /\ \A j \in Keys \ {k} : pool'[j] = pool[j]
        /\ UNCHANGED <<status, ver, apc, keyOf, cred>> /\ \A a \in Adapters \ {b} : hpc'[a] = hpc[a]
        /\ status[k] = "enabled" /\ cred[b] = ver[k] /\ hpc'[b] = "closeOld"
    BY <1>3, <2>1 DEF Attach, SwapIn, HGoto, TypeOK, AdmitInv
  <2>3. PassiveCredentialCurrent'
    BY <2>2 DEF AdmitInv, PassiveCredentialCurrent
  <2> QED
    BY <2>2, <2>3 DEF AdmitInv
<1>4. ASSUME UNCHANGED <<pool, keyOf, cred, status, ver, apc>>,
             \A a \in Adapters : hpc'[a] = "publish" => hpc[a] = "publish"
      PROVE AdmitInv'
  BY <1>4, StillAdmitted
<1>5. CASE Handshake(b) \/ InboundLock(b) \/ AttachFail(b)
  BY <1>4, <1>5 DEF Handshake, InboundLock, AttachFail, HGoto, poolVars, TypeOK
<1>6. CASE FinishAttach(b) \/ HandlerReturns(b)
  BY <1>4, <1>6 DEF FinishAttach, HandlerReturns, HGoto, poolVars, TypeOK
<1> QED
  BY <1>1, <1>2, <1>3, <1>5, <1>6 DEF InboundStep

\* An edit holds the lock from the row it writes to the session it removes.
LEMMA EditAdmits ==
  ASSUME PlaceInv, AdmitInv, NEW k \in Keys, EditStep(k)
  PROVE  AdmitInv'
<1> USE DEF PlaceInv, bornVars, rowVars, poolVars, TypeOK
<1>1. CASE EditBegins(k)
  BY <1>1, StillAdmitted DEF EditBegins, AGoto
<1>2. CASE EditSaves(k)
  <2>1. /\ apc[k] = "save" /\ UNCHANGED <<pool, keyOf, cred, hpc>>
        /\ apc'[k] \in {"remove", "idle"} /\ \A j \in Keys \ {k} : apc'[j] = apc[j]
        /\ \A j \in Keys \ {k} : status'[j] = status[j] /\ ver'[j] = ver[j]
        /\ apc'[k] = "idle" => status'[k] = "enabled" /\ ver'[k] = ver[k]
    BY <1>2 DEF EditSaves, ChangeRow, SwitchRow, DeleteRow, AGoto
  <2>2. Passive(k) => \A a \in Adapters : hpc[a] = "publish" => keyOf[a] # k
    BY <2>1 DEF LockInv, EditInside, LockedEdit, Passive, InboundIn
  <2>3. \A a \in Adapters : hpc[a] = "publish" => keyOf[a] # k
    BY <2>2 DEF SoleInv
  <2>4. PassiveCredentialCurrent'
    BY <2>1 DEF AdmitInv, PassiveCredentialCurrent
  <2> QED
    BY <2>1, <2>3, <2>4 DEF AdmitInv
<1>3. CASE EditRemoves(k)
  BY <1>3, StillAdmitted DEF EditRemoves, TakeOut, AGoto
<1>4. CASE EditEnds(k)
  BY <1>4, StillAdmitted DEF EditEnds, AGoto
<1> QED
  BY <1>1, <1>2, <1>3, <1>4 DEF EditStep

\* AdmitInv is inductive.
LEMMA NextAdmits == PlaceInv /\ AdmitInv /\ [Next]_vars => AdmitInv'
<1> SUFFICES ASSUME PlaceInv, AdmitInv, [Next]_vars PROVE AdmitInv'
  OBVIOUS
<1> USE DEF poolVars, bornVars, rowVars, editVars
<1>1. ASSUME NEW a \in Adapters, WatchStep(a) PROVE AdmitInv'
  BY <1>1, StillAdmitted DEF WatchStep, WatchFires, WatchLock, RemoveIfCurrent, WatchEnds, TakeOut
<1>2. ASSUME NEW a \in Adapters, CloseAdapter(a) \/ Drop(a) PROVE AdmitInv'
  BY <1>2, StillAdmitted DEF CloseAdapter, Drop
<1>3. ASSUME NEW k \in Keys, StopProcess(k) PROVE AdmitInv'
  BY <1>3, StillAdmitted DEF StopProcess, TakeOut
<1>4. CASE Reap \/ CloseAll
  BY <1>4, StillAdmitted DEF Reap, CloseAll, TakeOut
<1>5. CASE Restart
  BY <1>5 DEF Restart, AdmitInv, PassiveCredentialCurrent
<1>6. CASE UNCHANGED vars
  BY <1>6, StillAdmitted DEF vars
<1> QED
  BY <1>1, <1>2, <1>3, <1>4, <1>5, <1>6, CallerAdmits, InboundAdmits, EditAdmits DEF Next

\* A step that writes no flag and takes no session out.
LEMMA StillOnline ==
  ASSUME OnlineInv, UNCHANGED <<closed, online, seen>>,
         \A k \in Keys : pool'[k] = None => pool[k] = None,
         \A k \in Keys : apc'[k] = "save" => apc[k] = "save"
  PROVE  OnlineInv'
BY DEF OnlineInv, OnlineMeansAttached, Passive

\* Taking sessions out clears the flag in the same critical section; the session
\* of an edit that has yet to write the flag it read stays, its lock being held.
LEMMA TakeOutOnline ==
  ASSUME TypeOK, OnlineInv, NEW K \in SUBSET Keys, TakeOut(K), UNCHANGED seen,
         closed' \/ ~ closed,
         \A k \in Keys : apc'[k] = "save" => apc[k] = "save",
         closed' \/ \A k \in K : Passive(k) => apc'[k] # "save"
  PROVE  OnlineInv'
<1>1. \A k \in Keys : /\ pool'[k] = IF k \in K THEN None ELSE pool[k]
                      /\ online'[k] = (online[k] /\ ~ (k \in K /\ Passive(k) /\ pool[k] # None))
  BY DEF TakeOut
<1>2. \A k \in Keys : online'[k] \/ seen'[k] => Passive(k)
  BY <1>1 DEF OnlineInv
<1>3. ASSUME ~ closed', NEW k \in Keys, online'[k] PROVE pool'[k] # None
  BY <1>1, <1>3 DEF OnlineInv, OnlineMeansAttached
<1>4. ASSUME ~ closed', NEW k \in Keys, apc'[k] = "save", seen'[k] PROVE pool'[k] # None
  BY <1>1, <1>4 DEF OnlineInv
<1> QED
  BY <1>2, <1>3, <1>4 DEF OnlineInv, OnlineMeansAttached, Passive

\* OnlineInv is inductive.
LEMMA NextOnline == PlaceInv /\ OnlineInv /\ [Next]_vars => OnlineInv'
<1> SUFFICES ASSUME PlaceInv, OnlineInv, [Next]_vars PROVE OnlineInv'
  OBVIOUS
<1> USE PoolNoneAssumption DEF poolVars, editVars, PlaceInv
<1>1. ASSUME NEW c \in Callers, CallerStep(c) PROVE OnlineInv'
  <2>1. CASE Publish(c)
    <3>1. /\ UNCHANGED <<closed, online, seen, apc>> /\ req[c].sess # None
          /\ \A k \in Keys : pool'[k] \in {pool[k], req[c].sess}
      BY <2>1 DEF Publish, SwapIn, TypeOK, HandsInv, PendingInv
    <3> QED
      BY <3>1, StillOnline
  <2>2. ASSUME UNCHANGED <<pool, closed, online, seen, apc>> PROVE OnlineInv'
    BY <2>2, StillOnline
  <2>3. CASE \/ (\E k \in Keys : Request(c, k)) \/ Find(c) \/ LockKey(c) \/ Recheck(c)
             \/ (\E a \in Adapters : DialOk(c, a)) \/ DialFail(c)
    BY <2>2, <2>3 DEF Request, Find, LockKey, Recheck, DialOk, DialFail
  <2>4. CASE PublishRefused(c) \/ FinishPublish(c) \/ Lease(c) \/ LeaseRefused(c) \/ Release(c)
    BY <2>2, <2>4 DEF PublishRefused, FinishPublish, Lease, LeaseRefused, Release
  <2> QED
    BY <1>1, <2>1, <2>3, <2>4 DEF CallerStep
<1>2. ASSUME NEW b \in Adapters, InboundStep(b) PROVE OnlineInv'
  <2>1. CASE Attach(b)
    <3>1. PICK k \in Keys : k = keyOf[b]
      BY DEF TypeOK
    <3>2. /\ pool'[k] = b /\ online'[k] = TRUE /\ \A j \in Keys \ {k} : pool'[j] = pool[j] /\ online'[j] = online[j]
          /\ UNCHANGED <<closed, seen, apc>> /\ Passive(k) /\ b # None
      BY <2>1, <3>1 DEF Attach, SwapIn, TypeOK, SoleInv
    <3> QED
      BY <3>2 DEF OnlineInv, OnlineMeansAttached, Passive
  <2>2. ASSUME UNCHANGED <<pool, closed, online, seen, apc>> PROVE OnlineInv'
    BY <2>2, StillOnline
  <2>3. CASE (\E k \in Keys : Accept(b, k)) \/ Handshake(b) \/ InboundLock(b) \/ InboundCheck(b)
    BY <2>2, <2>3 DEF Accept, Handshake, InboundLock, InboundCheck
  <2>4. CASE AttachFail(b) \/ FinishAttach(b) \/ HandlerReturns(b)
    BY <2>2, <2>4 DEF AttachFail, FinishAttach, HandlerReturns
  <2> QED
    BY <1>2, <2>1, <2>3, <2>4 DEF InboundStep
<1>3. ASSUME NEW a \in Adapters, WatchStep(a) PROVE OnlineInv'
  <2>1. CASE RemoveIfCurrent(a) /\ pool[keyOf[a]] = a
    <3>1. PICK k \in Keys : k = keyOf[a]
      BY DEF TypeOK
    <3>2. TakeOut({k}) /\ UNCHANGED <<closed, seen, apc>> /\ wpc[a] = "remove"
      BY <2>1, <3>1 DEF RemoveIfCurrent
    <3>3. Passive(k) => apc[k] # "save"
      BY <3>1, <3>2 DEF LockInv, WatcherIn, EditInside, LockedEdit, Passive
    <3> QED
      BY <3>2, <3>3, TakeOutOnline
  <2>2. CASE WatchFires(a) \/ WatchLock(a) \/ WatchEnds(a) \/ (RemoveIfCurrent(a) /\ pool[keyOf[a]] # a)
    BY <2>2, StillOnline DEF WatchFires, WatchLock, RemoveIfCurrent, WatchEnds
  <2> QED
    BY <1>3, <2>1, <2>2 DEF WatchStep
<1>4. ASSUME NEW a \in Adapters, CloseAdapter(a) \/ Drop(a) PROVE OnlineInv'
  BY <1>4, StillOnline DEF CloseAdapter, Drop
<1>5. ASSUME NEW k \in Keys, EditStep(k) PROVE OnlineInv'
  <2>1. CASE EditBegins(k)
    <3>1. /\ seen'[k] = online[k] /\ \A j \in Keys \ {k} : seen'[j] = seen[j] /\ apc'[j] = apc[j]
          /\ UNCHANGED <<pool, closed, online>>
      BY <2>1 DEF EditBegins, AGoto, TypeOK
    <3> QED
      BY <3>1 DEF OnlineInv, OnlineMeansAttached, Passive
  <2>2. CASE EditSaves(k)
    <3>1. /\ apc[k] = "save" /\ apc'[k] # "save" /\ \A j \in Keys \ {k} : online'[j] = online[j] /\ apc'[j] = apc[j]
          /\ UNCHANGED <<pool, closed, seen>> /\ (online'[k] => seen[k])
      BY <2>2 DEF EditSaves, ChangeRow, SwitchRow, DeleteRow, AGoto, TypeOK
    <3> QED
      BY <3>1 DEF OnlineInv, OnlineMeansAttached, Passive
  <2>3. CASE EditRemoves(k)
    <3>1. TakeOut({k}) /\ UNCHANGED <<closed, seen>> /\ apc'[k] # "save" /\ \A j \in Keys \ {k} : apc'[j] = apc[j]
      BY <2>3 DEF EditRemoves, AGoto, TypeOK
    <3> QED
      BY <3>1, TakeOutOnline
  <2>4. CASE EditEnds(k)
    BY <2>4, StillOnline DEF EditEnds, AGoto, TypeOK
  <2> QED
    BY <1>5, <2>1, <2>2, <2>3, <2>4 DEF EditStep
<1>6. ASSUME NEW k \in Keys, StopProcess(k) PROVE OnlineInv'
  BY <1>6, TakeOutOnline DEF StopProcess
<1>7. CASE Reap
  <2>1. PICK K \in SUBSET {k \in Keys : Idle(k)} : TakeOut(K) /\ UNCHANGED <<closed, apc, seen>>
    BY <1>7 DEF Reap
  <2>2. \A k \in K : ~ Passive(k)
    BY DEF Idle, Reapable, Passive
  <2> QED
    BY <2>1, <2>2, TakeOutOnline
<1>8. CASE CloseAll
  BY <1>8, TakeOutOnline DEF CloseAll
<1>9. CASE Restart
  BY <1>9 DEF Restart, OnlineInv, OnlineMeansAttached
<1>10. CASE UNCHANGED vars
  BY <1>10, StillOnline DEF vars
<1> QED
  BY <1>1, <1>2, <1>3, <1>4, <1>5, <1>6, <1>7, <1>8, <1>9, <1>10 DEF Next

\* However tokens are replaced and services switched off while local servers dial
\* in, a passive session in the pool was let in by what its row says now, unless
\* the edit that changed it is about to remove it.
THEOREM AdmittedByRow == SafetySpec => []PassiveCredentialCurrent
<1>1. Init => AdmitInv
  BY DEF Init, AdmitInv, PassiveCredentialCurrent
<1>2. AdmitInv => PassiveCredentialCurrent
  BY DEF AdmitInv
<1> QED
  BY <1>1, <1>2, PlaceInvariance, NextAdmits, PTL DEF SafetySpec

\* While the server runs, the row of a service says connected only if the pool has
\* a session for it, although edits write back flags they have read before.
THEOREM OnlineTrue == SafetySpec => []OnlineMeansAttached
<1>1. Init => OnlineInv
  BY DEF Init, OnlineInv, OnlineMeansAttached
<1>2. OnlineInv => OnlineMeansAttached
  BY DEF OnlineInv
<1> QED
  BY <1>1, <1>2, PlaceInvariance, NextOnline, PTL DEF SafetySpec
===============================================================================
