-------------------------- MODULE GatewayCallsProofs --------------------------
(***************************************************************************)
(* Machine-checked proofs about the requests of the gateway, for any       *)
(* number of requests, ids and parts, and about the lock under which the   *)
(* session a request needs is connected (KeyedMutex), for any number of    *)
(* goroutines, keys and mutex objects.                                     *)
(***************************************************************************)
EXTENDS KeyedMutex, GatewayCalls, FiniteSetTheorems, TLAPS

-----------------------------------------------------------------------------
(* The lock of a key.                                                        *)

\* Who refers to which mutex, stated per goroutine.
RefsInv ==
  /\ \A p \in Procs : pc[p] = "idle" <=> km[p] = None
  /\ \A p \in Procs : pc[p] \in {"locking", "held"} => connectLocks[key[p]] = km[p]
  /\ \A p \in Procs : pc[p] \in {"held", "unlocking"} => owner[km[p]] = p

\* The map is injective, and the counts are exact and never zero in the map.
MapInv ==
  /\ \A j, k \in Keys : connectLocks[j] = connectLocks[k] /\ connectLocks[j] # None => j = k
  /\ \A m \in Mutexes : ref[m] = Cardinality(Users(m))
  /\ \A k \in Keys :
       connectLocks[k] # None =>
         \E p \in Procs : pc[p] \in {"locking", "held"} /\ km[p] = connectLocks[k]

IInv == TypeOK /\ RefsInv /\ MapInv

-----------------------------------------------------------------------------
\* The users of a mutex are a finite set, so their number can be counted.
LEMMA UsersFinite ==
  ASSUME NEW m
  PROVE  IsFiniteSet(Users(m))
<1>1. Users(m) \in SUBSET Procs
  BY DEF Users
<1> QED
  BY <1>1, FiniteProcsAssumption, FS_Subset

\* Every mutex a goroutine refers to is a mutex.
LEMMA KmIsMutex ==
  ASSUME TypeOK, RefsInv, NEW p \in Procs, pc[p] # "idle"
  PROVE  km[p] \in Mutexes
BY DEF TypeOK, RefsInv

\* The invariant holds of an empty map of connect locks.
LEMMA InitIInv == Init => IInv
<1> SUFFICES ASSUME Init PROVE IInv
  OBVIOUS
<1>1. TypeOK
  BY DEF Init, TypeOK
<1>2. RefsInv
  BY DEF Init, RefsInv
<1>3. \A m \in Mutexes : Users(m) = {}
  BY DEF Init, Users
<1>4. MapInv
  BY <1>3, FS_EmptySet DEF Init, MapInv
<1> QED
  BY <1>1, <1>2, <1>4 DEF IInv

\* Type correctness is preserved by every step of an inductive state.
LEMMA NextTypeOK == IInv /\ [Next]_vars => TypeOK'
<1> SUFFICES ASSUME IInv, [Next]_vars PROVE TypeOK'
  OBVIOUS
<1> USE NoneAssumption DEF TypeOK
<1>1. ASSUME NEW p \in Procs, NEW k \in Keys, TakeRef(p, k) PROVE TypeOK'
  BY <1>1 DEF IInv, TakeRef, Create, Join
<1>2. ASSUME NEW p \in Procs, Lock(p) PROVE TypeOK'
  BY <1>2 DEF IInv, Lock
<1>3. ASSUME NEW p \in Procs, DropRef(p) PROVE TypeOK'
  <2>1. km[p] \in Mutexes
    BY <1>3, KmIsMutex DEF IInv, DropRef
  <2>2. p \in Users(km[p])
    BY <1>3 DEF DropRef, Users
  <2>3. Cardinality(Users(km[p])) \in Nat /\ Cardinality(Users(km[p])) # 0
    BY <2>2, UsersFinite, FS_CardinalityType, FS_EmptySet
  <2>4. ref[km[p]] - 1 \in Nat
    BY <2>1, <2>3 DEF IInv, MapInv
  <2> QED
    BY <1>3, <2>1, <2>4 DEF IInv, DropRef
<1>4. ASSUME NEW p \in Procs, Unlock(p) PROVE TypeOK'
  BY <1>4 DEF IInv, Unlock
<1>5. CASE UNCHANGED vars
  BY <1>5 DEF IInv, vars
<1> QED
  BY <1>1, <1>2, <1>3, <1>4, <1>5 DEF Next

-----------------------------------------------------------------------------
(* One lemma per action: it keeps who-refers-to-what and the counts.        *)

\* lockConnect, first half: joining an entry or making one keeps the invariant.
LEMMA TakeRefKeeps ==
  ASSUME IInv, TypeOK', NEW p \in Procs, NEW k \in Keys, TakeRef(p, k)
  PROVE  RefsInv' /\ MapInv'
<1> USE NoneAssumption
<1> PICK m \in Mutexes :
      /\ IF connectLocks[k] = None
           THEN /\ Fresh(m)
                /\ connectLocks' = [connectLocks EXCEPT ![k] = m]
                /\ ref' = [ref EXCEPT ![m] = 1]
                /\ owner' = [owner EXCEPT ![m] = None]
           ELSE /\ m = connectLocks[k]
                /\ ref' = [ref EXCEPT ![m] = @ + 1]
                /\ UNCHANGED <<connectLocks, owner>>
      /\ km' = [km EXCEPT ![p] = m]
  BY DEF TakeRef, Create, Join
<1>1. /\ pc[p] = "idle"
      /\ pc' = [pc EXCEPT ![p] = "locking"]
      /\ key' = [key EXCEPT ![p] = k]
  BY DEF TakeRef, Create, Join
<1>2. Users(m)' = Users(m) \cup {p}
  BY <1>1 DEF Users, IInv, TypeOK
<1>3. \A x \in Mutexes : x # m => Users(x)' = Users(x)
  BY <1>1 DEF Users, IInv, TypeOK
<1>4. p \notin Users(m)
  BY <1>1 DEF Users
<1>5. Cardinality(Users(m)') = Cardinality(Users(m)) + 1
  BY <1>2, <1>4, UsersFinite, FS_AddElement
<1>6. RefsInv'
  <2>1. CASE connectLocks[k] = None
    BY <1>1, <2>1 DEF IInv, TypeOK, RefsInv, Fresh
  <2>2. CASE connectLocks[k] # None
    BY <1>1, <2>2 DEF IInv, TypeOK, RefsInv
  <2> QED
    BY <2>1, <2>2
<1>7. \A x \in Mutexes : ref'[x] = Cardinality(Users(x)')
  <2>1. CASE connectLocks[k] = None
    <3>1. Users(m) = {}
      BY <2>1 DEF Users, Fresh
    <3>2. Cardinality(Users(m)') = 1
      BY <3>1, <1>5, FS_EmptySet
    <3> QED
      BY <2>1, <3>2, <1>3 DEF IInv, TypeOK, MapInv
  <2>2. CASE connectLocks[k] # None
    <3>1. ref[m] = Cardinality(Users(m))
      BY DEF IInv, MapInv
    <3>2. ref'[m] = Cardinality(Users(m)')
      BY <2>2, <3>1, <1>5 DEF IInv, TypeOK
    <3>3. \A x \in Mutexes : x # m => ref'[x] = ref[x]
      BY <2>2 DEF IInv, TypeOK
    <3> QED
      BY <3>2, <3>3, <1>3 DEF IInv, MapInv
  <2> QED
    BY <2>1, <2>2
<1>8. \A i, j \in Keys : connectLocks'[i] = connectLocks'[j] /\ connectLocks'[i] # None => i = j
  BY DEF IInv, TypeOK, MapInv, Fresh
<1>9. \A j \in Keys :
        connectLocks'[j] # None =>
          \E q \in Procs : pc'[q] \in {"locking", "held"} /\ km'[q] = connectLocks'[j]
  <2> SUFFICES ASSUME NEW j \in Keys, connectLocks'[j] # None
               PROVE  \E q \in Procs : pc'[q] \in {"locking", "held"} /\ km'[q] = connectLocks'[j]
    OBVIOUS
  <2>1. CASE connectLocks'[j] = m
    BY <2>1, <1>1 DEF IInv, TypeOK
  <2>2. CASE connectLocks'[j] # m
    <3>1. connectLocks'[j] = connectLocks[j]
      BY <2>2 DEF IInv, TypeOK
    <3>2. PICK q \in Procs : pc[q] \in {"locking", "held"} /\ km[q] = connectLocks[j]
      BY <3>1 DEF IInv, MapInv
    <3>3. q # p
      BY <3>2, <1>1
    <3> QED
      BY <3>1, <3>2, <3>3, <1>1 DEF IInv, TypeOK
  <2> QED
    BY <2>1, <2>2
<1> QED
  BY <1>6, <1>7, <1>8, <1>9 DEF MapInv

\* lockConnect, second half: entering a free mutex keeps it.
LEMMA LockKeeps ==
  ASSUME IInv, TypeOK', NEW p \in Procs, Lock(p)
  PROVE  RefsInv' /\ MapInv'
<1> USE NoneAssumption
<1>1. km[p] \in Mutexes
  BY KmIsMutex DEF IInv, Lock
<1>2. \A x : Users(x)' = Users(x)
  BY DEF Lock, Users, IInv, TypeOK
<1>3. RefsInv'
  BY <1>1 DEF Lock, IInv, TypeOK, RefsInv
<1>4. MapInv'
  BY <1>2 DEF Lock, IInv, MapInv
<1> QED
  BY <1>3, <1>4

\* unlockConnect, first half: dropping the reference, and the entry with the last one, keeps it.
LEMMA DropRefKeeps ==
  ASSUME IInv, TypeOK', NEW p \in Procs, DropRef(p)
  PROVE  RefsInv' /\ MapInv'
<1> USE NoneAssumption
<1> PICK m : m = km[p]
  OBVIOUS
<1>1. m \in Mutexes /\ connectLocks[key[p]] = m
  BY KmIsMutex DEF IInv, DropRef, RefsInv
<1>2. Users(m)' = Users(m) \ {p}
  BY DEF DropRef, Users, IInv, TypeOK
<1>3. \A x \in Mutexes : x # m => Users(x)' = Users(x)
  BY DEF DropRef, Users, IInv, TypeOK
<1>4. p \in Users(m)
  BY DEF DropRef, Users
<1>5. Cardinality(Users(m)') = Cardinality(Users(m)) - 1
  BY <1>2, <1>4, UsersFinite, FS_RemoveElement
<1>6. ref'[m] = Cardinality(Users(m)')
  BY <1>1, <1>5 DEF DropRef, IInv, TypeOK, MapInv
<1>7. ref'[m] = 0 <=> Users(m)' = {}
  <2>1. IsFiniteSet(Users(m)')
    BY <1>2, UsersFinite, FS_RemoveElement
  <2> QED
    BY <1>6, <2>1, FS_EmptySet
<1>8. RefsInv'
  <2>1. \A q \in Procs : pc'[q] \in {"locking", "held"} => connectLocks'[key'[q]] = km'[q]
    <3> SUFFICES ASSUME NEW q \in Procs, pc'[q] \in {"locking", "held"}
                 PROVE  connectLocks'[key'[q]] = km'[q]
      OBVIOUS
    <3>1. q # p /\ pc[q] \in {"locking", "held"}
      BY DEF DropRef, IInv, TypeOK
    <3>2. connectLocks[key[q]] = km[q] /\ km'[q] = km[q] /\ key'[q] = key[q]
      BY <3>1 DEF DropRef, IInv, RefsInv
    <3>3. CASE key[q] = key[p]
      <4>1. q \in Users(m)'
        BY <3>1, <3>2, <3>3, <1>1, <1>2 DEF Users
      <4> QED
        BY <4>1, <1>7, <3>2 DEF DropRef
    <3>4. CASE key[q] # key[p]
      BY <3>2, <3>4 DEF DropRef, IInv, TypeOK
    <3> QED
      BY <3>3, <3>4
  <2>2. \A q \in Procs : pc'[q] \in {"held", "unlocking"} => owner'[km'[q]] = q
    BY DEF DropRef, IInv, TypeOK, RefsInv
  <2>3. \A q \in Procs : pc'[q] = "idle" <=> km'[q] = None
    BY DEF DropRef, IInv, TypeOK, RefsInv
  <2> QED
    BY <2>1, <2>2, <2>3 DEF RefsInv
<1>9. \A x \in Mutexes : ref'[x] = Cardinality(Users(x)')
  <2>1. \A x \in Mutexes : x # m => ref'[x] = ref[x]
    BY DEF DropRef, IInv, TypeOK
  <2> QED
    BY <2>1, <1>3, <1>6 DEF IInv, MapInv
<1>10. \A i, j \in Keys : connectLocks'[i] = connectLocks'[j] /\ connectLocks'[i] # None => i = j
  BY DEF DropRef, IInv, TypeOK, MapInv
<1>11. \A j \in Keys :
         connectLocks'[j] # None =>
           \E q \in Procs : pc'[q] \in {"locking", "held"} /\ km'[q] = connectLocks'[j]
  <2> SUFFICES ASSUME NEW j \in Keys, connectLocks'[j] # None
               PROVE  \E q \in Procs : pc'[q] \in {"locking", "held"} /\ km'[q] = connectLocks'[j]
    OBVIOUS
  <2>1. connectLocks'[j] = connectLocks[j]
    BY DEF DropRef, IInv, TypeOK
  <2>2. CASE connectLocks[j] = m
    <3>1. j = key[p]
      BY <2>1, <2>2, <1>1 DEF IInv, MapInv, TypeOK
    <3>2. ref'[m] # 0
      BY <3>1, <2>1 DEF DropRef, IInv, TypeOK
    <3>3. PICK q : q \in Users(m)'
      BY <3>2, <1>7
    <3> QED
      BY <3>3, <2>1, <2>2 DEF Users, DropRef
  <2>3. CASE connectLocks[j] # m
    <3>1. PICK q \in Procs : pc[q] \in {"locking", "held"} /\ km[q] = connectLocks[j]
      BY <2>1 DEF IInv, MapInv
    <3> QED
      BY <3>1, <2>1, <2>3 DEF DropRef, IInv, TypeOK
  <2> QED
    BY <2>2, <2>3
<1> QED
  BY <1>8, <1>9, <1>10, <1>11 DEF MapInv

\* unlockConnect, second half: unlocking the mutex keeps it.
LEMMA UnlockKeeps ==
  ASSUME IInv, TypeOK', NEW p \in Procs, Unlock(p)
  PROVE  RefsInv' /\ MapInv'
<1> USE NoneAssumption
<1>1. km[p] \in Mutexes
  BY KmIsMutex DEF IInv, Unlock
<1>2. \A x : Users(x)' = Users(x)
  BY DEF Unlock, Users, IInv, TypeOK
<1>3. RefsInv'
  BY <1>1 DEF Unlock, IInv, TypeOK, RefsInv
<1>4. MapInv'
  BY <1>2 DEF Unlock, IInv, MapInv
<1> QED
  BY <1>3, <1>4

\* The invariant is inductive.
LEMMA NextIInv == IInv /\ [Next]_vars => IInv'
<1> SUFFICES ASSUME IInv, [Next]_vars PROVE IInv'
  OBVIOUS
<1>1. TypeOK'
  BY NextTypeOK
<1>2. CASE Next
  BY <1>1, <1>2, TakeRefKeeps, LockKeeps, DropRefKeeps, UnlockKeeps DEF Next, IInv
<1>3. CASE UNCHANGED vars
  BY <1>1, <1>3 DEF vars, IInv, RefsInv, MapInv, Users
<1> QED
  BY <1>2, <1>3

-----------------------------------------------------------------------------
\* The inductive invariant holds in every reachable state.
THEOREM Invariance == SafetySpec => []IInv
<1> QED
  BY InitIInv, NextIInv, PTL DEF SafetySpec

\* The per-key lock really excludes: two goroutines never run the critical
\* section of one session key together, however lockConnect and unlockConnect
\* interleave with the dropping of the map entry.
THEOREM MutexSafe == SafetySpec => []MutualExclusion
<1>1. IInv => MutualExclusion
  BY DEF IInv, RefsInv, MutualExclusion
<1> QED
  BY <1>1, Invariance, PTL

\* connectLocks never keeps an entry nobody uses and never lacks one somebody
\* uses (lockConnect's comment on unbounded growth).
THEOREM EntriesExact == SafetySpec => []EntriesInUse
<1>1. IInv => EntriesInUse
  <2> SUFFICES ASSUME IInv, NEW k \in Keys
               PROVE  connectLocks[k] # None <=>
                        \E p \in Procs : pc[p] \in {"locking", "held"} /\ key[p] = k
    BY DEF EntriesInUse
  <2>1. ASSUME connectLocks[k] # None
        PROVE  \E p \in Procs : pc[p] \in {"locking", "held"} /\ key[p] = k
    <3>1. PICK p \in Procs : pc[p] \in {"locking", "held"} /\ km[p] = connectLocks[k]
      BY <2>1 DEF IInv, MapInv, Users
    <3>2. key[p] = k
      BY <2>1, <3>1 DEF IInv, TypeOK, RefsInv, MapInv
    <3> QED
      BY <3>1, <3>2
  <2>2. ASSUME NEW p \in Procs, pc[p] \in {"locking", "held"}, key[p] = k
        PROVE  connectLocks[k] # None
    BY <2>2, KmIsMutex, NoneAssumption DEF IInv, RefsInv
  <2> QED
    BY <2>1, <2>2
<1> QED
  BY <1>1, Invariance, PTL

\* Every behaviour of the reference-counted lock is one of the abstract lock:
\* the safety half of ImplementsKeyedLock.
THEOREM RefinesKeyedLock == SafetySpec => Abstract!SafetySpec
<1> USE DEF Abstract!vars
<1>1. Init => Abstract!Init
  BY DEF Init, Abstract!Init
<1>2. IInv /\ IInv' /\ [Next]_vars => [Abstract!Next]_(Abstract!vars)
  <2> SUFFICES ASSUME IInv, IInv', [Next]_vars PROVE [Abstract!Next]_(Abstract!vars)
    OBVIOUS
  <2>1. ASSUME NEW p \in Procs, NEW k \in Keys, TakeRef(p, k) PROVE Abstract!Request(p, k)
    BY <2>1 DEF TakeRef, Create, Join, Abstract!Request, IInv, TypeOK
  <2>2. ASSUME NEW p \in Procs, Lock(p) PROVE Abstract!Enter(p)
    <3>1. \A q \in Procs : ~ (pc[q] = "held" /\ key[q] = key[p])
      <4> SUFFICES ASSUME NEW q \in Procs, pc[q] = "held", key[q] = key[p] PROVE FALSE
        OBVIOUS
      <4>1. km[q] = km[p] /\ owner[km[q]] = q
        BY <2>2 DEF Lock, IInv, RefsInv
      <4> QED
        BY <4>1, <2>2, NoneAssumption DEF Lock
    <3>2. Abstract!Holders(key[p]) = {}
      BY <3>1 DEF Abstract!Holders
    <3> QED
      BY <2>2, <3>2 DEF Lock, Abstract!Enter, IInv, TypeOK
  <2>3. ASSUME NEW p \in Procs, DropRef(p) PROVE Abstract!Leave(p)
    BY <2>3 DEF DropRef, Abstract!Leave, IInv, TypeOK
  <2>4. ASSUME NEW p \in Procs, Unlock(p) PROVE UNCHANGED Abstract!vars
    BY <2>4 DEF Unlock, IInv, TypeOK
  <2>5. ASSUME UNCHANGED vars PROVE UNCHANGED Abstract!vars
    BY <2>5 DEF vars
  <2> QED
    BY <2>1, <2>2, <2>3, <2>4, <2>5 DEF Next, Abstract!Next
<1> QED
  BY <1>1, <1>2, Invariance, PTL DEF SafetySpec, Abstract!SafetySpec

-----------------------------------------------------------------------------
(* The requests of the gateway.                                              *)

Stages == {"none", "wait", "scope", "route", "lease", "check", "price", "call", "settle", "done"}
Holds == {"none", "free", "pending", "charged", "refunded"}
Results == {"none", "ok", "failed"}

\* Why an entry may be called.
Allowed(q) ==
  \/ "on" \in seen[q]
  \/ dbFails /\ "entryOff" \in seen[q]
  \/ method[q] = "read" /\ {"entryOff", "off"} \subseteq seen[q]

\* What a stage of a part, its lease, its hold and its result say of each other
\* and of the request.
PartFine(q, a, l, h, r) ==
  /\ l => a \in {"check", "price", "call", "settle"}
  /\ h = "pending" => a \in {"call", "settle"}
  /\ a \notin {"none", "done"} => phase[q] = "run"
  /\ a \notin {"settle", "done"} => r = "none"
  /\ a = "wait" => method[q] \in {"batch", "list", "rank"}
  /\ phase[q] \in {"none", "task", "registered"} => a = "none" /\ r = "none"
  /\ a \in {"price", "call", "settle"} /\ method[q] \in CallMethods => Allowed(q)
  /\ a \in {"route", "lease", "check"} /\ method[q] = "read" =>
       "on" \in seen[q] \/ "entryOff" \in seen[q]
  /\ method[q] = "rank" =>
       a \in {"none", "wait", "call", "settle", "done"} /\ (a = "settle" => r # "none")

PartInv ==
  \A w \in PartIds : PartFine(w[1], at[w], leased[w], hold[w], result[w])

\* A batch of a smart search waits, or is given up, beside another one, and is
\* given up only when the search is.
RankFine(w) ==
  method[w[1]] = "rank" =>
    /\ at[w] = "wait" => \E v \in Of(w[1]) : v # w /\ at[v] # "none"
    /\ at[w] = "done" /\ result[w] = "none" =>
         WaveEnds(w[1]) /\ \E v \in Of(w[1]) : v # w /\ at[v] # "none"
RankInv == \A w \in PartIds : RankFine(w)

\* A request has seen what the groups say now; behind the log nobody is left.
RowFine(w) == row[w] # "dropped" /\ (closing = "done" => row[w] # "queued")
GatewayInv ==
  /\ \A q \in Rpcs : Inside(q) => access \in seen[q] /\ ~ LogClosed
  /\ \A w \in PartIds : RowFine(w)

\* The choice a smart search is answered with was heard.
HeardFine(w) ==
  /\ phase[w[1]] \in {"leave", "over"} /\ answer[w[1]] = "result" /\ method[w[1]] = "rank"
  /\ at[w] = "done"
  => result[w] = "ok"
HeardInv == \A w \in PartIds : HeardFine(w)

CallsInv == CallsTypeOK /\ PartInv /\ RankInv /\ GatewayInv /\ HeardInv

\* The invariant holds of a gateway without requests.
LEMMA CallsStart ==
  ASSUME CallsInit
  PROVE  CallsInv
<1>1. AnId \in Ids
  BY GatewayCallsAssumption DEF AnId
<1>2. CallsTypeOK
  BY <1>1, GatewayCallsAssumption DEF CallsTypeOK, CallsInit, Methods, Parts
<1>3. PartInv /\ RankInv /\ HeardInv
  BY DEF CallsInit, PartInv, PartFine, RankInv, RankFine, HeardInv, HeardFine, PartIds
<1>4. GatewayInv
  BY DEF CallsInit, GatewayInv, RowFine, Inside, LogClosed
<1> QED
  BY <1>2, <1>3, <1>4 DEF CallsInv

\* Nothing that the invariant speaks of changes.
LEMMA CallsStutter ==
  ASSUME CallsInv, UNCHANGED callVars
  PROVE  CallsInv'
BY DEF CallsInv, callVars, requestVars, partVars, groupVars, CallsTypeOK, PartInv, PartFine,
       Allowed, RankInv, RankFine, GatewayInv, RowFine, HeardInv, HeardFine, WaveEnds, Failed,
       Inside, LogClosed

\* Nothing but the state of w changes.
OnlyPart(w) ==
  /\ UNCHANGED <<requestVars, row, groupVars, closing>>
  /\ at' = [at EXCEPT ![w] = at'[w]] /\ at'[w] \in Stages
  /\ tries' = [tries EXCEPT ![w] = tries'[w]] /\ tries'[w] \in 0 .. 1
  /\ leased' = [leased EXCEPT ![w] = leased'[w]] /\ leased'[w] \in BOOLEAN
  /\ hold' = [hold EXCEPT ![w] = hold'[w]] /\ hold'[w] \in Holds
  /\ result' = [result EXCEPT ![w] = result'[w]] /\ result'[w] \in Results

\* Of a part that moves only its own state has to be looked at.
LEMMA PartMoves ==
  ASSUME CallsInv, NEW w \in PartIds, OnlyPart(w),
         at[w] \notin {"none", "done"}, at'[w] \notin {"none", "wait"},
         PartFine(w[1], at'[w], leased'[w], hold'[w], result'[w]),
         result[w] = "failed" => result'[w] = "failed",
         method[w[1]] = "rank" /\ at'[w] = "done" /\ result'[w] = "none" =>
           at[w] = "wait" /\ WaveEnds(w[1])
  PROVE  CallsInv'
<1>1. w[1] \in Rpcs /\ \A q \in Rpcs : \A v \in Of(q) : v \in PartIds /\ v[1] = q
  BY DEF PartIds, Of
<1>2. CallsTypeOK'
  BY DEF CallsInv, CallsTypeOK, OnlyPart, requestVars, groupVars, Stages, Holds, Results
<1>3. \A v \in PartIds : v # w =>
        at'[v] = at[v] /\ leased'[v] = leased[v] /\ hold'[v] = hold[v] /\ result'[v] = result[v]
  BY DEF CallsInv, CallsTypeOK, OnlyPart
<1>4. PartInv'
  <2> SUFFICES ASSUME NEW v \in PartIds
               PROVE  PartFine(v[1], at[v], leased[v], hold[v], result[v])'
    BY DEF PartInv
  <2>1. PartFine(v[1], at'[v], leased'[v], hold'[v], result'[v])
    BY <1>3 DEF CallsInv, PartInv
  <2> QED
    BY <2>1 DEF PartFine, Allowed, OnlyPart, requestVars, groupVars
<1>5. phase[w[1]] = "run"
  BY DEF CallsInv, PartInv, PartFine
<1>6. \A q \in Rpcs : WaveEnds(q) => WaveEnds(q)'
  <2> SUFFICES ASSUME NEW q \in Rpcs, NEW v \in Of(q), result[v] = "failed"
               PROVE  result'[v] = "failed"
    BY DEF WaveEnds, Failed, OnlyPart, requestVars
  <2> QED
    BY <1>1, <1>3
<1>7. RankInv'
  <2> SUFFICES ASSUME NEW v \in PartIds, method[v[1]] = "rank",
                      at'[v] = "wait" \/ (at'[v] = "done" /\ result'[v] = "none")
               PROVE  /\ at'[v] = "done" => WaveEnds(v[1])'
                      /\ \E u \in Of(v[1]) : u # v /\ at'[u] # "none"
    BY DEF RankInv, RankFine, OnlyPart, requestVars
  <2>1. at[v] = "wait" \/ (at[v] = "done" /\ result[v] = "none")
    BY <1>3
  <2>2. PICK u \in Of(v[1]) : u # v /\ at[u] # "none"
    BY <2>1 DEF CallsInv, RankInv, RankFine
  <2>3. v[1] \in Rpcs /\ u \in PartIds
    BY <1>1 DEF PartIds
  <2>4. at'[u] # "none"
    BY <1>3, <2>2, <2>3
  <2>5. at'[v] = "done" => WaveEnds(v[1])
    BY <1>3, <2>1 DEF CallsInv, RankInv, RankFine
  <2> QED
    BY <1>6, <2>2, <2>3, <2>4, <2>5
<1>8. GatewayInv'
  BY DEF CallsInv, GatewayInv, RowFine, Inside, LogClosed, OnlyPart, requestVars, groupVars
<1>9. HeardInv'
  BY <1>1, <1>3, <1>5 DEF CallsInv, HeardInv, HeardFine, OnlyPart, requestVars
<1> QED
  BY <1>2, <1>4, <1>7, <1>8, <1>9 DEF CallsInv

\* Every step of a part.
LEMMA PartSteps ==
  ASSUME CallsInv, NEW w \in PartIds,
         PartStep(w) \/ Upstream(w) \/ Deadline(w) \/ Cancelled(w)
  PROVE  CallsInv'
<1>1. w[1] \in Rpcs
  BY DEF PartIds
<1>2. /\ at \in [PartIds -> Stages] /\ tries \in [PartIds -> 0 .. 1]
      /\ leased \in [PartIds -> BOOLEAN] /\ hold \in [PartIds -> Holds]
      /\ result \in [PartIds -> Results]
  BY DEF CallsInv, CallsTypeOK, Stages, Holds, Results
<1>3. PartFine(w[1], at[w], leased[w], hold[w], result[w])
  BY DEF CallsInv, PartInv
<1>4. /\ method[w[1]] \in Methods /\ access \in {"on", "entryOff", "off"} /\ dbFails \in BOOLEAN
      /\ phase[w[1]] = "run" => access \in seen[w[1]]
  BY <1>1 DEF CallsInv, CallsTypeOK, GatewayInv, Inside
<1>5. CASE TakeSlot(w)
  <2>1. /\ at[w] = "wait" /\ phase[w[1]] = "run" /\ ~ leased[w] /\ hold[w] # "pending"
        /\ method[w[1]] \in {"batch", "list", "rank"} /\ result[w] = "none"
    BY <1>2, <1>3, <1>5 DEF TakeSlot, PartFine
  <2>2. /\ OnlyPart(w) /\ leased'[w] = leased[w] /\ hold'[w] = hold[w] /\ result'[w] = result[w]
        /\ \/ at'[w] = AfterSlot(method[w[1]])
           \/ method[w[1]] = "rank" /\ WaveEnds(w[1]) /\ at'[w] = "done"
    BY <1>2, <1>5, <2>1 DEF TakeSlot, Part, OnlyPart, AfterSlot, Stages
  <2>3. /\ PartFine(w[1], at'[w], leased'[w], hold'[w], result'[w])
        /\ at'[w] \in Stages \ {"none", "wait"}
        /\ method[w[1]] = "rank" /\ at'[w] = "done" => WaveEnds(w[1])
    BY <1>3, <2>1, <2>2 DEF AfterSlot, PartFine, CallMethods, Stages
  <2> QED
    BY <2>1, <2>2, <2>3, PartMoves
<1>6. CASE Scope(w)
  <2>1. /\ at[w] = "scope" /\ phase[w[1]] = "run" /\ ~ leased[w] /\ hold[w] # "pending"
        /\ method[w[1]] # "rank" /\ result[w] = "none"
    BY <1>2, <1>3, <1>6 DEF Scope, PartFine
  <2>2. /\ OnlyPart(w) /\ leased'[w] = leased[w] /\ hold'[w] = hold[w] /\ result'[w] = result[w]
        /\ (at'[w] = "route" /\ access # "off") \/ at'[w] = "done"
    BY <1>2, <1>6 DEF Scope, ServicesInScope, Part, OnlyPart, Stages
  <2>3. PartFine(w[1], at'[w], leased'[w], hold'[w], result'[w])
    BY <1>3, <1>4, <2>1, <2>2 DEF PartFine
  <2> QED
    BY <2>1, <2>2, <2>3, PartMoves
<1>7. CASE Route(w)
  <2>1. /\ at[w] = "route" /\ phase[w[1]] = "run" /\ ~ leased[w] /\ hold[w] # "pending"
        /\ method[w[1]] # "rank" /\ result[w] = "none"
    BY <1>2, <1>3, <1>7 DEF Route, PartFine
  <2>2. /\ OnlyPart(w) /\ leased'[w] = leased[w] /\ hold'[w] = hold[w] /\ result'[w] = result[w]
        /\ at'[w] \in {"lease", "done"}
    BY <1>2, <1>7 DEF Route, Part, OnlyPart, Stages
  <2>3. PartFine(w[1], at'[w], leased'[w], hold'[w], result'[w])
    BY <1>3, <2>1, <2>2 DEF PartFine
  <2> QED
    BY <2>1, <2>2, <2>3, PartMoves
<1>8. CASE Lease(w)
  <2>1. /\ at[w] = "lease" /\ phase[w[1]] = "run" /\ ~ leased[w] /\ hold[w] # "pending"
        /\ method[w[1]] # "rank" /\ result[w] = "none"
    BY <1>2, <1>3, <1>8 DEF Lease, PartFine
  <2>2. /\ OnlyPart(w) /\ hold'[w] = hold[w] /\ result'[w] = result[w]
        /\ \/ at'[w] = "call" /\ method[w[1]] = "list"
           \/ at'[w] = "check"
           \/ at'[w] \in {"done", "route"} /\ ~ leased'[w]
    <3>1. CASE /\ Part(w, IF method[w[1]] = "list" THEN "call" ELSE "check")
               /\ leased' = [leased EXCEPT ![w] = TRUE] /\ tries' = [tries EXCEPT ![w] = 0]
      BY <1>2, <1>8, <2>1, <3>1 DEF Lease, Part, OnlyPart, Stages
    <3>2. CASE Part(w, "done") /\ tries' = [tries EXCEPT ![w] = 0] /\ UNCHANGED leased
      BY <1>2, <1>8, <2>1, <3>2 DEF Lease, Part, OnlyPart, Stages
    <3>3. CASE tries' = [tries EXCEPT ![w] = 1] /\ Part(w, "route") /\ UNCHANGED leased
      BY <1>2, <1>8, <2>1, <3>3 DEF Lease, Part, OnlyPart, Stages
    <3> QED
      BY <1>8, <3>1, <3>2, <3>3 DEF Lease
  <2>3. PartFine(w[1], at'[w], leased'[w], hold'[w], result'[w])
    BY <1>3, <2>1, <2>2 DEF PartFine, CallMethods
  <2> QED
    BY <2>1, <2>2, <2>3, PartMoves
<1>9. CASE CheckTool(w) \/ CheckItem(w)
  <2>1. /\ at[w] = "check" /\ phase[w[1]] = "run" /\ hold[w] # "pending"
        /\ method[w[1]] # "rank" /\ result[w] = "none"
    BY <1>2, <1>3, <1>9 DEF CheckTool, CheckItem, PartFine
  <2>2. /\ OnlyPart(w) /\ hold'[w] = hold[w] /\ result'[w] = result[w]
        /\ \/ /\ \/ access = "on"
                 \/ access = "entryOff" /\ dbFails
                 \/ access = "off" /\ method[w[1]] = "read"
              /\ at'[w] = "price" /\ leased'[w] = leased[w]
           \/ at'[w] = "done" /\ ~ leased'[w]
    <3>1. CASE Refuse(w)
      BY <1>2, <1>9, <3>1 DEF CheckTool, CheckItem, Refuse, Part, OnlyPart, Stages
    <3>2. CASE Part(w, "price") /\ UNCHANGED leased
      <4>1. /\ at' = [at EXCEPT ![w] = "price"] /\ at'[w] = "price" /\ leased' = leased
        BY <1>2, <3>2 DEF Part
      <4>2. /\ UNCHANGED <<requestVars, tries, hold, result, row, groupVars, closing>>
            /\ ~ Refuse(w)
        BY <1>2, <1>9, <4>1 DEF CheckTool, CheckItem, Refuse, Part
      <4>3. \/ access = "on"
            \/ access = "entryOff" /\ dbFails
            \/ access = "off" /\ method[w[1]] = "read"
        BY <1>4, <1>9, <4>2 DEF CheckTool, CheckItem, ToolAccessible
      <4> QED
        BY <1>2, <4>1, <4>2, <4>3 DEF OnlyPart, Stages
    <3> QED
      BY <1>9, <3>1, <3>2 DEF CheckTool, CheckItem
  <2>3. at'[w] = "price" => Allowed(w[1])
    BY <1>3, <1>4, <2>1, <2>2 DEF Allowed, PartFine
  <2>4. PartFine(w[1], at'[w], leased'[w], hold'[w], result'[w])
    BY <1>3, <2>1, <2>2, <2>3 DEF PartFine
  <2> QED
    BY <2>1, <2>2, <2>4, PartMoves
<1>10. CASE Price(w)
  <2>1. /\ at[w] = "price" /\ phase[w[1]] = "run" /\ hold[w] # "pending"
        /\ method[w[1]] # "rank" /\ result[w] = "none"
    BY <1>2, <1>3, <1>10 DEF Price, PartFine
  <2>2. /\ OnlyPart(w) /\ result'[w] = result[w]
        /\ \/ at'[w] = "call" /\ leased'[w] = leased[w]
           \/ at'[w] = "done" /\ ~ leased'[w] /\ hold'[w] = hold[w]
    BY <1>2, <1>10 DEF Price, Refuse, Part, OnlyPart, Stages, Holds
  <2>3. PartFine(w[1], at'[w], leased'[w], hold'[w], result'[w])
    BY <1>3, <2>1, <2>2 DEF PartFine
  <2> QED
    BY <2>1, <2>2, <2>3, PartMoves
<1>11. CASE Upstream(w) \/ Deadline(w) \/ Cancelled(w)
  <2> PICK r \in {"ok", "failed"} : Returned(w, r)
    BY <1>11 DEF Upstream, Deadline, Cancelled
  <2>1. at[w] = "call" /\ phase[w[1]] = "run" /\ result[w] = "none"
    BY <1>2, <1>3 DEF Returned, PartFine
  <2>2. /\ OnlyPart(w) /\ leased'[w] = leased[w] /\ hold'[w] = hold[w]
        /\ at'[w] = "settle" /\ result'[w] = r
    BY <1>2 DEF Returned, Part, OnlyPart, Stages, Results
  <2>3. PartFine(w[1], at'[w], leased'[w], hold'[w], result'[w])
    BY <1>3, <2>1, <2>2 DEF PartFine
  <2> QED
    BY <2>1, <2>2, <2>3, PartMoves
<1>12. CASE Settle(w)
  <2>1. at[w] = "settle" /\ phase[w[1]] = "run" /\ (method[w[1]] = "rank" => result[w] # "none")
    BY <1>2, <1>3, <1>12 DEF Settle, PartFine
  <2>2. /\ OnlyPart(w) /\ result'[w] = result[w]
        /\ at'[w] = "done" /\ ~ leased'[w] /\ hold'[w] # "pending"
    BY <1>2, <1>12 DEF Settle, ChargeCall, Refuse, Part, OnlyPart, Stages, Holds
  <2>3. PartFine(w[1], at'[w], leased'[w], hold'[w], result'[w])
    BY <2>1, <2>2 DEF PartFine
  <2> QED
    BY <2>1, <2>2, <2>3, PartMoves
<1> QED
  BY <1>5, <1>6, <1>7, <1>8, <1>9, <1>10, <1>11, <1>12 DEF PartStep

\* Nothing but the state of q changes.
OnlyRequest(q) ==
  /\ \A p \in Rpcs : p # q =>
       /\ phase'[p] = phase[p] /\ method'[p] = method[p] /\ alive'[p] = alive[p]
       /\ answer'[p] = answer[p] /\ seen'[p] = seen[p]
  /\ \A w \in PartIds : w[1] # q =>
       /\ at'[w] = at[w] /\ leased'[w] = leased[w] /\ hold'[w] = hold[w]
       /\ result'[w] = result[w] /\ row'[w] = row[w]
  /\ access' = access /\ dbFails' = dbFails /\ closing' = closing

\* Of a request that moves only its own state has to be looked at.
RequestInv(q) ==
  /\ Inside(q) => access \in seen[q] /\ ~ LogClosed
  /\ \A w \in Of(q) :
       /\ PartFine(q, at[w], leased[w], hold[w], result[w])
       /\ RankFine(w) /\ HeardFine(w) /\ RowFine(w)

LEMMA RequestMoves ==
  ASSUME CallsInv, NEW q \in Rpcs, OnlyRequest(q), CallsTypeOK', RequestInv(q)'
  PROVE  CallsInv'
<1>1. \A p \in Rpcs : \A w \in Of(p) : w \in PartIds /\ w[1] = p
  BY DEF PartIds, Of
<1>2. \A w \in PartIds : w[1] \in Rpcs /\ w \in Of(w[1])
  BY DEF PartIds, Of
<1> SUFFICES ASSUME NEW p \in Rpcs, p # q, NEW w \in Of(p)
             PROVE  /\ PartFine(p, at[w], leased[w], hold[w], result[w])'
                    /\ RankFine(w)' /\ HeardFine(w)' /\ RowFine(w)'
  <2>1. \A p \in Rpcs : (Inside(p) => access \in seen[p] /\ ~ LogClosed)'
    BY DEF CallsInv, GatewayInv, OnlyRequest, RequestInv, Inside, LogClosed
  <2> QED
    BY <1>1, <1>2, <2>1 DEF CallsInv, PartInv, RankInv, HeardInv, GatewayInv, RequestInv
<1>3. w \in PartIds /\ w[1] = p
  BY <1>1
<1>4. /\ PartFine(p, at[w], leased[w], hold[w], result[w])
      /\ RankFine(w) /\ HeardFine(w) /\ RowFine(w)
  BY <1>3 DEF CallsInv, PartInv, RankInv, HeardInv, GatewayInv
<1>5. /\ PartFine(p, at[w], leased[w], hold[w], result[w])'
      /\ HeardFine(w)' /\ RowFine(w)'
  BY <1>3, <1>4 DEF OnlyRequest, PartFine, Allowed, HeardFine, RowFine
<1>6. \A v \in Of(p) : at'[v] = at[v] /\ result'[v] = result[v]
  BY <1>1 DEF OnlyRequest
<1>7. WaveEnds(p) => WaveEnds(p)'
  BY <1>6 DEF WaveEnds, Failed, OnlyRequest
<1>8. RankFine(w)'
  BY <1>3, <1>4, <1>6, <1>7 DEF RankFine, OnlyRequest
<1> QED
  BY <1>5, <1>8

\* The log takes no rows when it is closed; a request that is inside finds it open.
LEMMA QueueFine ==
  ASSUME CallsInv, ~ LogClosed, NEW S, Queue(S)
  PROVE  /\ row' \in [PartIds -> {"none", "queued", "written", "failed", "dropped"}]
         /\ \A w \in PartIds : row'[w] # "dropped" /\ (w \notin S => row'[w] = row[w])
BY DEF CallsInv, CallsTypeOK, GatewayInv, RowFine, Queue

\* Every step of a request.
LEMMA ArriveKeeps ==
  ASSUME CallsInv, NEW q \in Rpcs, Refused(q) \/ Arrive(q)
  PROVE  CallsInv'
<1>1. PICK k \in Methods, i \in Ids :
        /\ method' = [method EXCEPT ![q] = k] /\ rid' = [rid EXCEPT ![q] = i]
        /\ \/ Go(q, "over") /\ Respond(q, "error") /\ UNCHANGED seen
           \/ ~ Closed /\ Go(q, "task") /\ UNCHANGED answer /\ seen' = [seen EXCEPT ![q] = {access}]
  BY DEF Comes, Refused, Arrive
<1>2. phase[q] = "none" /\ UNCHANGED <<alive, partVars, row, access, edits, dbFails, closing>>
  BY DEF Comes, Refused, Arrive
<1>3. CallsTypeOK'
  BY <1>1, <1>2 DEF CallsInv, CallsTypeOK, Go, Respond, partVars
<1>4. OnlyRequest(q)
  BY <1>1, <1>2 DEF CallsInv, CallsTypeOK, OnlyRequest, Go, Respond, partVars
<1>5. \/ phase'[q] = "over" /\ answer'[q] = "error"
      \/ phase'[q] = "task" /\ seen'[q] = {access} /\ ~ Closed
  <2>1. phase \in [Rpcs -> {"none", "task", "registered", "run", "leave", "over"}]
        /\ answer \in [Rpcs -> {"none", "error", "result"}]
        /\ seen \in [Rpcs -> SUBSET {"on", "entryOff", "off"}]
    BY DEF CallsInv, CallsTypeOK
  <2>2. CASE Go(q, "over") /\ Respond(q, "error")
    BY <2>1, <2>2 DEF Go, Respond
  <2>3. CASE ~ Closed /\ Go(q, "task") /\ seen' = [seen EXCEPT ![q] = {access}]
    BY <2>1, <2>3 DEF Go
  <2> QED
    BY <1>1, <2>2, <2>3
<1>6. \A w \in Of(q) : w \in PartIds /\ w[1] = q /\ at[w] = "none" /\ result[w] = "none"
                        /\ ~ leased[w] /\ hold[w] # "pending"
  BY <1>2 DEF CallsInv, CallsTypeOK, PartInv, PartFine, PartIds, Of
<1>7. RequestInv(q)'
  <2>1. (Inside(q) => access \in seen[q] /\ ~ LogClosed)'
    BY <1>2, <1>5 DEF Inside, Closed, LogClosed
  <2> SUFFICES ASSUME NEW w \in Of(q)
               PROVE  /\ PartFine(q, at[w], leased[w], hold[w], result[w])'
                      /\ RankFine(w)' /\ HeardFine(w)' /\ RowFine(w)'
    BY <2>1 DEF RequestInv
  <2>2. PartFine(q, at[w], leased[w], hold[w], result[w])'
    BY <1>2, <1>5, <1>6 DEF PartFine, partVars
  <2>3. RankFine(w)' /\ HeardFine(w)' /\ RowFine(w)'
    BY <1>2, <1>6 DEF RankFine, HeardFine, RowFine, partVars, CallsInv, GatewayInv
  <2> QED
    BY <2>2, <2>3
<1> QED
  BY <1>3, <1>4, <1>7, RequestMoves

LEMMA RegisterKeeps ==
  ASSUME CallsInv, NEW q \in Rpcs, Register(q)
  PROVE  CallsInv'
<1>1. /\ phase[q] = "task" /\ UNCHANGED <<method, rid, alive, partVars, row, groupVars, closing>>
      /\ \/ Go(q, "leave") /\ Respond(q, "error")
         \/ Go(q, "registered") /\ UNCHANGED answer
  BY DEF Register
<1>2. CallsTypeOK'
  BY <1>1 DEF CallsInv, CallsTypeOK, Go, Respond, partVars, groupVars
<1>3. OnlyRequest(q)
  BY <1>1 DEF CallsInv, CallsTypeOK, OnlyRequest, Go, Respond, partVars, groupVars
<1>4. phase'[q] = "leave" \/ phase'[q] = "registered"
  BY <1>1 DEF CallsInv, CallsTypeOK, Go
<1>5. \A w \in Of(q) : w \in PartIds /\ w[1] = q /\ at[w] = "none" /\ result[w] = "none"
                        /\ ~ leased[w] /\ hold[w] # "pending"
  BY <1>1 DEF CallsInv, CallsTypeOK, PartInv, PartFine, PartIds, Of
<1>6. RequestInv(q)'
  <2>1. (Inside(q) => access \in seen[q] /\ ~ LogClosed)'
    BY <1>1, <1>4 DEF CallsInv, GatewayInv, Inside, LogClosed, groupVars
  <2> SUFFICES ASSUME NEW w \in Of(q)
               PROVE  /\ PartFine(q, at[w], leased[w], hold[w], result[w])'
                      /\ RankFine(w)' /\ HeardFine(w)' /\ RowFine(w)'
    BY <2>1 DEF RequestInv
  <2>2. PartFine(q, at[w], leased[w], hold[w], result[w])'
    BY <1>1, <1>4, <1>5 DEF PartFine, partVars
  <2>3. RankFine(w)' /\ HeardFine(w)' /\ RowFine(w)'
    BY <1>1, <1>5 DEF RankFine, HeardFine, RowFine, partVars, CallsInv, GatewayInv
  <2> QED
    BY <2>2, <2>3
<1> QED
  BY <1>2, <1>3, <1>6, RequestMoves

LEMMA AnswerNowKeeps ==
  ASSUME CallsInv, NEW q \in Rpcs, Inform(q) \/ Search(q) \/ Invalid(q) \/ Empty(q)
  PROVE  CallsInv'
<1>1. /\ phase[q] = "registered" /\ UNCHANGED <<method, rid, alive, partVars, groupVars, closing>>
      /\ Go(q, "leave") /\ (\E a \in {"error", "result"} : Respond(q, a))
      /\ Queue({<<q, 1>>}) \/ UNCHANGED row
  BY DEF AnswerNow, Inform, Search, Invalid, Empty
<1>2. ~ LogClosed
  BY <1>1 DEF CallsInv, GatewayInv, Inside
<1>3. /\ row' \in [PartIds -> {"none", "queued", "written", "failed", "dropped"}]
      /\ \A w \in PartIds : row'[w] # "dropped" /\ (w[1] # q => row'[w] = row[w])
  <2>1. CASE Queue({<<q, 1>>})
    BY <1>2, <2>1, QueueFine
  <2>2. CASE UNCHANGED row
    BY <2>2 DEF CallsInv, CallsTypeOK, GatewayInv, RowFine
  <2> QED
    BY <1>1, <2>1, <2>2
<1>4. CallsTypeOK'
  BY <1>1, <1>3 DEF CallsInv, CallsTypeOK, Go, Respond, partVars, groupVars
<1>5. OnlyRequest(q)
  BY <1>1, <1>3 DEF CallsInv, CallsTypeOK, OnlyRequest, Go, Respond, partVars, groupVars
<1>6. phase'[q] = "leave"
  BY <1>1 DEF CallsInv, CallsTypeOK, Go
<1>7. \A w \in Of(q) : w \in PartIds /\ w[1] = q /\ at[w] = "none" /\ result[w] = "none"
                        /\ ~ leased[w] /\ hold[w] # "pending"
  BY <1>1 DEF CallsInv, CallsTypeOK, PartInv, PartFine, PartIds, Of
<1>8. RequestInv(q)'
  <2>1. (Inside(q) => access \in seen[q] /\ ~ LogClosed)'
    BY <1>1, <1>6 DEF CallsInv, GatewayInv, Inside, LogClosed, groupVars
  <2> SUFFICES ASSUME NEW w \in Of(q)
               PROVE  /\ PartFine(q, at[w], leased[w], hold[w], result[w])'
                      /\ RankFine(w)' /\ HeardFine(w)' /\ RowFine(w)'
    BY <2>1 DEF RequestInv
  <2>2. PartFine(q, at[w], leased[w], hold[w], result[w])'
    BY <1>1, <1>6, <1>7 DEF PartFine, partVars
  <2>3. RankFine(w)' /\ HeardFine(w)' /\ RowFine(w)'
    BY <1>1, <1>2, <1>3, <1>7 DEF RankFine, HeardFine, RowFine, LogClosed, partVars
  <2> QED
    BY <2>2, <2>3
<1> QED
  BY <1>4, <1>5, <1>8, RequestMoves

LEMMA DispatchKeeps ==
  ASSUME CallsInv, NEW q \in Rpcs, Dispatch(q)
  PROVE  CallsInv'
<1>1. PICK n \in Parts :
        at' = [w \in PartIds |-> IF w[1] = q /\ w[2] <= n THEN Start(method[q], n) ELSE at[w]]
  BY DEF Dispatch
<1>2. /\ phase[q] = "registered" /\ method[q] \in Methods \ {"plain", "search"} /\ Go(q, "run")
      /\ UNCHANGED <<method, rid, alive, answer, tries, leased, hold, result, row, groupVars,
                     closing>>
  BY DEF Dispatch, CallsInv, CallsTypeOK
<1>3. /\ Start(method[q], n) \in {"route", "scope", "call", "wait"}
      /\ Start(method[q], n) = "route" => method[q] = "tool"
      /\ Start(method[q], n) = "scope" => method[q] \in {"execute", "read"}
      /\ Start(method[q], n) = "call" => method[q] = "rank"
      /\ Start(method[q], n) = "wait" => method[q] \in {"batch", "list", "rank"}
      /\ Start(method[q], n) = "wait" /\ method[q] = "rank" => n # 1
  BY <1>2 DEF Start, Methods
<1>4. CallsTypeOK'
  <2>1. at' \in [PartIds -> {"none", "wait", "scope", "route", "lease", "check", "price",
                            "call", "settle", "done"}]
    BY <1>1, <1>3 DEF CallsInv, CallsTypeOK
  <2> QED
    BY <1>2, <2>1 DEF CallsInv, CallsTypeOK, Go, groupVars
<1>5. OnlyRequest(q)
  BY <1>1, <1>2 DEF CallsInv, CallsTypeOK, OnlyRequest, Go, groupVars
<1>6. phase'[q] = "run"
  BY <1>2 DEF CallsInv, CallsTypeOK, Go
<1>7. \A w \in Of(q) : w \in PartIds /\ w[1] = q /\ at[w] = "none" /\ result[w] = "none"
                        /\ ~ leased[w] /\ hold[w] # "pending" /\ RowFine(w)
  BY <1>2 DEF CallsInv, CallsTypeOK, PartInv, PartFine, PartIds, Of, GatewayInv
<1>8. RequestInv(q)'
  <2>1. (Inside(q) => access \in seen[q] /\ ~ LogClosed)'
    BY <1>2, <1>6 DEF CallsInv, GatewayInv, Inside, LogClosed, groupVars
  <2> SUFFICES ASSUME NEW w \in Of(q)
               PROVE  /\ PartFine(q, at[w], leased[w], hold[w], result[w])'
                      /\ RankFine(w)' /\ HeardFine(w)' /\ RowFine(w)'
    BY <2>1 DEF RequestInv
  <2>2. at'[w] = "none" \/ at'[w] = Start(method[q], n)
    BY <1>1, <1>7
  <2>3. PartFine(q, at[w], leased[w], hold[w], result[w])'
    BY <1>2, <1>3, <1>6, <1>7, <2>2 DEF PartFine, CallMethods
  <2>4. RankFine(w)'
    <3> SUFFICES ASSUME method[q] = "rank", at'[w] = "wait"
                 PROVE  \E v \in Of(q) : v # w /\ at'[v] # "none"
      BY <1>2, <1>3, <1>7, <2>2 DEF RankFine
    <3>1. n \in 2 .. MaxParts
      BY <1>3, <2>2, GatewayCallsAssumption DEF Parts
    <3>2. \A i \in {1, 2} : /\ <<q, i>> \in Of(q) /\ <<q, i>> \in PartIds
                            /\ at'[<<q, i>>] = Start(method[q], n)
      BY <1>1, <3>1, GatewayCallsAssumption DEF Of, PartIds, Parts
    <3>3. <<q, 1>> # w \/ <<q, 2>> # w
      OBVIOUS
    <3> QED
      BY <1>3, <3>2, <3>3
  <2>5. HeardFine(w)' /\ RowFine(w)'
    BY <1>2, <1>6, <1>7 DEF HeardFine, RowFine
  <2> QED
    BY <2>3, <2>4, <2>5
<1> QED
  BY <1>4, <1>5, <1>8, RequestMoves

LEMMA CancelKeeps ==
  ASSUME CallsInv, NEW q \in Rpcs, Cancel(q)
  PROVE  CallsInv'
<1>1. /\ alive' = [alive EXCEPT ![q] = FALSE]
      /\ UNCHANGED <<phase, method, rid, answer, partVars, row, groupVars, closing>>
  BY DEF Cancel
<1>2. CallsTypeOK'
  BY <1>1 DEF CallsInv, CallsTypeOK, partVars, groupVars
<1>3. \A p \in Rpcs : WaveEnds(p) => WaveEnds(p)'
  BY <1>1 DEF CallsInv, CallsTypeOK, WaveEnds, Failed, partVars
<1>4. \A w \in PartIds : w[1] \in Rpcs
  BY DEF PartIds
<1>5. PartInv' /\ GatewayInv' /\ HeardInv'
  BY <1>1 DEF CallsInv, PartInv, PartFine, Allowed, GatewayInv, RowFine, HeardInv, HeardFine,
              Inside, LogClosed, partVars, groupVars
<1>6. RankInv'
  BY <1>1, <1>3, <1>4 DEF CallsInv, RankInv, RankFine, partVars
<1> QED
  BY <1>2, <1>5, <1>6 DEF CallsInv

LEMMA GatherKeeps ==
  ASSUME CallsInv, NEW q \in Rpcs, GatherList(q) \/ GatherCalls(q) \/ GatherRank(q)
  PROVE  CallsInv'
<1>1. PICK a \in {"error", "result"} :
        /\ Gather(q, a) /\ (UNCHANGED row \/ Queue({<<q, 1>>}) \/ Queue(Used(q)))
        /\ method[q] = "rank" /\ a = "result" => Last(q) /\ ~ Failed(q)
  BY DEF GatherList, GatherCalls, GatherRank, Reply, CallMethods
<1>2. /\ phase[q] = "run" /\ Go(q, "leave") /\ Respond(q, a)
      /\ UNCHANGED <<method, rid, alive, partVars, groupVars, closing>>
      /\ UNCHANGED row \/ Queue({<<q, 1>>}) \/ Queue(Used(q))
  BY <1>1 DEF Gather
<1>3. ~ LogClosed
  BY <1>2 DEF CallsInv, GatewayInv, Inside
<1>4. /\ row' \in [PartIds -> {"none", "queued", "written", "failed", "dropped"}]
      /\ \A w \in PartIds : row'[w] # "dropped" /\ (w[1] # q => row'[w] = row[w])
  <2>1. CASE Queue({<<q, 1>>})
    BY <1>3, <2>1, QueueFine
  <2>2. CASE Queue(Used(q))
    BY <1>3, <2>2, QueueFine DEF Used, Of
  <2>3. CASE UNCHANGED row
    BY <2>3 DEF CallsInv, CallsTypeOK, GatewayInv, RowFine
  <2> QED
    BY <1>2, <2>1, <2>2, <2>3
<1>5. CallsTypeOK'
  BY <1>2, <1>4 DEF CallsInv, CallsTypeOK, Go, Respond, partVars, groupVars
<1>6. OnlyRequest(q)
  BY <1>2, <1>4 DEF CallsInv, CallsTypeOK, OnlyRequest, Go, Respond, partVars, groupVars
<1>7. phase'[q] = "leave" /\ answer'[q] = a
  BY <1>2 DEF CallsInv, CallsTypeOK, Go, Respond
<1>8. \A w \in Of(q) :
        /\ w \in PartIds /\ w[1] = q /\ at[w] \in {"none", "done"}
        /\ PartFine(q, at[w], leased[w], hold[w], result[w]) /\ RankFine(w)
  BY <1>1 DEF CallsInv, CallsTypeOK, PartInv, RankInv, PartIds, Of, Gather, AllReturned, Used
<1>9. RequestInv(q)'
  <2>1. (Inside(q) => access \in seen[q] /\ ~ LogClosed)'
    BY <1>2 DEF CallsInv, GatewayInv, Inside, LogClosed, groupVars
  <2> SUFFICES ASSUME NEW w \in Of(q)
               PROVE  /\ PartFine(q, at[w], leased[w], hold[w], result[w])'
                      /\ RankFine(w)' /\ HeardFine(w)' /\ RowFine(w)'
    BY <2>1 DEF RequestInv
  <2>2. PartFine(q, at[w], leased[w], hold[w], result[w])'
    BY <1>2, <1>7, <1>8 DEF PartFine, partVars
  <2>3. RankFine(w)'
    BY <1>2, <1>8 DEF RankFine, WaveEnds, Failed, partVars
  <2>4. HeardFine(w)'
    <3> SUFFICES ASSUME a = "result", method[q] = "rank", at[w] = "done", result[w] # "ok"
                 PROVE  FALSE
      BY <1>2, <1>7, <1>8 DEF HeardFine, partVars
    <3>1. Last(q) /\ ~ Failed(q)
      BY <1>1
    <3>2. result[w] = "none"
      BY <1>8, <3>1 DEF Failed, CallsInv, CallsTypeOK
    <3>3. PICK v \in Of(q) : v # w /\ at[v] # "none"
      BY <1>8, <3>2 DEF RankFine
    <3>4. IsFiniteSet(Used(q))
      <4> MaxParts \in Int
        BY GatewayCallsAssumption
      <4>1. IsFiniteSet(Parts)
        BY FS_Interval DEF Parts
      <4>2. IsFiniteSet({q})
        BY FS_Singleton
      <4>3. IsFiniteSet(Of(q))
        BY <4>1, <4>2, FS_Product DEF Of
      <4> QED
        BY <4>3, FS_Subset DEF Used
    <3>5. PICK u : Used(q) = {u}
      BY <3>1, <3>4, FS_Singleton DEF Last
    <3> QED
      BY <3>3, <3>5 DEF Used
  <2>5. RowFine(w)'
    BY <1>2, <1>3, <1>4, <1>8 DEF RowFine, LogClosed
  <2> QED
    BY <2>2, <2>3, <2>4, <2>5
<1> QED
  BY <1>5, <1>6, <1>9, RequestMoves

LEMMA NextWaveKeeps ==
  ASSUME CallsInv, NEW q \in Rpcs, NextWave(q)
  PROVE  CallsInv'
<1>1. PICK n \in Parts :
        at' = [w \in PartIds |->
                 IF w[1] # q THEN at[w] ELSE IF w[2] <= n THEN Start("rank", n) ELSE "none"]
  BY DEF NextWave
<1>2. /\ phase[q] = "run" /\ method[q] = "rank"
      /\ result' = [w \in PartIds |-> IF w[1] = q THEN "none" ELSE result[w]]
      /\ UNCHANGED <<requestVars, tries, leased, hold, row, groupVars, closing>>
  BY DEF NextWave
<1>3. /\ Start("rank", n) \in {"call", "wait"}
      /\ Start("rank", n) = "wait" => n # 1
  BY DEF Start
<1>4. CallsTypeOK'
  <2>1. at' \in [PartIds -> {"none", "wait", "scope", "route", "lease", "check", "price",
                            "call", "settle", "done"}]
    BY <1>1, <1>3 DEF CallsInv, CallsTypeOK
  <2>2. result' \in [PartIds -> {"none", "ok", "failed"}]
    BY <1>2 DEF CallsInv, CallsTypeOK
  <2> QED
    BY <1>2, <2>1, <2>2 DEF CallsInv, CallsTypeOK, requestVars, groupVars
<1>5. OnlyRequest(q)
  BY <1>1, <1>2 DEF CallsInv, CallsTypeOK, OnlyRequest, requestVars, groupVars
<1>6. \A w \in Of(q) :
        /\ w \in PartIds /\ w[1] = q /\ ~ leased[w] /\ hold[w] # "pending" /\ RowFine(w)
        /\ result'[w] = "none" /\ at'[w] \in {"none", Start("rank", n)}
  <2> SUFFICES ASSUME NEW w \in Of(q)
               PROVE  /\ w \in PartIds /\ w[1] = q /\ ~ leased[w] /\ hold[w] # "pending"
                      /\ RowFine(w) /\ result'[w] = "none" /\ at'[w] \in {"none", Start("rank", n)}
    OBVIOUS
  <2>1. w \in PartIds /\ w[1] = q
    BY DEF PartIds, Of
  <2>2. at[w] \in {"none", "done"}
    BY DEF NextWave, AllReturned, Used
  <2>3. ~ leased[w] /\ hold[w] # "pending" /\ RowFine(w)
    BY <2>1, <2>2 DEF CallsInv, CallsTypeOK, PartInv, PartFine, GatewayInv
  <2> QED
    BY <1>1, <1>2, <2>1, <2>3
<1>7. RequestInv(q)'
  <2>1. (Inside(q) => access \in seen[q] /\ ~ LogClosed)'
    BY <1>2 DEF CallsInv, GatewayInv, Inside, LogClosed, requestVars, groupVars
  <2> SUFFICES ASSUME NEW w \in Of(q)
               PROVE  /\ PartFine(q, at[w], leased[w], hold[w], result[w])'
                      /\ RankFine(w)' /\ HeardFine(w)' /\ RowFine(w)'
    BY <2>1 DEF RequestInv
  <2>2. phase'[q] = "run" /\ method'[q] = "rank" /\ leased'[w] = leased[w] /\ hold'[w] = hold[w]
    BY <1>2 DEF requestVars
  <2>3. PartFine(q, at[w], leased[w], hold[w], result[w])'
    BY <1>3, <1>6, <2>2 DEF PartFine, CallMethods
  <2>4. RankFine(w)'
    <3> SUFFICES ASSUME at'[w] = "wait"
                 PROVE  \E v \in Of(q) : v # w /\ at'[v] # "none"
      BY <1>3, <1>6 DEF RankFine
    <3>1. n \in 2 .. MaxParts
      BY <1>3, <1>6, GatewayCallsAssumption DEF Parts
    <3>2. \A i \in {1, 2} : /\ <<q, i>> \in Of(q) /\ <<q, i>> \in PartIds
                            /\ at'[<<q, i>>] = Start("rank", n)
      BY <1>1, <3>1, GatewayCallsAssumption DEF Of, PartIds, Parts
    <3>3. <<q, 1>> # w \/ <<q, 2>> # w
      OBVIOUS
    <3> QED
      BY <1>3, <3>2, <3>3
  <2>5. HeardFine(w)' /\ RowFine(w)'
    BY <1>2, <1>6, <2>2 DEF HeardFine, RowFine
  <2> QED
    BY <2>3, <2>4, <2>5
<1> QED
  BY <1>4, <1>5, <1>7, RequestMoves

LEMMA LeaveKeeps ==
  ASSUME CallsInv, NEW q \in Rpcs, Leave(q)
  PROVE  CallsInv'
<1>1. /\ phase[q] = "leave" /\ Go(q, "over") /\ alive' = [alive EXCEPT ![q] = FALSE]
      /\ seen' = [seen EXCEPT ![q] = {}]
      /\ UNCHANGED <<method, rid, answer, partVars, row, access, edits, dbFails, closing>>
  BY DEF Leave
<1>2. CallsTypeOK'
  BY <1>1 DEF CallsInv, CallsTypeOK, Go, partVars
<1>3. OnlyRequest(q)
  BY <1>1 DEF CallsInv, CallsTypeOK, OnlyRequest, Go, partVars
<1>4. phase'[q] = "over" /\ ~ alive'[q]
  BY <1>1 DEF CallsInv, CallsTypeOK, Go
<1>5. \A w \in Of(q) :
        /\ w \in PartIds /\ w[1] = q /\ at[w] \in {"none", "done"} /\ RowFine(w)
        /\ PartFine(q, at[w], leased[w], hold[w], result[w]) /\ RankFine(w) /\ HeardFine(w)
  BY <1>1 DEF CallsInv, CallsTypeOK, PartInv, PartFine, RankInv, HeardInv, GatewayInv, PartIds, Of
<1>6. RequestInv(q)'
  <2>1. ~ Inside(q)'
    BY <1>4 DEF Inside
  <2> SUFFICES ASSUME NEW w \in Of(q)
               PROVE  /\ PartFine(q, at[w], leased[w], hold[w], result[w])'
                      /\ RankFine(w)' /\ HeardFine(w)' /\ RowFine(w)'
    BY <2>1 DEF RequestInv
  <2>2. PartFine(q, at[w], leased[w], hold[w], result[w])'
    BY <1>1, <1>4, <1>5 DEF PartFine, partVars
  <2>3. RankFine(w)'
    BY <1>1, <1>4, <1>5 DEF RankFine, WaveEnds, partVars
  <2>4. HeardFine(w)' /\ RowFine(w)'
    BY <1>1, <1>5 DEF HeardFine, RowFine, partVars
  <2> QED
    BY <2>2, <2>3, <2>4
<1> QED
  BY <1>2, <1>3, <1>6, RequestMoves

LEMMA AgainKeeps ==
  ASSUME CallsInv, NEW q \in Rpcs, Again(q)
  PROVE  CallsInv'
<1>1. AnId \in Ids
  BY GatewayCallsAssumption DEF AnId
<1>2. /\ phase[q] = "over" /\ Go(q, "none") /\ alive' = [alive EXCEPT ![q] = TRUE]
      /\ Respond(q, "none") /\ method' = [method EXCEPT ![q] = "plain"]
      /\ rid' = [rid EXCEPT ![q] = AnId] /\ UNCHANGED <<leased, groupVars, closing>>
      /\ at' = [w \in PartIds |-> IF w[1] = q THEN "none" ELSE at[w]]
      /\ tries' = [w \in PartIds |-> IF w[1] = q THEN 0 ELSE tries[w]]
      /\ hold' = [w \in PartIds |-> IF w[1] = q THEN "none" ELSE hold[w]]
      /\ result' = [w \in PartIds |-> IF w[1] = q THEN "none" ELSE result[w]]
      /\ row' = [w \in PartIds |-> IF w[1] = q THEN "none" ELSE row[w]]
  BY DEF Again
<1>3. CallsTypeOK'
  <2>1. /\ phase' \in [Rpcs -> {"none", "task", "registered", "run", "leave", "over"}]
        /\ method' \in [Rpcs -> Methods] /\ rid' \in [Rpcs -> Ids] /\ alive' \in [Rpcs -> BOOLEAN]
        /\ answer' \in [Rpcs -> {"none", "error", "result"}]
    BY <1>1, <1>2 DEF CallsInv, CallsTypeOK, Go, Respond, Methods
  <2> QED
    BY <1>2, <2>1 DEF CallsInv, CallsTypeOK, groupVars
<1>4. OnlyRequest(q)
  BY <1>2 DEF CallsInv, CallsTypeOK, OnlyRequest, Go, Respond, groupVars
<1>5. phase'[q] = "none" /\ method'[q] = "plain"
  BY <1>2 DEF CallsInv, CallsTypeOK, Go
<1>6. \A w \in Of(q) : /\ w[1] = q /\ ~ leased[w] /\ at'[w] = "none" /\ hold'[w] = "none"
                        /\ result'[w] = "none" /\ row'[w] = "none"
  <2> SUFFICES ASSUME NEW w \in Of(q)
               PROVE  /\ w[1] = q /\ ~ leased[w] /\ at'[w] = "none" /\ hold'[w] = "none"
                      /\ result'[w] = "none" /\ row'[w] = "none"
    OBVIOUS
  <2>1. w \in PartIds /\ w[1] = q
    BY DEF PartIds, Of
  <2>2. ~ leased[w]
    BY <1>2, <2>1 DEF CallsInv, CallsTypeOK, PartInv, PartFine
  <2> QED
    BY <1>2, <2>1, <2>2
<1>7. RequestInv(q)'
  BY <1>2, <1>5, <1>6 DEF RequestInv, Inside, PartFine, RankFine, HeardFine, RowFine, Of
<1> QED
  BY <1>3, <1>4, <1>7, RequestMoves

\* The steps of the log, of the groups and of Close.
LEMMA ServiceSteps ==
  ASSUME CallsInv,
         \/ \E w \in PartIds : WriteRow(w)
         \/ EditGroups \/ Close \/ WorkEnds \/ LogsEnd \/ Restart
  PROVE  CallsInv'
<1>1. \A w \in PartIds : w[1] \in Rpcs
  BY DEF PartIds
<1>2. CASE \E w \in PartIds : WriteRow(w)
  <2> PICK w \in PartIds, r \in {"written", "failed"} :
        /\ row[w] = "queued" /\ row' = [row EXCEPT ![w] = r]
        /\ UNCHANGED <<requestVars, partVars, groupVars, closing>>
    BY <1>2 DEF WriteRow
  <2>1. CallsTypeOK'
    BY DEF CallsInv, CallsTypeOK, requestVars, partVars, groupVars
  <2>2. \A v \in PartIds : row'[v] = IF v = w THEN r ELSE row[v]
    BY DEF CallsInv, CallsTypeOK
  <2>3. GatewayInv'
    BY <2>2 DEF CallsInv, GatewayInv, RowFine, Inside, LogClosed, requestVars, groupVars
  <2>4. PartInv' /\ RankInv' /\ HeardInv'
    BY DEF CallsInv, PartInv, PartFine, Allowed, RankInv, RankFine, HeardInv, HeardFine, WaveEnds,
           Failed, requestVars, partVars, groupVars
  <2> QED
    BY <2>1, <2>3, <2>4 DEF CallsInv
<1>3. CASE EditGroups
  <2>1. /\ edits < MaxEdits /\ edits' = edits + 1
        /\ access' \in {"on", "entryOff", "off"}
        /\ seen' = [q \in Rpcs |-> IF Inside(q) THEN seen[q] \cup {access'} ELSE seen[q]]
        /\ UNCHANGED <<requestVars, partVars, row, dbFails, closing>>
    BY <1>3 DEF EditGroups
  <2>2. CallsTypeOK'
    <3>1. edits' \in 0 .. MaxEdits
      BY <2>1, GatewayCallsAssumption DEF CallsInv, CallsTypeOK
    <3>2. seen' \in [Rpcs -> SUBSET {"on", "entryOff", "off"}]
      BY <2>1 DEF CallsInv, CallsTypeOK
    <3> QED
      BY <2>1, <3>1, <3>2 DEF CallsInv, CallsTypeOK, requestVars, partVars
  <2>3. \A q \in Rpcs : seen[q] \subseteq seen'[q] /\ (Inside(q) => access' \in seen'[q])
    BY <2>1 DEF CallsInv, CallsTypeOK
  <2>4. GatewayInv' /\ HeardInv' /\ RankInv'
    BY <1>1, <2>1, <2>3 DEF CallsInv, GatewayInv, RowFine, Inside, LogClosed, HeardInv, HeardFine,
                                   RankInv, RankFine, WaveEnds, Failed, requestVars, partVars
  <2>5. PartInv'
    <3> SUFFICES ASSUME NEW w \in PartIds
                 PROVE  PartFine(w[1], at[w], leased[w], hold[w], result[w])'
      BY DEF PartInv
    <3>1. PartFine(w[1], at[w], leased[w], hold[w], result[w])
      BY DEF CallsInv, PartInv
    <3> QED
      BY <1>1, <2>1, <2>3, <3>1 DEF PartFine, Allowed, requestVars, partVars
  <2> QED
    BY <2>2, <2>4, <2>5 DEF CallsInv
<1>4. CASE Close
  <2>1. /\ closing = "no" /\ closing' = "work"
        /\ alive' = [q \in Rpcs |-> alive[q] /\ ~ Registered(q)]
        /\ UNCHANGED <<phase, method, rid, answer, partVars, row, groupVars>>
    BY <1>4 DEF Close
  <2>2. CallsTypeOK'
    <3>1. alive' \in [Rpcs -> BOOLEAN]
      BY <2>1 DEF Registered
    <3> QED
      BY <2>1, <3>1 DEF CallsInv, CallsTypeOK, partVars, groupVars
  <2>3. \A p \in Rpcs : WaveEnds(p) => WaveEnds(p)'
    BY <2>1 DEF CallsInv, CallsTypeOK, WaveEnds, Failed, partVars
  <2>4. PartInv' /\ GatewayInv' /\ HeardInv'
    BY <2>1 DEF CallsInv, PartInv, PartFine, Allowed, GatewayInv, RowFine, HeardInv, HeardFine,
                Inside, LogClosed, partVars, groupVars
  <2>5. RankInv'
    BY <1>1, <2>1, <2>3 DEF CallsInv, RankInv, RankFine, partVars
  <2> QED
    BY <2>2, <2>4, <2>5 DEF CallsInv
<1>5. CASE WorkEnds \/ LogsEnd \/ Restart
  <2>1. UNCHANGED <<requestVars, partVars, row, groupVars>>
    BY <1>5 DEF WorkEnds, LogsEnd, Restart
  <2>2. CallsTypeOK'
    BY <1>5, <2>1 DEF CallsInv, CallsTypeOK, WorkEnds, LogsEnd, Restart, requestVars, partVars,
                      groupVars
  <2>3. PartInv' /\ RankInv' /\ HeardInv'
    BY <2>1 DEF CallsInv, PartInv, PartFine, Allowed, RankInv, RankFine, HeardInv, HeardFine,
                WaveEnds, Failed, requestVars, partVars, groupVars
  <2>4. /\ WorkEnds => closing' = "logs" /\ \A q \in Rpcs : ~ Inside(q)
        /\ LogsEnd => closing' = "done" /\ LogClosed /\ \A w \in PartIds : row[w] # "queued"
        /\ Restart => closing' = "no"
    BY DEF WorkEnds, LogsEnd, Restart, LogClosed
  <2>5. GatewayInv'
    BY <1>5, <2>1, <2>4 DEF CallsInv, GatewayInv, RowFine, Inside, LogClosed, requestVars, groupVars
  <2> QED
    BY <2>2, <2>3, <2>5 DEF CallsInv
<1> QED
  BY <1>2, <1>3, <1>4, <1>5

\* The invariant is inductive.
LEMMA CallsStep ==
  ASSUME CallsInv, [CallsNext]_callVars
  PROVE  CallsInv'
<1>1. CASE \E q \in Rpcs :
             \/ Refused(q) \/ Arrive(q) \/ Register(q) \/ Inform(q) \/ Search(q) \/ Invalid(q)
             \/ Empty(q) \/ Dispatch(q) \/ Cancel(q) \/ GatherList(q) \/ GatherCalls(q)
             \/ NextWave(q) \/ GatherRank(q) \/ Leave(q) \/ Again(q)
  BY <1>1, ArriveKeeps, RegisterKeeps, AnswerNowKeeps, DispatchKeeps, CancelKeeps, GatherKeeps,
     NextWaveKeeps, LeaveKeeps, AgainKeeps
<1>2. CASE \E w \in PartIds : \/ PartStep(w) \/ Upstream(w) \/ Deadline(w) \/ Cancelled(w)
  BY <1>2, PartSteps
<1>3. CASE \/ \E w \in PartIds : WriteRow(w)
           \/ EditGroups \/ Close \/ WorkEnds \/ LogsEnd \/ Restart
  BY <1>3, ServiceSteps
<1>4. CASE UNCHANGED callVars
  BY <1>4, CallsStutter
<1> QED
  BY <1>1, <1>2, <1>3, <1>4 DEF CallsNext, PartStep

THEOREM RequestsInvariant == CallsSpec => []CallsInv
BY CallsStart, CallsStep, PTL DEF CallsSpec

\* Every variable of the gateway's requests keeps its type.
THEOREM RequestsType == CallsSpec => []CallsTypeOK
<1>1. CallsInv => CallsTypeOK
  BY DEF CallsInv
<1> QED
  BY <1>1, RequestsInvariant, PTL

\* A request is answered, and its task over, only when every part of it has given
\* back its session and settled its hold, and a smart search is answered with a
\* choice that was heard.
THEOREM RequestsSettled == CallsSpec => []AnsweredIsSettled
<1>1. ASSUME CallsInv
      PROVE  AnsweredIsSettled
  <2> SUFFICES ASSUME NEW q \in Rpcs, phase[q] \in {"none", "leave", "over"}, NEW w \in Of(q)
               PROVE  /\ at[w] \in {"none", "done"} /\ ~ leased[w] /\ hold[w] # "pending"
                      /\ answer[q] = "result" /\ method[q] = "rank" /\ at[w] = "done" =>
                           result[w] = "ok"
    BY DEF AnsweredIsSettled
  <2>1. w \in PartIds /\ w[1] = q
    BY DEF PartIds, Of
  <2>2. PartFine(q, at[w], leased[w], hold[w], result[w]) /\ HeardFine(w)
    BY <1>1, <2>1 DEF CallsInv, PartInv, HeardInv
  <2>3. leased[w] \in BOOLEAN
    BY <1>1, <2>1 DEF CallsInv, CallsTypeOK
  <2> QED
    BY <2>1, <2>2, <2>3 DEF PartFine, HeardFine
<1> QED
  BY <1>1, RequestsInvariant, PTL

\* An entry is called only for a request that came before the groups of its key
\* stopped to enable it.
THEOREM RequestsAllowed == CallsSpec => []CallsAllowed
<1>1. ASSUME CallsInv
      PROVE  CallsAllowed
  <2> SUFFICES ASSUME NEW q \in Rpcs, NEW w \in Of(q),
                      at[w] \in {"call", "settle"}, method[q] \in CallMethods
               PROVE  Allowed(q)
    BY DEF CallsAllowed, Allowed
  <2>1. w \in PartIds /\ w[1] = q
    BY DEF PartIds, Of
  <2> QED
    BY <1>1, <2>1 DEF CallsInv, PartInv, PartFine
<1> QED
  BY <1>1, RequestsInvariant, PTL

\* The gateway stops without losing a row of the log or a leased session.
THEOREM RequestsLogged == CallsSpec => []NoRowDropped
<1>1. ASSUME CallsInv
      PROVE  NoRowDropped
  <2> SUFFICES ASSUME NEW w \in PartIds
               PROVE  /\ row[w] # "dropped"
                      /\ closing = "done" => row[w] # "queued" /\ ~ leased[w]
    BY DEF NoRowDropped
  <2>1. w[1] \in Rpcs /\ leased[w] \in BOOLEAN
    BY <1>1 DEF CallsInv, CallsTypeOK, PartIds
  <2>2. PartFine(w[1], at[w], leased[w], hold[w], result[w]) /\ RowFine(w)
    BY <1>1 DEF CallsInv, PartInv, GatewayInv
  <2>3. closing = "done" => phase[w[1]] # "run"
    BY <1>1, <2>1 DEF CallsInv, GatewayInv, Inside, LogClosed
  <2> QED
    BY <2>1, <2>2, <2>3 DEF PartFine, RowFine
<1> QED
  BY <1>1, RequestsInvariant, PTL
===============================================================================
