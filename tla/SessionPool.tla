----------------------------- MODULE SessionPool -----------------------------
(***************************************************************************)
(* The pool of upstream MCP sessions, internal/mcp/bridge/session_pool.go, *)
(* with the four parties that change it: request goroutines that connect   *)
(* and lease sessions, the inbound WebSockets of passive services          *)
(* (router/passive_ws.go), the handlers that edit a service row and kick   *)
(* its session (service/service.go, service/marketplace.go), and the       *)
(* background work: Done watchers, the idle reaper, shutdown.              *)
(*                                                                         *)
(* Each critical section of p.mu is one step.  The per-key connect lock    *)
(* (KeyedLock, implemented by KeyedMutex) is held exactly while a party is *)
(* at one of the program points named in InSection, so it needs no         *)
(* variable of its own.  Closing an adapter is a step after the one that   *)
(* takes the session out of the map, as in the code.                       *)
(***************************************************************************)
EXTENDS Naturals, FiniteSets

CONSTANTS Callers,   \* request goroutines
          Keys,      \* session keys
          Kind,      \* Kind[k]: what sort of service the key stands for
          Adapters,  \* transport connections; each is created at most once per run
          None,
          Limit,     \* SharedStdioMaxConcurrency, 0 for no limit
          MaxEdits   \* bound on the edits of a service row

Kinds == {"own",        \* a user's own service, keyed by its row
          "isolated",   \* marketplace stdio service, one process per installation
          "shared",     \* marketplace stdio item, one process for all users
          "passive"}    \* a local server that dials in over WebSocket

ASSUME KeysAssumption == Keys # {}
ASSUME KindAssumption == Kind \in [Keys -> Kinds]
ASSUME PoolNoneAssumption == None \notin Adapters
ASSUME LimitAssumption == Limit \in Nat
ASSUME MaxEditsAssumption == MaxEdits \in Nat
ASSUME FiniteCallersAssumption == IsFiniteSet(Callers)

Passive(k) == Kind[k] = "passive"
Reapable(k) == Kind[k] \in {"isolated", "shared"}
\* Rows of own and passive services are edited under WithServiceLock; an item
\* of the marketplace is edited without it.
LockedEdit(k) == Kind[k] \in {"own", "passive"}

VARIABLES
  pool,     \* p.sessions: the session of each key
  closed,   \* p.closed
  conn,     \* the connection of each adapter
  keyOf,    \* the key an adapter was created for
  cred,     \* version of the service row an adapter was created from
  inUse,    \* session.inUse
  reaped,   \* the part of closing that the idle reaper took out
  closing,  \* sessions taken out of the map whose Adapter.Close is to come
  victim,   \* the session that the holder of a key's lock is closing
  req,      \* the request goroutines: program point, key, version, session, attempt
  wpc,      \* the Done watcher of each session
  hpc,      \* the inbound WebSocket handler of each passive adapter
  status, ver, online,           \* the service row: status, config/token, passive_connected
  apc,      \* the handler that edits each service row
  seen      \* the passive_connected that handler read

leaseVars == <<inUse, reaped>>
poolVars == <<pool, closed, closing, victim, online>>
bornVars == <<keyOf, cred>>
rowVars == <<status, ver>>
editVars == <<apc, seen>>
vars == <<poolVars, conn, bornVars, leaseVars, req, wpc, hpc, rowVars, editVars>>

CallerPoints == {"idle", "find", "lock", "recheck", "dial", "publish", "closeOld",
                 "lease", "using"}
WatchPoints == {"none", "watching", "lock", "remove", "closeOld"}
InboundPoints == {"none", "handshake", "lock", "check", "publish", "closeOld", "open", "done"}
EditPoints == {"idle", "save", "remove", "closeOld"}

Requests == [at : CallerPoints, key : Keys, snap : 0 .. MaxEdits,
             sess : Adapters \cup {None}, tries : 0 .. 1]

TypeOK ==
  /\ pool \in [Keys -> Adapters \cup {None}]
  /\ closed \in BOOLEAN
  /\ conn \in [Adapters -> {"free", "up", "down", "closed"}]
  /\ keyOf \in [Adapters -> Keys]
  /\ cred \in [Adapters -> 0 .. MaxEdits]
  /\ inUse \in [Adapters -> Nat]
  /\ reaped \in SUBSET Adapters
  /\ closing \in SUBSET Adapters
  /\ victim \in [Keys -> Adapters \cup {None}]
  /\ req \in [Callers -> Requests]
  /\ wpc \in [Adapters -> WatchPoints]
  /\ hpc \in [Adapters -> InboundPoints]
  /\ status \in [Keys -> {"enabled", "disabled", "deleted"}]
  /\ ver \in [Keys -> 0 .. MaxEdits]
  /\ online \in [Keys -> BOOLEAN]
  /\ apc \in [Keys -> EditPoints]
  /\ seen \in [Keys -> BOOLEAN]

-----------------------------------------------------------------------------
(* Shared steps of the pool.                                               *)

Up(a) == a # None /\ conn[a] = "up"
Connected(k) == Up(pool[k])

\* Who is inside the connect lock of a key.
CallersInside(k) ==
  {c \in Callers : req[c].key = k /\ req[c].at \in {"recheck", "dial", "publish", "closeOld"}}
WatchersInside(k) ==
  {a \in Adapters : keyOf[a] = k /\ wpc[a] \in {"remove", "closeOld"}}
InboundInside(k) ==
  {a \in Adapters : keyOf[a] = k /\ hpc[a] \in {"check", "publish", "closeOld"}}
EditInside(k) == LockedEdit(k) /\ apc[k] # "idle"

LockFree(k) ==
  /\ CallersInside(k) = {}
  /\ WatchersInside(k) = {}
  /\ InboundInside(k) = {}
  /\ ~ EditInside(k)

\* delete(p.sessions, ...) for the keys K, with markPassiveOfflineLocked: the
\* adapters still have to be closed, which happens outside p.mu.
TakeOut(K) ==
  /\ pool' = [k \in Keys |-> IF k \in K THEN None ELSE pool[k]]
  /\ closing' = closing \cup ({pool[k] : k \in K} \ {None})
  /\ online' = [k \in Keys |-> online[k] /\ ~ (k \in K /\ Passive(k) /\ pool[k] # None)]

\* p.sessions[key] = session: the old session, if any, is closed by the caller.
SwapIn(k, a) ==
  /\ pool' = [pool EXCEPT ![k] = a]
  /\ closing' = closing \cup ({pool[k]} \ {None})
  /\ victim' = [victim EXCEPT ![k] = pool[k]]

\* The holder of the lock of k has nothing left to close.
VictimClosed(k) == victim[k] \in {None} \cup {a \in Adapters : conn[a] = "closed"}

AnyKey == CHOOSE k \in Keys : TRUE
NoRequest == [at |-> "idle", key |-> AnyKey, snap |-> 0, sess |-> None, tries |-> 0]

Init ==
  /\ pool = [k \in Keys |-> None]
  /\ closed = FALSE
  /\ conn = [a \in Adapters |-> "free"]
  /\ keyOf = [a \in Adapters |-> AnyKey]
  /\ cred = [a \in Adapters |-> 0]
  /\ inUse = [a \in Adapters |-> 0]
  /\ reaped = {}
  /\ closing = {}
  /\ victim = [k \in Keys |-> None]
  /\ req = [c \in Callers |-> NoRequest]
  /\ wpc = [a \in Adapters |-> "none"]
  /\ hpc = [a \in Adapters |-> "none"]
  /\ status = [k \in Keys |-> "enabled"]
  /\ ver = [k \in Keys |-> 0]
  /\ online = [k \in Keys |-> FALSE]
  /\ apc = [k \in Keys |-> "idle"]
  /\ seen = [k \in Keys |-> FALSE]

-----------------------------------------------------------------------------
(* A request goroutine: Acquire, GetOrConnect, publishSessionLocked and      *)
(* acquireExisting.                                                          *)

Goto(c, l) == req' = [req EXCEPT ![c].at = l]
Return(c) == req' = [req EXCEPT ![c] = NoRequest]
Have(c, a, l) == req' = [req EXCEPT ![c].sess = a, ![c].at = l]

\* A retry counter that is bumped twice (to test the checks).
AskingTwice(k, v, n) == [at |-> "find", key |-> k, snap |-> v, sess |-> None, tries |-> 2 * n]

\* A request for key k with version v of the row, in round n of Acquire.
Asking(k, v, n) == [at |-> "find", key |-> k, snap |-> v, sess |-> None, tries |-> n]

\* A call arrives and reads the service row it will connect with.
Request(c, k) ==
  /\ req[c].at = "idle"
  /\ status[k] = "enabled"
  /\ req' = [req EXCEPT ![c] = Asking(k, ver[k], 0)]
  /\ UNCHANGED <<poolVars, conn, bornVars, leaseVars, wpc, hpc, rowVars, editVars>>

\* connectedSession; on a miss, GetOrConnect gives up on a closed pool and on
\* a passive service, and queues for the connect lock otherwise.
Find(c) ==
  LET k == req[c].key IN
  /\ req[c].at = "find"
  /\ \/ Connected(k) /\ Have(c, pool[k], "lease")
     \/ ~ Connected(k) /\ (closed \/ Passive(k)) /\ Return(c)
     \/ ~ Connected(k) /\ ~ closed /\ ~ Passive(k) /\ Goto(c, "lock")
  /\ UNCHANGED <<poolVars, conn, bornVars, leaseVars, wpc, hpc, rowVars, editVars>>

LockKey(c) ==
  /\ req[c].at = "lock"
  /\ LockFree(req[c].key)
  /\ Goto(c, "recheck")
  /\ UNCHANGED <<poolVars, conn, bornVars, leaseVars, wpc, hpc, rowVars, editVars>>

\* No double check (to test the checks).
RecheckSkipped(c) ==
  /\ req[c].at = "recheck"
  /\ Goto(c, "dial")
  /\ UNCHANGED <<poolVars, conn, bornVars, leaseVars, wpc, hpc, rowVars, editVars>>

\* The double check under the lock; a hit releases the lock.
Recheck(c) ==
  LET k == req[c].key IN
  /\ req[c].at = "recheck"
  /\ IF Connected(k) THEN Have(c, pool[k], "lease") ELSE Goto(c, "dial")
  /\ UNCHANGED <<poolVars, conn, bornVars, leaseVars, wpc, hpc, rowVars, editVars>>

\* adapter.Connect succeeds, at the first attempt or at the retry of a
\* multi-key service, with the configuration the request carries.
DialOk(c, a) ==
  /\ req[c].at = "dial"
  /\ conn[a] = "free"
  /\ conn' = [conn EXCEPT ![a] = "up"]
  /\ keyOf' = [keyOf EXCEPT ![a] = req[c].key]
  /\ cred' = [cred EXCEPT ![a] = req[c].snap]
  /\ Have(c, a, "publish")
  /\ UNCHANGED <<poolVars, leaseVars, wpc, hpc, rowVars, editVars>>

\* A failed dial is retried without end (to test the checks).
DialFailRetries(c) ==
  /\ req[c].at = "dial"
  /\ Goto(c, "recheck")
  /\ UNCHANGED <<poolVars, conn, bornVars, leaseVars, wpc, hpc, rowVars, editVars>>

\* Every attempt fails; the failed adapters are closed on the spot.
DialFail(c) ==
  /\ req[c].at = "dial"
  /\ Return(c)
  /\ UNCHANGED <<poolVars, conn, bornVars, leaseVars, wpc, hpc, rowVars, editVars>>

\* publishSessionLocked of an outbound session: refused after CloseAll, and
\* then GetOrConnect closes the adapter.
Publish(c) ==
  /\ req[c].at = "publish"
  /\ ~ closed
  /\ SwapIn(req[c].key, req[c].sess)
  /\ Goto(c, "closeOld")
  /\ UNCHANGED <<closed, online, conn, bornVars, leaseVars, wpc, hpc, rowVars, editVars>>

PublishRefused(c) ==
  /\ req[c].at = "publish"
  /\ closed
  /\ conn' = [conn EXCEPT ![req[c].sess] = "closed"]
  /\ Return(c)
  /\ UNCHANGED <<poolVars, bornVars, leaseVars, wpc, hpc, rowVars, editVars>>

\* The replaced session is closed, observeSession starts the watcher and the
\* lock is released.
FinishPublish(c) ==
  /\ req[c].at = "closeOld"
  /\ VictimClosed(req[c].key)
  /\ victim' = [victim EXCEPT ![req[c].key] = None]
  /\ wpc' = [wpc EXCEPT ![req[c].sess] = "watching"]
  /\ Goto(c, "lease")
  /\ UNCHANGED <<pool, closed, closing, online, conn, bornVars, leaseVars, hpc, rowVars,
                 editVars>>

\* An off-by-one in the limit (to test the checks).
BusyOffByOne(a) == Kind[keyOf[a]] = "shared" /\ Limit # 0 /\ inUse[a] > Limit

\* busyLocked
Busy(a) == Kind[keyOf[a]] = "shared" /\ Limit # 0 /\ inUse[a] >= Limit

\* acquireExisting: the session must still be the pool's, and connected.
Current(c) == pool[req[c].key] = req[c].sess /\ Up(req[c].sess)

Lease(c) ==
  /\ req[c].at = "lease"
  /\ Current(c)
  /\ ~ Busy(req[c].sess)
  /\ inUse' = [inUse EXCEPT ![req[c].sess] = @ + 1]
  /\ Goto(c, "using")
  /\ UNCHANGED <<poolVars, conn, bornVars, reaped, wpc, hpc, rowVars, editVars>>

\* ErrServiceBusy is final; a session that was removed meanwhile is looked for
\* once more.
LeaseRefused(c) ==
  /\ req[c].at = "lease"
  /\ Current(c) => Busy(req[c].sess)
  /\ IF ~ Current(c) /\ req[c].tries = 0
       THEN req' = [req EXCEPT ![c] = Asking(req[c].key, req[c].snap, 1)]
       ELSE Return(c)
  /\ UNCHANGED <<poolVars, conn, bornVars, leaseVars, wpc, hpc, rowVars, editVars>>

\* The release function of a lease.
Release(c) ==
  /\ req[c].at = "using"
  /\ inUse' = [inUse EXCEPT ![req[c].sess] = IF @ > 0 THEN @ - 1 ELSE @]
  /\ Return(c)
  /\ UNCHANGED <<poolVars, conn, bornVars, reaped, wpc, hpc, rowVars, editVars>>

CallerStep(c) ==
  \/ \E k \in Keys : Request(c, k)
  \/ Find(c) \/ LockKey(c) \/ Recheck(c)
  \/ (\E a \in Adapters : DialOk(c, a)) \/ DialFail(c)
  \/ Publish(c) \/ PublishRefused(c) \/ FinishPublish(c)
  \/ Lease(c) \/ LeaseRefused(c) \/ Release(c)

-----------------------------------------------------------------------------
(* An inbound WebSocket of a passive service: HandlePassiveWebSocket and     *)
(* AttachPassiveLocked.                                                      *)

HGoto(a, l) == hpc' = [hpc EXCEPT ![a] = l]

\* ValidatePassiveToken accepts the token before the upgrade.
Accept(a, k) ==
  /\ conn[a] = "free" /\ hpc[a] = "none"
  /\ Passive(k) /\ status[k] = "enabled"
  /\ conn' = [conn EXCEPT ![a] = "up"]
  /\ keyOf' = [keyOf EXCEPT ![a] = k]
  /\ cred' = [cred EXCEPT ![a] = ver[k]]
  /\ HGoto(a, "handshake")
  /\ UNCHANGED <<poolVars, leaseVars, req, wpc, rowVars, editVars>>

\* The MCP handshake on the new socket succeeds, or fails and the handler
\* returns, whose deferred Close ends the socket.
Handshake(a) ==
  /\ hpc[a] = "handshake"
  /\ \/ Up(a) /\ HGoto(a, "lock") /\ UNCHANGED conn
     \/ HGoto(a, "done") /\ conn' = [conn EXCEPT ![a] = "closed"]
  /\ UNCHANGED <<poolVars, bornVars, leaseVars, req, wpc, rowVars, editVars>>

InboundLock(a) ==
  /\ hpc[a] = "lock"
  /\ LockFree(keyOf[a])
  /\ HGoto(a, "check")
  /\ UNCHANGED <<poolVars, conn, bornVars, leaseVars, req, wpc, rowVars, editVars>>

\* The token is not validated again (to test the checks).
InboundUnchecked(a) ==
  /\ hpc[a] = "check"
  /\ HGoto(a, "publish")
  /\ UNCHANGED <<poolVars, conn, bornVars, leaseVars, req, wpc, rowVars, editVars>>

\* The token is validated again under the lock.
InboundCheck(a) ==
  LET k == keyOf[a] IN
  /\ hpc[a] = "check"
  /\ IF status[k] = "enabled" /\ cred[a] = ver[k] /\ Up(a)
       THEN HGoto(a, "publish") /\ UNCHANGED conn
       ELSE HGoto(a, "done") /\ conn' = [conn EXCEPT ![a] = "closed"]
  /\ UNCHANGED <<poolVars, bornVars, leaseVars, req, wpc, rowVars, editVars>>

\* publishSessionLocked of an inbound session: the row says connected before
\* the map does, both under p.mu.
Attach(a) ==
  LET k == keyOf[a] IN
  /\ hpc[a] = "publish"
  /\ ~ closed /\ Up(a)
  /\ online' = [online EXCEPT ![k] = TRUE]
  /\ SwapIn(k, a)
  /\ HGoto(a, "closeOld")
  /\ UNCHANGED <<closed, conn, bornVars, leaseVars, req, wpc, rowVars, editVars>>

\* The handler forgets to close the socket it may not attach (to test the checks).
AttachFailLeaks(a) ==
  /\ hpc[a] = "publish"
  /\ HGoto(a, "done")
  /\ UNCHANGED <<poolVars, conn, bornVars, leaseVars, req, wpc, rowVars, editVars>>

\* The pool is closed, the socket is gone, or the row cannot be written: the
\* old session stays and the handler closes the new socket.
AttachFail(a) ==
  /\ hpc[a] = "publish"
  /\ HGoto(a, "done")
  /\ conn' = [conn EXCEPT ![a] = "closed"]
  /\ UNCHANGED <<poolVars, bornVars, leaseVars, req, wpc, rowVars, editVars>>

FinishAttach(a) ==
  /\ hpc[a] = "closeOld"
  /\ VictimClosed(keyOf[a])
  /\ victim' = [victim EXCEPT ![keyOf[a]] = None]
  /\ wpc' = [wpc EXCEPT ![a] = "watching"]
  /\ HGoto(a, "open")
  /\ UNCHANGED <<pool, closed, conn, bornVars, leaseVars, closing, req, rowVars,
                 online, editVars>>

\* <-adapter.Done() fires and the deferred Close runs.
HandlerReturns(a) ==
  /\ hpc[a] = "open"
  /\ ~ Up(a)
  /\ conn' = [conn EXCEPT ![a] = "closed"]
  /\ HGoto(a, "done")
  /\ UNCHANGED <<poolVars, bornVars, leaseVars, req, wpc, rowVars, editVars>>

InboundStep(a) ==
  \/ \E k \in Keys : Accept(a, k)
  \/ Handshake(a) \/ InboundLock(a) \/ InboundCheck(a) \/ Attach(a) \/ AttachFail(a)
  \/ FinishAttach(a) \/ HandlerReturns(a)

-----------------------------------------------------------------------------
(* The Done watcher of a session: observeSession and removeIfCurrent.        *)

WGoto(a, l) == wpc' = [wpc EXCEPT ![a] = l]

\* The connection is lost; or the session has left the pool, closeSession
\* cancels its context, and the select may take either branch.
WatchFires(a) ==
  /\ wpc[a] = "watching"
  /\ \/ conn[a] \in {"down", "closed"} /\ WGoto(a, "lock")
     \/ pool[keyOf[a]] # a /\ WGoto(a, "none")
  /\ UNCHANGED <<poolVars, conn, bornVars, leaseVars, req, hpc, rowVars, editVars>>

\* The watcher gives up when the lock is taken (to test the checks).
WatchTryLock(a) ==
  /\ wpc[a] = "lock"
  /\ WGoto(a, IF LockFree(keyOf[a]) THEN "remove" ELSE "none")
  /\ UNCHANGED <<poolVars, conn, bornVars, leaseVars, req, hpc, rowVars, editVars>>

\* withSessionLock of the watcher
WatchLock(a) ==
  /\ wpc[a] = "lock"
  /\ LockFree(keyOf[a])
  /\ WGoto(a, "remove")
  /\ UNCHANGED <<poolVars, conn, bornVars, leaseVars, req, hpc, rowVars, editVars>>

RemoveIfCurrent(a) ==
  /\ wpc[a] = "remove"
  /\ IF pool[keyOf[a]] = a
       THEN /\ TakeOut({keyOf[a]})
            /\ victim' = [victim EXCEPT ![keyOf[a]] = a]
            /\ WGoto(a, "closeOld")
       ELSE /\ WGoto(a, "none")
            /\ UNCHANGED <<pool, closing, online, victim>>
  /\ UNCHANGED <<closed, conn, bornVars, leaseVars, req, hpc, rowVars, editVars>>

WatchEnds(a) ==
  /\ wpc[a] = "closeOld"
  /\ VictimClosed(keyOf[a])
  /\ victim' = [victim EXCEPT ![keyOf[a]] = None]
  /\ WGoto(a, "none")
  /\ UNCHANGED <<pool, closed, conn, bornVars, leaseVars, closing, req, hpc, rowVars,
                 online, editVars>>

WatchStep(a) == WatchFires(a) \/ WatchLock(a) \/ RemoveIfCurrent(a) \/ WatchEnds(a)

-----------------------------------------------------------------------------
(* The handlers that edit a service row and then kick its session:           *)
(* McpServiceService.Update, Delete and ResetPassiveToken under the service  *)
(* lock, MarketplaceService.UpdateItem and DeleteItem without it.            *)

AGoto(k, l) == apc' = [apc EXCEPT ![k] = l]

EditBegins(k) ==
  /\ apc[k] = "idle" /\ status[k] # "deleted"
  /\ LockedEdit(k) => LockFree(k)
  /\ seen' = [seen EXCEPT ![k] = online[k]]
  /\ AGoto(k, "save")
  /\ UNCHANGED <<poolVars, conn, bornVars, leaseVars, req, wpc, hpc, rowVars>>

\* A new configuration, or a new token for a passive service; the statement
\* that writes a token also clears passive_connected.
ChangeRow(k) ==
  /\ ver[k] < MaxEdits
  /\ ver' = [ver EXCEPT ![k] = @ + 1]
  /\ online' = [online EXCEPT ![k] = FALSE]
  /\ UNCHANGED status

\* Switching a service off or on saves the whole row (DB.Save), the
\* passive_connected that was read with it included.
SwitchRow(k, s) ==
  /\ status' = [status EXCEPT ![k] = s]
  /\ online' = [online EXCEPT ![k] = seen[k]]
  /\ UNCHANGED ver

DeleteRow(k) ==
  /\ status' = [status EXCEPT ![k] = "deleted"]
  /\ online' = [online EXCEPT ![k] = FALSE]
  /\ UNCHANGED ver

\* Only switching on leaves the session alone.
EditSaves(k) ==
  /\ apc[k] = "save"
  /\ \/ (ChangeRow(k) \/ SwitchRow(k, "disabled") \/ DeleteRow(k)) /\ AGoto(k, "remove")
     \/ SwitchRow(k, "enabled") /\ AGoto(k, "idle")
  /\ UNCHANGED <<pool, closed, conn, bornVars, leaseVars, closing, victim, req, wpc,
                 hpc, seen>>

\* Remove / RemoveByMarketplaceItem
EditRemoves(k) ==
  /\ apc[k] = "remove"
  /\ TakeOut({k})
  /\ IF LockedEdit(k)
       THEN victim' = [victim EXCEPT ![k] = pool[k]] /\ AGoto(k, "closeOld")
       ELSE AGoto(k, "idle") /\ UNCHANGED victim
  /\ UNCHANGED <<closed, conn, bornVars, leaseVars, req, wpc, hpc, rowVars, seen>>

EditEnds(k) ==
  /\ apc[k] = "closeOld"
  /\ VictimClosed(k)
  /\ victim' = [victim EXCEPT ![k] = None]
  /\ AGoto(k, "idle")
  /\ UNCHANGED <<pool, closed, conn, bornVars, leaseVars, closing, req, wpc, hpc,
                 rowVars, online, seen>>

EditStep(k) == EditBegins(k) \/ EditSaves(k) \/ EditRemoves(k) \/ EditEnds(k)

-----------------------------------------------------------------------------
(* The rest: the reaper, process control, shutdown, and the outside world.   *)

\* Idle by the clock alone, leases ignored (to test the checks).
IdleByClock(k) == pool[k] # None /\ Reapable(k)

\* ReleaseIdlePlatformStdio: one sweep over the whole map under p.mu.  Time is
\* not modelled: any session nobody leases may have passed the cutoff.
Idle(k) == pool[k] # None /\ Reapable(k) /\ inUse[pool[k]] = 0

Reap ==
  \E K \in SUBSET {k \in Keys : Idle(k)} \ {{}} :
    /\ TakeOut(K)
    /\ reaped' = reaped \cup {pool[k] : k \in K}
    /\ UNCHANGED <<closed, conn, bornVars, inUse, victim, req, wpc, hpc, rowVars,
                 editVars>>

\* A removal without the lock and without an edit of the row: stop or restart
\* of a process, by its user or the platform, or a changed key pool.
StopProcess(k) ==
  /\ ~ Passive(k) /\ pool[k] # None
  /\ TakeOut({k})
  /\ UNCHANGED <<closed, conn, bornVars, leaseVars, victim, req, wpc, hpc, rowVars,
                 editVars>>

CloseAll ==
  /\ ~ closed
  /\ closed' = TRUE
  /\ TakeOut(Keys)
  /\ UNCHANGED <<conn, bornVars, leaseVars, victim, req, wpc, hpc, rowVars, editVars>>

\* closeSession of a session that was taken out of the map.
CloseAdapter(a) ==
  /\ a \in closing
  /\ closing' = closing \ {a}
  /\ reaped' = reaped \ {a}
  /\ conn' = [conn EXCEPT ![a] = "closed"]
  /\ UNCHANGED <<pool, closed, bornVars, inUse, victim, req, wpc, hpc, rowVars,
                 online, editVars>>

\* A process exits or a peer goes away.
Drop(a) ==
  /\ conn[a] = "up"
  /\ conn' = [conn EXCEPT ![a] = "down"]
  /\ UNCHANGED <<poolVars, bornVars, leaseVars, req, wpc, hpc, rowVars, editVars>>

\* The server process dies and starts again: everything in memory is gone,
\* the rows stay, and InitializePassiveServices discards the online flags.
Restart ==
  /\ pool' = [k \in Keys |-> None]
  /\ closed' = FALSE
  /\ conn' = [a \in Adapters |-> "free"]
  /\ keyOf' = [a \in Adapters |-> AnyKey]
  /\ cred' = [a \in Adapters |-> 0]
  /\ inUse' = [a \in Adapters |-> 0]
  /\ reaped' = {}
  /\ closing' = {}
  /\ victim' = [k \in Keys |-> None]
  /\ req' = [c \in Callers |-> NoRequest]
  /\ wpc' = [a \in Adapters |-> "none"]
  /\ hpc' = [a \in Adapters |-> "none"]
  /\ online' = [k \in Keys |-> FALSE]
  /\ apc' = [k \in Keys |-> "idle"]
  /\ seen' = [k \in Keys |-> FALSE]
  /\ UNCHANGED rowVars

Next ==
  \/ \E c \in Callers : CallerStep(c)
  \/ \E a \in Adapters : InboundStep(a) \/ WatchStep(a) \/ CloseAdapter(a) \/ Drop(a)
  \/ \E k \in Keys : EditStep(k) \/ StopProcess(k)
  \/ Reap \/ CloseAll \/ Restart

SafetySpec == Init /\ [][Next]_vars

-----------------------------------------------------------------------------
(* Safety.                                                                   *)

InPool(a) == \E k \in Keys : pool[k] = a

\* Nothing connected is forgotten: a live connection is in the pool, about to
\* be closed, or in the hands of the goroutine or handler that will publish or
\* close it.  A leaked stdio adapter is an orphan child process.
NoLeakedConnection ==
  \A a \in Adapters :
    conn[a] \in {"up", "down"} =>
      \/ InPool(a) \/ a \in closing
      \/ \E c \in Callers : req[c].at = "publish" /\ req[c].sess = a
      \/ hpc[a] \in {"handshake", "lock", "check", "publish"}
      \/ hpc[a] = "open" /\ conn[a] = "down"

\* At most one outbound connection of a key is alive, those being closed
\* aside: racing requests never start a second process for a service.
OneProcessPerKey ==
  \A a, b \in Adapters :
    /\ Up(a) /\ Up(b) /\ keyOf[a] = keyOf[b] /\ ~ Passive(keyOf[a])
    /\ a \notin closing /\ b \notin closing
    => a = b

\* The counter behind the shared-process limit counts the leases.
Users(a) == {c \in Callers : req[c].at = "using" /\ req[c].sess = a}

LeaseCountExact ==
  \A a \in Adapters : inUse[a] = Cardinality(Users(a))

\* A shared process never serves more requests than SharedStdioMaxConcurrency.
SharedLimitRespected ==
  \A a \in Adapters :
    Limit # 0 /\ Kind[keyOf[a]] = "shared" =>
      Cardinality(Users(a)) <= Limit

\* The idle reaper never takes a session away from a request that uses it,
\* whatever the request does between finding the session and leasing it.
ReaperSparesLeased == \A c \in Callers : req[c].at = "using" => req[c].sess \notin reaped

\* After CloseAll nothing is published again.
ClosedPoolStaysEmpty == closed => \A k \in Keys : pool[k] = None

\* A passive session in the pool was let in by the token and status its row
\* has now, except while the edit that replaced them is about to kick it.
PassiveCredentialCurrent ==
  \A k \in Keys :
    Passive(k) /\ pool[k] # None =>
      \/ status[k] = "enabled" /\ cred[pool[k]] = ver[k]
      \/ apc[k] = "remove"

\* The row of a passive service says connected only while the pool has a
\* session for it.  At shutdown an edit may write a stale flag back, which the
\* next start discards.
OnlineMeansAttached == ~ closed => \A k \in Keys : online[k] => pool[k] # None

-----------------------------------------------------------------------------
(* What a comment promises of an edit, and a request that read the row       *)
(* before the edit breaks.                                                   *)

\* service/service.go: disabling a service stops its process at once.
DisabledMeansStopped ==
  \A k \in Keys : status[k] = "disabled" /\ apc[k] = "idle" => ~ Connected(k)

-----------------------------------------------------------------------------
(* Liveness.  Every dial, database statement and Close in the code carries a *)
(* deadline, so the goroutines keep moving; a connect lock is handed to its  *)
(* waiters in turn (KeyedMutex).  Requests, edits, the reaper and failures   *)
(* are not assumed to happen.                                                *)

Fairness ==
  /\ \A c \in Callers :
       /\ WF_vars(Find(c)) /\ SF_vars(LockKey(c)) /\ WF_vars(Recheck(c))
       /\ WF_vars((\E a \in Adapters : DialOk(c, a)) \/ DialFail(c))
       /\ WF_vars(Publish(c) \/ PublishRefused(c)) /\ WF_vars(FinishPublish(c))
       /\ WF_vars(Lease(c) \/ LeaseRefused(c))
  /\ \A a \in Adapters :
       /\ WF_vars(Handshake(a)) /\ SF_vars(InboundLock(a)) /\ WF_vars(InboundCheck(a))
       /\ WF_vars(Attach(a) \/ AttachFail(a)) /\ WF_vars(FinishAttach(a))
       /\ WF_vars(HandlerReturns(a))
       /\ WF_vars(WatchFires(a)) /\ SF_vars(WatchLock(a)) /\ WF_vars(RemoveIfCurrent(a))
       /\ WF_vars(WatchEnds(a)) /\ WF_vars(CloseAdapter(a))
  /\ \A k \in Keys : WF_vars(EditSaves(k)) /\ WF_vars(EditRemoves(k)) /\ WF_vars(EditEnds(k))

Spec == SafetySpec /\ Fairness

\* Every call is answered: nobody waits for ever for a connect lock, whoever
\* holds it and whatever that holder has to close first.
CallsAnswered == \A c \in Callers : req[c].at = "find" ~> req[c].at \in {"idle", "using"}

\* A lost connection does not stay in the pool.
LostConnectionLeaves ==
  \A k \in Keys, a \in Adapters : pool[k] = a /\ ~ Up(a) ~> pool[k] # a

===============================================================================
