---------------------------- MODULE Subscriptions ----------------------------
(***************************************************************************)
(* Subscriptions of clients to a resource of one upstream: the streams and *)
(* legacy sessions of the gateway (internal/mcp/handler/subscriptions.go,  *)
(* legacy_subscriptions.go), the attachment of a stream to the pooled      *)
(* session, which may answer after the stream has given up, and the watch  *)
(* the SDK adapter shares between streams (transport/notifications.go).    *)
(*                                                                         *)
(* A client learns a resource by reading it, when it is acknowledged and   *)
(* after every notification.  A legacy session subscribes once.  The       *)
(* upstream handles the requests of the gateway in their order.            *)
(***************************************************************************)
EXTENDS Naturals, FiniteSets

CONSTANTS Streams,     \* subscriptions/listen requests and legacy sessions
          Legacy,      \* the legacy sessions among them
          NoStream,
          SourceSlots, \* notificationSourceSlots
          AttachSlots, \* notificationAttachSlots
          Buffer,      \* messages a stream may owe to its client
          MaxUpdates,  \* bound on the changes of the resource
          MaxTroubles  \* bound on timeouts, failing requests and revoked keys

ASSUME SubscriptionsAssumption ==
  /\ IsFiniteSet(Streams) /\ NoStream \notin Streams /\ Legacy \subseteq Streams
  /\ {SourceSlots, AttachSlots, Buffer, MaxUpdates, MaxTroubles} \subseteq Nat

VARIABLES
  at,         \* the goroutine that opens it
  outer,      \* its context, or that of the session
  inner,      \* the context of watchSelectedSources; ends with the outer one
  timeout,    \* setupCtx has expired
  att,        \* the goroutine of attachNotificationSource
  lease,      \* the pooled session is leased
  watch,      \* the watcher of the adapter
  cleaning,   \* cleanupOnce: stop the watch, give back the lease and the slot
  ack,        \* what has been acknowledged
  owned,      \* the source belongs to the stream
  sup, mon,   \* the supervisor and the monitor run
  queue,      \* the watcher has a notification for the listener
  lis,        \* the listener is at work
  unread,     \* messages for the client
  known,      \* the version the client has read
  gone,       \* legacySession.close has run
  slots, attaching, work, \* slots taken, workWG
  closer,     \* Close
  taken,      \* the legacy sessions it takes from the registry
  up, version, wire,      \* the connection, the resource, a notification under way
  subscribed, \* the upstream will notify
  refs, opMu,             \* resourceWatchRefs and watchOperationMu
  troubles

streamVars == <<at, outer, inner, timeout, owned, gone>>
attachVars == <<att, lease, cleaning, ack>>
taskVars == <<sup, mon, work>>
hearVars == <<queue, lis, unread, known>>
slotVars == <<slots, attaching>>
upVars == <<up, version, wire>>
watchVars == <<watch, subscribed, refs, opMu>>
closeVars == <<closer, taken>>
subscriptionVars ==
  <<streamVars, attachVars, taskVars, hearVars, slotVars, upVars, watchVars, closeVars, troubles>>

SubscriptionsTypeOK ==
  /\ gone \in [Streams -> BOOLEAN]
  /\ at \in [Streams -> {"none", "session", "asked", "watch", "slot", "attach", "waiting", "got",
                         "ready", "opening", "open", "over"}]
  /\ outer \in [Streams -> BOOLEAN] /\ inner \in [Streams -> BOOLEAN]
  /\ timeout \in [Streams -> BOOLEAN] /\ owned \in [Streams -> BOOLEAN]
  /\ att \in [Streams -> {"none", "acquire", "lock", "subscribe", "confirm", "plain", "ack",
                          "send", "fail", "sendFail", "late"}]
  /\ lease \in [Streams -> BOOLEAN] /\ ack \in [Streams -> {"none", "list", "both"}]
  /\ watch \in [Streams -> {"none", "in", "on", "plain", "stopping", "off"}]
  /\ cleaning \in [Streams -> {"no", "begun", "done"}]
  /\ sup \in [Streams -> BOOLEAN] /\ mon \in [Streams -> BOOLEAN]
  /\ queue \in [Streams -> BOOLEAN] /\ lis \in [Streams -> BOOLEAN]
  /\ unread \in [Streams -> 0 .. Buffer]
  /\ known \in [Streams -> 0 .. MaxUpdates]
  /\ slots \in 0 .. SourceSlots /\ attaching \in 0 .. AttachSlots /\ work \in Nat
  /\ closer \in {"no", "sessions", "wait", "done"} /\ taken \subseteq Legacy
  /\ up \in BOOLEAN /\ version \in 0 .. MaxUpdates /\ wire \in BOOLEAN
  /\ subscribed \in BOOLEAN
  /\ refs \in 0 .. Cardinality(Streams) /\ opMu \in Streams \cup {NoStream}
  /\ troubles \in 0 .. MaxTroubles

Of(v) == [s \in Streams |-> v]

SubscriptionsInit ==
  /\ at = Of("none") /\ outer = Of(TRUE) /\ inner = Of(TRUE) /\ timeout = Of(FALSE)
  /\ owned = Of(FALSE) /\ gone = Of(FALSE)
  /\ att = Of("none") /\ lease = Of(FALSE) /\ cleaning = Of("no") /\ ack = Of("none")
  /\ sup = Of(FALSE) /\ mon = Of(FALSE) /\ work = 0
  /\ queue = Of(FALSE) /\ lis = Of(FALSE) /\ unread = Of(0)
  /\ known = Of(0)
  /\ slots = 0 /\ attaching = 0 /\ closer = "no" /\ taken = {}
  /\ up = TRUE /\ version = 0 /\ wire = FALSE
  /\ watch = Of("none") /\ subscribed = FALSE /\ refs = 0 /\ opMu = NoStream
  /\ troubles = 0

Closed == closer # "no"   \* streams.closed
Going(s) == outer[s] /\ inner[s]
SetupDone(s) == timeout[s] \/ ~ Going(s)
Trouble == troubles < MaxTroubles /\ troubles' = troubles + 1
NoTrouble == UNCHANGED troubles

At(s, l) == at' = [at EXCEPT ![s] = l]
Task(s, l) == att' = [att EXCEPT ![s] = l]

\* cleanup, which runs once.
Cleaned(s, C) == [C EXCEPT ![s] = IF @ = "no" THEN "begun" ELSE @]

\* A client whose stream has ended reads nothing more of it.
HearNoMore(S) ==
  /\ unread' = [s \in Streams |-> IF s \in S THEN 0 ELSE unread[s]]
  /\ known' = [s \in Streams |-> IF s \in S THEN 0 ELSE known[s]]

\* stop of watchSelectedSources: the context, and the source if it owns one.
Stopped(s) ==
  /\ inner' = [inner EXCEPT ![s] = FALSE]
  /\ cleaning' = IF owned[s] THEN Cleaned(s, cleaning) ELSE cleaning

-----------------------------------------------------------------------------
(* Opening a stream                                                          *)

\* CreateLegacySession
Register(s) ==
  /\ at[s] = "none" /\ s \in Legacy
  /\ At(s, IF Closed THEN "over" ELSE "session")
  /\ UNCHANGED <<outer, inner, timeout, owned, gone, attachVars, taskVars, hearVars,
                 slotVars, upVars, watchVars, closeVars, troubles>>

\* resources/subscribe finds the session, and then waits for session.mu.  A
\* session subscribes once.
LegacyAsk(s) ==
  /\ at[s] = "session" /\ outer[s] /\ inner[s] /\ ~ gone[s]
  /\ At(s, "asked")
  /\ UNCHANGED <<outer, inner, timeout, owned, gone, attachVars, taskVars, hearVars,
                 slotVars, upVars, watchVars, closeVars, troubles>>
LegacyLock(s) ==
  /\ at[s] = "asked"
  /\ At(s, "watch")
  /\ UNCHANGED <<outer, inner, timeout, owned, gone, attachVars, taskVars, hearVars,
                 slotVars, upVars, watchVars, closeVars, troubles>>

\* The request is refused.  A legacy session goes on.
Refuse(s) ==
  /\ At(s, IF s \in Legacy /\ ~ gone[s] THEN "session" ELSE "over")
  /\ outer' = IF s \in Legacy THEN outer ELSE [outer EXCEPT ![s] = FALSE]

\* watchSelectedSources, for a stream after registerStream.
StartWatch(s) ==
  /\ at[s] = "watch" \/ (at[s] = "none" /\ s \notin Legacy)
  /\ \/ /\ ~ Closed /\ At(s, "slot") /\ work' = work + 1 /\ NoTrouble
        /\ UNCHANGED <<outer, inner>>
     \/ /\ Refuse(s) /\ inner' = [inner EXCEPT ![s] = FALSE]
        /\ IF Closed THEN NoTrouble ELSE Trouble
        /\ UNCHANGED work
  /\ UNCHANGED <<timeout, owned, gone, attachVars, sup, mon, hearVars, slotVars, upVars,
                 watchVars, closeVars>>

\* An attachment that fails is skipped, unless the time of the set-up is over.
Skipped(s) ==
  IF SetupDone(s)
    THEN Refuse(s) /\ Stopped(s) /\ work' = work - 1
    ELSE At(s, "ready") /\ UNCHANGED <<outer, inner, cleaning, work>>

\* attachNotificationSource takes a slot for the source ...
TakeSlot(s) ==
  /\ at[s] = "slot"
  /\ \/ /\ ~ Closed /\ slots < SourceSlots
        /\ slots' = slots + 1 /\ work' = work + 1 /\ At(s, "attach")
        /\ UNCHANGED <<outer, inner, cleaning>>
     \/ (Closed \/ slots = SourceSlots) /\ Skipped(s) /\ UNCHANGED slots
  /\ UNCHANGED <<timeout, owned, gone, att, lease, ack, sup, mon, hearVars, attaching,
                 upVars, watchVars, closeVars, troubles>>

\* ... and one for attaching, which starts the goroutine.
TakeAttachSlot(s) ==
  /\ at[s] = "attach" /\ attaching < AttachSlots
  /\ attaching' = attaching + 1 /\ Task(s, "acquire") /\ At(s, "waiting")
  /\ UNCHANGED <<outer, inner, timeout, owned, gone, lease, cleaning, ack, taskVars,
                 hearVars, slots, upVars, watchVars, closeVars, troubles>>
NoAttachSlot(s) ==
  /\ at[s] = "attach" /\ SetupDone(s)
  /\ slots' = slots - 1 /\ work' = work - 2
  /\ Refuse(s) /\ Stopped(s)
  /\ UNCHANGED <<timeout, owned, gone, att, lease, ack, sup, mon, hearVars, attaching,
                 upVars, watchVars, closeVars, troubles>>

SetupTimeout(s) ==
  /\ at[s] \in {"slot", "attach", "waiting"} /\ ~ timeout[s] /\ Trouble
  /\ timeout' = [timeout EXCEPT ![s] = TRUE]
  /\ UNCHANGED <<at, outer, inner, owned, gone, attachVars, taskVars, hearVars, slotVars,
                 upVars, watchVars, closeVars>>

\* The stream stops waiting: whatever comes later is for the goroutine to give
\* back.
StopWaiting(s) ==
  /\ at[s] = "waiting" /\ SetupDone(s)
  /\ Refuse(s) /\ Stopped(s) /\ work' = work - 1
  /\ UNCHANGED <<timeout, owned, gone, att, lease, ack, sup, mon, hearVars, slotVars,
                 upVars, watchVars, closeVars, troubles>>

\* The source is the stream's, unless it was stopped meanwhile.
TakeSource(s) ==
  /\ at[s] = "got"
  /\ IF Going(s)
       THEN /\ owned' = [owned EXCEPT ![s] = TRUE] /\ At(s, "ready")
            /\ UNCHANGED <<outer, inner, cleaning, work>>
       ELSE /\ Refuse(s) /\ inner' = [inner EXCEPT ![s] = FALSE]
            /\ cleaning' = Cleaned(s, cleaning) /\ work' = work - 1
            /\ UNCHANGED owned
  /\ UNCHANGED <<timeout, gone, att, lease, ack, sup, mon, hearVars, slotVars, upVars,
                 watchVars, closeVars, troubles>>

\* The supervisor takes the task over.
Supervise(s) ==
  /\ at[s] = "ready"
  /\ sup' = [sup EXCEPT ![s] = TRUE] /\ At(s, "opening")
  /\ UNCHANGED <<outer, inner, timeout, owned, gone, attachVars, mon, work, hearVars,
                 slotVars, upVars, watchVars, closeVars, troubles>>

\* OpenSubscriptions starts the monitor and returns the stream, which is
\* acknowledged to the client; a legacy session keeps the stop function.
OpenStream(s) ==
  /\ at[s] = "opening"
  /\ IF IF s \in Legacy THEN ack[s] = "both" /\ owned[s] ELSE ~ Closed
       THEN /\ At(s, "open") /\ known' = [known EXCEPT ![s] = version]
            /\ mon' = [mon EXCEPT ![s] = s \notin Legacy]
            /\ work' = IF s \in Legacy THEN work ELSE work + 1
            /\ UNCHANGED <<outer, inner, cleaning>>
       ELSE Refuse(s) /\ Stopped(s) /\ UNCHANGED <<known, mon, work>>
  /\ UNCHANGED <<timeout, owned, gone, att, lease, ack, sup, queue, lis, unread, slotVars, upVars,
                 watchVars, closeVars, troubles>>

-----------------------------------------------------------------------------
(* Ending it                                                                 *)

\* The client goes, or notifications/cancelled comes: the context ends.
ContextEnds(s) ==
  /\ at[s] \notin {"none", "over"} /\ outer[s] /\ Trouble
  /\ outer' = [outer EXCEPT ![s] = FALSE] /\ HearNoMore({s})
  /\ UNCHANGED <<at, inner, timeout, owned, gone, attachVars, taskVars, queue, lis, slotVars,
                 upVars, watchVars, closeVars>>

\* Stop, by the client's writer or by the monitor when the context has ended.
StopStream(s) ==
  /\ at[s] = "open" /\ s \notin Legacy
  /\ outer' = [outer EXCEPT ![s] = FALSE] /\ Stopped(s) /\ At(s, "over") /\ HearNoMore({s})
  /\ UNCHANGED <<timeout, owned, gone, att, lease, ack, taskVars, queue, lis, slotVars,
                 upVars, watchVars, closeVars, troubles>>
MonitorEnds(s) ==
  /\ mon[s] /\ at[s] = "over" /\ ~ outer[s]
  /\ mon' = [mon EXCEPT ![s] = FALSE] /\ work' = work - 1
  /\ UNCHANGED <<streamVars, attachVars, sup, hearVars, slotVars, upVars, watchVars, closeVars,
                 troubles>>

\* The supervisor ends with its context ...
SupervisorEnds(s) ==
  /\ sup[s] /\ ~ Going(s)
  /\ Stopped(s)
  /\ sup' = [sup EXCEPT ![s] = FALSE] /\ work' = work - 1
  /\ UNCHANGED <<at, outer, timeout, owned, gone, att, lease, ack, mon, hearVars, slotVars,
                 upVars, watchVars, closeVars, troubles>>

\* ... or ends the stream: its key, its services or the connection is not what
\* it was.
SupervisorFails(s) ==
  /\ sup[s] /\ Going(s)
  /\ IF owned[s] /\ ~ up THEN NoTrouble ELSE Trouble
  /\ outer' = [outer EXCEPT ![s] = FALSE] /\ Stopped(s) /\ HearNoMore({s})
  /\ UNCHANGED <<at, timeout, owned, gone, att, lease, ack, taskVars, queue, lis, slotVars,
                 upVars, watchVars, closeVars>>

\* resources/unsubscribe
LegacyUnsubscribe(s) ==
  /\ at[s] = "open" /\ s \in Legacy
  /\ Stopped(s) /\ At(s, "session") /\ HearNoMore({s})
  /\ UNCHANGED <<outer, timeout, owned, gone, att, lease, ack, taskVars, queue, lis,
                 slotVars, upVars, watchVars, closeVars, troubles>>

\* legacySession.close, under session.mu, once the session is cancelled.
LegacyClose(s) ==
  /\ s \in Legacy /\ ~ outer[s] /\ ~ gone[s] /\ at[s] \in {"session", "asked", "open"}
  /\ gone' = [gone EXCEPT ![s] = TRUE]
  /\ At(s, IF at[s] = "asked" THEN "asked" ELSE "over")
  /\ IF at[s] = "open" THEN Stopped(s) ELSE UNCHANGED <<inner, cleaning>>
  /\ UNCHANGED <<outer, timeout, owned, att, lease, ack, taskVars, hearVars, slotVars,
                 upVars, watchVars, closeVars, troubles>>

-----------------------------------------------------------------------------
(* Shutdown                                                                  *)

\* The streams are cancelled, and the registry of sessions is emptied.
Close ==
  /\ closer = "no"
  /\ closer' = "sessions"
  /\ outer' = [s \in Streams |-> outer[s] /\ (s \in Legacy \/ at[s] \in {"none", "over"})]
  /\ HearNoMore({s \in Streams : ~ outer'[s]})
  /\ \E S \in SUBSET {s \in Legacy : at[s] \notin {"none", "over"} /\ ~ outer[s]} :
       taken' = S \cup {s \in Legacy : at[s] \notin {"none", "over"} /\ outer[s]}
  /\ UNCHANGED <<at, inner, timeout, owned, gone, attachVars, taskVars, queue, lis, slotVars,
                 upVars, watchVars, troubles>>

\* closeLegacySessions closes them, which waits for session.mu.
CancelSession(s) ==
  /\ s \in taken /\ outer[s]
  /\ outer' = [outer EXCEPT ![s] = FALSE] /\ HearNoMore({s})
  /\ UNCHANGED <<at, inner, timeout, owned, gone, attachVars, taskVars, queue, lis, slotVars,
                 upVars, watchVars, closeVars, troubles>>
CloseSessions ==
  /\ closer = "sessions" /\ \A s \in taken : gone[s]
  /\ closer' = "wait" /\ taken' = {}
  /\ UNCHANGED <<streamVars, attachVars, taskVars, hearVars, slotVars, upVars, watchVars, troubles>>

CloseAtOnce ==   \* no workWG.Wait (to test the checks)
  /\ closer = "wait"
  /\ closer' = "done"
  /\ UNCHANGED <<streamVars, attachVars, taskVars, hearVars, slotVars, upVars, watchVars, taken,
                 troubles>>

\* workWG.Wait
CloseReturns ==
  /\ closer = "wait" /\ work = 0
  /\ closer' = "done"
  /\ UNCHANGED <<streamVars, attachVars, taskVars, hearVars, slotVars, upVars, watchVars, taken,
                 troubles>>

-----------------------------------------------------------------------------
(* The attaching goroutine                                                   *)

Acquire(s) ==
  /\ att[s] = "acquire"
  /\ \/ /\ up /\ lease' = [lease EXCEPT ![s] = TRUE] /\ Task(s, "lock") /\ NoTrouble
     \/ /\ IF up /\ ~ SetupDone(s) THEN Trouble ELSE NoTrouble
        /\ Task(s, "fail") /\ UNCHANGED lease
  /\ UNCHANGED <<streamVars, cleaning, ack, taskVars, hearVars, slotVars, upVars, watchVars, closeVars>>

\* WatchNotifications under watchOperationMu: the watcher first, then the
\* subscription of the upstream, by the first that needs it.
WatchBegins(s) ==
  /\ att[s] = "lock" /\ opMu = NoStream
  /\ IF up /\ ~ SetupDone(s)
       THEN /\ opMu' = s /\ watch' = [watch EXCEPT ![s] = "in"]
            /\ Task(s, IF refs = 0 THEN "subscribe" ELSE "confirm")
            /\ refs' = IF refs = 0 THEN 0 ELSE refs + 1
       ELSE /\ Task(s, IF SetupDone(s) THEN "fail" ELSE "plain")
            /\ UNCHANGED <<opMu, watch, refs>>
  /\ UNCHANGED <<streamVars, lease, cleaning, ack, taskVars, hearVars, slotVars, upVars, subscribed,
                 closeVars, troubles>>

UpstreamAccepts(s) ==
  /\ att[s] = "subscribe" /\ up
  /\ subscribed' = TRUE /\ refs' = refs + 1 /\ Task(s, "confirm")
  /\ UNCHANGED <<streamVars, lease, cleaning, ack, taskVars, hearVars, slotVars, upVars, watch,
                 opMu, closeVars, troubles>>

\* Without its resources the watch is tried again, if there is still time.
GiveUpWatch(s) ==
  /\ watch' = [watch EXCEPT ![s] = "off"] /\ queue' = [queue EXCEPT ![s] = FALSE]
  /\ opMu' = NoStream
  /\ Task(s, IF SetupDone(s) THEN "fail" ELSE "plain")

\* The answer is an error or does not come: the upstream may have subscribed.
\* Only a modern one is told to forget it.
UpstreamFails(s) ==
  /\ att[s] = "subscribe"
  /\ IF up /\ ~ SetupDone(s) THEN Trouble ELSE NoTrouble
  /\ subscribed' \in (IF up THEN {subscribed, TRUE} ELSE {subscribed})
                       \cup (IF up THEN {FALSE} ELSE {})
  /\ GiveUpWatch(s)
  /\ UNCHANGED <<streamVars, lease, cleaning, ack, taskVars, lis, unread, known, slotVars,
                 upVars, refs, closeVars>>

\* releaseResourceWatchesLocked; the error of an unsubscription is ignored.
ReleaseWatch ==
  /\ refs' = refs - 1
  /\ IF refs > 1 \/ ~ up THEN NoTrouble /\ UNCHANGED subscribed
     ELSE \/ subscribed' = FALSE /\ NoTrouble
          \/ UNCHANGED subscribed /\ Trouble

WatchStands(s) ==
  /\ att[s] = "confirm" /\ up /\ ~ SetupDone(s)
  /\ watch' = [watch EXCEPT ![s] = "on"] /\ opMu' = NoStream /\ Task(s, "ack")
  /\ UNCHANGED <<streamVars, lease, cleaning, ack, taskVars, hearVars, slotVars, upVars, subscribed,
                 refs, closeVars, troubles>>
WatchRolledBack(s) ==
  /\ att[s] = "confirm" /\ (~ up \/ SetupDone(s))
  /\ ReleaseWatch /\ GiveUpWatch(s)
  /\ UNCHANGED <<streamVars, lease, cleaning, ack, taskVars, lis, unread, known, slotVars,
                 upVars, closeVars>>

\* The watch without resources.
WatchPlain(s) ==
  /\ att[s] = "plain" /\ opMu = NoStream
  /\ IF up /\ ~ SetupDone(s)
       THEN watch' = [watch EXCEPT ![s] = "plain"] /\ Task(s, "ack")
       ELSE Task(s, "fail") /\ UNCHANGED watch
  /\ UNCHANGED <<streamVars, lease, cleaning, ack, taskVars, hearVars, slotVars, upVars, subscribed,
                 refs, opMu, closeVars, troubles>>

\* The listener lets nothing pass before this.  deadlineStop says whether it is
\* in time.
Acknowledge(s) ==
  /\ att[s] = "ack"
  /\ ack' = [ack EXCEPT ![s] = IF watch[s] = "plain" THEN "list" ELSE "both"]
  /\ Task(s, IF SetupDone(s) THEN "fail" ELSE "send")
  /\ UNCHANGED <<streamVars, lease, cleaning, taskVars, hearVars, slotVars, upVars, watchVars, closeVars,
                 troubles>>

\* A failed attachment cleans up before it says so.
Fail(s) ==
  /\ att[s] = "fail"
  /\ cleaning' = Cleaned(s, cleaning) /\ Task(s, "sendFail")
  /\ UNCHANGED <<streamVars, lease, ack, taskVars, hearVars, slotVars, upVars, watchVars, closeVars,
                 troubles>>

TaskEnds(s) == Task(s, "none") /\ attaching' = attaching - 1

SendSource(s) ==
  /\ att[s] = "send" /\ at[s] = "waiting"
  /\ TaskEnds(s) /\ work' = work - 1 /\ At(s, "got")
  /\ UNCHANGED <<outer, inner, timeout, owned, gone, lease, cleaning, ack, sup, mon, hearVars,
                 slots, upVars, watchVars, closeVars, troubles>>
SendFailure(s) ==
  /\ att[s] = "sendFail" /\ cleaning[s] = "done" /\ at[s] = "waiting"
  /\ TaskEnds(s)
  /\ IF SetupDone(s)
       THEN Refuse(s) /\ inner' = [inner EXCEPT ![s] = FALSE] /\ work' = work - 2
       ELSE At(s, "ready") /\ work' = work - 1 /\ UNCHANGED <<outer, inner>>
  /\ UNCHANGED <<timeout, owned, gone, lease, cleaning, ack, sup, mon, hearVars, slots, upVars,
                 watchVars, closeVars, troubles>>

LateForgotten(s) ==   \* nobody takes the source, nobody gives it back (to test the checks)
  /\ att[s] = "send" /\ SetupDone(s)
  /\ TaskEnds(s) /\ work' = work - 1
  /\ UNCHANGED <<streamVars, lease, cleaning, ack, sup, mon, hearVars, slots, upVars,
                 watchVars, closeVars, troubles>>

\* Nobody waits for the result: it is given back.
Late(s) ==
  /\ att[s] = "send" /\ SetupDone(s)
  /\ cleaning' = Cleaned(s, cleaning) /\ Task(s, "late")
  /\ UNCHANGED <<streamVars, lease, ack, taskVars, hearVars, slotVars, upVars, watchVars, closeVars,
                 troubles>>
LateEnds(s) ==
  /\ att[s] \in {"late", "sendFail"} /\ SetupDone(s) /\ cleaning[s] = "done"
  /\ TaskEnds(s) /\ work' = work - 1
  /\ UNCHANGED <<streamVars, lease, cleaning, ack, sup, mon, hearVars, slots, upVars, watchVars,
                 closeVars, troubles>>

-----------------------------------------------------------------------------
(* The watch and its clean-up                                                *)

\* The watcher stops with its context, with the connection, or when it is told.
WatchStops(s) ==
  /\ watch[s] \in {"on", "plain"}
  /\ cleaning[s] # "no" \/ ~ Going(s) \/ ~ up \/ (timeout[s] /\ att[s] \in {"ack", "fail"})
  /\ watch' = [watch EXCEPT ![s] = IF @ = "on" THEN "stopping" ELSE "off"]
  /\ queue' = [queue EXCEPT ![s] = FALSE]
  /\ UNCHANGED <<streamVars, attachVars, taskVars, lis, unread, known, slotVars, upVars,
                 subscribed, refs, opMu, closeVars, troubles>>
WatchReleases(s) ==
  /\ watch[s] = "stopping" /\ opMu = NoStream
  /\ ReleaseWatch
  /\ watch' = [watch EXCEPT ![s] = "off"]
  /\ UNCHANGED <<streamVars, attachVars, taskVars, hearVars, slotVars, upVars, opMu, closeVars>>

\* cleanup: the watch has stopped, then the lease and the slot.
CleanUp(s) ==
  /\ cleaning[s] = "begun" /\ watch[s] \in {"none", "off"}
  /\ cleaning' = [cleaning EXCEPT ![s] = "done"]
  /\ lease' = [lease EXCEPT ![s] = FALSE] /\ slots' = slots - 1
  /\ UNCHANGED <<streamVars, att, ack, taskVars, hearVars, attaching, upVars, watchVars, closeVars,
                 troubles>>

-----------------------------------------------------------------------------
(* Notifications                                                             *)

Update ==
  /\ version < MaxUpdates
  /\ version' = version + 1 /\ wire' = (up /\ (wire \/ subscribed))
  /\ UNCHANGED <<streamVars, attachVars, taskVars, hearVars, slotVars, up, watchVars, closeVars,
                 troubles>>

\* publishNotification
PublishUpdate ==
  /\ wire
  /\ wire' = FALSE
  /\ queue' = [s \in Streams |-> queue[s] \/ watch[s] \in {"in", "on"}]
  /\ UNCHANGED <<streamVars, attachVars, taskVars, lis, unread, known, slotVars, up, version,
                 watchVars, closeVars, troubles>>

Disconnect ==
  /\ up /\ Trouble
  /\ up' = FALSE /\ wire' = FALSE /\ subscribed' = FALSE
  /\ UNCHANGED <<streamVars, attachVars, taskVars, hearVars, slotVars, version, watch, refs,
                 opMu, closeVars>>

\* notificationObserver.run calls the listener, which drops what comes before
\* the acknowledgement or after the end.
Hear(s) ==
  /\ queue[s] /\ watch[s] = "on" /\ ~ lis[s]
  /\ queue' = [queue EXCEPT ![s] = FALSE]
  /\ IF ack[s] # "both" \/ ~ Going(s) \/ cleaning[s] # "no" \/ Closed
       THEN UNCHANGED <<lis, work>>
       ELSE lis' = [lis EXCEPT ![s] = TRUE] /\ work' = work + 1
  /\ UNCHANGED <<streamVars, attachVars, sup, mon, unread, known, slotVars, upVars, watchVars, closeVars,
                 troubles>>

EmitOrDrop(s) ==   \* a slow client loses the message, not the stream (to test the checks)
  /\ \/ unread[s] < Buffer /\ Going(s) /\ unread' = [unread EXCEPT ![s] = @ + 1]
     \/ UNCHANGED unread
  /\ UNCHANGED <<outer, known>>

\* The stream of a client that does not keep up is ended: the buffer is full, of
\* these messages and of others.
Emit(s) ==
  \/ /\ Going(s) /\ unread[s] < Buffer
     /\ unread' = [unread EXCEPT ![s] = @ + 1] /\ UNCHANGED <<outer, known>>
  \/ /\ outer' = [outer EXCEPT ![s] = @ /\ ~ inner[s]]
     /\ IF inner[s] THEN HearNoMore({s}) ELSE UNCHANGED <<unread, known>>

\* The listener checks the key and the scope again.
Listen(s) ==
  /\ lis[s]
  /\ lis' = [lis EXCEPT ![s] = FALSE] /\ work' = work - 1
  /\ \/ Emit(s) /\ NoTrouble /\ UNCHANGED <<inner, cleaning>>
     \/ /\ outer' = [outer EXCEPT ![s] = FALSE] /\ Stopped(s) /\ Trouble
        /\ HearNoMore({s})
  /\ UNCHANGED <<at, timeout, owned, gone, att, lease, ack, sup, mon, queue,
                 slotVars, upVars, watchVars, closeVars>>

\* The client is told, and reads.
Deliver(s) ==
  /\ at[s] = "open" /\ unread[s] > 0 /\ Going(s)
  /\ unread' = [unread EXCEPT ![s] = @ - 1] /\ known' = [known EXCEPT ![s] = version]
  /\ UNCHANGED <<streamVars, attachVars, taskVars, queue, lis, slotVars, upVars, watchVars, closeVars,
                 troubles>>

SubscriptionsNext ==
  \/ Update \/ PublishUpdate \/ Disconnect \/ Close \/ CloseSessions \/ CloseReturns
  \/ \E s \in Streams :
       \/ Register(s) \/ LegacyAsk(s) \/ LegacyLock(s) \/ StartWatch(s) \/ TakeSlot(s)
       \/ TakeAttachSlot(s) \/ NoAttachSlot(s) \/ SetupTimeout(s) \/ StopWaiting(s)
       \/ TakeSource(s) \/ Supervise(s) \/ OpenStream(s) \/ ContextEnds(s) \/ StopStream(s)
       \/ MonitorEnds(s) \/ SupervisorEnds(s) \/ SupervisorFails(s) \/ LegacyUnsubscribe(s)
       \/ LegacyClose(s) \/ CancelSession(s)
       \/ Acquire(s) \/ WatchBegins(s) \/ UpstreamAccepts(s) \/ UpstreamFails(s)
       \/ WatchStands(s) \/ WatchRolledBack(s) \/ WatchPlain(s) \/ Acknowledge(s)
       \/ Fail(s) \/ SendSource(s) \/ SendFailure(s) \/ Late(s) \/ LateEnds(s)
       \/ WatchStops(s) \/ WatchReleases(s) \/ CleanUp(s)
       \/ Hear(s) \/ Listen(s) \/ Deliver(s)

SubscriptionsSpec == SubscriptionsInit /\ [][SubscriptionsNext]_subscriptionVars

-----------------------------------------------------------------------------
(* Properties                                                                *)

\* Whoever gives up first - the client, the set-up timer, the supervisor, a
\* slow consumer, a lost connection, shutdown - a stream that has ended holds
\* neither a lease nor a watch unless its clean-up is on its way; and slots and
\* references are given back exactly once.
SourcesReturned ==
  /\ \A s \in Streams :
       /\ at[s] \in {"over", "open", "session"} /\ ~ Going(s) /\ att[s] = "none" /\ ~ sup[s]
       /\ lease[s] \/ watch[s] \in {"in", "on", "plain"}
       => cleaning[s] = "begun"
  /\ slots = Cardinality({s \in Streams : \/ at[s] = "attach"
                                          \/ cleaning[s] # "done" /\ (att[s] # "none" \/ lease[s])})
  /\ refs = Cardinality({s \in Streams : \/ watch[s] \in {"on", "stopping"}
                                         \/ watch[s] = "in" /\ att[s] = "confirm"})

\* A change of the resource is never lost on its way to a client that was
\* acknowledged: either it is told, or its stream is ended.
NoUpdateLost ==
  \A s \in Streams :
    /\ ~ Closed /\ at[s] = "open" /\ ack[s] = "both" /\ Going(s) /\ up /\ cleaning[s] = "no"
    /\ ~ wire /\ ~ queue[s] /\ ~ lis[s] /\ unread[s] = 0
    => known[s] = version

\* When Close has returned, nothing that uses the database runs any more.
CloseWaitsForWork ==
  closer = "done" =>
    \A s \in Streams : att[s] = "none" /\ ~ sup[s] /\ ~ mon[s] /\ ~ lis[s]
===============================================================================
