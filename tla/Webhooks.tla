------------------------------- MODULE Webhooks -------------------------------
(***************************************************************************)
(* Webhook subscriptions to MCP events (internal/mcp/events/webhook.go):   *)
(* the requests that make, renew and end the subscription of one key, the  *)
(* worker that delivers the events of its feed to the callback, and the    *)
(* ways it ends: expiry, a revoked key, a feed that fails, shutdown.       *)
(*                                                                         *)
(* A callback that gets a cursor keeps it, and resumes from it after its   *)
(* subscription has ended.  The feed itself is EventFeed's; here it is a   *)
(* ring of numbered events that may fail.                                  *)
(*                                                                         *)
(* Left out: the keys and signatures, maxAge, payloads that are too large, *)
(* and the limits on subscriptions and verifications.                      *)
(***************************************************************************)
EXTENDS Naturals, FiniteSets

CONSTANTS Clients,  \* events/subscribe and events/unsubscribe calls under way
          NoClient,
          MaxHooks,  \* bound on the subscriptions made
          Attempts,  \* POSTs of an event, 3 in sendWithRetry
          MaxEvents, \* bound on the events
          HookRing,  \* ringSize
          MaxEnds    \* bound on expiries, revocations and failures of the feed

ASSUME WebhookAssumption ==
  /\ NoClient \notin Clients /\ {MaxHooks, MaxEvents, MaxEnds} \subseteq Nat
  /\ {Attempts, HookRing} \subseteq Nat \ {0}

VARIABLES
  hook,      \* every subscription made
  hooked,    \* m.subscriptions of the key, or 0
  hookCount, \* subscriptions made
  request,   \* requests
  webhookMu, \* who holds it
  source,    \* the feed
  over,      \* m.closed
  callback,  \* the cursor the callback has
  settled,   \* events it has accepted, or that were abandoned or called a gap (history)
  ends

hookVars == <<hook, hooked, hookCount>>
requestVars == <<request, webhookMu>>
callbackVars == <<callback, settled>>
webhookVars == <<hookVars, requestVars, source, over, callbackVars, ends>>

Hooks == 1 .. MaxHooks
Seqs == 0 .. MaxEvents

\* A feed ends with its last worker or by a failure.
Sources == 0 .. MaxHooks + MaxEnds + 1

\* The worker of a subscription; next .. pos is the batch in hand.
HookRecords == [at : {"new", "loop", "read", "try", "post", "pause", "gap", "gapPost", "gapPause",
                      "wait", "term", "leave", "done"},
                cursor : Seqs, next : 1 .. MaxEvents + 1, pos : Seqs, attempt : 0 .. Attempts,
                feed : Sources, expired : BOOLEAN, cancelled : BOOLEAN, gapped : Seqs,
                revived : BOOLEAN]  \* renewed after its worker had seen it expired (history)
NewHook == [at |-> "new", cursor |-> 0, next |-> 1, pos |-> 0, attempt |-> 0, feed |-> 0,
            expired |-> FALSE, cancelled |-> FALSE, gapped |-> 0, revived |-> FALSE]
RequestRecords == [at : {"idle", "verify", "apply", "feed", "attach", "wait"}, hook : 0 .. MaxHooks]
Resting == [at |-> "idle", hook |-> 0]

\* The feed registered for the key is the one of the number no, if it is live.
SourceRecords == [no : Sources, live : BOOLEAN, seq : Seqs, first : 1 .. MaxEvents + 1]

WebhooksTypeOK ==
  /\ hook \in [Hooks -> HookRecords] /\ hooked \in 0 .. MaxHooks /\ hookCount \in 0 .. MaxHooks
  /\ request \in [Clients -> RequestRecords] /\ webhookMu \in Clients \cup {NoClient}
  /\ source \in SourceRecords /\ over \in BOOLEAN
  /\ callback \in [feed : Sources, pos : Seqs] /\ settled \subseteq 1 .. MaxEvents
  /\ ends \in 0 .. MaxEnds

WebhooksInit ==
  /\ hook = [s \in Hooks |-> NewHook] /\ hooked = 0 /\ hookCount = 0
  /\ request = [r \in Clients |-> Resting] /\ webhookMu = NoClient
  /\ source = [no |-> 0, live |-> FALSE, seq |-> 0, first |-> 1] /\ over = FALSE
  /\ callback = [feed |-> 0, pos |-> 0] /\ settled = {}
  /\ ends = 0

Running(s) == hook[s].at \notin {"new", "done"}
FeedDead(s) == hook[s].feed # source.no \/ ~ source.live
HookAt(s, l) == hook' = [hook EXCEPT ![s].at = l]

\* To a place where no batch is in hand.
Empty(s, l) == [hook[s] EXCEPT !.at = l, !.next = 1, !.pos = 0, !.attempt = 0]
HookRests(s, l) == hook' = [hook EXCEPT ![s] = Empty(s, l)]
Until(n) == 1 .. n

\* The callback may keep any cursor it is given.
Given(f, p) ==
  \/ callback' = [feed |-> f, pos |-> p]
  \/ UNCHANGED callback

-----------------------------------------------------------------------------
(* Requests                                                                  *)

RequestTo(r, l) == request' = [request EXCEPT ![r].at = l]
Answered(r) == request' = [request EXCEPT ![r] = Resting] /\ webhookMu' = NoClient

\* subscribe, under webhookMu: a subscription that has expired is taken out.
SubscribeBegins(r) ==
  /\ request[r].at = "idle" /\ webhookMu = NoClient /\ ~ over
  /\ webhookMu' = r
  /\ IF hooked # 0 /\ hook[hooked].expired
       THEN /\ hook' = [hook EXCEPT ![hooked].cancelled = TRUE] /\ hooked' = 0
            /\ request' = [request EXCEPT ![r] = [at |-> "verify", hook |-> 0]]
       ELSE /\ request' = [request EXCEPT ![r] = [at |-> "verify", hook |-> hooked]]
            /\ UNCHANGED <<hook, hooked>>
  /\ UNCHANGED <<hookCount, source, over, callbackVars, ends>>

\* verify: a challenge to the callback, which may fail.
Verify(r) ==
  /\ request[r].at = "verify"
  /\ \/ ~ over /\ RequestTo(r, IF request[r].hook # 0 THEN "apply" ELSE "feed")
        /\ UNCHANGED webhookMu
     \/ Answered(r)
  /\ UNCHANGED <<hookVars, source, over, callbackVars, ends>>

RefreshUnchecked(r) ==   \* whatever has become of it meanwhile (to test the checks)
  LET s == request[r].hook IN
  /\ request[r].at = "apply"
  /\ hook' = [hook EXCEPT ![s].expired = FALSE] /\ hooked' = s
  /\ Given(hook[s].feed, hook[s].cursor) /\ UNCHANGED settled
  /\ Answered(r)
  /\ UNCHANGED <<hookCount, source, over, ends>>

\* A subscription that is still there is renewed, and its cursor returned, with
\* the news of a gap since the last renewal.
Refresh(r) ==
  LET s == request[r].hook IN
  /\ request[r].at = "apply"
  /\ IF over \/ hooked # s
       THEN UNCHANGED <<hook, callbackVars>>
       ELSE /\ hook' = [hook EXCEPT ![s].expired = FALSE, ![s].gapped = 0,
                                    ![s].revived = @ \/ hook[s].at = "leave"]
            /\ Given(hook[s].feed, hook[s].cursor)
            /\ settled' = IF FeedDead(s) THEN settled ELSE settled \cup Until(hook[s].gapped)
  /\ Answered(r)
  /\ UNCHANGED <<hooked, hookCount, source, over, ends>>

\* getFeed: a feed that ended is replaced, whose cursors are of another epoch.
SubscribeFeed(r) ==
  /\ request[r].at = "feed"
  /\ IF over THEN Answered(r) /\ UNCHANGED <<source, settled>>
     ELSE /\ RequestTo(r, "attach") /\ UNCHANGED webhookMu
          /\ IF source.live THEN UNCHANGED <<source, settled>>
             ELSE source' = [no |-> source.no + 1, live |-> TRUE, seq |-> 0, first |-> 1]
                  /\ settled' = {}
  /\ UNCHANGED <<hookVars, over, callback, ends>>

\* readLocked for the first time: where the subscription starts, and the events
\* it leaves out - those before now when the client has no cursor, and those
\* before the ring when it has one.
StartAt(resume) ==
  IF ~ resume \/ callback.feed # source.no THEN source.seq
  ELSE IF callback.pos + 1 < source.first THEN source.first - 1 ELSE callback.pos

\* The new subscription is registered together with its reference to the feed.
SubscribeAttaches(r) ==
  /\ request[r].at = "attach"
  /\ IF over \/ ~ source.live
       THEN UNCHANGED <<hookVars, callbackVars>>
       ELSE \E resume \in BOOLEAN :
              LET s == hookCount + 1
                  p == StartAt(resume) IN
              /\ s \in Hooks
              /\ hook' = [hook EXCEPT ![s] = [NewHook EXCEPT !.at = "loop", !.cursor = p,
                                                !.feed = source.no]]
              /\ hooked' = s /\ hookCount' = s
              /\ settled' = IF resume /\ callback.feed = source.no /\ p = callback.pos
                              THEN settled ELSE settled \cup Until(p)
              /\ callback' = [feed |-> source.no, pos |-> p]
  /\ Answered(r)
  /\ UNCHANGED <<source, over, ends>>

\* unsubscribe: who is told NotFound is done.
UnsubscribeBegins(r) ==
  /\ request[r].at = "idle" /\ webhookMu = NoClient
  /\ hooked # 0
  /\ webhookMu' = r
  /\ request' = [request EXCEPT ![r] = [at |-> "wait", hook |-> hooked]]
  /\ hook' = [hook EXCEPT ![hooked].cancelled = TRUE] /\ hooked' = 0
  /\ UNCHANGED <<hookCount, source, over, callbackVars, ends>>

\* The worker has ended: nothing is posted any more.
UnsubscribeReturns(r) ==
  /\ request[r].at = "wait" /\ hook[request[r].hook].at = "done"
  /\ Answered(r)
  /\ UNCHANGED <<hookVars, source, over, callbackVars, ends>>

-----------------------------------------------------------------------------
(* The worker: deliverLoop, sendWithRetry and terminated                     *)

Live(s) == ~ over /\ hooked = s /\ ~ hook[s].expired

\* deliveryAuthorized before each attempt, with the check of the principal:
\* to l, to the end, or to the last envelope.
Authorized(s, l) ==
  \/ Live(s) /\ ~ FeedDead(s) /\ HookAt(s, l) /\ UNCHANGED ends
  \/ ~ Live(s) /\ HookRests(s, "leave") /\ UNCHANGED ends
  \/ Live(s) /\ FeedDead(s) /\ HookRests(s, "term") /\ UNCHANGED ends
  \/ Live(s) /\ ends < MaxEnds /\ HookRests(s, "term") /\ ends' = ends + 1

LoopAuthorized(s) ==
  /\ hook[s].at = "loop"
  /\ Authorized(s, "read")
  /\ UNCHANGED <<hooked, hookCount, requestVars, source, over, callbackVars>>

ReadBatchAhead(s) ==   \* the cursor moves with the read, not with the delivery (to test the checks)
  /\ hook[s].at = "read"
  /\ IF FeedDead(s) THEN HookRests(s, "term")
     ELSE hook' = [hook EXCEPT ![s].at = IF hook[s].cursor < source.seq THEN "try" ELSE "wait",
                               ![s].next = hook[s].cursor + 1, ![s].pos = source.seq,
                               ![s].cursor = source.seq, ![s].attempt = 0]
  /\ UNCHANGED <<hooked, hookCount, requestVars, source, over, callbackVars, ends>>

\* A gap is noted before it is told.
ReadBatch(s) ==
  LET gap == hook[s].cursor + 1 < source.first
      reset == IF gap THEN source.first - 1 ELSE hook[s].cursor IN
  /\ hook[s].at = "read"
  /\ IF FeedDead(s) THEN HookRests(s, "term")
     ELSE IF ~ gap /\ reset = source.seq THEN HookAt(s, "wait")
     ELSE hook' = [hook EXCEPT ![s].at = IF gap THEN "gap" ELSE "try",
                               ![s].next = reset + 1, ![s].pos = source.seq,
                               ![s].gapped = IF gap THEN reset ELSE @]
  /\ UNCHANGED <<hooked, hookCount, requestVars, source, over, callbackVars, ends>>

\* Accepted, refused for good, or tried as often as is allowed: go on.
MoveOn(s) ==
  LET first == IF hook[s].at \in {"gap", "gapPost"} THEN hook[s].next ELSE hook[s].next + 1 IN
  hook' = [hook EXCEPT ![s] =
             [(IF first <= hook[s].pos THEN [hook[s] EXCEPT !.at = "try", !.next = first, !.attempt = 0]
                                       ELSE Empty(s, "wait")) EXCEPT !.cursor = first - 1]]

\* A gap that is not told because the subscription has expired is passed over.
TryPost(s) ==
  /\ hook[s].at \in {"gap", "try"}
  /\ \/ /\ hook[s].at = "try" \/ Live(s) \/ hook[s].cancelled
        /\ Authorized(s, IF hook[s].at = "gap" THEN "gapPost" ELSE "post")
     \/ hook[s].at = "gap" /\ ~ Live(s) /\ ~ hook[s].cancelled /\ MoveOn(s) /\ UNCHANGED ends
  /\ UNCHANGED <<hooked, hookCount, requestVars, source, over, callbackVars>>

\* What the POST carries: an event with the position before it, or a gap with
\* the new position.
Carried(s) == IF hook[s].at = "gapPost" THEN hook[s].next - 1 ELSE hook[s].cursor
Covered(s) == IF hook[s].at = "gapPost" THEN Until(hook[s].next - 1) ELSE {hook[s].next}

\* The callback processes what is posted, and may keep the cursor.
Received(s) ==
  /\ Given(hook[s].feed, Carried(s))
  /\ settled' = IF FeedDead(s) THEN settled ELSE settled \cup Covered(s)

\* It answers 2xx.
Accepted(s) ==
  /\ hook[s].at \in {"post", "gapPost"}
  /\ Received(s) /\ MoveOn(s)
  /\ UNCHANGED <<hooked, hookCount, requestVars, source, over, ends>>

\* The answer is an error or is lost.  A cancelled worker leaves.
PostFails(s) ==
  /\ hook[s].at \in {"post", "gapPost"}
  /\ Received(s) \/ UNCHANGED callbackVars
  /\ \/ /\ hook[s].attempt + 1 < Attempts
        /\ hook' = [hook EXCEPT ![s].attempt = @ + 1,
                                ![s].at = IF @ = "post" THEN "pause" ELSE "gapPause"]
     \/ hook[s].cancelled /\ HookRests(s, "leave")
  /\ UNCHANGED <<hooked, hookCount, requestVars, source, over, ends>>

\* The last attempt, 410 and 413 abandon the event.
Abandoned(s) ==
  /\ hook[s].at \in {"post", "gapPost"} /\ ~ hook[s].cancelled
  /\ settled' = IF FeedDead(s) THEN settled ELSE settled \cup Covered(s)
  /\ MoveOn(s)
  /\ UNCHANGED <<hooked, hookCount, requestVars, source, over, callback, ends>>

\* The delay between two attempts.
Pause(s) ==
  /\ hook[s].at \in {"pause", "gapPause"}
  /\ \/ HookAt(s, IF hook[s].at = "pause" THEN "try" ELSE "gap")
     \/ hook[s].cancelled /\ HookRests(s, "leave")
  /\ UNCHANGED <<hooked, hookCount, requestVars, source, over, callbackVars, ends>>

\* An event, the ticker, or the end.
WakeUp(s) ==
  /\ hook[s].at = "wait"
  /\ \/ hook[s].cancelled /\ HookRests(s, "leave")
     \/ HookAt(s, "loop")
  /\ UNCHANGED <<hooked, hookCount, requestVars, source, over, callbackVars, ends>>

\* terminated: a live subscription is taken out before the last envelope is sent.
Terminated(s) ==
  /\ hook[s].at = "term"
  /\ hooked' = IF Live(s) THEN 0 ELSE hooked
  /\ HookRests(s, "leave")
  /\ UNCHANGED <<hookCount, requestVars, source, over, callbackVars, ends>>

\* The deferred function, with releaseFeedLocked.
WorkerLeaves(s) ==
  /\ hook[s].at = "leave"
  /\ hook' = [hook EXCEPT ![s] = [NewHook EXCEPT !.at = "done"]]
  /\ hooked' = IF hooked = s THEN 0 ELSE hooked
  /\ source' = IF \A t \in Hooks \ {s} : ~ Running(t) \/ hook[t].feed # hook[s].feed
                 THEN [source EXCEPT !.live = @ /\ hook[s].feed # source.no]
                 ELSE source
  /\ UNCHANGED <<hookCount, requestVars, over, callbackVars, ends>>

-----------------------------------------------------------------------------
(* The feed, time and shutdown                                               *)

PublishToRing ==
  /\ source.live /\ ~ over /\ source.seq < MaxEvents
  /\ \E n \in source.first .. source.seq + 2 :
       /\ source.seq + 2 - n <= HookRing
       /\ source' = [source EXCEPT !.seq = @ + 1, !.first = n]
  /\ UNCHANGED <<hookVars, requestVars, over, callbackVars, ends>>

\* failFeed
SourceFails ==
  /\ source.live /\ ends < MaxEnds /\ ends' = ends + 1
  /\ source' = [source EXCEPT !.live = FALSE]
  /\ UNCHANGED <<hookVars, requestVars, over, callbackVars>>

HookExpires ==
  /\ hooked # 0 /\ ~ hook[hooked].expired /\ ends < MaxEnds
  /\ hook' = [hook EXCEPT ![hooked].expired = TRUE] /\ ends' = ends + 1
  /\ UNCHANGED <<hooked, hookCount, requestVars, source, over, callbackVars>>

\* sweep
SweepHook ==
  /\ hooked # 0 /\ hook[hooked].expired
  /\ hook' = [hook EXCEPT ![hooked].cancelled = TRUE] /\ hooked' = 0
  /\ UNCHANGED <<hookCount, requestVars, source, over, callbackVars, ends>>

CloseManager ==
  /\ ~ over /\ over' = TRUE
  /\ hook' = [s \in Hooks |-> [hook[s] EXCEPT !.cancelled = @ \/ Running(s)]] /\ hooked' = 0
  /\ source' = [source EXCEPT !.live = FALSE]
  /\ UNCHANGED <<hookCount, requestVars, callbackVars, ends>>

WebhooksNext ==
  \/ \E r \in Clients :
       \/ SubscribeBegins(r) \/ Verify(r) \/ Refresh(r) \/ SubscribeFeed(r)
       \/ SubscribeAttaches(r) \/ UnsubscribeBegins(r) \/ UnsubscribeReturns(r)
  \/ \E s \in Hooks :
       \/ LoopAuthorized(s) \/ ReadBatch(s) \/ TryPost(s) \/ Accepted(s) \/ PostFails(s)
       \/ Abandoned(s) \/ Pause(s) \/ WakeUp(s) \/ Terminated(s) \/ WorkerLeaves(s)
  \/ PublishToRing \/ SourceFails \/ HookExpires \/ SweepHook \/ CloseManager

WebhooksSpec == WebhooksInit /\ [][WebhooksNext]_webhookVars

-----------------------------------------------------------------------------
(* Properties                                                                *)

\* Whatever cursor the callback keeps - from a payload, a gap, or the answer to
\* a renewal that overtakes a delivery - it resumes without losing an event
\* silently: all before it was accepted, abandoned after its attempts, or
\* called a gap (deliverLoop).
CursorNeverAhead ==
  callback.feed = source.no /\ source.live => Until(callback.pos) \subseteq settled

\* A subscription that is found and has not expired has a worker that delivers,
\* or that takes it out and then tells the callback (terminated); every other
\* worker of its key is cancelled or on its way out (subscribe, deliverLoop).
\* One exception: a worker that saw its subscription expired leaves, and when a
\* renewal is answered before it has left, what was renewed goes with it.
OneWorkerPerHook ==
  /\ hooked # 0 => /\ Running(hooked) /\ ~ hook[hooked].cancelled
                   /\ hook[hooked].at = "leave" => hook[hooked].expired \/ hook[hooked].revived
  /\ \A s \in Hooks : Running(s) /\ s # hooked => hook[s].cancelled \/ hook[s].at = "leave" \/ over
===============================================================================
