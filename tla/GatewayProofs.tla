------------------------------ MODULE GatewayProofs ------------------------------
(***************************************************************************)
(* Machine-checked proofs about Webhooks, VirtualChanges and               *)
(* Subscriptions, for any number of requests, subscriptions, events,       *)
(* instances, commits, streams, slots and failures and any size of the     *)
(* ring.                                                                   *)
(***************************************************************************)
EXTENDS Subscriptions, Webhooks, VirtualChanges, SequenceTheorems, FiniteSetTheorems, TLAPS

-----------------------------------------------------------------------------
(* Webhooks: the subscription of a key and the cursors its callback keeps.  *)

HookRows == [at : {"new", "loop", "read", "try", "post", "pause", "gap", "gapPost", "gapPause",
                   "wait", "term", "leave", "done"},
             cursor : Nat, next : Nat \ {0}, pos : Nat, attempt : Nat,
             feed : Nat, expired : BOOLEAN, cancelled : BOOLEAN, gapped : Nat, revived : BOOLEAN]

WebType ==
  /\ hook \in [Hooks -> HookRows] /\ hooked \in 0 .. MaxHooks /\ hookCount \in 0 .. MaxHooks
  /\ request \in [Clients -> RequestRecords] /\ webhookMu \in Clients \cup {NoClient}
  /\ source \in [no : Nat, live : BOOLEAN, seq : Nat, first : Nat \ {0}] /\ over \in BOOLEAN
  /\ callback \in [feed : Nat, pos : Nat] /\ settled \subseteq Nat /\ ends \in 0 .. MaxEnds

\* Requests follow each other under webhookMu: one that goes on to the feed has
\* found no subscription, and nobody else makes one.
RequestInv ==
  \A r \in Clients :
    /\ request[r].at # "idle" => webhookMu = r
    /\ request[r].at \in {"feed", "attach"} => hooked = 0
    /\ request[r].at = "verify" /\ request[r].hook = 0 => hooked = 0
    /\ request[r].at = "apply" => request[r].hook \in Hooks

\* The subscription that is found has a worker, every other worker is cancelled or
\* on its way out.
WorkerInv ==
  /\ hooked # 0 => hooked <= hookCount /\ Running(hooked) /\ ~ hook[hooked].cancelled /\ ~ over
  /\ \A s \in Hooks :
       /\ s > hookCount => hook[s].at = "new"
       /\ Running(s) /\ s # hooked => hook[s].cancelled \/ hook[s].at = "leave"

\* What the worker has passed was settled, or is a gap the next renewal tells of.
HookFine(h) ==
  /\ h.feed <= source.no
  /\ h.at \in {"try", "post", "pause"} => h.next = h.cursor + 1
  /\ h.at \notin {"new", "done"} /\ h.feed = source.no /\ source.live =>
       /\ Until(h.cursor) \subseteq settled \cup Until(h.gapped)
       /\ ~ h.expired \/ h.at \in {"post", "gapPost"} => Until(h.cursor) \subseteq settled
       /\ h.at \in {"gap", "gapPost", "gapPause"} => Until(h.next - 1) \subseteq settled \cup Until(h.gapped)

CursorInv ==
  /\ callback.feed <= source.no /\ CursorNeverAhead
  /\ \A s \in Hooks : HookFine(hook[s])

WebInv == WebType /\ RequestInv /\ WorkerInv /\ CursorInv

\* A worker that goes to another place, keeps its feed and its cursor.
HookKept(h, x) ==
  /\ h \in HookRows /\ x \in HookRows
  /\ x.feed = h.feed /\ x.expired = h.expired /\ x.cancelled = h.cancelled
  /\ h.at \notin {"new", "done"} /\ x.at \notin {"new", "done"}

\* What a step of one worker must show: the subscription may be taken out, and what
\* it settles is added.
LEMMA WorkerStep ==
  ASSUME WebInv, NEW s \in Hooks, NEW x, HookKept(hook[s], x),
         hook' = [hook EXCEPT ![s] = x],
         NEW h \in {hooked, 0}, hooked' = h,
         UNCHANGED <<hookCount, requestVars, source, over>>,
         ends' \in 0 .. MaxEnds,
         NEW S \in SUBSET Nat, settled' = S, source.live => settled \subseteq S,
         hook[s].at = "leave" => x.at = "leave",
         h # hooked => hooked = s /\ x.at = "leave",
         callback' \in [feed : Nat, pos : Nat], callback'.feed <= source.no,
         callback' = callback
           \/ (callback'.feed = source.no /\ source.live => Until(callback'.pos) \subseteq S),
         x.at \in {"try", "post", "pause"} => x.next = x.cursor + 1,
         x.feed = source.no /\ source.live =>
           /\ Until(x.cursor) \subseteq S \cup Until(x.gapped)
           /\ ~ x.expired \/ x.at \in {"post", "gapPost"} => Until(x.cursor) \subseteq S
           /\ x.at \in {"gap", "gapPost", "gapPause"} => Until(x.next - 1) \subseteq S \cup Until(x.gapped)
  PROVE  WebInv'
<1>1. /\ hook \in [Hooks -> HookRows] /\ hooked \in 0 .. MaxHooks /\ hookCount \in 0 .. MaxHooks
      /\ source.no \in Nat /\ MaxHooks \in Nat
  BY WebhookAssumption DEF WebInv, WebType
<1>2. hook' \in [Hooks -> HookRows] /\ hook'[s] = x /\ \A t \in Hooks \ {s} : hook'[t] = hook[t]
  BY <1>1 DEF HookKept
<1>3. WebType'
  <2>1. h \in 0 .. MaxHooks
    BY <1>1
  <2>2. /\ hookCount' \in 0 .. MaxHooks /\ request' \in [Clients -> RequestRecords]
        /\ webhookMu' \in Clients \cup {NoClient}
        /\ source' \in [no : Nat, live : BOOLEAN, seq : Nat, first : Nat \ {0}] /\ over' \in BOOLEAN
    BY DEF WebInv, WebType, requestVars
  <2>3. hook' \in [Hooks -> HookRows]
    BY <1>2
  <2>4. hooked' \in 0 .. MaxHooks
    BY <2>1
  <2>5. callback' \in [feed : Nat, pos : Nat]
    OBVIOUS
  <2>6. settled' \subseteq Nat
    OBVIOUS
  <2>7. ends' \in 0 .. MaxEnds
    OBVIOUS
  <2> QED
    BY <2>2, <2>3, <2>4, <2>5, <2>6, <2>7 DEF WebType
<1>4. RequestInv'
  BY DEF WebInv, RequestInv, requestVars
<1>5. WorkerInv'
  <2>1. ASSUME h # 0 PROVE h <= hookCount /\ hook'[h].at \notin {"new", "done"} /\ ~ hook'[h].cancelled /\ ~ over
    <3>1. h = hooked /\ h \in Hooks
      BY <1>1, <2>1 DEF Hooks
    <3> QED
      BY <1>2, <2>1, <3>1 DEF WebInv, WorkerInv, Running, HookKept
  <2>2. ASSUME NEW t \in Hooks PROVE t > hookCount => hook'[t].at = "new"
    BY <1>2 DEF WebInv, WorkerInv, HookKept
  <2>3. ASSUME NEW t \in Hooks, hook'[t].at \notin {"new", "done"}, t # h
        PROVE  hook'[t].cancelled \/ hook'[t].at = "leave"
    BY <1>2, <2>3 DEF WebInv, WorkerInv, HookKept, Running
  <2> QED
    BY <2>1, <2>2, <2>3 DEF WorkerInv, Running
<1>6. CursorInv'
  <2>1. ASSUME NEW t \in Hooks
        PROVE  /\ hook'[t].feed <= source.no
               /\ hook'[t].at \in {"try", "post", "pause"} => hook'[t].next = hook'[t].cursor + 1
               /\ hook'[t].at \notin {"new", "done"} /\ hook'[t].feed = source.no /\ source.live =>
                    /\ Until(hook'[t].cursor) \subseteq S \cup Until(hook'[t].gapped)
                    /\ ~ hook'[t].expired \/ hook'[t].at \in {"post", "gapPost"} => Until(hook'[t].cursor) \subseteq S
                    /\ hook'[t].at \in {"gap", "gapPost", "gapPause"} =>
                         Until(hook'[t].next - 1) \subseteq S \cup Until(hook'[t].gapped)
    <3>1. CASE t = s
      BY <1>2, <3>1 DEF WebInv, CursorInv, HookFine, HookKept
    <3>2. CASE t # s
      BY <1>2, <3>2 DEF WebInv, CursorInv, HookFine
    <3> QED
      BY <3>1, <3>2
  <2>2. callback'.feed = source.no /\ source.live => Until(callback'.pos) \subseteq S
    BY DEF WebInv, CursorInv, CursorNeverAhead
  <2> HIDE DEF Until
  <2> QED
    BY <2>1, <2>2 DEF CursorInv, CursorNeverAhead, HookFine, Until
<1> QED
  BY <1>3, <1>4, <1>5, <1>6 DEF WebInv

\* What is known of a subscription and the feed before a step.
LEMMA HookNow ==
  ASSUME WebInv, NEW s \in Hooks
  PROVE  /\ hook \in [Hooks -> HookRows] /\ hook[s] \in HookRows
         /\ hook[s].cursor \in Nat /\ hook[s].next \in Nat /\ hook[s].next > 0 /\ hook[s].gapped \in Nat
         /\ hook[s].pos \in Nat /\ hook[s].attempt \in Nat /\ hook[s].feed \in Nat
         /\ hook[s].expired \in BOOLEAN /\ hook[s].cancelled \in BOOLEAN
         /\ HookFine(hook[s])
         /\ hooked \in 0 .. MaxHooks /\ MaxHooks \in Nat /\ s \in Nat /\ s # 0
         /\ source.no \in Nat /\ source.seq \in Nat /\ source.first \in Nat /\ source.first > 0
         /\ callback \in [feed : Nat, pos : Nat] /\ callback.feed <= source.no
         /\ settled \in SUBSET Nat /\ ends \in 0 .. MaxEnds /\ MaxEnds \in Nat /\ 0 \in Nat
<1>1. hook \in [Hooks -> HookRows] /\ hook[s] \in HookRows /\ HookFine(hook[s])
  BY DEF WebInv, WebType, CursorInv
<1>2. /\ hook[s].cursor \in Nat /\ hook[s].next \in Nat \ {0} /\ hook[s].gapped \in Nat
      /\ hook[s].pos \in Nat /\ hook[s].attempt \in Nat /\ hook[s].feed \in Nat
      /\ hook[s].expired \in BOOLEAN /\ hook[s].cancelled \in BOOLEAN
  BY <1>1 DEF HookRows
<1>3. hooked \in 0 .. MaxHooks /\ MaxHooks \in Nat /\ s \in Nat /\ s # 0 /\ MaxEnds \in Nat
  BY WebhookAssumption DEF WebInv, WebType, Hooks
<1>4. source \in [no : Nat, live : BOOLEAN, seq : Nat, first : Nat \ {0}]
  BY DEF WebInv, WebType
<1>5. source.no \in Nat /\ source.seq \in Nat /\ source.first \in Nat \ {0}
  BY <1>4
<1>6. callback \in [feed : Nat, pos : Nat] /\ settled \in SUBSET Nat /\ ends \in 0 .. MaxEnds
  BY DEF WebInv, WebType
<1>7. callback.feed <= source.no
  BY DEF WebInv, CursorInv
<1>8. hook[s].next > 0 /\ source.first > 0
  BY <1>2, <1>5
<1> QED
  BY <1>1, <1>2, <1>3, <1>5, <1>6, <1>7, <1>8

\* The rows of a worker that goes to another place, with what it has or with
\* nothing in hand.
Placed(h, l) == [h EXCEPT !.at = l]
Emptied(h, l) == [h EXCEPT !.at = l, !.next = 1, !.pos = 0, !.attempt = 0]
Places == {"loop", "read", "try", "post", "pause", "gap", "gapPost", "gapPause", "wait", "term", "leave"}

\* They keep the rest.
LEMMA HookMoves ==
  ASSUME NEW h \in HookRows, NEW l \in Places
  PROVE  /\ Placed(h, l) \in HookRows /\ Placed(h, l).at = l /\ Placed(h, l).next = h.next
         /\ Placed(h, l).cursor = h.cursor /\ Placed(h, l).gapped = h.gapped
         /\ Placed(h, l).feed = h.feed /\ Placed(h, l).expired = h.expired /\ Placed(h, l).cancelled = h.cancelled
         /\ Emptied(h, l) \in HookRows /\ Emptied(h, l).at = l
         /\ Emptied(h, l).cursor = h.cursor /\ Emptied(h, l).gapped = h.gapped
         /\ Emptied(h, l).feed = h.feed /\ Emptied(h, l).expired = h.expired /\ Emptied(h, l).cancelled = h.cancelled
<1>1. Placed(h, l) \in HookRows
  BY DEF HookRows, Placed, Places
<1>2. 1 \in Nat \ {0} /\ 0 \in Nat
  OBVIOUS
<1>3. Emptied(h, l) \in HookRows
  BY <1>2 DEF HookRows, Emptied, Places
<1>4. /\ Placed(h, l).at = l /\ Placed(h, l).next = h.next
      /\ Placed(h, l).cursor = h.cursor /\ Placed(h, l).gapped = h.gapped
      /\ Placed(h, l).feed = h.feed /\ Placed(h, l).expired = h.expired /\ Placed(h, l).cancelled = h.cancelled
  BY DEF HookRows, Placed
<1>5. /\ Emptied(h, l).at = l /\ Emptied(h, l).cursor = h.cursor /\ Emptied(h, l).gapped = h.gapped
      /\ Emptied(h, l).feed = h.feed /\ Emptied(h, l).expired = h.expired /\ Emptied(h, l).cancelled = h.cancelled
  BY DEF HookRows, Emptied
<1> QED
  BY <1>1, <1>3, <1>4, <1>5

\* A worker goes to another place with what it has.
LEMMA WorkerMoves ==
  ASSUME WebInv, NEW s \in Hooks, NEW x, HookKept(hook[s], x), hook[s].at # "leave",
         hook' = [hook EXCEPT ![s] = x], NEW h \in {hooked, 0}, hooked' = h,
         UNCHANGED <<hookCount, requestVars, source, over, callbackVars>>, ends' \in 0 .. MaxEnds,
         h # hooked => hooked = s /\ x.at = "leave",
         x.cursor = hook[s].cursor, x.gapped = hook[s].gapped,
         x.at \in {"try", "post", "pause"} => x.next = x.cursor + 1,
         x.at \in {"post", "gapPost"} => ~ hook[s].expired \/ hook[s].at \in {"post", "gapPost"},
         x.at \in {"gap", "gapPost", "gapPause"} =>
           x.next = hook[s].next /\ hook[s].at \in {"gap", "gapPost", "gapPause"}
  PROVE  WebInv'
<1>1. /\ HookFine(hook[s]) /\ callback \in [feed : Nat, pos : Nat] /\ callback.feed <= source.no
      /\ settled \in SUBSET Nat
  BY HookNow
<1>2. callback' = callback /\ settled' = settled
  BY DEF callbackVars
<1>3. x.feed = source.no /\ source.live =>
           /\ Until(x.cursor) \subseteq settled \cup Until(x.gapped)
           /\ ~ x.expired \/ x.at \in {"post", "gapPost"} => Until(x.cursor) \subseteq settled
           /\ x.at \in {"gap", "gapPost", "gapPause"} => Until(x.next - 1) \subseteq settled \cup Until(x.gapped)
  BY <1>1 DEF HookFine, HookKept
<1> QED
  BY <1>1, <1>2, <1>3, WorkerStep

\* Authorization: on to the next place, or on the way out.
LEMMA AuthorizedMoves ==
  ASSUME WebInv, NEW s \in Hooks, Running(s), hook[s].at # "leave", NEW l \in {"read", "post", "gapPost"},
         Authorized(s, l), UNCHANGED <<hooked, hookCount, requestVars, source, over, callbackVars>>,
         l = "post" => hook[s].at = "try", l = "gapPost" => hook[s].at = "gap"
  PROVE  WebInv'
<1>1. ends' \in 0 .. MaxEnds
  BY HookNow DEF Authorized
<1>2. hook[s] \in HookRows /\ HookFine(hook[s]) /\ hook \in [Hooks -> HookRows]
  BY HookNow
<1>3. CASE HookAt(s, l) /\ Live(s)
  <2> DEFINE x == Placed(hook[s], l)
  <2>1. /\ x \in HookRows /\ x.at = l /\ x.next = hook[s].next /\ x.cursor = hook[s].cursor /\ x.gapped = hook[s].gapped
        /\ x.feed = hook[s].feed /\ x.expired = hook[s].expired /\ x.cancelled = hook[s].cancelled
    BY <1>2, HookMoves DEF Places
  <2>2. hook' = [hook EXCEPT ![s] = x]
    BY <1>3 DEF HookAt, Placed
  <2> HIDE DEF x
  <2>3. HookKept(hook[s], x) /\ ~ hook[s].expired
    BY <1>2, <1>3, <2>1 DEF HookKept, Live, Running
  <2>4. x.at \in {"try", "post", "pause"} => x.next = x.cursor + 1
    BY <1>2, <2>1 DEF HookFine
  <2>5. x.at \in {"gap", "gapPost", "gapPause"} =>
          x.next = hook[s].next /\ hook[s].at \in {"gap", "gapPost", "gapPause"}
    BY <2>1
  <2> QED
    BY <1>1, <2>1, <2>2, <2>3, <2>4, <2>5, WorkerMoves
<1>4. ASSUME NEW m \in {"leave", "term"}, HookRests(s, m) PROVE WebInv'
  <2> DEFINE x == Emptied(hook[s], m)
  <2>1. /\ x \in HookRows /\ x.at = m /\ x.cursor = hook[s].cursor /\ x.gapped = hook[s].gapped
        /\ x.feed = hook[s].feed /\ x.expired = hook[s].expired /\ x.cancelled = hook[s].cancelled
    BY <1>2, HookMoves DEF Places
  <2>2. hook' = [hook EXCEPT ![s] = x]
    BY <1>4 DEF HookRests, Empty, Emptied
  <2> HIDE DEF x
  <2>3. HookKept(hook[s], x)
    BY <1>2, <2>1 DEF HookKept, Running
  <2> QED
    BY <1>1, <2>1, <2>2, <2>3, WorkerMoves
<1> QED
  BY <1>3, <1>4 DEF Authorized

\* The ways between the places of a worker.
LEMMA WorkerWalks ==
  ASSUME WebInv, NEW s \in Hooks,
         LoopAuthorized(s) \/ Pause(s) \/ WakeUp(s) \/ Terminated(s)
  PROVE  WebInv'
<1>1. /\ hook[s] \in HookRows /\ HookFine(hook[s]) /\ hook \in [Hooks -> HookRows] /\ ends \in 0 .. MaxEnds
      /\ s # 0
  BY HookNow
<1>2. CASE LoopAuthorized(s)
  BY <1>2, AuthorizedMoves DEF LoopAuthorized, Running
\* To a place l where it has what it had.
<1>3. ASSUME NEW l \in {"try", "gap", "loop"}, HookAt(s, l), UNCHANGED ends,
             UNCHANGED <<hooked, hookCount, requestVars, source, over, callbackVars>>,
             l = "try" => hook[s].at = "pause", l = "gap" => hook[s].at = "gapPause",
             hook[s].at \in {"pause", "gapPause", "wait"}
      PROVE  WebInv'
  <2> DEFINE x == Placed(hook[s], l)
  <2>1. /\ x \in HookRows /\ x.at = l /\ x.next = hook[s].next /\ x.cursor = hook[s].cursor /\ x.gapped = hook[s].gapped
        /\ x.feed = hook[s].feed /\ x.expired = hook[s].expired /\ x.cancelled = hook[s].cancelled
    BY <1>1, HookMoves DEF Places
  <2>2. hook' = [hook EXCEPT ![s] = x]
    BY <1>3 DEF HookAt, Placed
  <2> HIDE DEF x
  <2>3. HookKept(hook[s], x)
    BY <1>1, <1>3, <2>1 DEF HookKept
  <2>4. x.at \in {"try", "post", "pause"} => x.next = x.cursor + 1
    BY <1>1, <1>3, <2>1 DEF HookFine
  <2>5. x.at \in {"gap", "gapPost", "gapPause"} =>
          x.next = hook[s].next /\ hook[s].at \in {"gap", "gapPost", "gapPause"}
    BY <1>3, <2>1
  <2> QED
    BY <1>1, <1>3, <2>1, <2>2, <2>3, <2>4, <2>5, WorkerMoves
\* To the way out.
<1>4. ASSUME HookRests(s, "leave"), NEW h \in {hooked, 0}, hooked' = h, UNCHANGED ends,
             UNCHANGED <<hookCount, requestVars, source, over, callbackVars>>,
             h # hooked => hooked = s, hook[s].at \in {"pause", "gapPause", "wait", "term"}
      PROVE  WebInv'
  <2> DEFINE x == Emptied(hook[s], "leave")
  <2>1. /\ x \in HookRows /\ x.at = "leave" /\ x.cursor = hook[s].cursor /\ x.gapped = hook[s].gapped
        /\ x.feed = hook[s].feed /\ x.expired = hook[s].expired /\ x.cancelled = hook[s].cancelled
    BY <1>1, HookMoves DEF Places
  <2>2. hook' = [hook EXCEPT ![s] = x]
    BY <1>4 DEF HookRests, Empty, Emptied
  <2> HIDE DEF x
  <2>3. HookKept(hook[s], x)
    BY <1>1, <1>4, <2>1 DEF HookKept
  <2> QED
    BY <1>1, <1>4, <2>1, <2>2, <2>3, WorkerMoves
<1>5. CASE Pause(s)
  BY <1>3, <1>4, <1>5 DEF Pause
<1>6. CASE WakeUp(s)
  BY <1>3, <1>4, <1>6 DEF WakeUp
<1>7. CASE Terminated(s)
  <2>1. PICK h \in {hooked, 0} : hooked' = h /\ (h # hooked => hooked = s)
    BY <1>7 DEF Terminated, Live
  <2> QED
    BY <1>4, <1>7, <2>1 DEF Terminated
<1> QED
  BY <1>2, <1>5, <1>6, <1>7

\* The positions up to one.
LEMMA UntilSteps ==
  ASSUME NEW n \in Nat
  PROVE  /\ Until(n) \in SUBSET Nat /\ Until(n + 1) = Until(n) \cup {n + 1}
         /\ \A m \in Nat : n <= m => Until(n) \subseteq Until(m)
BY DEF Until

\* Going on to the next event, or to wait.
LEMMA MovesOn ==
  ASSUME WebInv, NEW s \in Hooks, MoveOn(s), hook[s].at \in {"gap", "gapPost", "post"}
  PROVE  \E x : /\ hook' = [hook EXCEPT ![s] = x] /\ HookKept(hook[s], x) /\ x.at \in {"try", "wait"}
                /\ (x.at = "try" => x.next = x.cursor + 1) /\ x.gapped = hook[s].gapped
                /\ x.cursor = IF hook[s].at = "post" THEN hook[s].next ELSE hook[s].next - 1
<1> DEFINE h == hook[s]
           first == IF h.at \in {"gap", "gapPost"} THEN h.next ELSE h.next + 1
           y == [h EXCEPT !.at = "try", !.next = first, !.attempt = 0]
           b == IF first <= h.pos THEN y ELSE Emptied(h, "wait")
           x == [b EXCEPT !.cursor = first - 1]
<1>1. h \in HookRows /\ h.next \in Nat /\ h.next > 0
  BY HookNow
<1>2. first \in Nat \ {0} /\ first - 1 \in Nat /\ first - 1 = IF h.at = "post" THEN h.next ELSE h.next - 1
  BY <1>1
<1>3. hook' = [hook EXCEPT ![s] = x]
  BY DEF MoveOn, Empty, Emptied
<1> HIDE DEF first
<1>4. /\ y \in HookRows /\ y.at = "try" /\ y.next = first /\ y.gapped = h.gapped
      /\ y.feed = h.feed /\ y.expired = h.expired /\ y.cancelled = h.cancelled
  <2>1. 0 \in Nat
    OBVIOUS
  <2>2. y \in HookRows
    BY <1>1, <1>2, <2>1 DEF HookRows
  <2> QED
    BY <1>1, <2>2 DEF HookRows
<1>5. /\ Emptied(h, "wait") \in HookRows /\ Emptied(h, "wait").at = "wait" /\ Emptied(h, "wait").gapped = h.gapped
      /\ Emptied(h, "wait").feed = h.feed /\ Emptied(h, "wait").expired = h.expired
      /\ Emptied(h, "wait").cancelled = h.cancelled
  BY <1>1, HookMoves DEF Places
<1> HIDE DEF y
<1>6. /\ b \in HookRows /\ b.at \in {"try", "wait"} /\ (b.at = "try" => b.next = first) /\ b.gapped = h.gapped
      /\ b.feed = h.feed /\ b.expired = h.expired /\ b.cancelled = h.cancelled
  BY <1>4, <1>5
<1> HIDE DEF b
<1>7. /\ x \in HookRows /\ x.at = b.at /\ x.next = b.next /\ x.gapped = b.gapped /\ x.cursor = first - 1
      /\ x.feed = b.feed /\ x.expired = b.expired /\ x.cancelled = b.cancelled
  <2>1. x \in HookRows
    BY <1>2, <1>6 DEF HookRows
  <2> QED
    BY <1>6, <2>1 DEF HookRows
<1> HIDE DEF x
<1>8. HookKept(h, x)
  BY <1>1, <1>6, <1>7 DEF HookKept
<1>9. x.at = "try" => x.next = x.cursor + 1
  BY <1>2, <1>6, <1>7
<1> QED
  BY <1>2, <1>3, <1>6, <1>7, <1>8, <1>9

\* What is passed was settled, or belongs to a gap.
LEMMA PassedOn ==
  ASSUME WebInv, NEW s \in Hooks, MoveOn(s), hook[s].at \in {"gap", "gapPost", "post"},
         hook[s].at = "gap" => hook[s].expired,
         UNCHANGED <<hooked, hookCount, requestVars, source, over>>, ends' \in 0 .. MaxEnds,
         NEW S \in SUBSET Nat, settled' = S, settled \subseteq S,
         hook[s].at # "gap" /\ ~ FeedDead(s) => Covered(s) \subseteq S,
         callback' \in [feed : Nat, pos : Nat], callback'.feed <= source.no,
         callback' = callback
           \/ (callback'.feed = source.no /\ source.live => Until(callback'.pos) \subseteq S)
  PROVE  WebInv'
<1> DEFINE h == hook[s]
<1>1. h \in HookRows /\ h.next \in Nat /\ h.next > 0 /\ h.cursor \in Nat /\ HookFine(h)
  BY HookNow
<1>2. PICK x : /\ hook' = [hook EXCEPT ![s] = x] /\ HookKept(h, x) /\ x.at \in {"try", "wait"}
               /\ (x.at = "try" => x.next = x.cursor + 1) /\ x.gapped = h.gapped
               /\ x.cursor = IF h.at = "post" THEN h.next ELSE h.next - 1
  BY MovesOn
<1>3. ASSUME x.feed = source.no, source.live
      PROVE  /\ Until(x.cursor) \subseteq S \cup Until(x.gapped)
             /\ ~ x.expired => Until(x.cursor) \subseteq S
  <2>1. ~ FeedDead(s) /\ x.feed = h.feed /\ x.expired = h.expired
    BY <1>2, <1>3 DEF FeedDead, HookKept
  <2>2. CASE h.at = "post"
    <3>1. h.next = h.cursor + 1 /\ Until(h.cursor) \subseteq settled
      BY <1>1, <1>3, <2>1, <2>2 DEF HookFine
    <3>2. Covered(s) = {h.cursor + 1} /\ Until(h.cursor + 1) = Until(h.cursor) \cup {h.cursor + 1}
      BY <1>1, <2>2, <3>1, UntilSteps DEF Covered
    <3> QED
      BY <1>2, <2>1, <2>2, <3>1, <3>2
  <2>3. CASE h.at = "gapPost"
    <3>1. Covered(s) = Until(x.cursor)
      BY <1>2, <2>3 DEF Covered
    <3> QED
      BY <2>1, <2>3, <3>1
  <2>4. CASE h.at = "gap"
    <3>1. Until(h.next - 1) \subseteq settled \cup Until(h.gapped)
      BY <1>1, <1>3, <2>1, <2>4 DEF HookFine
    <3> QED
      BY <1>2, <2>1, <2>4, <3>1
  <2> QED
    BY <2>2, <2>3, <2>4
<1> QED
  BY <1>2, <1>3, WorkerStep

\* What the callback gets and keeps was settled.
LEMMA ReceivedSafe ==
  ASSUME WebInv, NEW s \in Hooks, hook[s].at \in {"post", "gapPost"}, Received(s)
  PROVE  /\ settled' \in SUBSET Nat /\ settled \subseteq settled' /\ (~ FeedDead(s) => Covered(s) \subseteq settled')
         /\ callback' \in [feed : Nat, pos : Nat] /\ callback'.feed <= source.no
         /\ \/ callback' = callback
            \/ (callback'.feed = source.no /\ source.live => Until(callback'.pos) \subseteq settled')
<1> DEFINE h == hook[s]
<1>1. /\ h \in HookRows /\ h.next \in Nat /\ h.next > 0 /\ h.cursor \in Nat /\ h.feed \in Nat /\ HookFine(h)
      /\ settled \in SUBSET Nat /\ callback \in [feed : Nat, pos : Nat] /\ callback.feed <= source.no
  BY HookNow
<1>2. Carried(s) \in Nat /\ Covered(s) \in SUBSET Nat
  BY <1>1, UntilSteps DEF Carried, Covered
<1>3. settled' = IF FeedDead(s) THEN settled ELSE settled \cup Covered(s)
  BY DEF Received
<1>4. ~ FeedDead(s) => Until(Carried(s)) \subseteq settled'
  BY <1>1, <1>3 DEF FeedDead, Carried, Covered, HookFine
<1>5. callback' = callback \/ callback' = [feed |-> h.feed, pos |-> Carried(s)]
  BY DEF Received, Given
<1>6. h.feed <= source.no
  BY <1>1 DEF HookFine
<1>7. h.feed = source.no /\ source.live => ~ FeedDead(s)
  BY DEF FeedDead
<1>8. settled' \in SUBSET Nat /\ settled \subseteq settled' /\ (~ FeedDead(s) => Covered(s) \subseteq settled')
  BY <1>1, <1>2, <1>3
<1>9. CASE callback' = callback
  BY <1>1, <1>8, <1>9
<1>10. CASE callback' = [feed |-> h.feed, pos |-> Carried(s)]
  <2>1. callback' \in [feed : Nat, pos : Nat] /\ callback'.feed = h.feed /\ callback'.pos = Carried(s)
    BY <1>1, <1>2, <1>10
  <2> QED
    BY <1>4, <1>6, <1>7, <1>8, <2>1
<1> QED
  BY <1>5, <1>9, <1>10

\* The deliveries of a worker.
LEMMA DeliveryStep ==
  ASSUME WebInv, NEW s \in Hooks, TryPost(s) \/ Accepted(s) \/ PostFails(s) \/ Abandoned(s)
  PROVE  WebInv'
<1> DEFINE h == hook[s]
<1>1. /\ h \in HookRows /\ h.next \in Nat /\ h.next > 0 /\ h.cursor \in Nat /\ h.feed \in Nat /\ HookFine(h)
      /\ settled \in SUBSET Nat /\ callback \in [feed : Nat, pos : Nat] /\ callback.feed <= source.no
      /\ ends \in 0 .. MaxEnds /\ h.attempt \in Nat /\ hook \in [Hooks -> HookRows] /\ hooked \in 0 .. MaxHooks
  BY HookNow
<1>2. CASE TryPost(s)
  <2>1. CASE Authorized(s, IF h.at = "gap" THEN "gapPost" ELSE "post")
    <3>1. h.at \in {"gap", "try"} /\ Running(s) /\ UNCHANGED <<hooked, hookCount, requestVars, source, over, callbackVars>>
      BY <1>2 DEF TryPost, Running
    <3>2. CASE h.at = "gap"
      BY <2>1, <3>1, <3>2, AuthorizedMoves
    <3>3. CASE h.at = "try"
      BY <2>1, <3>1, <3>3, AuthorizedMoves
    <3> QED
      BY <3>1, <3>2, <3>3
  <2>2. CASE h.at = "gap" /\ ~ Live(s) /\ ~ h.cancelled /\ MoveOn(s) /\ UNCHANGED ends
    <3>1. h.expired
      BY <2>2, HookNow DEF WebInv, WorkerInv, Running, Live
    <3>2. UNCHANGED <<hooked, hookCount, requestVars, source, over>> /\ callback' = callback /\ settled' = settled
      BY <1>2 DEF TryPost, callbackVars
    <3> QED
      BY <1>1, <2>2, <3>1, <3>2, PassedOn
  <2> QED
    BY <1>2, <2>1, <2>2 DEF TryPost
<1>3. CASE Accepted(s)
  <2>1. /\ h.at \in {"post", "gapPost"} /\ MoveOn(s) /\ Received(s)
        /\ UNCHANGED <<hooked, hookCount, requestVars, source, over, ends>>
    BY <1>3 DEF Accepted
  <2>2. PICK S \in SUBSET Nat : settled' = S
    BY <2>1, ReceivedSafe
  <2> QED
    BY <1>1, <2>1, <2>2, ReceivedSafe, PassedOn
<1>4. CASE Abandoned(s)
  <2>1. /\ h.at \in {"post", "gapPost"} /\ MoveOn(s) /\ callback' = callback
        /\ UNCHANGED <<hooked, hookCount, requestVars, source, over, ends>>
    BY <1>4 DEF Abandoned
  <2>2. Covered(s) \in SUBSET Nat
    BY <1>1, UntilSteps DEF Covered
  <2>3. PICK S \in SUBSET Nat : /\ settled' = S /\ settled \subseteq S
                                /\ (~ FeedDead(s) => Covered(s) \subseteq S)
    BY <1>1, <1>4, <2>2 DEF Abandoned
  <2> QED
    BY <1>1, <2>1, <2>3, PassedOn
<1>5. CASE PostFails(s)
  <2>1. /\ h.at \in {"post", "gapPost"} /\ UNCHANGED <<hooked, hookCount, requestVars, source, over, ends>>
    BY <1>5 DEF PostFails
  <2>2. /\ settled' \in SUBSET Nat /\ settled \subseteq settled'
        /\ callback' \in [feed : Nat, pos : Nat] /\ callback'.feed <= source.no
        /\ \/ callback' = callback
           \/ (callback'.feed = source.no /\ source.live => Until(callback'.pos) \subseteq settled')
    <3>1. CASE Received(s)
      BY <2>1, <3>1, ReceivedSafe
    <3>2. CASE UNCHANGED callbackVars
      BY <1>1, <3>2 DEF callbackVars
    <3> QED
      BY <1>5, <3>1, <3>2 DEF PostFails
  <2>3. PICK S \in SUBSET Nat : settled' = S
    BY <2>2
  <2>4. \E x : /\ hook' = [hook EXCEPT ![s] = x] /\ HookKept(h, x) /\ x.at \in {"pause", "gapPause", "leave"}
               /\ x.cursor = h.cursor /\ x.gapped = h.gapped
               /\ (x.at = "pause" => h.at = "post" /\ x.next = h.next)
               /\ (x.at = "gapPause" => h.at = "gapPost" /\ x.next = h.next)
    <3>1. CASE HookRests(s, "leave")
      <4>1. hook' = [hook EXCEPT ![s] = Emptied(h, "leave")]
        BY <3>1 DEF HookRests, Empty, Emptied
      <4>2. /\ Emptied(h, "leave") \in HookRows /\ Emptied(h, "leave").at = "leave"
            /\ Emptied(h, "leave").cursor = h.cursor /\ Emptied(h, "leave").gapped = h.gapped
            /\ Emptied(h, "leave").feed = h.feed /\ Emptied(h, "leave").expired = h.expired
            /\ Emptied(h, "leave").cancelled = h.cancelled
        BY <1>1, HookMoves DEF Places
      <4> QED
        BY <1>1, <2>1, <4>1, <4>2 DEF HookKept
    <3>2. CASE hook' = [hook EXCEPT ![s].attempt = @ + 1, ![s].at = IF @ = "post" THEN "pause" ELSE "gapPause"]
      <4> DEFINE a == IF h.at = "post" THEN "pause" ELSE "gapPause"
                 x == [h EXCEPT !.attempt = h.attempt + 1, !.at = a]
      <4>1. hook' = [hook EXCEPT ![s] = x]
        BY <1>1, <3>2 DEF HookRows
      <4> DEFINE n == h.attempt + 1
                 b == [h EXCEPT !.attempt = n]
      <4>2. n \in Nat /\ a \in Places
        BY <1>1 DEF Places
      <4> HIDE DEF n
      <4>3. b \in HookRows
        BY <1>1, <4>2 DEF HookRows
      <4>4. x = Placed(b, a)
        BY <1>1 DEF Placed, HookRows, n
      <4>5. x \in HookRows
        BY <4>2, <4>3, <4>4, HookMoves
      <4>6. /\ x.at = a /\ x.cursor = h.cursor /\ x.gapped = h.gapped /\ x.next = h.next
            /\ x.feed = h.feed /\ x.expired = h.expired /\ x.cancelled = h.cancelled
        BY <1>1 DEF HookRows
      <4> HIDE DEF x
      <4>7. HookKept(h, x)
        BY <1>1, <2>1, <4>5, <4>6 DEF HookKept
      <4> QED
        BY <2>1, <4>1, <4>6, <4>7
    <3> QED
      BY <1>5, <3>1, <3>2 DEF PostFails
  <2>5. PICK x : /\ hook' = [hook EXCEPT ![s] = x] /\ HookKept(h, x) /\ x.at \in {"pause", "gapPause", "leave"}
                 /\ x.cursor = h.cursor /\ x.gapped = h.gapped
                 /\ (x.at = "pause" => h.at = "post" /\ x.next = h.next)
                 /\ (x.at = "gapPause" => h.at = "gapPost" /\ x.next = h.next)
    BY <2>4
  <2>6. x.at \in {"try", "post", "pause"} => x.next = x.cursor + 1
    BY <1>1, <2>5 DEF HookFine
  <2>7. x.feed = source.no /\ source.live =>
           /\ Until(x.cursor) \subseteq S \cup Until(x.gapped)
           /\ ~ x.expired \/ x.at \in {"post", "gapPost"} => Until(x.cursor) \subseteq S
           /\ x.at \in {"gap", "gapPost", "gapPause"} => Until(x.next - 1) \subseteq S \cup Until(x.gapped)
    BY <1>1, <2>1, <2>2, <2>3, <2>5 DEF HookFine, HookKept
  <2> QED
    BY <1>1, <2>1, <2>2, <2>3, <2>5, <2>6, <2>7, WorkerStep
<1> QED
  BY <1>2, <1>3, <1>4, <1>5

\* Reading the ring: what is in hand follows the cursor, or the gap is noted.
LEMMA BatchRead == ASSUME WebInv, NEW s \in Hooks, ReadBatch(s) PROVE WebInv'
<1> DEFINE h == hook[s]
           gap == h.cursor + 1 < source.first
           reset == IF gap THEN source.first - 1 ELSE h.cursor
<1>1. /\ h \in HookRows /\ h.cursor \in Nat /\ h.gapped \in Nat /\ HookFine(h) /\ hook \in [Hooks -> HookRows]
      /\ settled \in SUBSET Nat /\ callback \in [feed : Nat, pos : Nat] /\ callback.feed <= source.no
      /\ ends \in 0 .. MaxEnds /\ hooked \in 0 .. MaxHooks
      /\ source.seq \in Nat /\ source.first \in Nat /\ source.first > 0
  BY HookNow
<1>2. /\ h.at = "read" /\ UNCHANGED <<hooked, hookCount, requestVars, source, over, callbackVars, ends>>
  BY DEF ReadBatch
<1>3. CASE FeedDead(s)
  <2>1. hook' = [hook EXCEPT ![s] = Emptied(h, "term")]
    BY <1>3 DEF ReadBatch, HookRests, Empty, Emptied
  <2>2. /\ Emptied(h, "term") \in HookRows /\ Emptied(h, "term").at = "term"
        /\ Emptied(h, "term").cursor = h.cursor /\ Emptied(h, "term").gapped = h.gapped
        /\ Emptied(h, "term").feed = h.feed /\ Emptied(h, "term").expired = h.expired
        /\ Emptied(h, "term").cancelled = h.cancelled
    BY <1>1, HookMoves DEF Places
  <2>3. HookKept(h, Emptied(h, "term"))
    BY <1>1, <1>2, <2>2 DEF HookKept
  <2> QED
    BY <1>1, <1>2, <2>1, <2>2, <2>3, WorkerMoves
<1>4. CASE HookAt(s, "wait")
  <2>1. hook' = [hook EXCEPT ![s] = Placed(h, "wait")]
    BY <1>4 DEF HookAt, Placed
  <2>2. /\ Placed(h, "wait") \in HookRows /\ Placed(h, "wait").at = "wait"
        /\ Placed(h, "wait").cursor = h.cursor /\ Placed(h, "wait").gapped = h.gapped
        /\ Placed(h, "wait").feed = h.feed /\ Placed(h, "wait").expired = h.expired
        /\ Placed(h, "wait").cancelled = h.cancelled
    BY <1>1, HookMoves DEF Places
  <2>3. HookKept(h, Placed(h, "wait"))
    BY <1>1, <1>2, <2>2 DEF HookKept
  <2> QED
    BY <1>1, <1>2, <2>1, <2>2, <2>3, WorkerMoves
<1> DEFINE l == IF gap THEN "gap" ELSE "try"
           g == IF gap THEN reset ELSE h.gapped
           n == reset + 1
           p == source.seq
           x == [h EXCEPT !.at = l, !.next = n, !.pos = p, !.gapped = g]
<1>5. CASE hook' = [hook EXCEPT ![s].at = IF gap THEN "gap" ELSE "try",
                               ![s].next = reset + 1, ![s].pos = source.seq,
                               ![s].gapped = IF gap THEN reset ELSE @]
  <2>1. hook' = [hook EXCEPT ![s] = x]
    BY <1>1, <1>5 DEF HookRows
  <2>2. reset \in Nat /\ (gap => h.cursor <= reset) /\ (~ gap => reset = h.cursor)
    BY <1>1
  <2>3. n \in Nat \ {0} /\ g \in Nat /\ p \in Nat /\ l \in {"gap", "try"} /\ n - 1 = reset
    BY <1>1, <2>2
  <2>4. (l = "gap" => gap /\ g = reset) /\ (l = "try" => ~ gap /\ g = h.gapped)
    OBVIOUS
  <2> HIDE DEF gap, reset, l, g, n, p
  <2>5. x \in HookRows
    BY <1>1, <2>3 DEF HookRows
  <2>6. /\ x.at = l /\ x.next = n /\ x.gapped = g /\ x.cursor = h.cursor
        /\ x.feed = h.feed /\ x.expired = h.expired /\ x.cancelled = h.cancelled
    BY <1>1, <2>5 DEF HookRows
  <2> HIDE DEF x
  <2>7. HookKept(h, x)
    BY <1>1, <1>2, <2>3, <2>5, <2>6 DEF HookKept
  <2>8. x.at \in {"try", "post", "pause"} => x.next = x.cursor + 1
    BY <1>1, <2>2, <2>3, <2>4, <2>6 DEF n
  <2>9. ASSUME x.feed = source.no, source.live
        PROVE  /\ Until(x.cursor) \subseteq settled \cup Until(x.gapped)
               /\ ~ x.expired => Until(x.cursor) \subseteq settled
               /\ x.at = "gap" => Until(x.next - 1) \subseteq settled \cup Until(x.gapped)
    <3>1. /\ Until(h.cursor) \subseteq settled \cup Until(h.gapped)
          /\ ~ h.expired => Until(h.cursor) \subseteq settled
      BY <1>1, <1>2, <2>6, <2>9 DEF HookFine
    <3>2. l = "gap" => Until(h.cursor) \subseteq Until(reset)
      BY <1>1, <2>2, <2>4, UntilSteps
    <3> QED
      BY <2>3, <2>4, <2>6, <3>1, <3>2
  <2>10. UNCHANGED <<hookCount, requestVars, source, over>> /\ callback' = callback /\ settled' = settled
         /\ hooked' = hooked /\ ends' = ends
    BY <1>2 DEF callbackVars
  <2>11. x.at \notin {"post", "gapPost", "gapPause", "pause"} /\ h.at # "leave"
    BY <1>2, <2>3, <2>6
  <2> QED
    BY <1>1, <2>1, <2>7, <2>8, <2>9, <2>10, <2>11, WorkerStep
<1> QED
  BY <1>3, <1>4, <1>5 DEF ReadBatch

\* A step that raises flags, ends workers or stops the feed leaves the cursors safe.
LEMMA CursorStays ==
  ASSUME WebInv, UNCHANGED callbackVars, source'.no = source.no, source'.live => source.live,
         \A t \in Hooks :
           \/ hook'[t].at \in {"new", "done"} /\ hook'[t].feed = 0
           \/ /\ hook'[t].at = hook[t].at /\ hook'[t].cursor = hook[t].cursor /\ hook'[t].next = hook[t].next
              /\ hook'[t].gapped = hook[t].gapped /\ hook'[t].feed = hook[t].feed
              /\ hook[t].expired => hook'[t].expired
  PROVE  CursorInv'
<1>1. callback' = callback /\ settled' = settled
  BY DEF callbackVars
<1>2. source.no \in Nat /\ callback.feed <= source.no
  BY DEF WebInv, WebType, CursorInv
<1>3. ASSUME NEW t \in Hooks
      PROVE  /\ hook'[t].feed <= source.no
             /\ hook'[t].at \in {"try", "post", "pause"} => hook'[t].next = hook'[t].cursor + 1
             /\ hook'[t].at \notin {"new", "done"} /\ hook'[t].feed = source.no /\ source'.live =>
                  /\ Until(hook'[t].cursor) \subseteq settled \cup Until(hook'[t].gapped)
                  /\ ~ hook'[t].expired \/ hook'[t].at \in {"post", "gapPost"} => Until(hook'[t].cursor) \subseteq settled
                  /\ hook'[t].at \in {"gap", "gapPost", "gapPause"} =>
                       Until(hook'[t].next - 1) \subseteq settled \cup Until(hook'[t].gapped)
  <2>1. HookFine(hook[t])
    BY DEF WebInv, CursorInv
  <2>2. CASE hook'[t].at \in {"new", "done"} /\ hook'[t].feed = 0
    BY <1>2, <2>2
  <2>3. CASE /\ hook'[t].at = hook[t].at /\ hook'[t].cursor = hook[t].cursor /\ hook'[t].next = hook[t].next
             /\ hook'[t].gapped = hook[t].gapped /\ hook'[t].feed = hook[t].feed
             /\ hook[t].expired => hook'[t].expired
    BY <2>1, <2>3 DEF HookFine
  <2> QED
    BY <2>2, <2>3
<1>4. callback.feed = source.no /\ source'.live => Until(callback.pos) \subseteq settled
  BY DEF WebInv, CursorInv, CursorNeverAhead
<1> QED
  BY <1>1, <1>2, <1>3, <1>4 DEF CursorInv, CursorNeverAhead, HookFine, Until

\* The subscription is taken out and its worker cancelled.
LEMMA TakenOut ==
  ASSUME WebInv, hooked # 0, hook' = [hook EXCEPT ![hooked].cancelled = TRUE], hooked' = 0,
         UNCHANGED <<hookCount, source, over, callbackVars, ends>>
  PROVE  /\ hook' \in [Hooks -> HookRows] /\ hooked' \in 0 .. MaxHooks
         /\ WorkerInv' /\ CursorInv'
<1>1. hooked \in Hooks /\ hook \in [Hooks -> HookRows] /\ MaxHooks \in Nat
  BY WebhookAssumption DEF WebInv, WebType, Hooks
<1>2. PICK k \in Hooks : k = hooked
  BY <1>1
<1>3. \A t \in Hooks : /\ hook'[t] \in HookRows /\ hook'[t].at = hook[t].at /\ hook'[t].cursor = hook[t].cursor
                       /\ hook'[t].next = hook[t].next /\ hook'[t].gapped = hook[t].gapped
                       /\ hook'[t].feed = hook[t].feed /\ hook'[t].expired = hook[t].expired
                       /\ hook'[t].cancelled = IF t = k THEN TRUE ELSE hook[t].cancelled
  BY <1>1, <1>2 DEF HookRows
<1>4. hook' \in [Hooks -> HookRows]
  BY <1>1, <1>3
<1>5. CursorInv'
  BY <1>3, CursorStays
<1>6. \A t \in Hooks : /\ t > hookCount => hook'[t].at = "new"
                       /\ hook'[t].at \notin {"new", "done"} => hook'[t].cancelled \/ hook'[t].at = "leave"
  <2>1. \A t \in Hooks : /\ t > hookCount => hook[t].at = "new"
                         /\ hook[t].at \notin {"new", "done"} /\ t # k => hook[t].cancelled \/ hook[t].at = "leave"
    BY <1>2 DEF WebInv, WorkerInv, Running
  <2> QED
    BY <1>3, <2>1
<1>7. WorkerInv'
  <2>1. hooked' = 0 /\ hookCount' = hookCount
    OBVIOUS
  <2> QED
    BY <1>6, <2>1 DEF WorkerInv, Running
<1> QED
  BY <1>1, <1>4, <1>5, <1>7

\* A request holds webhookMu or takes it, and the others rest.
LEMMA RequestMoves ==
  ASSUME WebInv, NEW r \in Clients, webhookMu \in {r, NoClient}, NEW q \in RequestRecords,
         request' = [request EXCEPT ![r] = q], webhookMu' = IF q.at = "idle" THEN NoClient ELSE r,
         NEW k, hooked' = k,
         q.at \in {"feed", "attach"} => k = 0, q.at = "verify" /\ q.hook = 0 => k = 0,
         q.at = "apply" => q.hook \in Hooks
  PROVE  /\ request' \in [Clients -> RequestRecords] /\ webhookMu' \in Clients \cup {NoClient}
         /\ RequestInv'
<1>1. request \in [Clients -> RequestRecords] /\ NoClient \notin Clients
  BY WebhookAssumption DEF WebInv, WebType
<1>2. request' \in [Clients -> RequestRecords] /\ request'[r] = q /\ \A t \in Clients \ {r} : request'[t] = request[t]
  BY <1>1
<1>3. \A t \in Clients \ {r} : request[t].at = "idle"
  BY <1>1 DEF WebInv, RequestInv
<1> QED
  BY <1>2, <1>3 DEF RequestInv

\* The records of a request.
LEMMA RequestRows ==
  ASSUME NEW q \in RequestRecords, NEW l \in {"verify", "apply", "feed", "attach", "wait"}, NEW k \in 0 .. MaxHooks
  PROVE  /\ q.hook \in 0 .. MaxHooks /\ Resting \in RequestRecords /\ Resting.at = "idle"
         /\ [q EXCEPT !.at = l] \in RequestRecords /\ [q EXCEPT !.at = l].at = l
         /\ [q EXCEPT !.at = l].hook = q.hook
         /\ [at |-> l, hook |-> k] \in RequestRecords
<1>1. 0 \in 0 .. MaxHooks
  BY WebhookAssumption
<1> QED
  BY <1>1 DEF RequestRecords, Resting

\* A request goes on or is answered, and leaves the subscriptions alone.
LEMMA RequestStep ==
  ASSUME WebInv, NEW r \in Clients, Verify(r) \/ UnsubscribeReturns(r)
  PROVE  WebInv'
<1>1. /\ request \in [Clients -> RequestRecords] /\ request[r] \in RequestRecords /\ hooked \in 0 .. MaxHooks
      /\ hookCount \in 0 .. MaxHooks /\ MaxHooks \in Nat
  BY WebhookAssumption DEF WebInv, WebType
<1>2. UNCHANGED <<hookVars, source, over, callbackVars, ends>> /\ request[r].at \in {"verify", "wait"}
  BY DEF Verify, UnsubscribeReturns
<1>3. webhookMu = r /\ hook' = hook /\ hooked' = hooked /\ hookCount' = hookCount
  BY <1>2 DEF WebInv, RequestInv, hookVars
<1>4. ASSUME request' \in [Clients -> RequestRecords], webhookMu' \in Clients \cup {NoClient}, RequestInv'
      PROVE  WebInv'
  <2>1. WebType'
    BY <1>2, <1>3, <1>4 DEF WebInv, WebType, callbackVars
  <2>2. WorkerInv'
    BY <1>2, <1>3 DEF WebInv, WorkerInv, Running
  <2>3. CursorInv'
    BY <1>2, <1>3, CursorStays
  <2> QED
    BY <1>4, <2>1, <2>2, <2>3 DEF WebInv
<1>5. CASE Answered(r)
  BY <1>1, <1>3, <1>4, <1>5, RequestMoves, RequestRows DEF Answered
<1>6. CASE Verify(r) /\ RequestTo(r, IF request[r].hook # 0 THEN "apply" ELSE "feed") /\ UNCHANGED webhookMu
  <2>1. PICK l \in {"apply", "feed"} : /\ l = IF request[r].hook # 0 THEN "apply" ELSE "feed"
                                       /\ RequestTo(r, l)
    BY <1>6
  <2> DEFINE q == [request[r] EXCEPT !.at = l]
  <2>2. q \in RequestRecords /\ q.at = l /\ q.hook = request[r].hook /\ q.hook \in 0 .. MaxHooks
    BY <1>1 DEF RequestRecords
  <2>3. request' = [request EXCEPT ![r] = q]
    BY <2>1 DEF RequestTo
  <2>4. l = "feed" => hooked = 0
    BY <1>6, <2>1 DEF Verify, WebInv, RequestInv
  <2>5. l = "apply" => q.hook \in Hooks
    BY <1>1, <2>1, <2>2 DEF Hooks
  <2> HIDE DEF q
  <2>6. webhookMu' = r
    BY <1>3, <1>6
  <2> QED
    BY <1>3, <1>4, <2>2, <2>3, <2>4, <2>5, <2>6, RequestMoves
<1> QED
  BY <1>5, <1>6 DEF Verify, UnsubscribeReturns

\* A request begins, and a subscription that has expired or is to end is taken out.
LEMMA RequestBegins ==
  ASSUME WebInv, NEW r \in Clients, SubscribeBegins(r) \/ UnsubscribeBegins(r)
  PROVE  WebInv'
<1>1. /\ request \in [Clients -> RequestRecords] /\ request[r] \in RequestRecords /\ hooked \in 0 .. MaxHooks
      /\ hookCount \in 0 .. MaxHooks /\ MaxHooks \in Nat /\ 0 \in 0 .. MaxHooks
  BY WebhookAssumption DEF WebInv, WebType
<1>2. UNCHANGED <<hookCount, source, over, callbackVars, ends>> /\ webhookMu' = r /\ webhookMu = NoClient
  BY DEF SubscribeBegins, UnsubscribeBegins
<1>3. ASSUME NEW q \in RequestRecords, request' = [request EXCEPT ![r] = q], q.at \in {"verify", "wait"},
             NEW k \in {hooked, 0}, hooked' = k, q.at = "verify" /\ q.hook = 0 => k = 0,
             hook' \in [Hooks -> HookRows], WorkerInv', CursorInv'
      PROVE  WebInv'
  <2>1. /\ request' \in [Clients -> RequestRecords] /\ webhookMu' \in Clients \cup {NoClient} /\ RequestInv'
    BY <1>2, <1>3, RequestMoves
  <2>2. WebType'
    BY <1>1, <1>2, <1>3, <2>1 DEF WebInv, WebType, callbackVars
  <2> QED
    BY <1>3, <2>1, <2>2 DEF WebInv
<1>4. CASE hooked # 0 /\ hook' = [hook EXCEPT ![hooked].cancelled = TRUE] /\ hooked' = 0
  <2>1. hook' \in [Hooks -> HookRows] /\ WorkerInv' /\ CursorInv'
    BY <1>2, <1>4, TakenOut
  <2>2. PICK q \in RequestRecords : request' = [request EXCEPT ![r] = q] /\ q.at \in {"verify", "wait"}
    <3>1. [at |-> "verify", hook |-> 0] \in RequestRecords /\ [at |-> "wait", hook |-> hooked] \in RequestRecords
      BY <1>1, RequestRows
    <3>2. CASE request' = [request EXCEPT ![r] = [at |-> "verify", hook |-> 0]]
      BY <3>1, <3>2
    <3>3. CASE request' = [request EXCEPT ![r] = [at |-> "wait", hook |-> hooked]]
      BY <3>1, <3>3
    <3>4. SubscribeBegins(r) => hook[hooked].expired \/ hooked' = hooked
      BY DEF SubscribeBegins
    <3> QED
      BY <1>4, <3>2, <3>3, <3>4 DEF SubscribeBegins, UnsubscribeBegins
  <2> QED
    BY <1>3, <1>4, <2>1, <2>2
<1>5. CASE UNCHANGED <<hook, hooked>> /\ request' = [request EXCEPT ![r] = [at |-> "verify", hook |-> hooked]]
  <2>1. hook' \in [Hooks -> HookRows]
    BY <1>5 DEF WebInv, WebType
  <2>2. WorkerInv'
    BY <1>2, <1>5 DEF WebInv, WorkerInv, Running
  <2>3. CursorInv'
    BY <1>2, <1>5, CursorStays
  <2>4. [at |-> "verify", hook |-> hooked] \in RequestRecords
    BY <1>1 DEF RequestRecords
  <2>5. PICK q \in RequestRecords : q = [at |-> "verify", hook |-> hooked]
    BY <2>4
  <2>6. q.at = "verify" /\ q.hook = hooked
    BY <2>5
  <2> QED
    BY <1>3, <1>5, <2>1, <2>2, <2>3, <2>5, <2>6
<1> QED
  BY <1>4, <1>5 DEF SubscribeBegins, UnsubscribeBegins

\* A subscription that is still there is renewed: the gaps it passed over are told,
\* and its cursor is safe again.
LEMMA Renewed == ASSUME WebInv, NEW r \in Clients, Refresh(r) PROVE WebInv'
<1>1. /\ request \in [Clients -> RequestRecords] /\ hooked \in 0 .. MaxHooks /\ hook \in [Hooks -> HookRows]
      /\ hookCount \in 0 .. MaxHooks /\ MaxHooks \in Nat /\ settled \in SUBSET Nat /\ 0 \in Nat
      /\ callback \in [feed : Nat, pos : Nat]
  BY WebhookAssumption DEF WebInv, WebType
<1>2. /\ request[r].at = "apply" /\ Answered(r) /\ UNCHANGED <<hooked, hookCount, source, over, ends>>
  BY DEF Refresh
<1>3. webhookMu = r
  BY <1>2 DEF WebInv, RequestInv
<1>4. Resting \in RequestRecords /\ Resting.at = "idle"
  BY <1>1, RequestRows DEF Resting, RequestRecords
<1>5. request' \in [Clients -> RequestRecords] /\ webhookMu' \in Clients \cup {NoClient} /\ RequestInv'
  BY <1>2, <1>3, <1>4, RequestMoves DEF Answered
<1>6. CASE UNCHANGED <<hook, callbackVars>>
  <2>1. WebType'
    BY <1>2, <1>5, <1>6 DEF WebInv, WebType, callbackVars
  <2>2. WorkerInv'
    BY <1>2, <1>6 DEF WebInv, WorkerInv, Running
  <2>3. CursorInv'
    BY <1>2, <1>6, CursorStays
  <2> QED
    BY <1>5, <2>1, <2>2, <2>3 DEF WebInv
<1>7. CASE ~ (over \/ hooked # request[r].hook)
  <2>1. PICK k \in Hooks : k = hooked /\ k = request[r].hook
    BY <1>1, <1>2, <1>7 DEF WebInv, RequestInv
  <2>2. /\ hook' = [hook EXCEPT ![k].expired = FALSE, ![k].gapped = 0,
                               ![k].revived = @ \/ hook[k].at = "leave"]
        /\ Given(hook[k].feed, hook[k].cursor)
        /\ settled' = IF FeedDead(k) THEN settled ELSE settled \cup Until(hook[k].gapped)
    BY <1>7, <2>1 DEF Refresh
  <2>3. /\ hook[k] \in HookRows /\ HookFine(hook[k]) /\ hook[k].cursor \in Nat /\ hook[k].gapped \in Nat
        /\ hook[k].feed \in Nat /\ callback.feed <= source.no /\ k # 0
    BY HookNow
  <2>4. hook[k].at \notin {"new", "done"}
    BY <2>1, <2>3 DEF WebInv, WorkerInv, Running
  <2>5. \A t \in Hooks : /\ hook'[t] \in HookRows /\ hook'[t].at = hook[t].at /\ hook'[t].cursor = hook[t].cursor
                         /\ hook'[t].next = hook[t].next /\ hook'[t].feed = hook[t].feed
                         /\ hook'[t].cancelled = hook[t].cancelled
                         /\ t = k => ~ hook'[t].expired /\ hook'[t].gapped = 0
                         /\ t # k => hook'[t] = hook[t]
    <3> DEFINE x == [hook[k] EXCEPT !.expired = FALSE, !.gapped = 0, !.revived = hook[k].revived \/ hook[k].at = "leave"]
    <3>1. hook' = [hook EXCEPT ![k] = x]
      BY <1>1, <2>2, Zenon
    <3>2. /\ x \in HookRows /\ x.at = hook[k].at /\ x.cursor = hook[k].cursor /\ x.next = hook[k].next
          /\ x.feed = hook[k].feed /\ x.cancelled = hook[k].cancelled /\ x.expired = FALSE /\ x.gapped = 0
      BY <1>1, <2>3 DEF HookRows
    <3> HIDE DEF x
    <3>3. hook'[k] = x /\ \A t \in Hooks \ {k} : hook'[t] = hook[t]
      BY <1>1, <3>1
    <3> QED
      BY <1>1, <3>2, <3>3
  <2>6. hook' \in [Hooks -> HookRows]
    BY <1>1, <2>2, <2>5
  <2>7. settled' \in SUBSET Nat /\ settled \subseteq settled'
    BY <1>1, <2>2, <2>3, UntilSteps
  <2>8. callback' \in [feed : Nat, pos : Nat] /\ callback'.feed <= source.no
        /\ (callback' = callback \/ (callback'.feed = hook[k].feed /\ callback'.pos = hook[k].cursor))
    <3>1. CASE callback' = callback
      BY <1>1, <2>3, <3>1
    <3>2. CASE callback' = [feed |-> hook[k].feed, pos |-> hook[k].cursor]
      <4>1. PICK f \in Nat, p \in Nat : f = hook[k].feed /\ p = hook[k].cursor /\ f <= source.no
        BY <2>3 DEF HookFine
      <4>2. callback' = [feed |-> f, pos |-> p]
        BY <3>2, <4>1
      <4> QED
        BY <4>1, <4>2
    <3> QED
      BY <2>2, <3>1, <3>2 DEF Given
  <2>9. WebType'
    BY <1>2, <1>5, <2>6, <2>7, <2>8 DEF WebInv, WebType
  <2>10. WorkerInv'
    <3>1. /\ hooked # 0 => hooked <= hookCount /\ hook'[k].at \notin {"new", "done"} /\ ~ hook'[k].cancelled /\ ~ over
      BY <2>1, <2>5 DEF WebInv, WorkerInv, Running
    <3>2. \A t \in Hooks : /\ t > hookCount => hook'[t].at = "new"
                           /\ hook'[t].at \notin {"new", "done"} /\ t # hooked => hook'[t].cancelled \/ hook'[t].at = "leave"
      BY <2>5 DEF WebInv, WorkerInv, Running
    <3> QED
      BY <1>2, <2>1, <3>1, <3>2 DEF WorkerInv, Running
  <2>11. hook[k].feed = source.no /\ source.live => Until(hook[k].cursor) \subseteq settled'
    <3> SUFFICES ASSUME hook[k].feed = source.no, source.live PROVE Until(hook[k].cursor) \subseteq settled'
      OBVIOUS
    <3>1. Until(hook[k].cursor) \subseteq settled \cup Until(hook[k].gapped)
      BY <2>3, <2>4 DEF HookFine
    <3> QED
      BY <2>2, <3>1 DEF FeedDead
  <2>12. ASSUME NEW t \in Hooks
         PROVE  /\ hook'[t].feed <= source.no
                /\ hook'[t].at \in {"try", "post", "pause"} => hook'[t].next = hook'[t].cursor + 1
                /\ hook'[t].at \notin {"new", "done"} /\ hook'[t].feed = source.no /\ source.live =>
                     /\ Until(hook'[t].cursor) \subseteq settled' \cup Until(hook'[t].gapped)
                     /\ ~ hook'[t].expired \/ hook'[t].at \in {"post", "gapPost"} => Until(hook'[t].cursor) \subseteq settled'
                     /\ hook'[t].at \in {"gap", "gapPost", "gapPause"} =>
                          Until(hook'[t].next - 1) \subseteq settled' \cup Until(hook'[t].gapped)
    <3>1. HookFine(hook[t])
      BY DEF WebInv, CursorInv
    <3>2. CASE t # k
      BY <2>5, <2>7, <3>1, <3>2 DEF HookFine
    <3>3. CASE t = k
      <4>1. hook[k].feed = source.no /\ source.live /\ hook[k].at \in {"gap", "gapPost", "gapPause"} =>
              Until(hook[k].next - 1) \subseteq settled'
        BY <2>2, <2>3, <2>4 DEF HookFine, FeedDead
      <4> QED
        BY <2>5, <2>11, <3>1, <3>3, <4>1 DEF HookFine
    <3> QED
      BY <3>2, <3>3
  <2>13. callback'.feed = source.no /\ source.live => Until(callback'.pos) \subseteq settled'
    BY <2>7, <2>8, <2>11 DEF WebInv, CursorInv, CursorNeverAhead
  <2>14. CursorInv'
    BY <1>2, <2>8, <2>12, <2>13 DEF CursorInv, CursorNeverAhead, HookFine, Until
  <2> QED
    BY <1>5, <2>9, <2>10, <2>14 DEF WebInv
<1> QED
  BY <1>6, <1>7 DEF Refresh

\* A feed that ended is replaced: no cursor is of the new one.
LEMMA FeedMade == ASSUME WebInv, NEW r \in Clients, SubscribeFeed(r) PROVE WebInv'
<1>1. /\ request \in [Clients -> RequestRecords] /\ request[r] \in RequestRecords /\ hooked \in 0 .. MaxHooks
      /\ hook \in [Hooks -> HookRows] /\ settled \in SUBSET Nat /\ source.no \in Nat
      /\ source \in [no : Nat, live : BOOLEAN, seq : Nat, first : Nat \ {0}]
      /\ hookCount \in 0 .. MaxHooks /\ over \in BOOLEAN /\ callback \in [feed : Nat, pos : Nat] /\ ends \in 0 .. MaxEnds
  BY DEF WebInv, WebType
<1>2. /\ request[r].at = "feed" /\ hook' = hook /\ hooked' = hooked /\ hookCount' = hookCount
      /\ over' = over /\ callback' = callback /\ ends' = ends
  BY DEF SubscribeFeed, hookVars
<1>3. webhookMu = r /\ hooked = 0
  BY <1>2 DEF WebInv, RequestInv
<1>4. request' \in [Clients -> RequestRecords] /\ webhookMu' \in Clients \cup {NoClient} /\ RequestInv'
  <2>1. CASE Answered(r)
    <3>1. Resting \in RequestRecords /\ Resting.at = "idle"
      BY <1>1, RequestRows
    <3> QED
      BY <1>2, <1>3, <2>1, <3>1, RequestMoves DEF Answered
  <2>2. CASE RequestTo(r, "attach") /\ UNCHANGED webhookMu
    <3> DEFINE q == [request[r] EXCEPT !.at = "attach"]
    <3>1. q \in RequestRecords /\ q.at = "attach"
      BY <1>1 DEF RequestRecords
    <3>2. request' = [request EXCEPT ![r] = q]
      BY <2>2 DEF RequestTo
    <3> HIDE DEF q
    <3> QED
      BY <1>2, <1>3, <2>2, <3>1, <3>2, RequestMoves
  <2> QED
    BY <2>1, <2>2 DEF SubscribeFeed
<1>5. WorkerInv'
  BY <1>2 DEF WebInv, WorkerInv, Running, SubscribeFeed
<1>6. CASE UNCHANGED <<source, settled>>
  <2>1. WebType'
    BY <1>1, <1>2, <1>4, <1>6 DEF WebType
  <2>2. CursorInv'
    BY <1>2, <1>6, CursorStays DEF callbackVars
  <2> QED
    BY <1>4, <1>5, <2>1, <2>2 DEF WebInv
<1>7. CASE source' = [no |-> source.no + 1, live |-> TRUE, seq |-> 0, first |-> 1] /\ settled' = {}
  <2>1. PICK n \in Nat : n = source.no /\ source'.no = n + 1
    BY <1>1, <1>7
  <2>2. 1 \in Nat \ {0} /\ 0 \in Nat /\ source.no + 1 \in Nat
    BY <1>1
  <2>3. source' \in [no : Nat, live : BOOLEAN, seq : Nat, first : Nat \ {0}]
    BY <1>7, <2>2
  <2>4. WebType'
    BY <1>1, <1>2, <1>4, <1>7, <2>3 DEF WebType
  <2>5. callback.feed <= n + 1 /\ callback.feed # n + 1
    BY <1>1, <2>1 DEF WebInv, CursorInv
  <2>6. ASSUME NEW t \in Hooks
        PROVE  /\ hook[t].feed <= n + 1 /\ hook[t].feed # n + 1
               /\ hook[t].at \in {"try", "post", "pause"} => hook[t].next = hook[t].cursor + 1
    <3>1. HookFine(hook[t]) /\ hook[t].feed \in Nat
      BY HookNow
    <3> QED
      BY <2>1, <3>1 DEF HookFine
  <2>7. CursorInv'
    BY <1>2, <2>1, <2>5, <2>6 DEF CursorInv, CursorNeverAhead, HookFine
  <2> QED
    BY <1>4, <1>5, <2>4, <2>7 DEF WebInv
<1> QED
  BY <1>6, <1>7 DEF SubscribeFeed

\* Where a subscription starts is a position of the feed, and the callback's own
\* position when it has one that is in the ring.
LEMMA StartsAt == ASSUME WebInv, NEW resume \in BOOLEAN PROVE StartAt(resume) \in Nat
<1>1. source.seq \in Nat /\ source.first \in Nat \ {0} /\ callback.pos \in Nat
  BY DEF WebInv, WebType
<1>2. source.first - 1 \in Nat
  BY <1>1
<1> QED
  BY <1>1, <1>2 DEF StartAt

\* The new subscription is registered, where none was, with the cursor from which it
\* goes on.
LEMMA Attached == ASSUME WebInv, NEW r \in Clients, SubscribeAttaches(r) PROVE WebInv'
<1>1. /\ request \in [Clients -> RequestRecords] /\ hooked \in 0 .. MaxHooks /\ hook \in [Hooks -> HookRows]
      /\ hookCount \in 0 .. MaxHooks /\ MaxHooks \in Nat /\ settled \in SUBSET Nat /\ source.no \in Nat
      /\ callback \in [feed : Nat, pos : Nat]
  BY WebhookAssumption DEF WebInv, WebType
<1>2. request[r].at = "attach" /\ Answered(r) /\ UNCHANGED <<source, over, ends>>
  BY Zenon DEF SubscribeAttaches
<1>3. webhookMu = r /\ hooked = 0
  BY <1>2 DEF WebInv, RequestInv
<1>4. Resting \in RequestRecords /\ Resting.at = "idle"
  BY <1>1, RequestRows DEF Resting, RequestRecords
<1>5. ASSUME NEW k, hooked' = k
      PROVE  request' \in [Clients -> RequestRecords] /\ webhookMu' \in Clients \cup {NoClient} /\ RequestInv'
  BY <1>2, <1>3, <1>4, <1>5, RequestMoves DEF Answered
<1>6. CASE UNCHANGED <<hookVars, callbackVars>>
  <2>1. hook' = hook /\ hooked' = hooked /\ hookCount' = hookCount
    BY <1>6 DEF hookVars
  <2>2. request' \in [Clients -> RequestRecords] /\ webhookMu' \in Clients \cup {NoClient} /\ RequestInv'
    BY <1>5, <2>1
  <2>3. WebType'
    BY <1>2, <1>6, <2>1, <2>2 DEF WebInv, WebType, callbackVars
  <2>4. WorkerInv'
    BY <1>2, <2>1 DEF WebInv, WorkerInv, Running
  <2>5. CursorInv'
    BY <1>2, <1>6, <2>1, CursorStays
  <2> QED
    BY <2>2, <2>3, <2>4, <2>5 DEF WebInv
<1>7. CASE ~ (over \/ ~ source.live)
  <2>1. PICK resume \in BOOLEAN :
          LET s == hookCount + 1
              p == StartAt(resume) IN
          /\ s \in Hooks
          /\ hook' = [hook EXCEPT ![s] = [NewHook EXCEPT !.at = "loop", !.cursor = p, !.feed = source.no]]
          /\ hooked' = s /\ hookCount' = s
          /\ settled' = IF resume /\ callback.feed = source.no /\ p = callback.pos
                          THEN settled ELSE settled \cup Until(p)
          /\ callback' = [feed |-> source.no, pos |-> p]
    BY <1>7, Zenon DEF SubscribeAttaches
  <2>2. PICK p \in Nat : p = StartAt(resume)
    BY StartsAt
  <2>3. PICK s \in Hooks : s = hookCount + 1
    BY <2>1
  <2>4. PICK f \in Nat : f = source.no
    BY <1>1
  <2> DEFINE x == [NewHook EXCEPT !.at = "loop", !.cursor = p, !.feed = f]
  <2>5. /\ hook' = [hook EXCEPT ![s] = x] /\ hooked' = s /\ hookCount' = s
        /\ settled' = (IF resume /\ callback.feed = f /\ p = callback.pos THEN settled ELSE settled \cup Until(p))
        /\ callback' = [feed |-> f, pos |-> p]
    BY <2>1, <2>2, <2>3, <2>4
  <2>6. /\ x \in HookRows /\ x.at = "loop" /\ x.cursor = p /\ x.feed = f /\ x.gapped = 0
        /\ ~ x.expired /\ ~ x.cancelled
    <3>1. 1 \in Nat \ {0} /\ 0 \in Nat
      OBVIOUS
    <3> QED
      BY <3>1 DEF HookRows, NewHook
  <2> HIDE DEF x
  <2>7. /\ hook' \in [Hooks -> HookRows] /\ hook'[s] = x /\ \A t \in Hooks \ {s} : hook'[t] = hook[t]
    BY <1>1, <2>5, <2>6
  <2>8. request' \in [Clients -> RequestRecords] /\ webhookMu' \in Clients \cup {NoClient} /\ RequestInv'
    BY <1>5, <2>5
  <2>9. callback' \in [feed : Nat, pos : Nat] /\ callback'.feed = f /\ callback'.pos = p
    BY <2>5
  <2>10. settled' \in SUBSET Nat /\ settled \subseteq settled' /\ Until(p) \subseteq settled'
    <3>1. settled' \in SUBSET Nat /\ settled \subseteq settled'
      BY <1>1, <2>5, UntilSteps
    <3>2. ASSUME resume, callback.feed = f, p = callback.pos PROVE Until(p) \subseteq settled
      BY <1>7, <2>4, <3>2 DEF WebInv, CursorInv, CursorNeverAhead
    <3>3. \/ settled' = settled /\ resume /\ callback.feed = f /\ p = callback.pos
          \/ settled' = settled \cup Until(p)
      BY <2>5, Zenon
    <3> QED
      BY <3>1, <3>2, <3>3
  <2>11. s \in 0 .. MaxHooks /\ s # 0
    BY <1>1 DEF Hooks
  <2>12. WebType'
    <3>1. source' \in [no : Nat, live : BOOLEAN, seq : Nat, first : Nat \ {0}] /\ over' \in BOOLEAN /\ ends' \in 0 .. MaxEnds
      BY <1>2 DEF WebInv, WebType
    <3> QED
      BY <2>5, <2>7, <2>8, <2>9, <2>10, <2>11, <3>1 DEF WebType
  <2>13. WorkerInv'
    <3>1. \A t \in Hooks : t > s => hook'[t].at = "new"
      BY <1>1, <2>3, <2>7 DEF WebInv, WorkerInv, Hooks
    <3>2. \A t \in Hooks : hook'[t].at \notin {"new", "done"} /\ t # s => hook'[t].cancelled \/ hook'[t].at = "leave"
      BY <1>3, <2>7, <2>11 DEF WebInv, WorkerInv, Running, Hooks
    <3>3. s <= s /\ hook'[s].at \notin {"new", "done"} /\ ~ hook'[s].cancelled /\ ~ over'
      BY <1>1, <1>2, <1>7, <2>6, <2>7, <2>11
    <3> QED
      BY <2>5, <3>1, <3>2, <3>3 DEF WorkerInv, Running
  <2>14. ASSUME NEW t \in Hooks
         PROVE  /\ hook'[t].feed <= f
                /\ hook'[t].at \in {"try", "post", "pause"} => hook'[t].next = hook'[t].cursor + 1
                /\ hook'[t].at \notin {"new", "done"} /\ hook'[t].feed = f /\ source.live =>
                     /\ Until(hook'[t].cursor) \subseteq settled' \cup Until(hook'[t].gapped)
                     /\ ~ hook'[t].expired \/ hook'[t].at \in {"post", "gapPost"} => Until(hook'[t].cursor) \subseteq settled'
                     /\ hook'[t].at \in {"gap", "gapPost", "gapPause"} =>
                          Until(hook'[t].next - 1) \subseteq settled' \cup Until(hook'[t].gapped)
    <3>1. HookFine(hook[t])
      BY DEF WebInv, CursorInv
    <3>2. CASE t # s
      BY <2>4, <2>7, <2>10, <3>1, <3>2 DEF HookFine
    <3>3. CASE t = s
      BY <2>4, <2>6, <2>7, <2>10, <3>3
    <3> QED
      BY <3>2, <3>3
  <2>15. CursorInv'
    <3>1. callback'.feed <= f
      BY <2>4, <2>9
    <3>2. source' = source /\ source.no = f
      BY <1>2, <2>4
    <3> QED
      BY <2>9, <2>10, <2>14, <3>1, <3>2 DEF CursorInv, CursorNeverAhead, HookFine, Until
  <2> QED
    BY <2>8, <2>12, <2>13, <2>15 DEF WebInv
<1> QED
  BY <1>6, <1>7, Zenon DEF SubscribeAttaches

\* The worker ends, and its feed with the last one.
LEMMA WorkerEnds == ASSUME WebInv, NEW s \in Hooks, WorkerLeaves(s) PROVE WebInv'
<1>1. /\ hook \in [Hooks -> HookRows] /\ hooked \in 0 .. MaxHooks /\ MaxHooks \in Nat
      /\ source \in [no : Nat, live : BOOLEAN, seq : Nat, first : Nat \ {0}] /\ hook[s] \in HookRows
  BY WebhookAssumption DEF WebInv, WebType
<1>2. /\ hook[s].at = "leave" /\ hook' = [hook EXCEPT ![s] = [NewHook EXCEPT !.at = "done"]]
      /\ hooked' = IF hooked = s THEN 0 ELSE hooked
      /\ UNCHANGED <<hookCount, requestVars, over, callbackVars, ends>>
  BY DEF WorkerLeaves
<1>3. source' = source \/ source' = [source EXCEPT !.live = source.live /\ hook[s].feed # source.no]
  BY DEF WorkerLeaves
<1>4. PICK x : x = [NewHook EXCEPT !.at = "done"]
  OBVIOUS
<1>5. x \in HookRows /\ x.at = "done" /\ x.feed = 0
  <2>1. 1 \in Nat \ {0} /\ 0 \in Nat
    OBVIOUS
  <2> QED
    BY <1>4, <2>1 DEF HookRows, NewHook
<1>6. hook' \in [Hooks -> HookRows] /\ hook'[s] = x /\ \A t \in Hooks \ {s} : hook'[t] = hook[t]
  BY <1>1, <1>2, <1>4, <1>5
<1>7. /\ source' \in [no : Nat, live : BOOLEAN, seq : Nat, first : Nat \ {0}]
      /\ source'.no = source.no /\ (source'.live => source.live)
  <2>1. PICK b \in BOOLEAN : b = (source.live /\ hook[s].feed # source.no)
    BY <1>1
  <2>2. source' = source \/ source' = [source EXCEPT !.live = b]
    BY <1>3, <2>1
  <2>3. b => source.live
    BY <2>1
  <2> QED
    BY <1>1, <2>2, <2>3
<1>8. PICK h \in {hooked, 0} : hooked' = h /\ h # s /\ (h # 0 => h = hooked) /\ (h # hooked => hooked = s)
  <2>1. s # 0
    BY HookNow
  <2> QED
    BY <1>2, <2>1
<1>9. WebType'
  <2>1. h \in 0 .. MaxHooks
    BY <1>1
  <2> QED
    BY <1>2, <1>6, <1>7, <1>8, <2>1 DEF WebInv, WebType, requestVars, callbackVars
<1>10. RequestInv'
  BY <1>2, <1>8 DEF WebInv, RequestInv, requestVars
<1>11. WorkerInv'
  <2>1. ASSUME h # 0 PROVE h <= hookCount /\ hook'[h].at \notin {"new", "done"} /\ ~ hook'[h].cancelled /\ ~ over
    <3>1. h = hooked /\ h \in Hooks
      BY <1>1, <1>8, <2>1 DEF Hooks
    <3> QED
      BY <1>6, <1>8, <2>1, <3>1 DEF WebInv, WorkerInv, Running
  <2>2. ASSUME NEW t \in Hooks
        PROVE  /\ t > hookCount => hook'[t].at = "new"
               /\ hook'[t].at \notin {"new", "done"} /\ t # h => hook'[t].cancelled \/ hook'[t].at = "leave"
    <3>1. CASE t = s
      BY <1>2, <1>5, <1>6, <3>1 DEF WebInv, WorkerInv
    <3>2. CASE t # s
      BY <1>6, <1>8, <3>2 DEF WebInv, WorkerInv, Running
    <3> QED
      BY <3>1, <3>2
  <2> QED
    BY <1>2, <1>8, <2>1, <2>2 DEF WorkerInv, Running
<1>12. CursorInv'
  <2>1. \A t \in Hooks :
          \/ hook'[t].at \in {"new", "done"} /\ hook'[t].feed = 0
          \/ /\ hook'[t].at = hook[t].at /\ hook'[t].cursor = hook[t].cursor /\ hook'[t].next = hook[t].next
             /\ hook'[t].gapped = hook[t].gapped /\ hook'[t].feed = hook[t].feed
             /\ hook[t].expired => hook'[t].expired
    BY <1>5, <1>6
  <2>2. UNCHANGED callbackVars
    BY <1>2
  <2>3. source'.no = source.no /\ (source'.live => source.live)
    BY <1>7
  <2> QED
    BY <2>1, <2>2, <2>3, CursorStays, Zenon
<1> QED
  BY <1>9, <1>10, <1>11, <1>12 DEF WebInv

\* The feed goes on or fails; a subscription expires, is swept, and all end with the
\* manager.
LEMMA FeedAndTime ==
  ASSUME WebInv, PublishToRing \/ SourceFails \/ HookExpires \/ SweepHook \/ CloseManager
  PROVE  WebInv'
<1>1. /\ hook \in [Hooks -> HookRows] /\ hooked \in 0 .. MaxHooks /\ MaxHooks \in Nat /\ MaxEnds \in Nat
      /\ source \in [no : Nat, live : BOOLEAN, seq : Nat, first : Nat \ {0}] /\ ends \in 0 .. MaxEnds
      /\ 0 \in 0 .. MaxHooks /\ over \in BOOLEAN
  BY WebhookAssumption DEF WebInv, WebType
<1>2. ASSUME UNCHANGED <<hookVars, requestVars, over, callbackVars>>, ends' \in 0 .. MaxEnds,
             source' \in [no : Nat, live : BOOLEAN, seq : Nat, first : Nat \ {0}],
             source'.no = source.no, source'.live => source.live
      PROVE  WebInv'
  <2>1. hook' = hook /\ hooked' = hooked /\ hookCount' = hookCount /\ request' = request /\ webhookMu' = webhookMu
        /\ callback' = callback /\ settled' = settled /\ over' = over
    BY <1>2 DEF hookVars, requestVars, callbackVars
  <2>2. WebType'
    BY <1>2, <2>1 DEF WebInv, WebType
  <2>3. RequestInv'
    BY <2>1 DEF WebInv, RequestInv
  <2>4. WorkerInv'
    BY <2>1 DEF WebInv, WorkerInv, Running
  <2>5. CursorInv'
    BY <1>2, <2>1, CursorStays
  <2> QED
    BY <2>2, <2>3, <2>4, <2>5 DEF WebInv
<1>3. CASE PublishToRing
  <2>1. PICK n \in source.first .. source.seq + 2 :
          source' = [source EXCEPT !.seq = source.seq + 1, !.first = n]
    BY <1>3, Zenon DEF PublishToRing
  <2>2. n \in Nat \ {0} /\ source.seq + 1 \in Nat
    BY <1>1
  <2>3. source' \in [no : Nat, live : BOOLEAN, seq : Nat, first : Nat \ {0}]
        /\ source'.no = source.no /\ source'.live = source.live
    BY <1>1, <2>1, <2>2
  <2>4. UNCHANGED <<hookVars, requestVars, over, callbackVars>> /\ ends' = ends
    BY <1>3, Zenon DEF PublishToRing
  <2> QED
    BY <1>1, <1>2, <2>3, <2>4
<1>4. CASE SourceFails
  <2>1. source' \in [no : Nat, live : BOOLEAN, seq : Nat, first : Nat \ {0}]
        /\ source'.no = source.no /\ ~ source'.live
    BY <1>1, <1>4 DEF SourceFails
  <2>2. ends' \in 0 .. MaxEnds
    BY <1>1, <1>4 DEF SourceFails
  <2> QED
    BY <1>2, <1>4, <2>1, <2>2 DEF SourceFails
<1>5. CASE HookExpires
  <2>1. PICK k \in Hooks : k = hooked
    BY <1>1, <1>5 DEF HookExpires, Hooks
  <2> DEFINE x == [hook[k] EXCEPT !.expired = TRUE]
  <2>2. ends' \in 0 .. MaxEnds
    BY <1>1, <1>5 DEF HookExpires
  <2>3. UNCHANGED <<hooked, hookCount, requestVars, source, over, callbackVars>>
    BY <1>5 DEF HookExpires
  <2>4. \A t \in Hooks : /\ hook'[t] \in HookRows /\ hook'[t].at = hook[t].at /\ hook'[t].cursor = hook[t].cursor
                         /\ hook'[t].next = hook[t].next /\ hook'[t].gapped = hook[t].gapped
                         /\ hook'[t].feed = hook[t].feed /\ hook'[t].cancelled = hook[t].cancelled
                         /\ hook'[t].expired = IF t = k THEN TRUE ELSE hook[t].expired
    <3>1. hook' = [hook EXCEPT ![k] = x]
      BY <1>5, <2>1, Zenon DEF HookExpires
    <3>2. hook[k] \in HookRows
      BY <1>1
    <3>3. /\ x \in HookRows /\ x.at = hook[k].at /\ x.cursor = hook[k].cursor /\ x.next = hook[k].next
          /\ x.gapped = hook[k].gapped /\ x.feed = hook[k].feed /\ x.cancelled = hook[k].cancelled /\ x.expired = TRUE
      BY <3>2 DEF HookRows
    <3> HIDE DEF x
    <3>4. hook'[k] = x /\ \A t \in Hooks \ {k} : hook'[t] = hook[t]
      BY <1>1, <3>1
    <3> QED
      BY <1>1, <3>3, <3>4
  <2> HIDE DEF x
  <2>5. hook' \in [Hooks -> HookRows]
    <3>1. DOMAIN hook' = Hooks /\ hook' = [t \in Hooks |-> hook'[t]]
      BY <1>1, <1>5 DEF HookExpires
    <3> QED
      BY <2>4, <3>1
  <2>6. WebType'
    BY <2>2, <2>3, <2>5 DEF WebInv, WebType, requestVars, callbackVars
  <2>7. RequestInv'
    BY <2>3 DEF WebInv, RequestInv, requestVars
  <2>8. WorkerInv'
    <3>1. hooked # 0 => hooked <= hookCount /\ hook'[k].at \notin {"new", "done"} /\ ~ hook'[k].cancelled /\ ~ over
      BY <2>1, <2>4 DEF WebInv, WorkerInv, Running
    <3>2. \A t \in Hooks : /\ t > hookCount => hook'[t].at = "new"
                           /\ hook'[t].at \notin {"new", "done"} /\ t # hooked => hook'[t].cancelled \/ hook'[t].at = "leave"
      BY <2>4 DEF WebInv, WorkerInv, Running
    <3> QED
      BY <2>1, <2>3, <3>1, <3>2 DEF WorkerInv, Running
  <2>9. CursorInv'
    BY <2>3, <2>4, CursorStays
  <2> QED
    BY <2>6, <2>7, <2>8, <2>9 DEF WebInv
<1>6. CASE SweepHook
  <2>1. /\ hook' \in [Hooks -> HookRows] /\ hooked' \in 0 .. MaxHooks /\ WorkerInv' /\ CursorInv'
    BY <1>6, TakenOut DEF SweepHook
  <2>2. hooked' = 0 /\ UNCHANGED <<hookCount, requestVars, source, over, callbackVars, ends>>
    BY <1>6 DEF SweepHook
  <2>3. WebType'
    BY <2>1, <2>2 DEF WebInv, WebType, requestVars, callbackVars
  <2>4. RequestInv'
    BY <2>2 DEF WebInv, RequestInv, requestVars
  <2> QED
    BY <2>1, <2>3, <2>4 DEF WebInv
<1>7. CASE CloseManager
  <2>1. /\ hook' = [s \in Hooks |-> [hook[s] EXCEPT !.cancelled = @ \/ Running(s)]] /\ hooked' = 0 /\ over' = TRUE
        /\ source' = [source EXCEPT !.live = FALSE] /\ UNCHANGED <<hookCount, requestVars, callbackVars, ends>>
    BY <1>7 DEF CloseManager
  <2>2. ASSUME NEW t \in Hooks
        PROVE  /\ hook'[t] \in HookRows /\ hook'[t].at = hook[t].at /\ hook'[t].cursor = hook[t].cursor
               /\ hook'[t].next = hook[t].next /\ hook'[t].gapped = hook[t].gapped
               /\ hook'[t].feed = hook[t].feed /\ hook'[t].expired = hook[t].expired
               /\ Running(t) => hook'[t].cancelled
    <3>1. PICK b \in BOOLEAN : b = (hook[t].cancelled \/ Running(t))
      OBVIOUS
    <3>2. hook'[t] = [hook[t] EXCEPT !.cancelled = b]
      BY <2>1, <3>1
    <3>3. hook[t] \in HookRows
      BY <1>1
    <3> QED
      BY <3>1, <3>2, <3>3 DEF HookRows
  <2>3. hook' \in [Hooks -> HookRows]
    BY <2>1, <2>2
  <2>4. source' \in [no : Nat, live : BOOLEAN, seq : Nat, first : Nat \ {0}] /\ source'.no = source.no /\ ~ source'.live
    BY <1>1, <2>1
  <2>5. WebType'
    BY <1>1, <2>1, <2>3, <2>4 DEF WebInv, WebType, requestVars, callbackVars
  <2>6. RequestInv'
    BY <2>1 DEF WebInv, RequestInv, requestVars
  <2>7. WorkerInv'
    BY <2>1, <2>2 DEF WebInv, WorkerInv, Running
  <2>8. CursorInv'
    BY <2>1, <2>2, <2>4, CursorStays
  <2> QED
    BY <2>5, <2>6, <2>7, <2>8 DEF WebInv
<1> QED
  BY <1>3, <1>4, <1>5, <1>6, <1>7

\* Nobody has subscribed.
LEMMA WebStarts == WebhooksInit => WebInv
<1> SUFFICES ASSUME WebhooksInit PROVE WebInv
  OBVIOUS
<1>1. MaxHooks \in Nat /\ MaxEnds \in Nat /\ 0 \in 0 .. MaxHooks /\ 0 \in 0 .. MaxEnds
  BY WebhookAssumption
<1>2. NewHook \in HookRows /\ NewHook.at = "new" /\ NewHook.feed = 0
  <2>1. 1 \in Nat \ {0} /\ 0 \in Nat
    OBVIOUS
  <2> QED
    BY <2>1 DEF HookRows, NewHook
<1>3. Resting \in RequestRecords /\ Resting.at = "idle"
  BY <1>1 DEF Resting, RequestRecords
<1>4. WebType
  <2>1. hook \in [Hooks -> HookRows] /\ request \in [Clients -> RequestRecords]
    BY <1>2, <1>3 DEF WebhooksInit
  <2>2. 0 \in Nat /\ 1 \in Nat \ {0}
    OBVIOUS
  <2>3. /\ source \in [no : Nat, live : BOOLEAN, seq : Nat, first : Nat \ {0}]
        /\ callback \in [feed : Nat, pos : Nat]
    BY <2>2 DEF WebhooksInit
  <2> QED
    BY <1>1, <2>1, <2>3 DEF WebhooksInit, WebType
<1>5. RequestInv
  BY <1>3 DEF WebhooksInit, RequestInv
<1>6. WorkerInv
  BY <1>2 DEF WebhooksInit, WorkerInv, Running
<1>7. CursorInv
  BY <1>2 DEF WebhooksInit, CursorInv, CursorNeverAhead, HookFine
<1> QED
  BY <1>4, <1>5, <1>6, <1>7 DEF WebInv

\* Every step keeps it.
LEMMA WebStep == WebInv /\ [WebhooksNext]_webhookVars => WebInv'
<1> SUFFICES ASSUME WebInv, [WebhooksNext]_webhookVars PROVE WebInv'
  OBVIOUS
<1>1. CASE UNCHANGED webhookVars
  <2>1. UNCHANGED <<hook, hooked, hookCount, request, webhookMu, source, over, callback, settled, ends>>
    BY <1>1 DEF webhookVars, hookVars, requestVars, callbackVars
  <2> QED
    BY <2>1 DEF WebInv, WebType, RequestInv, WorkerInv, CursorInv, CursorNeverAhead, HookFine, Running, Until
<1>2. ASSUME NEW r \in Clients,
             \/ SubscribeBegins(r) \/ Verify(r) \/ Refresh(r) \/ SubscribeFeed(r)
             \/ SubscribeAttaches(r) \/ UnsubscribeBegins(r) \/ UnsubscribeReturns(r)
      PROVE  WebInv'
  BY <1>2, RequestStep, RequestBegins, Renewed, FeedMade, Attached
<1>3. ASSUME NEW s \in Hooks,
             \/ LoopAuthorized(s) \/ ReadBatch(s) \/ TryPost(s) \/ Accepted(s) \/ PostFails(s)
             \/ Abandoned(s) \/ Pause(s) \/ WakeUp(s) \/ Terminated(s) \/ WorkerLeaves(s)
      PROVE  WebInv'
  BY <1>3, WorkerWalks, BatchRead, DeliveryStep, WorkerEnds
<1> QED
  BY <1>1, <1>2, <1>3, FeedAndTime DEF WebhooksNext

\* Whatever cursor the callback keeps, it resumes from it without losing an event
\* silently (deliverLoop): for any number of requests, events, expiries and failures.
THEOREM CursorsSafe == WebhooksSpec => []CursorNeverAhead
<1>1. WebInv => CursorNeverAhead
  BY DEF WebInv, CursorInv
<1> QED
  BY <1>1, WebStarts, WebStep, PTL DEF WebhooksSpec

\* The worker of a subscription that is found leaves only when it saw it expired.
LeavingInv ==
  \A s \in Hooks : hooked = s /\ hook[s].at = "leave" => hook[s].expired \/ hook[s].revived

\* A step that moves one worker.
LEMMA WorkerGoes ==
  ASSUME WebInv, LeavingInv, NEW s \in Hooks, NEW x, hook' = [hook EXCEPT ![s] = x],
         hooked' \in {hooked, 0}, x.at = "leave" /\ hooked' = s => x.expired \/ x.revived
  PROVE  LeavingInv'
<1>1. hook \in [Hooks -> HookRows] /\ 0 \notin Hooks
  BY DEF WebInv, WebType, Hooks
<1>2. hook'[s] = x /\ \A t \in Hooks \ {s} : hook'[t] = hook[t]
  BY <1>1
<1> QED
  BY <1>1, <1>2 DEF LeavingInv

\* What deliveryAuthorized decides: a worker that leaves saw its subscription expired,
\* or is not found any more.
LEMMA AuthorizedGoes ==
  ASSUME WebInv, LeavingInv, NEW s \in Hooks, NEW l \in {"read", "post", "gapPost"}, Authorized(s, l),
         hooked' = hooked
  PROVE  LeavingInv'
<1>1. hook \in [Hooks -> HookRows] /\ hook[s] \in HookRows /\ s # 0
  BY DEF WebInv, WebType, Hooks
<1>2. CASE HookAt(s, l)
  <2>1. PICK x : x = [hook[s] EXCEPT !.at = l]
    OBVIOUS
  <2>2. hook' = [hook EXCEPT ![s] = x] /\ x.at = l
    BY <1>1, <1>2, <2>1 DEF HookAt, HookRows
  <2> QED
    BY <2>2, WorkerGoes
<1>3. CASE ~ Live(s) /\ HookRests(s, "leave")
  <2>1. PICK x : x = Empty(s, "leave")
    OBVIOUS
  <2>2. hook' = [hook EXCEPT ![s] = x] /\ x.expired = hook[s].expired
    BY <1>1, <1>3, <2>1 DEF HookRests, Empty, HookRows
  <2>3. hooked = s => hook[s].expired
    BY <1>1, <1>3 DEF Live, WebInv, WorkerInv
  <2> QED
    BY <2>2, <2>3, WorkerGoes
<1>4. CASE HookRests(s, "term")
  <2>1. PICK x : x = Empty(s, "term")
    OBVIOUS
  <2>2. hook' = [hook EXCEPT ![s] = x] /\ x.at = "term"
    BY <1>1, <1>4, <2>1 DEF HookRests, Empty, HookRows
  <2> QED
    BY <2>2, WorkerGoes
<1> QED
  BY <1>2, <1>3, <1>4 DEF Authorized

\* The steps of a worker.
LEMMA WorkerLeaving ==
  ASSUME WebInv, LeavingInv, NEW s \in Hooks,
         \/ LoopAuthorized(s) \/ ReadBatch(s) \/ TryPost(s) \/ Accepted(s) \/ PostFails(s)
         \/ Abandoned(s) \/ Pause(s) \/ WakeUp(s) \/ Terminated(s) \/ WorkerLeaves(s)
  PROVE  LeavingInv'
<1>1. hook \in [Hooks -> HookRows] /\ hook[s] \in HookRows /\ s # 0 /\ 0 \notin Hooks
  BY DEF WebInv, WebType, Hooks
<1>2. ASSUME NEW l \in Places, HookAt(s, l) \/ HookRests(s, l), hooked' \in {hooked, 0},
             l # "leave" \/ hooked' # s \/ hook[s].expired
      PROVE  LeavingInv'
  <2>1. PICK x : hook' = [hook EXCEPT ![s] = x] /\ x.at = l /\ x.expired = hook[s].expired
    <3>1. [hook[s] EXCEPT !.at = l].at = l /\ [hook[s] EXCEPT !.at = l].expired = hook[s].expired
      BY <1>1 DEF HookRows
    <3>2. Empty(s, l).at = l /\ Empty(s, l).expired = hook[s].expired
      BY <1>1 DEF Empty, HookRows
    <3> QED
      BY <1>2, <3>1, <3>2 DEF HookAt, HookRests
  <2> QED
    BY <1>2, <2>1, WorkerGoes
<1>3. ASSUME MoveOn(s), hooked' = hooked PROVE LeavingInv'
  <2>1. PICK x : hook' = [hook EXCEPT ![s] = x] /\ x.at \in {"try", "wait"}
    <3> DEFINE first == IF hook[s].at \in {"gap", "gapPost"} THEN hook[s].next ELSE hook[s].next + 1
               y == [hook[s] EXCEPT !.at = "try", !.next = first, !.attempt = 0]
    <3>1. y.at = "try" /\ [y EXCEPT !.cursor = first - 1].at = "try"
      BY <1>1 DEF HookRows
    <3>2. Empty(s, "wait").at = "wait" /\ [Empty(s, "wait") EXCEPT !.cursor = first - 1].at = "wait"
      BY <1>1 DEF HookRows, Empty
    <3>3. hook' = [hook EXCEPT ![s] = [(IF first <= hook[s].pos THEN y ELSE Empty(s, "wait")) EXCEPT !.cursor = first - 1]]
      BY <1>3, Zenon DEF MoveOn
    <3> HIDE DEF first, y
    <3> QED
      BY <3>1, <3>2, <3>3
  <2> QED
    BY <1>3, <2>1, WorkerGoes
<1>4. hook[s].cancelled => hooked # s
  BY <1>1 DEF WebInv, WorkerInv
<1>5. CASE LoopAuthorized(s)
  BY <1>5, AuthorizedGoes DEF LoopAuthorized
<1>6. CASE ReadBatch(s)
  <2>1. hooked' = hooked
    BY <1>6 DEF ReadBatch
  <2>2. CASE HookRests(s, "term") \/ HookAt(s, "wait")
    BY <1>2, <2>1, <2>2 DEF Places
  <2>3. ASSUME NEW l \in {"gap", "try"}, NEW n, NEW p, NEW g,
               hook' = [hook EXCEPT ![s].at = l, ![s].next = n, ![s].pos = p, ![s].gapped = g]
        PROVE  LeavingInv'
    <3>1. PICK x : x = [hook[s] EXCEPT !.at = l, !.next = n, !.pos = p, !.gapped = g]
      OBVIOUS
    <3>2. hook' = [hook EXCEPT ![s] = x] /\ x.at = l
      BY <1>1, <2>3, <3>1 DEF HookRows
    <3> QED
      BY <2>1, <3>2, WorkerGoes
  <2>4. \/ HookRests(s, "term") \/ HookAt(s, "wait")
        \/ \E l \in {"gap", "try"} : \E n, p, g :
             hook' = [hook EXCEPT ![s].at = l, ![s].next = n, ![s].pos = p, ![s].gapped = g]
    <3> DEFINE gap == hook[s].cursor + 1 < source.first
               reset == IF gap THEN source.first - 1 ELSE hook[s].cursor
               l == IF gap THEN "gap" ELSE "try"
               g == IF gap THEN reset ELSE hook[s].gapped
               n == reset + 1
               Takes(k, m, p, h) == hook' = [hook EXCEPT ![s].at = k, ![s].next = m, ![s].pos = p, ![s].gapped = h]
    <3>1. HookRests(s, "term") \/ HookAt(s, "wait") \/ Takes(l, n, source.seq, g)
      BY <1>1, <1>6 DEF ReadBatch
    <3>2. l \in {"gap", "try"}
      OBVIOUS
    <3> HIDE DEF l, reset, gap, g, n, Takes
    <3>3. HookRests(s, "term") \/ HookAt(s, "wait") \/ \E k \in {"gap", "try"} : \E m, p, h : Takes(k, m, p, h)
      BY <3>1, <3>2
    <3> QED
      BY <3>3 DEF Takes
  <2> QED
    BY <2>2, <2>3, <2>4
<1>7. CASE TryPost(s)
  <2>1. hooked' = hooked
    BY <1>7 DEF TryPost
  <2>2. CASE Authorized(s, IF hook[s].at = "gap" THEN "gapPost" ELSE "post")
    <3>1. CASE hook[s].at = "gap"
      BY <2>1, <2>2, <3>1, AuthorizedGoes
    <3>2. CASE hook[s].at # "gap"
      BY <2>1, <2>2, <3>2, AuthorizedGoes
    <3> QED
      BY <3>1, <3>2
  <2> QED
    BY <1>3, <1>7, <2>1, <2>2 DEF TryPost
<1>8. CASE Accepted(s) \/ Abandoned(s)
  BY <1>3, <1>8 DEF Accepted, Abandoned
<1>9. CASE PostFails(s)
  <2>1. hooked' = hooked
    BY <1>9 DEF PostFails
  <2>2. CASE hook[s].cancelled /\ HookRests(s, "leave")
    BY <1>2, <1>4, <2>1, <2>2 DEF Places
  <2>3. CASE hook' = [hook EXCEPT ![s].attempt = @ + 1, ![s].at = IF @ = "post" THEN "pause" ELSE "gapPause"]
    <3> DEFINE a == IF hook[s].at = "post" THEN "pause" ELSE "gapPause"
    <3>1. PICK x : x = [hook[s] EXCEPT !.attempt = hook[s].attempt + 1, !.at = a]
      OBVIOUS
    <3>2. hook' = [hook EXCEPT ![s] = x] /\ x.at = a
      BY <1>1, <2>3, <3>1 DEF HookRows
    <3> QED
      BY <2>1, <3>2, WorkerGoes
  <2> QED
    BY <1>9, <2>2, <2>3 DEF PostFails
<1>10. CASE Pause(s)
  BY <1>2, <1>4, <1>10 DEF Pause, Places
<1>11. CASE WakeUp(s)
  BY <1>2, <1>4, <1>11 DEF WakeUp, Places
<1>12. CASE Terminated(s)
  <2>1. HookRests(s, "leave") /\ hooked' = IF Live(s) THEN 0 ELSE hooked
    BY <1>12 DEF Terminated
  <2>2. hooked' = s => hook[s].expired
    BY <1>1, <2>1 DEF Live, WebInv, WorkerInv
  <2> QED
    BY <1>2, <2>1, <2>2 DEF Places
<1>13. CASE WorkerLeaves(s)
  <2>1. hook' = [hook EXCEPT ![s] = [NewHook EXCEPT !.at = "done"]] /\ hooked' = IF hooked = s THEN 0 ELSE hooked
    BY <1>13 DEF WorkerLeaves
  <2> QED
    BY <1>1, <2>1, WorkerGoes
<1> QED
  BY <1>5, <1>6, <1>7, <1>8, <1>9, <1>10, <1>11, <1>12, <1>13

\* Every step keeps it.
LEMMA LeavingStep == WebInv /\ LeavingInv /\ [WebhooksNext]_webhookVars => LeavingInv'
<1> SUFFICES ASSUME WebInv, LeavingInv, [WebhooksNext]_webhookVars PROVE LeavingInv'
  OBVIOUS
<1>1. hook \in [Hooks -> HookRows] /\ hooked \in 0 .. MaxHooks /\ MaxHooks \in Nat /\ 0 \notin Hooks
  BY WebhookAssumption DEF WebInv, WebType, Hooks
<1>2. CASE UNCHANGED <<hook, hooked>>
  BY <1>2 DEF LeavingInv
<1>3. CASE hooked' = 0
  BY <1>1, <1>3 DEF LeavingInv
<1>4. ASSUME NEW r \in Clients,
             \/ SubscribeBegins(r) \/ Verify(r) \/ Refresh(r) \/ SubscribeFeed(r)
             \/ SubscribeAttaches(r) \/ UnsubscribeBegins(r) \/ UnsubscribeReturns(r)
      PROVE  LeavingInv'
  <2>1. CASE SubscribeBegins(r) \/ UnsubscribeBegins(r)
    BY <1>2, <1>3, <2>1 DEF SubscribeBegins, UnsubscribeBegins
  <2>2. CASE Verify(r) \/ SubscribeFeed(r) \/ UnsubscribeReturns(r)
    BY <1>2, <2>2 DEF Verify, SubscribeFeed, UnsubscribeReturns, hookVars
  <2>3. CASE Refresh(r)
    <3>1. hooked' = hooked
      BY <2>3 DEF Refresh
    <3>2. CASE hook' = hook
      BY <1>2, <3>1, <3>2
    <3>3. CASE hook' # hook
      <4>1. /\ hooked = request[r].hook
            /\ hook' = [hook EXCEPT ![hooked].expired = FALSE, ![hooked].gapped = 0,
                                    ![hooked].revived = @ \/ hook[hooked].at = "leave"]
        BY <2>3, <3>3 DEF Refresh
      <4>2. CASE hooked = 0
        BY <1>3, <3>1, <4>2
      <4>3. CASE hooked # 0
        <5>1. PICK k \in Hooks : k = hooked
          BY <1>1, <4>3 DEF Hooks
        <5>2. PICK b \in BOOLEAN : b = (hook[k].revived \/ hook[k].at = "leave")
          OBVIOUS
        <5>3. PICK x : x = [hook[k] EXCEPT !.expired = FALSE, !.gapped = 0, !.revived = b]
          OBVIOUS
        <5>4. hook[k] \in HookRows
          BY <1>1
        <5>5. hook' = [hook EXCEPT ![k] = x]
          BY <1>1, <4>1, <5>1, <5>2, <5>3, Zenon
        <5>6. x.at = hook[k].at /\ x.revived = b
          BY <5>3, <5>4 DEF HookRows
        <5> QED
          BY <3>1, <5>2, <5>5, <5>6, WorkerGoes
      <4> QED
        BY <4>2, <4>3
    <3> QED
      BY <3>2, <3>3
  <2>4. CASE SubscribeAttaches(r)
    <3>1. CASE UNCHANGED <<hookVars, callbackVars>>
      BY <1>2, <3>1 DEF hookVars
    <3>2. CASE ~ UNCHANGED <<hookVars, callbackVars>>
      <4>1. PICK s \in Hooks :
              \E p :
                /\ hook' = [hook EXCEPT ![s] = [NewHook EXCEPT !.at = "loop", !.cursor = p, !.feed = source.no]]
                /\ hooked' = s
        BY <2>4, <3>2, Zenon DEF SubscribeAttaches
      <4>2. hook'[s].at = "loop"
        BY <1>1, <4>1 DEF NewHook
      <4> QED
        BY <4>1, <4>2 DEF LeavingInv
    <3> QED
      BY <3>1, <3>2
  <2> QED
    BY <1>4, <2>1, <2>2, <2>3, <2>4
<1>5. CASE PublishToRing \/ SourceFails
  BY <1>2, <1>5 DEF PublishToRing, SourceFails, hookVars
<1>6. CASE HookExpires
  <2>1. PICK k \in Hooks : k = hooked
    BY <1>1, <1>6 DEF HookExpires, Hooks
  <2>2. PICK x : x = [hook[k] EXCEPT !.expired = TRUE]
    OBVIOUS
  <2>3. hook' = [hook EXCEPT ![k] = x] /\ hooked' = hooked
    BY <1>6, <2>1, <2>2, Zenon DEF HookExpires
  <2>4. x.expired
    BY <1>1, <2>2 DEF HookRows
  <2> QED
    BY <2>3, <2>4, WorkerGoes
<1>7. CASE SweepHook \/ CloseManager
  BY <1>3, <1>7 DEF SweepHook, CloseManager
<1> QED
  BY <1>2, <1>4, <1>5, <1>6, <1>7, WorkerLeaving DEF WebhooksNext, webhookVars, hookVars

\* A subscription that is found and has not expired has one worker, which delivers or
\* takes it out first - but for one that was renewed when its worker had seen it
\* expired -, and every other worker is cancelled or on its way out (subscribe,
\* terminated, deliverLoop).
THEOREM OneWorker == WebhooksSpec => []OneWorkerPerHook
<1>1. WebhooksInit => LeavingInv
  BY DEF WebhooksInit, LeavingInv, Hooks
<1>2. WebInv /\ LeavingInv => OneWorkerPerHook
  <2> SUFFICES ASSUME WebInv, LeavingInv PROVE OneWorkerPerHook
    OBVIOUS
  <2>1. hooked # 0 => hooked \in Hooks
    BY WebhookAssumption DEF WebInv, WebType, Hooks
  <2> QED
    BY <2>1 DEF WebInv, WorkerInv, LeavingInv, OneWorkerPerHook
<1> QED
  BY <1>1, <1>2, WebStarts, WebStep, LeavingStep, PTL DEF WebhooksSpec

-----------------------------------------------------------------------------
(* VirtualChanges: what is under way to an adapter that does not know all.    *)

Adapters ==
  [at : {"off", "wait"} \cup Connecting \cup Observing, gen : Nat, scope : Configs, next : Configs,
   tasks : BOOLEAN, config : BOOLEAN, doTasks : BOOLEAN, doConfig : BOOLEAN,
   knows : [tasks : Nat, tools : Configs \X Nat]]
Whats == Changes \cup {Everything, NoChange}
Tells == [at : {"idle", "bump", "signal", "kick", "enqueue"}, what : Whats]
Entries == [from : Instances, what : Whats]

\* A reader is not ahead of the stream.
VirtualType ==
  /\ db \in [tasks : Nat, bound : Configs, tools : [Configs -> Nat]]
  /\ gen \in [Instances -> Nat] /\ breaks \in Nat /\ forgotten \in BOOLEAN
  /\ adapter \in [Hosts -> Adapters] /\ teller \in [Instances \X Tellers -> Tells]
  /\ unsent \in [Instances -> SUBSET Whats] /\ stream \in Seq(Entries)
  /\ cursor \in [Hosts -> Nat] /\ link \in [Hosts -> BOOLEAN]
  /\ \A i \in Hosts : cursor[i] <= Len(stream)

\* A change that another instance has yet to send, or this one yet to read: it may
\* be trimmed only while the reader is to reconnect.
Remote(i, c) ==
  \/ \E j \in Instances \ {i} : \/ teller[<<j, "request">>].at # "idle" /\ teller[<<j, "request">>].what = c
                                \/ c \in unsent[j]
  \/ \E n \in 1 .. Len(stream) : n > cursor[i] /\ stream[n].from # i /\ stream[n].what = c
  \/ ~ link[i]

\* A change whose telling has not begun in this instance, and one whose listeners
\* are not told.
Coming(i, c) ==
  \/ \E t \in Tellers : teller[<<i, t>>].at = "bump" /\ teller[<<i, t>>].what \in {c, Everything}
  \/ Remote(i, c)
Told(i, c) == \E t \in Tellers : teller[<<i, t>>].at = "signal" /\ teller[<<i, t>>].what \in {c, Everything}

\* Before it has subscribed an adapter learns of a change by the generation only.
Due(i, a, c) == Coming(i, c) \/ (Subscribed(a) /\ Told(i, c))

\* The row of an adapter.
RowFine(i, a) ==
  /\ a.gen <= gen[i] /\ a.scope <= db.bound
  /\ a.at \in {"bound", "rebind", "recheck"} => a.doConfig
  /\ a.at = "rebind" => a.next = db.bound /\ a.scope # db.bound
  /\ a.at \notin Observing => ~ a.doConfig
  /\ a.at \notin Observing \ {"readTools"} => ~ a.doTasks

\* It has read the tools, or is to read them, or a change that makes it do so is due.
ToolsFine(i, a) ==
  a.at \notin {"off", "resolve"} =>
    \/ a.scope = db.bound /\ a.knows.tools = ToolsNow
    \/ a.config
    \/ a.scope = db.bound /\ a.doConfig
    \/ a.at \in {"bound", "rebind"}
    \/ a.at \in {"stamp", "subscribe", "check"} /\ gen[i] # a.gen
    \/ \E c \in Changes : c = (IF a.scope = db.bound THEN Config(db.bound) ELSE Service) /\ Due(i, a, c)

\* The same of the stamps of the tasks.
TasksFine(i, a) ==
  a.at \notin {"off", "resolve", "stamp"} =>
    \/ a.knows.tasks = db.tasks
    \/ a.tasks \/ a.doTasks
    \/ a.at \in {"subscribe", "check"} /\ gen[i] # a.gen
    \/ Due(i, a, TaskChange)

Informed(i) ==
  /\ RowFine(i, adapter[i])
  /\ ~ forgotten => ToolsFine(i, adapter[i]) /\ TasksFine(i, adapter[i])

VirtualInv == VirtualType /\ \A i \in Hosts : Informed(i)

\* The changes are told apart.
LEMMA ChangesDiffer ==
  /\ TaskChange \in Changes /\ Service \in Changes /\ \A b \in Configs : Config(b) \in Changes
  /\ TaskChange # Service /\ TaskChange # Everything /\ Service # Everything /\ NoChange \notin Changes
  /\ Everything \notin Changes
  /\ \A b \in Configs : Config(b) # TaskChange /\ Config(b) # Service /\ Config(b) # Everything
  /\ \A b \in Configs, d \in Configs : Config(b) = Config(d) => b = d
BY DEF Changes, TaskChange, Service, Everything, NoChange, Config, Configs

\* What a step that leaves a row alone must show: the changes that were due still
\* are, or the generation has moved.
LEMMA RowKept ==
  ASSUME VirtualInv, NEW i \in Hosts, adapter'[i] = adapter[i], db' = db,
         NEW g \in Nat, gen'[i] = g, g = gen[i] \/ g = gen[i] + 1, forgotten => forgotten',
         ~ forgotten' =>
           \A c \in Changes : /\ Coming(i, c) => Coming(i, c)' \/ (g = gen[i] + 1 /\ (Subscribed(adapter[i]) => Told(i, c)'))
                              /\ Subscribed(adapter[i]) /\ Told(i, c) => Told(i, c)' \/ Coming(i, c)'
  PROVE  Informed(i)'
<1>1. PICK a \in Adapters : a = adapter[i]
  BY DEF VirtualInv, VirtualType
<1>2. adapter'[i] = a /\ db' = db /\ gen'[i] = g
  BY <1>1
<1>3. PICK o \in Nat : o = gen[i]
  BY VirtualAssumption DEF VirtualInv, VirtualType
<1>4. RowFine(i, a) /\ (~ forgotten => ToolsFine(i, a) /\ TasksFine(i, a)) /\ a.gen \in Nat
  BY <1>1 DEF VirtualInv, Informed, Adapters
<1>5. a.gen <= g /\ (g # o => g # a.gen) /\ (g = o \/ g = o + 1)
  BY <1>3, <1>4 DEF RowFine
<1>6. RowFine(i, adapter[i])'
  BY <1>2, <1>4, <1>5 DEF RowFine
<1>7. ASSUME ~ forgotten' PROVE ToolsFine(i, adapter[i])' /\ TasksFine(i, adapter[i])'
  <2>1. \A c \in Changes : Due(i, a, c) => (Coming(i, c)' \/ (Subscribed(a) /\ Told(i, c)')) \/ (g # o /\ ~ Subscribed(a))
    BY <1>1, <1>3, <1>7 DEF Due
  <2>2. ToolsFine(i, a) /\ TasksFine(i, a)
    BY <1>4, <1>7
  <2>3. a.at \notin {"off", "resolve"} /\ ~ Subscribed(a) => a.at \in {"stamp", "subscribe"}
    BY DEF Adapters, Subscribed, Connecting
  <2>4. ToolsFine(i, adapter[i])'
    BY <1>2, <1>3, <1>5, <2>1, <2>2, <2>3 DEF ToolsFine, Due, ToolsNow, Subscribed
  <2>5. TasksFine(i, adapter[i])'
    BY <1>2, <1>3, <1>5, <2>1, <2>2, <2>3, ChangesDiffer DEF TasksFine, Due, Subscribed
  <2> QED
    BY <2>4, <2>5
<1> QED
  BY <1>6, <1>7 DEF Informed

\* A step of one adapter: it shows its new row fine, the others see the same.
LEMMA AdapterStep ==
  ASSUME VirtualInv, NEW i \in Hosts, NEW a \in Adapters, Step(i, a), RowFine(i, a),
         ~ forgotten => ToolsFine(i, a) /\ TasksFine(i, a)
  PROVE  VirtualInv'
<1>1. /\ adapter' = [adapter EXCEPT ![i] = a] /\ db' = db /\ gen' = gen /\ teller' = teller /\ breaks' = breaks
      /\ unsent' = unsent /\ stream' = stream /\ cursor' = cursor /\ link' = link /\ forgotten' = forgotten
  BY DEF Step, bridgeVars
<1>2. adapter' \in [Hosts -> Adapters] /\ adapter'[i] = a /\ \A h \in Hosts \ {i} : adapter'[h] = adapter[h]
  BY <1>1 DEF VirtualInv, VirtualType
<1>3. VirtualType'
  BY <1>1, <1>2 DEF VirtualInv, VirtualType
<1>4. \A h \in Hosts, c \in Changes : (Coming(h, c)' <=> Coming(h, c)) /\ (Told(h, c)' <=> Told(h, c))
  BY <1>1 DEF Coming, Remote, Told
<1>5. ASSUME NEW h \in Hosts, h # i PROVE Informed(h)'
  <2>1. PICK g \in Nat : g = gen[h] /\ gen'[h] = g
    BY <1>1, VirtualAssumption DEF VirtualInv, VirtualType
  <2> QED
    BY <1>1, <1>2, <1>4, <1>5, <2>1, RowKept
<1>6. Informed(i)'
  <2>1. RowFine(i, adapter[i])'
    BY <1>1, <1>2 DEF RowFine
  <2>2. ASSUME ~ forgotten PROVE ToolsFine(i, adapter[i])'
    BY <1>1, <1>2, <1>4, <2>2 DEF ToolsFine, Due, ToolsNow, Subscribed
  <2>3. ASSUME ~ forgotten PROVE TasksFine(i, adapter[i])'
    BY <1>1, <1>2, <1>4, <2>3, ChangesDiffer DEF TasksFine, Due, Subscribed
  <2> QED
    BY <1>1, <2>1, <2>2, <2>3 DEF Informed
<1> QED
  BY <1>3, <1>5, <1>6 DEF VirtualInv

\* What is known of an adapter and the rows before its step.
LEMMA AdapterNow ==
  ASSUME VirtualInv, NEW i \in Hosts
  PROVE  /\ adapter[i] \in Adapters /\ RowFine(i, adapter[i]) /\ gen[i] \in Nat /\ db.tasks \in Nat
         /\ db.bound \in Configs /\ ToolsNow \in Configs \X Nat /\ NewAdapter \in Adapters
         /\ ~ forgotten => ToolsFine(i, adapter[i]) /\ TasksFine(i, adapter[i])
<1>1. /\ db \in [tasks : Nat, bound : Configs, tools : [Configs -> Nat]] /\ i \in Instances
      /\ adapter[i] \in Adapters /\ gen[i] \in Nat
  BY VirtualAssumption DEF VirtualInv, VirtualType
<1>2. db.tasks \in Nat /\ db.bound \in Configs /\ db.tools[db.bound] \in Nat
  BY <1>1
<1>3. ToolsNow \in Configs \X Nat
  BY <1>2 DEF ToolsNow
<1>4. NewAdapter \in Adapters
  <2>1. 0 \in Nat /\ 1 \in Configs /\ <<1, 0>> \in Configs \X Nat
    BY DEF Configs
  <2>2. [tasks |-> 0, tools |-> <<1, 0>>] \in [tasks : Nat, tools : Configs \X Nat]
    BY <2>1
  <2> QED
    BY <2>1, <2>2 DEF NewAdapter, Adapters
<1> QED
  BY <1>1, <1>2, <1>3, <1>4 DEF VirtualInv, Informed

\* An adapter that is detached is to connect again, and that reads everything.
LEMMA Detached ==
  ASSUME VirtualInv, NEW i \in Hosts
  PROVE  RowFine(i, NewAdapter) /\ ToolsFine(i, NewAdapter) /\ TasksFine(i, NewAdapter)
<1>1. /\ NewAdapter.at = "off" /\ NewAdapter.gen = 0 /\ NewAdapter.scope = 1
      /\ ~ NewAdapter.doConfig /\ ~ NewAdapter.doTasks
  BY DEF NewAdapter
<1>2. gen[i] \in Nat /\ db.bound \in Configs
  BY AdapterNow
<1> QED
  BY <1>1, <1>2 DEF RowFine, ToolsFine, TasksFine, Configs

\* Connecting: the generation is read before the rows, and compared after the
\* adapter has subscribed.
LEMMA Connects ==
  ASSUME VirtualInv, NEW i \in Hosts, Connect(i) \/ Resolve(i) \/ Stamp(i) \/ Subscribe(i) \/ Check(i) \/ Detach(i)
  PROVE  VirtualInv'
<1>1. PICK h \in Adapters : h = adapter[i]
  BY AdapterNow
<1>2. /\ gen[i] \in Nat /\ db.tasks \in Nat /\ db.bound \in Configs /\ ToolsNow \in Configs \X Nat /\ NewAdapter \in Adapters
      /\ RowFine(i, h) /\ (~ forgotten => ToolsFine(i, h) /\ TasksFine(i, h))
  BY <1>1, AdapterNow
<1>3. CASE Connect(i)
  <2>1. PICK a : a = [NewAdapter EXCEPT !.at = "resolve", !.gen = gen[i]]
    OBVIOUS
  <2>2. a \in Adapters
    BY <1>2, <2>1 DEF Adapters, Connecting
  <2>3. a.at = "resolve" /\ a.gen = gen[i] /\ a.scope = 1 /\ ~ a.doConfig /\ ~ a.doTasks
    BY <2>1 DEF NewAdapter
  <2>4. Step(i, a)
    BY <1>3, <2>1 DEF Connect
  <2>5. RowFine(i, a) /\ ToolsFine(i, a) /\ TasksFine(i, a)
    BY <1>2, <2>3 DEF RowFine, ToolsFine, TasksFine, Configs
  <2> QED
    BY <2>2, <2>4, <2>5, AdapterStep
<1>4. CASE Resolve(i)
  <2> DEFINE k == [h.knows EXCEPT !.tools = ToolsNow]
  <2>1. k \in [tasks : Nat, tools : Configs \X Nat] /\ k.tools = ToolsNow
    BY <1>2 DEF Adapters
  <2> HIDE DEF k
  <2>2. PICK a : a = [h EXCEPT !.at = "stamp", !.scope = db.bound, !.knows = k]
    OBVIOUS
  <2>3. a \in Adapters
    BY <1>2, <2>1, <2>2 DEF Adapters, Connecting
  <2>4. /\ a.at = "stamp" /\ a.gen = h.gen /\ a.scope = db.bound /\ a.knows = k
        /\ a.doConfig = h.doConfig /\ a.doTasks = h.doTasks /\ h.at = "resolve"
    BY <1>1, <1>4, <2>2 DEF Adapters, Resolve
  <2>5. Step(i, a)
    <3>1. a = [h EXCEPT !.at = "stamp", !.scope = db.bound, !.knows.tools = ToolsNow]
      BY <2>2 DEF k
    <3> QED
      BY <1>1, <1>4, <3>1 DEF Resolve
  <2>6. RowFine(i, a)
    BY <1>2, <2>4 DEF RowFine, Configs, Observing
  <2>7. ToolsFine(i, a) /\ TasksFine(i, a)
    BY <2>1, <2>4 DEF ToolsFine, TasksFine
  <2> QED
    BY <2>3, <2>5, <2>6, <2>7, AdapterStep
<1>5. CASE Stamp(i)
  <2> DEFINE k == [h.knows EXCEPT !.tasks = db.tasks]
  <2>1. k \in [tasks : Nat, tools : Configs \X Nat] /\ k.tasks = db.tasks /\ k.tools = h.knows.tools
    BY <1>2 DEF Adapters
  <2> HIDE DEF k
  <2>2. PICK a : a = [h EXCEPT !.at = "subscribe", !.knows = k]
    OBVIOUS
  <2>3. a \in Adapters
    BY <1>2, <2>1, <2>2 DEF Adapters, Connecting
  <2>4. a.at = "subscribe" /\ a.gen = h.gen /\ a.scope = h.scope /\ a.knows = k /\ a.config = h.config
        /\ a.doConfig = h.doConfig /\ a.doTasks = h.doTasks /\ h.at = "stamp"
    BY <1>1, <1>5, <2>2 DEF Adapters, Stamp
  <2>5. Step(i, a)
    <3>1. a = [h EXCEPT !.at = "subscribe", !.knows.tasks = db.tasks]
      BY <2>2 DEF k
    <3> QED
      BY <1>1, <1>5, <3>1 DEF Stamp
  <2>6. RowFine(i, a)
    BY <1>2, <2>4 DEF RowFine, Observing
  <2>7. TasksFine(i, a)
    BY <2>1, <2>4 DEF TasksFine
  <2>8. ASSUME ~ forgotten PROVE ToolsFine(i, a)
    BY <1>2, <2>1, <2>4, <2>8 DEF ToolsFine, Due, Subscribed, Observing
  <2> QED
    BY <2>3, <2>5, <2>6, <2>7, <2>8, AdapterStep
<1>6. CASE Subscribe(i)
  <2>1. PICK a : a = [h EXCEPT !.at = "check"]
    OBVIOUS
  <2>2. a \in Adapters
    BY <2>1 DEF Adapters, Connecting
  <2>3. /\ a.at = "check" /\ a.gen = h.gen /\ a.scope = h.scope /\ a.knows = h.knows /\ a.config = h.config
        /\ a.doConfig = h.doConfig /\ a.tasks = h.tasks /\ a.doTasks = h.doTasks /\ h.at = "subscribe"
    BY <1>1, <1>6, <2>1 DEF Adapters, Subscribe
  <2>4. Step(i, a)
    BY <1>1, <1>6, <2>1 DEF Subscribe
  <2>5. RowFine(i, a)
    BY <1>2, <2>3 DEF RowFine, Observing
  <2>6. ASSUME ~ forgotten PROVE ToolsFine(i, a) /\ TasksFine(i, a)
    BY <1>2, <2>3, <2>6 DEF ToolsFine, TasksFine, Due, Subscribed, Observing
  <2> QED
    BY <2>2, <2>4, <2>5, <2>6, AdapterStep
<1>7. CASE Check(i)
  <2>1. h.at = "check" /\ Step(i, [Checked(i, h) EXCEPT !.at = "wait", !.gen = 0])
    BY <1>1, <1>7 DEF Check
  <2>2. PICK x : x = Checked(i, h)
    OBVIOUS
  <2>3. /\ x \in Adapters /\ x.scope = h.scope /\ x.knows = h.knows /\ x.doConfig = h.doConfig /\ x.doTasks = h.doTasks
        /\ h.tasks => x.tasks
        /\ h.config => x.config
        /\ gen[i] # h.gen => x.tasks /\ x.config
    BY <2>2 DEF Checked, Adapters
  <2>4. PICK a : a = [x EXCEPT !.at = "wait", !.gen = 0]
    OBVIOUS
  <2>5. 0 \in Nat
    OBVIOUS
  <2>6. a \in Adapters
    BY <2>3, <2>4, <2>5 DEF Adapters
  <2>7. /\ a.at = "wait" /\ a.gen = 0 /\ a.scope = x.scope /\ a.knows = x.knows /\ a.config = x.config
        /\ a.doConfig = x.doConfig /\ a.tasks = x.tasks /\ a.doTasks = x.doTasks
    BY <2>3, <2>4 DEF Adapters
  <2>8. Step(i, a)
    BY <2>1, <2>2, <2>4
  <2>9. RowFine(i, a)
    BY <1>2, <2>1, <2>3, <2>7 DEF RowFine, Observing
  <2>10. ASSUME ~ forgotten PROVE ToolsFine(i, a) /\ TasksFine(i, a)
    BY <1>2, <2>1, <2>3, <2>7, <2>10 DEF ToolsFine, TasksFine, Due, Subscribed, Observing
  <2> QED
    BY <2>6, <2>8, <2>9, <2>10, AdapterStep
<1>8. CASE Detach(i)
  BY <1>2, <1>8, Detached, AdapterStep DEF Detach
<1> QED
  BY <1>3, <1>4, <1>5, <1>6, <1>7, <1>8

\* Observing: the flags are drained, the binding is resolved, and what is read
\* afterwards is as new as what the flags told of.
LEMMA Observes ==
  ASSUME VirtualInv, NEW i \in Hosts,
         Drain(i) \/ Bound(i) \/ Rebind(i) \/ RebindCheck(i) \/ ReadTasks(i) \/ ReadTools(i)
  PROVE  VirtualInv'
<1>1. PICK h \in Adapters : h = adapter[i]
  BY AdapterNow
<1>2. /\ gen[i] \in Nat /\ db.tasks \in Nat /\ db.bound \in Configs /\ ToolsNow \in Configs \X Nat
      /\ RowFine(i, h) /\ (~ forgotten => ToolsFine(i, h) /\ TasksFine(i, h))
  BY <1>1, AdapterNow
<1>3. CASE Drain(i)
  <2> DEFINE l == IF h.config THEN "bound" ELSE "readTasks"
             g == IF h.config THEN gen[i] ELSE 0
  <2>1. l \in Observing /\ g \in Nat /\ h.at = "wait"
    BY <1>1, <1>2, <1>3 DEF Observing, Drain
  <2>2. PICK a : a = [h EXCEPT !.at = l, !.tasks = FALSE, !.config = FALSE, !.doTasks = h.tasks, !.doConfig = h.config,
                               !.gen = g]
    OBVIOUS
  <2>3. a \in Adapters
    BY <2>1, <2>2 DEF Adapters
  <2>4. /\ a.at = l /\ a.gen = g /\ a.scope = h.scope /\ a.next = h.next /\ a.knows = h.knows
        /\ ~ a.tasks /\ ~ a.config /\ a.doTasks = h.tasks /\ a.doConfig = h.config
    BY <2>2 DEF Adapters
  <2>5. Step(i, a)
    BY <1>1, <1>3, <2>2 DEF Drain
  <2>6. RowFine(i, a)
    BY <1>2, <2>1, <2>4 DEF RowFine
  <2>7. ASSUME ~ forgotten PROVE ToolsFine(i, a) /\ TasksFine(i, a)
    BY <1>2, <2>1, <2>4, <2>7 DEF ToolsFine, TasksFine, Due, Subscribed, RowFine, Observing
  <2> QED
    BY <2>3, <2>5, <2>6, <2>7, AdapterStep
<1>4. CASE Bound(i)
  <2>1. h.at = "bound" /\ h.doConfig
    BY <1>1, <1>2, <1>4 DEF Bound, RowFine
  <2>2. CASE db.bound # h.scope
    <3>1. PICK a : a = [h EXCEPT !.at = "rebind", !.next = db.bound]
      OBVIOUS
    <3>2. a \in Adapters
      BY <1>2, <3>1 DEF Adapters, Observing
    <3>3. /\ a.at = "rebind" /\ a.gen = h.gen /\ a.scope = h.scope /\ a.next = db.bound /\ a.knows = h.knows
          /\ a.tasks = h.tasks /\ a.config = h.config /\ a.doTasks = h.doTasks /\ a.doConfig = h.doConfig
      BY <3>1 DEF Adapters
    <3>4. Step(i, a)
      BY <1>1, <1>4, <2>2, <3>1 DEF Bound
    <3>5. RowFine(i, a)
      BY <1>2, <2>1, <2>2, <3>3 DEF RowFine, Observing
    <3>6. ASSUME ~ forgotten PROVE ToolsFine(i, a) /\ TasksFine(i, a)
      BY <1>2, <2>1, <3>3, <3>6 DEF ToolsFine, TasksFine, Due, Subscribed, Observing
    <3> QED
      BY <3>2, <3>4, <3>5, <3>6, AdapterStep
  <2>3. CASE db.bound = h.scope
    <3>1. PICK a : a = [h EXCEPT !.at = "readTasks", !.gen = 0]
      OBVIOUS
    <3>2. 0 \in Nat /\ a \in Adapters
      <4>1. 0 \in Nat
        OBVIOUS
      <4> QED
        BY <3>1, <4>1 DEF Adapters, Observing
    <3>3. /\ a.at = "readTasks" /\ a.gen = 0 /\ a.scope = h.scope /\ a.knows = h.knows
          /\ a.tasks = h.tasks /\ a.config = h.config /\ a.doTasks = h.doTasks /\ a.doConfig = h.doConfig
      BY <3>1 DEF Adapters
    <3>4. Step(i, a)
      BY <1>1, <1>4, <2>3, <3>1 DEF Bound
    <3>5. RowFine(i, a)
      BY <1>2, <2>1, <3>3 DEF RowFine, Observing
    <3>6. ASSUME ~ forgotten PROVE ToolsFine(i, a) /\ TasksFine(i, a)
      BY <1>2, <2>1, <2>3, <3>3, <3>6 DEF ToolsFine, TasksFine, Due, Subscribed, Observing
    <3> QED
      BY <3>2, <3>4, <3>5, <3>6, AdapterStep
  <2> QED
    BY <2>2, <2>3
<1>5. CASE Rebind(i)
  <2>1. h.at = "rebind" /\ h.doConfig /\ h.next = db.bound
    BY <1>1, <1>2, <1>5 DEF Rebind, RowFine
  <2>2. PICK a : a = [h EXCEPT !.at = "recheck", !.scope = h.next, !.tasks = FALSE, !.config = FALSE, !.doTasks = TRUE,
                               !.next = 1]
    OBVIOUS
  <2>3. a \in Adapters
    BY <1>2, <2>1, <2>2 DEF Adapters, Observing, Configs
  <2>4. /\ a.at = "recheck" /\ a.gen = h.gen /\ a.scope = db.bound /\ a.knows = h.knows
        /\ ~ a.tasks /\ ~ a.config /\ a.doTasks /\ a.doConfig = h.doConfig
    BY <2>1, <2>2 DEF Adapters
  <2>5. Step(i, a)
    BY <1>1, <1>5, <2>2 DEF Rebind
  <2>6. RowFine(i, a)
    BY <1>2, <2>1, <2>4 DEF RowFine, Observing, Configs
  <2>7. ToolsFine(i, a) /\ TasksFine(i, a)
    BY <2>1, <2>4 DEF ToolsFine, TasksFine
  <2> QED
    BY <2>3, <2>5, <2>6, <2>7, AdapterStep
<1>6. CASE RebindCheck(i)
  <2>1. h.at = "recheck" /\ Step(i, [Checked(i, h) EXCEPT !.at = "readTasks", !.gen = 0])
    BY <1>1, <1>6 DEF RebindCheck
  <2>2. PICK x : x = Checked(i, h)
    OBVIOUS
  <2>3. /\ x \in Adapters /\ x.scope = h.scope /\ x.knows = h.knows /\ x.doConfig = h.doConfig /\ x.doTasks = h.doTasks
        /\ h.tasks => x.tasks
        /\ h.config => x.config
    BY <2>2 DEF Checked, Adapters
  <2>4. PICK a : a = [x EXCEPT !.at = "readTasks", !.gen = 0]
    OBVIOUS
  <2>5. 0 \in Nat
    OBVIOUS
  <2>6. a \in Adapters
    BY <2>3, <2>4, <2>5 DEF Adapters, Observing
  <2>7. /\ a.at = "readTasks" /\ a.gen = 0 /\ a.scope = x.scope /\ a.knows = x.knows /\ a.config = x.config
        /\ a.doConfig = x.doConfig /\ a.tasks = x.tasks /\ a.doTasks = x.doTasks
    BY <2>3, <2>4 DEF Adapters
  <2>8. Step(i, a)
    BY <2>1, <2>2, <2>4
  <2>9. RowFine(i, a)
    BY <1>2, <2>1, <2>3, <2>7 DEF RowFine, Observing
  <2>10. ASSUME ~ forgotten PROVE ToolsFine(i, a) /\ TasksFine(i, a)
    BY <1>2, <2>1, <2>3, <2>7, <2>10 DEF ToolsFine, TasksFine, Due, Subscribed, Observing
  <2> QED
    BY <2>6, <2>8, <2>9, <2>10, AdapterStep
<1>7. CASE ReadTasks(i)
  <2>1. h.at = "readTasks"
    BY <1>1, <1>7 DEF ReadTasks
  <2> DEFINE k == [h.knows EXCEPT !.tasks = IF h.doTasks THEN db.tasks ELSE @]
  <2>2. /\ k \in [tasks : Nat, tools : Configs \X Nat] /\ k.tools = h.knows.tools
        /\ h.doTasks => k.tasks = db.tasks
        /\ ~ h.doTasks => k.tasks = h.knows.tasks
    BY <1>2 DEF Adapters
  <2> HIDE DEF k
  <2>3. PICK a : a = [h EXCEPT !.at = "readTools", !.doTasks = FALSE, !.knows = k]
    OBVIOUS
  <2>4. a \in Adapters
    BY <2>2, <2>3 DEF Adapters, Observing
  <2>5. /\ a.at = "readTools" /\ a.gen = h.gen /\ a.scope = h.scope /\ a.knows = k
        /\ a.tasks = h.tasks /\ a.config = h.config /\ ~ a.doTasks /\ a.doConfig = h.doConfig
    BY <2>3 DEF Adapters
  <2>6. Step(i, a)
    <3>1. a = [h EXCEPT !.at = "readTools", !.doTasks = FALSE, !.knows.tasks = IF h.doTasks THEN db.tasks ELSE @]
      BY <2>3 DEF k
    <3> QED
      BY <1>1, <1>7, <3>1 DEF ReadTasks
  <2>7. RowFine(i, a)
    BY <1>2, <2>1, <2>5 DEF RowFine, Observing
  <2>8. ASSUME ~ forgotten PROVE ToolsFine(i, a) /\ TasksFine(i, a)
    BY <1>2, <2>1, <2>2, <2>5, <2>8 DEF ToolsFine, TasksFine, Due, Subscribed, Observing
  <2> QED
    BY <2>4, <2>6, <2>7, <2>8, AdapterStep
<1>8. CASE ReadTools(i)
  <2>1. h.at = "readTools"
    BY <1>1, <1>8 DEF ReadTools
  <2> DEFINE k == [h.knows EXCEPT !.tools = IF h.doConfig THEN ToolsNow ELSE @]
  <2>2. /\ k \in [tasks : Nat, tools : Configs \X Nat] /\ k.tasks = h.knows.tasks
        /\ h.doConfig => k.tools = ToolsNow
        /\ ~ h.doConfig => k.tools = h.knows.tools
    BY <1>2 DEF Adapters
  <2> HIDE DEF k
  <2>3. PICK a : a = [h EXCEPT !.at = "wait", !.doConfig = FALSE, !.knows = k]
    OBVIOUS
  <2>4. a \in Adapters
    BY <2>2, <2>3 DEF Adapters
  <2>5. /\ a.at = "wait" /\ a.gen = h.gen /\ a.scope = h.scope /\ a.knows = k
        /\ a.tasks = h.tasks /\ a.config = h.config /\ a.doTasks = h.doTasks /\ ~ a.doConfig
    BY <2>3 DEF Adapters
  <2>6. Step(i, a)
    <3>1. a = [h EXCEPT !.at = "wait", !.doConfig = FALSE, !.knows.tools = IF h.doConfig THEN ToolsNow ELSE @]
      BY <2>3 DEF k
    <3> QED
      BY <1>1, <1>8, <3>1 DEF ReadTools
  <2>7. RowFine(i, a)
    BY <1>2, <2>1, <2>5 DEF RowFine, Observing
  <2>8. ASSUME ~ forgotten PROVE ToolsFine(i, a) /\ TasksFine(i, a)
    BY <1>2, <2>1, <2>2, <2>5, <2>8 DEF ToolsFine, TasksFine, Due, Subscribed, Observing
  <2> QED
    BY <2>4, <2>6, <2>7, <2>8, AdapterStep
<1> QED
  BY <1>3, <1>4, <1>5, <1>6, <1>7, <1>8

\* What a step of the tellers and the bridge must show: a change that was due to an
\* adapter still is.
LEMMA BridgeStep ==
  ASSUME VirtualInv, VirtualType', UNCHANGED <<db, gen, adapter, forgotten>>,
         \A h \in Hosts, c \in Changes : /\ Coming(h, c) => Coming(h, c)'
                                         /\ Told(h, c) => Told(h, c)' \/ Coming(h, c)'
  PROVE  VirtualInv'
<1>1. ASSUME NEW h \in Hosts PROVE Informed(h)'
  <2>1. PICK g \in Nat : g = gen[h] /\ gen'[h] = g
    BY VirtualAssumption DEF VirtualInv, VirtualType
  <2>2. adapter'[h] = adapter[h] /\ db' = db /\ (forgotten => forgotten')
    OBVIOUS
  <2> QED
    BY <2>1, <2>2, RowKept
<1> QED
  BY <1>1 DEF VirtualInv

\* The row of one teller changes.
LEMMA TellerSet ==
  ASSUME VirtualInv, NEW i \in Instances, NEW t \in Tellers, NEW e \in Tells,
         teller' = [teller EXCEPT ![<<i, t>>] = e]
  PROVE  /\ teller' \in [Instances \X Tellers -> Tells] /\ teller'[<<i, t>>] = e
         /\ \A j \in Instances, u \in Tellers : j # i \/ u # t => teller'[<<j, u>>] = teller[<<j, u>>]
BY DEF VirtualInv, VirtualType

\* What is known of a teller before its step.
LEMMA TellerNow ==
  ASSUME VirtualInv, NEW i \in Instances, NEW t \in Tellers
  PROVE  /\ teller[<<i, t>>] \in Tells /\ teller[<<i, t>>].what \in Whats
         /\ Still \in Tells /\ Still.at = "idle" /\ Still.what = NoChange
         /\ \A l \in {"signal", "kick", "enqueue"} :
              /\ [teller[<<i, t>>] EXCEPT !.at = l] \in Tells /\ [teller[<<i, t>>] EXCEPT !.at = l].at = l
              /\ [teller[<<i, t>>] EXCEPT !.at = l].what = teller[<<i, t>>].what
         /\ "request" \in Tellers /\ "reader" \in Tellers
<1>1. teller[<<i, t>>] \in Tells
  BY DEF VirtualInv, VirtualType
<1> QED
  BY <1>1 DEF Tells, Tellers, Still, Whats

\* The generation moves: the listeners are to be told.
LEMMA Bumped == ASSUME VirtualInv, NEW i \in Instances, NEW t \in Tellers, Bump(i, t) PROVE VirtualInv'
<1>1. /\ teller[<<i, t>>].at = "bump" /\ gen' = [gen EXCEPT ![i] = gen[i] + 1]
      /\ UNCHANGED <<db, adapter, bridgeVars, breaks, forgotten>>
  BY DEF Bump
<1>2. PICK e : e = [teller[<<i, t>>] EXCEPT !.at = "signal"]
  OBVIOUS
<1>3. e \in Tells /\ e.at = "signal" /\ e.what = teller[<<i, t>>].what
  BY <1>2, TellerNow
<1>4. teller' = [teller EXCEPT ![<<i, t>>] = e]
  BY <1>2 DEF Bump
<1>5. /\ teller' \in [Instances \X Tellers -> Tells] /\ teller'[<<i, t>>] = e
      /\ \A j \in Instances, u \in Tellers : j # i \/ u # t => teller'[<<j, u>>] = teller[<<j, u>>]
  BY <1>3, <1>4, TellerSet
<1>6. gen' \in [Instances -> Nat] /\ gen'[i] = gen[i] + 1 /\ \A j \in Instances \ {i} : gen'[j] = gen[j]
  BY <1>1 DEF VirtualInv, VirtualType
<1>7. VirtualType'
  BY <1>1, <1>5, <1>6 DEF VirtualInv, VirtualType, bridgeVars
<1>8. \A h \in Hosts, c \in Changes : Remote(h, c) => Remote(h, c)'
  <2>1. ASSUME NEW j \in Instances
        PROVE  /\ teller[<<j, "request">>].at # "idle" => teller'[<<j, "request">>].at # "idle"
               /\ teller'[<<j, "request">>].what = teller[<<j, "request">>].what
    <3>1. CASE j = i /\ t = "request"
      BY <1>1, <1>3, <1>5, <3>1
    <3>2. CASE ~ (j = i /\ t = "request")
      BY <1>5, <3>2 DEF Tellers
    <3> QED
      BY <3>1, <3>2
  <2> QED
    BY <1>1, <2>1 DEF Remote, bridgeVars
<1>9. ASSUME NEW h \in Hosts, h # i PROVE Informed(h)'
  <2>1. PICK g \in Nat : g = gen[h] /\ gen'[h] = g /\ h \in Instances
    BY <1>6, <1>9, VirtualAssumption DEF VirtualInv, VirtualType
  <2>2. \A u \in Tellers : teller'[<<h, u>>] = teller[<<h, u>>]
    BY <1>5, <1>9, <2>1
  <2>3. \A c \in Changes : (Coming(h, c) => Coming(h, c)') /\ (Told(h, c) => Told(h, c)')
    BY <1>8, <2>2 DEF Coming, Told
  <2>4. adapter'[h] = adapter[h] /\ db' = db /\ (forgotten => forgotten')
    BY <1>1
  <2> QED
    BY <2>1, <2>3, <2>4, RowKept
<1>10. ASSUME i \in Hosts PROVE Informed(i)'
  <2>1. PICK g \in Nat : g = gen[i] + 1 /\ gen'[i] = g
    BY <1>6 DEF VirtualInv, VirtualType
  <2>2. \A c \in Changes : /\ Coming(i, c) => Coming(i, c)' \/ (g = gen[i] + 1 /\ Told(i, c)')
                           /\ Told(i, c) => Told(i, c)'
    BY <1>1, <1>3, <1>5, <1>8, <1>10, <2>1 DEF Coming, Told
  <2>3. adapter'[i] = adapter[i] /\ db' = db /\ (forgotten => forgotten')
    BY <1>1
  <2> QED
    BY <1>10, <2>1, <2>2, <2>3, RowKept
<1> QED
  BY <1>7, <1>9, <1>10 DEF VirtualInv

\* A change is queued for the other instances.
LEMMA Enqueued == ASSUME VirtualInv, NEW i \in Instances, Enqueue(i) PROVE VirtualInv'
<1>1. /\ teller[<<i, "request">>].at = "enqueue"
      /\ unsent' = [unsent EXCEPT ![i] = unsent[i] \cup {teller[<<i, "request">>].what}]
      /\ teller' = [teller EXCEPT ![<<i, "request">>] = Still]
      /\ UNCHANGED <<db, gen, adapter, stream, cursor, link, breaks, forgotten>>
  BY DEF Enqueue
<1>2. PICK w : w = teller[<<i, "request">>].what
  OBVIOUS
<1>3. w \in Whats /\ Still \in Tells /\ Still.at = "idle"
  BY <1>1, <1>2, TellerNow DEF Tellers
<1>4. /\ teller' \in [Instances \X Tellers -> Tells] /\ teller'[<<i, "request">>] = Still
      /\ \A j \in Instances, u \in Tellers : j # i \/ u # "request" => teller'[<<j, u>>] = teller[<<j, u>>]
  BY <1>1, <1>3, TellerSet DEF Tellers
<1>5. unsent' \in [Instances -> SUBSET Whats] /\ w \in unsent'[i] /\ \A j \in Instances : unsent[j] \subseteq unsent'[j]
  BY <1>1, <1>2, <1>3 DEF VirtualInv, VirtualType
<1>6. VirtualType'
  BY <1>1, <1>4, <1>5 DEF VirtualInv, VirtualType
<1>7. ASSUME NEW h \in Hosts, NEW c \in Changes
      PROVE  /\ Coming(h, c) => Coming(h, c)'
             /\ Told(h, c) => Told(h, c)' \/ Coming(h, c)'
  <2>1. h \in Instances
    BY VirtualAssumption
  <2>2. \A u \in Tellers : teller[<<h, u>>].at \in {"bump", "signal"} => teller'[<<h, u>>] = teller[<<h, u>>]
    BY <1>1, <1>4, <2>1
  <2>3. Remote(h, c) => Remote(h, c)'
    <3>1. \A j \in Instances \ {h} : teller[<<j, "request">>].at # "idle" /\ teller[<<j, "request">>].what = c =>
             \/ teller'[<<j, "request">>].at # "idle" /\ teller'[<<j, "request">>].what = c
             \/ c \in unsent'[j]
      BY <1>2, <1>4, <1>5 DEF Tellers
    <3> QED
      BY <1>1, <1>5, <3>1 DEF Remote
  <2> QED
    BY <2>2, <2>3 DEF Coming, Told
<1> QED
  BY <1>1, <1>6, <1>7, BridgeStep

\* Only the readers and the stream move: what is queued stays, and what the stream
\* holds for a reader stays or is due in its instance.
LEMMA SendStep == ASSUME VirtualInv, NEW i \in Instances, Send(i) PROVE VirtualInv'
<1>1. PICK c \in unsent[i] :
        LET added == Append(stream, [from |-> i, what |-> c])
        IN \/ stream' = added /\ unsent' = [unsent EXCEPT ![i] = @ \ {c}] /\ UNCHANGED breaks
           \/ stream' \in {stream, added} /\ Break /\ UNCHANGED unsent
  BY Zenon DEF Send
<1>2. UNCHANGED <<db, gen, adapter, teller, cursor, link, forgotten>>
  BY Zenon DEF Send
<1>3. /\ stream \in Seq(Entries) /\ unsent \in [Instances -> SUBSET Whats] /\ breaks \in Nat
      /\ \A h \in Hosts : cursor[h] \in Nat /\ cursor[h] <= Len(stream)
  BY DEF VirtualInv, VirtualType
<1>4. PICK e : e = [from |-> i, what |-> c]
  OBVIOUS
<1>5. e \in Entries /\ e.from = i /\ e.what = c /\ c \in Whats
  BY <1>3, <1>4 DEF Entries
<1>6. PICK s : s = Append(stream, e)
  OBVIOUS
<1>7. /\ s \in Seq(Entries) /\ Len(s) = Len(stream) + 1 /\ s[Len(stream) + 1] = e
      /\ \A n \in 1 .. Len(stream) : s[n] = stream[n]
  BY <1>3, <1>5, <1>6, AppendProperties
<1>8. \/ stream' = s /\ unsent' = [unsent EXCEPT ![i] = unsent[i] \ {c}] /\ breaks' = breaks
      \/ stream' \in {stream, s} /\ breaks' = breaks + 1 /\ unsent' = unsent
  BY <1>1, <1>4, <1>6 DEF Break
<1>9. Len(stream) \in Nat
  BY <1>3
<1>10. VirtualType'
  <2>1. unsent' \in [Instances -> SUBSET Whats] /\ breaks' \in Nat
    BY <1>3, <1>8
  <2>2. stream' \in Seq(Entries) /\ \A h \in Hosts : cursor[h] <= Len(stream')
    BY <1>3, <1>7, <1>8, <1>9
  <2> QED
    BY <1>2, <2>1, <2>2 DEF VirtualInv, VirtualType
<1>11. ASSUME NEW h \in Hosts, NEW d \in Changes, Remote(h, d) PROVE Remote(h, d)'
  <2>1. CASE \E n \in 1 .. Len(stream) : n > cursor[h] /\ stream[n].from # h /\ stream[n].what = d
    BY <1>2, <1>7, <1>8, <1>9, <2>1 DEF Remote
  <2>2. CASE ~ link[h]
    BY <1>2, <2>2 DEF Remote
  <2>3. ASSUME NEW j \in Instances \ {h},
               (teller[<<j, "request">>].at # "idle" /\ teller[<<j, "request">>].what = d) \/ d \in unsent[j]
        PROVE  Remote(h, d)'
    <3>1. CASE teller[<<j, "request">>].at # "idle" /\ teller[<<j, "request">>].what = d
      BY <1>2, <3>1 DEF Remote
    <3>2. CASE d \in unsent'[j]
      BY <3>2 DEF Remote
    <3>3. CASE d \in unsent[j] /\ d \notin unsent'[j]
      <4>1. j = i /\ d = c /\ stream' = s
        BY <1>3, <1>8, <3>3
      <4>2. PICK n \in Nat : n = Len(stream) + 1
        BY <1>9
      <4>3. n \in 1 .. Len(stream') /\ n > cursor[h] /\ stream'[n].from # h /\ stream'[n].what = d
        BY <1>3, <1>5, <1>7, <1>9, <2>3, <4>1, <4>2
      <4> QED
        BY <1>2, <4>3 DEF Remote
    <3> QED
      BY <2>3, <3>1, <3>2, <3>3
  <2> QED
    BY <1>11, <2>1, <2>2, <2>3 DEF Remote
<1>12. \A h \in Hosts, d \in Changes : /\ Coming(h, d) => Coming(h, d)'
                                       /\ Told(h, d) => Told(h, d)' \/ Coming(h, d)'
  BY <1>2, <1>11 DEF Coming, Told
<1> QED
  BY <1>2, <1>10, <1>12, BridgeStep

\* The oldest entry is trimmed: no connected reader is to read it.
LEMMA Trimmed == ASSUME VirtualInv, Trim PROVE VirtualInv'
<1>1. PICK n \in 1 .. Len(stream) :
        /\ \A h \in Hosts : link[h] => cursor[h] >= n
        /\ stream' = [stream EXCEPT ![n].what = NoChange]
  BY DEF Trim
<1>2. UNCHANGED <<db, gen, adapter, teller, unsent, cursor, link, breaks, forgotten>>
  BY DEF Trim
<1>3. /\ stream \in Seq(Entries) /\ stream[n] \in Entries /\ NoChange \in Whats
      /\ \A h \in Hosts : cursor[h] \in Nat /\ cursor[h] <= Len(stream)
  BY <1>1 DEF VirtualInv, VirtualType, Whats
<1>4. PICK e \in Entries : e = [stream[n] EXCEPT !.what = NoChange]
  BY <1>3 DEF Entries
<1>5. stream' = [stream EXCEPT ![n] = e]
  BY <1>1, <1>4
<1>6. stream' \in Seq(Entries) /\ Len(stream') = Len(stream) /\ \A m \in 1 .. Len(stream) : m # n => stream'[m] = stream[m]
  BY <1>1, <1>3, <1>5, ExceptSeq
<1>7. VirtualType'
  BY <1>2, <1>3, <1>6 DEF VirtualInv, VirtualType
<1>8. ASSUME NEW h \in Hosts, NEW d \in Changes, Remote(h, d) PROVE Remote(h, d)'
  <2>1. CASE \E m \in 1 .. Len(stream) : m > cursor[h] /\ stream[m].from # h /\ stream[m].what = d
    <3>1. PICK m \in 1 .. Len(stream) : m > cursor[h] /\ stream[m].from # h /\ stream[m].what = d
      BY <2>1
    <3>2. CASE link[h]
      <4>1. m # n
        BY <1>1, <1>3, <3>1, <3>2
      <4> QED
        BY <1>2, <1>6, <3>1, <4>1 DEF Remote
    <3>3. CASE ~ link[h]
      BY <1>2, <3>3 DEF Remote
    <3> QED
      BY <3>2, <3>3
  <2>2. CASE ~ link[h]
    BY <1>2, <2>2 DEF Remote
  <2>3. CASE \E j \in Instances \ {h} : \/ teller[<<j, "request">>].at # "idle" /\ teller[<<j, "request">>].what = d
                                        \/ d \in unsent[j]
    BY <1>2, <2>3 DEF Remote
  <2> QED
    BY <1>8, <2>1, <2>2, <2>3 DEF Remote
<1>9. \A h \in Hosts, d \in Changes : /\ Coming(h, d) => Coming(h, d)'
                                      /\ Told(h, d) => Told(h, d)' \/ Coming(h, d)'
  BY <1>2, <1>8 DEF Coming, Told
<1> QED
  BY <1>2, <1>7, <1>9, BridgeStep

\* A reader takes an entry, fails, or looks at the database again: what it does not
\* take up stays, and after a failure everything is due.
LEMMA ReaderStep == ASSUME VirtualInv, NEW i \in Hosts, Read(i) \/ ReadFails(i) \/ Reconnect(i) PROVE VirtualInv'
<1>1. /\ stream \in Seq(Entries) /\ Len(stream) \in Nat /\ cursor \in [Hosts -> Nat] /\ link \in [Hosts -> BOOLEAN]
      /\ breaks \in Nat /\ i \in Instances /\ "reader" \in Tellers /\ "request" \in Tellers
      /\ \A h \in Hosts : cursor[h] \in Nat /\ cursor[h] <= Len(stream) /\ h \in Instances
  BY VirtualAssumption DEF VirtualInv, VirtualType, Tellers
<1>2. UNCHANGED <<db, gen, adapter, unsent, stream, forgotten>>
  BY DEF Read, ReadFails, Reconnect
<1>3. Still.at = "idle"
  BY DEF Still
<1>4. CASE Read(i)
  <2>1. /\ teller[<<i, "reader">>] = Still /\ cursor[i] < Len(stream) /\ link' = link /\ breaks' = breaks
        /\ cursor' = [cursor EXCEPT ![i] = cursor[i] + 1]
    BY <1>4 DEF Read
  <2>2. PICK n \in 1 .. Len(stream) : n = cursor[i] + 1
    BY <1>1, <2>1
  <2>3. PICK e \in Entries : e = stream[n]
    BY <1>1
  <2>4. teller' = IF e.what = NoChange \/ e.from = i THEN teller
                  ELSE [teller EXCEPT ![<<i, "reader">>] = [at |-> "bump", what |-> e.what]]
    BY <1>4, <2>2, <2>3 DEF Read
  <2>5. PICK b : b = [at |-> "bump", what |-> e.what]
    OBVIOUS
  <2>6. b \in Tells /\ b.at = "bump" /\ b.what = e.what
    BY <2>3, <2>5 DEF Tells, Entries
  <2>7. /\ teller' \in [Instances \X Tellers -> Tells]
        /\ \A j \in Instances, u \in Tellers : j # i \/ u # "reader" => teller'[<<j, u>>] = teller[<<j, u>>]
        /\ e.what # NoChange /\ e.from # i => teller'[<<i, "reader">>] = b
    <3>1. CASE e.what = NoChange \/ e.from = i
      BY <2>4, <3>1 DEF VirtualInv, VirtualType
    <3>2. CASE ~ (e.what = NoChange \/ e.from = i)
      BY <1>1, <2>4, <2>5, <2>6, <3>2, TellerSet
    <3> QED
      BY <3>1, <3>2
  <2>8. /\ cursor' \in [Hosts -> Nat] /\ cursor'[i] = n /\ n \in Nat /\ n <= Len(stream)
        /\ \A h \in Hosts \ {i} : cursor'[h] = cursor[h]
    BY <1>1, <2>1, <2>2
  <2>9. VirtualType'
    <3>1. \A h \in Hosts : cursor'[h] <= Len(stream)
      BY <1>1, <2>8
    <3> QED
      BY <1>2, <2>1, <2>7, <2>8, <3>1 DEF VirtualInv, VirtualType
  <2>10. \A h \in Hosts : \A u \in Tellers : teller[<<h, u>>].at # "idle" => teller'[<<h, u>>] = teller[<<h, u>>]
    BY <1>1, <1>3, <2>1, <2>7
  <2>11. ASSUME NEW h \in Hosts, NEW c \in Changes, Coming(h, c) PROVE Coming(h, c)'
    <3>1. CASE \E u \in Tellers : teller[<<h, u>>].at = "bump" /\ teller[<<h, u>>].what \in {c, Everything}
      BY <2>10, <3>1 DEF Coming
    <3>2. CASE ~ link[h]
      BY <2>1, <3>2 DEF Coming, Remote
    <3>3. CASE \E j \in Instances \ {h} : \/ teller[<<j, "request">>].at # "idle" /\ teller[<<j, "request">>].what = c
                                          \/ c \in unsent[j]
      <4>1. \A j \in Instances : teller'[<<j, "request">>] = teller[<<j, "request">>]
        BY <1>1, <2>7
      <4> QED
        BY <1>2, <3>3, <4>1 DEF Coming, Remote
    <3>4. CASE \E m \in 1 .. Len(stream) : m > cursor[h] /\ stream[m].from # h /\ stream[m].what = c
      <4>1. PICK m \in 1 .. Len(stream) : m > cursor[h] /\ stream[m].from # h /\ stream[m].what = c
        BY <3>4
      <4>2. CASE h = i /\ m = n
        <5>1. b.what = c /\ teller'[<<i, "reader">>] = b
          BY <2>3, <2>6, <2>7, <4>1, <4>2, ChangesDiffer
        <5> QED
          BY <1>1, <2>6, <4>2, <5>1 DEF Coming
      <4>3. CASE ~ (h = i /\ m = n)
        <5>1. m > cursor'[h]
          BY <1>1, <2>2, <2>8, <4>1, <4>3
        <5> QED
          BY <1>2, <4>1, <5>1 DEF Coming, Remote
      <4> QED
        BY <4>2, <4>3
    <3> QED
      BY <2>11, <3>1, <3>2, <3>3, <3>4 DEF Coming, Remote
  <2>12. ASSUME NEW h \in Hosts, NEW c \in Changes, Told(h, c) PROVE Told(h, c)'
    BY <2>10, <2>12 DEF Told
  <2> QED
    BY <1>2, <2>9, <2>11, <2>12, BridgeStep
<1>5. CASE ReadFails(i)
  <2>1. link' = [link EXCEPT ![i] = FALSE] /\ breaks' = breaks + 1 /\ teller' = teller /\ cursor' = cursor
    BY <1>5 DEF ReadFails, Break
  <2>2. VirtualType'
    BY <1>1, <1>2, <2>1 DEF VirtualInv, VirtualType
  <2>3. \A h \in Hosts : ~ link[h] => ~ link'[h]
    BY <1>1, <2>1
  <2>4. ASSUME NEW h \in Hosts, NEW c \in Changes
        PROVE  (Coming(h, c) => Coming(h, c)') /\ (Told(h, c) => Told(h, c)')
    BY <1>2, <2>1, <2>3 DEF Coming, Remote, Told
  <2> QED
    BY <1>2, <2>2, <2>4, BridgeStep
<1>6. CASE Reconnect(i)
  <2>1. link' = [link EXCEPT ![i] = TRUE] /\ breaks' = breaks /\ cursor' = cursor
    BY <1>6 DEF Reconnect
  <2>2. PICK b : b = [at |-> "bump", what |-> Everything]
    OBVIOUS
  <2>3. b \in Tells /\ b.at = "bump" /\ b.what = Everything
    BY <2>2 DEF Tells, Whats
  <2>4. teller' = [teller EXCEPT ![<<i, "reader">>] = b]
    BY <1>6, <2>2 DEF Reconnect
  <2>5. /\ teller' \in [Instances \X Tellers -> Tells] /\ teller'[<<i, "reader">>] = b
        /\ \A j \in Instances, u \in Tellers : j # i \/ u # "reader" => teller'[<<j, u>>] = teller[<<j, u>>]
    BY <1>1, <2>3, <2>4, TellerSet
  <2>6. VirtualType'
    BY <1>1, <1>2, <2>1, <2>5 DEF VirtualInv, VirtualType
  <2>7. \A c \in Changes : Coming(i, c)'
    BY <1>1, <2>3, <2>5 DEF Coming
  <2>8. ASSUME NEW h \in Hosts, NEW c \in Changes, h # i
        PROVE  (Coming(h, c) => Coming(h, c)') /\ (Told(h, c) => Told(h, c)')
    <3>1. /\ \A u \in Tellers : teller'[<<h, u>>] = teller[<<h, u>>]
          /\ \A j \in Instances : teller'[<<j, "request">>] = teller[<<j, "request">>]
          /\ link'[h] = link[h]
      BY <1>1, <2>1, <2>5, <2>8
    <3> QED
      BY <1>2, <2>1, <3>1 DEF Coming, Remote, Told
  <2> QED
    BY <1>2, <2>6, <2>7, <2>8, BridgeStep
<1> QED
  BY <1>4, <1>5, <1>6

\* A teller goes on: what it has not told in this instance, and what it has yet to
\* send, stays due.
LEMMA TellsOn ==
  ASSUME VirtualInv, NEW i \in Instances, NEW t \in Tellers, NEW l \in {"kick", "enqueue", "idle"},
         t = "request" => l # "idle", teller[<<i, t>>].at \in {"signal", "kick"},
         teller' = [teller EXCEPT ![<<i, t>>] = Moved(@, l)], UNCHANGED bridgeVars
  PROVE  /\ teller' \in [Instances \X Tellers -> Tells]
         /\ \A h \in Hosts, c \in Changes : Coming(h, c) => Coming(h, c)'
         /\ \A h \in Hosts, c \in Changes :
              Told(h, c) => Told(h, c)' \/ (h = i /\ teller[<<i, t>>].at = "signal" /\ teller[<<i, t>>].what \in {c, Everything})
<1>1. PICK e \in Tells : e = teller[<<i, t>>]
  BY TellerNow
<1>2. PICK b \in Tells : b = Moved(e, l)
  BY TellerNow DEF Moved, Tells
<1>3. b.at = l /\ (l # "idle" => b.what = e.what)
  BY <1>2, TellerNow DEF Moved, Tells
<1>4. teller' = [teller EXCEPT ![<<i, t>>] = b]
  BY <1>1, <1>2
<1>5. /\ teller' \in [Instances \X Tellers -> Tells] /\ teller'[<<i, t>>] = b
      /\ \A j \in Instances, u \in Tellers : j # i \/ u # t => teller'[<<j, u>>] = teller[<<j, u>>]
  BY <1>4, TellerSet
<1>6. \A h \in Hosts : h \in Instances
  BY VirtualAssumption
<1>7. ASSUME NEW j \in Instances
      PROVE  /\ teller[<<j, "request">>].at # "idle" => teller'[<<j, "request">>].at # "idle"
             /\ teller[<<j, "request">>].at # "idle" => teller'[<<j, "request">>].what = teller[<<j, "request">>].what
  <2>1. CASE j = i /\ t = "request"
    BY <1>1, <1>3, <1>5, <2>1
  <2>2. CASE ~ (j = i /\ t = "request")
    BY <1>5, <2>2 DEF Tellers
  <2> QED
    BY <2>1, <2>2
<1>8. \A h \in Hosts, c \in Changes : Remote(h, c) => Remote(h, c)'
  BY <1>7 DEF Remote, bridgeVars
<1>9. \A h \in Hosts, c \in Changes : Coming(h, c) => Coming(h, c)'
  BY <1>5, <1>6, <1>8 DEF Coming
<1>10. ASSUME NEW h \in Hosts, NEW c \in Changes, Told(h, c),
              ~ (h = i /\ teller[<<i, t>>].at = "signal" /\ teller[<<i, t>>].what \in {c, Everything})
       PROVE  Told(h, c)'
  BY <1>5, <1>6, <1>10 DEF Told
<1> QED
  BY <1>5, <1>9, <1>10

\* An adapter that is off needs no news.
LEMMA OffInformed ==
  ASSUME VirtualInv, NEW i \in Hosts, adapter'[i] = NewAdapter, db' = db, NEW g \in Nat, gen'[i] = g
  PROVE  Informed(i)'
<1>1. PICK a : a = NewAdapter
  OBVIOUS
<1>2. a.at = "off" /\ a.gen = 0 /\ a.scope = 1 /\ ~ a.doConfig /\ ~ a.doTasks
  BY <1>1 DEF NewAdapter
<1>3. db.bound \in Configs /\ adapter'[i] = a
  BY <1>1, AdapterNow
<1> QED
  BY <1>2, <1>3 DEF Informed, RowFine, ToolsFine, TasksFine, Configs, Observing

\* The listeners are told: an adapter that has subscribed has the flag.
LEMMA SignalStep == ASSUME VirtualInv, NEW i \in Instances, NEW t \in Tellers, Signal(i, t) PROVE VirtualInv'
<1>1. /\ teller[<<i, t>>].at = "signal" /\ UNCHANGED <<db, gen, bridgeVars, breaks, forgotten>>
      /\ adapter' = [h \in Hosts |-> IF h = i THEN Signalled(adapter[h], teller[<<i, t>>].what) ELSE adapter[h]]
      /\ teller' = [teller EXCEPT ![<<i, t>>] = Moved(@, AfterSignal(t, @.what))]
  BY DEF Signal
<1>2. PICK w \in Whats : w = teller[<<i, t>>].what
  BY TellerNow
<1>3. PICK l \in {"kick", "enqueue", "idle"} : l = AfterSignal(t, w) /\ (t = "request" => l # "idle")
  BY DEF AfterSignal
<1>4. teller' = [teller EXCEPT ![<<i, t>>] = Moved(@, l)]
  BY <1>1, <1>2, <1>3
<1>5. /\ teller' \in [Instances \X Tellers -> Tells]
      /\ \A h \in Hosts, c \in Changes : Coming(h, c) => Coming(h, c)'
      /\ \A h \in Hosts, c \in Changes : Told(h, c) => Told(h, c)' \/ (h = i /\ w \in {c, Everything})
  <2>1. teller[<<i, t>>].at \in {"signal", "kick"} /\ UNCHANGED bridgeVars /\ (t = "request" => l # "idle")
    BY <1>1, <1>3
  <2>2. /\ teller' \in [Instances \X Tellers -> Tells]
        /\ \A h \in Hosts, c \in Changes : Coming(h, c) => Coming(h, c)'
        /\ \A h \in Hosts, c \in Changes :
             Told(h, c) => Told(h, c)' \/ (h = i /\ teller[<<i, t>>].at = "signal" /\ teller[<<i, t>>].what \in {c, Everything})
    BY <1>4, <2>1, TellsOn
  <2> QED
    BY <1>2, <2>2
<1>6. ASSUME NEW h \in Hosts
      PROVE  /\ Signalled(adapter[h], w) \in Adapters
             /\ Signalled(adapter[h], w).at = adapter[h].at /\ Signalled(adapter[h], w).gen = adapter[h].gen
             /\ Signalled(adapter[h], w).scope = adapter[h].scope /\ Signalled(adapter[h], w).next = adapter[h].next
             /\ Signalled(adapter[h], w).knows = adapter[h].knows
             /\ Signalled(adapter[h], w).doTasks = adapter[h].doTasks
             /\ Signalled(adapter[h], w).doConfig = adapter[h].doConfig
             /\ adapter[h].tasks => Signalled(adapter[h], w).tasks
             /\ adapter[h].config => Signalled(adapter[h], w).config
             /\ Subscribed(adapter[h]) /\ w \in {TaskChange, Everything} => Signalled(adapter[h], w).tasks
             /\ Subscribed(adapter[h]) /\ w \in {Config(adapter[h].scope), Service, Everything} =>
                  Signalled(adapter[h], w).config
  <2>1. PICK a \in Adapters : a = adapter[h]
    BY AdapterNow
  <2>2. a.scope \in Configs
    BY DEF Adapters
  <2>3. CASE ~ Subscribed(a)
    BY <2>1, <2>3 DEF Signalled
  <2>4. CASE Subscribed(a) /\ w = TaskChange
    <3>1. Signalled(a, w) = [a EXCEPT !.tasks = TRUE]
      BY <2>4, ChangesDiffer DEF Signalled
    <3> QED
      BY <2>1, <2>2, <2>4, <3>1, ChangesDiffer DEF Adapters
  <2>5. CASE Subscribed(a) /\ w \in {Service, Everything}
    <3>1. Signalled(a, w) = [a EXCEPT !.tasks = TRUE, !.config = TRUE]
      BY <2>5, ChangesDiffer DEF Signalled
    <3> QED
      BY <2>1, <3>1 DEF Adapters
  <2>6. CASE Subscribed(a) /\ w \notin {TaskChange, Service, Everything}
    <3>1. Signalled(a, w) = IF w = Config(a.scope) THEN [a EXCEPT !.config = TRUE] ELSE a
      BY <2>6 DEF Signalled
    <3> QED
      BY <2>1, <2>6, <3>1 DEF Adapters
  <2> QED
    BY <2>3, <2>4, <2>5, <2>6
<1>7. adapter' \in [Hosts -> Adapters]
  <2>1. \A h \in Hosts : adapter[h] \in Adapters
    BY AdapterNow
  <2> QED
    BY <1>1, <1>2, <1>6, <2>1
<1>8. VirtualType'
  BY <1>1, <1>5, <1>7 DEF VirtualInv, VirtualType, bridgeVars
<1>9. ASSUME NEW h \in Hosts, h # i PROVE Informed(h)'
  <2>1. PICK g \in Nat : g = gen[h] /\ gen'[h] = g
    BY <1>1, AdapterNow
  <2>2. adapter'[h] = adapter[h] /\ db' = db /\ (forgotten => forgotten')
    BY <1>1, <1>9
  <2> QED
    BY <1>5, <1>9, <2>1, <2>2, RowKept
<1>10. ASSUME i \in Hosts PROVE Informed(i)'
  <2>1. PICK a \in Adapters : a = adapter[i]
    BY <1>10, AdapterNow
  <2>2. PICK x \in Adapters : x = Signalled(adapter[i], w) /\ adapter'[i] = x
    BY <1>1, <1>2, <1>6, <1>10
  <2>3. /\ x.at = a.at /\ x.gen = a.gen /\ x.scope = a.scope /\ x.next = a.next /\ x.knows = a.knows
        /\ x.doTasks = a.doTasks /\ x.doConfig = a.doConfig
        /\ a.tasks => x.tasks
        /\ a.config => x.config
        /\ Subscribed(a) /\ w \in {TaskChange, Everything} => x.tasks
        /\ Subscribed(a) /\ w \in {Config(a.scope), Service, Everything} => x.config
    BY <1>6, <1>10, <2>1, <2>2
  <2>4. RowFine(i, a) /\ (~ forgotten => ToolsFine(i, a) /\ TasksFine(i, a)) /\ db.bound \in Configs
    BY <1>10, <2>1, AdapterNow
  <2>5. db' = db /\ gen' = gen /\ forgotten' = forgotten
    BY <1>1
  <2>6. RowFine(i, adapter[i])'
    BY <2>2, <2>3, <2>4, <2>5 DEF RowFine
  <2>7. \A c \in Changes : Due(i, a, c) => Coming(i, c)' \/ (Subscribed(a) /\ (Told(i, c)' \/ w \in {c, Everything}))
    BY <1>5, <1>10 DEF Due
  <2>8. ASSUME ~ forgotten PROVE ToolsFine(i, adapter[i])'
    BY <2>2, <2>3, <2>4, <2>5, <2>7, <2>8 DEF ToolsFine, Due, ToolsNow, Subscribed
  <2>9. ASSUME ~ forgotten PROVE TasksFine(i, adapter[i])'
    BY <2>2, <2>3, <2>4, <2>5, <2>7, <2>9, ChangesDiffer DEF TasksFine, Due, Subscribed
  <2> QED
    BY <2>5, <2>6, <2>8, <2>9 DEF Informed
<1> QED
  BY <1>8, <1>9, <1>10 DEF VirtualInv

\* The adapters of the old binding are removed.
LEMMA Kicked == ASSUME VirtualInv, NEW i \in Instances, NEW t \in Tellers, Kick(i, t) PROVE VirtualInv'
<1>1. /\ teller[<<i, t>>].at = "kick" /\ UNCHANGED <<db, gen, bridgeVars, breaks, forgotten>>
      /\ adapter' = [h \in Hosts |-> IF h = i /\ adapter[h].at = "wait" THEN NewAdapter ELSE adapter[h]]
      /\ teller' = [teller EXCEPT ![<<i, t>>] = Moved(@, IF t = "request" THEN "enqueue" ELSE "idle")]
  BY DEF Kick
<1>2. PICK l \in {"kick", "enqueue", "idle"} : l = IF t = "request" THEN "enqueue" ELSE "idle"
  OBVIOUS
<1>3. /\ teller' \in [Instances \X Tellers -> Tells]
      /\ \A h \in Hosts, c \in Changes : Coming(h, c) => Coming(h, c)'
      /\ \A h \in Hosts, c \in Changes : Told(h, c) => Told(h, c)'
  <2>1. teller' = [teller EXCEPT ![<<i, t>>] = Moved(@, l)] /\ (t = "request" => l # "idle")
    BY <1>1, <1>2
  <2> QED
    BY <1>1, <2>1, TellsOn
<1>4. adapter' \in [Hosts -> Adapters] /\ \A h \in Hosts : adapter'[h] \in {NewAdapter, adapter[h]}
  <2>1. \A h \in Hosts : adapter[h] \in Adapters /\ NewAdapter \in Adapters
    BY AdapterNow
  <2> QED
    BY <1>1, <2>1
<1>5. VirtualType'
  BY <1>1, <1>3, <1>4 DEF VirtualInv, VirtualType, bridgeVars
<1>6. ASSUME NEW h \in Hosts PROVE Informed(h)'
  <2>1. PICK g \in Nat : g = gen[h] /\ gen'[h] = g
    BY <1>1, AdapterNow
  <2>2. db' = db /\ (forgotten => forgotten')
    BY <1>1
  <2>3. CASE adapter'[h] = NewAdapter
    BY <2>1, <2>2, <2>3, OffInformed
  <2>4. CASE adapter'[h] = adapter[h]
    BY <1>3, <2>1, <2>2, <2>4, RowKept
  <2> QED
    BY <1>4, <2>3, <2>4
<1> QED
  BY <1>5, <1>6 DEF VirtualInv

\* An instance starts again: its adapter is off, and what it had to send is lost
\* only if that is remembered.
LEMMA Restarted == ASSUME VirtualInv, NEW i \in Instances, InstanceRestarts(i) PROVE VirtualInv'
<1>1. /\ breaks' = breaks + 1 /\ gen' = [gen EXCEPT ![i] = 0]
      /\ adapter' = [h \in Hosts |-> IF h = i THEN NewAdapter ELSE adapter[h]]
      /\ teller' = [it \in Instances \X Tellers |-> IF it[1] = i THEN Still ELSE teller[it]]
      /\ unsent' = [unsent EXCEPT ![i] = {}] /\ cursor' = [h \in Hosts |-> IF h = i THEN Len(stream) ELSE cursor[h]]
      /\ link' = [h \in Hosts |-> h = i \/ link[h]] /\ db' = db /\ stream' = stream
      /\ forgotten' = (forgotten \/ unsent[i] # {} \/ teller[<<i, "request">>] # Still)
  BY DEF InstanceRestarts, Break
<1>2. /\ gen \in [Instances -> Nat] /\ unsent \in [Instances -> SUBSET Whats] /\ link \in [Hosts -> BOOLEAN]
      /\ cursor \in [Hosts -> Nat] /\ teller \in [Instances \X Tellers -> Tells] /\ stream \in Seq(Entries)
      /\ Len(stream) \in Nat /\ breaks \in Nat /\ \A h \in Hosts : cursor[h] <= Len(stream)
  BY DEF VirtualInv, VirtualType
<1>3. Still \in Tells /\ Still.at = "idle" /\ "request" \in Tellers
  BY TellerNow DEF Tellers, Tells, Still, Whats
<1>4. /\ teller' \in [Instances \X Tellers -> Tells]
      /\ \A j \in Instances, u \in Tellers : teller'[<<j, u>>] = IF j = i THEN Still ELSE teller[<<j, u>>]
  BY <1>1, <1>2, <1>3
<1>5. /\ adapter' \in [Hosts -> Adapters]
      /\ \A h \in Hosts : adapter'[h] = IF h = i THEN NewAdapter ELSE adapter[h]
  <2>1. \A h \in Hosts : adapter[h] \in Adapters /\ NewAdapter \in Adapters
    BY AdapterNow
  <2> QED
    BY <1>1, <2>1
<1>6. /\ gen' \in [Instances -> Nat] /\ unsent' \in [Instances -> SUBSET Whats] /\ breaks' \in Nat
      /\ \A j \in Instances \ {i} : gen'[j] = gen[j] /\ unsent'[j] = unsent[j]
  BY <1>1, <1>2
<1>7. /\ cursor' \in [Hosts -> Nat] /\ link' \in [Hosts -> BOOLEAN] /\ \A h \in Hosts : cursor'[h] <= Len(stream)
      /\ \A h \in Hosts \ {i} : cursor'[h] = cursor[h] /\ link'[h] = link[h]
  BY <1>1, <1>2
<1>8. forgotten' \in BOOLEAN /\ (forgotten => forgotten')
  BY <1>1
<1>9. VirtualType'
  BY <1>1, <1>2, <1>4, <1>5, <1>6, <1>7, <1>8 DEF VirtualInv, VirtualType
<1>10. ASSUME NEW h \in Hosts, h = i PROVE Informed(h)'
  <2>1. PICK g \in Nat : gen'[h] = g
    BY <1>6, <1>10, VirtualAssumption
  <2> QED
    BY <1>1, <1>5, <1>10, <2>1, OffInformed
<1>11. ASSUME NEW h \in Hosts, h # i PROVE Informed(h)'
  <2>1. PICK g \in Nat : g = gen[h] /\ gen'[h] = g /\ h \in Instances
    BY <1>6, <1>11, AdapterNow, VirtualAssumption
  <2>2. adapter'[h] = adapter[h] /\ db' = db
    BY <1>1, <1>5, <1>11
  <2>3. ASSUME ~ forgotten', NEW c \in Changes
        PROVE  (Coming(h, c) => Coming(h, c)') /\ (Told(h, c) => Told(h, c)')
    <3>1. unsent[i] = {} /\ teller[<<i, "request">>].at = "idle"
      BY <1>1, <1>3, <2>3
    <3>2. \A u \in Tellers : teller'[<<h, u>>] = teller[<<h, u>>]
      BY <1>4, <1>11, <2>1
    <3>3. Remote(h, c) => Remote(h, c)'
      <4>1. CASE \E j \in Instances \ {h} : \/ teller[<<j, "request">>].at # "idle" /\ teller[<<j, "request">>].what = c
                                            \/ c \in unsent[j]
        <5>1. PICK j \in Instances \ {h} : \/ teller[<<j, "request">>].at # "idle" /\ teller[<<j, "request">>].what = c
                                           \/ c \in unsent[j]
          BY <4>1
        <5>2. j # i
          BY <3>1, <5>1
        <5>3. teller'[<<j, "request">>] = teller[<<j, "request">>] /\ unsent'[j] = unsent[j]
          BY <1>3, <1>4, <1>6, <5>2
        <5> QED
          BY <5>1, <5>3 DEF Remote
      <4>2. CASE ~ (\E j \in Instances \ {h} : \/ teller[<<j, "request">>].at # "idle" /\ teller[<<j, "request">>].what = c
                                               \/ c \in unsent[j])
        BY <1>1, <1>7, <1>11, <4>2 DEF Remote
      <4> QED
        BY <4>1, <4>2
    <3> QED
      BY <3>2, <3>3 DEF Coming, Told
  <2> QED
    BY <1>8, <2>1, <2>2, <2>3, RowKept
<1> QED
  BY <1>9, <1>10, <1>11 DEF VirtualInv

\* A change that is committed is due to every adapter.
LEMMA Committed == ASSUME VirtualInv, NEW i \in Instances, Commit(i) PROVE VirtualInv'
<1>1. PICK c \in Changes :
        /\ c = Service => db.bound = 1
        /\ db' = CASE c = TaskChange -> [db EXCEPT !.tasks = @ + 1]
                   [] c = Service -> [db EXCEPT !.bound = 2]
                   [] OTHER -> [db EXCEPT !.tools[c[2]] = @ + 1]
        /\ teller' = [teller EXCEPT ![<<i, "request">>] = [at |-> "bump", what |-> c]]
  BY Zenon DEF Commit
<1>2. teller[<<i, "request">>] = Still /\ UNCHANGED <<gen, adapter, bridgeVars, breaks, forgotten>>
  BY Zenon DEF Commit
<1>3. PICK b \in Tells : b = [at |-> "bump", what |-> c] /\ b.at = "bump" /\ b.what = c
  <2>1. PICK b : b = [at |-> "bump", what |-> c]
    OBVIOUS
  <2>2. b.at = "bump" /\ b.what = c /\ b \in Tells
    BY <2>1 DEF Tells, Whats
  <2> QED
    BY <2>1, <2>2
<1>4. Still.at = "idle" /\ "request" \in Tellers
  BY DEF Still, Tellers
<1>5. /\ teller' \in [Instances \X Tellers -> Tells] /\ teller'[<<i, "request">>] = b
      /\ \A j \in Instances, u \in Tellers : j # i \/ u # "request" => teller'[<<j, u>>] = teller[<<j, u>>]
  BY <1>1, <1>3, <1>4, TellerSet
<1>6. db \in [tasks : Nat, bound : Configs, tools : [Configs -> Nat]]
  BY DEF VirtualInv, VirtualType
<1>7. /\ db' \in [tasks : Nat, bound : Configs, tools : [Configs -> Nat]]
      /\ c # TaskChange => db'.tasks = db.tasks
      /\ c # Service => db'.bound = db.bound
      /\ c = Service => db.bound = 1 /\ db'.bound = 2
      /\ \A d \in Configs : c # Config(d) => db'.tools[d] = db.tools[d]
  <2>1. CASE c = TaskChange
    <3>1. db' = [db EXCEPT !.tasks = db.tasks + 1]
      BY <1>1, <2>1, ChangesDiffer
    <3>2. db.tasks + 1 \in Nat
      BY <1>6
    <3> QED
      BY <1>6, <2>1, <3>1, <3>2, ChangesDiffer
  <2>2. CASE c = Service
    <3>1. db' = [db EXCEPT !.bound = 2] /\ db.bound = 1
      BY <1>1, <2>2, ChangesDiffer
    <3> QED
      BY <1>6, <2>2, <3>1, ChangesDiffer DEF Configs
  <2>3. CASE c \notin {TaskChange, Service}
    <3>1. PICK d \in Configs : c = Config(d) /\ c[2] = d
      BY <2>3 DEF Changes, Config
    <3>2. PICK n \in Nat : n = db.tools[d] + 1
      BY <1>6
    <3>3. PICK k \in [Configs -> Nat] : k = [db.tools EXCEPT ![d] = n]
      BY <1>6
    <3>4. db' = [db EXCEPT !.tools = k]
      BY <1>1, <2>3, <3>1, <3>2, <3>3
    <3>5. \A e \in Configs : e # d => k[e] = db.tools[e]
      BY <1>6, <3>3
    <3> QED
      BY <1>6, <2>3, <3>1, <3>4, <3>5
  <2> QED
    BY <2>1, <2>2, <2>3
<1>8. VirtualType'
  BY <1>2, <1>5, <1>7 DEF VirtualInv, VirtualType, bridgeVars
<1>9. \A h \in Hosts : Coming(h, c)'
  <2>1. \A h \in Hosts : h \in Instances
    BY VirtualAssumption
  <2> QED
    BY <1>3, <1>4, <1>5, <2>1 DEF Coming, Remote
<1>10. \A h \in Hosts, d \in Changes : (Coming(h, d) => Coming(h, d)') /\ (Told(h, d) => Told(h, d)')
  <2>1. \A j \in Instances, u \in Tellers : teller[<<j, u>>].at # "idle" => teller'[<<j, u>>] = teller[<<j, u>>]
    BY <1>2, <1>4, <1>5
  <2>2. \A h \in Hosts : h \in Instances
    BY VirtualAssumption
  <2> QED
    BY <1>2, <1>4, <2>1, <2>2 DEF Coming, Remote, Told, bridgeVars
<1>11. ASSUME NEW h \in Hosts PROVE Informed(h)'
  <2>1. PICK a \in Adapters : a = adapter[h]
    BY AdapterNow
  <2>2. /\ adapter'[h] = a /\ gen'[h] = gen[h] /\ forgotten' = forgotten /\ a.scope \in Configs
        /\ RowFine(h, a) /\ (~ forgotten => ToolsFine(h, a) /\ TasksFine(h, a))
    BY <1>2, <2>1, AdapterNow DEF Adapters
  <2>3. PICK o \in Configs, n \in Configs :
          /\ o = db.bound /\ n = db'.bound /\ (c # Service => n = o) /\ (c = Service => o = 1 /\ n = 2)
    BY <1>6, <1>7
  <2>4. RowFine(h, adapter[h])'
    BY <2>2, <2>3 DEF RowFine, Configs
  <2>5. ASSUME ~ forgotten PROVE ToolsFine(h, adapter[h])'
    <3>1. ToolsFine(h, a)
      BY <2>2, <2>5
    <3>2. CASE c = Service
      <4>1. a.scope # n
        BY <2>2, <2>3, <3>2 DEF RowFine, Configs
      <4> QED
        BY <1>9, <2>2, <2>3, <3>2, <4>1 DEF ToolsFine, Due
    <3>3. CASE c = Config(o) /\ a.scope = o
      BY <1>9, <2>2, <2>3, <3>3, ChangesDiffer DEF ToolsFine, Due
    <3>4. CASE c # Service /\ (c # Config(o) \/ a.scope # o)
      <4>1. n = o /\ (a.scope = o => ToolsNow' = ToolsNow)
        BY <1>7, <2>3, <3>4 DEF ToolsNow
      <4> QED
        BY <1>10, <2>2, <2>3, <3>1, <4>1 DEF ToolsFine, Due, Subscribed
    <3> QED
      BY <3>2, <3>3, <3>4
  <2>6. ASSUME ~ forgotten PROVE TasksFine(h, adapter[h])'
    <3>1. CASE c = TaskChange
      BY <1>9, <2>2, <3>1 DEF TasksFine, Due
    <3>2. CASE c # TaskChange
      BY <1>7, <1>10, <2>2, <2>6, <3>2, ChangesDiffer DEF TasksFine, Due, Subscribed
    <3> QED
      BY <3>1, <3>2
  <2> QED
    BY <2>2, <2>4, <2>5, <2>6 DEF Informed
<1> QED
  BY <1>8, <1>11 DEF VirtualInv

\* Everybody is off, and nothing has changed.
LEMMA VirtualStarts == VirtualInit => VirtualInv
<1> SUFFICES ASSUME VirtualInit PROVE VirtualInv
  OBVIOUS
<1>1. NewAdapter \in Adapters /\ NewAdapter.at = "off" /\ NewAdapter.gen = 0 /\ NewAdapter.scope = 1
      /\ ~ NewAdapter.doConfig /\ ~ NewAdapter.doTasks
  <2>1. 0 \in Nat /\ 1 \in Configs /\ <<1, 0>> \in Configs \X Nat
    BY DEF Configs
  <2>2. [tasks |-> 0, tools |-> <<1, 0>>] \in [tasks : Nat, tools : Configs \X Nat]
    BY <2>1
  <2>3. NewAdapter \in Adapters
    BY <2>1, <2>2 DEF NewAdapter, Adapters
  <2> QED
    BY <2>3 DEF NewAdapter
<1>2. VirtualType
  <2>1. 0 \in Nat /\ 1 \in Configs /\ Still \in Tells
    BY DEF Configs, Still, Tells, Whats
  <2>2. db \in [tasks : Nat, bound : Configs, tools : [Configs -> Nat]]
    BY <2>1 DEF VirtualInit
  <2>3. /\ gen \in [Instances -> Nat] /\ breaks \in Nat /\ forgotten \in BOOLEAN
        /\ adapter \in [Hosts -> Adapters] /\ teller \in [Instances \X Tellers -> Tells]
        /\ unsent \in [Instances -> SUBSET Whats] /\ cursor \in [Hosts -> Nat] /\ link \in [Hosts -> BOOLEAN]
    BY <1>1, <2>1 DEF VirtualInit
  <2>4. stream \in Seq(Entries) /\ \A i \in Hosts : cursor[i] <= Len(stream)
    BY DEF VirtualInit
  <2> QED
    BY <2>2, <2>3, <2>4 DEF VirtualType
<1>3. ASSUME NEW i \in Hosts PROVE Informed(i)
  <2>1. adapter[i] = NewAdapter /\ gen[i] = 0 /\ db.bound = 1
    BY VirtualAssumption DEF VirtualInit
  <2> QED
    BY <1>1, <2>1 DEF Informed, RowFine, ToolsFine, TasksFine, Observing
<1> QED
  BY <1>2, <1>3 DEF VirtualInv

\* Every step keeps it.
LEMMA VirtualKept == VirtualInv /\ [VirtualNext]_virtualVars => VirtualInv'
<1> SUFFICES ASSUME VirtualInv, [VirtualNext]_virtualVars PROVE VirtualInv'
  OBVIOUS
<1>1. CASE UNCHANGED virtualVars
  <2>1. UNCHANGED <<db, gen, adapter, teller, unsent, stream, cursor, link, breaks, forgotten>>
    BY <1>1 DEF virtualVars, bridgeVars
  <2>2. VirtualType'
    BY <2>1 DEF VirtualInv, VirtualType
  <2>3. \A h \in Hosts, c \in Changes : (Coming(h, c)' <=> Coming(h, c)) /\ (Told(h, c)' <=> Told(h, c))
    BY <2>1 DEF Coming, Remote, Told
  <2> QED
    BY <2>1, <2>2, <2>3, BridgeStep
<1>2. ASSUME NEW i \in Instances, Commit(i) \/ Enqueue(i) \/ Send(i) \/ InstanceRestarts(i) PROVE VirtualInv'
  BY <1>2, Committed, Enqueued, SendStep, Restarted
<1>3. ASSUME NEW i \in Instances, NEW t \in Tellers, Bump(i, t) \/ Signal(i, t) \/ Kick(i, t) PROVE VirtualInv'
  BY <1>3, Bumped, SignalStep, Kicked
<1>4. ASSUME NEW i \in Hosts,
             \/ Read(i) \/ ReadFails(i) \/ Reconnect(i)
             \/ Connect(i) \/ Resolve(i) \/ Stamp(i) \/ Subscribe(i) \/ Check(i)
             \/ Drain(i) \/ Bound(i) \/ Rebind(i) \/ RebindCheck(i) \/ ReadTasks(i) \/ ReadTools(i) \/ Detach(i)
      PROVE  VirtualInv'
  BY <1>4, ReaderStep, Connects, Observes
<1> QED
  BY <1>1, <1>2, <1>3, <1>4, Trimmed DEF VirtualNext

\* Whatever changes while adapters connect, rebind and read, over a stream that fails
\* and is trimmed: an adapter that waits without a signal, when nothing is under way,
\* knows the rows as they are, unless an instance stopped before it had sent what it
\* committed.  This for any number of instances, changes and failures.
THEOREM NothingMissed == VirtualSpec => []NoChangeMissed
<1>1. VirtualInv => NoChangeMissed
  <2> SUFFICES ASSUME VirtualInv, Calm, ~ forgotten, NEW i \in Hosts,
                      adapter[i].at = "wait", ~ adapter[i].tasks, ~ adapter[i].config
               PROVE  adapter[i].knows = [tasks |-> db.tasks, tools |-> ToolsNow]
    BY DEF NoChangeMissed
  <2>1. PICK a \in Adapters : a = adapter[i]
    BY AdapterNow
  <2>2. RowFine(i, a) /\ ToolsFine(i, a) /\ TasksFine(i, a)
    BY <2>1, AdapterNow
  <2>3. \A c \in Changes : ~ Due(i, a, c)
    <3>1. \A j \in Instances, u \in Tellers : teller[<<j, u>>].at = "idle"
      BY DEF Calm, Still
    <3>2. \A j \in Instances : unsent[j] = {}
      BY DEF Calm
    <3>3. link[i] /\ cursor[i] = Len(stream) /\ Len(stream) \in Nat /\ i \in Instances /\ "request" \in Tellers
      BY VirtualAssumption DEF Calm, VirtualInv, VirtualType, Tellers
    <3>4. \A u \in Tellers : teller[<<i, u>>].at = "idle"
      BY <3>1, <3>3
    <3>5. \A j \in Instances : teller[<<j, "request">>].at = "idle"
      BY <3>1, <3>3
    <3>6. \A n \in 1 .. Len(stream) : ~ (n > cursor[i])
      BY <3>3
    <3>7. \A c \in Changes : ~ Remote(i, c)
      BY <3>2, <3>3, <3>5, <3>6 DEF Remote
    <3> QED
      BY <3>4, <3>7 DEF Due, Coming, Told
  <2>4. a.knows.tools = ToolsNow
    BY <2>1, <2>2, <2>3 DEF RowFine, ToolsFine, Observing
  <2>5. a.knows.tasks = db.tasks
    BY <2>1, <2>2, <2>3, ChangesDiffer DEF RowFine, TasksFine, Observing
  <2>6. a.knows \in [tasks : Nat, tools : Configs \X Nat]
    BY DEF Adapters
  <2> QED
    BY <2>1, <2>4, <2>5, <2>6
<1> QED
  BY <1>1, VirtualStarts, VirtualKept, PTL DEF VirtualSpec

-----------------------------------------------------------------------------
(* Subscriptions: who holds the slots, the references and the work.          *)

One(b) == IF b THEN 1 ELSE 0

\* The goroutines the group of the shutdown waits for: the request that opens the
\* stream, the attachment, the supervisor, the monitor and the listener.
Opens(s) == at[s] \in {"slot", "attach", "waiting", "got", "ready"}
Attaches(s) == at[s] = "attach" \/ att[s] # "none"
Works(s) == One(Opens(s)) + One(Attaches(s)) + One(sup[s]) + One(mon[s]) + One(lis[s])

Attends(s) == att[s] # "none"
HoldsSlot(s) == at[s] = "attach" \/ (cleaning[s] # "done" /\ (att[s] # "none" \/ lease[s]))
Watches(s) == watch[s] \in {"on", "stopping"} \/ (watch[s] = "in" /\ att[s] = "confirm")

CountInv ==
  /\ slots = Cardinality({s \in Streams : HoldsSlot(s)})
  /\ refs = Cardinality({s \in Streams : Watches(s)})
  /\ attaching = Cardinality({s \in Streams : Attends(s)})
  /\ work = Cardinality({s \in Streams : Opens(s)}) + Cardinality({s \in Streams : Attaches(s)})
              + Cardinality({s \in Streams : sup[s]}) + Cardinality({s \in Streams : mon[s]})
              + Cardinality({s \in Streams : lis[s]})
  /\ closer = "done" => work = 0

\* Before it has taken a slot a stream has nothing.
Fresh(s) == at[s] \in {"none", "asked", "watch", "slot", "attach"} \/ (at[s] = "session" /\ inner[s])
FreshPhase(s) ==
  Fresh(s) => /\ att[s] = "none" /\ ~ lease[s] /\ cleaning[s] = "no" /\ watch[s] = "none"
              /\ ack[s] = "none" /\ ~ owned[s] /\ ~ sup[s] /\ ~ mon[s] /\ ~ lis[s] /\ inner[s]

\* The attachment, for a stream that waits for it or has given up.
AttachPhase(s) ==
  /\ att[s] # "none" => ~ owned[s] /\ at[s] \in {"waiting", "over", "session"}
  /\ at[s] = "waiting" /\ att[s] = "none" => cleaning[s] = "done"
  /\ att[s] \in {"acquire", "lock", "subscribe", "confirm", "plain", "ack", "fail", "send"} => cleaning[s] = "no"
  /\ att[s] \in {"lock", "subscribe", "confirm", "plain", "ack", "send"} => lease[s]
  /\ att[s] \in {"late", "sendFail"} => cleaning[s] # "no"
  /\ att[s] = "acquire" => ~ lease[s]
  /\ att[s] \in {"acquire", "lock"} => watch[s] = "none"
  /\ att[s] \in {"subscribe", "confirm"} <=> watch[s] = "in"
  /\ att[s] = "plain" => watch[s] \in {"none", "off"}
  /\ att[s] \in {"acquire", "lock", "subscribe", "confirm", "plain"} => ack[s] = "none"

\* Whose the source is: nobody forgets it.
OwnerPhase(s) ==
  /\ watch[s] \notin {"none", "off"} => lease[s]
  /\ cleaning[s] = "done" => ~ lease[s]
  /\ cleaning[s] = "begun" => lease[s] \/ att[s] \in {"late", "sendFail"}
  /\ lease[s] /\ att[s] = "none" => at[s] = "got" \/ owned[s] \/ cleaning[s] # "no"
  /\ owned[s] => at[s] \in {"ready", "opening", "open", "over", "session"} /\ (lease[s] \/ cleaning[s] # "no")
  /\ owned[s] /\ at[s] # "ready" => sup[s] \/ cleaning[s] # "no"
  /\ at[s] = "got" => lease[s] /\ cleaning[s] = "no"
  /\ sup[s] => at[s] \in {"opening", "open", "over", "session"}
  /\ mon[s] => at[s] \in {"open", "over"} /\ s \notin Legacy

\* What a stream has acknowledged it watches, as long as nothing has ended it.
WatchPhase(s) ==
  /\ att[s] \in {"fail", "sendFail"} /\ ack[s] = "both" => SetupDone(s)
  /\ att[s] = "ack" /\ ~ SetupDone(s) /\ up => watch[s] \in {"on", "plain"}
  /\ /\ at[s] \in {"got", "ready", "opening", "open"} \/ att[s] = "send"
     /\ ack[s] = "both" /\ Going(s) /\ up /\ cleaning[s] = "no"
     => watch[s] = "on"

\* What NoUpdateLost says of one stream.
Aware(s) ==
  /\ ~ Closed /\ at[s] = "open" /\ ack[s] = "both" /\ Going(s) /\ up /\ cleaning[s] = "no"
  /\ ~ wire /\ ~ queue[s] /\ ~ lis[s] /\ unread[s] = 0
  => known[s] = version

StreamInv(s) == FreshPhase(s) /\ AttachPhase(s) /\ OwnerPhase(s) /\ WatchPhase(s) /\ Aware(s)

\* The lock of the watch operations and the subscription of the upstream.
LockInv ==
  /\ \A s \in Streams : opMu = s <=> att[s] \in {"subscribe", "confirm"}
  /\ \A s \in Streams : att[s] = "subscribe" => refs = 0
  /\ up /\ refs > 0 => subscribed

SubInv == SubscriptionsTypeOK /\ CountInv /\ (\A s \in Streams : StreamInv(s)) /\ LockInv

\* One stream joins or leaves the streams that hold something.
LEMMA OneMoves ==
  ASSUME NEW s \in Streams, NEW P \in SUBSET Streams, NEW Q \in SUBSET Streams,
         \A t \in Streams \ {s} : t \in P <=> t \in Q
  PROVE  /\ Cardinality(P) \in Nat /\ Cardinality(Q) \in 0 .. Cardinality(Streams)
         /\ Cardinality(Q) = Cardinality(P) + One(s \in Q) - One(s \in P)
<1>1. IsFiniteSet(P) /\ IsFiniteSet(Q) /\ Cardinality(P) \in Nat /\ Cardinality(Q) \in 0 .. Cardinality(Streams)
  BY SubscriptionsAssumption, FS_Subset, FS_CardinalityType
<1>2. CASE s \in P <=> s \in Q
  <2>1. P = Q
    BY <1>2
  <2> QED
    BY <1>1, <1>2, <2>1 DEF One
<1>3. CASE s \in P /\ s \notin Q
  <2>1. P = Q \cup {s}
    BY <1>3
  <2> QED
    BY <1>1, <1>3, <2>1, FS_AddElement DEF One
<1>4. CASE s \notin P /\ s \in Q
  <2>1. Q = P \cup {s}
    BY <1>4
  <2> QED
    BY <1>1, <1>4, <2>1, FS_AddElement DEF One
<1> QED
  BY <1>2, <1>3, <1>4

\* The row of a stream is left alone.
Same(t) ==
  /\ at'[t] = at[t] /\ outer'[t] = outer[t] /\ inner'[t] = inner[t] /\ timeout'[t] = timeout[t]
  /\ owned'[t] = owned[t] /\ att'[t] = att[t] /\ lease'[t] = lease[t] /\ cleaning'[t] = cleaning[t]
  /\ ack'[t] = ack[t] /\ watch'[t] = watch[t] /\ sup'[t] = sup[t] /\ mon'[t] = mon[t]
  /\ queue'[t] = queue[t] /\ lis'[t] = lis[t] /\ unread'[t] = unread[t] /\ known'[t] = known[t]

\* A step of one stream moves the counters by what the stream takes or gives back.
LEMMA CountStep ==
  ASSUME SubInv, NEW s \in Streams, \A t \in Streams \ {s} : Same(t),
         slots' = slots + One(HoldsSlot(s)') - One(HoldsSlot(s)),
         refs' = refs + One(Watches(s)') - One(Watches(s)),
         attaching' = attaching + One(Attends(s)') - One(Attends(s)),
         work' = work + Works(s)' - Works(s),
         closer' = "done" => work' = 0
  PROVE  /\ CountInv' /\ slots' \in Nat /\ attaching' \in Nat /\ work' \in Nat
         /\ refs' \in 0 .. Cardinality(Streams)
<1>1. \A t \in Streams \ {s} :
        /\ HoldsSlot(t)' <=> HoldsSlot(t)
        /\ Watches(t)' <=> Watches(t)
        /\ Attends(t)' <=> Attends(t)
        /\ Opens(t)' <=> Opens(t)
        /\ Attaches(t)' <=> Attaches(t)
        /\ sup'[t] = sup[t] /\ mon'[t] = mon[t] /\ lis'[t] = lis[t]
  BY DEF Same, HoldsSlot, Watches, Attends, Opens, Attaches
<1>2. LET X == {t \in Streams : HoldsSlot(t)}
      IN  /\ Cardinality(X) \in Nat /\ Cardinality(X') \in 0 .. Cardinality(Streams)
          /\ Cardinality(X') = Cardinality(X) + One(HoldsSlot(s)') - One(HoldsSlot(s))
  <2>1. PICK P \in SUBSET Streams : P = {t \in Streams : HoldsSlot(t)}
    OBVIOUS
  <2>2. PICK Q \in SUBSET Streams : Q = {t \in Streams : HoldsSlot(t)}'
    OBVIOUS
  <2>3. /\ Cardinality(P) \in Nat /\ Cardinality(Q) \in 0 .. Cardinality(Streams)
        /\ Cardinality(Q) = Cardinality(P) + One(s \in Q) - One(s \in P)
    BY <1>1, <2>1, <2>2, OneMoves
  <2>4. (s \in P <=> HoldsSlot(s)) /\ (s \in Q <=> (HoldsSlot(s))')
    BY <2>1, <2>2
  <2> QED
    BY <2>1, <2>2, <2>3, <2>4 DEF One
<1>3. LET X == {t \in Streams : Watches(t)}
      IN  /\ Cardinality(X) \in Nat /\ Cardinality(X') \in 0 .. Cardinality(Streams)
          /\ Cardinality(X') = Cardinality(X) + One(Watches(s)') - One(Watches(s))
  <2>1. PICK P \in SUBSET Streams : P = {t \in Streams : Watches(t)}
    OBVIOUS
  <2>2. PICK Q \in SUBSET Streams : Q = {t \in Streams : Watches(t)}'
    OBVIOUS
  <2>3. /\ Cardinality(P) \in Nat /\ Cardinality(Q) \in 0 .. Cardinality(Streams)
        /\ Cardinality(Q) = Cardinality(P) + One(s \in Q) - One(s \in P)
    BY <1>1, <2>1, <2>2, OneMoves
  <2>4. (s \in P <=> Watches(s)) /\ (s \in Q <=> (Watches(s))')
    BY <2>1, <2>2
  <2> QED
    BY <2>1, <2>2, <2>3, <2>4 DEF One
<1>4. LET X == {t \in Streams : Attends(t)}
      IN  /\ Cardinality(X) \in Nat /\ Cardinality(X') \in 0 .. Cardinality(Streams)
          /\ Cardinality(X') = Cardinality(X) + One(Attends(s)') - One(Attends(s))
  <2>1. PICK P \in SUBSET Streams : P = {t \in Streams : Attends(t)}
    OBVIOUS
  <2>2. PICK Q \in SUBSET Streams : Q = {t \in Streams : Attends(t)}'
    OBVIOUS
  <2>3. /\ Cardinality(P) \in Nat /\ Cardinality(Q) \in 0 .. Cardinality(Streams)
        /\ Cardinality(Q) = Cardinality(P) + One(s \in Q) - One(s \in P)
    BY <1>1, <2>1, <2>2, OneMoves
  <2>4. (s \in P <=> Attends(s)) /\ (s \in Q <=> (Attends(s))')
    BY <2>1, <2>2
  <2> QED
    BY <2>1, <2>2, <2>3, <2>4 DEF One
<1>5. LET X == {t \in Streams : Opens(t)}
      IN  /\ Cardinality(X) \in Nat /\ Cardinality(X') \in 0 .. Cardinality(Streams)
          /\ Cardinality(X') = Cardinality(X) + One(Opens(s)') - One(Opens(s))
  <2>1. PICK P \in SUBSET Streams : P = {t \in Streams : Opens(t)}
    OBVIOUS
  <2>2. PICK Q \in SUBSET Streams : Q = {t \in Streams : Opens(t)}'
    OBVIOUS
  <2>3. /\ Cardinality(P) \in Nat /\ Cardinality(Q) \in 0 .. Cardinality(Streams)
        /\ Cardinality(Q) = Cardinality(P) + One(s \in Q) - One(s \in P)
    BY <1>1, <2>1, <2>2, OneMoves
  <2>4. (s \in P <=> Opens(s)) /\ (s \in Q <=> (Opens(s))')
    BY <2>1, <2>2
  <2> QED
    BY <2>1, <2>2, <2>3, <2>4 DEF One
<1>6. LET X == {t \in Streams : Attaches(t)}
      IN  /\ Cardinality(X) \in Nat /\ Cardinality(X') \in 0 .. Cardinality(Streams)
          /\ Cardinality(X') = Cardinality(X) + One(Attaches(s)') - One(Attaches(s))
  <2>1. PICK P \in SUBSET Streams : P = {t \in Streams : Attaches(t)}
    OBVIOUS
  <2>2. PICK Q \in SUBSET Streams : Q = {t \in Streams : Attaches(t)}'
    OBVIOUS
  <2>3. /\ Cardinality(P) \in Nat /\ Cardinality(Q) \in 0 .. Cardinality(Streams)
        /\ Cardinality(Q) = Cardinality(P) + One(s \in Q) - One(s \in P)
    BY <1>1, <2>1, <2>2, OneMoves
  <2>4. (s \in P <=> Attaches(s)) /\ (s \in Q <=> (Attaches(s))')
    BY <2>1, <2>2
  <2> QED
    BY <2>1, <2>2, <2>3, <2>4 DEF One
<1>7. LET X == {t \in Streams : sup[t]}
      IN  /\ Cardinality(X) \in Nat /\ Cardinality(X') \in 0 .. Cardinality(Streams)
          /\ Cardinality(X') = Cardinality(X) + One((sup[s])') - One(sup[s])
  <2>1. PICK P \in SUBSET Streams : P = {t \in Streams : sup[t]}
    OBVIOUS
  <2>2. PICK Q \in SUBSET Streams : Q = {t \in Streams : sup[t]}'
    OBVIOUS
  <2>3. /\ Cardinality(P) \in Nat /\ Cardinality(Q) \in 0 .. Cardinality(Streams)
        /\ Cardinality(Q) = Cardinality(P) + One(s \in Q) - One(s \in P)
    BY <1>1, <2>1, <2>2, OneMoves
  <2>4. (s \in P <=> sup[s]) /\ (s \in Q <=> (sup[s])')
    BY <2>1, <2>2
  <2> QED
    BY <2>1, <2>2, <2>3, <2>4 DEF One
<1>8. LET X == {t \in Streams : mon[t]}
      IN  /\ Cardinality(X) \in Nat /\ Cardinality(X') \in 0 .. Cardinality(Streams)
          /\ Cardinality(X') = Cardinality(X) + One((mon[s])') - One(mon[s])
  <2>1. PICK P \in SUBSET Streams : P = {t \in Streams : mon[t]}
    OBVIOUS
  <2>2. PICK Q \in SUBSET Streams : Q = {t \in Streams : mon[t]}'
    OBVIOUS
  <2>3. /\ Cardinality(P) \in Nat /\ Cardinality(Q) \in 0 .. Cardinality(Streams)
        /\ Cardinality(Q) = Cardinality(P) + One(s \in Q) - One(s \in P)
    BY <1>1, <2>1, <2>2, OneMoves
  <2>4. (s \in P <=> mon[s]) /\ (s \in Q <=> (mon[s])')
    BY <2>1, <2>2
  <2> QED
    BY <2>1, <2>2, <2>3, <2>4 DEF One
<1>9. LET X == {t \in Streams : lis[t]}
      IN  /\ Cardinality(X) \in Nat /\ Cardinality(X') \in 0 .. Cardinality(Streams)
          /\ Cardinality(X') = Cardinality(X) + One((lis[s])') - One(lis[s])
  <2>1. PICK P \in SUBSET Streams : P = {t \in Streams : lis[t]}
    OBVIOUS
  <2>2. PICK Q \in SUBSET Streams : Q = {t \in Streams : lis[t]}'
    OBVIOUS
  <2>3. /\ Cardinality(P) \in Nat /\ Cardinality(Q) \in 0 .. Cardinality(Streams)
        /\ Cardinality(Q) = Cardinality(P) + One(s \in Q) - One(s \in P)
    BY <1>1, <2>1, <2>2, OneMoves
  <2>4. (s \in P <=> lis[s]) /\ (s \in Q <=> (lis[s])')
    BY <2>1, <2>2
  <2> QED
    BY <2>1, <2>2, <2>3, <2>4 DEF One
<1>10. slots \in Nat /\ refs \in Nat /\ attaching \in Nat /\ work \in Nat
  BY SubscriptionsAssumption DEF SubInv, SubscriptionsTypeOK
<1>11. slots' = Cardinality({t \in Streams : HoldsSlot(t)})'
  BY <1>2 DEF SubInv, CountInv
<1>12. refs' = Cardinality({t \in Streams : Watches(t)})'
  BY <1>3 DEF SubInv, CountInv
<1>13. attaching' = Cardinality({t \in Streams : Attends(t)})'
  BY <1>4 DEF SubInv, CountInv
<1>14. work' = Cardinality({t \in Streams : Opens(t)})' + Cardinality({t \in Streams : Attaches(t)})'
              + Cardinality({t \in Streams : sup[t]})' + Cardinality({t \in Streams : mon[t]})'
              + Cardinality({t \in Streams : lis[t]})'
  <2>1. PICK a, b, c, d, e \in Nat :
          /\ a = Cardinality({t \in Streams : Opens(t)}) /\ b = Cardinality({t \in Streams : Attaches(t)})
          /\ c = Cardinality({t \in Streams : sup[t]}) /\ d = Cardinality({t \in Streams : mon[t]})
          /\ e = Cardinality({t \in Streams : lis[t]})
    BY <1>5, <1>6, <1>7, <1>8, <1>9
  <2>2. PICK v, w, x, y, z \in {-1, 0, 1} :
          /\ v = One(Opens(s)') - One(Opens(s)) /\ w = One(Attaches(s)') - One(Attaches(s))
          /\ x = One((sup[s])') - One(sup[s]) /\ y = One((mon[s])') - One(mon[s])
          /\ z = One((lis[s])') - One(lis[s])
    BY DEF One
  <2>3. work = a + b + c + d + e
    BY <2>1 DEF SubInv, CountInv
  <2>4. Works(s)' - Works(s) = v + w + x + y + z
    BY <2>2 DEF Works, One
  <2>5. work' = a + b + c + d + e + v + w + x + y + z
    BY <2>3, <2>4, <1>10
  <2>6. /\ Cardinality({t \in Streams : Opens(t)})' = a + v
        /\ Cardinality({t \in Streams : Attaches(t)})' = b + w
        /\ Cardinality({t \in Streams : sup[t]})' = c + x
        /\ Cardinality({t \in Streams : mon[t]})' = d + y
        /\ Cardinality({t \in Streams : lis[t]})' = e + z
    BY <2>1, <2>2, <1>5, <1>6, <1>7, <1>8, <1>9
  <2> QED
    BY <2>5, <2>6
<1>15. Cardinality(Streams) \in Nat
  BY SubscriptionsAssumption, FS_CardinalityType
<1> QED
  BY <1>2, <1>3, <1>4, <1>5, <1>6, <1>7, <1>8, <1>9, <1>11, <1>12, <1>13, <1>14, <1>15 DEF CountInv

\* The types but for the counters, whose values follow from who holds what.
OpenTypes ==
  /\ at \in [Streams -> {"none", "session", "asked", "watch", "slot", "attach", "waiting", "got",
                         "ready", "opening", "open", "over"}]
  /\ outer \in [Streams -> BOOLEAN] /\ inner \in [Streams -> BOOLEAN]
  /\ timeout \in [Streams -> BOOLEAN] /\ owned \in [Streams -> BOOLEAN] /\ gone \in [Streams -> BOOLEAN]
AttachTypes ==
  /\ att \in [Streams -> {"none", "acquire", "lock", "subscribe", "confirm", "plain", "ack",
                          "send", "fail", "sendFail", "late"}]
  /\ lease \in [Streams -> BOOLEAN] /\ ack \in [Streams -> {"none", "list", "both"}]
  /\ watch \in [Streams -> {"none", "in", "on", "plain", "stopping", "off"}]
  /\ cleaning \in [Streams -> {"no", "begun", "done"}]
HearTypes ==
  /\ sup \in [Streams -> BOOLEAN] /\ mon \in [Streams -> BOOLEAN]
  /\ queue \in [Streams -> BOOLEAN] /\ lis \in [Streams -> BOOLEAN]
  /\ unread \in [Streams -> 0 .. Buffer]
  /\ known \in [Streams -> 0 .. MaxUpdates]
RestTypes ==
  /\ closer \in {"no", "sessions", "wait", "done"} /\ taken \subseteq Legacy
  /\ up \in BOOLEAN /\ version \in 0 .. MaxUpdates /\ wire \in BOOLEAN
  /\ subscribed \in BOOLEAN /\ opMu \in Streams \cup {NoStream}
  /\ troubles \in 0 .. MaxTroubles
RowsOK == OpenTypes /\ AttachTypes /\ HearTypes /\ RestTypes

\* The types of the rows.
LEMMA RowTypes == ASSUME SubInv PROVE RowsOK
BY DEF SubInv, SubscriptionsTypeOK, RowsOK, OpenTypes, AttachTypes, HearTypes, RestTypes

\* What a step of one stream must show: of this stream, of the counters, of the lock.
LEMMA StreamStep ==
  ASSUME SubInv, NEW s \in Streams, \A t \in Streams \ {s} : Same(t),
         RowsOK', slots' <= SourceSlots, attaching' <= AttachSlots,
         UNCHANGED <<up, version, wire, closer>>, closer = "done" => work' = work,
         slots' = slots + One(HoldsSlot(s)') - One(HoldsSlot(s)),
         refs' = refs + One(Watches(s)') - One(Watches(s)),
         attaching' = attaching + One(Attends(s)') - One(Attends(s)),
         work' = work + Works(s)' - Works(s),
         StreamInv(s)', LockInv'
  PROVE  SubInv'
<1>1. CountInv' /\ slots' \in Nat /\ attaching' \in Nat /\ work' \in Nat /\ refs' \in 0 .. Cardinality(Streams)
  <2>1. closer' = "done" => work' = 0
    BY DEF SubInv, CountInv
  <2> QED
    BY <2>1, CountStep
<1>2. SubscriptionsTypeOK'
  <2>1. SourceSlots \in Nat /\ AttachSlots \in Nat
    BY SubscriptionsAssumption
  <2>2. slots' \in 0 .. SourceSlots /\ attaching' \in 0 .. AttachSlots
    BY <1>1, <2>1
  <2> QED
    BY <1>1, <2>2 DEF RowsOK, OpenTypes, AttachTypes, HearTypes, RestTypes, SubscriptionsTypeOK
<1>3. ASSUME NEW t \in Streams PROVE StreamInv(t)'
  <2>1. CASE t = s
    BY <2>1
  <2>2. CASE t # s
    <3>1. StreamInv(t) /\ Same(t)
      BY <2>2 DEF SubInv
    <3>2. FreshPhase(t)' /\ AttachPhase(t)' /\ OwnerPhase(t)'
      BY <3>1 DEF Same, StreamInv, FreshPhase, Fresh, AttachPhase, OwnerPhase
    <3>3. (Going(t)' <=> Going(t)) /\ (SetupDone(t)' <=> SetupDone(t)) /\ (Closed' <=> Closed)
      BY <3>1 DEF Same, Going, SetupDone, Closed
    <3>4. WatchPhase(t)' /\ Aware(t)'
      BY <3>1, <3>3 DEF Same, StreamInv, WatchPhase, Aware
    <3> QED
      BY <3>2, <3>4 DEF StreamInv
  <2> QED
    BY <2>1, <2>2
<1> QED
  BY <1>1, <1>2, <1>3 DEF SubInv

\* The lock stays with the stream that has it.
LEMMA LockStays ==
  ASSUME SubInv, NEW s \in Streams, \A t \in Streams \ {s} : Same(t),
         UNCHANGED <<up, subscribed, refs, opMu>>,
         att'[s] \in {"subscribe", "confirm"} <=> att[s] \in {"subscribe", "confirm"},
         att'[s] = "subscribe" => att[s] = "subscribe"
  PROVE  LockInv'
BY DEF SubInv, LockInv, Same

\* When Close has returned no stream holds work.
LEMMA NothingWorks ==
  ASSUME SubInv, closer = "done", NEW s \in Streams
  PROVE  ~ Opens(s) /\ ~ Attaches(s) /\ ~ sup[s] /\ ~ mon[s] /\ ~ lis[s]
<1>1. PICK D, E, F, G, H \in SUBSET Streams :
        /\ D = {t \in Streams : Opens(t)} /\ E = {t \in Streams : Attaches(t)}
        /\ F = {t \in Streams : sup[t]} /\ G = {t \in Streams : mon[t]} /\ H = {t \in Streams : lis[t]}
  OBVIOUS
<1>2. Cardinality(D) + Cardinality(E) + Cardinality(F) + Cardinality(G) + Cardinality(H) = 0
  BY <1>1 DEF SubInv, CountInv
<1>3. ASSUME NEW P \in SUBSET Streams
      PROVE  Cardinality(P) \in Nat /\ (Cardinality(P) = 0 => P = {})
  BY SubscriptionsAssumption, FS_Subset, FS_CardinalityType, FS_EmptySet
<1>4. D = {} /\ E = {} /\ F = {} /\ G = {} /\ H = {}
  <2>1. PICK a, b, c, d, e \in Nat : /\ a = Cardinality(D) /\ b = Cardinality(E) /\ c = Cardinality(F)
                                     /\ d = Cardinality(G) /\ e = Cardinality(H)
    BY <1>3
  <2>2. a + b + c + d + e = 0
    BY <1>2, <2>1
  <2>3. a = 0 /\ b = 0 /\ c = 0 /\ d = 0 /\ e = 0
    BY <2>2
  <2> QED
    BY <1>3, <2>1, <2>3
<1> QED
  BY <1>1, <1>4

\* The bounds are numbers.
LEMMA Bounds ==
  SourceSlots \in Nat /\ AttachSlots \in Nat /\ Buffer \in Nat /\ MaxUpdates \in Nat /\ MaxTroubles \in Nat
BY SubscriptionsAssumption

(* The steps of one stream, by what they are for. *)
BeginStep(s) == Register(s) \/ LegacyAsk(s) \/ LegacyLock(s) \/ StartWatch(s) \/ TakeSlot(s)
WaitStep(s) == TakeAttachSlot(s) \/ NoAttachSlot(s) \/ SetupTimeout(s) \/ StopWaiting(s)
               \/ TakeSource(s) \/ Supervise(s) \/ OpenStream(s)
EndStep(s) == ContextEnds(s) \/ StopStream(s) \/ MonitorEnds(s) \/ SupervisorEnds(s)
              \/ SupervisorFails(s) \/ LegacyUnsubscribe(s) \/ LegacyClose(s) \/ CancelSession(s)
AttachStep(s) == Acquire(s) \/ WatchPlain(s) \/ Acknowledge(s) \/ Fail(s) \/ SendSource(s)
                 \/ SendFailure(s) \/ Late(s) \/ LateEnds(s)
LockStep(s) == WatchBegins(s) \/ UpstreamAccepts(s) \/ UpstreamFails(s) \/ WatchStands(s)
               \/ WatchRolledBack(s) \/ WatchReleases(s)
HearStep(s) == WatchStops(s) \/ CleanUp(s) \/ Hear(s) \/ Listen(s) \/ Deliver(s)

\* A stream begins, finds its session, takes a slot, or is refused.
LEMMA BeginSteps == ASSUME SubInv, NEW s \in Streams, BeginStep(s) PROVE SubInv'
<1> USE DEF At, Closed, attachVars, taskVars, hearVars, slotVars, upVars, watchVars, closeVars, NoTrouble, Refuse,
   Trouble, Skipped, SetupDone, Going, Stopped, Cleaned
<1>1. OpenTypes /\ AttachTypes /\ HearTypes /\ RestTypes /\ StreamInv(s)
  BY RowTypes DEF SubInv, RowsOK
<1>2. slots \in 0 .. SourceSlots /\ attaching \in 0 .. AttachSlots /\ work \in Nat /\ refs \in Nat
  BY DEF SubInv, SubscriptionsTypeOK
<1>3. OpenTypes'
  BY <1>1 DEF BeginStep, Register, LegacyAsk, LegacyLock, StartWatch, TakeSlot, OpenTypes
<1>4. AttachTypes'
  BY <1>1 DEF BeginStep, Register, LegacyAsk, LegacyLock, StartWatch, TakeSlot, AttachTypes
<1>5. HearTypes'
  BY <1>1, Bounds DEF BeginStep, Register, LegacyAsk, LegacyLock, StartWatch, TakeSlot, HearTypes, RestTypes
<1>6. RestTypes'
  BY <1>1, Bounds DEF BeginStep, Register, LegacyAsk, LegacyLock, StartWatch, TakeSlot, RestTypes
<1>7. \A t \in Streams \ {s} : Same(t)
  BY <1>1 DEF BeginStep, Register, LegacyAsk, LegacyLock, StartWatch, TakeSlot, OpenTypes, AttachTypes, HearTypes,
     Same
<1>8. UNCHANGED <<up, version, wire, closer>> /\ (closer = "done" => work' = work)
  BY NothingWorks DEF BeginStep, Register, LegacyAsk, LegacyLock, StartWatch, TakeSlot, Opens, Attaches
<1>9. /\ slots' = slots + One(HoldsSlot(s)') - One(HoldsSlot(s)) /\ slots' <= SourceSlots
      /\ refs' = refs + One(Watches(s)') - One(Watches(s))
      /\ attaching' = attaching + One(Attends(s)') - One(Attends(s)) /\ attaching' <= AttachSlots
  <2>1. CASE Register(s)
    BY <1>1, <1>2, Bounds, <2>1 DEF Register, OpenTypes, AttachTypes, HearTypes, StreamInv, FreshPhase, Fresh,
       AttachPhase, OwnerPhase, One, HoldsSlot, Watches, Attends
  <2>2. CASE LegacyAsk(s)
    BY <1>1, <1>2, Bounds, <2>2 DEF LegacyAsk, OpenTypes, AttachTypes, HearTypes, StreamInv, FreshPhase, Fresh,
       AttachPhase, OwnerPhase, One, HoldsSlot, Watches, Attends
  <2>3. CASE LegacyLock(s)
    BY <1>1, <1>2, Bounds, <2>3 DEF LegacyLock, OpenTypes, AttachTypes, HearTypes, StreamInv, FreshPhase, Fresh,
       AttachPhase, OwnerPhase, One, HoldsSlot, Watches, Attends
  <2>4. CASE StartWatch(s)
    BY <1>1, <1>2, Bounds, <2>4 DEF StartWatch, OpenTypes, AttachTypes, HearTypes, StreamInv, FreshPhase, Fresh,
       AttachPhase, OwnerPhase, One, HoldsSlot, Watches, Attends
  <2>5. CASE TakeSlot(s)
    BY <1>1, <1>2, Bounds, <2>5 DEF TakeSlot, OpenTypes, AttachTypes, HearTypes, StreamInv, FreshPhase, Fresh,
       AttachPhase, OwnerPhase, One, HoldsSlot, Watches, Attends
  <2> QED
    BY <2>1, <2>2, <2>3, <2>4, <2>5 DEF BeginStep
<1>10. work' = work + Works(s)' - Works(s)
  <2>1. CASE Register(s)
    BY <1>1, <1>2, <2>1 DEF Register, OpenTypes, AttachTypes, HearTypes, StreamInv, FreshPhase, Fresh, AttachPhase,
       OwnerPhase, One, Works, Opens, Attaches
  <2>2. CASE LegacyAsk(s)
    BY <1>1, <1>2, <2>2 DEF LegacyAsk, OpenTypes, AttachTypes, HearTypes, StreamInv, FreshPhase, Fresh, AttachPhase,
       OwnerPhase, One, Works, Opens, Attaches
  <2>3. CASE LegacyLock(s)
    BY <1>1, <1>2, <2>3 DEF LegacyLock, OpenTypes, AttachTypes, HearTypes, StreamInv, FreshPhase, Fresh, AttachPhase,
       OwnerPhase, One, Works, Opens, Attaches
  <2>4. CASE StartWatch(s)
    <3>1. /\ att'[s] = att[s] /\ sup'[s] = sup[s] /\ mon'[s] = mon[s] /\ lis'[s] = lis[s]
          /\ at[s] \in {"none", "watch"}
          /\ \/ at'[s] = "slot" /\ work' = work + 1
             \/ at'[s] \in {"session", "over"} /\ work' = work
      BY <1>1, <1>2, <2>4 DEF StartWatch, OpenTypes, AttachTypes, HearTypes, StreamInv, FreshPhase, Fresh,
         AttachPhase, OwnerPhase
    <3> QED
      BY <1>2, <3>1 DEF One, Works, Opens, Attaches
  <2>5. CASE TakeSlot(s)
    <3>1. /\ att'[s] = "none" /\ sup'[s] = sup[s] /\ mon'[s] = mon[s] /\ lis'[s] = lis[s]
          /\ at[s] = "slot" /\ att[s] = "none"
          /\ \/ at'[s] = "attach" /\ work' = work + 1
             \/ at'[s] = "ready" /\ work' = work
             \/ at'[s] \in {"session", "over"} /\ work' = work - 1
      BY <1>1, <1>2, <2>5 DEF TakeSlot, OpenTypes, AttachTypes, HearTypes, StreamInv, FreshPhase, Fresh, AttachPhase,
         OwnerPhase
    <3> QED
      BY <1>2, <3>1 DEF One, Works, Opens, Attaches
  <2> QED
    BY <2>1, <2>2, <2>3, <2>4, <2>5 DEF BeginStep
<1>11. FreshPhase(s)' /\ AttachPhase(s)' /\ OwnerPhase(s)'
  BY <1>1 DEF BeginStep, Register, LegacyAsk, LegacyLock, StartWatch, TakeSlot, OpenTypes, AttachTypes, HearTypes,
     StreamInv, FreshPhase, Fresh, AttachPhase, OwnerPhase
<1>12. WatchPhase(s)'
  BY <1>1 DEF BeginStep, Register, LegacyAsk, LegacyLock, StartWatch, TakeSlot, OpenTypes, AttachTypes, HearTypes,
     StreamInv, FreshPhase, Fresh, AttachPhase, OwnerPhase, WatchPhase, Going, SetupDone
<1>13. Aware(s)'
  BY <1>1 DEF BeginStep, Register, LegacyAsk, LegacyLock, StartWatch, TakeSlot, OpenTypes, AttachTypes, HearTypes,
     StreamInv, FreshPhase, Fresh, AttachPhase, OwnerPhase, WatchPhase, Aware, Going, SetupDone, Closed
<1>14. LockInv'
  <2>1. UNCHANGED <<up, subscribed, refs, opMu>>
    BY DEF BeginStep, Register, LegacyAsk, LegacyLock, StartWatch, TakeSlot
  <2>2. att'[s] = att[s] \/ (att[s] \notin {"subscribe", "confirm"} /\ att'[s] \notin {"subscribe", "confirm"})
    BY <1>1 DEF BeginStep, Register, LegacyAsk, LegacyLock, StartWatch, TakeSlot, OpenTypes, AttachTypes, HearTypes,
       StreamInv, FreshPhase, Fresh, AttachPhase, OwnerPhase
  <2> QED
    BY <1>7, <2>1, <2>2, LockStays
<1> QED
  BY <1>3, <1>4, <1>5, <1>6, <1>7, <1>8, <1>9, <1>10, <1>11, <1>12, <1>13, <1>14, StreamStep DEF RowsOK, StreamInv

\* A stream waits for its source, takes it and opens, or gives up.
LEMMA WaitSteps == ASSUME SubInv, NEW s \in Streams, WaitStep(s) PROVE SubInv'
<1> USE DEF Task, At, taskVars, hearVars, upVars, watchVars, closeVars, SetupDone, Going, Refuse, Stopped, Cleaned,
   Trouble, attachVars, slotVars, Closed
<1>1. OpenTypes /\ AttachTypes /\ HearTypes /\ RestTypes /\ StreamInv(s)
  BY RowTypes DEF SubInv, RowsOK
<1>2. slots \in 0 .. SourceSlots /\ attaching \in 0 .. AttachSlots /\ work \in Nat /\ refs \in Nat
  BY DEF SubInv, SubscriptionsTypeOK
<1>3. OpenTypes'
  BY <1>1 DEF WaitStep, TakeAttachSlot, NoAttachSlot, SetupTimeout, StopWaiting, TakeSource, Supervise, OpenStream,
     OpenTypes
<1>4. AttachTypes'
  BY <1>1 DEF WaitStep, TakeAttachSlot, NoAttachSlot, SetupTimeout, StopWaiting, TakeSource, Supervise, OpenStream,
     AttachTypes
<1>5. HearTypes'
  BY <1>1, Bounds DEF WaitStep, TakeAttachSlot, NoAttachSlot, SetupTimeout, StopWaiting, TakeSource, Supervise,
     OpenStream, HearTypes, RestTypes
<1>6. RestTypes'
  BY <1>1, Bounds DEF WaitStep, TakeAttachSlot, NoAttachSlot, SetupTimeout, StopWaiting, TakeSource, Supervise,
     OpenStream, RestTypes
<1>7. \A t \in Streams \ {s} : Same(t)
  BY <1>1 DEF WaitStep, TakeAttachSlot, NoAttachSlot, SetupTimeout, StopWaiting, TakeSource, Supervise, OpenStream,
     OpenTypes, AttachTypes, HearTypes, Same
<1>8. UNCHANGED <<up, version, wire, closer>> /\ (closer = "done" => work' = work)
  BY NothingWorks DEF WaitStep, TakeAttachSlot, NoAttachSlot, SetupTimeout, StopWaiting, TakeSource, Supervise,
     OpenStream, Opens, Attaches
<1>9. /\ slots' = slots + One(HoldsSlot(s)') - One(HoldsSlot(s)) /\ slots' <= SourceSlots
      /\ refs' = refs + One(Watches(s)') - One(Watches(s))
      /\ attaching' = attaching + One(Attends(s)') - One(Attends(s)) /\ attaching' <= AttachSlots
  <2>1. CASE TakeAttachSlot(s)
    BY <1>1, <1>2, Bounds, <2>1 DEF TakeAttachSlot, OpenTypes, AttachTypes, HearTypes, StreamInv, FreshPhase, Fresh,
       AttachPhase, OwnerPhase, One, HoldsSlot, Watches, Attends
  <2>2. CASE NoAttachSlot(s)
    BY <1>1, <1>2, Bounds, <2>2 DEF NoAttachSlot, OpenTypes, AttachTypes, HearTypes, StreamInv, FreshPhase, Fresh,
       AttachPhase, OwnerPhase, One, HoldsSlot, Watches, Attends
  <2>3. CASE SetupTimeout(s)
    BY <1>1, <1>2, Bounds, <2>3 DEF SetupTimeout, OpenTypes, AttachTypes, HearTypes, StreamInv, FreshPhase, Fresh,
       AttachPhase, OwnerPhase, One, HoldsSlot, Watches, Attends
  <2>4. CASE StopWaiting(s)
    BY <1>1, <1>2, Bounds, <2>4 DEF StopWaiting, OpenTypes, AttachTypes, HearTypes, StreamInv, FreshPhase, Fresh,
       AttachPhase, OwnerPhase, One, HoldsSlot, Watches, Attends
  <2>5. CASE TakeSource(s)
    BY <1>1, <1>2, Bounds, <2>5 DEF TakeSource, OpenTypes, AttachTypes, HearTypes, StreamInv, FreshPhase, Fresh,
       AttachPhase, OwnerPhase, One, HoldsSlot, Watches, Attends
  <2>6. CASE Supervise(s)
    BY <1>1, <1>2, Bounds, <2>6 DEF Supervise, OpenTypes, AttachTypes, HearTypes, StreamInv, FreshPhase, Fresh,
       AttachPhase, OwnerPhase, One, HoldsSlot, Watches, Attends
  <2>7. CASE OpenStream(s)
    BY <1>1, <1>2, Bounds, <2>7 DEF OpenStream, OpenTypes, AttachTypes, HearTypes, StreamInv, FreshPhase, Fresh,
       AttachPhase, OwnerPhase, One, HoldsSlot, Watches, Attends
  <2> QED
    BY <2>1, <2>2, <2>3, <2>4, <2>5, <2>6, <2>7 DEF WaitStep
<1>10. work' = work + Works(s)' - Works(s)
  <2>1. CASE TakeAttachSlot(s)
    BY <1>1, <1>2, <2>1 DEF TakeAttachSlot, OpenTypes, AttachTypes, HearTypes, StreamInv, FreshPhase, Fresh,
       AttachPhase, OwnerPhase, One, Works, Opens, Attaches
  <2>2. CASE NoAttachSlot(s)
    BY <1>1, <1>2, <2>2 DEF NoAttachSlot, OpenTypes, AttachTypes, HearTypes, StreamInv, FreshPhase, Fresh,
       AttachPhase, OwnerPhase, One, Works, Opens, Attaches
  <2>3. CASE SetupTimeout(s)
    BY <1>1, <1>2, <2>3 DEF SetupTimeout, OpenTypes, AttachTypes, HearTypes, StreamInv, FreshPhase, Fresh,
       AttachPhase, OwnerPhase, One, Works, Opens, Attaches
  <2>4. CASE StopWaiting(s)
    BY <1>1, <1>2, <2>4 DEF StopWaiting, OpenTypes, AttachTypes, HearTypes, StreamInv, FreshPhase, Fresh,
       AttachPhase, OwnerPhase, One, Works, Opens, Attaches
  <2>5. CASE TakeSource(s)
    <3>1. /\ att'[s] = att[s] /\ sup'[s] = sup[s] /\ mon'[s] = mon[s] /\ lis'[s] = lis[s]
          /\ at[s] = "got"
          /\ \/ at'[s] = "ready" /\ work' = work
             \/ at'[s] \in {"session", "over"} /\ work' = work - 1
      BY <1>1, <1>2, <2>5 DEF TakeSource, OpenTypes, AttachTypes, HearTypes, StreamInv, FreshPhase, Fresh,
         AttachPhase, OwnerPhase
    <3> QED
      BY <1>2, <3>1 DEF One, Works, Opens, Attaches
  <2>6. CASE Supervise(s)
    BY <1>1, <1>2, <2>6 DEF Supervise, OpenTypes, AttachTypes, HearTypes, StreamInv, FreshPhase, Fresh, AttachPhase,
       OwnerPhase, One, Works, Opens, Attaches
  <2>7. CASE OpenStream(s)
    <3>1. /\ att'[s] = att[s] /\ sup'[s] = sup[s] /\ lis'[s] = lis[s] /\ at[s] = "opening" /\ ~ mon[s]
          /\ at'[s] \in {"open", "session", "over"}
      BY <1>1, <2>7 DEF OpenStream, OpenTypes, AttachTypes, HearTypes, StreamInv, FreshPhase, Fresh, AttachPhase,
         OwnerPhase
    <3>2. CASE at'[s] = "open"
      <4>1. mon' = [mon EXCEPT ![s] = s \notin Legacy] /\ work' = IF s \in Legacy THEN work ELSE work + 1
        BY <1>1, <2>7, <3>2 DEF OpenStream, OpenTypes
      <4>2. mon'[s] = (s \notin Legacy)
        BY <1>1, <4>1 DEF HearTypes
      <4>3. CASE s \in Legacy
        <5>1. ~ mon'[s] /\ work' = work
          BY <4>1, <4>2, <4>3
        <5> QED
          BY <1>2, <3>1, <3>2, <5>1 DEF One, Works, Opens, Attaches
      <4>4. CASE s \notin Legacy
        <5>1. mon'[s] /\ work' = work + 1
          BY <4>1, <4>2, <4>4
        <5> QED
          BY <1>2, <3>1, <3>2, <5>1 DEF One, Works, Opens, Attaches
      <4> QED
        BY <4>3, <4>4
    <3>3. CASE at'[s] # "open"
      <4>1. mon' = mon /\ work' = work
        BY <1>1, <2>7, <3>3 DEF OpenStream, OpenTypes
      <4> QED
        BY <1>2, <3>1, <3>3, <4>1 DEF One, Works, Opens, Attaches
    <3> QED
      BY <3>2, <3>3
  <2> QED
    BY <2>1, <2>2, <2>3, <2>4, <2>5, <2>6, <2>7 DEF WaitStep
<1>11. FreshPhase(s)' /\ AttachPhase(s)' /\ OwnerPhase(s)'
  BY <1>1 DEF WaitStep, TakeAttachSlot, NoAttachSlot, SetupTimeout, StopWaiting, TakeSource, Supervise, OpenStream,
     OpenTypes, AttachTypes, HearTypes, StreamInv, FreshPhase, Fresh, AttachPhase, OwnerPhase
<1>12. WatchPhase(s)'
  BY <1>1 DEF WaitStep, TakeAttachSlot, NoAttachSlot, SetupTimeout, StopWaiting, TakeSource, Supervise, OpenStream,
     OpenTypes, AttachTypes, HearTypes, StreamInv, FreshPhase, Fresh, AttachPhase, OwnerPhase, WatchPhase, Going,
     SetupDone
<1>13. Aware(s)'
  BY <1>1 DEF WaitStep, TakeAttachSlot, NoAttachSlot, SetupTimeout, StopWaiting, TakeSource, Supervise, OpenStream,
     OpenTypes, AttachTypes, HearTypes, StreamInv, FreshPhase, Fresh, AttachPhase, OwnerPhase, WatchPhase, Aware,
     Going, SetupDone, Closed
<1>14. LockInv'
  <2>1. UNCHANGED <<up, subscribed, refs, opMu>>
    BY DEF WaitStep, TakeAttachSlot, NoAttachSlot, SetupTimeout, StopWaiting, TakeSource, Supervise, OpenStream
  <2>2. att'[s] = att[s] \/ (att[s] \notin {"subscribe", "confirm"} /\ att'[s] \notin {"subscribe", "confirm"})
    BY <1>1 DEF WaitStep, TakeAttachSlot, NoAttachSlot, SetupTimeout, StopWaiting, TakeSource, Supervise, OpenStream,
       OpenTypes, AttachTypes, HearTypes, StreamInv, FreshPhase, Fresh, AttachPhase, OwnerPhase
  <2> QED
    BY <1>7, <2>1, <2>2, LockStays
<1> QED
  BY <1>3, <1>4, <1>5, <1>6, <1>7, <1>8, <1>9, <1>10, <1>11, <1>12, <1>13, <1>14, StreamStep DEF RowsOK, StreamInv

\* A stream ends: by its client, its monitor, its supervisor, its session.
LEMMA EndSteps == ASSUME SubInv, NEW s \in Streams, EndStep(s) PROVE SubInv'
<1> USE DEF Trouble, HearNoMore, attachVars, taskVars, slotVars, upVars, watchVars, closeVars, Stopped, Cleaned, At,
   streamVars, hearVars, Going, NoTrouble
<1>1. OpenTypes /\ AttachTypes /\ HearTypes /\ RestTypes /\ StreamInv(s)
  BY RowTypes DEF SubInv, RowsOK
<1>2. slots \in 0 .. SourceSlots /\ attaching \in 0 .. AttachSlots /\ work \in Nat /\ refs \in Nat
  BY DEF SubInv, SubscriptionsTypeOK
<1>3. OpenTypes'
  BY <1>1 DEF EndStep, ContextEnds, StopStream, MonitorEnds, SupervisorEnds, SupervisorFails, LegacyUnsubscribe,
     LegacyClose, CancelSession, OpenTypes
<1>4. AttachTypes'
  BY <1>1 DEF EndStep, ContextEnds, StopStream, MonitorEnds, SupervisorEnds, SupervisorFails, LegacyUnsubscribe,
     LegacyClose, CancelSession, AttachTypes
<1>5. HearTypes'
  <2>1. CASE ContextEnds(s)
    BY <1>1, Bounds, <2>1 DEF ContextEnds, HearTypes, RestTypes
  <2>2. CASE StopStream(s)
    BY <1>1, Bounds, <2>2 DEF StopStream, HearTypes, RestTypes
  <2>3. CASE MonitorEnds(s)
    BY <1>1, Bounds, <2>3 DEF MonitorEnds, HearTypes, RestTypes
  <2>4. CASE SupervisorEnds(s)
    BY <1>1, Bounds, <2>4 DEF SupervisorEnds, HearTypes, RestTypes
  <2>5. CASE SupervisorFails(s)
    BY <1>1, Bounds, <2>5 DEF SupervisorFails, HearTypes, RestTypes
  <2>6. CASE LegacyUnsubscribe(s)
    BY <1>1, Bounds, <2>6 DEF LegacyUnsubscribe, HearTypes, RestTypes
  <2>7. CASE LegacyClose(s)
    BY <1>1, Bounds, <2>7 DEF LegacyClose, HearTypes, RestTypes
  <2>8. CASE CancelSession(s)
    BY <1>1, Bounds, <2>8 DEF CancelSession, HearTypes, RestTypes
  <2> QED
    BY <2>1, <2>2, <2>3, <2>4, <2>5, <2>6, <2>7, <2>8 DEF EndStep
<1>6. RestTypes'
  BY <1>1, Bounds DEF EndStep, ContextEnds, StopStream, MonitorEnds, SupervisorEnds, SupervisorFails,
     LegacyUnsubscribe, LegacyClose, CancelSession, RestTypes
<1>7. \A t \in Streams \ {s} : Same(t)
  BY <1>1 DEF EndStep, ContextEnds, StopStream, MonitorEnds, SupervisorEnds, SupervisorFails, LegacyUnsubscribe,
     LegacyClose, CancelSession, OpenTypes, AttachTypes, HearTypes, Same
<1>8. UNCHANGED <<up, version, wire, closer>> /\ (closer = "done" => work' = work)
  BY NothingWorks DEF EndStep, ContextEnds, StopStream, MonitorEnds, SupervisorEnds, SupervisorFails,
     LegacyUnsubscribe, LegacyClose, CancelSession, Opens, Attaches
<1>9. /\ slots' = slots + One(HoldsSlot(s)') - One(HoldsSlot(s)) /\ slots' <= SourceSlots
      /\ refs' = refs + One(Watches(s)') - One(Watches(s))
      /\ attaching' = attaching + One(Attends(s)') - One(Attends(s)) /\ attaching' <= AttachSlots
  <2>1. CASE ContextEnds(s)
    BY <1>1, <1>2, Bounds, <2>1 DEF ContextEnds, OpenTypes, AttachTypes, HearTypes, StreamInv, FreshPhase, Fresh,
       AttachPhase, OwnerPhase, One, HoldsSlot, Watches, Attends
  <2>2. CASE StopStream(s)
    BY <1>1, <1>2, Bounds, <2>2 DEF StopStream, OpenTypes, AttachTypes, HearTypes, StreamInv, FreshPhase, Fresh,
       AttachPhase, OwnerPhase, One, HoldsSlot, Watches, Attends
  <2>3. CASE MonitorEnds(s)
    BY <1>1, <1>2, Bounds, <2>3 DEF MonitorEnds, OpenTypes, AttachTypes, HearTypes, StreamInv, FreshPhase, Fresh,
       AttachPhase, OwnerPhase, One, HoldsSlot, Watches, Attends
  <2>4. CASE SupervisorEnds(s)
    BY <1>1, <1>2, Bounds, <2>4 DEF SupervisorEnds, OpenTypes, AttachTypes, HearTypes, StreamInv, FreshPhase, Fresh,
       AttachPhase, OwnerPhase, One, HoldsSlot, Watches, Attends
  <2>5. CASE SupervisorFails(s)
    BY <1>1, <1>2, Bounds, <2>5 DEF SupervisorFails, OpenTypes, AttachTypes, HearTypes, StreamInv, FreshPhase, Fresh,
       AttachPhase, OwnerPhase, One, HoldsSlot, Watches, Attends
  <2>6. CASE LegacyUnsubscribe(s)
    BY <1>1, <1>2, Bounds, <2>6 DEF LegacyUnsubscribe, OpenTypes, AttachTypes, HearTypes, StreamInv, FreshPhase,
       Fresh, AttachPhase, OwnerPhase, One, HoldsSlot, Watches, Attends
  <2>7. CASE LegacyClose(s)
    BY <1>1, <1>2, Bounds, <2>7 DEF LegacyClose, OpenTypes, AttachTypes, HearTypes, StreamInv, FreshPhase, Fresh,
       AttachPhase, OwnerPhase, One, HoldsSlot, Watches, Attends
  <2>8. CASE CancelSession(s)
    BY <1>1, <1>2, Bounds, <2>8 DEF CancelSession, OpenTypes, AttachTypes, HearTypes, StreamInv, FreshPhase, Fresh,
       AttachPhase, OwnerPhase, One, HoldsSlot, Watches, Attends
  <2> QED
    BY <2>1, <2>2, <2>3, <2>4, <2>5, <2>6, <2>7, <2>8 DEF EndStep
<1>10. work' = work + Works(s)' - Works(s)
  <2>1. CASE ContextEnds(s)
    BY <1>1, <1>2, <2>1 DEF ContextEnds, OpenTypes, AttachTypes, HearTypes, StreamInv, FreshPhase, Fresh,
       AttachPhase, OwnerPhase, One, Works, Opens, Attaches
  <2>2. CASE StopStream(s)
    BY <1>1, <1>2, <2>2 DEF StopStream, OpenTypes, AttachTypes, HearTypes, StreamInv, FreshPhase, Fresh, AttachPhase,
       OwnerPhase, One, Works, Opens, Attaches
  <2>3. CASE MonitorEnds(s)
    BY <1>1, <1>2, <2>3 DEF MonitorEnds, OpenTypes, AttachTypes, HearTypes, StreamInv, FreshPhase, Fresh,
       AttachPhase, OwnerPhase, One, Works, Opens, Attaches
  <2>4. CASE SupervisorEnds(s)
    BY <1>1, <1>2, <2>4 DEF SupervisorEnds, OpenTypes, AttachTypes, HearTypes, StreamInv, FreshPhase, Fresh,
       AttachPhase, OwnerPhase, One, Works, Opens, Attaches
  <2>5. CASE SupervisorFails(s)
    BY <1>1, <1>2, <2>5 DEF SupervisorFails, OpenTypes, AttachTypes, HearTypes, StreamInv, FreshPhase, Fresh,
       AttachPhase, OwnerPhase, One, Works, Opens, Attaches
  <2>6. CASE LegacyUnsubscribe(s)
    BY <1>1, <1>2, <2>6 DEF LegacyUnsubscribe, OpenTypes, AttachTypes, HearTypes, StreamInv, FreshPhase, Fresh,
       AttachPhase, OwnerPhase, One, Works, Opens, Attaches
  <2>7. CASE LegacyClose(s)
    BY <1>1, <1>2, <2>7 DEF LegacyClose, OpenTypes, AttachTypes, HearTypes, StreamInv, FreshPhase, Fresh,
       AttachPhase, OwnerPhase, One, Works, Opens, Attaches
  <2>8. CASE CancelSession(s)
    BY <1>1, <1>2, <2>8 DEF CancelSession, OpenTypes, AttachTypes, HearTypes, StreamInv, FreshPhase, Fresh,
       AttachPhase, OwnerPhase, One, Works, Opens, Attaches
  <2> QED
    BY <2>1, <2>2, <2>3, <2>4, <2>5, <2>6, <2>7, <2>8 DEF EndStep
<1>11. FreshPhase(s)' /\ AttachPhase(s)' /\ OwnerPhase(s)'
  BY <1>1 DEF EndStep, ContextEnds, StopStream, MonitorEnds, SupervisorEnds, SupervisorFails, LegacyUnsubscribe,
     LegacyClose, CancelSession, OpenTypes, AttachTypes, HearTypes, StreamInv, FreshPhase, Fresh, AttachPhase,
     OwnerPhase
<1>12. WatchPhase(s)'
  BY <1>1 DEF EndStep, ContextEnds, StopStream, MonitorEnds, SupervisorEnds, SupervisorFails, LegacyUnsubscribe,
     LegacyClose, CancelSession, OpenTypes, AttachTypes, HearTypes, StreamInv, FreshPhase, Fresh, AttachPhase,
     OwnerPhase, WatchPhase, Going, SetupDone
<1>13. Aware(s)'
  BY <1>1 DEF EndStep, ContextEnds, StopStream, MonitorEnds, SupervisorEnds, SupervisorFails, LegacyUnsubscribe,
     LegacyClose, CancelSession, OpenTypes, AttachTypes, HearTypes, StreamInv, FreshPhase, Fresh, AttachPhase,
     OwnerPhase, WatchPhase, Aware, Going, SetupDone, Closed
<1>14. LockInv'
  <2>1. UNCHANGED <<up, subscribed, refs, opMu>>
    BY DEF EndStep, ContextEnds, StopStream, MonitorEnds, SupervisorEnds, SupervisorFails, LegacyUnsubscribe,
       LegacyClose, CancelSession
  <2>2. att'[s] = att[s] \/ (att[s] \notin {"subscribe", "confirm"} /\ att'[s] \notin {"subscribe", "confirm"})
    BY <1>1 DEF EndStep, ContextEnds, StopStream, MonitorEnds, SupervisorEnds, SupervisorFails, LegacyUnsubscribe,
       LegacyClose, CancelSession, OpenTypes, AttachTypes, HearTypes, StreamInv, FreshPhase, Fresh, AttachPhase,
       OwnerPhase
  <2> QED
    BY <1>7, <2>1, <2>2, LockStays
<1> QED
  BY <1>3, <1>4, <1>5, <1>6, <1>7, <1>8, <1>9, <1>10, <1>11, <1>12, <1>13, <1>14, StreamStep DEF RowsOK, StreamInv

\* A stream is attached, in time or too late.
LEMMA AttachSteps == ASSUME SubInv, NEW s \in Streams, AttachStep(s) PROVE SubInv'
<1> USE DEF Task, NoTrouble, SetupDone, Going, Trouble, streamVars, taskVars, hearVars, slotVars, upVars, watchVars,
   closeVars, Cleaned, TaskEnds, At, Refuse
<1>1. OpenTypes /\ AttachTypes /\ HearTypes /\ RestTypes /\ StreamInv(s)
  BY RowTypes DEF SubInv, RowsOK
<1>2. slots \in 0 .. SourceSlots /\ attaching \in 0 .. AttachSlots /\ work \in Nat /\ refs \in Nat
  BY DEF SubInv, SubscriptionsTypeOK
<1>3. OpenTypes'
  BY <1>1 DEF AttachStep, Acquire, WatchPlain, Acknowledge, Fail, SendSource, SendFailure, Late, LateEnds, OpenTypes
<1>4. AttachTypes'
  BY <1>1 DEF AttachStep, Acquire, WatchPlain, Acknowledge, Fail, SendSource, SendFailure, Late, LateEnds, AttachTypes
<1>5. HearTypes'
  BY <1>1, Bounds DEF AttachStep, Acquire, WatchPlain, Acknowledge, Fail, SendSource, SendFailure, Late, LateEnds,
     HearTypes, RestTypes
<1>6. RestTypes'
  BY <1>1, Bounds DEF AttachStep, Acquire, WatchPlain, Acknowledge, Fail, SendSource, SendFailure, Late, LateEnds,
     RestTypes
<1>7. \A t \in Streams \ {s} : Same(t)
  BY <1>1 DEF AttachStep, Acquire, WatchPlain, Acknowledge, Fail, SendSource, SendFailure, Late, LateEnds, OpenTypes,
     AttachTypes, HearTypes, Same
<1>8. UNCHANGED <<up, version, wire, closer>> /\ (closer = "done" => work' = work)
  BY NothingWorks DEF AttachStep, Acquire, WatchPlain, Acknowledge, Fail, SendSource, SendFailure, Late, LateEnds,
     Opens, Attaches
<1>9. /\ slots' = slots + One(HoldsSlot(s)') - One(HoldsSlot(s)) /\ slots' <= SourceSlots
      /\ refs' = refs + One(Watches(s)') - One(Watches(s))
      /\ attaching' = attaching + One(Attends(s)') - One(Attends(s)) /\ attaching' <= AttachSlots
  <2>1. CASE Acquire(s)
    BY <1>1, <1>2, Bounds, <2>1 DEF Acquire, OpenTypes, AttachTypes, HearTypes, StreamInv, FreshPhase, Fresh,
       AttachPhase, OwnerPhase, One, HoldsSlot, Watches, Attends
  <2>2. CASE WatchPlain(s)
    BY <1>1, <1>2, Bounds, <2>2 DEF WatchPlain, OpenTypes, AttachTypes, HearTypes, StreamInv, FreshPhase, Fresh,
       AttachPhase, OwnerPhase, One, HoldsSlot, Watches, Attends
  <2>3. CASE Acknowledge(s)
    BY <1>1, <1>2, Bounds, <2>3 DEF Acknowledge, OpenTypes, AttachTypes, HearTypes, StreamInv, FreshPhase, Fresh,
       AttachPhase, OwnerPhase, One, HoldsSlot, Watches, Attends
  <2>4. CASE Fail(s)
    BY <1>1, <1>2, Bounds, <2>4 DEF Fail, OpenTypes, AttachTypes, HearTypes, StreamInv, FreshPhase, Fresh,
       AttachPhase, OwnerPhase, One, HoldsSlot, Watches, Attends
  <2>5. CASE SendSource(s)
    BY <1>1, <1>2, Bounds, <2>5 DEF SendSource, OpenTypes, AttachTypes, HearTypes, StreamInv, FreshPhase, Fresh,
       AttachPhase, OwnerPhase, One, HoldsSlot, Watches, Attends
  <2>6. CASE SendFailure(s)
    BY <1>1, <1>2, Bounds, <2>6 DEF SendFailure, OpenTypes, AttachTypes, HearTypes, StreamInv, FreshPhase, Fresh,
       AttachPhase, OwnerPhase, One, HoldsSlot, Watches, Attends
  <2>7. CASE Late(s)
    BY <1>1, <1>2, Bounds, <2>7 DEF Late, OpenTypes, AttachTypes, HearTypes, StreamInv, FreshPhase, Fresh,
       AttachPhase, OwnerPhase, One, HoldsSlot, Watches, Attends
  <2>8. CASE LateEnds(s)
    BY <1>1, <1>2, Bounds, <2>8 DEF LateEnds, OpenTypes, AttachTypes, HearTypes, StreamInv, FreshPhase, Fresh,
       AttachPhase, OwnerPhase, One, HoldsSlot, Watches, Attends
  <2> QED
    BY <2>1, <2>2, <2>3, <2>4, <2>5, <2>6, <2>7, <2>8 DEF AttachStep
<1>10. work' = work + Works(s)' - Works(s)
  <2>1. CASE Acquire(s)
    BY <1>1, <1>2, <2>1 DEF Acquire, OpenTypes, AttachTypes, HearTypes, StreamInv, FreshPhase, Fresh, AttachPhase,
       OwnerPhase, One, Works, Opens, Attaches
  <2>2. CASE WatchPlain(s)
    BY <1>1, <1>2, <2>2 DEF WatchPlain, OpenTypes, AttachTypes, HearTypes, StreamInv, FreshPhase, Fresh, AttachPhase,
       OwnerPhase, One, Works, Opens, Attaches
  <2>3. CASE Acknowledge(s)
    BY <1>1, <1>2, <2>3 DEF Acknowledge, OpenTypes, AttachTypes, HearTypes, StreamInv, FreshPhase, Fresh,
       AttachPhase, OwnerPhase, One, Works, Opens, Attaches
  <2>4. CASE Fail(s)
    BY <1>1, <1>2, <2>4 DEF Fail, OpenTypes, AttachTypes, HearTypes, StreamInv, FreshPhase, Fresh, AttachPhase,
       OwnerPhase, One, Works, Opens, Attaches
  <2>5. CASE SendSource(s)
    BY <1>1, <1>2, <2>5 DEF SendSource, OpenTypes, AttachTypes, HearTypes, StreamInv, FreshPhase, Fresh, AttachPhase,
       OwnerPhase, One, Works, Opens, Attaches
  <2>6. CASE SendFailure(s)
    BY <1>1, <1>2, <2>6 DEF SendFailure, OpenTypes, AttachTypes, HearTypes, StreamInv, FreshPhase, Fresh,
       AttachPhase, OwnerPhase, One, Works, Opens, Attaches
  <2>7. CASE Late(s)
    BY <1>1, <1>2, <2>7 DEF Late, OpenTypes, AttachTypes, HearTypes, StreamInv, FreshPhase, Fresh, AttachPhase,
       OwnerPhase, One, Works, Opens, Attaches
  <2>8. CASE LateEnds(s)
    BY <1>1, <1>2, <2>8 DEF LateEnds, OpenTypes, AttachTypes, HearTypes, StreamInv, FreshPhase, Fresh, AttachPhase,
       OwnerPhase, One, Works, Opens, Attaches
  <2> QED
    BY <2>1, <2>2, <2>3, <2>4, <2>5, <2>6, <2>7, <2>8 DEF AttachStep
<1>11. FreshPhase(s)' /\ AttachPhase(s)' /\ OwnerPhase(s)'
  BY <1>1 DEF AttachStep, Acquire, WatchPlain, Acknowledge, Fail, SendSource, SendFailure, Late, LateEnds, OpenTypes,
     AttachTypes, HearTypes, StreamInv, FreshPhase, Fresh, AttachPhase, OwnerPhase
<1>12. WatchPhase(s)'
  BY <1>1 DEF AttachStep, Acquire, WatchPlain, Acknowledge, Fail, SendSource, SendFailure, Late, LateEnds, OpenTypes,
     AttachTypes, HearTypes, StreamInv, FreshPhase, Fresh, AttachPhase, OwnerPhase, WatchPhase, Going, SetupDone
<1>13. Aware(s)'
  BY <1>1 DEF AttachStep, Acquire, WatchPlain, Acknowledge, Fail, SendSource, SendFailure, Late, LateEnds, OpenTypes,
     AttachTypes, HearTypes, StreamInv, FreshPhase, Fresh, AttachPhase, OwnerPhase, WatchPhase, Aware, Going,
     SetupDone, Closed
<1>14. LockInv'
  <2>1. UNCHANGED <<up, subscribed, refs, opMu>>
    BY DEF AttachStep, Acquire, WatchPlain, Acknowledge, Fail, SendSource, SendFailure, Late, LateEnds
  <2>2. att'[s] = att[s] \/ (att[s] \notin {"subscribe", "confirm"} /\ att'[s] \notin {"subscribe", "confirm"})
    BY <1>1 DEF AttachStep, Acquire, WatchPlain, Acknowledge, Fail, SendSource, SendFailure, Late, LateEnds,
       OpenTypes, AttachTypes, HearTypes, StreamInv, FreshPhase, Fresh, AttachPhase, OwnerPhase
  <2> QED
    BY <1>7, <2>1, <2>2, LockStays
<1> QED
  BY <1>3, <1>4, <1>5, <1>6, <1>7, <1>8, <1>9, <1>10, <1>11, <1>12, <1>13, <1>14, StreamStep DEF RowsOK, StreamInv

\* A stream is watched, under the lock of the watch operations.
LEMMA LockSteps == ASSUME SubInv, NEW s \in Streams, LockStep(s) PROVE SubInv'
<1> USE DEF SetupDone, Going, Task, streamVars, taskVars, hearVars, slotVars, upVars, closeVars, Trouble, NoTrouble,
   GiveUpWatch, ReleaseWatch, attachVars
<1>1. OpenTypes /\ AttachTypes /\ HearTypes /\ RestTypes /\ StreamInv(s)
  BY RowTypes DEF SubInv, RowsOK
<1>2. slots \in 0 .. SourceSlots /\ attaching \in 0 .. AttachSlots /\ work \in Nat /\ refs \in Nat
  BY DEF SubInv, SubscriptionsTypeOK
<1>3. OpenTypes'
  BY <1>1 DEF LockStep, WatchBegins, UpstreamAccepts, UpstreamFails, WatchStands, WatchRolledBack, WatchReleases,
     OpenTypes
<1>4. AttachTypes'
  BY <1>1 DEF LockStep, WatchBegins, UpstreamAccepts, UpstreamFails, WatchStands, WatchRolledBack, WatchReleases,
     AttachTypes
<1>5. HearTypes'
  <2>1. CASE WatchBegins(s)
    BY <1>1, Bounds, <2>1 DEF WatchBegins, HearTypes, RestTypes
  <2>2. CASE UpstreamAccepts(s)
    BY <1>1, Bounds, <2>2 DEF UpstreamAccepts, HearTypes, RestTypes
  <2>3. CASE UpstreamFails(s)
    BY <1>1, Bounds, <2>3 DEF UpstreamFails, HearTypes, RestTypes
  <2>4. CASE WatchStands(s)
    BY <1>1, Bounds, <2>4 DEF WatchStands, HearTypes, RestTypes
  <2>5. CASE WatchRolledBack(s)
    BY <1>1, Bounds, <2>5 DEF WatchRolledBack, HearTypes, RestTypes
  <2>6. CASE WatchReleases(s)
    BY <1>1, Bounds, <2>6 DEF WatchReleases, HearTypes, RestTypes
  <2> QED
    BY <2>1, <2>2, <2>3, <2>4, <2>5, <2>6 DEF LockStep
<1>6. RestTypes'
  <2>1. CASE WatchBegins(s)
    BY <1>1, Bounds, <2>1 DEF WatchBegins, RestTypes
  <2>2. CASE UpstreamAccepts(s)
    BY <1>1, Bounds, <2>2 DEF UpstreamAccepts, RestTypes
  <2>3. CASE UpstreamFails(s)
    <3>1. subscribed' \in BOOLEAN /\ opMu' \in Streams \cup {NoStream}
      BY <1>1, <2>3 DEF UpstreamFails, RestTypes
    <3>2. troubles' \in 0 .. MaxTroubles
      BY <1>1, <2>3, Bounds DEF UpstreamFails, RestTypes
    <3> QED
      BY <1>1, <2>3, <3>1, <3>2 DEF UpstreamFails, RestTypes
  <2>4. CASE WatchStands(s)
    BY <1>1, Bounds, <2>4 DEF WatchStands, RestTypes
  <2>5. CASE WatchRolledBack(s)
    <3>1. subscribed' \in BOOLEAN /\ opMu' \in Streams \cup {NoStream}
      BY <1>1, <2>5 DEF WatchRolledBack, RestTypes
    <3>2. troubles' \in 0 .. MaxTroubles
      BY <1>1, <2>5, Bounds DEF WatchRolledBack, RestTypes
    <3> QED
      BY <1>1, <2>5, <3>1, <3>2 DEF WatchRolledBack, RestTypes
  <2>6. CASE WatchReleases(s)
    <3>1. subscribed' \in BOOLEAN /\ opMu' \in Streams \cup {NoStream}
      BY <1>1, <2>6 DEF WatchReleases, RestTypes
    <3>2. troubles' \in 0 .. MaxTroubles
      BY <1>1, <2>6, Bounds DEF WatchReleases, RestTypes
    <3> QED
      BY <1>1, <2>6, <3>1, <3>2 DEF WatchReleases, RestTypes
  <2> QED
    BY <2>1, <2>2, <2>3, <2>4, <2>5, <2>6 DEF LockStep
<1>7. \A t \in Streams \ {s} : Same(t)
  <2>1. CASE WatchBegins(s)
    BY <1>1, <2>1 DEF WatchBegins, OpenTypes, AttachTypes, HearTypes, Same
  <2>2. CASE UpstreamAccepts(s)
    BY <1>1, <2>2 DEF UpstreamAccepts, OpenTypes, AttachTypes, HearTypes, Same
  <2>3. CASE UpstreamFails(s)
    BY <1>1, <2>3 DEF UpstreamFails, OpenTypes, AttachTypes, HearTypes, Same
  <2>4. CASE WatchStands(s)
    BY <1>1, <2>4 DEF WatchStands, OpenTypes, AttachTypes, HearTypes, Same
  <2>5. CASE WatchRolledBack(s)
    BY <1>1, <2>5 DEF WatchRolledBack, OpenTypes, AttachTypes, HearTypes, Same
  <2>6. CASE WatchReleases(s)
    BY <1>1, <2>6 DEF WatchReleases, OpenTypes, AttachTypes, HearTypes, Same
  <2> QED
    BY <2>1, <2>2, <2>3, <2>4, <2>5, <2>6 DEF LockStep
<1>8. UNCHANGED <<up, version, wire, closer>> /\ (closer = "done" => work' = work)
  BY NothingWorks DEF LockStep, WatchBegins, UpstreamAccepts, UpstreamFails, WatchStands, WatchRolledBack,
     WatchReleases, Opens, Attaches
<1>9. /\ slots' = slots + One(HoldsSlot(s)') - One(HoldsSlot(s)) /\ slots' <= SourceSlots
      /\ refs' = refs + One(Watches(s)') - One(Watches(s))
      /\ attaching' = attaching + One(Attends(s)') - One(Attends(s)) /\ attaching' <= AttachSlots
  <2>1. CASE WatchBegins(s)
    BY <1>1, <1>2, Bounds, <2>1 DEF WatchBegins, OpenTypes, AttachTypes, HearTypes, StreamInv, FreshPhase, Fresh,
       AttachPhase, OwnerPhase, One, HoldsSlot, Watches, Attends
  <2>2. CASE UpstreamAccepts(s)
    BY <1>1, <1>2, Bounds, <2>2 DEF UpstreamAccepts, OpenTypes, AttachTypes, HearTypes, StreamInv, FreshPhase, Fresh,
       AttachPhase, OwnerPhase, One, HoldsSlot, Watches, Attends
  <2>3. CASE UpstreamFails(s)
    BY <1>1, <1>2, Bounds, <2>3 DEF UpstreamFails, OpenTypes, AttachTypes, HearTypes, StreamInv, FreshPhase, Fresh,
       AttachPhase, OwnerPhase, One, HoldsSlot, Watches, Attends
  <2>4. CASE WatchStands(s)
    BY <1>1, <1>2, Bounds, <2>4 DEF WatchStands, OpenTypes, AttachTypes, HearTypes, StreamInv, FreshPhase, Fresh,
       AttachPhase, OwnerPhase, One, HoldsSlot, Watches, Attends
  <2>5. CASE WatchRolledBack(s)
    BY <1>1, <1>2, Bounds, <2>5 DEF WatchRolledBack, OpenTypes, AttachTypes, HearTypes, StreamInv, FreshPhase, Fresh,
       AttachPhase, OwnerPhase, One, HoldsSlot, Watches, Attends
  <2>6. CASE WatchReleases(s)
    BY <1>1, <1>2, Bounds, <2>6 DEF WatchReleases, OpenTypes, AttachTypes, HearTypes, StreamInv, FreshPhase, Fresh,
       AttachPhase, OwnerPhase, One, HoldsSlot, Watches, Attends
  <2> QED
    BY <2>1, <2>2, <2>3, <2>4, <2>5, <2>6 DEF LockStep
<1>10. work' = work + Works(s)' - Works(s)
  <2>1. CASE WatchBegins(s)
    BY <1>1, <1>2, <2>1 DEF WatchBegins, OpenTypes, AttachTypes, HearTypes, StreamInv, FreshPhase, Fresh,
       AttachPhase, OwnerPhase, One, Works, Opens, Attaches
  <2>2. CASE UpstreamAccepts(s)
    BY <1>1, <1>2, <2>2 DEF UpstreamAccepts, OpenTypes, AttachTypes, HearTypes, StreamInv, FreshPhase, Fresh,
       AttachPhase, OwnerPhase, One, Works, Opens, Attaches
  <2>3. CASE UpstreamFails(s)
    BY <1>1, <1>2, <2>3 DEF UpstreamFails, OpenTypes, AttachTypes, HearTypes, StreamInv, FreshPhase, Fresh,
       AttachPhase, OwnerPhase, One, Works, Opens, Attaches
  <2>4. CASE WatchStands(s)
    BY <1>1, <1>2, <2>4 DEF WatchStands, OpenTypes, AttachTypes, HearTypes, StreamInv, FreshPhase, Fresh,
       AttachPhase, OwnerPhase, One, Works, Opens, Attaches
  <2>5. CASE WatchRolledBack(s)
    BY <1>1, <1>2, <2>5 DEF WatchRolledBack, OpenTypes, AttachTypes, HearTypes, StreamInv, FreshPhase, Fresh,
       AttachPhase, OwnerPhase, One, Works, Opens, Attaches
  <2>6. CASE WatchReleases(s)
    BY <1>1, <1>2, <2>6 DEF WatchReleases, OpenTypes, AttachTypes, HearTypes, StreamInv, FreshPhase, Fresh,
       AttachPhase, OwnerPhase, One, Works, Opens, Attaches
  <2> QED
    BY <2>1, <2>2, <2>3, <2>4, <2>5, <2>6 DEF LockStep
<1>11. FreshPhase(s)' /\ AttachPhase(s)' /\ OwnerPhase(s)'
  <2>1. CASE WatchBegins(s)
    BY <1>1, <2>1 DEF WatchBegins, OpenTypes, AttachTypes, HearTypes, StreamInv, FreshPhase, Fresh, AttachPhase,
       OwnerPhase
  <2>2. CASE UpstreamAccepts(s)
    BY <1>1, <2>2 DEF UpstreamAccepts, OpenTypes, AttachTypes, HearTypes, StreamInv, FreshPhase, Fresh, AttachPhase,
       OwnerPhase
  <2>3. CASE UpstreamFails(s)
    BY <1>1, <2>3 DEF UpstreamFails, OpenTypes, AttachTypes, HearTypes, StreamInv, FreshPhase, Fresh, AttachPhase,
       OwnerPhase
  <2>4. CASE WatchStands(s)
    BY <1>1, <2>4 DEF WatchStands, OpenTypes, AttachTypes, HearTypes, StreamInv, FreshPhase, Fresh, AttachPhase,
       OwnerPhase
  <2>5. CASE WatchRolledBack(s)
    BY <1>1, <2>5 DEF WatchRolledBack, OpenTypes, AttachTypes, HearTypes, StreamInv, FreshPhase, Fresh, AttachPhase,
       OwnerPhase
  <2>6. CASE WatchReleases(s)
    BY <1>1, <2>6 DEF WatchReleases, OpenTypes, AttachTypes, HearTypes, StreamInv, FreshPhase, Fresh, AttachPhase,
       OwnerPhase
  <2> QED
    BY <2>1, <2>2, <2>3, <2>4, <2>5, <2>6 DEF LockStep
<1>12. WatchPhase(s)'
  <2>1. CASE WatchBegins(s)
    BY <1>1, <2>1 DEF WatchBegins, OpenTypes, AttachTypes, HearTypes, StreamInv, FreshPhase, Fresh, AttachPhase,
       OwnerPhase, WatchPhase, Going, SetupDone
  <2>2. CASE UpstreamAccepts(s)
    BY <1>1, <2>2 DEF UpstreamAccepts, OpenTypes, AttachTypes, HearTypes, StreamInv, FreshPhase, Fresh, AttachPhase,
       OwnerPhase, WatchPhase, Going, SetupDone
  <2>3. CASE UpstreamFails(s)
    BY <1>1, <2>3 DEF UpstreamFails, OpenTypes, AttachTypes, HearTypes, StreamInv, FreshPhase, Fresh, AttachPhase,
       OwnerPhase, WatchPhase, Going, SetupDone
  <2>4. CASE WatchStands(s)
    BY <1>1, <2>4 DEF WatchStands, OpenTypes, AttachTypes, HearTypes, StreamInv, FreshPhase, Fresh, AttachPhase,
       OwnerPhase, WatchPhase, Going, SetupDone
  <2>5. CASE WatchRolledBack(s)
    BY <1>1, <2>5 DEF WatchRolledBack, OpenTypes, AttachTypes, HearTypes, StreamInv, FreshPhase, Fresh, AttachPhase,
       OwnerPhase, WatchPhase, Going, SetupDone
  <2>6. CASE WatchReleases(s)
    BY <1>1, <2>6 DEF WatchReleases, OpenTypes, AttachTypes, HearTypes, StreamInv, FreshPhase, Fresh, AttachPhase,
       OwnerPhase, WatchPhase, Going, SetupDone
  <2> QED
    BY <2>1, <2>2, <2>3, <2>4, <2>5, <2>6 DEF LockStep
<1>13. Aware(s)'
  BY <1>1 DEF LockStep, WatchBegins, UpstreamAccepts, UpstreamFails, WatchStands, WatchRolledBack, WatchReleases,
     OpenTypes, AttachTypes, HearTypes, StreamInv, FreshPhase, Fresh, AttachPhase, OwnerPhase, WatchPhase, Aware,
     Going, SetupDone, Closed
<1>14. LockInv'
  <2>1. \A t \in Streams : opMu' = t <=> att'[t] \in {"subscribe", "confirm"}
    <3>1. CASE WatchBegins(s)
      BY <1>1, <1>7, <3>1, SubscriptionsAssumption DEF WatchBegins, OpenTypes, AttachTypes, HearTypes, StreamInv,
         FreshPhase, Fresh, AttachPhase, OwnerPhase, SubInv, LockInv, Same
    <3>2. CASE UpstreamAccepts(s)
      BY <1>1, <1>7, <3>2, SubscriptionsAssumption DEF UpstreamAccepts, OpenTypes, AttachTypes, HearTypes, StreamInv,
         FreshPhase, Fresh, AttachPhase, OwnerPhase, SubInv, LockInv, Same
    <3>3. CASE UpstreamFails(s)
      BY <1>1, <1>7, <3>3, SubscriptionsAssumption DEF UpstreamFails, OpenTypes, AttachTypes, HearTypes, StreamInv,
         FreshPhase, Fresh, AttachPhase, OwnerPhase, SubInv, LockInv, Same
    <3>4. CASE WatchStands(s)
      BY <1>1, <1>7, <3>4, SubscriptionsAssumption DEF WatchStands, OpenTypes, AttachTypes, HearTypes, StreamInv,
         FreshPhase, Fresh, AttachPhase, OwnerPhase, SubInv, LockInv, Same
    <3>5. CASE WatchRolledBack(s)
      BY <1>1, <1>7, <3>5, SubscriptionsAssumption DEF WatchRolledBack, OpenTypes, AttachTypes, HearTypes, StreamInv,
         FreshPhase, Fresh, AttachPhase, OwnerPhase, SubInv, LockInv, Same
    <3>6. CASE WatchReleases(s)
      BY <1>1, <1>7, <3>6, SubscriptionsAssumption DEF WatchReleases, OpenTypes, AttachTypes, HearTypes, StreamInv,
         FreshPhase, Fresh, AttachPhase, OwnerPhase, SubInv, LockInv, Same
    <3> QED
      BY <3>1, <3>2, <3>3, <3>4, <3>5, <3>6 DEF LockStep
  <2>2. \A t \in Streams : att'[t] = "subscribe" => refs' = 0
    <3>1. CASE WatchBegins(s)
      BY <1>1, <1>7, <3>1, SubscriptionsAssumption DEF WatchBegins, OpenTypes, AttachTypes, HearTypes, StreamInv,
         FreshPhase, Fresh, AttachPhase, OwnerPhase, SubInv, LockInv, Same
    <3>2. CASE UpstreamAccepts(s)
      BY <1>1, <1>7, <3>2, SubscriptionsAssumption DEF UpstreamAccepts, OpenTypes, AttachTypes, HearTypes, StreamInv,
         FreshPhase, Fresh, AttachPhase, OwnerPhase, SubInv, LockInv, Same
    <3>3. CASE UpstreamFails(s)
      BY <1>1, <1>7, <3>3, SubscriptionsAssumption DEF UpstreamFails, OpenTypes, AttachTypes, HearTypes, StreamInv,
         FreshPhase, Fresh, AttachPhase, OwnerPhase, SubInv, LockInv, Same
    <3>4. CASE WatchStands(s)
      BY <1>1, <1>7, <3>4, SubscriptionsAssumption DEF WatchStands, OpenTypes, AttachTypes, HearTypes, StreamInv,
         FreshPhase, Fresh, AttachPhase, OwnerPhase, SubInv, LockInv, Same
    <3>5. CASE WatchRolledBack(s)
      BY <1>1, <1>7, <3>5, SubscriptionsAssumption DEF WatchRolledBack, OpenTypes, AttachTypes, HearTypes, StreamInv,
         FreshPhase, Fresh, AttachPhase, OwnerPhase, SubInv, LockInv, Same
    <3>6. CASE WatchReleases(s)
      BY <1>1, <1>7, <3>6, SubscriptionsAssumption DEF WatchReleases, OpenTypes, AttachTypes, HearTypes, StreamInv,
         FreshPhase, Fresh, AttachPhase, OwnerPhase, SubInv, LockInv, Same
    <3> QED
      BY <3>1, <3>2, <3>3, <3>4, <3>5, <3>6 DEF LockStep
  <2>3. up' /\ refs' > 0 => subscribed'
    <3>1. CASE WatchBegins(s)
      BY <1>1, <1>2, <3>1, SubscriptionsAssumption DEF WatchBegins, OpenTypes, AttachTypes, HearTypes, StreamInv,
         FreshPhase, Fresh, AttachPhase, OwnerPhase, SubInv, LockInv, Same
    <3>2. CASE UpstreamAccepts(s)
      BY <1>1, <1>2, <3>2, SubscriptionsAssumption DEF UpstreamAccepts, OpenTypes, AttachTypes, HearTypes, StreamInv,
         FreshPhase, Fresh, AttachPhase, OwnerPhase, SubInv, LockInv, Same
    <3>3. CASE UpstreamFails(s)
      BY <1>1, <1>2, <3>3, SubscriptionsAssumption DEF UpstreamFails, OpenTypes, AttachTypes, HearTypes, StreamInv,
         FreshPhase, Fresh, AttachPhase, OwnerPhase, SubInv, LockInv, Same
    <3>4. CASE WatchStands(s)
      BY <1>1, <1>2, <3>4, SubscriptionsAssumption DEF WatchStands, OpenTypes, AttachTypes, HearTypes, StreamInv,
         FreshPhase, Fresh, AttachPhase, OwnerPhase, SubInv, LockInv, Same
    <3>5. CASE WatchRolledBack(s)
      BY <1>1, <1>2, <3>5, SubscriptionsAssumption DEF WatchRolledBack, OpenTypes, AttachTypes, HearTypes, StreamInv,
         FreshPhase, Fresh, AttachPhase, OwnerPhase, SubInv, LockInv, Same
    <3>6. CASE WatchReleases(s)
      BY <1>1, <1>2, <3>6, SubscriptionsAssumption DEF WatchReleases, OpenTypes, AttachTypes, HearTypes, StreamInv,
         FreshPhase, Fresh, AttachPhase, OwnerPhase, SubInv, LockInv, Same
    <3> QED
      BY <3>1, <3>2, <3>3, <3>4, <3>5, <3>6 DEF LockStep
  <2> QED
    BY <2>1, <2>2, <2>3 DEF LockInv
<1> QED
  BY <1>3, <1>4, <1>5, <1>6, <1>7, <1>8, <1>9, <1>10, <1>11, <1>12, <1>13, <1>14, StreamStep DEF RowsOK, StreamInv

\* A stream hears of a change, or stops its watch and cleans up.
LEMMA HearSteps == ASSUME SubInv, NEW s \in Streams, HearStep(s) PROVE SubInv'
<1> USE DEF Going, streamVars, attachVars, taskVars, slotVars, upVars, closeVars, hearVars, watchVars, Closed, Emit,
   HearNoMore, NoTrouble, Stopped, Cleaned, Trouble
<1>1. OpenTypes /\ AttachTypes /\ HearTypes /\ RestTypes /\ StreamInv(s)
  BY RowTypes DEF SubInv, RowsOK
<1>2. slots \in 0 .. SourceSlots /\ attaching \in 0 .. AttachSlots /\ work \in Nat /\ refs \in Nat
  BY DEF SubInv, SubscriptionsTypeOK
<1>3. OpenTypes'
  BY <1>1 DEF HearStep, WatchStops, CleanUp, Hear, Listen, Deliver, OpenTypes
<1>4. AttachTypes'
  BY <1>1 DEF HearStep, WatchStops, CleanUp, Hear, Listen, Deliver, AttachTypes
<1>5. HearTypes'
  <2>1. CASE WatchStops(s)
    BY <1>1, Bounds, <2>1 DEF WatchStops, HearTypes, RestTypes
  <2>2. CASE CleanUp(s)
    BY <1>1, Bounds, <2>2 DEF CleanUp, HearTypes, RestTypes
  <2>3. CASE Hear(s)
    BY <1>1, Bounds, <2>3 DEF Hear, HearTypes, RestTypes
  <2>4. CASE Listen(s)
    BY <1>1, Bounds, <2>4 DEF Listen, HearTypes, RestTypes
  <2>5. CASE Deliver(s)
    BY <1>1, Bounds, <2>5 DEF Deliver, HearTypes, RestTypes
  <2> QED
    BY <2>1, <2>2, <2>3, <2>4, <2>5 DEF HearStep
<1>6. RestTypes'
  BY <1>1, Bounds DEF HearStep, WatchStops, CleanUp, Hear, Listen, Deliver, RestTypes
<1>7. \A t \in Streams \ {s} : Same(t)
  BY <1>1 DEF HearStep, WatchStops, CleanUp, Hear, Listen, Deliver, OpenTypes, AttachTypes, HearTypes, Same
<1>8. UNCHANGED <<up, version, wire, closer>> /\ (closer = "done" => work' = work)
  BY NothingWorks DEF HearStep, WatchStops, CleanUp, Hear, Listen, Deliver, Opens, Attaches
<1>9. /\ slots' = slots + One(HoldsSlot(s)') - One(HoldsSlot(s)) /\ slots' <= SourceSlots
      /\ refs' = refs + One(Watches(s)') - One(Watches(s))
      /\ attaching' = attaching + One(Attends(s)') - One(Attends(s)) /\ attaching' <= AttachSlots
  <2>1. CASE WatchStops(s)
    BY <1>1, <1>2, Bounds, <2>1 DEF WatchStops, OpenTypes, AttachTypes, HearTypes, StreamInv, FreshPhase, Fresh,
       AttachPhase, OwnerPhase, One, HoldsSlot, Watches, Attends
  <2>2. CASE CleanUp(s)
    BY <1>1, <1>2, Bounds, <2>2 DEF CleanUp, OpenTypes, AttachTypes, HearTypes, StreamInv, FreshPhase, Fresh,
       AttachPhase, OwnerPhase, One, HoldsSlot, Watches, Attends
  <2>3. CASE Hear(s)
    BY <1>1, <1>2, Bounds, <2>3 DEF Hear, OpenTypes, AttachTypes, HearTypes, StreamInv, FreshPhase, Fresh,
       AttachPhase, OwnerPhase, One, HoldsSlot, Watches, Attends
  <2>4. CASE Listen(s)
    BY <1>1, <1>2, Bounds, <2>4 DEF Listen, OpenTypes, AttachTypes, HearTypes, StreamInv, FreshPhase, Fresh,
       AttachPhase, OwnerPhase, One, HoldsSlot, Watches, Attends
  <2>5. CASE Deliver(s)
    BY <1>1, <1>2, Bounds, <2>5 DEF Deliver, OpenTypes, AttachTypes, HearTypes, StreamInv, FreshPhase, Fresh,
       AttachPhase, OwnerPhase, One, HoldsSlot, Watches, Attends
  <2> QED
    BY <2>1, <2>2, <2>3, <2>4, <2>5 DEF HearStep
<1>10. work' = work + Works(s)' - Works(s)
  <2>1. CASE WatchStops(s)
    BY <1>1, <1>2, <2>1 DEF WatchStops, OpenTypes, AttachTypes, HearTypes, StreamInv, FreshPhase, Fresh, AttachPhase,
       OwnerPhase, One, Works, Opens, Attaches
  <2>2. CASE CleanUp(s)
    BY <1>1, <1>2, <2>2 DEF CleanUp, OpenTypes, AttachTypes, HearTypes, StreamInv, FreshPhase, Fresh, AttachPhase,
       OwnerPhase, One, Works, Opens, Attaches
  <2>3. CASE Hear(s)
    BY <1>1, <1>2, <2>3 DEF Hear, OpenTypes, AttachTypes, HearTypes, StreamInv, FreshPhase, Fresh, AttachPhase,
       OwnerPhase, One, Works, Opens, Attaches
  <2>4. CASE Listen(s)
    BY <1>1, <1>2, <2>4 DEF Listen, OpenTypes, AttachTypes, HearTypes, StreamInv, FreshPhase, Fresh, AttachPhase,
       OwnerPhase, One, Works, Opens, Attaches
  <2>5. CASE Deliver(s)
    BY <1>1, <1>2, <2>5 DEF Deliver, OpenTypes, AttachTypes, HearTypes, StreamInv, FreshPhase, Fresh, AttachPhase,
       OwnerPhase, One, Works, Opens, Attaches
  <2> QED
    BY <2>1, <2>2, <2>3, <2>4, <2>5 DEF HearStep
<1>11. FreshPhase(s)' /\ AttachPhase(s)' /\ OwnerPhase(s)'
  BY <1>1 DEF HearStep, WatchStops, CleanUp, Hear, Listen, Deliver, OpenTypes, AttachTypes, HearTypes, StreamInv,
     FreshPhase, Fresh, AttachPhase, OwnerPhase
<1>12. WatchPhase(s)'
  BY <1>1 DEF HearStep, WatchStops, CleanUp, Hear, Listen, Deliver, OpenTypes, AttachTypes, HearTypes, StreamInv,
     FreshPhase, Fresh, AttachPhase, OwnerPhase, WatchPhase, Going, SetupDone
<1>13. Aware(s)'
  <2>1. CASE WatchStops(s)
    BY <1>1, <2>1 DEF WatchStops, OpenTypes, AttachTypes, HearTypes, StreamInv, FreshPhase, Fresh, AttachPhase,
       OwnerPhase, WatchPhase, Aware, Going, SetupDone, Closed
  <2>2. CASE CleanUp(s)
    BY <1>1, <2>2 DEF CleanUp, OpenTypes, AttachTypes, HearTypes, StreamInv, FreshPhase, Fresh, AttachPhase,
       OwnerPhase, WatchPhase, Aware, Going, SetupDone, Closed
  <2>3. CASE Hear(s)
    BY <1>1, <2>3 DEF Hear, OpenTypes, AttachTypes, HearTypes, StreamInv, FreshPhase, Fresh, AttachPhase, OwnerPhase,
       WatchPhase, Aware, Going, SetupDone, Closed
  <2>4. CASE Listen(s)
    BY <1>1, <2>4 DEF Listen, OpenTypes, AttachTypes, HearTypes, StreamInv, FreshPhase, Fresh, AttachPhase,
       OwnerPhase, WatchPhase, Aware, Going, SetupDone, Closed
  <2>5. CASE Deliver(s)
    BY <1>1, <2>5 DEF Deliver, OpenTypes, AttachTypes, HearTypes, StreamInv, FreshPhase, Fresh, AttachPhase,
       OwnerPhase, WatchPhase, Aware, Going, SetupDone, Closed
  <2> QED
    BY <2>1, <2>2, <2>3, <2>4, <2>5 DEF HearStep
<1>14. LockInv'
  <2>1. UNCHANGED <<up, subscribed, refs, opMu>>
    BY DEF HearStep, WatchStops, CleanUp, Hear, Listen, Deliver
  <2>2. att'[s] = att[s] \/ (att[s] \notin {"subscribe", "confirm"} /\ att'[s] \notin {"subscribe", "confirm"})
    BY <1>1 DEF HearStep, WatchStops, CleanUp, Hear, Listen, Deliver, OpenTypes, AttachTypes, HearTypes, StreamInv,
       FreshPhase, Fresh, AttachPhase, OwnerPhase
  <2> QED
    BY <1>7, <2>1, <2>2, LockStays
<1> QED
  BY <1>3, <1>4, <1>5, <1>6, <1>7, <1>8, <1>9, <1>10, <1>11, <1>12, <1>13, <1>14, StreamStep DEF RowsOK, StreamInv

\* What a step must show that leaves alone what is counted.
LEMMA SharedStep ==
  ASSUME SubInv, RowsOK', UNCHANGED <<at, att, lease, cleaning, watch, sup, mon, lis, slotVars, work, refs>>,
         closer' = "done" => work = 0, \A s \in Streams : StreamInv(s)', LockInv'
  PROVE  SubInv'
<1>1. CountInv'
  BY DEF SubInv, CountInv, HoldsSlot, Watches, Attends, Opens, Attaches, slotVars
<1>2. SubscriptionsTypeOK'
  BY DEF SubInv, SubscriptionsTypeOK, RowsOK, OpenTypes, AttachTypes, HearTypes, RestTypes, slotVars
<1> QED
  BY <1>1, <1>2 DEF SubInv

\* Streams that may end, and nothing else that StreamInv tells of.
LEMMA EndingKeeps ==
  ASSUME NEW s \in Streams, StreamInv(s), RowsOK,
         UNCHANGED <<at, att, lease, cleaning, watch, sup, mon, lis, inner, timeout, owned, ack, up>>,
         outer'[s] => outer[s],
         Closed' \/ (version' = version /\ wire' = wire /\ queue' = queue /\ outer'[s] = outer[s]
                       /\ unread' = unread /\ known' = known /\ closer' = closer)
  PROVE  StreamInv(s)'
<1>1. FreshPhase(s)' /\ AttachPhase(s)' /\ OwnerPhase(s)'
  BY DEF StreamInv, FreshPhase, Fresh, AttachPhase, OwnerPhase
<1>2. WatchPhase(s)'
  BY DEF StreamInv, WatchPhase, Going, SetupDone
<1>3. Aware(s)'
  BY DEF StreamInv, Aware, Going, Closed
<1> QED
  BY <1>1, <1>2, <1>3 DEF StreamInv

\* Close ends the streams, and returns when nothing works.
LEMMA CloseSteps == ASSUME SubInv, Close \/ CloseSessions \/ CloseReturns PROVE SubInv'
<1> USE DEF streamVars, attachVars, taskVars, hearVars, slotVars, upVars, watchVars, closeVars
<1>1. RowsOK
  BY RowTypes
<1>2. RowsOK'
  <2>1. CASE Close
    <3>1. outer' \in [Streams -> BOOLEAN]
      BY <1>1, <2>1 DEF Close, RowsOK, OpenTypes
    <3>2. taken' \subseteq Legacy
      BY <2>1 DEF Close
    <3>3. HearTypes'
      <4>1. HearNoMore({s \in Streams : ~ outer'[s]})
        BY <2>1 DEF Close
      <4>2. unread' \in [Streams -> 0 .. Buffer] /\ known' \in [Streams -> 0 .. MaxUpdates]
        BY <1>1, <4>1, Bounds DEF RowsOK, HearTypes, HearNoMore
      <4> QED
        BY <1>1, <2>1, <4>2 DEF Close, RowsOK, HearTypes
    <3> QED
      BY <1>1, <2>1, <3>1, <3>2, <3>3 DEF Close, RowsOK, OpenTypes, AttachTypes, RestTypes
  <2>2. CASE CloseSessions \/ CloseReturns
    BY <1>1, <2>2 DEF CloseSessions, CloseReturns, RowsOK, OpenTypes, AttachTypes, HearTypes, RestTypes
  <2> QED
    BY <2>1, <2>2
<1>3. UNCHANGED <<at, att, lease, cleaning, watch, sup, mon, lis, inner, timeout, owned, ack, up,
                  slotVars, work, refs, subscribed, opMu>>
  BY DEF Close, CloseSessions, CloseReturns
<1>4. Closed' /\ (closer' = "done" => work = 0)
  BY DEF Closed, Close, CloseSessions, CloseReturns, SubInv, CountInv
<1>5. ASSUME NEW s \in Streams PROVE StreamInv(s)'
  <2>1. outer'[s] => outer[s]
    BY DEF Close, CloseSessions, CloseReturns
  <2>2. StreamInv(s)
    BY DEF SubInv
  <2> QED
    BY <1>1, <1>3, <1>4, <2>1, <2>2, EndingKeeps
<1>6. LockInv'
  BY <1>3 DEF SubInv, LockInv
<1> QED
  BY <1>2, <1>3, <1>4, <1>5, <1>6, SharedStep

\* The upstream knows of the resource as long as a stream watches it.
LEMMA WatchedIsSubscribed ==
  ASSUME SubInv, NEW s \in Streams, Watches(s), up
  PROVE  subscribed
<1>1. PICK P \in SUBSET Streams : P = {t \in Streams : Watches(t)}
  OBVIOUS
<1>2. Cardinality(P) \in Nat /\ Cardinality(P) # 0
  BY <1>1, SubscriptionsAssumption, FS_Subset, FS_CardinalityType, FS_EmptySet
<1>3. refs > 0
  BY <1>1, <1>2 DEF SubInv, CountInv
<1> QED
  BY <1>3 DEF SubInv, LockInv

\* The resource changes, its notification is published, the connection is lost.
LEMMA UpstreamSteps == ASSUME SubInv, Update \/ PublishUpdate \/ Disconnect PROVE SubInv'
<1> USE DEF streamVars, attachVars, taskVars, hearVars, slotVars, upVars, watchVars, closeVars
<1>1. RowsOK
  BY RowTypes
<1>2. RowsOK'
  <2>1. OpenTypes' /\ AttachTypes'
    BY <1>1 DEF Update, PublishUpdate, Disconnect, RowsOK, OpenTypes, AttachTypes
  <2>2. HearTypes'
    BY <1>1 DEF Update, PublishUpdate, Disconnect, RowsOK, HearTypes
  <2>3. RestTypes'
    <3>1. CASE Update
      BY <1>1, <3>1, Bounds DEF Update, RowsOK, RestTypes
    <3>2. CASE PublishUpdate
      BY <1>1, <3>2 DEF PublishUpdate, RowsOK, RestTypes
    <3>3. CASE Disconnect
      <4>1. troubles' \in 0 .. MaxTroubles
        BY <1>1, <3>3, Bounds DEF Disconnect, Trouble, RowsOK, RestTypes
      <4> QED
        BY <1>1, <3>3, <4>1 DEF Disconnect, RowsOK, RestTypes
    <3> QED
      BY <3>1, <3>2, <3>3
  <2> QED
    BY <2>1, <2>2, <2>3 DEF RowsOK
<1>3. UNCHANGED <<at, outer, att, lease, cleaning, watch, sup, mon, lis, inner, timeout, owned, ack, unread, known,
                  slotVars, work, refs, opMu, closer>>
  BY DEF Update, PublishUpdate, Disconnect
<1>4. up' \in {up, FALSE}
  BY DEF Update, PublishUpdate, Disconnect
<1>5. ASSUME NEW s \in Streams PROVE StreamInv(s)'
  <2>1. FreshPhase(s)' /\ AttachPhase(s)' /\ OwnerPhase(s)'
    BY <1>3 DEF SubInv, StreamInv, FreshPhase, Fresh, AttachPhase, OwnerPhase
  <2>2. WatchPhase(s)'
    <3>1. (Going(s)' <=> Going(s)) /\ (SetupDone(s)' <=> SetupDone(s))
      BY <1>3 DEF Going, SetupDone
    <3>2. up' => up
      BY <1>4
    <3>3. StreamInv(s)
      BY DEF SubInv
    <3> QED
      BY <1>3, <3>1, <3>2, <3>3 DEF StreamInv, WatchPhase
  <2>3. Aware(s)'
    <3>1. CASE Disconnect
      BY <3>1 DEF Disconnect, Aware
    <3>2. SUFFICES ASSUME ~ Disconnect, at[s] = "open", ack[s] = "both", Going(s), up, cleaning[s] = "no",
                          ~ Closed, ~ wire', ~ queue'[s], ~ lis[s], unread[s] = 0
                   PROVE  known[s] = version'
      BY <1>3, <1>4, <3>1 DEF Aware, Going, Closed
    <3>3. watch[s] = "on"
      BY <3>2 DEF SubInv, StreamInv, WatchPhase
    <3>4. subscribed
      BY <3>2, <3>3, WatchedIsSubscribed DEF Watches
    <3>5. ~ Update
      BY <3>2, <3>4 DEF Update
    <3>6. CASE PublishUpdate
      BY <1>1, <3>2, <3>3, <3>6 DEF PublishUpdate, RowsOK, HearTypes
    <3> QED
      BY <3>2, <3>5, <3>6
  <2> QED
    BY <2>1, <2>2, <2>3 DEF StreamInv
<1>6. LockInv'
  BY <1>3 DEF SubInv, LockInv, Update, PublishUpdate, Disconnect
<1> QED
  BY <1>2, <1>3, <1>5, <1>6, SharedStep DEF SubInv, CountInv

\* Nothing is open in the beginning.
LEMMA SubStarts == SubscriptionsInit => SubInv
<1> SUFFICES ASSUME SubscriptionsInit PROVE SubInv
  OBVIOUS
<1>1. SubscriptionsTypeOK
  <2>1. Cardinality(Streams) \in Nat
    BY SubscriptionsAssumption, FS_CardinalityType
  <2>2. OpenTypes /\ AttachTypes
    BY DEF SubscriptionsInit, Of, OpenTypes, AttachTypes
  <2>3. HearTypes
    BY Bounds DEF SubscriptionsInit, Of, HearTypes
  <2>4. RestTypes
    <3>1. version \in 0 .. MaxUpdates /\ troubles \in 0 .. MaxTroubles
      BY Bounds DEF SubscriptionsInit
    <3>2. closer \in {"no", "sessions", "wait", "done"} /\ taken \subseteq Legacy
      BY DEF SubscriptionsInit
    <3>3. up \in BOOLEAN /\ wire \in BOOLEAN /\ subscribed \in BOOLEAN /\ opMu \in Streams \cup {NoStream}
      BY DEF SubscriptionsInit
    <3> QED
      BY <3>1, <3>2, <3>3 DEF RestTypes
  <2>5. slots \in 0 .. SourceSlots /\ attaching \in 0 .. AttachSlots /\ work \in Nat /\ refs \in 0 .. Cardinality(Streams)
    BY <2>1, Bounds DEF SubscriptionsInit
  <2> QED
    BY <2>2, <2>3, <2>4, <2>5 DEF OpenTypes, AttachTypes, HearTypes, RestTypes, SubscriptionsTypeOK
<1>2. CountInv
  <2>1. /\ {s \in Streams : HoldsSlot(s)} = {} /\ {s \in Streams : Watches(s)} = {}
        /\ {s \in Streams : Attends(s)} = {} /\ {s \in Streams : Opens(s)} = {}
        /\ {s \in Streams : Attaches(s)} = {} /\ {s \in Streams : sup[s]} = {}
        /\ {s \in Streams : mon[s]} = {} /\ {s \in Streams : lis[s]} = {}
    BY DEF SubscriptionsInit, Of, HoldsSlot, Watches, Attends, Opens, Attaches
  <2>2. Cardinality({}) = 0
    BY FS_EmptySet
  <2>3. slots = 0 /\ refs = 0 /\ attaching = 0 /\ work = 0
    BY DEF SubscriptionsInit
  <2> QED
    BY <2>1, <2>2, <2>3 DEF CountInv
<1>3. ASSUME NEW s \in Streams PROVE StreamInv(s)
  BY DEF SubscriptionsInit, Of, StreamInv, FreshPhase, Fresh, AttachPhase, OwnerPhase, WatchPhase, Aware
<1>4. LockInv
  BY SubscriptionsAssumption DEF SubscriptionsInit, Of, LockInv
<1> QED
  BY <1>1, <1>2, <1>3, <1>4 DEF SubInv

\* Every step keeps it.
LEMMA SubKept == SubInv /\ [SubscriptionsNext]_subscriptionVars => SubInv'
<1> SUFFICES ASSUME SubInv, [SubscriptionsNext]_subscriptionVars PROVE SubInv'
  OBVIOUS
<1>1. CASE UNCHANGED subscriptionVars
  <2> USE DEF subscriptionVars, streamVars, attachVars, taskVars, hearVars, slotVars, upVars, watchVars, closeVars
  <2>1. RowsOK /\ RowsOK'
    BY <1>1, RowTypes DEF RowsOK, OpenTypes, AttachTypes, HearTypes, RestTypes
  <2>2. ASSUME NEW s \in Streams PROVE StreamInv(s)'
    <3>1. StreamInv(s)
      BY DEF SubInv
    <3> QED
      BY <1>1, <2>1, <3>1, EndingKeeps
  <2>3. LockInv'
    BY <1>1 DEF SubInv, LockInv
  <2> QED
    BY <1>1, <2>1, <2>2, <2>3, SharedStep DEF SubInv, CountInv
<1>2. ASSUME NEW s \in Streams,
             BeginStep(s) \/ WaitStep(s) \/ EndStep(s) \/ AttachStep(s) \/ LockStep(s) \/ HearStep(s)
      PROVE  SubInv'
  BY <1>2, BeginSteps, WaitSteps, EndSteps, AttachSteps, LockSteps, HearSteps
<1>3. CASE SubscriptionsNext
  BY <1>2, <1>3, CloseSteps, UpstreamSteps
  DEF SubscriptionsNext, BeginStep, WaitStep, EndStep, AttachStep, LockStep, HearStep
<1> QED
  BY <1>1, <1>3

\* For any number of streams, slots, changes and failures, and whoever gives up
\* first: an ended stream holds a lease or a watch only while its clean-up is on its
\* way, and slots and references are given back exactly once.
THEOREM SourcesSafe == SubscriptionsSpec => []SourcesReturned
<1>1. SubInv => SourcesReturned
  <2> SUFFICES ASSUME SubInv PROVE SourcesReturned
    OBVIOUS
  <2>1. slots = Cardinality({s \in Streams : \/ at[s] = "attach"
                                             \/ cleaning[s] # "done" /\ (att[s] # "none" \/ lease[s])})
    BY DEF SubInv, CountInv, HoldsSlot
  <2>2. refs = Cardinality({s \in Streams : \/ watch[s] \in {"on", "stopping"}
                                            \/ watch[s] = "in" /\ att[s] = "confirm"})
    BY DEF SubInv, CountInv, Watches
  <2>3. ASSUME NEW s \in Streams, at[s] \in {"over", "open", "session"}, ~ Going(s), att[s] = "none", ~ sup[s],
               lease[s] \/ watch[s] \in {"in", "on", "plain"}
        PROVE  cleaning[s] = "begun"
    <3>1. StreamInv(s) /\ cleaning[s] \in {"no", "begun", "done"}
      BY DEF SubInv, SubscriptionsTypeOK
    <3> QED
      BY <2>3, <3>1 DEF StreamInv, AttachPhase, OwnerPhase
  <2> QED
    BY <2>1, <2>2, <2>3 DEF SourcesReturned
<1> QED
  BY <1>1, SubStarts, SubKept, PTL DEF SubscriptionsSpec

\* A change of the resource is told to every client that was acknowledged, or its
\* stream is ended: the watch it stands on keeps the upstream subscribed, and
\* nothing between the two forgets what it has taken.
THEOREM UpdatesReach == SubscriptionsSpec => []NoUpdateLost
<1>1. SubInv => NoUpdateLost
  BY DEF SubInv, StreamInv, Aware, NoUpdateLost
<1> QED
  BY <1>1, SubStarts, SubKept, PTL DEF SubscriptionsSpec

\* What the shutdown waits for is all that works: no attachment, supervisor,
\* monitor or listener runs when Close has returned.
THEOREM CloseWaits == SubscriptionsSpec => []CloseWaitsForWork
<1>1. SubInv => CloseWaitsForWork
  BY NothingWorks DEF Attaches, CloseWaitsForWork
<1> QED
  BY <1>1, SubStarts, SubKept, PTL DEF SubscriptionsSpec

\* The types of the rows, and counters within their limits: no more source slots
\* and attachments than the gateway has, and no counter below zero.
THEOREM SubscriptionsType == SubscriptionsSpec => []SubscriptionsTypeOK
<1>1. SubInv => SubscriptionsTypeOK
  BY DEF SubInv
<1> QED
  BY <1>1, SubStarts, SubKept, PTL DEF SubscriptionsSpec
===================================================================================
