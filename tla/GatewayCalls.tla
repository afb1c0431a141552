----------------------------- MODULE GatewayCalls -----------------------------
(***************************************************************************)
(* The life of a request in the gateway                                    *)
(* (internal/mcp/handler/gateway_handler.go, resources_prompts.go,         *)
(* protocol.go): the task and the registration it needs, the parts it fans *)
(* out to (the calls of mcp.execute_batch, the services of a list, the     *)
(* batches of a smart search), each with its checks, its lease of a pooled  *)
(* session, its hold of money and its upstream call, the answer, the log   *)
(* rows written after it, and Close, which has to wait for all of them.    *)
(*                                                                         *)
(* One service with one entry (a tool, a resource or a prompt) is called;  *)
(* SessionPool has the session it leases and Billing the money it moves.   *)
(***************************************************************************)
EXTENDS Naturals, FiniteSets

CONSTANTS Rpcs,  \* requests of clients
          Ids,       \* request ids
          MaxParts,  \* bound on the parts of a request; at most executeBatchMaxCalls
          Parallel,  \* executeBatchMaxParallel, upstreamFanoutConcurrency, Concurrency
          MaxActive, \* requests a key may have registered at a time
          MaxLoad,   \* bound on the parts of all requests together
          MaxEdits   \* bound on the edits of the groups

ASSUME GatewayCallsAssumption ==
  /\ IsFiniteSet(Rpcs) /\ Ids # {}
  /\ {MaxParts, Parallel, MaxActive, MaxLoad, MaxEdits} \subseteq Nat
  /\ MaxParts > 0 /\ Parallel > 0

VARIABLES
  phase,    \* where HandleRequest is
  method,     \* what the request asks for
  rid,      \* its id
  alive,    \* its context
  answer,   \* the response
  seen,     \* what the groups have said of the entry since the request came (history)
  at,       \* where each part is
  tries,    \* the route or lease is tried again
  leased,   \* the part has the session
  hold,     \* its billingOutcome
  result,   \* what its upstream call returned
  row,      \* its row of mcp_call_logs
  access,   \* what the groups of the key say of the entry
  edits,
  dbFails,  \* statements of the database may fail
  closing   \* where Close is

requestVars == <<phase, method, rid, alive, answer>>
partVars == <<at, tries, leased, hold, result>>
groupVars == <<seen, access, edits, dbFails>>
callVars == <<requestVars, partVars, row, groupVars, closing>>

Parts == 1 .. MaxParts
PartIds == Rpcs \X Parts   \* every part a request can have
Of(q) == {q} \X Parts
Methods == {"plain", "search", "tool", "execute", "batch", "read", "list", "rank"}

\* Methods that end in a call of the entry, and those that leave rows in the log.
CallMethods == {"tool", "execute", "batch", "read"}
LoggedMethods == CallMethods \cup {"search", "rank"}

\* What a request that has not come yet asks for does not matter.
AnId == CHOOSE i \in Ids : TRUE

CallsTypeOK ==
  /\ phase \in [Rpcs -> {"none", "task", "registered", "run", "leave", "over"}]
  /\ method \in [Rpcs -> Methods] /\ rid \in [Rpcs -> Ids]
  /\ alive \in [Rpcs -> BOOLEAN]
  /\ answer \in [Rpcs -> {"none", "error", "result"}]
  /\ seen \in [Rpcs -> SUBSET {"on", "entryOff", "off"}]
  /\ at \in [PartIds -> {"none", "wait", "scope", "route", "lease", "check", "price",
                                   "call", "settle", "done"}]
  /\ tries \in [PartIds -> 0 .. 1]
  /\ leased \in [PartIds -> BOOLEAN]
  /\ hold \in [PartIds -> {"none", "free", "pending", "charged", "refunded"}]
  /\ result \in [PartIds -> {"none", "ok", "failed"}]
  /\ row \in [PartIds -> {"none", "queued", "written", "failed", "dropped"}]
  /\ access \in {"on", "entryOff", "off"} /\ edits \in 0 .. MaxEdits /\ dbFails \in BOOLEAN
  /\ closing \in {"no", "work", "logs", "done"}

CallsInit ==
  /\ phase = [q \in Rpcs |-> "none"] /\ method = [q \in Rpcs |-> "plain"]
  /\ rid = [q \in Rpcs |-> AnId]
  /\ alive = [q \in Rpcs |-> TRUE] /\ answer = [q \in Rpcs |-> "none"]
  /\ seen = [q \in Rpcs |-> {}]
  /\ at = [w \in PartIds |-> "none"] /\ tries = [w \in PartIds |-> 0]
  /\ leased = [w \in PartIds |-> FALSE]
  /\ hold = [w \in PartIds |-> "none"]
  /\ result = [w \in PartIds |-> "none"]
  /\ row = [w \in PartIds |-> "none"]
  /\ access \in {"on", "entryOff"} /\ edits = 0 /\ dbFails \in BOOLEAN
  /\ closing = "no"

Inside(q) == phase[q] \in {"task", "registered", "run", "leave"}   \* counted by workWG
Registered(q) == phase[q] \in {"registered", "run"}                \* in streams.active
Closed == closing # "no"                                           \* streams.closed
LogClosed == closing \in {"logs", "done"}

Go(q, l) == phase' = [phase EXCEPT ![q] = l]
Part(w, l) == at' = [at EXCEPT ![w] = l]
Respond(q, a) == answer' = [answer EXCEPT ![q] = a]

\* queueLog: nothing is written once the log is closed.
Queue(S) ==
  row' = [w \in PartIds |->
            IF w \in S THEN IF LogClosed THEN "dropped" ELSE "queued" ELSE row[w]]

-----------------------------------------------------------------------------
(* The request                                                               *)

Comes(q) ==
  /\ phase[q] = "none"
  /\ \E k \in Methods, i \in Ids :
       method' = [method EXCEPT ![q] = k] /\ rid' = [rid EXCEPT ![q] = i]
  /\ UNCHANGED <<alive, partVars, row, access, edits, dbFails, closing>>

\* ValidateRequest, ValidateHTTPHeaders or ValidateToolHeaders refuses it, or
\* the gateway is closed.
Refused(q) == Comes(q) /\ Go(q, "over") /\ Respond(q, "error") /\ UNCHANGED seen

\* startGatewayTask: it becomes a task of the gateway.
Arrive(q) ==
  /\ Comes(q) /\ ~ Closed /\ Go(q, "task")
  /\ seen' = [seen EXCEPT ![q] = {access}] /\ UNCHANGED answer

\* registerStream.  Requests of a session or a connection are known by their
\* ids; others are only counted.
Full == Closed \/ Cardinality({p \in Rpcs : Registered(p)}) >= MaxActive
SameId(q) == \E p \in Rpcs : Registered(p) /\ rid[p] = rid[q]
Register(q) ==
  /\ phase[q] = "task"
  /\ \/ (Full \/ SameId(q)) /\ Go(q, "leave") /\ Respond(q, "error")
     \/ ~ Full /\ Go(q, "registered") /\ UNCHANGED answer
  /\ UNCHANGED <<method, rid, alive, partVars, row, groupVars, closing>>

\* The stage the n parts of a request start at, and the one they go to when they
\* have a slot.  The last choice of a smart search, alone, needs none.
Start(m, n) ==
  CASE m = "tool" -> "route"
    [] m \in {"execute", "read"} -> "scope"
    [] m = "rank" /\ n = 1 -> "call"
    [] OTHER -> "wait"
AfterSlot(m) ==
  CASE m = "batch" -> "scope" [] m = "list" -> "route" [] OTHER -> "call"

AnswerNow(q, a) ==
  /\ phase[q] = "registered" /\ Respond(q, a) /\ Go(q, "leave")
  /\ UNCHANGED <<method, rid, alive, partVars, groupVars, closing>>

\* The methods without a call: initialize, tools/list, ping and the like; and
\* mcp.search and mcp.describe, which are logged.
Inform(q) ==
  /\ method[q] = "plain" /\ UNCHANGED row
  /\ \E a \in {"error", "result"} : AnswerNow(q, a)
Search(q) ==
  /\ method[q] = "search" /\ Queue({<<q, 1>>})
  /\ \E a \in {"error", "result"} : AnswerNow(q, a)

\* Wrong parameters; if they cannot be read at all the log has no row.
Invalid(q) ==
  /\ AnswerNow(q, "error")
  /\ UNCHANGED row \/ (method[q] \in LoggedMethods /\ Queue({<<q, 1>>}))

\* A list or a smart search without a service is empty.
Empty(q) ==
  /\ AnswerNow(q, "result")
  /\ \/ method[q] = "list" /\ UNCHANGED row
     \/ method[q] = "rank" /\ Queue({<<q, 1>>})

\* The request fans out.
ServicesInScope == access # "off"
Dispatch(q) ==
  /\ phase[q] = "registered" /\ method[q] \notin {"plain", "search"}
  /\ method[q] = "list" => ServicesInScope
  /\ \E n \in Parts :
       /\ method[q] \in {"tool", "execute", "read"} => n = 1
       /\ n + Cardinality({w \in PartIds : at[w] # "none"}) <= MaxLoad
       /\ at' = [w \in PartIds |->
                   IF w[1] = q /\ w[2] <= n THEN Start(method[q], n) ELSE at[w]]
  /\ Go(q, "run")
  /\ UNCHANGED <<method, rid, alive, answer, tries, leased, hold, result, row, groupVars,
                 closing>>

\* notifications/cancelled, or the client has gone, or the 60 s of a smart search
\* are over.
Cancel(q) ==
  /\ phase[q] \in {"task", "registered", "run"} /\ alive[q]
  /\ alive' = [alive EXCEPT ![q] = FALSE]
  /\ UNCHANGED <<phase, method, rid, answer, partVars, row, groupVars, closing>>

\* The first failing batch of a smart search cancels the others.
Failed(q) == \E w \in Of(q) : result[w] = "failed"
WaveEnds(q) == ~ alive[q] \/ Failed(q)

Used(q) == {w \in Of(q) : at[w] # "none"}

\* The first part answers for all (to test the checks).
FirstReturned(q) == \E w \in Used(q) : at[w] = "done"
AllReturned(q) == \A w \in Used(q) : at[w] = "done"
Gather(q, a) ==
  /\ phase[q] = "run" /\ AllReturned(q)
  /\ Respond(q, a) /\ Go(q, "leave")
  /\ UNCHANGED <<method, rid, alive, partVars, groupVars, closing>>

\* A list tells what it got, however little, and is not logged; a batch tells
\* which of its calls failed and has a row for each, another call one row.
GatherList(q) == method[q] = "list" /\ Gather(q, "result") /\ UNCHANGED row
Reply(q) == IF method[q] = "batch" \/ result[<<q, 1>>] = "ok" THEN "result" ELSE "error"
GatherCalls(q) == method[q] \in CallMethods /\ Gather(q, Reply(q)) /\ Queue(Used(q))

\* SemanticRank: a wave of batches in which none failed is followed by one of
\* what they kept, which is not larger, and at last by one choice alone.
Last(q) == Cardinality(Used(q)) = 1
NextWave(q) ==
  /\ phase[q] = "run" /\ method[q] = "rank" /\ AllReturned(q)
  /\ ~ Last(q) /\ ~ WaveEnds(q)
  /\ \E n \in Parts :
       /\ n <= Cardinality(Used(q))
       /\ at' = [w \in PartIds |->
                   IF w[1] # q THEN at[w]
                   ELSE IF w[2] <= n THEN Start("rank", n) ELSE "none"]
  /\ result' = [w \in PartIds |-> IF w[1] = q THEN "none" ELSE result[w]]
  /\ UNCHANGED <<requestVars, tries, leased, hold, row, groupVars, closing>>

\* The last choice may come although the context has ended.
GatherRank(q) ==
  /\ method[q] = "rank" /\ (Last(q) \/ WaveEnds(q))
  /\ Gather(q, IF Last(q) /\ ~ Failed(q) THEN "result" ELSE "error")
  /\ Queue({<<q, 1>>})

\* The registration is removed, the task done, and the client has its answer.
Leave(q) ==
  /\ phase[q] = "leave"
  /\ Go(q, "over") /\ alive' = [alive EXCEPT ![q] = FALSE]
  /\ seen' = [seen EXCEPT ![q] = {}]
  /\ UNCHANGED <<method, rid, answer, partVars, row, access, edits, dbFails, closing>>

-----------------------------------------------------------------------------
(* A part                                                                    *)

Refuse(w) == Part(w, "done") /\ leased' = [leased EXCEPT ![w] = FALSE]

\* A part that is done keeps its slot (to test the checks).
SlotsKept(q) == Cardinality({w \in Of(q) : at[w] \notin {"none", "wait"}})

\* The semaphore.  Only a smart search gives up waiting for it.
SlotsTaken(q) == Cardinality({w \in Of(q) : at[w] \notin {"none", "wait", "done"}})
TakeSlot(w) ==
  /\ at[w] = "wait"
  /\ \/ /\ SlotsTaken(w[1]) < Parallel
        /\ Part(w, AfterSlot(method[w[1]]))
     \/ method[w[1]] = "rank" /\ WaveEnds(w[1]) /\ Part(w, "done")
  /\ UNCHANGED <<requestVars, tries, leased, hold, result, row, groupVars, closing>>

\* isServiceInApiKeyScope
Scope(w) ==
  /\ at[w] = "scope"
  /\ \/ ServicesInScope /\ Part(w, "route")
     \/ (access = "off" \/ dbFails) /\ Part(w, "done")
  /\ UNCHANGED <<requestVars, tries, leased, hold, result, row, groupVars, closing>>

\* routeOrConnect, connectServiceByName
Route(w) ==
  /\ at[w] = "route"
  /\ \E l \in {"lease", "done"} : Part(w, l)
  /\ UNCHANGED <<requestVars, tries, leased, hold, result, row, groupVars, closing>>

\* AcquireSession, which is tried twice when the session leaves the pool.
Lease(w) ==
  /\ at[w] = "lease"
  /\ \/ /\ Part(w, IF method[w[1]] = "list" THEN "call" ELSE "check")
        /\ leased' = [leased EXCEPT ![w] = TRUE] /\ tries' = [tries EXCEPT ![w] = 0]
     \/ Part(w, "done") /\ tries' = [tries EXCEPT ![w] = 0] /\ UNCHANGED leased
     \/ /\ tries[w] = 0 /\ tries' = [tries EXCEPT ![w] = 1]
        /\ Part(w, "route") /\ UNCHANGED leased
  /\ UNCHANGED <<requestVars, hold, result, row, groupVars, closing>>

\* Only the service has to be in the scope (to test the checks).
ToolInScope == access # "off"

\* toolAccessible.  A failing read of the filters enables a tool.
ToolAccessible == access = "on" \/ (access = "entryOff" /\ dbFails)
CheckTool(w) ==
  /\ at[w] = "check" /\ method[w[1]] # "read"
  /\ \/ ToolAccessible /\ Part(w, "price") /\ UNCHANGED leased
     \/ (access # "on" \/ dbFails) /\ Refuse(w)
  /\ UNCHANGED <<requestVars, tries, hold, result, row, groupVars, closing>>

\* itemDisabledInOwningGroup: an entry is enabled unless a row of the group that
\* has the service says otherwise.
CheckItem(w) ==
  /\ at[w] = "check" /\ method[w[1]] = "read"
  /\ \/ (access # "entryOff" \/ dbFails) /\ Part(w, "price") /\ UNCHANGED leased
     \/ access = "entryOff" /\ Refuse(w)
  /\ UNCHANGED <<requestVars, tries, hold, result, row, groupVars, closing>>

\* preConsumeBilling: nothing is held for own services, free entries, in debt,
\* and for a request that the log shows as charged; or the call is blocked.
Price(w) ==
  /\ at[w] = "price"
  /\ \/ /\ hold' \in {[hold EXCEPT ![w] = h] : h \in {"free", "pending"}}
        /\ Part(w, "call") /\ UNCHANGED leased
     \/ Refuse(w) /\ UNCHANGED hold
  /\ UNCHANGED <<requestVars, tries, result, row, groupVars, closing>>

\* The upstream answers, or it does not and a deadline or the end of the
\* context does: callTool, readResourceWithMeta, getPromptWithMeta, the fetch of
\* a list, rankChoice.
Returned(w, r) ==
  /\ at[w] = "call" /\ Part(w, "settle")
  /\ result' = [result EXCEPT ![w] = r]
  /\ UNCHANGED <<requestVars, tries, leased, hold, row, groupVars, closing>>
Upstream(w) == \E r \in {"ok", "failed"} : Returned(w, r)
Deadline(w) == method[w[1]] \in {"execute", "batch"} /\ Returned(w, "failed")
Cancelled(w) ==
  /\ IF method[w[1]] = "rank" THEN WaveEnds(w[1]) ELSE ~ alive[w[1]]
  /\ Returned(w, "failed")

\* ShouldChargeCall: a failure that the client caused, or a timeout, is charged
\* if an option says so; the result of a tool may be such a failure (isError),
\* that of a read is not.
ChargeCall(w) ==
  IF result[w] = "ok" /\ method[w[1]] = "read" THEN {"charged"} ELSE {"charged", "refunded"}

\* finalizeBilling and the release of the session
Settle(w) ==
  /\ at[w] = "settle"
  /\ hold' \in {[hold EXCEPT ![w] = IF @ = "pending" THEN h ELSE @] : h \in ChargeCall(w)}
  /\ Refuse(w)
  /\ UNCHANGED <<requestVars, tries, result, row, groupVars, closing>>

PartStep(w) ==
  \/ TakeSlot(w) \/ Scope(w) \/ Route(w) \/ Lease(w) \/ CheckTool(w) \/ CheckItem(w)
  \/ Price(w) \/ Settle(w)

-----------------------------------------------------------------------------
(* The log, the groups and Close                                             *)

\* recordLog, recordLogs: the rows of a request are written in their order.
WriteRow(w) ==
  /\ row[w] = "queued" /\ \A v \in Of(w[1]) : v[2] < w[2] => row[v] # "queued"
  /\ \E r \in {"written", "failed"} :
       /\ r = "failed" => dbFails
       /\ row' = [row EXCEPT ![w] = r]
  /\ UNCHANGED <<requestVars, partVars, groupVars, closing>>

\* The groups of the key are edited: the entry is disabled, or the service
\* removed.
EditGroups ==
  /\ edits < MaxEdits /\ edits' = edits + 1
  /\ access' \in {"on", "entryOff", "off"} \ {access}
  /\ seen' = [q \in Rpcs |-> IF Inside(q) THEN seen[q] \cup {access'} ELSE seen[q]]
  /\ UNCHANGED <<requestVars, partVars, row, dbFails, closing>>

\* Close: no new work, every registered request is cancelled; then the work and
\* the log are waited for.
Close ==
  /\ closing = "no" /\ closing' = "work"
  /\ alive' = [q \in Rpcs |-> alive[q] /\ ~ Registered(q)]
  /\ UNCHANGED <<phase, method, rid, answer, partVars, row, groupVars>>

\* Nobody is waited for (to test the checks).
WorkEndsAtOnce ==
  /\ closing = "work" /\ closing' = "logs"
  /\ UNCHANGED <<requestVars, partVars, row, groupVars>>
WorkEnds ==
  /\ closing = "work" /\ \A q \in Rpcs : ~ Inside(q)
  /\ closing' = "logs"
  /\ UNCHANGED <<requestVars, partVars, row, groupVars>>
LogsEnd ==
  /\ closing = "logs" /\ \A w \in PartIds : row[w] # "queued"
  /\ closing' = "done"
  /\ UNCHANGED <<requestVars, partVars, row, groupVars>>

\* The client sends its next request, to the next process if this one is
\* closed; another is sent once the rows of this one are written.
Again(q) ==
  /\ phase[q] = "over" /\ \A w \in Of(q) : row[w] # "queued"
  /\ Go(q, "none") /\ alive' = [alive EXCEPT ![q] = TRUE] /\ Respond(q, "none")
  /\ method' = [method EXCEPT ![q] = "plain"] /\ rid' = [rid EXCEPT ![q] = AnId]
  /\ at' = [w \in PartIds |-> IF w[1] = q THEN "none" ELSE at[w]]
  /\ tries' = [w \in PartIds |-> IF w[1] = q THEN 0 ELSE tries[w]]
  /\ hold' = [w \in PartIds |-> IF w[1] = q THEN "none" ELSE hold[w]]
  /\ result' = [w \in PartIds |-> IF w[1] = q THEN "none" ELSE result[w]]
  /\ row' = [w \in PartIds |-> IF w[1] = q THEN "none" ELSE row[w]]
  /\ UNCHANGED <<leased, groupVars, closing>>
Restart ==
  /\ closing = "done" /\ closing' = "no"
  /\ UNCHANGED <<requestVars, partVars, row, groupVars>>

CallsNext ==
  \/ \E q \in Rpcs :
       \/ Refused(q) \/ Arrive(q) \/ Register(q) \/ Inform(q) \/ Search(q) \/ Invalid(q)
       \/ Empty(q) \/ Dispatch(q) \/ Cancel(q) \/ GatherList(q) \/ GatherCalls(q)
       \/ NextWave(q) \/ GatherRank(q) \/ Leave(q) \/ Again(q)
  \/ \E w \in PartIds :
       \/ TakeSlot(w) \/ Scope(w) \/ Route(w) \/ Lease(w) \/ CheckTool(w) \/ CheckItem(w)
       \/ Price(w) \/ Upstream(w) \/ Deadline(w) \/ Cancelled(w) \/ Settle(w) \/ WriteRow(w)
  \/ EditGroups \/ Close \/ WorkEnds \/ LogsEnd \/ Restart

CallsSpec == CallsInit /\ [][CallsNext]_callVars

\* What the gateway does by itself, and what deadlines and cancelled contexts do,
\* even if no upstream answers any more.
Steps(q) ==
  \/ Register(q) \/ Inform(q) \/ Search(q) \/ Invalid(q) \/ Empty(q) \/ Dispatch(q)
  \/ GatherList(q) \/ GatherCalls(q) \/ NextWave(q) \/ GatherRank(q) \/ Leave(q)
  \/ \E w \in Of(q) : PartStep(w) \/ Deadline(w) \/ Cancelled(w) \/ WriteRow(w)

-----------------------------------------------------------------------------
(* Properties                                                                *)

\* A client has its answer, and the task is over, only when no part of the
\* request is at work any more: each has given back its session and settled its
\* hold, and a smart search is answered with a choice that was heard
\* (HandleRequest, executeOne, handleExecuteBatch, SemanticRank).
AnsweredIsSettled ==
  \A q \in Rpcs : phase[q] \in {"none", "leave", "over"} =>
    \A w \in Of(q) :
      /\ at[w] \in {"none", "done"} /\ ~ leased[w] /\ hold[w] # "pending"
      /\ answer[q] = "result" /\ method[q] = "rank" /\ at[w] = "done" => result[w] = "ok"

\* A tool is called only for a request that came before the groups of its key
\* stopped to enable it, however the name was found and however long the session
\* took; a read of an entry that was disabled all the time is refused (it goes
\* through when the service leaves the group after the look at the scope)
\* (toolAccessible, itemDisabledInOwningGroup).
CallsAllowed ==
  \A q \in Rpcs : \A w \in Of(q) :
    at[w] \in {"call", "settle"} /\ method[q] \in CallMethods =>
      \/ "on" \in seen[q]
      \/ dbFails /\ "entryOff" \in seen[q]
      \/ method[q] = "read" /\ {"entryOff", "off"} \subseteq seen[q]

\* No row of the log is lost because the gateway stops: what was called before
\* Close is in the log, with what it cost, when the database is closed
\* (queueLog, Close).
NoRowDropped ==
  \A w \in PartIds :
    row[w] # "dropped" /\ (closing = "done" => row[w] # "queued" /\ ~ leased[w])

\* Nobody waits forever for a slot of the fan-out, a part or an upstream that
\* does not answer: a request whose calls have a deadline or whose context has
\* ended can go on until it is answered, and so can Close until it has waited for
\* all (executeOne, handleExecuteBatch, SemanticRank, Close).
NobodyStuck ==
  /\ \A q \in Rpcs :
       /\ Inside(q)
       /\ phase[q] = "run" => ~ alive[q] \/ method[q] \in {"execute", "batch"}
       => ENABLED Steps(q)
  /\ closing \in {"work", "logs"} =>
       ENABLED WorkEnds \/ ENABLED LogsEnd \/ \E q \in Rpcs : ENABLED Steps(q)
===============================================================================
