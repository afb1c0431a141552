------------------------------- MODULE Catalog -------------------------------
(***************************************************************************)
(* The catalog of one service: the lists its upstream offers, the copy the *)
(* SDK adapter keeps (internal/mcp/transport/sdk_adapter.go) and the cache *)
(* columns of the service row, which the worker of the pooled session      *)
(* writes (internal/mcp/bridge/session_pool.go).                           *)
(*                                                                         *)
(* A list is the number of times it has changed.  Resources, templates and *)
(* prompts are treated alike and stand as one list.  Outbound services     *)
(* connect under the connect lock, passive ones come in connected and take *)
(* the lock to attach.                                                     *)
(***************************************************************************)
EXTENDS Naturals, FiniteSets

CONSTANTS Sessions,   \* connections to the upstream, each made once
          NoSession,
          MaxChanges, \* bound on the changes of a list
          MaxFailures \* bound on failing requests and statements

ASSUME CatalogAssumption ==
  NoSession \notin Sessions /\ MaxChanges \in Nat /\ MaxFailures \in Nat

Items == {"tools", "lists"}
Versions == 0 .. MaxChanges

VARIABLES
  passive,   \* the local server dials in
  upstream,  \* the lists of the upstream
  row,       \* tools_cache, and resources_cache with prompts_cache
  current,   \* the session of the service in the pool
  holder,    \* the session whose goroutine is inside the connect lock over several steps
  ses,       \* the sessions
  catFaults  \* failures so far

catalogVars == <<passive, upstream, row, current, holder, ses, catFaults>>

\* The job under session.refreshMu: the worker's, or a user's manual refresh.
NoJob == [of |-> "none", at |-> "none", items |-> {}, got |-> 0, retry |-> {}]

NewSes ==
  [at |-> "free",       \* the goroutine that connects and publishes
   up |-> FALSE,        \* Adapter.IsConnected
   ended |-> FALSE,     \* closeSession
   notice |-> {},       \* list_changed notifications under way
   asked |-> FALSE,     \* adapter.refreshRequests, of capacity 1
   loop |-> "idle",     \* adapter.refreshLoop
   snap |-> 0,          \* adapter.tools
   handler |-> FALSE,   \* adapter.toolsChanged
   tools |-> 0,         \* session.Tools
   watch |-> FALSE,     \* the worker watches the lists
   pending |-> {},      \* catalogPending
   job |-> NoJob]

CatalogTypeOK ==
  /\ passive \in BOOLEAN /\ upstream \in [Items -> Versions] /\ row \in [Items -> Versions]
  /\ current \in Sessions \cup {NoSession} /\ holder \in Sessions \cup {NoSession}
  /\ catFaults \in 0 .. MaxFailures
  /\ \A s \in Sessions :
       /\ ses[s].at \in {"free", "connected", "publish", "rows", "observe", "out"}
       /\ ses[s].loop \in {"idle", "list", "tell"}
       /\ {ses[s].up, ses[s].ended, ses[s].asked, ses[s].handler, ses[s].watch} \subseteq BOOLEAN
       /\ {ses[s].snap, ses[s].tools, ses[s].job.got} \subseteq Versions
       /\ ses[s].notice \cup ses[s].pending \cup ses[s].job.items \cup ses[s].job.retry \subseteq Items
       /\ ses[s].job.of \in {"none", "worker", "user"}
       /\ ses[s].job.at \in {"none", "tools", "fetch", "write"}

CatalogInit ==
  /\ passive \in BOOLEAN
  /\ upstream = [i \in Items |-> 0] /\ row = [i \in Items |-> 0]
  /\ current = NoSession /\ holder = NoSession
  /\ ses = [s \in Sessions |-> NewSes]
  /\ catFaults = 0

\* A lost connection brings no more notifications; closeSession ends the worker.
Down(r) == [r EXCEPT !.up = FALSE, !.notice = {}, !.asked = FALSE]
Closed(r) == [Down(r) EXCEPT !.ended = TRUE, !.handler = FALSE, !.pending = {}]
SessionUp(s) == s # NoSession /\ ses[s].up

Fault == catFaults < MaxFailures /\ catFaults' = catFaults + 1
NoFault == UNCHANGED catFaults

\* queueCatalogRefresh
Queued(r, items) == IF r.ended THEN r ELSE [r EXCEPT !.pending = @ \cup items]

-----------------------------------------------------------------------------
(* The upstream and the connection                                           *)

\* The upstream changes a list and tells every connection.
Change(i) ==
  /\ upstream[i] < MaxChanges
  /\ upstream' = [upstream EXCEPT ![i] = @ + 1]
  /\ ses' = [s \in Sessions |-> IF ses[s].up THEN [ses[s] EXCEPT !.notice = @ \cup {i}] ELSE ses[s]]
  /\ UNCHANGED <<passive, row, current, holder, catFaults>>

\* SDKAdapter.Connect: the handshake and the first tools/list.
Dial(s) ==
  /\ ses[s].at = "free"
  /\ passive \/ (holder = NoSession /\ ~ SessionUp(current))
  /\ holder' = IF passive THEN holder ELSE s
  /\ ses' = [ses EXCEPT ![s].at = "connected", ![s].up = TRUE, ![s].snap = upstream["tools"]]
  /\ UNCHANGED <<passive, upstream, row, current, catFaults>>

\* The connection is lost: refreshLoop ends with it.
Lose(s) ==
  /\ ses[s].up
  /\ ses' = [ses EXCEPT ![s] = Down(@)]
  /\ UNCHANGED <<passive, upstream, row, current, holder, catFaults>>

\* ToolListChangedHandler, and the list watcher of the worker.
Receive(s, i) ==
  /\ i \in ses[s].notice /\ ses[s].up
  /\ LET r == [ses[s] EXCEPT !.notice = @ \ {i}]
     IN ses' = [ses EXCEPT ![s] =
                  IF i = "tools" THEN [r EXCEPT !.asked = TRUE]
                  ELSE IF r.watch THEN Queued(r, {i}) ELSE r]
  /\ UNCHANGED <<passive, upstream, row, current, holder, catFaults>>

\* refreshLoop takes a request, ...
LoopTakes(s) ==
  /\ ses[s].asked /\ ses[s].loop = "idle" /\ ses[s].up
  /\ ses' = [ses EXCEPT ![s].asked = FALSE, ![s].loop = "list"]
  /\ UNCHANGED <<passive, upstream, row, current, holder, catFaults>>

\* ... lists the tools, which may fail and is not tried again, ...
LoopLists(s) ==
  /\ ses[s].loop = "list"
  /\ \/ ses[s].up /\ NoFault
        /\ ses' = [ses EXCEPT ![s].snap = upstream["tools"], ![s].loop = "tell"]
     \/ (IF ses[s].up THEN Fault ELSE NoFault) /\ ses' = [ses EXCEPT ![s].loop = "idle"]
  /\ UNCHANGED <<passive, upstream, row, current, holder>>

\* ... and tells the handler, if there is one.
LoopTells(s) ==
  /\ ses[s].loop = "tell"
  /\ LET r == [ses[s] EXCEPT !.loop = "idle"]
     IN ses' = [ses EXCEPT ![s] = IF r.handler THEN Queued(r, {"tools"}) ELSE r]
  /\ UNCHANGED <<passive, upstream, row, current, holder, catFaults>>

-----------------------------------------------------------------------------
(* Publication under the connect lock                                        *)

\* newSession copies the adapter's tools.
NewSession(s) ==
  /\ ses[s].at = "connected"
  /\ IF passive THEN holder = NoSession ELSE holder = s
  /\ holder' = s
  /\ ses' = [ses EXCEPT ![s].at = "publish", ![s].tools = ses[s].snap]
  /\ UNCHANGED <<passive, upstream, row, current, catFaults>>

\* publishSessionLocked: a passive session stores its row and enters the map in
\* one critical section, an outbound one enters first.
PublishSession(s) ==
  /\ ses[s].at = "publish" /\ (passive => ses[s].up)
  /\ current' = s
  /\ row' = IF passive THEN [row EXCEPT !["tools"] = ses[s].tools] ELSE row
  /\ ses' = [t \in Sessions |->
               IF t = s THEN [ses[s] EXCEPT !.at = IF passive THEN "observe" ELSE "rows"]
               ELSE IF t = current THEN Closed(ses[t]) ELSE ses[t]]
  /\ UNCHANGED <<passive, upstream, holder, catFaults>>

\* A passive session that is gone, or whose row cannot be written, is refused.
CatalogRefused(s) ==
  /\ ses[s].at = "publish" /\ passive
  /\ IF ses[s].up THEN Fault ELSE NoFault
  /\ ses' = [ses EXCEPT ![s] = Closed([@ EXCEPT !.at = "out"])]
  /\ holder' = NoSession
  /\ UNCHANGED <<passive, upstream, row, current>>

MayWriteAlways(s) == TRUE   \* no check whose turn it is (to test the checks)

\* writeSessionUpdatesLocked: only the current, connected session writes.
MayWrite(s) == current = s /\ ses[s].up

CacheRow(s) ==
  /\ ses[s].at = "rows"
  /\ \/ MayWrite(s) /\ NoFault /\ row' = [row EXCEPT !["tools"] = ses[s].tools]
     \/ (IF MayWrite(s) THEN Fault ELSE NoFault) /\ UNCHANGED row
  /\ ses' = [ses EXCEPT ![s].at = "observe"]
  /\ UNCHANGED <<passive, upstream, current, holder>>

\* observeSession sets the handler and starts the worker; the lock is given back.
Observe(s) ==
  /\ ses[s].at = "observe"
  /\ ses' = [ses EXCEPT ![s].at = "out", ![s].handler = TRUE]
  /\ holder' = NoSession
  /\ UNCHANGED <<passive, upstream, row, current, catFaults>>

\* The Done watcher, under the lock; an edit of the service, which may come
\* without it.
Leave(s) ==
  /\ current = s
  /\ \/ ses[s].at = "out" /\ ~ ses[s].up /\ holder = NoSession
     \/ ses[s].up
  /\ current' = NoSession
  /\ ses' = [ses EXCEPT ![s] = Closed(@)]
  /\ UNCHANGED <<passive, upstream, row, holder, catFaults>>

-----------------------------------------------------------------------------
(* The worker, and a manual refresh                                          *)

WatchUnasked(s) ==   \* without the first refresh (to test the checks)
  /\ ses[s].at = "out" /\ ses[s].handler /\ ses[s].up /\ ~ ses[s].watch
  /\ ses' = [ses EXCEPT ![s].watch = TRUE]
  /\ UNCHANGED <<passive, upstream, row, current, holder, catFaults>>

\* observeCatalog watches the lists and asks for the first refresh.
Watch(s) ==
  /\ ses[s].at = "out" /\ ses[s].handler /\ ses[s].up /\ ~ ses[s].watch
  /\ ses' = [ses EXCEPT ![s] = Queued([@ EXCEPT !.watch = TRUE], {"lists"})]
  /\ UNCHANGED <<passive, upstream, row, current, holder, catFaults>>

\* The worker takes what is pending and leases the session: one that has been
\* replaced needs no refresh.
TakePending(s) ==
  /\ ses[s].watch /\ ~ ses[s].ended /\ ses[s].pending # {} /\ ses[s].job = NoJob
  /\ ses' = [ses EXCEPT ![s].pending = {},
               ![s].job = IF MayWrite(s)
                          THEN [NoJob EXCEPT !.of = "worker", !.at = "tools", !.items = ses[s].pending]
                          ELSE NoJob]
  /\ UNCHANGED <<passive, upstream, row, current, holder, catFaults>>

\* SessionPool.RefreshTools on behalf of a user: the adapter lists the tools.
UserRefresh(s) ==
  /\ current = s /\ ses[s].up /\ ses[s].job = NoJob
  /\ ses' = [ses EXCEPT ![s].snap = upstream["tools"],
               ![s].job = [NoJob EXCEPT !.of = "user", !.at = "tools", !.items = Items]]
  /\ UNCHANGED <<passive, upstream, row, current, holder, catFaults>>

\* The end of a job; the worker queues what failed again.
JobDone(r, failed) ==
  LET again == IF r.job.of = "worker" THEN r.job.retry \cup failed ELSE {}
  IN Queued([r EXCEPT !.job = NoJob], again)

\* A manual refresh stops when its tools cannot be written, the worker goes on.
ToolsFailed(r) ==
  IF r.job.of = "worker" THEN [r EXCEPT !.job.at = "fetch", !.job.retry = {"tools"}]
  ELSE [r EXCEPT !.job = NoJob]

\* syncToolsLocked
SyncTools(s) ==
  /\ ses[s].job.at = "tools" /\ holder = NoSession
  /\ \/ /\ "tools" \in ses[s].job.items /\ MayWrite(s) /\ NoFault
        /\ row' = [row EXCEPT !["tools"] = ses[s].snap]
        /\ ses' = [ses EXCEPT ![s].tools = ses[s].snap, ![s].job.at = "fetch"]
     \/ /\ "tools" \in ses[s].job.items /\ MayWrite(s) /\ Fault
        /\ ses' = [ses EXCEPT ![s] = ToolsFailed(@)]
        /\ UNCHANGED row
     \/ /\ "tools" \notin ses[s].job.items \/ ~ MayWrite(s)
        /\ ses' = [ses EXCEPT ![s] =
             IF @.job.of = "worker" THEN [@ EXCEPT !.job.at = "fetch"] ELSE [@ EXCEPT !.job = NoJob]]
        /\ NoFault /\ UNCHANGED row
  /\ UNCHANGED <<passive, upstream, current, holder>>

\* fetchResourcesCacheResult and fetchPromptsCacheResult, without the lock.  When
\* the attempt's time is up, all of it is to be done again.
Fetch(s) ==
  /\ ses[s].job.at = "fetch"
  /\ LET r == ses[s]
     IN \/ /\ "lists" \in r.job.items /\ r.up /\ NoFault
           /\ ses' = [ses EXCEPT ![s].job.got = upstream["lists"], ![s].job.at = "write"]
        \/ /\ "lists" \in r.job.items /\ (IF r.up THEN Fault ELSE NoFault)
           /\ \E again \in {{"lists"}, r.job.items} : ses' = [ses EXCEPT ![s] = JobDone(r, again)]
        \/ /\ "lists" \notin r.job.items /\ NoFault
           /\ ses' = [ses EXCEPT ![s] = JobDone(r, {})]
  /\ UNCHANGED <<passive, upstream, row, current, holder>>

\* writeCatalogUpdatesLocked
WriteLists(s) ==
  /\ ses[s].job.at = "write" /\ holder = NoSession
  /\ \/ /\ MayWrite(s) /\ NoFault
        /\ row' = [row EXCEPT !["lists"] = ses[s].job.got]
        /\ ses' = [ses EXCEPT ![s] = JobDone(@, {})]
     \/ /\ IF MayWrite(s) THEN Fault ELSE NoFault
        /\ ses' = [ses EXCEPT ![s] = JobDone(@, {"lists"})]
        /\ UNCHANGED row
  /\ UNCHANGED <<passive, upstream, current, holder>>

CatalogNext ==
  \/ \E i \in Items : Change(i)
  \/ \E s \in Sessions :
       \/ Dial(s) \/ Lose(s) \/ (\E i \in Items : Receive(s, i))
       \/ LoopTakes(s) \/ LoopLists(s) \/ LoopTells(s)
       \/ NewSession(s) \/ PublishSession(s) \/ CatalogRefused(s) \/ CacheRow(s) \/ Observe(s)
       \/ Leave(s) \/ Watch(s) \/ TakePending(s) \/ UserRefresh(s)
       \/ SyncTools(s) \/ Fetch(s) \/ WriteLists(s)

CatalogSpec == CatalogInit /\ [][CatalogNext]_catalogVars

-----------------------------------------------------------------------------
(* Properties                                                                *)

\* A list fetched without the lock never replaces a newer one, and neither does
\* what a session that was replaced has fetched: only the attachment of another
\* passive connection may bring back the tools it listed at its handshake.
CatalogNeverGoesBack ==
  [][\A i \in Items : row'[i] < row[i] => passive /\ i = "tools" /\ current' # current]_catalogVars

\* The session is in use and nothing is on its way to its row.
Settled(s) ==
  /\ current = s /\ ses[s].up /\ ses[s].at = "out" /\ ses[s].watch
  /\ ses[s].notice = {} /\ ~ ses[s].asked /\ ses[s].loop = "idle"
  /\ ses[s].pending = {} /\ ses[s].job = NoJob

\* A change of the resources or prompts is never forgotten: as long as the row
\* differs from the upstream, a notification, a pending refresh or a retry is
\* there to bring it.
ListsSettled == \A s \in Sessions : Settled(s) => row["lists"] = upstream["lists"]

\* The same of the tools (docs/API.md:528, docs/MCP-PROTOCOL.md:576).
ToolsSettled == \A s \in Sessions : Settled(s) => row["tools"] = upstream["tools"]
===============================================================================
