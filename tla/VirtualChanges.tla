---------------------------- MODULE VirtualChanges ----------------------------
(***************************************************************************)
(* How a change of a virtual service reaches the connected adapters, in    *)
(* every instance of the server: the bus and its generation counter        *)
(* (internal/mcp/virtual/events/events.go), the Redis stream between the   *)
(* instances (redis.go) and the adapters of one installation that subscribe and     *)
(* observe (internal/mcp/virtual/adapter.go), at most one in an instance.  *)
(* Signals only say that something changed: what an adapter knows is what  *)
(* it last read from the database.  An instance without an adapter has     *)
(* nobody to tell: its reader of the stream is left out.                   *)
(***************************************************************************)
EXTENDS Naturals, Sequences, FiniteSets

CONSTANTS Instances,   \* processes of the server
          Hosts,       \* those with an adapter
          MaxCommits,  \* bound on the changes committed
          MaxBreaks    \* bound on failing sends, failing reads and restarts

ASSUME VirtualAssumption ==
  Hosts \subseteq Instances /\ MaxCommits \in Nat /\ MaxBreaks \in Nat

Configs == {1, 2}

\* TaskChanged, ConfigChanged of a configuration, MarketplaceChanged or
\* ServiceChanged, and catchUpAll.
TaskChange == <<"tasks", 0>>
Config(b) == <<"config", b>>
Service == <<"service", 0>>
Everything == <<"all", 0>>
NoChange == <<"none", 0>>
Changes == {TaskChange, Service} \cup {Config(b) : b \in Configs}

VARIABLES
  db,         \* the rows: the task stamps, the configuration bound, the tools of each
  gen,        \* generation
  adapter,    \* the adapter of each instance
  teller,     \* the goroutines that dispatch: the request that made a change, the reader
  unsent,     \* redisBridge.pending
  stream,     \* the Redis stream; a trimmed entry says NoChange
  cursor,     \* entries read
  link,       \* FALSE after a failed read, until the reader has reconnected
  breaks,     \* failures so far
  forgotten   \* an instance stopped with changes it had not sent (history)

bridgeVars == <<unsent, stream, cursor, link>>
virtualVars == <<db, gen, adapter, teller, bridgeVars, breaks, forgotten>>

Tellers == {"request", "reader"}

\* What an adapter has read: the task stamps, and the tools with their config.
Knows == [tasks : 0 .. MaxCommits, tools : Configs \X (0 .. MaxCommits)]
NewAdapter ==
  [at |-> "off", gen |-> 0, scope |-> 1, next |-> 1, tasks |-> FALSE, config |-> FALSE,
   doTasks |-> FALSE, doConfig |-> FALSE, knows |-> [tasks |-> 0, tools |-> <<1, 0>>]]

Connecting == {"resolve", "stamp", "subscribe", "check"}
Observing == {"bound", "rebind", "recheck", "readTasks", "readTools"}

VirtualTypeOK ==
  /\ db \in [tasks : 0 .. MaxCommits, bound : Configs, tools : [Configs -> 0 .. MaxCommits]]
  /\ gen \in [Instances -> Nat] /\ breaks \in 0 .. MaxBreaks /\ forgotten \in BOOLEAN
  /\ adapter \in [Hosts ->
       [at : {"off", "wait"} \cup Connecting \cup Observing, gen : Nat, scope : Configs, next : Configs,
        tasks : BOOLEAN, config : BOOLEAN, doTasks : BOOLEAN, doConfig : BOOLEAN, knows : Knows]]
  /\ teller \in [Instances \X Tellers ->
       [at : {"idle", "bump", "signal", "kick", "enqueue"}, what : Changes \cup {Everything, NoChange}]]
  /\ unsent \in [Instances -> SUBSET Changes]
  /\ \A n \in 1 .. Len(stream) : stream[n] \in [from : Instances, what : Changes \cup {NoChange}]
  /\ cursor \in [Hosts -> 0 .. Len(stream)] /\ link \in [Hosts -> BOOLEAN]

Still == [at |-> "idle", what |-> NoChange]

VirtualInit ==
  /\ db = [tasks |-> 0, bound |-> 1, tools |-> [b \in Configs |-> 0]]
  /\ gen = [i \in Instances |-> 0]
  /\ adapter = [i \in Hosts |-> NewAdapter]
  /\ teller = [it \in Instances \X Tellers |-> Still]
  /\ unsent = [i \in Instances |-> {}]
  /\ stream = <<>> /\ cursor = [i \in Hosts |-> 0] /\ link = [i \in Hosts |-> TRUE]
  /\ breaks = 0 /\ forgotten = FALSE

ToolsNow == <<db.bound, db.tools[db.bound]>>
Break == breaks < MaxBreaks /\ breaks' = breaks + 1

-----------------------------------------------------------------------------
(* Changes and their dispatch                                                *)

\* A request commits its rows, and then tells.
Commit(i) ==
  /\ teller[<<i, "request">>] = Still
  /\ db.tasks + db.tools[1] + db.tools[2] + db.bound <= MaxCommits
  /\ \E c \in Changes :
       /\ c = Service => db.bound = 1
       /\ db' = CASE c = TaskChange -> [db EXCEPT !.tasks = @ + 1]
                  [] c = Service -> [db EXCEPT !.bound = 2]
                  [] OTHER -> [db EXCEPT !.tools[c[2]] = @ + 1]
       /\ teller' = [teller EXCEPT ![<<i, "request">>] = [at |-> "bump", what |-> c]]
  /\ UNCHANGED <<gen, adapter, bridgeVars, breaks, forgotten>>

\* dispatchTask, dispatchConfig, dispatchService, catchUpAll: the generation
\* first, ...
Bump(i, t) ==
  /\ teller[<<i, t>>].at = "bump"
  /\ gen' = [gen EXCEPT ![i] = @ + 1]
  /\ teller' = [teller EXCEPT ![<<i, t>>].at = "signal"]
  /\ UNCHANGED <<db, adapter, bridgeVars, breaks, forgotten>>

Subscribed(a) == a.at \in {"check", "wait"} \cup Observing

\* signal sets the flags of the subscriptions in whose scope the change is.
Signalled(a, c) ==
  IF ~ Subscribed(a) THEN a
  ELSE CASE c = TaskChange -> [a EXCEPT !.tasks = TRUE]
         [] c \in {Service, Everything} -> [a EXCEPT !.tasks = TRUE, !.config = TRUE]
         [] OTHER -> IF c = Config(a.scope) THEN [a EXCEPT !.config = TRUE] ELSE a

AfterSignal(t, c) ==
  IF c = Service THEN "kick" ELSE IF t = "request" THEN "enqueue" ELSE "idle"

Moved(e, at) == IF at = "idle" THEN Still ELSE [e EXCEPT !.at = at]

\* ... then the listeners, ...
Signal(i, t) ==
  /\ teller[<<i, t>>].at = "signal"
  /\ adapter' = [h \in Hosts |-> IF h = i THEN Signalled(adapter[h], teller[<<i, t>>].what) ELSE adapter[h]]
  /\ teller' = [teller EXCEPT ![<<i, t>>] = Moved(@, AfterSignal(t, @.what))]
  /\ UNCHANGED <<db, gen, bridgeVars, breaks, forgotten>>

\* ... then SessionPool.Remove, which waits for the observer to return.
Kick(i, t) ==
  /\ teller[<<i, t>>].at = "kick" /\ (i \in Hosts => adapter[i].at \notin Observing)
  /\ adapter' = [h \in Hosts |-> IF h = i /\ adapter[h].at = "wait" THEN NewAdapter ELSE adapter[h]]
  /\ teller' = [teller EXCEPT ![<<i, t>>] = Moved(@, IF t = "request" THEN "enqueue" ELSE "idle")]
  /\ UNCHANGED <<db, gen, bridgeVars, breaks, forgotten>>

-----------------------------------------------------------------------------
(* The bridge                                                                *)

Enqueue(i) ==
  /\ teller[<<i, "request">>].at = "enqueue"
  /\ unsent' = [unsent EXCEPT ![i] = @ \cup {teller[<<i, "request">>].what}]
  /\ teller' = [teller EXCEPT ![<<i, "request">>] = Still]
  /\ UNCHANGED <<db, gen, adapter, stream, cursor, link, breaks, forgotten>>

\* publish pops a change and adds it to the stream.  When the answer is lost or
\* never comes, it queues the change again, whether it was added or not.
Send(i) ==
  /\ \E c \in unsent[i] :
       LET added == Append(stream, [from |-> i, what |-> c])
       IN \/ stream' = added /\ unsent' = [unsent EXCEPT ![i] = @ \ {c}] /\ UNCHANGED breaks
          \/ stream' \in {stream, added} /\ Break /\ UNCHANGED unsent
  /\ UNCHANGED <<db, gen, adapter, teller, cursor, link, forgotten>>

\* read: entries of its own are skipped.
Read(i) ==
  /\ link[i] /\ teller[<<i, "reader">>] = Still /\ cursor[i] < Len(stream)
  /\ LET e == stream[cursor[i] + 1]
     IN teller' = IF e.what = NoChange \/ e.from = i THEN teller
                  ELSE [teller EXCEPT ![<<i, "reader">>] = [at |-> "bump", what |-> e.what]]
  /\ cursor' = [cursor EXCEPT ![i] = @ + 1]
  /\ UNCHANGED <<db, gen, adapter, unsent, stream, link, breaks, forgotten>>

ReadFails(i) ==
  /\ link[i] /\ teller[<<i, "reader">>] = Still /\ Break
  /\ link' = [link EXCEPT ![i] = FALSE]
  /\ UNCHANGED <<db, gen, adapter, teller, unsent, stream, cursor, forgotten>>

\* After a failure every adapter looks at the database again, since the stream
\* may have been trimmed.
Reconnect(i) ==
  /\ ~ link[i]
  /\ link' = [link EXCEPT ![i] = TRUE]
  /\ teller' = [teller EXCEPT ![<<i, "reader">>] = [at |-> "bump", what |-> Everything]]
  /\ UNCHANGED <<db, gen, adapter, unsent, stream, cursor, breaks, forgotten>>

\* Redis drops the oldest of the entries beyond 100000: a connected reader is
\* not that far behind.
Trim ==
  /\ \E n \in 1 .. Len(stream) :
       /\ stream[n].what # NoChange /\ \A m \in 1 .. n - 1 : stream[m].what = NoChange
       /\ \E i \in Hosts : ~ link[i]
       /\ \A i \in Hosts : link[i] => cursor[i] >= n
       /\ stream' = [stream EXCEPT ![n].what = NoChange]
  /\ UNCHANGED <<db, gen, adapter, teller, unsent, cursor, link, breaks, forgotten>>

\* An instance stops and starts again: it reads from the end of the stream.
InstanceRestarts(i) ==
  /\ Break
  /\ gen' = [gen EXCEPT ![i] = 0] /\ adapter' = [h \in Hosts |-> IF h = i THEN NewAdapter ELSE adapter[h]]
  /\ teller' = [it \in Instances \X Tellers |-> IF it[1] = i THEN Still ELSE teller[it]]
  /\ unsent' = [unsent EXCEPT ![i] = {}]
  /\ cursor' = [h \in Hosts |-> IF h = i THEN Len(stream) ELSE cursor[h]]
  /\ link' = [h \in Hosts |-> h = i \/ link[h]]
  /\ forgotten' = (forgotten \/ unsent[i] # {} \/ teller[<<i, "request">>] # Still)
  /\ UNCHANGED <<db, stream>>

-----------------------------------------------------------------------------
(* The adapter                                                               *)

Step(i, a) ==
  /\ adapter' = [adapter EXCEPT ![i] = a]
  /\ UNCHANGED <<db, gen, teller, bridgeVars, breaks, forgotten>>

\* Connect reads the generation, the binding and its tools, ...
Connect(i) ==
  /\ adapter[i].at = "off"
  /\ Step(i, [NewAdapter EXCEPT !.at = "resolve", !.gen = gen[i]])
Resolve(i) ==
  /\ adapter[i].at = "resolve"
  /\ Step(i, [adapter[i] EXCEPT !.at = "stamp", !.scope = db.bound, !.knows.tools = ToolsNow])

\* ... the stamps of the tasks, ...
Stamp(i) ==
  /\ adapter[i].at = "stamp"
  /\ Step(i, [adapter[i] EXCEPT !.at = "subscribe", !.knows.tasks = db.tasks])

\* ... subscribes, ...
Subscribe(i) ==
  /\ adapter[i].at = "subscribe"
  /\ Step(i, [adapter[i] EXCEPT !.at = "check"])

CheckedNot(i, a) == a   \* the generation is not compared (to test the checks)

\* ... and catches up when the generation has moved since.
Checked(i, a) == IF gen[i] # a.gen THEN [a EXCEPT !.tasks = TRUE, !.config = TRUE] ELSE a

Check(i) ==
  /\ adapter[i].at = "check"
  /\ Step(i, [Checked(i, adapter[i]) EXCEPT !.at = "wait", !.gen = 0])

\* observe wakes and drains the flags; for a change of the configuration it
\* reads the generation, ...
Drain(i) ==
  LET a == adapter[i]
  IN /\ a.at = "wait" /\ (a.tasks \/ a.config)
     /\ Step(i, [a EXCEPT !.at = IF a.config THEN "bound" ELSE "readTasks", !.tasks = FALSE,
                   !.config = FALSE, !.doTasks = a.tasks, !.doConfig = a.config,
                   !.gen = IF a.config THEN gen[i] ELSE 0])

\* ... resolves the binding, and when it is another one ...
Bound(i) ==
  LET a == adapter[i]
  IN /\ a.at = "bound"
     /\ Step(i, IF db.bound # a.scope THEN [a EXCEPT !.at = "rebind", !.next = db.bound]
                ELSE [a EXCEPT !.at = "readTasks", !.gen = 0])

\* ... subscribes to that, catching up as at first, and drops the old
\* subscription with its flags.
Rebind(i) ==
  LET a == adapter[i]
  IN /\ a.at = "rebind"
     /\ Step(i, [a EXCEPT !.at = "recheck", !.scope = a.next, !.tasks = FALSE, !.config = FALSE,
                   !.doTasks = TRUE, !.next = 1])
RebindCheck(i) ==
  /\ adapter[i].at = "recheck"
  /\ Step(i, [Checked(i, adapter[i]) EXCEPT !.at = "readTasks", !.gen = 0])

\* Then it reads the tasks and the tools again.
ReadTasks(i) ==
  LET a == adapter[i]
  IN /\ a.at = "readTasks"
     /\ Step(i, [a EXCEPT !.at = "readTools", !.doTasks = FALSE,
                   !.knows.tasks = IF a.doTasks THEN db.tasks ELSE @])
ReadTools(i) ==
  LET a == adapter[i]
  IN /\ a.at = "readTools"
     /\ Step(i, [a EXCEPT !.at = "wait", !.doConfig = FALSE,
                   !.knows.tools = IF a.doConfig THEN ToolsNow ELSE @])

\* The session is closed, or the observer cannot read the rows and returns.
Detach(i) ==
  /\ adapter[i].at \in {"wait"} \cup Observing
  /\ Step(i, NewAdapter)

VirtualNext ==
  \/ Trim
  \/ \E i \in Instances :
       \/ Commit(i) \/ Enqueue(i) \/ Send(i) \/ InstanceRestarts(i)
       \/ \E t \in Tellers : Bump(i, t) \/ Signal(i, t) \/ Kick(i, t)
  \/ \E i \in Hosts :
       \/ Read(i) \/ ReadFails(i) \/ Reconnect(i)
       \/ Connect(i) \/ Resolve(i) \/ Stamp(i) \/ Subscribe(i) \/ Check(i)
       \/ Drain(i) \/ Bound(i) \/ Rebind(i) \/ RebindCheck(i) \/ ReadTasks(i) \/ ReadTools(i) \/ Detach(i)

VirtualSpec == VirtualInit /\ [][VirtualNext]_virtualVars

-----------------------------------------------------------------------------
(* Properties                                                                *)

\* No change is under way: told, sent, read and taken up.
Calm ==
  /\ \A it \in Instances \X Tellers : teller[it] = Still
  /\ \A i \in Instances : unsent[i] = {}
  /\ \A i \in Hosts : link[i] /\ cursor[i] = Len(stream)

\* Whatever changes while adapters connect, rebind and read, in whatever
\* instance, over a stream that fails and is trimmed: an adapter that waits
\* without a signal knows the rows as they are, unless an instance stopped
\* before it had sent what it committed.
NoChangeMissed ==
  Calm /\ ~ forgotten =>
    \A i \in Hosts :
      adapter[i].at = "wait" /\ ~ adapter[i].tasks /\ ~ adapter[i].config =>
        adapter[i].knows = [tasks |-> db.tasks, tools |-> ToolsNow]
===============================================================================
