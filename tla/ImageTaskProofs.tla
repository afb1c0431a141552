---------------------------- MODULE ImageTaskProofs ----------------------------
(***************************************************************************)
(* Proofs about ImageTask: a task is paid for at most once, and the steps  *)
(* of its workers, deleters and recoveries implement OneShotGeneration.    *)
(*                                                                         *)
(* The invariant says what a worker that still owns its row knows about    *)
(* the row's status, and that a row is never back in "queued" once a       *)
(* worker has been allowed to send the request.                            *)
(***************************************************************************)
EXTENDS ImageTask, TLAPS

\* What a worker at each program point knows about its task.
Hands ==
  \A w \in Workers : wpc[w] # "idle" =>
    /\ job[w] \in Tasks
    /\ status[job[w]] # "none"
    /\ wpc[w] = "prepare" /\ owner[job[w]] = w => status[job[w]] = "queued"
    /\ wpc[w] \in {"post", "answer", "checkpoint"} =>
         /\ status[job[w]] # "queued"
         /\ owner[job[w]] = w => status[job[w]] = "running"
    /\ wpc[w] = "post" => posts[job[w]] = 0
    /\ wpc[w] \in {"answer", "checkpoint"} => posts[job[w]] = 1
    /\ wpc[w] \in {"restore", "save"} /\ owner[job[w]] = w => status[job[w]] = "saving"

\* Only one worker at a time may be about to send the request of a task.
OnePoster ==
  \A v, w \in Workers : wpc[v] = "post" /\ wpc[w] = "post" /\ job[v] = job[w] => v = w

\* What the columns of a row say about each other and about the POST.
Row(t) ==
  /\ posts[t] \in {0, 1}
  /\ status[t] \in {"none", "queued"} => posts[t] = 0
  /\ status[t] = "saving" => artifact[t] = "saving" /\ posts[t] = 1
  /\ resultKey[t] =>
       status[t] \in {"saving", "completed", "partial", "failed", "gone"} /\ posts[t] = 1
  /\ owner[t] \in Deleters => status[t] \in Finished \cup {"saving"}

Rows == \A t \in Tasks : Row(t)

\* Every active deletion has a task.
Targets == \A d \in Deleters : dpc[d] # "idle" => target[d] \in Tasks

IInv == TypeOK /\ Hands /\ OnePoster /\ Rows /\ Targets
-----------------------------------------------------------------------------
(* Initial states and types.                                                *)

\* NoCall is a caller, for instantiating facts about callers.
LEMMA NoCallType == NoCall \in Calls
BY InputsAssumption DEF NoCall, Calls

\* The invariant holds of the empty table of manager.go's NewManager.
LEMMA InitIInv == Init => IInv
<1> SUFFICES ASSUME Init PROVE IInv
  OBVIOUS
<1>1. NoCall.key \in Keys /\ NoCall.input \in Inputs
  BY InputsAssumption DEF NoCall
<1>2. TypeOK
  BY <1>1, NoCallType, ImagesAssumption, MaxFaultsAssumption
     DEF Init, TypeOK, WorkerPoints
<1> QED
  BY <1>2, ActorsAssumption DEF Init, IInv, Hands, OnePoster, Rows, Row, Targets

\* Typing: the steps of Submit (manager.go:188).
LEMMA CallerTypes ==
  ASSUME TypeOK, NEW c \in Callers, CallerStep(c)
  PROVE  TypeOK'
<1>1. ASSUME NEW k \in Keys, NEW i \in Inputs, Answer(c, k, i) PROVE sub' \in [Callers -> Calls]
  BY <1>1, NoCallType DEF Answer, RowsOf, Call, Calls, TypeOK
<1>2. sub[c].key \in Keys /\ sub[c].input \in Inputs
  BY DEF TypeOK, Calls
<1>3. ASSUME NEW k \in Keys, NEW i \in Inputs, Lookup(c, k, i) PROVE TypeOK'
  <2>1. sub' \in [Callers -> Calls]
    BY <1>1, <1>3 DEF Lookup, Call, Calls, TypeOK
  <2> QED
    BY <1>3, <2>1 DEF Lookup, TypeOK, rowVars, leaseCols, idVars, storeVars, workVars, delVars
<1>4. CASE Create(c)
  <2>1. sub' \in [Callers -> Calls]
    BY <1>2, <1>4 DEF Create, Call, Calls, TypeOK
  <2> QED
    BY <1>2, <1>4, <2>1
       DEF Create, TypeOK, Active, leaseCols, storeVars, workVars, delVars
<1>5. CASE CreateConflicts(c)
  BY <1>1, <1>2, <1>5
     DEF CreateConflicts, TypeOK, rowVars, leaseCols, idVars, storeVars, workVars, delVars
<1>6. CASE SubmitReturns(c)
  BY <1>6, NoCallType
     DEF SubmitReturns, TypeOK, rowVars, leaseCols, idVars, storeVars, workVars, delVars
<1> QED
  BY <1>3, <1>4, <1>5, <1>6 DEF CallerStep

\* What a worker writes of its row and its program point keeps its type.
LEMMA RowTypes ==
  ASSUME TypeOK, NEW t \in Tasks, NEW w \in Workers, NEW l \in WorkerPoints,
         NEW s \in {"none", "gone"} \cup Active \cup Finished,
         NEW a \in {"pending", "saving", "ready", "partial", "failed"},
         NEW z \in {"none", "full", "clean"},
         status' = status \/ status' = [status EXCEPT ![t] = s],
         artifact' = artifact \/ artifact' = [artifact EXCEPT ![t] = a],
         snapshot' = snapshot \/ snapshot' = [snapshot EXCEPT ![t] = z],
         UNCHANGED leaseCols \/ Unlease(t),
         WGoto(w, l),
         UNCHANGED <<idVars, posts, delVars, sub>>,
         resultKey' \in [Tasks -> BOOLEAN],
         spool' \in [Tasks -> {"none", "stored", "removed", "deleted"}],
         outputs' \in [Tasks -> SUBSET (1 .. Images)],
         attached' \in [Tasks -> SUBSET (1 .. Images)],
         job' \in [Workers -> Tasks \cup {None}],
         holds' \in [Workers -> BOOLEAN],
         index' \in [Workers -> 1 .. Images + 1],
         some' \in [Workers -> BOOLEAN], warned' \in [Workers -> BOOLEAN],
         faults' \in 0 .. MaxFaults
  PROVE  TypeOK'
<1>1. status' \in [Tasks -> {"none", "gone"} \cup Active \cup Finished]
  BY DEF TypeOK
<1>2. artifact' \in [Tasks -> {"pending", "saving", "ready", "partial", "failed"}]
  BY DEF TypeOK
<1>3. snapshot' \in [Tasks -> {"none", "full", "clean"}]
  BY DEF TypeOK
<1>4. owner' \in [Tasks -> Workers \cup Deleters \cup {None}]
  BY DEF TypeOK, leaseCols, Unlease
<1>5. lease' \in [Tasks -> {"none", "held", "expired"}]
  BY DEF TypeOK, leaseCols, Unlease
<1>6. wpc' \in [Workers -> WorkerPoints]
  BY DEF TypeOK, WGoto
<1> QED
  BY <1>1, <1>2, <1>3, <1>4, <1>5, <1>6 DEF TypeOK, idVars, delVars

\* Typing: the statement of process that ends a task as failed or with an unknown submission.
LEMMA TerminalTypes ==
  ASSUME TypeOK, NEW w \in Workers, job[w] \in Tasks, NEW s \in {"failed", "submission_unknown"},
         Terminal(w, s)
  PROVE  TypeOK'
<1>1. "idle" \in WorkerPoints /\ s \in {"gone"} \cup Active \cup Finished
  BY DEF WorkerPoints, Finished
<1>2. /\ status' = status \/ status' = [status EXCEPT ![job[w]] = s]
      /\ artifact' = artifact \/ artifact' = [artifact EXCEPT ![job[w]] = "failed"]
      /\ snapshot' = snapshot \/ snapshot' = [snapshot EXCEPT ![job[w]] = "none"]
      /\ UNCHANGED leaseCols \/ Unlease(job[w])
      /\ WGoto(w, "idle")
      /\ UNCHANGED <<resultKey, idVars, storeVars, posts, job, holds, index, some, warned, delVars,
                     sub, faults>>
  BY DEF Terminal, rowVars
<1> QED
  BY <1>1, <1>2, RowTypes DEF TypeOK, idVars, storeVars, delVars

\* Typing: the steps of a worker (ProcessDue, process, saveResult).
LEMMA WorkerTypes ==
  ASSUME TypeOK, NEW w \in Workers,
         wpc[w] # "idle" => job[w] \in Tasks,
         WorkerStep(w) \/ ReleaseQueued(w) \/ WorkerStops(w) \/ Heartbeat(w)
  PROVE  TypeOK'
<1> USE DEF TypeOK, rowVars, leaseCols, idVars, storeVars, workVars, delVars, WGoto, Unlease,
            WorkerPoints, Active, Finished
<1>1. CASE PrepareFails(w)
  BY <1>1, TerminalTypes DEF PrepareFails
<1>2. CASE StartRunning(w)
  <2>1. job[w] \in Tasks
    BY <1>2 DEF StartRunning
  <2>2. status' \in [Tasks -> {"none", "gone"} \cup Active \cup Finished]
    BY <1>2, <2>1 DEF StartRunning
  <2>3. wpc' = [wpc EXCEPT ![w] = "post"] \/ wpc' = [wpc EXCEPT ![w] = "idle"]
    BY <1>2 DEF StartRunning
  <2>4. wpc' \in [Workers -> WorkerPoints]
    BY <2>3
  <2> QED
    BY <1>2, <2>2, <2>4 DEF StartRunning
<1>3. CASE Post(w)
  BY <1>3 DEF Post
<1>4. CASE AnswerUnknown(w)
  BY <1>4, TerminalTypes DEF AnswerUnknown
<1>5. CASE AnswerRejected(w)
  BY <1>5, TerminalTypes DEF AnswerRejected
<1>6. CASE Spool(w)
  <2>1. spool' \in [Tasks -> {"none", "stored", "removed", "deleted"}]
    BY <1>6 DEF Spool
  <2>2. holds' \in [Workers -> BOOLEAN]
    BY <1>6 DEF Spool
  <2> QED
    BY <1>6, <2>1, <2>2 DEF Spool
<1>7. CASE Checkpoint(w)
  BY <1>7, ImagesAssumption DEF Checkpoint, BeginSave
<1>8. CASE CheckpointLost(w)
  <2>1. faults' \in 0 .. MaxFaults
    BY <1>8, MaxFaultsAssumption DEF CheckpointLost
  <2>2. spool' \in [Tasks -> {"none", "stored", "removed", "deleted"}]
    BY <1>8 DEF CheckpointLost
  <2> QED
    BY <1>8, <2>1, <2>2 DEF CheckpointLost
<1>9. CASE Restore(w)
  BY <1>9, ImagesAssumption DEF Restore, BeginSave
<1>10. CASE RestoreFails(w)
  <2>1. status' \in [Tasks -> {"none", "gone"} \cup Active \cup Finished]
    BY <1>10 DEF RestoreFails
  <2>2. artifact' \in [Tasks -> {"pending", "saving", "ready", "partial", "failed"}]
    BY <1>10 DEF RestoreFails
  <2>3. owner' \in [Tasks -> Workers \cup Deleters \cup {None}]
    BY <1>10 DEF RestoreFails
  <2>4. lease' \in [Tasks -> {"none", "held", "expired"}]
    BY <1>10 DEF RestoreFails
  <2> QED
    BY <1>10, <2>1, <2>2, <2>3, <2>4 DEF RestoreFails
<1>11. CASE SaveImage(w)
  <2>1. index[w] \in 1 .. Images /\ index[w] + 1 \in 1 .. Images + 1
    BY <1>11, ImagesAssumption DEF SaveImage
  <2>2. outputs' \in [Tasks -> SUBSET (1 .. Images)]
    BY <1>11, <2>1 DEF SaveImage, Attach
  <2>3. attached' \in [Tasks -> SUBSET (1 .. Images)]
    BY <1>11, <2>1 DEF SaveImage, Attach
  <2>4. /\ some' = some \/ some' = [some EXCEPT ![w] = TRUE]
        /\ warned' = warned \/ warned' = [warned EXCEPT ![w] = TRUE]
    BY <1>11 DEF SaveImage
  <2>5. some' \in [Workers -> BOOLEAN]
    BY <2>4
  <2>6. warned' \in [Workers -> BOOLEAN]
    BY <2>4
  <2> QED
    BY <1>11, <2>1, <2>2, <2>3, <2>5, <2>6 DEF SaveImage
<1>12. CASE FinishSave(w)
  <2>1. /\ Verdict(w) \in {"completed", "partial", "failed"}
        /\ ArtifactOf(Verdict(w)) \in {"ready", "partial", "failed"}
    BY DEF Verdict, ArtifactOf
  <2>2. status' \in [Tasks -> {"none", "gone"} \cup Active \cup Finished]
    BY <1>12, <2>1 DEF FinishSave
  <2>3. artifact' \in [Tasks -> {"pending", "saving", "ready", "partial", "failed"}]
    BY <1>12, <2>1 DEF FinishSave
  <2>4. snapshot' \in [Tasks -> {"none", "full", "clean"}]
    BY <1>12 DEF FinishSave
  <2>5. owner' \in [Tasks -> Workers \cup Deleters \cup {None}]
    BY <1>12 DEF FinishSave
  <2>6. lease' \in [Tasks -> {"none", "held", "expired"}]
    BY <1>12 DEF FinishSave
  <2>7. wpc' \in [Workers -> WorkerPoints]
    BY <1>12 DEF FinishSave
  <2> QED
    BY <1>12, <2>2, <2>3, <2>4, <2>5, <2>6, <2>7 DEF FinishSave
<1>13. CASE RemoveResult(w)
  <2>1. spool' \in [Tasks -> {"none", "stored", "removed", "deleted"}]
    BY <1>13 DEF RemoveResult, DropResult
  <2>2. resultKey' = resultKey \/ resultKey' = [resultKey EXCEPT ![job[w]] = FALSE]
    BY <1>13 DEF RemoveResult, DropResult
  <2>3. resultKey' \in [Tasks -> BOOLEAN]
    BY <2>2
  <2> QED
    BY <1>13, <2>1, <2>3 DEF RemoveResult
<1>14. CASE ReleaseQueued(w)
  <2>1. owner' \in [Tasks -> Workers \cup Deleters \cup {None}]
    BY <1>14 DEF ReleaseQueued
  <2>2. lease' \in [Tasks -> {"none", "held", "expired"}]
    BY <1>14 DEF ReleaseQueued
  <2> QED
    BY <1>14, <2>1, <2>2, MaxFaultsAssumption DEF ReleaseQueued
<1>15. CASE WorkerStops(w)
  <2>1. /\ owner' = owner \/ owner' = [owner EXCEPT ![job[w]] = None]
        /\ lease' = lease \/ lease' = [lease EXCEPT ![job[w]] = "expired"]
        /\ wpc' = [wpc EXCEPT ![w] = "idle"]
    BY <1>15 DEF WorkerStops
  <2>2. owner' \in [Tasks -> Workers \cup Deleters \cup {None}]
    BY <2>1
  <2>3. lease' \in [Tasks -> {"none", "held", "expired"}]
    BY <2>1
  <2>4. wpc' \in [Workers -> WorkerPoints]
    BY <2>1
  <2> QED
    BY <1>15, <2>2, <2>3, <2>4, MaxFaultsAssumption DEF WorkerStops
<1>16. CASE Heartbeat(w)
  BY <1>16 DEF Heartbeat
<1> QED
  BY <1>1, <1>2, <1>3, <1>4, <1>5, <1>6, <1>7, <1>8, <1>9, <1>10, <1>11, <1>12, <1>13, <1>14,
     <1>15, <1>16 DEF WorkerStep

\* Typing: claims, leases, deletion, RetrySave, reconciliation and both clean-ups.
LEMMA OtherTypes ==
  ASSUME TypeOK, Targets,
         \/ \E w \in Workers, t \in Tasks : Claim(w, t)
         \/ \E d \in Deleters : DeleterStep(d) \/ DeleterStops(d)
         \/ \E d \in Deleters, t \in Tasks : DeleteBegins(d, t)
         \/ \E t \in Tasks : LeaseExpires(t) \/ RecoverRunning(t) \/ RetrySave(t)
                             \/ CleanResult(t) \/ Reconcile(t) \/ OutputExpires(t)
  PROVE  TypeOK'
<1> USE DEF TypeOK, rowVars, leaseCols, idVars, storeVars, workVars, delVars, Unlease, TakeLease,
            WorkerPoints, Active, Finished
<1>1. ASSUME NEW w \in Workers, NEW t \in Tasks, Claim(w, t) PROVE TypeOK'
  BY <1>1 DEF Claim
<1>2. ASSUME NEW d \in Deleters, DeleteSpool(d) PROVE TypeOK'
  <2>1. /\ owner' = owner \/ owner' = [owner EXCEPT ![target[d]] = None]
        /\ lease' = lease \/ lease' = [lease EXCEPT ![target[d]] = "none"]
        /\ spool' = spool \/ spool' = [spool EXCEPT ![target[d]] = "deleted"]
        /\ dpc' = [dpc EXCEPT ![d] = "rows"] \/ dpc' = [dpc EXCEPT ![d] = "idle"]
    BY <1>2 DEF DeleteSpool, DeleteReleases
  <2>2. owner' \in [Tasks -> Workers \cup Deleters \cup {None}]
    BY <2>1
  <2>3. lease' \in [Tasks -> {"none", "held", "expired"}]
    BY <2>1
  <2>4. spool' \in [Tasks -> {"none", "stored", "removed", "deleted"}]
    BY <2>1
  <2>5. dpc' \in [Deleters -> {"idle", "spool", "rows"}]
    BY <2>1
  <2> QED
    BY <1>2, <2>2, <2>3, <2>4, <2>5 DEF DeleteSpool
<1>3. ASSUME NEW d \in Deleters, DeleteRows(d) PROVE TypeOK'
  <2>1. outputs' \in [Tasks -> SUBSET (1 .. Images)]
    BY <1>3 DEF DeleteRows
  <2>2. status' \in [Tasks -> {"none", "gone"} \cup Active \cup Finished]
    BY <1>3 DEF DeleteRows
  <2>3. owner' \in [Tasks -> Workers \cup Deleters \cup {None}]
    BY <1>3 DEF DeleteRows, DeleteReleases
  <2>4. lease' \in [Tasks -> {"none", "held", "expired"}]
    BY <1>3 DEF DeleteRows, DeleteReleases
  <2> QED
    BY <1>3, <2>1, <2>2, <2>3, <2>4 DEF DeleteRows, DeleteReleases
<1>4. ASSUME NEW d \in Deleters, DeleterStops(d) PROVE TypeOK'
  BY <1>4, MaxFaultsAssumption DEF DeleterStops
<1>5. ASSUME NEW d \in Deleters, NEW t \in Tasks, DeleteBegins(d, t) PROVE TypeOK'
  BY <1>5 DEF DeleteBegins
<1>6. ASSUME NEW t \in Tasks, LeaseExpires(t) PROVE TypeOK'
  BY <1>6, MaxFaultsAssumption DEF LeaseExpires
<1>7. ASSUME NEW t \in Tasks, RecoverRunning(t) PROVE TypeOK'
  BY <1>7 DEF RecoverRunning
<1>8. ASSUME NEW t \in Tasks, RetrySave(t) PROVE TypeOK'
  BY <1>8 DEF RetrySave
<1>9. ASSUME NEW t \in Tasks, CleanResult(t) PROVE TypeOK'
  BY <1>9 DEF CleanResult, DropResult
<1>10. ASSUME NEW t \in Tasks, Reconcile(t) PROVE TypeOK'
  BY <1>10 DEF Reconcile
<1>11. ASSUME NEW t \in Tasks, OutputExpires(t) PROVE TypeOK'
  BY <1>11 DEF OutputExpires
<1> QED
  BY <1>1, <1>2, <1>3, <1>4, <1>5, <1>6, <1>7, <1>8, <1>9, <1>10, <1>11 DEF DeleterStep
-----------------------------------------------------------------------------
(* The invariant.                                                           *)

Facts == Hands /\ OnePoster /\ Rows /\ Targets

\* Steps that touch no row, program point or lease owner.
LEMMA Quiet ==
  ASSUME TypeOK, Facts,
         UNCHANGED <<status, artifact, owner, posts, resultKey, wpc, job, dpc, target>>
  PROVE  Facts'
BY DEF Facts, Hands, OnePoster, Rows, Row, Targets

\* A worker that gives up, whatever becomes of its lease.
LEMMA Leaves ==
  ASSUME TypeOK, Facts, NEW w \in Workers, wpc[w] # "idle",
         wpc' = [wpc EXCEPT ![w] = "idle"],
         owner' = owner \/ owner' = [owner EXCEPT ![job[w]] = None],
         resultKey' = resultKey \/ resultKey' = [resultKey EXCEPT ![job[w]] = FALSE],
         UNCHANGED <<status, artifact, posts, job, dpc, target>>
  PROVE  Facts'
<1>1. Hands'
  BY ActorsAssumption DEF TypeOK, Facts, Hands
<1>2. OnePoster'
  BY DEF TypeOK, Facts, OnePoster
<1>3. Rows'
  <2> SUFFICES ASSUME NEW t \in Tasks PROVE Row(t)'
    BY DEF Rows
  <2>1. resultKey'[t] => resultKey[t]
    BY DEF TypeOK
  <2>2. owner'[t] \in Deleters => owner[t] \in Deleters
    BY ActorsAssumption DEF TypeOK
  <2> QED
    BY <2>1, <2>2 DEF Facts, Rows, Row
<1> QED
  BY <1>1, <1>2, <1>3 DEF Facts, Targets

\* A worker that settles the row it owns and ends.
LEMMA Settles ==
  ASSUME TypeOK, Facts, NEW w \in Workers, wpc[w] # "idle", owner[job[w]] = w,
         NEW s \in Finished, NEW l \in {"idle", "remove"}, NEW a,
         resultKey[job[w]] => s # "submission_unknown",
         status' = [status EXCEPT ![job[w]] = s],
         artifact' = [artifact EXCEPT ![job[w]] = a],
         owner' = [owner EXCEPT ![job[w]] = None],
         wpc' = [wpc EXCEPT ![w] = l],
         UNCHANGED <<posts, resultKey, job, dpc, target>>
  PROVE  Facts'
<1>1. job[w] \in Tasks
  BY DEF Facts, Hands
<1>2. Hands'
  BY <1>1, ActorsAssumption DEF TypeOK, Facts, Hands, Finished
<1>3. OnePoster'
  BY DEF TypeOK, Facts, OnePoster
<1>4. Rows'
  <2> SUFFICES ASSUME NEW t \in Tasks PROVE Row(t)'
    BY DEF Rows
  <2>1. CASE t = job[w]
    BY <1>1, <2>1, ActorsAssumption DEF TypeOK, Facts, Rows, Row, Finished
  <2>2. CASE t # job[w]
    BY <1>1, <2>2 DEF TypeOK, Facts, Rows, Row
  <2> QED
    BY <2>1, <2>2
<1> QED
  BY <1>2, <1>3, <1>4 DEF Facts, Targets

\* The statement that ends a task before an answer is stored keeps the invariant.
LEMMA TerminalFacts ==
  ASSUME TypeOK, Facts, NEW w \in Workers, wpc[w] \in {"prepare", "post", "answer"},
         NEW s \in {"failed", "submission_unknown"},
         s = "submission_unknown" => wpc[w] \in {"post", "answer"},
         Terminal(w, s)
  PROVE  Facts'
<1>1. CASE owner[job[w]] = w
  <2>1. resultKey[job[w]] => s # "submission_unknown"
    BY <1>1 DEF Facts, Hands, Rows, Row
  <2>2. s \in Finished
    BY DEF Finished
  <2>3. /\ status' = [status EXCEPT ![job[w]] = s]
        /\ artifact' = [artifact EXCEPT ![job[w]] = "failed"]
        /\ owner' = [owner EXCEPT ![job[w]] = None]
        /\ wpc' = [wpc EXCEPT ![w] = "idle"]
        /\ UNCHANGED <<posts, resultKey, job, dpc, target>>
    BY <1>1 DEF Terminal, Owned, Unlease, WGoto, delVars
  <2> QED
    BY <1>1, <2>1, <2>2, <2>3, Settles
<1>2. CASE owner[job[w]] # w
  BY <1>2, Leaves DEF Terminal, Owned, WGoto, rowVars, leaseCols, delVars
<1> QED
  BY <1>1, <1>2

\* queued -> running happens once, so its worker is the only one that may post.
LEMMA StartRunningFacts ==
  ASSUME TypeOK, Facts, NEW w \in Workers, StartRunning(w)
  PROVE  Facts'
<1>1. CASE owner[job[w]] # w
  BY <1>1, Leaves DEF StartRunning, Owned, WGoto, leaseCols, delVars
<1>2. CASE owner[job[w]] = w
  <2> USE <1>2
  <2>1. /\ status' = [status EXCEPT ![job[w]] = "running"]
        /\ wpc' = [wpc EXCEPT ![w] = "post"]
        /\ wpc[w] = "prepare"
        /\ UNCHANGED <<artifact, owner, posts, resultKey, job, dpc, target>>
    BY DEF StartRunning, Owned, WGoto, leaseCols, delVars
  <2>2. job[w] \in Tasks /\ status[job[w]] = "queued" /\ posts[job[w]] = 0
    BY <2>1 DEF Facts, Hands, Rows, Row
  <2>3. Hands'
    BY <2>1, <2>2 DEF TypeOK, Facts, Hands
  <2>4. OnePoster'
    BY <2>1, <2>2 DEF TypeOK, Facts, OnePoster, Hands
  <2>5. Rows'
    BY <2>1, <2>2, ActorsAssumption DEF TypeOK, Facts, Rows, Row
  <2> QED
    BY <2>1, <2>3, <2>4, <2>5 DEF Facts, Targets
<1> QED
  BY <1>1, <1>2

\* The paid request goes out from the one worker that OnePoster admits.
LEMMA PostFacts ==
  ASSUME TypeOK, Facts, NEW w \in Workers, Post(w)
  PROVE  Facts'
<1>1. /\ posts' = [posts EXCEPT ![job[w]] = @ + 1]
      /\ wpc' = [wpc EXCEPT ![w] = "answer"]
      /\ wpc[w] = "post"
      /\ UNCHANGED <<status, artifact, owner, resultKey, job, dpc, target>>
  BY DEF Post, WGoto, rowVars, leaseCols, delVars
<1>2. job[w] \in Tasks /\ status[job[w]] \notin {"none", "queued", "saving"} /\ posts[job[w]] = 0
  BY <1>1 DEF Facts, Hands, Rows, Row
<1>3. posts'[job[w]] = 1 /\ \A t \in Tasks \ {job[w]} : posts'[t] = posts[t]
  BY <1>1, <1>2 DEF TypeOK
<1>4. \A v \in Workers \ {w} : wpc'[v] = wpc[v] /\ (wpc[v] \in {"post", "answer", "checkpoint"} => job[v] # job[w])
  BY <1>1, <1>2 DEF TypeOK, Facts, OnePoster, Hands
<1>5. wpc'[w] = "answer"
  BY <1>1 DEF TypeOK
<1>6. Hands'
  <2> SUFFICES ASSUME NEW v \in Workers, wpc'[v] # "idle"
               PROVE  /\ job[v] \in Tasks
                      /\ status[job[v]] # "none"
                      /\ wpc'[v] = "prepare" /\ owner[job[v]] = v => status[job[v]] = "queued"
                      /\ wpc'[v] \in {"post", "answer", "checkpoint"} =>
                           /\ status[job[v]] # "queued"
                           /\ owner[job[v]] = v => status[job[v]] = "running"
                      /\ wpc'[v] = "post" => posts'[job[v]] = 0
                      /\ wpc'[v] \in {"answer", "checkpoint"} => posts'[job[v]] = 1
                      /\ wpc'[v] \in {"restore", "save"} /\ owner[job[v]] = v =>
                           status[job[v]] = "saving"
    BY <1>1 DEF Hands
  <2>1. CASE v = w
    BY <1>1, <1>3, <1>5, <2>1 DEF Facts, Hands
  <2>2. CASE v # w
    BY <1>3, <1>4, <2>2 DEF Facts, Hands
  <2> QED
    BY <2>1, <2>2
<1>7. OnePoster'
  BY <1>1, <1>4, <1>5 DEF Facts, OnePoster
<1>8. Rows'
  BY <1>1, <1>2, <1>3 DEF Facts, Rows, Row
<1> QED
  BY <1>1, <1>6, <1>7, <1>8 DEF Facts, Targets

\* The answer is recorded by the owner of the row, and the key leaves it.
LEMMA CheckpointFacts ==
  ASSUME TypeOK, Facts, NEW w \in Workers, Checkpoint(w)
  PROVE  Facts'
<1>1. /\ status' = [status EXCEPT ![job[w]] = "saving"]
      /\ artifact' = [artifact EXCEPT ![job[w]] = "saving"]
      /\ resultKey' = [resultKey EXCEPT ![job[w]] = holds[w]]
      /\ wpc' = [wpc EXCEPT ![w] = "save"]
      /\ wpc[w] = "checkpoint" /\ owner[job[w]] = w
      /\ UNCHANGED <<owner, posts, job, dpc, target>>
  BY DEF Checkpoint, BeginSave, Owned, WGoto, leaseCols, delVars
<1>2. job[w] \in Tasks /\ status[job[w]] = "running" /\ posts[job[w]] = 1
  BY <1>1 DEF Facts, Hands
<1>3. Hands'
  BY <1>1, <1>2 DEF TypeOK, Facts, Hands
<1>4. OnePoster'
  BY <1>1 DEF TypeOK, Facts, OnePoster
<1>5. Rows'
  BY <1>1, <1>2, ActorsAssumption DEF TypeOK, Facts, Rows, Row
<1> QED
  BY <1>1, <1>3, <1>4, <1>5 DEF Facts, Targets

\* A worker that only moves on between two points about which the same is known.
LEMMA MovesOn ==
  ASSUME TypeOK, Facts, NEW w \in Workers,
         \/ wpc[w] = "answer" /\ wpc' = [wpc EXCEPT ![w] = "checkpoint"]
         \/ wpc[w] = "restore" /\ wpc' = [wpc EXCEPT ![w] = "save"],
         UNCHANGED <<status, artifact, owner, posts, resultKey, job, dpc, target>>
  PROVE  Facts'
<1>1. Hands'
  BY DEF TypeOK, Facts, Hands
<1>2. OnePoster'
  BY DEF TypeOK, Facts, OnePoster
<1> QED
  BY <1>1, <1>2 DEF Facts, Rows, Row, Targets

\* A result that cannot be restored, and the verdict after the saves, keep the invariant.
LEMMA SavingFacts ==
  ASSUME TypeOK, Facts, NEW w \in Workers, RestoreFails(w) \/ FinishSave(w)
  PROVE  Facts'
<1>1. wpc[w] \in {"restore", "save"}
  BY DEF RestoreFails, FinishSave
<1>2. CASE owner[job[w]] # w
  BY <1>1, <1>2, Leaves
     DEF RestoreFails, FinishSave, Owned, WGoto, rowVars, leaseCols, delVars
<1>3. ASSUME owner[job[w]] = w, RestoreFails(w) PROVE Facts'
  <2>1. /\ status' = [status EXCEPT ![job[w]] = "failed"]
        /\ artifact' = [artifact EXCEPT ![job[w]] = "failed"]
        /\ owner' = [owner EXCEPT ![job[w]] = None]
        /\ wpc' = [wpc EXCEPT ![w] = "idle"]
        /\ UNCHANGED <<posts, resultKey, job, dpc, target>>
    BY <1>3 DEF RestoreFails, Owned, Unlease, WGoto, delVars
  <2>2. "failed" \in Finished
    BY DEF Finished
  <2> QED
    BY <1>1, <1>3, <2>1, <2>2, Settles
<1>4. ASSUME owner[job[w]] = w, FinishSave(w) PROVE Facts'
  <2> DEFINE s == Verdict(w)
  <2>1. s \in {"completed", "partial", "failed"}
    BY DEF Verdict
  <2>2. PICK l \in {"idle", "remove"} : wpc' = [wpc EXCEPT ![w] = l]
    BY <1>4 DEF FinishSave, Owned, WGoto
  <2>3. /\ status' = [status EXCEPT ![job[w]] = s]
        /\ artifact' = [artifact EXCEPT ![job[w]] = ArtifactOf(s)]
        /\ owner' = [owner EXCEPT ![job[w]] = None]
        /\ UNCHANGED <<posts, resultKey, job, dpc, target>>
    BY <1>4 DEF FinishSave, Owned, Unlease, delVars
  <2>4. s \in Finished /\ s # "submission_unknown"
    BY <2>1 DEF Finished
  <2> HIDE DEF s
  <2> QED
    BY <1>1, <1>4, <2>2, <2>3, <2>4, Settles
<1> QED
  BY <1>2, <1>3, <1>4

\* Every step of a worker keeps the invariant.
LEMMA WorkerFacts ==
  ASSUME TypeOK, Facts, NEW w \in Workers,
         WorkerStep(w) \/ ReleaseQueued(w) \/ WorkerStops(w) \/ Heartbeat(w)
  PROVE  Facts'
<1> USE DEF rowVars, leaseCols, workVars, delVars, WGoto
<1>1. CASE PrepareFails(w)
  BY <1>1, TerminalFacts DEF PrepareFails
<1>2. CASE StartRunning(w) \/ Post(w) \/ Checkpoint(w)
  BY <1>2, StartRunningFacts, PostFacts, CheckpointFacts
<1>3. CASE AnswerUnknown(w)
  BY <1>3, TerminalFacts DEF AnswerUnknown
<1>4. CASE AnswerRejected(w)
  BY <1>4, TerminalFacts DEF AnswerRejected
<1>5. CASE Spool(w)
  BY <1>5, MovesOn DEF Spool
<1>6. CASE CheckpointLost(w)
  BY <1>6, Leaves DEF CheckpointLost
<1>7. CASE Restore(w)
  BY <1>7, MovesOn DEF Restore, BeginSave
<1>8. CASE RestoreFails(w) \/ FinishSave(w)
  BY <1>8, SavingFacts
<1>9. CASE SaveImage(w)
  BY <1>9, Quiet DEF SaveImage
<1>10. CASE RemoveResult(w)
  BY <1>10, Leaves DEF RemoveResult, DropResult
<1>11. CASE ReleaseQueued(w)
  BY <1>11, Leaves DEF ReleaseQueued, Unlease
<1>12. CASE WorkerStops(w)
  BY <1>12, Leaves DEF WorkerStops
<1>13. CASE Heartbeat(w)
  BY <1>13, Quiet DEF Heartbeat
<1> QED
  BY <1>1, <1>2, <1>3, <1>4, <1>5, <1>6, <1>7, <1>8, <1>9, <1>10, <1>11, <1>12, <1>13
     DEF WorkerStep

\* Submit keeps the invariant: a new row was never posted.
LEMMA CallerFacts ==
  ASSUME TypeOK, Facts, NEW c \in Callers, CallerStep(c)
  PROVE  Facts'
<1> USE DEF rowVars, leaseCols, workVars, delVars
<1>1. ASSUME NEW k \in Keys, NEW i \in Inputs, Lookup(c, k, i) PROVE Facts'
  BY <1>1, Quiet DEF Lookup
<1>2. CASE CreateConflicts(c) \/ SubmitReturns(c)
  BY <1>2, Quiet DEF CreateConflicts, SubmitReturns
<1>3. CASE Create(c)
  <2>1. PICK t \in Tasks : status[t] = "none" /\ status' = [status EXCEPT ![t] = "queued"]
    BY <1>3 DEF Create
  <2>2. UNCHANGED <<artifact, owner, posts, resultKey, wpc, job, dpc, target>>
    BY <1>3 DEF Create
  <2>3. Hands'
    BY <2>1, <2>2 DEF TypeOK, Facts, Hands
  <2>4. Rows'
    BY <2>1, <2>2, ActorsAssumption DEF TypeOK, Facts, Rows, Row, Finished
  <2> QED
    BY <2>2, <2>3, <2>4 DEF Facts, OnePoster, Targets
<1> QED
  BY <1>1, <1>2, <1>3 DEF CallerStep

\* Claiming a due row keeps the invariant: the worker goes on where the status says.
LEMMA ClaimFacts ==
  ASSUME TypeOK, Facts, NEW w \in Workers, NEW t \in Tasks, Claim(w, t)
  PROVE  Facts'
<1>1. /\ owner' = [owner EXCEPT ![t] = w]
      /\ job' = [job EXCEPT ![w] = t]
      /\ UNCHANGED <<status, artifact, posts, resultKey, dpc, target>>
  BY DEF Claim, TakeLease, rowVars, delVars
<1>2. \/ status[t] = "queued" /\ wpc' = [wpc EXCEPT ![w] = "prepare"]
      \/ status[t] = "saving" /\ wpc' = [wpc EXCEPT ![w] = "restore"]
  BY DEF Claim
<1>3. Hands'
  BY <1>1, <1>2 DEF TypeOK, Facts, Hands
<1>4. OnePoster'
  BY <1>1, <1>2 DEF TypeOK, Facts, OnePoster
<1>5. Rows'
  BY <1>1, ActorsAssumption DEF TypeOK, Facts, Rows, Row
<1> QED
  BY <1>1, <1>3, <1>4, <1>5 DEF Facts, Targets

\* A row that nobody holds changes, or the one that its deleter holds.
LEMMA RowChanges ==
  ASSUME TypeOK, Facts, NEW t \in Tasks, NEW s \in Finished \cup {"saving", "gone"},
         status' = [status EXCEPT ![t] = s],
         status[t] \notin {"none", "queued"},
         \A w \in Workers : owner'[t] = w /\ job[w] = t => wpc[w] \in {"idle", "remove"},
         owner' = owner \/ owner' = [owner EXCEPT ![t] = None],
         artifact' = artifact \/ artifact' = [artifact EXCEPT ![t] = artifact'[t]],
         s = "saving" => artifact'[t] = "saving" /\ posts[t] = 1,
         s = "submission_unknown" => ~ resultKey[t],
         s # "saving" => owner'[t] \notin Deleters,
         UNCHANGED <<posts, resultKey, wpc, job, target>>,
         \A d \in Deleters : dpc'[d] # "idle" => dpc[d] # "idle"
  PROVE  Facts'
<1>1. Hands'
  <2> SUFFICES ASSUME NEW w \in Workers, wpc[w] # "idle"
               PROVE  /\ job[w] \in Tasks
                      /\ status'[job[w]] # "none"
                      /\ wpc[w] = "prepare" /\ owner'[job[w]] = w => status'[job[w]] = "queued"
                      /\ wpc[w] \in {"post", "answer", "checkpoint"} =>
                           /\ status'[job[w]] # "queued"
                           /\ owner'[job[w]] = w => status'[job[w]] = "running"
                      /\ wpc[w] = "post" => posts[job[w]] = 0
                      /\ wpc[w] \in {"answer", "checkpoint"} => posts[job[w]] = 1
                      /\ wpc[w] \in {"restore", "save"} /\ owner'[job[w]] = w =>
                           status'[job[w]] = "saving"
    BY DEF Hands
  <2>1. CASE job[w] = t
    BY <2>1 DEF TypeOK, Facts, Hands, Finished
  <2>2. CASE job[w] # t
    BY <2>2 DEF TypeOK, Facts, Hands
  <2> QED
    BY <2>1, <2>2
<1>2. Rows'
  <2> SUFFICES ASSUME NEW u \in Tasks PROVE Row(u)'
    BY DEF Rows
  <2>1. CASE u = t
    BY <2>1 DEF TypeOK, Facts, Rows, Row, Finished
  <2>2. CASE u # t
    BY <2>2 DEF TypeOK, Facts, Rows, Row
  <2> QED
    BY <2>1, <2>2
<1> QED
  BY <1>1, <1>2 DEF Facts, OnePoster, Targets

\* Lost leases, abandoned rows, RetrySave, reconciliation and both clean-ups keep it.
LEMMA RecoveryFacts ==
  ASSUME TypeOK, Facts, NEW t \in Tasks,
         \/ LeaseExpires(t) \/ RecoverRunning(t) \/ RetrySave(t)
         \/ CleanResult(t) \/ Reconcile(t) \/ OutputExpires(t)
  PROVE  Facts'
<1> USE DEF rowVars, leaseCols, workVars, delVars
<1>1. CASE LeaseExpires(t) \/ OutputExpires(t)
  BY <1>1, Quiet DEF LeaseExpires, OutputExpires
<1>2. CASE RecoverRunning(t)
  <2>1. "submission_unknown" \in Finished
    BY DEF Finished
  <2>2. /\ status' = [status EXCEPT ![t] = "submission_unknown"]
        /\ owner' = [owner EXCEPT ![t] = None] /\ owner'[t] = None
        /\ status[t] = "running" /\ ~ resultKey[t]
        /\ UNCHANGED <<artifact, posts, resultKey, wpc, job, target, dpc>>
    BY <1>2 DEF RecoverRunning, Unlease, TypeOK, Facts, Rows, Row
  <2>3. \A w \in Workers : owner'[t] = w /\ job[w] = t => wpc[w] \in {"idle", "remove"}
    BY <2>2, ActorsAssumption
  <2>4. owner'[t] \notin Deleters /\ \A d \in Deleters : dpc'[d] # "idle" => dpc[d] # "idle"
    BY <2>2, ActorsAssumption
  <2>5. status[t] \notin {"none", "queued"}
    BY <2>2
  <2> QED
    BY <2>1, <2>2, <2>3, <2>4, <2>5, RowChanges
<1>3. CASE RetrySave(t)
  <2>1. /\ status' = [status EXCEPT ![t] = "saving"]
        /\ artifact' = [artifact EXCEPT ![t] = "saving"] /\ artifact'[t] = "saving"
        /\ resultKey[t] /\ artifact[t] # "saving" /\ status[t] # "saving"
        /\ UNCHANGED <<owner, posts, resultKey, wpc, job, target, dpc>>
    BY <1>3 DEF RetrySave, TypeOK, Facts, Rows, Row
  <2>2. posts[t] = 1 /\ status[t] \in {"completed", "partial", "failed", "gone"}
    BY <2>1 DEF Facts, Rows, Row
  <2>3. ASSUME NEW w \in Workers, owner'[t] = w, job[w] = t PROVE wpc[w] \in {"idle", "remove"}
    <3>1. wpc[w] \in WorkerPoints /\ owner[t] = w
      BY <2>1, <2>3 DEF TypeOK
    <3>2. status[t] \notin {"queued", "running", "saving"}
      BY <2>1, <2>2 DEF Facts, Rows, Row
    <3> QED
      BY <2>3, <3>1, <3>2 DEF WorkerPoints, Facts, Hands
  <2> QED
    BY <2>1, <2>2, <2>3, RowChanges
<1>4. CASE CleanResult(t)
  BY <1>4 DEF CleanResult, DropResult, TypeOK, Facts, Hands, OnePoster, Rows, Row, Targets
<1>5. CASE Reconcile(t)
  <2>1. "failed" \in Finished
    BY DEF Finished
  <2>2. /\ status' = [status EXCEPT ![t] = "failed"]
        /\ artifact' = [artifact EXCEPT ![t] = "failed"] /\ artifact'[t] = "failed"
        /\ owner' = owner /\ owner[t] = None /\ status[t] = "submission_unknown"
        /\ UNCHANGED <<posts, resultKey, wpc, job, target, dpc>>
    BY <1>5 DEF Reconcile, TypeOK
  <2> QED
    BY <2>1, <2>2, RowChanges, ActorsAssumption
<1> QED
  BY <1>1, <1>2, <1>3, <1>4, <1>5

\* Delete, and a deleter that stops half-way, keep the invariant.
LEMMA DeleterFacts ==
  ASSUME TypeOK, Facts, NEW d \in Deleters,
         \/ DeleteSpool(d) \/ DeleteRows(d) \/ DeleterStops(d)
         \/ \E t \in Tasks : DeleteBegins(d, t)
  PROVE  Facts'
<1> USE DEF rowVars, leaseCols, workVars, Unlease
<1>1. ASSUME NEW t \in Tasks, DeleteBegins(d, t) PROVE Facts'
  <2>1. /\ owner' = [owner EXCEPT ![t] = d]
        /\ target' = [target EXCEPT ![d] = t]
        /\ status[t] \in Finished
        /\ UNCHANGED <<status, artifact, posts, resultKey, wpc, job>>
    BY <1>1 DEF DeleteBegins, TakeLease
  <2>2. Hands'
    BY <2>1, ActorsAssumption DEF TypeOK, Facts, Hands
  <2>3. Rows'
    BY <2>1 DEF TypeOK, Facts, Rows, Row
  <2>4. Targets'
    <3>1. \A e \in Deleters \ {d} : dpc'[e] = dpc[e] /\ target'[e] = target[e]
      BY <1>1 DEF DeleteBegins, TypeOK
    <3>2. target'[d] = t
      BY <2>1 DEF TypeOK
    <3> QED
      BY <3>1, <3>2 DEF Facts, Targets
  <2> QED
    BY <2>1, <2>2, <2>3, <2>4 DEF Facts, OnePoster
<1>2. ASSUME UNCHANGED <<status, artifact, posts, resultKey, wpc, job, target>>,
             owner' = owner \/ owner' = [owner EXCEPT ![target[d]] = None],
             \A e \in Deleters : dpc'[e] # "idle" => dpc[e] # "idle"
      PROVE  Facts'
  <2>1. Hands'
    BY <1>2, ActorsAssumption DEF TypeOK, Facts, Hands
  <2>2. Rows'
    <3> SUFFICES ASSUME NEW t \in Tasks PROVE Row(t)'
      BY DEF Rows
    <3>1. owner'[t] \in Deleters => owner[t] \in Deleters
      BY <1>2, ActorsAssumption DEF TypeOK
    <3> QED
      BY <1>2, <3>1 DEF Facts, Rows, Row
  <2> QED
    BY <1>2, <2>1, <2>2 DEF Facts, OnePoster, Targets
<1>3. CASE DeleteSpool(d)
  <2>1. \A e \in Deleters : dpc'[e] # "idle" => dpc[e] # "idle"
    BY <1>3 DEF DeleteSpool, DeleteReleases, TypeOK
  <2> QED
    BY <1>2, <1>3, <2>1 DEF DeleteSpool, DeleteReleases
<1>4. CASE DeleterStops(d)
  <2>1. \A e \in Deleters : dpc'[e] # "idle" => dpc[e] # "idle"
    BY <1>4 DEF DeleterStops, TypeOK
  <2> QED
    BY <1>2, <1>4, <2>1 DEF DeleterStops
<1>5. CASE DeleteRows(d)
  <2> DEFINE t == target[d]
  <2>1. /\ owner' = owner \/ owner' = [owner EXCEPT ![t] = None]
        /\ owner[t] = d => owner' = [owner EXCEPT ![t] = None]
        /\ \A e \in Deleters : dpc'[e] # "idle" => dpc[e] # "idle"
        /\ t \in Tasks
        /\ UNCHANGED <<artifact, posts, resultKey, wpc, job, target>>
    BY <1>5 DEF DeleteRows, DeleteReleases, TypeOK, Facts, Targets
  <2>2. CASE status' = status
    BY <1>2, <2>1, <2>2
  <2>3. CASE status' # status
    <3>1. owner[t] = d /\ status' = [status EXCEPT ![t] = "gone"]
      BY <1>5, <2>3 DEF DeleteRows
    <3>2. status[t] \notin {"none", "queued"}
      BY <2>1, <3>1 DEF Facts, Rows, Row, Finished
    <3>3. owner'[t] = None /\ owner' = [owner EXCEPT ![t] = None]
      BY <2>1, <3>1 DEF TypeOK
    <3> QED
      BY <2>1, <3>1, <3>2, <3>3, RowChanges, ActorsAssumption
  <2> QED
    BY <2>2, <2>3
<1> QED
  BY <1>1, <1>3, <1>4, <1>5

\* The invariant is inductive.
LEMMA NextIInv == IInv /\ [Next]_vars => IInv'
<1> SUFFICES ASSUME TypeOK, Facts, [Next]_vars PROVE TypeOK' /\ Facts'
  BY DEF IInv, Facts
<1>1. CASE UNCHANGED vars
  <2>1. TypeOK'
    BY <1>1 DEF vars, TypeOK, rowVars, leaseCols, idVars, storeVars, workVars, delVars
  <2> QED
    BY <1>1, <2>1, Quiet DEF vars, rowVars, leaseCols, workVars, delVars
<1>2. ASSUME NEW c \in Callers, CallerStep(c) PROVE TypeOK' /\ Facts'
  BY <1>2, CallerTypes, CallerFacts
<1>3. ASSUME NEW w \in Workers,
             WorkerStep(w) \/ ReleaseQueued(w) \/ WorkerStops(w) \/ Heartbeat(w)
      PROVE  TypeOK' /\ Facts'
  <2>1. wpc[w] # "idle" => job[w] \in Tasks
    BY DEF Facts, Hands
  <2> QED
    BY <1>3, <2>1, WorkerTypes, WorkerFacts
<1>4. ASSUME NEW w \in Workers, NEW t \in Tasks, Claim(w, t) PROVE TypeOK' /\ Facts'
  BY <1>4, OtherTypes, ClaimFacts DEF Facts
<1>5. ASSUME NEW d \in Deleters, DeleterStep(d) \/ DeleterStops(d) PROVE TypeOK' /\ Facts'
  BY <1>5, OtherTypes, DeleterFacts DEF DeleterStep, Facts
<1>6. ASSUME NEW d \in Deleters, NEW t \in Tasks, DeleteBegins(d, t) PROVE TypeOK' /\ Facts'
  BY <1>6, OtherTypes, DeleterFacts DEF Facts
<1>7. ASSUME NEW t \in Tasks,
             \/ LeaseExpires(t) \/ RecoverRunning(t) \/ RetrySave(t)
             \/ CleanResult(t) \/ Reconcile(t) \/ OutputExpires(t)
      PROVE  TypeOK' /\ Facts'
  BY <1>7, OtherTypes, RecoveryFacts DEF Facts
<1> QED
  BY <1>1, <1>2, <1>3, <1>4, <1>5, <1>6, <1>7 DEF Next

\* The type invariant and the facts above hold in every reachable state of
\* every number of tasks, workers and deletions.
THEOREM Invariance == SafetySpec => []IInv
<1>1. Init => IInv
  BY InitIInv
<1>2. IInv /\ [Next]_vars => IInv'
  BY NextIInv
<1> QED
  BY <1>1, <1>2, PTL DEF SafetySpec

\* The paid POST of manager.go's process is sent at most once for each task,
\* whatever workers crash, stall or compete and however often it is retried.
THEOREM PaidOnce == SafetySpec => []OnePostPerTask
<1>1. IInv => OnePostPerTask
  BY DEF IInv, Rows, Row, OnePostPerTask
<1> QED
  BY <1>1, Invariance, PTL
-----------------------------------------------------------------------------
(* Refinement of OneShotGeneration.                                         *)

Same == UNCHANGED <<status, posts>>

Statuses == {"none", "gone"} \cup Active \cup Finished

\* A change of status is a move of the phase in OneShotGeneration.
LEMMA PhaseMoves ==
  ASSUME TypeOK, NEW t \in Tasks, NEW s \in Statuses, NEW from,
         PhaseOf(status[t]) \in from,
         status' = [status EXCEPT ![t] = s], UNCHANGED posts
  PROVE  OneShot!Move(t, from, PhaseOf(s))
<1>1. Phase[t] \in from
  BY DEF Phase
<1>2. Phase' = [u \in Tasks |-> PhaseOf(status'[u])]
  BY DEF Phase
<1>3. \A u \in Tasks : status'[u] = IF u = t THEN s ELSE status[u]
  BY DEF TypeOK
<1>4. Phase = [u \in Tasks |-> PhaseOf(status[u])]
  BY DEF Phase
<1>5. \A u \in Tasks : PhaseOf(status'[u]) = IF u = t THEN PhaseOf(s) ELSE PhaseOf(status[u])
  BY <1>3
<1>6. Phase' = [Phase EXCEPT ![t] = PhaseOf(s)]
  BY <1>2, <1>4, <1>5
<1> QED
  BY <1>1, <1>6 DEF OneShot!Move

\* Each status maps to one phase.
LEMMA PhaseNames ==
  /\ PhaseOf("none") = "none" /\ PhaseOf("queued") = "pending"
  /\ PhaseOf("running") = "submitted" /\ PhaseOf("saving") = "generated"
  /\ PhaseOf("submission_unknown") = "unknown" /\ PhaseOf("gone") = "gone"
  /\ \A s \in {"completed", "partial", "failed"} : PhaseOf(s) = "settled"
BY DEF PhaseOf

\* A step that leaves the mapped variables alone is a stutter of OneShotGeneration.
LEMMA SameStutters == Same => UNCHANGED OneShot!vars
BY DEF Same, OneShot!vars, Phase

\* Ending a task before an answer is stored maps to Settle, to Lose, or to a stutter.
LEMMA TerminalMaps ==
  ASSUME TypeOK, Facts, NEW w \in Workers, wpc[w] \in {"prepare", "post", "answer"},
         NEW s \in {"failed", "submission_unknown"},
         s = "submission_unknown" => wpc[w] \in {"post", "answer"},
         Terminal(w, s)
  PROVE  Same \/ \E t \in Tasks : OneShot!Settle(t) \/ OneShot!Lose(t)
<1>1. CASE owner[job[w]] # w
  BY <1>1 DEF Terminal, Owned, rowVars, Same
<1>2. CASE owner[job[w]] = w
  <2>1. job[w] \in Tasks /\ status' = [status EXCEPT ![job[w]] = s] /\ UNCHANGED posts
    BY <1>2 DEF Terminal, Owned, Facts, Hands
  <2>2. CASE s = "failed"
    <3>1. PhaseOf(status[job[w]]) \in {"pending", "submitted", "generated", "unknown"}
      BY <1>2, PhaseNames DEF Facts, Hands
    <3> QED
      BY <2>1, <2>2, <3>1, PhaseMoves, PhaseNames DEF Statuses, Finished, OneShot!Settle
  <2>3. CASE s = "submission_unknown"
    <3>1. PhaseOf(status[job[w]]) \in {"submitted"}
      BY <1>2, <2>3, PhaseNames DEF Facts, Hands
    <3> QED
      BY <2>1, <2>3, <3>1, PhaseMoves, PhaseNames DEF Statuses, Finished, OneShot!Lose
  <2> QED
    BY <2>2, <2>3
<1> QED
  BY <1>1, <1>2

\* Each step of a worker maps to a step of OneShotGeneration or a stutter.
LEMMA WorkerMaps ==
  ASSUME TypeOK, Facts, NEW w \in Workers,
         WorkerStep(w) \/ ReleaseQueued(w) \/ WorkerStops(w) \/ Heartbeat(w)
  PROVE  Same \/ OneShot!Next
<1> USE DEF OneShot!Next, OneShot!Progress, rowVars
<1>1. CASE PrepareFails(w)
  BY <1>1, TerminalMaps DEF PrepareFails
<1>2. CASE AnswerUnknown(w)
  BY <1>2, TerminalMaps DEF AnswerUnknown
<1>3. CASE AnswerRejected(w)
  BY <1>3, TerminalMaps DEF AnswerRejected
<1>4. CASE StartRunning(w)
  <2>1. CASE owner[job[w]] # w
    BY <1>4, <2>1 DEF StartRunning, Owned, Same
  <2>2. CASE owner[job[w]] = w
    <3>1. job[w] \in Tasks /\ PhaseOf(status[job[w]]) \in {"pending"}
      BY <1>4, <2>2, PhaseNames DEF StartRunning, Facts, Hands
    <3>2. OneShot!Submit(job[w])
      BY <1>4, <2>2, <3>1, PhaseMoves, PhaseNames
         DEF StartRunning, Owned, Statuses, Active, OneShot!Submit
    <3> QED
      BY <3>1, <3>2
  <2> QED
    BY <2>1, <2>2
<1>5. CASE Post(w)
  <2>1. /\ job[w] \in Tasks /\ posts[job[w]] = 0
        /\ status[job[w]] \in Statuses \ {"none", "queued"}
        /\ posts' = [posts EXCEPT ![job[w]] = @ + 1] /\ UNCHANGED status
    BY <1>5 DEF Post, Facts, Hands, TypeOK, Statuses
  <2>2. PhaseOf(status[job[w]]) \notin {"none", "pending"}
    BY <2>1, PhaseNames DEF Statuses, Active, Finished
  <2>3. Phase[job[w]] \notin {"none", "pending"} /\ UNCHANGED Phase
    BY <2>1, <2>2 DEF Phase
  <2>4. posts' = [posts EXCEPT ![job[w]] = 1]
    BY <2>1 DEF TypeOK
  <2> QED
    BY <2>1, <2>3, <2>4 DEF OneShot!Send
<1>6. CASE Checkpoint(w)
  <2>1. /\ job[w] \in Tasks /\ posts[job[w]] = 1
        /\ PhaseOf(status[job[w]]) \in {"submitted"}
    BY <1>6, PhaseNames DEF Checkpoint, Owned, Facts, Hands
  <2>2. OneShot!Generate(job[w])
    BY <1>6, <2>1, PhaseMoves, PhaseNames DEF Checkpoint, Statuses, Active, OneShot!Generate
  <2> QED
    BY <2>1, <2>2
<1>7. CASE RestoreFails(w) \/ FinishSave(w)
  <2>1. CASE owner[job[w]] # w
    BY <1>7, <2>1 DEF RestoreFails, FinishSave, Owned, Same
  <2>2. CASE owner[job[w]] = w
    <3>1. PICK s \in {"completed", "partial", "failed"} :
            status' = [status EXCEPT ![job[w]] = s]
      BY <1>7, <2>2 DEF RestoreFails, FinishSave, Owned, Verdict
    <3>2. /\ job[w] \in Tasks /\ UNCHANGED posts
          /\ PhaseOf(status[job[w]]) \in {"pending", "submitted", "generated", "unknown"}
      BY <1>7, <2>2, PhaseNames DEF RestoreFails, FinishSave, Facts, Hands
    <3>3. OneShot!Settle(job[w])
      BY <3>1, <3>2, PhaseMoves, PhaseNames DEF Statuses, Finished, OneShot!Settle
    <3> QED
      BY <3>2, <3>3
  <2> QED
    BY <2>1, <2>2
<1>8. CASE Spool(w) \/ CheckpointLost(w) \/ Restore(w) \/ SaveImage(w) \/ RemoveResult(w)
  BY <1>8 DEF Spool, CheckpointLost, Restore, SaveImage, RemoveResult, Same
<1>9. CASE ReleaseQueued(w) \/ WorkerStops(w) \/ Heartbeat(w)
  BY <1>9 DEF ReleaseQueued, WorkerStops, Heartbeat, Same
<1> QED
  BY <1>1, <1>2, <1>3, <1>4, <1>5, <1>6, <1>7, <1>8, <1>9 DEF WorkerStep

\* So do lost leases, abandoned rows, RetrySave, reconciliation and both clean-ups.
LEMMA RecoveryMaps ==
  ASSUME TypeOK, Facts, NEW t \in Tasks,
         \/ LeaseExpires(t) \/ RecoverRunning(t) \/ RetrySave(t)
         \/ CleanResult(t) \/ Reconcile(t) \/ OutputExpires(t)
  PROVE  Same \/ OneShot!Next
<1> USE DEF OneShot!Next, OneShot!Progress, rowVars
<1>1. CASE LeaseExpires(t) \/ CleanResult(t) \/ OutputExpires(t)
  BY <1>1 DEF LeaseExpires, CleanResult, OutputExpires, Same
<1>2. CASE RecoverRunning(t)
  <2>1. PhaseOf(status[t]) \in {"submitted"}
    BY <1>2, PhaseNames DEF RecoverRunning
  <2> QED
    BY <1>2, <2>1, PhaseMoves, PhaseNames DEF RecoverRunning, Statuses, Finished, OneShot!Lose
<1>3. CASE RetrySave(t)
  <2>1. posts[t] = 1 /\ status[t] \in {"completed", "partial", "failed"}
    BY <1>3 DEF RetrySave, Live, Facts, Rows, Row
  <2>2. PhaseOf(status[t]) \in {"settled"}
    BY <2>1, PhaseNames
  <2> QED
    BY <1>3, <2>1, <2>2, PhaseMoves, PhaseNames
       DEF RetrySave, Statuses, Active, OneShot!SaveAgain
<1>4. CASE Reconcile(t)
  <2>1. PhaseOf(status[t]) \in {"pending", "submitted", "generated", "unknown"}
    BY <1>4, PhaseNames DEF Reconcile
  <2> QED
    BY <1>4, <2>1, PhaseMoves, PhaseNames DEF Reconcile, Statuses, Finished, OneShot!Settle
<1> QED
  BY <1>1, <1>2, <1>3, <1>4

\* So do the steps of Delete.
LEMMA DeleterMaps ==
  ASSUME TypeOK, Facts, NEW d \in Deleters,
         \/ DeleterStep(d) \/ DeleterStops(d) \/ \E t \in Tasks : DeleteBegins(d, t)
  PROVE  Same \/ OneShot!Next
<1>1. CASE DeleteSpool(d) \/ DeleterStops(d) \/ \E t \in Tasks : DeleteBegins(d, t)
  BY <1>1 DEF DeleteSpool, DeleterStops, DeleteBegins, rowVars, Same
<1>2. CASE DeleteRows(d)
  <2>1. CASE UNCHANGED status
    BY <1>2, <2>1 DEF DeleteRows, Same
  <2>2. CASE status' # status
    <3>1. /\ owner[target[d]] = d /\ target[d] \in Tasks /\ UNCHANGED posts
          /\ status' = [status EXCEPT ![target[d]] = "gone"]
      BY <1>2, <2>2 DEF DeleteRows, Facts, Targets
    <3>2. status[target[d]] \in Finished \cup {"saving"}
      BY <3>1 DEF Facts, Rows, Row
    <3>3. PhaseOf(status[target[d]]) \in {"settled", "unknown", "generated"}
      BY <3>2, PhaseNames DEF Finished
    <3>4. OneShot!Forget(target[d])
      BY <3>1, <3>3, PhaseMoves, PhaseNames DEF Statuses, OneShot!Forget
    <3> QED
      BY <3>1, <3>4 DEF OneShot!Next
  <2> QED
    BY <2>1, <2>2
<1> QED
  BY <1>1, <1>2 DEF DeleterStep

\* So does Submit.
LEMMA CallerMaps ==
  ASSUME TypeOK, Facts, NEW c \in Callers, CallerStep(c)
  PROVE  Same \/ OneShot!Next
<1>1. CASE Create(c)
  <2>1. PICK t \in Tasks :
          status[t] = "none" /\ status' = [status EXCEPT ![t] = "queued"] /\ UNCHANGED posts
    BY <1>1 DEF Create
  <2>2. PhaseOf(status[t]) \in {"none"}
    BY <2>1, PhaseNames
  <2>3. OneShot!Accept(t)
    BY <2>1, <2>2, PhaseMoves, PhaseNames DEF Statuses, Active, OneShot!Accept
  <2> QED
    BY <2>3 DEF OneShot!Next
<1>2. CASE CreateConflicts(c) \/ SubmitReturns(c) \/ \E k \in Keys, i \in Inputs : Lookup(c, k, i)
  BY <1>2 DEF CreateConflicts, SubmitReturns, Lookup, rowVars, Same
<1> QED
  BY <1>1, <1>2 DEF CallerStep

\* Every step maps to a step of OneShotGeneration or a stutter.
LEMMA StepMaps == IInv /\ [Next]_vars => [OneShot!Next]_OneShot!vars
<1> SUFFICES ASSUME TypeOK, Facts, [Next]_vars PROVE Same \/ OneShot!Next
  BY SameStutters DEF IInv, Facts
<1>1. CASE UNCHANGED vars
  BY <1>1 DEF vars, rowVars, Same
<1>2. ASSUME NEW w \in Workers, NEW t \in Tasks, Claim(w, t) PROVE Same
  BY <1>2 DEF Claim, rowVars, Same
<1> QED
  BY <1>1, <1>2, CallerMaps, WorkerMaps, DeleterMaps, RecoveryMaps DEF Next

\* A task of internal/imagegentask never leaves the life cycle that
\* OneShotGeneration describes: it is sent at most once and only after the row
\* says so, it has output only after it was sent, and only saving is repeated.
THEOREM RefinesOneShot == SafetySpec => OneShot!SafetySpec
<1>1. Init => OneShot!Init
  BY PhaseNames DEF Init, OneShot!Init, Phase
<1>2. IInv /\ [Next]_vars => [OneShot!Next]_OneShot!vars
  BY StepMaps
<1> QED
  BY <1>1, <1>2, Invariance, PTL DEF SafetySpec, OneShot!SafetySpec
-----------------------------------------------------------------------------
(* Requests, results and deletions.                                         *)

\* A saving loop has attached what is behind its index, unless it gave a warning; a
\* request was answered with a row that was made.
Saved ==
  /\ \A t \in Tasks : outputs[t] \subseteq attached[t]
  /\ \A w \in Workers : wpc[w] = "save" /\ ~ warned[w] =>
       \A i \in 1 .. Images : i < index[w] => i \in attached[job[w]]
  /\ CompletedMeansAllSaved
  /\ NoOrphanOutputs
  /\ \A c \in Callers : sub[c].at = "accepted" =>
       /\ sub[c].task \in Tasks /\ status[sub[c].task] # "none"
       /\ hash[sub[c].task] = sub[c].input

\* No row is reused, and none comes back: OneShotGeneration has no such step.
LEMMA RowsStay ==
  ASSUME IInv, [Next]_vars, NEW t \in Tasks
  PROVE  /\ status[t] # "none" => status'[t] # "none"
         /\ status[t] = "gone" => status'[t] = "gone"
<1>1. status[t] \in Statuses /\ status'[t] \in Statuses
  BY NextIInv DEF IInv, TypeOK, Statuses
<1>2. ASSUME NEW s \in Statuses PROVE (PhaseOf(s) = "none" <=> s = "none") /\ (PhaseOf(s) = "gone" <=> s = "gone")
  BY PhaseNames DEF Statuses, Active, Finished
<1>3. /\ Phase[t] = PhaseOf(status[t]) /\ Phase'[t] = PhaseOf(status'[t])
      /\ Phase = [u \in Tasks |-> Phase[u]]
  BY DEF Phase
<1>4. /\ Phase[t] # "none" => Phase'[t] # "none"
      /\ Phase[t] = "gone" => Phase'[t] = "gone"
  <2>1. [OneShot!Next]_OneShot!vars
    BY StepMaps
  <2>2. CASE UNCHANGED OneShot!vars
    BY <2>2 DEF OneShot!vars
  <2>3. CASE OneShot!Next
    <3>1. PICK u \in Tasks :
            OneShot!Accept(u) \/ OneShot!Send(u) \/ OneShot!Progress(u) \/ OneShot!SaveAgain(u) \/ OneShot!Forget(u)
      BY <2>3 DEF OneShot!Next
    <3> QED
      BY <1>3, <3>1 DEF OneShot!Accept, OneShot!Send, OneShot!Progress, OneShot!SaveAgain, OneShot!Forget,
                        OneShot!Submit, OneShot!Lose, OneShot!Settle, OneShot!Generate, OneShot!Move
  <2> QED
    BY <2>1, <2>2, <2>3
<1> QED
  BY <1>1, <1>2, <1>3, <1>4

\* Steps that attach nothing, complete nothing and answer nobody.
LEMMA SavedKept ==
  ASSUME IInv, Saved, [Next]_vars, UNCHANGED <<attached, hash, sub>>,
         \A t \in Tasks : outputs'[t] \subseteq outputs[t],
         \A w \in Workers : wpc'[w] = "save" =>
           \/ index'[w] = 1
           \/ wpc[w] = "save" /\ index'[w] = index[w] /\ warned'[w] = warned[w] /\ job'[w] = job[w],
         \A t \in Tasks : status'[t] = "completed" => status[t] = "completed",
         \A t \in Tasks : status'[t] = "gone" => status[t] = "gone" \/ outputs'[t] = {}
  PROVE  Saved'
<1>1. \A w \in Workers : wpc'[w] = "save" /\ ~ warned'[w] =>
        \A i \in 1 .. Images : i < index'[w] => i \in attached'[job'[w]]
  BY ImagesAssumption DEF Saved
<1>2. CompletedMeansAllSaved' /\ NoOrphanOutputs'
  BY DEF Saved, CompletedMeansAllSaved, NoOrphanOutputs
<1>3. \A c \in Callers : sub'[c].at = "accepted" =>
        /\ sub'[c].task \in Tasks /\ status'[sub'[c].task] # "none"
        /\ hash'[sub'[c].task] = sub'[c].input
  BY RowsStay DEF Saved
<1> QED
  BY <1>1, <1>2, <1>3 DEF Saved

\* Submit answers with a row of the key whose input is the same.
LEMMA AnswerFits ==
  ASSUME TypeOK, Saved, NEW c \in Callers, CallerStep(c)
  PROVE  \A d \in Callers : sub'[d].at = "accepted" =>
           /\ sub'[d].task \in Tasks /\ status'[sub'[d].task] # "none"
           /\ hash'[sub'[d].task] = sub'[d].input
<1>1. NoCall.at = "idle" /\ sub \in [Callers -> Calls]
  BY DEF NoCall, TypeOK
<1>2. ASSUME NEW k, NEW i, Answer(c, k, i), UNCHANGED <<status, hash>>
      PROVE  \A d \in Callers : sub'[d].at = "accepted" =>
               /\ sub'[d].task \in Tasks /\ status'[sub'[d].task] # "none"
               /\ hash'[sub'[d].task] = sub'[d].input
  <2>1. PICK t \in RowsOf(k) :
          sub' = [sub EXCEPT ![c] = IF hash[t] = i THEN Call("accepted", k, i, t) ELSE NoCall]
    BY <1>2 DEF Answer
  <2>2. t \in Tasks /\ status[t] # "none"
    BY DEF RowsOf, Live
  <2> QED
    BY <1>1, <1>2, <2>1, <2>2 DEF Saved, Call
<1>3. ASSUME NEW k \in Keys, NEW i \in Inputs, Lookup(c, k, i)
      PROVE  \A d \in Callers : sub'[d].at = "accepted" =>
               /\ sub'[d].task \in Tasks /\ status'[sub'[d].task] # "none"
               /\ hash'[sub'[d].task] = sub'[d].input
  <2>1. CASE Answer(c, k, i)
    BY <1>2, <1>3, <2>1 DEF Lookup, rowVars, idVars
  <2>2. CASE sub' = [sub EXCEPT ![c] = Call("prepare", k, i, None)]
    BY <1>1, <1>3, <2>2 DEF Lookup, rowVars, idVars, Saved, Call
  <2> QED
    BY <1>3, <2>1, <2>2 DEF Lookup
<1>4. CASE Create(c)
  <2>1. PICK t \in Tasks :
          /\ status[t] = "none"
          /\ status' = [status EXCEPT ![t] = "queued"]
          /\ hash' = [hash EXCEPT ![t] = sub[c].input]
          /\ sub' = [sub EXCEPT ![c] = Call("accepted", sub[c].key, sub[c].input, t)]
    BY <1>4 DEF Create
  <2> QED
    BY <1>1, <2>1 DEF Saved, Call, TypeOK
<1>5. CASE CreateConflicts(c)
  BY <1>2, <1>5 DEF CreateConflicts, rowVars, idVars
<1>6. CASE SubmitReturns(c)
  BY <1>1, <1>6 DEF SubmitReturns, rowVars, idVars, Saved
<1> QED
  BY <1>3, <1>4, <1>5, <1>6 DEF CallerStep

\* The steps of Submit keep what is saved.
LEMMA CallerSaves ==
  ASSUME IInv, Saved, NEW c \in Callers, CallerStep(c)
  PROVE  Saved'
<1>1. UNCHANGED <<outputs, attached, wpc, warned, index, job>>
  BY DEF CallerStep, Lookup, Create, CreateConflicts, SubmitReturns, storeVars, workVars
<1>2. \A t \in Tasks : status'[t] \in {"completed", "gone"} => status[t] = status'[t]
  BY DEF CallerStep, Lookup, Create, CreateConflicts, SubmitReturns, rowVars, IInv, TypeOK
<1>3. CompletedMeansAllSaved' /\ NoOrphanOutputs'
  BY <1>1, <1>2 DEF Saved, CompletedMeansAllSaved, NoOrphanOutputs
<1> QED
  BY <1>1, <1>3, AnswerFits DEF Saved, IInv

\* An image that is not attached and gives no warning is attached now.
LEMMA ImageSaved ==
  ASSUME IInv, Saved, NEW w \in Workers, SaveImage(w), [Next]_vars
  PROVE  Saved'
<1> DEFINE i == index[w]
           t == job[w]
<1>1. /\ wpc[w] = "save" /\ i <= Images /\ index' = [index EXCEPT ![w] = i + 1]
      /\ UNCHANGED <<status, hash, sub, wpc, job>>
  BY DEF SaveImage, rowVars, idVars
<1>2. /\ t \in Tasks /\ i \in 1 .. Images + 1 /\ Images \in Nat /\ index \in [Workers -> 1 .. Images + 1]
      /\ outputs \in [Tasks -> SUBSET (1 .. Images)] /\ attached \in [Tasks -> SUBSET (1 .. Images)]
      /\ warned \in [Workers -> BOOLEAN]
  BY <1>1, ImagesAssumption DEF IInv, TypeOK, Hands
<1>3. i \in 1 .. Images
  BY <1>1, <1>2
<1>4. \/ i \in outputs[t] /\ UNCHANGED <<outputs, attached, warned>>
      \/ Attach(w, i) /\ UNCHANGED warned
      \/ warned' = [warned EXCEPT ![w] = TRUE] /\ UNCHANGED <<outputs, attached>>
  BY DEF SaveImage
<1>5. /\ \A u \in Tasks : attached[u] \subseteq attached'[u] /\ outputs'[u] \subseteq attached'[u]
      /\ attached' \in [Tasks -> SUBSET (1 .. Images)]
      /\ \A v \in Workers \ {w} : warned'[v] = warned[v]
  <2>1. CASE Attach(w, i) /\ UNCHANGED warned
    BY <1>2, <1>3, <2>1 DEF Attach, Saved
  <2>2. CASE UNCHANGED <<outputs, attached>>
    BY <1>2, <1>4, <2>2 DEF Saved, Attach
  <2> QED
    BY <1>4, <2>1, <2>2
<1>6. ~ warned'[w] => ~ warned[w] /\ i \in attached'[t]
  BY <1>2, <1>4 DEF Attach, Saved
<1>7. ASSUME NEW v \in Workers, wpc'[v] = "save", ~ warned'[v], NEW j \in 1 .. Images, j < index'[v]
      PROVE  j \in attached'[job'[v]]
  <2>1. job[v] \in Tasks /\ wpc[v] = "save"
    BY <1>1, <1>7 DEF IInv, Hands
  <2>2. CASE v = w
    <3>1. j = i \/ j < i
      BY <1>1, <1>2, <1>7, <2>2
    <3> QED
      BY <1>1, <1>2, <1>5, <1>6, <1>7, <2>1, <2>2, <3>1 DEF Saved
  <2>3. CASE v # w
    BY <1>1, <1>2, <1>5, <1>7, <2>1, <2>3 DEF Saved
  <2> QED
    BY <2>2, <2>3
<1>8. CompletedMeansAllSaved'
  BY <1>1, <1>2, <1>5 DEF Saved, CompletedMeansAllSaved
<1>9. NoOrphanOutputs'
  <2>1. CASE Attach(w, i)
    BY <1>1, <1>2, <2>1 DEF Attach, Saved, NoOrphanOutputs
  <2>2. CASE UNCHANGED outputs
    BY <1>1, <2>2 DEF Saved, NoOrphanOutputs
  <2> QED
    BY <1>4, <2>1, <2>2
<1>10. \A c \in Callers : sub'[c].at = "accepted" =>
        /\ sub'[c].task \in Tasks /\ status'[sub'[c].task] # "none"
        /\ hash'[sub'[c].task] = sub'[c].input
  BY <1>1 DEF Saved
<1> QED
  BY <1>5, <1>7, <1>8, <1>9, <1>10 DEF Saved

\* The verdict is "completed" when no image gave a warning.
LEMMA SaveFinished ==
  ASSUME IInv, Saved, NEW w \in Workers, FinishSave(w), [Next]_vars
  PROVE  Saved'
<1> DEFINE t == job[w]
<1>1. /\ wpc[w] = "save" /\ index[w] > Images /\ t \in Tasks
      /\ UNCHANGED <<outputs, attached, warned, index, job, hash, sub>>
  BY DEF FinishSave, storeVars, idVars, IInv, Hands
<1>2. /\ attached \in [Tasks -> SUBSET (1 .. Images)] /\ index[w] \in 1 .. Images + 1 /\ Images \in Nat
      /\ wpc \in [Workers -> WorkerPoints] /\ status \in [Tasks -> {"none", "gone"} \cup Active \cup Finished]
  BY ImagesAssumption DEF IInv, TypeOK
<1>3. \A v \in Workers : wpc'[v] = "save" => wpc[v] = "save"
  BY <1>2 DEF FinishSave, WGoto
<1>4. UNCHANGED status \/ status' = [status EXCEPT ![t] = Verdict(w)]
  BY DEF FinishSave, rowVars
<1>5. Verdict(w) = "completed" => attached[t] = 1 .. Images
  <2>1. Verdict(w) = "completed" => ~ warned[w]
    BY DEF Verdict
  <2>2. \A i \in 1 .. Images : i < index[w]
    BY <1>1, <1>2
  <2>3. attached[t] \subseteq 1 .. Images
    BY <1>1, <1>2
  <2> QED
    BY <1>1, <2>1, <2>2, <2>3 DEF Saved
<1>6. CompletedMeansAllSaved'
  BY <1>1, <1>2, <1>4, <1>5 DEF Saved, CompletedMeansAllSaved
<1>7. NoOrphanOutputs'
  <2>1. Verdict(w) # "gone"
    BY DEF Verdict
  <2> QED
    BY <1>1, <1>2, <1>4, <2>1 DEF Saved, NoOrphanOutputs
<1>8. \A c \in Callers : sub'[c].at = "accepted" =>
        /\ sub'[c].task \in Tasks /\ status'[sub'[c].task] # "none"
        /\ hash'[sub'[c].task] = sub'[c].input
  BY <1>1, RowsStay DEF Saved
<1> QED
  BY <1>1, <1>3, <1>6, <1>7, <1>8 DEF Saved

\* Nothing a worker, a deletion or a clean-up does takes back what is promised.
LEMMA NextSaved == IInv /\ Saved /\ [Next]_vars => Saved'
<1> SUFFICES ASSUME IInv, Saved, [Next]_vars PROVE Saved'
  OBVIOUS
<1> USE DEF rowVars, leaseCols, idVars, storeVars, workVars, delVars
<1>a. /\ status \in [Tasks -> {"none", "gone"} \cup Active \cup Finished]
      /\ wpc \in [Workers -> WorkerPoints] /\ index \in [Workers -> 1 .. Images + 1]
      /\ outputs \in [Tasks -> SUBSET (1 .. Images)]
  BY DEF IInv, TypeOK
<1>1. CASE UNCHANGED vars
  BY <1>1, SavedKept DEF vars
<1>2. ASSUME NEW c \in Callers, CallerStep(c) PROVE Saved'
  BY <1>2, CallerSaves
<1>3. ASSUME NEW w \in Workers, WorkerStep(w) PROVE Saved'
  <2>1. CASE PrepareFails(w) \/ AnswerUnknown(w) \/ AnswerRejected(w)
    <3>1. PICK s \in {"failed", "submission_unknown"} : Terminal(w, s)
      BY <2>1 DEF PrepareFails, AnswerUnknown, AnswerRejected
    <3>2. /\ UNCHANGED <<outputs, attached, hash, sub, index, warned, job>> /\ WGoto(w, "idle")
          /\ UNCHANGED status \/ status' = [status EXCEPT ![job[w]] = s]
      BY <3>1 DEF Terminal
    <3> QED
      BY <1>a, <3>2, SavedKept DEF WGoto
  <2>2. CASE StartRunning(w) \/ Post(w) \/ Spool(w)
    <3>1. /\ UNCHANGED <<outputs, attached, hash, sub, index, warned, job>>
          /\ UNCHANGED status \/ status' = [status EXCEPT ![job[w]] = "running"]
          /\ \E l \in {"post", "idle", "answer", "checkpoint"} : WGoto(w, l)
      BY <2>2 DEF StartRunning, Post, Spool
    <3> QED
      BY <1>a, <3>1, SavedKept DEF WGoto
  <2>3. CASE Checkpoint(w) \/ Restore(w)
    <3>1. /\ UNCHANGED <<outputs, attached, hash, sub, job>> /\ BeginSave(w)
          /\ UNCHANGED status \/ status' = [status EXCEPT ![job[w]] = "saving"]
      BY <2>3 DEF Checkpoint, Restore
    <3>2. warned \in [Workers -> BOOLEAN]
      BY DEF IInv, TypeOK
    <3>3. \A v \in Workers : wpc'[v] = "save" =>
             \/ index'[v] = 1
             \/ wpc[v] = "save" /\ index'[v] = index[v] /\ warned'[v] = warned[v] /\ job'[v] = job[v]
      BY <1>a, <3>1, <3>2 DEF BeginSave, WGoto
    <3>4. \A t \in Tasks : status'[t] \in {"completed", "gone"} => status[t] = status'[t]
      BY <1>a, <3>1
    <3> QED
      BY <3>1, <3>3, <3>4, SavedKept
  <2>4. CASE CheckpointLost(w) \/ RestoreFails(w) \/ RemoveResult(w)
    <3>1. /\ UNCHANGED <<outputs, attached, hash, sub, index, warned, job>> /\ WGoto(w, "idle")
          /\ UNCHANGED status \/ status' = [status EXCEPT ![job[w]] = "failed"]
      BY <2>4 DEF CheckpointLost, RestoreFails, RemoveResult
    <3> QED
      BY <1>a, <3>1, SavedKept DEF WGoto
  <2> QED
    BY <1>3, <2>1, <2>2, <2>3, <2>4, ImageSaved, SaveFinished DEF WorkerStep
<1>4. ASSUME NEW w \in Workers, ReleaseQueued(w) \/ WorkerStops(w) \/ Heartbeat(w) PROVE Saved'
  <2>1. /\ UNCHANGED <<outputs, attached, hash, sub, index, warned, job, status>>
        /\ WGoto(w, "idle") \/ UNCHANGED wpc
    BY <1>4 DEF ReleaseQueued, WorkerStops, Heartbeat
  <2> QED
    BY <1>a, <2>1, SavedKept DEF WGoto
<1>5. ASSUME NEW w \in Workers, NEW t \in Tasks, Claim(w, t) PROVE Saved'
  <2>1. /\ UNCHANGED <<outputs, attached, hash, sub, index, warned, status>>
        /\ wpc[w] = "idle" /\ job' = [job EXCEPT ![w] = t]
        /\ \E l \in {"prepare", "restore"} : wpc' = [wpc EXCEPT ![w] = l]
    BY <1>5 DEF Claim
  <2>2. job \in [Workers -> Tasks \cup {None}]
    BY DEF IInv, TypeOK
  <2>3. \A v \in Workers : wpc'[v] = "save" => wpc[v] = "save" /\ job'[v] = job[v]
    BY <1>a, <2>1, <2>2
  <2> QED
    BY <2>1, <2>3, SavedKept
<1>6. ASSUME NEW d \in Deleters,
             DeleteSpool(d) \/ DeleterStops(d) \/ \E t \in Tasks : DeleteBegins(d, t)
      PROVE  Saved'
  <2>1. UNCHANGED <<outputs, attached, hash, sub, index, warned, job, status, wpc>>
    BY <1>6 DEF DeleteSpool, DeleterStops, DeleteBegins
  <2> QED
    BY <2>1, SavedKept
<1>7. ASSUME NEW d \in Deleters, DeleteRows(d) PROVE Saved'
  <2>1. /\ UNCHANGED <<attached, hash, sub, index, warned, job, wpc>>
        /\ \/ /\ outputs' = [outputs EXCEPT ![target[d]] = {}]
              /\ UNCHANGED status \/ status' = [status EXCEPT ![target[d]] = "gone"]
           \/ UNCHANGED <<outputs, status>>
    BY <1>7 DEF DeleteRows
  <2> QED
    BY <1>a, <2>1, SavedKept
<1>8. ASSUME NEW t \in Tasks,
             \/ LeaseExpires(t) \/ RecoverRunning(t) \/ RetrySave(t)
             \/ CleanResult(t) \/ Reconcile(t) \/ OutputExpires(t)
      PROVE  Saved'
  <2>1. /\ UNCHANGED <<attached, hash, sub, index, warned, job, wpc>>
        /\ UNCHANGED status \/ \E s \in {"submission_unknown", "saving", "failed"} :
                                 status' = [status EXCEPT ![t] = s]
        /\ \A u \in Tasks : outputs'[u] \subseteq outputs[u]
    BY <1>8, <1>a DEF LeaseExpires, RecoverRunning, RetrySave, CleanResult, Reconcile, OutputExpires
  <2> QED
    BY <1>a, <2>1, SavedKept
<1> QED
  BY <1>1, <1>2, <1>3, <1>4, <1>5, <1>6, <1>7, <1>8 DEF Next, DeleterStep

\* An empty table satisfies it.
LEMMA InitSaved == Init => Saved
  BY DEF Init, Saved, CompletedMeansAllSaved, NoOrphanOutputs, NoCall

\* What is saved stays so in every reachable state.
LEMMA SavedAlways == SafetySpec => []Saved
<1>1. Init => IInv /\ Saved
  BY InitIInv, InitSaved
<1>2. IInv /\ Saved /\ [Next]_vars => IInv' /\ Saved'
  BY NextIInv, NextSaved
<1> QED
  BY <1>1, <1>2, PTL DEF SafetySpec

\* A request is answered with a task made from its own input, for any number of
\* requests that race for one idempotency key.
THEOREM AnswersFit == SafetySpec => []AnswerMatchesInput
<1>1. Saved => AnswerMatchesInput
  BY DEF Saved, AnswerMatchesInput
<1> QED
  BY <1>1, SavedAlways, PTL

\* A task is completed only when each of its images was attached at some time, by
\* whichever worker and in whichever attempt.
THEOREM CompletedSaved == SafetySpec => []CompletedMeansAllSaved
<1>1. Saved => CompletedMeansAllSaved
  BY DEF Saved
<1> QED
  BY <1>1, SavedAlways, PTL

\* A worker that is late attaches nothing to a deleted task.
THEOREM NoOrphans == SafetySpec => []NoOrphanOutputs
<1>1. Saved => NoOrphanOutputs
  BY DEF Saved
<1> QED
  BY <1>1, SavedAlways, PTL
===============================================================================
