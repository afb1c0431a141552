------------------------------- MODULE ImageTask -------------------------------
(***************************************************************************)
(* Persistent image generation tasks: internal/imagegentask/manager.go,    *)
(* history.go and rejection.go.  A task is a database row that any worker  *)
(* of any process may claim by a lease of 30 s; the upstream answers a     *)
(* paid POST synchronously, so a lost answer can never be asked for again. *)
(*                                                                         *)
(* Each database statement and each storage call is one step.  A worker    *)
(* may stall (its lease expires while it works), stop at any step, or find *)
(* that a statement fails, which looks the same to everybody else.  Time   *)
(* is not modelled: a lease expires when the model says so.                *)
(***************************************************************************)
EXTENDS Naturals, FiniteSets

CONSTANTS Tasks,      \* row identities; never used twice
          Workers,    \* goroutines that run process, in any server process
          Deleters,   \* requests and cleanups that run Delete
          Callers,    \* requests that run Submit
          Keys,       \* idempotency keys (user, configuration, request_id)
          Inputs,     \* request hashes
          None,
          Images,     \* images in a generated result
          MaxFaults   \* bound on crashes, shutdowns and leases lost by live workers

ASSUME ActorsAssumption == Workers \cap Deleters = {} /\ None \notin Workers \cup Deleters
ASSUME NoTaskAssumption == None \notin Tasks
ASSUME ImagesAssumption == Images \in Nat \ {0}
ASSUME MaxFaultsAssumption == MaxFaults \in Nat
ASSUME InputsAssumption == Keys # {} /\ Inputs # {}

VARIABLES
  status, artifact,   \* columns of the row
  owner, lease,       \* lease_owner, and where lease_until is
  snapshot,           \* "full" with the API key, "clean" without, or "none"
  resultKey,          \* result_key is set
  idem, hash,         \* idempotency_key, request_hash
  spool,              \* the stored result; "deleted" by Delete, "removed" otherwise
  outputs,            \* indexes with an attached, live image
  attached,           \* indexes that were ever attached (history)
  posts,              \* paid POSTs sent upstream (history)
  wpc, job, holds,    \* worker: program point, task, t.ResultKey in memory
  index, some, warned,\* saveResult: loop index, saved > 0, len(warnings) > 0
  dpc, target,        \* deleter: program point, task
  sub,                \* callers
  faults

rowVars == <<status, artifact, snapshot>>
leaseCols == <<owner, lease>>
idVars == <<idem, hash>>
storeVars == <<spool, outputs, attached>>
workVars == <<wpc, job, holds, index, some, warned>>
delVars == <<dpc, target>>
vars == <<rowVars, leaseCols, resultKey, idVars, storeVars, posts, workVars, delVars, sub, faults>>

Active == {"queued", "running", "saving"}
Finished == {"completed", "partial", "failed", "submission_unknown"}

WorkerPoints == {"idle", "prepare", "post", "answer", "checkpoint", "restore", "save",
                 "remove"}

Calls == [at : {"idle", "prepare", "accepted"}, key : Keys, input : Inputs,
          task : Tasks \cup {None}]

TypeOK ==
  /\ status \in [Tasks -> {"none", "gone"} \cup Active \cup Finished]
  /\ artifact \in [Tasks -> {"pending", "saving", "ready", "partial", "failed"}]
  /\ owner \in [Tasks -> Workers \cup Deleters \cup {None}]
  /\ lease \in [Tasks -> {"none", "held", "expired"}]
  /\ snapshot \in [Tasks -> {"none", "full", "clean"}]
  /\ resultKey \in [Tasks -> BOOLEAN]
  /\ idem \in [Tasks -> Keys] /\ hash \in [Tasks -> Inputs]
  /\ spool \in [Tasks -> {"none", "stored", "removed", "deleted"}]
  /\ outputs \in [Tasks -> SUBSET (1 .. Images)]
  /\ attached \in [Tasks -> SUBSET (1 .. Images)]
  /\ posts \in [Tasks -> Nat]
  /\ wpc \in [Workers -> WorkerPoints]
  /\ job \in [Workers -> Tasks \cup {None}]
  /\ holds \in [Workers -> BOOLEAN]
  /\ index \in [Workers -> 1 .. Images + 1]
  /\ some \in [Workers -> BOOLEAN] /\ warned \in [Workers -> BOOLEAN]
  /\ dpc \in [Deleters -> {"idle", "spool", "rows"}]
  /\ target \in [Deleters -> Tasks \cup {None}]
  /\ sub \in [Callers -> Calls]
  /\ faults \in 0 .. MaxFaults

NoCall == [at |-> "idle", key |-> CHOOSE k \in Keys : TRUE, input |-> CHOOSE i \in Inputs : TRUE,
           task |-> None]

Init ==
  /\ status = [t \in Tasks |-> "none"]
  /\ artifact = [t \in Tasks |-> "pending"]
  /\ owner = [t \in Tasks |-> None]
  /\ lease = [t \in Tasks |-> "none"]
  /\ snapshot = [t \in Tasks |-> "none"]
  /\ resultKey = [t \in Tasks |-> FALSE]
  /\ idem = [t \in Tasks |-> NoCall.key] /\ hash = [t \in Tasks |-> NoCall.input]
  /\ spool = [t \in Tasks |-> "none"]
  /\ outputs = [t \in Tasks |-> {}] /\ attached = [t \in Tasks |-> {}]
  /\ posts = [t \in Tasks |-> 0]
  /\ wpc = [w \in Workers |-> "idle"]
  /\ job = [w \in Workers |-> None]
  /\ holds = [w \in Workers |-> FALSE]
  /\ index = [w \in Workers |-> 1]
  /\ some = [w \in Workers |-> FALSE] /\ warned = [w \in Workers |-> FALSE]
  /\ dpc = [d \in Deleters |-> "idle"]
  /\ target = [d \in Deleters |-> None]
  /\ sub = [c \in Callers |-> NoCall]
  /\ faults = 0

-----------------------------------------------------------------------------
(* Submit.                                                                   *)

Call(l, k, i, t) == [at |-> l, key |-> k, input |-> i, task |-> t]
Live(t) == status[t] \notin {"none", "gone"}
RowsOf(k) == {t \in Tasks : Live(t) /\ idem[t] = k}

\* The request is answered with the row of its key, whatever its input was (to
\* test the checks).
AnswerUnchecked(c, k, i) ==
  \E t \in RowsOf(k) : sub' = [sub EXCEPT ![c] = Call("accepted", k, i, t)]

\* lookup: a row of the key answers the request, unless its input differs.
Answer(c, k, i) ==
  \E t \in RowsOf(k) :
    sub' = [sub EXCEPT ![c] = IF hash[t] = i THEN Call("accepted", k, i, t) ELSE NoCall]

Lookup(c, k, i) ==
  /\ sub[c].at = "idle"
  /\ \/ Answer(c, k, i)
     \/ RowsOf(k) = {} /\ sub' = [sub EXCEPT ![c] = Call("prepare", k, i, None)]
  /\ UNCHANGED <<rowVars, leaseCols, resultKey, idVars, storeVars, posts, workVars, delVars, faults>>

\* The unique index on idempotency_key lets one of several racing requests
\* create the row; the others look it up again.
Create(c) ==
  LET k == sub[c].key  i == sub[c].input IN
  /\ sub[c].at = "prepare"
  /\ RowsOf(k) = {}
  /\ \E t \in Tasks :
       /\ status[t] = "none"
       /\ status' = [status EXCEPT ![t] = "queued"]
       /\ snapshot' = [snapshot EXCEPT ![t] = "full"]
       /\ idem' = [idem EXCEPT ![t] = k]
       /\ hash' = [hash EXCEPT ![t] = i]
       /\ sub' = [sub EXCEPT ![c] = Call("accepted", k, i, t)]
  /\ UNCHANGED <<artifact, leaseCols, resultKey, storeVars, posts, workVars, delVars, faults>>

CreateConflicts(c) ==
  /\ sub[c].at = "prepare"
  /\ Answer(c, sub[c].key, sub[c].input)
  /\ UNCHANGED <<rowVars, leaseCols, resultKey, idVars, storeVars, posts, workVars, delVars, faults>>

\* Preparation fails, or the caller has its answer.
SubmitReturns(c) ==
  /\ sub[c].at \in {"prepare", "accepted"}
  /\ sub' = [sub EXCEPT ![c] = NoCall]
  /\ UNCHANGED <<rowVars, leaseCols, resultKey, idVars, storeVars, posts, workVars, delVars, faults>>

CallerStep(c) ==
  \/ \E k \in Keys, i \in Inputs : Lookup(c, k, i)
  \/ Create(c) \/ CreateConflicts(c) \/ SubmitReturns(c)

-----------------------------------------------------------------------------
(* Leases.                                                                   *)

Free(t) == lease[t] # "held"
Owned(w) == owner[job[w]] = w

Unlease(t) ==
  /\ owner' = [owner EXCEPT ![t] = None]
  /\ lease' = [lease EXCEPT ![t] = "none"]

TakeLease(t, who) ==
  /\ Free(t)
  /\ owner' = [owner EXCEPT ![t] = who]
  /\ lease' = [lease EXCEPT ![t] = "held"]

Working(t) == {w \in Workers : job[w] = t /\ wpc[w] # "idle"}
Deleting(t) == {d \in Deleters : target[d] = t /\ dpc[d] # "idle"}
Abandoned(t) == owner[t] \notin Working(t) \cup Deleting(t)

\* lease_until passes: under a worker that stalls it is a fault, without one
\* it is only a matter of time.
LeaseExpires(t) ==
  /\ lease[t] = "held"
  /\ lease' = [lease EXCEPT ![t] = "expired"]
  /\ IF Abandoned(t) THEN UNCHANGED faults ELSE faults < MaxFaults /\ faults' = faults + 1
  /\ UNCHANGED <<rowVars, owner, resultKey, idVars, storeVars, posts, workVars, delVars, sub>>

\* The heartbeat of a worker that is late but still the owner.
Heartbeat(w) ==
  /\ wpc[w] # "idle" /\ Owned(w) /\ lease[job[w]] = "expired"
  /\ lease' = [lease EXCEPT ![job[w]] = "held"]
  /\ UNCHANGED <<rowVars, owner, resultKey, idVars, storeVars, posts, workVars, delVars, sub, faults>>

-----------------------------------------------------------------------------
(* ProcessDue.                                                               *)

\* A running row without a lease is sent again (to test the checks).
RecoverByRetry(t) ==
  /\ status[t] = "running" /\ Free(t)
  /\ status' = [status EXCEPT ![t] = "queued"]
  /\ Unlease(t)
  /\ UNCHANGED <<artifact, snapshot, resultKey, idVars, storeVars, posts, workVars, delVars, sub,
                 faults>>

\* A lost synchronous request has no upstream job to query: never POST again.
RecoverRunning(t) ==
  /\ status[t] = "running" /\ Free(t)
  /\ status' = [status EXCEPT ![t] = "submission_unknown"]
  /\ snapshot' = [snapshot EXCEPT ![t] = "none"]
  /\ Unlease(t)
  /\ UNCHANGED <<artifact, resultKey, idVars, storeVars, posts, workVars, delVars, sub, faults>>

\* A queued or saving row without a lease is claimed and handed to process.
Claim(w, t) ==
  /\ wpc[w] = "idle"
  /\ status[t] \in {"queued", "saving"}
  /\ TakeLease(t, w)
  /\ job' = [job EXCEPT ![w] = t]
  /\ holds' = [holds EXCEPT ![w] = resultKey[t]]
  /\ wpc' = [wpc EXCEPT ![w] = IF status[t] = "queued" THEN "prepare" ELSE "restore"]
  /\ UNCHANGED <<rowVars, resultKey, idVars, storeVars, posts, index, some, warned, delVars, sub,
                 faults>>

-----------------------------------------------------------------------------
(* process                                                                   *)

WGoto(w, l) == wpc' = [wpc EXCEPT ![w] = l]

\* terminal: a conditional update, ignored when the lease has another owner.
Terminal(w, s) ==
  LET t == job[w] IN
  /\ IF Owned(w)
       THEN /\ status' = [status EXCEPT ![t] = s]
            /\ artifact' = [artifact EXCEPT ![t] = "failed"]
            /\ snapshot' = [snapshot EXCEPT ![t] = "none"]
            /\ Unlease(t)
       ELSE UNCHANGED <<rowVars, leaseCols>>
  /\ WGoto(w, "idle")
  /\ UNCHANGED <<resultKey, idVars, storeVars, posts, job, holds, index, some, warned, delVars, sub,
                 faults>>

\* A reference is gone or time is up.  (A stored snapshot is taken to be
\* readable: the server's encryption key does not change.)
PrepareFails(w) == wpc[w] = "prepare" /\ Terminal(w, "failed")

\* The lease is not looked at before the request is sent (to test the checks).
StartUnowned(w) ==
  /\ wpc[w] = "prepare"
  /\ status' = [status EXCEPT ![job[w]] = "running"]
  /\ WGoto(w, "post")
  /\ UNCHANGED <<artifact, snapshot, leaseCols, resultKey, idVars, storeVars, posts, job, holds,
                 index, some, warned, delVars, sub, faults>>

\* The row says running before the paid request is sent.
StartRunning(w) ==
  /\ wpc[w] = "prepare"
  /\ IF Owned(w)
       THEN status' = [status EXCEPT ![job[w]] = "running"] /\ WGoto(w, "post")
       ELSE UNCHANGED status /\ WGoto(w, "idle")
  /\ UNCHANGED <<artifact, snapshot, leaseCols, resultKey, idVars, storeVars, posts, job, holds,
                 index, some, warned, delVars, sub, faults>>

Post(w) ==
  /\ wpc[w] = "post"
  /\ posts' = [posts EXCEPT ![job[w]] = @ + 1]
  /\ WGoto(w, "answer")
  /\ UNCHANGED <<rowVars, leaseCols, resultKey, idVars, storeVars, job, holds, index, some, warned,
                 delVars, sub, faults>>

\* The answer is lost or a server error; or it is a rejection, empty or too
\* large.  Run may also fail before anything is sent.
AnswerUnknown(w) == wpc[w] \in {"post", "answer"} /\ Terminal(w, "submission_unknown")
AnswerRejected(w) == wpc[w] = "answer" /\ Terminal(w, "failed")

\* The result is stored before it is saved; without storage it is only in
\* memory.
Spool(w) ==
  /\ wpc[w] = "answer"
  /\ \/ spool' = [spool EXCEPT ![job[w]] = "stored"] /\ holds' = [holds EXCEPT ![w] = TRUE]
     \/ UNCHANGED <<spool, holds>>
  /\ WGoto(w, "checkpoint")
  /\ UNCHANGED <<rowVars, leaseCols, resultKey, idVars, outputs, attached, posts, job, index, some,
                 warned, delVars, sub, faults>>

BeginSave(w) ==
  /\ WGoto(w, "save")
  /\ index' = [index EXCEPT ![w] = 1]
  /\ some' = [some EXCEPT ![w] = FALSE]
  /\ warned' = [warned EXCEPT ![w] = FALSE]

\* The row says saving, with the result's key and a snapshot without the API
\* key.  A worker that lost its lease, or whose statement fails, takes its
\* stored result back, if it can.
Checkpoint(w) ==
  LET t == job[w] IN
  /\ wpc[w] = "checkpoint"
  /\ Owned(w)
  /\ status' = [status EXCEPT ![t] = "saving"]
  /\ artifact' = [artifact EXCEPT ![t] = "saving"]
  /\ snapshot' = [snapshot EXCEPT ![t] = "clean"]
  /\ resultKey' = [resultKey EXCEPT ![t] = holds[w]]
  /\ BeginSave(w)
  /\ UNCHANGED <<leaseCols, idVars, storeVars, posts, job, holds, delVars, sub, faults>>

CheckpointLost(w) ==
  /\ wpc[w] = "checkpoint"
  /\ IF Owned(w) THEN faults < MaxFaults /\ faults' = faults + 1 ELSE UNCHANGED faults
  /\ \/ holds[w] /\ spool' = [spool EXCEPT ![job[w]] = "removed"]
     \/ UNCHANGED spool
  /\ WGoto(w, "idle")
  /\ UNCHANGED <<rowVars, leaseCols, resultKey, idVars, outputs, attached, posts, job, holds, index,
                 some, warned, delVars, sub>>

\* restoreAndSave: the stored result is read back.
Restore(w) ==
  /\ wpc[w] = "restore"
  /\ holds[w] /\ spool[job[w]] = "stored"
  /\ BeginSave(w)
  /\ UNCHANGED <<rowVars, leaseCols, resultKey, idVars, storeVars, posts, job, holds, delVars, sub,
                 faults>>

\* saveFailure: no result was stored, or it cannot be read now.
RestoreFails(w) ==
  LET t == job[w] IN
  /\ wpc[w] = "restore"
  /\ IF Owned(w)
       THEN /\ status' = [status EXCEPT ![t] = "failed"]
            /\ artifact' = [artifact EXCEPT ![t] = "failed"]
            /\ Unlease(t)
       ELSE UNCHANGED <<status, artifact, leaseCols>>
  /\ WGoto(w, "idle")
  /\ UNCHANGED <<snapshot, resultKey, idVars, storeVars, posts, job, holds, index, some, warned,
                 delVars, sub, faults>>

-----------------------------------------------------------------------------
(* saveResult                                                                *)

\* The image is attached although the task has another owner (to test the checks).
AttachUnowned(w, i) ==
  /\ outputs' = [outputs EXCEPT ![job[w]] = @ \cup {i}]
  /\ attached' = [attached EXCEPT ![job[w]] = @ \cup {i}]

\* The transaction that attaches a saved image checks owner and status.
Attach(w, i) ==
  /\ Owned(w) /\ status[job[w]] = "saving"
  /\ outputs' = [outputs EXCEPT ![job[w]] = @ \cup {i}]
  /\ attached' = [attached EXCEPT ![job[w]] = @ \cup {i}]

\* An image that is attached already is skipped; another is downloaded, saved
\* and attached, any of which may fail and leave a warning.
SaveImage(w) ==
  LET i == index[w] IN
  /\ wpc[w] = "save" /\ i <= Images
  /\ \/ /\ i \in outputs[job[w]]
        /\ some' = [some EXCEPT ![w] = TRUE]
        /\ UNCHANGED <<outputs, attached, warned>>
     \/ /\ i \notin outputs[job[w]]
        /\ Attach(w, i)
        /\ some' = [some EXCEPT ![w] = TRUE]
        /\ UNCHANGED warned
     \/ /\ i \notin outputs[job[w]]
        /\ warned' = [warned EXCEPT ![w] = TRUE]
        /\ UNCHANGED <<outputs, attached, some>>
  /\ index' = [index EXCEPT ![w] = i + 1]
  /\ UNCHANGED <<rowVars, leaseCols, resultKey, idVars, spool, posts, wpc, job, holds, delVars, sub,
                 faults>>

\* One saved image is enough (to test the checks).
SomeSaved(w) == IF some[w] THEN "completed" ELSE "failed"

Verdict(w) ==
  IF ~ warned[w] THEN "completed" ELSE IF some[w] THEN "partial" ELSE "failed"

ArtifactOf(s) == IF s = "completed" THEN "ready" ELSE s

\* The stored result goes when nothing is left to retry.
RemovesResult(w, s) == s = "completed" /\ holds[w]

FinishSave(w) ==
  LET t == job[w]  s == Verdict(w) IN
  /\ wpc[w] = "save" /\ index[w] > Images
  /\ IF Owned(w)
       THEN /\ status' = [status EXCEPT ![t] = s]
            /\ artifact' = [artifact EXCEPT ![t] = ArtifactOf(s)]
            /\ snapshot' = IF s = "completed" \/ ~ holds[w]
                             THEN [snapshot EXCEPT ![t] = "none"] ELSE snapshot
            /\ Unlease(t)
            /\ WGoto(w, IF RemovesResult(w, s) THEN "remove" ELSE "idle")
       ELSE UNCHANGED <<rowVars, leaseCols>> /\ WGoto(w, "idle")
  /\ UNCHANGED <<resultKey, idVars, storeVars, posts, job, holds, index, some, warned, delVars, sub,
                 faults>>

\* removeResult, whose second statement may not come to pass.
DropResult(t) ==
  /\ spool' = [spool EXCEPT ![t] = "removed"]
  /\ \/ artifact[t] = "ready" /\ resultKey' = [resultKey EXCEPT ![t] = FALSE]
     \/ UNCHANGED resultKey

RemoveResult(w) ==
  /\ wpc[w] = "remove"
  /\ DropResult(job[w]) \/ UNCHANGED <<spool, resultKey>>
  /\ WGoto(w, "idle")
  /\ UNCHANGED <<rowVars, leaseCols, idVars, outputs, attached, posts, job, holds, index, some,
                 warned, delVars, sub, faults>>

WorkerStep(w) ==
  \/ PrepareFails(w) \/ StartRunning(w) \/ Post(w)
  \/ AnswerUnknown(w) \/ AnswerRejected(w) \/ Spool(w) \/ Checkpoint(w) \/ CheckpointLost(w)
  \/ Restore(w) \/ RestoreFails(w) \/ SaveImage(w) \/ FinishSave(w) \/ RemoveResult(w)

\* The server shuts down before the worker has submitted anything.
ReleaseQueued(w) ==
  /\ wpc[w] = "prepare"
  /\ faults < MaxFaults /\ faults' = faults + 1
  /\ IF Owned(w) /\ status[job[w]] = "queued" THEN Unlease(job[w]) ELSE UNCHANGED leaseCols
  /\ WGoto(w, "idle")
  /\ UNCHANGED <<rowVars, resultKey, idVars, storeVars, posts, job, holds, index, some, warned,
                 delVars, sub>>

\* The process dies, a statement of the worker fails, or the worker panics:
\* the deferred recovery of a panic gives the lease up.
WorkerStops(w) ==
  /\ wpc[w] # "idle"
  /\ faults < MaxFaults
  /\ faults' = faults + 1
  /\ WGoto(w, "idle")
  /\ \/ UNCHANGED leaseCols
     \/ /\ Owned(w)
        /\ owner' = [owner EXCEPT ![job[w]] = None]
        /\ lease' = [lease EXCEPT ![job[w]] = "expired"]
  /\ UNCHANGED <<rowVars, resultKey, idVars, storeVars, posts, job, holds, index, some, warned,
                 delVars, sub>>

-----------------------------------------------------------------------------
(* The user and the cleanups.                                                *)

\* RetrySave
RetrySave(t) ==
  /\ Live(t) /\ resultKey[t] /\ artifact[t] \in {"failed", "partial"}
  /\ Free(t)
  /\ status' = [status EXCEPT ![t] = "saving"]
  /\ artifact' = [artifact EXCEPT ![t] = "saving"]
  /\ UNCHANGED <<snapshot, leaseCols, resultKey, idVars, storeVars, posts, workVars, delVars, sub,
                 faults>>

\* Delete takes a lease of its own, and cleanupHistory calls it.
DeleteBegins(d, t) ==
  /\ dpc[d] = "idle"
  /\ status[t] \in Finished
  /\ TakeLease(t, d)
  /\ target' = [target EXCEPT ![d] = t]
  /\ dpc' = [dpc EXCEPT ![d] = IF resultKey[t] THEN "spool" ELSE "rows"]
  /\ UNCHANGED <<rowVars, resultKey, idVars, storeVars, posts, workVars, sub, faults>>

DeleteReleases(d) ==
  /\ dpc' = [dpc EXCEPT ![d] = "idle"]
  /\ IF owner[target[d]] = d THEN Unlease(target[d]) ELSE UNCHANGED leaseCols

DeleteSpool(d) ==
  /\ dpc[d] = "spool"
  /\ \/ /\ spool' = [spool EXCEPT ![target[d]] = "deleted"]
        /\ dpc' = [dpc EXCEPT ![d] = "rows"]
        /\ UNCHANGED leaseCols
     \/ DeleteReleases(d) /\ UNCHANGED spool
  /\ UNCHANGED <<rowVars, resultKey, idVars, outputs, attached, posts, workVars, target, sub,
                 faults>>

\* One transaction: the images go in any case, the row only if the lease is
\* still this one.  It may fail as a whole.
DeleteRows(d) ==
  LET t == target[d] IN
  /\ dpc[d] = "rows"
  /\ \/ /\ outputs' = [outputs EXCEPT ![t] = {}]
        /\ status' = IF owner[t] = d THEN [status EXCEPT ![t] = "gone"] ELSE status
     \/ UNCHANGED <<outputs, status>>
  /\ DeleteReleases(d)
  /\ UNCHANGED <<artifact, snapshot, resultKey, idVars, spool, attached, posts, workVars, target,
                 sub, faults>>

DeleterStep(d) == DeleteSpool(d) \/ DeleteRows(d)

DeleterStops(d) ==
  /\ dpc[d] # "idle"
  /\ faults < MaxFaults
  /\ faults' = faults + 1
  /\ dpc' = [dpc EXCEPT ![d] = "idle"]
  /\ UNCHANGED <<rowVars, leaseCols, resultKey, idVars, storeVars, posts, workVars, target, sub>>

\* cleanupResults
CleanResult(t) ==
  /\ Live(t) /\ artifact[t] = "ready" /\ resultKey[t] /\ Free(t)
  /\ DropResult(t)
  /\ UNCHANGED <<rowVars, leaseCols, idVars, outputs, attached, posts, workVars, delVars, sub, faults>>

\* reconcileRejectedSubmissions: an answer that meant "queue full" after all.
Reconcile(t) ==
  /\ status[t] = "submission_unknown" /\ owner[t] = None /\ ~ resultKey[t] /\ Free(t)
  /\ status' = [status EXCEPT ![t] = "failed"]
  /\ artifact' = [artifact EXCEPT ![t] = "failed"]
  /\ snapshot' = [snapshot EXCEPT ![t] = "none"]
  /\ UNCHANGED <<leaseCols, resultKey, idVars, storeVars, posts, workVars, delVars, sub, faults>>

\* The upload cleanup removes an image that has expired.
OutputExpires(t) ==
  /\ \E i \in outputs[t] : outputs' = [outputs EXCEPT ![t] = @ \ {i}]
  /\ UNCHANGED <<rowVars, leaseCols, resultKey, idVars, spool, attached, posts, workVars, delVars,
                 sub, faults>>

Next ==
  \/ \E c \in Callers : CallerStep(c)
  \/ \E w \in Workers : WorkerStep(w) \/ ReleaseQueued(w) \/ WorkerStops(w) \/ Heartbeat(w)
  \/ \E w \in Workers, t \in Tasks : Claim(w, t)
  \/ \E d \in Deleters : DeleterStep(d) \/ DeleterStops(d)
  \/ \E d \in Deleters, t \in Tasks : DeleteBegins(d, t)
  \/ \E t \in Tasks : LeaseExpires(t) \/ RecoverRunning(t) \/ RetrySave(t) \/ CleanResult(t)
                      \/ Reconcile(t) \/ OutputExpires(t)

SafetySpec == Init /\ [][Next]_vars

\* The ticker of Start runs ProcessDue every second; every upstream call,
\* statement and storage call carries a deadline; an abandoned lease runs out.
Fairness ==
  /\ \A t \in Tasks :
       /\ WF_vars(\E w \in Workers : Claim(w, t)) /\ WF_vars(RecoverRunning(t))
       /\ WF_vars(LeaseExpires(t) /\ Abandoned(t))
  /\ \A w \in Workers : WF_vars(WorkerStep(w))
  /\ \A d \in Deleters : WF_vars(DeleterStep(d))

Spec == SafetySpec /\ Fairness

-----------------------------------------------------------------------------
(* Properties.                                                               *)

\* A paid generation request is sent at most once per task, whatever crashes,
\* lease losses and competing workers there are (manager.go: "Never POST it
\* again").
OnePostPerTask == \A t \in Tasks : posts[t] <= 1

\* A request that is accepted is answered with a task made from the same input
\* (Submit's request_hash), also when it loses the race to create the row.
AnswerMatchesInput ==
  \A c \in Callers : sub[c].at = "accepted" => hash[sub[c].task] = sub[c].input

\* A completed task has had every image of its result attached, however many
\* workers and retries it took.
CompletedMeansAllSaved ==
  \A t \in Tasks : status[t] = "completed" => attached[t] = 1 .. Images

\* No image is attached to a task that has been deleted, however late its
\* worker is.
NoOrphanOutputs == \A t \in Tasks : status[t] = "gone" => outputs[t] = {}

\* The error that Delete returns: active image tasks cannot be deleted.
ActiveNotDeleted ==
  [][\A t \in Tasks : status[t] \in Active => status'[t] # "gone"]_vars

\* How far a task has come, for the user.
PhaseOf(s) ==
  CASE s = "none"    -> "none"
    [] s = "queued"  -> "pending"
    [] s = "running" -> "submitted"
    [] s = "saving"  -> "generated"
    [] s = "submission_unknown" -> "unknown"
    [] s = "gone"    -> "gone"
    [] OTHER         -> "settled"

Phase == [t \in Tasks |-> PhaseOf(status[t])]

OneShot == INSTANCE OneShotGeneration WITH phase <- Phase, sent <- posts

\* A task keeps the promise of OneShotGeneration: it is paid for at most once,
\* every accepted task is settled although workers stop and lose their leases,
\* and nothing but saving is ever repeated.
ImplementsOneShot == OneShot!Spec
===============================================================================
