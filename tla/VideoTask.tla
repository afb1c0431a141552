------------------------------- MODULE VideoTask -------------------------------
(***************************************************************************)
(* Video generation tasks: internal/mcp/videogen/manager.go.  A task is a  *)
(* row.  The upstream answers a paid POST with a job id; any process may   *)
(* claim a due row by a lease, ask for the state of the job, download the  *)
(* result and store it.  A failed generation is retried in the same row.   *)
(*                                                                         *)
(* Each database statement, request and storage call is one step.  The     *)
(* revision of a row is not a number here: fresh holds the actors whose    *)
(* copy of the row still has its current revision.  Time is not modelled:  *)
(* a lease, a deadline or a retention ends when the model says so.         *)
(***************************************************************************)
EXTENDS MediaTasks

CONSTANTS Callers,  \* requests that retry a failed generation
          Requests  \* their request_ids

ASSUME VideoRequestsAssumption == Requests # {} /\ Callers \cap Deleters = {}

VARIABLES
  video,   \* the rows
  job,     \* jobs of the upstream, one for each attempt it accepted
  stored,  \* tasks whose object video/<user>/<task> exists
  vwork, vask, vdel,  \* the actors
  fresh,   \* callers and deleters whose copy of a row is current
  cut      \* tasks on which an actor stopped half-way (history)

videoActors == <<vwork, vask, vdel>>
videoHistory == <<late, cut, faults>>
videoOwn == <<video, job, stored, videoActors, fresh, cut>>
videoVars == <<videoOwn, late, faults>>

Owners == Workers \cup Deleters \cup {Nobody}

\* status: "running" stands for queued, in_progress and unknown; "unknown" for
\* submission_unknown; "misfiled" is an unknown row whose error is a complete
\* queue rejection, as older versions wrote it.
VideoStatuses == {"none", "submitting", "running", "completed", "failed", "unknown", "misfiled",
             "deleted"}
VideoRows == [st : VideoStatuses, up : 0 .. MaxRetries + 1, art : {"pending", "saving", "ready", "failed",
         "expired"}, paused : BOOLEAN, key : BOOLEAN, owner : Owners, leased : BOOLEAN,
         retries : 0 .. MaxRetries, asked : SUBSET Requests]

Outcomes == {"rejected", "lost", "running", "completed", "failed", "paused", "error", "unsaved",
             "unstored", "saved"}
VideoWorkPoints == {"idle", "launch", "post", "query", "reserve", "fetch", "put", "finish"}

AnyRequest == CHOOSE q \in Requests : TRUE
VideoIdleWork == [at |-> "idle", t |-> AnyTask, try |-> 1, out |-> "error"]
VideoIdleAsk == [at |-> "idle", t |-> AnyTask, req |-> AnyRequest]
VideoIdleDel == [at |-> "idle", t |-> AnyTask, expire |-> FALSE, key |-> FALSE]

VideoTypeOK ==
  /\ video \in [Tasks -> VideoRows]
  /\ job \in [Tasks -> [Attempts -> {"none", "running", "done", "failed"}]]
  /\ stored \in SUBSET Tasks
  /\ vwork \in [Workers -> [at : VideoWorkPoints, t : Tasks, try : Attempts, out : Outcomes]]
  /\ vask \in [Callers -> [at : {"idle", "read"}, t : Tasks, req : Requests]]
  /\ vdel \in [Deleters -> [at : {"idle", "claim", "erase", "drop"}, t : Tasks,
                           expire : BOOLEAN, key : BOOLEAN]]
  /\ fresh \in SUBSET (Callers \cup Deleters)
  /\ late \in SUBSET Tasks /\ cut \in SUBSET Tasks
  /\ faults \in 0 .. MaxFaults

NewVideo(s) == [st |-> s, up |-> 0, art |-> "pending", paused |-> FALSE, key |-> FALSE,
              owner |-> Nobody, leased |-> FALSE, retries |-> 0, asked |-> {}]

VideoInit ==
  /\ video \in [Tasks -> {NewVideo("none"), NewVideo("misfiled")}]
  /\ job = [t \in Tasks |-> [a \in Attempts |-> "none"]]
  /\ stored = {}
  /\ vwork = [w \in Workers |-> VideoIdleWork]
  /\ vask = [c \in Callers |-> VideoIdleAsk]
  /\ vdel = [d \in Deleters |-> VideoIdleDel]
  /\ fresh = {} /\ late = {} /\ cut = {} /\ faults = 0

-----------------------------------------------------------------------------
(* Rows.  Every update raises the revision: copies of the row go stale.      *)

ReadersOf(t) == {c \in Callers : vask[c].t = t} \cup {d \in Deleters : vdel[d].t = t}

SetVideo(t, r) ==
  /\ video' = [video EXCEPT ![t] = r]
  /\ fresh' = fresh \ ReadersOf(t)

Unleased(r) == [r EXCEPT !.owner = Nobody, !.leased = FALSE]
LeasedBy(r, a) == [r EXCEPT !.owner = a, !.leased = TRUE]

\* done: nothing of the task is in progress.
Done(r) ==
  \/ r.st \in {"failed", "unknown", "misfiled"} \/ r.paused
  \/ r.st = "completed" /\ r.art \in {"ready", "failed", "expired"}

VideoIdle(w) == vwork' = [vwork EXCEPT ![w] = VideoIdleWork]
VideoAt(w, l) == vwork' = [vwork EXCEPT ![w].at = l]
Result(w, o) == vwork' = [vwork EXCEPT ![w].at = "finish", ![w].out = o]
Job(w, t, l, a) == vwork' = [vwork EXCEPT ![w] = [at |-> l, t |-> t, try |-> a, out |-> "error"]]

-----------------------------------------------------------------------------
(* submitTask: a new row, or the next attempt in the row of a failed task.   *)

Submitting(r, w) == LeasedBy([r EXCEPT !.st = "submitting"], w)

\* The unique idempotency key admits one row; other requests are answered
\* with it and change nothing.  Without a free slot the caller is told so.
Submit(w, t) ==
  /\ vwork[w].at = "idle" /\ video[t].st = "none"
  /\ SetVideo(t, Submitting(video[t], w))
  /\ Job(w, t, "launch", 1)
  /\ UNCHANGED <<job, stored, vask, vdel, videoHistory>>

\* RetryGeneration reads the row; an accepted request_id is answered with it.
ReadFailed(c, t, q) ==
  /\ vask[c].at = "idle"
  /\ video[t].st = "failed" /\ ~ video[t].key /\ q \notin video[t].asked
  /\ vask' = [vask EXCEPT ![c] = [at |-> "read", t |-> t, req |-> q]]
  /\ fresh' = fresh \cup {c}
  /\ UNCHANGED <<video, job, stored, vwork, vdel, videoHistory>>

Retried(r, q) ==
  [r EXCEPT !.up = 0, !.art = "pending", !.paused = FALSE, !.retries = @ + 1,
            !.asked = @ \cup {q}]

\* The WHERE clause of the retry: status, revision, no owner and no lease.
VideoRetryMatches(c) ==
  LET r == video[vask[c].t] IN
  r.st = "failed" /\ c \in fresh /\ r.owner = Nobody /\ ~ r.leased

Retry(c, w) ==
  LET t == vask[c].t  r == video[t] IN
  /\ vask[c].at = "read" /\ vwork[w].at = "idle"
  /\ VideoRetryMatches(c) /\ r.retries < MaxRetries
  /\ SetVideo(t, Submitting(Retried(r, vask[c].req), w))
  /\ Job(w, t, "launch", r.retries + 2)
  /\ vask' = [vask EXCEPT ![c] = VideoIdleAsk]
  /\ UNCHANGED <<job, stored, vdel, videoHistory>>

\* Preparation fails, no slot is free, or the row has changed: the caller is
\* answered and nothing was done.
RetryReturns(c) ==
  /\ vask[c].at = "read"
  /\ vask' = [vask EXCEPT ![c] = VideoIdleAsk]
  /\ fresh' = fresh \ {c}
  /\ UNCHANGED <<video, job, stored, vwork, vdel, videoHistory>>

\* A manager that is closing starts no goroutine, and nothing is sent.
Launch(w) ==
  /\ vwork[w].at = "launch"
  /\ VideoAt(w, "post") \/ Result(w, "rejected")
  /\ UNCHANGED <<video, job, stored, vask, vdel, fresh, videoHistory>>

\* submit: the paid request.  It is answered with the state of the job it
\* started, refused, or its answer never comes.
Accepted(w, j) == job' = [job EXCEPT ![vwork[w].t][vwork[w].try] = j]

\* videoValues
Seen(j) == CASE j = "running" -> "running" [] j = "done" -> "completed" [] j = "failed" -> "failed"

\* A rejected request is not told from a lost answer (to test the checks).
PostForgiving(w) ==
  /\ vwork[w].at = "post"
  /\ \/ \E j \in {"running", "done", "failed"} : Accepted(w, j) /\ Result(w, Seen(j))
     \/ Accepted(w, "running") /\ Result(w, "rejected")
     \/ UNCHANGED job /\ (Result(w, "rejected") \/ Result(w, "lost"))
  /\ UNCHANGED <<video, stored, vask, vdel, fresh, videoHistory>>

PostVideo(w) ==
  /\ vwork[w].at = "post"
  /\ \/ \E j \in {"running", "done", "failed"} : Accepted(w, j) /\ Result(w, Seen(j))
     \/ Accepted(w, "running") /\ Result(w, "lost")
     \/ UNCHANGED job /\ (Result(w, "rejected") \/ Result(w, "lost"))
  /\ UNCHANGED <<video, stored, vask, vdel, fresh, videoHistory>>

-----------------------------------------------------------------------------
(* finish: an update that holds only for the owner of the lease, and ends it.*)

Applied(r, w) ==
  LET o == vwork[w].out IN
  CASE o \in {"rejected", "failed"} -> [r EXCEPT !.st = "failed"]
    [] o = "lost" -> [r EXCEPT !.st = "unknown"]
    [] o = "running" -> [r EXCEPT !.st = "running", !.up = vwork[w].try]
    [] o = "completed" -> [r EXCEPT !.st = "completed", !.up = vwork[w].try]
    [] o = "paused" -> [r EXCEPT !.paused = TRUE]
    [] o = "error" -> r
    [] o = "unsaved" -> [r EXCEPT !.art = "failed"]
    [] o = "unstored" -> [r EXCEPT !.art = "failed", !.key = TRUE]
    [] o = "saved" -> [r EXCEPT !.art = "ready", !.key = TRUE]

Finish(w) ==
  LET t == vwork[w].t IN
  /\ vwork[w].at = "finish"
  /\ IF video[t].owner = w THEN SetVideo(t, Unleased(Applied(video[t], w))) ELSE UNCHANGED <<video, fresh>>
  /\ VideoIdle(w)
  /\ UNCHANGED <<job, stored, vask, vdel, videoHistory>>

-----------------------------------------------------------------------------
(* ProcessDue                                                                *)

\* A submission without a lease may have been accepted: never send it again.
RecoverSubmitting(t) ==
  /\ video[t].st = "submitting" /\ ~ video[t].leased
  /\ SetVideo(t, Unleased([video[t] EXCEPT !.st = "unknown"]))
  /\ UNCHANGED <<job, stored, videoActors, videoHistory>>

\* reconcileRejectedSubmissions, at the start of a process.
Reconcile(t) ==
  /\ video[t].st = "misfiled" /\ video[t].up = 0 /\ video[t].owner = Nobody
  /\ SetVideo(t, [video[t] EXCEPT !.st = "failed", !.leased = FALSE])
  /\ UNCHANGED <<job, stored, videoActors, videoHistory>>

Due(r) ==
  /\ r.up # 0 /\ ~ r.paused /\ ~ r.leased
  /\ \/ r.st = "running"
     \/ r.st = "completed" /\ r.art \in {"pending", "saving"}

\* A due row is claimed; the revision makes listing and claim one step.
ClaimDue(w, t) ==
  /\ vwork[w].at = "idle" /\ Due(video[t])
  /\ SetVideo(t, LeasedBy(video[t], w))
  /\ Job(w, t, IF video[t].st = "completed" THEN "reserve" ELSE "query", video[t].up)
  /\ UNCHANGED <<job, stored, vask, vdel, videoHistory>>

\* process: the state of the job, or an error and a later attempt.
Query(w) ==
  /\ vwork[w].at = "query"
  /\ \/ /\ job[vwork[w].t][vwork[w].try] # "none"
        /\ Result(w, Seen(job[vwork[w].t][vwork[w].try]))
     \/ Result(w, "error")
  /\ UNCHANGED <<video, job, stored, vask, vdel, fresh, videoHistory>>

\* The tracking deadline has passed, ...
GiveUp(w) ==
  /\ vwork[w].at = "query"
  /\ Result(w, "paused")
  /\ UNCHANGED <<video, job, stored, vask, vdel, fresh, videoHistory>>

\* ... or the stored connection cannot be decrypted.
Unreadable(w) ==
  /\ vwork[w].at \in {"query", "reserve"}
  /\ Result(w, "paused")
  /\ UNCHANGED <<video, job, stored, vask, vdel, fresh, videoHistory>>

\* save: the transaction that reserves room and renews the lease.
Reserve(w) ==
  LET t == vwork[w].t IN
  /\ vwork[w].at = "reserve" /\ video[t].owner = w
  /\ SetVideo(t, [video[t] EXCEPT !.art = "saving", !.leased = TRUE])
  /\ VideoAt(w, "fetch")
  /\ UNCHANGED <<job, stored, vask, vdel, videoHistory>>

\* No room, no lease, or no answer of the upstream.
SaveFails(w) ==
  /\ vwork[w].at \in {"reserve", "fetch"}
  /\ Result(w, "unsaved")
  /\ UNCHANGED <<video, job, stored, vask, vdel, fresh, videoHistory>>

Fetch(w) ==
  /\ vwork[w].at = "fetch"
  /\ VideoAt(w, "put")
  /\ UNCHANGED <<video, job, stored, vask, vdel, fresh, videoHistory>>

\* videoasset.Save: a call that fails may have left the object behind.
Put(w) ==
  /\ vwork[w].at = "put"
  /\ \/ stored' = stored \cup {vwork[w].t} /\ (Result(w, "saved") \/ Result(w, "unstored"))
     \/ UNCHANGED stored /\ Result(w, "unstored")
  /\ UNCHANGED <<video, job, vask, vdel, fresh, videoHistory>>

VideoWorkStep(w) ==
  \/ Launch(w) \/ PostVideo(w) \/ Query(w) \/ GiveUp(w) \/ Unreadable(w) \/ Reserve(w)
  \/ SaveFails(w) \/ Fetch(w) \/ Put(w) \/ Finish(w)

-----------------------------------------------------------------------------
(* Requests of the user that touch no job.                                   *)

\* Get with resume: tracking of a paused task starts again.
Resume(t) ==
  /\ video[t].paused /\ ~ video[t].leased
  /\ SetVideo(t, [video[t] EXCEPT !.paused = FALSE])
  /\ UNCHANGED <<job, stored, videoActors, videoHistory>>

\* RetryDownload leaves the old owner in the row.
RetryDownload(t) ==
  /\ video[t].st = "completed" /\ video[t].art = "failed" /\ ~ video[t].leased
  /\ SetVideo(t, [video[t] EXCEPT !.art = "pending", !.paused = FALSE])
  /\ UNCHANGED <<job, stored, videoActors, videoHistory>>

-----------------------------------------------------------------------------
(* Delete and Cleanup                                                        *)

VideoDeleting(d, l) == vdel' = [vdel EXCEPT ![d].at = l]

VideoDeleteRead(d, t) ==
  /\ vdel[d].at = "idle" /\ Done(video[t])
  /\ vdel' = [vdel EXCEPT ![d] = [at |-> "claim", t |-> t, expire |-> FALSE, key |-> video[t].key]]
  /\ fresh' = fresh \cup {d}
  /\ UNCHANGED <<video, job, stored, vwork, vask, videoHistory>>

\* The claim does not compare revisions (to test the checks).
ClaimUnrevised(d) == video[vdel[d].t].st # "deleted" /\ ~ video[vdel[d].t].leased

\* claim: the revision that was read, and no lease.
VideoClaimMatches(d) == d \in fresh /\ ~ video[vdel[d].t].leased

VideoDeleteClaim(d) ==
  LET t == vdel[d].t IN
  /\ vdel[d].at = "claim"
  /\ IF VideoClaimMatches(d)
       THEN SetVideo(t, LeasedBy(video[t], d)) /\ VideoDeleting(d, "erase")
       ELSE vdel' = [vdel EXCEPT ![d] = VideoIdleDel] /\ fresh' = fresh \ {d} /\ UNCHANGED video
  /\ UNCHANGED <<job, stored, vwork, vask, videoHistory>>

\* Cleanup claims a row whose file has expired.
ExpireClaim(d, t) ==
  /\ vdel[d].at = "idle"
  /\ video[t].st = "completed" /\ video[t].key /\ video[t].art \in {"ready", "expired"} /\ ~ video[t].leased
  /\ SetVideo(t, LeasedBy(video[t], d))
  /\ vdel' = [vdel EXCEPT ![d] = [at |-> "erase", t |-> t, expire |-> TRUE, key |-> TRUE]]
  /\ UNCHANGED <<job, stored, vwork, vask, videoHistory>>

Erase(d) ==
  /\ vdel[d].at = "erase"
  /\ stored' = IF vdel[d].key THEN stored \ {vdel[d].t} ELSE stored
  /\ VideoDeleting(d, "drop")
  /\ UNCHANGED <<video, job, vwork, vask, fresh, videoHistory>>

\* Store.Delete fails: the lease is given back.
EraseFails(d) ==
  LET t == vdel[d].t IN
  /\ vdel[d].at = "erase" /\ vdel[d].key
  /\ IF video[t].owner = d THEN SetVideo(t, Unleased(video[t])) ELSE UNCHANGED <<video, fresh>>
  /\ vdel' = [vdel EXCEPT ![d] = VideoIdleDel]
  /\ UNCHANGED <<job, stored, vwork, vask, videoHistory>>

\* The row goes, or says that its file has expired, unless it has another owner.
Drop(d) ==
  LET t == vdel[d].t
      gone == IF vdel[d].expire THEN Unleased([video[t] EXCEPT !.art = "expired", !.key = FALSE])
                               ELSE [NewVideo("deleted") EXCEPT !.retries = video[t].retries,
                                                              !.asked = video[t].asked]
  IN
  /\ vdel[d].at = "drop"
  /\ IF video[t].owner = d THEN SetVideo(t, gone) ELSE UNCHANGED <<video, fresh>>
  /\ vdel' = [vdel EXCEPT ![d] = VideoIdleDel]
  /\ UNCHANGED <<job, stored, vwork, vask, videoHistory>>

VideoDeleteStep(d) ==
  \/ \E t \in Tasks : VideoDeleteRead(d, t) \/ ExpireClaim(d, t)
  \/ VideoDeleteClaim(d) \/ Erase(d) \/ EraseFails(d) \/ Drop(d)

-----------------------------------------------------------------------------
(* The upstream, clocks and faults.                                          *)

JobEnds(t, a) ==
  /\ job[t][a] = "running"
  /\ \E j \in {"done", "failed"} : job' = [job EXCEPT ![t][a] = j]
  /\ UNCHANGED <<video, stored, videoActors, fresh, videoHistory>>

VideoHolds(t, a) ==
  \/ \E w \in Workers : w = a /\ vwork[w].at # "idle" /\ vwork[w].t = t
  \/ \E d \in Deleters : d = a /\ vdel[d].at \in {"erase", "drop"} /\ vdel[d].t = t

\* A lease without a holder runs out in time; under a holder it is a fault.
VideoLeaseRunsOut(t) ==
  /\ video[t].leased
  /\ video' = [video EXCEPT ![t].leased = FALSE]
  /\ IF VideoHolds(t, video[t].owner)
       THEN /\ faults < MaxFaults /\ faults' = faults + 1
            /\ late' = late \cup {t}
       ELSE UNCHANGED <<faults, late>>
  /\ UNCHANGED <<job, stored, videoActors, fresh, cut>>

\* The goroutine is gone with its process.
WorkerStops(w) ==
  /\ vwork[w].at # "idle" /\ faults < MaxFaults
  /\ faults' = faults + 1
  /\ cut' = cut \cup {vwork[w].t}
  /\ VideoIdle(w)
  /\ UNCHANGED <<video, job, stored, vask, vdel, fresh, late>>

DeleterStops(d) ==
  /\ vdel[d].at # "idle" /\ faults < MaxFaults
  /\ faults' = faults + 1
  /\ cut' = cut \cup {vdel[d].t}
  /\ vdel' = [vdel EXCEPT ![d] = VideoIdleDel]
  /\ fresh' = fresh \ {d}
  /\ UNCHANGED <<video, job, stored, vwork, vask, late>>

VideoNext ==
  \/ \E w \in Workers :
       \/ VideoWorkStep(w) \/ WorkerStops(w)
       \/ \E t \in Tasks : Submit(w, t) \/ ClaimDue(w, t)
  \/ \E c \in Callers :
       \/ RetryReturns(c)
       \/ \E w \in Workers : Retry(c, w)
       \/ \E t \in Tasks, q \in Requests : ReadFailed(c, t, q)
  \/ \E d \in Deleters : VideoDeleteStep(d) \/ DeleterStops(d)
  \/ \E t \in Tasks :
       \/ RecoverSubmitting(t) \/ Reconcile(t) \/ Resume(t) \/ RetryDownload(t)
       \/ VideoLeaseRunsOut(t)
       \/ \E a \in Attempts : JobEnds(t, a)

\* The loop lists due rows every second, its goroutines run, an orphaned lease
\* ends, and a task is not tracked beyond its deadline.
VideoFairness ==
  /\ \A w \in Workers : WF_videoVars(VideoWorkStep(w)) /\ SF_videoVars(GiveUp(w))
  /\ \A t \in Tasks :
       /\ WF_videoVars(RecoverSubmitting(t))
       /\ WF_videoVars(\E w \in Workers : ClaimDue(w, t))
       /\ WF_videoVars(VideoLeaseRunsOut(t) /\ ~ VideoHolds(t, video[t].owner))

VideoSafetySpec == VideoInit /\ [][VideoNext]_videoVars
VideoSpec == VideoSafetySpec /\ VideoFairness

-----------------------------------------------------------------------------
(* Properties                                                                *)

\* What the row says, in the words of PaidGeneration.
VideoPhase(r) ==
  CASE r.st = "none" -> "none"
    [] r.st = "submitting" -> "open"
    [] r.st = "running" -> IF r.paused THEN "paused" ELSE "open"
    [] r.st = "completed" /\ r.art \in {"pending", "saving"} -> IF r.paused THEN "paused" ELSE "done"
    [] r.st = "completed" /\ r.art \notin {"pending", "saving"} -> "saved"
    [] r.st = "failed" -> "failed"
    [] r.st \in {"unknown", "misfiled"} -> "unknown"
    [] r.st = "deleted" -> "gone"

PaidJobs(t) == {a \in Attempts : job[t][a] \in {"running", "done"}}

\* A video is asked for by a job of its own, so that no answer is given in vain.
VideoPaid == INSTANCE PaidGeneration
               WITH phase <- [t \in Tasks |-> VideoPhase(video[t])],
                    paid <- [t \in Tasks |-> Cardinality(PaidJobs(t))],
                    spent <- [t \in Tasks |-> FALSE]

\* Whatever processes stop, answers are lost and leases run out: a video is
\* never generated again while a job of it may still cost something, a task in
\* progress is not deleted, and it comes to rest.
VideoImplementsPaid == VideoPaid!Spec

\* However many requests retry a task at once, and however often one is sent
\* again: each accepted request_id starts one attempt, and each attempt has one.
RetryAcceptedOnce == \A t \in Tasks : video[t].retries = Cardinality(video[t].asked)

\* A row that offers a video has its object, unless a deletion is between the
\* two; and a deleted row leaves no object that nobody can name.  Both but for
\* tasks whose actor stopped half-way or outlived its lease.
ObjectAccounted ==
  \A t \in Tasks \ (late \cup cut) :
    /\ video[t].st = "completed" /\ video[t].art = "ready" /\ t \notin stored
         => \E d \in Deleters : vdel[d].at = "drop" /\ vdel[d].t = t
    /\ video[t].st = "deleted" => t \notin stored
===============================================================================
