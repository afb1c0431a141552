------------------------------- MODULE AudioTask -------------------------------
(***************************************************************************)
(* Audio generation tasks: internal/mcp/audiogen/manager.go.  The upstream *)
(* answers a paid POST synchronously; the complete result is staged in     *)
(* storage, payload first and a marker with its digest after it, before    *)
(* the row says completed, and is saved from there as assets of its own.   *)
(* There is no revision: an update compares only the columns its WHERE     *)
(* clause names.                                                           *)
(*                                                                         *)
(* Each database statement, request and storage call is one step.  Time is *)
(* not modelled: a lease or a retention ends when the model says so.       *)
(***************************************************************************)
EXTENDS MediaTasks

CONSTANTS Clients,   \* requests that submit or retry
          Sweepers,  \* sweep loops, one for each process
          Inputs,    \* keys of stored inputs; each is given once
          Audios,    \* files of a generated result
          Limit      \* AudioGenConcurrency

ASSUME AudioInputsAssumption == Nobody \notin Inputs
ASSUME AudioBoundsAssumption == Audios \in Nat \ {0} /\ Limit \in Nat \ {0}

VARIABLES
  audio,   \* the rows
  inputs,  \* stored inputs
  given,    \* input keys that were ever given out
  stage,   \* the staged result of each attempt: nothing, the payload, or complete
  assets,  \* generated assets of each task
  paid,    \* attempts that gave, or may have given, a result
  wasted,  \* attempts whose answer was of no use, though it may have been charged (history)
  awork, swept, aask, adel,  \* the actors
  spoiled  \* tasks whose deletion failed half-way (history)

audioStore == <<inputs, given, stage, assets>>
audioActors == <<awork, swept, aask, adel>>
audioHistory == <<wasted, late, spoiled, faults>>
audioOwn == <<audio, audioStore, paid, wasted, audioActors, spoiled>>
audioVars == <<audioOwn, late, faults>>

AudioStatuses == {"none", "queued", "running", "completed", "failed", "unknown", "deleting", "deleted"}
Artifacts == {"none", "pending", "saving", "ready", "failed"}

\* Column out is the attempt in output_key, 0 for the empty key.
AudioRows == [st : AudioStatuses, art : Artifacts, owner : Workers \cup {Nobody}, leased : BOOLEAN,
         inp : Inputs \cup {Nobody}, out : 0 .. MaxRetries + 1, retries : 0 .. MaxRetries]

AudioIdleWork == [at |-> "idle", t |-> AnyTask, try |-> 1, inp |-> Nobody, n |-> 0, ok |-> FALSE]
IdleSweep == [at |-> "idle", t |-> AnyTask, try |-> 1, ok |-> FALSE]
AudioIdleAsk == [at |-> "idle", t |-> AnyTask, inp |-> Nobody, old |-> Nobody]
AudioIdleDel == [at |-> "idle", t |-> AnyTask, st |-> "failed", art |-> "none", inp |-> Nobody, out |-> 0]

AudioWorkPoints == {"idle", "input", "post", "payload", "marker", "publish", "failed", "unknown",
               "read", "clear", "save", "close"}

AudioTypeOK ==
  /\ audio \in [Tasks -> AudioRows]
  /\ inputs \in SUBSET given /\ given \in SUBSET Inputs
  /\ stage \in [Tasks -> [Attempts -> {"none", "payload", "complete"}]]
  /\ assets \in [Tasks -> Nat]
  /\ paid \in [Tasks -> SUBSET Attempts]
  /\ wasted \in [Tasks -> SUBSET Attempts]
  /\ awork \in [Workers -> [at : AudioWorkPoints, t : Tasks, try : Attempts, inp : Inputs \cup {Nobody},
                           n : 0 .. Audios, ok : BOOLEAN]]
  /\ swept \in [Sweepers -> [at : {"idle", "decided"}, t : Tasks, try : Attempts, ok : BOOLEAN]]
  /\ aask \in [Clients -> [at : {"idle", "create", "capture", "retry", "drop", "resave"},
                          t : Tasks, inp : Inputs \cup {Nobody}, old : Inputs \cup {Nobody}]]
  /\ adel \in [Deleters -> [at : {"idle", "claim", "assets", "files", "row", "clean", "forget"},
                           t : Tasks, st : AudioStatuses, art : Artifacts, inp : Inputs \cup {Nobody},
                           out : 0 .. MaxRetries + 1]]
  /\ late \in SUBSET Tasks /\ spoiled \in SUBSET Tasks
  /\ faults \in 0 .. MaxFaults

NewAudio(s) == [st |-> s, art |-> "none", owner |-> Nobody, leased |-> FALSE, inp |-> Nobody, out |-> 0,
              retries |-> 0]

AudioInit ==
  /\ audio = [t \in Tasks |-> NewAudio("none")]
  /\ inputs = {} /\ given = {}
  /\ stage = [t \in Tasks |-> [a \in Attempts |-> "none"]]
  /\ assets = [t \in Tasks |-> 0]
  /\ paid = [t \in Tasks |-> {}]
  /\ wasted = [t \in Tasks |-> {}]
  /\ awork = [w \in Workers |-> AudioIdleWork]
  /\ swept = [s \in Sweepers |-> IdleSweep]
  /\ aask = [c \in Clients |-> AudioIdleAsk]
  /\ adel = [d \in Deleters |-> AudioIdleDel]
  /\ late = {} /\ spoiled = {} /\ faults = 0

-----------------------------------------------------------------------------
(* Submit and Retry: the input is captured before the row names it.          *)

SetAudio(t, r) == audio' = [audio EXCEPT ![t] = r]
Asking(c, l, t, i, o) == aask' = [aask EXCEPT ![c] = [at |-> l, t |-> t, inp |-> i, old |-> o]]
AskDone(c) == aask' = [aask EXCEPT ![c] = AudioIdleAsk]

Capture(c, i) ==
  /\ i \notin given
  /\ given' = given \cup {i} /\ inputs' = inputs \cup {i}

\* No row of this idempotency key was found.
SubmitCapture(c, t, i) ==
  /\ aask[c].at = "idle" /\ audio[t].st = "none"
  /\ Capture(c, i)
  /\ Asking(c, "create", t, i, Nobody)
  /\ UNCHANGED <<audio, stage, assets, paid, awork, swept, adel, audioHistory>>

\* The unique index admits one row; the loser removes its input again.
CreateRow(c) ==
  LET t == aask[c].t IN
  /\ aask[c].at = "create"
  /\ IF audio[t].st = "none"
       THEN SetAudio(t, [NewAudio("queued") EXCEPT !.inp = aask[c].inp]) /\ UNCHANGED inputs
       ELSE inputs' = inputs \ {aask[c].inp} /\ UNCHANGED audio
  /\ AskDone(c)
  /\ UNCHANGED <<given, stage, assets, paid, awork, swept, adel, audioHistory>>

RetryRead(c, t) ==
  /\ aask[c].at = "idle" /\ audio[t].st = "failed"
  /\ Asking(c, "capture", t, Nobody, audio[t].inp)
  /\ UNCHANGED <<audio, audioStore, paid, awork, swept, adel, audioHistory>>

\* The references have expired, or the new input cannot be stored.
RetryRefused(c) ==
  /\ aask[c].at = "capture"
  /\ AskDone(c)
  /\ UNCHANGED <<audio, audioStore, paid, awork, swept, adel, audioHistory>>

RetryCapture(c, i) ==
  /\ aask[c].at = "capture"
  /\ Capture(c, i)
  /\ Asking(c, "retry", aask[c].t, i, aask[c].old)
  /\ UNCHANGED <<audio, stage, assets, paid, awork, swept, adel, audioHistory>>

\* The WHERE clause of the retry.
AudioRetryMatches(r) == r.st = "failed"

RetryWrite(c) ==
  LET t == aask[c].t  r == audio[t] IN
  /\ aask[c].at = "retry"
  /\ IF AudioRetryMatches(r) /\ r.retries < MaxRetries
       THEN /\ SetAudio(t, [r EXCEPT !.st = "queued", !.art = "none", !.inp = aask[c].inp, !.out = 0,
                                   !.retries = @ + 1])
            /\ Asking(c, "drop", t, aask[c].inp, aask[c].old)
       ELSE AskDone(c) /\ UNCHANGED audio
  /\ UNCHANGED <<audioStore, paid, awork, swept, adel, audioHistory>>

DropOld(c) ==
  /\ aask[c].at = "drop"
  /\ inputs' = inputs \ {aask[c].old}
  /\ AskDone(c)
  /\ UNCHANGED <<audio, given, stage, assets, paid, awork, swept, adel, audioHistory>>

\* RetrySave reads the row and looks for both staged objects, ...
SaveAgainRead(c, t) ==
  LET r == audio[t] IN
  /\ aask[c].at = "idle"
  /\ r.st = "completed" /\ r.art = "failed" /\ r.out # 0 /\ stage[t][r.out] = "complete"
  /\ Asking(c, "resave", t, Nobody, Nobody)
  /\ UNCHANGED <<audio, audioStore, paid, awork, swept, adel, audioHistory>>

\* ... and then compares only the artefact: the row may be on its way out.
SaveAgainWrite(c) ==
  LET t == aask[c].t IN
  /\ aask[c].at = "resave"
  /\ IF audio[t].art = "failed" /\ audio[t].st # "deleted"
       THEN SetAudio(t, [audio[t] EXCEPT !.art = "pending"])
       ELSE UNCHANGED audio
  /\ AskDone(c)
  /\ UNCHANGED <<audioStore, paid, awork, swept, adel, audioHistory>>

AskStep(c) ==
  \/ CreateRow(c) \/ RetryRefused(c) \/ RetryWrite(c) \/ DropOld(c) \/ SaveAgainWrite(c)
  \/ \E i \in Inputs : RetryCapture(c, i)

-----------------------------------------------------------------------------
(* sweep                                                                     *)

\* A running row without a lease: is its result staged?
StaleRead(s, t) ==
  LET r == audio[t] IN
  /\ swept[s].at = "idle" /\ r.st = "running" /\ ~ r.leased
  /\ swept' = [swept EXCEPT ![s] = [at |-> "decided", t |-> t, try |-> r.retries + 1,
                                    ok |-> stage[t][r.retries + 1] = "complete"]]
  /\ UNCHANGED <<audio, audioStore, paid, awork, aask, adel, audioHistory>>

\* A result that is not staged is asked for again (to test the checks).
RecoveredByRetry(r, s) ==
  [r EXCEPT !.st = IF swept[s].ok THEN "completed" ELSE "queued",
            !.art = IF swept[s].ok THEN "pending" ELSE "none",
            !.out = swept[s].try, !.owner = Nobody]

Recovered(r, s) ==
  [r EXCEPT !.st = IF swept[s].ok THEN "completed" ELSE "unknown",
            !.art = IF swept[s].ok THEN "pending" ELSE "none",
            !.out = swept[s].try, !.owner = Nobody]

\* The generation is never sent again: it is completed or unknown.
StaleWrite(s) ==
  LET t == swept[s].t IN
  /\ swept[s].at = "decided"
  /\ IF audio[t].st = "running" /\ ~ audio[t].leased
       THEN SetAudio(t, Recovered(audio[t], s))
       ELSE UNCHANGED audio
  /\ swept' = [swept EXCEPT ![s] = IdleSweep]
  /\ UNCHANGED <<audioStore, paid, awork, aask, adel, audioHistory>>

Starts(w, l, t) ==
  awork' = [awork EXCEPT ![w] = [at |-> l, t |-> t, try |-> IF l = "read" THEN audio[t].out
                                                          ELSE audio[t].retries + 1,
                               inp |-> audio[t].inp, n |-> 0, ok |-> FALSE]]

\* The claim is a transaction that also counts the running tasks.
ClaimQueued(w, t) ==
  /\ awork[w].at = "idle" /\ audio[t].st = "queued"
  /\ Cardinality({u \in Tasks : audio[u].st = "running" /\ audio[u].leased}) < Limit
  /\ SetAudio(t, [audio[t] EXCEPT !.st = "running", !.owner = w, !.leased = TRUE])
  /\ Starts(w, "input", t)
  /\ UNCHANGED <<audioStore, paid, swept, aask, adel, audioHistory>>

\* A save of a completed task; how many run at once is counted only roughly.
ClaimSave(w, t) ==
  /\ awork[w].at = "idle" /\ audio[t].st = "completed"
  /\ \/ audio[t].art = "pending"
     \/ audio[t].art = "saving" /\ ~ audio[t].leased
  /\ SetAudio(t, [audio[t] EXCEPT !.art = "saving", !.owner = w, !.leased = TRUE])
  /\ Starts(w, "read", t)
  /\ UNCHANGED <<audioStore, paid, swept, aask, adel, audioHistory>>

-----------------------------------------------------------------------------
(* generate                                                                  *)

AudioAt(w, l) == awork' = [awork EXCEPT ![w].at = l]
AudioIdle(w) == awork' = [awork EXCEPT ![w] = AudioIdleWork]

ReadInput(w) ==
  /\ awork[w].at = "input"
  /\ AudioAt(w, IF awork[w].inp \in inputs THEN "post" ELSE "failed")
  /\ UNCHANGED <<audio, audioStore, paid, swept, aask, adel, audioHistory>>

\* The request is answered with a result, or its outcome is unknown; it is answered with
\* something of no use (too long, cut off, without sound or sample rate); or it is refused.
PostAudio(w) ==
  LET t == awork[w].t  try == awork[w].try IN
  /\ awork[w].at = "post"
  /\ \/ /\ paid' = [paid EXCEPT ![t] = @ \cup {try}] /\ UNCHANGED wasted
        /\ (AudioAt(w, "payload") \/ AudioAt(w, "unknown"))
     \/ /\ wasted' = [wasted EXCEPT ![t] = @ \cup {try}] /\ UNCHANGED paid
        /\ AudioAt(w, "failed")
     \/ /\ UNCHANGED <<paid, wasted>>
        /\ (AudioAt(w, "failed") \/ AudioAt(w, "unknown"))
  /\ UNCHANGED <<audio, audioStore, swept, aask, adel, late, spoiled, faults>>

Staged(w, s) == stage' = [stage EXCEPT ![awork[w].t][awork[w].try] = s]

\* stage: each call may fail, with or without effect.
StagePayload(w) ==
  /\ awork[w].at = "payload"
  /\ \/ Staged(w, "payload") /\ (AudioAt(w, "marker") \/ AudioAt(w, "unknown"))
     \/ UNCHANGED stage /\ AudioAt(w, "unknown")
  /\ UNCHANGED <<audio, inputs, given, assets, paid, swept, aask, adel, audioHistory>>

StageMarker(w) ==
  /\ awork[w].at = "marker"
  /\ \/ Staged(w, "complete") /\ (AudioAt(w, "publish") \/ AudioAt(w, "unknown"))
     \/ UNCHANGED stage /\ AudioAt(w, "unknown")
  /\ UNCHANGED <<audio, inputs, given, assets, paid, swept, aask, adel, audioHistory>>

Running(w) == audio[awork[w].t].st = "running" /\ audio[awork[w].t].owner = w

\* The row says completed before the marker is written (to test the checks).
PublishEarly(w) ==
  LET t == awork[w].t IN
  /\ awork[w].at \in {"marker", "publish"}
  /\ IF Running(w)
       THEN SetAudio(t, [audio[t] EXCEPT !.st = "completed", !.art = "pending", !.out = awork[w].try])
       ELSE UNCHANGED audio
  /\ AudioIdle(w)
  /\ UNCHANGED <<audioStore, paid, swept, aask, adel, audioHistory>>

Publish(w) ==
  LET t == awork[w].t IN
  /\ awork[w].at = "publish"
  /\ IF Running(w)
       THEN SetAudio(t, [audio[t] EXCEPT !.st = "completed", !.art = "pending", !.out = awork[w].try])
       ELSE UNCHANGED audio
  /\ AudioIdle(w)
  /\ UNCHANGED <<audioStore, paid, swept, aask, adel, audioHistory>>

\* fail
Fail(w) ==
  LET t == awork[w].t IN
  /\ awork[w].at \in {"failed", "unknown"}
  /\ IF Running(w)
       THEN SetAudio(t, [audio[t] EXCEPT !.st = awork[w].at, !.owner = Nobody, !.leased = FALSE])
       ELSE UNCHANGED audio
  /\ AudioIdle(w)
  /\ UNCHANGED <<audioStore, paid, swept, aask, adel, audioHistory>>

-----------------------------------------------------------------------------
(* save                                                                      *)

\* The staged result is read, downloaded, converted and inspected.
ReadStage(w) ==
  /\ awork[w].at = "read"
  /\ \/ stage[awork[w].t][awork[w].try] = "complete" /\ AudioAt(w, "clear")
     \/ AudioAt(w, "close")
  /\ UNCHANGED <<audio, audioStore, paid, swept, aask, adel, audioHistory>>

\* What an interrupted save left is removed.
Clear(w) ==
  /\ awork[w].at = "clear"
  /\ assets' = [assets EXCEPT ![awork[w].t] = 0]
  /\ AudioAt(w, "save")
  /\ UNCHANGED <<audio, inputs, given, stage, paid, swept, aask, adel, audioHistory>>

SaveAudio(w) ==
  /\ awork[w].at = "save"
  /\ \/ /\ assets' = [assets EXCEPT ![awork[w].t] = @ + 1]
        /\ awork' = [awork EXCEPT ![w].n = @ + 1, ![w].ok = awork[w].n + 1 = Audios,
                                ![w].at = IF awork[w].n + 1 = Audios THEN "close" ELSE "save"]
     \/ AudioAt(w, "close") /\ UNCHANGED assets
  /\ UNCHANGED <<audio, inputs, given, stage, paid, swept, aask, adel, audioHistory>>

CloseSave(w) ==
  LET t == awork[w].t IN
  /\ awork[w].at = "close"
  /\ IF audio[t].owner = w /\ audio[t].art = "saving"
       THEN SetAudio(t, [audio[t] EXCEPT !.art = IF awork[w].ok THEN "ready" ELSE "failed",
                                     !.owner = Nobody, !.leased = FALSE])
       ELSE UNCHANGED audio
  /\ AudioIdle(w)
  /\ UNCHANGED <<audioStore, paid, swept, aask, adel, audioHistory>>

AudioWorkStep(w) ==
  \/ ReadInput(w) \/ PostAudio(w) \/ StagePayload(w) \/ StageMarker(w) \/ Publish(w) \/ Fail(w)
  \/ ReadStage(w) \/ Clear(w) \/ SaveAudio(w) \/ CloseSave(w)

-----------------------------------------------------------------------------
(* Delete                                                                    *)

AudioDeleting(d, l) == adel' = [adel EXCEPT ![d].at = l]
DelDone(d) == adel' = [adel EXCEPT ![d] = AudioIdleDel]
Reading(d, l, t) ==
  adel' = [adel EXCEPT ![d] = [at |-> l, t |-> t, st |-> audio[t].st, art |-> audio[t].art,
                             inp |-> audio[t].inp, out |-> audio[t].out]]

AudioDeleteRead(d, t) ==
  /\ adel[d].at = "idle"
  /\ audio[t].st \notin {"none", "queued", "running", "deleted"}
  /\ audio[t].art \notin {"pending", "saving"}
  /\ Reading(d, "claim", t)
  /\ UNCHANGED <<audio, audioStore, paid, awork, swept, aask, audioHistory>>

\* The WHERE clause of the claim.
AudioClaimMatches(d) == audio[adel[d].t].st = adel[d].st /\ audio[adel[d].t].art = adel[d].art

AudioDeleteClaim(d) ==
  LET t == adel[d].t IN
  /\ adel[d].at = "claim"
  /\ IF AudioClaimMatches(d)
       THEN SetAudio(t, [audio[t] EXCEPT !.st = "deleting"]) /\ AudioDeleting(d, "assets")
       ELSE DelDone(d) /\ UNCHANGED audio
  /\ UNCHANGED <<audioStore, paid, awork, swept, aask, audioHistory>>

DeleteAssets(d) ==
  /\ adel[d].at = "assets"
  /\ assets' = [assets EXCEPT ![adel[d].t] = 0]
  /\ AudioDeleting(d, "files")
  /\ UNCHANGED <<audio, inputs, given, stage, paid, awork, swept, aask, audioHistory>>

Unstaged(d) ==
  stage' = IF adel[d].out = 0 THEN stage ELSE [stage EXCEPT ![adel[d].t][adel[d].out] = "none"]

DeleteFiles(d) ==
  /\ adel[d].at = "files"
  /\ inputs' = inputs \ {adel[d].inp}
  /\ Unstaged(d)
  /\ AudioDeleting(d, "row")
  /\ UNCHANGED <<audio, given, assets, paid, awork, swept, aask, audioHistory>>

DeleteRow(d) ==
  LET t == adel[d].t IN
  /\ adel[d].at = "row"
  /\ IF audio[t].st = "deleting"
       THEN SetAudio(t, [NewAudio("deleted") EXCEPT !.retries = audio[t].retries])
       ELSE UNCHANGED audio
  /\ DelDone(d)
  /\ UNCHANGED <<audioStore, paid, awork, swept, aask, audioHistory>>

\* Storage or database fails: the status goes back to what was read, though
\* files may be gone.
DeleteFails(d) ==
  LET t == adel[d].t IN
  /\ adel[d].at \in {"assets", "row"} /\ faults < MaxFaults
  /\ faults' = faults + 1
  /\ spoiled' = spoiled \cup {t}
  /\ assets' = [assets EXCEPT ![t] = 0]
  /\ IF audio[t].st = "deleting" THEN SetAudio(t, [audio[t] EXCEPT !.st = adel[d].st]) ELSE UNCHANGED audio
  /\ DelDone(d)
  /\ UNCHANGED <<inputs, given, stage, paid, wasted, awork, swept, aask, late>>

\* cleanup: the snapshots of a row that is not in progress.
CleanRead(d, t) ==
  /\ adel[d].at = "idle"
  /\ audio[t].st \notin {"none", "queued", "running", "deleted"}
  /\ \/ audio[t].inp # Nobody
     \/ audio[t].art = "ready" /\ audio[t].out # 0
  /\ Reading(d, "clean", t)
  /\ UNCHANGED <<audio, audioStore, paid, awork, swept, aask, audioHistory>>

ClearsStage(d) == adel[d].art = "ready"

CleanFiles(d) ==
  /\ adel[d].at = "clean"
  /\ inputs' = inputs \ {adel[d].inp}
  /\ IF ClearsStage(d) THEN Unstaged(d) ELSE UNCHANGED stage
  /\ AudioDeleting(d, "forget")
  /\ UNCHANGED <<audio, given, assets, paid, awork, swept, aask, audioHistory>>

CleanRow(d) ==
  LET t == adel[d].t IN
  /\ adel[d].at = "forget"
  /\ IF audio[t].st \in {"queued", "running", "deleted"}
       THEN UNCHANGED audio
       ELSE SetAudio(t, [audio[t] EXCEPT !.inp = IF adel[d].inp = Nobody THEN @ ELSE Nobody,
                                         !.out = IF ClearsStage(d) THEN 0 ELSE @])
  /\ DelDone(d)
  /\ UNCHANGED <<audioStore, paid, awork, swept, aask, audioHistory>>

AudioDeleteStep(d) ==
  \/ AudioDeleteClaim(d) \/ DeleteAssets(d) \/ DeleteFiles(d) \/ DeleteRow(d) \/ CleanFiles(d)
  \/ CleanRow(d)

-----------------------------------------------------------------------------
(* Clocks and faults.                                                        *)

AudioHolds(t) == \E w \in Workers : w = audio[t].owner /\ awork[w].at # "idle" /\ awork[w].t = t

\* A lease without a holder runs out in time; under a holder it is a fault.
AudioLeaseRunsOut(t) ==
  /\ audio[t].leased
  /\ audio' = [audio EXCEPT ![t].leased = FALSE]
  /\ IF AudioHolds(t)
       THEN faults < MaxFaults /\ faults' = faults + 1 /\ late' = late \cup {t}
       ELSE UNCHANGED <<faults, late>>
  /\ UNCHANGED <<audioStore, paid, wasted, audioActors, spoiled>>

\* A process stops with everything it was doing.
AudioStop ==
  /\ faults < MaxFaults /\ faults' = faults + 1
  /\ \E W \in SUBSET {w \in Workers : awork[w].at # "idle"} :
     \E D \in SUBSET {d \in Deleters : adel[d].at # "idle"} :
       /\ W # {} \/ D # {}
       /\ awork' = [w \in Workers |-> IF w \in W THEN AudioIdleWork ELSE awork[w]]
       /\ adel' = [d \in Deleters |-> IF d \in D THEN AudioIdleDel ELSE adel[d]]
       /\ spoiled' = spoiled \cup {adel[d].t : d \in D}
  /\ UNCHANGED <<audio, audioStore, paid, wasted, swept, aask, late>>

CallerStops(c) ==
  /\ aask[c].at # "idle" /\ faults < MaxFaults /\ faults' = faults + 1
  /\ AskDone(c)
  /\ UNCHANGED <<audio, audioStore, paid, wasted, awork, swept, adel, late, spoiled>>

AudioNext ==
  \/ \E w \in Workers :
       \/ AudioWorkStep(w)
       \/ \E t \in Tasks : ClaimQueued(w, t) \/ ClaimSave(w, t)
  \/ \E s \in Sweepers :
       \/ StaleWrite(s)
       \/ \E t \in Tasks : StaleRead(s, t)
  \/ \E c \in Clients :
       \/ AskStep(c) \/ CallerStops(c)
       \/ \E t \in Tasks : RetryRead(c, t) \/ SaveAgainRead(c, t)
       \/ \E t \in Tasks, i \in Inputs : SubmitCapture(c, t, i)
  \/ \E d \in Deleters :
       \/ AudioDeleteStep(d) \/ DeleteFails(d)
       \/ \E t \in Tasks : AudioDeleteRead(d, t) \/ CleanRead(d, t)
  \/ AudioStop
  \/ \E t \in Tasks : AudioLeaseRunsOut(t)

\* Every process sweeps each second, its goroutines run, an orphaned lease ends.
AudioFairness ==
  /\ \A w \in Workers : WF_audioVars(AudioWorkStep(w))
  /\ \A s \in Sweepers : WF_audioVars(StaleWrite(s))
  /\ \A t \in Tasks :
       /\ WF_audioVars(\E s \in Sweepers : StaleRead(s, t))
       /\ WF_audioVars(\E w \in Workers : ClaimQueued(w, t))
       /\ WF_audioVars(\E w \in Workers : ClaimSave(w, t))
       /\ WF_audioVars(AudioLeaseRunsOut(t) /\ ~ AudioHolds(t))

AudioSafetySpec == AudioInit /\ [][AudioNext]_audioVars
AudioSpec == AudioSafetySpec /\ AudioFairness

-----------------------------------------------------------------------------
(* Properties                                                                *)

\* What the row says, in the words of PaidGeneration.
AudioPhase(r) ==
  CASE r.st = "none" -> "none"
    [] r.st \in {"queued", "running"} -> "open"
    [] r.st = "completed" -> IF r.art \in {"pending", "saving"} THEN "done" ELSE "saved"
    [] r.st \in {"failed", "unknown"} -> r.st
    [] r.st = "deleting" -> "leaving"
    [] r.st = "deleted" -> "gone"

AudioPaid == INSTANCE PaidGeneration
               WITH phase <- [t \in Tasks |-> AudioPhase(audio[t])],
                    paid <- [t \in Tasks |-> Cardinality(paid[t])],
                    spent <- [t \in Tasks |-> audio[t].retries + 1 \in wasted[t]]

\* Whatever processes stop, answers are lost and leases run out: audio is never
\* generated again when an attempt has given or may have given a result, each
\* attempt is sent once, a task in progress is not deleted, and it comes to rest.
\* An attempt whose answer was of no use may have been charged as well: it counts
\* as failed, and the user may ask for another.
AudioImplementsPaid == AudioPaid!Spec

\* A queued task, and one about to read its input, has its input: no clean-up,
\* deletion or concurrent retry has removed it.
QueuedHasInput ==
  \A t \in Tasks :
    \/ audio[t].st = "queued"
    \/ audio[t].st = "running" /\ \E w \in Workers : awork[w].t = t /\ awork[w].at = "input"
    => audio[t].inp \in inputs

\* A result that was paid for is kept: staged and complete until it is saved,
\* and saved with all its files.  Not after a deletion that failed half-way, nor
\* where two holders of one task save at once.
ResultKept ==
  \A t \in Tasks \ spoiled :
    audio[t].st = "completed" =>
      IF audio[t].art = "ready" THEN t \in late \/ assets[t] = Audios
      ELSE audio[t].out # 0 /\ stage[t][audio[t].out] = "complete"

\* The files of a task outlive what still needs them (manager.go, the clean-up,
\* RetryTask and Delete against save).
FilesKept == QueuedHasInput /\ ResultKept
===============================================================================
