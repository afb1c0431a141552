----------------------------- MODULE PaidGeneration -----------------------------
(***************************************************************************)
(* What a media task that may be generated again promises: whatever        *)
(* restarts, lost answers and expired leases happen underneath, the user   *)
(* never pays for two results of one task.  A generation is repeated only  *)
(* after one that is known to have given no result, and each is answered   *)
(* at most once; one with an unknown outcome stays unknown; only the       *)
(* saving of a result that exists is repeated freely; a task in progress   *)
(* is not deleted.  What is not promised: an answer of no use may have     *)
(* been charged, and the generation that follows it is charged again.      *)
(*                                                                         *)
(* VideoTask.tla (internal/mcp/videogen) and AudioTask.tla                 *)
(* (internal/mcp/audiogen) implement it.                                   *)
(***************************************************************************)
EXTENDS Naturals

CONSTANT Tasks

VARIABLES phase,   \* how far each task has come
          paid,    \* results of a task that are or will be paid for
          spent,   \* the last generation was answered with nothing of use
          late     \* tasks on which a lease ran out under a live holder

vars == <<phase, paid, spent, late>>

Phases == {"none", "open", "paused", "failed", "unknown", "done", "saved",
           "leaving", "gone"}

TypeOK ==
  /\ phase \in [Tasks -> Phases]
  /\ paid \in [Tasks -> 0 .. 1] /\ spent \in [Tasks -> BOOLEAN]
  /\ late \in SUBSET Tasks

Init ==
  /\ phase \in [Tasks -> {"none", "unknown"}]
  /\ paid = [t \in Tasks |-> 0] /\ spent = [t \in Tasks |-> FALSE]
  /\ late = {}

Enter(t, from, to) ==
  /\ phase[t] \in from
  /\ phase' = [phase EXCEPT ![t] = to]
  /\ UNCHANGED <<paid, late>>

Move(t, from, to) == Enter(t, from, to) /\ UNCHANGED spent

Begin(t) == Move(t, {"none"}, "open")
Again(t) ==
  paid[t] = 0 /\ Enter(t, {"failed"}, "open") /\ spent' = [spent EXCEPT ![t] = FALSE]
Refuse(t) == paid[t] = 0 /\ Move(t, {"open", "unknown"}, "failed")
Lose(t) == Move(t, {"open"}, "unknown")
Pause(t) == Move(t, {"open", "done"}, "paused")
Resume(t) == Move(t, {"paused"}, "open") \/ (paid[t] = 1 /\ Move(t, {"paused"}, "done"))
Complete(t) == paid[t] = 1 /\ Move(t, {"open"}, "done")
Settle(t) == Move(t, {"done"}, "saved")
SaveAgain(t) == Move(t, {"saved"}, "done")

\* Deletion, at once or in two steps; one that fails leaves the task behind.
Removable(t) == phase[t] # "none" /\ (phase[t] \in {"open", "done"} => t \in late)
Remove(t) == Removable(t) /\ Move(t, Phases, "gone")
Leave(t) == Removable(t) /\ Move(t, Phases, "leaving")
Return(t) ==
  \E p \in {"failed", "unknown", "done", "saved"} :
    (p = "failed" => paid[t] = 0) /\ Move(t, {"leaving"}, p)

\* The one request of a generation may still be answered, late if its sender is.
Unanswered(t) ==
  /\ paid[t] = 0 /\ ~ spent[t]
  /\ \/ phase[t] = "open"
     \/ phase[t] \in {"unknown", "leaving", "gone"} /\ t \in late

\* The upstream accepts it and gives a result for it, ...
Pay(t) ==
  /\ Unanswered(t)
  /\ paid' = [paid EXCEPT ![t] = 1]
  /\ UNCHANGED <<phase, spent, late>>

\* ... or an answer of no use.
Waste(t) ==
  /\ Unanswered(t)
  /\ spent' = [spent EXCEPT ![t] = TRUE]
  /\ UNCHANGED <<phase, paid, late>>

\* The upstream gives up on what it had accepted and charges nothing.
Waive(t) ==
  /\ paid[t] = 1 /\ phase[t] \in {"open", "paused", "unknown", "gone"}
  /\ paid' = [paid EXCEPT ![t] = 0]
  /\ UNCHANGED <<phase, spent, late>>

Overrun(t) == late' = late \cup {t} /\ UNCHANGED <<phase, paid, spent>>

Progress(t) == Refuse(t) \/ Lose(t) \/ Pause(t) \/ Complete(t) \/ Settle(t)

Next ==
  \E t \in Tasks :
    \/ Begin(t) \/ Again(t) \/ Progress(t) \/ Resume(t) \/ SaveAgain(t)
    \/ Remove(t) \/ Leave(t) \/ Return(t) \/ Pay(t) \/ Waste(t) \/ Waive(t) \/ Overrun(t)

SafetySpec == Init /\ [][Next]_vars
\* A task in progress comes to rest: failed, unknown, paused or saved.
Spec == SafetySpec /\ \A t \in Tasks : WF_vars(phase[t] # "unknown" /\ Progress(t))
===============================================================================
