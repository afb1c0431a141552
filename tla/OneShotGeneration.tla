--------------------------- MODULE OneShotGeneration ---------------------------
(***************************************************************************)
(* What a media task promises the user who pays for it, whatever restarts, *)
(* lost leases and lost answers happen underneath: the paid request is     *)
(* sent upstream at most once, output exists only after it was sent, an    *)
(* accepted task is settled in the end, and only the saving of output that *)
(* exists is ever repeated.                                                *)
(*                                                                         *)
(* ImageTask.tla (internal/imagegentask) implements it.                    *)
(***************************************************************************)
EXTENDS Naturals

CONSTANT Tasks

VARIABLES phase,   \* how far each task has come
          sent     \* how often its paid request went upstream

vars == <<phase, sent>>

TypeOK ==
  /\ phase \in [Tasks -> {"none", "pending", "submitted", "generated", "settled", "unknown",
                          "gone"}]
  /\ sent \in [Tasks -> 0 .. 1]

Init ==
  /\ phase = [t \in Tasks |-> "none"]
  /\ sent = [t \in Tasks |-> 0]

Move(t, from, to) ==
  /\ phase[t] \in from
  /\ phase' = [phase EXCEPT ![t] = to]
  /\ UNCHANGED sent

Accept(t) == Move(t, {"none"}, "pending")
Submit(t) == Move(t, {"pending"}, "submitted")
Lose(t) == Move(t, {"submitted"}, "unknown")
Settle(t) == Move(t, {"pending", "submitted", "generated", "unknown"}, "settled")
\* A deletion that was under way when saving began again still ends.
Forget(t) == Move(t, {"settled", "unknown", "generated"}, "gone")

\* The worker that was allowed to submit may do so late, but only once.
Send(t) ==
  /\ phase[t] \notin {"none", "pending"}
  /\ sent[t] = 0
  /\ sent' = [sent EXCEPT ![t] = 1]
  /\ UNCHANGED phase

Generate(t) == sent[t] = 1 /\ Move(t, {"submitted"}, "generated")
SaveAgain(t) == sent[t] = 1 /\ Move(t, {"settled"}, "generated")

Progress(t) == Submit(t) \/ Lose(t) \/ Settle(t) \/ Generate(t)

Next ==
  \E t \in Tasks : Accept(t) \/ Send(t) \/ Progress(t) \/ SaveAgain(t) \/ Forget(t)

SafetySpec == Init /\ [][Next]_vars
Spec == SafetySpec /\ \A t \in Tasks : WF_vars(Progress(t) /\ phase[t] # "unknown")
===============================================================================
