------------------------------ MODULE MediaTasks ------------------------------
(***************************************************************************)
(* What the video and the audio tasks share: rows of a database that       *)
(* processes work on under leases, users who submit, retry and delete      *)
(* them, and the faults both have to survive.                              *)
(***************************************************************************)
EXTENDS Naturals, FiniteSets

CONSTANTS Tasks,      \* rows; an id is never used twice
          Workers,    \* goroutines that work on a row, in any process
          Deleters,   \* requests that delete a task, and clean-ups
          Nobody,
          MaxRetries, \* bound on the retries of a task
          MaxFaults   \* bound on stops, failed deletions and leases that run out under a holder

ASSUME MediaActorsAssumption ==
  /\ Nobody \notin Workers \cup Deleters
  /\ Workers \cap Deleters = {}
ASSUME MediaBoundsAssumption == MaxRetries \in Nat /\ MaxFaults \in Nat
ASSUME MediaTasksAssumption == Tasks # {}

VARIABLES late,   \* tasks on which a lease ran out under its holder (history)
          faults  \* faults so far

Attempts == 1 .. MaxRetries + 1
AnyTask == CHOOSE t \in Tasks : TRUE
===============================================================================
