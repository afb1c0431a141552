------------------------------ MODULE KeyedLock ------------------------------
(***************************************************************************)
(* What the session pool expects of its per-key connect lock: at most one  *)
(* goroutine at a time is inside the critical section of a session key,    *)
(* different keys never wait for each other, and a goroutine that waits    *)
(* gets in if the critical sections before it end.                         *)
(*                                                                         *)
(* Callers: GetOrConnect, WithServiceLock and the Done watcher of          *)
(* internal/mcp/bridge/session_pool.go.  KeyedMutex.tla implements it.     *)
(***************************************************************************)
CONSTANTS Procs,    \* the goroutines that use the pool
          Keys      \* the session keys

VARIABLES phase,    \* phase[p]: what p does with its key's lock
          want      \* want[p]: the key of p's last request

vars == <<phase, want>>

TypeOK ==
  /\ phase \in [Procs -> {"idle", "waiting", "holding"}]
  /\ want \in [Procs -> Keys]

Holders(k) == {p \in Procs : phase[p] = "holding" /\ want[p] = k}

Init ==
  /\ phase = [p \in Procs |-> "idle"]
  /\ want \in [Procs -> Keys]

Request(p, k) ==
  /\ phase[p] = "idle"
  /\ phase' = [phase EXCEPT ![p] = "waiting"]
  /\ want' = [want EXCEPT ![p] = k]

Enter(p) ==
  /\ phase[p] = "waiting"
  /\ Holders(want[p]) = {}
  /\ phase' = [phase EXCEPT ![p] = "holding"]
  /\ UNCHANGED want

Leave(p) ==
  /\ phase[p] = "holding"
  /\ phase' = [phase EXCEPT ![p] = "idle"]
  /\ UNCHANGED want

Next == \E p \in Procs : (\E k \in Keys : Request(p, k)) \/ Enter(p) \/ Leave(p)

Fairness == \A p \in Procs : SF_vars(Enter(p)) /\ WF_vars(Leave(p))

Spec == Init /\ [][Next]_vars /\ Fairness

SafetySpec == Init /\ [][Next]_vars
===============================================================================
