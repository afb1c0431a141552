------------------------------- MODULE MCCalls -------------------------------
(* The connect lock and the pool that uses it, for TLC: a behaviour runs the *)
(* lock (three goroutines and two keys) or the pool (two requests for one    *)
(* service), and leaves the other in its initial state.  Three mutex objects *)
(* suffice: a goroutine refers to one at most, and a fresh one is needed     *)
(* only by a goroutine that refers to none.                                  *)
EXTENDS KeyedMutex, TLC

CONSTANTS Callers, Adapters, Limit, MaxEdits

VARIABLES
  kind,  \* the component that runs
  pool, closed, closing, victim, online, conn, keyOf, cred, inUse, reaped, req,
  wpc, hpc, status, ver, apc, seen

\* One service of a user.
OwnKey == CHOOSE k \in Keys : TRUE
Pool == INSTANCE SessionPool WITH Keys <- {OwnKey}, Kind <- OwnKey :> "own"

mutexVars == vars
poolVars ==
  <<pool, closed, closing, victim, online, conn, keyOf, cred, inUse, reaped, req, wpc, hpc,
    status, ver, apc, seen>>

CallsInit ==
  /\ kind \in {"mutex", "pool"}
  /\ Init /\ Pool!Init
  /\ kind # "mutex" => key = [p \in Procs |-> OwnKey]

CallsNext ==
  /\ UNCHANGED kind
  /\ \/ kind = "mutex" /\ Next /\ UNCHANGED poolVars
     \/ kind = "pool" /\ Pool!Next /\ UNCHANGED mutexVars

CallsSpec ==
  CallsInit /\ [][CallsNext]_<<kind, mutexVars, poolVars>> /\ Fairness /\ Pool!Fairness

\* Every request for the service is answered, whatever holds its connect lock
\* (session_pool.go, Acquire).
CallsAnswered == Pool!CallsAnswered

\* A session whose connection is lost leaves the pool (session_pool.go,
\* observeSession, removeIfCurrent).
LostConnectionLeaves == Pool!LostConnectionLeaves
===============================================================================
