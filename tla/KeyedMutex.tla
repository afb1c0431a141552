------------------------------ MODULE KeyedMutex ------------------------------
(***************************************************************************)
(* lockConnect / unlockConnect of internal/mcp/bridge/session_pool.go: the *)
(* per-key connect lock built from a map of reference-counted mutexes.     *)
(* The map entry is dropped when nobody refers to the mutex any more, so   *)
(* that the map does not grow for ever, and it is dropped before the mutex *)
(* itself is unlocked.  connMu makes each map access one atomic step; the  *)
(* acquisition of the mutex is a step of its own, outside connMu.          *)
(***************************************************************************)
EXTENDS Naturals, FiniteSets

CONSTANTS Procs,    \* goroutines
          Keys,     \* session keys
          Mutexes,  \* identities of the keyedMutex objects alive at one time
          None      \* no mutex, and no goroutine

ASSUME NoneAssumption == None \notin Mutexes /\ None \notin Procs
ASSUME FiniteProcsAssumption == IsFiniteSet(Procs)

VARIABLES connectLocks,  \* connectLocks[k]: the mutex of key k, or None
          ref,           \* ref[m]: the reference count of m
          owner,         \* owner[m]: the goroutine that has locked m.mu
          pc,            \* where each goroutine is in lockConnect .. unlockConnect
          key,           \* key[p]: the key p asked for
          km             \* km[p]: the mutex p was handed

vars == <<connectLocks, ref, owner, pc, key, km>>

TypeOK ==
  /\ connectLocks \in [Keys -> Mutexes \cup {None}]
  /\ ref \in [Mutexes -> Nat]
  /\ owner \in [Mutexes -> Procs \cup {None}]
  /\ pc \in [Procs -> {"idle", "locking", "held", "unlocking"}]
  /\ key \in [Procs -> Keys]
  /\ km \in [Procs -> Mutexes \cup {None}]

-----------------------------------------------------------------------------
Init ==
  /\ connectLocks = [k \in Keys |-> None]
  /\ ref = [m \in Mutexes |-> 0]
  /\ owner = [m \in Mutexes |-> None]
  /\ pc = [p \in Procs |-> "idle"]
  /\ key \in [Procs -> Keys]
  /\ km = [p \in Procs |-> None]

\* A keyedMutex allocated now is one that nothing refers to.
Fresh(m) ==
  /\ \A k \in Keys : connectLocks[k] # m
  /\ \A p \in Procs : km[p] # m

\* The part of lockConnect under connMu: count the user of the key's mutex, or
\* create it.
Join(k, m) ==
  /\ connectLocks[k] = m
  /\ ref' = [ref EXCEPT ![m] = @ + 1]
  /\ UNCHANGED <<connectLocks, owner>>

Create(k, m) ==
  /\ connectLocks[k] = None
  /\ Fresh(m)
  /\ connectLocks' = [connectLocks EXCEPT ![k] = m]
  /\ ref' = [ref EXCEPT ![m] = 1]
  /\ owner' = [owner EXCEPT ![m] = None]

TakeRef(p, k) ==
  /\ pc[p] = "idle"
  /\ \E m \in Mutexes :
       /\ Create(k, m) \/ Join(k, m)
       /\ km' = [km EXCEPT ![p] = m]
  /\ key' = [key EXCEPT ![p] = k]
  /\ pc' = [pc EXCEPT ![p] = "locking"]

\* km.mu.Lock(), which waits without holding connMu.
Lock(p) ==
  /\ pc[p] = "locking"
  /\ owner[km[p]] = None
  /\ owner' = [owner EXCEPT ![km[p]] = p]
  /\ pc' = [pc EXCEPT ![p] = "held"]
  /\ UNCHANGED <<connectLocks, ref, key, km>>

\* Every user drops the map entry, the last or not (to test the checks).
DropRefAlways(p) ==
  /\ pc[p] = "held"
  /\ ref' = [ref EXCEPT ![km[p]] = @ - 1]
  /\ connectLocks' = [connectLocks EXCEPT ![key[p]] = None]
  /\ pc' = [pc EXCEPT ![p] = "unlocking"]
  /\ UNCHANGED <<owner, key, km>>

\* The part of unlockConnect under connMu: the last user drops the map entry.
DropRef(p) ==
  /\ pc[p] = "held"
  /\ ref' = [ref EXCEPT ![km[p]] = @ - 1]
  /\ connectLocks' = IF ref'[km[p]] = 0
                       THEN [connectLocks EXCEPT ![key[p]] = None]
                       ELSE connectLocks
  /\ pc' = [pc EXCEPT ![p] = "unlocking"]
  /\ UNCHANGED <<owner, key, km>>

\* km.mu.Unlock(), after which p no longer refers to the mutex.
Unlock(p) ==
  /\ pc[p] = "unlocking"
  /\ owner' = [owner EXCEPT ![km[p]] = None]
  /\ km' = [km EXCEPT ![p] = None]
  /\ pc' = [pc EXCEPT ![p] = "idle"]
  /\ UNCHANGED <<connectLocks, ref, key>>

Next ==
  \E p \in Procs : \/ \E k \in Keys : TakeRef(p, k)
                   \/ Lock(p)
                   \/ DropRef(p)
                   \/ Unlock(p)

\* sync.Mutex hands itself to a waiter that has starved for a millisecond, so
\* Lock is strongly fair; the critical sections of the pool end because every
\* dial and every database statement in them carries a deadline.
Fairness == \A p \in Procs : /\ SF_vars(Lock(p))
                             /\ WF_vars(DropRef(p))
                             /\ WF_vars(Unlock(p))

SafetySpec == Init /\ [][Next]_vars
Spec == SafetySpec /\ Fairness

-----------------------------------------------------------------------------
\* The goroutines that count towards ref[m].
Users(m) == {p \in Procs : pc[p] \in {"locking", "held"} /\ km[p] = m}

\* A goroutine inside a session key's critical section is alone there, even
\* while the map entry of the key is dropped and created again (unlockConnect
\* deletes the entry while km.mu is still locked).
MutualExclusion ==
  \A p, q \in Procs :
    pc[p] = "held" /\ pc[q] = "held" /\ key[p] = key[q] => p = q

\* connectLocks holds an entry exactly while somebody waits for or holds the
\* key, which is what keeps the map from growing without bound.
EntriesInUse ==
  \A k \in Keys :
    connectLocks[k] # None <=>
      \E p \in Procs : pc[p] \in {"locking", "held"} /\ key[p] = k

\* The abstract lock: a goroutine leaves the critical section when it drops
\* its reference.
Abstract == INSTANCE KeyedLock
  WITH phase <- [p \in Procs |-> CASE pc[p] = "locking" -> "waiting"
                                   [] pc[p] = "held"    -> "holding"
                                   [] OTHER             -> "idle"],
       want  <- key

ImplementsKeyedLock == Abstract!Spec
===============================================================================
