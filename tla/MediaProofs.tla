------------------------------ MODULE MediaProofs -----------------------------
(***************************************************************************)
(* Machine-checked proofs about the media tasks that may be generated      *)
(* again, VideoTask first and AudioTask after it: for any tasks, workers,  *)
(* callers, deleters, inputs and bounds, and that both implement the       *)
(* safety part of PaidGeneration.                                          *)
(***************************************************************************)
EXTENDS VideoTask, AudioTask, FiniteSetTheorems, TLAPS

-----------------------------------------------------------------------------
(* Video tasks: what has to hold of each task for ObjectAccounted, and for   *)
(* the promise of PaidGeneration, to be inductive.                           *)

NotPaid(s) == s \notin {"running", "done"}

\* Only the last attempt of row r may cost anything, and jobs j agree with it.
RowFits(r, j) ==
  /\ r.st \in {"none", "deleted"} => r.owner = Nobody /\ ~ r.leased /\ ~ r.key
  /\ r.st \in {"none", "misfiled"} => r.retries = 0
  /\ r.st \in {"none", "submitting", "running"} => r.art = "pending"
  /\ r.paused => r.st \in {"running", "completed"} /\ r.art \in {"pending", "saving"}
  /\ r.st \in {"running", "completed"} => r.up = r.retries + 1
  /\ IsFiniteSet(r.asked) /\ Cardinality(r.asked) = r.retries
  /\ \A a \in Attempts : a # r.retries + 1 => NotPaid(j[a])
  /\ r.st \in {"none", "misfiled", "failed"} => NotPaid(j[r.retries + 1])
  /\ r.st = "completed" => j[r.retries + 1] = "done"

\* Worker w is at b of the task: it holds the row, or its lease ran out (l).  If
\* it still owns the row, the row is what the worker expects.
WorkerFits(w, b, r, j, l) ==
  /\ l \/ (r.owner = w /\ r.leased)
  /\ r.st # "none"
  /\ b.at \in {"launch", "post"} =>
       /\ b.try = r.retries + 1 /\ NotPaid(j[b.try])
       /\ r.st \in {"submitting", "unknown", "deleted"}
       /\ r.st = "submitting" => r.owner = w
  /\ r.owner = w =>
       /\ b.try = r.retries + 1 /\ ~ r.paused
       /\ r.st \in {"submitting", "running", "completed"}
       /\ r.st = "completed" => r.art \in {"pending", "saving"}
       /\ b.at \in {"launch", "post"} => r.st = "submitting"
       /\ b.at = "query" => r.st = "running"
       /\ b.at \in {"reserve", "fetch", "put"} => r.st = "completed"
       /\ b.at = "finish" =>
            /\ b.out \in {"rejected", "lost"} => r.st = "submitting"
            /\ b.out \in {"running", "completed", "failed"} => r.st \in {"submitting", "running"}
            /\ b.out \in {"error", "paused"} => r.st \in {"running", "completed"}
            /\ b.out \in {"unsaved", "unstored", "saved"} => r.st = "completed"
            /\ b.out = "completed" => j[b.try] = "done"
            /\ b.out \in {"failed", "rejected"} => NotPaid(j[b.try])

\* Deleter d is at b of the task; f says whether its copy of the row is current.
DeleterFits(d, b, r, l, f) ==
  /\ b.at = "claim" /\ f => Done(r) /\ r.st # "none" /\ b.key = r.key /\ ~ b.expire
  /\ b.at \in {"erase", "drop"} =>
       /\ l \/ (r.owner = d /\ r.leased /\ Done(r))
       /\ r.st # "none"
       /\ r.owner = d =>
            /\ b.key = r.key /\ r.st # "submitting"
            /\ b.expire => r.st = "completed" /\ r.art \in {"ready", "expired"} /\ b.key

\* What a caller with a current copy has read.
CallerFits(b, r) == r.st = "failed" /\ ~ r.key /\ b.req \notin r.asked

Storing(b, t) == b.at = "finish" /\ b.t = t /\ b.out \in {"saved", "unstored"}
Dropping(b, t) == b.at = "drop" /\ b.t = t

\* The object of a task: named by the row or in the hands of its worker.
ObjectFits(t) ==
  /\ t \in stored => video[t].key \/ \E w \in Workers : Storing(vwork[w], t)
  /\ \A w \in Workers : Storing(vwork[w], t) /\ vwork[w].out = "saved" => t \in stored
  /\ \A d \in Deleters : Dropping(vdel[d], t) => t \notin stored
  /\ video[t].st = "completed" /\ video[t].art = "ready" /\ t \notin stored =>
       \E d \in Deleters : Dropping(vdel[d], t)

On(b, t) == b.at # "idle" /\ b.t = t

\* An attempt is sent by one worker, even when its lease has run out.
Sending(b, t) == b.at \in {"launch", "post"} /\ b.t = t
OneSender(t) == \A w, u \in Workers : Sending(vwork[w], t) /\ Sending(vwork[u], t) => w = u

TaskFits(t) ==
  /\ RowFits(video[t], job[t]) /\ OneSender(t)
  /\ \A w \in Workers :
       On(vwork[w], t) => WorkerFits(w, vwork[w], video[t], job[t], t \in late)
  /\ \A d \in Deleters :
       On(vdel[d], t) => DeleterFits(d, vdel[d], video[t], t \in late, d \in fresh)
  /\ \A c \in Callers : c \in fresh /\ vask[c].t = t => CallerFits(vask[c], video[t])
  /\ t \in late \cup cut \/ ObjectFits(t)

\* Copies are current only between the reading and the update.
FreshFits ==
  /\ \A d \in Deleters : d \in fresh => vdel[d].at = "claim"
  /\ \A c \in Callers : c \in fresh => vask[c].at = "read"

VideoInv == VideoTypeOK /\ FreshFits /\ \A t \in Tasks : TaskFits(t)

-----------------------------------------------------------------------------
(* The declared sets, by name.                                              *)

JobStates == {"none", "running", "done", "failed"}
JobRows == [Attempts -> JobStates]
WorkRows == [at : VideoWorkPoints, t : Tasks, try : Attempts, out : Outcomes]
AskRows == [at : {"idle", "read"}, t : Tasks, req : Requests]
DelRows == [at : {"idle", "claim", "erase", "drop"}, t : Tasks, expire : BOOLEAN, key : BOOLEAN]

VideoSets ==
  /\ video \in [Tasks -> VideoRows] /\ job \in [Tasks -> JobRows] /\ stored \in SUBSET Tasks
  /\ vwork \in [Workers -> WorkRows] /\ vask \in [Callers -> AskRows]
  /\ vdel \in [Deleters -> DelRows] /\ fresh \in SUBSET (Callers \cup Deleters)
  /\ late \in SUBSET Tasks /\ cut \in SUBSET Tasks /\ faults \in 0 .. MaxFaults

\* VideoTypeOK, in these names.
LEMMA VideoSetsType == (VideoTypeOK <=> VideoSets) /\ (VideoTypeOK' <=> VideoSets')
BY DEF VideoTypeOK, VideoSets, JobRows, JobStates, WorkRows, AskRows, DelRows

\* What a row of each kind consists of.
LEMMA RowSorts ==
  /\ \A r \in VideoRows :
       /\ r.st \in VideoStatuses /\ r.up \in 0 .. MaxRetries + 1 /\ r.owner \in Owners
       /\ r.art \in {"pending", "saving", "ready", "failed", "expired"}
       /\ r.paused \in BOOLEAN /\ r.key \in BOOLEAN /\ r.leased \in BOOLEAN
       /\ r.retries \in 0 .. MaxRetries /\ r.asked \in SUBSET Requests
  /\ \A b \in WorkRows : b.at \in VideoWorkPoints /\ b.t \in Tasks /\ b.try \in Attempts
                           /\ b.out \in Outcomes
  /\ \A b \in DelRows : b.at \in {"idle", "claim", "erase", "drop"} /\ b.t \in Tasks
                          /\ b.expire \in BOOLEAN /\ b.key \in BOOLEAN
  /\ \A b \in AskRows : b.at \in {"idle", "read"} /\ b.t \in Tasks /\ b.req \in Requests
BY DEF VideoRows, WorkRows, DelRows, AskRows

\* The idle rows.
LEMMA IdleVideoRows ==
  /\ VideoIdleWork \in WorkRows /\ VideoIdleWork.at = "idle"
  /\ VideoIdleAsk \in AskRows /\ VideoIdleAsk.at = "idle"
  /\ VideoIdleDel \in DelRows /\ VideoIdleDel.at = "idle"
<1>1. AnyTask \in Tasks
  BY MediaTasksAssumption DEF AnyTask
<1>2. AnyRequest \in Requests
  BY VideoRequestsAssumption DEF AnyRequest
<1>3. 1 \in Attempts
  BY MediaBoundsAssumption DEF Attempts
<1> QED
  BY <1>1, <1>2, <1>3 DEF VideoIdleWork, VideoIdleAsk, VideoIdleDel, WorkRows, AskRows, DelRows,
     VideoWorkPoints, Outcomes

\* Two rows that differ only in their lease.
SameTask(n, r) ==
  /\ n.st = r.st /\ n.up = r.up /\ n.art = r.art /\ n.paused = r.paused /\ n.key = r.key
  /\ n.retries = r.retries /\ n.asked = r.asked

\* Leases change nothing else.
LEMMA LeaseRows ==
  ASSUME NEW r \in VideoRows
  PROVE  /\ Unleased(r) \in VideoRows /\ SameTask(Unleased(r), r)
         /\ Unleased(r).owner = Nobody /\ ~ Unleased(r).leased
         /\ \A a \in Owners :
              /\ LeasedBy(r, a) \in VideoRows /\ SameTask(LeasedBy(r, a), r)
              /\ LeasedBy(r, a).owner = a /\ LeasedBy(r, a).leased
<1>1. Unleased(r) \in VideoRows /\ SameTask(Unleased(r), r)
       /\ Unleased(r).owner = Nobody /\ ~ Unleased(r).leased
  BY DEF Unleased, VideoRows, Owners, SameTask
<1>2. ASSUME NEW a \in Owners
      PROVE  /\ LeasedBy(r, a) \in VideoRows /\ SameTask(LeasedBy(r, a), r)
             /\ LeasedBy(r, a).owner = a /\ LeasedBy(r, a).leased
  BY DEF LeasedBy, VideoRows, SameTask
<1> QED
  BY <1>1, <1>2

-----------------------------------------------------------------------------
(* A step leaves the tasks alone that it is not about.                      *)

\* Task u, and whoever is at it, stay as they are.
Apart(u) ==
  /\ video'[u] = video[u] /\ job'[u] = job[u]
  /\ (u \in stored') = (u \in stored) /\ (u \in late') = (u \in late) /\ (u \in cut') = (u \in cut)
  /\ \A w \in Workers : vwork'[w] = vwork[w] \/ (~ On(vwork[w], u) /\ ~ On(vwork'[w], u))
  /\ \A d \in Deleters : vdel'[d] = vdel[d] \/ (~ On(vdel[d], u) /\ ~ On(vdel'[d], u))
  /\ \A d \in Deleters : On(vdel'[d], u) /\ d \in fresh' => d \in fresh
  /\ \A c \in Callers : vask'[c].t = u /\ c \in fresh' => c \in fresh /\ vask'[c] = vask[c]

\* Such a task stays fit.
LEMMA ApartFits ==
  ASSUME NEW u \in Tasks, TaskFits(u), Apart(u)
  PROVE  TaskFits(u)'
<1>1. RowFits(video[u], job[u])'
  BY DEF TaskFits, Apart
<1>2. ASSUME NEW w \in Workers, On(vwork'[w], u)
      PROVE  WorkerFits(w, vwork'[w], video'[u], job'[u], u \in late')
  BY <1>2 DEF TaskFits, Apart
<1>3. ASSUME NEW d \in Deleters, On(vdel'[d], u)
      PROVE  DeleterFits(d, vdel'[d], video'[u], u \in late', d \in fresh')
  BY <1>3 DEF TaskFits, Apart, DeleterFits
<1>4. ASSUME NEW c \in Callers, c \in fresh', vask'[c].t = u
      PROVE  CallerFits(vask'[c], video'[u])
  BY <1>4 DEF TaskFits, Apart
<1>5. OneSender(u)'
  <2>1. \A w \in Workers : Sending(vwork'[w], u) => Sending(vwork[w], u)
    BY DEF Apart, On, Sending
  <2> QED
    BY <2>1 DEF TaskFits, OneSender
<1>6. u \in late' \cup cut' \/ ObjectFits(u)'
  <2> SUFFICES ASSUME ObjectFits(u) PROVE ObjectFits(u)'
    BY DEF TaskFits, Apart
  <2>1. \A w \in Workers : Storing(vwork'[w], u) <=> Storing(vwork[w], u)
    BY DEF Apart, On, Storing
  <2>2. \A w \in Workers : Storing(vwork'[w], u) => vwork'[w] = vwork[w]
    BY DEF Apart, On, Storing
  <2>3. \A d \in Deleters : Dropping(vdel'[d], u) <=> Dropping(vdel[d], u)
    BY DEF Apart, On, Dropping
  <2> QED
    BY <2>1, <2>2, <2>3 DEF ObjectFits, Apart
<1> QED
  BY <1>1, <1>2, <1>3, <1>4, <1>6, <1>5 DEF TaskFits

\* So a step has to be examined for one task only.
LEMMA OneTaskStep ==
  ASSUME VideoInv, VideoSets', FreshFits', NEW t \in Tasks, TaskFits(t)',
         \A u \in Tasks \ {t} : Apart(u)
  PROVE  VideoInv'
<1>1. ASSUME NEW u \in Tasks PROVE TaskFits(u)'
  <2>1. CASE u = t
    BY <2>1
  <2>2. CASE u # t
    BY <2>2, ApartFits DEF VideoInv
  <2> QED
    BY <2>1, <2>2
<1> QED
  BY <1>1, VideoSetsType DEF VideoInv

-----------------------------------------------------------------------------
(* A worker that does not touch the row.                                    *)

\* Worker w goes on to x; the jobs of its task become k.
LEMMA WorkerGoesOn ==
  ASSUME VideoInv, NEW w \in Workers, NEW x \in WorkRows, NEW t \in Tasks, NEW k \in JobRows,
         On(vwork[w], t), On(x, t),
         vwork' = [vwork EXCEPT ![w] = x], job' = [job EXCEPT ![t] = k],
         stored' \in {stored, stored \cup {t}}, UNCHANGED <<video, vask, vdel, fresh, videoHistory>>,
         RowFits(video[t], k),
         WorkerFits(w, x, video[t], k, t \in late),
         \A u \in Workers \ {w} :
           On(vwork[u], t) => WorkerFits(u, vwork[u], video[t], k, t \in late),
         Sending(x, t) => Sending(vwork[w], t),
         t \in stored' /\ t \notin stored => Storing(x, t) /\ vwork[w].at = "put",
         Storing(x, t) /\ x.out = "saved" => t \in stored',
         ~ Storing(vwork[w], t)
  PROVE  VideoInv'
<1> USE DEF videoHistory
<1>1. VideoSets /\ TaskFits(t) /\ FreshFits
  BY VideoSetsType DEF VideoInv
<1>2. VideoSets'
  BY <1>1 DEF VideoSets
<1>3. FreshFits'
  BY <1>1 DEF FreshFits
<1>4. video'[t] = video[t] /\ job'[t] = k /\ vwork'[w] = x
      /\ (\A u \in Workers \ {w} : vwork'[u] = vwork[u])
      /\ \A u \in Tasks \ {t} : job'[u] = job[u]
  BY <1>1 DEF VideoSets
<1>5. ASSUME NEW u \in Tasks \ {t} PROVE Apart(u)
  BY <1>1, <1>4 DEF Apart, On
<1>6. TaskFits(t)'
  <2>1. RowFits(video'[t], job'[t])
    BY <1>4
  <2>2. ASSUME NEW u \in Workers, On(vwork'[u], t)
        PROVE  WorkerFits(u, vwork'[u], video'[t], job'[t], t \in late')
    BY <1>4, <2>2
  <2>3. \A d \in Deleters :
          On(vdel'[d], t) => DeleterFits(d, vdel'[d], video'[t], t \in late', d \in fresh')
    BY <1>1, <1>4 DEF TaskFits
  <2>4. \A c \in Callers : c \in fresh' /\ vask'[c].t = t => CallerFits(vask'[c], video'[t])
    BY <1>1, <1>4 DEF TaskFits
  <2>5. t \in late' \cup cut' \/ ObjectFits(t)'
    <3> SUFFICES ASSUME t \notin late \cup cut PROVE ObjectFits(t)'
      OBVIOUS
    <3>1. ObjectFits(t)
      BY <1>1 DEF TaskFits
    <3>2. t \in stored' => video'[t].key \/ \E u \in Workers : Storing(vwork'[u], t)
      BY <1>4, <3>1 DEF ObjectFits
    <3>3. \A u \in Workers : Storing(vwork'[u], t) /\ vwork'[u].out = "saved" => t \in stored'
      BY <1>4, <3>1 DEF ObjectFits
    <3>4. \A d \in Deleters : Dropping(vdel'[d], t) => t \notin stored'
      <4> SUFFICES ASSUME NEW d \in Deleters, Dropping(vdel[d], t), t \in stored' PROVE FALSE
        OBVIOUS
      <4>1. vwork[w].at = "put" /\ t \notin stored
        BY <3>1 DEF ObjectFits
      <4>2. video[t].owner = w
        BY <1>1 DEF TaskFits, WorkerFits, On
      <4>3. video[t].owner = d
        BY <1>1 DEF TaskFits, DeleterFits, On, Dropping
      <4> QED
        BY <4>2, <4>3, MediaActorsAssumption
    <3>5. video'[t].st = "completed" /\ video'[t].art = "ready" /\ t \notin stored' =>
            \E d \in Deleters : Dropping(vdel'[d], t)
      BY <1>4, <3>1 DEF ObjectFits
    <3> QED
      BY <3>2, <3>3, <3>4, <3>5 DEF ObjectFits
  <2>6. OneSender(t)'
    <3>1. \A u \in Workers : Sending(vwork'[u], t) => Sending(vwork[u], t)
      BY <1>4
    <3> QED
      BY <1>1, <3>1 DEF TaskFits, OneSender
  <2> QED
    BY <2>1, <2>2, <2>3, <2>4, <2>5, <2>6 DEF TaskFits
<1> QED
  BY <1>2, <1>3, <1>5, <1>6, OneTaskStep

\* How workers move.
LEMMA WorkMoves ==
  ASSUME VideoSets, NEW w \in Workers
  PROVE  /\ \A l \in VideoWorkPoints : VideoAt(w, l) =>
              \E x \in WorkRows : /\ vwork' = [vwork EXCEPT ![w] = x] /\ x.at = l
                                  /\ x.t = vwork[w].t /\ x.try = vwork[w].try
                                  /\ x.out = vwork[w].out
         /\ \A o \in Outcomes : Result(w, o) =>
              \E x \in WorkRows : /\ vwork' = [vwork EXCEPT ![w] = x] /\ x.at = "finish"
                                  /\ x.t = vwork[w].t /\ x.try = vwork[w].try /\ x.out = o
<1>1. vwork[w] \in WorkRows
  BY DEF VideoSets
<1>2. ASSUME NEW l \in VideoWorkPoints, VideoAt(w, l)
      PROVE  \E x \in WorkRows : /\ vwork' = [vwork EXCEPT ![w] = x] /\ x.at = l
                                 /\ x.t = vwork[w].t /\ x.try = vwork[w].try
                                 /\ x.out = vwork[w].out
  <2> DEFINE x == [vwork[w] EXCEPT !.at = l]
  <2>1. x \in WorkRows /\ x.at = l /\ x.t = vwork[w].t /\ x.try = vwork[w].try
        /\ x.out = vwork[w].out
    BY <1>1 DEF WorkRows
  <2>2. vwork' = [vwork EXCEPT ![w] = x]
    BY <1>2, Zenon DEF VideoAt
  <2> QED
    BY <2>1, <2>2
<1>3. ASSUME NEW o \in Outcomes, Result(w, o)
      PROVE  \E x \in WorkRows : /\ vwork' = [vwork EXCEPT ![w] = x] /\ x.at = "finish"
                                 /\ x.t = vwork[w].t /\ x.try = vwork[w].try /\ x.out = o
  <2> DEFINE x == [vwork[w] EXCEPT !.at = "finish", !.out = o]
  <2>1. x \in WorkRows /\ x.at = "finish" /\ x.t = vwork[w].t /\ x.try = vwork[w].try /\ x.out = o
    BY <1>1 DEF WorkRows, VideoWorkPoints
  <2>2. vwork' = [vwork EXCEPT ![w] = x]
    BY <1>3, Zenon DEF Result
  <2> QED
    BY <2>1, <2>2
<1> QED
  BY <1>2, <1>3

\* What a worker that is not idle may rely on.
LEMMA AtWork ==
  ASSUME VideoInv, NEW w \in Workers, vwork[w].at # "idle"
  PROVE  /\ vwork[w] \in WorkRows /\ vwork[w].t \in Tasks /\ video[vwork[w].t] \in VideoRows
         /\ job[vwork[w].t] \in JobRows /\ On(vwork[w], vwork[w].t)
         /\ RowFits(video[vwork[w].t], job[vwork[w].t])
         /\ \A u \in Workers : On(vwork[u], vwork[w].t) =>
              WorkerFits(u, vwork[u], video[vwork[w].t], job[vwork[w].t], vwork[w].t \in late)
<1>1. VideoSets
  BY VideoSetsType DEF VideoInv
<1>2. vwork[w] \in WorkRows /\ vwork[w].t \in Tasks
  BY <1>1, RowSorts DEF VideoSets
<1>3. TaskFits(vwork[w].t)
  BY <1>2 DEF VideoInv
<1> QED
  BY <1>1, <1>2, <1>3 DEF TaskFits, VideoSets, On

\* Worker w goes on to x, and nothing else happens.
LEMMA WorkerOnly ==
  ASSUME VideoInv, NEW w \in Workers, vwork[w].at # "idle", NEW x \in WorkRows,
         x.at # "idle", x.t = vwork[w].t,
         vwork' = [vwork EXCEPT ![w] = x],
         UNCHANGED <<video, job, stored, vask, vdel, fresh, videoHistory>>,
         WorkerFits(w, x, video[x.t], job[x.t], x.t \in late),
         x.at \in {"launch", "post"} => vwork[w].at \in {"launch", "post"},
         x.at = "finish" => x.out # "saved",
         vwork[w].at # "finish"
  PROVE  VideoInv'
<1> DEFINE t == x.t
           k == job[t]
<1>1. t \in Tasks /\ k \in JobRows /\ On(vwork[w], t) /\ On(x, t) /\ RowFits(video[t], k)
      /\ \A u \in Workers : On(vwork[u], t) => WorkerFits(u, vwork[u], video[t], k, t \in late)
  BY AtWork DEF On
<1>2. VideoSets
  BY VideoSetsType DEF VideoInv
<1>3. job' = [job EXCEPT ![t] = k]
  BY <1>1, <1>2 DEF VideoSets
<1>4. ~ Storing(vwork[w], t) /\ ~ (Storing(x, t) /\ x.out = "saved")
      /\ (Sending(x, t) => Sending(vwork[w], t))
  BY DEF Storing, Sending
<1> HIDE DEF t, k
<1>5. WorkerFits(w, x, video[t], k, t \in late)
  BY DEF t, k
<1>6. \A u \in Workers \ {w} :
           On(vwork[u], t) => WorkerFits(u, vwork[u], video[t], k, t \in late)
  BY <1>1
<1> QED
  BY <1>1, <1>3, <1>4, <1>5, <1>6, WorkerGoesOn

\* Steps of a worker between its requests.
LEMMA WorkerQuietSteps ==
  ASSUME VideoInv, NEW w \in Workers,
         Launch(w) \/ Query(w) \/ GiveUp(w) \/ Unreadable(w) \/ SaveFails(w) \/ Fetch(w)
  PROVE  VideoInv'
<1> DEFINE b == vwork[w]
           t == b.t
           r == video[t]
           j == job[t]
<1>1. VideoSets
  BY VideoSetsType DEF VideoInv
<1>2. b.at # "idle"
  BY DEF Launch, Query, GiveUp, Unreadable, SaveFails, Fetch
<1>3. /\ b \in WorkRows /\ t \in Tasks /\ r \in VideoRows /\ j \in JobRows
      /\ RowFits(r, j) /\ WorkerFits(w, b, r, j, t \in late)
  BY <1>2, AtWork
<1>4. UNCHANGED <<video, job, stored, vask, vdel, fresh, videoHistory>>
  BY DEF Launch, Query, GiveUp, Unreadable, SaveFails, Fetch
<1> SUFFICES \E x \in WorkRows :
       /\ x.at # "idle" /\ x.t = t /\ vwork' = [vwork EXCEPT ![w] = x]
       /\ WorkerFits(w, x, r, j, t \in late)
       /\ x.at \in {"launch", "post"} => b.at \in {"launch", "post"}
       /\ x.at = "finish" => x.out # "saved"
       /\ b.at # "finish"
  BY <1>2, <1>4, WorkerOnly
<1>5. r.st \in VideoStatuses /\ b.try \in Attempts /\ r.retries \in 0 .. MaxRetries
  BY <1>3, RowSorts
<1>j. \A a \in Attempts : j[a] \in JobStates
  BY <1>3 DEF JobRows
<1>6. CASE Launch(w)
  <2>1. CASE VideoAt(w, "post")
    <3>1. PICK x \in WorkRows : /\ vwork' = [vwork EXCEPT ![w] = x] /\ x.at = "post"
                                /\ x.t = t /\ x.try = b.try
      BY <2>1, <1>1, WorkMoves DEF VideoWorkPoints
    <3> QED
      BY <3>1, <1>3, <1>6 DEF WorkerFits, Launch
  <2>2. CASE Result(w, "rejected")
    <3>1. PICK x \in WorkRows : /\ vwork' = [vwork EXCEPT ![w] = x] /\ x.at = "finish"
                                /\ x.t = t /\ x.try = b.try /\ x.out = "rejected"
      BY <2>2, <1>1, WorkMoves DEF Outcomes
    <3> QED
      BY <3>1, <1>3, <1>6 DEF WorkerFits, Launch
  <2> QED
    BY <1>6, <2>1, <2>2 DEF Launch
<1>7. CASE Query(w)
  <2>1. CASE j[b.try] # "none" /\ Result(w, Seen(j[b.try]))
    <3>1. j[b.try] \in {"running", "done", "failed"}
      BY <1>5, <1>j, <2>1 DEF JobStates
    <3>2. Seen(j[b.try]) = CASE j[b.try] = "running" -> "running" [] j[b.try] = "done" -> "completed"
                             [] j[b.try] = "failed" -> "failed"
      BY DEF Seen
    <3>3. PICK o : o = Seen(j[b.try])
      OBVIOUS
    <3>4. /\ o \in {"running", "completed", "failed"} /\ o \in Outcomes
          /\ o = "completed" => j[b.try] = "done"
          /\ o = "failed" => j[b.try] = "failed"
      BY <3>1, <3>2, <3>3 DEF Outcomes
    <3>5. PICK x \in WorkRows : /\ vwork' = [vwork EXCEPT ![w] = x] /\ x.at = "finish"
                                /\ x.t = t /\ x.try = b.try /\ x.out = o
      BY <2>1, <3>3, <3>4, <1>1, WorkMoves
    <3> QED
      BY <3>4, <3>5, <1>3, <1>7 DEF WorkerFits, Query, NotPaid
  <2>2. CASE Result(w, "error")
    <3>1. PICK x \in WorkRows : /\ vwork' = [vwork EXCEPT ![w] = x] /\ x.at = "finish"
                                /\ x.t = t /\ x.try = b.try /\ x.out = "error"
      BY <2>2, <1>1, WorkMoves DEF Outcomes
    <3> QED
      BY <3>1, <1>3, <1>7 DEF WorkerFits, Query
  <2> QED
    BY <1>7, <2>1, <2>2 DEF Query
<1>8. CASE GiveUp(w) \/ Unreadable(w)
  <2>1. b.at \in {"query", "reserve"} /\ Result(w, "paused")
    BY <1>8 DEF GiveUp, Unreadable
  <2>2. PICK x \in WorkRows : /\ vwork' = [vwork EXCEPT ![w] = x] /\ x.at = "finish"
                              /\ x.t = t /\ x.try = b.try /\ x.out = "paused"
    BY <2>1, <1>1, WorkMoves DEF Outcomes
  <2> QED
    BY <2>1, <2>2, <1>3 DEF WorkerFits
<1>9. CASE SaveFails(w)
  <2>1. PICK x \in WorkRows : /\ vwork' = [vwork EXCEPT ![w] = x] /\ x.at = "finish"
                              /\ x.t = t /\ x.try = b.try /\ x.out = "unsaved"
    BY <1>9, <1>1, WorkMoves DEF Outcomes, SaveFails
  <2> QED
    BY <2>1, <1>3, <1>9 DEF WorkerFits, SaveFails
<1>10. CASE Fetch(w)
  <2>1. PICK x \in WorkRows : /\ vwork' = [vwork EXCEPT ![w] = x] /\ x.at = "put"
                              /\ x.t = t /\ x.try = b.try
    BY <1>10, <1>1, WorkMoves DEF VideoWorkPoints, Fetch
  <2> QED
    BY <2>1, <1>3, <1>10 DEF WorkerFits, Fetch
<1> QED
  BY <1>6, <1>7, <1>8, <1>9, <1>10

\* The upstream accepts the request, or a result is stored: the jobs and objects of
\* the task change with its worker.
LEMMA WorkerRequests ==
  ASSUME VideoInv, NEW w \in Workers, PostVideo(w) \/ Put(w)
  PROVE  VideoInv'
<1> DEFINE b == vwork[w]
           t == b.t
           r == video[t]
           j == job[t]
<1>1. VideoSets
  BY VideoSetsType DEF VideoInv
<1>2. b.at # "idle"
  BY DEF PostVideo, Put
<1>3. /\ b \in WorkRows /\ t \in Tasks /\ r \in VideoRows /\ j \in JobRows /\ On(b, t)
      /\ RowFits(r, j)
      /\ \A u \in Workers : On(vwork[u], t) => WorkerFits(u, vwork[u], r, j, t \in late)
  BY <1>2, AtWork
<1>4. WorkerFits(w, b, r, j, t \in late)
  BY <1>3
<1>5. r.st \in VideoStatuses /\ b.try \in Attempts /\ r.retries \in 0 .. MaxRetries
  BY <1>3, RowSorts
<1>6. CASE PostVideo(w)
  <2>1. b.at = "post" /\ UNCHANGED <<video, stored, vask, vdel, fresh, videoHistory>>
    BY <1>6 DEF PostVideo
  <2>2. b.try = r.retries + 1 /\ NotPaid(j[b.try]) /\ r.st \in {"submitting", "unknown", "deleted"}
        /\ (r.st = "submitting" => r.owner = w)
    BY <1>4, <2>1 DEF WorkerFits
  <2>3. ASSUME NEW s \in JobStates, NEW o \in Outcomes, job' = [job EXCEPT ![t][b.try] = s],
               Result(w, o), o \in {"lost", "rejected", "running", "completed", "failed"},
               o = "completed" => s = "done",
               o \in {"failed", "rejected"} => NotPaid(s)
        PROVE  VideoInv'
    <3> DEFINE k == [j EXCEPT ![b.try] = s]
    <3>1. k \in JobRows /\ k[b.try] = s /\ \A a \in Attempts : a # b.try => k[a] = j[a]
      BY <1>3, <1>5 DEF JobRows
    <3>2. job' = [job EXCEPT ![t] = k]
      BY <2>3, Zenon
    <3> HIDE DEF k
    <3>3. PICK x \in WorkRows : /\ vwork' = [vwork EXCEPT ![w] = x] /\ x.at = "finish"
                                /\ x.t = t /\ x.try = b.try /\ x.out = o
      BY <1>1, <2>3, WorkMoves
    <3>4. RowFits(r, k)
      BY <1>3, <2>2, <3>1 DEF RowFits
    <3>5. WorkerFits(w, x, r, k, t \in late)
      BY <1>4, <2>1, <2>2, <2>3, <3>1, <3>3 DEF WorkerFits
    <3>6. ASSUME NEW u \in Workers \ {w}, On(vwork[u], t)
          PROVE  WorkerFits(u, vwork[u], r, k, t \in late)
      <4>1. WorkerFits(u, vwork[u], r, j, t \in late)
        BY <1>3, <3>6
      <4>2. vwork[u].at \notin {"launch", "post"}
        <5>1. OneSender(t)
          BY <1>3 DEF VideoInv, TaskFits
        <5> QED
          BY <5>1, <2>1, <3>6 DEF OneSender, Sending, On
      <4>3. r.owner # u
        BY <2>2, <4>1 DEF WorkerFits
      <4> QED
        BY <4>1, <4>2, <4>3 DEF WorkerFits
    <3>7. On(x, t) /\ ~ Sending(x, t) /\ ~ Storing(x, t) /\ ~ Storing(b, t)
      BY <2>1, <2>3, <3>3 DEF On, Sending, Storing
    <3>8. VideoInv /\ stored' = stored
      BY <2>1
    <3> QED
      BY <1>3, <2>1, <3>1, <3>2, <3>3, <3>4, <3>5, <3>6, <3>7, <3>8, WorkerGoesOn
  <2>4. CASE \E s \in {"running", "done", "failed"} : Accepted(w, s) /\ Result(w, Seen(s))
    <3>1. PICK s \in {"running", "done", "failed"} : Accepted(w, s) /\ Result(w, Seen(s))
      BY <2>4
    <3>2. Seen(s) \in {"running", "completed", "failed"} /\ (Seen(s) = "completed" => s = "done")
          /\ (Seen(s) = "failed" => s = "failed") /\ s \in JobStates
      BY DEF Seen, JobStates
    <3>3. job' = [job EXCEPT ![t][b.try] = s]
      BY <3>1 DEF Accepted
    <3> QED
      BY <2>3, <3>1, <3>2, <3>3 DEF Outcomes, NotPaid
  <2>5. CASE Accepted(w, "running") /\ Result(w, "lost")
    BY <2>3, <2>5 DEF Accepted, Outcomes, JobStates, NotPaid
  <2>6. CASE UNCHANGED job /\ (Result(w, "rejected") \/ Result(w, "lost"))
    <3>1. job' = [job EXCEPT ![t][b.try] = j[b.try]] /\ j[b.try] \in JobStates
      <4>1. j = [j EXCEPT ![b.try] = j[b.try]] /\ j[b.try] \in JobStates
        BY <1>3, <1>5 DEF JobRows
      <4>2. job = [job EXCEPT ![t] = j]
        BY <1>1, <1>3 DEF VideoSets
      <4> QED
        BY <2>6, <4>1, <4>2, Zenon
    <3> QED
      BY <2>2, <2>3, <2>6, <3>1 DEF Outcomes
  <2> QED
    BY <1>6, <2>4, <2>5, <2>6 DEF PostVideo
<1>7. CASE Put(w)
  <2>1. b.at = "put" /\ UNCHANGED <<video, job, vask, vdel, fresh, videoHistory>>
    BY <1>7 DEF Put
  <2>2. PICK o \in {"saved", "unstored"} :
          Result(w, o) /\ stored' \in {stored, stored \cup {t}} /\ (o = "saved" => t \in stored')
    BY <1>7 DEF Put
  <2>3. PICK x \in WorkRows : /\ vwork' = [vwork EXCEPT ![w] = x] /\ x.at = "finish"
                              /\ x.t = t /\ x.try = b.try /\ x.out = o
    BY <1>1, <2>2, WorkMoves DEF Outcomes
  <2>4. job' = [job EXCEPT ![t] = j]
    BY <1>1, <1>3, <2>1 DEF VideoSets
  <2>5. WorkerFits(w, x, r, j, t \in late)
    BY <1>4, <2>1, <2>2, <2>3 DEF WorkerFits
  <2>6. On(x, t) /\ ~ Sending(x, t) /\ ~ Storing(b, t) /\ Storing(x, t)
    BY <2>1, <2>2, <2>3 DEF On, Sending, Storing
  <2> QED
    BY <1>3, <2>1, <2>2, <2>3, <2>4, <2>5, <2>6, WorkerGoesOn
<1> QED
  BY <1>6, <1>7

-----------------------------------------------------------------------------
(* Updates of a row.                                                        *)

\* An update of row t makes the copies of it stale; what has to be shown is that
\* the new row n suits whoever is at the task afterwards.
LEMMA RowWritten ==
  ASSUME VideoInv, NEW t \in Tasks, NEW n \in VideoRows, SetVideo(t, n),
         UNCHANGED <<job, stored, videoHistory>>,
         vwork' \in [Workers -> WorkRows], vask' \in [Callers -> AskRows],
         vdel' \in [Deleters -> DelRows],
         \A w \in Workers : vwork'[w] = vwork[w] \/ \A u \in Tasks \ {t} : ~ On(vwork[w], u) /\ ~ On(vwork'[w], u),
         \A d \in Deleters : vdel'[d] = vdel[d] \/ \A u \in Tasks \ {t} : ~ On(vdel[d], u) /\ ~ On(vdel'[d], u),
         \A d \in Deleters : d \in fresh' => vdel'[d] = vdel[d],
         \A c \in Callers : c \in fresh' => vask'[c] = vask[c],
         RowFits(n, job[t]), OneSender(t)',
         \A w \in Workers : On(vwork'[w], t) => WorkerFits(w, vwork'[w], n, job[t], t \in late),
         \A d \in Deleters : On(vdel'[d], t) => DeleterFits(d, vdel'[d], n, t \in late, FALSE),
         t \in late \cup cut \/ ObjectFits(t)'
  PROVE  VideoInv'
<1> USE DEF videoHistory
<1>1. VideoSets /\ FreshFits
  BY VideoSetsType DEF VideoInv
<1>2. video'[t] = n /\ (\A u \in Tasks \ {t} : video'[u] = video[u]) /\ video' \in [Tasks -> VideoRows]
  BY <1>1 DEF SetVideo, VideoSets
<1>3. fresh' = fresh \ ReadersOf(t)
  BY DEF SetVideo
<1>4. VideoSets'
  BY <1>1, <1>2, <1>3 DEF VideoSets
<1>5. FreshFits'
  BY <1>1, <1>3 DEF FreshFits
<1>6. ASSUME NEW u \in Tasks \ {t} PROVE Apart(u)
  BY <1>2, <1>3 DEF Apart
<1>7. TaskFits(t)'
  <2>1. RowFits(video'[t], job'[t])
    BY <1>2
  <2>2. \A w \in Workers :
          On(vwork'[w], t) => WorkerFits(w, vwork'[w], video'[t], job'[t], t \in late')
    BY <1>2
  <2>3. ASSUME NEW d \in Deleters, On(vdel'[d], t)
        PROVE  DeleterFits(d, vdel'[d], video'[t], t \in late', d \in fresh')
    <3>1. d \notin fresh'
      BY <1>3, <2>3 DEF ReadersOf, On
    <3> QED
      BY <1>2, <2>3, <3>1 DEF DeleterFits
  <2>4. ASSUME NEW c \in Callers, c \in fresh', vask'[c].t = t PROVE FALSE
    BY <1>3, <2>4 DEF ReadersOf
  <2>5. t \in late' \cup cut' \/ ObjectFits(t)'
    OBVIOUS
  <2> QED
    BY <2>1, <2>2, <2>3, <2>4, <2>5 DEF TaskFits
<1> QED
  BY <1>4, <1>5, <1>6, <1>7, OneTaskStep

\* A worker whose row somebody else has taken only has to find out.
LEMMA Bystander ==
  ASSUME NEW w, NEW b, NEW r, NEW n, NEW j, NEW l, WorkerFits(w, b, r, j, l),
         ~ (r.owner = w /\ r.leased), n.owner # w, n.st # "none",
         b.at \in {"launch", "post"} => n.retries = r.retries /\ n.st \in {"unknown", "deleted"}
  PROVE  WorkerFits(w, b, n, j, l)
BY DEF WorkerFits

\* The same of a deleter.
LEMMA DeleterBystander ==
  ASSUME NEW d, NEW b, NEW r, NEW n, NEW l, NEW f, DeleterFits(d, b, r, l, f),
         ~ (r.owner = d /\ r.leased), n.owner # d, n.st # "none"
  PROVE  DeleterFits(d, b, n, l, FALSE)
BY DEF DeleterFits

\* A row that says nothing of a file, and did not before, leaves the object as it
\* was accounted for.
LEMMA ObjectStays ==
  ASSUME NEW t \in Tasks, ObjectFits(t), UNCHANGED stored,
         video[t].key => video'[t].key,
         \A w \in Workers : Storing(vwork'[w], t) => vwork'[w] = vwork[w],
         \A w \in Workers : Storing(vwork[w], t) => vwork'[w] = vwork[w] \/ video'[t].key,
         \A d \in Deleters : Dropping(vdel'[d], t) => Dropping(vdel[d], t),
         video'[t].st = "completed" /\ video'[t].art = "ready" /\ t \notin stored =>
           \E d \in Deleters : Dropping(vdel'[d], t)
  PROVE  ObjectFits(t)'
<1>1. t \in stored' => video'[t].key \/ \E w \in Workers : Storing(vwork'[w], t)
  BY DEF ObjectFits
<1>2. \A w \in Workers : Storing(vwork'[w], t) /\ vwork'[w].out = "saved" => t \in stored'
  BY DEF ObjectFits
<1>3. \A d \in Deleters : Dropping(vdel'[d], t) => t \notin stored'
  BY DEF ObjectFits
<1> QED
  BY <1>1, <1>2, <1>3 DEF ObjectFits

\* Task t as a step finds it.
LEMMA TaskFacts ==
  ASSUME VideoInv, NEW t \in Tasks
  PROVE  /\ VideoSets /\ FreshFits /\ video[t] \in VideoRows /\ job[t] \in JobRows
         /\ RowFits(video[t], job[t]) /\ OneSender(t)
         /\ video[t].retries \in 0 .. MaxRetries /\ video[t].up \in 0 .. MaxRetries + 1
         /\ \A w \in Workers :
              On(vwork[w], t) => WorkerFits(w, vwork[w], video[t], job[t], t \in late)
         /\ \A d \in Deleters :
              On(vdel[d], t) => DeleterFits(d, vdel[d], video[t], t \in late, d \in fresh)
         /\ \A c \in Callers : c \in fresh /\ vask[c].t = t => CallerFits(vask[c], video[t])
         /\ t \notin late \cup cut => ObjectFits(t)
<1>1. VideoSets /\ TaskFits(t)
  BY VideoSetsType DEF VideoInv
<1>2. video[t] \in VideoRows /\ job[t] \in JobRows
  BY <1>1 DEF VideoSets
<1> QED
  BY <1>1, <1>2, RowSorts DEF TaskFits, VideoInv

-----------------------------------------------------------------------------
(* Updates by nobody in particular.                                         *)

\* The row changes under whoever holds an expired lease.
LEMMA RowsRecover ==
  ASSUME VideoInv, NEW t \in Tasks,
         RecoverSubmitting(t) \/ Reconcile(t) \/ Resume(t) \/ RetryDownload(t)
  PROVE  VideoInv'
<1> DEFINE r == video[t]
           j == job[t]
<1>1. /\ VideoSets /\ FreshFits /\ r \in VideoRows /\ j \in JobRows /\ RowFits(r, j) /\ OneSender(t)
      /\ r.retries \in 0 .. MaxRetries
      /\ \A w \in Workers : On(vwork[w], t) => WorkerFits(w, vwork[w], r, j, t \in late)
      /\ \A d \in Deleters :
           On(vdel[d], t) => DeleterFits(d, vdel[d], r, t \in late, d \in fresh)
      /\ t \notin late \cup cut => ObjectFits(t)
  BY TaskFacts
<1>2. UNCHANGED <<job, stored, videoHistory>> /\ UNCHANGED <<vwork, vask, vdel>>
  BY DEF RecoverSubmitting, Reconcile, Resume, RetryDownload, videoActors
<1>3. ASSUME NEW n \in VideoRows, SetVideo(t, n), RowFits(n, j), n.key = r.key,
             \A w \in Workers : On(vwork[w], t) => WorkerFits(w, vwork[w], n, j, t \in late),
             \A d \in Deleters : On(vdel[d], t) => DeleterFits(d, vdel[d], n, t \in late, FALSE),
             n.st = "completed" => n.art # "ready" \/ (r.st = "completed" /\ r.art = "ready")
      PROVE  VideoInv'
  <2>1. video'[t] = n
    BY <1>1, <1>3 DEF SetVideo, VideoSets
  <2>2. OneSender(t)'
    BY <1>1, <1>2 DEF OneSender
  <2>3. t \in late \cup cut \/ ObjectFits(t)'
    <3> SUFFICES ASSUME ObjectFits(t) PROVE ObjectFits(t)'
      BY <1>1
    <3>1. video'[t].st = "completed" /\ video'[t].art = "ready" /\ t \notin stored =>
            \E d \in Deleters : Dropping(vdel'[d], t)
      BY <1>2, <1>3, <2>1 DEF ObjectFits
    <3> QED
      BY <1>2, <1>3, <2>1, <3>1, ObjectStays
  <2> QED
    BY <1>1, <1>2, <1>3, <2>2, <2>3, RowWritten DEF VideoSets
<1>4. CASE RecoverSubmitting(t)
  <2> DEFINE m == [r EXCEPT !.st = "unknown"]
             n == Unleased(m)
  <2>1. m \in VideoRows /\ m.st = "unknown" /\ m.retries = r.retries /\ m.asked = r.asked /\ m.key = r.key
        /\ m.paused = r.paused
    BY <1>1 DEF VideoRows, VideoStatuses
  <2>2. n \in VideoRows /\ SameTask(n, m) /\ n.owner = Nobody /\ ~ n.leased
    BY <2>1, LeaseRows
  <2>3. SetVideo(t, n) /\ r.st = "submitting" /\ ~ r.leased
    BY <1>4 DEF RecoverSubmitting
  <2> HIDE DEF m, n
  <2>4. RowFits(n, j)
    BY <1>1, <2>1, <2>2, <2>3 DEF RowFits, SameTask
  <2>5. \A w \in Workers : On(vwork[w], t) => WorkerFits(w, vwork[w], n, j, t \in late)
    BY <1>1, <2>1, <2>2, <2>3, Bystander, MediaActorsAssumption DEF SameTask
  <2>6. \A d \in Deleters : On(vdel[d], t) => DeleterFits(d, vdel[d], n, t \in late, FALSE)
    BY <1>1, <2>1, <2>2, <2>3, DeleterBystander, MediaActorsAssumption DEF SameTask
  <2> QED
    BY <1>3, <2>1, <2>2, <2>3, <2>4, <2>5, <2>6 DEF SameTask
<1>5. CASE Reconcile(t)
  <2> DEFINE n == [r EXCEPT !.st = "failed", !.leased = FALSE]
  <2>1. /\ n \in VideoRows /\ n.st = "failed" /\ n.retries = r.retries /\ n.asked = r.asked
        /\ n.key = r.key /\ n.paused = r.paused /\ n.owner = r.owner
    BY <1>1 DEF VideoRows, VideoStatuses
  <2>2. SetVideo(t, n) /\ r.st = "misfiled" /\ r.owner = Nobody
    BY <1>5 DEF Reconcile
  <2> HIDE DEF n
  <2>3. RowFits(n, j)
    BY <1>1, <2>1, <2>2 DEF RowFits
  <2>4. ASSUME NEW w \in Workers, On(vwork[w], t) PROVE WorkerFits(w, vwork[w], n, j, t \in late)
    <3>1. vwork[w].at \notin {"launch", "post"}
      BY <1>1, <2>2, <2>4 DEF WorkerFits
    <3> QED
      BY <1>1, <2>1, <2>2, <2>4, <3>1, Bystander, MediaActorsAssumption
  <2>5. \A d \in Deleters : On(vdel[d], t) => DeleterFits(d, vdel[d], n, t \in late, FALSE)
    BY <1>1, <2>1, <2>2, DeleterBystander, MediaActorsAssumption
  <2> QED
    BY <1>3, <2>1, <2>2, <2>3, <2>4, <2>5
<1>6. CASE Resume(t)
  <2> DEFINE n == [r EXCEPT !.paused = FALSE]
  <2>1. /\ n \in VideoRows /\ n.st = r.st /\ n.retries = r.retries /\ n.asked = r.asked
        /\ n.key = r.key /\ n.paused = FALSE /\ n.owner = r.owner /\ n.leased = r.leased
        /\ n.art = r.art /\ n.up = r.up
    BY <1>1 DEF VideoRows
  <2>2. SetVideo(t, n) /\ r.paused /\ ~ r.leased
    BY <1>6 DEF Resume
  <2> HIDE DEF n
  <2>3. RowFits(n, j)
    BY <1>1, <2>1, <2>2 DEF RowFits
  <2>4. \A w \in Workers : On(vwork[w], t) => WorkerFits(w, vwork[w], n, j, t \in late)
    BY <1>1, <2>1, <2>2 DEF WorkerFits
  <2>5. \A d \in Deleters : On(vdel[d], t) => DeleterFits(d, vdel[d], n, t \in late, FALSE)
    BY <1>1, <2>1, <2>2 DEF DeleterFits
  <2> QED
    BY <1>3, <2>1, <2>2, <2>3, <2>4, <2>5
<1>7. CASE RetryDownload(t)
  <2> DEFINE n == [r EXCEPT !.art = "pending", !.paused = FALSE]
  <2>1. /\ n \in VideoRows /\ n.st = r.st /\ n.retries = r.retries /\ n.asked = r.asked
        /\ n.key = r.key /\ n.paused = FALSE /\ n.owner = r.owner /\ n.leased = r.leased
        /\ n.art = "pending" /\ n.up = r.up
    BY <1>1 DEF VideoRows
  <2>2. SetVideo(t, n) /\ r.st = "completed" /\ r.art = "failed" /\ ~ r.leased
    BY <1>7 DEF RetryDownload
  <2> HIDE DEF n
  <2>3. RowFits(n, j)
    BY <1>1, <2>1, <2>2 DEF RowFits
  <2>4. \A w \in Workers : On(vwork[w], t) => WorkerFits(w, vwork[w], n, j, t \in late)
    BY <1>1, <2>1, <2>2 DEF WorkerFits
  <2>5. \A d \in Deleters : On(vdel[d], t) => DeleterFits(d, vdel[d], n, t \in late, FALSE)
    BY <1>1, <2>1, <2>2 DEF DeleterFits
  <2> QED
    BY <1>3, <2>1, <2>2, <2>3, <2>4, <2>5
<1> QED
  BY <1>4, <1>5, <1>6, <1>7

-----------------------------------------------------------------------------
(* Updates by a worker.                                                     *)

\* Worker w takes, keeps or gives back row t, which becomes n, and goes on to x.
LEMMA WorkerWrites ==
  ASSUME VideoInv, NEW t \in Tasks, NEW w \in Workers, NEW n \in VideoRows, NEW x \in WorkRows,
         SetVideo(t, n), vwork' = [vwork EXCEPT ![w] = x],
         UNCHANGED <<job, stored, vdel, videoHistory>>,
         vask' \in [Callers -> AskRows], \A c \in Callers : c \in fresh' => vask'[c] = vask[c],
         vwork[w].at = "idle" \/ vwork[w].t = t, x.at = "idle" \/ x.t = t,
         ~ video[t].leased \/ video[t].owner = w \/ video[t].owner = Nobody,
         n.owner \in {w, Nobody}, n.st # "none",
         RowFits(n, job[t]), On(x, t) => WorkerFits(w, x, n, job[t], t \in late),
         x.at # "finish", video[t].key => n.key, Storing(vwork[w], t) => n.key,
         \A u \in Workers \ {w} : ~ Sending(vwork[u], t),
         n.st = "completed" /\ n.art = "ready" =>
           \/ video[t].st = "completed" /\ video[t].art = "ready"
           \/ Storing(vwork[w], t) /\ vwork[w].out = "saved"
  PROVE  VideoInv'
<1> DEFINE r == video[t]
           j == job[t]
<1> USE DEF videoHistory
<1>1. /\ VideoSets /\ FreshFits /\ r \in VideoRows /\ j \in JobRows /\ RowFits(r, j) /\ OneSender(t)
      /\ \A u \in Workers : On(vwork[u], t) => WorkerFits(u, vwork[u], r, j, t \in late)
      /\ \A d \in Deleters :
           On(vdel[d], t) => DeleterFits(d, vdel[d], r, t \in late, d \in fresh)
      /\ t \notin late \cup cut => ObjectFits(t)
  BY TaskFacts
<1>2. vwork' \in [Workers -> WorkRows] /\ vwork'[w] = x /\ \A u \in Workers \ {w} : vwork'[u] = vwork[u]
  BY <1>1 DEF VideoSets
<1>3. video'[t] = n
  BY <1>1 DEF SetVideo, VideoSets
<1>4. \A u \in Workers : vwork'[u] = vwork[u] \/ \A v \in Tasks \ {t} : ~ On(vwork[u], v) /\ ~ On(vwork'[u], v)
  BY <1>2 DEF On
<1>5. OneSender(t)'
  BY <1>2 DEF OneSender, Sending
<1>6. ASSUME NEW u \in Workers, On(vwork'[u], t)
      PROVE  WorkerFits(u, vwork'[u], n, j, t \in late)
  <2>1. CASE u = w
    BY <1>2, <1>6, <2>1
  <2>2. CASE u # w
    <3>1. vwork[u].at \notin {"launch", "post"}
      BY <1>2, <1>6, <2>2 DEF Sending, On
    <3> QED
      BY <1>1, <1>2, <1>6, <2>2, <3>1, Bystander, MediaActorsAssumption
  <2> QED
    BY <2>1, <2>2
<1>7. \A d \in Deleters : On(vdel'[d], t) => DeleterFits(d, vdel'[d], n, t \in late, FALSE)
  BY <1>1, DeleterBystander, MediaActorsAssumption
<1>8. t \in late \cup cut \/ ObjectFits(t)'
  <2> SUFFICES ASSUME ObjectFits(t) PROVE ObjectFits(t)'
    BY <1>1
  <2>1. video'[t].st = "completed" /\ video'[t].art = "ready" /\ t \notin stored =>
          \E d \in Deleters : Dropping(vdel'[d], t)
    BY <1>3 DEF ObjectFits
  <2>2. /\ \A u \in Workers : Storing(vwork'[u], t) => vwork'[u] = vwork[u]
        /\ \A u \in Workers : Storing(vwork[u], t) => vwork'[u] = vwork[u] \/ video'[t].key
    BY <1>2, <1>3 DEF Storing
  <2> QED
    BY <1>3, <2>1, <2>2, ObjectStays
<1> QED
  BY <1>1, <1>2, <1>3, <1>4, <1>5, <1>6, <1>7, <1>8, RowWritten DEF VideoSets

\* A worker starts on a row.
LEMMA JobRow ==
  ASSUME NEW w \in Workers, NEW t \in Tasks, NEW l \in VideoWorkPoints, NEW a \in Attempts,
         Job(w, t, l, a)
  PROVE  \E x \in WorkRows : /\ vwork' = [vwork EXCEPT ![w] = x]
                             /\ x.at = l /\ x.t = t /\ x.try = a /\ x.out = "error"
<1> DEFINE x == [at |-> l, t |-> t, try |-> a, out |-> "error"]
<1>1. x \in WorkRows
  BY DEF WorkRows, Outcomes
<1> QED
  BY <1>1 DEF Job

\* A new task.
LEMMA SubmitStep ==
  ASSUME VideoInv, NEW t \in Tasks, NEW w \in Workers, Submit(w, t)
  PROVE  VideoInv'
<1> DEFINE r == video[t]
           j == job[t]
           m == [r EXCEPT !.st = "submitting"]
           n == LeasedBy(m, w)
<1>1. /\ VideoSets /\ r \in VideoRows /\ RowFits(r, j)
      /\ \A u \in Workers : On(vwork[u], t) => WorkerFits(u, vwork[u], r, j, t \in late)
  BY TaskFacts
<1>2. /\ vwork[w].at = "idle" /\ r.st = "none" /\ SetVideo(t, n) /\ Job(w, t, "launch", 1)
      /\ UNCHANGED <<job, stored, vask, vdel, videoHistory>>
  BY DEF Submit, Submitting
<1>3. /\ m \in VideoRows /\ m.st = "submitting" /\ m.retries = r.retries /\ m.asked = r.asked
      /\ m.key = r.key /\ m.paused = r.paused /\ m.art = r.art
  BY <1>1 DEF VideoRows, VideoStatuses
<1>4. n \in VideoRows /\ SameTask(n, m) /\ n.owner = w /\ n.leased
  BY <1>3, LeaseRows DEF Owners
<1> HIDE DEF m, n
<1>5. 1 \in Attempts /\ "launch" \in VideoWorkPoints
  BY MediaBoundsAssumption DEF Attempts, VideoWorkPoints
<1>6. PICK x \in WorkRows : /\ vwork' = [vwork EXCEPT ![w] = x]
                            /\ x.at = "launch" /\ x.t = t /\ x.try = 1 /\ x.out = "error"
  BY <1>2, <1>5, JobRow
<1>7. r.st = "none" /\ n.st = "submitting" /\ n.retries = 0 /\ r.retries = 0 /\ ~ n.paused
      /\ ~ r.leased /\ ~ r.key
  BY <1>1, <1>2, <1>3, <1>4 DEF RowFits, SameTask
<1>8. n.art = "pending"
  BY <1>1, <1>2, <1>3, <1>4 DEF SameTask, RowFits
<1>9. RowFits(n, j)
  BY <1>1, <1>3, <1>4, <1>7, <1>8 DEF RowFits, SameTask
<1>10. WorkerFits(w, x, n, j, t \in late)
  BY <1>1, <1>4, <1>6, <1>7 DEF WorkerFits, RowFits
<1>11. \A u \in Workers : ~ Sending(vwork[u], t) /\ ~ Storing(vwork[u], t)
  BY <1>1, <1>2 DEF Sending, Storing, WorkerFits, On
<1> QED
  BY <1>1, <1>2, <1>4, <1>6, <1>7, <1>9, <1>10, <1>11, WorkerWrites DEF VideoSets

\* The columns of a retry.
LEMMA RetriedRow ==
  ASSUME NEW r \in VideoRows, NEW q \in Requests, r.retries < MaxRetries
  PROVE  LET k == Retried(r, q) IN
         /\ k \in VideoRows /\ k.retries = r.retries + 1 /\ k.asked = r.asked \cup {q}
         /\ k.art = "pending" /\ k.paused = FALSE /\ k.key = r.key
<1>1. r.retries \in 0 .. MaxRetries
  BY RowSorts
<1>2. PICK i : i = r.retries + 1
  OBVIOUS
<1>3. i \in 0 .. MaxRetries /\ 0 \in 0 .. MaxRetries + 1
  BY <1>1, <1>2, MediaBoundsAssumption
<1>4. PICK A : A = r.asked \cup {q}
  OBVIOUS
<1>5. A \in SUBSET Requests
  BY <1>4, RowSorts
<1>6. Retried(r, q) = [r EXCEPT !.up = 0, !.art = "pending", !.paused = FALSE, !.retries = i, !.asked = A]
  BY <1>2, <1>4 DEF Retried, VideoRows
<1> QED
  BY <1>2, <1>3, <1>4, <1>5, <1>6 DEF VideoRows

\* A failed task begins its next attempt, in the same row.
LEMMA RetryStep ==
  ASSUME VideoInv, NEW c \in Callers, NEW w \in Workers, Retry(c, w)
  PROVE  VideoInv'
<1> DEFINE t == vask[c].t
           q == vask[c].req
           r == video[t]
           j == job[t]
           k == Retried(r, q)
           m == [k EXCEPT !.st = "submitting"]
           n == LeasedBy(m, w)
<1>t. t \in Tasks /\ q \in Requests
  BY VideoSetsType, RowSorts DEF VideoInv, VideoSets
<1>1. /\ VideoSets /\ r \in VideoRows /\ RowFits(r, j) /\ r.retries \in 0 .. MaxRetries
      /\ (\A u \in Workers : On(vwork[u], t) => WorkerFits(u, vwork[u], r, j, t \in late))
      /\ (\A e \in Callers : e \in fresh /\ vask[e].t = t => CallerFits(vask[e], r))
  BY <1>t, TaskFacts
<1>2. /\ vask[c].at = "read" /\ vwork[w].at = "idle"
      /\ r.st = "failed" /\ c \in fresh /\ r.owner = Nobody /\ ~ r.leased /\ r.retries < MaxRetries
      /\ SetVideo(t, n) /\ Job(w, t, "launch", r.retries + 2)
      /\ vask' = [vask EXCEPT ![c] = VideoIdleAsk]
      /\ UNCHANGED <<job, stored, vdel, videoHistory>>
  BY DEF Retry, VideoRetryMatches, Submitting
<1>3. ~ r.key /\ q \notin r.asked
  BY <1>1, <1>2 DEF CallerFits
<1>4. /\ k \in VideoRows /\ k.retries = r.retries + 1 /\ k.asked = r.asked \cup {q} /\ k.art = "pending"
      /\ k.paused = FALSE /\ k.key = r.key
  BY <1>t, <1>1, <1>2, RetriedRow
<1> HIDE DEF k
<1>5. /\ m \in VideoRows /\ m.st = "submitting" /\ m.retries = k.retries /\ m.asked = k.asked
      /\ m.key = k.key /\ m.paused = k.paused /\ m.art = k.art
  BY <1>4 DEF VideoRows, VideoStatuses
<1> HIDE DEF m
<1>6. n \in VideoRows /\ SameTask(n, m) /\ n.owner = w /\ n.leased
  BY <1>5, LeaseRows DEF Owners
<1> HIDE DEF n
<1>7. r.retries + 2 \in Attempts /\ "launch" \in VideoWorkPoints
  BY <1>1, <1>2, MediaBoundsAssumption DEF Attempts, VideoWorkPoints
<1>8. PICK x \in WorkRows : /\ vwork' = [vwork EXCEPT ![w] = x]
                            /\ x.at = "launch" /\ x.t = t /\ x.try = r.retries + 2 /\ x.out = "error"
  BY <1>t, <1>2, <1>7, JobRow
<1>9. /\ n.st = "submitting" /\ n.retries = r.retries + 1 /\ n.asked = r.asked \cup {q} /\ ~ n.paused
      /\ n.art = "pending" /\ n.key = r.key
  BY <1>4, <1>5, <1>6 DEF SameTask
<1>10. IsFiniteSet(n.asked) /\ Cardinality(n.asked) = n.retries
  <2>1. IsFiniteSet(r.asked) /\ Cardinality(r.asked) = r.retries
    BY <1>1 DEF RowFits
  <2>2. PICK S : S = r.asked
    OBVIOUS
  <2>3. IsFiniteSet(S \cup {q}) /\ Cardinality(S \cup {q}) = Cardinality(S) + 1
    BY <1>3, <2>1, <2>2, FS_AddElement
  <2> QED
    BY <2>1, <2>2, <2>3, <1>9
<1>11. RowFits(n, j)
  <2>1. \A a \in Attempts : a # n.retries + 1 => NotPaid(j[a])
    BY <1>1, <1>2, <1>9 DEF RowFits
  <2> QED
    BY <1>6, <1>9, <1>10, <2>1 DEF RowFits
<1>12. WorkerFits(w, x, n, j, t \in late)
  <2>1. NotPaid(j[x.try])
    BY <1>1, <1>7, <1>8 DEF RowFits
  <2>2. x.try = n.retries + 1
    BY <1>1, <1>8, <1>9, MediaBoundsAssumption
  <2> QED
    BY <1>6, <1>8, <1>9, <2>1, <2>2 DEF WorkerFits
<1>13. \A u \in Workers : ~ Sending(vwork[u], t)
  BY <1>1, <1>2 DEF Sending, WorkerFits, On
<1>14. vask' \in [Callers -> AskRows] /\ \A e \in Callers : e \in fresh' => vask'[e] = vask[e]
  <2>1. c \notin fresh'
    BY <1>2 DEF SetVideo, ReadersOf
  <2> QED
    BY <1>1, <1>2, <2>1, IdleVideoRows DEF VideoSets
<1>15. VideoInv /\ ~ Storing(vwork[w], t) /\ n.st # "none" /\ (video[t].key => n.key)
       /\ ~ (n.st = "completed" /\ n.art = "ready")
  BY <1>2, <1>9 DEF Storing
<1>16. x.t = t /\ x.at # "finish" /\ n.owner \in {w, Nobody} /\ ~ video[t].leased
  BY <1>2, <1>6, <1>8
<1> HIDE DEF t, q, r, j
<1> QED
  BY <1>t, <1>2, <1>6, <1>8, <1>11, <1>12, <1>13, <1>14, <1>15, <1>16, WorkerWrites DEF r, j

\* A due row is claimed.
LEMMA ClaimDueStep ==
  ASSUME VideoInv, NEW t \in Tasks, NEW w \in Workers, ClaimDue(w, t)
  PROVE  VideoInv'
<1> DEFINE r == video[t]
           j == job[t]
           n == LeasedBy(r, w)
           l == IF r.st = "completed" THEN "reserve" ELSE "query"
<1>1. /\ VideoSets /\ r \in VideoRows /\ RowFits(r, j)
      /\ r.retries \in 0 .. MaxRetries /\ r.up \in 0 .. MaxRetries + 1
      /\ \A u \in Workers : On(vwork[u], t) => WorkerFits(u, vwork[u], r, j, t \in late)
  BY TaskFacts
<1>2. /\ vwork[w].at = "idle" /\ Due(r) /\ SetVideo(t, n) /\ Job(w, t, l, r.up)
      /\ UNCHANGED <<job, stored, vask, vdel, videoHistory>>
  BY DEF ClaimDue
<1>3. n \in VideoRows /\ SameTask(n, r) /\ n.owner = w /\ n.leased
  BY <1>1, LeaseRows DEF Owners
<1> HIDE DEF n
<1>4. r.up \in Attempts /\ l \in VideoWorkPoints /\ l \in {"reserve", "query"}
  BY <1>1, <1>2, MediaBoundsAssumption DEF Attempts, VideoWorkPoints, Due
<1>5. PICK x \in WorkRows : /\ vwork' = [vwork EXCEPT ![w] = x]
                            /\ x.at = l /\ x.t = t /\ x.try = r.up /\ x.out = "error"
  BY <1>2, <1>4, JobRow
<1>6. RowFits(n, j)
  BY <1>1, <1>2, <1>3 DEF RowFits, SameTask, Due
<1>7. WorkerFits(w, x, n, j, t \in late)
  BY <1>1, <1>2, <1>3, <1>5 DEF WorkerFits, RowFits, SameTask, Due
<1>8. \A u \in Workers : ~ Sending(vwork[u], t)
  BY <1>1, <1>2 DEF Sending, WorkerFits, On, Due
<1>9. VideoInv /\ ~ Storing(vwork[w], t) /\ n.st # "none" /\ (video[t].key => n.key)
      /\ ~ (n.st = "completed" /\ n.art = "ready")
  BY <1>2, <1>3 DEF Storing, SameTask, Due
<1>10. x.t = t /\ x.at # "finish" /\ n.owner \in {w, Nobody} /\ ~ video[t].leased
  BY <1>2, <1>3, <1>4, <1>5 DEF Due
<1>11. vask' \in [Callers -> AskRows] /\ \A c \in Callers : c \in fresh' => vask'[c] = vask[c]
  BY <1>1, <1>2 DEF VideoSets
<1> HIDE DEF r, j
<1> QED
  BY <1>2, <1>3, <1>5, <1>6, <1>7, <1>8, <1>9, <1>10, <1>11, WorkerWrites DEF r, j

\* The columns that a worker's result sets.
LEMMA AppliedRow ==
  ASSUME VideoSets, NEW w \in Workers, NEW r \in VideoRows
  PROVE  LET k == Applied(r, w)  o == vwork[w].out IN
         /\ k \in VideoRows /\ k.retries = r.retries /\ k.asked = r.asked
         /\ k.st = IF o \in {"rejected", "failed"} THEN "failed" ELSE IF o = "lost" THEN "unknown"
                   ELSE IF o \in {"running", "completed"} THEN o ELSE r.st
         /\ k.up = IF o \in {"running", "completed"} THEN vwork[w].try ELSE r.up
         /\ k.art = IF o \in {"unsaved", "unstored"} THEN "failed"
                    ELSE IF o = "saved" THEN "ready" ELSE r.art
         /\ k.paused <=> r.paused \/ o = "paused"
         /\ k.key <=> r.key \/ o \in {"unstored", "saved"}
<1> DEFINE k == Applied(r, w)
<1>1. vwork[w].try \in 0 .. MaxRetries + 1 /\ vwork[w].out \in Outcomes
  <2>1. vwork[w] \in WorkRows
    BY DEF VideoSets
  <2> QED
    BY <2>1, RowSorts, MediaBoundsAssumption DEF Attempts
<1>2. PICK a : a = vwork[w].try
  OBVIOUS
<1>3. PICK o : o = vwork[w].out
  OBVIOUS
<1>4. Applied(r, w) = 
        CASE o \in {"rejected", "failed"} -> [r EXCEPT !.st = "failed"]
          [] o = "lost" -> [r EXCEPT !.st = "unknown"]
          [] o = "running" -> [r EXCEPT !.st = "running", !.up = a]
          [] o = "completed" -> [r EXCEPT !.st = "completed", !.up = a]
          [] o = "paused" -> [r EXCEPT !.paused = TRUE]
          [] o = "error" -> r
          [] o = "unsaved" -> [r EXCEPT !.art = "failed"]
          [] o = "unstored" -> [r EXCEPT !.art = "failed", !.key = TRUE]
          [] o = "saved" -> [r EXCEPT !.art = "ready", !.key = TRUE]
  BY <1>2, <1>3 DEF Applied
<1>5. CASE o \in {"rejected", "failed"}
  <2>1. k = [r EXCEPT !.st = "failed"]
    BY <1>4, <1>5
  <2> QED
    BY <2>1, <1>3, <1>5 DEF VideoRows, VideoStatuses
<1>6. CASE o = "lost"
  <2>1. k = [r EXCEPT !.st = "unknown"]
    BY <1>4, <1>6
  <2> QED
    BY <2>1, <1>3, <1>6 DEF VideoRows, VideoStatuses
<1>7. CASE o \in {"running", "completed"}
  <2>1. k = [r EXCEPT !.st = o, !.up = a]
    BY <1>4, <1>7
  <2> QED
    BY <2>1, <1>1, <1>2, <1>3, <1>7 DEF VideoRows, VideoStatuses
<1>8. CASE o = "paused"
  <2>1. k = [r EXCEPT !.paused = TRUE]
    BY <1>4, <1>8
  <2> QED
    BY <2>1, <1>3, <1>8 DEF VideoRows
<1>9. CASE o = "error"
  <2>1. k = r
    BY <1>4, <1>9
  <2> QED
    BY <2>1, <1>3, <1>9 DEF VideoRows
<1>10. CASE o = "unsaved"
  <2>1. k = [r EXCEPT !.art = "failed"]
    BY <1>4, <1>10
  <2> QED
    BY <2>1, <1>3, <1>10 DEF VideoRows
<1>11. CASE o = "unstored"
  <2>1. k = [r EXCEPT !.art = "failed", !.key = TRUE]
    BY <1>4, <1>11
  <2> QED
    BY <2>1, <1>3, <1>11 DEF VideoRows
<1>12. CASE o = "saved"
  <2>1. k = [r EXCEPT !.art = "ready", !.key = TRUE]
    BY <1>4, <1>12
  <2> QED
    BY <2>1, <1>3, <1>12 DEF VideoRows
<1> QED
  BY <1>1, <1>3, <1>5, <1>6, <1>7, <1>8, <1>9, <1>10, <1>11, <1>12 DEF Outcomes

\* A worker whose result nobody takes, or that stops, leaves the task behind.
LEMMA WorkerLeaves ==
  ASSUME VideoInv, NEW w \in Workers, vwork[w].at # "idle", VideoIdle(w),
         UNCHANGED <<video, job, stored, vask, vdel, fresh, late>>, faults' \in 0 .. MaxFaults,
         \/ cut' = cut \cup {vwork[w].t}
         \/ cut' = cut /\ vwork[w].at = "finish" /\ video[vwork[w].t].owner # w
  PROVE  VideoInv'
<1>t. PICK t : t = vwork[w].t
  OBVIOUS
<1>1. VideoSets /\ t \in Tasks
  BY <1>t, VideoSetsType, RowSorts DEF VideoInv, VideoSets
<1>2. VideoSets' /\ vwork'[w] = VideoIdleWork /\ \A u \in Workers \ {w} : vwork'[u] = vwork[u]
  BY <1>t, <1>1, IdleVideoRows DEF VideoSets, VideoIdle
<1>3. TaskFits(t) /\ FreshFits /\ FreshFits'
  BY <1>1 DEF VideoInv, FreshFits
<1>4. ASSUME NEW u \in Tasks \ {t} PROVE Apart(u)
  <2>1. ~ On(vwork[w], u) /\ ~ On(vwork'[w], u)
    BY <1>t, <1>2, IdleVideoRows DEF On
  <2>2. (u \in cut') = (u \in cut)
    BY <1>t
  <2> QED
    BY <1>2, <2>1, <2>2 DEF Apart
<1>5. TaskFits(t)'
  <2>1. /\ RowFits(video'[t], job'[t])
        /\ \A c \in Callers : c \in fresh' /\ vask'[c].t = t => CallerFits(vask'[c], video'[t])
        /\ \A d \in Deleters :
             On(vdel'[d], t) => DeleterFits(d, vdel'[d], video'[t], t \in late', d \in fresh')
    BY <1>3 DEF TaskFits
  <2>2. \A u \in Workers :
          On(vwork'[u], t) => WorkerFits(u, vwork'[u], video'[t], job'[t], t \in late')
    BY <1>2, <1>3, IdleVideoRows DEF TaskFits, On
  <2>3. OneSender(t)'
    <3>1. \A u \in Workers : Sending(vwork'[u], t) => Sending(vwork[u], t)
      BY <1>2, IdleVideoRows DEF Sending
    <3> QED
      BY <1>3, <3>1 DEF TaskFits, OneSender
  <2>4. t \in late' \cup cut' \/ ObjectFits(t)'
    <3>1. CASE cut' = cut \cup {t}
      BY <3>1
    <3>2. CASE video[t].owner # w
      <4>1. t \in late
        BY <1>t, <1>3, <3>2 DEF TaskFits, WorkerFits, On
      <4> QED
        BY <4>1
    <3> QED
      BY <1>t, <3>1, <3>2
  <2> QED
    BY <2>1, <2>2, <2>3, <2>4 DEF TaskFits
<1> QED
  BY <1>1, <1>2, <1>3, <1>4, <1>5, OneTaskStep

\* The result of a worker that still owns the row.
LEMMA FinishStep ==
  ASSUME VideoInv, NEW w \in Workers, Finish(w)
  PROVE  VideoInv'
<1> DEFINE b == vwork[w]
           t == b.t
           r == video[t]
           j == job[t]
           m == Applied(r, w)
           n == Unleased(m)
<1>1. b.at = "finish" /\ VideoIdle(w) /\ UNCHANGED <<job, stored, vask, vdel, videoHistory>>
  BY DEF Finish
<1>2. CASE r.owner # w
  <2>1. UNCHANGED <<video, fresh>>
    BY <1>2 DEF Finish
  <2> QED
    BY <1>1, <1>2, <2>1, WorkerLeaves, VideoSetsType DEF videoHistory, VideoInv, VideoSets
<1>3. CASE r.owner = w
  <2>1. /\ VideoSets /\ b \in WorkRows /\ t \in Tasks /\ r \in VideoRows /\ j \in JobRows
        /\ On(b, t) /\ RowFits(r, j) /\ WorkerFits(w, b, r, j, t \in late)
        /\ \A u \in Workers : On(vwork[u], t) => WorkerFits(u, vwork[u], r, j, t \in late)
    BY <1>1, AtWork, VideoSetsType DEF VideoInv
  <2>2. SetVideo(t, n)
    BY <1>3 DEF Finish
  <2>3. PICK o : o = b.out
    OBVIOUS
  <2>4. /\ m \in VideoRows /\ m.retries = r.retries /\ m.asked = r.asked
        /\ m.st = IF o \in {"rejected", "failed"} THEN "failed" ELSE IF o = "lost" THEN "unknown"
                  ELSE IF o \in {"running", "completed"} THEN o ELSE r.st
        /\ m.up = IF o \in {"running", "completed"} THEN vwork[w].try ELSE r.up
        /\ m.art = IF o \in {"unsaved", "unstored"} THEN "failed"
                   ELSE IF o = "saved" THEN "ready" ELSE r.art
        /\ m.paused <=> r.paused \/ o = "paused"
        /\ m.key <=> r.key \/ o \in {"unstored", "saved"}
    BY <2>1, <2>3, AppliedRow
  <2> HIDE DEF m
  <2>5. n \in VideoRows /\ SameTask(n, m) /\ n.owner = Nobody /\ ~ n.leased
    BY <2>4, LeaseRows
  <2> HIDE DEF n
  <2>6. /\ r.st \in {"submitting", "running", "completed"} /\ b.try = r.retries + 1 /\ ~ r.paused
        /\ (r.st = "completed" => r.art \in {"pending", "saving"})
        /\ (o \in {"rejected", "lost"} => r.st = "submitting")
        /\ (o \in {"running", "completed", "failed"} => r.st \in {"submitting", "running"})
        /\ (o \in {"error", "paused"} => r.st \in {"running", "completed"})
        /\ (o \in {"unsaved", "unstored", "saved"} => r.st = "completed")
        /\ (o = "completed" => j[b.try] = "done")
        /\ (o \in {"failed", "rejected"} => NotPaid(j[b.try]))
    BY <1>1, <1>3, <2>1, <2>3 DEF WorkerFits
  <2>o. o \in Outcomes
    BY <2>1, <2>3, RowSorts
  <2>7. RowFits(n, j)
    <3>1. /\ n.st \notin {"none", "deleted", "misfiled"}
          /\ n.retries = r.retries /\ n.asked = r.asked
      BY <2>3, <2>4, <2>5, <2>6 DEF SameTask
    <3>2. n.st \in {"none", "submitting", "running"} => n.art = "pending"
      BY <2>1, <2>3, <2>4, <2>5, <2>6 DEF RowFits, SameTask
    <3>3. n.paused => n.st \in {"running", "completed"} /\ n.art \in {"pending", "saving"}
      BY <2>1, <2>3, <2>4, <2>5, <2>6 DEF RowFits, SameTask
    <3>4. n.st \in {"running", "completed"} => n.up = n.retries + 1
      BY <2>1, <2>3, <2>4, <2>5, <2>6, <3>1 DEF RowFits, SameTask
    <3>5. n.st \in {"none", "misfiled", "failed"} => NotPaid(j[n.retries + 1])
      BY <2>3, <2>4, <2>5, <2>6, <3>1 DEF SameTask
    <3>6. n.st = "completed" => j[n.retries + 1] = "done"
      BY <2>1, <2>3, <2>4, <2>5, <2>6, <3>1 DEF RowFits, SameTask
    <3> QED
      BY <2>1, <3>1, <3>2, <3>3, <3>4, <3>5, <3>6 DEF RowFits
  <2>8. vwork' = [vwork EXCEPT ![w] = VideoIdleWork] /\ ~ On(VideoIdleWork, t)
    BY <1>1, IdleVideoRows DEF VideoIdle, On
  <2>9. \A u \in Workers \ {w} : ~ Sending(vwork[u], t)
    BY <1>3, <2>1, <2>6 DEF Sending, On, WorkerFits
  <2>10. /\ (video[t].key => n.key) /\ (Storing(b, t) => n.key) /\ n.st # "none"
         /\ n.st = "completed" /\ n.art = "ready" => Storing(b, t) /\ b.out = "saved"
    BY <1>1, <2>1, <2>3, <2>4, <2>5, <2>6, <2>o DEF Storing, SameTask, Outcomes, RowFits
  <2>11. vask' \in [Callers -> AskRows] /\ \A c \in Callers : c \in fresh' => vask'[c] = vask[c]
    BY <1>1, <2>1 DEF VideoSets
  <2>12. n.owner \in {w, Nobody} /\ video[t].owner = w
    BY <1>3, <2>5
  <2> HIDE DEF t, r, j
  <2> QED
    BY <1>1, <2>1, <2>2, <2>5, <2>7, <2>8, <2>9, <2>10, <2>11, <2>12, IdleVideoRows, WorkerWrites
    DEF j, t, r
<1> QED
  BY <1>2, <1>3

\* A worker reserves room for the result.
LEMMA ReserveStep ==
  ASSUME VideoInv, NEW w \in Workers, Reserve(w)
  PROVE  VideoInv'
<1> DEFINE b == vwork[w]
           t == b.t
           r == video[t]
           j == job[t]
           n == [r EXCEPT !.art = "saving", !.leased = TRUE]
<1>1. /\ b.at = "reserve" /\ r.owner = w /\ SetVideo(t, n) /\ VideoAt(w, "fetch")
      /\ UNCHANGED <<job, stored, vask, vdel, videoHistory>>
  BY DEF Reserve
<1>2. /\ VideoSets /\ b \in WorkRows /\ t \in Tasks /\ r \in VideoRows /\ j \in JobRows
      /\ On(b, t) /\ RowFits(r, j) /\ WorkerFits(w, b, r, j, t \in late)
      /\ \A u \in Workers : On(vwork[u], t) => WorkerFits(u, vwork[u], r, j, t \in late)
  BY <1>1, AtWork, VideoSetsType DEF VideoInv
<1>3. /\ n \in VideoRows /\ n.st = r.st /\ n.retries = r.retries /\ n.asked = r.asked
      /\ n.key = r.key /\ n.paused = r.paused /\ n.owner = w /\ n.leased = TRUE
      /\ n.art = "saving" /\ n.up = r.up
  BY <1>2, <1>1 DEF VideoRows
<1> HIDE DEF n
<1>4. PICK x \in WorkRows : /\ vwork' = [vwork EXCEPT ![w] = x] /\ x.at = "fetch"
                            /\ x.t = t /\ x.try = b.try
  BY <1>2, <1>1, WorkMoves DEF VideoWorkPoints
<1>5. r.st = "completed"
  BY <1>2, <1>1 DEF WorkerFits
<1>6. RowFits(n, j)
  BY <1>2, <1>1, <1>3, <1>5 DEF RowFits
<1>7. WorkerFits(w, x, n, j, t \in late)
  BY <1>2, <1>1, <1>3, <1>4, <1>5 DEF WorkerFits
<1>8. \A u \in Workers : ~ Sending(vwork[u], t)
  BY <1>2, <1>5 DEF Sending, On, WorkerFits
<1>9. vask' \in [Callers -> AskRows] /\ \A c \in Callers : c \in fresh' => vask'[c] = vask[c]
  BY <1>2, <1>1 DEF VideoSets
<1>10. ~ Storing(b, t)
  BY <1>1 DEF Storing
<1> HIDE DEF t, r, j
<1> QED
  BY <1>2, <1>1, <1>3, <1>4, <1>5, <1>6, <1>7, <1>8, <1>9, <1>10, WorkerWrites DEF r, j, t

-----------------------------------------------------------------------------
(* Deleters.                                                                *)

\* Deleter d goes on to x, without touching row t.
LEMMA DeleterGoesOn ==
  ASSUME VideoInv, NEW t \in Tasks, NEW d \in Deleters, NEW x \in DelRows,
         vdel' = [vdel EXCEPT ![d] = x],
         vdel[d].at = "idle" \/ vdel[d].t = t, x.at = "idle" \/ x.t = t,
         UNCHANGED <<video, job, vwork, vask, late>>, faults' \in 0 .. MaxFaults,
         stored' \in {stored, stored \ {t}}, cut' \in {cut, cut \cup {t}},
         fresh' \in {fresh, fresh \cup {d}, fresh \ {d}}, d \in fresh' => x.at = "claim",
         On(x, t) => DeleterFits(d, x, video[t], t \in late, d \in fresh'),
         t \in late \cup cut' \/ ObjectFits(t)'
  PROVE  VideoInv'
<1>1. VideoSets /\ FreshFits /\ TaskFits(t) /\ d \notin Callers
  BY VideoSetsType, VideoRequestsAssumption DEF VideoInv
<1>2. VideoSets' /\ vdel'[d] = x /\ \A e \in Deleters \ {d} : vdel'[e] = vdel[e]
  BY <1>1 DEF VideoSets
<1>3. \A e \in Deleters \cup Callers : e # d => (e \in fresh' <=> e \in fresh)
  OBVIOUS
<1>4. FreshFits'
  BY <1>1, <1>2, <1>3 DEF FreshFits
<1>5. ASSUME NEW u \in Tasks \ {t} PROVE Apart(u)
  <2>1. ~ On(vdel[d], u) /\ ~ On(vdel'[d], u)
    BY <1>2 DEF On
  <2>2. (u \in cut') = (u \in cut) /\ (u \in stored') = (u \in stored)
    OBVIOUS
  <2> QED
    BY <1>1, <1>2, <1>3, <2>1, <2>2 DEF Apart
<1>6. TaskFits(t)'
  <2>1. /\ RowFits(video'[t], job'[t]) /\ OneSender(t)'
        /\ \A c \in Callers : c \in fresh' /\ vask'[c].t = t => CallerFits(vask'[c], video'[t])
        /\ \A w \in Workers :
             On(vwork'[w], t) => WorkerFits(w, vwork'[w], video'[t], job'[t], t \in late')
    BY <1>1, <1>3 DEF TaskFits, OneSender
  <2>2. ASSUME NEW e \in Deleters, On(vdel'[e], t)
        PROVE  DeleterFits(e, vdel'[e], video'[t], t \in late', e \in fresh')
    <3>1. CASE e = d
      BY <1>2, <2>2, <3>1
    <3>2. CASE e # d
      <4>1. vdel'[e] = vdel[e] /\ (e \in fresh' <=> e \in fresh)
        BY <1>2, <1>3, <3>2
      <4>2. DeleterFits(e, vdel[e], video[t], t \in late, e \in fresh)
        BY <1>1, <2>2, <4>1 DEF TaskFits
      <4> QED
        BY <4>1, <4>2 DEF DeleterFits
    <3> QED
      BY <3>1, <3>2
  <2> QED
    BY <2>1, <2>2 DEF TaskFits
<1> QED
  BY <1>2, <1>4, <1>5, <1>6, OneTaskStep

\* Deleter d takes or gives back row t, which becomes n, and goes on to x.
LEMMA DeleterWrites ==
  ASSUME VideoInv, NEW t \in Tasks, NEW d \in Deleters, NEW n \in VideoRows, NEW x \in DelRows,
         SetVideo(t, n), vdel' = [vdel EXCEPT ![d] = x],
         UNCHANGED <<job, stored, vwork, vask, videoHistory>>,
         vdel[d].at = "idle" \/ vdel[d].t = t, x.at = "idle" \/ x.t = t,
         ~ video[t].leased \/ video[t].owner = d,
         n.owner \in {d, Nobody}, n.st # "none", RowFits(n, job[t]),
         On(x, t) => DeleterFits(d, x, n, t \in late, FALSE),
         \A w \in Workers :
           Sending(vwork[w], t) => n.retries = video[t].retries /\ n.st \in {"unknown", "deleted"},
         t \notin late \cup cut => ObjectFits(t)'
  PROVE  VideoInv'
<1> DEFINE r == video[t]
           j == job[t]
<1>1. /\ VideoSets /\ FreshFits /\ r \in VideoRows /\ j \in JobRows /\ RowFits(r, j) /\ OneSender(t)
      /\ (\A u \in Workers : On(vwork[u], t) => WorkerFits(u, vwork[u], r, j, t \in late))
      /\ (\A e \in Deleters :
           On(vdel[e], t) => DeleterFits(e, vdel[e], r, t \in late, e \in fresh))
  BY TaskFacts
<1>2. vdel' \in [Deleters -> DelRows] /\ vdel'[d] = x /\ \A e \in Deleters \ {d} : vdel'[e] = vdel[e]
  BY <1>1 DEF VideoSets
<1>3. \A e \in Deleters : vdel'[e] = vdel[e] \/ \A v \in Tasks \ {t} : ~ On(vdel[e], v) /\ ~ On(vdel'[e], v)
  BY <1>2 DEF On
<1>4. d \notin fresh'
  BY <1>1 DEF FreshFits, SetVideo, ReadersOf
<1>5. ASSUME NEW w \in Workers, On(vwork'[w], t)
      PROVE  WorkerFits(w, vwork'[w], n, j, t \in late)
  <2>1. w # d /\ w # Nobody
    BY MediaActorsAssumption
  <2>2. vwork[w].at \in {"launch", "post"} => n.retries = r.retries /\ n.st \in {"unknown", "deleted"}
    BY <1>5 DEF Sending, On
  <2> QED
    BY <1>1, <1>5, <2>1, <2>2, Bystander
<1>6. ASSUME NEW e \in Deleters, On(vdel'[e], t)
      PROVE  DeleterFits(e, vdel'[e], n, t \in late, FALSE)
  <2>1. CASE e = d
    BY <1>2, <1>6, <2>1
  <2>2. CASE e # d
    <3>1. vdel'[e] = vdel[e] /\ DeleterFits(e, vdel[e], r, t \in late, e \in fresh)
      BY <1>1, <1>2, <1>6, <2>2
    <3>2. ~ (r.owner = e /\ r.leased) /\ n.owner # e
      BY <2>2, MediaActorsAssumption
    <3> QED
      BY <3>1, <3>2, DeleterBystander
  <2> QED
    BY <2>1, <2>2
<1>7. OneSender(t)'
  BY <1>1 DEF OneSender
<1>8. vwork' \in [Workers -> WorkRows] /\ vask' \in [Callers -> AskRows]
  BY <1>1 DEF VideoSets
<1>9. \A e \in Deleters : e \in fresh' => vdel'[e] = vdel[e]
  BY <1>2, <1>4
<1>10. RowFits(n, job[t]) /\ (t \in late \cup cut \/ ObjectFits(t)')
  OBVIOUS
<1> HIDE DEF r
<1> QED
  BY <1>2, <1>3, <1>5, <1>6, <1>7, <1>8, <1>9, <1>10, RowWritten

\* How a deleter moves on.
LEMMA DeleterAt ==
  ASSUME VideoSets, NEW d \in Deleters, NEW l \in {"idle", "claim", "erase", "drop"}, VideoDeleting(d, l)
  PROVE  \E x \in DelRows : /\ vdel' = [vdel EXCEPT ![d] = x] /\ x.at = l /\ x.t = vdel[d].t
                            /\ x.expire = vdel[d].expire /\ x.key = vdel[d].key
<1> DEFINE x == [vdel[d] EXCEPT !.at = l]
<1>1. vdel[d] \in DelRows
  BY DEF VideoSets
<1>2. /\ x \in DelRows /\ x.at = l /\ x.t = vdel[d].t
      /\ x.expire = vdel[d].expire /\ x.key = vdel[d].key
  BY <1>1 DEF DelRows
<1>3. vdel' = [vdel EXCEPT ![d] = x]
  BY Zenon DEF VideoDeleting
<1> QED
  BY <1>2, <1>3

\* A row that is only leased to a deleter, or given back, keeps its object.
LEMMA LeaseKeepsObject ==
  ASSUME NEW t \in Tasks, ObjectFits(t), UNCHANGED <<stored, vwork>>, SameTask(video'[t], video[t]),
         \A d \in Deleters : Dropping(vdel'[d], t) <=> Dropping(vdel[d], t)
  PROVE  ObjectFits(t)'
<1>1. video'[t].st = "completed" /\ video'[t].art = "ready" /\ t \notin stored =>
        \E d \in Deleters : Dropping(vdel'[d], t)
  BY DEF SameTask, ObjectFits
<1> QED
  BY <1>1, ObjectStays DEF SameTask

\* A task at rest has a row, and is not being submitted.
LEMMA DoneRow ==
  ASSUME NEW r \in VideoRows, NEW j, RowFits(r, j), Done(r)
  PROVE  r.st \notin {"none", "submitting", "deleted"}
BY DEF RowFits, Done

\* The row is read.
LEMMA DeleteReadStep ==
  ASSUME VideoInv, NEW t \in Tasks, NEW d \in Deleters, VideoDeleteRead(d, t)
  PROVE  VideoInv'
<1> DEFINE r == video[t]
           x == [at |-> "claim", t |-> t, expire |-> FALSE, key |-> r.key]
<1>1. VideoSets /\ r \in VideoRows /\ RowFits(r, job[t]) /\ (t \notin late \cup cut => ObjectFits(t))
  BY TaskFacts
<1>2. /\ vdel[d].at = "idle" /\ Done(r) /\ vdel' = [vdel EXCEPT ![d] = x] /\ fresh' = fresh \cup {d}
      /\ UNCHANGED <<video, job, stored, vwork, vask, videoHistory>>
  BY DEF VideoDeleteRead
<1>3. x \in DelRows /\ x.at = "claim" /\ x.t = t /\ x.key = r.key /\ ~ x.expire
  BY <1>1, RowSorts DEF DelRows
<1> HIDE DEF x
<1>4. DeleterFits(d, x, r, t \in late, d \in fresh')
  BY <1>1, <1>2, <1>3, DoneRow DEF DeleterFits
<1>5. \A e \in Deleters : Dropping(vdel'[e], t) <=> Dropping(vdel[e], t)
  BY <1>1, <1>2, <1>3 DEF Dropping, VideoSets
<1>6. t \in late \cup cut' \/ ObjectFits(t)'
  BY <1>1, <1>2, <1>5, LeaseKeepsObject DEF SameTask, videoHistory
<1>7. UNCHANGED <<video, job, vwork, vask, late, stored, cut>> /\ faults' \in 0 .. MaxFaults
  BY <1>1, <1>2 DEF VideoSets, videoHistory
<1> HIDE DEF r
<1> QED
  BY <1>2, <1>3, <1>4, <1>6, <1>7, DeleterGoesOn DEF r

\* The claim, with or without success.
LEMMA DeleteClaimStep ==
  ASSUME VideoInv, NEW d \in Deleters, VideoDeleteClaim(d)
  PROVE  VideoInv'
<1>t. PICK t : t = vdel[d].t
  OBVIOUS
<1> DEFINE b == vdel[d]
           r == video[t]
           n == LeasedBy(r, d)
<1>1. /\ t \in Tasks /\ VideoSets /\ r \in VideoRows /\ RowFits(r, job[t])
      /\ (\A u \in Workers : On(vwork[u], t) => WorkerFits(u, vwork[u], r, job[t], t \in late))
      /\ (\A e \in Deleters : On(vdel[e], t) => DeleterFits(e, vdel[e], r, t \in late, e \in fresh))
      /\ (t \notin late \cup cut => ObjectFits(t))
  <2>1. t \in Tasks
    BY <1>t, VideoSetsType, RowSorts DEF VideoInv, VideoSets
  <2> QED
    BY <2>1, TaskFacts
<1>2. b.at = "claim" /\ UNCHANGED <<job, stored, vwork, vask, videoHistory>>
  BY DEF VideoDeleteClaim
<1>3. CASE VideoClaimMatches(d)
  <2>1. SetVideo(t, n) /\ VideoDeleting(d, "erase") /\ d \in fresh /\ ~ r.leased
    BY <1>t, <1>3 DEF VideoDeleteClaim, VideoClaimMatches
  <2>2. n \in VideoRows /\ SameTask(n, r) /\ n.owner = d /\ n.leased
    BY <1>1, LeaseRows DEF Owners
  <2> HIDE DEF n
  <2>3. PICK x \in DelRows : /\ vdel' = [vdel EXCEPT ![d] = x] /\ x.at = "erase" /\ x.t = t
                             /\ x.expire = b.expire /\ x.key = b.key
    BY <1>t, <1>1, <2>1, DeleterAt
  <2>4. Done(r) /\ b.key = r.key /\ ~ b.expire
    BY <1>t, <1>1, <1>2, <2>1 DEF DeleterFits, On
  <2>5. r.st \notin {"none", "submitting", "deleted"}
    BY <1>1, <2>4, DoneRow
  <2>6. RowFits(n, job[t])
    BY <1>1, <2>2, <2>5 DEF RowFits, SameTask
  <2>7. DeleterFits(d, x, n, t \in late, FALSE)
    BY <2>2, <2>3, <2>4, <2>5 DEF DeleterFits, SameTask, Done
  <2>8. \A w \in Workers : Sending(vwork[w], t) => n.retries = r.retries /\ n.st \in {"unknown", "deleted"}
    BY <1>1, <2>2, <2>5 DEF Sending, On, WorkerFits, SameTask
  <2>9. video'[t] = n
    BY <1>1, <2>1 DEF SetVideo, VideoSets
  <2>10. \A e \in Deleters : Dropping(vdel'[e], t) <=> Dropping(vdel[e], t)
    BY <1>1, <1>2, <2>3 DEF Dropping, VideoSets
  <2>11. t \notin late \cup cut => ObjectFits(t)'
    BY <1>1, <1>2, <2>2, <2>9, <2>10, LeaseKeepsObject
  <2>12. n.st # "none" /\ n.owner \in {d, Nobody} /\ b.t = t
    BY <1>t, <2>2, <2>5 DEF SameTask
  <2> HIDE DEF r
  <2> QED
    BY <1>1, <1>2, <2>1, <2>2, <2>3, <2>6, <2>7, <2>8, <2>11, <2>12, DeleterWrites DEF r
<1>4. CASE ~ VideoClaimMatches(d)
  <2>1. vdel' = [vdel EXCEPT ![d] = VideoIdleDel] /\ fresh' = fresh \ {d} /\ UNCHANGED video
    BY <1>4 DEF VideoDeleteClaim
  <2>2. \A e \in Deleters : Dropping(vdel'[e], t) <=> Dropping(vdel[e], t)
    BY <1>1, <1>2, <2>1, IdleVideoRows DEF Dropping, VideoSets
  <2>3. t \in late \cup cut' \/ ObjectFits(t)'
    BY <1>1, <1>2, <2>1, <2>2, LeaseKeepsObject DEF SameTask, videoHistory
  <2>4. UNCHANGED <<video, job, vwork, vask, late, stored, cut>> /\ faults' \in 0 .. MaxFaults
    BY <1>1, <1>2, <2>1 DEF VideoSets, videoHistory
  <2>5. ~ On(VideoIdleDel, t)
    BY IdleVideoRows DEF On
  <2> QED
    BY <1>t, <1>1, <2>1, <2>3, <2>4, <2>5, IdleVideoRows, DeleterGoesOn
<1> QED
  BY <1>3, <1>4

\* The claim of a clean-up.
LEMMA ExpireClaimStep ==
  ASSUME VideoInv, NEW t \in Tasks, NEW d \in Deleters, ExpireClaim(d, t)
  PROVE  VideoInv'
<1> DEFINE r == video[t]
           n == LeasedBy(r, d)
           x == [at |-> "erase", t |-> t, expire |-> TRUE, key |-> TRUE]
<1>1. /\ VideoSets /\ r \in VideoRows /\ RowFits(r, job[t])
      /\ (\A u \in Workers : On(vwork[u], t) => WorkerFits(u, vwork[u], r, job[t], t \in late))
      /\ (t \notin late \cup cut => ObjectFits(t))
  BY TaskFacts
<1>2. /\ vdel[d].at = "idle" /\ SetVideo(t, n) /\ vdel' = [vdel EXCEPT ![d] = x]
      /\ r.st = "completed" /\ r.key /\ r.art \in {"ready", "expired"} /\ ~ r.leased
      /\ UNCHANGED <<job, stored, vwork, vask, videoHistory>>
  BY DEF ExpireClaim
<1>3. n \in VideoRows /\ SameTask(n, r) /\ n.owner = d /\ n.leased
  BY <1>1, LeaseRows DEF Owners
<1>4. x \in DelRows /\ x.at = "erase" /\ x.t = t /\ x.expire = TRUE /\ x.key = TRUE
  BY DEF DelRows
<1> HIDE DEF n, x
<1>5. RowFits(n, job[t])
  BY <1>1, <1>2, <1>3 DEF RowFits, SameTask
<1>6. DeleterFits(d, x, n, t \in late, FALSE)
  BY <1>2, <1>3, <1>4 DEF DeleterFits, SameTask, Done
<1>7. \A w \in Workers : ~ Sending(vwork[w], t)
  BY <1>1, <1>2 DEF Sending, On, WorkerFits
<1>8. video'[t] = n
  BY <1>1, <1>2 DEF SetVideo, VideoSets
<1>9. \A e \in Deleters : Dropping(vdel'[e], t) <=> Dropping(vdel[e], t)
  BY <1>1, <1>2, <1>4 DEF Dropping, VideoSets
<1>10. t \notin late \cup cut => ObjectFits(t)'
  BY <1>1, <1>2, <1>3, <1>8, <1>9, LeaseKeepsObject
<1>11. n.st # "none" /\ n.owner \in {d, Nobody}
  BY <1>2, <1>3 DEF SameTask
<1> HIDE DEF r
<1> QED
  BY <1>2, <1>3, <1>4, <1>5, <1>6, <1>7, <1>10, <1>11, DeleterWrites DEF r

\* What a deleter on its way may rely on.
LEMMA AtDeletion ==
  ASSUME VideoInv, NEW d \in Deleters, NEW t, t = vdel[d].t, vdel[d].at # "idle"
  PROVE  /\ t \in Tasks /\ VideoSets /\ vdel[d] \in DelRows /\ video[t] \in VideoRows
         /\ RowFits(video[t], job[t]) /\ DeleterFits(d, vdel[d], video[t], t \in late, d \in fresh)
         /\ (\A w \in Workers :
               On(vwork[w], t) => WorkerFits(w, vwork[w], video[t], job[t], t \in late))
         /\ (t \notin late \cup cut => ObjectFits(t))
         /\ (vdel[d].at \in {"erase", "drop"} /\ t \notin late =>
               video[t].owner = d /\ \A w \in Workers : ~ On(vwork[w], t))
<1>1. t \in Tasks /\ vdel[d] \in DelRows
  BY VideoSetsType, RowSorts DEF VideoInv, VideoSets
<1>2. /\ VideoSets /\ video[t] \in VideoRows
      /\ RowFits(video[t], job[t])
      /\ (\A w \in Workers :
            On(vwork[w], t) => WorkerFits(w, vwork[w], video[t], job[t], t \in late))
      /\ (\A e \in Deleters :
            On(vdel[e], t) => DeleterFits(e, vdel[e], video[t], t \in late, e \in fresh))
      /\ (t \notin late \cup cut => ObjectFits(t))
  BY <1>1, TaskFacts
<1>3. DeleterFits(d, vdel[d], video[t], t \in late, d \in fresh)
  BY <1>2 DEF On
<1>4. ASSUME vdel[d].at \in {"erase", "drop"}, t \notin late
      PROVE  video[t].owner = d /\ \A w \in Workers : ~ On(vwork[w], t)
  <2>1. video[t].owner = d
    BY <1>3, <1>4 DEF DeleterFits
  <2> QED
    BY <1>2, <1>4, <2>1, MediaActorsAssumption DEF WorkerFits
<1> QED
  BY <1>1, <1>2, <1>3, <1>4

\* A deleter gives up, and touches nothing.
LEMMA DeleterLeaves ==
  ASSUME VideoInv, NEW d \in Deleters, vdel[d].at # "idle",
         vdel' = [vdel EXCEPT ![d] = VideoIdleDel], fresh' \in {fresh, fresh \ {d}},
         UNCHANGED <<video, job, stored, vwork, vask, late>>, faults' \in 0 .. MaxFaults,
         \/ cut' = cut \cup {vdel[d].t} /\ fresh' = fresh \ {d}
         \/ cut' = cut /\ vdel[d].at \in {"erase", "drop"} /\ video[vdel[d].t].owner # d
  PROVE  VideoInv'
<1>t. PICK t : t = vdel[d].t
  OBVIOUS
<1>1. t \in Tasks /\ (vdel[d].at \in {"erase", "drop"} /\ t \notin late => video[t].owner = d) /\ FreshFits
  BY <1>t, AtDeletion DEF VideoInv
<1>2. t \in late \cup cut'
  BY <1>t, <1>1
<1>3. ~ On(VideoIdleDel, t) /\ VideoIdleDel \in DelRows /\ VideoIdleDel.at = "idle"
  BY IdleVideoRows DEF On
<1>4. d \notin fresh'
  BY <1>1 DEF FreshFits
<1>5. cut' \in {cut, cut \cup {t}} /\ stored' \in {stored, stored \ {t}}
      /\ fresh' \in {fresh, fresh \cup {d}, fresh \ {d}} /\ vdel[d].t = t
  BY <1>t
<1> QED
  BY <1>1, <1>2, <1>3, <1>4, <1>5, DeleterGoesOn

\* The file goes.
LEMMA EraseStep ==
  ASSUME VideoInv, NEW d \in Deleters, Erase(d)
  PROVE  VideoInv'
<1>t. PICK t : t = vdel[d].t
  OBVIOUS
<1> DEFINE b == vdel[d]
           r == video[t]
<1>1. /\ b.at = "erase" /\ stored' = (IF b.key THEN stored \ {t} ELSE stored)
      /\ VideoDeleting(d, "drop") /\ UNCHANGED <<video, job, vwork, vask, fresh, videoHistory>>
  BY <1>t DEF Erase
<1>2. /\ t \in Tasks /\ VideoSets /\ b \in DelRows /\ DeleterFits(d, b, r, t \in late, d \in fresh)
      /\ (t \notin late \cup cut => ObjectFits(t))
      /\ (t \notin late => r.owner = d /\ \A w \in Workers : ~ On(vwork[w], t))
  BY <1>t, <1>1, AtDeletion
<1>3. PICK x \in DelRows : /\ vdel' = [vdel EXCEPT ![d] = x] /\ x.at = "drop" /\ x.t = t
                           /\ x.expire = b.expire /\ x.key = b.key
  BY <1>t, <1>2, <1>1, DeleterAt
<1>4. d \notin fresh'
  BY <1>1 DEF VideoInv, FreshFits
<1>5. DeleterFits(d, x, r, t \in late, FALSE)
  BY <1>2, <1>1, <1>3 DEF DeleterFits
<1>6. t \in late \cup cut' \/ ObjectFits(t)'
  <2> SUFFICES ASSUME t \notin late \cup cut PROVE ObjectFits(t)'
    BY <1>1 DEF videoHistory
  <2>1. \A w \in Workers : ~ Storing(vwork[w], t)
    BY <1>2 DEF Storing, On
  <2>2. t \notin stored'
    <3>1. b.key = r.key
      BY <1>2, <1>1 DEF DeleterFits
    <3>2. t \in stored => r.key
      BY <1>2, <2>1 DEF ObjectFits
    <3> QED
      BY <1>1, <3>1, <3>2
  <2>3. Dropping(vdel'[d], t)
    BY <1>2, <1>3 DEF Dropping, VideoSets
  <2> QED
    BY <1>1, <2>1, <2>2, <2>3 DEF ObjectFits
<1>7. UNCHANGED <<video, job, vwork, vask, late, cut>> /\ faults' \in 0 .. MaxFaults
      /\ stored' \in {stored, stored \ {t}} /\ fresh' = fresh
  BY <1>2, <1>1 DEF VideoSets, videoHistory
<1>8. b.t = t /\ (On(x, t) => DeleterFits(d, x, video[t], t \in late, d \in fresh'))
  BY <1>t, <1>4, <1>5 DEF DeleterFits
<1> QED
  BY <1>2, <1>3, <1>4, <1>6, <1>7, <1>8, DeleterGoesOn

\* The columns of a row that has lost its file, and of one that is gone.
LEMMA GoneRows ==
  ASSUME NEW r \in VideoRows
  PROVE  /\ LET m == [r EXCEPT !.art = "expired", !.key = FALSE] IN
              /\ m \in VideoRows /\ m.st = r.st /\ m.up = r.up /\ m.paused = r.paused
              /\ m.art = "expired" /\ m.key = FALSE /\ m.retries = r.retries /\ m.asked = r.asked
         /\ LET m == [NewVideo("deleted") EXCEPT !.retries = r.retries, !.asked = r.asked] IN
              /\ m \in VideoRows /\ m.st = "deleted" /\ m.up = 0 /\ m.paused = FALSE
              /\ m.art = "pending" /\ m.key = FALSE /\ m.retries = r.retries /\ m.asked = r.asked
              /\ m.owner = Nobody /\ m.leased = FALSE
<1>1. LET m == [r EXCEPT !.art = "expired", !.key = FALSE] IN
        /\ m \in VideoRows /\ m.st = r.st /\ m.up = r.up /\ m.paused = r.paused
        /\ m.art = "expired" /\ m.key = FALSE /\ m.retries = r.retries /\ m.asked = r.asked
  BY DEF VideoRows
<1>2. r.retries \in 0 .. MaxRetries /\ r.asked \in SUBSET Requests /\ 0 \in 0 .. MaxRetries + 1
  BY RowSorts, MediaBoundsAssumption
<1>3. LET m == [NewVideo("deleted") EXCEPT !.retries = r.retries, !.asked = r.asked] IN
        /\ m \in VideoRows /\ m.st = "deleted" /\ m.up = 0 /\ m.paused = FALSE
        /\ m.art = "pending" /\ m.key = FALSE /\ m.retries = r.retries /\ m.asked = r.asked
        /\ m.owner = Nobody /\ m.leased = FALSE
  <2>1. PICK z : z = NewVideo("deleted")
    OBVIOUS
  <2>2. /\ z \in VideoRows /\ z.st = "deleted" /\ z.up = 0 /\ z.paused = FALSE /\ z.art = "pending"
        /\ z.key = FALSE /\ z.owner = Nobody /\ z.leased = FALSE
    BY <1>2, <2>1, MediaBoundsAssumption DEF NewVideo, VideoRows, VideoStatuses, Owners
  <2> DEFINE m == [z EXCEPT !.retries = r.retries, !.asked = r.asked]
  <2>3. /\ m \in VideoRows /\ m.st = "deleted" /\ m.up = 0 /\ m.paused = FALSE
        /\ m.art = "pending" /\ m.key = FALSE /\ m.retries = r.retries /\ m.asked = r.asked
        /\ m.owner = Nobody /\ m.leased = FALSE
    BY <1>2, <2>2 DEF VideoRows
  <2> QED
    BY <2>1, <2>3
<1> QED
  BY <1>1, <1>3

\* The row goes, or says that its file has expired.
LEMMA DropStep ==
  ASSUME VideoInv, NEW d \in Deleters, Drop(d)
  PROVE  VideoInv'
<1>t. PICK t : t = vdel[d].t
  OBVIOUS
<1> DEFINE b == vdel[d]
           r == video[t]
           m == [r EXCEPT !.art = "expired", !.key = FALSE]
           n == IF b.expire THEN Unleased(m)
                ELSE [NewVideo("deleted") EXCEPT !.retries = r.retries, !.asked = r.asked]
<1>1. /\ b.at = "drop" /\ vdel' = [vdel EXCEPT ![d] = VideoIdleDel]
      /\ UNCHANGED <<job, stored, vwork, vask, videoHistory>>
      /\ (r.owner = d => SetVideo(t, n)) /\ (r.owner # d => UNCHANGED <<video, fresh>>)
  BY <1>t DEF Drop
<1>2. /\ t \in Tasks /\ VideoSets /\ r \in VideoRows /\ RowFits(r, job[t])
      /\ DeleterFits(d, b, r, t \in late, d \in fresh)
      /\ (\A w \in Workers : On(vwork[w], t) => WorkerFits(w, vwork[w], r, job[t], t \in late))
      /\ (t \notin late \cup cut => ObjectFits(t))
      /\ (t \notin late => r.owner = d /\ \A w \in Workers : ~ On(vwork[w], t))
  BY <1>t, <1>1, AtDeletion
<1>3. CASE r.owner # d
  <2>1. UNCHANGED <<late, cut>> /\ faults' \in 0 .. MaxFaults
    BY <1>2, <1>1 DEF VideoSets, videoHistory
  <2> QED
    BY <1>t, <1>1, <1>3, <2>1, DeleterLeaves
<1>4. CASE r.owner = d
  <2>1. /\ n \in VideoRows /\ n.retries = r.retries /\ n.asked = r.asked /\ n.owner = Nobody /\ ~ n.leased
        /\ ~ n.key /\ (b.expire => n.st = r.st /\ n.art = "expired" /\ n.paused = r.paused /\ n.up = r.up)
        /\ (~ b.expire => n.st = "deleted" /\ n.paused = FALSE /\ n.art = "pending")
    <3>1. CASE b.expire
      <4>1. /\ m \in VideoRows /\ m.st = r.st /\ m.up = r.up /\ m.paused = r.paused
            /\ m.art = "expired" /\ m.key = FALSE /\ m.retries = r.retries /\ m.asked = r.asked
        BY <1>2, GoneRows
      <4> HIDE DEF m
      <4>2. n = Unleased(m)
        BY <3>1
      <4>3. n \in VideoRows /\ SameTask(n, m) /\ n.owner = Nobody /\ ~ n.leased
        BY <4>1, <4>2, LeaseRows
      <4> HIDE DEF n
      <4> QED
        BY <3>1, <4>1, <4>3 DEF SameTask
    <3>2. CASE ~ b.expire
      <4>1. n = [NewVideo("deleted") EXCEPT !.retries = r.retries, !.asked = r.asked]
        BY <3>2
      <4> HIDE DEF n
      <4>2. /\ n \in VideoRows /\ n.st = "deleted" /\ n.up = 0 /\ n.paused = FALSE
            /\ n.art = "pending" /\ n.key = FALSE /\ n.retries = r.retries /\ n.asked = r.asked
            /\ n.owner = Nobody /\ n.leased = FALSE
        BY <1>2, <4>1, GoneRows
      <4> QED
        BY <3>2, <4>2
    <3> QED
      BY <3>1, <3>2
  <2>2. SetVideo(t, n)
    BY <1>1, <1>4
  <2> HIDE DEF m, n
  <2>3. b.expire => r.st = "completed" /\ r.art \in {"ready", "expired"} /\ ~ r.paused
    BY <1>2, <1>1, <1>4 DEF DeleterFits, RowFits
  <2>4. RowFits(n, job[t])
    BY <1>2, <2>1, <2>3 DEF RowFits
  <2>5. \A w \in Workers : Sending(vwork[w], t) => n.retries = r.retries /\ n.st \in {"unknown", "deleted"}
    BY <1>2, <2>1, <2>3 DEF Sending, On, WorkerFits
  <2>6. video'[t] = n
    BY <1>2, <2>2 DEF SetVideo, VideoSets
  <2>7. t \notin late \cup cut => ObjectFits(t)'
    <3> SUFFICES ASSUME t \notin late \cup cut PROVE ObjectFits(t)'
      OBVIOUS
    <3>1. t \notin stored /\ \A w \in Workers : ~ Storing(vwork[w], t)
      BY <1>t, <1>2, <1>1 DEF ObjectFits, Dropping, Storing, On
    <3>2. ~ (n.st = "completed" /\ n.art = "ready")
      BY <2>1
    <3> QED
      BY <1>1, <2>6, <3>1, <3>2 DEF ObjectFits
  <2>8. ~ On(VideoIdleDel, t) /\ n.st # "none" /\ n.owner \in {d, Nobody}
    BY <2>1, <2>3, IdleVideoRows DEF On
  <2> HIDE DEF r
  <2> QED
    BY <1>t, <1>2, <1>1, <1>4, <2>1, <2>2, <2>4, <2>5, <2>7, <2>8, IdleVideoRows, DeleterWrites DEF r
<1> QED
  BY <1>3, <1>4

\* The file cannot be removed, and the lease is given back; or the process stops.
LEMMA DeletionStops ==
  ASSUME VideoInv, NEW d \in Deleters, EraseFails(d) \/ DeleterStops(d)
  PROVE  VideoInv'
<1>t. PICK t : t = vdel[d].t
  OBVIOUS
<1> DEFINE b == vdel[d]
           r == video[t]
           n == Unleased(r)
<1>1. b.at # "idle" /\ vdel' = [vdel EXCEPT ![d] = VideoIdleDel]
  BY DEF EraseFails, DeleterStops
<1>2. /\ t \in Tasks /\ VideoSets /\ r \in VideoRows /\ RowFits(r, job[t])
      /\ DeleterFits(d, b, r, t \in late, d \in fresh)
      /\ (\A w \in Workers : On(vwork[w], t) => WorkerFits(w, vwork[w], r, job[t], t \in late))
      /\ (t \notin late \cup cut => ObjectFits(t))
  BY <1>t, <1>1, AtDeletion
<1>3. CASE DeleterStops(d)
  <2>1. /\ faults < MaxFaults /\ faults' = faults + 1 /\ cut' = cut \cup {vdel[d].t}
        /\ fresh' = fresh \ {d} /\ UNCHANGED <<video, job, stored, vwork, vask, late>>
    BY <1>3 DEF DeleterStops
  <2>2. faults' \in 0 .. MaxFaults
    BY <1>2, <2>1, MediaBoundsAssumption DEF VideoSets
  <2> QED
    BY <1>1, <2>1, <2>2, DeleterLeaves
<1>4. CASE EraseFails(d)
  <2>1. /\ b.at = "erase" /\ UNCHANGED <<job, stored, vwork, vask, videoHistory>>
        /\ (r.owner = d => SetVideo(t, n)) /\ (r.owner # d => UNCHANGED <<video, fresh>>)
    BY <1>t, <1>4 DEF EraseFails
  <2>2. CASE r.owner # d
    <3>1. UNCHANGED <<late, cut>> /\ faults' \in 0 .. MaxFaults
      BY <1>2, <2>1 DEF VideoSets, videoHistory
    <3> QED
      BY <1>t, <1>1, <2>1, <2>2, <3>1, DeleterLeaves
  <2>3. CASE r.owner = d
    <3>1. n \in VideoRows /\ SameTask(n, r) /\ n.owner = Nobody /\ ~ n.leased
      BY <1>2, LeaseRows
    <3>2. SetVideo(t, n)
      BY <2>1, <2>3
    <3> HIDE DEF n
    <3>3. r.st # "none" /\ r.st # "submitting"
      BY <1>2, <2>1, <2>3 DEF DeleterFits
    <3>4. RowFits(n, job[t])
      BY <1>2, <3>1, <3>3 DEF RowFits, SameTask
    <3>5. \A w \in Workers : Sending(vwork[w], t) => n.retries = r.retries /\ n.st \in {"unknown", "deleted"}
      BY <1>2, <3>1, <3>3 DEF Sending, On, WorkerFits, SameTask
    <3>6. video'[t] = n
      BY <1>2, <3>2 DEF SetVideo, VideoSets
    <3>7. \A e \in Deleters : Dropping(vdel'[e], t) <=> Dropping(vdel[e], t)
      BY <1>2, <1>1, <2>1, IdleVideoRows DEF Dropping, VideoSets
    <3>8. t \notin late \cup cut => ObjectFits(t)'
      BY <1>2, <2>1, <3>1, <3>6, <3>7, LeaseKeepsObject
    <3>9. ~ On(VideoIdleDel, t) /\ n.st # "none" /\ n.owner \in {d, Nobody}
      BY <3>1, <3>3, IdleVideoRows DEF On, SameTask
    <3> HIDE DEF r
    <3> QED
      BY <1>t, <1>2, <1>1, <2>1, <2>3, <3>1, <3>2, <3>4, <3>5, <3>8, <3>9, IdleVideoRows, DeleterWrites
      DEF r
  <2> QED
    BY <2>2, <2>3
<1> QED
  BY <1>3, <1>4 DEF EraseFails, DeleterStops

-----------------------------------------------------------------------------
(* Callers, the upstream and the clock.                                     *)

\* A caller reads a failed row, or is answered.
LEMMA CallerSteps ==
  ASSUME VideoInv, NEW c \in Callers,
         \/ \E t \in Tasks, q \in Requests : ReadFailed(c, t, q)
         \/ RetryReturns(c)
  PROVE  VideoInv'
<1>1. VideoSets /\ FreshFits /\ c \notin Deleters
  BY VideoSetsType, VideoRequestsAssumption DEF VideoInv
<1>2. UNCHANGED <<video, job, stored, vwork, vdel, videoHistory>>
  BY DEF ReadFailed, RetryReturns
<1> SUFFICES ASSUME NEW x \in AskRows, vask' = [vask EXCEPT ![c] = x],
                    fresh' \in {fresh \cup {c}, fresh \ {c}},
                    c \in fresh' => x.at = "read" /\ CallerFits(x, video[x.t])
             PROVE  VideoInv'
  <2>1. CASE RetryReturns(c)
    BY <2>1, IdleVideoRows DEF RetryReturns
  <2>2. CASE \E t \in Tasks, q \in Requests : ReadFailed(c, t, q)
    <3>1. PICK t \in Tasks, q \in Requests : ReadFailed(c, t, q)
      BY <2>2
    <3>2. PICK x : x = [at |-> "read", t |-> t, req |-> q]
      OBVIOUS
    <3>3. x \in AskRows /\ x.at = "read" /\ x.t = t /\ x.req = q
      BY <3>2 DEF AskRows
    <3>4. vask' = [vask EXCEPT ![c] = x] /\ fresh' = fresh \cup {c}
      BY <3>1, <3>2 DEF ReadFailed
    <3>5. CallerFits(x, video[t])
      BY <3>1, <3>3 DEF ReadFailed, CallerFits
    <3> QED
      BY <3>3, <3>4, <3>5
  <2> QED
    BY <2>1, <2>2
<1>3. vask' \in [Callers -> AskRows] /\ vask'[c] = x /\ \A e \in Callers \ {c} : vask'[e] = vask[e]
  BY <1>1 DEF VideoSets
<1>4. VideoSets'
  BY <1>1, <1>2, <1>3 DEF VideoSets, videoHistory
<1>5. \A e \in Callers \cup Deleters : e # c => (e \in fresh' <=> e \in fresh)
  OBVIOUS
<1>6. FreshFits'
  BY <1>1, <1>2, <1>3, <1>5 DEF FreshFits
<1>7. ASSUME NEW t \in Tasks PROVE TaskFits(t)'
  <2>1. TaskFits(t)
    BY DEF VideoInv
  <2>2. ASSUME NEW d \in Deleters, On(vdel'[d], t)
        PROVE  DeleterFits(d, vdel'[d], video'[t], t \in late', d \in fresh')
    <3>1. (d \in fresh' <=> d \in fresh) /\ DeleterFits(d, vdel[d], video[t], t \in late, d \in fresh)
      BY <1>1, <1>2, <1>5, <2>1, <2>2 DEF TaskFits
    <3> QED
      BY <1>2, <3>1 DEF DeleterFits, videoHistory
  <2>3. ASSUME NEW e \in Callers, e \in fresh', vask'[e].t = t PROVE CallerFits(vask'[e], video'[t])
    <3>1. CASE e = c
      BY <1>2, <1>3, <2>3, <3>1
    <3>2. CASE e # c
      BY <1>2, <1>3, <1>5, <2>1, <2>3, <3>2 DEF TaskFits
    <3> QED
      BY <3>1, <3>2
  <2>4. OneSender(t)'
    BY <1>2, <2>1 DEF TaskFits, OneSender
  <2>5. t \in late' \cup cut' \/ ObjectFits(t)'
    BY <1>2, <2>1 DEF TaskFits, ObjectFits, videoHistory
  <2>6. /\ RowFits(video'[t], job'[t])
        /\ \A w \in Workers :
             On(vwork'[w], t) => WorkerFits(w, vwork'[w], video'[t], job'[t], t \in late')
    BY <1>2, <2>1 DEF TaskFits, videoHistory
  <2> QED
    BY <2>2, <2>3, <2>4, <2>5, <2>6 DEF TaskFits
<1> QED
  BY <1>4, <1>6, <1>7, VideoSetsType DEF VideoInv

\* The upstream comes to an end with a job: what was done stays done, and what
\* cost nothing costs nothing.
LEMMA JobEndsStep ==
  ASSUME VideoInv, NEW t \in Tasks, NEW a \in Attempts, JobEnds(t, a)
  PROVE  VideoInv'
<1> DEFINE r == video[t]
           j == job[t]
<1>1. /\ VideoSets /\ FreshFits /\ TaskFits(t) /\ j \in JobRows /\ RowFits(r, j)
      /\ r.retries \in 0 .. MaxRetries
      /\ (\A w \in Workers : On(vwork[w], t) => WorkerFits(w, vwork[w], r, j, t \in late))
      /\ \A w \in Workers : vwork[w].try \in Attempts
  BY TaskFacts, RowSorts DEF VideoInv, VideoSets
<1>2. PICK s \in {"done", "failed"} : job' = [job EXCEPT ![t][a] = s] /\ j[a] = "running"
  BY DEF JobEnds
<1>3. UNCHANGED <<video, stored, vwork, vask, vdel, fresh, late, cut, faults>>
  BY DEF JobEnds, videoActors, videoHistory
<1> DEFINE k == [j EXCEPT ![a] = s]
<1>4. k \in JobRows /\ k[a] = s /\ \A e \in Attempts \ {a} : k[e] = j[e]
  BY <1>1 DEF JobRows, JobStates
<1>5. job' = [job EXCEPT ![t] = k]
  BY <1>2, Zenon
<1> HIDE DEF k
<1>6. job'[t] = k /\ (\A u \in Tasks \ {t} : job'[u] = job[u]) /\ VideoSets'
  BY <1>1, <1>3, <1>4, <1>5 DEF VideoSets
<1>7. \A e \in Attempts : (NotPaid(j[e]) => k[e] = j[e]) /\ (j[e] = "done" => k[e] = "done")
  BY <1>2, <1>4 DEF NotPaid
<1>8. FreshFits'
  BY <1>1, <1>3 DEF FreshFits
<1>9. ASSUME NEW u \in Tasks \ {t} PROVE Apart(u)
  BY <1>3, <1>6 DEF Apart
<1>r. r.retries + 1 \in Attempts
  BY <1>1, MediaBoundsAssumption DEF Attempts
<1>10. TaskFits(t)'
  <2>1. RowFits(r, k)
    <3>1. \A e \in Attempts : e # r.retries + 1 => NotPaid(k[e])
      BY <1>1, <1>7 DEF RowFits
    <3>2. r.st \in {"none", "misfiled", "failed"} => NotPaid(k[r.retries + 1])
      BY <1>1, <1>r, <1>7 DEF RowFits
    <3>3. r.st = "completed" => k[r.retries + 1] = "done"
      BY <1>1, <1>r, <1>7 DEF RowFits
    <3> QED
      BY <1>1, <3>1, <3>2, <3>3 DEF RowFits
  <2>2. ASSUME NEW w \in Workers, On(vwork[w], t)
        PROVE  WorkerFits(w, vwork[w], r, k, t \in late)
    <3>1. WorkerFits(w, vwork[w], r, j, t \in late) /\ vwork[w].try \in Attempts
      BY <1>1, <2>2
    <3>2. /\ NotPaid(j[vwork[w].try]) => NotPaid(k[vwork[w].try])
          /\ j[vwork[w].try] = "done" => k[vwork[w].try] = "done"
      BY <1>7, <3>1
    <3> QED
      BY <3>1, <3>2 DEF WorkerFits
  <2>3. OneSender(t)'
    BY <1>1, <1>3 DEF TaskFits, OneSender
  <2>4. t \in late' \cup cut' \/ ObjectFits(t)'
    BY <1>1, <1>3 DEF TaskFits, ObjectFits
  <2> QED
    BY <1>1, <1>3, <1>6, <2>1, <2>2, <2>3, <2>4 DEF TaskFits
<1> QED
  BY <1>6, <1>8, <1>9, <1>10, OneTaskStep

\* A lease runs out; under a holder, the task is late from then on.
LEMMA LeaseRunsOutStep ==
  ASSUME VideoInv, NEW t \in Tasks, VideoLeaseRunsOut(t)
  PROVE  VideoInv'
<1> DEFINE r == video[t]
           n == [r EXCEPT !.leased = FALSE]
<1>1. /\ VideoSets /\ FreshFits /\ r \in VideoRows /\ RowFits(r, job[t]) /\ OneSender(t)
      /\ (\A w \in Workers : On(vwork[w], t) => WorkerFits(w, vwork[w], r, job[t], t \in late))
      /\ (\A d \in Deleters : On(vdel[d], t) => DeleterFits(d, vdel[d], r, t \in late, d \in fresh))
      /\ (\A c \in Callers : c \in fresh /\ vask[c].t = t => CallerFits(vask[c], r))
      /\ (t \notin late \cup cut => ObjectFits(t))
  BY TaskFacts
<1>2. /\ r.leased /\ video' = [video EXCEPT ![t] = n]
      /\ UNCHANGED <<job, stored, vwork, vask, vdel, fresh, cut>>
  BY Zenon DEF VideoLeaseRunsOut, videoActors
<1>3. /\ n \in VideoRows /\ SameTask(n, r) /\ n.owner = r.owner /\ n.leased = FALSE
  BY <1>1 DEF VideoRows, SameTask
<1> HIDE DEF n
<1>4. video'[t] = n /\ \A u \in Tasks \ {t} : video'[u] = video[u]
  BY <1>1, <1>2 DEF VideoSets
<1>5. IF VideoHolds(t, r.owner) THEN faults < MaxFaults /\ faults' = faults + 1 /\ late' = late \cup {t}
                                ELSE UNCHANGED <<faults, late>>
  BY DEF VideoLeaseRunsOut
<1>6. VideoSets'
  <2>1. faults' \in 0 .. MaxFaults /\ late' \in SUBSET Tasks
    BY <1>1, <1>5, MediaBoundsAssumption DEF VideoSets
  <2>2. video' \in [Tasks -> VideoRows]
    BY <1>1, <1>2, <1>3 DEF VideoSets
  <2> QED
    BY <1>1, <1>2, <2>1, <2>2 DEF VideoSets
<1>7. FreshFits'
  BY <1>1, <1>2 DEF FreshFits
<1>8. ASSUME NEW u \in Tasks \ {t} PROVE Apart(u)
  BY <1>2, <1>4, <1>5 DEF Apart
<1>9. (\E w \in Workers : On(vwork[w], t))
        \/ (\E d \in Deleters : On(vdel[d], t) /\ vdel[d].at \in {"erase", "drop"}) => t \in late'
  <2>1. ASSUME NEW w \in Workers, On(vwork[w], t), t \notin late PROVE t \in late'
    <3>1. r.owner = w
      BY <1>1, <2>1 DEF WorkerFits
    <3> QED
      BY <1>5, <2>1, <3>1 DEF VideoHolds, On
  <2>2. ASSUME NEW d \in Deleters, On(vdel[d], t), vdel[d].at \in {"erase", "drop"}, t \notin late
        PROVE  t \in late'
    <3>1. r.owner = d
      BY <1>1, <2>2 DEF DeleterFits
    <3> QED
      BY <1>5, <2>2, <3>1 DEF VideoHolds, On
  <2> QED
    BY <1>5, <2>1, <2>2
<1>10. TaskFits(t)'
  <2>1. RowFits(n, job[t])
    BY <1>1, <1>2, <1>3 DEF RowFits, SameTask
  <2>2. ASSUME NEW w \in Workers, On(vwork[w], t)
        PROVE  WorkerFits(w, vwork[w], n, job[t], t \in late')
    BY <1>1, <1>3, <1>9, <2>2 DEF WorkerFits, SameTask
  <2>3. ASSUME NEW d \in Deleters, On(vdel[d], t)
        PROVE  DeleterFits(d, vdel[d], n, t \in late', d \in fresh)
    BY <1>1, <1>3, <1>9, <2>3 DEF DeleterFits, SameTask, Done
  <2>4. \A c \in Callers : c \in fresh /\ vask[c].t = t => CallerFits(vask[c], n)
    BY <1>1, <1>3 DEF CallerFits, SameTask
  <2>5. t \in late' \cup cut' \/ ObjectFits(t)'
    <3> SUFFICES ASSUME t \notin late \cup cut PROVE ObjectFits(t)'
      BY <1>2, <1>5
    <3> QED
      BY <1>1, <1>2, <1>3, <1>4, LeaseKeepsObject
  <2>6. OneSender(t)'
    BY <1>1, <1>2 DEF OneSender
  <2> QED
    BY <1>2, <1>4, <2>1, <2>2, <2>3, <2>4, <2>5, <2>6 DEF TaskFits
<1> QED
  BY <1>6, <1>7, <1>8, <1>10, OneTaskStep

\* A worker stops with its process.
LEMMA WorkerStopsStep ==
  ASSUME VideoInv, NEW w \in Workers, WorkerStops(w)
  PROVE  VideoInv'
<1>1. VideoSets
  BY VideoSetsType DEF VideoInv
<1>2. /\ vwork[w].at # "idle" /\ faults < MaxFaults /\ faults' = faults + 1
      /\ cut' = cut \cup {vwork[w].t} /\ VideoIdle(w)
      /\ UNCHANGED <<video, job, stored, vask, vdel, fresh, late>>
  BY DEF WorkerStops
<1>3. faults' \in 0 .. MaxFaults
  BY <1>1, <1>2, MediaBoundsAssumption DEF VideoSets
<1> QED
  BY <1>2, <1>3, WorkerLeaves

-----------------------------------------------------------------------------
(* Video tasks: the invariant.                                              *)

\* Every step keeps it.
LEMMA VideoStepInv == VideoInv /\ [VideoNext]_videoVars => VideoInv'
<1> SUFFICES ASSUME VideoInv, [VideoNext]_videoVars PROVE VideoInv'
  OBVIOUS
<1>1. CASE \E w \in Workers :
             \/ VideoWorkStep(w) \/ WorkerStops(w)
             \/ \E t \in Tasks : Submit(w, t) \/ ClaimDue(w, t)
  <2>1. PICK w \in Workers : \/ VideoWorkStep(w) \/ WorkerStops(w)
                             \/ \E t \in Tasks : Submit(w, t) \/ ClaimDue(w, t)
    BY <1>1
  <2>2. CASE VideoWorkStep(w)
    BY <2>2, WorkerQuietSteps, WorkerRequests, ReserveStep, FinishStep DEF VideoWorkStep
  <2>3. CASE WorkerStops(w)
    BY <2>3, WorkerStopsStep
  <2>4. CASE \E t \in Tasks : Submit(w, t) \/ ClaimDue(w, t)
    BY <2>4, SubmitStep, ClaimDueStep
  <2> QED
    BY <2>1, <2>2, <2>3, <2>4
<1>2. CASE \E c \in Callers :
             \/ RetryReturns(c)
             \/ \E w \in Workers : Retry(c, w)
             \/ \E t \in Tasks, q \in Requests : ReadFailed(c, t, q)
  BY <1>2, CallerSteps, RetryStep
<1>3. CASE \E d \in Deleters : VideoDeleteStep(d) \/ DeleterStops(d)
  <2>1. PICK d \in Deleters : VideoDeleteStep(d) \/ DeleterStops(d)
    BY <1>3
  <2>2. CASE \E t \in Tasks : VideoDeleteRead(d, t) \/ ExpireClaim(d, t)
    BY <2>2, DeleteReadStep, ExpireClaimStep
  <2>3. CASE VideoDeleteClaim(d) \/ Erase(d) \/ EraseFails(d) \/ Drop(d) \/ DeleterStops(d)
    BY <2>3, DeleteClaimStep, EraseStep, DropStep, DeletionStops
  <2> QED
    BY <2>1, <2>2, <2>3 DEF VideoDeleteStep
<1>4. CASE \E t \in Tasks :
             \/ RecoverSubmitting(t) \/ Reconcile(t) \/ Resume(t) \/ RetryDownload(t)
             \/ VideoLeaseRunsOut(t)
             \/ \E a \in Attempts : JobEnds(t, a)
  BY <1>4, RowsRecover, LeaseRunsOutStep, JobEndsStep
<1>5. CASE UNCHANGED videoVars
  <2>1. UNCHANGED <<video, job, stored, vwork, vask, vdel, fresh, late, cut, faults>>
    BY <1>5 DEF videoVars, videoOwn, videoActors
  <2>2. VideoTypeOK' /\ FreshFits'
    BY <2>1 DEF VideoInv, VideoTypeOK, FreshFits
  <2>3. ASSUME NEW t \in Tasks PROVE TaskFits(t)'
    <3>1. Apart(t)
      BY <2>1 DEF Apart
    <3> QED
      BY <3>1, ApartFits DEF VideoInv
  <2> QED
    BY <2>2, <2>3 DEF VideoInv
<1> QED
  BY <1>1, <1>2, <1>3, <1>4, <1>5 DEF VideoNext

\* New and misfiled rows satisfy it.
LEMMA VideoStart == VideoInit => VideoInv
<1> SUFFICES ASSUME VideoInit PROVE VideoInv
  OBVIOUS
<1>1. /\ video \in [Tasks -> {NewVideo("none"), NewVideo("misfiled")}]
      /\ job = [t \in Tasks |-> [a \in Attempts |-> "none"]] /\ stored = {}
      /\ vwork = [w \in Workers |-> VideoIdleWork] /\ vask = [c \in Callers |-> VideoIdleAsk]
      /\ vdel = [d \in Deleters |-> VideoIdleDel]
      /\ fresh = {} /\ late = {} /\ cut = {} /\ faults = 0
  BY DEF VideoInit
<1>2. ASSUME NEW s \in {"none", "misfiled"}
      PROVE  LET r == NewVideo(s) IN
             /\ r \in VideoRows /\ r.st = s /\ r.owner = Nobody /\ ~ r.leased /\ ~ r.key
             /\ ~ r.paused /\ r.art = "pending" /\ r.retries = 0 /\ r.asked = {}
  BY MediaBoundsAssumption DEF NewVideo, VideoRows, VideoStatuses, Owners
<1>3. VideoSets
  <2>1. video \in [Tasks -> VideoRows]
    BY <1>1, <1>2
  <2>2. job \in [Tasks -> JobRows]
    BY <1>1 DEF JobRows, JobStates
  <2>3. /\ vwork \in [Workers -> WorkRows] /\ vask \in [Callers -> AskRows]
        /\ vdel \in [Deleters -> DelRows]
    BY <1>1, IdleVideoRows
  <2>4. faults \in 0 .. MaxFaults
    BY <1>1, MediaBoundsAssumption
  <2> QED
    BY <1>1, <2>1, <2>2, <2>3, <2>4 DEF VideoSets
<1>4. ASSUME NEW t \in Tasks PROVE TaskFits(t)
  <2>1. /\ \A w \in Workers : vwork[w].at = "idle"
        /\ \A d \in Deleters : vdel[d].at = "idle"
    BY <1>1, IdleVideoRows
  <2>2. PICK s \in {"none", "misfiled"} : video[t] = NewVideo(s)
    BY <1>1
  <2>3. \A a \in Attempts : NotPaid(job[t][a])
    BY <1>1 DEF NotPaid
  <2>4. 1 \in Attempts /\ 0 + 1 = 1
    BY MediaBoundsAssumption DEF Attempts
  <2>5. RowFits(video[t], job[t])
    BY <1>2, <2>2, <2>3, <2>4, FS_EmptySet DEF RowFits
  <2>6. ObjectFits(t)
    BY <1>1, <1>2, <2>1, <2>2 DEF ObjectFits, Storing, Dropping
  <2> QED
    BY <1>1, <2>1, <2>5, <2>6 DEF TaskFits, On, OneSender, Sending
<1> QED
  BY <1>1, <1>3, <1>4, VideoSetsType DEF VideoInv, FreshFits

\* So it holds always.
LEMMA VideoInvariant == VideoSafetySpec => []VideoInv
BY VideoStart, VideoStepInv, PTL DEF VideoSafetySpec

\* The rows, jobs and actors of video tasks have their declared types.
THEOREM VideoType == VideoSafetySpec => []VideoTypeOK
<1>1. VideoInv => VideoTypeOK
  BY DEF VideoInv
<1> QED
  BY <1>1, VideoInvariant, PTL

\* A row that offers a video has its object unless a deletion is between the two, and
\* a deleted row leaves none behind; but for tasks whose actor stopped half-way or
\* outlived its lease.
THEOREM ObjectsAccounted == VideoSafetySpec => []ObjectAccounted
<1>1. VideoInv => ObjectAccounted
  <2> SUFFICES ASSUME VideoInv, NEW t \in Tasks \ (late \cup cut)
               PROVE  /\ video[t].st = "completed" /\ video[t].art = "ready" /\ t \notin stored
                           => \E d \in Deleters : vdel[d].at = "drop" /\ vdel[d].t = t
                      /\ video[t].st = "deleted" => t \notin stored
    BY DEF ObjectAccounted
  <2>1. ObjectFits(t) /\ RowFits(video[t], job[t])
        /\ \A w \in Workers :
             On(vwork[w], t) => WorkerFits(w, vwork[w], video[t], job[t], t \in late)
    BY TaskFacts
  <2>2. ASSUME video[t].st = "deleted" PROVE t \notin stored
    <3>1. ~ video[t].key /\ video[t].owner = Nobody
      BY <2>1, <2>2 DEF RowFits
    <3>2. ASSUME NEW w \in Workers, Storing(vwork[w], t) PROVE FALSE
      BY <2>1, <3>1, <3>2, MediaActorsAssumption DEF Storing, On, WorkerFits
    <3> QED
      BY <2>1, <3>1, <3>2 DEF ObjectFits
  <2> QED
    BY <2>1, <2>2 DEF ObjectFits, Dropping
<1> QED
  BY <1>1, VideoInvariant, PTL

\* However many requests retry a task at once, and however often one is sent again,
\* each accepted request_id starts one attempt and each further attempt has one.
THEOREM RetriesAsked == VideoSafetySpec => []RetryAcceptedOnce
<1>1. VideoInv => RetryAcceptedOnce
  BY TaskFacts DEF RowFits, RetryAcceptedOnce
<1> QED
  BY <1>1, VideoInvariant, PTL
-----------------------------------------------------------------------------
(* Refinement of PaidGeneration by video tasks.                             *)

VideoMaps == [VideoPaid!Next]_VideoPaid!vars

\* What the rows of a task mean there.
LEMMA VideoPhaseNames ==
  ASSUME NEW r
  PROVE  /\ r.st = "none" => VideoPhase(r) = "none"
         /\ r.st = "submitting" => VideoPhase(r) = "open"
         /\ r.st = "running" => VideoPhase(r) = IF r.paused THEN "paused" ELSE "open"
         /\ r.st = "completed" =>
              VideoPhase(r) = IF r.art \notin {"pending", "saving"} THEN "saved"
                              ELSE IF r.paused THEN "paused" ELSE "done"
         /\ r.st = "failed" => VideoPhase(r) = "failed"
         /\ r.st \in {"unknown", "misfiled"} => VideoPhase(r) = "unknown"
         /\ r.st = "deleted" => VideoPhase(r) = "gone"
<1>1. PICK s : s = r.st
  OBVIOUS
<1>2. /\ r.st = "none" => VideoPhase(r) = "none"
      /\ r.st = "submitting" => VideoPhase(r) = "open"
  BY DEF VideoPhase
<1>3. r.st = "failed" => VideoPhase(r) = "failed"
  BY DEF VideoPhase
<1>4. r.st = "deleted" => VideoPhase(r) = "gone"
  BY DEF VideoPhase
<1>5. r.st = "running" => VideoPhase(r) = IF r.paused THEN "paused" ELSE "open"
  BY DEF VideoPhase
<1>6. r.st \in {"unknown", "misfiled"} => VideoPhase(r) = "unknown"
  BY DEF VideoPhase
<1>7. ASSUME s = "completed"
      PROVE  VideoPhase(r) = IF r.art \notin {"pending", "saving"} THEN "saved"
                             ELSE IF r.paused THEN "paused" ELSE "done"
  BY <1>1, <1>7 DEF VideoPhase
<1> QED
  BY <1>1, <1>2, <1>7, <1>5, <1>6, <1>3, <1>4

\* Two rows that differ only in their lease mean the same.
LEMMA LeaseMeansNothing ==
  ASSUME NEW r \in VideoRows, NEW n, SameTask(n, r)
  PROVE  VideoPhase(n) = VideoPhase(r)
BY RowSorts, VideoPhaseNames DEF SameTask, VideoStatuses

\* At most one job of a task costs anything: its last.
LEMMA PaidOnce ==
  ASSUME NEW j \in JobRows, NEW m \in Attempts, \A a \in Attempts : a # m => NotPaid(j[a])
  PROVE  Cardinality({a \in Attempts : j[a] \in {"running", "done"}}) = IF NotPaid(j[m]) THEN 0 ELSE 1
<1>1. PICK S : S = {a \in Attempts : j[a] \in {"running", "done"}}
  OBVIOUS
<1>2. S = IF NotPaid(j[m]) THEN {} ELSE {m}
  BY <1>1 DEF NotPaid
<1>3. CASE NotPaid(j[m])
  BY <1>1, <1>2, <1>3, FS_EmptySet
<1>4. CASE ~ NotPaid(j[m])
  BY <1>1, <1>2, <1>4, FS_Singleton
<1> QED
  BY <1>3, <1>4

\* So paid is what the state of that job says.
LEMMA PaidNow ==
  ASSUME VideoInv, NEW t \in Tasks
  PROVE  /\ video[t].retries + 1 \in Attempts
         /\ Cardinality(PaidJobs(t)) = IF NotPaid(job[t][video[t].retries + 1]) THEN 0 ELSE 1
<1>1. video[t].retries + 1 \in Attempts
  BY TaskFacts, MediaBoundsAssumption DEF Attempts
<1> QED
  BY <1>1, TaskFacts, PaidOnce DEF RowFits, PaidJobs

\* A step that changes no row, job or lateness is a stutter.
LEMMA NothingMoves == UNCHANGED <<video, job, late>> => VideoMaps
BY DEF VideoMaps, VideoPaid!vars, PaidJobs

\* A new row n of task t is a move of its phase.
LEMMA RowMoves ==
  ASSUME VideoSets, NEW t \in Tasks, NEW n, video' = [video EXCEPT ![t] = n],
         UNCHANGED <<job, late>>
  PROVE  /\ \A from : VideoPhase(video[t]) \in from => VideoPaid!Move(t, from, VideoPhase(n))
         /\ VideoPhase(n) = VideoPhase(video[t]) => VideoMaps
<1> DEFINE P == [u \in Tasks |-> VideoPhase(video[u])]
           Q == [u \in Tasks |-> Cardinality(PaidJobs(u))]
<1>1. video'[t] = n /\ \A u \in Tasks \ {t} : video'[u] = video[u]
  BY DEF VideoSets
<1>2. P' = [P EXCEPT ![t] = VideoPhase(n)]
  <2>1. P' = [u \in Tasks |-> VideoPhase(video'[u])]
    OBVIOUS
  <2>2. \A u \in Tasks : VideoPhase(video'[u]) = IF u = t THEN VideoPhase(n) ELSE P[u]
    BY <1>1
  <2> QED
    BY <2>1, <2>2
<1>3. Q' = Q
  BY DEF PaidJobs
<1>4. P[t] = VideoPhase(video[t])
  OBVIOUS
<1>5. VideoPhase(n) = VideoPhase(video[t]) => P' = P
  BY <1>1
<1>6. ASSUME NEW from, VideoPhase(video[t]) \in from PROVE VideoPaid!Move(t, from, VideoPhase(n))
  <2>1. P[t] \in from
    BY <1>4, <1>6
  <2> HIDE DEF P, Q
  <2> QED
    BY <1>2, <1>3, <2>1 DEF VideoPaid!Move, VideoPaid!Enter, P, Q
<1>7. VideoPhase(n) = VideoPhase(video[t]) => VideoMaps
  BY <1>3, <1>5 DEF VideoMaps, VideoPaid!vars
<1> QED
  BY <1>6, <1>7

\* A changed job k of task t is a change of what it costs.
LEMMA JobMoves ==
  ASSUME VideoInv, NEW t \in Tasks, NEW k \in JobRows, job' = [job EXCEPT ![t] = k],
         UNCHANGED <<video, late>>,
         \A a \in Attempts : a # video[t].retries + 1 => NotPaid(k[a])
  PROVE  LET c == IF NotPaid(k[video[t].retries + 1]) THEN 0 ELSE 1 IN
         /\ [u \in Tasks |-> Cardinality(PaidJobs(u))]' =
              [[u \in Tasks |-> Cardinality(PaidJobs(u))] EXCEPT ![t] = c]
         /\ Cardinality(PaidJobs(t)) = c => VideoMaps
         /\ UNCHANGED [u \in Tasks |-> VideoPhase(video[u])]
<1> DEFINE m == video[t].retries + 1
           c == IF NotPaid(k[m]) THEN 0 ELSE 1
           Q == [u \in Tasks |-> Cardinality(PaidJobs(u))]
<1>1. VideoSets /\ m \in Attempts
  BY TaskFacts, PaidNow
<1>2. job'[t] = k /\ \A u \in Tasks \ {t} : job'[u] = job[u]
  BY <1>1 DEF VideoSets
<1>3. Cardinality({a \in Attempts : k[a] \in {"running", "done"}}) = c
  BY <1>1, PaidOnce
<1>4. PaidJobs(t)' = {a \in Attempts : k[a] \in {"running", "done"}}
  BY <1>2 DEF PaidJobs
<1>5. \A u \in Tasks \ {t} : PaidJobs(u)' = PaidJobs(u)
  BY <1>2 DEF PaidJobs
<1> HIDE DEF m, c
<1>6. Q' = [Q EXCEPT ![t] = c]
  BY <1>3, <1>4, <1>5
<1>7. Cardinality(PaidJobs(t)) = c => Q' = Q
  BY <1>6
<1>8. UNCHANGED [u \in Tasks |-> VideoPhase(video[u])]
  OBVIOUS
<1>9. Cardinality(PaidJobs(t)) = c => VideoMaps
  BY <1>7, <1>8 DEF VideoMaps, VideoPaid!vars
<1> QED
  BY <1>6, <1>8, <1>9 DEF c, m

\* Leases come and go without PaidGeneration, ...
LEMMA LeasesMap ==
  ASSUME VideoInv,
         \/ \E w \in Workers, t \in Tasks : ClaimDue(w, t)
         \/ \E w \in Workers : Reserve(w)
         \/ \E d \in Deleters : VideoDeleteClaim(d) \/ EraseFails(d) \/ \E t \in Tasks : ExpireClaim(d, t)
  PROVE  VideoMaps
<1>1. VideoSets
  BY VideoSetsType DEF VideoInv
<1>2. ASSUME NEW t \in Tasks, NEW n, SetVideo(t, n), SameTask(n, video[t]), UNCHANGED <<job, late>>
      PROVE  VideoMaps
  <2>1. VideoPhase(n) = VideoPhase(video[t])
    BY <1>1, <1>2, LeaseMeansNothing DEF VideoSets
  <2>2. video' = [video EXCEPT ![t] = n]
    BY <1>2 DEF SetVideo
  <2> QED
    BY <1>1, <1>2, <2>1, <2>2, RowMoves
<1>3. ASSUME NEW w \in Workers, NEW t \in Tasks, ClaimDue(w, t) PROVE VideoMaps
  <2>1. SetVideo(t, LeasedBy(video[t], w)) /\ UNCHANGED <<job, late>>
    BY <1>3 DEF ClaimDue, videoHistory
  <2>2. SameTask(LeasedBy(video[t], w), video[t])
    BY <1>1, LeaseRows DEF VideoSets, Owners
  <2> QED
    BY <1>2, <2>1, <2>2
<1>4. ASSUME NEW w \in Workers, Reserve(w) PROVE VideoMaps
  <2>1. PICK t : t = vwork[w].t
    OBVIOUS
  <2> DEFINE r == video[t]
             n == [r EXCEPT !.art = "saving", !.leased = TRUE]
  <2>2. vwork[w].at = "reserve" /\ r.owner = w /\ SetVideo(t, n) /\ UNCHANGED <<job, late>>
    BY <1>4, <2>1 DEF Reserve, videoHistory
  <2>3. t \in Tasks /\ r \in VideoRows /\ r.st = "completed" /\ r.art \in {"pending", "saving"}
    BY <2>1, <2>2, AtWork DEF WorkerFits
  <2>4. n.st = "completed" /\ n.art = "saving" /\ n.paused = r.paused
    BY <2>3 DEF VideoRows
  <2>5. video' = [video EXCEPT ![t] = n]
    BY <2>2 DEF SetVideo
  <2> HIDE DEF n
  <2>6. VideoPhase(n) = VideoPhase(r)
    BY <2>3, <2>4, VideoPhaseNames
  <2> QED
    BY <1>1, <2>2, <2>3, <2>5, <2>6, RowMoves
<1>5. ASSUME NEW d \in Deleters, VideoDeleteClaim(d) PROVE VideoMaps
  <2>1. CASE UNCHANGED video
    BY <1>5, <2>1, NothingMoves DEF VideoDeleteClaim, videoHistory
  <2>2. CASE SetVideo(vdel[d].t, LeasedBy(video[vdel[d].t], d))
    <3>1. vdel[d].t \in Tasks
      BY <1>1, RowSorts DEF VideoSets
    <3>2. SameTask(LeasedBy(video[vdel[d].t], d), video[vdel[d].t])
      BY <1>1, <3>1, LeaseRows DEF VideoSets, Owners
    <3>3. UNCHANGED <<job, late>>
      BY <1>5 DEF VideoDeleteClaim, videoHistory
    <3> QED
      BY <1>2, <2>2, <3>1, <3>2, <3>3
  <2> QED
    BY <1>5, <2>1, <2>2 DEF VideoDeleteClaim
<1>6. ASSUME NEW d \in Deleters, EraseFails(d) PROVE VideoMaps
  <2>1. CASE UNCHANGED video
    BY <1>6, <2>1, NothingMoves DEF EraseFails, videoHistory
  <2>2. CASE SetVideo(vdel[d].t, Unleased(video[vdel[d].t]))
    <3>1. vdel[d].t \in Tasks
      BY <1>1, RowSorts DEF VideoSets
    <3>2. SameTask(Unleased(video[vdel[d].t]), video[vdel[d].t])
      BY <1>1, <3>1, LeaseRows DEF VideoSets
    <3>3. UNCHANGED <<job, late>>
      BY <1>6 DEF EraseFails, videoHistory
    <3> QED
      BY <1>2, <2>2, <3>1, <3>2, <3>3
  <2> QED
    BY <1>6, <2>1, <2>2 DEF EraseFails
<1>7. ASSUME NEW d \in Deleters, NEW t \in Tasks, ExpireClaim(d, t) PROVE VideoMaps
  <2>1. SetVideo(t, LeasedBy(video[t], d)) /\ UNCHANGED <<job, late>>
    BY <1>7 DEF ExpireClaim, videoHistory
  <2>2. SameTask(LeasedBy(video[t], d), video[t])
    BY <1>1, LeaseRows DEF VideoSets, Owners
  <2> QED
    BY <1>2, <2>1, <2>2
<1> QED
  BY <1>3, <1>4, <1>5, <1>6, <1>7

\* ... except that a task is late when one ends under its holder.
LEMMA LateMaps ==
  ASSUME VideoInv, NEW t \in Tasks, VideoLeaseRunsOut(t)
  PROVE  VideoMaps
<1>1. VideoSets /\ video[t] \in VideoRows
  BY TaskFacts
<1> DEFINE n == [video[t] EXCEPT !.leased = FALSE]
<1>2. video' = [video EXCEPT ![t] = n] /\ UNCHANGED job
  BY Zenon DEF VideoLeaseRunsOut
<1>3. SameTask(n, video[t])
  BY <1>1 DEF VideoRows, SameTask
<1> HIDE DEF n
<1>4. VideoPhase(n) = VideoPhase(video[t])
  BY <1>1, <1>3, LeaseMeansNothing
<1>5. late' \in {late, late \cup {t}}
  BY DEF VideoLeaseRunsOut
<1>6. CASE late' = late
  BY <1>1, <1>2, <1>4, <1>6, RowMoves
<1>7. CASE late' = late \cup {t}
  <2>1. video'[t] = n /\ \A u \in Tasks \ {t} : video'[u] = video[u]
    BY <1>1, <1>2 DEF VideoSets
  <2>2. UNCHANGED [u \in Tasks |-> VideoPhase(video[u])]
    <3>1. \A u \in Tasks : VideoPhase(video'[u]) = VideoPhase(video[u])
      BY <1>4, <2>1
    <3> QED
      BY <3>1
  <2>3. UNCHANGED [u \in Tasks |-> Cardinality(PaidJobs(u))]
    BY <1>2 DEF PaidJobs
  <2> QED
    BY <1>7, <2>2, <2>3 DEF VideoMaps, VideoPaid!Next, VideoPaid!Overrun
<1> QED
  BY <1>5, <1>6, <1>7

\* Attempts begin where there was none, or where the last one cost nothing.
LEMMA AttemptsMap ==
  ASSUME VideoInv, NEW w \in Workers,
         (\E t \in Tasks : Submit(w, t)) \/ (\E c \in Callers : Retry(c, w))
  PROVE  VideoMaps
<1> USE DEF VideoMaps, VideoPaid!Next
<1>1. ASSUME NEW t \in Tasks, Submit(w, t) PROVE VideoMaps
  <2> DEFINE n == Submitting(video[t], w)
  <2>1. /\ VideoSets /\ video[t].st = "none" /\ video' = [video EXCEPT ![t] = n]
        /\ UNCHANGED <<job, late>> /\ video[t] \in VideoRows
    BY <1>1, TaskFacts DEF Submit, SetVideo, videoHistory
  <2>2. n.st = "submitting"
    BY <2>1 DEF Submitting, LeasedBy, VideoRows
  <2> HIDE DEF n
  <2>3. VideoPhase(video[t]) \in {"none"} /\ VideoPhase(n) = "open"
    BY <2>1, <2>2, VideoPhaseNames
  <2>4. VideoPaid!Move(t, {"none"}, "open")
    BY <2>1, <2>3, RowMoves
  <2> QED
    BY <2>4 DEF VideoPaid!Begin
<1>2. ASSUME NEW c \in Callers, Retry(c, w) PROVE VideoMaps
  <2>1. PICK t : t = vask[c].t
    OBVIOUS
  <2>2. PICK q : q = vask[c].req
    OBVIOUS
  <2>3. VideoSets /\ t \in Tasks /\ q \in Requests
    BY <2>1, <2>2, VideoSetsType, RowSorts DEF VideoInv, VideoSets
  <2>4. /\ video[t] \in VideoRows /\ RowFits(video[t], job[t])
    BY <2>3, TaskFacts
  <2> DEFINE k == Retried(video[t], q)
             n == Submitting(k, w)
  <2>5. /\ video[t].st = "failed" /\ video[t].retries < MaxRetries
        /\ video' = [video EXCEPT ![t] = n] /\ UNCHANGED <<job, late>>
    BY <1>2, <2>1, <2>2 DEF Retry, VideoRetryMatches, SetVideo, videoHistory
  <2>6. k \in VideoRows
    BY <2>3, <2>4, <2>5, RetriedRow
  <2> HIDE DEF k
  <2>7. n.st = "submitting"
    BY <2>6 DEF Submitting, LeasedBy, VideoRows
  <2> HIDE DEF n
  <2>8. VideoPhase(video[t]) \in {"failed"} /\ VideoPhase(n) = "open"
    BY <2>5, <2>7, VideoPhaseNames
  <2>9. VideoPaid!Move(t, {"failed"}, "open")
    BY <2>3, <2>5, <2>8, RowMoves
  <2>10. Cardinality(PaidJobs(t)) = 0
    BY <2>3, <2>4, <2>5, PaidNow DEF RowFits
  <2> QED
    BY <2>3, <2>9, <2>10 DEF VideoPaid!Again, VideoPaid!Move
<1> QED
  BY <1>1, <1>2

\* The upstream accepts an attempt only while the task is open, or late; it is paid
\* for then, and no more if the job fails.
LEMMA JobsMap ==
  ASSUME VideoInv,
         \/ \E w \in Workers : PostVideo(w)
         \/ \E t \in Tasks, a \in Attempts : JobEnds(t, a)
  PROVE  VideoMaps
<1> USE DEF VideoMaps, VideoPaid!Next
<1>1. ASSUME NEW w \in Workers, PostVideo(w) PROVE VideoMaps
  <2>1. PICK t : t = vwork[w].t
    OBVIOUS
  <2> DEFINE r == video[t]
             m == r.retries + 1
  <2>2. vwork[w].at = "post" /\ UNCHANGED <<video, late>>
    BY <1>1 DEF PostVideo, videoHistory
  <2>3. /\ t \in Tasks /\ r \in VideoRows /\ job[t] \in JobRows /\ RowFits(r, job[t])
        /\ WorkerFits(w, vwork[w], r, job[t], t \in late)
    BY <2>1, <2>2, AtWork
  <2>4. /\ vwork[w].try = m /\ NotPaid(job[t][m]) /\ r.st \in {"submitting", "unknown", "deleted"}
        /\ r.st \in {"unknown", "deleted"} => t \in late
    BY <2>2, <2>3 DEF WorkerFits
  <2>5. m \in Attempts /\ Cardinality(PaidJobs(t)) = 0
    BY <2>3, <2>4, PaidNow
  <2>6. CASE UNCHANGED job
    BY <2>2, <2>6, NothingMoves
  <2>7. CASE \E j \in {"running", "done", "failed"} : Accepted(w, j)
    <3>1. PICK j \in {"running", "done", "failed"} : Accepted(w, j)
      BY <2>7
    <3> DEFINE k == [job[t] EXCEPT ![m] = j]
    <3>2. k \in JobRows /\ k[m] = j /\ \A a \in Attempts : a # m => NotPaid(k[a])
      BY <2>3, <2>5 DEF JobRows, JobStates, RowFits
    <3>3. job' = [job EXCEPT ![t] = k]
      BY <2>1, <2>4, <3>1, Zenon DEF Accepted
    <3> HIDE DEF k
    <3> DEFINE c == IF NotPaid(j) THEN 0 ELSE 1
               Q == [u \in Tasks |-> Cardinality(PaidJobs(u))]
               P == [u \in Tasks |-> VideoPhase(video[u])]
    <3>4. Q' = [Q EXCEPT ![t] = c] /\ (Cardinality(PaidJobs(t)) = c => VideoMaps) /\ P' = P
      BY <2>2, <2>3, <3>2, <3>3, JobMoves
    <3>5. CASE c = 0
      BY <2>5, <3>4, <3>5
    <3>6. CASE c = 1
      <4>1. P[t] = "open" \/ (P[t] \in {"unknown", "gone"} /\ t \in late)
        BY <2>3, <2>4, VideoPhaseNames
      <4>2. Q[t] = 0
        BY <2>3, <2>5
      <4> HIDE DEF P, Q
      <4>3. Q' = [Q EXCEPT ![t] = 1]
        BY <3>4, <3>6
      <4> QED
        BY <2>2, <2>3, <3>4, <4>1, <4>2, <4>3 DEF VideoPaid!Pay, VideoPaid!Unanswered, P, Q
    <3> QED
      BY <3>5, <3>6
  <2> QED
    BY <1>1, <2>6, <2>7 DEF PostVideo
<1>2. ASSUME NEW t \in Tasks, NEW a \in Attempts, JobEnds(t, a) PROVE VideoMaps
  <2> DEFINE r == video[t]
             m == r.retries + 1
  <2>1. /\ VideoSets /\ r \in VideoRows /\ job[t] \in JobRows /\ RowFits(r, job[t]) /\ m \in Attempts
    BY TaskFacts, PaidNow
  <2>2. PICK j \in {"done", "failed"} : job' = [job EXCEPT ![t][a] = j]
    BY <1>2 DEF JobEnds
  <2>3. job[t][a] = "running" /\ UNCHANGED <<video, late>>
    BY <1>2 DEF JobEnds, videoHistory
  <2>4. a = m /\ Cardinality(PaidJobs(t)) = 1
    <3>1. a = m
      BY <2>1, <2>3 DEF RowFits, NotPaid
    <3> QED
      BY <2>1, <2>3, <3>1, PaidNow DEF NotPaid
  <2> DEFINE k == [job[t] EXCEPT ![a] = j]
  <2>5. k \in JobRows /\ k[m] = j /\ \A b \in Attempts : b # m => NotPaid(k[b])
    BY <2>1, <2>4 DEF JobRows, JobStates, RowFits
  <2>6. job' = [job EXCEPT ![t] = k]
    BY <2>2, Zenon
  <2> HIDE DEF k
  <2> DEFINE c == IF NotPaid(j) THEN 0 ELSE 1
             Q == [u \in Tasks |-> Cardinality(PaidJobs(u))]
             P == [u \in Tasks |-> VideoPhase(video[u])]
  <2>7. Q' = [Q EXCEPT ![t] = c] /\ (Cardinality(PaidJobs(t)) = c => VideoMaps) /\ P' = P
    BY <2>3, <2>5, <2>6, JobMoves
  <2>8. CASE j = "done"
    BY <2>4, <2>7, <2>8 DEF NotPaid
  <2>9. CASE j = "failed"
    <3>1. c = 0
      BY <2>9 DEF NotPaid
    <3>2. P[t] \in {"open", "paused", "unknown", "gone"}
      <4>1. r.st \in {"submitting", "running", "unknown", "deleted"}
        BY <2>1, <2>3, <2>4, RowSorts DEF RowFits, NotPaid, VideoStatuses
      <4> QED
        BY <4>1, VideoPhaseNames
    <3>3. Q[t] = 1
      BY <2>4
    <3> HIDE DEF P, Q
    <3>4. Q' = [Q EXCEPT ![t] = 0]
      BY <2>7, <3>1
    <3> QED
      BY <2>3, <2>7, <3>2, <3>3, <3>4 DEF VideoPaid!Waive, P, Q
  <2> QED
    BY <2>8, <2>9
<1> QED
  BY <1>1, <1>2

\* A result settles, loses, completes or pauses what its worker had open.
LEMMA FinishMaps ==
  ASSUME VideoInv, NEW w \in Workers, Finish(w)
  PROVE  VideoMaps
<1> USE DEF VideoMaps, VideoPaid!Next, VideoPaid!Progress
<1>t. PICK t : t = vwork[w].t
  OBVIOUS
<1>o. PICK o : o = vwork[w].out
  OBVIOUS
<1> DEFINE r == video[t]
           k == Applied(r, w)
           n == Unleased(k)
<1>1. /\ VideoSets /\ t \in Tasks /\ r \in VideoRows /\ RowFits(r, job[t]) /\ o \in Outcomes
      /\ WorkerFits(w, vwork[w], r, job[t], t \in late) /\ vwork[w].at = "finish"
  <2>1. vwork[w].at = "finish" /\ VideoSets
    BY VideoSetsType DEF Finish, VideoInv
  <2> QED
    BY <1>t, <1>o, <2>1, AtWork, RowSorts
<1>2. UNCHANGED <<job, late>>
  BY DEF Finish, videoHistory
<1>3. CASE r.owner # w
  <2>1. UNCHANGED video
    BY <1>t, <1>3 DEF Finish
  <2> QED
    BY <1>2, <2>1, NothingMoves
<1>4. CASE r.owner = w
  <2>1. video' = [video EXCEPT ![t] = n]
    BY <1>t, <1>4 DEF Finish, SetVideo
  <2>2. /\ k \in VideoRows
        /\ k.st = IF o \in {"rejected", "failed"} THEN "failed" ELSE IF o = "lost" THEN "unknown"
                  ELSE IF o \in {"running", "completed"} THEN o ELSE r.st
        /\ k.art = IF o \in {"unsaved", "unstored"} THEN "failed"
                   ELSE IF o = "saved" THEN "ready" ELSE r.art
        /\ k.paused <=> r.paused \/ o = "paused"
    BY <1>1, <1>o, AppliedRow
  <2> HIDE DEF k
  <2>3. n.st = k.st /\ n.art = k.art /\ n.paused = k.paused
    BY <2>2, LeaseRows DEF SameTask
  <2> HIDE DEF n
  <2>4. /\ vwork[w].try = r.retries + 1 /\ ~ r.paused /\ r.st \in {"submitting", "running", "completed"}
        /\ r.st = "completed" => r.art \in {"pending", "saving"}
        /\ o \in {"rejected", "lost"} => r.st = "submitting"
        /\ o \in {"running", "completed", "failed"} => r.st \in {"submitting", "running"}
        /\ o \in {"error", "paused"} => r.st \in {"running", "completed"}
        /\ o \in {"unsaved", "unstored", "saved"} => r.st = "completed"
        /\ o = "completed" => job[t][r.retries + 1] = "done"
        /\ o \in {"failed", "rejected"} => NotPaid(job[t][r.retries + 1])
    BY <1>1, <1>4, <1>o DEF WorkerFits
  <2>5. VideoPhase(r) = IF r.st = "completed" THEN "done" ELSE "open"
    BY <2>4, VideoPhaseNames
  <2>6. r.st \in {"submitting", "running"} => r.art = "pending"
    BY <1>1 DEF RowFits
  <2>7. \A from : VideoPhase(r) \in from => VideoPaid!Move(t, from, VideoPhase(n))
    BY <1>1, <1>2, <2>1, RowMoves
  <2>8. VideoPhase(n) = VideoPhase(r) => VideoMaps
    BY <1>1, <1>2, <2>1, RowMoves
  <2>9. Cardinality(PaidJobs(t)) = IF NotPaid(job[t][r.retries + 1]) THEN 0 ELSE 1
    BY <1>1, PaidNow
  <2> HIDE DEF r
  <2>10. CASE o \in {"rejected", "failed"}
    <3>1. VideoPhase(r) \in {"open", "unknown"} /\ VideoPhase(n) = "failed"
      BY <2>2, <2>3, <2>4, <2>5, <2>10, VideoPhaseNames
    <3>2. VideoPaid!Move(t, {"open", "unknown"}, "failed")
      BY <2>7, <3>1
    <3>3. Cardinality(PaidJobs(t)) = 0
      BY <2>4, <2>9, <2>10
    <3> QED
      BY <1>1, <3>2, <3>3 DEF VideoPaid!Refuse
  <2>11. CASE o = "lost"
    <3>1. VideoPhase(r) \in {"open"} /\ VideoPhase(n) = "unknown"
      BY <2>2, <2>3, <2>4, <2>5, <2>11, VideoPhaseNames
    <3>2. VideoPaid!Move(t, {"open"}, "unknown")
      BY <2>7, <3>1
    <3> QED
      BY <1>1, <3>2 DEF VideoPaid!Lose
  <2>12. CASE o \in {"running", "error"}
    <3>1. VideoPhase(n) = VideoPhase(r)
      BY <2>2, <2>3, <2>4, <2>5, <2>12, VideoPhaseNames
    <3> QED
      BY <2>8, <3>1
  <2>13. CASE o = "completed"
    <3>1. VideoPhase(r) \in {"open"} /\ VideoPhase(n) = "done"
      BY <2>2, <2>3, <2>4, <2>5, <2>6, <2>13, VideoPhaseNames
    <3>2. VideoPaid!Move(t, {"open"}, "done")
      BY <2>7, <3>1
    <3>3. Cardinality(PaidJobs(t)) = 1
      BY <2>4, <2>9, <2>13 DEF NotPaid
    <3> QED
      BY <1>1, <3>2, <3>3 DEF VideoPaid!Complete
  <2>14. CASE o = "paused"
    <3>1. VideoPhase(r) \in {"open", "done"} /\ VideoPhase(n) = "paused"
      BY <2>2, <2>3, <2>4, <2>5, <2>14, VideoPhaseNames
    <3>2. VideoPaid!Move(t, {"open", "done"}, "paused")
      BY <2>7, <3>1
    <3> QED
      BY <1>1, <3>2 DEF VideoPaid!Pause
  <2>15. CASE o \in {"unsaved", "unstored", "saved"}
    <3>1. VideoPhase(r) \in {"done"} /\ VideoPhase(n) = "saved"
      BY <2>2, <2>3, <2>4, <2>5, <2>15, VideoPhaseNames
    <3>2. VideoPaid!Move(t, {"done"}, "saved")
      BY <2>7, <3>1
    <3> QED
      BY <1>1, <3>2 DEF VideoPaid!Settle
  <2> QED
    BY <1>1, <2>10, <2>11, <2>12, <2>13, <2>14, <2>15 DEF Outcomes
<1> QED
  BY <1>3, <1>4

\* Recovery and the user move a task that is at rest, or lose an attempt.
LEMMA RecoveryMovesMap ==
  ASSUME VideoInv, NEW t \in Tasks,
         RecoverSubmitting(t) \/ Reconcile(t) \/ Resume(t) \/ RetryDownload(t)
  PROVE  VideoMaps
<1> USE DEF VideoMaps, VideoPaid!Next, VideoPaid!Progress
<1> DEFINE r == video[t]
<1>1. /\ VideoSets /\ r \in VideoRows /\ RowFits(r, job[t])
      /\ Cardinality(PaidJobs(t)) = IF NotPaid(job[t][r.retries + 1]) THEN 0 ELSE 1
  BY TaskFacts, PaidNow
<1>2. UNCHANGED <<job, late>>
  BY DEF RecoverSubmitting, Reconcile, Resume, RetryDownload, videoHistory
<1>3. CASE RecoverSubmitting(t)
  <2> DEFINE n == Unleased([r EXCEPT !.st = "unknown"])
  <2>1. r.st = "submitting" /\ video' = [video EXCEPT ![t] = n]
    BY <1>3 DEF RecoverSubmitting, SetVideo
  <2>2. n.st = "unknown"
    BY <1>1 DEF Unleased, VideoRows
  <2> HIDE DEF n
  <2>3. VideoPhase(video[t]) \in {"open"} /\ VideoPhase(n) = "unknown"
    BY <2>1, <2>2, VideoPhaseNames
  <2>4. VideoPaid!Move(t, {"open"}, "unknown")
    BY <1>1, <1>2, <2>1, <2>3, RowMoves
  <2> QED
    BY <2>4 DEF VideoPaid!Lose
<1>4. CASE Reconcile(t)
  <2> DEFINE n == [r EXCEPT !.st = "failed", !.leased = FALSE]
  <2>1. r.st = "misfiled" /\ video' = [video EXCEPT ![t] = n]
    BY <1>4 DEF Reconcile, SetVideo
  <2>2. n.st = "failed"
    BY <1>1 DEF VideoRows
  <2> HIDE DEF n
  <2>3. VideoPhase(video[t]) \in {"open", "unknown"} /\ VideoPhase(n) = "failed"
    BY <2>1, <2>2, VideoPhaseNames
  <2>4. VideoPaid!Move(t, {"open", "unknown"}, "failed")
    BY <1>1, <1>2, <2>1, <2>3, RowMoves
  <2>5. Cardinality(PaidJobs(t)) = 0
    BY <1>1, <2>1 DEF RowFits
  <2> QED
    BY <2>4, <2>5 DEF VideoPaid!Refuse
<1>5. CASE Resume(t)
  <2> DEFINE n == [r EXCEPT !.paused = FALSE]
  <2>1. r.paused /\ video' = [video EXCEPT ![t] = n]
    BY <1>5 DEF Resume, SetVideo
  <2>2. n.st = r.st /\ n.art = r.art /\ ~ n.paused
    BY <1>1 DEF VideoRows
  <2>3. r.st \in {"running", "completed"} /\ r.art \in {"pending", "saving"}
    BY <1>1, <2>1 DEF RowFits
  <2> HIDE DEF n
  <2>4. VideoPhase(video[t]) \in {"paused"} /\ VideoPhase(n) = IF r.st = "running" THEN "open" ELSE "done"
    BY <2>1, <2>2, <2>3, VideoPhaseNames
  <2>5. CASE r.st = "running"
    <3>1. VideoPaid!Move(t, {"paused"}, "open")
      BY <1>1, <1>2, <2>1, <2>4, <2>5, RowMoves
    <3> QED
      BY <3>1 DEF VideoPaid!Resume
  <2>6. CASE r.st = "completed"
    <3>1. VideoPhase(n) = "done"
      BY <2>4, <2>6
    <3>2. VideoPaid!Move(t, {"paused"}, "done")
      BY <1>1, <1>2, <2>1, <2>4, <3>1, RowMoves
    <3>3. Cardinality(PaidJobs(t)) = 1
      BY <1>1, <2>6 DEF RowFits, NotPaid
    <3> QED
      BY <3>2, <3>3 DEF VideoPaid!Resume
  <2> QED
    BY <2>3, <2>5, <2>6
<1>6. CASE RetryDownload(t)
  <2> DEFINE n == [r EXCEPT !.art = "pending", !.paused = FALSE]
  <2>1. r.st = "completed" /\ r.art = "failed" /\ video' = [video EXCEPT ![t] = n]
    BY <1>6 DEF RetryDownload, SetVideo
  <2>2. n.st = "completed" /\ n.art = "pending" /\ ~ n.paused
    BY <1>1, <2>1 DEF VideoRows
  <2> HIDE DEF n
  <2>3. VideoPhase(video[t]) \in {"saved"} /\ VideoPhase(n) = "done"
    BY <2>1, <2>2, VideoPhaseNames
  <2>4. VideoPaid!Move(t, {"saved"}, "done")
    BY <1>1, <1>2, <2>1, <2>3, RowMoves
  <2> QED
    BY <2>4 DEF VideoPaid!SaveAgain
<1> QED
  BY <1>3, <1>4, <1>5, <1>6

\* A task in progress is not removed, unless its worker is late; an expired file
\* leaves the task as settled as it was.
LEMMA DropMaps ==
  ASSUME VideoInv, NEW d \in Deleters, Drop(d)
  PROVE  VideoMaps
<1> USE DEF VideoMaps, VideoPaid!Next
<1>t. PICK t : t = vdel[d].t
  OBVIOUS
<1> DEFINE r == video[t]
           b == vdel[d]
<1>1. /\ t \in Tasks /\ VideoSets /\ r \in VideoRows /\ RowFits(r, job[t])
      /\ DeleterFits(d, b, r, t \in late, d \in fresh) /\ b.at = "drop"
  BY <1>t, AtDeletion DEF Drop
<1>2. UNCHANGED <<job, late>>
  BY DEF Drop, videoHistory
<1>3. CASE r.owner # d
  <2>1. UNCHANGED video
    BY <1>t, <1>3 DEF Drop
  <2> QED
    BY <1>2, <2>1, NothingMoves
<1>4. CASE r.owner = d /\ b.expire
  <2> DEFINE m == [r EXCEPT !.art = "expired", !.key = FALSE]
             n == Unleased(m)
  <2>1. video' = [video EXCEPT ![t] = n]
    BY <1>t, <1>4 DEF Drop, SetVideo
  <2>2. r.st = "completed" /\ r.art \in {"ready", "expired"}
    BY <1>1, <1>4 DEF DeleterFits
  <2>3. m \in VideoRows /\ m.st = r.st /\ m.art = "expired"
    BY <1>1, GoneRows
  <2> HIDE DEF m
  <2>4. n.st = r.st /\ n.art = "expired"
    BY <2>3, LeaseRows DEF SameTask
  <2> HIDE DEF n
  <2>5. VideoPhase(n) = VideoPhase(r)
    BY <2>2, <2>4, VideoPhaseNames
  <2> QED
    BY <1>1, <1>2, <2>1, <2>5, RowMoves
<1>5. CASE r.owner = d /\ ~ b.expire
  <2> DEFINE n == [NewVideo("deleted") EXCEPT !.retries = r.retries, !.asked = r.asked]
  <2>1. video' = [video EXCEPT ![t] = n]
    BY <1>t, <1>5 DEF Drop, SetVideo
  <2>2. n.st = "deleted"
    BY <1>1, GoneRows
  <2> HIDE DEF n
  <2>3. r.st # "none" /\ (t \in late \/ Done(r)) /\ r.st \in VideoStatuses
    BY <1>1, RowSorts DEF DeleterFits
  <2>4. VideoPhase(r) \in VideoPaid!Phases /\ VideoPhase(r) # "none"
    BY <2>3, VideoPhaseNames DEF VideoStatuses, VideoPaid!Phases
  <2>5. Done(r) => VideoPhase(r) \notin {"open", "done"}
    BY <1>1, <2>3, VideoPhaseNames DEF Done, RowFits, VideoStatuses
  <2>6. VideoPhase(n) = "gone"
    BY <2>2, VideoPhaseNames
  <2>7. VideoPaid!Move(t, VideoPaid!Phases, "gone")
    BY <1>1, <1>2, <2>1, <2>4, <2>6, RowMoves
  <2>8. VideoPaid!Removable(t)
    BY <1>1, <2>3, <2>4, <2>5 DEF VideoPaid!Removable
  <2> QED
    BY <1>1, <2>7, <2>8 DEF VideoPaid!Remove
<1> QED
  BY <1>3, <1>4, <1>5

\* Every step maps to a step of PaidGeneration or a stutter.
LEMMA VideoStepMaps == VideoInv /\ [VideoNext]_videoVars => VideoMaps
<1> SUFFICES ASSUME VideoInv, [VideoNext]_videoVars PROVE VideoMaps
  OBVIOUS
<1>1. ASSUME NEW w \in Workers,
             \/ Launch(w) \/ Query(w) \/ GiveUp(w) \/ Unreadable(w) \/ SaveFails(w) \/ Fetch(w)
             \/ Put(w) \/ WorkerStops(w)
      PROVE  UNCHANGED <<video, job, late>>
  BY <1>1 DEF Launch, Query, GiveUp, Unreadable, SaveFails, Fetch, Put, WorkerStops, videoHistory
<1>2. ASSUME NEW c \in Callers,
             RetryReturns(c) \/ \E t \in Tasks, q \in Requests : ReadFailed(c, t, q)
      PROVE  UNCHANGED <<video, job, late>>
  BY <1>2 DEF RetryReturns, ReadFailed, videoHistory
<1>3. ASSUME NEW d \in Deleters,
             Erase(d) \/ DeleterStops(d) \/ \E t \in Tasks : VideoDeleteRead(d, t)
      PROVE  UNCHANGED <<video, job, late>>
  BY <1>3 DEF Erase, DeleterStops, VideoDeleteRead, videoHistory
<1>4. CASE \E w \in Workers :
             \/ VideoWorkStep(w) \/ WorkerStops(w)
             \/ \E t \in Tasks : Submit(w, t) \/ ClaimDue(w, t)
  BY <1>1, <1>4, NothingMoves, LeasesMap, AttemptsMap, JobsMap, FinishMaps DEF VideoWorkStep
<1>5. CASE \E c \in Callers :
             \/ RetryReturns(c)
             \/ \E w \in Workers : Retry(c, w)
             \/ \E t \in Tasks, q \in Requests : ReadFailed(c, t, q)
  BY <1>2, <1>5, NothingMoves, AttemptsMap
<1>6. CASE \E d \in Deleters : VideoDeleteStep(d) \/ DeleterStops(d)
  BY <1>3, <1>6, NothingMoves, LeasesMap, DropMaps DEF VideoDeleteStep
<1>7. CASE \E t \in Tasks :
             \/ RecoverSubmitting(t) \/ Reconcile(t) \/ Resume(t) \/ RetryDownload(t)
             \/ VideoLeaseRunsOut(t)
             \/ \E a \in Attempts : JobEnds(t, a)
  BY <1>7, RecoveryMovesMap, LateMaps, JobsMap
<1>8. CASE UNCHANGED videoVars
  <2>1. UNCHANGED <<video, job, late>>
    BY <1>8 DEF videoVars, videoOwn
  <2> QED
    BY <2>1, NothingMoves
<1> QED
  BY <1>4, <1>5, <1>6, <1>7, <1>8 DEF VideoNext

\* Whatever processes stop, answers are lost and leases run out: a video is never
\* generated again while a job of it may still cost something, one with an unknown
\* outcome is left alone, and a task in progress is not deleted.
THEOREM VideoRefinesPaid == VideoSafetySpec => VideoPaid!SafetySpec
<1>1. VideoInit => VideoPaid!Init
  <2> SUFFICES ASSUME VideoInit PROVE VideoPaid!Init
    OBVIOUS
  <2>1. VideoInv
    BY VideoStart
  <2>2. ASSUME NEW t \in Tasks
        PROVE  VideoPhase(video[t]) \in {"none", "unknown"} /\ Cardinality(PaidJobs(t)) = 0
    <3>1. PICK s \in {"none", "misfiled"} : video[t] = NewVideo(s)
      BY DEF VideoInit
    <3>2. video[t].st = s
      BY <3>1 DEF NewVideo
    <3>3. VideoPhase(video[t]) \in {"none", "unknown"}
      BY <3>2, VideoPhaseNames
    <3>4. Cardinality(PaidJobs(t)) = 0
      BY <2>1, <3>2, PaidNow, TaskFacts DEF RowFits
    <3> QED
      BY <3>3, <3>4
  <2> QED
    BY <2>2 DEF VideoPaid!Init, VideoInit
<1>2. VideoInv /\ [VideoNext]_videoVars => [VideoPaid!Next]_VideoPaid!vars
  BY VideoStepMaps DEF VideoMaps
<1> QED
  BY <1>1, <1>2, VideoInvariant, PTL DEF VideoSafetySpec, VideoPaid!SafetySpec

-----------------------------------------------------------------------------
(* Audio tasks: what has to hold for FilesKept, and for the promise of       *)
(* PaidGeneration, to be inductive.                                          *)

Generating == {"input", "post", "payload", "marker", "publish", "failed", "unknown"}
SavePoints == {"read", "clear", "save", "close"}
ClaimedPoints == {"assets", "files", "row"}

\* Actor b is at task t: it generates, saves, or has claimed the row for deletion.
At(b, t) == b.at # "idle" /\ b.t = t
Gen(b, t) == b.at \in Generating /\ b.t = t
Sav(b, t) == b.at \in SavePoints /\ b.t = t
Claimed(b, t) == b.at \in ClaimedPoints /\ b.t = t

\* It will put the row back as it was if it fails.
Taken(b, t) == Claimed(b, t) /\ b.st # "deleting"
Bringing(b) == b.at \in {"create", "retry"}

\* The input of a task that waits or runs is stored, no other row names it, and no
\* deletion, clean-up or retry that is under way is going to remove it.
RowInputs ==
  \A t \in Tasks : audio[t].st \in {"queued", "running"} =>
    /\ audio[t].inp \in inputs
    /\ \A d \in Deleters : adel[d].inp # audio[t].inp
    /\ \A c \in Clients : aask[c].old # audio[t].inp

\* The same of an input that a request has just stored.
NewInputs ==
  \A c \in Clients : Bringing(aask[c]) =>
    /\ aask[c].inp \in inputs
    /\ \A t \in Tasks : audio[t].inp # aask[c].inp
    /\ \A d \in Deleters : adel[d].inp # aask[c].inp
    /\ \A e \in Clients : aask[e].old # aask[c].inp
    /\ \A e \in Clients : Bringing(aask[e]) /\ aask[e].inp = aask[c].inp => e = c

\* Keys that anybody knows were given out.
KnownInputs ==
  /\ \A t \in Tasks : audio[t].inp \in given \cup {Nobody}
  /\ \A t, u \in Tasks : audio[t].inp # Nobody /\ audio[u].inp = audio[t].inp => t = u
  /\ \A d \in Deleters : adel[d].inp \in given \cup {Nobody}
  /\ \A c \in Clients : aask[c].old \in given \cup {Nobody}

InputFits == RowInputs /\ NewInputs /\ KnownInputs

\* Only the attempt the row is at may have been paid for, and its worker agrees.
Unpaid(t) == paid[t] = {} /\ \A w \in Workers : ~ Gen(awork[w], t)

PaidFits(t) ==
  LET r == audio[t]  m == r.retries + 1 IN
  /\ paid[t] \subseteq {m}
  /\ \A a \in Attempts : stage[t][a] = "complete" => a \in paid[t]
  /\ r.st \in {"none", "queued", "failed"} => Unpaid(t)
  /\ r.st = "completed" => m \in paid[t]

GeneratorFits(t) ==
  LET r == audio[t]  m == r.retries + 1 IN
  \A w \in Workers : Gen(awork[w], t) =>
    /\ awork[w].try = m
    /\ r.st = "running" => r.owner = w
    /\ awork[w].at \in {"input", "post", "failed"} => m \notin paid[t]
    /\ awork[w].at \in {"payload", "marker", "publish"} => m \in paid[t]
    /\ awork[w].at \in {"payload", "marker"} => stage[t][m] # "complete"
    /\ \A u \in Workers : Gen(awork[u], t) => u = w

\* A sweep that found the result staged found a paid attempt that cannot fail.
SweepFits(t) ==
  \A s \in Sweepers : swept[s].at = "decided" /\ swept[s].t = t /\ swept[s].ok =>
    /\ swept[s].try \in paid[t]
    /\ \A w \in Workers : Gen(awork[w], t) => awork[w].at \notin {"payload", "marker"}

\* A deletion that puts the row back puts back what is still true.
DeletionFits(t) ==
  LET r == audio[t] IN
  /\ \A d \in Deleters : At(adel[d], t) =>
       /\ adel[d].st \notin {"none", "queued", "running", "deleted"}
       /\ adel[d].at = "claim" => adel[d].art \notin {"pending", "saving"}
  /\ \A d \in Deleters : Taken(adel[d], t) =>
       /\ r.st \in {"deleting", "deleted"}
       /\ \A e \in Deleters : Taken(adel[e], t) => e = d
       /\ r.st = "deleting" /\ adel[d].st = "failed" => Unpaid(t)
       /\ r.st = "deleting" /\ adel[d].st = "completed" => r.retries + 1 \in paid[t]

\* Unless its lease ran out, whoever works on the row has it.
HolderFits(t) ==
  \A w \in Workers : At(awork[w], t) =>
    /\ audio[t].owner = w /\ audio[t].leased
    /\ Gen(awork[w], t) => audio[t].st = "running"
    /\ Sav(awork[w], t) => audio[t].st = "completed" /\ audio[t].art = "saving"

\* The artefact goes with the status s, and a result that is to be saved was staged.
Shape(s, r) ==
  /\ s \notin {"completed", "deleting"} => r.art = "none"
  /\ s = "completed" => r.art # "none" /\ (r.art # "ready" => r.out # 0)

ShapeFits(t) ==
  LET r == audio[t] IN
  /\ Shape(r.st, r)
  /\ \A d \in Deleters : Taken(adel[d], t) /\ r.st = "deleting" => Shape(adel[d].st, r)
  /\ \A d \in Deleters : adel[d].at \in {"clean", "forget"} /\ adel[d].t = t /\ adel[d].art = "ready" =>
       r.art = "ready" \/ r.st = "deleted"

\* Files saved so far.
Counts ==
  \A w \in Workers :
    /\ awork[w].at \in {"read", "clear"} => awork[w].n = 0
    /\ awork[w].at = "save" => awork[w].n < Audios
    /\ awork[w].at # "close" => ~ awork[w].ok

LifeFits(t) ==
  /\ ShapeFits(t) /\ PaidFits(t) /\ GeneratorFits(t) /\ SweepFits(t) /\ DeletionFits(t)
  /\ t \in late \/ HolderFits(t)

\* A completed row has its result staged until it is saved, ...
StageFits(t) ==
  LET r == audio[t]  m == r.retries + 1 IN
  /\ r.st = "completed" /\ r.art # "ready" => stage[t][r.out] = "complete"
  /\ \A w \in Workers : Gen(awork[w], t) /\ awork[w].at = "publish" /\ r.st = "running" =>
       stage[t][m] = "complete"
  /\ \A s \in Sweepers : swept[s].at = "decided" /\ swept[s].t = t /\ swept[s].ok /\ r.st = "running" =>
       stage[t][m] = "complete"
  /\ \A d \in Deleters : Claimed(adel[d], t) => r.st \in {"deleting", "deleted"}

\* ... and saved with all its files by the one worker that has it.
AssetsFit(t) ==
  /\ audio[t].st = "completed" /\ audio[t].art = "ready" => assets[t] = Audios
  /\ \A w \in Workers : Sav(awork[w], t) =>
       /\ awork[w].at = "save" => assets[t] = awork[w].n
       /\ awork[w].at = "close" /\ awork[w].ok => assets[t] = Audios

ResultFits(t) == t \in spoiled \/ (StageFits(t) /\ (t \in late \/ AssetsFit(t)))

AudioFits(t) == LifeFits(t) /\ ResultFits(t)

-----------------------------------------------------------------------------
(* The declared sets of the audio tasks, by name.                           *)

Stages == {"none", "payload", "complete"}
StageRows == [Attempts -> Stages]
InputKeys == Inputs \cup {Nobody}
AudioWorkRows == [at : AudioWorkPoints, t : Tasks, try : Attempts, inp : InputKeys,
                  n : 0 .. Audios, ok : BOOLEAN]
SweepRows == [at : {"idle", "decided"}, t : Tasks, try : Attempts, ok : BOOLEAN]
AudioAskRows == [at : {"idle", "create", "capture", "retry", "drop", "resave"},
                 t : Tasks, inp : InputKeys, old : InputKeys]
AudioDelRows == [at : {"idle", "claim", "assets", "files", "row", "clean", "forget"},
                 t : Tasks, st : AudioStatuses, art : Artifacts, inp : InputKeys,
                 out : 0 .. MaxRetries + 1]

AudioSets ==
  /\ audio \in [Tasks -> AudioRows] /\ inputs \in SUBSET given /\ given \in SUBSET Inputs
  /\ stage \in [Tasks -> StageRows] /\ assets \in [Tasks -> Nat]
  /\ paid \in [Tasks -> SUBSET Attempts]
  /\ awork \in [Workers -> AudioWorkRows] /\ swept \in [Sweepers -> SweepRows]
  /\ aask \in [Clients -> AudioAskRows] /\ adel \in [Deleters -> AudioDelRows]
  /\ late \in SUBSET Tasks /\ spoiled \in SUBSET Tasks /\ faults \in 0 .. MaxFaults

AudioInv == AudioSets /\ Counts /\ InputFits /\ \A t \in Tasks : AudioFits(t)

\* What a row of each kind consists of.
LEMMA AudioSorts ==
  /\ \A r \in AudioRows :
       /\ r.st \in AudioStatuses /\ r.art \in Artifacts /\ r.owner \in Workers \cup {Nobody}
       /\ r.leased \in BOOLEAN /\ r.inp \in InputKeys /\ r.out \in 0 .. MaxRetries + 1
       /\ r.retries \in 0 .. MaxRetries
  /\ \A b \in AudioWorkRows : /\ b.at \in AudioWorkPoints /\ b.t \in Tasks /\ b.try \in Attempts
                              /\ b.inp \in InputKeys /\ b.n \in 0 .. Audios /\ b.ok \in BOOLEAN
  /\ \A b \in SweepRows : /\ b.at \in {"idle", "decided"} /\ b.t \in Tasks /\ b.try \in Attempts
                          /\ b.ok \in BOOLEAN
  /\ \A b \in AudioAskRows : /\ b.at \in {"idle", "create", "capture", "retry", "drop", "resave"}
                             /\ b.t \in Tasks /\ b.inp \in InputKeys /\ b.old \in InputKeys
  /\ \A b \in AudioDelRows :
       /\ b.at \in {"idle", "claim", "assets", "files", "row", "clean", "forget"}
       /\ b.t \in Tasks /\ b.st \in AudioStatuses /\ b.art \in Artifacts /\ b.inp \in InputKeys
       /\ b.out \in 0 .. MaxRetries + 1
BY DEF AudioRows, AudioWorkRows, SweepRows, AudioAskRows, AudioDelRows, InputKeys

\* The idle rows.
LEMMA IdleAudioRows ==
  /\ AudioIdleWork \in AudioWorkRows /\ AudioIdleWork.at = "idle" /\ ~ AudioIdleWork.ok
  /\ IdleSweep \in SweepRows /\ IdleSweep.at = "idle"
  /\ AudioIdleAsk \in AudioAskRows /\ AudioIdleAsk.at = "idle" /\ AudioIdleAsk.old = Nobody
  /\ AudioIdleDel \in AudioDelRows /\ AudioIdleDel.at = "idle" /\ AudioIdleDel.inp = Nobody
<1>1. AnyTask \in Tasks
  BY MediaTasksAssumption DEF AnyTask
<1>2. 1 \in Attempts /\ 0 \in 0 .. MaxRetries + 1 /\ 0 \in 0 .. Audios
  BY MediaBoundsAssumption, AudioBoundsAssumption DEF Attempts
<1> QED
  BY <1>1, <1>2 DEF AudioIdleWork, IdleSweep, AudioIdleAsk, AudioIdleDel, AudioWorkRows, SweepRows,
     AudioAskRows, AudioDelRows, AudioWorkPoints, InputKeys, AudioStatuses, Artifacts

\* What the invariant says of one task.
LEMMA AudioFacts ==
  ASSUME AudioInv
  PROVE  /\ AudioSets /\ Counts /\ InputFits
         /\ \A t \in Tasks :
              /\ AudioFits(t) /\ audio[t] \in AudioRows /\ stage[t] \in StageRows
              /\ paid[t] \in SUBSET Attempts /\ assets[t] \in Nat
         /\ \A w \in Workers : awork[w] \in AudioWorkRows
         /\ \A s \in Sweepers : swept[s] \in SweepRows
         /\ \A c \in Clients : aask[c] \in AudioAskRows
         /\ \A d \in Deleters : adel[d] \in AudioDelRows
BY DEF AudioInv, AudioSets

-----------------------------------------------------------------------------
(* A step leaves the tasks alone that it is not about.                      *)

\* Task u stays as it is, and nobody new comes to it.
AudioApart(u) ==
  /\ audio'[u] = audio[u] /\ stage'[u] = stage[u] /\ assets'[u] = assets[u] /\ paid'[u] = paid[u]
  /\ (u \in late => u \in late') /\ (u \in spoiled => u \in spoiled')
  /\ \A w \in Workers : awork'[w] = awork[w] \/ ~ At(awork'[w], u)
  /\ \A s \in Sweepers : swept'[s] = swept[s] \/ ~ At(swept'[s], u)
  /\ \A d \in Deleters : adel'[d] = adel[d] \/ ~ At(adel'[d], u)

\* Such a task stays fit.
LEMMA AudioApartFits ==
  ASSUME NEW u \in Tasks, AudioFits(u), AudioApart(u)
  PROVE  AudioFits(u)'
<1> DEFINE r == audio[u]
<1>1. /\ audio'[u] = r /\ stage'[u] = stage[u] /\ assets'[u] = assets[u] /\ paid'[u] = paid[u]
      /\ (u \in late => u \in late') /\ (u \in spoiled => u \in spoiled')
  BY DEF AudioApart
<1>2. ASSUME NEW w \in Workers, At(awork'[w], u) PROVE awork'[w] = awork[w] /\ At(awork[w], u)
  BY <1>2 DEF AudioApart
<1>3. ASSUME NEW s \in Sweepers, At(swept'[s], u) PROVE swept'[s] = swept[s]
  BY <1>3 DEF AudioApart
<1>4. ASSUME NEW d \in Deleters, At(adel'[d], u) PROVE adel'[d] = adel[d]
  BY <1>4 DEF AudioApart
<1>5. \A w \in Workers : (Gen(awork'[w], u) \/ Sav(awork'[w], u)) => awork'[w] = awork[w]
  BY <1>2 DEF At, Gen, Sav, Generating, SavePoints
<1>6. \A d \in Deleters :
        (Claimed(adel'[d], u) \/ (adel'[d].at \in {"clean", "forget"} /\ adel'[d].t = u))
          => adel'[d] = adel[d]
  BY <1>4 DEF At, Claimed, ClaimedPoints
<1>7. \A s \in Sweepers : swept'[s].at = "decided" /\ swept'[s].t = u => swept'[s] = swept[s]
  BY <1>3 DEF At
<1>8. LifeFits(u)
  BY DEF AudioFits
<1>9. ShapeFits(u)'
  BY <1>1, <1>6, <1>8 DEF LifeFits, ShapeFits, Shape, Taken
<1>10. PaidFits(u)'
  BY <1>1, <1>5, <1>8 DEF LifeFits, PaidFits, Unpaid
<1>11. GeneratorFits(u)'
  BY <1>1, <1>5, <1>8 DEF LifeFits, GeneratorFits
<1>12. SweepFits(u)'
  BY <1>1, <1>5, <1>7, <1>8 DEF LifeFits, SweepFits
<1>13. DeletionFits(u)'
  BY <1>1, <1>4, <1>5, <1>6, <1>8 DEF LifeFits, DeletionFits, Unpaid, Taken
<1>14. u \in late' \/ HolderFits(u)'
  BY <1>1, <1>2, <1>8 DEF LifeFits, HolderFits
<1>15. u \in spoiled' \/ StageFits(u)'
  BY <1>1, <1>5, <1>6, <1>7 DEF AudioFits, ResultFits, StageFits
<1>16. u \in spoiled' \/ u \in late' \/ AssetsFit(u)'
  BY <1>1, <1>5 DEF AudioFits, ResultFits, AssetsFit
<1> QED
  BY <1>9, <1>10, <1>11, <1>12, <1>13, <1>14, <1>15, <1>16 DEF AudioFits, LifeFits, ResultFits

\* So a step has to be examined for one task only.
LEMMA OneAudioStep ==
  ASSUME AudioInv, AudioSets', Counts', InputFits', NEW t \in Tasks, AudioFits(t)',
         \A u \in Tasks \ {t} : AudioApart(u)
  PROVE  AudioInv'
<1>1. ASSUME NEW u \in Tasks PROVE AudioFits(u)'
  <2>1. CASE u = t
    BY <2>1
  <2>2. CASE u # t
    BY <2>2, AudioApartFits DEF AudioInv
  <2> QED
    BY <2>1, <2>2
<1> QED
  BY <1>1 DEF AudioInv

\* Or for none.
LEMMA NoTaskStep ==
  ASSUME AudioInv, AudioSets', Counts', InputFits', \A u \in Tasks : AudioApart(u)
  PROVE  AudioInv'
BY AudioApartFits DEF AudioInv

-----------------------------------------------------------------------------
(* Inputs.                                                                   *)

Going(r) == r.st \in {"queued", "running"}

\* Row t was read at rest by one who now knows its input k.
ReadAtRest(k) == \E t \in Tasks : k = audio[t].inp /\ ~ Going(audio[t])

\* Inputs are removed by those who know them; no input comes, nobody begins.
CalmInputs ==
  /\ given' = given /\ inputs' \subseteq inputs
  /\ \A i \in inputs \ inputs' :
       \/ \E d \in Deleters : adel[d].inp = i
       \/ \E c \in Clients : aask[c].old = i
       \/ \E c \in Clients : Bringing(aask[c]) /\ aask[c].inp = i /\ aask'[c] # aask[c]
  /\ \A t \in Tasks :
       \/ audio'[t].inp = audio[t].inp /\ (Going(audio'[t]) => Going(audio[t]))
       \/ audio'[t].inp = Nobody /\ ~ Going(audio'[t])
  /\ \A d \in Deleters : adel'[d].inp \in {adel[d].inp, Nobody} \/ ReadAtRest(adel'[d].inp)
  /\ \A c \in Clients :
       \/ aask'[c] = aask[c]
       \/ /\ ~ Bringing(aask'[c])
          /\ aask'[c].old \in {aask[c].old, Nobody} \/ ReadAtRest(aask'[c].old)

\* Nobody who waits or runs misses its input then.
LEMMA CalmInputsFit ==
  ASSUME AudioInv, CalmInputs
  PROVE  InputFits'
<1>1. RowInputs /\ NewInputs /\ KnownInputs /\ AudioSets /\ Nobody \notin inputs
  BY AudioFacts, AudioInputsAssumption DEF InputFits, AudioSets
<1>2. ASSUME NEW k, ReadAtRest(k)
      PROVE  /\ k \in given \cup {Nobody}
             /\ \A t \in Tasks : Going(audio[t]) => audio[t].inp # k
             /\ \A c \in Clients : Bringing(aask[c]) => aask[c].inp # k
  BY <1>1, <1>2 DEF ReadAtRest, RowInputs, NewInputs, KnownInputs, Going
<1>3. \A c \in Clients : Bringing(aask'[c]) => aask'[c] = aask[c]
  BY DEF CalmInputs
<1>4. \A t \in Tasks : Going(audio'[t]) => Going(audio[t]) /\ audio'[t].inp = audio[t].inp
  BY DEF CalmInputs
<1>5. \A t \in Tasks : audio'[t].inp \in {audio[t].inp, Nobody}
  BY DEF CalmInputs
<1>6. \A d \in Deleters : adel'[d].inp \in {adel[d].inp, Nobody} \/ ReadAtRest(adel'[d].inp)
  BY DEF CalmInputs
<1>7. \A c \in Clients : aask'[c].old \in {aask[c].old, Nobody} \/ ReadAtRest(aask'[c].old)
  BY DEF CalmInputs
<1>8. \A t \in Tasks : Going(audio[t]) => audio[t].inp \in inputs'
  BY <1>1 DEF CalmInputs, RowInputs, NewInputs, Going
<1>9. \A c \in Clients : Bringing(aask'[c]) => aask[c].inp \in inputs'
  BY <1>1, <1>3 DEF CalmInputs, NewInputs
<1>10. RowInputs'
  <2> SUFFICES ASSUME NEW t \in Tasks, Going(audio'[t])
      PROVE  /\ audio'[t].inp \in inputs'
             /\ \A d \in Deleters : adel'[d].inp # audio'[t].inp
             /\ \A c \in Clients : aask'[c].old # audio'[t].inp
    BY DEF RowInputs, Going
  <2>1. Going(audio[t]) /\ audio'[t].inp = audio[t].inp /\ audio[t].inp \in inputs'
    BY <1>4, <1>8
  <2>2. audio[t].inp # Nobody
    BY <1>1, <2>1 DEF RowInputs, Going
  <2>3. \A d \in Deleters : adel'[d].inp # audio[t].inp
    BY <1>1, <1>2, <1>6, <2>1, <2>2 DEF RowInputs, Going
  <2>4. \A c \in Clients : aask'[c].old # audio[t].inp
    BY <1>1, <1>2, <1>7, <2>1, <2>2 DEF RowInputs, Going
  <2> QED
    BY <2>1, <2>3, <2>4
<1>11. NewInputs'
  <2> SUFFICES ASSUME NEW c \in Clients, Bringing(aask'[c])
      PROVE  /\ aask'[c].inp \in inputs'
             /\ \A t \in Tasks : audio'[t].inp # aask'[c].inp
             /\ \A d \in Deleters : adel'[d].inp # aask'[c].inp
             /\ \A e \in Clients : aask'[e].old # aask'[c].inp
             /\ \A e \in Clients : Bringing(aask'[e]) /\ aask'[e].inp = aask'[c].inp => e = c
    BY DEF NewInputs
  <2>1. aask'[c] = aask[c] /\ Bringing(aask[c]) /\ aask[c].inp \in inputs' /\ aask[c].inp # Nobody
    BY <1>1, <1>3, <1>9 DEF NewInputs
  <2>2. \A t \in Tasks : audio'[t].inp # aask[c].inp
    BY <1>1, <1>5, <2>1 DEF NewInputs
  <2>3. \A d \in Deleters : adel'[d].inp # aask[c].inp
    BY <1>1, <1>2, <1>6, <2>1 DEF NewInputs
  <2>4. \A e \in Clients : aask'[e].old # aask[c].inp
    BY <1>1, <1>2, <1>7, <2>1 DEF NewInputs
  <2>5. \A e \in Clients : Bringing(aask'[e]) /\ aask'[e].inp = aask[c].inp => e = c
    BY <1>1, <1>3, <2>1 DEF NewInputs
  <2> QED
    BY <2>1, <2>2, <2>3, <2>4, <2>5
<1>12. KnownInputs'
  <2>1. given' = given
    BY DEF CalmInputs
  <2> QED
    BY <1>1, <1>2, <1>5, <1>6, <1>7, <2>1 DEF KnownInputs
<1> QED
  BY <1>10, <1>11, <1>12 DEF InputFits

\* A new input is nobody else's.
LEMMA NewInputFits ==
  ASSUME AudioInv, NEW c \in Clients, NEW i \in Inputs, NEW x \in AudioAskRows,
         Capture(c, i), aask' = [aask EXCEPT ![c] = x], x.inp = i, x.old \in {aask[c].old, Nobody},
         UNCHANGED <<audio, adel>>
  PROVE  InputFits'
<1>1. RowInputs /\ NewInputs /\ KnownInputs /\ AudioSets /\ inputs \subseteq given
  BY AudioFacts DEF InputFits, AudioSets
<1>2. i \notin given /\ given' = given \cup {i} /\ inputs' = inputs \cup {i}
  BY DEF Capture
<1>3. aask'[c] = x /\ \A e \in Clients \ {c} : aask'[e] = aask[e]
  BY <1>1 DEF AudioSets
<1>4. i # Nobody
  BY AudioInputsAssumption
<1>5. /\ \A t \in Tasks : audio[t].inp # i
      /\ \A d \in Deleters : adel[d].inp # i
      /\ \A e \in Clients : aask[e].old # i
      /\ \A e \in Clients : Bringing(aask[e]) => aask[e].inp # i
  BY <1>1, <1>2, <1>4 DEF KnownInputs, NewInputs
<1>6. \A e \in Clients : aask'[e].old \in {aask[e].old, Nobody}
  BY <1>3
<1>7. RowInputs'
  BY <1>1, <1>2, <1>6, AudioInputsAssumption DEF RowInputs, AudioSets
<1>8. NewInputs'
  <2>1. \A e \in Clients : Bringing(aask[e]) => aask[e].inp \in Inputs
    BY <1>1 DEF NewInputs, AudioSets
  <2>2. \A e \in Clients : aask'[e].old # i
    BY <1>4, <1>5, <1>6
  <2>3. \A e \in Clients \ {c}, f \in Clients : Bringing(aask[e]) => aask'[f].old # aask[e].inp
    BY <1>1, <1>6, <2>1, AudioInputsAssumption DEF NewInputs
  <2> QED
    BY <1>1, <1>2, <1>3, <1>5, <2>2, <2>3 DEF NewInputs
<1>9. KnownInputs'
  BY <1>1, <1>2, <1>6 DEF KnownInputs
<1> QED
  BY <1>7, <1>8, <1>9 DEF InputFits

\* A row takes over the input its caller has stored for it.
LEMMA InputTaken ==
  ASSUME AudioInv, NEW c \in Clients, NEW x \in AudioAskRows, NEW t \in Tasks, NEW n \in AudioRows,
         Bringing(aask[c]), aask' = [aask EXCEPT ![c] = x], ~ Bringing(x),
         x.old \in {aask[c].old, Nobody},
         audio' = [audio EXCEPT ![t] = n], n.inp = aask[c].inp,
         UNCHANGED <<inputs, given, adel>>
  PROVE  InputFits'
<1>1. RowInputs /\ NewInputs /\ KnownInputs /\ AudioSets /\ inputs \subseteq given
  BY AudioFacts DEF InputFits, AudioSets
<1> DEFINE i == aask[c].inp
<1>2. /\ aask'[c] = x /\ (\A e \in Clients \ {c} : aask'[e] = aask[e])
      /\ audio'[t] = n /\ (\A u \in Tasks \ {t} : audio'[u] = audio[u])
  BY <1>1 DEF AudioSets
<1>3. i \in inputs /\ i \in given /\ i # Nobody
  BY <1>1, AudioInputsAssumption DEF NewInputs, AudioSets
<1>4. /\ \A u \in Tasks : audio[u].inp # i
      /\ \A d \in Deleters : adel[d].inp # i
      /\ \A e \in Clients : aask[e].old # i
      /\ \A e \in Clients \ {c} : Bringing(aask[e]) => aask[e].inp # i
  BY <1>1 DEF NewInputs
<1>5. \A e \in Clients : aask'[e].old \in {aask[e].old, Nobody}
  BY <1>2
<1>6. \A u \in Tasks : audio'[u].inp \in {audio[u].inp, i}
  BY <1>2
<1>7. RowInputs'
  <2>1. \A u \in Tasks : Going(audio[u]) => audio[u].inp # Nobody
    BY <1>1, AudioInputsAssumption DEF RowInputs, AudioSets, Going
  <2>2. ASSUME NEW u \in Tasks, Going(audio'[u])
        PROVE  /\ audio'[u].inp \in inputs
               /\ \A d \in Deleters : adel[d].inp # audio'[u].inp
               /\ \A e \in Clients : aask'[e].old # audio'[u].inp
    <3>1. CASE u = t
      BY <1>2, <1>3, <1>4, <1>5, <3>1
    <3>2. CASE u # t
      BY <1>1, <1>2, <1>5, <2>1, <2>2, <3>2 DEF RowInputs, Going
    <3> QED
      BY <3>1, <3>2
  <2> QED
    BY <2>2 DEF RowInputs, Going
<1>8. NewInputs'
  <2> SUFFICES ASSUME NEW e \in Clients, Bringing(aask'[e])
      PROVE  /\ aask'[e].inp \in inputs
             /\ \A u \in Tasks : audio'[u].inp # aask'[e].inp
             /\ \A d \in Deleters : adel[d].inp # aask'[e].inp
             /\ \A f \in Clients : aask'[f].old # aask'[e].inp
             /\ \A f \in Clients : Bringing(aask'[f]) /\ aask'[f].inp = aask'[e].inp => f = e
    BY DEF NewInputs
  <2>1. e # c /\ aask'[e] = aask[e] /\ Bringing(aask[e])
    BY <1>2
  <2>2. aask[e].inp \in inputs /\ aask[e].inp # Nobody /\ aask[e].inp # i
    BY <1>1, <1>4, <2>1, AudioInputsAssumption DEF NewInputs, AudioSets
  <2>3. \A f \in Clients : aask'[f].old # aask[e].inp
    BY <1>1, <1>5, <2>1, <2>2 DEF NewInputs
  <2>4. \A f \in Clients : Bringing(aask'[f]) /\ aask'[f].inp = aask[e].inp => f = e
    BY <1>1, <1>2, <2>1 DEF NewInputs
  <2>5. \A u \in Tasks : audio'[u].inp # aask[e].inp
    BY <1>1, <1>6, <2>1, <2>2 DEF NewInputs
  <2> QED
    BY <1>1, <2>1, <2>2, <2>3, <2>4, <2>5 DEF NewInputs
<1>9. KnownInputs'
  BY <1>1, <1>2, <1>3, <1>4, <1>5, <1>6 DEF KnownInputs
<1> QED
  BY <1>7, <1>8, <1>9 DEF InputFits

-----------------------------------------------------------------------------
(* A worker that generates.                                                  *)

\* Worker w takes one step of generate and is at x then; p is paid, g is staged.
Generates(b, x, p, g, q, h) ==
  /\ x.at \in Generating /\ x.t = b.t /\ x.try = b.try /\ x.ok = b.ok
  /\ \A a \in Attempts \ {b.try} : h[a] = g[a]
  /\ \/ b.at = "input" /\ x.at \in {"post", "failed"} /\ q = p /\ h = g
     \/ /\ b.at = "post" /\ h = g
        /\ \/ x.at \in {"payload", "unknown"} /\ q = p \cup {b.try}
           \/ x.at \in {"failed", "unknown"} /\ q = p
     \/ b.at = "payload" /\ x.at \in {"marker", "unknown"} /\ q = p /\ h[b.try] # "complete"
     \/ /\ b.at = "marker" /\ q = p
        /\ \/ x.at \in {"publish", "unknown"} /\ h[b.try] = "complete"
           \/ x.at = "unknown" /\ h = g

\* Its task stays fit.
LEMMA GeneratorGoesOn ==
  ASSUME AudioInv, NEW w \in Workers, NEW x \in AudioWorkRows, NEW t \in Tasks,
         NEW q \in SUBSET Attempts, NEW h \in StageRows,
         awork[w].t = t, Generates(awork[w], x, paid[t], stage[t], q, h),
         awork' = [awork EXCEPT ![w] = x],
         paid' = [paid EXCEPT ![t] = q], stage' = [stage EXCEPT ![t] = h],
         UNCHANGED <<audio, inputs, given, assets, swept, aask, adel, late, spoiled, faults>>
  PROVE  AudioInv'
<1> USE DEF audioHistory
<1> DEFINE r == audio[t]
           m == r.retries + 1
           b == awork[w]
<1>1. AudioSets /\ Counts /\ AudioFits(t) /\ b \in AudioWorkRows /\ r \in AudioRows
  BY AudioFacts
<1>2. AudioSets'
  BY <1>1 DEF AudioSets
<1>3. /\ awork'[w] = x /\ (\A u \in Workers \ {w} : awork'[u] = awork[u])
      /\ paid'[t] = q /\ (\A u \in Tasks \ {t} : paid'[u] = paid[u])
      /\ stage'[t] = h /\ (\A u \in Tasks \ {t} : stage'[u] = stage[u])
  BY <1>1 DEF AudioSets
<1>4. Counts'
  BY <1>1, <1>3 DEF Counts, Generates, Generating
<1>5. InputFits'
  <2>1. CalmInputs
    BY DEF CalmInputs
  <2> QED
    BY <2>1, CalmInputsFit
<1>6. \A u \in Tasks \ {t} : AudioApart(u)
  BY <1>3 DEF AudioApart, At, Generates
<1>7. /\ ShapeFits(t) /\ PaidFits(t) /\ GeneratorFits(t) /\ SweepFits(t) /\ DeletionFits(t)
      /\ (t \in late \/ HolderFits(t)) /\ (t \in spoiled \/ StageFits(t))
      /\ (t \in spoiled \/ t \in late \/ AssetsFit(t))
  BY <1>1 DEF AudioFits, LifeFits, ResultFits
<1>8. Gen(b, t) /\ Gen(x, t) /\ b.try = m /\ x.try = m
  BY <1>7 DEF GeneratorFits, Generates, Gen, Generating
<1>9. m \in Attempts /\ h[m] \in Stages
  BY <1>1, <1>8, AudioSorts DEF StageRows
<1>10. /\ r.st \notin {"none", "queued", "failed"} /\ (\A u \in Workers : Gen(awork[u], t) => u = w)
       /\ paid[t] \subseteq {m}
  BY <1>7, <1>8 DEF PaidFits, Unpaid, GeneratorFits
<1>11. /\ paid[t] \subseteq q /\ q \subseteq {m}
       /\ (b.at \in {"input", "post"} => m \notin paid[t]) /\ (b.at \in {"payload", "marker"} => m \in q)
       /\ (b.at \in {"post", "payload", "marker"} => stage[t][m] # "complete")
       /\ (h[m] = "complete" => m \in q)
  BY <1>7, <1>8, <1>9, <1>10 DEF GeneratorFits, PaidFits, Generates
<1>12. \A s \in Sweepers : swept[s].at = "decided" /\ swept[s].t = t /\ swept[s].ok =>
         /\ m \in paid[t] /\ swept[s].try \in paid[t] /\ b.at \notin {"input", "post", "payload", "marker"}
  BY <1>7, <1>8, <1>10, <1>11 DEF SweepFits
<1>13. ASSUME NEW s \in Sweepers, swept[s].at = "decided", swept[s].t = t, swept[s].ok PROVE FALSE
  BY <1>12, <1>13 DEF Generates
<1>14. ShapeFits(t)'
  BY <1>7 DEF ShapeFits, Shape, Taken
<1>15. PaidFits(t)'
  <2>1. \A a \in Attempts : h[a] = "complete" => a \in q
    BY <1>7, <1>8, <1>11 DEF PaidFits, Generates
  <2>2. r.st = "completed" => m \in q
    BY <1>7, <1>11 DEF PaidFits
  <2> QED
    BY <1>3, <1>10, <1>11, <2>1, <2>2 DEF PaidFits
<1>16. GeneratorFits(t)'
  <2>1. \A u \in Workers : Gen(awork'[u], t) => u = w
    BY <1>3, <1>10
  <2>2. /\ x.at \in {"input", "post", "failed"} => m \notin q
        /\ x.at \in {"payload", "marker", "publish"} => m \in q
        /\ x.at \in {"payload", "marker"} => h[m] # "complete"
    BY <1>8, <1>11 DEF Generates
  <2>3. r.st = "running" => r.owner = w
    BY <1>7, <1>8 DEF GeneratorFits
  <2> QED
    BY <1>3, <1>8, <2>1, <2>2, <2>3 DEF GeneratorFits
<1>17. SweepFits(t)'
  BY <1>13 DEF SweepFits
<1>18. DeletionFits(t)'
  <2>1. \A d \in Deleters : Taken(adel[d], t) /\ r.st = "deleting" => adel[d].st # "failed"
    BY <1>7, <1>8 DEF DeletionFits, Unpaid
  <2> QED
    BY <1>3, <1>7, <1>11, <2>1 DEF DeletionFits
<1>19. t \in late \/ HolderFits(t)'
  BY <1>3, <1>7, <1>8 DEF HolderFits, At, Gen, Sav, Generating, SavePoints
<1>20. t \in spoiled \/ StageFits(t)'
  <2> SUFFICES ASSUME StageFits(t) PROVE StageFits(t)'
    BY <1>7
  <2>1. r.st = "completed" /\ r.art # "ready" => h[r.out] = "complete"
    <3> SUFFICES ASSUME r.st = "completed", r.art # "ready" PROVE h[r.out] = "complete"
      OBVIOUS
    <3>1. stage[t][r.out] = "complete" /\ r.out # 0
      BY <1>7 DEF StageFits, ShapeFits, Shape
    <3>2. r.out \in Attempts
      BY <1>1, <3>1, AudioSorts, MediaBoundsAssumption DEF Attempts
    <3>3. m \in paid[t]
      BY <1>7 DEF PaidFits
    <3> QED
      BY <1>8, <1>11, <3>1, <3>2, <3>3 DEF Generates
  <2>2. x.at = "publish" => h[m] = "complete"
    BY <1>8 DEF Generates
  <2>3. \A d \in Deleters : Claimed(adel[d], t) => r.st \in {"deleting", "deleted"}
    BY DEF StageFits
  <2> QED
    BY <1>3, <1>10, <1>13, <2>1, <2>2, <2>3 DEF StageFits
<1>21. t \in spoiled \/ t \in late \/ AssetsFit(t)'
  BY <1>3, <1>7, <1>8 DEF AssetsFit, Gen, Sav, Generating, SavePoints
<1>22. AudioFits(t)'
  BY <1>14, <1>15, <1>16, <1>17, <1>18, <1>19, <1>20, <1>21 DEF AudioFits, LifeFits, ResultFits
<1> QED
  BY <1>2, <1>4, <1>5, <1>6, <1>22, OneAudioStep

-----------------------------------------------------------------------------
(* A worker that saves, ends or begins.                                      *)

\* What the invariant says of a task, in parts.
LEMMA AudioParts ==
  ASSUME NEW t \in Tasks, AudioFits(t)
  PROVE  /\ ShapeFits(t) /\ PaidFits(t) /\ GeneratorFits(t) /\ SweepFits(t) /\ DeletionFits(t)
         /\ (t \in late \/ HolderFits(t)) /\ (t \in spoiled \/ StageFits(t))
         /\ (t \in spoiled \/ t \in late \/ AssetsFit(t))
BY DEF AudioFits, LifeFits, ResultFits

\* A worker at a task generates or saves.
LEMMA AtWorkOn ==
  ASSUME NEW b \in AudioWorkRows, NEW t \in Tasks
  PROVE  /\ At(b, t) <=> Gen(b, t) \/ Sav(b, t)
         /\ ~ (Gen(b, t) /\ Sav(b, t))
<1>1. b.at \in AudioWorkPoints
  BY AudioSorts
<1> QED
  BY <1>1 DEF At, Gen, Sav, Generating, SavePoints, AudioWorkPoints

\* Worker w takes one step of save and is at x then; h of the files are saved.
Saves(b, x, g, h) ==
  /\ x.t = b.t
  /\ \/ b.at = "read" /\ x.at \in {"clear", "close"} /\ x.n = b.n /\ x.ok = b.ok /\ h = g
     \/ b.at = "clear" /\ x.at = "save" /\ x.n = b.n /\ x.ok = b.ok /\ h = 0
     \/ /\ b.at = "save"
        /\ \/ /\ x.n = b.n + 1 /\ h = g + 1 /\ (x.ok <=> x.n = Audios)
              /\ x.at = IF x.n = Audios THEN "close" ELSE "save"
           \/ x.at = "close" /\ x.n = b.n /\ x.ok = b.ok /\ h = g

\* Its task stays fit: nobody else saves there, unless a lease ran out.
LEMMA SaverGoesOn ==
  ASSUME AudioInv, NEW w \in Workers, NEW x \in AudioWorkRows, NEW t \in Tasks, NEW h \in Nat,
         awork[w].t = t, Saves(awork[w], x, assets[t], h),
         awork' = [awork EXCEPT ![w] = x], assets' = [assets EXCEPT ![t] = h],
         UNCHANGED <<audio, inputs, given, stage, paid, swept, aask, adel, audioHistory>>
  PROVE  AudioInv'
<1> USE DEF audioHistory
<1> DEFINE r == audio[t]
           b == awork[w]
<1>1. AudioSets /\ Counts /\ AudioFits(t) /\ b \in AudioWorkRows /\ r \in AudioRows
      /\ (\A u \in Workers : awork[u] \in AudioWorkRows) /\ assets[t] \in Nat
  BY AudioFacts
<1>2. AudioSets'
  BY <1>1 DEF AudioSets
<1>3. /\ awork'[w] = x /\ (\A u \in Workers \ {w} : awork'[u] = awork[u])
      /\ assets'[t] = h /\ (\A u \in Tasks \ {t} : assets'[u] = assets[u])
  BY <1>1 DEF AudioSets
<1>4. Counts'
  <2>1. b.n \in 0 .. Audios /\ x.n \in 0 .. Audios /\ x.ok \in BOOLEAN
    BY <1>1, AudioSorts
  <2>2. /\ b.at \in {"read", "clear"} => b.n = 0
        /\ b.at = "save" => b.n < Audios
        /\ b.at # "close" => ~ b.ok
    BY <1>1 DEF Counts
  <2>3. x.at \in {"read", "clear"} => x.n = 0
    BY <2>2 DEF Saves
  <2>4. x.at = "save" => x.n < Audios
    BY <2>1, <2>2, AudioBoundsAssumption DEF Saves
  <2>5. x.at # "close" => ~ x.ok
    BY <2>1, <2>2 DEF Saves
  <2> QED
    BY <1>1, <1>3, <2>3, <2>4, <2>5 DEF Counts
<1>5. InputFits'
  <2>1. CalmInputs
    BY DEF CalmInputs
  <2> QED
    BY <2>1, CalmInputsFit
<1>6. \A u \in Tasks \ {t} : AudioApart(u)
  BY <1>3 DEF AudioApart, At, Saves
<1>7. /\ ShapeFits(t) /\ PaidFits(t) /\ GeneratorFits(t) /\ SweepFits(t) /\ DeletionFits(t)
      /\ (t \in late \/ HolderFits(t)) /\ (t \in spoiled \/ StageFits(t))
      /\ (t \in spoiled \/ t \in late \/ AssetsFit(t))
  BY <1>1, AudioParts
<1>8. Sav(b, t) /\ Sav(x, t) /\ ~ Gen(x, t) /\ At(b, t)
  BY DEF Saves, Sav, Gen, At, SavePoints, Generating
<1>9. \A u \in Workers : Gen(awork'[u], t) => Gen(awork[u], t) /\ awork'[u] = awork[u]
  BY <1>3, <1>8
<1>10. ShapeFits(t)'
  BY <1>7 DEF ShapeFits, Shape, Taken
<1>11. PaidFits(t)'
  BY <1>7, <1>9 DEF PaidFits, Unpaid
<1>12. GeneratorFits(t)'
  BY <1>7, <1>9 DEF GeneratorFits
<1>13. SweepFits(t)'
  BY <1>7, <1>9 DEF SweepFits
<1>14. DeletionFits(t)'
  BY <1>7, <1>9 DEF DeletionFits, Unpaid
<1>15. t \in late \/ HolderFits(t)'
  BY <1>3, <1>7, <1>8 DEF HolderFits
<1>16. t \in spoiled \/ StageFits(t)'
  BY <1>7, <1>9 DEF StageFits
<1>17. t \in spoiled \/ t \in late \/ AssetsFit(t)'
  <2> SUFFICES ASSUME t \notin spoiled, t \notin late PROVE AssetsFit(t)'
    OBVIOUS
  <2>1. /\ r.art = "saving" /\ (\A u \in Workers : Sav(awork[u], t) => u = w)
        /\ (b.at = "save" => assets[t] = b.n) /\ (b.at = "clear" => b.n = 0) /\ ~ (b.at # "close" /\ b.ok)
    BY <1>1, <1>7, <1>8, AtWorkOn DEF HolderFits, AssetsFit, Counts
  <2>2. \A u \in Workers : Sav(awork'[u], t) => u = w
    BY <1>3, <2>1
  <2>3. x.at = "save" => h = x.n
    BY <2>1 DEF Saves
  <2>4. x.at = "close" /\ x.ok => h = Audios
    BY <2>1 DEF Saves
  <2> QED
    BY <1>3, <2>1, <2>2, <2>3, <2>4 DEF AssetsFit
<1>18. AudioFits(t)'
  BY <1>10, <1>11, <1>12, <1>13, <1>14, <1>15, <1>16, <1>17 DEF AudioFits, LifeFits, ResultFits
<1> QED
  BY <1>2, <1>4, <1>5, <1>6, <1>18, OneAudioStep

\* Worker w, at b, writes the row r as n and is done.
Ends(w, b, r, n) ==
  /\ r.owner = w /\ n.retries = r.retries /\ n.inp = r.inp
  /\ \/ /\ b.at = "publish" /\ r.st = "running"
        /\ n.st = "completed" /\ n.art = "pending" /\ n.out = b.try
     \/ /\ b.at \in {"failed", "unknown"} /\ r.st = "running"
        /\ n.st = b.at /\ n.art = r.art /\ n.out = r.out
     \/ /\ b.at = "close" /\ r.art = "saving"
        /\ n.st = r.st /\ n.art = (IF b.ok THEN "ready" ELSE "failed") /\ n.out = r.out

\* Such a step leaves the task fit.
LEMMA WorkerEnds ==
  ASSUME AudioInv, NEW w \in Workers, NEW t \in Tasks, NEW n \in AudioRows,
         awork[w].t = t, Ends(w, awork[w], audio[t], n),
         audio' = [audio EXCEPT ![t] = n], awork' = [awork EXCEPT ![w] = AudioIdleWork],
         UNCHANGED <<audioStore, paid, swept, aask, adel, audioHistory>>
  PROVE  AudioInv'
<1> USE DEF audioHistory, audioStore
<1> DEFINE r == audio[t]
           m == r.retries + 1
           b == awork[w]
<1>1. /\ AudioSets /\ Counts /\ AudioFits(t) /\ b \in AudioWorkRows /\ r \in AudioRows
      /\ AudioIdleWork \in AudioWorkRows /\ AudioIdleWork.at = "idle" /\ ~ AudioIdleWork.ok
      /\ \A u \in Workers : awork[u] \in AudioWorkRows
  BY AudioFacts, IdleAudioRows
<1>2. AudioSets'
  BY <1>1 DEF AudioSets
<1>3. /\ awork'[w] = AudioIdleWork /\ (\A u \in Workers \ {w} : awork'[u] = awork[u])
      /\ audio'[t] = n /\ (\A u \in Tasks \ {t} : audio'[u] = audio[u])
  BY <1>1 DEF AudioSets
<1>4. Counts'
  BY <1>1, <1>3 DEF Counts
<1>5. InputFits'
  <2>1. Going(n) => Going(r)
    BY DEF Ends, Going
  <2>2. CalmInputs
    BY <1>3, <2>1 DEF CalmInputs, Ends
  <2> QED
    BY <2>2, CalmInputsFit
<1>6. \A u \in Tasks \ {t} : AudioApart(u)
  BY <1>1, <1>3 DEF AudioApart, At
<1>7. /\ ShapeFits(t) /\ PaidFits(t) /\ GeneratorFits(t) /\ SweepFits(t) /\ DeletionFits(t)
      /\ (t \in late \/ HolderFits(t)) /\ (t \in spoiled \/ StageFits(t))
      /\ (t \in spoiled \/ t \in late \/ AssetsFit(t))
  BY <1>1, AudioParts
<1>8. At(b, t) /\ (Gen(b, t) <=> b.at # "close") /\ (Sav(b, t) <=> b.at = "close")
  BY DEF Ends, At, Gen, Sav, Generating, SavePoints
<1>9. /\ \A u \in Workers : Gen(awork'[u], t) => u # w /\ Gen(awork[u], t) /\ awork'[u] = awork[u]
      /\ \A u \in Workers : Sav(awork'[u], t) => u # w /\ Sav(awork[u], t) /\ awork'[u] = awork[u]
      /\ \A u \in Workers : At(awork'[u], t) => u # w /\ At(awork[u], t) /\ awork'[u] = awork[u]
  BY <1>1, <1>3 DEF At, Gen, Sav, Generating, SavePoints
<1>10. b.at # "close" => b.try = m /\ \A u \in Workers : Gen(awork[u], t) => u = w
  BY <1>7, <1>8 DEF GeneratorFits
<1>11. b.at # "close" => /\ r.art = "none" /\ r.st = "running"
                         /\ \A u \in Workers : ~ Gen(awork'[u], t)
  BY <1>7, <1>9, <1>10 DEF Ends, ShapeFits, Shape
<1>12. r.art = "saving" => r.st \in {"completed", "deleting"}
  BY <1>7 DEF ShapeFits, Shape
<1>13. m # 0
  BY <1>1, AudioSorts
<1>14. ShapeFits(t)'
  <2>1. Shape(n.st, n)
    BY <1>7, <1>10, <1>11, <1>12, <1>13 DEF Ends, ShapeFits, Shape
  <2>2. \A d \in Deleters : Taken(adel[d], t) /\ n.st = "deleting" => Shape(adel[d].st, n)
    BY <1>7, <1>11, <1>12 DEF Ends, ShapeFits, Shape
  <2>3. \A d \in Deleters : adel[d].at \in {"clean", "forget"} /\ adel[d].t = t /\ adel[d].art = "ready" =>
          n.art = "ready" \/ n.st = "deleted"
    BY <1>7, <1>11, <1>12 DEF Ends, ShapeFits
  <2> QED
    BY <1>3, <2>1, <2>2, <2>3 DEF ShapeFits, Taken
<1>15. PaidFits(t)'
  <2>1. n.st \in {"none", "queued", "failed"} => paid[t] = {} /\ \A u \in Workers : ~ Gen(awork'[u], t)
    <3>1. CASE b.at = "failed"
      BY <1>7, <1>8, <1>10, <1>11, <3>1 DEF PaidFits, GeneratorFits
    <3>2. CASE b.at # "failed"
      BY <1>12, <3>2 DEF Ends
    <3> QED
      BY <3>1, <3>2
  <2>2. n.st = "completed" => m \in paid[t]
    <3>1. CASE b.at = "publish"
      BY <1>7, <1>8, <3>1 DEF GeneratorFits
    <3>2. CASE b.at # "publish"
      BY <1>7, <3>2 DEF Ends, PaidFits
    <3> QED
      BY <3>1, <3>2
  <2> QED
    BY <1>3, <1>7, <2>1, <2>2 DEF PaidFits, Unpaid, Ends
<1>16. GeneratorFits(t)'
  BY <1>3, <1>7, <1>9, <1>11, <1>12 DEF GeneratorFits, Ends
<1>17. SweepFits(t)'
  BY <1>7, <1>9 DEF SweepFits
<1>18. DeletionFits(t)'
  BY <1>3, <1>7, <1>9, <1>11 DEF DeletionFits, Unpaid, Ends
<1>19. t \in late \/ \A u \in Workers : ~ At(awork'[u], t)
  BY <1>7, <1>8, <1>9 DEF HolderFits, Ends
<1>20. t \in late \/ HolderFits(t)'
  BY <1>19 DEF HolderFits
<1>21. t \in spoiled \/ StageFits(t)'
  <2> SUFFICES ASSUME StageFits(t) PROVE StageFits(t)'
    BY <1>7
  <2>1. n.st = "completed" /\ n.art # "ready" => stage[t][n.out] = "complete"
    BY <1>8, <1>10 DEF StageFits, Ends
  <2>2. n.st # "running"
    BY <1>12 DEF Ends
  <2>3. \A d \in Deleters : Claimed(adel[d], t) => n.st \in {"deleting", "deleted"}
    BY <1>11 DEF StageFits, Ends
  <2> QED
    BY <1>3, <2>1, <2>2, <2>3 DEF StageFits
<1>22. t \in spoiled \/ t \in late \/ AssetsFit(t)'
  <2> SUFFICES ASSUME AssetsFit(t), t \notin late PROVE AssetsFit(t)'
    BY <1>7
  <2>1. \A u \in Workers : ~ Sav(awork'[u], t)
    BY <1>1, <1>19 DEF At, Sav, SavePoints
  <2>2. n.st = "completed" /\ n.art = "ready" => assets[t] = Audios
    BY <1>8, <1>11 DEF AssetsFit, Ends
  <2> QED
    BY <1>3, <2>1, <2>2 DEF AssetsFit
<1>23. AudioFits(t)'
  BY <1>14, <1>15, <1>16, <1>17, <1>18, <1>20, <1>21, <1>22 DEF AudioFits, LifeFits, ResultFits
<1> QED
  BY <1>2, <1>4, <1>5, <1>6, <1>23, OneAudioStep

\* Worker w claims the row r, which becomes n, and is at x.
Begins(w, x, r, n) ==
  /\ n.owner = w /\ n.leased /\ n.retries = r.retries /\ n.inp = r.inp /\ n.out = r.out
  /\ ~ x.ok /\ x.n = 0
  /\ \/ /\ r.st = "queued" /\ n.st = "running" /\ n.art = r.art
        /\ x.at = "input" /\ x.try = r.retries + 1
     \/ /\ r.st = "completed" /\ (r.art = "pending" \/ (r.art = "saving" /\ ~ r.leased))
        /\ n.st = "completed" /\ n.art = "saving" /\ x.at = "read"

\* Nobody was at the task, unless a lease ran out under him.
LEMMA WorkerBegins ==
  ASSUME AudioInv, NEW w \in Workers, NEW t \in Tasks, NEW n \in AudioRows, NEW x \in AudioWorkRows,
         awork[w].at = "idle", x.t = t, Begins(w, x, audio[t], n),
         audio' = [audio EXCEPT ![t] = n], awork' = [awork EXCEPT ![w] = x],
         UNCHANGED <<audioStore, paid, swept, aask, adel, audioHistory>>
  PROVE  AudioInv'
<1> USE DEF audioHistory, audioStore
<1> DEFINE r == audio[t]
           m == r.retries + 1
<1>1. /\ AudioSets /\ Counts /\ AudioFits(t) /\ r \in AudioRows /\ x \in AudioWorkRows
      /\ \A u \in Workers : awork[u] \in AudioWorkRows
  BY AudioFacts
<1>2. AudioSets'
  BY <1>1 DEF AudioSets
<1>3. /\ awork'[w] = x /\ (\A u \in Workers \ {w} : awork'[u] = awork[u])
      /\ audio'[t] = n /\ (\A u \in Tasks \ {t} : audio'[u] = audio[u])
  BY <1>1 DEF AudioSets
<1>4. Counts'
  BY <1>1, <1>3 DEF Counts, Begins
<1>5. InputFits'
  <2>1. Going(n) => Going(r)
    BY DEF Begins, Going
  <2>2. CalmInputs
    BY <1>3, <2>1 DEF CalmInputs, Begins
  <2> QED
    BY <2>2, CalmInputsFit
<1>6. \A u \in Tasks \ {t} : AudioApart(u)
  BY <1>3 DEF AudioApart, At
<1>7. /\ ShapeFits(t) /\ PaidFits(t) /\ GeneratorFits(t) /\ SweepFits(t) /\ DeletionFits(t)
      /\ (t \in late \/ HolderFits(t)) /\ (t \in spoiled \/ StageFits(t))
      /\ (t \in spoiled \/ t \in late \/ AssetsFit(t))
  BY <1>1, AudioParts
<1>8. /\ \A u \in Workers \ {w} : awork'[u] = awork[u]
      /\ ~ Gen(awork[w], t) /\ ~ Sav(awork[w], t)
  BY <1>3 DEF Gen, Sav, Generating, SavePoints
<1>9. t \in late \/ \A u \in Workers : ~ At(awork[u], t)
  BY <1>1, <1>7, AtWorkOn DEF HolderFits, Begins
<1>10. /\ r.st = "queued" => /\ Gen(x, t) /\ ~ Sav(x, t) /\ x.at = "input" /\ x.try = m
                             /\ paid[t] = {} /\ (\A u \in Workers : ~ Gen(awork[u], t))
                             /\ r.art = "none"
       /\ r.st = "completed" => /\ ~ Gen(x, t) /\ Sav(x, t) /\ x.at = "read" /\ m \in paid[t]
                                /\ r.art \in {"pending", "saving"} /\ r.out # 0
  BY <1>7 DEF Begins, Gen, Sav, Generating, SavePoints, PaidFits, Unpaid, ShapeFits, Shape
<1>11. r.st \in {"queued", "completed"}
  BY DEF Begins
<1>12. \A s \in Sweepers : swept[s].at = "decided" /\ swept[s].t = t /\ swept[s].ok => r.st # "queued"
  BY <1>7, <1>10 DEF SweepFits
<1>13. \A d \in Deleters : ~ Taken(adel[d], t)
  BY <1>7, <1>11 DEF DeletionFits
<1>14. ShapeFits(t)'
  <2>1. Shape(n.st, n)
    BY <1>10 DEF Begins, Shape
  <2>2. \A d \in Deleters : ~ (adel[d].at \in {"clean", "forget"} /\ adel[d].t = t /\ adel[d].art = "ready")
    BY <1>7, <1>10, <1>11 DEF ShapeFits
  <2> QED
    BY <1>3, <1>13, <2>1, <2>2 DEF ShapeFits, Taken
<1>15. PaidFits(t)'
  BY <1>3, <1>7 DEF PaidFits, Unpaid, Begins
<1>16. GeneratorFits(t)'
  <2>1. CASE r.st = "queued"
    BY <1>3, <1>10, <2>1 DEF GeneratorFits, Begins
  <2>2. CASE r.st = "completed"
    BY <1>3, <1>7, <1>10, <2>2 DEF GeneratorFits, Begins
  <2> QED
    BY <1>11, <2>1, <2>2
<1>17. SweepFits(t)'
  BY <1>3, <1>7, <1>10, <1>11, <1>12 DEF SweepFits
<1>18. DeletionFits(t)'
  BY <1>3, <1>7, <1>13 DEF DeletionFits, Taken
<1>19. t \in late \/ HolderFits(t)'
  <2> SUFFICES ASSUME t \notin late PROVE HolderFits(t)'
    OBVIOUS
  <2>1. \A u \in Workers : At(awork'[u], t) => u = w
    BY <1>3, <1>9
  <2>2. /\ n.owner = w /\ n.leased
        /\ Gen(x, t) => n.st = "running"
        /\ Sav(x, t) => n.st = "completed" /\ n.art = "saving"
    BY <1>10, <1>11 DEF Begins
  <2> QED
    BY <1>3, <2>1, <2>2 DEF HolderFits
<1>20. t \in spoiled \/ StageFits(t)'
  <2> SUFFICES ASSUME StageFits(t) PROVE StageFits(t)'
    BY <1>7
  <2>1. n.st = "completed" => stage[t][n.out] = "complete"
    BY <1>10 DEF StageFits, Begins
  <2>2. \A u \in Workers : Gen(awork'[u], t) /\ awork'[u].at = "publish" => n.st # "running"
    BY <1>3, <1>10 DEF Begins
  <2>3. \A d \in Deleters : ~ Claimed(adel[d], t)
    BY <1>11 DEF StageFits
  <2>4. n.st = "running" => r.st = "queued"
    BY DEF Begins
  <2> QED
    BY <1>3, <1>12, <2>1, <2>2, <2>3, <2>4 DEF StageFits
<1>21. t \in late \/ AssetsFit(t)'
  <2> SUFFICES ASSUME t \notin late PROVE AssetsFit(t)'
    OBVIOUS
  <2>1. \A u \in Workers : Sav(awork'[u], t) => u = w /\ x.at = "read"
    BY <1>1, <1>3, <1>9, <1>10, <1>11, AtWorkOn
  <2>2. ~ (n.st = "completed" /\ n.art = "ready")
    BY DEF Begins
  <2> QED
    BY <1>3, <2>1, <2>2 DEF AssetsFit
<1>22. AudioFits(t)'
  BY <1>14, <1>15, <1>16, <1>17, <1>18, <1>19, <1>20, <1>21 DEF AudioFits, LifeFits, ResultFits
<1> QED
  BY <1>2, <1>4, <1>5, <1>6, <1>22, OneAudioStep

-----------------------------------------------------------------------------
(* The steps of a worker.                                                    *)

\* How workers move.
LEMMA AudioAtRow ==
  ASSUME AudioSets, NEW w \in Workers, NEW l \in AudioWorkPoints, AudioAt(w, l)
  PROVE  \E x \in AudioWorkRows :
           /\ awork' = [awork EXCEPT ![w] = x] /\ x.at = l /\ x.t = awork[w].t
           /\ x.try = awork[w].try /\ x.n = awork[w].n /\ x.ok = awork[w].ok
<1>1. awork[w] \in AudioWorkRows
  BY DEF AudioSets
<1> DEFINE x == [awork[w] EXCEPT !.at = l]
<1>2. /\ x \in AudioWorkRows /\ x.at = l /\ x.t = awork[w].t
      /\ x.try = awork[w].try /\ x.n = awork[w].n /\ x.ok = awork[w].ok
  BY <1>1 DEF AudioWorkRows
<1>3. awork' = [awork EXCEPT ![w] = x]
  BY Zenon DEF AudioAt
<1> QED
  BY <1>2, <1>3

\* The staged results after one call.
LEMMA StagedRow ==
  ASSUME AudioSets, NEW w \in Workers, NEW s \in Stages, Staged(w, s)
  PROVE  \E h \in StageRows :
           /\ stage' = [stage EXCEPT ![awork[w].t] = h] /\ h[awork[w].try] = s
           /\ \A a \in Attempts \ {awork[w].try} : h[a] = stage[awork[w].t][a]
<1> DEFINE t == awork[w].t
           a == awork[w].try
           h == [stage[t] EXCEPT ![a] = s]
<1>1. t \in Tasks /\ a \in Attempts /\ stage[t] \in StageRows
  BY AudioSorts DEF AudioSets
<1>2. h \in StageRows /\ h[a] = s /\ \A c \in Attempts \ {a} : h[c] = stage[t][c]
  BY <1>1 DEF StageRows
<1>3. stage' = [stage EXCEPT ![t] = h]
  BY Zenon DEF Staged
<1> QED
  BY <1>2, <1>3

\* generate, up to the end.
LEMMA GenerateSteps ==
  ASSUME AudioInv, NEW w \in Workers,
         ReadInput(w) \/ PostAudio(w) \/ StagePayload(w) \/ StageMarker(w)
  PROVE  AudioInv'
<1> DEFINE b == awork[w]
           t == b.t
<1>1. AudioSets /\ b \in AudioWorkRows
  BY AudioFacts
<1>2. t \in Tasks /\ b.try \in Attempts /\ stage[t] \in StageRows /\ paid[t] \in SUBSET Attempts
  BY <1>1, AudioSorts DEF AudioSets
<1>3. /\ paid = [paid EXCEPT ![t] = paid[t]] /\ stage = [stage EXCEPT ![t] = stage[t]]
  BY <1>1, <1>2 DEF AudioSets
<1>4. {"post", "failed", "payload", "unknown", "marker", "publish"} \subseteq AudioWorkPoints
      /\ {"payload", "complete"} \subseteq Stages
  BY DEF AudioWorkPoints, Stages
<1>5. {"post", "failed", "payload", "unknown", "marker", "publish"} \subseteq Generating
  BY DEF Generating
<1>6. CASE ReadInput(w)
  <2>1. PICK l \in {"post", "failed"} :
          /\ b.at = "input" /\ AudioAt(w, l)
          /\ UNCHANGED <<audio, audioStore, paid, swept, aask, adel, audioHistory>>
    BY <1>6 DEF ReadInput
  <2>2. PICK x \in AudioWorkRows : /\ awork' = [awork EXCEPT ![w] = x] /\ x.at = l /\ x.t = t
                                   /\ x.try = b.try /\ x.n = b.n /\ x.ok = b.ok
    BY <1>1, <1>4, <2>1, AudioAtRow
  <2>3. Generates(b, x, paid[t], stage[t], paid[t], stage[t])
    BY <1>5, <2>1, <2>2 DEF Generates
  <2>4. /\ paid' = [paid EXCEPT ![t] = paid[t]] /\ stage' = [stage EXCEPT ![t] = stage[t]]
        /\ UNCHANGED <<audio, inputs, given, assets, swept, aask, adel, audioHistory>>
    BY <1>3, <2>1 DEF audioStore
  <2> QED
    BY <1>2, <2>2, <2>3, <2>4, GeneratorGoesOn DEF audioHistory
<1>7. CASE PostAudio(w)
  <2>1. PICK l \in {"payload", "unknown", "failed"} :
          /\ b.at = "post" /\ AudioAt(w, l)
          /\ \/ l \in {"payload", "unknown"} /\ paid' = [paid EXCEPT ![t] = paid[t] \cup {b.try}]
             \/ l \in {"failed", "unknown"} /\ paid' = paid
          /\ UNCHANGED <<audio, audioStore, swept, aask, adel, late, spoiled, faults>>
    BY <1>7, Zenon DEF PostAudio
  <2>2. PICK x \in AudioWorkRows : /\ awork' = [awork EXCEPT ![w] = x] /\ x.at = l /\ x.t = t
                                   /\ x.try = b.try /\ x.n = b.n /\ x.ok = b.ok
    BY <1>1, <1>4, <2>1, AudioAtRow
  <2>3. PICK q \in SUBSET Attempts :
          /\ paid' = [paid EXCEPT ![t] = q]
          /\ \/ l \in {"payload", "unknown"} /\ q = paid[t] \cup {b.try}
             \/ l \in {"failed", "unknown"} /\ q = paid[t]
    <3>1. CASE l \in {"payload", "unknown"} /\ paid' = [paid EXCEPT ![t] = paid[t] \cup {b.try}]
      <4>1. PICK q \in SUBSET Attempts : q = paid[t] \cup {b.try}
        BY <1>2
      <4> QED
        BY <3>1, <4>1
    <3>2. CASE l \in {"failed", "unknown"} /\ paid' = paid
      BY <1>2, <1>3, <3>2
    <3> QED
      BY <2>1, <3>1, <3>2
  <2>4. Generates(b, x, paid[t], stage[t], q, stage[t])
    BY <1>5, <2>1, <2>2, <2>3 DEF Generates
  <2> QED
    BY <1>2, <1>3, <2>1, <2>2, <2>3, <2>4, GeneratorGoesOn DEF audioStore
<1>8. CASE StagePayload(w)
  <2>1. PICK l \in {"marker", "unknown"} :
          /\ b.at = "payload" /\ AudioAt(w, l)
          /\ Staged(w, "payload") \/ (l = "unknown" /\ stage' = stage)
          /\ UNCHANGED <<audio, inputs, given, assets, paid, swept, aask, adel, audioHistory>>
    BY <1>8, Zenon DEF StagePayload
  <2>2. PICK x \in AudioWorkRows : /\ awork' = [awork EXCEPT ![w] = x] /\ x.at = l /\ x.t = t
                                   /\ x.try = b.try /\ x.n = b.n /\ x.ok = b.ok
    BY <1>1, <1>4, <2>1, AudioAtRow
  <2>3. stage[t][b.try] # "complete"
    <3>1. GeneratorFits(t)
      BY <1>2, AudioFacts, AudioParts
    <3>2. Gen(b, t)
      BY <2>1 DEF Gen, Generating
    <3> QED
      BY <2>1, <3>1, <3>2 DEF GeneratorFits
  <2>4. PICK h \in StageRows : /\ stage' = [stage EXCEPT ![t] = h] /\ h[b.try] # "complete"
                               /\ \A a \in Attempts \ {b.try} : h[a] = stage[t][a]
    <3>1. CASE Staged(w, "payload")
      BY <1>1, <1>4, <3>1, StagedRow
    <3>2. CASE stage' = stage
      BY <1>2, <1>3, <2>3, <3>2
    <3> QED
      BY <2>1, <3>1, <3>2
  <2>5. Generates(b, x, paid[t], stage[t], paid[t], h)
    BY <1>5, <2>1, <2>2, <2>4 DEF Generates
  <2> QED
    BY <1>2, <1>3, <2>1, <2>2, <2>4, <2>5, GeneratorGoesOn DEF audioHistory
<1>9. CASE StageMarker(w)
  <2>1. PICK l \in {"publish", "unknown"} :
          /\ b.at = "marker" /\ AudioAt(w, l)
          /\ Staged(w, "complete") \/ (l = "unknown" /\ stage' = stage)
          /\ UNCHANGED <<audio, inputs, given, assets, paid, swept, aask, adel, audioHistory>>
    BY <1>9, Zenon DEF StageMarker
  <2>2. PICK x \in AudioWorkRows : /\ awork' = [awork EXCEPT ![w] = x] /\ x.at = l /\ x.t = t
                                   /\ x.try = b.try /\ x.n = b.n /\ x.ok = b.ok
    BY <1>1, <1>4, <2>1, AudioAtRow
  <2>3. PICK h \in StageRows : /\ stage' = [stage EXCEPT ![t] = h]
                               /\ h[b.try] = "complete" \/ (l = "unknown" /\ h = stage[t])
                               /\ \A a \in Attempts \ {b.try} : h[a] = stage[t][a]
    <3>1. CASE Staged(w, "complete")
      BY <1>1, <1>4, <3>1, StagedRow
    <3>2. CASE l = "unknown" /\ stage' = stage
      BY <1>2, <1>3, <3>2
    <3> QED
      BY <2>1, <3>1, <3>2
  <2>4. Generates(b, x, paid[t], stage[t], paid[t], h)
    BY <1>5, <2>1, <2>2, <2>3 DEF Generates
  <2> QED
    BY <1>2, <1>3, <2>1, <2>2, <2>3, <2>4, GeneratorGoesOn DEF audioHistory
<1> QED
  BY <1>6, <1>7, <1>8, <1>9

\* save, up to the end.
LEMMA SaveSteps ==
  ASSUME AudioInv, NEW w \in Workers, ReadStage(w) \/ Clear(w) \/ SaveAudio(w)
  PROVE  AudioInv'
<1> DEFINE b == awork[w]
           t == b.t
<1>1. AudioSets /\ b \in AudioWorkRows
  BY AudioFacts
<1>2. t \in Tasks /\ b.n \in 0 .. Audios /\ assets[t] \in Nat
  BY <1>1, AudioSorts DEF AudioSets
<1>3. assets = [assets EXCEPT ![t] = assets[t]]
  BY <1>1, <1>2 DEF AudioSets
<1>4. {"clear", "close", "save"} \subseteq AudioWorkPoints
  BY DEF AudioWorkPoints
<1>5. CASE ReadStage(w)
  <2>1. PICK l \in {"clear", "close"} :
          /\ b.at = "read" /\ AudioAt(w, l)
          /\ UNCHANGED <<audio, audioStore, paid, swept, aask, adel, audioHistory>>
    BY <1>5, Zenon DEF ReadStage
  <2>2. PICK x \in AudioWorkRows : /\ awork' = [awork EXCEPT ![w] = x] /\ x.at = l /\ x.t = t
                                   /\ x.try = b.try /\ x.n = b.n /\ x.ok = b.ok
    BY <1>1, <1>4, <2>1, AudioAtRow
  <2>3. Saves(b, x, assets[t], assets[t])
    BY <2>1, <2>2 DEF Saves
  <2> QED
    BY <1>2, <1>3, <2>1, <2>2, <2>3, SaverGoesOn DEF audioStore
<1>6. CASE Clear(w)
  <2>1. /\ b.at = "clear" /\ AudioAt(w, "save") /\ assets' = [assets EXCEPT ![t] = 0]
        /\ UNCHANGED <<audio, inputs, given, stage, paid, swept, aask, adel, audioHistory>>
    BY <1>6 DEF Clear
  <2>2. PICK x \in AudioWorkRows : /\ awork' = [awork EXCEPT ![w] = x] /\ x.at = "save" /\ x.t = t
                                   /\ x.try = b.try /\ x.n = b.n /\ x.ok = b.ok
    BY <1>1, <1>4, <2>1, AudioAtRow
  <2>3. Saves(b, x, assets[t], 0)
    BY <2>1, <2>2 DEF Saves
  <2> QED
    BY <1>2, <2>1, <2>2, <2>3, SaverGoesOn
<1>7. CASE SaveAudio(w)
  <2>1. b.at = "save" /\ UNCHANGED <<audio, inputs, given, stage, paid, swept, aask, adel, audioHistory>>
    BY <1>7 DEF SaveAudio
  <2>2. CASE AudioAt(w, "close") /\ UNCHANGED assets
    <3>1. PICK x \in AudioWorkRows : /\ awork' = [awork EXCEPT ![w] = x] /\ x.at = "close" /\ x.t = t
                                     /\ x.try = b.try /\ x.n = b.n /\ x.ok = b.ok
      BY <1>1, <1>4, <2>2, AudioAtRow
    <3>2. Saves(b, x, assets[t], assets[t])
      BY <2>1, <3>1 DEF Saves
    <3> QED
      BY <1>2, <1>3, <2>1, <2>2, <3>1, <3>2, SaverGoesOn
  <2>3. CASE /\ assets' = [assets EXCEPT ![t] = @ + 1]
             /\ awork' = [awork EXCEPT ![w].n = @ + 1, ![w].ok = awork[w].n + 1 = Audios,
                                       ![w].at = IF awork[w].n + 1 = Audios THEN "close" ELSE "save"]
    <3>1. b.n < Audios
      BY <2>1, AudioFacts DEF Counts
    <3>2. PICK i \in 0 .. Audios : i = b.n + 1
      BY <1>2, <3>1, AudioBoundsAssumption
    <3>3. PICK l \in {"close", "save"} : l = IF i = Audios THEN "close" ELSE "save"
      OBVIOUS
    <3> DEFINE x == [b EXCEPT !.n = i, !.ok = (i = Audios), !.at = l]
    <3>4. /\ x \in AudioWorkRows /\ x.at = l /\ x.n = i /\ (x.ok <=> i = Audios) /\ x.t = t
      BY <1>1, <1>4 DEF AudioWorkRows
    <3>5. awork' = [awork EXCEPT ![w] = x]
      BY <1>1, <2>3, <3>2, <3>3 DEF AudioSets
    <3> HIDE DEF x
    <3>6. PICK h \in Nat : h = assets[t] + 1
      BY <1>2
    <3>7. assets' = [assets EXCEPT ![t] = h]
      BY <1>1, <1>2, <2>3, <3>6 DEF AudioSets
    <3>8. Saves(b, x, assets[t], h)
      BY <2>1, <3>2, <3>3, <3>4, <3>6 DEF Saves
    <3> QED
      BY <1>2, <2>1, <3>4, <3>5, <3>7, <3>8, SaverGoesOn
  <2> QED
    BY <1>7, <2>2, <2>3, Zenon DEF SaveAudio
<1> QED
  BY <1>5, <1>6, <1>7

-----------------------------------------------------------------------------
(* Actors that stop.                                                         *)

\* Some actors are idle now, and nothing else has happened.
ActorsRest ==
  /\ UNCHANGED <<audio, audioStore, paid, late>>
  /\ awork' \in [Workers -> AudioWorkRows] /\ swept' \in [Sweepers -> SweepRows]
  /\ aask' \in [Clients -> AudioAskRows] /\ adel' \in [Deleters -> AudioDelRows]
  /\ \A w \in Workers : awork'[w] \in {awork[w], AudioIdleWork}
  /\ \A s \in Sweepers : swept'[s] \in {swept[s], IdleSweep}
  /\ \A c \in Clients : aask'[c] \in {aask[c], AudioIdleAsk}
  /\ \A d \in Deleters : adel'[d] \in {adel[d], AudioIdleDel}
  /\ spoiled' \in SUBSET Tasks /\ spoiled \subseteq spoiled' /\ faults' \in 0 .. MaxFaults

\* Every promise to the actors is one less.
LEMMA ActorsRestFit ==
  ASSUME AudioInv, ActorsRest
  PROVE  AudioInv'
<1>1. AudioSets /\ Counts
  BY AudioFacts
<1>2. /\ UNCHANGED <<audio, inputs, given, stage, assets, paid, late>>
      /\ spoiled' \in SUBSET Tasks /\ spoiled \subseteq spoiled' /\ faults' \in 0 .. MaxFaults
  BY DEF ActorsRest, audioStore
<1>3. /\ \A w \in Workers : awork'[w] \in {awork[w], AudioIdleWork}
      /\ \A s \in Sweepers : swept'[s] \in {swept[s], IdleSweep}
      /\ \A c \in Clients : aask'[c] \in {aask[c], AudioIdleAsk}
      /\ \A d \in Deleters : adel'[d] \in {adel[d], AudioIdleDel}
  BY DEF ActorsRest
<1>4. AudioSets'
  BY <1>1, <1>2 DEF AudioSets, ActorsRest
<1>5. Counts'
  BY <1>1, <1>3, IdleAudioRows DEF Counts
<1>6. InputFits'
  <2>1. CalmInputs
    BY <1>2, <1>3, IdleAudioRows DEF CalmInputs, Bringing
  <2> QED
    BY <2>1, CalmInputsFit
<1>7. \A u \in Tasks : AudioApart(u)
  BY <1>2, <1>3, IdleAudioRows DEF AudioApart, At
<1> QED
  BY <1>4, <1>5, <1>6, <1>7, NoTaskStep

\* One of them, or none.
LEMMA OneActorRests ==
  ASSUME AudioInv, UNCHANGED <<audio, audioStore, paid, late, spoiled>>, faults' \in 0 .. MaxFaults,
         \/ UNCHANGED audioActors
         \/ \E w \in Workers : awork' = [awork EXCEPT ![w] = AudioIdleWork] /\ UNCHANGED <<swept, aask, adel>>
         \/ \E s \in Sweepers : swept' = [swept EXCEPT ![s] = IdleSweep] /\ UNCHANGED <<awork, aask, adel>>
         \/ \E c \in Clients : aask' = [aask EXCEPT ![c] = AudioIdleAsk] /\ UNCHANGED <<awork, swept, adel>>
         \/ \E d \in Deleters : adel' = [adel EXCEPT ![d] = AudioIdleDel] /\ UNCHANGED <<awork, swept, aask>>
  PROVE  AudioInv'
<1>1. AudioSets
  BY AudioFacts
<1>2. awork' \in [Workers -> AudioWorkRows] /\ \A w \in Workers : awork'[w] \in {awork[w], AudioIdleWork}
  BY <1>1, IdleAudioRows DEF AudioSets, audioActors
<1>3. swept' \in [Sweepers -> SweepRows] /\ \A s \in Sweepers : swept'[s] \in {swept[s], IdleSweep}
  BY <1>1, IdleAudioRows DEF AudioSets, audioActors
<1>4. aask' \in [Clients -> AudioAskRows] /\ \A c \in Clients : aask'[c] \in {aask[c], AudioIdleAsk}
  BY <1>1, IdleAudioRows DEF AudioSets, audioActors
<1>5. adel' \in [Deleters -> AudioDelRows] /\ \A d \in Deleters : adel'[d] \in {adel[d], AudioIdleDel}
  BY <1>1, IdleAudioRows DEF AudioSets, audioActors
<1>6. ActorsRest
  BY <1>1, <1>2, <1>3, <1>4, <1>5 DEF ActorsRest, AudioSets
<1> QED
  BY <1>6, ActorsRestFit

\* A process, or a caller, stops.
LEMMA StopSteps ==
  ASSUME AudioInv, AudioStop \/ \E c \in Clients : CallerStops(c)
  PROVE  AudioInv'
<1>1. AudioSets
  BY AudioFacts
<1>2. faults < MaxFaults /\ faults' = faults + 1
  BY DEF AudioStop, CallerStops
<1>3. faults' \in 0 .. MaxFaults
  BY <1>1, <1>2, MediaBoundsAssumption DEF AudioSets
<1>4. CASE AudioStop
  <2>1. PICK W \in SUBSET {w \in Workers : awork[w].at # "idle"},
             D \in SUBSET {d \in Deleters : adel[d].at # "idle"} :
          /\ awork' = [w \in Workers |-> IF w \in W THEN AudioIdleWork ELSE awork[w]]
          /\ adel' = [d \in Deleters |-> IF d \in D THEN AudioIdleDel ELSE adel[d]]
          /\ spoiled' = spoiled \cup {adel[d].t : d \in D}
    BY <1>4 DEF AudioStop
  <2>2. UNCHANGED <<audio, audioStore, paid, swept, aask, late>>
    BY <1>4 DEF AudioStop
  <2>3. \A d \in D : adel[d].t \in Tasks
    BY AudioFacts, AudioSorts
  <2>4. /\ awork' \in [Workers -> AudioWorkRows] /\ \A w \in Workers : awork'[w] \in {awork[w], AudioIdleWork}
        /\ adel' \in [Deleters -> AudioDelRows] /\ \A d \in Deleters : adel'[d] \in {adel[d], AudioIdleDel}
    BY <1>1, <2>1, IdleAudioRows DEF AudioSets
  <2>5. spoiled' \in SUBSET Tasks /\ spoiled \subseteq spoiled'
    BY <1>1, <2>1, <2>3 DEF AudioSets
  <2>6. ActorsRest
    BY <1>1, <1>3, <2>2, <2>4, <2>5 DEF ActorsRest, AudioSets
  <2> QED
    BY <2>6, ActorsRestFit
<1>5. CASE \E c \in Clients : CallerStops(c)
  BY <1>3, <1>5, OneActorRests DEF CallerStops, AskDone
<1> QED
  BY <1>4, <1>5

-----------------------------------------------------------------------------
(* The first and the last step of a worker.                                  *)

\* The end of generate and of save.
LEMMA EndSteps ==
  ASSUME AudioInv, NEW w \in Workers, Publish(w) \/ Fail(w) \/ CloseSave(w)
  PROVE  AudioInv'
<1> DEFINE b == awork[w]
           t == b.t
           r == audio[t]
<1>1. AudioSets /\ b \in AudioWorkRows /\ t \in Tasks /\ r \in AudioRows
  BY AudioFacts, AudioSorts
<1>2. /\ awork' = [awork EXCEPT ![w] = AudioIdleWork]
      /\ UNCHANGED <<audioStore, paid, swept, aask, adel, audioHistory>>
  BY DEF Publish, Fail, CloseSave, AudioIdle
<1>3. CASE UNCHANGED audio
  BY <1>1, <1>2, <1>3, OneActorRests DEF audioHistory, AudioSets
<1>4. CASE Publish(w) /\ audio' # audio
  <2>1. /\ b.at = "publish" /\ r.st = "running" /\ r.owner = w
        /\ SetAudio(t, [r EXCEPT !.st = "completed", !.art = "pending", !.out = b.try])
    BY <1>4, Zenon DEF Publish, Running
  <2>2. b.try \in 0 .. MaxRetries + 1
    BY <1>1, AudioSorts, MediaBoundsAssumption DEF Attempts
  <2>3. PICK n : n = [r EXCEPT !.st = "completed", !.art = "pending", !.out = b.try]
    OBVIOUS
  <2>4. /\ n \in AudioRows /\ n.st = "completed" /\ n.art = "pending" /\ n.out = b.try
        /\ n.retries = r.retries /\ n.inp = r.inp
    BY <1>1, <2>2, <2>3 DEF AudioRows, AudioStatuses, Artifacts
  <2> QED
    BY <1>1, <1>2, <2>1, <2>3, <2>4, WorkerEnds DEF Ends, SetAudio
<1>5. CASE Fail(w) /\ audio' # audio
  <2>1. /\ b.at \in {"failed", "unknown"} /\ r.st = "running" /\ r.owner = w
        /\ SetAudio(t, [r EXCEPT !.st = b.at, !.owner = Nobody, !.leased = FALSE])
    BY <1>5, Zenon DEF Fail, Running
  <2>2. PICK n : n = [r EXCEPT !.st = b.at, !.owner = Nobody, !.leased = FALSE]
    OBVIOUS
  <2>3. /\ n \in AudioRows /\ n.st = b.at /\ n.art = r.art /\ n.out = r.out
        /\ n.retries = r.retries /\ n.inp = r.inp
    BY <1>1, <2>1, <2>2 DEF AudioRows, AudioStatuses
  <2> QED
    BY <1>1, <1>2, <2>1, <2>2, <2>3, WorkerEnds DEF Ends, SetAudio
<1>6. CASE CloseSave(w) /\ audio' # audio
  <2>1. /\ b.at = "close" /\ r.owner = w /\ r.art = "saving"
        /\ SetAudio(t, [r EXCEPT !.art = IF b.ok THEN "ready" ELSE "failed",
                                 !.owner = Nobody, !.leased = FALSE])
    BY <1>6, Zenon DEF CloseSave
  <2>2. PICK a \in {"ready", "failed"} : a = IF b.ok THEN "ready" ELSE "failed"
    OBVIOUS
  <2>3. PICK n : n = [r EXCEPT !.art = a, !.owner = Nobody, !.leased = FALSE]
    OBVIOUS
  <2>4. /\ n \in AudioRows /\ n.st = r.st /\ n.art = a /\ n.out = r.out
        /\ n.retries = r.retries /\ n.inp = r.inp
    BY <1>1, <2>1, <2>3 DEF AudioRows, Artifacts
  <2>5. audio' = [audio EXCEPT ![t] = n]
    BY <2>1, <2>2, <2>3 DEF SetAudio
  <2>6. Ends(w, b, r, n)
    BY <2>1, <2>2, <2>4 DEF Ends
  <2> QED
    BY <1>1, <1>2, <2>4, <2>5, <2>6, WorkerEnds
<1> QED
  BY <1>3, <1>4, <1>5, <1>6

\* The claims.
LEMMA ClaimSteps ==
  ASSUME AudioInv, NEW w \in Workers, NEW t \in Tasks, ClaimQueued(w, t) \/ ClaimSave(w, t)
  PROVE  AudioInv'
<1> DEFINE r == audio[t]
<1>1. AudioSets /\ r \in AudioRows /\ ShapeFits(t)
  BY AudioFacts, AudioParts
<1>2. /\ r.retries \in 0 .. MaxRetries /\ r.out \in 0 .. MaxRetries + 1 /\ r.inp \in InputKeys
      /\ 0 \in 0 .. Audios
  BY <1>1, AudioSorts, AudioBoundsAssumption
<1>3. CASE ClaimQueued(w, t)
  <2>1. /\ awork[w].at = "idle" /\ r.st = "queued" /\ Starts(w, "input", t)
        /\ SetAudio(t, [r EXCEPT !.st = "running", !.owner = w, !.leased = TRUE])
        /\ UNCHANGED <<audioStore, paid, swept, aask, adel, audioHistory>>
    BY <1>3 DEF ClaimQueued
  <2>2. PICK n : n = [r EXCEPT !.st = "running", !.owner = w, !.leased = TRUE]
    OBVIOUS
  <2>3. /\ n \in AudioRows /\ n.st = "running" /\ n.art = r.art /\ n.out = r.out /\ n.owner = w /\ n.leased
        /\ n.retries = r.retries /\ n.inp = r.inp
    BY <1>1, <2>2 DEF AudioRows, AudioStatuses
  <2>4. PICK m \in Attempts : m = r.retries + 1
    BY <1>2, MediaBoundsAssumption DEF Attempts
  <2>5. PICK x : x = [at |-> "input", t |-> t, try |-> m, inp |-> r.inp, n |-> 0, ok |-> FALSE]
    OBVIOUS
  <2>6. x \in AudioWorkRows /\ x.at = "input" /\ x.t = t /\ x.try = m /\ x.n = 0 /\ ~ x.ok
    BY <1>2, <2>5 DEF AudioWorkRows, AudioWorkPoints
  <2>7. awork' = [awork EXCEPT ![w] = x]
    BY <2>1, <2>4, <2>5 DEF Starts
  <2>8. Begins(w, x, r, n)
    BY <2>1, <2>3, <2>4, <2>6 DEF Begins
  <2> QED
    BY <2>1, <2>2, <2>3, <2>6, <2>7, <2>8, WorkerBegins DEF SetAudio
<1>4. CASE ClaimSave(w, t)
  <2>1. /\ awork[w].at = "idle" /\ r.st = "completed" /\ Starts(w, "read", t)
        /\ r.art = "pending" \/ (r.art = "saving" /\ ~ r.leased)
        /\ SetAudio(t, [r EXCEPT !.art = "saving", !.owner = w, !.leased = TRUE])
        /\ UNCHANGED <<audioStore, paid, swept, aask, adel, audioHistory>>
    BY <1>4 DEF ClaimSave
  <2>2. PICK n : n = [r EXCEPT !.art = "saving", !.owner = w, !.leased = TRUE]
    OBVIOUS
  <2>3. /\ n \in AudioRows /\ n.st = "completed" /\ n.art = "saving" /\ n.out = r.out /\ n.owner = w
        /\ n.leased /\ n.retries = r.retries /\ n.inp = r.inp
    BY <1>1, <2>1, <2>2 DEF AudioRows, Artifacts
  <2>4. r.out # 0
    BY <1>1, <2>1 DEF ShapeFits, Shape
  <2>5. r.out \in Attempts
    BY <1>2, <2>4, MediaBoundsAssumption DEF Attempts
  <2>6. PICK x : x = [at |-> "read", t |-> t, try |-> r.out, inp |-> r.inp, n |-> 0, ok |-> FALSE]
    OBVIOUS
  <2>7. x \in AudioWorkRows /\ x.at = "read" /\ x.t = t /\ x.n = 0 /\ ~ x.ok
    BY <1>2, <2>5, <2>6 DEF AudioWorkRows, AudioWorkPoints
  <2>8. awork' = [awork EXCEPT ![w] = x]
    BY <2>1, <2>6 DEF Starts
  <2>9. Begins(w, x, r, n)
    BY <2>1, <2>3, <2>7 DEF Begins
  <2> QED
    BY <2>1, <2>2, <2>3, <2>7, <2>8, <2>9, WorkerBegins DEF SetAudio
<1> QED
  BY <1>3, <1>4

-----------------------------------------------------------------------------
(* Rows that callers, sweeps and clocks write.                               *)

\* Row r of task t becomes n; the tasks of L were late before.
Rewritten(t, r, n, L) ==
  \/ /\ r.st = "running" /\ ~ r.leased /\ n.retries = r.retries
     /\ \/ n.st = "unknown" /\ n.art = "none"
        \/ /\ n.st = "completed" /\ n.art = "pending" /\ n.out = r.retries + 1
           /\ n.out \in paid[t] /\ (t \in spoiled \/ stage[t][n.out] = "complete")
  \/ r.st \in {"none", "failed"} /\ n.st = "queued" /\ n.art = "none"
  \/ /\ r.art = "failed" /\ r.st # "deleted" /\ n.art = "pending"
     /\ n.st = r.st /\ n.owner = r.owner /\ n.leased = r.leased /\ n.out = r.out /\ n.retries = r.retries
  \/ /\ n.st = r.st /\ n.art = r.art /\ n.owner = r.owner /\ n.out = r.out /\ n.retries = r.retries
     /\ t \in L \/ \A w \in Workers : ~ At(awork[w], t)

\* The task stays fit.
LEMMA RowRewritten ==
  ASSUME AudioInv, AudioSets', InputFits', NEW t \in Tasks, NEW n \in AudioRows, NEW L, L = late',
         Rewritten(t, audio[t], n, L), audio' = [audio EXCEPT ![t] = n],
         late \subseteq L, \A s \in Sweepers : swept'[s] \in {swept[s], IdleSweep},
         UNCHANGED <<stage, assets, paid, awork, adel, spoiled>>
  PROVE  AudioInv'
<1> DEFINE r == audio[t]
           m == r.retries + 1
<1>1. /\ AudioSets /\ Counts /\ AudioFits(t) /\ r \in AudioRows
      /\ (\A u \in Workers : awork[u] \in AudioWorkRows) /\ IdleSweep.at = "idle"
  BY AudioFacts, IdleAudioRows
<1>2. audio'[t] = n /\ (\A u \in Tasks \ {t} : audio'[u] = audio[u])
  BY <1>1 DEF AudioSets
<1>3. Counts'
  BY <1>1 DEF Counts
<1>4. \A u \in Tasks \ {t} : AudioApart(u)
  BY <1>1, <1>2 DEF AudioApart, At
<1>5. /\ ShapeFits(t) /\ PaidFits(t) /\ GeneratorFits(t) /\ SweepFits(t) /\ DeletionFits(t)
      /\ (t \in late \/ HolderFits(t)) /\ (t \in spoiled \/ StageFits(t))
      /\ (t \in spoiled \/ t \in late \/ AssetsFit(t))
  BY <1>1, AudioParts
<1>6. \A s \in Sweepers : swept'[s].at = "decided" => swept'[s] = swept[s]
  BY <1>1
<1>7. SweepFits(t)'
  BY <1>5, <1>6 DEF SweepFits
<1>8. m # 0
  BY <1>1, AudioSorts
<1>9. CASE /\ r.st = "running" /\ ~ r.leased /\ n.retries = r.retries
           /\ \/ n.st = "unknown" /\ n.art = "none"
              \/ /\ n.st = "completed" /\ n.art = "pending" /\ n.out = m
                 /\ n.out \in paid[t] /\ (t \in spoiled \/ stage[t][n.out] = "complete")
  <2>1. r.art = "none" /\ (\A d \in Deleters : ~ Taken(adel[d], t))
    BY <1>5, <1>9 DEF ShapeFits, Shape, DeletionFits
  <2>2. ShapeFits(t)'
    <3>1. \A d \in Deleters : ~ (adel[d].at \in {"clean", "forget"} /\ adel[d].t = t /\ adel[d].art = "ready")
      BY <1>5, <1>9, <2>1 DEF ShapeFits
    <3> QED
      BY <1>2, <1>8, <1>9, <2>1, <3>1 DEF ShapeFits, Shape, Taken
  <2>3. PaidFits(t)'
    BY <1>2, <1>5, <1>9 DEF PaidFits, Unpaid
  <2>4. GeneratorFits(t)'
    BY <1>2, <1>5, <1>9 DEF GeneratorFits
  <2>5. DeletionFits(t)'
    BY <1>2, <1>5, <2>1 DEF DeletionFits, Taken
  <2>6. t \in late \/ \A w \in Workers : ~ At(awork[w], t)
    BY <1>5, <1>9 DEF HolderFits
  <2>7. t \in late' \/ HolderFits(t)'
    BY <2>6 DEF HolderFits
  <2>8. t \in spoiled \/ StageFits(t)'
    <3> SUFFICES ASSUME t \notin spoiled, StageFits(t) PROVE StageFits(t)'
      BY <1>5
    <3>1. \A d \in Deleters : ~ Claimed(adel[d], t)
      BY <1>9 DEF StageFits
    <3> QED
      BY <1>2, <1>9, <3>1 DEF StageFits
  <2>9. t \in late' \/ AssetsFit(t)'
    BY <1>1, <1>2, <1>9, <2>6, AtWorkOn DEF AssetsFit
  <2>10. AudioFits(t)'
    BY <1>7, <2>2, <2>3, <2>4, <2>5, <2>7, <2>8, <2>9 DEF AudioFits, LifeFits, ResultFits
  <2> QED
    BY <1>3, <1>4, <2>10, OneAudioStep
<1>10. CASE r.st \in {"none", "failed"} /\ n.st = "queued" /\ n.art = "none"
  <2>1. /\ r.art = "none" /\ (\A d \in Deleters : ~ Taken(adel[d], t))
        /\ paid[t] = {} /\ (\A w \in Workers : ~ Gen(awork[w], t))
    BY <1>5, <1>10 DEF ShapeFits, Shape, DeletionFits, PaidFits, Unpaid
  <2>2. ShapeFits(t)'
    <3>1. \A d \in Deleters : ~ (adel[d].at \in {"clean", "forget"} /\ adel[d].t = t /\ adel[d].art = "ready")
      BY <1>5, <1>10, <2>1 DEF ShapeFits
    <3> QED
      BY <1>2, <1>10, <2>1, <3>1 DEF ShapeFits, Shape, Taken
  <2>3. PaidFits(t)'
    BY <1>2, <1>5, <1>10, <2>1 DEF PaidFits, Unpaid
  <2>4. GeneratorFits(t)'
    BY <2>1 DEF GeneratorFits
  <2>5. DeletionFits(t)'
    BY <1>2, <1>5, <2>1 DEF DeletionFits, Taken
  <2>6. t \in late \/ \A w \in Workers : ~ At(awork[w], t)
    BY <1>1, <1>5, <1>10, AtWorkOn DEF HolderFits
  <2>7. t \in late' \/ HolderFits(t)'
    BY <2>6 DEF HolderFits
  <2>8. t \in spoiled \/ StageFits(t)'
    <3> SUFFICES ASSUME t \notin spoiled, StageFits(t) PROVE StageFits(t)'
      BY <1>5
    <3>1. \A d \in Deleters : ~ Claimed(adel[d], t)
      BY <1>10 DEF StageFits
    <3> QED
      BY <1>2, <1>10, <3>1 DEF StageFits
  <2>9. t \in late' \/ AssetsFit(t)'
    BY <1>1, <1>2, <1>10, <2>6, AtWorkOn DEF AssetsFit
  <2>10. AudioFits(t)'
    BY <1>7, <2>2, <2>3, <2>4, <2>5, <2>7, <2>8, <2>9 DEF AudioFits, LifeFits, ResultFits
  <2> QED
    BY <1>3, <1>4, <2>10, OneAudioStep
<1>11. CASE /\ r.art = "failed" /\ r.st # "deleted" /\ n.art = "pending"
            /\ n.st = r.st /\ n.owner = r.owner /\ n.leased = r.leased /\ n.out = r.out
            /\ n.retries = r.retries
  <2>1. \A d \in Deleters : ~ (adel[d].at \in {"clean", "forget"} /\ adel[d].t = t /\ adel[d].art = "ready")
    BY <1>5, <1>11 DEF ShapeFits
  <2>2. ShapeFits(t)'
    BY <1>2, <1>5, <1>11, <2>1 DEF ShapeFits, Shape, Taken
  <2>3. PaidFits(t)'
    BY <1>2, <1>5, <1>11 DEF PaidFits, Unpaid
  <2>4. GeneratorFits(t)'
    BY <1>2, <1>5, <1>11 DEF GeneratorFits
  <2>5. DeletionFits(t)'
    BY <1>2, <1>5, <1>11 DEF DeletionFits, Taken, Unpaid
  <2>6. t \in late \/ \A w \in Workers : ~ Sav(awork[w], t)
    BY <1>1, <1>5, <1>11, AtWorkOn DEF HolderFits
  <2>7. t \in late' \/ HolderFits(t)'
    BY <1>2, <1>5, <1>11, <2>6 DEF HolderFits
  <2>8. t \in spoiled \/ StageFits(t)'
    BY <1>2, <1>5, <1>6, <1>11 DEF StageFits
  <2>9. t \in late' \/ AssetsFit(t)'
    BY <1>2, <1>11, <2>6 DEF AssetsFit
  <2>10. AudioFits(t)'
    BY <1>7, <2>2, <2>3, <2>4, <2>5, <2>7, <2>8, <2>9 DEF AudioFits, LifeFits, ResultFits
  <2> QED
    BY <1>3, <1>4, <2>10, OneAudioStep
<1>12. CASE /\ n.st = r.st /\ n.art = r.art /\ n.owner = r.owner /\ n.out = r.out
            /\ n.retries = r.retries
            /\ t \in L \/ \A w \in Workers : ~ At(awork[w], t)
  <2>1. ShapeFits(t)'
    BY <1>2, <1>5, <1>12 DEF ShapeFits, Shape, Taken
  <2>2. PaidFits(t)'
    BY <1>2, <1>5, <1>12 DEF PaidFits, Unpaid
  <2>3. GeneratorFits(t)'
    BY <1>2, <1>5, <1>12 DEF GeneratorFits
  <2>4. DeletionFits(t)'
    BY <1>2, <1>5, <1>12 DEF DeletionFits, Taken, Unpaid
  <2>5. t \in late' \/ HolderFits(t)'
    BY <1>12 DEF HolderFits
  <2>6. t \in spoiled \/ StageFits(t)'
    BY <1>2, <1>5, <1>6, <1>12 DEF StageFits
  <2>7. t \in spoiled \/ t \in late' \/ AssetsFit(t)'
    BY <1>2, <1>5, <1>12 DEF AssetsFit
  <2>8. AudioFits(t)'
    BY <1>7, <2>1, <2>2, <2>3, <2>4, <2>5, <2>6, <2>7 DEF AudioFits, LifeFits, ResultFits
  <2> QED
    BY <1>3, <1>4, <2>8, OneAudioStep
<1> QED
  BY <1>9, <1>10, <1>11, <1>12 DEF Rewritten

\* The sweep: a result that was found staged is complete and paid for.
LEMMA SweepSteps ==
  ASSUME AudioInv, NEW s \in Sweepers, StaleWrite(s) \/ \E t \in Tasks : StaleRead(s, t)
  PROVE  AudioInv'
<1>1. AudioSets /\ Counts /\ swept[s] \in SweepRows
  BY AudioFacts
<1>2. CASE StaleWrite(s)
  <2> DEFINE t == swept[s].t
             r == audio[t]
             a == swept[s].try
  <2>1. t \in Tasks /\ r \in AudioRows /\ AudioFits(t) /\ a \in Attempts
    BY <1>1, AudioFacts, AudioSorts
  <2>2. /\ swept[s].at = "decided" /\ swept' = [swept EXCEPT ![s] = IdleSweep]
        /\ UNCHANGED <<audioStore, paid, awork, aask, adel, audioHistory>>
    BY <1>2 DEF StaleWrite
  <2>3. CASE audio' = audio
    BY <1>1, <2>2, <2>3, OneActorRests DEF audioHistory, AudioSets
  <2>4. CASE audio' # audio
    <3>1. r.st = "running" /\ ~ r.leased /\ SetAudio(t, Recovered(r, s))
      BY <1>2, <2>4, Zenon DEF StaleWrite
    <3>2. PICK v \in {"completed", "unknown"} : v = IF swept[s].ok THEN "completed" ELSE "unknown"
      OBVIOUS
    <3>3. PICK k \in {"pending", "none"} : k = IF swept[s].ok THEN "pending" ELSE "none"
      OBVIOUS
    <3>4. PICK n : n = [r EXCEPT !.st = v, !.art = k, !.out = a, !.owner = Nobody]
      OBVIOUS
    <3>5. a \in 0 .. MaxRetries + 1
      BY <2>1, MediaBoundsAssumption DEF Attempts
    <3>6. /\ n \in AudioRows /\ n.st = v /\ n.art = k /\ n.out = a /\ n.inp = r.inp
          /\ n.retries = r.retries
      BY <2>1, <3>4, <3>5 DEF AudioRows, AudioStatuses, Artifacts
    <3>7. audio' = [audio EXCEPT ![t] = n]
      BY <3>1, <3>2, <3>3, <3>4 DEF SetAudio, Recovered
    <3>8. swept[s].ok => /\ a = r.retries + 1 /\ a \in paid[t]
                         /\ (t \in spoiled \/ stage[t][a] = "complete")
      <4>1. SweepFits(t) /\ PaidFits(t) /\ (t \in spoiled \/ StageFits(t))
        BY <2>1, AudioParts
      <4> QED
        BY <2>2, <3>1, <4>1 DEF SweepFits, PaidFits, StageFits
    <3>9. Rewritten(t, r, n, late)
      BY <3>1, <3>2, <3>3, <3>6, <3>8 DEF Rewritten
    <3>10. AudioSets'
      BY <1>1, <2>1, <2>2, <3>6, <3>7, IdleAudioRows DEF AudioSets, audioStore, audioHistory
    <3>11. InputFits'
      <4>1. audio'[t] = n /\ (\A u \in Tasks \ {t} : audio'[u] = audio[u])
        BY <1>1, <2>1, <3>7 DEF AudioSets
      <4>2. ~ Going(n)
        BY <3>6 DEF Going
      <4>3. CalmInputs
        BY <2>2, <3>6, <4>1, <4>2 DEF CalmInputs, audioStore
      <4> QED
        BY <4>3, CalmInputsFit
    <3>12. \A v2 \in Sweepers : swept'[v2] \in {swept[v2], IdleSweep}
      BY <1>1, <2>2 DEF AudioSets
    <3> QED
      BY <2>1, <2>2, <3>6, <3>7, <3>9, <3>10, <3>11, <3>12, RowRewritten DEF audioStore, audioHistory
  <2> QED
    BY <2>3, <2>4
<1>3. CASE \E t \in Tasks : StaleRead(s, t)
  <2>1. PICK t \in Tasks : StaleRead(s, t)
    BY <1>3
  <2> DEFINE r == audio[t]
  <2>2. r \in AudioRows /\ r.retries \in 0 .. MaxRetries /\ AudioFits(t)
    BY AudioFacts, AudioSorts
  <2>3. PICK m \in Attempts : m = r.retries + 1
    BY <2>2, MediaBoundsAssumption DEF Attempts
  <2>4. PICK x : x = [at |-> "decided", t |-> t, try |-> m, ok |-> stage[t][m] = "complete"]
    OBVIOUS
  <2>5. /\ x \in SweepRows /\ x.at = "decided" /\ x.t = t /\ x.try = m
        /\ (x.ok <=> stage[t][m] = "complete")
    BY <2>4 DEF SweepRows
  <2>6. /\ r.st = "running" /\ swept' = [swept EXCEPT ![s] = x]
        /\ UNCHANGED <<audio, inputs, given, stage, assets, paid, awork, aask, adel, late, spoiled, faults>>
    BY <2>1, <2>3, <2>4 DEF StaleRead, audioStore, audioHistory
  <2>7. swept'[s] = x /\ \A u \in Sweepers \ {s} : swept'[u] = swept[u]
    BY <1>1, <2>6 DEF AudioSets
  <2>8. AudioSets' /\ Counts'
    BY <1>1, <2>5, <2>6 DEF AudioSets, Counts
  <2>9. InputFits'
    <3>1. CalmInputs
      BY <2>6 DEF CalmInputs
    <3> QED
      BY <3>1, CalmInputsFit
  <2>10. \A u \in Tasks \ {t} : AudioApart(u)
    BY <2>5, <2>6, <2>7 DEF AudioApart, At
  <2>11. /\ ShapeFits(t) /\ PaidFits(t) /\ GeneratorFits(t) /\ SweepFits(t) /\ DeletionFits(t)
         /\ (t \in late \/ HolderFits(t)) /\ (t \in spoiled \/ StageFits(t))
         /\ (t \in spoiled \/ t \in late \/ AssetsFit(t))
    BY <2>2, AudioParts
  <2>12. SweepFits(t)'
    <3>1. x.ok => m \in paid[t] /\ \A w \in Workers : Gen(awork[w], t) => awork[w].at \notin {"payload", "marker"}
      BY <2>3, <2>5, <2>11 DEF PaidFits, GeneratorFits
    <3> QED
      BY <2>5, <2>6, <2>7, <2>11, <3>1 DEF SweepFits
  <2>13. ShapeFits(t)' /\ PaidFits(t)' /\ GeneratorFits(t)'
    BY <2>6, <2>11 DEF ShapeFits, Shape, Taken, PaidFits, Unpaid, GeneratorFits
  <2>14. DeletionFits(t)' /\ (t \in late' \/ HolderFits(t)')
    BY <2>6, <2>11 DEF DeletionFits, Taken, Unpaid, HolderFits
  <2>15. t \in spoiled' \/ StageFits(t)'
    BY <2>3, <2>5, <2>6, <2>7, <2>11 DEF StageFits
  <2>16. t \in spoiled' \/ t \in late' \/ AssetsFit(t)'
    BY <2>6, <2>11 DEF AssetsFit
  <2>17. AudioFits(t)'
    BY <2>12, <2>13, <2>14, <2>15, <2>16 DEF AudioFits, LifeFits, ResultFits
  <2> QED
    BY <2>8, <2>9, <2>10, <2>17, OneAudioStep
<1> QED
  BY <1>2, <1>3

\* A lease that runs out under a holder makes the task late.
LEMMA AudioLeaseStep ==
  ASSUME AudioInv, NEW t \in Tasks, AudioLeaseRunsOut(t)
  PROVE  AudioInv'
<1> DEFINE r == audio[t]
<1>1. AudioSets /\ r \in AudioRows /\ AudioFits(t)
  BY AudioFacts
<1>2. /\ audio' = [audio EXCEPT ![t].leased = FALSE]
      /\ UNCHANGED <<inputs, given, stage, assets, paid, awork, swept, aask, adel, spoiled>>
      /\ IF AudioHolds(t) THEN faults < MaxFaults /\ faults' = faults + 1 /\ late' = late \cup {t}
                          ELSE UNCHANGED <<faults, late>>
  BY DEF AudioLeaseRunsOut, audioStore, audioActors
<1>3. PICK n : n = [r EXCEPT !.leased = FALSE]
  OBVIOUS
<1>4. /\ n \in AudioRows /\ n.st = r.st /\ n.art = r.art /\ n.owner = r.owner /\ n.out = r.out
      /\ n.retries = r.retries /\ n.inp = r.inp
  BY <1>1, <1>3 DEF AudioRows
<1>5. audio' = [audio EXCEPT ![t] = n]
  BY <1>1, <1>2, <1>3 DEF AudioSets
<1>6. faults' \in 0 .. MaxFaults /\ late' \in SUBSET Tasks /\ late \subseteq late'
  BY <1>1, <1>2, MediaBoundsAssumption DEF AudioSets
<1>7. AudioSets'
  BY <1>1, <1>2, <1>4, <1>5, <1>6 DEF AudioSets
<1>8. InputFits'
  <2>1. audio'[t] = n /\ (\A u \in Tasks \ {t} : audio'[u] = audio[u])
    BY <1>1, <1>5 DEF AudioSets
  <2>2. Going(n) <=> Going(r)
    BY <1>4 DEF Going
  <2>3. CalmInputs
    BY <1>2, <1>4, <2>1, <2>2 DEF CalmInputs
  <2> QED
    BY <2>3, CalmInputsFit
<1>9. t \in late' \/ \A w \in Workers : ~ At(awork[w], t)
  <2> SUFFICES ASSUME t \notin late', NEW w \in Workers, At(awork[w], t) PROVE FALSE
    OBVIOUS
  <2>1. ~ AudioHolds(t) /\ t \notin late
    BY <1>2
  <2>2. HolderFits(t)
    BY <1>1, <2>1, AudioParts
  <2> QED
    BY <2>1, <2>2 DEF HolderFits, At, AudioHolds
<1>10. PICK L : L = late'
  OBVIOUS
<1>11. Rewritten(t, r, n, L)
  BY <1>4, <1>9, <1>10 DEF Rewritten
<1> QED
  BY <1>2, <1>4, <1>5, <1>6, <1>7, <1>8, <1>10, <1>11, RowRewritten

\* Callers that change no row.
LEMMA AskOnly ==
  ASSUME AudioInv, NEW c \in Clients, NEW x \in AudioAskRows, aask' = [aask EXCEPT ![c] = x],
         inputs' \in SUBSET given', given' \in SUBSET Inputs, InputFits',
         UNCHANGED <<audio, stage, assets, paid, awork, swept, adel, late, spoiled, faults>>
  PROVE  AudioInv'
<1>1. AudioSets /\ Counts
  BY AudioFacts
<1>2. AudioSets' /\ Counts'
  BY <1>1 DEF AudioSets, Counts
<1>3. \A u \in Tasks : AudioApart(u)
  BY DEF AudioApart
<1> QED
  BY <1>2, <1>3, NoTaskStep

\* The capture of an input.
LEMMA CaptureSteps ==
  ASSUME AudioInv, NEW c \in Clients, NEW i \in Inputs,
         RetryCapture(c, i) \/ \E t \in Tasks : SubmitCapture(c, t, i)
  PROVE  AudioInv'
<1>1. AudioSets /\ aask[c] \in AudioAskRows
  BY AudioFacts
<1>2. /\ Capture(c, i)
      /\ UNCHANGED <<audio, stage, assets, paid, awork, swept, adel, late, spoiled, faults>>
  BY DEF RetryCapture, SubmitCapture, audioHistory
<1>3. PICK l \in {"retry", "create"}, t \in Tasks, o \in {aask[c].old, Nobody} : Asking(c, l, t, i, o)
  BY <1>1, AudioSorts DEF RetryCapture, SubmitCapture
<1>4. PICK x : x = [at |-> l, t |-> t, inp |-> i, old |-> o]
  OBVIOUS
<1>5. x \in AudioAskRows /\ x.inp = i /\ x.old \in {aask[c].old, Nobody}
  BY <1>1, <1>4 DEF AudioAskRows, InputKeys
<1>6. aask' = [aask EXCEPT ![c] = x]
  BY <1>3, <1>4 DEF Asking
<1>7. InputFits'
  BY <1>2, <1>5, <1>6, NewInputFits
<1>8. inputs' \in SUBSET given' /\ given' \in SUBSET Inputs
  BY <1>1, <1>2 DEF AudioSets, Capture
<1> QED
  BY <1>2, <1>5, <1>6, <1>7, <1>8, AskOnly

\* Other steps of a caller that change no row.
LEMMA AskCalm ==
  ASSUME AudioInv, NEW c \in Clients,
         \/ DropOld(c) \/ RetryRefused(c)
         \/ \E t \in Tasks : RetryRead(c, t) \/ SaveAgainRead(c, t)
         \/ (CreateRow(c) \/ RetryWrite(c) \/ SaveAgainWrite(c)) /\ UNCHANGED audio
  PROVE  AudioInv'
<1>1. AudioSets /\ aask[c] \in AudioAskRows /\ \A t \in Tasks : audio[t] \in AudioRows
  BY AudioFacts
<1>2. /\ UNCHANGED <<audio, given, stage, assets, paid, awork, swept, adel, late, spoiled, faults>>
      /\ \/ inputs' = inputs
         \/ aask[c].at = "drop" /\ inputs' = inputs \ {aask[c].old}
         \/ aask[c].at = "create" /\ inputs' = inputs \ {aask[c].inp}
  BY DEF DropOld, RetryRefused, RetryRead, SaveAgainRead, CreateRow, RetryWrite, SaveAgainWrite,
     audioStore, audioHistory
<1>3. PICK x \in AudioAskRows : /\ aask' = [aask EXCEPT ![c] = x] /\ ~ Bringing(x)
                                /\ x.old \in {aask[c].old, Nobody} \/ ReadAtRest(x.old)
  <2>1. CASE aask' = [aask EXCEPT ![c] = AudioIdleAsk]
    BY <2>1, IdleAudioRows DEF Bringing
  <2>2. CASE \E t \in Tasks : RetryRead(c, t)
    <3>1. PICK t \in Tasks : RetryRead(c, t)
      BY <2>2
    <3>2. PICK x : x = [at |-> "capture", t |-> t, inp |-> Nobody, old |-> audio[t].inp]
      OBVIOUS
    <3>3. x \in AudioAskRows /\ ~ Bringing(x) /\ x.old = audio[t].inp
      BY <1>1, <3>2, AudioSorts DEF AudioAskRows, Bringing, InputKeys
    <3>4. aask' = [aask EXCEPT ![c] = x] /\ ReadAtRest(x.old)
      BY <3>1, <3>2, <3>3 DEF RetryRead, Asking, ReadAtRest, Going
    <3> QED
      BY <3>3, <3>4
  <2>3. CASE \E t \in Tasks : SaveAgainRead(c, t)
    <3>1. PICK t \in Tasks : SaveAgainRead(c, t)
      BY <2>3
    <3>2. PICK x : x = [at |-> "resave", t |-> t, inp |-> Nobody, old |-> Nobody]
      OBVIOUS
    <3>3. x \in AudioAskRows /\ ~ Bringing(x) /\ x.old = Nobody
      BY <3>2 DEF AudioAskRows, Bringing, InputKeys
    <3>4. aask' = [aask EXCEPT ![c] = x]
      BY <3>1, <3>2 DEF SaveAgainRead, Asking
    <3> QED
      BY <3>3, <3>4
  <2>4. CASE RetryWrite(c) /\ UNCHANGED audio /\ aask' # [aask EXCEPT ![c] = AudioIdleAsk]
    <3>1. Asking(c, "drop", aask[c].t, aask[c].inp, aask[c].old)
      BY <2>4, Zenon DEF RetryWrite, AskDone
    <3>2. PICK x : x = [at |-> "drop", t |-> aask[c].t, inp |-> aask[c].inp, old |-> aask[c].old]
      OBVIOUS
    <3>3. x \in AudioAskRows /\ ~ Bringing(x) /\ x.old = aask[c].old
      BY <1>1, <3>2, AudioSorts DEF AudioAskRows, Bringing
    <3> QED
      BY <3>1, <3>2, <3>3 DEF Asking
  <2> QED
    BY <2>1, <2>2, <2>3, <2>4 DEF DropOld, RetryRefused, CreateRow, SaveAgainWrite, AskDone
<1>4. aask'[c] = x /\ \A e \in Clients \ {c} : aask'[e] = aask[e]
  BY <1>1, <1>3 DEF AudioSets
<1>5. InputFits'
  <2>1. aask[c].at = "create" => Bringing(aask[c]) /\ aask'[c] # aask[c]
    BY <1>3, <1>4 DEF Bringing
  <2>2. CalmInputs
    BY <1>2, <1>3, <1>4, <2>1 DEF CalmInputs
  <2> QED
    BY <2>2, CalmInputsFit
<1>6. inputs' \in SUBSET given' /\ given' \in SUBSET Inputs
  BY <1>1, <1>2 DEF AudioSets
<1> QED
  BY <1>2, <1>3, <1>5, <1>6, AskOnly

\* Callers that write a row.
LEMMA AskWrites ==
  ASSUME AudioInv, NEW c \in Clients, CreateRow(c) \/ RetryWrite(c) \/ SaveAgainWrite(c),
         audio' # audio
  PROVE  AudioInv'
<1> DEFINE t == aask[c].t
           r == audio[t]
<1>1. AudioSets /\ aask[c] \in AudioAskRows /\ t \in Tasks /\ r \in AudioRows /\ aask[c].inp \in InputKeys
      /\ aask[c].old \in InputKeys /\ r.retries \in 0 .. MaxRetries
  BY AudioFacts, AudioSorts
<1>2. UNCHANGED <<given, stage, assets, paid, awork, swept, adel, late, spoiled, faults>>
  BY DEF CreateRow, RetryWrite, SaveAgainWrite, audioStore, audioHistory
<1>3. \A s \in Sweepers : swept'[s] \in {swept[s], IdleSweep}
  BY <1>2
<1>4. 0 \in 0 .. MaxRetries /\ 0 \in 0 .. MaxRetries + 1
  BY MediaBoundsAssumption
<1>5. CASE CreateRow(c)
  <2>1. /\ aask[c].at = "create" /\ r.st = "none" /\ inputs' = inputs
        /\ SetAudio(t, [NewAudio("queued") EXCEPT !.inp = aask[c].inp])
        /\ aask' = [aask EXCEPT ![c] = AudioIdleAsk]
    BY <1>5, Zenon DEF CreateRow, AskDone
  <2>2. PICK n : n = [NewAudio("queued") EXCEPT !.inp = aask[c].inp]
    OBVIOUS
  <2>3. n \in AudioRows /\ n.st = "queued" /\ n.art = "none" /\ n.inp = aask[c].inp
    BY <1>1, <1>4, <2>2 DEF NewAudio, AudioRows, AudioStatuses, Artifacts, InputKeys
  <2>4. audio' = [audio EXCEPT ![t] = n]
    BY <2>1, <2>2 DEF SetAudio
  <2>5. AudioSets'
    BY <1>1, <1>2, <2>1, <2>3, <2>4, IdleAudioRows DEF AudioSets
  <2>6. Bringing(aask[c]) /\ ~ Bringing(AudioIdleAsk)
    BY <2>1, IdleAudioRows DEF Bringing
  <2>7. InputFits'
    BY <1>1, <1>2, <2>1, <2>3, <2>4, <2>6, InputTaken, IdleAudioRows
  <2>8. Rewritten(t, r, n, late)
    BY <2>1, <2>3 DEF Rewritten
  <2> QED
    BY <1>1, <1>2, <1>3, <2>3, <2>4, <2>5, <2>7, <2>8, RowRewritten
<1>6. CASE RetryWrite(c)
  <2>1. /\ aask[c].at = "retry" /\ r.st = "failed" /\ r.retries < MaxRetries /\ inputs' = inputs
        /\ SetAudio(t, [r EXCEPT !.st = "queued", !.art = "none", !.inp = aask[c].inp, !.out = 0,
                                 !.retries = @ + 1])
        /\ Asking(c, "drop", t, aask[c].inp, aask[c].old)
    BY <1>6, Zenon DEF RetryWrite, AudioRetryMatches, audioStore
  <2>2. PICK i \in 0 .. MaxRetries : i = r.retries + 1
    BY <1>1, <2>1, MediaBoundsAssumption
  <2>3. PICK n : n = [r EXCEPT !.st = "queued", !.art = "none", !.inp = aask[c].inp, !.out = 0,
                               !.retries = i]
    OBVIOUS
  <2>4. n \in AudioRows /\ n.st = "queued" /\ n.art = "none" /\ n.inp = aask[c].inp
    BY <1>1, <1>4, <2>3 DEF AudioRows, AudioStatuses, Artifacts, InputKeys
  <2>5. n = [r EXCEPT !.st = "queued", !.art = "none", !.inp = aask[c].inp, !.out = 0, !.retries = @ + 1]
    BY <1>1, <2>2, <2>3 DEF AudioRows
  <2>6. audio' = [audio EXCEPT ![t] = n]
    BY <2>1, <2>5, Zenon DEF SetAudio
  <2>7. PICK x : x = [at |-> "drop", t |-> t, inp |-> aask[c].inp, old |-> aask[c].old]
    OBVIOUS
  <2>8. x \in AudioAskRows /\ ~ Bringing(x) /\ x.old = aask[c].old
    BY <1>1, <2>7, AudioSorts DEF AudioAskRows, Bringing
  <2>9. aask' = [aask EXCEPT ![c] = x] /\ Bringing(aask[c])
    BY <2>1, <2>7 DEF Asking, Bringing
  <2>10. AudioSets'
    BY <1>1, <1>2, <2>1, <2>4, <2>6, <2>8, <2>9 DEF AudioSets
  <2>11. InputFits'
    BY <1>1, <1>2, <2>1, <2>4, <2>6, <2>8, <2>9, InputTaken
  <2>12. Rewritten(t, r, n, late)
    BY <2>1, <2>4 DEF Rewritten
  <2> QED
    BY <1>1, <1>2, <1>3, <2>4, <2>6, <2>10, <2>11, <2>12, RowRewritten
<1>7. CASE SaveAgainWrite(c)
  <2>1. /\ r.art = "failed" /\ r.st # "deleted" /\ inputs' = inputs
        /\ SetAudio(t, [r EXCEPT !.art = "pending"]) /\ aask' = [aask EXCEPT ![c] = AudioIdleAsk]
    BY <1>7, Zenon DEF SaveAgainWrite, AskDone, audioStore
  <2>2. PICK n : n = [r EXCEPT !.art = "pending"]
    OBVIOUS
  <2>3. /\ n \in AudioRows /\ n.art = "pending" /\ n.st = r.st /\ n.owner = r.owner /\ n.leased = r.leased
        /\ n.out = r.out /\ n.retries = r.retries /\ n.inp = r.inp
    BY <1>1, <2>2 DEF AudioRows, Artifacts
  <2>4. audio' = [audio EXCEPT ![t] = n]
    BY <2>1, <2>2 DEF SetAudio
  <2>5. AudioSets'
    BY <1>1, <1>2, <2>1, <2>3, <2>4, IdleAudioRows DEF AudioSets
  <2>6. InputFits'
    <3>1. audio'[t] = n /\ (\A u \in Tasks \ {t} : audio'[u] = audio[u])
      BY <1>1, <2>4 DEF AudioSets
    <3>2. Going(n) <=> Going(r)
      BY <2>3 DEF Going
    <3>3. aask'[c] = AudioIdleAsk /\ \A e \in Clients \ {c} : aask'[e] = aask[e]
      BY <1>1, <2>1 DEF AudioSets
    <3>4. ~ Bringing(AudioIdleAsk) /\ AudioIdleAsk.old = Nobody
      BY IdleAudioRows DEF Bringing
    <3>5. CalmInputs
      BY <1>2, <2>1, <2>3, <3>1, <3>2, <3>3, <3>4 DEF CalmInputs
    <3> QED
      BY <3>5, CalmInputsFit
  <2>7. Rewritten(t, r, n, late)
    BY <2>1, <2>3 DEF Rewritten
  <2> QED
    BY <1>1, <1>2, <1>3, <2>3, <2>4, <2>5, <2>6, <2>7, RowRewritten
<1> QED
  BY <1>5, <1>6, <1>7

-----------------------------------------------------------------------------
(* Deletions and clean-ups.                                                  *)

\* The row n says of its task what r says.
SameWork(n, r) ==
  /\ n.st = r.st /\ n.art = r.art /\ n.owner = r.owner /\ n.leased = r.leased
  /\ n.retries = r.retries

\* A deleter goes from b to x; the row r becomes n, the stages g become h.
Deletes(b, x, r, n, g, h, sp) ==
  \/ /\ b.at = "idle" /\ x.at \in {"claim", "clean"} /\ x.st = r.st /\ x.art = r.art /\ n = r /\ h = g
     /\ r.st \notin {"none", "queued", "running", "deleted"}
     /\ x.at = "claim" => r.art \notin {"pending", "saving"}
  \/ /\ b.at = "claim" /\ x.at = "assets" /\ x.st = b.st /\ r.st = b.st /\ r.art = b.art /\ h = g
     /\ n.st = "deleting" /\ n.art = r.art /\ n.out = r.out /\ n.retries = r.retries
  \/ b.at \in {"assets", "files"} /\ x.at \in {"files", "row"} /\ x.st = b.st /\ n = r
  \/ /\ b.at = "row" /\ x.at = "idle" /\ r.st = "deleting" /\ h = g
     /\ n.st = "deleted" /\ n.art = "none" /\ n.retries = r.retries
  \/ /\ b.at \in {"assets", "row"} /\ x.at = "idle" /\ r.st = "deleting" /\ h = g /\ sp
     /\ n.st = b.st /\ n.art = r.art /\ n.out = r.out /\ n.retries = r.retries
  \/ b.at \in {"assets", "row"} /\ x.at = "idle" /\ n = r /\ h = g /\ sp
  \/ b.at = "clean" /\ x.at = "forget" /\ x.st = b.st /\ x.art = b.art /\ n = r /\ (b.art # "ready" => h = g)
  \/ /\ b.at = "forget" /\ x.at = "idle" /\ SameWork(n, r) /\ (b.art # "ready" => n.out = r.out) /\ h = g

\* Every deletion under way finds what it expects.
LEMMA DeletionFitsOn ==
  ASSUME AudioInv, NEW d \in Deleters, NEW x \in AudioDelRows, NEW t \in Tasks, NEW n \in AudioRows,
         NEW h, NEW sp,
         adel[d].at = "idle" \/ adel[d].t = t, x.at = "idle" \/ x.t = t,
         Deletes(adel[d], x, audio[t], n, stage[t], h, sp),
         audio'[t] = n, adel'[d] = x, \A e \in Deleters \ {d} : adel'[e] = adel[e],
         UNCHANGED <<paid, awork>>
  PROVE  ShapeFits(t)' /\ DeletionFits(t)'
<1> DEFINE r == audio[t]
           b == adel[d]
<1>1. AudioFits(t) /\ b \in AudioDelRows
  BY AudioFacts
<1>2. ShapeFits(t) /\ DeletionFits(t) /\ PaidFits(t)
  BY <1>1, AudioParts
<1>3. CASE /\ b.at = "idle" /\ x.at \in {"claim", "clean"} /\ x.st = r.st /\ x.art = r.art /\ n = r
           /\ r.st \notin {"none", "queued", "running", "deleted"}
           /\ x.at = "claim" => r.art \notin {"pending", "saving"}
  <2>1. ~ Claimed(x, t) /\ ~ Taken(x, t)
    BY <1>3 DEF Claimed, ClaimedPoints, Taken
  <2>2. ShapeFits(t)'
    BY <1>2, <1>3, <2>1 DEF ShapeFits, Shape, Taken
  <2>3. DeletionFits(t)'
    BY <1>2, <1>3, <2>1 DEF DeletionFits, Taken, Unpaid
  <2> QED
    BY <2>2, <2>3
<1>4. CASE /\ b.at = "claim" /\ x.at = "assets" /\ x.st = b.st /\ r.st = b.st /\ r.art = b.art
           /\ n.st = "deleting" /\ n.art = r.art /\ n.out = r.out /\ n.retries = r.retries
  <2>1. /\ b.t = t /\ x.t = t /\ Claimed(x, t) /\ At(b, t)
        /\ r.st \notin {"none", "queued", "running", "deleted"}
    BY <1>2, <1>4 DEF Claimed, ClaimedPoints, At, DeletionFits
  <2>2. \A e \in Deleters : Taken(adel[e], t) => r.st = "deleting"
    BY <1>2, <2>1 DEF DeletionFits
  <2>3. ShapeFits(t)'
    <3>1. Shape(n.st, n)
      BY <1>4 DEF Shape
    <3>2. \A e \in Deleters \ {d} : Taken(adel[e], t) => Shape(adel[e].st, n)
      BY <1>2, <1>4, <2>2 DEF ShapeFits, Shape
    <3>3. Shape(x.st, n)
      BY <1>2, <1>4 DEF ShapeFits, Shape
    <3>4. \A e \in Deleters : adel'[e].at \in {"clean", "forget"} /\ adel'[e].t = t /\ adel'[e].art = "ready" =>
            n.art = "ready" \/ n.st = "deleted"
      BY <1>2, <1>4, <2>1 DEF ShapeFits
    <3> QED
      BY <3>1, <3>2, <3>3, <3>4 DEF ShapeFits, Taken
  <2>4. DeletionFits(t)'
    <3>1. ASSUME NEW e \in Deleters, Taken(adel'[e], t)
          PROVE  /\ \A f \in Deleters : Taken(adel'[f], t) => f = e
                 /\ adel'[e].st = "failed" => Unpaid(t)
                 /\ adel'[e].st = "completed" => r.retries + 1 \in paid[t]
      <4>1. CASE x.st = "deleting"
        <5>1. e # d /\ adel'[e] = adel[e] /\ Taken(adel[e], t) /\ ~ Taken(x, t)
          BY <3>1, <4>1 DEF Taken
        <5> QED
          BY <1>2, <1>4, <4>1, <5>1 DEF DeletionFits
      <4>2. CASE x.st # "deleting"
        <5>1. \A f \in Deleters : ~ Taken(adel[f], t)
          BY <1>4, <2>2, <4>2
        <5>2. e = d /\ \A f \in Deleters : Taken(adel'[f], t) => f = d
          BY <3>1, <5>1
        <5> QED
          BY <1>2, <1>4, <5>2 DEF PaidFits, Unpaid
      <4> QED
        BY <4>1, <4>2
    <3>2. \A e \in Deleters : At(adel'[e], t) =>
            /\ adel'[e].st \notin {"none", "queued", "running", "deleted"}
            /\ adel'[e].at = "claim" => adel'[e].art \notin {"pending", "saving"}
      BY <1>2, <1>4, <2>1 DEF DeletionFits
    <3> QED
      BY <1>4, <3>1, <3>2 DEF DeletionFits, Unpaid
  <2> QED
    BY <2>3, <2>4
<1>5. CASE b.at \in {"assets", "files"} /\ x.at \in {"files", "row"} /\ x.st = b.st /\ n = r
  <2>1. /\ (Claimed(x, t) <=> Claimed(b, t)) /\ (Taken(x, t) <=> Taken(b, t)) /\ (At(x, t) <=> At(b, t))
        /\ x.at # "claim" /\ x.at \notin {"clean", "forget"}
    BY <1>5 DEF Claimed, ClaimedPoints, Taken, At
  <2>2. ShapeFits(t)'
    BY <1>2, <1>5, <2>1 DEF ShapeFits, Shape, Taken
  <2>3. DeletionFits(t)'
    <3>1. \A e \in Deleters : /\ (Taken(adel'[e], t) <=> Taken(adel[e], t)) /\ adel'[e].st = adel[e].st
                              /\ (At(adel'[e], t) <=> At(adel[e], t))
      BY <1>5, <2>1
    <3> QED
      BY <1>2, <1>5, <2>1, <3>1 DEF DeletionFits, Unpaid
  <2> QED
    BY <2>2, <2>3
<1>6. CASE x.at = "idle" /\ SameWork(n, r) /\ (n.out = r.out \/ (b.art = "ready" /\ b.at = "forget"))
  <2>1. \A e \in Deleters : At(adel'[e], t) => e # d /\ adel'[e] = adel[e]
    BY <1>6 DEF At
  <2>2. \A e \in Deleters : Taken(adel'[e], t) => e # d /\ adel'[e] = adel[e]
    BY <1>6 DEF Taken, Claimed, ClaimedPoints
  <2>3. ShapeFits(t)'
    <3>1. n.out = r.out \/ r.art = "ready" \/ r.st = "deleted"
      BY <1>2, <1>6 DEF ShapeFits
    <3>2. Shape(n.st, n)
      BY <1>2, <1>6, <3>1 DEF ShapeFits, Shape, SameWork
    <3>3. \A e \in Deleters : Taken(adel'[e], t) /\ n.st = "deleting" => Shape(adel'[e].st, n)
      BY <1>2, <1>6, <2>2, <3>1 DEF ShapeFits, Shape, SameWork
    <3>4. \A e \in Deleters : adel'[e].at \in {"clean", "forget"} /\ adel'[e].t = t /\ adel'[e].art = "ready" =>
            n.art = "ready" \/ n.st = "deleted"
      BY <1>2, <1>6 DEF ShapeFits, SameWork
    <3> QED
      BY <3>2, <3>3, <3>4 DEF ShapeFits, Taken
  <2>4. DeletionFits(t)'
    BY <1>2, <1>6, <2>1, <2>2 DEF DeletionFits, Unpaid, SameWork
  <2> QED
    BY <2>3, <2>4
<1>7. CASE /\ b.at = "row" /\ x.at = "idle" /\ r.st = "deleting"
           /\ n.st = "deleted" /\ n.art = "none" /\ n.retries = r.retries
  <2>1. \A e \in Deleters : At(adel'[e], t) => e # d /\ adel'[e] = adel[e]
    BY <1>7 DEF At
  <2>2. \A e \in Deleters : Taken(adel'[e], t) => e # d /\ adel'[e] = adel[e]
    BY <1>7 DEF Taken, Claimed, ClaimedPoints
  <2>3. ShapeFits(t)'
    BY <1>7 DEF ShapeFits, Shape
  <2>4. DeletionFits(t)'
    BY <1>2, <1>7, <2>1, <2>2 DEF DeletionFits
  <2> QED
    BY <2>3, <2>4
<1>8. CASE /\ b.at \in {"assets", "row"} /\ x.at = "idle" /\ r.st = "deleting"
           /\ n.st = b.st /\ n.art = r.art /\ n.out = r.out /\ n.retries = r.retries
  <2>1. \A e \in Deleters : At(adel'[e], t) => e # d /\ adel'[e] = adel[e]
    BY <1>8 DEF At
  <2>2. /\ b.t = t /\ At(b, t) /\ Claimed(b, t) /\ b.st \notin {"none", "queued", "running", "deleted"}
        /\ \A e \in Deleters : Taken(adel'[e], t) => e # d /\ adel'[e] = adel[e]
    BY <1>2, <1>8 DEF Taken, Claimed, ClaimedPoints, At, DeletionFits
  <2>3. b.st # "deleting" => Taken(b, t) /\ \A e \in Deleters : ~ Taken(adel'[e], t)
    BY <1>2, <2>2 DEF Taken, DeletionFits
  <2>4. ShapeFits(t)'
    <3>1. Shape(n.st, n)
      BY <1>2, <1>8, <2>3 DEF ShapeFits, Shape
    <3>2. \A e \in Deleters : Taken(adel'[e], t) /\ n.st = "deleting" => Shape(adel'[e].st, n)
      BY <1>2, <1>8, <2>2 DEF ShapeFits, Shape
    <3>3. \A e \in Deleters : adel'[e].at \in {"clean", "forget"} /\ adel'[e].t = t /\ adel'[e].art = "ready" =>
            n.art = "ready" \/ n.st = "deleted"
      BY <1>2, <1>8 DEF ShapeFits
    <3> QED
      BY <3>1, <3>2, <3>3 DEF ShapeFits, Taken
  <2>5. DeletionFits(t)'
    BY <1>2, <1>8, <2>1, <2>2, <2>3 DEF DeletionFits, Unpaid
  <2> QED
    BY <2>4, <2>5
<1>9. CASE b.at = "clean" /\ x.at = "forget" /\ x.st = b.st /\ x.art = b.art /\ n = r
  <2>1. /\ ~ Claimed(x, t) /\ ~ Taken(x, t) /\ ~ Taken(b, t) /\ (At(x, t) <=> At(b, t)) /\ x.at # "claim"
    BY <1>9 DEF Claimed, ClaimedPoints, Taken, At
  <2>2. ShapeFits(t)'
    BY <1>2, <1>9, <2>1 DEF ShapeFits, Shape, Taken
  <2>3. DeletionFits(t)'
    BY <1>2, <1>9, <2>1 DEF DeletionFits, Taken, Unpaid
  <2> QED
    BY <2>2, <2>3
<1> QED
  <2>1. n = r => SameWork(n, r) /\ n.out = r.out
    BY DEF SameWork
  <2> QED
    BY <1>3, <1>4, <1>5, <1>6, <1>7, <1>8, <1>9, <2>1 DEF Deletes

\* Nobody works on a task that somebody deletes, unless a lease ran out.
LEMMA NobodyWorks ==
  ASSUME AudioInv, NEW t \in Tasks,
         \/ audio[t].st \notin {"running", "completed"}
         \/ audio[t].st # "running" /\ audio[t].art # "saving"
  PROVE  t \in late \/ \A w \in Workers : ~ At(awork[w], t)
<1>1. AudioFits(t) /\ \A w \in Workers : awork[w] \in AudioWorkRows
  BY AudioFacts
<1>2. t \in late \/ HolderFits(t)
  BY <1>1, AudioParts
<1> QED
  BY <1>1, <1>2, AtWorkOn DEF HolderFits

\* Deleter d goes on to x, and leaves its task fit.
LEMMA DeleterMoves ==
  ASSUME AudioInv, NEW d \in Deleters, NEW x \in AudioDelRows, NEW t \in Tasks, NEW n \in AudioRows,
         NEW h \in StageRows, NEW k \in Nat, NEW T \in SUBSET Tasks, InputFits',
         adel[d].at = "idle" \/ adel[d].t = t, x.at = "idle" \/ x.t = t,
         Deletes(adel[d], x, audio[t], n, stage[t], h, t \in T),
         \A a \in Attempts : h[a] \in {stage[t][a], "none"},
         k = assets[t] \/ (k = 0 /\ adel[d].at \in {"assets", "row"}),
         spoiled \subseteq T, T \subseteq spoiled \cup {t}, spoiled' = T,
         audio' = [audio EXCEPT ![t] = n], adel' = [adel EXCEPT ![d] = x],
         stage' = [stage EXCEPT ![t] = h], assets' = [assets EXCEPT ![t] = k],
         inputs' \subseteq inputs, given' = given, faults' \in 0 .. MaxFaults,
         UNCHANGED <<paid, awork, swept, aask, late>>
  PROVE  AudioInv'
<1> DEFINE r == audio[t]
           b == adel[d]
           g == stage[t]
<1>1. AudioSets /\ Counts /\ AudioFits(t) /\ b \in AudioDelRows
  BY AudioFacts
<1>2. AudioSets'
  BY <1>1 DEF AudioSets
<1>3. /\ audio'[t] = n /\ (\A u \in Tasks \ {t} : audio'[u] = audio[u])
      /\ adel'[d] = x /\ (\A e \in Deleters \ {d} : adel'[e] = adel[e])
      /\ stage'[t] = h /\ (\A u \in Tasks \ {t} : stage'[u] = stage[u])
      /\ assets'[t] = k /\ (\A u \in Tasks \ {t} : assets'[u] = assets[u])
  BY <1>1 DEF AudioSets
<1>4. Counts'
  BY <1>1 DEF Counts
<1>5. \A u \in Tasks \ {t} : AudioApart(u)
  BY <1>3 DEF AudioApart, At
<1>6. ShapeFits(t)' /\ DeletionFits(t)'
  <2>1. PICK sp : sp = (t \in T)
    OBVIOUS
  <2> QED
    BY <1>3, <2>1, DeletionFitsOn
<1>7. /\ ShapeFits(t) /\ PaidFits(t) /\ GeneratorFits(t) /\ SweepFits(t) /\ DeletionFits(t)
      /\ (t \in late \/ HolderFits(t)) /\ (t \in spoiled \/ StageFits(t))
      /\ (t \in spoiled \/ t \in late \/ AssetsFit(t))
  BY <1>1, AudioParts
<1>8. SweepFits(t)'
  BY <1>7 DEF SweepFits
<1>9. \A a \in Attempts : h[a] = "complete" => g[a] = "complete"
  OBVIOUS
<1>10. b.at \in {"claim", "assets", "files", "row"} => b.t = t /\ At(b, t)
  BY DEF At
<1>11. b.at \in {"claim", "assets", "row"} => b.st \notin {"none", "queued", "running", "deleted"}
  BY <1>7, <1>10 DEF DeletionFits
<1>12. b.at = "claim" => b.art \notin {"pending", "saving"}
  BY <1>7, <1>10 DEF DeletionFits
<1>13. b.at \in {"assets", "files", "row"} => Claimed(b, t)
  BY <1>10 DEF Claimed, ClaimedPoints
<1>14. \/ n.st = r.st /\ SameWork(n, r)
       \/ /\ n.retries = r.retries /\ n.st \notin {"none", "queued", "running"}
          /\ n.st = "failed" => paid[t] = {} /\ \A w \in Workers : ~ Gen(awork[w], t)
          /\ n.st = "completed" => r.retries + 1 \in paid[t]
          /\ n.st = "completed" => t \in T
          /\ t \in late \/ \A w \in Workers : ~ At(awork[w], t)
  <2>1. CASE n = r
    BY <2>1 DEF SameWork
  <2>2. CASE b.at = "claim" /\ r.st = b.st /\ r.art = b.art /\ n.st = "deleting" /\ n.retries = r.retries
    BY <1>11, <1>12, <2>2, NobodyWorks
  <2>3. CASE b.at = "row" /\ r.st = "deleting" /\ n.st = "deleted" /\ n.retries = r.retries
    BY <2>3, NobodyWorks
  <2>4. CASE /\ b.at \in {"assets", "row"} /\ r.st = "deleting" /\ n.st = b.st /\ t \in T
             /\ n.retries = r.retries
    <3>1. b.st \in {"failed", "completed"} => Taken(b, t)
      BY <1>13, <2>4 DEF Taken
    <3>2. /\ b.st = "failed" => Unpaid(t)
          /\ b.st = "completed" => r.retries + 1 \in paid[t]
      BY <1>7, <2>4, <3>1 DEF DeletionFits
    <3> QED
      BY <1>11, <2>4, <3>2, NobodyWorks DEF Unpaid
  <2>5. CASE SameWork(n, r)
    BY <2>5 DEF SameWork
  <2> QED
    BY <2>1, <2>2, <2>3, <2>4, <2>5 DEF Deletes
<1>15. PaidFits(t)'
  BY <1>3, <1>7, <1>9, <1>14 DEF PaidFits, Unpaid, SameWork
<1>16. GeneratorFits(t)'
  <2>1. \A w \in Workers : Gen(awork[w], t) => awork[w].try = r.retries + 1 /\ r.retries + 1 \in Attempts
    <3>1. \A w \in Workers : awork[w].try \in Attempts
      BY AudioFacts, AudioSorts
    <3> QED
      BY <1>7, <3>1 DEF GeneratorFits
  <2> QED
    BY <1>3, <1>7, <1>9, <1>14, <2>1 DEF GeneratorFits, SameWork
<1>17. t \in late' \/ HolderFits(t)'
  BY <1>3, <1>7, <1>14 DEF HolderFits, SameWork
<1>18. t \in T \/ StageFits(t)'
  <2> SUFFICES ASSUME t \notin T PROVE StageFits(t)'
    OBVIOUS
  <2>1. StageFits(t) /\ t \notin spoiled
    BY <1>7
  <2>2. b.at \in {"assets", "files", "row"} => r.st \in {"deleting", "deleted"}
    BY <1>13, <2>1 DEF StageFits
  <2>3. n.st \in {"running", "completed"} => /\ n.st = r.st /\ n.art = r.art /\ n.retries = r.retries
                                             /\ b.at \notin {"assets", "files", "row"}
    <3>1. n.st \in {"running", "completed"} => SameWork(n, r)
      BY <1>14
    <3> QED
      BY <2>2, <3>1 DEF SameWork
  <2>4. n.st \in {"running", "completed"} /\ r.art # "ready" => h = g /\ n.out = r.out
    <3> SUFFICES ASSUME n.st \in {"running", "completed"}, r.art # "ready" PROVE h = g /\ n.out = r.out
      OBVIOUS
    <3>1. b.at \in {"clean", "forget"} => b.art # "ready"
      BY <1>7, <2>3 DEF ShapeFits
    <3> QED
      BY <2>3, <3>1 DEF Deletes
  <2>5. n.st = "running" => r.art # "ready"
    BY <1>7, <2>3 DEF ShapeFits, Shape
  <2>6. \A e \in Deleters : Claimed(adel'[e], t) => n.st \in {"deleting", "deleted"}
    <3>1. CASE n.st = r.st
      <4>1. Claimed(x, t) => n.st = "deleting" \/ Claimed(b, t)
        BY <1>13 DEF Deletes, Claimed, ClaimedPoints
      <4> QED
        BY <1>3, <2>1, <3>1, <4>1 DEF StageFits
    <3>2. CASE n.st # r.st
      BY <3>2 DEF Deletes, SameWork
    <3> QED
      BY <3>1, <3>2
  <2> QED
    BY <1>3, <2>1, <2>3, <2>4, <2>5, <2>6 DEF StageFits
<1>19. t \in T \/ t \in late' \/ AssetsFit(t)'
  <2> SUFFICES ASSUME t \notin T, t \notin late PROVE AssetsFit(t)'
    OBVIOUS
  <2>1. StageFits(t) /\ AssetsFit(t) /\ HolderFits(t)
    BY <1>7
  <2>2. CASE \A w \in Workers : ~ At(awork[w], t)
    <3>1. \A w \in Workers : ~ Sav(awork[w], t)
      BY <2>2, AtWorkOn, AudioFacts
    <3>2. n.st = "completed" /\ n.art = "ready" => k = Audios
      <4>1. b.at \in {"assets", "files", "row"} => r.st \in {"deleting", "deleted"}
        BY <1>13, <2>1 DEF StageFits
      <4> QED
        BY <1>14, <2>1, <4>1 DEF AssetsFit, SameWork
    <3> QED
      BY <1>3, <3>1, <3>2 DEF AssetsFit
  <2>3. CASE \E w \in Workers : At(awork[w], t)
    <3>1. r.st \in {"running", "completed"}
      BY <2>3, NobodyWorks
    <3>2. b.at \notin {"assets", "row"}
      BY <1>13, <2>1, <3>1 DEF StageFits
    <3>3. k = assets[t] /\ SameWork(n, r)
      BY <1>14, <2>3, <3>2
    <3> QED
      BY <1>3, <2>1, <3>3 DEF AssetsFit, SameWork
  <2> QED
    BY <2>2, <2>3
<1>20. AudioFits(t)'
  BY <1>6, <1>8, <1>15, <1>16, <1>17, <1>18, <1>19 DEF AudioFits, LifeFits, ResultFits
<1> QED
  BY <1>2, <1>4, <1>5, <1>20, OneAudioStep

\* The inputs after a step of a deleter.
LEMMA DeleterInputs ==
  ASSUME AudioInv, NEW d \in Deleters, NEW x \in AudioDelRows, NEW t \in Tasks, NEW n \in AudioRows,
         audio' = [audio EXCEPT ![t] = n], adel' = [adel EXCEPT ![d] = x],
         inputs' \in {inputs, inputs \ {adel[d].inp}}, UNCHANGED <<given, aask>>,
         x.inp \in {adel[d].inp, Nobody} \/ (x.inp = audio[t].inp /\ ~ Going(audio[t])),
         \/ n.inp = audio[t].inp /\ (Going(n) => Going(audio[t]))
         \/ n.inp = Nobody /\ ~ Going(n)
  PROVE  InputFits'
<1>1. AudioSets
  BY AudioFacts
<1>2. /\ audio'[t] = n /\ (\A u \in Tasks \ {t} : audio'[u] = audio[u])
      /\ adel'[d] = x /\ (\A e \in Deleters \ {d} : adel'[e] = adel[e])
  BY <1>1 DEF AudioSets
<1>3. x.inp \in {adel[d].inp, Nobody} \/ ReadAtRest(x.inp)
  BY DEF ReadAtRest
<1>4. CalmInputs
  BY <1>2, <1>3 DEF CalmInputs
<1> QED
  BY <1>4, CalmInputsFit

\* How deleters move.
LEMMA AudioDelMoves ==
  ASSUME AudioSets, NEW d \in Deleters
  PROVE  /\ \A l \in {"assets", "files", "row", "forget"} : AudioDeleting(d, l) =>
              \E x \in AudioDelRows :
                /\ adel' = [adel EXCEPT ![d] = x] /\ x.at = l /\ x.t = adel[d].t /\ x.st = adel[d].st
                /\ x.art = adel[d].art /\ x.inp = adel[d].inp /\ x.out = adel[d].out
         /\ \A l \in {"claim", "clean"}, t \in Tasks : Reading(d, l, t) =>
              \E x \in AudioDelRows :
                /\ adel' = [adel EXCEPT ![d] = x] /\ x.at = l /\ x.t = t /\ x.st = audio[t].st
                /\ x.art = audio[t].art /\ x.inp = audio[t].inp
<1>1. adel[d] \in AudioDelRows /\ \A t \in Tasks : audio[t] \in AudioRows
  BY DEF AudioSets
<1>2. ASSUME NEW l \in {"assets", "files", "row", "forget"}, AudioDeleting(d, l)
      PROVE  \E x \in AudioDelRows :
               /\ adel' = [adel EXCEPT ![d] = x] /\ x.at = l /\ x.t = adel[d].t /\ x.st = adel[d].st
               /\ x.art = adel[d].art /\ x.inp = adel[d].inp /\ x.out = adel[d].out
  <2> DEFINE x == [adel[d] EXCEPT !.at = l]
  <2>1. /\ x \in AudioDelRows /\ x.at = l /\ x.t = adel[d].t /\ x.st = adel[d].st
        /\ x.art = adel[d].art /\ x.inp = adel[d].inp /\ x.out = adel[d].out
    BY <1>1 DEF AudioDelRows
  <2>2. adel' = [adel EXCEPT ![d] = x]
    BY <1>2, Zenon DEF AudioDeleting
  <2> QED
    BY <2>1, <2>2
<1>3. ASSUME NEW l \in {"claim", "clean"}, NEW t \in Tasks, Reading(d, l, t)
      PROVE  \E x \in AudioDelRows :
               /\ adel' = [adel EXCEPT ![d] = x] /\ x.at = l /\ x.t = t /\ x.st = audio[t].st
               /\ x.art = audio[t].art /\ x.inp = audio[t].inp
  <2>1. PICK x : x = [at |-> l, t |-> t, st |-> audio[t].st, art |-> audio[t].art,
                      inp |-> audio[t].inp, out |-> audio[t].out]
    OBVIOUS
  <2>2. /\ audio[t].st \in AudioStatuses /\ audio[t].art \in Artifacts /\ audio[t].inp \in InputKeys
        /\ audio[t].out \in 0 .. MaxRetries + 1
    BY <1>1, AudioSorts
  <2>3. /\ x \in AudioDelRows /\ x.at = l /\ x.t = t /\ x.st = audio[t].st
        /\ x.art = audio[t].art /\ x.inp = audio[t].inp
    BY <2>1, <2>2 DEF AudioDelRows
  <2>4. adel' = [adel EXCEPT ![d] = x]
    BY <1>3, <2>1 DEF Reading
  <2> QED
    BY <2>3, <2>4
<1> QED
  BY <1>2, <1>3

\* The staged results after a removal.
LEMMA UnstagedRow ==
  ASSUME AudioSets, NEW d \in Deleters, Unstaged(d) \/ UNCHANGED stage
  PROVE  \E h \in StageRows :
           /\ stage' = [stage EXCEPT ![adel[d].t] = h]
           /\ UNCHANGED stage => h = stage[adel[d].t]
           /\ \A a \in Attempts : h[a] \in {stage[adel[d].t][a], "none"}
<1> DEFINE t == adel[d].t
           a == adel[d].out
<1>1. t \in Tasks /\ a \in 0 .. MaxRetries + 1 /\ stage[t] \in StageRows
  BY AudioSorts DEF AudioSets
<1>2. CASE UNCHANGED stage
  BY <1>1, <1>2 DEF AudioSets
<1>3. CASE stage' # stage
  <2>1. a # 0 /\ stage' = [stage EXCEPT ![t][a] = "none"]
    BY <1>3 DEF Unstaged
  <2>2. a \in Attempts
    BY <1>1, <2>1, MediaBoundsAssumption DEF Attempts
  <2> DEFINE h == [stage[t] EXCEPT ![a] = "none"]
  <2>3. h \in StageRows /\ \A c \in Attempts : h[c] \in {stage[t][c], "none"}
    BY <1>1, <2>2 DEF StageRows, Stages
  <2>4. stage' = [stage EXCEPT ![t] = h]
    BY <2>1, Zenon
  <2> QED
    BY <1>3, <2>3, <2>4
<1> QED
  BY <1>2, <1>3

\* Nothing about a task is changed by writing what is there.
LEMMA SameTables ==
  ASSUME AudioSets, NEW t \in Tasks
  PROVE  /\ audio = [audio EXCEPT ![t] = audio[t]] /\ stage = [stage EXCEPT ![t] = stage[t]]
         /\ assets = [assets EXCEPT ![t] = assets[t]] /\ audio[t] \in AudioRows
         /\ stage[t] \in StageRows /\ assets[t] \in Nat
BY DEF AudioSets

\* Delete and the clean-up read a row at rest.
LEMMA ReadSteps ==
  ASSUME AudioInv, NEW d \in Deleters, NEW t \in Tasks, AudioDeleteRead(d, t) \/ CleanRead(d, t)
  PROVE  AudioInv'
<1> DEFINE r == audio[t]
           b == adel[d]
<1>1. AudioSets
  BY AudioFacts
<1>2. PICK l \in {"claim", "clean"} :
        /\ b.at = "idle" /\ Reading(d, l, t) /\ r.st \notin {"none", "queued", "running", "deleted"}
        /\ l = "claim" => r.art \notin {"pending", "saving"}
        /\ UNCHANGED <<audio, inputs, given, stage, assets, paid, awork, swept, aask, late, spoiled, faults>>
  BY DEF AudioDeleteRead, CleanRead, audioStore, audioHistory
<1>3. PICK x \in AudioDelRows : /\ adel' = [adel EXCEPT ![d] = x] /\ x.at = l /\ x.t = t /\ x.st = r.st
                                /\ x.art = r.art /\ x.inp = r.inp
  BY <1>1, <1>2, AudioDelMoves
<1>4. /\ audio = [audio EXCEPT ![t] = r] /\ stage = [stage EXCEPT ![t] = stage[t]]
      /\ assets = [assets EXCEPT ![t] = assets[t]] /\ r \in AudioRows
      /\ stage[t] \in StageRows /\ assets[t] \in Nat
  BY <1>1, SameTables
<1>5. Deletes(b, x, r, r, stage[t], stage[t], t \in spoiled)
  BY <1>2, <1>3 DEF Deletes
<1>6. ~ Going(r)
  BY <1>2 DEF Going
<1>7. /\ audio' = [audio EXCEPT ![t] = r] /\ stage' = [stage EXCEPT ![t] = stage[t]]
      /\ assets' = [assets EXCEPT ![t] = assets[t]]
  BY <1>2, <1>4
<1>8. InputFits'
  <2>1. /\ inputs' \in {inputs, inputs \ {b.inp}} /\ given' = given /\ aask' = aask
        /\ x.inp = audio[t].inp /\ r.inp = audio[t].inp
    BY <1>2, <1>3
  <2> QED
    BY <1>3, <1>4, <1>6, <1>7, <2>1, DeleterInputs
<1>9. spoiled \in SUBSET Tasks /\ faults' \in 0 .. MaxFaults
  BY <1>1, <1>2 DEF AudioSets
<1>10. /\ inputs' \subseteq inputs /\ given' = given /\ spoiled' = spoiled
       /\ UNCHANGED <<paid, awork, swept, aask, late>> /\ x.t = t /\ b.at = "idle"
  BY <1>2, <1>3
<1> QED
  BY <1>3, <1>4, <1>5, <1>7, <1>8, <1>9, <1>10, DeleterMoves

\* The claim.
LEMMA AudioClaimStep ==
  ASSUME AudioInv, NEW d \in Deleters, AudioDeleteClaim(d)
  PROVE  AudioInv'
<1> DEFINE b == adel[d]
           t == b.t
           r == audio[t]
<1>1. AudioSets /\ t \in Tasks
  BY AudioFacts, AudioSorts
<1>2. b.at = "claim" /\ UNCHANGED <<inputs, given, stage, assets, paid, awork, swept, aask, late, spoiled, faults>>
  BY DEF AudioDeleteClaim, audioStore, audioHistory
<1>3. /\ stage = [stage EXCEPT ![t] = stage[t]] /\ assets = [assets EXCEPT ![t] = assets[t]]
      /\ r \in AudioRows /\ stage[t] \in StageRows /\ assets[t] \in Nat
  BY <1>1, SameTables
<1>4. spoiled \in SUBSET Tasks /\ faults' \in 0 .. MaxFaults
  BY <1>1, <1>2 DEF AudioSets
<1>5. CASE AudioClaimMatches(d)
  <2>1. /\ r.st = b.st /\ r.art = b.art
        /\ SetAudio(t, [r EXCEPT !.st = "deleting"]) /\ AudioDeleting(d, "assets")
    BY <1>5, Zenon DEF AudioDeleteClaim, AudioClaimMatches
  <2>2. PICK x \in AudioDelRows : /\ adel' = [adel EXCEPT ![d] = x] /\ x.at = "assets" /\ x.t = t
                                  /\ x.st = b.st /\ x.art = b.art /\ x.inp = b.inp /\ x.out = b.out
    BY <1>1, <2>1, AudioDelMoves
  <2>3. PICK n : n = [r EXCEPT !.st = "deleting"]
    OBVIOUS
  <2>4. /\ n \in AudioRows /\ n.st = "deleting" /\ n.art = r.art /\ n.out = r.out
        /\ n.retries = r.retries /\ n.inp = r.inp
    BY <1>3, <2>3 DEF AudioRows, AudioStatuses
  <2>5. audio' = [audio EXCEPT ![t] = n]
    BY <2>1, <2>3 DEF SetAudio
  <2>6. Deletes(b, x, r, n, stage[t], stage[t], t \in spoiled)
    BY <1>2, <2>1, <2>2, <2>4 DEF Deletes
  <2>7. ~ Going(n)
    BY <2>4 DEF Going
  <2>8. InputFits'
    BY <1>1, <1>2, <2>2, <2>4, <2>5, <2>7, DeleterInputs
  <2>9. stage' = [stage EXCEPT ![t] = stage[t]] /\ assets' = [assets EXCEPT ![t] = assets[t]]
    BY <1>2, <1>3
  <2> QED
    BY <1>1, <1>2, <1>3, <1>4, <2>2, <2>4, <2>5, <2>6, <2>8, <2>9, DeleterMoves
<1>6. CASE ~ AudioClaimMatches(d)
  <2>1. adel' = [adel EXCEPT ![d] = AudioIdleDel] /\ UNCHANGED audio
    BY <1>6, Zenon DEF AudioDeleteClaim, DelDone
  <2> QED
    BY <1>2, <1>4, <2>1, OneActorRests DEF audioStore
<1> QED
  BY <1>5, <1>6

\* Assets, files and snapshots are removed.
LEMMA RemovalSteps ==
  ASSUME AudioInv, NEW d \in Deleters, DeleteAssets(d) \/ DeleteFiles(d) \/ CleanFiles(d)
  PROVE  AudioInv'
<1> DEFINE b == adel[d]
           t == b.t
           r == audio[t]
<1>1. AudioSets /\ t \in Tasks
  BY AudioFacts, AudioSorts
<1>2. PICK l \in {"files", "row", "forget"} :
        /\ AudioDeleting(d, l) /\ UNCHANGED <<audio, given, paid, awork, swept, aask, late, spoiled, faults>>
        /\ \/ l = "files" /\ b.at = "assets" /\ stage' = stage /\ inputs' = inputs
              /\ assets' = [assets EXCEPT ![t] = 0]
           \/ l = "row" /\ b.at = "files" /\ Unstaged(d) /\ inputs' = inputs \ {b.inp} /\ assets' = assets
           \/ /\ l = "forget" /\ b.at = "clean" /\ inputs' = inputs \ {b.inp} /\ assets' = assets
              /\ \/ b.art = "ready" /\ Unstaged(d)
                 \/ b.art # "ready" /\ stage' = stage
  BY DEF DeleteAssets, DeleteFiles, CleanFiles, ClearsStage, audioHistory
<1>3. PICK x \in AudioDelRows : /\ adel' = [adel EXCEPT ![d] = x] /\ x.at = l /\ x.t = t /\ x.st = b.st
                                /\ x.art = b.art /\ x.inp = b.inp /\ x.out = b.out
  BY <1>1, <1>2, AudioDelMoves
<1>4. PICK h \in StageRows : /\ stage' = [stage EXCEPT ![t] = h] /\ (UNCHANGED stage => h = stage[t])
                             /\ \A a \in Attempts : h[a] \in {stage[t][a], "none"}
  BY <1>1, <1>2, UnstagedRow
<1>5. /\ audio = [audio EXCEPT ![t] = r] /\ assets = [assets EXCEPT ![t] = assets[t]]
      /\ r \in AudioRows /\ assets[t] \in Nat
  BY <1>1, SameTables
<1>6. audio' = [audio EXCEPT ![t] = r]
  BY <1>2, <1>5
<1>7. PICK k \in Nat : /\ assets' = [assets EXCEPT ![t] = k]
                       /\ k = assets[t] \/ (k = 0 /\ b.at = "assets")
  BY <1>2, <1>5
<1>8. inputs' \in {inputs, inputs \ {b.inp}}
  BY <1>2
<1>9. InputFits'
  <2>1. given' = given /\ aask' = aask /\ r.inp = audio[t].inp /\ x.inp \in {b.inp, Nobody}
    BY <1>2, <1>3
  <2> QED
    BY <1>1, <1>3, <1>5, <1>6, <1>8, <2>1, DeleterInputs
<1>10. Deletes(b, x, r, r, stage[t], h, t \in spoiled)
  <2>1. \/ b.at \in {"assets", "files"} /\ x.at \in {"files", "row"}
        \/ b.at = "clean" /\ x.at = "forget" /\ (b.art # "ready" => h = stage[t])
    BY <1>2, <1>3, <1>4
  <2> QED
    BY <1>3, <2>1 DEF Deletes
<1>11. spoiled \in SUBSET Tasks /\ faults' \in 0 .. MaxFaults /\ inputs' \subseteq inputs
  BY <1>1, <1>2 DEF AudioSets
<1> QED
  BY <1>1, <1>2, <1>3, <1>4, <1>5, <1>6, <1>7, <1>9, <1>10, <1>11, DeleterMoves

\* The end of a deletion, and of a clean-up.
LEMMA RemovalEnds ==
  ASSUME AudioInv, NEW d \in Deleters, DeleteRow(d) \/ CleanRow(d)
  PROVE  AudioInv'
<1> DEFINE b == adel[d]
           t == b.t
           r == audio[t]
<1>1. AudioSets /\ t \in Tasks /\ r.retries \in 0 .. MaxRetries
  BY AudioFacts, AudioSorts
<1>2. /\ stage = [stage EXCEPT ![t] = stage[t]] /\ assets = [assets EXCEPT ![t] = assets[t]]
      /\ r \in AudioRows /\ stage[t] \in StageRows /\ assets[t] \in Nat
  BY <1>1, SameTables
<1>3. PICK x \in AudioDelRows : x = AudioIdleDel /\ x.at = "idle" /\ x.inp = Nobody
  BY IdleAudioRows
<1>4. /\ UNCHANGED <<inputs, given, stage, assets, paid, awork, swept, aask, late, spoiled, faults>>
      /\ adel' = [adel EXCEPT ![d] = x]
  BY <1>3 DEF DeleteRow, CleanRow, DelDone, audioStore, audioHistory
<1>5. spoiled \in SUBSET Tasks /\ faults' \in 0 .. MaxFaults
  BY <1>1, <1>4 DEF AudioSets
<1>6. CASE audio' = audio
  BY <1>3, <1>4, <1>5, <1>6, OneActorRests DEF audioStore
<1>7. ASSUME NEW n \in AudioRows, audio' = [audio EXCEPT ![t] = n],
             Deletes(b, x, r, n, stage[t], stage[t], t \in spoiled), b.at # "idle",
             \/ n.inp = r.inp /\ (Going(n) => Going(r))
             \/ n.inp = Nobody /\ ~ Going(n)
      PROVE  AudioInv'
  <2>1. InputFits'
    <3>1. inputs' \in {inputs, inputs \ {b.inp}} /\ given' = given /\ aask' = aask
      BY <1>4
    <3> QED
      BY <1>1, <1>3, <1>4, <1>7, <3>1, DeleterInputs
  <2>2. /\ stage' = [stage EXCEPT ![t] = stage[t]] /\ assets' = [assets EXCEPT ![t] = assets[t]]
        /\ inputs' \subseteq inputs /\ given' = given /\ spoiled' = spoiled
        /\ UNCHANGED <<paid, awork, swept, aask, late>>
    BY <1>2, <1>4
  <2>3. /\ stage[t] \in StageRows /\ assets[t] \in Nat /\ x.at = "idle" /\ b.t = t /\ t \in Tasks
        /\ adel' = [adel EXCEPT ![d] = x] /\ x \in AudioDelRows
    BY <1>1, <1>2, <1>3, <1>4
  <2>4. spoiled \subseteq spoiled /\ spoiled \subseteq spoiled \cup {t}
    OBVIOUS
  <2> QED
    BY <1>5, <1>7, <2>1, <2>2, <2>3, <2>4, DeleterMoves
<1>8. CASE DeleteRow(d) /\ audio' # audio
  <2>1. /\ b.at = "row" /\ r.st = "deleting"
        /\ SetAudio(t, [NewAudio("deleted") EXCEPT !.retries = r.retries])
    BY <1>8, Zenon DEF DeleteRow
  <2>2. PICK n : n = [NewAudio("deleted") EXCEPT !.retries = r.retries]
    OBVIOUS
  <2>3. 0 \in 0 .. MaxRetries + 1 /\ 0 \in 0 .. MaxRetries
    BY MediaBoundsAssumption
  <2>4. /\ n \in AudioRows /\ n.st = "deleted" /\ n.art = "none" /\ n.inp = Nobody
        /\ n.retries = r.retries
    BY <1>1, <2>2, <2>3 DEF NewAudio, AudioRows, AudioStatuses, Artifacts
  <2>5. audio' = [audio EXCEPT ![t] = n]
    BY <2>1, <2>2 DEF SetAudio
  <2>6. Deletes(b, x, r, n, stage[t], stage[t], t \in spoiled)
    BY <1>3, <2>1, <2>4 DEF Deletes
  <2> QED
    BY <1>7, <2>1, <2>4, <2>5, <2>6 DEF Going
<1>9. CASE CleanRow(d) /\ audio' # audio
  <2>1. /\ b.at = "forget" /\ r.st \notin {"queued", "running", "deleted"}
        /\ SetAudio(t, [r EXCEPT !.inp = IF b.inp = Nobody THEN @ ELSE Nobody,
                                 !.out = IF ClearsStage(d) THEN 0 ELSE @])
    BY <1>9, Zenon DEF CleanRow
  <2>2. PICK i \in {r.inp, Nobody} : i = IF b.inp = Nobody THEN r.inp ELSE Nobody
    OBVIOUS
  <2>3. PICK o \in {r.out, 0} : o = IF ClearsStage(d) THEN 0 ELSE r.out
    OBVIOUS
  <2>4. PICK n : n = [r EXCEPT !.inp = i, !.out = o]
    OBVIOUS
  <2>5. 0 \in 0 .. MaxRetries + 1
    BY MediaBoundsAssumption
  <2>6. n \in AudioRows /\ SameWork(n, r) /\ n.inp = i /\ n.out = o
    BY <1>2, <2>4, <2>5 DEF AudioRows, SameWork
  <2>7. n = [r EXCEPT !.inp = IF b.inp = Nobody THEN @ ELSE Nobody, !.out = IF ClearsStage(d) THEN 0 ELSE @]
    BY <1>2, <2>2, <2>3, <2>4 DEF AudioRows
  <2>8. audio' = [audio EXCEPT ![t] = n]
    BY <2>1, <2>7, Zenon DEF SetAudio
  <2>9. Deletes(b, x, r, n, stage[t], stage[t], t \in spoiled)
    BY <1>3, <2>1, <2>3, <2>6 DEF Deletes, ClearsStage
  <2>10. ~ Going(n)
    BY <2>1, <2>6 DEF Going, SameWork
  <2> QED
    BY <1>7, <2>1, <2>6, <2>8, <2>9, <2>10
<1> QED
  BY <1>6, <1>8, <1>9

\* A deletion that fails spoils its task.
LEMMA AudioDeleteFailStep ==
  ASSUME AudioInv, NEW d \in Deleters, DeleteFails(d)
  PROVE  AudioInv'
<1> DEFINE b == adel[d]
           t == b.t
           r == audio[t]
<1>1. AudioSets /\ t \in Tasks /\ DeletionFits(t)
  BY AudioFacts, AudioSorts, AudioParts
<1>2. /\ audio = [audio EXCEPT ![t] = r] /\ stage = [stage EXCEPT ![t] = stage[t]]
      /\ r \in AudioRows /\ stage[t] \in StageRows
  BY <1>1, SameTables
<1>3. PICK x \in AudioDelRows : x = AudioIdleDel /\ x.at = "idle" /\ x.inp = Nobody
  BY IdleAudioRows
<1>4. PICK T \in SUBSET Tasks : T = spoiled \cup {t}
  BY <1>1 DEF AudioSets
<1>5. /\ b.at \in {"assets", "row"} /\ faults < MaxFaults /\ faults' = faults + 1
      /\ spoiled' = T /\ assets' = [assets EXCEPT ![t] = 0] /\ adel' = [adel EXCEPT ![d] = x]
      /\ UNCHANGED <<inputs, given, stage, paid, awork, swept, aask, late>>
  BY <1>3, <1>4 DEF DeleteFails, DelDone
<1>6. b.st \notin {"none", "queued", "running", "deleted"}
  BY <1>1, <1>5 DEF DeletionFits, At
<1>7. PICK n \in AudioRows : /\ audio' = [audio EXCEPT ![t] = n] /\ n.inp = r.inp
                             /\ Deletes(b, x, r, n, stage[t], stage[t], t \in T) /\ (Going(n) => Going(r))
  <2>1. t \in T
    BY <1>4
  <2>2. CASE audio' = audio
    <3>1. Deletes(b, x, r, r, stage[t], stage[t], t \in T)
      BY <1>3, <1>5, <2>1 DEF Deletes
    <3> QED
      BY <1>2, <2>2, <3>1
  <2>3. CASE audio' # audio
    <3>1. r.st = "deleting" /\ SetAudio(t, [r EXCEPT !.st = b.st])
      BY <2>3, Zenon DEF DeleteFails
    <3>2. PICK n : n = [r EXCEPT !.st = b.st]
      OBVIOUS
    <3>3. b.st \in AudioStatuses
      BY AudioFacts, AudioSorts
    <3>4. /\ n \in AudioRows /\ n.st = b.st /\ n.art = r.art /\ n.out = r.out /\ n.retries = r.retries
          /\ n.inp = r.inp
      BY <1>2, <3>2, <3>3 DEF AudioRows
    <3>5. Deletes(b, x, r, n, stage[t], stage[t], t \in T)
      BY <1>3, <1>5, <2>1, <3>1, <3>4 DEF Deletes
    <3> QED
      BY <1>6, <3>1, <3>2, <3>4, <3>5 DEF SetAudio, Going
  <2> QED
    BY <2>2, <2>3
<1>8. InputFits'
  <2>1. inputs' \in {inputs, inputs \ {b.inp}} /\ given' = given /\ aask' = aask
    BY <1>5
  <2> QED
    BY <1>1, <1>3, <1>5, <1>7, <2>1, DeleterInputs
<1>9. faults' \in 0 .. MaxFaults
  BY <1>1, <1>5, MediaBoundsAssumption DEF AudioSets
<1>10. /\ stage' = [stage EXCEPT ![t] = stage[t]] /\ inputs' \subseteq inputs /\ given' = given
       /\ spoiled \subseteq T /\ T \subseteq spoiled \cup {t}
  BY <1>2, <1>4, <1>5
<1> QED
  BY <1>1, <1>2, <1>3, <1>5, <1>7, <1>8, <1>9, <1>10, DeleterMoves

-----------------------------------------------------------------------------
(* Audio tasks: the invariant and what follows from it.                      *)

\* Every step keeps it.
LEMMA AudioStepInv == AudioInv /\ [AudioNext]_audioVars => AudioInv'
<1> SUFFICES ASSUME AudioInv, [AudioNext]_audioVars PROVE AudioInv'
  OBVIOUS
<1>1. CASE \E w \in Workers :
             \/ AudioWorkStep(w)
             \/ \E t \in Tasks : ClaimQueued(w, t) \/ ClaimSave(w, t)
  <2>1. PICK w \in Workers : AudioWorkStep(w) \/ \E t \in Tasks : ClaimQueued(w, t) \/ ClaimSave(w, t)
    BY <1>1
  <2>2. CASE AudioWorkStep(w)
    BY <2>2, GenerateSteps, SaveSteps, EndSteps DEF AudioWorkStep
  <2>3. CASE \E t \in Tasks : ClaimQueued(w, t) \/ ClaimSave(w, t)
    BY <2>3, ClaimSteps
  <2> QED
    BY <2>1, <2>2, <2>3
<1>2. CASE \E s \in Sweepers :
             \/ StaleWrite(s)
             \/ \E t \in Tasks : StaleRead(s, t)
  BY <1>2, SweepSteps
<1>3. CASE \E c \in Clients :
             \/ AskStep(c) \/ CallerStops(c)
             \/ \E t \in Tasks : RetryRead(c, t) \/ SaveAgainRead(c, t)
             \/ \E t \in Tasks, i \in Inputs : SubmitCapture(c, t, i)
  <2>1. PICK c \in Clients : \/ AskStep(c) \/ CallerStops(c)
                             \/ \E t \in Tasks : RetryRead(c, t) \/ SaveAgainRead(c, t)
                             \/ \E t \in Tasks, i \in Inputs : SubmitCapture(c, t, i)
    BY <1>3
  <2>2. CASE CreateRow(c) \/ RetryWrite(c) \/ SaveAgainWrite(c)
    <3>1. CASE audio' = audio
      BY <2>2, <3>1, AskCalm
    <3>2. CASE audio' # audio
      BY <2>2, <3>2, AskWrites
    <3> QED
      BY <3>1, <3>2
  <2>3. CASE RetryRefused(c) \/ DropOld(c) \/ \E t \in Tasks : RetryRead(c, t) \/ SaveAgainRead(c, t)
    BY <2>3, AskCalm
  <2>4. CASE (\E i \in Inputs : RetryCapture(c, i)) \/ \E t \in Tasks, i \in Inputs : SubmitCapture(c, t, i)
    BY <2>4, CaptureSteps
  <2>5. CASE CallerStops(c)
    BY <2>5, StopSteps
  <2> QED
    BY <2>1, <2>2, <2>3, <2>4, <2>5 DEF AskStep
<1>4. CASE \E d \in Deleters :
             \/ AudioDeleteStep(d) \/ DeleteFails(d)
             \/ \E t \in Tasks : AudioDeleteRead(d, t) \/ CleanRead(d, t)
  <2>1. PICK d \in Deleters : \/ AudioDeleteStep(d) \/ DeleteFails(d)
                              \/ \E t \in Tasks : AudioDeleteRead(d, t) \/ CleanRead(d, t)
    BY <1>4
  <2>2. CASE AudioDeleteStep(d)
    BY <2>2, AudioClaimStep, RemovalSteps, RemovalEnds DEF AudioDeleteStep
  <2> QED
    BY <2>1, <2>2, AudioDeleteFailStep, ReadSteps
<1>5. CASE AudioStop \/ \E t \in Tasks : AudioLeaseRunsOut(t)
  BY <1>5, StopSteps, AudioLeaseStep
<1>6. CASE UNCHANGED audioVars
  <2>1. /\ UNCHANGED <<audio, audioStore, paid, late, spoiled, faults>> /\ UNCHANGED audioActors
    BY <1>6 DEF audioVars, audioOwn
  <2>2. faults' \in 0 .. MaxFaults
    BY <2>1, AudioFacts DEF AudioSets
  <2> QED
    BY <2>1, <2>2, OneActorRests
<1> QED
  BY <1>1, <1>2, <1>3, <1>4, <1>5, <1>6 DEF AudioNext

\* It holds where nothing has been asked for.
LEMMA AudioStart == AudioInit => AudioInv
<1> SUFFICES ASSUME AudioInit PROVE AudioInv
  OBVIOUS
<1>1. /\ audio = [t \in Tasks |-> NewAudio("none")] /\ inputs = {} /\ given = {}
      /\ stage = [t \in Tasks |-> [a \in Attempts |-> "none"]] /\ assets = [t \in Tasks |-> 0]
      /\ paid = [t \in Tasks |-> {}] /\ awork = [w \in Workers |-> AudioIdleWork]
      /\ swept = [s \in Sweepers |-> IdleSweep] /\ aask = [c \in Clients |-> AudioIdleAsk]
      /\ adel = [d \in Deleters |-> AudioIdleDel] /\ late = {} /\ spoiled = {} /\ faults = 0
  BY DEF AudioInit
<1>2. PICK r : r = NewAudio("none")
  OBVIOUS
<1>3. 0 \in 0 .. MaxRetries + 1 /\ 0 \in 0 .. MaxRetries /\ 0 \in 0 .. MaxFaults
  BY MediaBoundsAssumption
<1>4. r \in AudioRows /\ r.st = "none" /\ r.art = "none" /\ r.inp = Nobody /\ r.retries = 0
  BY <1>2, <1>3 DEF NewAudio, AudioRows, AudioStatuses, Artifacts
<1>5. PICK g \in StageRows : g = [a \in Attempts |-> "none"]
  BY DEF StageRows, Stages
<1>6. AudioSets
  BY <1>1, <1>2, <1>3, <1>4, <1>5, IdleAudioRows DEF AudioSets
<1>7. /\ \A w \in Workers : awork[w] = AudioIdleWork
      /\ \A s \in Sweepers : swept[s].at = "idle"
      /\ \A d \in Deleters : adel[d].at = "idle" /\ adel[d].inp = Nobody
      /\ \A c \in Clients : aask[c].at = "idle" /\ aask[c].old = Nobody
  BY <1>1, IdleAudioRows
<1>8. Counts
  BY <1>7, IdleAudioRows DEF Counts
<1>9. \A t \in Tasks : audio[t] = r /\ stage[t] = g /\ paid[t] = {}
  BY <1>1, <1>2, <1>5
<1>10. InputFits
  <2>1. RowInputs
    BY <1>4, <1>9 DEF RowInputs
  <2>2. NewInputs
    BY <1>7 DEF NewInputs, Bringing
  <2>3. KnownInputs
    BY <1>4, <1>7, <1>9 DEF KnownInputs
  <2> QED
    BY <2>1, <2>2, <2>3 DEF InputFits
<1>11. ASSUME NEW t \in Tasks PROVE AudioFits(t)
  <2>1. /\ \A w \in Workers : ~ At(awork[w], t) /\ ~ Gen(awork[w], t) /\ ~ Sav(awork[w], t)
        /\ \A d \in Deleters : ~ At(adel[d], t) /\ ~ Claimed(adel[d], t) /\ ~ Taken(adel[d], t)
    BY <1>7, IdleAudioRows DEF At, Gen, Sav, Claimed, Taken, Generating, SavePoints, ClaimedPoints
  <2>2. ShapeFits(t)
    BY <1>4, <1>7, <1>9, <2>1 DEF ShapeFits, Shape
  <2>3. PaidFits(t)
    BY <1>4, <1>5, <1>9, <2>1 DEF PaidFits, Unpaid
  <2>4. GeneratorFits(t) /\ SweepFits(t) /\ DeletionFits(t) /\ HolderFits(t)
    BY <1>7, <2>1 DEF GeneratorFits, SweepFits, DeletionFits, HolderFits
  <2>5. StageFits(t) /\ AssetsFit(t)
    BY <1>4, <1>7, <1>9, <2>1 DEF StageFits, AssetsFit
  <2> QED
    BY <2>2, <2>3, <2>4, <2>5 DEF AudioFits, LifeFits, ResultFits
<1> QED
  BY <1>6, <1>8, <1>10, <1>11 DEF AudioInv

\* The invariant holds in every reachable state.
LEMMA AudioInvariant == AudioSafetySpec => []AudioInv
BY AudioStart, AudioStepInv, PTL DEF AudioSafetySpec


\* A task that waits or is about to read its input has it, and a result that was
\* paid for is staged until all its files are saved, whatever deletions, clean-ups,
\* retries and stops come in between (audiogen/manager.go).
THEOREM AudioFilesKept == AudioSafetySpec => []FilesKept
<1>1. ASSUME AudioInv PROVE FilesKept
  <2>1. RowInputs /\ \A t \in Tasks : AudioFits(t)
    BY <1>1, AudioFacts DEF InputFits
  <2>2. QueuedHasInput
    BY <2>1 DEF QueuedHasInput, RowInputs
  <2>3. ResultKept
    <3> SUFFICES ASSUME NEW t \in Tasks \ spoiled, audio[t].st = "completed"
        PROVE  IF audio[t].art = "ready" THEN t \in late \/ assets[t] = Audios
               ELSE audio[t].out # 0 /\ stage[t][audio[t].out] = "complete"
      BY DEF ResultKept
    <3>1. ShapeFits(t) /\ StageFits(t) /\ (t \in late \/ AssetsFit(t))
      BY <2>1, AudioParts
    <3> QED
      BY <3>1 DEF ShapeFits, Shape, StageFits, AssetsFit
  <2> QED
    BY <2>2, <2>3 DEF FilesKept
<1>2. AudioInv => FilesKept
  BY <1>1
<1> QED
  BY <1>2, AudioInvariant, PTL
-----------------------------------------------------------------------------
(* Answers of no use: a generation is answered once.                         *)

\* Worker b has yet to be answered for task t.
Asks(b, t) == b.at \in {"input", "post"} /\ b.t = t

\* A generation that waits, or whose worker waits for its answer, has had none.
WasteFits(t) ==
  LET m == audio[t].retries + 1 IN
  /\ wasted[t] \in SUBSET (1 .. m)
  /\ audio[t].st = "none" => wasted[t] = {} /\ audio[t].retries = 0
  /\ audio[t].st = "queued" => m \notin wasted[t]
  /\ \A w \in Workers : Asks(awork[w], t) => m \notin wasted[t]

WasteInv == wasted \in [Tasks -> SUBSET Attempts] /\ \A t \in Tasks : WasteFits(t)

\* A step that answers nothing and starts no generation.
RowsStay ==
  \A t \in Tasks :
    /\ audio'[t].retries = audio[t].retries
    /\ audio'[t].st = "none" => audio[t].st = "none"
    /\ audio'[t].st = "queued" => audio[t].st \in {"none", "queued"}
AsksStay ==
  \A w \in Workers, t \in Tasks :
    Asks(awork'[w], t) => Asks(awork[w], t) \/ audio[t].st = "queued"

LEMMA WasteStays ==
  ASSUME WasteInv, wasted' = wasted, RowsStay, AsksStay
  PROVE  WasteInv'
<1>1. ASSUME NEW t \in Tasks PROVE WasteFits(t)'
  <2>1. WasteFits(t)
    BY DEF WasteInv
  <2>2. audio'[t].retries = audio[t].retries /\ wasted'[t] = wasted[t]
    BY DEF RowsStay
  <2>3. audio'[t].st = "none" => wasted'[t] = {} /\ audio'[t].retries = 0
    BY <2>1, <2>2 DEF WasteFits, RowsStay
  <2>4. audio'[t].st = "queued" => audio'[t].retries + 1 \notin wasted'[t]
    BY <2>1, <2>2 DEF WasteFits, RowsStay
  <2>5. \A w \in Workers : Asks(awork'[w], t) => audio'[t].retries + 1 \notin wasted'[t]
    BY <2>1, <2>2 DEF WasteFits, AsksStay
  <2> QED
    BY <2>1, <2>2, <2>3, <2>4, <2>5 DEF WasteFits
<1> QED
  BY <1>1 DEF WasteInv

\* A new row n of task t that is no newer than the one before.
LEMMA RowStays ==
  ASSUME AudioSets, NEW t \in Tasks, NEW n, audio' = [audio EXCEPT ![t] = n],
         n.retries = audio[t].retries, n.st = "none" => audio[t].st = "none",
         n.st = "queued" => audio[t].st \in {"none", "queued"}
  PROVE  RowsStay
BY DEF AudioSets, RowsStay

\* Rows that requests write, but for those of a retry.
LEMMA AskRowsStay ==
  ASSUME AudioInv, WasteInv, NEW c \in Clients, CreateRow(c) \/ SaveAgainWrite(c)
  PROVE  RowsStay
<1> DEFINE t == aask[c].t
           r == audio[t]
<1>1. AudioSets /\ t \in Tasks /\ r \in AudioRows
  BY AudioFacts, AudioSorts
<1>2. CASE audio' = audio
  BY <1>2 DEF RowsStay
<1>3. CASE CreateRow(c) /\ audio' # audio
  <2>1. PICK n : n = [NewAudio("queued") EXCEPT !.inp = aask[c].inp]
    OBVIOUS
  <2>2. r.st = "none" /\ audio' = [audio EXCEPT ![t] = n]
    BY <1>3, <2>1, Zenon DEF CreateRow, SetAudio
  <2>3. n.st = "queued" /\ n.retries = 0
    BY <2>1 DEF NewAudio
  <2>4. r.retries = 0
    BY <1>1, <2>2 DEF WasteInv, WasteFits
  <2> QED
    BY <1>1, <2>2, <2>3, <2>4, RowStays
<1>4. CASE SaveAgainWrite(c) /\ audio' # audio
  <2>1. PICK n : n = [r EXCEPT !.art = "pending"]
    OBVIOUS
  <2>2. audio' = [audio EXCEPT ![t] = n]
    BY <1>4, <2>1, Zenon DEF SaveAgainWrite, SetAudio
  <2>3. n.st = r.st /\ n.retries = r.retries
    BY <1>1, <2>1 DEF AudioRows
  <2> QED
    BY <1>1, <2>2, <2>3, RowStays
<1> QED
  BY <1>2, <1>3, <1>4

\* Rows that workers, sweeps and deletions write.
LEMMA WorkRowsStay ==
  ASSUME AudioInv, NEW w \in Workers, Publish(w) \/ Fail(w) \/ CloseSave(w)
  PROVE  RowsStay
<1> DEFINE b == awork[w]
           t == b.t
           r == audio[t]
<1>1. AudioSets /\ t \in Tasks /\ r \in AudioRows
  BY AudioFacts, AudioSorts
<1>2. CASE audio' = audio
  BY <1>2 DEF RowsStay
<1>3. CASE Publish(w) /\ audio' # audio
  <2>1. PICK n : n = [r EXCEPT !.st = "completed", !.art = "pending", !.out = b.try]
    OBVIOUS
  <2>2. audio' = [audio EXCEPT ![t] = n]
    BY <1>3, <2>1, Zenon DEF Publish, SetAudio
  <2>3. n.st = "completed" /\ n.retries = r.retries
    BY <1>1, <2>1 DEF AudioRows
  <2> QED
    BY <1>1, <2>2, <2>3, RowStays
<1>4. CASE Fail(w) /\ audio' # audio
  <2>1. PICK n : n = [r EXCEPT !.st = b.at, !.owner = Nobody, !.leased = FALSE]
    OBVIOUS
  <2>2. b.at \in {"failed", "unknown"} /\ audio' = [audio EXCEPT ![t] = n]
    BY <1>4, <2>1, Zenon DEF Fail, SetAudio
  <2>3. n.st \in {"failed", "unknown"} /\ n.retries = r.retries
    BY <1>1, <2>1, <2>2 DEF AudioRows
  <2> QED
    BY <1>1, <2>2, <2>3, RowStays
<1>5. CASE CloseSave(w) /\ audio' # audio
  <2>1. PICK f : f = IF b.ok THEN "ready" ELSE "failed"
    OBVIOUS
  <2>2. PICK n : n = [r EXCEPT !.art = f, !.owner = Nobody, !.leased = FALSE]
    OBVIOUS
  <2>3. audio' = [audio EXCEPT ![t] = n]
    BY <1>5, <2>1, <2>2, Zenon DEF CloseSave, SetAudio
  <2>4. n.st = r.st /\ n.retries = r.retries
    BY <1>1, <2>2 DEF AudioRows
  <2> QED
    BY <1>1, <2>3, <2>4, RowStays
<1> QED
  BY <1>2, <1>3, <1>4, <1>5

LEMMA ClaimRowsStay ==
  ASSUME AudioInv, NEW w \in Workers, NEW t \in Tasks, ClaimQueued(w, t) \/ ClaimSave(w, t)
  PROVE  RowsStay /\ AsksStay
<1> DEFINE r == audio[t]
<1>1. AudioSets /\ r \in AudioRows
  BY AudioFacts
<1>2. CASE ClaimQueued(w, t)
  <2>1. PICK n : n = [r EXCEPT !.st = "running", !.owner = w, !.leased = TRUE]
    OBVIOUS
  <2>2. r.st = "queued" /\ audio' = [audio EXCEPT ![t] = n]
    BY <1>2, <2>1, Zenon DEF ClaimQueued, SetAudio
  <2>3. n.st = "running" /\ n.retries = r.retries
    BY <1>1, <2>1 DEF AudioRows
  <2>4. RowsStay
    BY <1>1, <2>2, <2>3, RowStays
  <2>5. AsksStay
    BY <1>1, <1>2, <2>2 DEF ClaimQueued, Starts, AudioSets, AsksStay, Asks
  <2> QED
    BY <2>4, <2>5
<1>3. CASE ClaimSave(w, t)
  <2>1. PICK n : n = [r EXCEPT !.art = "saving", !.owner = w, !.leased = TRUE]
    OBVIOUS
  <2>2. audio' = [audio EXCEPT ![t] = n]
    BY <1>3, <2>1, Zenon DEF ClaimSave, SetAudio
  <2>3. n.st = r.st /\ n.retries = r.retries
    BY <1>1, <2>1 DEF AudioRows
  <2>4. RowsStay
    BY <1>1, <2>2, <2>3, RowStays
  <2>5. AsksStay
    BY <1>1, <1>3 DEF ClaimSave, Starts, AudioSets, AsksStay, Asks
  <2> QED
    BY <2>4, <2>5
<1> QED
  BY <1>2, <1>3

LEMMA OtherRowsStay ==
  ASSUME AudioInv,
         \/ \E s \in Sweepers : StaleWrite(s)
         \/ \E d \in Deleters :
              AudioDeleteClaim(d) \/ DeleteRow(d) \/ DeleteFails(d) \/ CleanRow(d)
         \/ \E t \in Tasks : AudioLeaseRunsOut(t)
  PROVE  RowsStay
<1>1. AudioSets
  BY AudioFacts
<1>2. CASE audio' = audio
  BY <1>2 DEF RowsStay
<1>3. ASSUME NEW s \in Sweepers, StaleWrite(s), audio' # audio PROVE RowsStay
  <2>1. PICK t \in Tasks : t = swept[s].t /\ audio[t] \in AudioRows
    BY AudioFacts, AudioSorts
  <2>2. PICK n : n = Recovered(audio[t], s)
    OBVIOUS
  <2>3. audio' = [audio EXCEPT ![t] = n]
    BY <1>3, <2>1, <2>2, Zenon DEF StaleWrite, SetAudio
  <2>4. n.st \in {"completed", "unknown"} /\ n.retries = audio[t].retries
    BY <2>1, <2>2 DEF AudioRows, Recovered
  <2> QED
    BY <1>1, <2>3, <2>4, RowStays
<1>4. ASSUME NEW d \in Deleters, AudioDeleteClaim(d) \/ DeleteRow(d) \/ DeleteFails(d) \/ CleanRow(d),
             audio' # audio
      PROVE  RowsStay
  <2>1. PICK t \in Tasks : t = adel[d].t /\ audio[t] \in AudioRows
    BY AudioFacts, AudioSorts
  <2> DEFINE r == audio[t]
  <2>2. CASE AudioDeleteClaim(d)
    <3>1. PICK n : n = [r EXCEPT !.st = "deleting"]
      OBVIOUS
    <3>2. audio' = [audio EXCEPT ![t] = n]
      BY <1>4, <2>1, <2>2, <3>1, Zenon DEF AudioDeleteClaim, SetAudio
    <3>3. n.st = "deleting" /\ n.retries = r.retries
      BY <2>1, <3>1 DEF AudioRows
    <3> QED
      BY <1>1, <3>2, <3>3, RowStays
  <2>3. CASE DeleteRow(d)
    <3>1. PICK n : n = [NewAudio("deleted") EXCEPT !.retries = r.retries]
      OBVIOUS
    <3>2. audio' = [audio EXCEPT ![t] = n]
      BY <1>4, <2>1, <2>3, <3>1, Zenon DEF DeleteRow, SetAudio
    <3>3. n.st = "deleted" /\ n.retries = r.retries
      BY <3>1 DEF NewAudio
    <3> QED
      BY <1>1, <3>2, <3>3, RowStays
  <2>4. CASE DeleteFails(d)
    <3>1. PICK n : n = [r EXCEPT !.st = adel[d].st]
      OBVIOUS
    <3>2. adel[d].at \in {"assets", "row"} /\ audio' = [audio EXCEPT ![t] = n]
      BY <1>4, <2>1, <2>4, <3>1, Zenon DEF DeleteFails, SetAudio
    <3>3. n.st = adel[d].st /\ n.retries = r.retries
      BY <2>1, <3>1 DEF AudioRows
    <3>4. n.st \notin {"none", "queued"}
      <4>1. DeletionFits(t)
        BY AudioFacts, AudioParts
      <4> QED
        BY <2>1, <3>2, <3>3, <4>1 DEF DeletionFits, At
    <3> QED
      BY <1>1, <3>2, <3>3, <3>4, RowStays
  <2>5. CASE CleanRow(d)
    <3>1. PICK i : i = IF adel[d].inp = Nobody THEN r.inp ELSE Nobody
      OBVIOUS
    <3>2. PICK o : o = IF ClearsStage(d) THEN 0 ELSE r.out
      OBVIOUS
    <3>3. PICK n : n = [r EXCEPT !.inp = i, !.out = o]
      OBVIOUS
    <3>4. SetAudio(t, [r EXCEPT !.inp = IF adel[d].inp = Nobody THEN @ ELSE Nobody,
                                !.out = IF ClearsStage(d) THEN 0 ELSE @])
      BY <1>4, <2>1, <2>5, Zenon DEF CleanRow
    <3>5. n = [r EXCEPT !.inp = IF adel[d].inp = Nobody THEN @ ELSE Nobody,
                        !.out = IF ClearsStage(d) THEN 0 ELSE @]
      BY <2>1, <3>1, <3>2, <3>3 DEF AudioRows
    <3>6. audio' = [audio EXCEPT ![t] = n]
      BY <3>4, <3>5, Zenon DEF SetAudio
    <3>7. n.st = r.st /\ n.retries = r.retries
      BY <2>1, <3>3 DEF AudioRows
    <3> QED
      BY <1>1, <3>6, <3>7, RowStays
  <2> QED
    BY <1>4, <2>2, <2>3, <2>4, <2>5
<1>5. ASSUME NEW t \in Tasks, AudioLeaseRunsOut(t) PROVE RowsStay
  <2>1. PICK n : n = [audio[t] EXCEPT !.leased = FALSE]
    OBVIOUS
  <2>2. audio' = [audio EXCEPT ![t] = n]
    BY <1>5, <2>1 DEF AudioLeaseRunsOut
  <2>3. audio[t] \in AudioRows
    BY AudioFacts
  <2>4. n.st = audio[t].st /\ n.retries = audio[t].retries
    BY <2>1, <2>3 DEF AudioRows
  <2> QED
    BY <1>1, <2>2, <2>4, RowStays
<1> QED
  BY <1>2, <1>3, <1>4, <1>5

\* A retry starts a generation that nobody has asked for yet.
LEMMA RetryFresh ==
  ASSUME AudioInv, WasteInv, NEW c \in Clients, RetryWrite(c), audio' # audio
  PROVE  WasteInv'
<1>0. PICK t \in Tasks : t = aask[c].t
  BY AudioFacts, AudioSorts
<1> DEFINE r == audio[t]
<1>1. AudioSets /\ r \in AudioRows /\ r.retries \in 0 .. MaxRetries
  BY AudioFacts, AudioSorts
<1>2. PICK n : n = [r EXCEPT !.st = "queued", !.art = "none", !.inp = aask[c].inp, !.out = 0,
                             !.retries = @ + 1]
  OBVIOUS
<1>3. r.st = "failed" /\ audio' = [audio EXCEPT ![t] = n] /\ UNCHANGED <<wasted, awork>>
  BY <1>0, <1>2, Zenon DEF RetryWrite, SetAudio, AudioRetryMatches, audioHistory
<1>4. n.st = "queued" /\ n.retries = r.retries + 1
  BY <1>1, <1>2 DEF AudioRows
<1>5. audio'[t] = n /\ \A u \in Tasks \ {t} : audio'[u] = audio[u]
  BY <1>1, <1>3 DEF AudioSets
<1>6. wasted[t] \in SUBSET (1 .. r.retries + 1) /\ r.retries \in Nat
  BY <1>1 DEF WasteInv, WasteFits
<1>7. WasteFits(t)'
  <2>1. wasted'[t] = wasted[t] /\ audio'[t].retries = r.retries + 1 /\ audio'[t].st = "queued"
    BY <1>3, <1>4, <1>5
  <2>2. wasted[t] \in SUBSET (1 .. (r.retries + 1) + 1) /\ (r.retries + 1) + 1 \notin wasted[t]
    BY <1>6
  <2> QED
    BY <2>1, <2>2 DEF WasteFits
<1>8. ASSUME NEW u \in Tasks \ {t} PROVE WasteFits(u)'
  BY <1>3, <1>5 DEF WasteInv, WasteFits
<1> QED
  BY <1>3, <1>7, <1>8 DEF WasteInv

\* An answer of no use ends the asking of the one worker that generates.
LEMMA PostWastes ==
  ASSUME AudioInv, WasteInv, NEW w \in Workers, PostAudio(w)
  PROVE  WasteInv'
<1>0. PICK t \in Tasks : t = awork[w].t
  BY AudioFacts, AudioSorts
<1> DEFINE b == awork[w]
           m == audio[t].retries + 1
<1>1. /\ AudioSets /\ b \in AudioWorkRows /\ PaidFits(t) /\ GeneratorFits(t)
      /\ audio[t].retries \in 0 .. MaxRetries
  BY AudioFacts, AudioSorts, AudioParts
<1>2. PICK l \in {"payload", "unknown", "failed"} : b.at = "post" /\ AudioAt(w, l)
  BY Zenon DEF PostAudio
<1>3. audio' = audio /\ (wasted' = wasted \/ wasted' = [wasted EXCEPT ![t] = @ \cup {b.try}])
  BY <1>0, Zenon DEF PostAudio
<1>4. \A u \in Workers, v \in Tasks : Asks(awork'[u], v) => u # w /\ Asks(awork[u], v)
  BY <1>1, <1>2 DEF AudioAt, AudioSets, AudioWorkRows, Asks
<1>5. CASE wasted' = wasted
  BY <1>3, <1>4, <1>5, WasteStays DEF RowsStay, AsksStay
<1>6. CASE wasted' = [wasted EXCEPT ![t] = @ \cup {b.try}]
  <2>1. Gen(b, t)
    BY <1>0, <1>2 DEF Gen, Generating
  <2>2. b.try = m /\ \A u \in Workers : Gen(awork[u], t) => u = w
    BY <1>1, <2>1 DEF GeneratorFits
  <2>3. audio[t].st \notin {"none", "queued"}
    BY <1>1, <2>1 DEF PaidFits, Unpaid
  <2>4. \A u \in Workers : ~ Asks(awork'[u], t)
    BY <1>1, <1>4, <2>2 DEF Asks, Gen, Generating
  <2>5. /\ wasted'[t] = wasted[t] \cup {m} /\ m \in Attempts
        /\ \A u \in Tasks \ {t} : wasted'[u] = wasted[u]
    BY <1>1, <1>6, <2>2, MediaBoundsAssumption DEF WasteInv, Attempts
  <2>6. m \in 1 .. m
    BY <1>1
  <2>7. WasteFits(t)'
    BY <1>1, <1>3, <2>3, <2>4, <2>5, <2>6 DEF WasteInv, WasteFits
  <2>8. ASSUME NEW u \in Tasks \ {t} PROVE WasteFits(u)'
    BY <1>3, <1>4, <2>5 DEF WasteInv, WasteFits
  <2>9. wasted' \in [Tasks -> SUBSET Attempts]
    BY <1>1, <1>6, <2>2, <2>5 DEF WasteInv
  <2> QED
    BY <2>7, <2>8, <2>9 DEF WasteInv
<1> QED
  BY <1>3, <1>5, <1>6

\* The other steps write no row.
LEMMA AudioStepWastes == AudioInv /\ WasteInv /\ [AudioNext]_audioVars => WasteInv'
<1> SUFFICES ASSUME AudioInv, WasteInv, [AudioNext]_audioVars PROVE WasteInv'
  OBVIOUS
<1>1. audio' = audio => RowsStay
  BY DEF RowsStay
<1>2. awork' = awork => AsksStay
  BY DEF AsksStay
<1>3. AudioSets
  BY AudioFacts
<1>4. CASE \E w \in Workers :
             \/ AudioWorkStep(w)
             \/ \E t \in Tasks : ClaimQueued(w, t) \/ ClaimSave(w, t)
  <2>1. PICK w \in Workers : \/ AudioWorkStep(w)
                             \/ \E t \in Tasks : ClaimQueued(w, t) \/ ClaimSave(w, t)
    BY <1>4
  <2>2. CASE \/ ReadInput(w) \/ StagePayload(w) \/ StageMarker(w) \/ ReadStage(w) \/ Clear(w)
             \/ SaveAudio(w)
    <3>1. UNCHANGED <<audio, wasted>>
      BY <2>2 DEF ReadInput, StagePayload, StageMarker, ReadStage, Clear, SaveAudio, audioHistory
    <3>2. AsksStay
      BY <1>3, <2>2 DEF ReadInput, StagePayload, StageMarker, ReadStage, Clear, SaveAudio, AudioAt,
         AudioSets, AudioWorkRows, AsksStay, Asks
    <3> QED
      BY <1>1, <3>1, <3>2, WasteStays
  <2>3. CASE Publish(w) \/ Fail(w) \/ CloseSave(w)
    <3>1. wasted' = wasted
      BY <2>3 DEF Publish, Fail, CloseSave, audioHistory
    <3>2. AsksStay
      BY <1>3, <2>3, IdleAudioRows DEF Publish, Fail, CloseSave, AudioIdle, AudioSets, AsksStay, Asks
    <3> QED
      BY <2>3, <3>1, <3>2, WorkRowsStay, WasteStays
  <2>4. ASSUME NEW t \in Tasks, ClaimQueued(w, t) \/ ClaimSave(w, t) PROVE WasteInv'
    <3>1. wasted' = wasted
      BY <2>4 DEF ClaimQueued, ClaimSave, audioHistory
    <3> QED
      BY <2>4, <3>1, ClaimRowsStay, WasteStays
  <2> QED
    BY <2>1, <2>2, <2>3, <2>4, PostWastes DEF AudioWorkStep
<1>5. CASE \E s \in Sweepers :
             \/ StaleWrite(s)
             \/ \E t \in Tasks : StaleRead(s, t)
  <2>1. ASSUME NEW s \in Sweepers, StaleWrite(s) PROVE UNCHANGED <<wasted, awork>>
    BY <2>1 DEF StaleWrite, audioHistory
  <2>2. ASSUME NEW s \in Sweepers, NEW t \in Tasks, StaleRead(s, t)
        PROVE  UNCHANGED <<audio, wasted, awork>>
    BY <2>2 DEF StaleRead, audioHistory
  <2> QED
    BY <1>1, <1>2, <1>5, <2>1, <2>2, OtherRowsStay, WasteStays
<1>6. CASE \E c \in Clients :
             \/ AskStep(c) \/ CallerStops(c)
             \/ \E t \in Tasks : RetryRead(c, t) \/ SaveAgainRead(c, t)
             \/ \E t \in Tasks, i \in Inputs : SubmitCapture(c, t, i)
  <2>1. PICK c \in Clients : \/ AskStep(c) \/ CallerStops(c)
                             \/ \E t \in Tasks : RetryRead(c, t) \/ SaveAgainRead(c, t)
                             \/ \E t \in Tasks, i \in Inputs : SubmitCapture(c, t, i)
    BY <1>6
  <2>2. CASE \/ RetryRefused(c) \/ DropOld(c) \/ CallerStops(c)
             \/ \E i \in Inputs : RetryCapture(c, i)
             \/ \E t \in Tasks : RetryRead(c, t) \/ SaveAgainRead(c, t)
             \/ \E t \in Tasks, i \in Inputs : SubmitCapture(c, t, i)
    <3>1. UNCHANGED <<audio, wasted, awork>>
      BY <2>2 DEF RetryRefused, DropOld, CallerStops, RetryCapture, RetryRead, SaveAgainRead,
         SubmitCapture, audioHistory
    <3> QED
      BY <1>1, <1>2, <3>1, WasteStays
  <2>3. CASE CreateRow(c) \/ SaveAgainWrite(c)
    <3>1. UNCHANGED <<wasted, awork>>
      BY <2>3 DEF CreateRow, SaveAgainWrite, audioHistory
    <3> QED
      BY <1>2, <2>3, <3>1, AskRowsStay, WasteStays
  <2>4. CASE RetryWrite(c)
    <3>1. UNCHANGED <<wasted, awork>>
      BY <2>4 DEF RetryWrite, audioHistory
    <3>2. CASE audio' = audio
      BY <1>1, <1>2, <3>1, <3>2, WasteStays
    <3> QED
      BY <2>4, <3>2, RetryFresh
  <2> QED
    BY <2>1, <2>2, <2>3, <2>4 DEF AskStep
<1>7. CASE \E d \in Deleters :
             \/ AudioDeleteStep(d) \/ DeleteFails(d)
             \/ \E t \in Tasks : AudioDeleteRead(d, t) \/ CleanRead(d, t)
  <2>1. PICK d \in Deleters : \/ AudioDeleteStep(d) \/ DeleteFails(d)
                              \/ \E t \in Tasks : AudioDeleteRead(d, t) \/ CleanRead(d, t)
    BY <1>7
  <2>2. CASE \/ DeleteAssets(d) \/ DeleteFiles(d) \/ CleanFiles(d)
             \/ \E t \in Tasks : AudioDeleteRead(d, t) \/ CleanRead(d, t)
    <3>1. UNCHANGED <<audio, wasted, awork>>
      BY <2>2 DEF DeleteAssets, DeleteFiles, CleanFiles, AudioDeleteRead, CleanRead, audioHistory
    <3> QED
      BY <1>1, <1>2, <3>1, WasteStays
  <2>3. CASE AudioDeleteClaim(d) \/ DeleteRow(d) \/ DeleteFails(d) \/ CleanRow(d)
    <3>1. UNCHANGED <<wasted, awork>>
      BY <2>3 DEF AudioDeleteClaim, DeleteRow, DeleteFails, CleanRow, audioHistory
    <3> QED
      BY <1>2, <2>3, <3>1, OtherRowsStay, WasteStays
  <2> QED
    BY <2>1, <2>2, <2>3 DEF AudioDeleteStep
<1>8. CASE AudioStop
  <2>1. UNCHANGED <<audio, wasted>>
    BY <1>8 DEF AudioStop
  <2>2. AsksStay
    BY <1>8, IdleAudioRows DEF AudioStop, AsksStay, Asks
  <2> QED
    BY <1>1, <2>1, <2>2, WasteStays
<1>9. CASE \E t \in Tasks : AudioLeaseRunsOut(t)
  <2>1. UNCHANGED <<wasted, awork>>
    BY <1>9 DEF AudioLeaseRunsOut, audioActors
  <2> QED
    BY <1>2, <1>9, <2>1, OtherRowsStay, WasteStays
<1>10. CASE UNCHANGED audioVars
  <2>1. UNCHANGED <<audio, wasted, awork>>
    BY <1>10 DEF audioVars, audioOwn, audioActors
  <2> QED
    BY <1>1, <1>2, <2>1, WasteStays
<1> QED
  BY <1>4, <1>5, <1>6, <1>7, <1>8, <1>9, <1>10 DEF AudioNext

\* Both invariants hold in every reachable state.
LEMMA WasteInvariant == AudioSafetySpec => [](AudioInv /\ WasteInv)
<1>1. AudioInit => WasteInv
  <2> SUFFICES ASSUME AudioInit PROVE WasteInv
    OBVIOUS
  <2>1. ASSUME NEW t \in Tasks PROVE WasteFits(t)
    <3>1. audio[t].st = "none" /\ audio[t].retries = 0 /\ wasted[t] = {}
      BY DEF AudioInit, NewAudio
    <3> QED
      BY <3>1 DEF WasteFits
  <2> QED
    BY <2>1 DEF WasteInv, AudioInit
<1> QED
  BY <1>1, AudioStepWastes, AudioInvariant, PTL DEF AudioSafetySpec

\* The declared types hold in every reachable state (audiogen/manager.go).
THEOREM AudioType == AudioSafetySpec => []AudioTypeOK
<1>1. AudioInv /\ WasteInv => AudioTypeOK
  BY DEF AudioInv, WasteInv, AudioTypeOK, AudioSets, StageRows, Stages, InputKeys, AudioWorkRows,
     SweepRows, AudioAskRows, AudioDelRows
<1> QED
  BY <1>1, WasteInvariant, PTL
-----------------------------------------------------------------------------
(* Refinement of PaidGeneration by audio tasks.                             *)

AudioMaps == [AudioPaid!Next]_AudioPaid!vars

\* What the rows of a task mean there.
LEMMA AudioPhaseNames ==
  ASSUME NEW r
  PROVE  /\ r.st = "none" => AudioPhase(r) = "none"
         /\ r.st \in {"queued", "running"} => AudioPhase(r) = "open"
         /\ r.st = "completed" => AudioPhase(r) = IF r.art \in {"pending", "saving"} THEN "done" ELSE "saved"
         /\ r.st = "failed" => AudioPhase(r) = "failed"
         /\ r.st = "unknown" => AudioPhase(r) = "unknown"
         /\ r.st = "deleting" => AudioPhase(r) = "leaving"
         /\ r.st = "deleted" => AudioPhase(r) = "gone"
<1>1. r.st = "none" => AudioPhase(r) = "none"
  BY DEF AudioPhase
<1>2. r.st \in {"queued", "running"} => AudioPhase(r) = "open"
  BY DEF AudioPhase
<1>3. r.st = "completed" => AudioPhase(r) = IF r.art \in {"pending", "saving"} THEN "done" ELSE "saved"
  BY DEF AudioPhase
<1>4. r.st = "failed" => AudioPhase(r) = "failed"
  BY DEF AudioPhase
<1>5. r.st = "unknown" => AudioPhase(r) = "unknown"
  BY DEF AudioPhase
<1>6. r.st = "deleting" => AudioPhase(r) = "leaving"
  BY DEF AudioPhase
<1>7. r.st = "deleted" => AudioPhase(r) = "gone"
  BY DEF AudioPhase
<1> QED
  BY <1>1, <1>2, <1>3, <1>4, <1>5, <1>6, <1>7

\* Two rows of the same status and artefact mean the same.
LEMMA AudioSameMeaning ==
  ASSUME NEW r \in AudioRows, NEW n, n.st = r.st, n.art = r.art
  PROVE  AudioPhase(n) = AudioPhase(r)
<1>1. r.st \in AudioStatuses
  BY AudioSorts
<1>2. CASE r.st \in {"none", "queued", "running", "completed"}
  BY <1>2, AudioPhaseNames
<1>3. CASE r.st \in {"failed", "unknown", "deleting", "deleted"}
  BY <1>3, AudioPhaseNames
<1> QED
  BY <1>1, <1>2, <1>3 DEF AudioStatuses

\* At most the attempt the row is at costs anything.
LEMMA AudioPaidNow ==
  ASSUME AudioInv, NEW t \in Tasks
  PROVE  /\ audio[t].retries + 1 \in Attempts
         /\ Cardinality(paid[t]) = IF audio[t].retries + 1 \in paid[t] THEN 1 ELSE 0
<1>1. audio[t].retries \in 0 .. MaxRetries /\ paid[t] \subseteq {audio[t].retries + 1}
  BY AudioFacts, AudioSorts, AudioParts DEF PaidFits
<1>2. audio[t].retries + 1 \in Attempts
  BY <1>1, MediaBoundsAssumption DEF Attempts
<1>3. CASE audio[t].retries + 1 \in paid[t]
  <2>1. paid[t] = {audio[t].retries + 1}
    BY <1>1, <1>3
  <2> QED
    BY <1>2, <1>3, <2>1, FS_Singleton
<1>4. CASE audio[t].retries + 1 \notin paid[t]
  <2>1. paid[t] = {}
    BY <1>1, <1>4
  <2> QED
    BY <1>2, <1>4, <2>1, FS_EmptySet
<1> QED
  BY <1>3, <1>4

\* A step that changes no row, answer or lateness is a stutter.
LEMMA AudioNothingMoves == UNCHANGED <<audio, paid, wasted, late>> => AudioMaps
BY DEF AudioMaps, AudioPaid!vars

\* A new row n of task t is a move of its phase; the generation stays the one it was,
\* and whether it was answered in vain, unless the row counts another.
LEMMA AudioRowMoves ==
  ASSUME AudioSets, NEW t \in Tasks, NEW n, audio' = [audio EXCEPT ![t] = n],
         UNCHANGED <<paid, wasted, late>>
  PROVE  /\ \A from : AudioPhase(audio[t]) \in from => AudioPaid!Enter(t, from, AudioPhase(n))
         /\ n.retries = audio[t].retries =>
              /\ \A from :
                   AudioPhase(audio[t]) \in from => AudioPaid!Move(t, from, AudioPhase(n))
              /\ AudioPhase(n) = AudioPhase(audio[t]) => AudioMaps
<1> DEFINE P == [u \in Tasks |-> AudioPhase(audio[u])]
           Q == [u \in Tasks |-> Cardinality(paid[u])]
           S == [u \in Tasks |-> audio[u].retries + 1 \in wasted[u]]
<1>1. audio'[t] = n /\ \A u \in Tasks \ {t} : audio'[u] = audio[u]
  BY DEF AudioSets
<1>2. P' = [P EXCEPT ![t] = AudioPhase(n)]
  <2>1. P' = [u \in Tasks |-> AudioPhase(audio'[u])]
    OBVIOUS
  <2>2. \A u \in Tasks : AudioPhase(audio'[u]) = IF u = t THEN AudioPhase(n) ELSE P[u]
    BY <1>1
  <2> QED
    BY <2>1, <2>2
<1>3. Q' = Q
  OBVIOUS
<1>4. P[t] = AudioPhase(audio[t])
  OBVIOUS
<1>5. AudioPhase(n) = AudioPhase(audio[t]) => P' = P
  BY <1>1
<1>6. n.retries = audio[t].retries => S' = S
  <2>1. S' = [u \in Tasks |-> audio'[u].retries + 1 \in wasted[u]]
    OBVIOUS
  <2>2. n.retries = audio[t].retries => \A u \in Tasks : audio'[u].retries = audio[u].retries
    BY <1>1
  <2> QED
    BY <2>1, <2>2
<1>7. ASSUME NEW from, AudioPhase(audio[t]) \in from PROVE AudioPaid!Enter(t, from, AudioPhase(n))
  <2>1. P[t] \in from
    BY <1>4, <1>7
  <2> HIDE DEF P, Q
  <2> QED
    BY <1>2, <1>3, <2>1 DEF AudioPaid!Enter, P, Q
<1>8. ASSUME NEW from, AudioPhase(audio[t]) \in from, n.retries = audio[t].retries
      PROVE  AudioPaid!Move(t, from, AudioPhase(n))
  <2>1. AudioPaid!Enter(t, from, AudioPhase(n))
    BY <1>7, <1>8
  <2> QED
    BY <1>6, <1>8, <2>1 DEF AudioPaid!Move
<1>9. n.retries = audio[t].retries /\ AudioPhase(n) = AudioPhase(audio[t]) => AudioMaps
  BY <1>3, <1>5, <1>6 DEF AudioMaps, AudioPaid!vars
<1> QED
  BY <1>7, <1>8, <1>9

\* What the paid attempts of task t come to there.
LEMMA AudioCost ==
  ASSUME AudioInv, NEW t \in Tasks
  PROVE  /\ [u \in Tasks |-> Cardinality(paid[u])][t] = IF audio[t].retries + 1 \in paid[t] THEN 1 ELSE 0
         /\ paid[t] = {} => [u \in Tasks |-> Cardinality(paid[u])][t] = 0
BY AudioPaidNow

\* A row that counts a generation nobody has asked for yet.
LEMMA FreshAnswer ==
  ASSUME AudioSets, NEW t \in Tasks, NEW n, audio' = [audio EXCEPT ![t] = n],
         wasted' = wasted, n.retries + 1 \notin wasted[t]
  PROVE  [u \in Tasks |-> audio[u].retries + 1 \in wasted[u]]'
           = [[u \in Tasks |-> audio[u].retries + 1 \in wasted[u]] EXCEPT ![t] = FALSE]
<1> DEFINE S == [u \in Tasks |-> audio[u].retries + 1 \in wasted[u]]
<1>1. S' = [u \in Tasks |-> audio'[u].retries + 1 \in wasted[u]]
  OBVIOUS
<1>2. audio'[t] = n /\ \A u \in Tasks \ {t} : audio'[u] = audio[u]
  BY DEF AudioSets
<1>3. ASSUME NEW u \in Tasks
      PROVE  (audio'[u].retries + 1 \in wasted[u]) = (IF u = t THEN FALSE ELSE S[u])
  <2>1. CASE u = t
    <3>1. (n.retries + 1 \in wasted[t]) = FALSE
      OBVIOUS
    <3> QED
      BY <1>2, <2>1, <3>1
  <2>2. CASE u # t
    BY <1>2, <2>2
  <2> QED
    BY <2>1, <2>2
<1>4. S' = [S EXCEPT ![t] = FALSE]
  BY <1>1, <1>3
<1> QED
  BY <1>4

\* Requests of clients.
LEMMA AudioAsksMap ==
  ASSUME AudioInv, WasteInv, NEW c \in Clients,
         CreateRow(c) \/ RetryWrite(c) \/ SaveAgainWrite(c)
  PROVE  AudioMaps
<1> DEFINE t == aask[c].t
           r == audio[t]
<1> USE DEF AudioMaps, AudioPaid!Next
<1>1. /\ AudioSets /\ t \in Tasks /\ r \in AudioRows /\ ShapeFits(t) /\ PaidFits(t)
      /\ r.retries \in 0 .. MaxRetries
  BY AudioFacts, AudioSorts, AudioParts
<1>2. UNCHANGED <<paid, wasted, late>>
  BY DEF CreateRow, RetryWrite, SaveAgainWrite, audioStore, audioHistory
<1>3. CASE audio' = audio
  BY <1>2, <1>3, AudioNothingMoves
<1>4. CASE CreateRow(c) /\ audio' # audio
  <2>1. PICK n : n = [NewAudio("queued") EXCEPT !.inp = aask[c].inp]
    OBVIOUS
  <2>2. r.st = "none" /\ audio' = [audio EXCEPT ![t] = n]
    BY <1>4, <2>1, Zenon DEF CreateRow, SetAudio
  <2>3. n.st = "queued" /\ n.retries = r.retries
    BY <1>1, <2>1, <2>2 DEF NewAudio, WasteInv, WasteFits
  <2>4. AudioPaid!Move(t, {"none"}, "open")
    BY <1>1, <1>2, <2>2, <2>3, AudioRowMoves, AudioPhaseNames
  <2> QED
    BY <1>1, <2>4 DEF AudioPaid!Begin
<1>5. CASE RetryWrite(c) /\ audio' # audio
  <2>1. PICK n : n = [r EXCEPT !.st = "queued", !.art = "none", !.inp = aask[c].inp, !.out = 0,
                               !.retries = @ + 1]
    OBVIOUS
  <2>2. r.st = "failed" /\ audio' = [audio EXCEPT ![t] = n]
    BY <1>5, <2>1, Zenon DEF RetryWrite, SetAudio, AudioRetryMatches
  <2>3. n.st = "queued" /\ n.retries = r.retries + 1
    BY <1>1, <2>1 DEF AudioRows
  <2>4. AudioPaid!Enter(t, {"failed"}, "open")
    BY <1>1, <1>2, <2>2, <2>3, AudioRowMoves, AudioPhaseNames
  <2>5. paid[t] = {}
    BY <1>1, <2>2 DEF PaidFits, Unpaid
  <2>6. n.retries + 1 \notin wasted[t]
    <3>1. r.retries \in Nat /\ wasted[t] \in SUBSET (1 .. r.retries + 1)
      BY <1>1 DEF WasteInv, WasteFits
    <3> QED
      BY <2>3, <3>1
  <2>7. [u \in Tasks |-> audio[u].retries + 1 \in wasted[u]]'
          = [[u \in Tasks |-> audio[u].retries + 1 \in wasted[u]] EXCEPT ![t] = FALSE]
    BY <1>1, <1>2, <2>2, <2>6, FreshAnswer
  <2>8. [u \in Tasks |-> Cardinality(paid[u])][t] = 0
    BY <1>1, <2>5, AudioCost
  <2>9. PICK u \in Tasks : u = t
    BY <1>1
  <2>10. AudioPaid!Again(u)
    BY <2>4, <2>7, <2>8, <2>9 DEF AudioPaid!Again
  <2> QED
    BY <2>10
<1>6. CASE SaveAgainWrite(c) /\ audio' # audio
  <2>1. PICK n : n = [r EXCEPT !.art = "pending"]
    OBVIOUS
  <2>2. r.art = "failed" /\ r.st # "deleted" /\ audio' = [audio EXCEPT ![t] = n]
    BY <1>6, <2>1, Zenon DEF SaveAgainWrite, SetAudio
  <2>3. n.st = r.st /\ n.art = "pending" /\ n.retries = r.retries
    BY <1>1, <2>1 DEF AudioRows
  <2>4. CASE r.st = "completed"
    <3>1. AudioPaid!Move(t, {"saved"}, "done")
      BY <1>1, <1>2, <2>2, <2>3, <2>4, AudioRowMoves, AudioPhaseNames
    <3> QED
      BY <1>1, <3>1 DEF AudioPaid!SaveAgain
  <2>5. CASE r.st = "deleting"
    <3>1. AudioPhase(n) = AudioPhase(r)
      BY <2>3, <2>5, AudioPhaseNames
    <3> QED
      BY <1>1, <1>2, <2>2, <2>3, <3>1, AudioRowMoves
  <2>6. r.st \in {"completed", "deleting"}
    BY <1>1, <2>2 DEF ShapeFits, Shape
  <2> QED
    BY <2>4, <2>5, <2>6
<1> QED
  BY <1>3, <1>4, <1>5, <1>6

\* Claims of work, and the ends of it.
LEMMA AudioClaimsMap ==
  ASSUME AudioInv, NEW w \in Workers, NEW t \in Tasks, ClaimQueued(w, t) \/ ClaimSave(w, t)
  PROVE  AudioMaps
<1> DEFINE r == audio[t]
<1>1. AudioSets /\ r \in AudioRows
  BY AudioFacts
<1>2. UNCHANGED <<paid, wasted, late>>
  BY DEF ClaimQueued, ClaimSave, audioStore, audioHistory
<1>3. CASE ClaimQueued(w, t)
  <2>1. PICK n : n = [r EXCEPT !.st = "running", !.owner = w, !.leased = TRUE]
    OBVIOUS
  <2>2. r.st = "queued" /\ audio' = [audio EXCEPT ![t] = n]
    BY <1>3, <2>1, Zenon DEF ClaimQueued, SetAudio
  <2>3. n.st = "running" /\ n.retries = r.retries
    BY <1>1, <2>1 DEF AudioRows
  <2>4. AudioPhase(n) = AudioPhase(r)
    BY <2>2, <2>3, AudioPhaseNames
  <2> QED
    BY <1>1, <1>2, <2>2, <2>3, <2>4, AudioRowMoves
<1>4. CASE ClaimSave(w, t)
  <2>1. PICK n : n = [r EXCEPT !.art = "saving", !.owner = w, !.leased = TRUE]
    OBVIOUS
  <2>2. r.st = "completed" /\ r.art \in {"pending", "saving"} /\ audio' = [audio EXCEPT ![t] = n]
    BY <1>4, <2>1, Zenon DEF ClaimSave, SetAudio
  <2>3. n.st = "completed" /\ n.art = "saving" /\ n.retries = r.retries
    BY <1>1, <2>1, <2>2 DEF AudioRows
  <2>4. AudioPhase(n) = AudioPhase(r)
    BY <2>2, <2>3, AudioPhaseNames
  <2> QED
    BY <1>1, <1>2, <2>2, <2>3, <2>4, AudioRowMoves
<1> QED
  BY <1>3, <1>4

\* A worker that writes its result.
LEMMA AudioEndsMap ==
  ASSUME AudioInv, NEW w \in Workers, Publish(w) \/ Fail(w) \/ CloseSave(w)
  PROVE  AudioMaps
<1> DEFINE b == awork[w]
           t == b.t
           r == audio[t]
<1> USE DEF AudioMaps, AudioPaid!Next, AudioPaid!Progress
<1>1. AudioSets /\ t \in Tasks /\ r \in AudioRows /\ ShapeFits(t) /\ GeneratorFits(t)
  BY AudioFacts, AudioSorts, AudioParts
<1>2. UNCHANGED <<paid, wasted, late>>
  BY DEF Publish, Fail, CloseSave, audioStore, audioHistory
<1>3. CASE audio' = audio
  BY <1>2, <1>3, AudioNothingMoves
<1>4. CASE Publish(w) /\ audio' # audio
  <2>1. PICK n : n = [r EXCEPT !.st = "completed", !.art = "pending", !.out = b.try]
    OBVIOUS
  <2>2. b.at = "publish" /\ r.st = "running" /\ audio' = [audio EXCEPT ![t] = n]
    BY <1>4, <2>1, Zenon DEF Publish, SetAudio, Running
  <2>3. n.st = "completed" /\ n.art = "pending" /\ n.retries = r.retries
    BY <1>1, <2>1 DEF AudioRows
  <2>4. AudioPaid!Move(t, {"open"}, "done")
    BY <1>1, <1>2, <2>2, <2>3, AudioRowMoves, AudioPhaseNames
  <2>5. r.retries + 1 \in paid[t]
    BY <1>1, <2>2 DEF GeneratorFits, Gen, Generating
  <2>6. AudioPaid!Complete(t)
    BY <1>1, <2>4, <2>5, AudioCost DEF AudioPaid!Complete
  <2> QED
    BY <1>1, <2>6
<1>5. CASE Fail(w) /\ audio' # audio
  <2>1. PICK n : n = [r EXCEPT !.st = b.at, !.owner = Nobody, !.leased = FALSE]
    OBVIOUS
  <2>2. b.at \in {"failed", "unknown"} /\ r.st = "running" /\ audio' = [audio EXCEPT ![t] = n]
    BY <1>5, <2>1, Zenon DEF Fail, SetAudio, Running
  <2>3. n.st = b.at /\ n.retries = r.retries
    BY <1>1, <2>1 DEF AudioRows
  <2>4. CASE b.at = "failed"
    <3>1. AudioPaid!Move(t, {"open", "unknown"}, "failed")
      BY <1>1, <1>2, <2>2, <2>3, <2>4, AudioRowMoves, AudioPhaseNames
    <3>2. r.retries + 1 \notin paid[t]
      BY <1>1, <2>4 DEF GeneratorFits, Gen, Generating
    <3>3. AudioPaid!Refuse(t)
      BY <1>1, <3>1, <3>2, AudioCost DEF AudioPaid!Refuse
    <3> QED
      BY <1>1, <3>3
  <2>5. CASE b.at = "unknown"
    <3>1. AudioPaid!Move(t, {"open"}, "unknown")
      BY <1>1, <1>2, <2>2, <2>3, <2>5, AudioRowMoves, AudioPhaseNames
    <3> QED
      BY <1>1, <3>1 DEF AudioPaid!Lose
  <2> QED
    BY <2>2, <2>4, <2>5
<1>6. CASE CloseSave(w) /\ audio' # audio
  <2>1. PICK f \in {"ready", "failed"} : f = IF b.ok THEN "ready" ELSE "failed"
    OBVIOUS
  <2>2. PICK n : n = [r EXCEPT !.art = f, !.owner = Nobody, !.leased = FALSE]
    OBVIOUS
  <2>3. r.art = "saving" /\ audio' = [audio EXCEPT ![t] = n]
    BY <1>6, <2>1, <2>2, Zenon DEF CloseSave, SetAudio
  <2>4. n.st = r.st /\ n.art = f /\ n.retries = r.retries
    BY <1>1, <2>2 DEF AudioRows
  <2>5. CASE r.st = "completed"
    <3>1. AudioPaid!Move(t, {"done"}, "saved")
      BY <1>1, <1>2, <2>3, <2>4, <2>5, AudioRowMoves, AudioPhaseNames
    <3>2. AudioPaid!Settle(t)
      BY <3>1 DEF AudioPaid!Settle
    <3> QED
      BY <1>1, <3>2
  <2>6. CASE r.st = "deleting"
    <3>1. AudioPhase(n) = AudioPhase(r)
      BY <2>4, <2>6, AudioPhaseNames
    <3> QED
      BY <1>1, <1>2, <2>3, <2>4, <3>1, AudioRowMoves
  <2>7. r.st \in {"completed", "deleting"}
    BY <1>1, <2>3 DEF ShapeFits, Shape
  <2> QED
    BY <2>5, <2>6, <2>7
<1> QED
  BY <1>3, <1>4, <1>5, <1>6

\* A sweep that settles a run without a lease.
LEMMA StaleMaps ==
  ASSUME AudioInv, NEW s \in Sweepers, StaleWrite(s)
  PROVE  AudioMaps
<1> DEFINE b == swept[s]
           t == b.t
           r == audio[t]
<1> USE DEF AudioMaps, AudioPaid!Next, AudioPaid!Progress
<1>1. AudioSets /\ t \in Tasks /\ r \in AudioRows /\ PaidFits(t) /\ SweepFits(t) /\ b.ok \in BOOLEAN
  BY AudioFacts, AudioSorts, AudioParts
<1>2. UNCHANGED <<paid, wasted, late>> /\ b.at = "decided"
  BY DEF StaleWrite, audioStore, audioHistory
<1>3. CASE audio' = audio
  BY <1>2, <1>3, AudioNothingMoves
<1>4. CASE audio' # audio
  <2>1. PICK n : n = Recovered(r, s)
    OBVIOUS
  <2>2. r.st = "running" /\ audio' = [audio EXCEPT ![t] = n]
    BY <1>4, <2>1, Zenon DEF StaleWrite, SetAudio
  <2>3. /\ n.st = IF b.ok THEN "completed" ELSE "unknown"
        /\ n.art = IF b.ok THEN "pending" ELSE "none"
        /\ n.retries = r.retries
    BY <1>1, <2>1 DEF AudioRows, Recovered
  <2>4. CASE b.ok
    <3>1. AudioPaid!Move(t, {"open"}, "done")
      BY <1>1, <1>2, <2>2, <2>3, <2>4, AudioRowMoves, AudioPhaseNames
    <3>2. r.retries + 1 \in paid[t]
      BY <1>1, <1>2, <2>4 DEF SweepFits, PaidFits
    <3>3. AudioPaid!Complete(t)
      BY <1>1, <3>1, <3>2, AudioCost DEF AudioPaid!Complete
    <3> QED
      BY <1>1, <3>3
  <2>5. CASE ~ b.ok
    <3>1. AudioPaid!Move(t, {"open"}, "unknown")
      BY <1>1, <1>2, <2>2, <2>3, <2>5, AudioRowMoves, AudioPhaseNames
    <3>2. AudioPaid!Lose(t)
      BY <3>1 DEF AudioPaid!Lose
    <3> QED
      BY <1>1, <3>2
  <2> QED
    BY <2>4, <2>5
<1> QED
  BY <1>3, <1>4

\* Deletions: the task leaves, is gone, or comes back as it was.
LEMMA AudioDeletionsMap ==
  ASSUME AudioInv, NEW d \in Deleters,
         AudioDeleteClaim(d) \/ DeleteRow(d) \/ DeleteFails(d) \/ CleanRow(d)
  PROVE  AudioMaps
<1> DEFINE b == adel[d]
           t == b.t
           r == audio[t]
<1> USE DEF AudioMaps, AudioPaid!Next
<1>1. /\ AudioSets /\ t \in Tasks /\ r \in AudioRows /\ DeletionFits(t) /\ b.st \in AudioStatuses
      /\ r.st \in AudioStatuses
  BY AudioFacts, AudioSorts, AudioParts
<1>2. UNCHANGED <<paid, wasted, late>>
  BY DEF AudioDeleteClaim, DeleteRow, DeleteFails, CleanRow, audioStore, audioHistory
<1>3. CASE audio' = audio
  BY <1>2, <1>3, AudioNothingMoves
<1>4. CASE AudioDeleteClaim(d) /\ audio' # audio
  <2>1. PICK n : n = [r EXCEPT !.st = "deleting"]
    OBVIOUS
  <2>2. b.at = "claim" /\ r.st = b.st /\ r.art = b.art /\ audio' = [audio EXCEPT ![t] = n]
    BY <1>4, <2>1, Zenon DEF AudioDeleteClaim, SetAudio, AudioClaimMatches
  <2>3. n.st = "deleting" /\ n.retries = r.retries
    BY <1>1, <2>1 DEF AudioRows
  <2>4. r.st \notin {"none", "queued", "running", "deleted"} /\ r.art \notin {"pending", "saving"}
    BY <1>1, <2>2 DEF DeletionFits, At
  <2>5. AudioPhase(r) \in {"saved", "failed", "unknown", "leaving"}
    <3>1. r.st \in {"completed", "failed", "unknown", "deleting"}
      BY <1>1, <2>4 DEF AudioStatuses
    <3> QED
      BY <2>4, <3>1, AudioPhaseNames
  <2>6. AudioPaid!Move(t, AudioPaid!Phases, "leaving")
    BY <1>1, <1>2, <2>2, <2>3, <2>5, AudioRowMoves, AudioPhaseNames DEF AudioPaid!Phases
  <2>7. AudioPaid!Removable(t)
    BY <1>1, <2>5 DEF AudioPaid!Removable
  <2> QED
    BY <1>1, <2>6, <2>7 DEF AudioPaid!Leave
<1>5. CASE DeleteRow(d) /\ audio' # audio
  <2>1. PICK n : n = [NewAudio("deleted") EXCEPT !.retries = r.retries]
    OBVIOUS
  <2>2. r.st = "deleting" /\ audio' = [audio EXCEPT ![t] = n]
    BY <1>5, <2>1, Zenon DEF DeleteRow, SetAudio
  <2>3. n.st = "deleted" /\ n.retries = r.retries
    BY <2>1 DEF NewAudio
  <2>4. AudioPhase(r) = "leaving" /\ AudioPhase(n) = "gone"
    BY <2>2, <2>3, AudioPhaseNames
  <2>5. AudioPaid!Move(t, AudioPaid!Phases, "gone")
    BY <1>1, <1>2, <2>2, <2>3, <2>4, AudioRowMoves DEF AudioPaid!Phases
  <2>6. AudioPaid!Removable(t)
    BY <1>1, <2>4 DEF AudioPaid!Removable
  <2> QED
    BY <1>1, <2>5, <2>6 DEF AudioPaid!Remove
<1>6. CASE DeleteFails(d) /\ audio' # audio
  <2>1. PICK n : n = [r EXCEPT !.st = b.st]
    OBVIOUS
  <2>2. b.at \in {"assets", "row"} /\ r.st = "deleting" /\ audio' = [audio EXCEPT ![t] = n]
    BY <1>6, <2>1, Zenon DEF DeleteFails, SetAudio
  <2>3. n.st = b.st /\ n.retries = r.retries
    BY <1>1, <2>1 DEF AudioRows
  <2>4. b.st \in {"completed", "failed", "unknown", "deleting"}
    BY <1>1, <2>2 DEF DeletionFits, At, AudioStatuses
  <2>5. CASE b.st = "deleting"
    <3>1. AudioPhase(n) = AudioPhase(r)
      BY <2>2, <2>3, <2>5, AudioPhaseNames
    <3> QED
      BY <1>1, <1>2, <2>2, <2>3, <3>1, AudioRowMoves
  <2>6. CASE b.st # "deleting"
    <3>1. PICK p : p = AudioPhase(n)
      OBVIOUS
    <3>2. p \in {"failed", "unknown", "done", "saved"} /\ (p = "failed" => b.st = "failed")
      BY <2>3, <2>4, <2>6, <3>1, AudioPhaseNames
    <3>3. b.st = "failed" => paid[t] = {}
      BY <1>1, <2>2, <2>6 DEF DeletionFits, Taken, Claimed, ClaimedPoints, Unpaid
    <3>4. AudioPaid!Move(t, {"leaving"}, p)
      BY <1>1, <1>2, <2>2, <2>3, <3>1, AudioRowMoves, AudioPhaseNames
    <3> QED
      BY <1>1, <3>2, <3>3, <3>4, AudioCost DEF AudioPaid!Return
  <2> QED
    BY <2>5, <2>6
<1>7. CASE CleanRow(d) /\ audio' # audio
  <2>1. PICK i : i = IF b.inp = Nobody THEN r.inp ELSE Nobody
    OBVIOUS
  <2>2. PICK o : o = IF ClearsStage(d) THEN 0 ELSE r.out
    OBVIOUS
  <2>3. PICK n : n = [r EXCEPT !.inp = i, !.out = o]
    OBVIOUS
  <2>4. SetAudio(t, [r EXCEPT !.inp = IF b.inp = Nobody THEN @ ELSE Nobody,
                              !.out = IF ClearsStage(d) THEN 0 ELSE @])
    BY <1>7, Zenon DEF CleanRow
  <2>5. n = [r EXCEPT !.inp = IF b.inp = Nobody THEN @ ELSE Nobody, !.out = IF ClearsStage(d) THEN 0 ELSE @]
    BY <1>1, <2>1, <2>2, <2>3 DEF AudioRows
  <2>6. audio' = [audio EXCEPT ![t] = n]
    BY <2>4, <2>5, Zenon DEF SetAudio
  <2>7. n.st = r.st /\ n.art = r.art /\ n.retries = r.retries
    BY <1>1, <2>3 DEF AudioRows
  <2>8. AudioPhase(n) = AudioPhase(r)
    BY <1>1, <2>7, AudioSameMeaning
  <2> QED
    BY <1>1, <1>2, <2>6, <2>7, <2>8, AudioRowMoves
<1> QED
  BY <1>3, <1>4, <1>5, <1>6, <1>7

\* The one request of an attempt is answered with a result or in vain; a worker that is
\* late may be answered for a task that was settled without it.
LEMMA AudioPostMaps ==
  ASSUME AudioInv, WasteInv, NEW w \in Workers, PostAudio(w)
  PROVE  AudioMaps
<1> DEFINE b == awork[w]
           t == b.t
           m == audio[t].retries + 1
           P == [u \in Tasks |-> AudioPhase(audio[u])]
           Q == [u \in Tasks |-> Cardinality(paid[u])]
           S == [u \in Tasks |-> audio[u].retries + 1 \in wasted[u]]
<1>1. /\ AudioSets /\ t \in Tasks /\ PaidFits(t) /\ GeneratorFits(t) /\ (t \in late \/ HolderFits(t))
      /\ m \in Attempts /\ audio[t].st \in AudioStatuses
  BY AudioFacts, AudioSorts, AudioParts, AudioPaidNow
<1>2. /\ b.at = "post" /\ UNCHANGED <<audio, late>>
      /\ \/ paid' = [paid EXCEPT ![t] = @ \cup {b.try}] /\ wasted' = wasted
         \/ wasted' = [wasted EXCEPT ![t] = @ \cup {b.try}] /\ paid' = paid
         \/ UNCHANGED <<paid, wasted>>
  BY Zenon DEF PostAudio
<1>3. Gen(b, t)
  BY <1>2 DEF Gen, Generating
<1>4. b.try = m /\ m \notin paid[t] /\ m \notin wasted[t]
  BY <1>1, <1>2, <1>3 DEF GeneratorFits, WasteInv, WasteFits, Asks
<1>5. paid[t] = {}
  BY <1>1, <1>4 DEF PaidFits
<1>6. P' = P
  BY <1>2
<1>7. AudioPaid!Unanswered(t)
  <2>0. Q[t] = 0
    BY <1>1, <1>5, AudioCost
  <2>1. ~ S[t]
    BY <1>1, <1>4
  <2>2. audio[t].st \notin {"none", "queued", "failed", "completed"}
    BY <1>1, <1>3, <1>4 DEF PaidFits, Unpaid
  <2>3. audio[t].st = "running" \/ t \in late
    BY <1>1, <1>2, <1>3 DEF HolderFits, At
  <2>4. audio[t].st \in {"running", "unknown", "deleting", "deleted"}
    BY <1>1, <2>2 DEF AudioStatuses
  <2>5. P[t] = AudioPhase(audio[t])
    BY <1>1
  <2>6. P[t] = "open" \/ (P[t] \in {"unknown", "leaving", "gone"} /\ t \in late)
    BY <2>3, <2>4, <2>5, AudioPhaseNames
  <2> HIDE DEF P, Q, S
  <2> QED
    BY <2>0, <2>1, <2>6 DEF AudioPaid!Unanswered, P, Q, S
<1>8. CASE paid' = [paid EXCEPT ![t] = @ \cup {b.try}] /\ wasted' = wasted
  <2>1. PICK T : T = {m}
    OBVIOUS
  <2>2. paid' = [paid EXCEPT ![t] = T]
    BY <1>1, <1>4, <1>5, <1>8, <2>1 DEF AudioSets
  <2>3. Cardinality(T) = 1
    BY <2>1, FS_Singleton
  <2>4. \A u \in Tasks : paid'[u] = IF u = t THEN T ELSE paid[u]
    BY <1>1, <2>2 DEF AudioSets
  <2>5. Q' = [Q EXCEPT ![t] = 1]
    <3>1. Q' = [u \in Tasks |-> Cardinality(paid'[u])]
      OBVIOUS
    <3>2. \A u \in Tasks : Cardinality(paid'[u]) = IF u = t THEN 1 ELSE Q[u]
      BY <2>3, <2>4
    <3> QED
      BY <3>1, <3>2
  <2>6. S' = S
    BY <1>2, <1>8
  <2> HIDE DEF P, Q, S
  <2>7. AudioPaid!Pay(t)
    BY <1>2, <1>6, <1>7, <2>5, <2>6 DEF AudioPaid!Pay, P, Q, S
  <2>8. \E u \in Tasks : AudioPaid!Pay(u)
    BY <1>1, <2>7
  <2> QED
    BY <2>8 DEF AudioMaps, AudioPaid!Next
<1>9. CASE wasted' = [wasted EXCEPT ![t] = @ \cup {b.try}] /\ paid' = paid
  <2>1. \A u \in Tasks : wasted'[u] = IF u = t THEN wasted[t] \cup {m} ELSE wasted[u]
    BY <1>1, <1>4, <1>9 DEF WasteInv
  <2>2. S' = [S EXCEPT ![t] = TRUE]
    <3>1. S' = [u \in Tasks |-> audio'[u].retries + 1 \in wasted'[u]]
      OBVIOUS
    <3>2. \A u \in Tasks :
            (audio'[u].retries + 1 \in wasted'[u]) = (IF u = t THEN TRUE ELSE S[u])
      BY <1>2, <2>1
    <3> QED
      BY <3>1, <3>2
  <2>3. Q' = Q
    BY <1>9
  <2> HIDE DEF P, Q, S
  <2>4. AudioPaid!Waste(t)
    BY <1>2, <1>6, <1>7, <2>2, <2>3 DEF AudioPaid!Waste, P, Q, S
  <2>5. \E u \in Tasks : AudioPaid!Waste(u)
    BY <1>1, <2>4
  <2> QED
    BY <2>5 DEF AudioMaps, AudioPaid!Next
<1>10. CASE UNCHANGED <<paid, wasted>>
  BY <1>2, <1>10, AudioNothingMoves
<1> QED
  BY <1>2, <1>8, <1>9, <1>10

\* A lease that runs out under its holder is an overrun.
LEMMA AudioLateMaps ==
  ASSUME AudioInv, NEW t \in Tasks, AudioLeaseRunsOut(t)
  PROVE  AudioMaps
<1> DEFINE P == [u \in Tasks |-> AudioPhase(audio[u])]
           Q == [u \in Tasks |-> Cardinality(paid[u])]
           S == [u \in Tasks |-> audio[u].retries + 1 \in wasted[u]]
<1>1. AudioSets /\ audio[t] \in AudioRows
  BY AudioFacts
<1>2. UNCHANGED <<paid, wasted>> /\ late' \in {late, late \cup {t}}
  BY DEF AudioLeaseRunsOut
<1>3. PICK n : n = [audio[t] EXCEPT !.leased = FALSE]
  OBVIOUS
<1>4. audio' = [audio EXCEPT ![t] = n]
  BY <1>3 DEF AudioLeaseRunsOut
<1>5. n.st = audio[t].st /\ n.art = audio[t].art /\ n.retries = audio[t].retries
  BY <1>1, <1>3 DEF AudioRows
<1>6. AudioPhase(n) = AudioPhase(audio[t])
  BY <1>1, <1>5, AudioSameMeaning
<1>7. P' = P
  <2>1. P' = [u \in Tasks |-> AudioPhase(audio'[u])]
    OBVIOUS
  <2>2. \A u \in Tasks : AudioPhase(audio'[u]) = P[u]
    BY <1>1, <1>4, <1>6 DEF AudioSets
  <2> QED
    BY <2>1, <2>2
<1>8. Q' = Q /\ S' = S
  <2>1. \A u \in Tasks : audio'[u].retries = audio[u].retries
    BY <1>1, <1>4, <1>5 DEF AudioSets
  <2> QED
    BY <1>2, <2>1
<1>9. CASE late' = late
  BY <1>7, <1>8, <1>9 DEF AudioMaps, AudioPaid!vars
<1>10. CASE late' = late \cup {t}
  BY <1>7, <1>8, <1>10 DEF AudioMaps, AudioPaid!Next, AudioPaid!Overrun
<1> QED
  BY <1>2, <1>9, <1>10

\* Every step maps to a step of PaidGeneration or a stutter.
LEMMA AudioStepMaps == AudioInv /\ WasteInv /\ [AudioNext]_audioVars => AudioMaps
<1> SUFFICES ASSUME AudioInv, WasteInv, [AudioNext]_audioVars PROVE AudioMaps
  OBVIOUS
<1>1. ASSUME NEW w \in Workers,
             \/ ReadInput(w) \/ StagePayload(w) \/ StageMarker(w) \/ ReadStage(w) \/ Clear(w)
             \/ SaveAudio(w)
      PROVE  UNCHANGED <<audio, paid, wasted, late>>
  BY <1>1 DEF ReadInput, StagePayload, StageMarker, ReadStage, Clear, SaveAudio, audioHistory
<1>2. ASSUME NEW c \in Clients,
             \/ RetryRefused(c) \/ DropOld(c) \/ CallerStops(c)
             \/ \E i \in Inputs : RetryCapture(c, i)
             \/ \E t \in Tasks : RetryRead(c, t) \/ SaveAgainRead(c, t)
             \/ \E t \in Tasks, i \in Inputs : SubmitCapture(c, t, i)
      PROVE  UNCHANGED <<audio, paid, wasted, late>>
  BY <1>2 DEF RetryRefused, DropOld, CallerStops, RetryCapture, RetryRead, SaveAgainRead, SubmitCapture,
     audioHistory
<1>3. ASSUME NEW d \in Deleters,
             \/ DeleteAssets(d) \/ DeleteFiles(d) \/ CleanFiles(d)
             \/ \E t \in Tasks : AudioDeleteRead(d, t) \/ CleanRead(d, t)
      PROVE  UNCHANGED <<audio, paid, wasted, late>>
  BY <1>3 DEF DeleteAssets, DeleteFiles, CleanFiles, AudioDeleteRead, CleanRead, audioHistory
<1>4. CASE \E w \in Workers :
             \/ AudioWorkStep(w)
             \/ \E t \in Tasks : ClaimQueued(w, t) \/ ClaimSave(w, t)
  BY <1>1, <1>4, AudioNothingMoves, AudioClaimsMap, AudioEndsMap, AudioPostMaps DEF AudioWorkStep
<1>5. CASE \E s \in Sweepers :
             \/ StaleWrite(s)
             \/ \E t \in Tasks : StaleRead(s, t)
  <2>1. ASSUME NEW s \in Sweepers, NEW t \in Tasks, StaleRead(s, t) PROVE UNCHANGED <<audio, paid, wasted, late>>
    BY <2>1 DEF StaleRead, audioHistory
  <2> QED
    BY <1>5, <2>1, AudioNothingMoves, StaleMaps
<1>6. CASE \E c \in Clients :
             \/ AskStep(c) \/ CallerStops(c)
             \/ \E t \in Tasks : RetryRead(c, t) \/ SaveAgainRead(c, t)
             \/ \E t \in Tasks, i \in Inputs : SubmitCapture(c, t, i)
  BY <1>2, <1>6, AudioNothingMoves, AudioAsksMap DEF AskStep
<1>7. CASE \E d \in Deleters :
             \/ AudioDeleteStep(d) \/ DeleteFails(d)
             \/ \E t \in Tasks : AudioDeleteRead(d, t) \/ CleanRead(d, t)
  BY <1>3, <1>7, AudioNothingMoves, AudioDeletionsMap DEF AudioDeleteStep
<1>8. CASE AudioStop \/ \E t \in Tasks : AudioLeaseRunsOut(t)
  <2>1. AudioStop => UNCHANGED <<audio, paid, wasted, late>>
    BY DEF AudioStop
  <2> QED
    BY <1>8, <2>1, AudioNothingMoves, AudioLateMaps
<1>9. CASE UNCHANGED audioVars
  <2>1. UNCHANGED <<audio, paid, wasted, late>>
    BY <1>9 DEF audioVars, audioOwn
  <2> QED
    BY <2>1, AudioNothingMoves
<1> QED
  BY <1>4, <1>5, <1>6, <1>7, <1>8, <1>9 DEF AudioNext

\* Whatever processes stop, answers are lost and leases run out: audio is never
\* generated again when an attempt has given or may have given a result, each attempt is
\* answered at most once, one with an unknown outcome is left alone, and a task in
\* progress is not deleted.  An attempt answered with nothing of use may have been charged
\* as well: it counts as failed, and the user may ask for another (audiogen/manager.go,
\* client.go).
THEOREM AudioRefinesPaid == AudioSafetySpec => AudioPaid!SafetySpec
<1>1. AudioInit => AudioPaid!Init
  <2> SUFFICES ASSUME AudioInit PROVE AudioPaid!Init
    OBVIOUS
  <2>1. ASSUME NEW t \in Tasks
        PROVE  /\ AudioPhase(audio[t]) = "none" /\ Cardinality(paid[t]) = 0
               /\ (audio[t].retries + 1 \in wasted[t]) = FALSE
    <3>1. audio[t].st = "none" /\ paid[t] = {} /\ wasted[t] = {}
      BY DEF AudioInit, NewAudio
    <3> QED
      BY <3>1, AudioPhaseNames, FS_EmptySet
  <2> QED
    BY <2>1 DEF AudioPaid!Init, AudioInit
<1>2. AudioInv /\ WasteInv /\ [AudioNext]_audioVars => [AudioPaid!Next]_AudioPaid!vars
  BY AudioStepMaps DEF AudioMaps
<1> QED
  BY <1>1, <1>2, WasteInvariant, PTL DEF AudioSafetySpec, AudioPaid!SafetySpec
===============================================================================
