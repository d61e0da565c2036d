-------------------------- MODULE SliceThreadsProofs --------------------------
(***************************************************************************)
(* Proofs about SliceThreads for every number of threads and of jobs, when *)
(* pthread_cond_wait returns only after a signal.  pthread_create may fail *)
(***************************************************************************)
EXTENDS SliceThreads, FiniteSets, FiniteSetTheorems, TLAPS

Jobs    == 0 .. job_count - 1
Entered == {w \in Workers : wpc[w] \notin {"none", "new", "begun"}}

(* The jobs that are done and that current_job already counts.             *)
Counted ==
  {j \in Jobs : runs[j] = 1 /\ \A w \in Workers : wpc[w] = "ran" => our_job[w] # j}

(* Before the first call current_job counts the workers that reached their *)
(* loop, and numbers them.                                                 *)
StartInv ==
  /\ job_count = 0 => current_job = Cardinality(Entered)
  /\ job_count = 0 => \A w \in Workers : /\ wpc[w] \notin {"running", "ran"}
                                         /\ wpc[w] = "woken" => quit
  /\ job_count = 0 /\ mpc \in {"signalled", "idle"} => Entered = Workers
  /\ job_count > 0 => Entered = Workers
  /\ \A w \in Workers : wpc[w] \in {"none", "new", "begun"} => our_job[w] = 0
  /\ \A w \in Entered : self_id[w] < ThreadCount
  /\ job_count = 0 => \A w \in Entered : self_id[w] < current_job
  /\ \A v, w \in Entered : v # w => self_id[v] # self_id[w]
  /\ mpc \notin {"failed", "joining", "freed"} => thread_count = ThreadCount

(* During a call it counts the jobs done: from thread_count on, because    *)
(* the first thread_count jobs are not taken from it.                      *)
CountInv ==
  job_count > 0 => /\ current_job = ThreadCount + Cardinality(Counted)
                   /\ mpc # "waiting" => Counted = Jobs
                   /\ mpc \notin {"creating", "failed"}

(* Each job is at one place: not taken, with one worker, or done.          *)
JobInv ==
  /\ \A j \in Jobs : runs[j] \in {0, 1}
  /\ \A j \in Jobs : runs[j] = 1 /\ j >= ThreadCount => j < current_job
  /\ \A w \in Workers : wpc[w] = "running" => our_job[w] < job_count /\ runs[our_job[w]] = 0
  /\ \A w \in Workers : wpc[w] = "ran" => our_job[w] < job_count /\ runs[our_job[w]] = 1
  /\ \A w \in Workers : wpc[w] \in {"running", "ran"} =>
       our_job[w] = self_id[w] \/ (ThreadCount <= our_job[w] /\ our_job[w] < current_job)
  /\ \A v, w \in Workers :
       /\ wpc[v] \in {"running", "ran"} /\ wpc[w] \in {"running", "ran"} /\ v # w
       => our_job[v] # our_job[w]
  /\ \A w \in Workers : wpc[w] = "woken" /\ ~quit /\ self_id[w] < job_count => runs[self_id[w]] = 0

IInv == TypeOK /\ StartInv /\ CountInv /\ JobInv
-----------------------------------------------------------------------------
LEMMA WorkersFinite ==
  /\ ThreadCount \in Nat /\ ThreadCount > 1 /\ MaxJobs \in Nat
  /\ IsFiniteSet(Workers) /\ Cardinality(Workers) = ThreadCount
<1>1. ThreadCount \in Nat /\ ThreadCount > 1 /\ MaxJobs \in Nat
  BY CountsAssumption
<1>2. IsFiniteSet(0 .. ThreadCount - 1)
      /\ Cardinality(0 .. ThreadCount - 1) = ThreadCount
  BY <1>1, FS_Interval
<1>3. QED BY <1>1, <1>2 DEF Workers

(* A set of workers, or of jobs, as large as the whole is the whole.       *)
LEMMA AllWorkers ==
  ASSUME NEW S \in SUBSET Workers
  PROVE  /\ IsFiniteSet(S) /\ Cardinality(S) \in Nat /\ Cardinality(S) <= ThreadCount
         /\ Cardinality(S) = ThreadCount => S = Workers
BY WorkersFinite, FS_Subset, FS_CardinalityType

LEMMA AllJobs ==
  ASSUME NEW n \in Nat, NEW S \in SUBSET (0 .. n - 1)
  PROVE  /\ IsFiniteSet(S) /\ Cardinality(S) \in Nat
         /\ Cardinality(S) = n => S = 0 .. n - 1
<1>1. IsFiniteSet(0 .. n - 1) /\ Cardinality(0 .. n - 1) = n
  BY FS_Interval
<1>2. QED BY <1>1, FS_Subset, FS_CardinalityType

(* No call is under way, or one is: while a worker is busy MAIN waits.     *)
LEMMA BusyWaits ==
  ASSUME IInv, NEW w \in Workers, wpc[w] \in {"running", "ran"}
  PROVE  job_count > 0 /\ mpc = "waiting" /\ Entered = Workers
<1>1. job_count > 0
  BY WorkersFinite DEF IInv, TypeOK, StartInv
<1>2. our_job[w] \in Jobs /\ our_job[w] \notin Counted
  BY <1>1 DEF IInv, TypeOK, JobInv, Jobs, Counted
<1>3. QED BY <1>1, <1>2 DEF IInv, StartInv, CountInv

LEMMA InitInv == Init => IInv
<1> SUFFICES ASSUME Init PROVE IInv
  OBVIOUS
<1>1. TypeOK
  <2>1. 0 .. job_count - 1 = {} /\ runs = [j \in {} |-> 0]
    BY DEF Init
  <2>2. runs \in [0 .. job_count - 1 -> Nat]
    BY <2>1
  <2>3. thread_count \in 0 .. ThreadCount /\ job_count \in 0 .. MaxJobs /\ current_job \in Nat
    BY WorkersFinite DEF Init
  <2>4. QED BY <2>2, <2>3 DEF Init, TypeOK
<1>2. Entered = {} /\ Cardinality({}) = 0
  BY FS_EmptySet DEF Init, Entered
<1>3. StartInv
  BY <1>2 DEF Init, StartInv
<1>4. CountInv /\ JobInv
  BY WorkersFinite DEF Init, CountInv, JobInv, Jobs
<1>5. QED BY <1>1, <1>3, <1>4 DEF IInv
-----------------------------------------------------------------------------
(* The start of a worker.                                                  *)

LEMMA BeginInv ==
  ASSUME IInv, NEW w \in Workers, Begin(w)
  PROVE  IInv'
<1>1. job_count = 0 /\ w \notin Entered
  BY DEF IInv, TypeOK, StartInv, Begin, Entered
<1>2. TypeOK'
  BY DEF IInv, TypeOK, Begin
<1>3. Entered' = Entered
  BY DEF IInv, TypeOK, Begin, Entered
<1>4. StartInv'
  BY <1>1, <1>3 DEF IInv, TypeOK, StartInv, Begin, Entered
<1>5. CountInv' /\ JobInv'
  BY <1>1 DEF IInv, TypeOK, StartInv, CountInv, JobInv, Jobs, Begin, Entered
<1>6. QED BY <1>2, <1>4, <1>5 DEF IInv

LEMMA EnterInv ==
  ASSUME IInv, NEW w \in Workers, Enter(w)
  PROVE  IInv'
<1>1. /\ job_count = 0 /\ our_job[w] = 0 /\ w \notin Entered
      /\ current_job = Cardinality(Entered) /\ current_job \in Nat
  BY DEF IInv, TypeOK, StartInv, Enter, Entered
<1>2. /\ wpc' = [wpc EXCEPT ![w] = "parked"]
      /\ our_job' = [our_job EXCEPT ![w] = 0]
      /\ self_id' = [self_id EXCEPT ![w] = current_job]
      /\ current_job' = current_job + 1
      /\ mpc' = IF AllDone(current_job + 1) /\ mpc = "waiting" THEN "signalled" ELSE mpc
      /\ job_count' = 0
      /\ UNCHANGED <<thread_count, quit, runs>>
  BY <1>1 DEF Enter, Loop
<1>3. Entered' = Entered \cup {w}
  BY <1>2 DEF IInv, TypeOK, Entered
<1>4. Entered \in SUBSET Workers /\ Entered \cup {w} \in SUBSET Workers
  BY DEF Entered
<1>5. Cardinality(Entered \cup {w}) = current_job + 1
  BY <1>1, <1>4, AllWorkers, FS_AddElement
<1>6. current_job < ThreadCount
  BY <1>1, <1>4, <1>5, AllWorkers, WorkersFinite
<1>7. TypeOK'
  BY <1>1, <1>2 DEF IInv, TypeOK
<1>8. mpc' \in {"signalled", "idle"} => Entered' = Workers
  <2>1. CASE mpc = "waiting" /\ AllDone(current_job + 1)
    <3>1. thread_count = ThreadCount
      BY <2>1 DEF IInv, StartInv
    <3>2. current_job + 1 = ThreadCount
      BY <1>1, <2>1, <3>1, WorkersFinite DEF AllDone
    <3>3. QED BY <1>3, <1>4, <1>5, <3>2, AllWorkers
  <2>2. CASE ~(mpc = "waiting" /\ AllDone(current_job + 1))
    BY <1>1, <1>2, <1>4, <2>2 DEF IInv, StartInv
  <2>3. QED BY <2>1, <2>2
<1>9. StartInv'
  <2>1. current_job' = Cardinality(Entered')
    BY <1>2, <1>3, <1>5
  <2>2. \A v \in Workers : /\ wpc'[v] \notin {"running", "ran"}
                           /\ wpc'[v] = "woken" => quit'
    BY <1>1, <1>2 DEF IInv, TypeOK, StartInv
  <2>3. \A v \in Workers : wpc'[v] \in {"none", "new", "begun"} => our_job'[v] = 0
    BY <1>2 DEF IInv, TypeOK, StartInv
  <2>4. \A v \in Entered' : self_id'[v] < ThreadCount /\ self_id'[v] < current_job'
    BY <1>1, <1>2, <1>3, <1>4, <1>6, WorkersFinite DEF IInv, TypeOK, StartInv
  <2>5. \A v, x \in Entered' : v # x => self_id'[v] # self_id'[x]
    BY <1>1, <1>2, <1>3, <1>4 DEF IInv, TypeOK, StartInv
  <2>6. mpc' \notin {"failed", "joining", "freed"} => thread_count' = ThreadCount
    BY <1>2 DEF IInv, StartInv
  <2>7. QED BY <1>2, <1>8, <2>1, <2>2, <2>3, <2>4, <2>5, <2>6 DEF StartInv
<1>10. CountInv' /\ JobInv'
  BY <1>1, <1>2 DEF IInv, TypeOK, StartInv, JobInv, CountInv, Jobs
<1>11. QED BY <1>7, <1>9, <1>10 DEF IInv
-----------------------------------------------------------------------------
(* A worker inside a call.                                                 *)

(* The number of the next job is counted: then all are done exactly when   *)
(* the worker signals.                                                     *)
LEMMA Signals ==
  ASSUME IInv, mpc = "waiting", NEW C \in SUBSET Jobs, NEW cur,
         cur = ThreadCount + Cardinality(C), AllDone(cur)
  PROVE  C = Jobs
<1>1. thread_count = ThreadCount /\ job_count \in Nat /\ ThreadCount \in Nat
  BY WorkersFinite DEF IInv, TypeOK, StartInv
<1>2. Cardinality(C) \in Nat
  BY <1>1, AllJobs DEF Jobs
<1>3. Cardinality(C) = job_count
  <2>1. PICK c \in Nat : c = Cardinality(C)
    BY <1>2
  <2>2. c = job_count
    BY <1>1, <2>1 DEF AllDone
  <2>3. QED BY <2>1, <2>2
<1>4. QED BY <1>1, <1>3, AllJobs DEF Jobs

LEMMA RunInv ==
  ASSUME IInv, NEW w \in Workers, Run(w)
  PROVE  IInv'
<1> DEFINE job == our_job[w]
<1>1. /\ wpc[w] = "running" /\ job \in Jobs /\ runs[job] = 0 /\ job_count \in Nat
      /\ job \in Nat /\ mpc = "waiting" /\ job_count > 0
  BY BusyWaits, WorkersFinite DEF IInv, TypeOK, JobInv, Jobs, Run
<1>2. /\ wpc' = [wpc EXCEPT ![w] = "ran"] /\ runs' = [runs EXCEPT ![job] = 1]
      /\ UNCHANGED <<thread_count, job_count, current_job, quit, our_job, self_id, mpc>>
  BY <1>1 DEF Run
<1>3. TypeOK'
  BY <1>1, <1>2 DEF IInv, TypeOK, Jobs
<1>4. Entered' = Entered /\ Jobs' = Jobs
  BY <1>1, <1>2 DEF IInv, TypeOK, Entered, Jobs
<1>5. StartInv'
  BY <1>1, <1>2, <1>4 DEF IInv, TypeOK, StartInv
<1>6. \A v \in Workers : v # w /\ wpc[v] \in {"running", "ran"} => our_job[v] # job
  BY <1>1 DEF IInv, JobInv
<1>7. Counted' = Counted
  <2>1. ASSUME NEW j \in Jobs PROVE j \in Counted' <=> j \in Counted
    BY <1>1, <1>2, <1>4, <1>6 DEF IInv, TypeOK, Counted, Jobs
  <2>2. QED BY <1>4, <2>1 DEF Counted
<1>8. CountInv'
  BY <1>2, <1>4, <1>7 DEF IInv, CountInv
<1>9. JobInv'
  <2>1. \A j \in Jobs : runs'[j] = IF j = job THEN 1 ELSE runs[j]
    BY <1>2 DEF IInv, TypeOK, Jobs
  <2>2. job < ThreadCount \/ job < current_job
    BY <1>1, WorkersFinite DEF IInv, TypeOK, JobInv, StartInv, Entered
  <2>3. \A j \in Jobs : /\ runs'[j] \in {0, 1}
                        /\ runs'[j] = 1 /\ j >= ThreadCount => j < current_job'
    BY <1>1, <1>2, <2>1, <2>2, WorkersFinite DEF IInv, JobInv, TypeOK, Jobs
  <2>4. \A v \in Workers : wpc'[v] = "running" =>
           our_job'[v] < job_count' /\ runs'[our_job'[v]] = 0
    BY <1>1, <1>2, <1>6 DEF IInv, JobInv, TypeOK
  <2>5. \A v \in Workers : wpc'[v] = "ran" =>
           our_job'[v] < job_count' /\ runs'[our_job'[v]] = 1
    BY <1>1, <1>2, <1>6 DEF IInv, JobInv, TypeOK, Jobs
  <2>6. \A v \in Workers : wpc'[v] \in {"running", "ran"} =>
           \/ our_job'[v] = self_id'[v]
           \/ ThreadCount <= our_job'[v] /\ our_job'[v] < current_job'
    BY <1>1, <1>2 DEF IInv, JobInv, TypeOK
  <2>7. \A v, x \in Workers :
           /\ wpc'[v] \in {"running", "ran"} /\ wpc'[x] \in {"running", "ran"} /\ v # x
           => our_job'[v] # our_job'[x]
    BY <1>1, <1>2 DEF IInv, JobInv, TypeOK
  <2>8. ASSUME NEW v \in Workers, wpc'[v] = "woken", ~quit', self_id'[v] < job_count'
        PROVE  runs'[self_id'[v]] = 0
    <3>1. wpc[v] = "woken" /\ v # w /\ runs[self_id[v]] = 0 /\ self_id[v] \in Jobs
      BY <1>1, <1>2, <2>8 DEF IInv, JobInv, TypeOK, Jobs
    <3>2. v \in Entered /\ w \in Entered
      BY <1>1, <3>1 DEF Entered
    <3>3. self_id[v] # self_id[w] /\ self_id[v] < ThreadCount
      BY <3>1, <3>2 DEF IInv, StartInv
    <3>4. job = self_id[w] \/ ThreadCount <= job
      BY <1>1 DEF IInv, JobInv
    <3>5. self_id[v] # job
      BY <3>1, <3>3, <3>4, <1>1, WorkersFinite DEF Jobs
    <3>6. QED BY <1>2, <2>1, <3>1, <3>5
  <2>9. QED BY <1>4, <2>3, <2>4, <2>5, <2>6, <2>7, <2>8 DEF JobInv
<1>10. QED BY <1>3, <1>5, <1>8, <1>9 DEF IInv

(* Taking a job that is neither done nor with another worker.              *)
LEMMA WakeInv ==
  ASSUME IInv, ~WorkerSpurious, NEW w \in Workers, Wake(w)
  PROVE  IInv'
<1>1. /\ wpc[w] = "woken" /\ w \in Entered /\ self_id[w] \in Nat /\ self_id[w] < ThreadCount
      /\ job_count \in Nat /\ current_job \in Nat
  BY WorkersFinite DEF IInv, TypeOK, StartInv, Wake, Woken, Entered
<1>2. /\ our_job' = [our_job EXCEPT ![w] = self_id[w]]
      /\ UNCHANGED <<thread_count, job_count, current_job, quit, self_id, runs>>
  BY DEF Wake, Loop
<1>3. /\ \A v \in Workers : v # w => wpc'[v] = wpc[v]
      /\ wpc'[w] \in {"gone", "running", "parked"}
      /\ wpc'[w] = "gone" <=> quit
      /\ wpc'[w] = "running" => ~quit /\ self_id[w] < job_count
      /\ wpc' \in [Workers -> {"none", "new", "begun", "parked", "woken", "running",
                               "ran", "gone"}]
  BY DEF Wake, Loop, IInv, TypeOK
<1>4. /\ mpc' # mpc => mpc = "waiting" /\ mpc' = "signalled" /\ AllDone(current_job) /\ ~quit
      /\ mpc' = "waiting" => mpc = "waiting"
  BY DEF Wake, Loop
<1>5. TypeOK'
  BY <1>1, <1>2, <1>3, <1>4 DEF IInv, TypeOK
<1>6. Entered' = Entered /\ Jobs' = Jobs
  BY <1>1, <1>2, <1>3 DEF Entered, Jobs
<1>7. Counted' = Counted
  <2>1. \A v \in Workers : (wpc'[v] = "ran" <=> wpc[v] = "ran")
                           /\ (wpc[v] = "ran" => our_job'[v] = our_job[v])
    BY <1>1, <1>2, <1>3 DEF IInv, TypeOK
  <2>2. QED BY <1>2, <1>6, <2>1 DEF Counted
<1>8. job_count = 0 => quit
  BY <1>1 DEF IInv, StartInv
<1>9. mpc' # mpc => job_count > 0
  BY <1>1, <1>4, <1>8
<1>10. StartInv'
  <2>1. job_count' = 0 => current_job' = Cardinality(Entered')
    BY <1>2, <1>6 DEF IInv, StartInv
  <2>2. job_count' = 0 => \A v \in Workers : /\ wpc'[v] \notin {"running", "ran"}
                                             /\ wpc'[v] = "woken" => quit'
    BY <1>2, <1>3, <1>8 DEF IInv, StartInv
  <2>3. mpc' \in {"signalled", "idle"} => Entered' = Workers
    BY <1>1, <1>4, <1>6, <1>8, <1>9 DEF IInv, StartInv, TypeOK
  <2>4. job_count' > 0 => Entered' = Workers
    BY <1>2, <1>6 DEF IInv, StartInv
  <2>5. \A v \in Workers : wpc'[v] \in {"none", "new", "begun"} => our_job'[v] = 0
    BY <1>1, <1>2, <1>3 DEF IInv, StartInv, TypeOK
  <2>6. /\ \A v \in Entered' : self_id'[v] < ThreadCount
        /\ job_count' = 0 => \A v \in Entered' : self_id'[v] < current_job'
        /\ \A v, x \in Entered' : v # x => self_id'[v] # self_id'[x]
    BY <1>2, <1>6 DEF IInv, StartInv
  <2>7. mpc' \notin {"failed", "joining", "freed"} => thread_count' = ThreadCount
    BY <1>2, <1>4 DEF IInv, StartInv
  <2>8. QED BY <2>1, <2>2, <2>3, <2>4, <2>5, <2>6, <2>7 DEF StartInv
<1>11. CountInv'
  <2>1. CASE mpc' = mpc
    BY <1>2, <1>6, <1>7, <2>1 DEF IInv, CountInv
  <2>2. CASE mpc' # mpc
    <3>1. job_count > 0 => Counted = Jobs
      <4> SUFFICES ASSUME job_count > 0 PROVE Counted = Jobs
        OBVIOUS
      <4>1. current_job = ThreadCount + Cardinality(Counted) /\ Counted \in SUBSET Jobs
        BY DEF IInv, CountInv, Counted
      <4>2. QED BY <1>4, <2>2, <4>1, Signals
    <3>2. QED BY <1>2, <1>4, <1>6, <1>7, <2>2, <3>1 DEF IInv, CountInv
  <2>3. QED BY <2>1, <2>2
<1>12. JobInv'
  <2>1. \A j \in Jobs' : /\ runs'[j] \in {0, 1}
                         /\ (runs'[j] = 1 /\ j >= ThreadCount => j < current_job')
    BY <1>2, <1>6 DEF IInv, JobInv
  <2>2. \A v \in Workers : wpc'[v] = "running" =>
           our_job'[v] < job_count' /\ runs'[our_job'[v]] = 0
    BY <1>1, <1>2, <1>3 DEF IInv, JobInv, TypeOK
  <2>3. \A v \in Workers : wpc'[v] = "ran" =>
           our_job'[v] < job_count' /\ runs'[our_job'[v]] = 1
    BY <1>1, <1>2, <1>3 DEF IInv, JobInv, TypeOK
  <2>4. \A v \in Workers : wpc'[v] \in {"running", "ran"} =>
           \/ our_job'[v] = self_id'[v]
           \/ ThreadCount <= our_job'[v] /\ our_job'[v] < current_job'
    BY <1>1, <1>2, <1>3 DEF IInv, JobInv, TypeOK
  <2>5. \A v, x \in Workers :
           (wpc'[v] \in {"running", "ran"} /\ wpc'[x] \in {"running", "ran"} /\ v # x)
           => our_job'[v] # our_job'[x]
    <3>1. ASSUME NEW v \in Workers, v # w, wpc[v] \in {"running", "ran"}
          PROVE  our_job[v] # self_id[w]
      <4>1. v \in Entered
        BY <3>1 DEF Entered
      <4>2. self_id[v] # self_id[w]
        BY <1>1, <3>1, <4>1 DEF IInv, StartInv
      <4>3. our_job[v] = self_id[v] \/ ThreadCount <= our_job[v]
        BY <3>1 DEF IInv, JobInv
      <4>4. our_job[v] \in Nat
        BY DEF IInv, TypeOK
      <4>5. QED BY <1>1, <4>2, <4>3, <4>4, WorkersFinite
    <3>2. /\ our_job'[w] = self_id[w]
          /\ \A v \in Workers : v # w => our_job'[v] = our_job[v]
      BY <1>2 DEF IInv, TypeOK
    <3>3. QED BY <1>3, <3>1, <3>2 DEF IInv, JobInv
  <2>6. \A v \in Workers : wpc'[v] = "woken" /\ ~quit' /\ self_id'[v] < job_count'
           => runs'[self_id'[v]] = 0
    BY <1>2, <1>3 DEF IInv, JobInv
  <2>7. QED BY <2>1, <2>2, <2>3, <2>4, <2>5, <2>6 DEF JobInv
<1>13. QED BY <1>5, <1>10, <1>11, <1>12 DEF IInv

LEMMA NextJobInv ==
  ASSUME IInv, NEW w \in Workers, NextJob(w)
  PROVE  IInv'
<1>1. /\ wpc[w] = "ran" /\ job_count \in Nat /\ current_job \in Nat
      /\ our_job[w] \in Jobs /\ runs[our_job[w]] = 1 /\ our_job[w] \in Nat
  BY WorkersFinite DEF IInv, TypeOK, JobInv, NextJob, Jobs
<1>2. job_count > 0 /\ mpc = "waiting" /\ Entered = Workers
  BY <1>1, BusyWaits
<1>3. /\ our_job' = [our_job EXCEPT ![w] = current_job]
      /\ current_job' = current_job + 1
      /\ UNCHANGED <<thread_count, job_count, quit, self_id, runs>>
  BY DEF NextJob, Loop
<1>4. /\ \A v \in Workers : v # w => wpc'[v] = wpc[v]
      /\ wpc'[w] \in {"running", "parked"}
      /\ wpc'[w] = "running" => current_job < job_count
      /\ wpc' \in [Workers -> {"none", "new", "begun", "parked", "woken", "running",
                               "ran", "gone"}]
  BY DEF NextJob, Loop, IInv, TypeOK
<1>5. mpc' = "waiting" \/ (mpc' = "signalled" /\ AllDone(current_job + 1))
  BY <1>2 DEF NextJob, Loop
<1>6. TypeOK'
  <2>1. /\ our_job' \in [Workers -> Nat] /\ current_job' \in Nat
        /\ runs' \in [0 .. job_count' - 1 -> Nat]
    BY <1>1, <1>3 DEF IInv, TypeOK
  <2>2. mpc' \in {"waiting", "signalled"}
    BY <1>5
  <2>3. QED BY <1>3, <1>4, <2>1, <2>2 DEF IInv, TypeOK
<1>7. Entered' = Entered /\ Jobs' = Jobs
  BY <1>1, <1>3, <1>4 DEF Entered, Jobs
<1>8. Counted' = Counted \cup {our_job[w]} /\ our_job[w] \notin Counted
  <2>1. our_job[w] \notin Counted
    BY <1>1 DEF Counted
  <2>2. \A v \in Workers : v # w => our_job'[v] = our_job[v]
    BY <1>3 DEF IInv, TypeOK
  <2>3. \A v \in Workers : (wpc'[v] = "ran" <=> wpc[v] = "ran" /\ v # w)
    BY <1>4
  <2>4. \A v \in Workers : v # w /\ wpc[v] = "ran" => our_job[v] # our_job[w]
    BY <1>1 DEF IInv, JobInv
  <2>5. ASSUME NEW j \in Jobs
        PROVE  j \in Counted' <=> (j \in Counted \/ j = our_job[w])
    <3>1. CASE j = our_job[w]
      BY <1>1, <1>3, <1>7, <2>2, <2>3, <2>4, <3>1 DEF Counted
    <3>2. CASE j # our_job[w]
      BY <1>1, <1>3, <1>7, <2>2, <2>3, <3>2 DEF Counted
    <3>3. QED BY <3>1, <3>2
  <2>6. Counted \subseteq Jobs /\ Counted' \subseteq Jobs
    BY <1>7 DEF Counted
  <2>7. QED BY <1>1, <2>1, <2>5, <2>6
<1>9. current_job' = ThreadCount + Cardinality(Counted') /\ current_job >= ThreadCount
  <2>1. Counted \in SUBSET Jobs
    BY DEF Counted
  <2>2. IsFiniteSet(Counted) /\ Cardinality(Counted) \in Nat
    BY <1>1, <2>1, AllJobs DEF Jobs
  <2>3. Cardinality(Counted') = Cardinality(Counted) + 1
    BY <1>8, <2>2, FS_AddElement
  <2>4. current_job = ThreadCount + Cardinality(Counted)
    BY <1>2 DEF IInv, CountInv
  <2>5. QED BY <1>3, <2>2, <2>3, <2>4, WorkersFinite
<1>10. CountInv'
  <2>1. mpc' # "waiting" => Counted' = Jobs'
    <3> SUFFICES ASSUME mpc' # "waiting" PROVE Counted' = Jobs
      BY <1>7
    <3>1. AllDone(current_job + 1)
      BY <1>5
    <3>2. Counted' \in SUBSET Jobs
      BY <1>7 DEF Counted
    <3>3. PICK C \in SUBSET Jobs : C = Counted'
      BY <3>2
    <3>4. current_job + 1 = ThreadCount + Cardinality(C)
      BY <1>3, <1>9, <3>3
    <3>5. QED BY <1>2, <3>1, <3>3, <3>4, Signals
  <2>2. QED BY <1>5, <1>9, <2>1 DEF CountInv
<1>11. StartInv'
  BY <1>2, <1>3, <1>4, <1>5, <1>7 DEF IInv, TypeOK, StartInv
<1>12. \A v \in Workers : v # w /\ wpc[v] \in {"running", "ran"} => our_job[v] < current_job
  <2> SUFFICES ASSUME NEW v \in Workers, v # w, wpc[v] \in {"running", "ran"}
               PROVE  our_job[v] < current_job
    OBVIOUS
  <2>1. self_id[v] < ThreadCount /\ self_id[v] \in Nat /\ our_job[v] \in Nat
    BY <1>2 DEF IInv, TypeOK, StartInv
  <2>2. our_job[v] = self_id[v] \/ our_job[v] < current_job
    BY DEF IInv, JobInv
  <2>3. QED BY <1>1, <1>9, <2>1, <2>2, WorkersFinite
<1>13. JobInv'
  <2>1. \A j \in Jobs' : /\ runs'[j] \in {0, 1}
                         /\ (runs'[j] = 1 /\ j >= ThreadCount => j < current_job')
    BY <1>1, <1>3, <1>7 DEF IInv, JobInv, Jobs
  <2>2. \A v \in Workers : wpc'[v] = "running" =>
           our_job'[v] < job_count' /\ runs'[our_job'[v]] = 0
    <3>1. current_job < job_count => runs[current_job] = 0
      BY <1>1, <1>9, WorkersFinite DEF IInv, JobInv, Jobs
    <3>2. QED BY <1>3, <1>4, <3>1 DEF IInv, JobInv, TypeOK
  <2>3. \A v \in Workers : wpc'[v] = "ran" =>
           our_job'[v] < job_count' /\ runs'[our_job'[v]] = 1
    BY <1>3, <1>4 DEF IInv, JobInv, TypeOK
  <2>4. \A v \in Workers : wpc'[v] \in {"running", "ran"} =>
           \/ our_job'[v] = self_id'[v]
           \/ ThreadCount <= our_job'[v] /\ our_job'[v] < current_job'
    BY <1>1, <1>3, <1>4, <1>9, WorkersFinite DEF IInv, JobInv, TypeOK
  <2>5. \A v, x \in Workers :
           (wpc'[v] \in {"running", "ran"} /\ wpc'[x] \in {"running", "ran"} /\ v # x)
           => our_job'[v] # our_job'[x]
    <3>1. /\ our_job'[w] = current_job
          /\ \A v \in Workers : v # w => our_job'[v] = our_job[v] /\ our_job[v] \in Nat
      BY <1>3 DEF IInv, TypeOK
    <3>2. \A v \in Workers : v # w /\ wpc[v] \in {"running", "ran"} => our_job[v] # current_job
      BY <1>1, <1>12, <3>1
    <3>3. QED BY <1>4, <3>1, <3>2 DEF IInv, JobInv
  <2>6. \A v \in Workers : wpc'[v] = "woken" /\ ~quit' /\ self_id'[v] < job_count'
           => runs'[self_id'[v]] = 0
    BY <1>3, <1>4 DEF IInv, JobInv
  <2>7. QED BY <2>1, <2>2, <2>3, <2>4, <2>5, <2>6 DEF JobInv
<1>14. QED BY <1>6, <1>10, <1>11, <1>13 DEF IInv
-----------------------------------------------------------------------------
(* MAIN.                                                                   *)

LEMMA CreateInv ==
  ASSUME IInv, NEW w \in Workers, Create(w)
  PROVE  IInv'
<1>1. TypeOK' /\ Entered' = Entered /\ Jobs' = Jobs
  BY DEF IInv, TypeOK, Create, Entered, Jobs
<1>2. job_count = 0
  BY WorkersFinite DEF IInv, TypeOK, CountInv, Create
<1>3. StartInv'
  BY <1>1, <1>2 DEF IInv, TypeOK, StartInv, Create
<1>4. CountInv' /\ JobInv'
  BY <1>1, <1>2 DEF IInv, TypeOK, CountInv, JobInv, StartInv, Create
<1>5. QED BY <1>1, <1>3, <1>4 DEF IInv

(* pthread_create fails, MAIN parks the workers or joins them.             *)
LEMMA MainStepInv ==
  ASSUME IInv,
         \/ \E w \in Workers : CreateFails(w)
         \/ ParkWorkers \/ Join
  PROVE  IInv'
<1>1. UNCHANGED <<job_count, current_job, quit, wpc, our_job, self_id, runs>>
  BY DEF CreateFails, ParkWorkers, Join
<1>2. \/ mpc = "creating" /\ mpc' = "failed" /\ thread_count' \in 0 .. ThreadCount
      \/ mpc = "creating" /\ mpc' = "waiting" /\ thread_count' = thread_count
      \/ mpc = "joining" /\ mpc' = "freed" /\ thread_count' = thread_count
  BY WorkersFinite DEF CreateFails, ParkWorkers, Join, Workers
<1>3. TypeOK'
  BY <1>1, <1>2 DEF IInv, TypeOK
<1>4. Entered' = Entered /\ Jobs' = Jobs /\ Counted' = Counted
  BY <1>1 DEF Entered, Jobs, Counted
<1>5. StartInv' /\ CountInv'
  BY <1>1, <1>2, <1>4, WorkersFinite DEF IInv, TypeOK, StartInv, CountInv
<1>6. JobInv'
  BY <1>1, <1>4 DEF IInv, JobInv
<1>7. QED BY <1>3, <1>5, <1>6 DEF IInv

LEMMA ReturnInv ==
  ASSUME IInv, ~MainSpurious, Return
  PROVE  IInv'
<1>1. /\ mpc = "signalled" /\ mpc' = "idle"
      /\ UNCHANGED <<thread_count, job_count, current_job, quit, wpc, our_job, self_id, runs>>
  BY DEF Return
<1>2. TypeOK' /\ Entered' = Entered /\ Jobs' = Jobs /\ Counted' = Counted
  BY <1>1 DEF IInv, TypeOK, Entered, Jobs, Counted
<1>3. StartInv' /\ CountInv' /\ JobInv'
  BY <1>1, <1>2 DEF IInv, StartInv, CountInv, JobInv
<1>4. QED BY <1>2, <1>3 DEF IInv

(* While MAIN is idle no worker is busy, and each has its number.          *)
LEMMA IdleQuiet ==
  ASSUME IInv, mpc = "idle"
  PROVE  /\ Entered = Workers
         /\ \A w \in Workers : wpc[w] \notin {"running", "ran"}
<1>1. \A w \in Workers : wpc[w] \notin {"running", "ran"}
  BY BusyWaits
<1>2. job_count = 0 \/ job_count > 0
  BY WorkersFinite DEF IInv, TypeOK
<1>3. QED BY <1>1, <1>2 DEF IInv, StartInv

LEMMA ExecuteInv ==
  ASSUME IInv, NEW k \in 1 .. MaxJobs, Execute(k)
  PROVE  IInv'
<1>1. /\ mpc = "idle" /\ mpc' = "waiting" /\ job_count' = k /\ current_job' = thread_count
      /\ runs' = [j \in 0 .. k - 1 |-> 0]
      /\ wpc' = [w \in Workers |-> IF wpc[w] = "parked" THEN "woken" ELSE wpc[w]]
      /\ UNCHANGED <<thread_count, quit, our_job, self_id>>
  BY DEF Execute, Broadcast
<1>2. Entered = Workers /\ \A w \in Workers : wpc[w] \notin {"running", "ran"}
  BY <1>1, IdleQuiet
<1>3. /\ thread_count = ThreadCount /\ k \in Nat /\ k > 0 /\ ThreadCount \in Nat
      /\ k \in 0 .. MaxJobs
  BY <1>1, WorkersFinite DEF IInv, StartInv
<1>4. TypeOK'
  <2>1. runs' \in [0 .. job_count' - 1 -> Nat]
    BY <1>1
  <2>2. wpc' \in [Workers -> {"none", "new", "begun", "parked", "woken", "running",
                              "ran", "gone"}]
    BY <1>1 DEF IInv, TypeOK
  <2>3. QED BY <1>1, <1>3, <2>1, <2>2 DEF IInv, TypeOK
<1>5. Entered' = Workers /\ \A w \in Workers : wpc'[w] \notin {"running", "ran"}
  BY <1>1, <1>2 DEF Entered
<1>6. Jobs' = 0 .. k - 1 /\ \A j \in Jobs' : runs'[j] = 0
  BY <1>1 DEF Jobs
<1>7. Counted' = {} /\ Cardinality({}) = 0
  BY <1>6, FS_EmptySet DEF Counted
<1>8. StartInv'
  <2>1. job_count' > 0 /\ job_count' # 0
    BY <1>1, <1>3
  <2>2. \A w \in Workers : wpc'[w] \notin {"none", "new", "begun"}
    BY <1>5 DEF Entered
  <2>3. /\ \A w \in Entered' : self_id'[w] < ThreadCount
        /\ \A v, w \in Entered' : v # w => self_id'[v] # self_id'[w]
    BY <1>1, <1>2, <1>5 DEF IInv, StartInv
  <2>4. QED BY <1>1, <1>3, <1>5, <2>1, <2>2, <2>3 DEF StartInv
<1>9. CountInv'
  BY <1>1, <1>3, <1>7 DEF CountInv
<1>10. JobInv'
  <2>1. \A w \in Workers : self_id'[w] \in Nat
    BY <1>1 DEF IInv, TypeOK
  <2>2. \A w \in Workers : self_id'[w] < job_count' => self_id'[w] \in Jobs'
    BY <1>1, <1>3, <1>6, <2>1
  <2>3. QED BY <1>5, <1>6, <2>2 DEF JobInv
<1>11. QED BY <1>4, <1>8, <1>9, <1>10 DEF IInv

LEMMA FreeInv ==
  ASSUME IInv, Free
  PROVE  IInv'
<1>1. /\ mpc \in {"idle", "failed"} /\ mpc' = "joining" /\ quit' = TRUE
      /\ wpc' = [w \in Workers |-> IF wpc[w] = "parked" THEN "woken" ELSE wpc[w]]
      /\ UNCHANGED <<thread_count, job_count, current_job, our_job, self_id, runs>>
  BY DEF Free, Broadcast
<1>2. \A w \in Workers : wpc[w] \notin {"running", "ran"}
  BY <1>1, BusyWaits
<1>3. TypeOK' /\ Entered' = Entered /\ Jobs' = Jobs
  BY <1>1 DEF IInv, TypeOK, Entered, Jobs
<1>4. Counted' = Counted
  BY <1>1, <1>2, <1>3 DEF Counted
<1>5. StartInv' /\ CountInv'
  BY <1>1, <1>2, <1>3, <1>4 DEF IInv, StartInv, CountInv, TypeOK
<1>6. JobInv'
  BY <1>1, <1>2, <1>3 DEF IInv, JobInv
<1>7. QED BY <1>3, <1>5, <1>6 DEF IInv

LEMMA StutterInv ==
  ASSUME IInv, UNCHANGED vars
  PROVE  IInv'
<1>1. TypeOK' /\ Entered' = Entered /\ Jobs' = Jobs /\ Counted' = Counted
  BY DEF IInv, TypeOK, Entered, Jobs, Counted, vars
<1>2. StartInv' /\ CountInv' /\ JobInv'
  BY <1>1 DEF IInv, StartInv, CountInv, JobInv, vars
<1>3. QED BY <1>1, <1>2 DEF IInv
-----------------------------------------------------------------------------
(* The invariant of the pool is one, whatever threads and calls do, when   *)
(* pthread_cond_wait needs a signal to return.                             *)
THEOREM PoolInductive ==
  ASSUME ~MainSpurious, ~WorkerSpurious
  PROVE  Spec => []IInv
<1>1. IInv /\ [Next]_vars => IInv'
  <2> SUFFICES ASSUME IInv, [Next]_vars PROVE IInv'
    OBVIOUS
  <2>1. CASE \E w \in Workers : Worker(w)
    BY <2>1, BeginInv, EnterInv, WakeInv, RunInv, NextJobInv DEF Worker
  <2>2. CASE Main
    BY <2>2, CreateInv, MainStepInv, ReturnInv, FreeInv DEF Main
  <2>3. CASE Calls
    BY <2>3, ExecuteInv, FreeInv DEF Calls
  <2>4. CASE UNCHANGED vars
    BY <2>4, StutterInv
  <2>5. QED BY <2>1, <2>2, <2>3, <2>4 DEF Next, Ended
<1>2. QED BY <1>1, InitInv, PTL DEF Spec

(* avcodec.h: execute "will return only after finishing all tasks", each   *)
(* was performed once, and nobody uses its arguments any more; for every   *)
(* number of threads and of jobs.                                          *)
THEOREM ReturnsWhenDoneCorrect ==
  ASSUME ~MainSpurious, ~WorkerSpurious
  PROVE  Spec => []ReturnsWhenDone
<1>1. IInv => ReturnsWhenDone
  <2> SUFFICES ASSUME IInv, mpc = "idle"
               PROVE  /\ \A j \in 0 .. job_count - 1 : runs[j] = 1
                      /\ \A w \in Workers : wpc[w] \notin {"running", "ran"}
    BY DEF ReturnsWhenDone
  <2>1. \A j \in Jobs : j \in Counted
    BY WorkersFinite DEF IInv, TypeOK, CountInv, Jobs
  <2>2. QED BY <2>1, IdleQuiet DEF Jobs, Counted
<1>2. QED BY <1>1, PoolInductive, PTL

(* No slice is given to two workers, at once or one after the other.       *)
THEOREM OneWorkerPerJobCorrect ==
  ASSUME ~MainSpurious, ~WorkerSpurious
  PROVE  Spec => []OneWorkerPerJob
<1>1. IInv => OneWorkerPerJob
  BY DEF IInv, JobInv, OneWorkerPerJob
<1>2. QED BY <1>1, PoolInductive, PTL

(* The initial state and every step of the pool of threads is one of       *)
(* JobPool, or changes nothing the decoder sees.                           *)
THEOREM PoolRefines ==
  ASSUME ~MainSpurious, ~WorkerSpurious
  PROVE  Spec => Pool!Init /\ [][Pool!Next]_Pool!vars
<1>1. Init => Pool!Init
  BY DEF Init, Pool!Init, Phase, Undone
<1>2. IInv /\ IInv' /\ [Next]_vars => [Pool!Next]_Pool!vars
  <2> SUFFICES ASSUME IInv, IInv', [Next]_vars PROVE [Pool!Next]_Pool!vars
    OBVIOUS
  <2>1. ASSUME NEW w \in Workers, Run(w)
        PROVE  Pool!Perform(our_job[w])
    <3>1. mpc = "waiting" /\ job_count > 0 /\ job_count \in Nat
      BY <2>1, BusyWaits, WorkersFinite DEF Run, IInv, TypeOK
    <3>2. our_job[w] \in Jobs /\ runs[our_job[w]] = 0
      BY <2>1, <3>1 DEF Run, IInv, TypeOK, JobInv, Jobs
    <3>3. /\ mpc' = mpc /\ job_count' = job_count
          /\ runs' = [runs EXCEPT ![our_job[w]] = 1]
      BY <2>1, <3>2 DEF Run
    <3>4. \A j \in Jobs : runs'[j] = IF j = our_job[w] THEN 1 ELSE runs[j]
      BY <3>2, <3>3 DEF IInv, TypeOK, Jobs
    <3>5. Phase = "busy" /\ Phase' = "busy"
      BY <3>1, <3>3 DEF Phase
    <3>6. Undone = {j \in Jobs : runs[j] = 0} /\ Undone' = {j \in Jobs : runs'[j] = 0}
      BY <3>1, <3>3 DEF Undone, Jobs
    <3>7. our_job[w] \in Undone /\ Undone' = Undone \ {our_job[w]}
      BY <3>2, <3>4, <3>6
    <3>8. QED BY <3>5, <3>7 DEF Pool!Perform
  <2>2. ASSUME NEW k \in 1 .. MaxJobs, Execute(k)
        PROVE  Pool!Call(k)
    <3>1. Phase = "idle" /\ Phase' = "busy"
      BY <2>2 DEF Execute, Phase
    <3>2. /\ job_count' = k /\ k # 0
          /\ \A j \in 0 .. k - 1 : runs'[j] = 0
      BY <2>2, WorkersFinite DEF Execute
    <3>3. Undone' = 0 .. k - 1
      BY <3>2 DEF Undone
    <3>4. QED BY <3>1, <3>3 DEF Pool!Call
  <2>3. ASSUME Return
        PROVE  Pool!Opened \/ Pool!Return
    <3>1. /\ mpc = "signalled" /\ mpc' = "idle" /\ Undone' = Undone
      BY <2>3 DEF Return, Undone
    <3>2. job_count = 0 \/ job_count > 0
      BY WorkersFinite DEF IInv, TypeOK
    <3>3. CASE job_count = 0
      BY <3>1, <3>3 DEF Pool!Opened, Phase
    <3>4. CASE job_count > 0
      <4>1. Counted = Jobs
        BY <3>1, <3>4 DEF IInv, CountInv
      <4>2. Undone = {}
        BY <4>1 DEF Undone, Counted, Jobs
      <4>3. QED BY <3>1, <3>4, <4>2 DEF Pool!Return, Phase
    <3>5. QED BY <3>2, <3>3, <3>4
  <2>4. ASSUME Free
        PROVE  Pool!Close
    <3>1. mpc = "failed" => job_count = 0
      BY WorkersFinite DEF IInv, TypeOK, CountInv
    <3>2. Undone' = Undone /\ Phase \in {"idle", "opening"} /\ Phase' = "closed"
      BY <2>4, <3>1 DEF Free, Undone, Phase
    <3>3. QED BY <3>2 DEF Pool!Close
  <2>5. ASSUME UNCHANGED <<job_count, runs>>,
               \/ mpc' = mpc
               \/ mpc = "waiting" /\ mpc' = "signalled"
               \/ mpc = "creating" /\ mpc' \in {"failed", "waiting"} /\ job_count = 0
               \/ mpc = "joining" /\ mpc' = "freed"
        PROVE  UNCHANGED Pool!vars
    BY <2>5 DEF Phase, Undone, Pool!vars
  <2>6. ASSUME NEW w \in Workers, Begin(w) \/ Enter(w) \/ Wake(w) \/ NextJob(w)
        PROVE  UNCHANGED Pool!vars
    BY <2>5, <2>6 DEF Begin, Enter, Wake, NextJob, Loop
  <2>7. ASSUME ParkWorkers \/ Join \/ \E w \in Workers : Create(w) \/ CreateFails(w)
        PROVE  UNCHANGED Pool!vars
    <3>1. mpc = "creating" => job_count = 0
      BY WorkersFinite DEF IInv, TypeOK, CountInv
    <3>2. QED BY <2>5, <2>7, <3>1 DEF ParkWorkers, Join, Create, CreateFails
  <2>8. CASE UNCHANGED vars
    BY <2>5, <2>8 DEF vars
  <2>9. ASSUME NEW w \in Workers, Worker(w)
        PROVE  Pool!Next \/ UNCHANGED Pool!vars
    <3>1. CASE Run(w)
      <4>1. Pool!Perform(our_job[w]) /\ our_job[w] \in Undone
        BY <2>1, <3>1 DEF Pool!Perform
      <4>2. QED BY <4>1 DEF Pool!Next
    <3>2. QED BY <2>6, <2>9, <3>1 DEF Worker
  <2>10. CASE Calls
    BY <2>2, <2>4, <2>10 DEF Calls, Pool!Next
  <2>11. CASE Main
    BY <2>3, <2>4, <2>7, <2>11 DEF Main, Pool!Next
  <2>12. QED BY <2>8, <2>9, <2>10, <2>11 DEF Next, Ended
<1>3. QED BY <1>1, <1>2, PoolInductive, PTL DEF Spec
=============================================================================
