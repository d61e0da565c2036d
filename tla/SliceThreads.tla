---------------------------- MODULE SliceThreads ----------------------------
(***************************************************************************)
(* The worker threads of the decoders (libavcodec/pthread.c): the thread   *)
(* that decodes, MAIN, hands the slices of a picture to a pool of workers  *)
(* and sleeps until the last one is done.  One mutex, current_job_lock,    *)
(* two condition variables, and two counters.                              *)
(*                                                                         *)
(* All of the shared state is used under the mutex, so a critical section, *)
(* from taking the mutex to giving it up (or to pthread_cond_wait, which   *)
(* gives it up), is one action.  Only avcodec_thread_init keeps the mutex  *)
(* for several steps; Held says so.                                        *)
(***************************************************************************)
EXTENDS Integers

CONSTANTS
  ThreadCount,     \* the thread_count argument of avcodec_thread_init
  MaxJobs,         \* the largest job_count a codec passes to execute
  CreateMayFail,   \* may pthread_create fail?
  MainSpurious,    \* may pthread_cond_wait of MAIN return without a signal?
  WorkerSpurious   \* the same, for the workers

ASSUME CountsAssumption == ThreadCount \in Nat \ {0, 1} /\ MaxJobs \in Nat

ASSUME ModesAssumption == {CreateMayFail, MainSpurious, WorkerSpurious} \subseteq BOOLEAN

Workers == 0 .. ThreadCount - 1

VARIABLES
  \* ThreadContext, and avctx->thread_count
  thread_count, job_count, current_job, quit,
  \* per worker: where it is, its locals
  wpc, our_job, self_id,
  \* MAIN: where it is
  mpc,
  \* how often each job of the current call was performed
  runs

vars == <<thread_count, job_count, current_job, quit, wpc, our_job, self_id, mpc, runs>>

(* avcodec_thread_init up to the loop that creates the threads; the mutex  *)
(* is taken before the first one.  quit is the field "done".               *)
Init ==
  /\ thread_count = ThreadCount /\ job_count = 0 /\ current_job = 0 /\ quit = FALSE
  /\ wpc = [w \in Workers |-> "none"]
  /\ our_job = [w \in Workers |-> 0] /\ self_id = [w \in Workers |-> 0]
  /\ mpc = "creating"
  /\ runs = [j \in {} |-> 0]

Created == {w \in Workers : wpc[w] # "none"}
Held    == mpc = "creating"
-----------------------------------------------------------------------------
(* The workers.                                                            *)

(* The head of the loop, with the mutex: a worker with a job number that   *)
(* is too large reports when all are done, and sleeps.                     *)
AllDoneEarly(cur) == cur = thread_count + job_count - 1   \* mutant: one worker early
AllDone(cur) == cur = thread_count + job_count

Loop(w, job, cur) ==
  /\ our_job' = [our_job EXCEPT ![w] = job]
  /\ IF job < job_count
       THEN wpc' = [wpc EXCEPT ![w] = "running"] /\ UNCHANGED mpc
       ELSE /\ wpc' = [wpc EXCEPT ![w] = "parked"]
            /\ mpc' = IF AllDone(cur) /\ mpc = "waiting" THEN "signalled" ELSE mpc

(* A new thread reads job_count before it has the mutex. (The copy it makes *)
(* of thread_count differs from ours only when MAIN does not wait any more.)*)
Begin(w) ==
  /\ wpc[w] = "new"
  /\ our_job' = [our_job EXCEPT ![w] = job_count]
  /\ wpc' = [wpc EXCEPT ![w] = "begun"]
  /\ UNCHANGED <<thread_count, job_count, current_job, quit, self_id, mpc, runs>>

Enter(w) ==
  /\ wpc[w] = "begun" /\ ~Held
  /\ self_id' = [self_id EXCEPT ![w] = current_job]
  /\ current_job' = current_job + 1
  /\ Loop(w, our_job[w], current_job + 1)
  /\ UNCHANGED <<thread_count, job_count, quit, runs>>

(* pthread_cond_wait of a worker returns, which POSIX allows without a     *)
(* signal as well: the worker takes its first job, or ends.                *)
Woken(w) == wpc[w] = "woken" \/ (WorkerSpurious /\ wpc[w] = "parked")

WakeStale(w) ==                     \* mutant: our_job = self_id is missing
  /\ Woken(w) /\ ~Held
  /\ IF quit
       THEN /\ wpc' = [wpc EXCEPT ![w] = "gone"]
            /\ UNCHANGED <<our_job, mpc>>
       ELSE Loop(w, our_job[w], current_job)
  /\ UNCHANGED <<thread_count, job_count, current_job, quit, self_id, runs>>

Wake(w) ==
  /\ Woken(w) /\ ~Held
  /\ IF quit
       THEN /\ our_job' = [our_job EXCEPT ![w] = self_id[w]]
            /\ wpc' = [wpc EXCEPT ![w] = "gone"]
            /\ UNCHANGED mpc
       ELSE Loop(w, self_id[w], current_job)
  /\ UNCHANGED <<thread_count, job_count, current_job, quit, self_id, runs>>

(* The call of func or func2, outside the mutex.                           *)
Run(w) ==
  /\ wpc[w] = "running"
  /\ runs' = [runs EXCEPT ![our_job[w]] = @ + 1]
  /\ wpc' = [wpc EXCEPT ![w] = "ran"]
  /\ UNCHANGED <<thread_count, job_count, current_job, quit, our_job, self_id, mpc>>

NextJob(w) ==
  /\ wpc[w] = "ran" /\ ~Held
  /\ current_job' = current_job + 1
  /\ Loop(w, current_job, current_job + 1)
  /\ UNCHANGED <<thread_count, job_count, quit, self_id, runs>>

Worker(w) == Begin(w) \/ Enter(w) \/ Wake(w) \/ Run(w) \/ NextJob(w)
-----------------------------------------------------------------------------
(* MAIN.                                                                   *)

(* The next pthread_create                                                 *)
Create(w) ==
  /\ mpc = "creating" /\ wpc[w] = "none" /\ \A v \in 0 .. w - 1 : wpc[v] # "none"
  /\ wpc' = [wpc EXCEPT ![w] = "new"]
  /\ UNCHANGED <<thread_count, job_count, current_job, quit, our_job, self_id, mpc, runs>>

CreateFails(w) ==
  /\ CreateMayFail
  /\ mpc = "creating" /\ wpc[w] = "none" /\ \A v \in 0 .. w - 1 : wpc[v] # "none"
  /\ thread_count' = w
  /\ mpc' = "failed"
  /\ UNCHANGED <<job_count, current_job, quit, wpc, our_job, self_id, runs>>

(* avcodec_thread_park_workers: pthread_cond_wait gives up the mutex ...   *)
ParkWorkers ==
  /\ mpc = "creating" /\ Created = Workers
  /\ mpc' = "waiting"
  /\ UNCHANGED <<thread_count, job_count, current_job, quit, wpc, our_job, self_id, runs>>

(* ... and returns when last_job_cond was signalled, or earlier            *)
Return ==
  /\ mpc = "signalled" \/ (MainSpurious /\ mpc = "waiting")
  /\ mpc' = "idle"
  /\ UNCHANGED <<thread_count, job_count, current_job, quit, wpc, our_job, self_id, runs>>

(* pthread_cond_broadcast(&current_job_cond)                               *)
Broadcast == wpc' = [w \in Workers |-> IF wpc[w] = "parked" THEN "woken" ELSE wpc[w]]

(* pthread_cond_signal in its place                                        *)
SignalOne ==
  IF \E w \in Workers : wpc[w] = "parked"
    THEN \E w \in Workers : wpc[w] = "parked" /\ wpc' = [wpc EXCEPT ![w] = "woken"]
    ELSE UNCHANGED wpc

ExecuteSignals(k) ==                \* mutant: one worker is woken, not all
  /\ mpc = "idle"
  /\ current_job' = thread_count /\ job_count' = k
  /\ runs' = [j \in 0 .. k - 1 |-> 0]
  /\ SignalOne
  /\ mpc' = "waiting"
  /\ UNCHANGED <<thread_count, quit, our_job, self_id>>

ExecuteFromZero(k) ==               \* mutant: the counter starts at 0
  /\ mpc = "idle"
  /\ current_job' = 0 /\ job_count' = k
  /\ runs' = [j \in 0 .. k - 1 |-> 0]
  /\ Broadcast
  /\ mpc' = "waiting"
  /\ UNCHANGED <<thread_count, quit, our_job, self_id>>

(* avcodec_thread_execute of k > 0 jobs, up to the wait for the last one   *)
Execute(k) ==
  /\ mpc = "idle"
  /\ current_job' = thread_count /\ job_count' = k
  /\ runs' = [j \in 0 .. k - 1 |-> 0]
  /\ Broadcast
  /\ mpc' = "waiting"
  /\ UNCHANGED <<thread_count, quit, our_job, self_id>>

(* avcodec_thread_free, up to the first pthread_join                       *)
Free ==
  /\ mpc \in {"idle", "failed"}
  /\ quit' = TRUE /\ Broadcast
  /\ mpc' = "joining"
  /\ UNCHANGED <<thread_count, job_count, current_job, our_job, self_id, runs>>

(* pthread_join of each of the thread_count workers returned               *)
Join ==
  /\ mpc = "joining" /\ \A w \in 0 .. thread_count - 1 : wpc[w] = "gone"
  /\ mpc' = "freed"
  /\ UNCHANGED <<thread_count, job_count, current_job, quit, wpc, our_job, self_id, runs>>

(* What MAIN does by itself, and what the decoder asks for.                *)
Main ==
  \/ ParkWorkers \/ Return \/ Join
  \/ \E w \in Workers : Create(w) \/ CreateFails(w)
  \/ mpc = "failed" /\ Free

Calls ==
  \/ \E k \in 1 .. MaxJobs : Execute(k)
  \/ mpc = "idle" /\ Free

Ended == mpc = "freed" /\ UNCHANGED vars

Next == Main \/ Calls \/ Ended \/ \E w \in Workers : Worker(w)

(* Threads of a preemptive scheduler; the mutex is never held for ever.    *)
(* Nobody may count on a wake-up without a signal.                         *)
Spec ==
  /\ Init /\ [][Next]_vars
  /\ WF_vars(mpc # "waiting" /\ Main)
  /\ \A w \in Workers : WF_vars(wpc[w] # "parked" /\ Worker(w))
-----------------------------------------------------------------------------
(* Properties.                                                             *)

TypeOK ==
  /\ thread_count \in 0 .. ThreadCount
  /\ job_count \in 0 .. MaxJobs /\ current_job \in Nat /\ quit \in BOOLEAN
  /\ wpc \in [Workers -> {"none", "new", "begun", "parked", "woken", "running",
                          "ran", "gone"}]
  /\ our_job \in [Workers -> Nat] /\ self_id \in [Workers -> Nat]
  /\ mpc \in {"creating", "failed", "waiting", "signalled", "idle", "joining", "freed"}
  /\ runs \in [0 .. job_count - 1 -> Nat]

(* avcodec.h on execute and execute2: "It will return only after finishing *)
(* all tasks."  When MAIN goes on, every job was performed, once, and no   *)
(* worker still uses the arguments, which live on the stack of the caller. *)
ReturnsWhenDone ==
  mpc = "idle" =>
    /\ \A j \in 0 .. job_count - 1 : runs[j] = 1
    /\ \A w \in Workers : wpc[w] \notin {"running", "ran"}

(* Two workers never perform the same slice, at once or one after the      *)
(* other, whatever the interleaving of late and early workers of two calls *)
OneWorkerPerJob ==
  /\ \A w \in Workers : wpc[w] = "running" => runs[our_job[w]] = 0
  /\ \A v, w \in Workers :
       v # w /\ wpc[v] = "running" /\ wpc[w] = "running" => our_job[v] # our_job[w]

(* execute comes back to the decoder, and so does avcodec_thread_init.     *)
CallReturns == (mpc = "waiting") ~> (mpc \in {"idle", "joining", "freed"})

(* avcodec_thread_free comes back: also a worker that is late, and was     *)
(* woken for a call that is over, finds out that it must end.  After a     *)
(* pthread_create that failed it comes back if no worker is still on its   *)
(* way to its first wait; such a worker would sleep for ever.              *)
FreeReturns ==
  \/ mpc = "joining" /\ thread_count = ThreadCount
  \/ mpc = "failed" /\ \A w \in Workers : wpc[w] \notin {"new", "begun"}
  ~> mpc = "freed"

(* Every call comes back, those that open and close the pool among them.   *)
CallsComeBack ==
  /\ CallReturns
  /\ FreeReturns

(* The same as a job pool whose calls are served one after the other.      *)
Phase ==
  CASE mpc = "idle" -> "idle"
    [] mpc \in {"joining", "freed"} -> "closed"
    [] mpc \in {"waiting", "signalled"} /\ job_count > 0 -> "busy"
    [] OTHER -> "opening"

Undone == IF job_count = 0 THEN {} ELSE {j \in 0 .. job_count - 1 : runs[j] = 0}

Pool == INSTANCE JobPool WITH phase <- Phase, undone <- Undone

(* Through the counters and the two condition variables the decoder sees   *)
(* the pool of JobPool: nothing is lost, nothing done twice, all is served *)
ImplementsPool == Pool!Spec
=============================================================================
