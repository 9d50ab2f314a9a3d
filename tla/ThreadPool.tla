----------------------------- MODULE ThreadPool -----------------------------
(***************************************************************************)
(* src/src/thread_pool.c: the worker threads, the ring buffer of client    *)
(* jobs and the two condition variables that couple them to the threads    *)
(* that submit.                                                            *)
(*                                                                         *)
(* Everything thread_pool_worker, thread_pool_submit and                   *)
(* thread_pool_shutdown do between taking the mutex and releasing it (or   *)
(* going to sleep on a condition variable, which releases it) is one       *)
(* action.  A thread that wants the mutex is "contending"; a thread asleep *)
(* on a condition variable is woken by a signal, by a broadcast or         *)
(* spuriously, and then contends for the mutex and tests its condition     *)
(* again.                                                                  *)
(***************************************************************************)
EXTENDS Naturals, Sequences, FiniteSets

CONSTANTS WorkerCount,        \* worker_count
          QueueCapacity,      \* queue_capacity
          Submitters,         \* threads that call thread_pool_submit
          Clients,            \* open socket handles a client_job_t can carry
          NoJob,              \* SOCKET_HANDLE_INVALID
          ConcurrentShutdown  \* may thread_pool_shutdown race thread_pool_submit?

(* thread_pool_create returns NULL for a count or a capacity below one. *)
ASSUME PoolAssumption ==
    /\ WorkerCount \in Nat \ {0}
    /\ QueueCapacity \in Nat \ {0}
    /\ IsFiniteSet(Submitters)
    /\ NoJob \notin Clients
    /\ ConcurrentShutdown \in BOOLEAN

Workers == 1 .. WorkerCount
Slots == 0 .. QueueCapacity - 1

VARIABLES
    jobs,             \* pool->jobs, the ring buffer
    queue_size,       \* pool->queue_size
    queue_head,       \* pool->queue_head
    queue_tail,       \* pool->queue_tail
    shutting_down,    \* pool->shutting_down
    threads_started,  \* pool->threads_started
    threads_joined,   \* how far thread_pool_destroy's join loop has come
    lifecycle,        \* where the pool's owner is: create, use, destroy
    worker_state,     \* where each worker thread is
    worker_job,       \* the job each worker is handling
    submit_state,     \* where each submitting thread is
    submit_job        \* the job each of them is submitting

ring == <<jobs, queue_size, queue_head, queue_tail>>
owner == <<threads_started, threads_joined, lifecycle>>
workers == <<worker_state, worker_job>>
submitters == <<submit_state, submit_job>>
vars == <<ring, owner, shutting_down, workers, submitters>>

WorkerStates == {"unborn", "contending", "asleep", "handling", "exited"}
SubmitStates == {"out", "contending", "asleep"}

(* The handles that some thread or the queue still holds open. *)
OpenHandles == {jobs[i] : i \in Slots}
               \cup {worker_job[w] : w \in Workers}
               \cup {submit_job[s] : s \in Submitters}

SleepingWorkers == {w \in Workers : worker_state[w] = "asleep"}
SleepingSubmitters == {s \in Submitters : submit_state[s] = "asleep"}

-----------------------------------------------------------------------------
(* The ring buffer.  A definition under "Mutant" is never part of Spec: it *)
(* is the next definition with a plausible slip in it, and a property is   *)
(* shown to notice the slip (see README.md).                               *)

(* Mutant: the index is not wrapped. *)
NextSlotUnwrapped(i) == i + 1

NextSlot(i) == (i + 1) % QueueCapacity

(* Mutant: the slot keeps a copy of the job that was taken. *)
ResetSlotForgotten(i) == jobs

(* client_job_reset(&pool->jobs[i]) *)
ResetSlot(i) == [jobs EXCEPT ![i] = NoJob]

(* Mutant: the job lands at the head of the queue. *)
StoreJobAtHead(c) == [jobs EXCEPT ![queue_head] = c]

(* pool->jobs[pool->queue_tail] = *job *)
StoreJob(c) == [jobs EXCEPT ![queue_tail] = c]

(* Mutant: off by one, one job too many fits. *)
QueueFullLate == queue_size > QueueCapacity

QueueFull == queue_size = QueueCapacity

-----------------------------------------------------------------------------
(* The condition variables. *)

(* Mutant: signal only when the queue was empty, as if one awake worker    *)
(* were enough.                                                            *)
SignalNotEmptyOnFirst ==
    IF SleepingWorkers = {} \/ queue_size > 0
    THEN UNCHANGED worker_state
    ELSE \E w \in SleepingWorkers :
            worker_state' = [worker_state EXCEPT ![w] = "contending"]

(* Mutant: no signal at all. *)
SignalNotEmptyMissing == UNCHANGED worker_state

(* pthread_cond_signal(&pool->queue_not_empty): wakes one sleeper, if any. *)
SignalNotEmpty ==
    IF SleepingWorkers = {}
    THEN UNCHANGED worker_state
    ELSE \E w \in SleepingWorkers :
            worker_state' = [worker_state EXCEPT ![w] = "contending"]

(* Mutant: no signal at all. *)
SignalNotFullMissing == UNCHANGED submit_state

(* pthread_cond_signal(&pool->queue_not_full) *)
SignalNotFull ==
    IF SleepingSubmitters = {}
    THEN UNCHANGED submit_state
    ELSE \E s \in SleepingSubmitters :
            submit_state' = [submit_state EXCEPT ![s] = "contending"]

(* Mutant: signals where the code broadcasts. *)
RaiseShutdownBySignal ==
    /\ shutting_down' = TRUE
    /\ SignalNotEmpty
    /\ SignalNotFull

(* thread_pool_shutdown: the flag, and a broadcast on both conditions. *)
RaiseShutdown ==
    /\ shutting_down' = TRUE
    /\ worker_state' = [w \in Workers |-> IF worker_state[w] = "asleep"
                                          THEN "contending"
                                          ELSE worker_state[w]]
    /\ submit_state' = [s \in Submitters |-> IF submit_state[s] = "asleep"
                                             THEN "contending"
                                             ELSE submit_state[s]]

(* A wait may return without a signal; the while loops allow for it. *)
SpuriousWakeup ==
    \/ \E w \in SleepingWorkers :
          /\ worker_state' = [worker_state EXCEPT ![w] = "contending"]
          /\ UNCHANGED <<ring, owner, shutting_down, worker_job, submitters>>
    \/ \E s \in SleepingSubmitters :
          /\ submit_state' = [submit_state EXCEPT ![s] = "contending"]
          /\ UNCHANGED <<ring, owner, shutting_down, workers, submit_job>>

-----------------------------------------------------------------------------
(* thread_pool_worker *)

(* Nothing to do and no shutdown: wait on queue_not_empty. *)
WorkerWait(w) ==
    /\ worker_state[w] = "contending"
    /\ queue_size = 0 /\ ~shutting_down
    /\ worker_state' = [worker_state EXCEPT ![w] = "asleep"]
    /\ UNCHANGED <<ring, owner, shutting_down, worker_job, submitters>>

(* Mutant: leaves on a shutdown without looking at the queue. *)
WorkerExitEarly(w) ==
    /\ worker_state[w] = "contending"
    /\ shutting_down
    /\ worker_state' = [worker_state EXCEPT ![w] = "exited"]
    /\ UNCHANGED <<ring, owner, shutting_down, worker_job, submitters>>

(* Nothing to do and a shutdown: leave the loop. *)
WorkerExit(w) ==
    /\ worker_state[w] = "contending"
    /\ queue_size = 0 /\ shutting_down
    /\ worker_state' = [worker_state EXCEPT ![w] = "exited"]
    /\ UNCHANGED <<ring, owner, shutting_down, worker_job, submitters>>

(* Take the job at the head, reset its slot, signal queue_not_full. *)
WorkerTake(w) ==
    /\ worker_state[w] = "contending"
    /\ queue_size # 0
    /\ worker_job' = [worker_job EXCEPT ![w] = jobs[queue_head]]
    /\ jobs' = ResetSlot(queue_head)
    /\ queue_head' = NextSlot(queue_head)
    /\ queue_size' = queue_size - 1
    /\ worker_state' = [worker_state EXCEPT ![w] = "handling"]
    /\ SignalNotFull
    /\ UNCHANGED <<queue_tail, owner, shutting_down, submit_job>>

(* pool->job_handler returns, having closed the client's socket, and the   *)
(* loop starts over with an empty job.                                     *)
HandlerReturn(w) ==
    /\ worker_state[w] = "handling"
    /\ worker_state' = [worker_state EXCEPT ![w] = "contending"]
    /\ worker_job' = [worker_job EXCEPT ![w] = NoJob]
    /\ UNCHANGED <<ring, owner, shutting_down, submitters>>

-----------------------------------------------------------------------------
(* thread_pool_submit *)

(* A thread calls it with a socket nobody else holds. *)
SubmitCall(s, c) ==
    /\ lifecycle = "running"
    /\ submit_state[s] = "out"
    /\ c \notin OpenHandles
    /\ submit_state' = [submit_state EXCEPT ![s] = "contending"]
    /\ submit_job' = [submit_job EXCEPT ![s] = c]
    /\ UNCHANGED <<ring, owner, shutting_down, workers>>

(* The queue is full: wait on queue_not_full. *)
SubmitWait(s) ==
    /\ submit_state[s] = "contending"
    /\ QueueFull /\ ~shutting_down
    /\ submit_state' = [submit_state EXCEPT ![s] = "asleep"]
    /\ UNCHANGED <<ring, owner, shutting_down, workers, submit_job>>

(* A shutdown: return -1, and the caller closes the socket. *)
SubmitReject(s) ==
    /\ submit_state[s] = "contending"
    /\ shutting_down
    /\ submit_state' = [submit_state EXCEPT ![s] = "out"]
    /\ submit_job' = [submit_job EXCEPT ![s] = NoJob]
    /\ UNCHANGED <<ring, owner, shutting_down, workers>>

(* Store the job at the tail, signal queue_not_empty, return 0. *)
SubmitEnqueue(s) ==
    /\ submit_state[s] = "contending"
    /\ ~QueueFull /\ ~shutting_down
    /\ jobs' = StoreJob(submit_job[s])
    /\ queue_tail' = NextSlot(queue_tail)
    /\ queue_size' = queue_size + 1
    /\ submit_state' = [submit_state EXCEPT ![s] = "out"]
    /\ submit_job' = [submit_job EXCEPT ![s] = NoJob]
    /\ SignalNotEmpty
    /\ UNCHANGED <<queue_head, owner, shutting_down, worker_job>>

-----------------------------------------------------------------------------
(* thread_pool_create, thread_pool_shutdown and thread_pool_destroy *)

(* One turn of the creation loop: the new thread runs at once, beside the  *)
(* loop; after the last one the pool is returned to the caller.            *)
CreateThread ==
    /\ lifecycle = "creating"
    /\ threads_started' = threads_started + 1
    /\ worker_state' = [worker_state EXCEPT ![threads_started + 1] = "contending"]
    /\ lifecycle' = IF threads_started' = WorkerCount THEN "running" ELSE "creating"
    /\ UNCHANGED <<ring, threads_joined, shutting_down, worker_job, submitters>>

(* The operating system refuses a thread: create destroys what it built.   *)
CreateThreadFails ==
    /\ lifecycle = "creating"
    /\ lifecycle' = "joining"
    /\ RaiseShutdown
    /\ UNCHANGED <<ring, threads_started, threads_joined, worker_job, submit_job>>

(* thread_pool_shutdown on its own, from a thread other than the           *)
(* submitters.  The proxy never does this: see ConcurrentShutdown.         *)
Shutdown ==
    /\ ConcurrentShutdown
    /\ lifecycle = "running"
    /\ ~shutting_down
    /\ RaiseShutdown
    /\ UNCHANGED <<ring, owner, worker_job, submit_job>>

(* thread_pool_destroy starts.  Its caller must be the last user of the    *)
(* pool; in the proxy it is the only thread that submits.                  *)
Destroy ==
    /\ lifecycle = "running"
    /\ \A s \in Submitters : submit_state[s] = "out"
    /\ lifecycle' = "joining"
    /\ RaiseShutdown
    /\ UNCHANGED <<ring, threads_started, threads_joined, worker_job, submit_job>>

(* pthread_join(pool->threads[index]) returns. *)
JoinThread ==
    /\ lifecycle = "joining"
    /\ threads_joined < threads_started
    /\ worker_state[threads_joined + 1] = "exited"
    /\ threads_joined' = threads_joined + 1
    /\ UNCHANGED <<ring, threads_started, lifecycle, shutting_down, workers, submitters>>

(* All threads joined: close the sockets still in the queue, free the pool.*)
FreePool ==
    /\ lifecycle = "joining"
    /\ threads_joined = threads_started
    /\ lifecycle' = "freed"
    /\ jobs' = [i \in Slots |-> NoJob]
    /\ UNCHANGED <<queue_size, queue_head, queue_tail, threads_started,
                   threads_joined, shutting_down, workers, submitters>>

(* The program has nothing more to do with the pool. *)
Finished == lifecycle = "freed" /\ UNCHANGED vars

-----------------------------------------------------------------------------
Init ==
    /\ jobs = [i \in Slots |-> NoJob]
    /\ queue_size = 0
    /\ queue_head = 0
    /\ queue_tail = 0
    /\ shutting_down = FALSE
    /\ threads_started = 0
    /\ threads_joined = 0
    /\ lifecycle = "creating"
    /\ worker_state = [w \in Workers |-> "unborn"]
    /\ worker_job = [w \in Workers |-> NoJob]
    /\ submit_state = [s \in Submitters |-> "out"]
    /\ submit_job = [s \in Submitters |-> NoJob]

WorkerStep(w) == WorkerWait(w) \/ WorkerExit(w) \/ WorkerTake(w)
SubmitStep(s) == SubmitWait(s) \/ SubmitReject(s) \/ SubmitEnqueue(s)
CreateStep == CreateThread \/ CreateThreadFails
DestroyStep == JoinThread \/ FreePool

Next ==
    \/ \E w \in Workers : WorkerStep(w) \/ HandlerReturn(w)
    \/ \E s \in Submitters : SubmitStep(s) \/ (\E c \in Clients : SubmitCall(s, c))
    \/ SpuriousWakeup
    \/ CreateStep
    \/ Shutdown
    \/ Destroy
    \/ DestroyStep
    \/ Finished

(* Every thread that wants the mutex gets it, every handler returns, and   *)
(* create and destroy run on.  Nobody has to submit or to destroy, and no  *)
(* wakeup happens by itself.                                               *)
Fairness ==
    /\ \A w \in Workers : WF_vars(WorkerStep(w)) /\ WF_vars(HandlerReturn(w))
    /\ \A s \in Submitters : WF_vars(SubmitStep(s))
    /\ WF_vars(CreateStep)
    /\ WF_vars(DestroyStep)

Spec == Init /\ [][Next]_vars /\ Fairness

-----------------------------------------------------------------------------
(* Properties *)

(* Every variable keeps its type.  The indices stay inside the ring buffer *)
(* that thread_pool_create allocated, and a thread holds a job exactly     *)
(* while it handles or submits one.                                        *)
TypeOK ==
    /\ jobs \in [Slots -> Clients \cup {NoJob}]
    /\ queue_size \in 0 .. QueueCapacity
    /\ queue_head \in Slots
    /\ queue_tail \in Slots
    /\ shutting_down \in BOOLEAN
    /\ threads_started \in 0 .. WorkerCount
    /\ threads_joined \in 0 .. threads_started
    /\ lifecycle \in {"creating", "running", "joining", "freed"}
    /\ worker_state \in [Workers -> WorkerStates]
    /\ worker_job \in [Workers -> Clients \cup {NoJob}]
    /\ submit_state \in [Submitters -> SubmitStates]
    /\ submit_job \in [Submitters -> Clients \cup {NoJob}]
    /\ \A w \in Workers : worker_job[w] # NoJob <=> worker_state[w] = "handling"
    /\ \A s \in Submitters : submit_job[s] # NoJob <=> submit_state[s] # "out"

(* Head, tail and size agree: the jobs lie in the queue_size slots from    *)
(* queue_head on, every other slot is empty, and the next submit stores    *)
(* into the slot right behind them.  A submit therefore never overwrites a *)
(* waiting job and a worker never takes an empty slot.                     *)
RingConsistent ==
    /\ queue_tail = (queue_head + queue_size) % QueueCapacity
    /\ \A k \in 0 .. QueueCapacity - 1 :
          jobs[(queue_head + k) % QueueCapacity] # NoJob <=> k < queue_size

(* No socket is in two hands: a handle is in at most one slot of the ring, *)
(* or with one worker, or with one submitter.  A job that two workers      *)
(* handled would have its socket read and closed twice.                    *)
OneHolder ==
    /\ \A i, j \in Slots : jobs[i] = jobs[j] /\ jobs[i] # NoJob => i = j
    /\ \A v, w \in Workers : worker_job[v] = worker_job[w] /\ worker_job[v] # NoJob => v = w
    /\ \A s, t \in Submitters : submit_job[s] = submit_job[t] /\ submit_job[s] # NoJob => s = t
    /\ \A i \in Slots, w \in Workers : jobs[i] = worker_job[w] => jobs[i] = NoJob
    /\ \A i \in Slots, s \in Submitters : jobs[i] = submit_job[s] => jobs[i] = NoJob
    /\ \A w \in Workers, s \in Submitters : worker_job[w] = submit_job[s] => worker_job[w] = NoJob

ContendingWorkers == {w \in Workers : worker_state[w] = "contending"}
ContendingSubmitters == {s \in Submitters : submit_state[s] = "contending"}

(* No wakeup is lost on queue_not_empty: while some worker sleeps, at      *)
(* least as many workers are awake and on their way to the queue as there  *)
(* are jobs in it, although each submit signals only one.                  *)
NoLostWorkerWakeup ==
    SleepingWorkers # {} => queue_size <= Cardinality(ContendingWorkers)

(* No wakeup is lost on queue_not_full: while some submitter sleeps, at    *)
(* least as many are awake as there are free slots.                        *)
NoLostSubmitterWakeup ==
    SleepingSubmitters # {} =>
        QueueCapacity - queue_size <= Cardinality(ContendingSubmitters)

(* Once thread_pool_shutdown has raised the flag nobody sleeps, then or    *)
(* ever after: a thread that tested its condition before the flag went up  *)
(* is woken by the broadcast, and one that tests it later does not wait.   *)
ShutdownReachesAll ==
    shutting_down => SleepingWorkers = {} /\ SleepingSubmitters = {}

(* thread_pool_destroy drains before it frees: when the pool is freed no   *)
(* job was left in the queue (the sockets in it would be closed without an *)
(* answer), every thread that was started has left thread_pool_worker, and *)
(* nobody is inside thread_pool_submit.                                    *)
DrainedBeforeFreed ==
    lifecycle = "freed" =>
        /\ queue_size = 0
        /\ \A w \in Workers : worker_state[w] \in {"unborn", "exited"}
        /\ \A s \in Submitters : submit_state[s] = "out"

(* The queue as its users see it: the jobs from head to tail. *)
Waiting == [i \in 1 .. queue_size |-> jobs[(queue_head + (i - 1)) % QueueCapacity]]

JQ == INSTANCE JobQueue WITH
          Workers <- Workers, Capacity <- QueueCapacity,
          queue <- Waiting, serving <- worker_job, open <- ~shutting_down

(* The ring buffer, the signals and the shutdown together implement the    *)
(* FIFO of JobQueue, its liveness included: jobs start in the order they   *)
(* were submitted, each once, none after the shutdown enters, all that     *)
(* entered are taken.                                                      *)
ImplementsJobQueue == JQ!Spec

(* A job that thread_pool_submit has stored is eventually handled, also    *)
(* when a shutdown comes in between.                                       *)
EveryJobHandled ==
    \A c \in Clients :
        (\E i \in Slots : jobs[i] = c) ~> (\E w \in Workers : worker_job[w] = c)
=============================================================================
