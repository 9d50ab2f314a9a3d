-------------------------- MODULE ThreadPoolProofs --------------------------
(***************************************************************************)
(* Proofs about ThreadPool, for every number of workers, every capacity    *)
(* and every set of submitters and handles.                                *)
(***************************************************************************)
EXTENDS ThreadPool, TLAPS, FiniteSetTheorems

-----------------------------------------------------------------------------
(* Arithmetic of the ring, so that no later step has to reason about %.    *)

(* Wrap(x) is what the code's % does to an index that is less than two     *)
(* buffer lengths.                                                         *)
Wrap(x) == IF x < QueueCapacity THEN x ELSE x - QueueCapacity

(* How far slot i lies behind the head. *)
Offset(i) == IF queue_head <= i THEN i - queue_head
                                ELSE i + QueueCapacity - queue_head

(* A sum of two numbers that are not beyond the ring wraps at most once. *)
LEMMA WrapIsMod ==
  ASSUME NEW x \in Nat, x < 2 * QueueCapacity
  PROVE  /\ x % QueueCapacity = Wrap(x)
         /\ Wrap(x) \in Slots
<1>1. QueueCapacity \in Nat /\ QueueCapacity > 0
  BY PoolAssumption
<1>2. CASE x < QueueCapacity
  BY <1>1, <1>2 DEF Wrap, Slots
<1>3. CASE x >= QueueCapacity
  BY <1>1, <1>3 DEF Wrap, Slots
<1> QED
  BY <1>1, <1>2, <1>3

(* RingConsistent, slot by slot. *)
RingBySlot ==
    /\ queue_tail = Wrap(queue_head + queue_size)
    /\ \A i \in Slots : jobs[i] # NoJob <=> Offset(i) < queue_size

(* RingConsistent without the modulus. *)
LEMMA RingForms ==
  ASSUME TypeOK
  PROVE  RingConsistent <=> RingBySlot
<1>1. QueueCapacity \in Nat /\ QueueCapacity > 0
  BY PoolAssumption
<1>2. queue_head \in Nat /\ queue_head < QueueCapacity /\ queue_size \in 0 .. QueueCapacity
  BY <1>1 DEF TypeOK, Slots
<1>3. (queue_head + queue_size) % QueueCapacity = Wrap(queue_head + queue_size)
  BY <1>1, <1>2, WrapIsMod
<1>4. \A k \in 0 .. QueueCapacity - 1 :
        /\ (queue_head + k) % QueueCapacity = Wrap(queue_head + k)
        /\ Wrap(queue_head + k) \in Slots
        /\ Offset(Wrap(queue_head + k)) = k
  <2> TAKE k \in 0 .. QueueCapacity - 1
  <2>1. queue_head + k \in Nat /\ queue_head + k < 2 * QueueCapacity
    BY <1>1, <1>2
  <2> QED
    BY <1>1, <1>2, <2>1, WrapIsMod DEF Wrap, Offset
<1>5. \A i \in Slots : /\ Offset(i) \in 0 .. QueueCapacity - 1
                       /\ Wrap(queue_head + Offset(i)) = i
  BY <1>1, <1>2 DEF Wrap, Offset, Slots
<1>6. (\A k \in 0 .. QueueCapacity - 1 :
          jobs[(queue_head + k) % QueueCapacity] # NoJob <=> k < queue_size)
      <=> (\A i \in Slots : jobs[i] # NoJob <=> Offset(i) < queue_size)
  <2>1. ASSUME \A k \in 0 .. QueueCapacity - 1 :
                  jobs[(queue_head + k) % QueueCapacity] # NoJob <=> k < queue_size,
               NEW i \in Slots
        PROVE  jobs[i] # NoJob <=> Offset(i) < queue_size
    BY <2>1, <1>4, <1>5
  <2>2. ASSUME \A i \in Slots : jobs[i] # NoJob <=> Offset(i) < queue_size,
               NEW k \in 0 .. QueueCapacity - 1
        PROVE  jobs[(queue_head + k) % QueueCapacity] # NoJob <=> k < queue_size
    BY <2>2, <1>4
  <2> QED
    BY <2>1, <2>2
<1> QED
  BY <1>3, <1>6 DEF RingConsistent, RingBySlot

-----------------------------------------------------------------------------
(* The inductive invariant. *)

(* What the owner's progress says about the threads.  A thread is unborn   *)
(* until the creation loop reaches it, and only threads that left their    *)
(* loop are joined; a worker leaves only a queue that is empty for good;   *)
(* nobody submits to a pool that is not handed out yet or being destroyed. *)
LifecycleInv ==
    /\ lifecycle = "creating" => threads_started < WorkerCount /\ ~shutting_down
    /\ lifecycle = "running" => threads_started = WorkerCount
    /\ lifecycle \in {"joining", "freed"} => shutting_down
    /\ lifecycle # "running" => \A s \in Submitters : submit_state[s] = "out"
    /\ lifecycle = "freed" => threads_joined = threads_started
    /\ \A w \in Workers : worker_state[w] = "unborn" <=> threads_started < w
    /\ \A w \in Workers : w <= threads_joined => worker_state[w] = "exited"
    /\ \A w \in Workers : worker_state[w] = "exited" => shutting_down /\ queue_size = 0
    /\ threads_started < WorkerCount => queue_size = 0

QueueInv == TypeOK /\ RingBySlot /\ OneHolder

(* The empty ring is consistent. *)
LEMMA QueueInvInit == Init => QueueInv
<1> SUFFICES ASSUME Init PROVE QueueInv
  OBVIOUS
<1>1. QueueCapacity \in Nat /\ QueueCapacity > 0 /\ WorkerCount \in Nat /\ NoJob \notin Clients
  BY PoolAssumption
<1>2. TypeOK
  <2>1. /\ jobs \in [Slots -> Clients \cup {NoJob}]
        /\ worker_job \in [Workers -> Clients \cup {NoJob}]
        /\ submit_job \in [Submitters -> Clients \cup {NoJob}]
        /\ worker_state \in [Workers -> WorkerStates]
        /\ submit_state \in [Submitters -> SubmitStates]
    BY DEF Init, WorkerStates, SubmitStates
  <2>2. /\ queue_size \in 0 .. QueueCapacity
        /\ queue_head \in Slots
        /\ queue_tail \in Slots
        /\ threads_started \in 0 .. WorkerCount
        /\ threads_joined \in 0 .. threads_started
    BY <1>1 DEF Init, Slots
  <2>3. /\ shutting_down \in BOOLEAN
        /\ lifecycle \in {"creating", "running", "joining", "freed"}
        /\ \A w \in Workers : worker_job[w] # NoJob <=> worker_state[w] = "handling"
        /\ \A s \in Submitters : submit_job[s] # NoJob <=> submit_state[s] # "out"
    BY DEF Init
  <2> QED
    BY <2>1, <2>2, <2>3 DEF TypeOK
<1>3. RingBySlot
  BY <1>1 DEF Init, RingBySlot, Wrap, Offset, Slots
<1>4. OneHolder
  BY DEF Init, OneHolder
<1> QED
  BY <1>2, <1>3, <1>4 DEF QueueInv

(* The actions that leave the ring and everybody's job alone can only      *)
(* disturb the types.                                                      *)
LEMMA QueueInvQuiet ==
  ASSUME QueueInv, UNCHANGED <<ring, worker_job, submit_job>>, TypeOK'
  PROVE  QueueInv'
<1>1. RingBySlot'
  BY DEF QueueInv, RingBySlot, Wrap, Offset, ring
<1>2. OneHolder'
  BY DEF QueueInv, OneHolder, ring
<1> QED
  BY <1>1, <1>2 DEF QueueInv

(* Taking the job at the head keeps the ring consistent, and moves the job *)
(* from its slot to the worker.                                            *)
LEMMA QueueInvTake ==
  ASSUME QueueInv, NEW w \in Workers, WorkerTake(w)
  PROVE  QueueInv'
<1>1. QueueCapacity \in Nat /\ QueueCapacity > 0 /\ WorkerCount \in Nat /\ NoJob \notin Clients
  BY PoolAssumption
<1>2. /\ TypeOK /\ RingBySlot /\ OneHolder
  BY DEF QueueInv
<1>3. /\ queue_head \in Slots /\ queue_size \in 1 .. QueueCapacity
      /\ queue_head \in Nat /\ queue_head < QueueCapacity
  BY <1>1, <1>2 DEF TypeOK, WorkerTake, Slots
<1>4. queue_head' = Wrap(queue_head + 1) /\ queue_head' \in Slots
  BY <1>1, <1>3, WrapIsMod DEF WorkerTake, NextSlot
<1>5. jobs[queue_head] \in Clients /\ jobs[queue_head] # NoJob
  BY <1>1, <1>2, <1>3 DEF RingBySlot, Offset, TypeOK
<1>6. /\ jobs' = [jobs EXCEPT ![queue_head] = NoJob]
      /\ worker_job' = [worker_job EXCEPT ![w] = jobs[queue_head]]
      /\ worker_state' = [worker_state EXCEPT ![w] = "handling"]
      /\ queue_size' = queue_size - 1
      /\ queue_tail' = queue_tail /\ submit_job' = submit_job
  BY DEF WorkerTake, ResetSlot
<1>7. /\ submit_state' \in [Submitters -> SubmitStates]
      /\ \A s \in Submitters : submit_state'[s] = "out" <=> submit_state[s] = "out"
  BY <1>2 DEF WorkerTake, SignalNotFull, SleepingSubmitters, TypeOK, SubmitStates
<1>8. TypeOK'
  BY <1>1, <1>2, <1>3, <1>4, <1>5, <1>6, <1>7
  DEF TypeOK, WorkerTake, WorkerStates, owner
<1>9. RingBySlot'
  <2>1. queue_tail' = Wrap(queue_head + queue_size)'
    BY <1>1, <1>2, <1>3, <1>4, <1>6 DEF RingBySlot, Wrap
  <2>2. ASSUME NEW i \in Slots
        PROVE  (jobs[i] # NoJob <=> Offset(i) < queue_size)'
    BY <1>1, <1>2, <1>3, <1>4, <1>6 DEF RingBySlot, Wrap, Offset, Slots, TypeOK
  <2> QED
    BY <2>1, <2>2 DEF RingBySlot
<1>10. OneHolder'
  <2>1. \A i \in Slots : jobs'[i] = IF i = queue_head THEN NoJob ELSE jobs[i]
    BY <1>2, <1>6 DEF TypeOK
  <2>2. \A v \in Workers : worker_job'[v] = IF v = w THEN jobs[queue_head] ELSE worker_job[v]
    BY <1>2, <1>6 DEF TypeOK
  <2> QED
    BY <1>2, <1>3, <1>5, <1>6, <2>1, <2>2 DEF OneHolder
<1> QED
  BY <1>8, <1>9, <1>10 DEF QueueInv

(* Storing a job at the tail keeps the ring consistent, and moves the job  *)
(* from the submitter to its slot.                                         *)
LEMMA QueueInvEnqueue ==
  ASSUME QueueInv, NEW s \in Submitters, SubmitEnqueue(s)
  PROVE  QueueInv'
<1>1. QueueCapacity \in Nat /\ QueueCapacity > 0 /\ WorkerCount \in Nat /\ NoJob \notin Clients
  BY PoolAssumption
<1>2. /\ TypeOK /\ RingBySlot /\ OneHolder
  BY DEF QueueInv
<1>3. /\ queue_tail \in Slots /\ queue_size \in 0 .. QueueCapacity - 1
      /\ queue_tail \in Nat /\ queue_tail < QueueCapacity
      /\ queue_head \in Nat /\ queue_head < QueueCapacity
  BY <1>1, <1>2 DEF TypeOK, SubmitEnqueue, Slots, QueueFull
<1>4. queue_tail' = Wrap(queue_tail + 1) /\ queue_tail' \in Slots
  BY <1>1, <1>3, WrapIsMod DEF SubmitEnqueue, NextSlot
<1>5. submit_job[s] \in Clients /\ submit_job[s] # NoJob
  BY <1>2 DEF TypeOK, SubmitEnqueue
<1>6. /\ jobs' = [jobs EXCEPT ![queue_tail] = submit_job[s]]
      /\ submit_job' = [submit_job EXCEPT ![s] = NoJob]
      /\ submit_state' = [submit_state EXCEPT ![s] = "out"]
      /\ queue_size' = queue_size + 1
      /\ queue_head' = queue_head /\ worker_job' = worker_job
  BY DEF SubmitEnqueue, StoreJob
<1>7. /\ worker_state' \in [Workers -> WorkerStates]
      /\ \A w \in Workers : worker_state'[w] = "handling" <=> worker_state[w] = "handling"
  BY <1>2 DEF SubmitEnqueue, SignalNotEmpty, SleepingWorkers, TypeOK, WorkerStates
<1>8. TypeOK'
  BY <1>1, <1>2, <1>3, <1>4, <1>5, <1>6, <1>7
  DEF TypeOK, SubmitEnqueue, SubmitStates, owner
<1>9. RingBySlot'
  <2>1. queue_tail' = Wrap(queue_head + queue_size)'
    BY <1>1, <1>2, <1>3, <1>4, <1>6 DEF RingBySlot, Wrap
  <2>2. ASSUME NEW i \in Slots
        PROVE  (jobs[i] # NoJob <=> Offset(i) < queue_size)'
    BY <1>1, <1>2, <1>3, <1>5, <1>6 DEF RingBySlot, Wrap, Offset, Slots, TypeOK
  <2> QED
    BY <2>1, <2>2 DEF RingBySlot
<1>10. OneHolder'
  <2>1. \A i \in Slots : jobs'[i] = IF i = queue_tail THEN submit_job[s] ELSE jobs[i]
    BY <1>2, <1>6 DEF TypeOK
  <2>2. \A t \in Submitters : submit_job'[t] = IF t = s THEN NoJob ELSE submit_job[t]
    BY <1>2, <1>6 DEF TypeOK
  <2> QED
    BY <1>2, <1>3, <1>5, <1>6, <2>1, <2>2 DEF OneHolder
<1> QED
  BY <1>8, <1>9, <1>10 DEF QueueInv

(* Everything else thread_pool_worker and thread_pool_submit do. *)
LEMMA QueueInvHandlerReturn ==
  ASSUME QueueInv, NEW w \in Workers, HandlerReturn(w)
  PROVE  QueueInv'
<1>1. TypeOK /\ RingBySlot /\ OneHolder /\ NoJob \notin Clients
  BY PoolAssumption DEF QueueInv
<1>2. \A v \in Workers : worker_job'[v] = IF v = w THEN NoJob ELSE worker_job[v]
  BY <1>1 DEF HandlerReturn, TypeOK
<1>3. TypeOK'
  BY <1>1, <1>2 DEF HandlerReturn, TypeOK, WorkerStates, ring, owner, submitters
<1>4. RingBySlot'
  BY <1>1 DEF HandlerReturn, RingBySlot, Wrap, Offset, ring
<1>5. OneHolder'
  BY <1>1, <1>2 DEF HandlerReturn, OneHolder, ring, submitters
<1> QED
  BY <1>3, <1>4, <1>5 DEF QueueInv

(* A submit starts with a socket nobody holds. *)
LEMMA QueueInvSubmitCall ==
  ASSUME QueueInv, NEW s \in Submitters, NEW c \in Clients, SubmitCall(s, c)
  PROVE  QueueInv'
<1>1. TypeOK /\ RingBySlot /\ OneHolder /\ NoJob \notin Clients
  BY PoolAssumption DEF QueueInv
<1>2. \A t \in Submitters : submit_job'[t] = IF t = s THEN c ELSE submit_job[t]
  BY <1>1 DEF SubmitCall, TypeOK
<1>3. TypeOK'
  BY <1>1, <1>2 DEF SubmitCall, TypeOK, SubmitStates, ring, owner, workers
<1>4. RingBySlot'
  BY <1>1 DEF SubmitCall, RingBySlot, Wrap, Offset, ring
<1>5. OneHolder'
  BY <1>1, <1>2 DEF SubmitCall, OneHolder, OpenHandles, ring, workers
<1> QED
  BY <1>3, <1>4, <1>5 DEF QueueInv

(* A submit that is rejected gives its socket back. *)
LEMMA QueueInvSubmitReject ==
  ASSUME QueueInv, NEW s \in Submitters, SubmitReject(s)
  PROVE  QueueInv'
<1>1. TypeOK /\ RingBySlot /\ OneHolder /\ NoJob \notin Clients
  BY PoolAssumption DEF QueueInv
<1>2. \A t \in Submitters : submit_job'[t] = IF t = s THEN NoJob ELSE submit_job[t]
  BY <1>1 DEF SubmitReject, TypeOK
<1>3. TypeOK'
  BY <1>1, <1>2 DEF SubmitReject, TypeOK, SubmitStates, ring, owner, workers
<1>4. RingBySlot'
  BY <1>1 DEF SubmitReject, RingBySlot, Wrap, Offset, ring
<1>5. OneHolder'
  BY <1>1, <1>2 DEF SubmitReject, OneHolder, ring, workers
<1> QED
  BY <1>3, <1>4, <1>5 DEF QueueInv

(* Going to sleep, waking up and leaving do not touch the ring. *)
LEMMA QueueInvWaitOrExit ==
  ASSUME QueueInv,
         \/ \E w \in Workers : WorkerWait(w) \/ WorkerExit(w)
         \/ \E s \in Submitters : SubmitWait(s)
         \/ SpuriousWakeup
  PROVE  QueueInv'
<1>1. TypeOK
  BY DEF QueueInv
<1>2. ASSUME NEW w \in Workers, WorkerWait(w) \/ WorkerExit(w)
      PROVE  QueueInv'
  <2>1. TypeOK'
    BY <1>1, <1>2 DEF WorkerWait, WorkerExit, TypeOK, WorkerStates, ring, owner, submitters
  <2> QED
    BY <1>2, <2>1, QueueInvQuiet DEF WorkerWait, WorkerExit, submitters
<1>3. ASSUME NEW s \in Submitters, SubmitWait(s)
      PROVE  QueueInv'
  <2>1. TypeOK'
    BY <1>1, <1>3 DEF SubmitWait, TypeOK, SubmitStates, ring, owner, workers
  <2> QED
    BY <1>3, <2>1, QueueInvQuiet DEF SubmitWait, workers
<1>4. ASSUME SpuriousWakeup
      PROVE  QueueInv'
  <2>1. ASSUME NEW w \in SleepingWorkers,
               worker_state' = [worker_state EXCEPT ![w] = "contending"],
               UNCHANGED <<ring, owner, shutting_down, worker_job, submitters>>
        PROVE  QueueInv'
    <3>1. TypeOK'
      BY <1>1, <2>1 DEF SleepingWorkers, TypeOK, WorkerStates, ring, owner, submitters
    <3> QED
      BY <2>1, <3>1, QueueInvQuiet DEF submitters
  <2>2. ASSUME NEW s \in SleepingSubmitters,
               submit_state' = [submit_state EXCEPT ![s] = "contending"],
               UNCHANGED <<ring, owner, shutting_down, workers, submit_job>>
        PROVE  QueueInv'
    <3>1. TypeOK'
      BY <1>1, <2>2 DEF SleepingSubmitters, TypeOK, SubmitStates, ring, owner, workers
    <3> QED
      BY <2>2, <3>1, QueueInvQuiet DEF workers
  <2> QED
    BY <1>4, <2>1, <2>2 DEF SpuriousWakeup
<1> QED
  BY <1>2, <1>3, <1>4

(* The broadcast of thread_pool_shutdown. *)
LEMMA BroadcastWakes ==
  ASSUME TypeOK, RaiseShutdown
  PROVE  /\ shutting_down' = TRUE
         /\ worker_state' \in [Workers -> WorkerStates]
         /\ submit_state' \in [Submitters -> SubmitStates]
         /\ SleepingWorkers' = {} /\ SleepingSubmitters' = {}
         /\ \A w \in Workers : \/ worker_state'[w] = worker_state[w]
                               \/ worker_state[w] = "asleep" /\ worker_state'[w] = "contending"
         /\ \A s \in Submitters : \/ submit_state'[s] = submit_state[s]
                                  \/ submit_state[s] = "asleep" /\ submit_state'[s] = "contending"
<1>1. shutting_down' = TRUE
  BY DEF RaiseShutdown
<1>2. /\ worker_state' \in [Workers -> WorkerStates]
      /\ submit_state' \in [Submitters -> SubmitStates]
  BY DEF RaiseShutdown, TypeOK, WorkerStates, SubmitStates
<1> QED
  BY <1>1, <1>2 DEF RaiseShutdown, SleepingWorkers, SleepingSubmitters

(* Creating, shutting down and joining do not touch the ring; freeing      *)
(* empties one that is empty already.                                      *)
LEMMA QueueInvOwner ==
  ASSUME QueueInv, LifecycleInv,
         CreateStep \/ Shutdown \/ Destroy \/ DestroyStep
  PROVE  QueueInv'
<1>1. TypeOK /\ RingBySlot /\ OneHolder
  BY DEF QueueInv
<1>2. QueueCapacity \in Nat /\ QueueCapacity > 0 /\ WorkerCount \in Nat /\ NoJob \notin Clients
  BY PoolAssumption
<1>3. CASE CreateThread
  <2>1. threads_started + 1 \in Workers /\ worker_state[threads_started + 1] = "unborn"
    BY <1>1, <1>2, <1>3 DEF CreateThread, LifecycleInv, TypeOK, Workers
  <2>2. /\ worker_state' \in [Workers -> WorkerStates]
        /\ \A w \in Workers : worker_state'[w] = "handling" <=> worker_state[w] = "handling"
    BY <1>1, <1>3, <2>1 DEF CreateThread, TypeOK, WorkerStates
  <2>3. /\ threads_started' \in 0 .. WorkerCount
        /\ threads_joined' \in 0 .. threads_started'
        /\ lifecycle' \in {"creating", "running", "joining", "freed"}
    BY <1>1, <1>2, <1>3 DEF CreateThread, LifecycleInv, TypeOK
  <2>4. TypeOK'
    BY <1>1, <1>3, <2>2, <2>3 DEF CreateThread, TypeOK, ring, submitters
  <2> QED
    BY <1>3, <2>4, QueueInvQuiet DEF CreateThread, submitters
<1>4. CASE CreateThreadFails \/ Shutdown \/ Destroy
  <2>1. RaiseShutdown /\ UNCHANGED <<ring, threads_started, threads_joined, worker_job, submit_job>>
    BY <1>4 DEF CreateThreadFails, Shutdown, Destroy, owner
  <2>2. lifecycle' \in {"creating", "running", "joining", "freed"}
    BY <1>1, <1>4 DEF CreateThreadFails, Shutdown, Destroy, owner, TypeOK
  <2>3. TypeOK'
    BY <1>1, <2>1, <2>2, BroadcastWakes DEF TypeOK, ring
  <2> QED
    BY <2>1, <2>3, QueueInvQuiet
<1>5. CASE JoinThread
  <2>1. threads_joined' \in 0 .. threads_started
    BY <1>1, <1>2, <1>5 DEF JoinThread, TypeOK
  <2>2. TypeOK'
    BY <1>1, <1>5, <2>1 DEF JoinThread, TypeOK, ring, workers, submitters
  <2> QED
    BY <1>5, <2>2, QueueInvQuiet DEF JoinThread, workers, submitters
<1>6. CASE FreePool
  <2>1. queue_size = 0
    <3>1. CASE threads_started < WorkerCount
      BY <3>1 DEF LifecycleInv
    <3>2. CASE threads_started = WorkerCount
      <4>1. WorkerCount \in Workers /\ worker_state[WorkerCount] = "exited"
        BY <1>1, <1>2, <1>6, <3>2, PoolAssumption DEF FreePool, LifecycleInv, Workers
      <4> QED
        BY <4>1 DEF LifecycleInv
    <3> QED
      BY <1>1, <1>2, <3>1, <3>2 DEF TypeOK
  <2>2. jobs' = [i \in Slots |-> NoJob]
    BY <1>6 DEF FreePool
  <2>3. TypeOK'
    BY <1>1, <1>6, <2>2 DEF FreePool, TypeOK, workers, submitters
  <2>4. RingBySlot'
    BY <1>1, <1>2, <1>6, <2>1, <2>2 DEF FreePool, RingBySlot, Wrap, Offset, Slots, TypeOK
  <2>5. OneHolder'
    BY <1>1, <1>6, <2>2 DEF FreePool, OneHolder, workers, submitters
  <2> QED
    BY <2>3, <2>4, <2>5 DEF QueueInv
<1> QED
  BY <1>3, <1>4, <1>5, <1>6 DEF CreateStep, DestroyStep

(* Every step keeps the ring consistent and each job with one holder. *)
LEMMA QueueInvNext ==
  ASSUME QueueInv, LifecycleInv, [Next]_vars
  PROVE  QueueInv'
<1>1. CASE UNCHANGED vars
  <2>1. TypeOK'
    BY <1>1 DEF QueueInv, TypeOK, vars, ring, owner, workers, submitters
  <2> QED
    BY <1>1, <2>1, QueueInvQuiet DEF vars, workers, submitters
<1>2. ASSUME NEW w \in Workers, WorkerStep(w) \/ HandlerReturn(w)
      PROVE  QueueInv'
  BY <1>2, QueueInvWaitOrExit, QueueInvTake, QueueInvHandlerReturn DEF WorkerStep
<1>3. ASSUME NEW s \in Submitters, SubmitStep(s) \/ (\E c \in Clients : SubmitCall(s, c))
      PROVE  QueueInv'
  BY <1>3, QueueInvWaitOrExit, QueueInvEnqueue, QueueInvSubmitReject, QueueInvSubmitCall
  DEF SubmitStep
<1> QED
  BY <1>1, <1>2, <1>3, QueueInvWaitOrExit, QueueInvOwner DEF Next, Finished

-----------------------------------------------------------------------------
(* The owner's progress and the shutdown. *)

(* Every step keeps the owner's place, the threads started and joined, and *)
(* the states of the workers in agreement.                                 *)
LEMMA LifecycleInvNext ==
  ASSUME TypeOK, LifecycleInv, [Next]_vars
  PROVE  LifecycleInv'
<1>1. WorkerCount \in Nat /\ WorkerCount > 0
  BY PoolAssumption
<1>2. CASE UNCHANGED vars
  BY <1>2 DEF LifecycleInv, vars, ring, owner, workers, submitters
<1>3. ASSUME NEW w \in Workers, WorkerStep(w) \/ HandlerReturn(w)
      PROVE  LifecycleInv'
  <2>1. CASE WorkerWait(w) \/ HandlerReturn(w)
    BY <2>1 DEF WorkerWait, HandlerReturn, LifecycleInv, TypeOK, ring, owner, submitters
  <2>2. CASE WorkerExit(w)
    BY <2>2 DEF WorkerExit, LifecycleInv, TypeOK, ring, owner, submitters
  <2>3. CASE WorkerTake(w)
    <3>1. \A s \in Submitters : submit_state'[s] = "out" <=> submit_state[s] = "out"
      BY <2>3 DEF WorkerTake, SignalNotFull, SleepingSubmitters, TypeOK
    <3>2. \A v \in Workers : /\ worker_state'[v] = "unborn" <=> worker_state[v] = "unborn"
                             /\ worker_state'[v] = "exited" <=> worker_state[v] = "exited"
      BY <2>3 DEF WorkerTake, TypeOK
    <3>3. queue_size \in Nat /\ queue_size # 0 /\ queue_size' = queue_size - 1
          /\ UNCHANGED <<owner, shutting_down>>
      BY <2>3, PoolAssumption DEF WorkerTake, TypeOK
    <3> QED
      BY <3>1, <3>2, <3>3 DEF LifecycleInv, owner
  <2> QED
    BY <1>3, <2>1, <2>2, <2>3 DEF WorkerStep
<1>4. ASSUME NEW s \in Submitters, SubmitStep(s) \/ (\E c \in Clients : SubmitCall(s, c))
      PROVE  LifecycleInv'
  <2>1. lifecycle = "running" /\ UNCHANGED <<owner, shutting_down>>
    BY <1>4 DEF SubmitStep, SubmitWait, SubmitReject, SubmitEnqueue, SubmitCall, LifecycleInv
  <2>2. \A v \in Workers : /\ worker_state'[v] = "unborn" <=> worker_state[v] = "unborn"
                           /\ worker_state'[v] = "exited" <=> worker_state[v] = "exited"
    BY <1>4 DEF SubmitStep, SubmitWait, SubmitReject, SubmitEnqueue, SubmitCall,
                SignalNotEmpty, SleepingWorkers, TypeOK, workers
  <2>3. queue_size' = queue_size \/ ~shutting_down
    BY <1>4 DEF SubmitStep, SubmitWait, SubmitReject, SubmitEnqueue, SubmitCall, ring
  <2> QED
    BY <1>1, <2>1, <2>2, <2>3 DEF LifecycleInv, owner
<1>5. CASE SpuriousWakeup
  BY <1>5 DEF SpuriousWakeup, SleepingWorkers, SleepingSubmitters, LifecycleInv, TypeOK,
              ring, owner, workers, submitters
<1>6. CASE CreateThread
  <2>1. threads_started + 1 \in Workers /\ threads_started \in Nat
    BY <1>1, <1>6 DEF CreateThread, LifecycleInv, TypeOK, Workers
  <2>2. \A w \in Workers :
          worker_state'[w] = IF w = threads_started + 1 THEN "contending" ELSE worker_state[w]
    BY <1>6, <2>1 DEF CreateThread, TypeOK
  <2>3. \A w \in Workers : worker_state'[w] = "unborn" <=> threads_started' < w
    BY <1>6, <2>1, <2>2 DEF CreateThread, LifecycleInv, Workers
  <2>4. \A w \in Workers : w <= threads_joined' => worker_state'[w] = "exited"
    BY <1>1, <1>6, <2>1, <2>2 DEF CreateThread, LifecycleInv, Workers, TypeOK
  <2>5. \A w \in Workers : worker_state'[w] = "exited" => shutting_down' /\ queue_size' = 0
    BY <1>6, <2>2 DEF CreateThread, LifecycleInv, ring
  <2>6. /\ lifecycle' = "creating" => threads_started' < WorkerCount /\ ~shutting_down'
        /\ lifecycle' = "running" => threads_started' = WorkerCount
        /\ threads_started' < WorkerCount => queue_size' = 0
    BY <1>1, <1>6, <2>1 DEF CreateThread, LifecycleInv, ring
  <2> QED
    BY <1>6, <2>3, <2>4, <2>5, <2>6 DEF CreateThread, LifecycleInv, submitters
<1>7. CASE CreateThreadFails \/ Shutdown \/ Destroy
  <2>1. RaiseShutdown /\ UNCHANGED <<ring, threads_started, threads_joined>>
    BY <1>7 DEF CreateThreadFails, Shutdown, Destroy, owner
  <2>2. /\ shutting_down'
        /\ \A v \in Workers : /\ worker_state'[v] = "unborn" <=> worker_state[v] = "unborn"
                              /\ worker_state'[v] = "exited" <=> worker_state[v] = "exited"
        /\ \A s \in Submitters : submit_state'[s] = "out" <=> submit_state[s] = "out"
    BY <2>1, BroadcastWakes
  <2>3. /\ lifecycle' # "creating" /\ lifecycle' # "freed"
        /\ lifecycle' = "running" => lifecycle = "running"
        /\ lifecycle' # "running" => \A s \in Submitters : submit_state[s] = "out"
    BY <1>7 DEF CreateThreadFails, Shutdown, Destroy, owner, LifecycleInv
  <2> QED
    BY <2>1, <2>2, <2>3 DEF LifecycleInv, ring
<1>8. CASE JoinThread
  <2>1. \A w \in Workers : w <= threads_joined' => worker_state[w] = "exited"
    BY <1>1, <1>8 DEF JoinThread, LifecycleInv, Workers, TypeOK
  <2> QED
    BY <1>8, <2>1 DEF JoinThread, LifecycleInv, ring, workers, submitters
<1>9. CASE FreePool
  BY <1>9 DEF FreePool, LifecycleInv, workers, submitters
<1> QED
  BY <1>2, <1>3, <1>4, <1>5, <1>6, <1>7, <1>8, <1>9 DEF Next, Finished, CreateStep, DestroyStep

(* Nobody falls asleep after the flag is up. *)
LEMMA ShutdownReachesAllNext ==
  ASSUME TypeOK, ShutdownReachesAll, [Next]_vars
  PROVE  ShutdownReachesAll'
<1>1. CASE UNCHANGED vars
  BY <1>1 DEF ShutdownReachesAll, SleepingWorkers, SleepingSubmitters, vars, workers, submitters
<1>2. ASSUME NEW w \in Workers, WorkerStep(w) \/ HandlerReturn(w)
      PROVE  ShutdownReachesAll'
  BY <1>2 DEF WorkerStep, WorkerWait, WorkerExit, WorkerTake, SignalNotFull, HandlerReturn,
              ShutdownReachesAll, SleepingWorkers, SleepingSubmitters, TypeOK, submitters
<1>3. ASSUME NEW s \in Submitters, SubmitStep(s) \/ (\E c \in Clients : SubmitCall(s, c))
      PROVE  ShutdownReachesAll'
  BY <1>3 DEF SubmitStep, SubmitWait, SubmitReject, SubmitEnqueue, SubmitCall, SignalNotEmpty,
              ShutdownReachesAll, SleepingWorkers, SleepingSubmitters, TypeOK, workers
<1>4. CASE SpuriousWakeup
  BY <1>4 DEF SpuriousWakeup, ShutdownReachesAll, SleepingWorkers, SleepingSubmitters, TypeOK,
              workers, submitters
<1>5. CASE CreateThread
  BY <1>5 DEF CreateThread, ShutdownReachesAll, SleepingWorkers, SleepingSubmitters, TypeOK,
              submitters
<1>6. CASE CreateThreadFails \/ Shutdown \/ Destroy
  <2>1. RaiseShutdown
    BY <1>6 DEF CreateThreadFails, Shutdown, Destroy
  <2> QED
    BY <2>1, BroadcastWakes DEF ShutdownReachesAll
<1>7. CASE DestroyStep
  BY <1>7 DEF DestroyStep, JoinThread, FreePool, ShutdownReachesAll, SleepingWorkers,
              SleepingSubmitters, workers, submitters
<1> QED
  BY <1>1, <1>2, <1>3, <1>4, <1>5, <1>6, <1>7 DEF Next, Finished, CreateStep

-----------------------------------------------------------------------------
(* No wakeup is lost. *)

(* The contending threads are finitely many, so that they can be counted. *)
LEMMA ContendersAreCounted ==
  /\ IsFiniteSet(ContendingWorkers) /\ Cardinality(ContendingWorkers) \in Nat
  /\ IsFiniteSet(ContendingSubmitters) /\ Cardinality(ContendingSubmitters) \in Nat
<1>1. IsFiniteSet(Workers) /\ IsFiniteSet(Submitters)
  BY PoolAssumption, FS_Interval DEF Workers
<1>2. IsFiniteSet(ContendingWorkers)
  BY <1>1, FS_Subset DEF ContendingWorkers
<1>3. IsFiniteSet(ContendingSubmitters)
  BY <1>1, FS_Subset DEF ContendingSubmitters
<1> QED
  BY <1>2, <1>3, FS_CardinalityType

(* One more awake worker never hurts. *)
LEMMA WorkerWoken ==
  ASSUME TypeOK, NEW w \in Workers, worker_state[w] # "contending",
         worker_state' = [worker_state EXCEPT ![w] = "contending"]
  PROVE  /\ SleepingWorkers' \subseteq SleepingWorkers
         /\ Cardinality(ContendingWorkers') = Cardinality(ContendingWorkers) + 1
<1>1. \A v \in Workers :
        worker_state'[v] = IF v = w THEN "contending" ELSE worker_state[v]
  BY DEF TypeOK
<1>2. ContendingWorkers' = ContendingWorkers \cup {w} /\ w \notin ContendingWorkers
  BY <1>1 DEF ContendingWorkers
<1>3. SleepingWorkers' \subseteq SleepingWorkers
  BY <1>1 DEF SleepingWorkers
<1> QED
  BY <1>2, <1>3, ContendersAreCounted, FS_AddElement

(* Every step leaves at least as many workers awake as there are jobs, or  *)
(* nobody asleep.                                                          *)
LEMMA NoLostWorkerWakeupNext ==
  ASSUME TypeOK, LifecycleInv, ShutdownReachesAll, NoLostWorkerWakeup, [Next]_vars
  PROVE  NoLostWorkerWakeup'
<1>1. /\ queue_size \in Nat
      /\ Cardinality(ContendingWorkers) \in Nat /\ IsFiniteSet(ContendingWorkers)
  BY PoolAssumption, ContendersAreCounted DEF TypeOK
<1>2. ASSUME UNCHANGED <<worker_state, queue_size>>
      PROVE  NoLostWorkerWakeup'
  BY <1>2 DEF NoLostWorkerWakeup, SleepingWorkers, ContendingWorkers
<1>3. ASSUME NEW w \in Workers, worker_state[w] # "contending", queue_size' = queue_size,
             worker_state' = [worker_state EXCEPT ![w] = "contending"]
      PROVE  NoLostWorkerWakeup'
  <2>1. /\ SleepingWorkers' \subseteq SleepingWorkers
        /\ Cardinality(ContendingWorkers') = Cardinality(ContendingWorkers) + 1
    BY <1>3, WorkerWoken
  <2>2. SleepingWorkers' # {} => SleepingWorkers # {}
    BY <2>1
  <2> QED
    BY <1>1, <1>3, <2>1, <2>2 DEF NoLostWorkerWakeup
<1>4. ASSUME NEW w \in Workers, WorkerWait(w)
      PROVE  NoLostWorkerWakeup'
  <2>1. Cardinality(ContendingWorkers') \in Nat
    <3>1. ContendingWorkers' = ContendingWorkers \ {w}
      BY <1>4 DEF WorkerWait, ContendingWorkers, TypeOK
    <3> QED
      BY <1>1, <3>1, FS_RemoveElement, FS_CardinalityType
  <2> QED
    BY <1>4, <2>1 DEF WorkerWait, NoLostWorkerWakeup, ring
<1>5. ASSUME NEW w \in Workers, WorkerExit(w)
      PROVE  NoLostWorkerWakeup'
  BY <1>5 DEF WorkerExit, ShutdownReachesAll, NoLostWorkerWakeup, SleepingWorkers, TypeOK
<1>6. ASSUME NEW w \in Workers, WorkerTake(w)
      PROVE  NoLostWorkerWakeup'
  <2>1. \A v \in Workers :
          worker_state'[v] = IF v = w THEN "handling" ELSE worker_state[v]
    BY <1>6 DEF WorkerTake, TypeOK
  <2>2. ContendingWorkers' = ContendingWorkers \ {w} /\ w \in ContendingWorkers
    BY <1>6, <2>1 DEF WorkerTake, ContendingWorkers
  <2>3. SleepingWorkers' = SleepingWorkers
    BY <1>6, <2>1 DEF WorkerTake, SleepingWorkers
  <2>4. Cardinality(ContendingWorkers') = Cardinality(ContendingWorkers) - 1
    BY <1>1, <2>2, FS_RemoveElement
  <2> QED
    BY <1>1, <1>6, <2>3, <2>4 DEF WorkerTake, NoLostWorkerWakeup
<1>7. ASSUME NEW s \in Submitters, SubmitEnqueue(s)
      PROVE  NoLostWorkerWakeup'
  <2>1. CASE SleepingWorkers = {}
    BY <1>7, <2>1 DEF SubmitEnqueue, SignalNotEmpty, NoLostWorkerWakeup, SleepingWorkers
  <2>2. CASE SleepingWorkers # {}
    <3>1. PICK w \in Workers : /\ worker_state[w] = "asleep"
                               /\ worker_state' = [worker_state EXCEPT ![w] = "contending"]
      BY <1>7, <2>2 DEF SubmitEnqueue, SignalNotEmpty, SleepingWorkers
    <3>2. Cardinality(ContendingWorkers') = Cardinality(ContendingWorkers) + 1
      BY <3>1, WorkerWoken
    <3> QED
      BY <1>1, <1>7, <2>2, <3>2 DEF SubmitEnqueue, NoLostWorkerWakeup
  <2> QED
    BY <2>1, <2>2
<1>8. ASSUME NEW w \in Workers, WorkerStep(w) \/ HandlerReturn(w)
      PROVE  NoLostWorkerWakeup'
  BY <1>3, <1>4, <1>5, <1>6, <1>8 DEF WorkerStep, HandlerReturn, ring
<1>9. ASSUME NEW s \in Submitters, SubmitStep(s) \/ (\E c \in Clients : SubmitCall(s, c))
      PROVE  NoLostWorkerWakeup'
  BY <1>2, <1>7, <1>9 DEF SubmitStep, SubmitWait, SubmitReject, SubmitCall, ring, workers
<1>10. CASE SpuriousWakeup
  BY <1>2, <1>3, <1>10 DEF SpuriousWakeup, SleepingWorkers, ring, workers
<1>11. CASE CreateThread
  <2>1. threads_started + 1 \in Workers /\ worker_state[threads_started + 1] = "unborn"
    BY <1>11, PoolAssumption DEF CreateThread, LifecycleInv, TypeOK, Workers
  <2> QED
    BY <1>3, <1>11, <2>1 DEF CreateThread, ring
<1>12. CASE CreateThreadFails \/ Shutdown \/ Destroy
  <2>1. RaiseShutdown
    BY <1>12 DEF CreateThreadFails, Shutdown, Destroy
  <2> QED
    BY <2>1, BroadcastWakes DEF NoLostWorkerWakeup
<1>13. CASE DestroyStep \/ UNCHANGED vars
  BY <1>2, <1>13 DEF DestroyStep, JoinThread, FreePool, vars, ring, workers
<1> QED
  BY <1>8, <1>9, <1>10, <1>11, <1>12, <1>13 DEF Next, Finished, CreateStep

(* queue_not_full wakes one more submitter, if one sleeps. *)
LEMMA SubmitterWoken ==
  ASSUME TypeOK, NEW s \in Submitters, submit_state[s] # "contending",
         submit_state' = [submit_state EXCEPT ![s] = "contending"]
  PROVE  /\ SleepingSubmitters' \subseteq SleepingSubmitters
         /\ Cardinality(ContendingSubmitters') = Cardinality(ContendingSubmitters) + 1
<1>1. \A t \in Submitters :
        submit_state'[t] = IF t = s THEN "contending" ELSE submit_state[t]
  BY DEF TypeOK
<1>2. ContendingSubmitters' = ContendingSubmitters \cup {s} /\ s \notin ContendingSubmitters
  BY <1>1 DEF ContendingSubmitters
<1>3. SleepingSubmitters' \subseteq SleepingSubmitters
  BY <1>1 DEF SleepingSubmitters
<1> QED
  BY <1>2, <1>3, ContendersAreCounted, FS_AddElement

(* Every step leaves at least as many submitters awake as there are free   *)
(* slots, or nobody asleep.                                                *)
LEMMA NoLostSubmitterWakeupNext ==
  ASSUME TypeOK, ShutdownReachesAll, NoLostSubmitterWakeup, [Next]_vars
  PROVE  NoLostSubmitterWakeup'
<1>1. /\ queue_size \in Nat /\ QueueCapacity \in Nat
      /\ Cardinality(ContendingSubmitters) \in Nat /\ IsFiniteSet(ContendingSubmitters)
  BY PoolAssumption, ContendersAreCounted DEF TypeOK
<1>2. ASSUME UNCHANGED <<submit_state, queue_size>>
      PROVE  NoLostSubmitterWakeup'
  BY <1>2 DEF NoLostSubmitterWakeup, SleepingSubmitters, ContendingSubmitters
<1>3. ASSUME NEW s \in Submitters, submit_state[s] # "contending", queue_size' = queue_size,
             submit_state' = [submit_state EXCEPT ![s] = "contending"]
      PROVE  NoLostSubmitterWakeup'
  <2>1. /\ SleepingSubmitters' \subseteq SleepingSubmitters
        /\ Cardinality(ContendingSubmitters') = Cardinality(ContendingSubmitters) + 1
    BY <1>3, SubmitterWoken
  <2>2. SleepingSubmitters' # {} => SleepingSubmitters # {}
    BY <2>1
  <2> QED
    BY <1>1, <1>3, <2>1, <2>2 DEF NoLostSubmitterWakeup
<1>4. ASSUME NEW s \in Submitters, SubmitWait(s)
      PROVE  NoLostSubmitterWakeup'
  <2>1. Cardinality(ContendingSubmitters') \in Nat
    <3>1. ContendingSubmitters' = ContendingSubmitters \ {s}
      BY <1>4 DEF SubmitWait, ContendingSubmitters, TypeOK
    <3> QED
      BY <1>1, <3>1, FS_RemoveElement, FS_CardinalityType
  <2> QED
    BY <1>1, <1>4, <2>1 DEF SubmitWait, QueueFull, NoLostSubmitterWakeup, ring
<1>5. ASSUME NEW s \in Submitters, SubmitReject(s)
      PROVE  NoLostSubmitterWakeup'
  BY <1>5 DEF SubmitReject, ShutdownReachesAll, NoLostSubmitterWakeup, SleepingSubmitters, TypeOK
<1>6. ASSUME NEW s \in Submitters, SubmitEnqueue(s)
      PROVE  NoLostSubmitterWakeup'
  <2>1. \A t \in Submitters :
          submit_state'[t] = IF t = s THEN "out" ELSE submit_state[t]
    BY <1>6 DEF SubmitEnqueue, TypeOK
  <2>2. ContendingSubmitters' = ContendingSubmitters \ {s} /\ s \in ContendingSubmitters
    BY <1>6, <2>1 DEF SubmitEnqueue, ContendingSubmitters
  <2>3. SleepingSubmitters' = SleepingSubmitters
    BY <1>6, <2>1 DEF SubmitEnqueue, SleepingSubmitters
  <2>4. Cardinality(ContendingSubmitters') = Cardinality(ContendingSubmitters) - 1
    BY <1>1, <2>2, FS_RemoveElement
  <2> QED
    BY <1>1, <1>6, <2>3, <2>4 DEF SubmitEnqueue, NoLostSubmitterWakeup
<1>7. ASSUME NEW w \in Workers, WorkerTake(w)
      PROVE  NoLostSubmitterWakeup'
  <2>1. CASE SleepingSubmitters = {}
    BY <1>7, <2>1 DEF WorkerTake, SignalNotFull, NoLostSubmitterWakeup, SleepingSubmitters
  <2>2. CASE SleepingSubmitters # {}
    <3>1. PICK s \in Submitters : /\ submit_state[s] = "asleep"
                                  /\ submit_state' = [submit_state EXCEPT ![s] = "contending"]
      BY <1>7, <2>2 DEF WorkerTake, SignalNotFull, SleepingSubmitters
    <3>2. Cardinality(ContendingSubmitters') = Cardinality(ContendingSubmitters) + 1
      BY <3>1, SubmitterWoken
    <3> QED
      BY <1>1, <1>7, <2>2, <3>2 DEF WorkerTake, NoLostSubmitterWakeup
  <2> QED
    BY <2>1, <2>2
<1>8. ASSUME NEW w \in Workers, WorkerStep(w) \/ HandlerReturn(w)
      PROVE  NoLostSubmitterWakeup'
  BY <1>2, <1>7, <1>8 DEF WorkerStep, WorkerWait, WorkerExit, HandlerReturn, ring, submitters
<1>9. ASSUME NEW s \in Submitters, SubmitStep(s) \/ (\E c \in Clients : SubmitCall(s, c))
      PROVE  NoLostSubmitterWakeup'
  BY <1>3, <1>4, <1>5, <1>6, <1>9 DEF SubmitStep, SubmitCall, ring
<1>10. CASE SpuriousWakeup
  BY <1>2, <1>3, <1>10 DEF SpuriousWakeup, SleepingSubmitters, ring, submitters
<1>11. CASE CreateThreadFails \/ Shutdown \/ Destroy
  <2>1. RaiseShutdown
    BY <1>11 DEF CreateThreadFails, Shutdown, Destroy
  <2> QED
    BY <2>1, BroadcastWakes DEF NoLostSubmitterWakeup
<1>12. CASE CreateThread \/ DestroyStep \/ UNCHANGED vars
  BY <1>2, <1>12 DEF CreateThread, DestroyStep, JoinThread, FreePool, vars, ring, submitters
<1> QED
  BY <1>8, <1>9, <1>10, <1>11, <1>12 DEF Next, Finished, CreateStep

-----------------------------------------------------------------------------
(* The theorems. *)

IInv ==
    /\ QueueInv
    /\ LifecycleInv
    /\ ShutdownReachesAll
    /\ NoLostWorkerWakeup
    /\ NoLostSubmitterWakeup

(* The pool starts in the inductive invariant. *)
LEMMA IInvInit == Init => IInv
<1> SUFFICES ASSUME Init PROVE IInv
  OBVIOUS
<1>1. LifecycleInv
  BY PoolAssumption DEF Init, LifecycleInv, Workers
<1>2. SleepingWorkers = {} /\ SleepingSubmitters = {}
  BY DEF Init, SleepingWorkers, SleepingSubmitters
<1> QED
  BY <1>1, <1>2, QueueInvInit
  DEF IInv, ShutdownReachesAll, NoLostWorkerWakeup, NoLostSubmitterWakeup

(* Every step keeps the inductive invariant. *)
LEMMA IInvNext == IInv /\ [Next]_vars => IInv'
  BY QueueInvNext, LifecycleInvNext, ShutdownReachesAllNext, NoLostWorkerWakeupNext,
     NoLostSubmitterWakeupNext DEF IInv, QueueInv

(* The inductive invariant holds in every reachable state. *)
THEOREM Inductive == Spec => []IInv
<1>1. Init => IInv
  BY IInvInit
<1>2. IInv /\ [Next]_vars => IInv'
  BY IInvNext
<1> QED
  BY <1>1, <1>2, PTL DEF Spec

(* Every variable of the pool keeps its type: the indices of the ring      *)
(* buffer never leave the array, whatever the capacity.                    *)
THEOREM TypeCorrect == Spec => []TypeOK
<1>1. IInv => TypeOK
  BY DEF IInv, QueueInv
<1> QED
  BY <1>1, Inductive, PTL

(* Head, tail and size of the ring buffer always describe the same jobs.   *)
THEOREM RingStaysConsistent == Spec => []RingConsistent
<1>1. IInv => RingConsistent
  BY RingForms DEF IInv, QueueInv
<1> QED
  BY <1>1, Inductive, PTL

(* No client socket is ever in two hands.                                  *)
THEOREM SingleHolder == Spec => []OneHolder
<1>1. IInv => OneHolder
  BY DEF IInv, QueueInv
<1> QED
  BY <1>1, Inductive, PTL

(* One signal per submit is enough: queue_not_empty never leaves a worker   *)
(* asleep that has a job to take.                                          *)
THEOREM NoWorkerWakeupLost == Spec => []NoLostWorkerWakeup
<1>1. IInv => NoLostWorkerWakeup
  BY DEF IInv
<1> QED
  BY <1>1, Inductive, PTL

(* One signal per take is enough: queue_not_full never leaves a submitter  *)
(* asleep beside a free slot that nobody is on his way to.                 *)
THEOREM NoSubmitterWakeupLost == Spec => []NoLostSubmitterWakeup
<1>1. IInv => NoLostSubmitterWakeup
  BY DEF IInv
<1> QED
  BY <1>1, Inductive, PTL

(* After the shutdown flag nobody sleeps.                                  *)
THEOREM ShutdownReachesEveryone == Spec => []ShutdownReachesAll
<1>1. IInv => ShutdownReachesAll
  BY DEF IInv
<1> QED
  BY <1>1, Inductive, PTL

(* The inductive invariant has the drained pool as a consequence. *)
LEMMA DrainedFromInv == IInv => DrainedBeforeFreed
<1> SUFFICES ASSUME IInv, lifecycle = "freed"
             PROVE  /\ queue_size = 0
                    /\ \A w \in Workers : worker_state[w] \in {"unborn", "exited"}
                    /\ \A s \in Submitters : submit_state[s] = "out"
  BY DEF DrainedBeforeFreed
<1>1. /\ TypeOK /\ LifecycleInv
      /\ WorkerCount \in Nat /\ WorkerCount > 0 /\ threads_started \in 0 .. WorkerCount
  BY PoolAssumption DEF IInv, QueueInv, TypeOK
<1>2. \A w \in Workers : worker_state[w] \in {"unborn", "exited"}
  BY <1>1 DEF LifecycleInv, Workers
<1>3. queue_size = 0
  <2>1. CASE threads_started < WorkerCount
    BY <1>1, <2>1 DEF LifecycleInv
  <2>2. CASE threads_started = WorkerCount
    <3>1. WorkerCount \in Workers /\ worker_state[WorkerCount] = "exited"
      BY <1>1, <2>2 DEF LifecycleInv, Workers
    <3> QED
      BY <1>1, <3>1 DEF LifecycleInv
  <2> QED
    BY <1>1, <2>1, <2>2
<1> QED
  BY <1>1, <1>2, <1>3 DEF LifecycleInv

(* The pool is freed only when its queue is drained and its threads are    *)
(* gone, also when only some of the threads could be started.              *)
THEOREM FreedWhenDrained == Spec => []DrainedBeforeFreed
<1>1. IInv => DrainedBeforeFreed
  BY DrainedFromInv
<1> QED
  BY <1>1, Inductive, PTL

-----------------------------------------------------------------------------
(* Who waits for whom, and for how long. *)

(* A thread that runs on without being woken by another. *)
AwakeWorkers == {w \in Workers : worker_state[w] \in {"contending", "handling"}}

(* Whoever sleeps or joins waits for a thread that is awake: a job in the  *)
(* queue has an awake worker, a sleeping submitter an awake worker or      *)
(* another submitter before it, and the join loop only waits for workers   *)
(* that are awake or have left.                                            *)
NobodyWaitsInVain ==
    /\ queue_size > 0 => AwakeWorkers # {}
    /\ SleepingSubmitters # {} => AwakeWorkers # {} \/ ContendingSubmitters # {}
    /\ lifecycle = "joining" =>
          \A w \in Workers : w <= threads_started => w \in AwakeWorkers \/ worker_state[w] = "exited"

LEMMA AwakeFromInv == IInv => NobodyWaitsInVain
<1> SUFFICES ASSUME IInv PROVE NobodyWaitsInVain
  OBVIOUS
<1>1. /\ TypeOK /\ LifecycleInv /\ QueueCapacity \in Nat \ {0} /\ WorkerCount \in Nat \ {0}
      /\ queue_size \in Nat /\ threads_started \in 0 .. WorkerCount
  BY PoolAssumption DEF IInv, QueueInv, TypeOK
<1>2. ASSUME queue_size > 0 PROVE AwakeWorkers # {}
  <2>1. CASE SleepingWorkers = {}
    <3>1. threads_started = WorkerCount /\ 1 \in Workers
      BY <1>1, <1>2 DEF LifecycleInv, Workers
    <3>2. worker_state[1] # "exited" /\ worker_state[1] # "unborn" /\ worker_state[1] # "asleep"
      BY <1>1, <1>2, <2>1, <3>1 DEF LifecycleInv, SleepingWorkers, Workers
    <3>3. worker_state[1] \in WorkerStates
      BY <1>1, <3>1 DEF TypeOK
    <3> QED
      BY <3>1, <3>2, <3>3 DEF AwakeWorkers, WorkerStates
  <2>2. CASE SleepingWorkers # {}
    <3>1. queue_size <= Cardinality(ContendingWorkers)
      BY <2>2 DEF IInv, NoLostWorkerWakeup
    <3>2. ContendingWorkers # {}
      BY <1>1, <1>2, <3>1, FS_EmptySet
    <3> QED
      BY <3>2 DEF ContendingWorkers, AwakeWorkers
  <2> QED
    BY <2>1, <2>2
<1>3. ASSUME SleepingSubmitters # {} PROVE AwakeWorkers # {} \/ ContendingSubmitters # {}
  <2> SUFFICES ASSUME ContendingSubmitters = {} PROVE AwakeWorkers # {}
    OBVIOUS
  <2>1. QueueCapacity - queue_size <= Cardinality(ContendingSubmitters)
    BY <1>3 DEF IInv, NoLostSubmitterWakeup
  <2>2. Cardinality(ContendingSubmitters) = 0
    BY FS_EmptySet
  <2> QED
    BY <1>1, <1>2, <2>1, <2>2
<1>4. ASSUME lifecycle = "joining", NEW w \in Workers, w <= threads_started
      PROVE  w \in AwakeWorkers \/ worker_state[w] = "exited"
  <2>1. worker_state[w] # "asleep"
    BY <1>1, <1>4 DEF IInv, LifecycleInv, ShutdownReachesAll, SleepingWorkers
  <2>2. worker_state[w] # "unborn" /\ worker_state[w] \in WorkerStates
    BY <1>1, <1>4 DEF LifecycleInv, TypeOK, Workers
  <2> QED
    BY <2>1, <2>2 DEF AwakeWorkers, WorkerStates
<1> QED
  BY <1>2, <1>3, <1>4 DEF NobodyWaitsInVain

(* However many workers and submitters there are and whatever the capacity *)
(* of the queue: no chain of waiting threads of the pool ends in a thread  *)
(* that sleeps, so that they never all wait for one another.               *)
THEOREM NobodyEverWaitsInVain == Spec => []NobodyWaitsInVain
  BY AwakeFromInv, Inductive, PTL

(* What is still to be done by a thread_pool_destroy: to take and to       *)
(* handle each waiting job, to return from each handler, to leave each     *)
(* worker's loop, to join each thread and to free the pool.                *)
HandlingWorkers == {w \in Workers : worker_state[w] = "handling"}
ToDo == 2 * queue_size + Cardinality(HandlingWorkers) + Cardinality(AwakeWorkers)
           + (threads_started - threads_joined) + (IF lifecycle = "joining" THEN 1 ELSE 0)

DestroyGoesOn ==
    lifecycle = "joining" => ToDo \in 1 .. 2 * QueueCapacity + 3 * WorkerCount + 1 /\ ToDo' < ToDo

LEMMA SomeWorkers ==
  ASSUME NEW S \in SUBSET Workers
  PROVE  IsFiniteSet(S) /\ Cardinality(S) \in 0 .. WorkerCount
<1>1. IsFiniteSet(Workers) /\ Cardinality(Workers) = WorkerCount /\ WorkerCount \in Nat
  BY PoolAssumption, FS_Interval DEF Workers
<1>2. IsFiniteSet(S) /\ Cardinality(S) <= WorkerCount
  BY <1>1, FS_Subset
<1>3. Cardinality(S) \in Nat
  BY <1>2, FS_CardinalityType
<1> QED
  BY <1>1, <1>2, <1>3

LEMMA CountedWorkers ==
  /\ IsFiniteSet(HandlingWorkers) /\ Cardinality(HandlingWorkers) \in 0 .. WorkerCount
  /\ IsFiniteSet(AwakeWorkers) /\ Cardinality(AwakeWorkers) \in 0 .. WorkerCount
  BY SomeWorkers DEF HandlingWorkers, AwakeWorkers

LEMMA ToDoIs ==
  ASSUME TypeOK
  PROVE  /\ ToDo \in 0 .. 2 * QueueCapacity + 3 * WorkerCount + 1
         /\ lifecycle = "joining" => ToDo > 0
<1>1. /\ queue_size \in 0 .. QueueCapacity /\ threads_started \in 0 .. WorkerCount
      /\ threads_joined \in 0 .. threads_started /\ WorkerCount \in Nat /\ QueueCapacity \in Nat
  BY PoolAssumption DEF TypeOK
<1>2. PICK h \in 0 .. WorkerCount, a \in 0 .. WorkerCount :
         h = Cardinality(HandlingWorkers) /\ a = Cardinality(AwakeWorkers)
  BY CountedWorkers
<1> QED
  BY <1>1, <1>2 DEF ToDo

(* The workers' part in it. *)
LEMMA WorkerGoesOn ==
  ASSUME TypeOK, NEW w \in Workers, WorkerTake(w) \/ WorkerExit(w) \/ HandlerReturn(w)
  PROVE  2 * queue_size' + Cardinality(HandlingWorkers') + Cardinality(AwakeWorkers')
           < 2 * queue_size + Cardinality(HandlingWorkers) + Cardinality(AwakeWorkers)
<1>1. queue_size \in Nat
  BY PoolAssumption DEF TypeOK
<1>2. PICK h \in Nat, a \in Nat : h = Cardinality(HandlingWorkers) /\ a = Cardinality(AwakeWorkers)
  BY CountedWorkers
<1>3. CASE WorkerTake(w)
  <2>1. \A v \in Workers : worker_state'[v] = IF v = w THEN "handling" ELSE worker_state[v]
    BY <1>3 DEF WorkerTake, TypeOK
  <2>2. HandlingWorkers' = HandlingWorkers \cup {w} /\ w \notin HandlingWorkers
        /\ AwakeWorkers' = AwakeWorkers
    BY <1>3, <2>1 DEF WorkerTake, HandlingWorkers, AwakeWorkers
  <2>3. Cardinality(HandlingWorkers') = h + 1
    BY <1>2, <2>2, CountedWorkers, FS_AddElement
  <2>4. queue_size # 0 /\ queue_size' = queue_size - 1
    BY <1>3 DEF WorkerTake
  <2> QED
    BY <1>1, <1>2, <2>2, <2>3, <2>4
<1>4. CASE WorkerExit(w)
  <2>1. \A v \in Workers : worker_state'[v] = IF v = w THEN "exited" ELSE worker_state[v]
    BY <1>4 DEF WorkerExit, TypeOK
  <2>2. HandlingWorkers' = HandlingWorkers
        /\ AwakeWorkers' = AwakeWorkers \ {w} /\ w \in AwakeWorkers
    BY <1>4, <2>1 DEF WorkerExit, HandlingWorkers, AwakeWorkers
  <2>3. Cardinality(AwakeWorkers') = a - 1
    BY <1>2, <2>2, CountedWorkers, FS_RemoveElement
  <2>4. queue_size' = queue_size
    BY <1>4 DEF WorkerExit, ring
  <2> QED
    BY <1>1, <1>2, <2>2, <2>3, <2>4
<1>5. CASE HandlerReturn(w)
  <2>1. \A v \in Workers : worker_state'[v] = IF v = w THEN "contending" ELSE worker_state[v]
    BY <1>5 DEF HandlerReturn, TypeOK
  <2>2. AwakeWorkers' = AwakeWorkers
        /\ HandlingWorkers' = HandlingWorkers \ {w} /\ w \in HandlingWorkers
    BY <1>5, <2>1 DEF HandlerReturn, HandlingWorkers, AwakeWorkers
  <2>3. Cardinality(HandlingWorkers') = h - 1
    BY <1>2, <2>2, CountedWorkers, FS_RemoveElement
  <2>4. queue_size' = queue_size
    BY <1>5 DEF HandlerReturn, ring
  <2> QED
    BY <1>1, <1>2, <2>2, <2>3, <2>4
<1> QED
  BY <1>3, <1>4, <1>5

LEMMA DestroyGoesOnNext == IInv /\ Next /\ vars' # vars => DestroyGoesOn
<1> SUFFICES ASSUME IInv, Next, vars' # vars, lifecycle = "joining"
             PROVE  ToDo' < ToDo
  BY ToDoIs DEF DestroyGoesOn, IInv, QueueInv
<1>1. /\ TypeOK /\ shutting_down /\ SleepingWorkers = {} /\ SleepingSubmitters = {}
      /\ \A s \in Submitters : submit_state[s] = "out"
  BY DEF IInv, QueueInv, LifecycleInv, ShutdownReachesAll
<1>2. /\ queue_size \in Nat /\ threads_started \in Nat /\ threads_joined \in 0 .. threads_started
  BY <1>1, PoolAssumption DEF TypeOK
<1>3. PICK h \in Nat, a \in Nat : h = Cardinality(HandlingWorkers) /\ a = Cardinality(AwakeWorkers)
  BY CountedWorkers
<1>4. ASSUME NEW w \in Workers, WorkerStep(w) \/ HandlerReturn(w) PROVE ToDo' < ToDo
  <2>1. WorkerTake(w) \/ WorkerExit(w) \/ HandlerReturn(w)
    BY <1>1, <1>4 DEF WorkerStep, WorkerWait
  <2>2. threads_started' = threads_started /\ threads_joined' = threads_joined /\ lifecycle' = lifecycle
    BY <2>1 DEF WorkerTake, WorkerExit, HandlerReturn, owner
  <2>3. PICK b : b = 2 * queue_size + Cardinality(HandlingWorkers) + Cardinality(AwakeWorkers)
    OBVIOUS
  <2>4. PICK c : c = 2 * queue_size' + Cardinality(HandlingWorkers') + Cardinality(AwakeWorkers')
    OBVIOUS
  <2>5. c < b
    BY <1>1, <2>1, <2>3, <2>4, WorkerGoesOn
  <2>6. b \in Nat /\ c \in Int
    <3>1. TypeOK'
      BY QueueInvNext DEF IInv, QueueInv
    <3>2. queue_size' \in Nat
      BY <3>1, PoolAssumption DEF TypeOK
    <3>3. Cardinality(HandlingWorkers') \in Nat /\ Cardinality(AwakeWorkers') \in Nat
      <4>1. HandlingWorkers' \in SUBSET Workers /\ AwakeWorkers' \in SUBSET Workers
        BY DEF HandlingWorkers, AwakeWorkers
      <4> QED
        BY <4>1, SomeWorkers
    <3> QED
      BY <1>2, <1>3, <2>3, <2>4, <3>2, <3>3
  <2>7. PICK d \in Int : d = threads_started - threads_joined
    BY <1>2
  <2> QED
    BY <2>2, <2>3, <2>4, <2>5, <2>6, <2>7 DEF ToDo
<1>5. CASE JoinThread
  <2>1. /\ threads_joined' = threads_joined + 1 /\ queue_size' = queue_size
        /\ threads_started' = threads_started /\ lifecycle' = lifecycle
        /\ worker_state' = worker_state
    BY <1>5 DEF JoinThread, ring, workers
  <2>2. HandlingWorkers' = HandlingWorkers /\ AwakeWorkers' = AwakeWorkers
    BY <2>1 DEF HandlingWorkers, AwakeWorkers
  <2> QED
    BY <1>2, <1>3, <2>1, <2>2 DEF ToDo
<1>6. CASE FreePool
  <2>1. /\ threads_joined' = threads_joined /\ queue_size' = queue_size
        /\ threads_started' = threads_started /\ lifecycle' = "freed"
        /\ worker_state' = worker_state
    BY <1>6 DEF FreePool, workers
  <2>2. HandlingWorkers' = HandlingWorkers /\ AwakeWorkers' = AwakeWorkers
    BY <2>1 DEF HandlingWorkers, AwakeWorkers
  <2> QED
    BY <1>2, <1>3, <2>1, <2>2 DEF ToDo
<1>7. ASSUME NEW s \in Submitters PROVE ~ SubmitStep(s) /\ ~ (\E c \in Clients : SubmitCall(s, c))
  BY <1>1 DEF SubmitStep, SubmitWait, SubmitReject, SubmitEnqueue, SubmitCall
<1>8. ~ SpuriousWakeup /\ ~ CreateStep /\ ~ Shutdown /\ ~ Destroy
  BY <1>1 DEF SpuriousWakeup, CreateStep, CreateThread, CreateThreadFails, Shutdown, Destroy
<1>9. ~ Finished
  BY DEF Finished
<1> QED
  BY <1>4, <1>5, <1>6, <1>7, <1>8, <1>9 DEF Next, DestroyStep

(* thread_pool_destroy takes at most 2 steps for every slot of the queue,  *)
(* 3 for every worker and 1 more: once it has raised the flag, each step   *)
(* of any thread of the pool is one of those left.                         *)
THEOREM DestroyAlwaysGoesOn == Spec => [][DestroyGoesOn]_vars
<1>1. IInv /\ [Next]_vars => [DestroyGoesOn]_vars
  BY DestroyGoesOnNext
<1> QED
  BY <1>1, Inductive, PTL DEF Spec
=============================================================================
