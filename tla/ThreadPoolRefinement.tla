------------------------ MODULE ThreadPoolRefinement ------------------------
(***************************************************************************)
(* ThreadPool implements the safety part of JobQueue: its ring buffer is a *)
(* FIFO, whatever its capacity and however its indices wrap around.        *)
(***************************************************************************)
EXTENDS ThreadPoolProofs, SequenceTheorems

(* Waiting, the sequence of jobs from head to tail, without %. *)
LEMMA WaitingForm ==
  ASSUME TypeOK, RingBySlot
  PROVE  /\ Waiting \in Seq(Clients)
         /\ Len(Waiting) = queue_size
         /\ \A i \in 1 .. queue_size : Waiting[i] = jobs[Wrap(queue_head + (i - 1))]
<1>1. /\ QueueCapacity \in Nat /\ QueueCapacity > 0
      /\ queue_size \in Nat /\ queue_size <= QueueCapacity
      /\ queue_head \in Nat /\ queue_head < QueueCapacity
  BY PoolAssumption DEF TypeOK, Slots
<1>2. ASSUME NEW i \in 1 .. queue_size
      PROVE  /\ (queue_head + (i - 1)) % QueueCapacity = Wrap(queue_head + (i - 1))
             /\ jobs[Wrap(queue_head + (i - 1))] \in Clients
  <2>1. i \in Nat /\ i >= 1 /\ i <= queue_size
    BY <1>1
  <2>2. queue_head + (i - 1) \in Nat /\ queue_head + (i - 1) < 2 * QueueCapacity
    BY <1>1, <2>1
  <2>3. Wrap(queue_head + (i - 1)) \in Slots
    BY <2>2, WrapIsMod
  <2>4. Offset(Wrap(queue_head + (i - 1))) = i - 1
    BY <1>1, <2>1, <2>2 DEF Wrap, Offset
  <2>5. jobs[Wrap(queue_head + (i - 1))] # NoJob
    BY <1>1, <2>1, <2>3, <2>4 DEF RingBySlot
  <2> QED
    BY <2>2, <2>3, <2>5, WrapIsMod DEF TypeOK
<1>3. Waiting = [i \in 1 .. queue_size |-> jobs[(queue_head + (i - 1)) % QueueCapacity]]
  BY DEF Waiting
<1>4. Waiting \in [1 .. queue_size -> Clients]
  BY <1>2, <1>3
<1>5. Waiting \in Seq(Clients) /\ Len(Waiting) = queue_size
  BY <1>1, <1>4
<1> QED
  BY <1>2, <1>3, <1>5

(* What thread_pool_worker does to the queue. *)
LEMMA TakeIsTake ==
  ASSUME QueueInv, QueueInv', NEW w \in Workers, WorkerTake(w)
  PROVE  JQ!Take(w)
<1>1. TypeOK /\ RingBySlot /\ TypeOK' /\ RingBySlot'
  BY DEF QueueInv
<1>2. /\ QueueCapacity \in Nat /\ QueueCapacity > 0
      /\ queue_size \in Nat /\ queue_size <= QueueCapacity /\ queue_size # 0
      /\ queue_head \in Nat /\ queue_head < QueueCapacity
  BY <1>1, PoolAssumption DEF TypeOK, Slots, WorkerTake
<1>3. /\ queue_size' = queue_size - 1
      /\ queue_head' = Wrap(queue_head + 1)
      /\ jobs' = [jobs EXCEPT ![queue_head] = NoJob]
      /\ worker_job' = [worker_job EXCEPT ![w] = jobs[queue_head]]
      /\ shutting_down' = shutting_down
  BY <1>2, WrapIsMod DEF WorkerTake, ResetSlot, NextSlot
<1>4. /\ Waiting \in Seq(Clients) /\ Len(Waiting) = queue_size
      /\ \A i \in 1 .. queue_size : Waiting[i] = jobs[Wrap(queue_head + (i - 1))]
  BY <1>1, WaitingForm
<1>5. /\ Waiting' \in Seq(Clients) /\ Len(Waiting') = queue_size'
      /\ \A i \in 1 .. queue_size' : Waiting'[i] = jobs'[Wrap(queue_head' + (i - 1))]
  <2>1. (TypeOK /\ RingBySlot =>
            /\ Waiting \in Seq(Clients) /\ Len(Waiting) = queue_size
            /\ \A i \in 1 .. queue_size : Waiting[i] = jobs[Wrap(queue_head + (i - 1))])'
    BY WaitingForm, PTL
  <2> QED
    BY <1>1, <2>1 DEF Wrap
<1>6. Waiting # <<>> /\ Head(Waiting) = jobs[queue_head]
  <2>1. Waiting # <<>>
    BY <1>2, <1>4
  <2>2. Wrap(queue_head + (1 - 1)) = queue_head
    BY <1>2 DEF Wrap
  <2>3. Waiting[1] = jobs[queue_head]
    BY <1>2, <1>4, <2>2
  <2> QED
    BY <1>4, <2>1, <2>3
<1>7. Tail(Waiting) = Waiting'
  <2>1. /\ Tail(Waiting) \in Seq(Clients) /\ Len(Tail(Waiting)) = queue_size - 1
        /\ \A i \in 1 .. queue_size - 1 : Tail(Waiting)[i] = Waiting[i + 1]
    BY <1>2, <1>4, <1>6, HeadTailProperties
  <2>2. ASSUME NEW i \in 1 .. queue_size - 1
        PROVE  Waiting[i + 1] = Waiting'[i]
    <3>1. /\ i + 1 \in 1 .. queue_size /\ i \in 1 .. queue_size'
          /\ i \in Nat /\ i >= 1 /\ i < QueueCapacity
      BY <1>2, <1>3
    <3>2. Wrap(queue_head + ((i + 1) - 1)) = Wrap(Wrap(queue_head + 1) + (i - 1))
      BY <1>2, <3>1 DEF Wrap
    <3>3. Wrap(queue_head + ((i + 1) - 1)) # queue_head
      BY <1>2, <3>1 DEF Wrap
    <3>4. jobs'[Wrap(queue_head' + (i - 1))] = jobs[Wrap(queue_head + ((i + 1) - 1))]
      BY <1>1, <1>3, <3>2, <3>3 DEF TypeOK
    <3> QED
      BY <1>4, <1>5, <3>1, <3>4
  <2> QED
    BY <1>2, <1>3, <1>5, <2>1, <2>2, SeqEqual
<1>8. worker_job[w] = NoJob
  BY <1>1 DEF TypeOK, WorkerTake
<1> QED
  BY <1>3, <1>6, <1>7, <1>8 DEF JQ!Take

(* What thread_pool_submit does to the queue. *)
LEMMA EnqueueIsAdmit ==
  ASSUME QueueInv, QueueInv', NEW s \in Submitters, SubmitEnqueue(s)
  PROVE  JQ!Admit(submit_job[s])
<1> DEFINE c == submit_job[s]
<1>1. TypeOK /\ RingBySlot /\ TypeOK' /\ RingBySlot' /\ OneHolder
  BY DEF QueueInv
<1>2. /\ QueueCapacity \in Nat /\ QueueCapacity > 0
      /\ queue_size \in Nat /\ queue_size < QueueCapacity
      /\ queue_head \in Nat /\ queue_head < QueueCapacity
      /\ queue_tail = Wrap(queue_head + queue_size) /\ queue_tail \in Slots
      /\ c \in Clients /\ c # NoJob /\ NoJob \notin Clients
  BY <1>1, PoolAssumption DEF TypeOK, Slots, SubmitEnqueue, QueueFull, RingBySlot
<1>3. /\ queue_size' = queue_size + 1
      /\ queue_head' = queue_head
      /\ jobs' = [jobs EXCEPT ![queue_tail] = c]
      /\ UNCHANGED <<worker_job, shutting_down>> /\ ~shutting_down
  BY DEF SubmitEnqueue, StoreJob
<1>4. /\ Waiting \in Seq(Clients) /\ Len(Waiting) = queue_size
      /\ \A i \in 1 .. queue_size : Waiting[i] = jobs[Wrap(queue_head + (i - 1))]
  BY <1>1, WaitingForm
<1>5. /\ Waiting' \in Seq(Clients) /\ Len(Waiting') = queue_size'
      /\ \A i \in 1 .. queue_size' : Waiting'[i] = jobs'[Wrap(queue_head' + (i - 1))]
  <2>1. (TypeOK /\ RingBySlot =>
            /\ Waiting \in Seq(Clients) /\ Len(Waiting) = queue_size
            /\ \A i \in 1 .. queue_size : Waiting[i] = jobs[Wrap(queue_head + (i - 1))])'
    BY WaitingForm, PTL
  <2> QED
    BY <1>1, <2>1 DEF Wrap
<1>6. Append(Waiting, c) = Waiting'
  <2>1. /\ Append(Waiting, c) \in Seq(Clients) /\ Len(Append(Waiting, c)) = queue_size + 1
        /\ \A i \in 1 .. queue_size : Append(Waiting, c)[i] = Waiting[i]
        /\ Append(Waiting, c)[queue_size + 1] = c
    BY <1>2, <1>4, AppendProperties
  <2>2. ASSUME NEW i \in 1 .. queue_size + 1
        PROVE  Append(Waiting, c)[i] = Waiting'[i]
    <3>1. Waiting'[i] = jobs'[Wrap(queue_head + (i - 1))]
      BY <1>3, <1>5
    <3>2. CASE i = queue_size + 1
      <4>1. queue_head + (i - 1) = queue_head + queue_size
        BY <1>2, <3>2
      <4>2. Waiting'[i] = c
        BY <1>1, <1>2, <1>3, <3>1, <4>1 DEF TypeOK
      <4> QED
        BY <2>1, <3>2, <4>2
    <3>3. CASE i \in 1 .. queue_size
      <4>1. Wrap(queue_head + (i - 1)) # queue_tail
        BY <1>2, <3>3 DEF Wrap
      <4>2. jobs'[Wrap(queue_head + (i - 1))] = jobs[Wrap(queue_head + (i - 1))]
        BY <1>1, <1>3, <4>1 DEF TypeOK
      <4> QED
        BY <1>4, <2>1, <3>1, <3>3, <4>2
    <3>4. i = queue_size + 1 \/ i \in 1 .. queue_size
      BY <1>2
    <3> QED
      BY <3>2, <3>3, <3>4
  <2> QED
    BY <1>2, <1>3, <1>5, <2>1, <2>2, SeqEqual
<1>7. c \notin JQ!InPool
  <2>1. \A i \in DOMAIN Waiting : Waiting[i] # c
    <3> SUFFICES ASSUME NEW i \in 1 .. queue_size PROVE Waiting[i] # c
      BY <1>2, <1>4
    <3>1. queue_head + (i - 1) \in Nat /\ queue_head + (i - 1) < 2 * QueueCapacity
      BY <1>2
    <3>2. Wrap(queue_head + (i - 1)) \in Slots
      BY <3>1, WrapIsMod
    <3> QED
      BY <1>1, <1>2, <1>4, <3>2 DEF OneHolder
  <2>2. \A w \in Workers : worker_job[w] # c
    BY <1>1, <1>2 DEF OneHolder
  <2> QED
    BY <2>1, <2>2 DEF JQ!InPool
<1> QED
  BY <1>2, <1>3, <1>4, <1>6, <1>7 DEF JQ!Admit

(* Steps that leave ring, jobs in hand and flag alone are invisible. *)
LEMMA QuietIsStutter ==
  ASSUME UNCHANGED <<ring, worker_job, shutting_down>>
  PROVE  UNCHANGED JQ!qvars
  BY DEF JQ!qvars, Waiting, ring

(* Every step of the pool is a step of the abstract queue or leaves it as  *)
(* it is.                                                                  *)
LEMMA StepSimulation ==
  ASSUME IInv, IInv', [Next]_vars
  PROVE  [JQ!Next]_(JQ!qvars)
<1>1. QueueInv /\ QueueInv' /\ TypeOK /\ NoJob \notin Clients
  BY PoolAssumption DEF IInv, QueueInv
<1>2. ASSUME NEW w \in Workers, WorkerStep(w) \/ HandlerReturn(w)
      PROVE  [JQ!Next]_(JQ!qvars)
  <2>1. CASE WorkerTake(w)
    BY <1>1, <2>1, TakeIsTake DEF JQ!Next
  <2>2. CASE HandlerReturn(w)
    <3>1. JQ!Finish(w)
      BY <1>1, <2>2 DEF HandlerReturn, JQ!Finish, TypeOK, Waiting, ring
    <3> QED
      BY <3>1 DEF JQ!Next
  <2>3. CASE WorkerWait(w) \/ WorkerExit(w)
    BY <2>3, QuietIsStutter DEF WorkerWait, WorkerExit
  <2> QED
    BY <1>2, <2>1, <2>2, <2>3 DEF WorkerStep
<1>3. ASSUME NEW s \in Submitters, SubmitStep(s) \/ (\E c \in Clients : SubmitCall(s, c))
      PROVE  [JQ!Next]_(JQ!qvars)
  <2>1. CASE SubmitEnqueue(s)
    <3>1. submit_job[s] \in Clients
      BY <1>1, <2>1 DEF TypeOK, SubmitEnqueue
    <3> QED
      BY <1>1, <2>1, <3>1, EnqueueIsAdmit DEF JQ!Next
  <2>2. CASE SubmitWait(s) \/ SubmitReject(s) \/ (\E c \in Clients : SubmitCall(s, c))
    BY <2>2, QuietIsStutter DEF SubmitWait, SubmitReject, SubmitCall, workers
  <2> QED
    BY <1>3, <2>1, <2>2 DEF SubmitStep
<1>4. CASE CreateThreadFails \/ Shutdown \/ Destroy
  <2>1. shutting_down' = TRUE /\ UNCHANGED <<ring, worker_job>>
    BY <1>4 DEF CreateThreadFails, Shutdown, Destroy, RaiseShutdown
  <2>2. CASE shutting_down
    BY <2>1, <2>2, QuietIsStutter
  <2>3. CASE ~shutting_down
    <3>1. JQ!Close
      BY <2>1, <2>3 DEF JQ!Close, Waiting, ring
    <3> QED
      BY <3>1 DEF JQ!Next
  <2> QED
    BY <2>2, <2>3
<1>5. CASE FreePool
  <2>1. UNCHANGED <<worker_job, shutting_down, queue_size>>
    BY <1>5 DEF FreePool, workers
  <2>2. queue_size' = 0
    <3>1. (IInv => DrainedBeforeFreed)'
      BY DrainedFromInv, PTL
    <3> QED
      BY <1>5, <3>1 DEF FreePool, DrainedBeforeFreed
  <2>3. Waiting = <<>> /\ Waiting' = <<>>
    <3>1. \A f, n : n = 0 => [i \in 1 .. n |-> f[(queue_head + (i - 1)) % QueueCapacity]] = <<>>
      OBVIOUS
    <3> QED
      BY <2>1, <2>2, <3>1 DEF Waiting
  <2> QED
    BY <2>1, <2>3 DEF JQ!qvars
<1>6. CASE SpuriousWakeup \/ CreateThread \/ JoinThread \/ UNCHANGED vars
  BY <1>6, QuietIsStutter DEF SpuriousWakeup, CreateThread, JoinThread, vars, workers
<1> QED
  BY <1>2, <1>3, <1>4, <1>5, <1>6 DEF Next, Finished, CreateStep, DestroyStep

(* The pool starts as an empty, open queue. *)
LEMMA InitSimulation == Init => JQ!Init
<1> SUFFICES ASSUME Init PROVE JQ!Init
  OBVIOUS
<1>1. Waiting = <<>>
  BY DEF Init, Waiting
<1> QED
  BY <1>1 DEF Init, JQ!Init

(* thread_pool.c is a bounded FIFO that closes once: every execution of    *)
(* the pool, seen through the queue between head and tail, the jobs the    *)
(* workers hold and the flag, is an execution of JobQueue.                 *)
THEOREM PoolIsJobQueue == Spec => JQ!Safety
<1>1. IInv /\ IInv' /\ [Next]_vars => [JQ!Next]_(JQ!qvars)
  BY StepSimulation
<1> QED
  BY <1>1, InitSimulation, Inductive, PTL DEF Spec, JQ!Safety
=============================================================================
