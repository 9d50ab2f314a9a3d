------------------------- MODULE ProxyServerProofs -------------------------
(***************************************************************************)
(* Proofs about ProxyServer, for every number of workers and handles,      *)
(* every capacity, every backlog and every bound on the clients.  The pool *)
(* inside the server is the pool of ThreadPoolProofs: a step of the server *)
(* is one of the pool or leaves the pool alone, so that what is proved of  *)
(* the pool holds here as well.                                            *)
(***************************************************************************)
EXTENDS ProxyServer, ThreadPoolRefinement

-----------------------------------------------------------------------------
(* The pool in the server. *)

(* The server uses the pool as ThreadPool allows it. *)
LEMMA ServerStepIsPoolStep ==
  ASSUME [ServerNext]_ServerVars
  PROVE  [Next]_vars
<1>1. Listener \in Submitters
  BY ServerAssumption
<1>2. CASE \E w \in Workers : WorkerRuns(w)
  BY <1>2 DEF WorkerRuns, Next, WorkerStep
<1>3. CASE Spurious \/ ClientConnects \/ Signal \/ ServerFinished \/ UNCHANGED ServerVars
  BY <1>3 DEF Spurious, ClientConnects, Signal, ServerFinished, ServerVars, Next
<1>4. CASE Startup
  <2>1. CASE \E r \in Resources : Acquire(r) \/ AcquireFails(r)
    BY <2>1 DEF Acquire, AcquireFails
  <2>2. CASE CreatePool
    BY <2>2 DEF CreatePool, Next
  <2>3. CASE NoPool
    BY <2>3 DEF NoPool
  <2> QED
    BY <1>4, <2>1, <2>2, <2>3 DEF Startup
<1>5. CASE AcceptLoop
  <2>1. CASE CheckFlag \/ Poll \/ AcceptFails
    BY <2>1 DEF CheckFlag, Poll, AcceptFails
  <2>2. CASE Accept
    BY <1>1, <2>2 DEF Accept, Next
  <2>3. CASE Submit
    BY <1>1, <2>3 DEF Submit, Next
  <2> QED
    BY <1>5, <2>1, <2>2, <2>3 DEF AcceptLoop
<1>6. CASE Teardown
  <2>1. CASE CloseListener \/ Report \/ Release
    BY <2>1 DEF CloseListener, Report, Release
  <2>2. CASE Drain
    BY <2>2 DEF Drain, Next
  <2> QED
    BY <1>6, <2>1, <2>2 DEF Teardown
<1> QED
  BY <1>2, <1>3, <1>4, <1>5, <1>6 DEF ServerNext, ServerStep

(* The pool's invariant holds in the server. *)
THEOREM PoolInServer == ServerSpec => []IInv
<1>1. ServerInit => IInv
  BY IInvInit DEF ServerInit
<1>2. IInv /\ [ServerNext]_ServerVars => IInv'
  BY ServerStepIsPoolStep, IInvNext
<1> QED
  BY <1>1, <1>2, PTL DEF ServerSpec

(* Workers and wakeups do not touch what the owner of the pool looks at.   *)
LEMMA OwnerUndisturbed ==
  ASSUME TypeOK, (\E w \in Workers : WorkerRuns(w)) \/ Spurious
  PROVE  /\ UNCHANGED <<owner, shutting_down, server, shutdown_requested, network, summary>>
         /\ submit_state'[Listener] = "out" <=> submit_state[Listener] = "out"
<1>1. Listener \in Submitters /\ submit_state \in [Submitters -> SubmitStates]
  BY ServerAssumption DEF TypeOK
<1>2. ASSUME NEW w \in Workers, WorkerRuns(w)
      PROVE  /\ UNCHANGED <<owner, shutting_down, server, shutdown_requested, network, summary>>
             /\ submit_state'[Listener] = "out" <=> submit_state[Listener] = "out"
  <2>1. CASE WorkerWait(w) \/ WorkerExit(w) \/ HandlerReturn(w)
    BY <1>2, <2>1 DEF WorkerRuns, WorkerWait, WorkerExit, HandlerReturn, submitters
  <2>2. CASE WorkerTake(w)
    BY <1>1, <1>2, <2>2 DEF WorkerRuns, WorkerTake, SignalNotFull, SleepingSubmitters
  <2> QED
    BY <1>2, <2>1, <2>2 DEF WorkerRuns
<1>3. CASE Spurious
  BY <1>1, <1>3 DEF Spurious, SpuriousWakeup, SleepingSubmitters, submitters
<1> QED
  BY <1>2, <1>3

-----------------------------------------------------------------------------
(* Where the server is, what it holds, and what the pool does then.        *)

PhaseInv ==
    /\ stage \in Stages
    /\ live \subseteq Resources
    /\ lifecycle = "running" => ~shutting_down
    /\ stage = "startup" => lifecycle = "creating" /\ threads_started = 0
    /\ stage = "pool" => lifecycle # "running" /\ live = Resources
    /\ stage \in LoopStages \cup {"close"} => lifecycle = "running" /\ live = Resources
    /\ stage = "drain" => lifecycle \in {"running", "joining"}
    /\ stage \in {"report", "release"} => lifecycle = "freed"
    /\ stage \in {"drain", "report", "release"} => live = Resources \ {"listener"}
    /\ stage = "returned" => live = {} /\ (lifecycle = "freed" \/ threads_started = 0)
    /\ submit_state[Listener] = "out" <=> stage # "submit"

(* The server starts in it. *)
LEMMA PhaseInvInit == ServerInit => PhaseInv
  BY ServerAssumption
  DEF ServerInit, Init, PhaseInv, Stages, Resources, LoopStages

(* Steps that leave both the owner and the server's own place alone.       *)
LEMMA PhaseInvQuiet ==
  ASSUME PhaseInv, UNCHANGED <<owner, shutting_down, server>>,
         submit_state'[Listener] = "out" <=> submit_state[Listener] = "out"
  PROVE  PhaseInv'
  BY DEF PhaseInv, owner, server

(* Every step keeps it. *)
LEMMA PhaseInvNext ==
  ASSUME IInv, PhaseInv, [ServerNext]_ServerVars
  PROVE  PhaseInv'
<1>1. /\ TypeOK /\ LifecycleInv
      /\ Listener \in Submitters /\ Submitters = {Listener} /\ ~ConcurrentShutdown
      /\ submit_state \in [Submitters -> SubmitStates]
  BY ServerAssumption DEF IInv, QueueInv, TypeOK
<1>2. CASE (\E w \in Workers : WorkerRuns(w)) \/ Spurious
  BY <1>1, <1>2, OwnerUndisturbed, PhaseInvQuiet
<1>3. CASE ClientConnects \/ Signal \/ ServerFinished \/ UNCHANGED ServerVars
  BY <1>3, PhaseInvQuiet
  DEF ClientConnects, Signal, ServerFinished, ServerVars, vars, submitters
<1>4. CASE Startup
  <2>1. ASSUME NEW r \in Resources, Acquire(r) \/ AcquireFails(r)
        PROVE  PhaseInv'
    BY <2>1 DEF Acquire, AcquireFails, PhaseInv, Stages, Resources, LoopStages, Before,
                Undo, vars, owner, submitters
  <2>2. CASE CreatePool
    <3>1. submit_state'[Listener] = "out" <=> submit_state[Listener] = "out"
      BY <1>1, <2>2, BroadcastWakes
      DEF CreatePool, CreateStep, DestroyStep, CreateThread, CreateThreadFails, JoinThread,
          FreePool, submitters
    <3>2. lifecycle' = "running" => ~shutting_down'
      BY <1>1, <2>2 DEF CreatePool, CreateStep, DestroyStep, CreateThread, CreateThreadFails,
                        JoinThread, FreePool, LifecycleInv
    <3> QED
      BY <2>2, <3>1, <3>2 DEF CreatePool, PhaseInv, Stages, LoopStages
  <2>3. CASE NoPool
    BY <2>3 DEF NoPool, PhaseInv, Stages, Resources, LoopStages, Undo, vars, owner, submitters
  <2> QED
    BY <1>4, <2>1, <2>2, <2>3 DEF Startup
<1>5. CASE AcceptLoop
  <2>1. CASE CheckFlag \/ Poll \/ AcceptFails
    BY <2>1 DEF CheckFlag, Poll, AcceptFails, PhaseInv, Stages, LoopStages, vars, owner, submitters
  <2>2. CASE Accept
    BY <1>1, <2>2 DEF Accept, SubmitCall, PhaseInv, Stages, LoopStages, owner
  <2>3. CASE Submit
    <3>1. UNCHANGED <<owner, shutting_down>> /\ ~shutting_down
      BY <2>3 DEF Submit, SubmitStep, SubmitWait, SubmitReject, SubmitEnqueue, PhaseInv, LoopStages
    <3> QED
      BY <2>3, <3>1 DEF Submit, PhaseInv, Stages, LoopStages, owner
  <2> QED
    BY <1>5, <2>1, <2>2, <2>3 DEF AcceptLoop
<1>6. CASE Teardown
  <2>1. CASE CloseListener \/ Report \/ Release
    BY <2>1 DEF CloseListener, Report, Release, PhaseInv, Stages, Resources, LoopStages,
                vars, owner, submitters
  <2>2. CASE Drain
    <3>1. submit_state'[Listener] = "out" <=> submit_state[Listener] = "out"
      BY <1>1, <2>2, BroadcastWakes
      DEF Drain, Destroy, DestroyStep, JoinThread, FreePool, submitters
    <3>2. lifecycle' \in {"joining", "freed"}
      BY <2>2 DEF Drain, Destroy, DestroyStep, JoinThread, FreePool
    <3> QED
      BY <2>2, <3>1, <3>2 DEF Drain, PhaseInv, Stages, LoopStages
  <2> QED
    BY <1>6, <2>1, <2>2 DEF Teardown
<1> QED
  BY <1>2, <1>3, <1>4, <1>5, <1>6 DEF ServerNext, ServerStep

-----------------------------------------------------------------------------
(* The clients. *)

NetworkInv ==
    /\ shutdown_requested \in BOOLEAN
    /\ result \in {0, -1}
    /\ connected \in 0 .. MaxConnections
    /\ backlog \in 0 .. Backlog
    /\ stage = "accept" => backlog > 0
    /\ late \in {0, 1}
    /\ late = 1 => shutdown_requested /\ stage \notin {"poll", "accept"}

(* No client, no signal. *)
LEMMA NetworkInvInit == ServerInit => NetworkInv
<1> SUFFICES ASSUME ServerInit PROVE NetworkInv
  OBVIOUS
<1>1. shutdown_requested \in BOOLEAN /\ late = 0 /\ stage = "startup"
  BY DEF ServerInit
<1>2. result \in {0, -1} /\ connected \in 0 .. MaxConnections /\ backlog \in 0 .. Backlog
  BY ServerAssumption DEF ServerInit
<1> QED
  BY <1>1, <1>2 DEF NetworkInv

(* The flag is looked at between two polls, so that after the first late   *)
(* connection the loop does not come to another.                           *)
LEMMA NetworkInvNext ==
  ASSUME IInv, NetworkInv, [ServerNext]_ServerVars
  PROVE  NetworkInv'
<1>1. TypeOK /\ Backlog \in Nat /\ MaxConnections \in Nat
  BY ServerAssumption DEF IInv, QueueInv
<1>2. CASE (\E w \in Workers : WorkerRuns(w)) \/ Spurious
  BY <1>1, <1>2, OwnerUndisturbed DEF NetworkInv, server, network
<1>3. CASE ClientConnects
  BY <1>1, <1>3 DEF ClientConnects, NetworkInv, server
<1>4. CASE Signal
  BY <1>4 DEF Signal, NetworkInv, server, network
<1>5. CASE ServerFinished \/ UNCHANGED ServerVars
  BY <1>5 DEF ServerFinished, ServerVars, NetworkInv, server, network
<1>6. CASE Startup
  BY <1>6 DEF Startup, Acquire, AcquireFails, CreatePool, NoPool, NetworkInv, network
<1>7. CASE AcceptLoop
  BY <1>1, <1>7 DEF AcceptLoop, CheckFlag, Poll, Accept, AcceptFails, Submit, NetworkInv, network
<1>8. CASE Teardown
  BY <1>1, <1>8 DEF Teardown, CloseListener, Drain, Report, Release, NetworkInv, network
<1> QED
  BY <1>2, <1>3, <1>4, <1>5, <1>6, <1>7, <1>8 DEF ServerNext, ServerStep

-----------------------------------------------------------------------------
(* The counters of the metrics. *)

CountInv ==
    /\ accepted \in Nat /\ total_requests \in Nat /\ active_connections \in Nat
    /\ stage \in {"startup", "pool"} => accepted = 0
    /\ accepted = total_requests + queue_size + (IF stage = "submit" THEN 1 ELSE 0)
    /\ active_connections = Cardinality(Handling)

(* Nothing is counted at the start. *)
LEMMA CountInvInit == ServerInit => CountInv
<1> SUFFICES ASSUME ServerInit PROVE CountInv
  OBVIOUS
<1>1. Handling = {}
  BY DEF ServerInit, Init, Handling
<1> QED
  BY <1>1, FS_EmptySet DEF ServerInit, Init, CountInv

(* A set of workers can be counted. *)
LEMMA HandlingIsFinite == IsFiniteSet(Handling) /\ Cardinality(Handling) \in Nat
<1>1. IsFiniteSet(Workers)
  BY FS_Interval, PoolAssumption DEF Workers
<1>2. IsFiniteSet(Handling)
  BY <1>1, FS_Subset DEF Handling
<1> QED
  BY <1>2, FS_CardinalityType

(* What a step of a worker counts. *)
LEMMA CountInvWorker ==
  ASSUME TypeOK, CountInv, NEW w \in Workers, WorkerRuns(w)
  PROVE  CountInv'
<1>1. /\ worker_state \in [Workers -> WorkerStates]
      /\ queue_size \in Nat /\ QueueCapacity \in Nat
      /\ UNCHANGED <<stage, accepted>>
  BY PoolAssumption DEF TypeOK, WorkerRuns, server, network
<1>2. CASE (WorkerWait(w) \/ WorkerExit(w)) /\ UNCHANGED metrics
  <2>1. Handling' = Handling
    BY <1>1, <1>2 DEF WorkerWait, WorkerExit, Handling
  <2> QED
    BY <1>1, <1>2, <2>1 DEF WorkerWait, WorkerExit, CountInv, metrics, ring
<1>3. CASE /\ WorkerTake(w)
           /\ total_requests' = total_requests + 1
           /\ active_connections' = active_connections + 1
  <2>1. Handling' = Handling \cup {w} /\ w \notin Handling
    BY <1>1, <1>3 DEF WorkerTake, Handling
  <2>2. Cardinality(Handling') = Cardinality(Handling) + 1
    BY <2>1, HandlingIsFinite, FS_AddElement
  <2> QED
    BY <1>1, <1>3, <2>2 DEF WorkerTake, CountInv
<1>4. CASE /\ HandlerReturn(w)
           /\ active_connections' = IF active_connections > 0 THEN active_connections - 1 ELSE 0
           /\ UNCHANGED total_requests
  <2>1. Handling' = Handling \ {w} /\ w \in Handling
    BY <1>1, <1>4 DEF HandlerReturn, Handling, WorkerStates
  <2>2. Cardinality(Handling') = Cardinality(Handling) - 1
    BY <2>1, HandlingIsFinite, FS_RemoveElement
  <2>3. Cardinality(Handling) > 0
    BY <2>1, HandlingIsFinite, FS_EmptySet
  <2> QED
    BY <1>1, <1>4, <2>2, <2>3, HandlingIsFinite DEF HandlerReturn, CountInv, ring
<1> QED
  BY <1>2, <1>3, <1>4 DEF WorkerRuns

(* The threads that handle a connection stay the same. *)
LEMMA SameHandlers ==
  ASSUME TypeOK,
         \/ UNCHANGED worker_state
         \/ RaiseShutdown \/ SignalNotEmpty
         \/ SpuriousWakeup
         \/ worker_state[threads_started + 1] = "unborn" /\ CreateThread
  PROVE  Handling' = Handling
  BY DEF TypeOK, RaiseShutdown, SignalNotEmpty, SpuriousWakeup, SleepingWorkers,
         CreateThread, Handling, workers

(* Every step keeps the count. *)
LEMMA CountInvNext ==
  ASSUME IInv, PhaseInv, CountInv, [ServerNext]_ServerVars
  PROVE  CountInv'
<1>1. /\ TypeOK /\ LifecycleInv
      /\ queue_size \in Nat /\ QueueCapacity \in Nat /\ WorkerCount \in Nat
  BY PoolAssumption DEF IInv, QueueInv, TypeOK
<1>2. CASE \E w \in Workers : WorkerRuns(w)
  BY <1>1, <1>2, CountInvWorker
<1>3. CASE Spurious
  BY <1>1, <1>3, SameHandlers
  DEF Spurious, SpuriousWakeup, CountInv, server, network, metrics, ring
<1>4. CASE ClientConnects \/ Signal \/ ServerFinished \/ UNCHANGED ServerVars
  BY <1>1, <1>4, SameHandlers
  DEF ClientConnects, Signal, ServerFinished, ServerVars, vars, CountInv, server, network,
      metrics, ring, workers
<1>5. CASE Startup
  <2>1. CASE (\E r \in Resources : Acquire(r) \/ AcquireFails(r)) \/ NoPool
    BY <1>1, <2>1, SameHandlers
    DEF Acquire, AcquireFails, NoPool, vars, CountInv, network, metrics, ring, workers
  <2>2. CASE CreatePool
    <3>1. /\ Handling' = Handling
          /\ UNCHANGED <<queue_size, accepted, metrics>>
          /\ stage = "pool" /\ stage' \in {"pool", "check"}
      <4>1. CASE CreateThread
        <5>1. threads_started + 1 \in Workers /\ worker_state[threads_started + 1] = "unborn"
          BY <1>1, <4>1 DEF CreateThread, LifecycleInv, TypeOK, Workers
        <5> QED
          BY <1>1, <2>2, <4>1, <5>1, SameHandlers DEF CreatePool, CreateThread, network, metrics, ring
      <4>2. CASE CreateThreadFails
        BY <1>1, <2>2, <4>2, SameHandlers DEF CreatePool, CreateThreadFails, network, metrics, ring
      <4>3. CASE DestroyStep
        BY <1>1, <2>2, <4>3, SameHandlers
        DEF CreatePool, DestroyStep, JoinThread, FreePool, network, metrics, ring, workers
      <4> QED
        BY <2>2, <4>1, <4>2, <4>3 DEF CreatePool, CreateStep
    <3> QED
      BY <1>1, <3>1 DEF CountInv, metrics
  <2> QED
    BY <1>5, <2>1, <2>2 DEF Startup
<1>6. CASE AcceptLoop
  <2>1. CASE CheckFlag \/ Poll \/ AcceptFails
    BY <1>1, <2>1, SameHandlers
    DEF CheckFlag, Poll, AcceptFails, vars, CountInv, network, metrics, ring, workers
  <2>2. CASE Accept
    BY <1>1, <2>2, SameHandlers DEF Accept, SubmitCall, CountInv, metrics, ring, workers
  <2>3. CASE Submit
    <3>1. ~shutting_down
      BY <2>3 DEF Submit, PhaseInv, LoopStages
    <3>2. Listener \in Submitters /\ submit_state \in [Submitters -> SubmitStates]
      BY <1>1, ServerAssumption DEF TypeOK
    <3>3. CASE SubmitWait(Listener)
      BY <1>1, <2>3, <3>2, <3>3, SameHandlers
      DEF Submit, SubmitWait, CountInv, network, metrics, ring, workers
    <3>4. CASE SubmitEnqueue(Listener)
      BY <1>1, <2>3, <3>1, <3>2, <3>4, SameHandlers
      DEF Submit, SubmitEnqueue, CountInv, network, metrics
    <3> QED
      BY <2>3, <3>1, <3>3, <3>4 DEF Submit, SubmitStep, SubmitReject
  <2> QED
    BY <1>6, <2>1, <2>2, <2>3 DEF AcceptLoop
<1>7. CASE Teardown
  <2>1. CASE CloseListener \/ Report \/ Release
    BY <1>1, <2>1, SameHandlers
    DEF CloseListener, Report, Release, vars, CountInv, network, metrics, ring, workers
  <2>2. CASE Drain
    <3>1. Handling' = Handling /\ UNCHANGED <<queue_size, accepted, metrics>>
      BY <1>1, <2>2, SameHandlers
      DEF Drain, Destroy, DestroyStep, JoinThread, FreePool, network, metrics, ring, workers
    <3> QED
      BY <1>1, <2>2, <3>1 DEF Drain, CountInv, metrics
  <2> QED
    BY <1>7, <2>1, <2>2 DEF Teardown
<1> QED
  BY <1>2, <1>3, <1>4, <1>5, <1>6, <1>7 DEF ServerNext, ServerStep

-----------------------------------------------------------------------------
(* The summary. *)

SummaryInv ==
    /\ stage \notin {"release", "returned"} => summary = NoSummary
    /\ stage = "release" => summary # NoSummary
    /\ stage = "returned" => summary # NoSummary \/ accepted = 0
    /\ summary # NoSummary => summary = [requests |-> accepted, active |-> 0]

(* When the pool is gone, nobody handles a connection. *)
LEMMA NobodyHandles ==
  ASSUME IInv, lifecycle = "freed" \/ threads_started = 0
  PROVE  Handling = {}
<1>1. CASE lifecycle = "freed"
  BY <1>1, DrainedFromInv DEF DrainedBeforeFreed, Handling
<1>2. CASE threads_started = 0
  BY <1>2 DEF IInv, LifecycleInv, Handling, Workers
<1> QED
  BY <1>1, <1>2

(* What metrics_log_summary finds after thread_pool_destroy: every         *)
(* connection went from the queue to a worker, and every worker has left.  *)
LEMMA CountAtReport ==
  ASSUME IInv, CountInv, lifecycle = "freed", stage = "report"
  PROVE  total_requests = accepted /\ active_connections = 0
<1>1. queue_size = 0 /\ Handling = {}
  BY DrainedFromInv, NobodyHandles DEF DrainedBeforeFreed
<1> QED
  BY <1>1, FS_EmptySet DEF CountInv

(* Every step keeps it. *)
LEMMA SummaryInvNext ==
  ASSUME IInv, PhaseInv, CountInv, SummaryInv, [ServerNext]_ServerVars
  PROVE  SummaryInv'
<1>1. TypeOK
  BY DEF IInv, QueueInv
<1>2. CASE (\E w \in Workers : WorkerRuns(w)) \/ Spurious
  BY <1>1, <1>2, OwnerUndisturbed DEF SummaryInv, server, network
<1>3. CASE ClientConnects \/ Signal \/ ServerFinished \/ UNCHANGED ServerVars
  BY <1>3 DEF ClientConnects, Signal, ServerFinished, ServerVars, SummaryInv, server, network
<1>4. CASE Startup
  BY <1>4 DEF Startup, Acquire, AcquireFails, CreatePool, NoPool, CountInv, SummaryInv, network
<1>5. CASE AcceptLoop
  BY <1>5 DEF AcceptLoop, CheckFlag, Poll, Accept, AcceptFails, Submit, SummaryInv, network
<1>6. CASE CloseListener \/ Drain \/ Release
  BY <1>6 DEF CloseListener, Drain, Release, SummaryInv, network
<1>7. CASE Report
  <2>1. total_requests = accepted /\ active_connections = 0 /\ accepted \in Nat
    BY <1>7, CountAtReport DEF Report, PhaseInv, CountInv
  <2>2. summary' = [requests |-> accepted, active |-> 0]
    BY <1>7, <2>1 DEF Report
  <2>3. summary' # NoSummary
    BY <2>1, <2>2, ServerAssumption
  <2> QED
    BY <1>7, <2>2, <2>3 DEF Report, SummaryInv, network
<1> QED
  BY <1>2, <1>3, <1>4, <1>5, <1>6, <1>7 DEF ServerNext, ServerStep, Teardown

-----------------------------------------------------------------------------
(* The theorems. *)

SInv == IInv /\ PhaseInv /\ NetworkInv /\ CountInv /\ SummaryInv

(* The inductive invariant holds in every reachable state of the server.   *)
THEOREM ServerInductive == ServerSpec => []SInv
<1>1. ServerInit => SInv
  <2>1. ServerInit => IInv
    BY IInvInit DEF ServerInit
  <2>2. ServerInit => SummaryInv
    BY DEF ServerInit, SummaryInv
  <2> QED
    BY <2>1, <2>2, PhaseInvInit, NetworkInvInit, CountInvInit DEF SInv
<1>2. SInv /\ [ServerNext]_ServerVars => SInv'
  <2> SUFFICES ASSUME SInv, [ServerNext]_ServerVars PROVE SInv'
    OBVIOUS
  <2>1. IInv'
    BY ServerStepIsPoolStep, IInvNext DEF SInv
  <2>2. PhaseInv'
    BY PhaseInvNext DEF SInv
  <2>3. NetworkInv'
    BY NetworkInvNext DEF SInv
  <2>4. CountInv'
    BY CountInvNext DEF SInv
  <2>5. SummaryInv'
    BY SummaryInvNext DEF SInv
  <2> QED
    BY <2>1, <2>2, <2>3, <2>4, <2>5 DEF SInv
<1> QED
  BY <1>1, <1>2, PTL DEF ServerSpec

(* Every variable of the server keeps its type; in particular the backlog  *)
(* is never taken from when it is empty.                                   *)
THEOREM ServerTypeCorrect == ServerSpec => []ServerTypeOK
<1>1. SInv => ServerTypeOK
  <2> SUFFICES ASSUME SInv PROVE ServerTypeOK
    OBVIOUS
  <2>1. summary \in [requests : Nat, active : Nat] \cup {NoSummary}
    BY DEF SInv, SummaryInv, CountInv
  <2> QED
    BY <2>1 DEF SInv, PhaseInv, NetworkInv, CountInv, ServerTypeOK
<1> QED
  BY <1>1, ServerInductive, PTL

(* The cache, the metrics and the sockets outlive every handler that uses  *)
(* them, however the server comes to its end.                              *)
THEOREM HandlersAlwaysServed == ServerSpec => []HandlersAreServed
<1>1. SInv => HandlersAreServed
  <2> SUFFICES ASSUME SInv, Handling # {}
               PROVE  {"sockets", "metrics", "cache"} \subseteq live /\ stage # "returned"
    BY DEF HandlersAreServed
  <2>1. lifecycle # "freed" /\ threads_started # 0
    BY NobodyHandles DEF SInv
  <2> QED
    BY <2>1 DEF SInv, PhaseInv, Stages, LoopStages, Resources
<1> QED
  BY <1>1, ServerInductive, PTL

(* proxy_server_run releases all it has acquired, on each of its returns.  *)
THEOREM EverythingIsReleased == ServerSpec => []EverythingReleased
<1>1. SInv => EverythingReleased
  <2> SUFFICES ASSUME SInv, stage = "returned"
               PROVE  /\ live = {}
                      /\ lifecycle = "freed" \/ threads_started = 0
                      /\ \A w \in Workers : worker_state[w] \in {"unborn", "exited"}
    BY DEF EverythingReleased
  <2>1. live = {} /\ (lifecycle = "freed" \/ threads_started = 0)
    BY DEF SInv, PhaseInv
  <2>2. CASE lifecycle = "freed"
    BY <2>1, <2>2, DrainedFromInv DEF SInv, DrainedBeforeFreed
  <2>3. CASE threads_started = 0
    BY <2>1, <2>3 DEF SInv, IInv, LifecycleInv, Workers
  <2> QED
    BY <2>1, <2>2, <2>3
<1> QED
  BY <1>1, ServerInductive, PTL

(* No accepted connection is ever closed unserved. *)
THEOREM NoneIsLost == ServerSpec => []NoneLost
<1>1. SInv => NoneLost
  BY DEF SInv, CountInv, NoneLost
<1> QED
  BY <1>1, ServerInductive, PTL

(* The summary is printed after everything that it counts. *)
THEOREM SummaryIsComplete == ServerSpec => []SummaryComplete
<1>1. SInv => SummaryComplete
  BY DEF SInv, SummaryInv, CountInv, SummaryComplete
<1> QED
  BY <1>1, ServerInductive, PTL

(* The loop looks at the flag between any two connections. *)
THEOREM OneLateAtMost == ServerSpec => []AtMostOneLate
<1>1. SInv => AtMostOneLate
  BY DEF SInv, NetworkInv, AtMostOneLate
<1> QED
  BY <1>1, ServerInductive, PTL

(* The server's queue is a FIFO as well: seen through the clients between  *)
(* proxy_server_run and the handlers, every execution of the server is one *)
(* of JobQueue.  Clients are served in the order they were accepted, each  *)
(* by one worker, and none enters after thread_pool_shutdown.              *)
THEOREM ServerIsJobQueue == ServerSpec => JQ!Safety
<1>1. ServerInit => JQ!Init
  BY InitSimulation DEF ServerInit
<1>2. IInv /\ IInv' /\ [ServerNext]_ServerVars => [JQ!Next]_(JQ!qvars)
  BY ServerStepIsPoolStep, StepSimulation
<1> QED
  BY <1>1, <1>2, PoolInServer, PTL DEF ServerSpec, JQ!Safety

(* Whom the thread of proxy_server_run waits for: in a submit that waits   *)
(* for a slot, a worker that is awake, and in a join, the worker it joins, *)
(* which has left or is awake.                                             *)
ServerWaitsForTheAwake ==
    /\ submit_state[Listener] = "asleep" => AwakeWorkers # {}
    /\ lifecycle = "joining" /\ threads_joined < threads_started =>
          worker_state[threads_joined + 1] = "exited" \/ threads_joined + 1 \in AwakeWorkers

(* A full queue, a full backlog, a failed startup or a signal at any       *)
(* moment: the server never waits for a thread that waits for it, for any  *)
(* number of workers and any capacity.                                     *)
THEOREM ServerNeverStuck == ServerSpec => []ServerWaitsForTheAwake
<1>1. IInv => ServerWaitsForTheAwake
  <2> SUFFICES ASSUME IInv PROVE ServerWaitsForTheAwake
    OBVIOUS
  <2>1. TypeOK /\ NobodyWaitsInVain
    BY AwakeFromInv DEF IInv, QueueInv
  <2>2. ASSUME submit_state[Listener] = "asleep" PROVE AwakeWorkers # {}
    <3>1. Submitters = {Listener}
      BY ServerAssumption
    <3>2. SleepingSubmitters # {} /\ ContendingSubmitters = {}
      BY <2>2, <3>1 DEF SleepingSubmitters, ContendingSubmitters
    <3> QED
      BY <2>1, <3>2 DEF NobodyWaitsInVain
  <2>3. ASSUME lifecycle = "joining", threads_joined < threads_started
        PROVE  worker_state[threads_joined + 1] = "exited" \/ threads_joined + 1 \in AwakeWorkers
    <3>1. threads_joined + 1 \in Workers /\ threads_joined + 1 <= threads_started
      BY <2>1, <2>3, PoolAssumption DEF TypeOK, Workers
    <3> QED
      BY <2>1, <2>3, <3>1 DEF NobodyWaitsInVain
  <2> QED
    BY <2>2, <2>3 DEF ServerWaitsForTheAwake
<1> QED
  BY <1>1, PoolInServer, PTL

(* The drain of the server, and that of a pool that could not be created   *)
(* whole: whatever clients, signals and handlers do meanwhile, each step   *)
(* in the pool is one of at most 2 * slots + 3 * workers + 1.              *)
THEOREM DrainAlwaysGoesOn == ServerSpec => [][DestroyGoesOn]_vars
<1>1. IInv /\ [ServerNext]_ServerVars => [DestroyGoesOn]_vars
  BY ServerStepIsPoolStep, DestroyGoesOnNext
<1> QED
  BY <1>1, PoolInServer, PTL DEF ServerSpec
=============================================================================
