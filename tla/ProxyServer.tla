---------------------------- MODULE ProxyServer ----------------------------
(***************************************************************************)
(* The life of the server: proxy_server_run of src/src/proxy_server.c with *)
(* the listening socket, the signal flag and the metrics' summary, around  *)
(* the thread pool of ThreadPool, whose only submitter and owner it is.    *)
(*                                                                         *)
(* The thread of proxy_server_run goes from stage to stage; the workers,   *)
(* the clients that connect and the signal handler run beside it.  Calls   *)
(* in a row that nobody else can see the middle of are one step.           *)
(***************************************************************************)
EXTENDS ThreadPool, Integers

CONSTANTS Listener,        \* the thread of proxy_server_run
          Backlog,         \* PROXY_SERVER_BACKLOG
          MaxConnections,  \* bound on the clients of a behaviour
          NoSummary

ASSUME ServerAssumption ==
    /\ Submitters = {Listener}
    /\ ~ConcurrentShutdown
    /\ Backlog \in Nat /\ MaxConnections \in Nat
    /\ NoSummary \notin [requests : Nat, active : Nat]

VARIABLES
    stage,               \* where proxy_server_run is
    live,                \* what it has acquired and not released yet
    result,              \* its result
    shutdown_requested,  \* g_shutdown_requested
    connected,           \* clients that have connected so far
    backlog,             \* those the listening socket still holds
    accepted,            \* those accept has returned
    late,                \* those accepted after the signal
    total_requests,      \* metrics->counters.total_requests
    active_connections,  \* metrics->counters.active_connections
    summary              \* what metrics_log_summary has printed

server == <<stage, live, result>>
network == <<connected, backlog, accepted, late>>
metrics == <<total_requests, active_connections>>
ServerVars == <<vars, server, shutdown_requested, network, metrics, summary>>

Stages == {"startup", "pool", "check", "poll", "accept", "submit",
           "close", "drain", "report", "release", "returned"}
LoopStages == {"check", "poll", "accept", "submit"}

-----------------------------------------------------------------------------
(* Startup.  Each acquisition may fail, and then what the earlier ones got *)
(* is released in a branch of its own.                                     *)

Resources == {"sockets", "metrics", "listener", "cache"}

(* What is there when each of them is acquired. *)
Before == [sockets  |-> {},
           metrics  |-> {"sockets"},
           listener |-> {"sockets", "metrics"},
           cache    |-> {"sockets", "metrics", "listener"}]

(* Mutant: the branch of a failed cache_create keeps the listener open. *)
UndoKeepingListener(r) ==
    CASE r = "sockets"  -> {}
      [] r = "metrics"  -> {"sockets"}
      [] r = "listener" -> {"metrics", "sockets"}
      [] r = "cache"    -> {"metrics", "sockets"}
      [] r = "pool"     -> {"cache", "listener", "metrics", "sockets"}

(* What the branch for the failure of each of them calls the destructor    *)
(* of, written out there branch by branch.                                 *)
Undo(r) ==
    CASE r = "sockets"  -> {}
      [] r = "metrics"  -> {"sockets"}
      [] r = "listener" -> {"metrics", "sockets"}
      [] r = "cache"    -> {"listener", "metrics", "sockets"}
      [] r = "pool"     -> {"cache", "listener", "metrics", "sockets"}

Acquire(r) ==
    /\ stage = "startup"
    /\ live = Before[r]
    /\ live' = live \cup {r}
    /\ stage' = IF r = "cache" THEN "pool" ELSE stage
    /\ UNCHANGED <<vars, result, shutdown_requested, network, metrics, summary>>

(* socket_utils_create_listener closes its socket itself if it cannot be   *)
(* bound, so that a failure leaves nothing of r behind.                    *)
AcquireFails(r) ==
    /\ stage = "startup"
    /\ live = Before[r]
    /\ live' = live \ Undo(r)
    /\ stage' = "returned"
    /\ UNCHANGED <<vars, result, shutdown_requested, network, metrics, summary>>

(* thread_pool_create; when a thread cannot be started it destroys what it *)
(* built before it returns NULL.  Only then is the signal handler set.     *)
CreatePool ==
    /\ stage = "pool"
    /\ CreateStep \/ DestroyStep
    /\ stage' = IF lifecycle' = "running" THEN "check" ELSE stage
    /\ UNCHANGED <<live, result, shutdown_requested, network, metrics, summary>>

(* thread_pool_create returned NULL, possibly before it started a thread.  *)
NoPool ==
    /\ stage = "pool"
    /\ lifecycle = "freed" \/ (lifecycle = "creating" /\ threads_started = 0)
    /\ live' = live \ Undo("pool")
    /\ stage' = "returned"
    /\ UNCHANGED <<vars, result, shutdown_requested, network, metrics, summary>>

-----------------------------------------------------------------------------
(* The accept loop *)

CheckFlag ==
    /\ stage = "check"
    /\ IF shutdown_requested
       THEN stage' = "close" /\ result' = 0
       ELSE stage' = "poll" /\ UNCHANGED result
    /\ UNCHANGED <<vars, live, shutdown_requested, network, metrics, summary>>

(* Mutant: polls again without a look at the flag. *)
PollAgain ==
    /\ stage = "poll"
    /\ \/ backlog > 0 /\ stage' = "accept"
       \/ backlog = 0 /\ stage' = "poll"
    /\ UNCHANGED <<vars, live, result, shutdown_requested, network, metrics, summary>>

(* Mutant: a poll that ran out of time is taken for a ready socket. *)
PollIgnoringTimeout ==
    /\ stage = "poll"
    /\ stage' \in {"accept", "close"}
    /\ UNCHANGED <<vars, live, result, shutdown_requested, network, metrics, summary>>

(* socket_utils_wait_for_readable: a client waits, the timeout runs out,   *)
(* or select fails, which ends the loop.                                   *)
Poll ==
    /\ stage = "poll"
    /\ \/ backlog > 0 /\ stage' = "accept"
       \/ backlog = 0 /\ stage' = "check"
       \/ stage' = "close"
    /\ UNCHANGED <<vars, live, result, shutdown_requested, network, metrics, summary>>

(* socket_utils_accept gives the client some handle that is not open, and  *)
(* thread_pool_submit is called with it.                                   *)
Accept ==
    /\ stage = "accept"
    /\ \E c \in Clients : SubmitCall(Listener, c)
    /\ stage' = "submit"
    /\ backlog' = backlog - 1
    /\ accepted' = accepted + 1
    /\ late' = IF shutdown_requested THEN late + 1 ELSE late
    /\ UNCHANGED <<live, result, shutdown_requested, connected, metrics, summary>>

(* accept fails, for want of a handle or because the client is gone: the   *)
(* loop ends as well.                                                      *)
AcceptFails ==
    /\ stage = "accept"
    /\ stage' = "close"
    /\ UNCHANGED <<vars, live, result, shutdown_requested, network, metrics, summary>>

(* Mutant: a client that finds the queue full is dropped. *)
SubmitOrDrop ==
    /\ stage = "submit"
    /\ \/ SubmitEnqueue(Listener)
       \/ /\ QueueFull
          /\ submit_state' = [submit_state EXCEPT ![Listener] = "out"]
          /\ submit_job' = [submit_job EXCEPT ![Listener] = NoJob]
          /\ UNCHANGED <<ring, owner, shutting_down, workers>>
    /\ stage' = "check"
    /\ UNCHANGED <<live, result, shutdown_requested, network, metrics, summary>>

(* Mutant: the next turn of the loop starts with the poll. *)
SubmitThenPoll ==
    /\ stage = "submit"
    /\ SubmitStep(Listener)
    /\ stage' = IF submit_state'[Listener] = "out" THEN "poll" ELSE stage
    /\ UNCHANGED <<live, result, shutdown_requested, network, metrics, summary>>

(* thread_pool_submit goes on.  If it were to reject the job, because the  *)
(* pool is shutting down, the loop would close the socket and end.         *)
Submit ==
    /\ stage = "submit"
    /\ SubmitStep(Listener)
    /\ stage' = IF submit_state'[Listener] # "out" THEN stage
                ELSE IF shutting_down THEN "close" ELSE "check"
    /\ UNCHANGED <<live, result, shutdown_requested, network, metrics, summary>>

-----------------------------------------------------------------------------
(* Teardown, the same after a signal and after an error *)

(* Mutant: the cache goes first. *)
CloseListenerAndCache ==
    /\ stage = "close"
    /\ live' = live \ {"listener", "cache"}
    /\ backlog' = 0
    /\ stage' = "drain"
    /\ UNCHANGED <<vars, result, shutdown_requested, connected, accepted, late, metrics, summary>>

(* The clients in the backlog are gone with the listening socket. *)
CloseListener ==
    /\ stage = "close"
    /\ live' = live \ {"listener"}
    /\ backlog' = 0
    /\ stage' = "drain"
    /\ UNCHANGED <<vars, result, shutdown_requested, connected, accepted, late, metrics, summary>>

(* thread_pool_destroy *)
Drain ==
    /\ stage = "drain"
    /\ Destroy \/ DestroyStep
    /\ stage' = IF lifecycle' = "freed" THEN "report" ELSE stage
    /\ UNCHANGED <<live, result, shutdown_requested, network, metrics, summary>>

(* metrics_log_summary prints a snapshot of the counters. *)
Report ==
    /\ stage = "report"
    /\ summary' = [requests |-> total_requests, active |-> active_connections]
    /\ stage' = "release"
    /\ UNCHANGED <<vars, live, result, shutdown_requested, network, metrics>>

(* metrics_destroy, cache_destroy, socket_utils_cleanup *)
Release ==
    /\ stage = "release"
    /\ live' = live \ {"metrics", "cache", "sockets"}
    /\ stage' = "returned"
    /\ UNCHANGED <<vars, result, shutdown_requested, network, metrics, summary>>

-----------------------------------------------------------------------------
(* Beside it *)

(* The kernel completes a client's connection. *)
ClientConnects ==
    /\ "listener" \in live
    /\ backlog < Backlog /\ connected < MaxConnections
    /\ backlog' = backlog + 1
    /\ connected' = connected + 1
    /\ UNCHANGED <<vars, server, shutdown_requested, accepted, late, metrics, summary>>

(* SIGINT or SIGTERM, once the handler is set. *)
Signal ==
    /\ stage \notin {"startup", "pool", "returned"}
    /\ ~shutdown_requested
    /\ shutdown_requested' = TRUE
    /\ UNCHANGED <<vars, server, network, metrics, summary>>

(* process_client_connection counts its client first, and takes it off the *)
(* active ones last; in between it is RequestHandler.                      *)
WorkerRuns(w) ==
    /\ \/ WorkerWait(w) /\ UNCHANGED metrics
       \/ WorkerExit(w) /\ UNCHANGED metrics
       \/ /\ WorkerTake(w)
          /\ total_requests' = total_requests + 1
          /\ active_connections' = active_connections + 1
       \/ /\ HandlerReturn(w)
          /\ active_connections' = IF active_connections > 0 THEN active_connections - 1 ELSE 0
          /\ UNCHANGED total_requests
    /\ UNCHANGED <<server, shutdown_requested, network, summary>>

Spurious == SpuriousWakeup /\ UNCHANGED <<server, shutdown_requested, network, metrics, summary>>

(* The process has ended. *)
ServerFinished == stage = "returned" /\ UNCHANGED ServerVars

-----------------------------------------------------------------------------
ServerInit ==
    /\ Init
    /\ stage = "startup"
    /\ live = {}
    /\ result = -1
    /\ shutdown_requested = FALSE
    /\ connected = 0
    /\ backlog = 0
    /\ accepted = 0
    /\ late = 0
    /\ total_requests = 0
    /\ active_connections = 0
    /\ summary = NoSummary

Startup == (\E r \in Resources : Acquire(r) \/ AcquireFails(r)) \/ CreatePool \/ NoPool
AcceptLoop == CheckFlag \/ Poll \/ Accept \/ AcceptFails \/ Submit
Teardown == CloseListener \/ Drain \/ Report \/ Release
ServerStep == Startup \/ AcceptLoop \/ Teardown

ServerNext ==
    \/ ServerStep
    \/ \E w \in Workers : WorkerRuns(w)
    \/ Spurious
    \/ ClientConnects
    \/ Signal
    \/ ServerFinished

(* The server's thread and the workers run on; their waits end by a        *)
(* timeout, and every handler returns (see RequestHandler).  No client has *)
(* to connect and no signal has to come.                                   *)
ServerFairness ==
    /\ WF_ServerVars(ServerStep)
    /\ \A w \in Workers : WF_ServerVars(WorkerRuns(w))

ServerSpec == ServerInit /\ [][ServerNext]_ServerVars /\ ServerFairness

-----------------------------------------------------------------------------
(* Properties *)

(* Every variable keeps its type. *)
ServerTypeOK ==
    /\ stage \in Stages
    /\ live \subseteq Resources
    /\ result \in {0, -1}
    /\ shutdown_requested \in BOOLEAN
    /\ connected \in 0 .. MaxConnections
    /\ backlog \in 0 .. Backlog
    /\ accepted \in Nat /\ late \in Nat
    /\ total_requests \in Nat /\ active_connections \in Nat
    /\ summary \in [requests : Nat, active : Nat] \cup {NoSummary}

Handling == {w \in Workers : worker_state[w] = "handling"}

(* A connection handler uses the sockets, the metrics, the cache and the   *)
(* context on the stack of proxy_server_run without a check: they are all  *)
(* still there as long as any worker is in one, whatever ended the loop.   *)
HandlersAreServed ==
    Handling # {} => {"sockets", "metrics", "cache"} \subseteq live /\ stage # "returned"

(* However proxy_server_run returns - one of the startup steps failed, a   *)
(* thread could not be started, the loop ended by a signal or by an error  *)
(* - it has released all it acquired, and none of its threads is running.  *)
EverythingReleased ==
    stage = "returned" =>
        /\ live = {}
        /\ lifecycle = "freed" \/ threads_started = 0
        /\ \A w \in Workers : worker_state[w] \in {"unborn", "exited"}

(* Every connection that was accepted is counted, waits in the queue or is *)
(* about to be enqueued: the branch of the loop that closes the socket of  *)
(* a rejected client is never taken, not even in a shutdown.               *)
NoneLost ==
    accepted = total_requests + queue_size + (IF stage = "submit" THEN 1 ELSE 0)

(* The summary counts every connection that was ever accepted and shows    *)
(* none as active, and result 0 or -1 after the loop always comes with it. *)
SummaryComplete ==
    /\ summary # NoSummary => summary = [requests |-> accepted, active |-> 0]
    /\ stage = "returned" /\ accepted > 0 => summary # NoSummary

(* After the signal the loop accepts one more connection at most, however  *)
(* many wait.                                                              *)
AtMostOneLate == late <= 1

(* The run ends: its startup comes to an end, whichever step of it fails,  *)
(* a signal ends the server also when it is stuck in thread_pool_submit    *)
(* and with connections still queued, and so does an error of the loop; no *)
(* join waits for a thread that was never started or never woken.          *)
RunEnds ==
    /\ stage \in {"startup", "pool"} ~> stage \in {"check", "returned"}
    /\ (shutdown_requested \/ stage \in {"close", "drain", "report", "release"})
          ~> stage = "returned"

(* The loop gets round to the next waiting client, unless it ends: a full  *)
(* queue delays it, but nothing blocks it for good.                        *)
NextIsAccepted ==
    \A n \in 0 .. MaxConnections - 1 :
        (backlog > 0 /\ accepted = n) ~> (accepted > n \/ stage \notin LoopStages)
=============================================================================
