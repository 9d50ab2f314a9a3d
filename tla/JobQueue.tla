------------------------------ MODULE JobQueue ------------------------------
(***************************************************************************)
(* What the thread pool promises its caller, without its ring buffer, its  *)
(* mutex or its condition variables: a bounded FIFO of client jobs, each   *)
(* of which is served by exactly one worker, oldest first, and a door that *)
(* closes once and for all.  Jobs that are in the queue when the door      *)
(* closes are still served.                                                *)
(***************************************************************************)
EXTENDS Naturals, Sequences, FiniteSets

CONSTANTS Workers,   \* the worker threads
          Clients,   \* socket handles a client_job_t can carry
          NoJob,     \* SOCKET_HANDLE_INVALID
          Capacity   \* the most jobs that may wait

VARIABLES queue,     \* jobs that wait, oldest first
          serving,   \* the job each worker is handling
          open       \* whether new jobs are still admitted

qvars == <<queue, serving, open>>

InPool == {queue[i] : i \in DOMAIN queue} \cup {serving[w] : w \in Workers}

Init == /\ queue = <<>>
        /\ serving = [w \in Workers |-> NoJob]
        /\ open = TRUE

(* A job enters at the back of the queue. *)
Admit(c) == /\ open
            /\ Len(queue) < Capacity
            /\ c \notin InPool
            /\ queue' = Append(queue, c)
            /\ UNCHANGED <<serving, open>>

(* A worker without a job takes the oldest one. *)
Take(w) == /\ queue # <<>>
           /\ serving[w] = NoJob
           /\ serving' = [serving EXCEPT ![w] = Head(queue)]
           /\ queue' = Tail(queue)
           /\ UNCHANGED open

Finish(w) == /\ serving[w] # NoJob
             /\ serving' = [serving EXCEPT ![w] = NoJob]
             /\ UNCHANGED <<queue, open>>

Close == /\ open
         /\ open' = FALSE
         /\ UNCHANGED <<queue, serving>>

Next == \/ \E c \in Clients : Admit(c)
        \/ \E w \in Workers : Take(w) \/ Finish(w)
        \/ Close

(* Some worker takes a waiting job, and every handler returns. *)
Fairness == /\ WF_qvars(\E w \in Workers : Take(w))
            /\ \A w \in Workers : WF_qvars(Finish(w))

Safety == Init /\ [][Next]_qvars

Spec == Safety /\ Fairness
=============================================================================
