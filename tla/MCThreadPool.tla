---------------------------- MODULE MCThreadPool ----------------------------
(***************************************************************************)
(* ThreadPool on small instances.  The only bound is on the number of      *)
(* handles that are open at the same time; a handle that was closed can be *)
(* accepted again, so the behaviours themselves are not bounded.           *)
(***************************************************************************)
EXTENDS ThreadPool

(* Enough handles for every worker to be busy, the queue to be full and    *)
(* every submitter to be held up by it, all at once.                       *)
ASSUME EnoughHandles ==
    Cardinality(Clients) >= WorkerCount + QueueCapacity + Cardinality(Submitters)
=============================================================================
