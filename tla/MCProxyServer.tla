--------------------------- MODULE MCProxyServer ---------------------------
(***************************************************************************)
(* ProxyServer on small instances.                                         *)
(***************************************************************************)
EXTENDS ProxyServer

(* Enough handles for every worker to be busy, the queue to be full and    *)
(* the accept loop to be held up by it, all at once.                       *)
ASSUME HandlesForAll == Cardinality(Clients) >= WorkerCount + QueueCapacity + 1
=============================================================================
