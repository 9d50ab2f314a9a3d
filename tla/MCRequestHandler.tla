-------------------------- MODULE MCRequestHandler --------------------------
(***************************************************************************)
(* RequestHandler on small instances: a response the capture limit lets    *)
(* through and one it does not.                                            *)
(***************************************************************************)
EXTENDS RequestHandler, TLC

MCLength == [note |-> 1, page |-> 2, film |-> 3]
MCResponses == DOMAIN MCLength

Symmetry == Permutations(Workers) \cup Permutations(Sockets)
=============================================================================
