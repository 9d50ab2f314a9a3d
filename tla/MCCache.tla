------------------------------ MODULE MCCache ------------------------------
(***************************************************************************)
(* Cache on a small instance: four keys, three of which collide, and       *)
(* objects of every size from empty to too big; three bytes in all, so     *)
(* that from one to three entries fit, and the largest object alone.       *)
(***************************************************************************)
EXTENDS Cache

MCSizeOf == [empty |-> 0, note |-> 1, page |-> 2, image |-> 3, dump |-> 4]
MCObjects == DOMAIN MCSizeOf

MCHash == [a |-> 0, b |-> 0, c |-> 0, d |-> 1]
MCKeys == DOMAIN MCHash
=============================================================================
