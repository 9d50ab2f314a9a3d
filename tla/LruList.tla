------------------------------ MODULE LruList ------------------------------
(***************************************************************************)
(* src/src/lru.c: the doubly linked list that keeps the entries of the     *)
(* cache in order of use, pointer by pointer.  A list is a record of its   *)
(* head, its tail, its entry_count and the prev and next fields of every   *)
(* entry there is; NULL is the null pointer.                               *)
(*                                                                         *)
(* Definitions under "Mutant" are not part of the specification: each is   *)
(* the definition below it with a slip (see README.md).                    *)
(***************************************************************************)
EXTENDS Naturals, FiniteSets

CONSTANTS Entries,  \* the objects a pointer can point to
          NULL

ASSUME NullAssumption == NULL \notin Entries

Lists == [head : Entries \cup {NULL}, tail : Entries \cup {NULL}, entry_count : Nat,
          prev : [Entries -> Entries \cup {NULL}],
          next : [Entries -> Entries \cup {NULL}]]

(* lru_init; calloc has cleared the entries' own fields. *)
EmptyList == [head |-> NULL, tail |-> NULL, entry_count |-> 0,
              prev |-> [e \in Entries |-> NULL], next |-> [e \in Entries |-> NULL]]

(* lru_attach_front *)
AttachFront(l, e) ==
    [head |-> e,
     tail |-> IF l.head = NULL THEN e ELSE l.tail,
     entry_count |-> l.entry_count + 1,
     prev |-> [x \in Entries |-> IF x = l.head THEN e
                                 ELSE IF x = e THEN NULL ELSE l.prev[x]],
     next |-> [l.next EXCEPT ![e] = l.head]]

(* Mutant: the tail is not moved when the last entry leaves. *)
DetachKeepingTail(l, e) ==
    [head |-> IF l.prev[e] = NULL THEN l.next[e] ELSE l.head,
     tail |-> l.tail,
     entry_count |-> IF l.entry_count > 0 THEN l.entry_count - 1 ELSE l.entry_count,
     prev |-> [x \in Entries |-> IF x = e THEN NULL
                                 ELSE IF x = l.next[e] THEN l.prev[e] ELSE l.prev[x]],
     next |-> [x \in Entries |-> IF x = e THEN NULL
                                 ELSE IF x = l.prev[e] THEN l.next[e] ELSE l.next[x]]]

(* lru_detach *)
Detach(l, e) ==
    [head |-> IF l.prev[e] = NULL THEN l.next[e] ELSE l.head,
     tail |-> IF l.next[e] = NULL THEN l.prev[e] ELSE l.tail,
     entry_count |-> IF l.entry_count > 0 THEN l.entry_count - 1 ELSE l.entry_count,
     prev |-> [x \in Entries |-> IF x = e THEN NULL
                                 ELSE IF x = l.next[e] THEN l.prev[e] ELSE l.prev[x]],
     next |-> [x \in Entries |-> IF x = e THEN NULL
                                 ELSE IF x = l.prev[e] THEN l.next[e] ELSE l.next[x]]]

(* Mutant: an entry that was used stays where it is. *)
MoveToFrontForgotten(l, e) == l

(* lru_move_to_front *)
MoveToFront(l, e) == IF l.head = e THEN l ELSE AttachFront(Detach(l, e), e)

(* lru_remove_tail, of a list whose tail is not NULL: the list that is left*)
RemoveTail(l) == Detach(l, l.tail)

-----------------------------------------------------------------------------
(* The pointers of l run through the entries in S, each of them once, in   *)
(* the order of s: from the head along next, from the tail along prev.     *)
InOrder(l, s, S) ==
    LET n == l.entry_count
    IN  /\ s \in [1 .. n -> S]
        /\ \A e \in S : \E i \in 1 .. n : s[i] = e
        /\ \A i, j \in 1 .. n : s[i] = s[j] => i = j
        /\ l.head = IF n = 0 THEN NULL ELSE s[1]
        /\ l.tail = IF n = 0 THEN NULL ELSE s[n]
        /\ \A i \in 1 .. n : /\ l.prev[s[i]] = IF i = 1 THEN NULL ELSE s[i - 1]
                             /\ l.next[s[i]] = IF i = n THEN NULL ELSE s[i + 1]

Links(l, S) == \E s \in [1 .. l.entry_count -> S] : InOrder(l, s, S)

(* The order in which l links the entries in S. *)
Order(l, S) == CHOOSE s \in [1 .. l.entry_count -> S] : InOrder(l, s, S)
=============================================================================
