------------------------------ MODULE LruCache ------------------------------
(***************************************************************************)
(* What the response cache promises, without its hash table, its linked    *)
(* list, its byte counter or its allocations: a bounded store that, to     *)
(* make room for a new object, drops the objects that were not used for    *)
(* the longest time, one after the other, and no more of them than needed, *)
(* and says so, whether the new object is then stored or not.              *)
(***************************************************************************)
EXTENDS Naturals, Sequences, FiniteSets

CONSTANTS Keys, Objects,
          SizeOf,     \* the size of every object in bytes
          MaxTotal,   \* the bytes all stored objects may take together
          MaxObject,  \* the bytes one of them may take
          NoKey, NoObject

VARIABLES recency,  \* the stored keys, the last one used first
          stored,   \* the object under each key, or NoObject
          pending,  \* the <<key, object>> room is being made for
          result,   \* what the last call returned
          evicted   \* whether the last store has dropped anything

lvars == <<recency, stored, pending, result, evicted>>

Idle == <<NoKey, NoObject>>

(* The keys of s, each of which is there once, but k. *)
Without(s, k) ==
    IF \E i \in DOMAIN s : s[i] = k
    THEN LET at == CHOOSE i \in DOMAIN s : s[i] = k
         IN  [i \in 1 .. Len(s) - 1 |-> IF i < at THEN s[i] ELSE s[i + 1]]
    ELSE s

ToFront(s, k) == <<k>> \o Without(s, k)

(* The bytes of the stored objects, counted one by one. *)
Used == Cardinality(UNION {{i} \X (1 .. SizeOf[stored[recency[i]]]) : i \in DOMAIN recency})
Fits == Used + SizeOf[pending[2]] <= MaxTotal

Init == /\ recency = <<>>
        /\ stored = [k \in Keys |-> NoObject]
        /\ pending = Idle
        /\ result = "none"
        /\ evicted = FALSE

Acceptable(o) == SizeOf[o] \in 1 .. MaxObject

(* A new key, or a bigger object under an old one: room may be needed.     *)
(* The old object does not count against the room, and is not dropped.     *)
Begin(k, o) ==
    /\ pending = Idle
    /\ Acceptable(o)
    /\ stored[k] # NoObject => SizeOf[o] > SizeOf[stored[k]]
    /\ pending' = <<k, o>>
    /\ recency' = Without(recency, k)
    /\ evicted' = FALSE
    /\ UNCHANGED <<stored, result>>

(* Too little room: the least recently used object goes. *)
Drop ==
    /\ pending # Idle
    /\ ~Fits
    /\ recency # <<>>
    /\ stored' = [stored EXCEPT ![recency[Len(recency)]] = NoObject]
    /\ recency' = SubSeq(recency, 1, Len(recency) - 1)
    /\ evicted' = TRUE
    /\ UNCHANGED <<pending, result>>

Commit ==
    /\ pending # Idle
    /\ Fits
    /\ stored' = [stored EXCEPT ![pending[1]] = pending[2]]
    /\ recency' = <<pending[1]>> \o recency
    /\ pending' = Idle
    /\ result' = "stored"
    /\ UNCHANGED evicted

(* Out of memory after all: what was stored under the key stays. *)
Abandon ==
    /\ pending # Idle
    /\ Fits
    /\ recency' = IF stored[pending[1]] = NoObject THEN recency
                  ELSE <<pending[1]>> \o recency
    /\ pending' = Idle
    /\ result' = "not stored"
    /\ UNCHANGED <<stored, evicted>>

(* An object that is not bigger than the one it replaces needs no room. *)
Overwrite(k, o) ==
    /\ pending = Idle
    /\ Acceptable(o)
    /\ stored[k] # NoObject /\ SizeOf[o] <= SizeOf[stored[k]]
    /\ stored' = [stored EXCEPT ![k] = o]
    /\ recency' = ToFront(recency, k)
    /\ result' = "stored"
    /\ evicted' = FALSE
    /\ UNCHANGED pending

(* An unacceptable object, or no memory: nothing changes. *)
Refuse(k, o) ==
    /\ pending = Idle
    /\ Acceptable(o) => stored[k] # NoObject
    /\ result' = "not stored"
    /\ evicted' = FALSE
    /\ UNCHANGED <<recency, stored, pending>>

Hit(k) ==
    /\ pending = Idle
    /\ stored[k] # NoObject
    /\ recency' = ToFront(recency, k)
    /\ result' = stored[k]
    /\ UNCHANGED <<stored, pending, evicted>>

(* Nothing there, or no memory for the copy. *)
Miss(k) ==
    /\ pending = Idle
    /\ result' = "miss"
    /\ UNCHANGED <<recency, stored, pending, evicted>>

Clear ==
    /\ pending = Idle
    /\ recency' = <<>>
    /\ stored' = [k \in Keys |-> NoObject]
    /\ UNCHANGED <<pending, result, evicted>>

Next == \/ \E k \in Keys, o \in Objects : Begin(k, o) \/ Overwrite(k, o) \/ Refuse(k, o)
        \/ Drop \/ Commit \/ Abandon
        \/ \E k \in Keys : Hit(k) \/ Miss(k)
        \/ Clear

Safety == Init /\ [][Next]_lvars

(* A store that was begun comes to an end. *)
Spec == Safety /\ WF_lvars(Drop \/ Commit \/ Abandon)
=============================================================================
