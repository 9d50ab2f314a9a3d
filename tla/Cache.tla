------------------------------- MODULE Cache -------------------------------
(***************************************************************************)
(* src/src/cache.c: the response cache that all workers share, a hash      *)
(* table of entries with a linked list (LruList) through them and a count  *)
(* of their bytes.  Its mutex is held for all of cache_put and cache_get,  *)
(* so that at most one call is under way; a call with a loop in it takes   *)
(* one step per turn, another call without a loop takes one step.          *)
(*                                                                         *)
(* An entry is the address calloc returned for it, and the chain of a      *)
(* bucket the sequence of entries that bucket_next leads through.          *)
(*                                                                         *)
(* Definitions under "Mutant" are not part of the specification: each is   *)
(* the definition below it with a slip (see README.md).                    *)
(***************************************************************************)
EXTENDS Naturals, Sequences, FiniteSets, LruList

CONSTANTS Keys,
          Objects,    \* response bytes, as cache_put gets them
          SizeOf,     \* size_bytes of each
          Buckets,    \* indices of the hash table
          Hash,       \* cache_hash_key(key) % bucket_count
          MaxTotal,   \* max_total_size_bytes
          MaxObject,  \* max_object_size_bytes
          NoKey, NoObject

ASSUME CacheAssumption ==
    /\ SizeOf \in [Objects -> Nat]
    /\ Hash \in [Keys -> Buckets]
    /\ MaxTotal \in Nat /\ MaxObject \in Nat
    /\ 0 < MaxObject /\ MaxObject <= MaxTotal  \* or cache_create fails
    /\ NoKey \notin Keys
    /\ NoObject \notin Objects

VARIABLES
    key, data,     \* the fields of every entry; NoKey if it is not allocated
    lru,           \* cache->lru_list with the entries' prev and next
    buckets,       \* cache->buckets, each with the chain that starts there
    current_size,  \* cache->current_size_bytes
    pc,            \* where the call that holds the mutex is
    put_key, put_object,  \* its arguments, while it makes room
    put_entry,     \* the entry it replaces
    result,        \* what the last call returned
    evicted        \* result->evicted of the last cache_put

table == <<key, data, lru, buckets, current_size>>
call == <<pc, put_key, put_object, put_entry>>
vars == <<table, call, result, evicted>>

Allocated == {e \in Entries : key[e] # NoKey}

(* The entry a growing cache_put works on is outside the list. *)
Listed == Allocated \ {put_entry}

Size(e) == SizeOf[data[e]]

-----------------------------------------------------------------------------
Chain(b) == {buckets[b][i] : i \in DOMAIN buckets[b]}

(* cache_find_entry_locked: the entry under key k, if there is one. *)
Matches(k) == {e \in Chain(Hash[k]) : key[e] = k}

(* The checks at the top of cache_put. *)
Acceptable(o) == SizeOf[o] # 0 /\ SizeOf[o] <= MaxObject /\ SizeOf[o] <= MaxTotal

Fits(o) == current_size + SizeOf[o] <= MaxTotal

(* The condition of the eviction loop. *)
MustEvict == ~Fits(put_object) /\ lru.tail # NULL

(* Mutant: previous is not moved along, so that the bucket's head skips    *)
(* the entries before e as well.                                           *)
SkippingFromHead(chain, e) ==
    IF \E i \in DOMAIN chain : chain[i] = e
    THEN LET at == CHOOSE i \in DOMAIN chain : chain[i] = e
         IN  SubSeq(chain, at + 1, Len(chain))
    ELSE chain

(* The chain that leads past e, if e is in it. *)
Skipping(chain, e) ==
    IF \E i \in DOMAIN chain : chain[i] = e
    THEN LET at == CHOOSE i \in DOMAIN chain : chain[i] = e
         IN  [i \in 1 .. Len(chain) - 1 |-> IF i < at THEN chain[i] ELSE chain[i + 1]]
    ELSE chain

(* cache_remove_from_bucket_locked *)
Unchain(e) == [buckets EXCEPT ![Hash[key[e]]] = Skipping(@, e)]

(* Mutant: the bytes of an evicted entry stay counted. *)
BytesWithoutForgotten(e) == current_size

(* What remains of the count when e goes. *)
BytesWithout(e) == IF current_size >= Size(e) THEN current_size - Size(e) ELSE 0

(* The call returns r and releases the mutex. *)
Return(r) ==
    /\ pc' = "idle"
    /\ put_key' = NoKey /\ put_object' = NoObject /\ put_entry' = NULL
    /\ result' = r

-----------------------------------------------------------------------------
(* cache_put *)

(* Empty or too big: refused before the mutex is taken. *)
PutRefuse(k, o) ==
    /\ pc = "idle"
    /\ ~Acceptable(o)
    /\ result' = "not stored"
    /\ evicted' = FALSE
    /\ UNCHANGED <<table, call>>

(* A new key: make room first. *)
PutNew(k, o) ==
    /\ pc = "idle"
    /\ Acceptable(o)
    /\ Matches(k) = {}
    /\ pc' = "insert" /\ put_key' = k /\ put_object' = o
    /\ evicted' = FALSE
    /\ UNCHANGED <<table, put_entry, result>>

(* Mutant: the entry stays in the list while room is made for it. *)
PutGrowInList(k, o) ==
    /\ pc = "idle"
    /\ Acceptable(o)
    /\ \E e \in Matches(k) :
          /\ SizeOf[o] > Size(e)
          /\ current_size' = current_size - Size(e)
          /\ pc' = "grow" /\ put_key' = k /\ put_object' = o /\ put_entry' = e
    /\ evicted' = FALSE
    /\ UNCHANGED <<key, data, lru, buckets, result>>

(* cache_replace_entry_locked with a bigger object: the entry leaves the   *)
(* list and its bytes the count while room is made.                        *)
PutGrow(k, o) ==
    /\ pc = "idle"
    /\ Acceptable(o)
    /\ \E e \in Matches(k) :
          /\ SizeOf[o] > Size(e)
          /\ current_size' = current_size - Size(e)
          /\ lru' = Detach(lru, e)
          /\ pc' = "grow" /\ put_key' = k /\ put_object' = o /\ put_entry' = e
    /\ evicted' = FALSE
    /\ UNCHANGED <<key, data, buckets, result>>

(* Mutant: the old object's bytes stay counted. *)
PutShrinkUncounted(k, o) ==
    /\ pc = "idle"
    /\ Acceptable(o)
    /\ \E e \in Matches(k) :
          /\ SizeOf[o] <= Size(e)
          /\ current_size' = current_size + SizeOf[o]
          /\ data' = [data EXCEPT ![e] = o]
          /\ lru' = MoveToFront(lru, e)
    /\ result' = "stored"
    /\ evicted' = FALSE
    /\ UNCHANGED <<key, buckets, call>>

(* ... with one that is not bigger: it takes the old one's place. *)
PutShrink(k, o) ==
    /\ pc = "idle"
    /\ Acceptable(o)
    /\ \E e \in Matches(k) :
          /\ SizeOf[o] <= Size(e)
          /\ current_size' = current_size - Size(e) + SizeOf[o]
          /\ data' = [data EXCEPT ![e] = o]
          /\ lru' = MoveToFront(lru, e)
    /\ result' = "stored"
    /\ evicted' = FALSE
    /\ UNCHANGED <<key, buckets, call>>

(* ... when malloc returns NULL: the count is put back, the old one stays. *)
PutShrinkFails(k, o) ==
    /\ pc = "idle"
    /\ Acceptable(o)
    /\ \E e \in Matches(k) : SizeOf[o] <= Size(e)
    /\ result' = "not stored"
    /\ evicted' = FALSE
    /\ UNCHANGED <<table, call>>

(* Mutant: a growing put does not tell that it evicted. *)
EvictTailUntold ==
    /\ pc \in {"insert", "grow"}
    /\ MustEvict
    /\ lru' = RemoveTail(lru)
    /\ buckets' = Unchain(lru.tail)
    /\ current_size' = BytesWithout(lru.tail)
    /\ key' = [key EXCEPT ![lru.tail] = NoKey]
    /\ data' = [data EXCEPT ![lru.tail] = NoObject]
    /\ evicted' = (evicted \/ pc = "insert")
    /\ UNCHANGED <<call, result>>

(* One turn of the loop in cache_evict_if_needed_with_result_locked.  The  *)
(* caller is told, also if the call fails behind the loop.                 *)
EvictTail ==
    /\ pc \in {"insert", "grow"}
    /\ MustEvict
    /\ lru' = RemoveTail(lru)
    /\ buckets' = Unchain(lru.tail)
    /\ current_size' = BytesWithout(lru.tail)
    /\ key' = [key EXCEPT ![lru.tail] = NoKey]
    /\ data' = [data EXCEPT ![lru.tail] = NoObject]
    /\ evicted' = TRUE
    /\ UNCHANGED <<call, result>>

(* The new entry is filled and linked. *)
InsertEntry ==
    /\ pc = "insert"
    /\ ~MustEvict /\ Fits(put_object)
    /\ \E e \in Entries \ Allocated :
          /\ key' = [key EXCEPT ![e] = put_key]
          /\ data' = [data EXCEPT ![e] = put_object]
          /\ buckets' = [buckets EXCEPT ![Hash[put_key]] = <<e>> \o @]
          /\ lru' = AttachFront(lru, e)
    /\ current_size' = current_size + SizeOf[put_object]
    /\ Return("stored")
    /\ UNCHANGED evicted

(* No room after all (the branch RoomIsFound shows to be dead), or calloc  *)
(* or malloc return NULL.                                                  *)
InsertFails ==
    /\ pc = "insert"
    /\ ~MustEvict
    /\ Return("not stored")
    /\ UNCHANGED <<table, evicted>>

(* The old entry gets the bigger object and is linked again.  (The         *)
(* lru_move_to_front that follows finds it at the front.)                  *)
GrowEntry ==
    /\ pc = "grow"
    /\ ~MustEvict /\ Fits(put_object)
    /\ data' = [data EXCEPT ![put_entry] = put_object]
    /\ lru' = AttachFront(lru, put_entry)
    /\ current_size' = current_size + SizeOf[put_object]
    /\ Return("stored")
    /\ UNCHANGED <<key, buckets, evicted>>

(* Mutant: the count is not put back. *)
GrowFailsUncounted ==
    /\ pc = "grow"
    /\ ~MustEvict
    /\ lru' = AttachFront(lru, put_entry)
    /\ Return("not stored")
    /\ UNCHANGED <<key, data, buckets, current_size, evicted>>

(* No room after all or no memory: the old object stays, but at the front. *)
GrowFails ==
    /\ pc = "grow"
    /\ ~MustEvict
    /\ lru' = AttachFront(lru, put_entry)
    /\ current_size' = current_size + Size(put_entry)
    /\ Return("not stored")
    /\ UNCHANGED <<key, data, buckets, evicted>>

-----------------------------------------------------------------------------
(* cache_get *)

GetHit(k) ==
    /\ pc = "idle"
    /\ \E e \in Matches(k) :
          /\ result' = data[e]
          /\ lru' = MoveToFront(lru, e)
    /\ UNCHANGED <<key, data, buckets, current_size, call, evicted>>

(* No such entry, or malloc returns NULL for the copy. *)
GetMiss(k) ==
    /\ pc = "idle"
    /\ result' = "miss"
    /\ UNCHANGED <<table, call, evicted>>

(* Mutant: the loop over the buckets stops one short. *)
DestroyStopsShort ==
    /\ pc = "idle"
    /\ pc' = "destroyed"
    /\ LET walked == UNION {Chain(b) : b \in Buckets \ {CHOOSE b \in Buckets : TRUE}}
       IN  /\ key' = [e \in Entries |-> IF e \in walked THEN NoKey ELSE key[e]]
           /\ data' = [e \in Entries |-> IF e \in walked THEN NoObject ELSE data[e]]
    /\ UNCHANGED <<lru, buckets, current_size, put_key, put_object, put_entry, result, evicted>>

(* cache_destroy: frees the entries it finds in the buckets.  The other    *)
(* fields, freed with the cache, are shown as cleared.                     *)
Destroy ==
    /\ pc = "idle"
    /\ pc' = "destroyed"
    /\ key' = [e \in Entries |-> IF \E b \in Buckets : e \in Chain(b) THEN NoKey ELSE key[e]]
    /\ data' = [e \in Entries |-> NoObject]
    /\ lru' = EmptyList
    /\ buckets' = [b \in Buckets |-> <<>>]
    /\ current_size' = 0
    /\ UNCHANGED <<put_key, put_object, put_entry, result, evicted>>

Finished == pc = "destroyed" /\ UNCHANGED vars

-----------------------------------------------------------------------------
(* cache_create *)
Init ==
    /\ key = [e \in Entries |-> NoKey]
    /\ data = [e \in Entries |-> NoObject]
    /\ lru = EmptyList
    /\ buckets = [b \in Buckets |-> <<>>]
    /\ current_size = 0
    /\ pc = "idle"
    /\ put_key = NoKey /\ put_object = NoObject /\ put_entry = NULL
    /\ result = "none"
    /\ evicted = FALSE

PutStart(k, o) == \/ PutRefuse(k, o) \/ PutNew(k, o) \/ PutGrow(k, o)
                  \/ PutShrink(k, o) \/ PutShrinkFails(k, o)
PutStep == EvictTail \/ InsertEntry \/ InsertFails \/ GrowEntry \/ GrowFails

Next == \/ \E k \in Keys, o \in Objects : PutStart(k, o)
        \/ PutStep
        \/ \E k \in Keys : GetHit(k) \/ GetMiss(k)
        \/ Destroy
        \/ Finished

(* The thread that holds the mutex runs on. *)
Spec == Init /\ [][Next]_vars /\ WF_vars(PutStep)

-----------------------------------------------------------------------------
(* Properties *)

(* The bytes of the entries in S, counted one by one. *)
Bytes(S) == Cardinality(UNION {{e} \X (1 .. Size(e)) : e \in S})

(* Every variable keeps its type, and a call's arguments are there exactly *)
(* while it runs.                                                          *)
TypeOK ==
    /\ key \in [Entries -> Keys \cup {NoKey}]
    /\ data \in [Entries -> Objects \cup {NoObject}]
    /\ \A e \in Entries : key[e] = NoKey <=> data[e] = NoObject
    /\ lru \in Lists
    /\ buckets \in [Buckets -> Seq(Entries)]
    /\ current_size \in 0 .. MaxTotal
    /\ pc \in {"idle", "insert", "grow", "destroyed"}
    /\ pc \in {"insert", "grow"} => put_key \in Keys /\ put_object \in Objects
    /\ pc \notin {"insert", "grow"} => put_key = NoKey /\ put_object = NoObject
    /\ IF pc = "grow" THEN put_entry \in Entries ELSE put_entry = NULL
    /\ evicted \in BOOLEAN

(* The list stays in one piece: head, tail, prev, next and entry_count     *)
(* describe one chain of exactly the entries that are in the cache, except *)
(* the one a growing cache_put holds.  No pointer leads to an entry that   *)
(* was freed, and none has dropped out of the eviction order.              *)
ListIntact == Links(lru, Listed)

(* Every entry lies in the chain its key hashes to, once, and in no other, *)
(* no chain leads to an entry that was freed or past one that was not, and *)
(* no key has two entries.                                                 *)
TableIntact ==
    /\ \A b \in Buckets :
          /\ Chain(b) = {e \in Allocated : Hash[key[e]] = b}
          /\ \A i, j \in DOMAIN buckets[b] : buckets[b][i] = buckets[b][j] => i = j
    /\ \A e, f \in Allocated : key[e] = key[f] => e = f

(* current_size_bytes is the sum of the sizes in the list, after every     *)
(* step of every call, also one that fails half way: the subtraction never *)
(* wraps around, and the cache neither outgrows its limit nor shrinks for  *)
(* good.                                                                   *)
BytesExact == current_size = Bytes(Listed)

(* Eviction always ends with enough room: cache_put never fails because an *)
(* acceptable object does not fit, so both "return -1" after the loop can  *)
(* only be reached when memory runs out.                                   *)
RoomIsFound ==
    pc \in {"insert", "grow"} /\ ~MustEvict => Fits(put_object)

(* The entry whose object cache_put is replacing is not evicted to make    *)
(* room for its own replacement: the pointer it holds across the eviction  *)
(* loop stays valid.                                                       *)
ReplacedEntrySurvives ==
    pc = "grow" => put_entry \in Allocated /\ key[put_entry] = put_key

(* cache_destroy, which walks the buckets and not the list, frees every    *)
(* entry.                                                                  *)
NothingLeaked == pc = "destroyed" => Allocated = {}

(* What the cache looks like to its users. *)
StoredUnder(k) ==
    IF \E e \in Allocated : key[e] = k
    THEN data[CHOOSE e \in Allocated : key[e] = k]
    ELSE NoObject

Recency == [i \in 1 .. lru.entry_count |-> key[Order(lru, Listed)[i]]]
Stored == [k \in Keys |-> StoredUnder(k)]

LC == INSTANCE LruCache WITH
          recency <- Recency, stored <- Stored, pending <- <<put_key, put_object>>

(* Hash table, list and byte count together implement LruCache: strict     *)
(* least-recently-used order, no eviction without need, an object that is  *)
(* returned is the last one stored under its key, and every cache_put      *)
(* returns.                                                                *)
ImplementsLruCache == LC!Spec
=============================================================================
