---------------------------- MODULE CacheProofs ----------------------------
(***************************************************************************)
(* Proofs about Cache, for every set of keys and objects, every hash       *)
(* function and every limit.                                               *)
(***************************************************************************)
EXTENDS Cache, LruListProofs, FiniteSetTheorems, FunctionTheorems, SequenceTheorems

-----------------------------------------------------------------------------
(* Counting bytes one by one.  A sum over a set would need induction; the  *)
(* cardinality of a union does not.                                        *)

(* The bytes of the entries in S when entry e has z[e] of them. *)
Cells(S, z) == UNION {{e} \X (1 .. z[e]) : e \in S}

(* The size of every entry. *)
sizes == [e \in Entries |-> IF key[e] = NoKey THEN 0 ELSE Size(e)]

(* One entry more in the set: its bytes come on top. *)
LEMMA CellsAdd ==
  ASSUME NEW S, NEW z, NEW e, e \notin S, z[e] \in Nat, IsFiniteSet(Cells(S, z))
  PROVE  /\ IsFiniteSet(Cells(S \cup {e}, z))
         /\ Cardinality(Cells(S, z)) \in Nat
         /\ Cardinality(Cells(S \cup {e}, z)) = Cardinality(Cells(S, z)) + z[e]
<1> DEFINE own == {e} \X (1 .. z[e])
<1>1. IsFiniteSet(own) /\ Cardinality(own) = z[e]
  <2>1. IsFiniteSet({e}) /\ Cardinality({e}) = 1
    BY FS_Singleton
  <2>2. IsFiniteSet(1 .. z[e]) /\ Cardinality(1 .. z[e]) = z[e]
    BY FS_Interval
  <2>3. IsFiniteSet(own) /\ Cardinality(own) = 1 * z[e]
    BY <2>1, <2>2, FS_Product
  <2> QED
    BY <2>3
<1>2. Cells(S \cup {e}, z) = Cells(S, z) \cup own
  BY DEF Cells
<1>3. Cells(S, z) \cap own = {}
  BY DEF Cells
<1>4. Cardinality(Cells(S, z)) \in Nat
  BY FS_CardinalityType
<1> HIDE DEF own
<1>5. /\ IsFiniteSet(Cells(S, z) \cup own)
      /\ Cardinality(Cells(S, z) \cup own)
            = Cardinality(Cells(S, z)) + Cardinality(own) - Cardinality(Cells(S, z) \cap own)
  BY <1>1, FS_Union
<1>6. Cardinality(Cells(S, z) \cap own) = 0
  BY <1>3, FS_EmptySet
<1>7. Cardinality(Cells(S, z) \cup own) = Cardinality(Cells(S, z)) + z[e]
  <2>1. \A a, b, c, d \in Int : a = b + c - d /\ d = 0 => a = b + c
    OBVIOUS
  <2>2. Cardinality(Cells(S, z) \cup own) \in Nat
    BY <1>5, FS_CardinalityType
  <2> QED
    BY <1>1, <1>4, <1>5, <1>6, <2>1, <2>2
<1> QED
  BY <1>2, <1>4, <1>5, <1>7

(* One entry less. *)
LEMMA CellsRemove ==
  ASSUME NEW S, NEW z, NEW e \in S, z[e] \in Nat, IsFiniteSet(Cells(S, z))
  PROVE  /\ IsFiniteSet(Cells(S \ {e}, z))
         /\ Cardinality(Cells(S \ {e}, z)) \in Nat
         /\ Cardinality(Cells(S, z)) = Cardinality(Cells(S \ {e}, z)) + z[e]
<1>1. IsFiniteSet(Cells(S \ {e}, z))
  <2>1. Cells(S \ {e}, z) \subseteq Cells(S, z)
    BY DEF Cells
  <2> QED
    BY <2>1, FS_Subset
<1>2. (S \ {e}) \cup {e} = S /\ e \notin S \ {e}
  OBVIOUS
<1> QED
  BY <1>1, <1>2, CellsAdd

(* Only the sizes of the entries in S matter. *)
LEMMA CellsSame ==
  ASSUME NEW S, NEW z, NEW y, \A e \in S : z[e] = y[e]
  PROVE  Cells(S, z) = Cells(S, y)
  BY DEF Cells

-----------------------------------------------------------------------------
(* Chains of entries. *)

Members(c) == {c[i] : i \in DOMAIN c}

(* No entry is in the chain twice. *)
Once(c) == \A i, j \in DOMAIN c : c[i] = c[j] => i = j

(* The chain that leads past e has lost e and nothing else. *)
LEMMA SkippingIs ==
  ASSUME NEW S, NEW c \in Seq(S), Once(c), NEW e
  PROVE  /\ Skipping(c, e) \in Seq(S) /\ Once(Skipping(c, e))
         /\ Members(Skipping(c, e)) = Members(c) \ {e}
<1>1. PICK n \in Nat : n = Len(c) /\ DOMAIN c = 1 .. n /\ c \in [1 .. n -> S]
  OBVIOUS
<1>2. CASE \A i \in DOMAIN c : c[i] # e
  <2>1. Skipping(c, e) = c
    BY <1>2 DEF Skipping
  <2> QED
    BY <1>2, <2>1 DEF Members
<1>3. CASE \E i \in DOMAIN c : c[i] = e
  <2>1. PICK at \in 1 .. n : at = (CHOOSE i \in DOMAIN c : c[i] = e) /\ c[at] = e
    BY <1>1, <1>3
  <2> DEFINE d == [i \in 1 .. n - 1 |-> IF i < at THEN c[i] ELSE c[i + 1]]
  <2>2. Skipping(c, e) = d
    BY <1>1, <1>3, <2>1 DEF Skipping
  <2>3. \A i \in 1 .. n - 1 : i \in 1 .. n /\ i + 1 \in 1 .. n
    BY <1>1
  <2>4. d \in [1 .. n - 1 -> S] /\ n - 1 \in Nat
    BY <1>1, <2>1, <2>3
  <2>5. d \in Seq(S) /\ DOMAIN d = 1 .. n - 1
    BY <2>4, SeqDef
  <2>6. \A i \in 1 .. n - 1 : d[i] = IF i < at THEN c[i] ELSE c[i + 1]
    OBVIOUS
  <2>7. \A i, j \in 1 .. n : c[i] = c[j] => i = j
    BY <1>1 DEF Once
  <2> HIDE DEF d
  <2>8. Once(d)
    <3> SUFFICES ASSUME NEW i \in 1 .. n - 1, NEW j \in 1 .. n - 1, d[i] = d[j]
                 PROVE  i = j
      BY <2>5 DEF Once
    <3>2. CASE i < at /\ j < at
      BY <2>3, <2>6, <2>7, <3>2
    <3>3. CASE i < at /\ ~(j < at)
      <4>1. c[i] = c[j + 1]
        BY <2>6, <3>3
      <4>2. i = j + 1
        BY <2>3, <2>7, <4>1
      <4> QED
        BY <2>1, <3>3, <4>2
    <3>4. CASE ~(i < at) /\ j < at
      <4>1. c[i + 1] = c[j]
        BY <2>6, <3>4
      <4>2. i + 1 = j
        BY <2>3, <2>7, <4>1
      <4> QED
        BY <2>1, <3>4, <4>2
    <3>5. CASE ~(i < at) /\ ~(j < at)
      <4>1. c[i + 1] = c[j + 1]
        BY <2>6, <3>5
      <4>2. i + 1 = j + 1
        BY <2>3, <2>7, <4>1
      <4> QED
        BY <4>2
    <3> QED
      BY <3>2, <3>3, <3>4, <3>5
  <2>12. c[at] = e
    BY <2>1
  <2>9. ASSUME NEW i \in 1 .. n - 1 PROVE d[i] \in Members(c) \ {e}
    <3>1. \E j \in 1 .. n : d[i] = c[j] /\ j # at
      <4>1. CASE i < at
        <5>1. d[i] = c[i] /\ i \in 1 .. n /\ i # at
          BY <2>3, <2>6, <4>1
        <5> QED
          BY <5>1
      <4>2. CASE ~(i < at)
        <5>1. d[i] = c[i + 1]
          BY <2>6, <4>2
        <5>2. i + 1 \in 1 .. n /\ i + 1 # at
          BY <2>3, <4>2
        <5> QED
          BY <5>1, <5>2
      <4> QED
        BY <4>1, <4>2
    <3>2. PICK j \in 1 .. n : d[i] = c[j] /\ j # at
      BY <3>1
    <3>3. c[j] # e
      BY <2>7, <2>12, <3>2
    <3> QED
      BY <1>1, <3>2, <3>3 DEF Members
  <2>10. ASSUME NEW x \in Members(c) \ {e} PROVE x \in Members(d)
    <3>1. PICK i \in 1 .. n : x = c[i] /\ i # at
      BY <1>1, <2>1 DEF Members
    <3>2. CASE i < at
      <4>1. i \in 1 .. n - 1 /\ d[i] = x
        BY <1>1, <2>1, <2>6, <3>1, <3>2
      <4> QED
        BY <2>5, <4>1 DEF Members
    <3>3. CASE i > at
      <4>1. i - 1 \in 1 .. n - 1 /\ ~(i - 1 < at) /\ (i - 1) + 1 = i
        BY <1>1, <2>1, <3>1, <3>3
      <4>2. d[i - 1] = x
        BY <2>6, <3>1, <4>1
      <4> QED
        BY <2>5, <4>1, <4>2 DEF Members
    <3> QED
      BY <2>1, <3>1, <3>2, <3>3
  <2>11. Members(d) = Members(c) \ {e}
    <3>1. Members(d) \subseteq Members(c) \ {e}
      BY <2>5, <2>9 DEF Members
    <3> QED
      BY <2>10, <3>1
  <2> QED
    BY <2>2, <2>5, <2>8, <2>11
<1> QED
  BY <1>2, <1>3

(* A chain that starts with one entry more. *)
LEMMA LinkedIs ==
  ASSUME NEW S, NEW c \in Seq(S), Once(c), NEW e \in S, e \notin Members(c)
  PROVE  /\ <<e>> \o c \in Seq(S) /\ Once(<<e>> \o c)
         /\ Members(<<e>> \o c) = Members(c) \cup {e}
<1>1. PICK n \in Nat : n = Len(c) /\ DOMAIN c = 1 .. n
  OBVIOUS
<1>2. PICK d : d = <<e>> \o c
  OBVIOUS
<1>3. /\ d \in Seq(S) /\ DOMAIN d = 1 .. n + 1 /\ d[1] = e
      /\ \A i \in 2 .. n + 1 : d[i] = c[i - 1]
  BY <1>1, <1>2
<1>4. \A i \in 2 .. n + 1 : i - 1 \in 1 .. n
  BY <1>1
<1>5. \A i \in 1 .. n : c[i] # e /\ i + 1 \in 2 .. n + 1 /\ d[i + 1] = c[i]
  BY <1>1, <1>3 DEF Members
<1>6. Once(d)
  <2> SUFFICES ASSUME NEW i \in 1 .. n + 1, NEW j \in 1 .. n + 1, d[i] = d[j]
               PROVE  i = j
    BY <1>3 DEF Once
  <2>1. CASE i = 1 /\ j = 1
    BY <2>1
  <2>2. CASE i \in 2 .. n + 1 /\ j \in 2 .. n + 1
    <3>1. c[i - 1] = c[j - 1] /\ i - 1 \in 1 .. n /\ j - 1 \in 1 .. n
      BY <1>3, <1>4, <2>2
    <3>2. i - 1 = j - 1
      BY <1>1, <3>1 DEF Once
    <3> QED
      BY <2>2, <3>2
  <2>3. CASE (i = 1 /\ j \in 2 .. n + 1) \/ (j = 1 /\ i \in 2 .. n + 1)
    BY <1>3, <1>4, <1>5, <2>3
  <2> QED
    BY <2>1, <2>2, <2>3
<1>7. Members(d) \subseteq Members(c) \cup {e}
  <2> SUFFICES ASSUME NEW i \in 1 .. n + 1, i # 1 PROVE d[i] \in Members(c)
    BY <1>3 DEF Members
  <2>1. i \in 2 .. n + 1 /\ i - 1 \in 1 .. n
    BY <1>1
  <2> QED
    BY <1>1, <1>3, <2>1 DEF Members
<1>8. Members(c) \cup {e} \subseteq Members(d)
  <2>1. e \in Members(d)
    BY <1>1, <1>3 DEF Members
  <2>2. ASSUME NEW i \in 1 .. n PROVE c[i] \in Members(d)
    BY <1>1, <1>3, <1>5 DEF Members
  <2> QED
    BY <1>1, <2>1, <2>2 DEF Members
<1> QED
  BY <1>2, <1>3, <1>6, <1>7, <1>8

(* Buckets that stay as they are keep their chains. *)
LEMMA ChainsStay == ASSUME UNCHANGED buckets PROVE \A b \in Buckets : Chain(b)' = Chain(b)
  BY DEF Chain

-----------------------------------------------------------------------------
(* The inductive invariant. *)

BytesInv ==
    /\ IsFiniteSet(Cells(Listed, sizes))
    /\ current_size = Cardinality(Cells(Listed, sizes))

(* What holds while a cache_put makes room. *)
CallInv ==
    /\ pc \in {"insert", "grow"} => Acceptable(put_object)
    /\ pc = "insert" => \A e \in Allocated : key[e] # put_key
    /\ pc = "grow" => /\ put_entry \in Allocated
                      /\ key[put_entry] = put_key
                      /\ current_size + Size(put_entry) <= MaxTotal

CInv == TypeOK /\ ListIntact /\ TableIntact /\ BytesInv /\ CallInv

(* The two ways to count the bytes, in steps of one entry and as the sum of*)
(* BytesExact, agree.                                                      *)
LEMMA BytesInvIsBytesExact ==
  ASSUME TypeOK, BytesInv
  PROVE  BytesExact
<1>1. \A e \in Listed : sizes[e] = Size(e)
  BY DEF Listed, Allocated, sizes
<1>2. Cells(Listed, sizes) = UNION {{e} \X (1 .. Size(e)) : e \in Listed}
  BY <1>1 DEF Cells
<1> QED
  BY <1>2 DEF BytesInv, BytesExact, Bytes

(* What every step can use. *)
LEMMA Basics ==
  ASSUME CInv
  PROVE  /\ lru \in Lists /\ Listed \in SUBSET Entries /\ Links(lru, Listed)
         /\ MaxTotal \in Nat /\ current_size \in Nat /\ current_size <= MaxTotal
         /\ \A e \in Allocated : Size(e) \in Nat /\ sizes[e] = Size(e)
         /\ \A o \in Objects : SizeOf[o] \in Nat
         /\ NULL \notin Entries /\ NoKey \notin Keys /\ NoObject \notin Objects
         /\ pc # "grow" => Listed = Allocated
         /\ \A k \in Keys : Hash[k] \in Buckets
<1>1. TypeOK /\ ListIntact
  BY DEF CInv
<1>2. \A e \in Allocated : data[e] \in Objects /\ e \in Entries
  BY <1>1 DEF TypeOK, Allocated
<1>3. \A e \in Allocated : Size(e) \in Nat /\ sizes[e] = Size(e)
  BY <1>2, CacheAssumption DEF Size, sizes, Allocated
<1>4. pc # "grow" => Listed = Allocated
  BY <1>1, NullAssumption DEF TypeOK, Listed, Allocated
<1>5. Listed \in SUBSET Entries
  BY DEF Listed, Allocated
<1> QED
  BY <1>1, <1>3, <1>4, <1>5, CacheAssumption, NullAssumption DEF TypeOK, ListIntact

(* Steps that leave the table and the entry in hand alone. *)
LEMMA CInvQuiet ==
  ASSUME CInv, UNCHANGED <<table, put_entry>>, TypeOK', CallInv'
  PROVE  CInv'
<1>1. Allocated' = Allocated /\ Listed' = Listed
  BY DEF Allocated, Listed, table
<1>2. ListIntact'
  BY <1>1 DEF CInv, ListIntact, table
<1>3. TableIntact'
  BY <1>1 DEF CInv, TableIntact, Chain, table
<1>4. BytesInv'
  <2>1. sizes' = sizes
    BY DEF sizes, Size, table
  <2> QED
    BY <1>1, <2>1 DEF CInv, BytesInv, table
<1> QED
  BY <1>2, <1>3, <1>4 DEF CInv

(* cache_create establishes the inductive invariant. *)
LEMMA CInvInit == Init => CInv
<1> SUFFICES ASSUME Init PROVE CInv
  OBVIOUS
<1>1. Allocated = {} /\ Listed = {}
  BY DEF Init, Allocated, Listed
<1>2. TypeOK
  <2>1. <<>> \in Seq(Entries)
    OBVIOUS
  <2>2. buckets \in [Buckets -> Seq(Entries)] /\ evicted \in BOOLEAN
    BY <2>1 DEF Init
  <2>3. /\ key \in [Entries -> Keys \cup {NoKey}]
        /\ data \in [Entries -> Objects \cup {NoObject}]
        /\ \A e \in Entries : key[e] = NoKey <=> data[e] = NoObject
    BY DEF Init
  <2>4. lru \in Lists
    BY EmptyListOrder DEF Init
  <2> QED
    BY <2>2, <2>3, <2>4, CacheAssumption DEF Init, TypeOK
<1>3. ListIntact
  BY <1>1, EmptyListOrder DEF Init, ListIntact, Links, InOrder
<1>4. TableIntact
  <2>1. \A b \in Buckets : buckets[b] = <<>> /\ Chain(b) = {}
    BY DEF Init, Chain
  <2> QED
    BY <1>1, <2>1 DEF TableIntact
<1>5. BytesInv
  <2>1. Cells(Listed, sizes) = {}
    BY <1>1 DEF Cells
  <2> QED
    BY <2>1, FS_EmptySet DEF Init, BytesInv
<1>6. CallInv
  BY DEF Init, CallInv
<1> QED
  BY <1>2, <1>3, <1>4, <1>5, <1>6 DEF CInv

(* Calls that end, or start, without touching the table. *)
LEMMA QuietInv ==
  ASSUME CInv,
         \/ \E k \in Keys, o \in Objects : \/ PutRefuse(k, o) \/ PutNew(k, o)
                                          \/ PutShrinkFails(k, o)
         \/ InsertFails
         \/ \E k \in Keys : GetMiss(k)
         \/ UNCHANGED vars
  PROVE  CInv'
<1>1. TypeOK /\ TableIntact /\ CallInv
  BY DEF CInv
<1>2. ASSUME UNCHANGED <<table, call>>, evicted' \in BOOLEAN
      PROVE  CInv'
  <2>1. TypeOK'
    BY <1>1, <1>2 DEF TypeOK, table, call
  <2>2. CallInv'
    BY <1>1, <1>2 DEF CallInv, Acceptable, Allocated, Size, table, call
  <2> QED
    BY <1>2, <2>1, <2>2, CInvQuiet DEF call
<1>3. ASSUME NEW k \in Keys, NEW o \in Objects, PutNew(k, o)
      PROVE  CInv'
  <2>1. TypeOK'
    BY <1>1, <1>3 DEF PutNew, TypeOK, table
  <2>2. \A e \in Allocated : key[e] # k
    BY <1>1, <1>3, CacheAssumption DEF PutNew, Matches, TableIntact, TypeOK, Allocated
  <2>3. CallInv'
    BY <1>3, <2>2 DEF PutNew, CallInv, Acceptable, Fits, Allocated, table
  <2> QED
    BY <1>3, <2>1, <2>3, CInvQuiet DEF PutNew
<1>4. ASSUME InsertFails
      PROVE  CInv'
  <2>1. put_entry = NULL
    BY <1>1, <1>4 DEF InsertFails, TypeOK
  <2>2. TypeOK'
    BY <1>1, <1>4 DEF InsertFails, Return, TypeOK, table
  <2>3. CallInv'
    BY <1>4 DEF InsertFails, Return, CallInv
  <2> QED
    BY <1>4, <2>1, <2>2, <2>3, CInvQuiet DEF InsertFails, Return
<1> QED
  BY <1>1, <1>2, <1>3, <1>4 DEF PutRefuse, PutShrinkFails, GetMiss, vars, TypeOK

(* The entry found under a key. *)
LEMMA MatchIsListed ==
  ASSUME CInv, pc = "idle", NEW k \in Keys, NEW e \in Matches(k)
  PROVE  e \in Listed /\ e \in Allocated /\ e \in Entries /\ key[e] = k /\ data[e] \in Objects
<1>1. TypeOK /\ TableIntact /\ Listed = Allocated /\ Hash[k] \in Buckets
  BY Basics DEF CInv
<1> QED
  BY <1>1 DEF Matches, TableIntact, Allocated, TypeOK

(* cache_put with a bigger object: the entry leaves the list, and its bytes*)
(* the count, together.                                                    *)
LEMMA PutGrowInv ==
  ASSUME CInv, NEW k \in Keys, NEW o \in Objects, PutGrow(k, o)
  PROVE  CInv'
<1>1. TypeOK /\ TableIntact /\ BytesInv /\ pc = "idle"
  BY DEF CInv, PutGrow
<1>2. PICK e \in Matches(k) :
        /\ current_size' = current_size - Size(e)
        /\ lru' = Detach(lru, e)
        /\ pc' = "grow" /\ put_key' = k /\ put_object' = o /\ put_entry' = e
        /\ Acceptable(o) /\ evicted' = FALSE
        /\ UNCHANGED <<key, data, buckets, result>>
  BY DEF PutGrow
<1>3. e \in Listed /\ e \in Allocated /\ e \in Entries /\ key[e] = k
  BY <1>1, MatchIsListed
<1>4. Allocated' = Allocated /\ Listed = Allocated /\ Listed' = Listed \ {e} /\ sizes' = sizes
  BY <1>1, <1>2, Basics DEF Allocated, Listed, sizes, Size
<1>5. lru' \in Lists /\ Links(lru', Listed \ {e})
  BY <1>2, <1>3, Basics, DetachLinks
<1>6. /\ IsFiniteSet(Cells(Listed \ {e}, sizes))
      /\ Cardinality(Cells(Listed \ {e}, sizes)) \in Nat
      /\ current_size = Cardinality(Cells(Listed \ {e}, sizes)) + Size(e)
      /\ Size(e) \in Nat
  BY <1>1, <1>3, Basics, CellsRemove DEF BytesInv
<1>7. BytesInv'
  BY <1>2, <1>4, <1>6 DEF BytesInv
<1>8. current_size' \in 0 .. MaxTotal /\ current_size' + Size(e) <= MaxTotal
  BY <1>2, <1>6, Basics
<1>9. TypeOK'
  BY <1>1, <1>2, <1>3, <1>5, <1>8 DEF TypeOK
<1>10. TableIntact'
  BY <1>1, <1>2, <1>4, ChainsStay DEF TableIntact
<1>11. CallInv'
  BY <1>2, <1>3, <1>4, <1>8 DEF CallInv, Acceptable, Size
<1>12. ListIntact'
  BY <1>4, <1>5 DEF ListIntact
<1> QED
  BY <1>7, <1>9, <1>10, <1>11, <1>12 DEF CInv

(* cache_put with an object that is not bigger: the count changes by the   *)
(* difference, the entry moves to the front.                               *)
LEMMA PutShrinkInv ==
  ASSUME CInv, NEW k \in Keys, NEW o \in Objects, PutShrink(k, o)
  PROVE  CInv'
<1>1. TypeOK /\ TableIntact /\ BytesInv /\ CallInv /\ pc = "idle"
  BY DEF CInv, PutShrink
<1>2. PICK e \in Matches(k) :
        /\ SizeOf[o] <= Size(e)
        /\ current_size' = current_size - Size(e) + SizeOf[o]
        /\ data' = [data EXCEPT ![e] = o]
        /\ lru' = MoveToFront(lru, e)
        /\ evicted' = FALSE
        /\ UNCHANGED <<key, buckets, call>>
  BY DEF PutShrink
<1>3. e \in Listed /\ e \in Allocated /\ e \in Entries /\ key[e] = k /\ key[e] # NoKey
  BY <1>1, MatchIsListed DEF Allocated
<1>4. Allocated' = Allocated /\ Listed' = Listed
  BY <1>2 DEF Allocated, Listed, call
<1>5. \A x \in Listed \ {e} : sizes'[x] = sizes[x]
  BY <1>1, <1>2 DEF sizes, Size, Listed, Allocated, TypeOK
<1>6. sizes'[e] = SizeOf[o] /\ SizeOf[o] \in Nat
  BY <1>1, <1>2, <1>3, Basics DEF sizes, Size, TypeOK
<1>7. lru' \in Lists /\ Links(lru', Listed)
  BY <1>2, <1>3, Basics, MoveToFrontLinks
<1>8. /\ IsFiniteSet(Cells(Listed \ {e}, sizes))
      /\ Cardinality(Cells(Listed \ {e}, sizes)) \in Nat
      /\ current_size = Cardinality(Cells(Listed \ {e}, sizes)) + Size(e)
      /\ Size(e) \in Nat
  BY <1>1, <1>3, Basics, CellsRemove DEF BytesInv
<1>9. Cells(Listed \ {e}, sizes') = Cells(Listed \ {e}, sizes)
  BY <1>5, CellsSame
<1>10. /\ IsFiniteSet(Cells((Listed \ {e}) \cup {e}, sizes'))
       /\ Cardinality(Cells((Listed \ {e}) \cup {e}, sizes'))
             = Cardinality(Cells(Listed \ {e}, sizes)) + SizeOf[o]
  BY <1>6, <1>8, <1>9, CellsAdd
<1>11. (Listed \ {e}) \cup {e} = Listed
  BY <1>3
<1>12. current_size' = Cardinality(Cells(Listed \ {e}, sizes)) + SizeOf[o]
  BY <1>2, <1>6, <1>8
<1>13. BytesInv'
  BY <1>4, <1>10, <1>11, <1>12 DEF BytesInv
<1>14. current_size' \in 0 .. MaxTotal
  BY <1>2, <1>6, <1>8, Basics
<1>15. TypeOK'
  BY <1>1, <1>2, <1>3, <1>7, <1>14, CacheAssumption DEF TypeOK, call
<1>16. TableIntact'
  BY <1>1, <1>2, <1>4, ChainsStay DEF TableIntact
<1>17. CallInv'
  BY <1>1, <1>2 DEF CallInv, call
<1>18. ListIntact'
  BY <1>4, <1>7 DEF ListIntact
<1> QED
  BY <1>13, <1>15, <1>16, <1>17, <1>18 DEF CInv

(* cache_get only moves the entry it finds. *)
LEMMA GetHitInv ==
  ASSUME CInv, NEW k \in Keys, GetHit(k)
  PROVE  CInv'
<1>1. TypeOK /\ TableIntact /\ BytesInv /\ CallInv /\ pc = "idle"
  BY DEF CInv, GetHit
<1>2. PICK e \in Matches(k) : /\ lru' = MoveToFront(lru, e)
                              /\ UNCHANGED <<key, data, buckets, current_size, call, evicted>>
  BY DEF GetHit
<1>3. e \in Listed
  BY <1>1, MatchIsListed
<1>4. lru' \in Lists /\ Links(lru', Listed)
  BY <1>2, <1>3, Basics, MoveToFrontLinks
<1>5. Allocated' = Allocated /\ Listed' = Listed /\ sizes' = sizes
  BY <1>2 DEF Allocated, Listed, sizes, Size, call
<1>6. TypeOK'
  BY <1>1, <1>2, <1>4 DEF TypeOK, call
<1>7. TableIntact' /\ BytesInv' /\ ListIntact'
  BY <1>1, <1>2, <1>4, <1>5, ChainsStay DEF TableIntact, BytesInv, ListIntact
<1>8. CallInv'
  BY <1>1, <1>2 DEF CallInv, call
<1> QED
  BY <1>6, <1>7, <1>8 DEF CInv

(* One turn of the eviction loop.  The entry it frees is in the list, so   *)
(* it is not the one a growing cache_put holds, and its bytes are counted. *)
LEMMA EvictTailInv ==
  ASSUME CInv, EvictTail
  PROVE  CInv'
<1> DEFINE e == lru.tail
<1>1. TypeOK /\ TableIntact /\ BytesInv /\ CallInv /\ pc \in {"insert", "grow"}
  BY DEF CInv, EvictTail
<1>2. /\ lru' = Detach(lru, e)
      /\ buckets' = [buckets EXCEPT ![Hash[key[e]]] = Skipping(@, e)]
      /\ current_size' = IF current_size >= Size(e) THEN current_size - Size(e) ELSE 0
      /\ key' = [key EXCEPT ![e] = NoKey]
      /\ data' = [data EXCEPT ![e] = NoObject]
      /\ evicted' = TRUE
      /\ UNCHANGED <<call, result>>
  BY DEF EvictTail, RemoveTail, Unchain, BytesWithout
<1>3. e \in Listed
  <2>1. e # NULL
    BY DEF EvictTail, MustEvict
  <2> QED
    BY <2>1, Basics, TailLinks
<1> HIDE DEF e
<1>4. e \in Allocated /\ e \in Entries /\ key[e] \in Keys /\ e # put_entry
  BY <1>1, <1>3 DEF Listed, Allocated, TypeOK
<1>5. /\ \A x \in Entries : x # e => key'[x] = key[x] /\ data'[x] = data[x]
      /\ key'[e] = NoKey
  BY <1>1, <1>2, <1>4 DEF TypeOK
<1>6. Allocated' = Allocated \ {e} /\ Listed' = Listed \ {e}
  BY <1>2, <1>4, <1>5 DEF Allocated, Listed, call
<1>7. \A x \in Listed \ {e} : sizes'[x] = sizes[x]
  BY <1>5 DEF sizes, Size, Listed, Allocated
<1>8. lru' \in Lists /\ Links(lru', Listed \ {e})
  BY <1>2, <1>3, Basics, DetachLinks
<1>9. /\ IsFiniteSet(Cells(Listed \ {e}, sizes))
      /\ Cardinality(Cells(Listed \ {e}, sizes)) \in Nat
      /\ current_size = Cardinality(Cells(Listed \ {e}, sizes)) + Size(e)
      /\ Size(e) \in Nat
  BY <1>1, <1>3, <1>4, Basics, CellsRemove DEF BytesInv
<1>10. current_size' = current_size - Size(e) /\ current_size' <= current_size
  BY <1>2, <1>9
<1>11. BytesInv'
  <2>1. Cells(Listed \ {e}, sizes') = Cells(Listed \ {e}, sizes)
    BY <1>7, CellsSame
  <2> QED
    BY <1>6, <1>9, <1>10, <2>1 DEF BytesInv
<1>12. ASSUME NEW b \in Buckets
       PROVE  /\ buckets'[b] \in Seq(Entries) /\ Once(buckets'[b])
              /\ Chain(b)' = {x \in Allocated' : Hash[key'[x]] = b}
  <2>1. buckets[b] \in Seq(Entries) /\ Once(buckets[b])
    BY <1>1 DEF TypeOK, TableIntact, Once
  <2>2. buckets'[b] = IF b = Hash[key[e]] THEN Skipping(buckets[b], e) ELSE buckets[b]
    BY <1>1, <1>2 DEF TypeOK
  <2>3. Chain(b) = {x \in Allocated : Hash[key[x]] = b}
    BY <1>1 DEF TableIntact
  <2>4. Chain(b) = Members(buckets[b]) /\ Chain(b)' = Members(buckets'[b])
    BY DEF Chain, Members
  <2>5. CASE b = Hash[key[e]]
    <3>1. /\ buckets'[b] \in Seq(Entries) /\ Once(buckets'[b])
          /\ Chain(b)' = Chain(b) \ {e}
      BY <2>1, <2>2, <2>4, <2>5, SkippingIs
    <3> QED
      BY <1>5, <1>6, <2>3, <3>1 DEF Allocated
  <2>6. CASE b # Hash[key[e]]
    <3>1. buckets'[b] = buckets[b] /\ Chain(b)' = Chain(b)
      BY <2>2, <2>4, <2>6
    <3> QED
      BY <1>5, <1>6, <2>1, <2>3, <2>6, <3>1 DEF Allocated
  <2> QED
    BY <2>5, <2>6
<1>16. TypeOK'
  <2>1. current_size' \in 0 .. MaxTotal
    BY <1>9, <1>10, Basics
  <2>2. DOMAIN buckets' = Buckets /\ buckets' = [b \in DOMAIN buckets' |-> buckets'[b]]
    BY <1>1, <1>2 DEF TypeOK
  <2>3. buckets' \in [Buckets -> Seq(Entries)]
    BY <1>12, <2>2
  <2> QED
    BY <1>1, <1>2, <1>4, <1>5, <1>8, <2>1, <2>3 DEF TypeOK, call
<1>13. TableIntact'
  <2>1. \A x, y \in Allocated' : key'[x] = key'[y] => x = y
    BY <1>1, <1>5, <1>6 DEF TableIntact, Allocated
  <2> QED
    BY <1>12, <2>1 DEF TableIntact, Once
<1>14. CallInv'
  <2>1. pc = "insert" => \A x \in Allocated' : key'[x] # put_key
    BY <1>1, <1>5, <1>6 DEF CallInv, Allocated
  <2>2. ASSUME pc = "grow"
        PROVE  /\ put_entry \in Allocated' /\ key'[put_entry] = put_key
               /\ current_size' + SizeOf[data'[put_entry]] <= MaxTotal
    <3>1. /\ put_entry \in Allocated /\ key[put_entry] = put_key
          /\ current_size + Size(put_entry) <= MaxTotal
      BY <1>1, <2>2 DEF CallInv
    <3>2. put_entry \in Entries /\ put_entry # e /\ data'[put_entry] = data[put_entry]
      BY <1>4, <1>5, <3>1 DEF Allocated
    <3>3. Size(put_entry) \in Nat
      BY <3>1, Basics
    <3>4. current_size' \in Nat
      BY <1>9, <1>10
    <3>5. current_size' + Size(put_entry) <= MaxTotal
      BY <1>10, <3>1, <3>3, <3>4, Basics
    <3> QED
      BY <1>5, <1>6, <3>1, <3>2, <3>5 DEF Size
  <2> QED
    BY <1>1, <1>2, <2>1, <2>2 DEF CallInv, Acceptable, Size, call
<1>15. ListIntact'
  BY <1>6, <1>8 DEF ListIntact
<1> QED
  BY <1>11, <1>13, <1>14, <1>15, <1>16 DEF CInv

(* A new entry joins the list, its bucket and the count in one step. *)
LEMMA InsertEntryInv ==
  ASSUME CInv, InsertEntry
  PROVE  CInv'
<1>1. TypeOK /\ TableIntact /\ BytesInv /\ CallInv /\ pc = "insert"
  BY DEF CInv, InsertEntry
<1>2. put_key \in Keys /\ put_object \in Objects /\ put_entry = NULL
  BY <1>1 DEF TypeOK
<1>3. PICK e \in Entries \ Allocated :
        /\ key' = [key EXCEPT ![e] = put_key]
        /\ data' = [data EXCEPT ![e] = put_object]
        /\ buckets' = [buckets EXCEPT ![Hash[put_key]] = <<e>> \o @]
        /\ lru' = AttachFront(lru, e)
  BY DEF InsertEntry
<1>4. /\ current_size' = current_size + SizeOf[put_object]
      /\ current_size + SizeOf[put_object] <= MaxTotal
      /\ pc' = "idle" /\ put_key' = NoKey /\ put_object' = NoObject /\ put_entry' = NULL
      /\ UNCHANGED evicted
  BY DEF InsertEntry, Fits, Return
<1>5. /\ \A x \in Entries : x # e => key'[x] = key[x] /\ data'[x] = data[x]
      /\ key'[e] = put_key /\ data'[e] = put_object
      /\ put_key # NoKey /\ put_object # NoObject
  BY <1>1, <1>2, <1>3, Basics DEF TypeOK
<1>6. /\ Allocated' = Allocated \cup {e} /\ Listed = Allocated
      /\ Listed' = Listed \cup {e} /\ e \notin Listed
  BY <1>1, <1>3, <1>4, <1>5, Basics DEF Allocated, Listed
<1>7. (\A x \in Listed : sizes'[x] = sizes[x]) /\ sizes'[e] = SizeOf[put_object]
  BY <1>3, <1>5, <1>6 DEF sizes, Size, Allocated
<1>8. lru' \in Lists /\ Links(lru', Listed \cup {e})
  BY <1>3, <1>6, Basics, AttachFrontLinks
<1>9. SizeOf[put_object] \in Nat
  BY <1>2, Basics
<1>10. BytesInv'
  <2>1. Cells(Listed, sizes') = Cells(Listed, sizes)
    BY <1>7, CellsSame
  <2>2. IsFiniteSet(Cells(Listed, sizes')) /\ current_size = Cardinality(Cells(Listed, sizes'))
    BY <1>1, <2>1 DEF BytesInv
  <2>3. /\ IsFiniteSet(Cells(Listed \cup {e}, sizes'))
        /\ Cardinality(Cells(Listed \cup {e}, sizes'))
              = Cardinality(Cells(Listed, sizes')) + SizeOf[put_object]
    BY <1>6, <1>7, <1>9, <2>2, CellsAdd
  <2> QED
    BY <1>4, <1>6, <2>2, <2>3 DEF BytesInv
<1>15. ASSUME NEW b \in Buckets
       PROVE  /\ buckets'[b] \in Seq(Entries) /\ Once(buckets'[b])
              /\ Chain(b)' = {x \in Allocated' : Hash[key'[x]] = b}
  <2>1. buckets[b] \in Seq(Entries) /\ Once(buckets[b])
    BY <1>1 DEF TypeOK, TableIntact, Once
  <2>2. buckets'[b] = IF b = Hash[put_key] THEN <<e>> \o buckets[b] ELSE buckets[b]
    BY <1>1, <1>3 DEF TypeOK
  <2>3. Chain(b) = {x \in Allocated : Hash[key[x]] = b}
    BY <1>1 DEF TableIntact
  <2>4. Chain(b) = Members(buckets[b]) /\ Chain(b)' = Members(buckets'[b])
    BY DEF Chain, Members
  <2>5. {x \in Allocated' : Hash[key'[x]] = b}
           = IF b = Hash[put_key] THEN Chain(b) \cup {e} ELSE Chain(b)
    BY <1>3, <1>5, <1>6, <2>3 DEF Allocated
  <2>6. CASE b = Hash[put_key]
    <3>1. e \in Entries /\ e \notin Chain(b)
      BY <1>3, <2>3
    <3>2. /\ buckets'[b] \in Seq(Entries) /\ Once(buckets'[b])
          /\ Chain(b)' = Chain(b) \cup {e}
      BY <2>1, <2>2, <2>4, <2>6, <3>1, LinkedIs
    <3> QED
      BY <2>5, <2>6, <3>2
  <2>7. CASE b # Hash[put_key]
    BY <2>1, <2>2, <2>4, <2>5, <2>7
  <2> QED
    BY <2>6, <2>7
<1>11. TypeOK'
  <2>1. current_size' \in 0 .. MaxTotal
    BY <1>4, <1>9, Basics
  <2>2. DOMAIN buckets' = Buckets /\ buckets' = [b \in DOMAIN buckets' |-> buckets'[b]]
    BY <1>1, <1>3 DEF TypeOK
  <2>3. buckets' \in [Buckets -> Seq(Entries)]
    BY <1>15, <2>2
  <2> QED
    BY <1>1, <1>2, <1>3, <1>4, <1>5, <1>8, <2>1, <2>3 DEF TypeOK
<1>12. TableIntact'
  <2>1. \A x, y \in Allocated' : key'[x] = key'[y] => x = y
    BY <1>1, <1>3, <1>5, <1>6 DEF TableIntact, Allocated, CallInv
  <2> QED
    BY <1>15, <2>1 DEF TableIntact, Once
<1>13. CallInv'
  BY <1>4 DEF CallInv
<1>14. ListIntact'
  BY <1>6, <1>8 DEF ListIntact
<1> QED
  BY <1>10, <1>11, <1>12, <1>13, <1>14 DEF CInv

(* A growing cache_put ends: its entry is linked again, with the new       *)
(* object or with the old one, and the bytes of that object are counted.   *)
LEMMA GrowEndInv ==
  ASSUME CInv, GrowEntry \/ GrowFails
  PROVE  CInv'
<1>a. PICK e : e = put_entry
  OBVIOUS
<1> DEFINE o == IF GrowEntry THEN put_object ELSE data[e]
<1>1. TypeOK /\ TableIntact /\ BytesInv /\ CallInv /\ pc = "grow"
  BY DEF CInv, GrowEntry, GrowFails
<1>2. e \in Allocated /\ e \in Entries /\ put_object \in Objects /\ data[e] \in Objects
  BY <1>a, <1>1 DEF CallInv, Allocated, TypeOK
<1>3. o \in Objects /\ SizeOf[o] \in Nat
  BY <1>2, Basics
<1>4. /\ data' = [data EXCEPT ![e] = o]
      /\ lru' = AttachFront(lru, e)
      /\ current_size' = current_size + SizeOf[o]
      /\ current_size + SizeOf[o] <= MaxTotal
      /\ pc' = "idle" /\ put_key' = NoKey /\ put_object' = NoObject /\ put_entry' = NULL
      /\ UNCHANGED <<key, buckets, evicted>>
  <2>1. CASE GrowEntry
    BY <1>a, <2>1 DEF GrowEntry, Fits, Return
  <2>2. CASE ~GrowEntry
    <3>1. GrowFails /\ o = data[e]
      BY <2>2
    <3>2. data' = [data EXCEPT ![e] = data[e]]
      BY <1>a, <1>1, <3>1 DEF GrowFails, TypeOK
    <3>3. current_size + Size(e) <= MaxTotal
      BY <1>a, <1>1 DEF CallInv
    <3> QED
      BY <1>a, <3>1, <3>2, <3>3 DEF GrowFails, Return, Size
  <2> QED
    BY <2>1, <2>2
<1> HIDE DEF o
<1>5. /\ \A x \in Entries : x # e => data'[x] = data[x]
      /\ data'[e] = o /\ key[e] # NoKey
  BY <1>1, <1>2, <1>4 DEF TypeOK, Allocated
<1>6. /\ Allocated' = Allocated /\ Listed = Allocated \ {e}
      /\ Listed' = Listed \cup {e} /\ e \notin Listed
  BY <1>a, <1>2, <1>4, NullAssumption DEF Allocated, Listed
<1>7. (\A x \in Listed : sizes'[x] = sizes[x]) /\ sizes'[e] = SizeOf[o]
  BY <1>2, <1>4, <1>5, <1>6 DEF sizes, Size, Allocated
<1>8. lru' \in Lists /\ Links(lru', Listed \cup {e})
  BY <1>2, <1>4, <1>6, Basics, AttachFrontLinks
<1>9. BytesInv'
  <2>1. Cells(Listed, sizes') = Cells(Listed, sizes)
    BY <1>7, CellsSame
  <2>2. IsFiniteSet(Cells(Listed, sizes')) /\ current_size = Cardinality(Cells(Listed, sizes'))
    BY <1>1, <2>1 DEF BytesInv
  <2>3. /\ IsFiniteSet(Cells(Listed \cup {e}, sizes'))
        /\ Cardinality(Cells(Listed \cup {e}, sizes'))
              = Cardinality(Cells(Listed, sizes')) + SizeOf[o]
    BY <1>3, <1>6, <1>7, <2>2, CellsAdd
  <2> QED
    BY <1>4, <1>6, <2>2, <2>3 DEF BytesInv
<1>10. TypeOK'
  <2>1. current_size' \in 0 .. MaxTotal
    BY <1>3, <1>4, Basics
  <2>2. o # NoObject
    BY <1>3, Basics
  <2> QED
    BY <1>1, <1>2, <1>3, <1>4, <1>5, <1>8, <2>1, <2>2 DEF TypeOK
<1>11. TableIntact'
  BY <1>1, <1>4, <1>6, ChainsStay DEF TableIntact
<1>12. CallInv'
  BY <1>4 DEF CallInv
<1>13. ListIntact'
  BY <1>6, <1>8 DEF ListIntact
<1> QED
  BY <1>9, <1>10, <1>11, <1>12, <1>13 DEF CInv

(* cache_destroy leaves nothing allocated: the buckets hold every entry. *)
LEMMA DestroyInv ==
  ASSUME CInv, Destroy
  PROVE  CInv' /\ Allocated' = {}
<1>1. TypeOK /\ TableIntact /\ pc = "idle" /\ put_entry = NULL
  BY DEF CInv, Destroy, TypeOK
<1>2. \A e \in Entries : key'[e] = NoKey
  <2> SUFFICES ASSUME NEW e \in Entries, key[e] # NoKey
               PROVE  \E b \in Buckets : e \in Chain(b)
    BY DEF Destroy
  <2>1. e \in Allocated /\ key[e] \in Keys
    BY <1>1 DEF Allocated, TypeOK
  <2>2. Hash[key[e]] \in Buckets
    BY <2>1, Basics
  <2> QED
    BY <1>1, <2>1, <2>2 DEF TableIntact
<1>3. Allocated' = {} /\ Listed' = {}
  BY <1>2 DEF Allocated, Listed
<1>4. TypeOK'
  <2>1. <<>> \in Seq(Entries)
    OBVIOUS
  <2> QED
    BY <1>1, <1>2, <2>1, EmptyListOrder, Basics DEF Destroy, TypeOK
<1>5. ListIntact'
  <2>1. Links(EmptyList, {})
    BY EmptyListOrder DEF Links, InOrder
  <2> QED
    BY <1>3, <2>1 DEF Destroy, ListIntact
<1>6. TableIntact'
  <2>1. \A b \in Buckets : buckets'[b] = <<>> /\ Chain(b)' = {}
    BY DEF Destroy, Chain
  <2> QED
    BY <1>3, <2>1 DEF TableIntact
<1>7. BytesInv'
  <2>1. Cells({}, sizes') = {}
    BY DEF Cells
  <2> QED
    BY <1>3, <2>1, FS_EmptySet DEF Destroy, BytesInv
<1>8. CallInv'
  BY DEF Destroy, CallInv
<1> QED
  BY <1>3, <1>4, <1>5, <1>6, <1>7, <1>8 DEF CInv

(* The eviction loop ends with enough room: the empty cache has it. *)
LEMMA RoomFromInv == CInv => RoomIsFound
<1> SUFFICES ASSUME CInv, pc \in {"insert", "grow"}, lru.tail = NULL
             PROVE  Fits(put_object)
  BY DEF RoomIsFound, MustEvict
<1>1. Listed = {}
  BY Basics, TailLinks
<1>2. current_size = 0
  <2>1. Cells(Listed, sizes) = {}
    BY <1>1 DEF Cells
  <2> QED
    BY <2>1, FS_EmptySet DEF CInv, BytesInv
<1>3. Acceptable(put_object) /\ put_object \in Objects
  BY DEF CInv, CallInv, TypeOK
<1> QED
  BY <1>2, <1>3, Basics DEF Fits, Acceptable

(* Every step keeps the inductive invariant. *)
LEMMA CInvNext == CInv /\ [Next]_vars => CInv'
<1> SUFFICES ASSUME CInv, [Next]_vars PROVE CInv'
  OBVIOUS
<1>1. ASSUME NEW k \in Keys, NEW o \in Objects, PutStart(k, o)
      PROVE  CInv'
  BY <1>1, QuietInv, PutGrowInv, PutShrinkInv DEF PutStart
<1>2. CASE PutStep
  BY <1>2, EvictTailInv, InsertEntryInv, QuietInv, GrowEndInv DEF PutStep
<1>3. ASSUME NEW k \in Keys, GetHit(k) \/ GetMiss(k)
      PROVE  CInv'
  BY <1>3, GetHitInv, QuietInv
<1> QED
  BY <1>1, <1>2, <1>3, DestroyInv, QuietInv DEF Next, Finished

-----------------------------------------------------------------------------
(* The theorems. *)

(* The inductive invariant holds in every reachable state. *)
THEOREM CacheInductive == Spec => []CInv
<1>1. CInv /\ [Next]_vars => CInv'
  BY CInvNext
<1> QED
  BY <1>1, CInvInit, PTL DEF Spec

(* Every variable of the cache keeps its type; in particular the byte      *)
(* count stays between 0 and max_total_size_bytes at every step.           *)
THEOREM CacheTypeCorrect == Spec => []TypeOK
<1>1. CInv => TypeOK
  BY DEF CInv
<1> QED
  BY <1>1, CacheInductive, PTL

(* The pointers of the LRU list always form one chain through all entries. *)
THEOREM ListStaysIntact == Spec => []ListIntact
<1>1. CInv => ListIntact
  BY DEF CInv
<1> QED
  BY <1>1, CacheInductive, PTL

(* The hash table always finds an entry by its key, and only live ones.    *)
THEOREM TableStaysIntact == Spec => []TableIntact
<1>1. CInv => TableIntact
  BY DEF CInv
<1> QED
  BY <1>1, CacheInductive, PTL

(* The byte count is exact after every step, whatever fails: it never      *)
(* wraps around and never drifts.                                          *)
THEOREM BytesStayExact == Spec => []BytesExact
<1>1. CInv => BytesExact
  BY BytesInvIsBytesExact DEF CInv
<1> QED
  BY <1>1, CacheInductive, PTL

(* An acceptable object always finds room.                                 *)
THEOREM RoomIsAlwaysFound == Spec => []RoomIsFound
  BY RoomFromInv, CacheInductive, PTL

(* The entry being replaced is never evicted in its own favour.            *)
THEOREM ReplacedEntryAlwaysSurvives == Spec => []ReplacedEntrySurvives
<1>1. CInv => ReplacedEntrySurvives
  BY DEF CInv, CallInv, ReplacedEntrySurvives
<1> QED
  BY <1>1, CacheInductive, PTL

(* cache_destroy frees every entry, for any keys and any hash function.    *)
THEOREM NothingIsLeaked == Spec => []NothingLeaked
<1>1. Init => NothingLeaked
  BY DEF Init, NothingLeaked
<1>2. CInv /\ NothingLeaked /\ [Next]_vars => NothingLeaked'
  <2> SUFFICES ASSUME CInv, NothingLeaked, [Next]_vars
               PROVE  NothingLeaked'
    OBVIOUS
  <2>1. CASE Destroy
    BY <2>1, DestroyInv DEF NothingLeaked
  <2>2. ASSUME NEW k \in Keys, NEW o \in Objects, PutStart(k, o)
        PROVE  pc' # "destroyed"
    BY <2>2 DEF PutStart, PutRefuse, PutNew, PutGrow, PutShrink, PutShrinkFails, call
  <2>3. CASE PutStep
    BY <2>3 DEF PutStep, EvictTail, InsertEntry, InsertFails, GrowEntry, GrowFails,
                Return, call, NothingLeaked
  <2>4. ASSUME NEW k \in Keys, GetHit(k) \/ GetMiss(k)
        PROVE  pc' # "destroyed"
    BY <2>4 DEF GetHit, GetMiss, call
  <2>5. CASE UNCHANGED vars
    BY <2>5 DEF NothingLeaked, Allocated, vars, table, call
  <2> QED
    BY <2>1, <2>2, <2>3, <2>4, <2>5 DEF Next, Finished, NothingLeaked
<1> QED
  BY <1>1, <1>2, CacheInductive, PTL DEF Spec

-----------------------------------------------------------------------------
(* The cache as its users see it: what the steps of Cache do to the        *)
(* variables of LruCache.                                                  *)

(* The keys (f) of the entries in s. *)
KeysOf(f, s, n) == [i \in 1 .. n |-> f[s[i]]]

(* Keys follow their entries to the front and out of the list. *)
LEMMA KeysInFront ==
  ASSUME NEW f, NEW s, NEW n \in Nat, NEW e
  PROVE  KeysOf(f, InFront(s, n, e), n + 1) = InFront(KeysOf(f, s, n), n, f[e])
<1>1. ASSUME NEW i \in 1 .. n + 1
      PROVE  f[InFront(s, n, e)[i]] = IF i = 1 THEN f[e] ELSE KeysOf(f, s, n)[i - 1]
  <2>1. i # 1 => i - 1 \in 1 .. n
    OBVIOUS
  <2> QED
    BY <2>1 DEF InFront, KeysOf
<1>2. KeysOf(f, InFront(s, n, e), n + 1) = [i \in 1 .. n + 1 |-> f[InFront(s, n, e)[i]]]
  BY DEF KeysOf
<1>3. InFront(KeysOf(f, s, n), n, f[e])
        = [i \in 1 .. n + 1 |-> IF i = 1 THEN f[e] ELSE KeysOf(f, s, n)[i - 1]]
  BY DEF InFront
<1> QED
  BY <1>1, <1>2, <1>3

LEMMA KeysTakenOut ==
  ASSUME NEW f, NEW s, NEW n \in Nat, NEW k \in 1 .. n
  PROVE  KeysOf(f, TakenOut(s, n, k), n - 1) = TakenOut(KeysOf(f, s, n), n, k)
<1> DEFINE a(i) == f[TakenOut(s, n, k)[i]]
           b(i) == IF i < k THEN KeysOf(f, s, n)[i] ELSE KeysOf(f, s, n)[i + 1]
<1>1. ASSUME NEW i \in 1 .. n - 1
      PROVE  a(i) = b(i)
  <2>1. i \in 1 .. n /\ i + 1 \in 1 .. n
    OBVIOUS
  <2> QED
    BY <2>1 DEF TakenOut, KeysOf
<1>2. KeysOf(f, TakenOut(s, n, k), n - 1) = [i \in 1 .. n - 1 |-> a(i)]
  BY DEF KeysOf
<1>3. TakenOut(KeysOf(f, s, n), n, k) = [i \in 1 .. n - 1 |-> b(i)]
  BY DEF TakenOut
<1> HIDE DEF a, b
<1> QED
  BY <1>1, <1>2, <1>3

(* The sequence operators of LruCache, by position. *)
LEMMA ConcatIsInFront ==
  ASSUME NEW S, NEW s \in Seq(S), NEW e \in S
  PROVE  <<e>> \o s = InFront(s, Len(s), e)
<1>1. Len(s) \in Nat /\ <<e>> \in Seq(S) /\ Len(<<e>>) = 1 /\ <<e>>[1] = e
  OBVIOUS
<1>2. /\ <<e>> \o s \in Seq(S) /\ Len(<<e>> \o s) = 1 + Len(s)
      /\ \A i \in 1 .. 1 + Len(s) :
            (<<e>> \o s)[i] = IF i <= 1 THEN <<e>>[i] ELSE s[i - 1]
  BY <1>1, ConcatProperties
<1>3. \A i \in 1 .. Len(s) + 1 : (<<e>> \o s)[i] = IF i = 1 THEN e ELSE s[i - 1]
  BY <1>1, <1>2
<1>4. <<e>> \o s = [i \in 1 .. Len(s) + 1 |-> (<<e>> \o s)[i]]
  BY <1>1, <1>2
<1> QED
  BY <1>3, <1>4 DEF InFront

LEMMA WithoutIsTakenOut ==
  ASSUME NEW S, NEW s \in Seq(S), NEW k \in 1 .. Len(s),
         \A i, j \in 1 .. Len(s) : s[i] = s[j] => i = j
  PROVE  LC!Without(s, s[k]) = TakenOut(s, Len(s), k)
<1>1. DOMAIN s = 1 .. Len(s)
  OBVIOUS
<1>2. (CHOOSE at \in DOMAIN s : s[at] = s[k]) = k
  BY <1>1
<1> QED
  BY <1>1, <1>2 DEF LC!Without, TakenOut

LEMMA WithoutIsAll ==
  ASSUME NEW s, NEW k, \A i \in DOMAIN s : s[i] # k
  PROVE  LC!Without(s, k) = s
  BY DEF LC!Without

(* There is an order, and Recency lists the keys in it, each once. *)
LEMMA RecencyIs ==
  ASSUME CInv, NEW s, InOrder(lru, s, Listed)
  PROVE  /\ lru.entry_count \in Nat
         /\ Recency = KeysOf(key, s, lru.entry_count)
         /\ Recency \in Seq(Keys) /\ Len(Recency) = lru.entry_count
         /\ \A i, j \in 1 .. lru.entry_count : Recency[i] = Recency[j] => i = j
<1>1. PICK n : n = lru.entry_count
  OBVIOUS
<1>2. n \in Nat /\ Order(lru, Listed) = s
  BY <1>1, Basics, OrderIs DEF Lists
<1>3. Recency = [i \in 1 .. n |-> key[s[i]]]
  BY <1>1, <1>2 DEF Recency
<1>4. /\ s \in [1 .. n -> Listed]
      /\ \A i, j \in 1 .. n : s[i] = s[j] => i = j
  BY <1>1 DEF InOrder
<1>5. \A i \in 1 .. n : s[i] \in Allocated /\ key[s[i]] \in Keys
  BY <1>4 DEF CInv, TypeOK, Listed, Allocated
<1>6. Recency \in Seq(Keys) /\ Len(Recency) = n
  BY <1>2, <1>3, <1>5
<1>7. ASSUME NEW i \in 1 .. n, NEW j \in 1 .. n, Recency[i] = Recency[j]
      PROVE  i = j
  BY <1>3, <1>4, <1>5, <1>7 DEF CInv, TableIntact
<1> QED
  BY <1>1, <1>2, <1>3, <1>6, <1>7 DEF KeysOf

(* What is stored under a key is the object of the entry with that key. *)
LEMMA StoredIs ==
  ASSUME CInv
  PROVE  /\ \A e \in Allocated : /\ key[e] \in Keys /\ data[e] \in Objects
                                 /\ Stored[key[e]] = data[e] /\ data[e] # NoObject
         /\ \A k \in Keys : (\A e \in Allocated : key[e] # k) => Stored[k] = NoObject
<1>1. ASSUME NEW e \in Allocated
      PROVE  /\ key[e] \in Keys /\ data[e] \in Objects
             /\ Stored[key[e]] = data[e] /\ data[e] # NoObject
  <2>1. key[e] \in Keys /\ data[e] \in Objects /\ data[e] # NoObject
    BY Basics DEF CInv, TypeOK, Allocated
  <2>2. (CHOOSE x \in Allocated : key[x] = key[e]) = e
    BY DEF CInv, TableIntact
  <2>3. StoredUnder(key[e]) = data[e]
    BY <2>2 DEF StoredUnder
  <2> QED
    BY <2>1, <2>3 DEF Stored
<1>2. ASSUME NEW k \in Keys, \A e \in Allocated : key[e] # k
      PROVE  Stored[k] = NoObject
  BY <1>2 DEF Stored, StoredUnder
<1> QED
  BY <1>1, <1>2

(* The entry found under a key holds what is stored under it. *)
LEMMA MatchesIs ==
  ASSUME CInv, NEW k \in Keys
  PROVE  /\ Matches(k) = {e \in Allocated : key[e] = k}
         /\ Stored[k] # NoObject <=> Matches(k) # {}
         /\ \A e \in Matches(k) : Stored[k] = data[e]
<1>1. Matches(k) = {e \in Allocated : key[e] = k}
  BY Basics DEF CInv, TableIntact, Matches
<1> QED
  BY <1>1, StoredIs

(* The bytes of the entries, counted along their order, are those counted  *)
(* entry by entry.                                                         *)
Enumerates(s, n, S) ==
    /\ s \in [1 .. n -> S]
    /\ \A e \in S : \E i \in 1 .. n : s[i] = e
    /\ \A i, j \in 1 .. n : s[i] = s[j] => i = j

LEMMA CellsRenamed ==
  ASSUME NEW n \in Nat, NEW S, NEW s, Enumerates(s, n, S), NEW z, IsFiniteSet(Cells(S, z))
  PROVE  Cardinality(Cells(1 .. n, KeysOf(z, s, n))) = Cardinality(Cells(S, z))
<1> DEFINE A == Cells(1 .. n, KeysOf(z, s, n))
           B == Cells(S, z)
           f == [c \in A |-> <<s[c[1]], c[2]>>]
<1>0. /\ s \in [1 .. n -> S]
      /\ \A e \in S : \E i \in 1 .. n : s[i] = e
      /\ \A i, j \in 1 .. n : s[i] = s[j] => i = j
  BY DEF Enumerates
<1>1. \A c : c \in A <=> \E i \in 1 .. n : \E b \in 1 .. z[s[i]] : c = <<i, b>>
  BY DEF Cells, KeysOf
<1>2. \A c : c \in B <=> \E e \in S : \E b \in 1 .. z[e] : c = <<e, b>>
  BY DEF Cells
<1> HIDE DEF A, B
<1>3. ASSUME NEW c \in A PROVE f[c] \in B
  <2>0. PICK i \in 1 .. n : \E b \in 1 .. z[s[i]] : c = <<i, b>>
    BY <1>1
  <2>1. PICK b \in 1 .. z[s[i]] : c = <<i, b>>
    BY <2>0
  <2>2. s[i] \in S /\ f[c] = <<s[i], b>>
    BY <1>0, <2>1
  <2> QED
    BY <1>2, <2>2
<1>4. ASSUME NEW c \in A, NEW d \in A, f[c] = f[d] PROVE c = d
  <2>0. PICK i \in 1 .. n : \E b \in 1 .. z[s[i]] : c = <<i, b>>
    BY <1>1
  <2>1. PICK b \in 1 .. z[s[i]] : c = <<i, b>>
    BY <2>0
  <2>a. PICK j \in 1 .. n : \E a \in 1 .. z[s[j]] : d = <<j, a>>
    BY <1>1
  <2>2. PICK a \in 1 .. z[s[j]] : d = <<j, a>>
    BY <2>a
  <2>3. <<s[i], b>> = <<s[j], a>>
    BY <1>4, <2>1, <2>2
  <2> QED
    BY <1>0, <2>1, <2>2, <2>3
<1>5. ASSUME NEW c \in B PROVE \E d \in A : f[d] = c
  <2>0. PICK e \in S : \E b \in 1 .. z[e] : c = <<e, b>>
    BY <1>2
  <2>1. PICK b \in 1 .. z[e] : c = <<e, b>>
    BY <2>0
  <2>2. PICK i \in 1 .. n : s[i] = e
    BY <1>0
  <2>3. <<i, b>> \in A
    BY <1>1, <2>1, <2>2
  <2> QED
    BY <2>1, <2>2, <2>3
<1>6. f \in [A -> B]
  BY <1>3
<1> HIDE DEF f
<1>7. f \in Bijection(A, B)
  BY <1>3, <1>4, <1>5, <1>6 DEF Bijection, Injection, Surjection, IsInjective
<1>8. ExistsBijection(A, B)
  BY <1>7 DEF ExistsBijection
<1>9. ExistsBijection(B, A)
  BY <1>8, Fun_ExistsBijSymmetric
<1>10. IsFiniteSet(B)
  BY DEF B
<1>11. Cardinality(A) = Cardinality(B)
  BY <1>9, <1>10, FS_Bijection
<1> QED
  BY <1>11 DEF A, B

(* current_size_bytes is what LruCache counts. *)
LEMMA UsedIs ==
  ASSUME CInv
  PROVE  LC!Used = current_size
<1>1. PICK s : InOrder(lru, s, Listed)
  BY Basics DEF Links
<1>2. PICK n : n = lru.entry_count
  OBVIOUS
<1>3. /\ n \in Nat /\ Recency = KeysOf(key, s, n)
      /\ Enumerates(s, n, Listed)
  BY <1>1, <1>2, RecencyIs DEF InOrder, Enumerates
<1> DEFINE y == KeysOf(sizes, s, n)
           C(i) == {i} \X (1 .. SizeOf[Stored[Recency[i]]])
           D(i) == {i} \X (1 .. y[i])
<1>4. DOMAIN Recency = 1 .. n
  BY <1>3 DEF KeysOf
<1>5. ASSUME NEW i \in 1 .. n PROVE SizeOf[Stored[Recency[i]]] = y[i]
  <2>1. s[i] \in Allocated /\ Recency[i] = key[s[i]] /\ y[i] = sizes[s[i]]
    BY <1>3 DEF KeysOf, Enumerates, Listed
  <2>2. Stored[Recency[i]] = data[s[i]] /\ sizes[s[i]] = Size(s[i])
    BY <2>1, StoredIs, Basics
  <2> QED
    BY <2>1, <2>2 DEF Size
<1>6. \A i \in 1 .. n : C(i) = D(i)
  BY <1>5
<1>7. LC!Used = Cardinality(Cells(1 .. n, y))
  <2>1. LC!Used = Cardinality(UNION {C(i) : i \in DOMAIN Recency})
    BY DEF LC!Used, LC!Cardinality, Cardinality
  <2>2. Cells(1 .. n, y) = UNION {D(i) : i \in 1 .. n}
    BY DEF Cells
  <2> HIDE DEF C, D, y
  <2>3. UNION {C(i) : i \in 1 .. n} = UNION {D(i) : i \in 1 .. n}
    BY <1>6
  <2> QED
    BY <1>4, <2>1, <2>2, <2>3
<1>8. IsFiniteSet(Cells(Listed, sizes)) /\ current_size = Cardinality(Cells(Listed, sizes))
  BY DEF CInv, BytesInv
<1>9. Cardinality(Cells(1 .. n, y)) = Cardinality(Cells(Listed, sizes))
  BY <1>3, <1>8, CellsRenamed
<1> QED
  BY <1>7, <1>8, <1>9

(* The same entries in the same order: Recency after a step. *)
LEMMA RecencyNext ==
  ASSUME CInv', NEW t, InOrder(lru', t, Listed')
  PROVE  Recency' = KeysOf(key', t, lru'.entry_count)
<1>1. lru' \in Lists
  BY DEF CInv, TypeOK
<1>2. Order(lru', Listed') = t
  BY <1>1, OrderIs
<1> QED
  BY <1>2 DEF Recency, KeysOf

LEMMA KeysSame ==
  ASSUME NEW f, NEW g, NEW s, NEW n, \A i \in 1 .. n : f[s[i]] = g[s[i]]
  PROVE  KeysOf(f, s, n) = KeysOf(g, s, n)
  BY DEF KeysOf

(* Detaching the entry at position p, putting it first, putting another    *)
(* one first, and detaching the last.                                      *)
LEMMA KeysWithout ==
  ASSUME CInv, NEW s, InOrder(lru, s, Listed), NEW p \in 1 .. lru.entry_count
  PROVE  /\ KeysOf(key, TakenOut(s, lru.entry_count, p), lru.entry_count - 1)
               = LC!Without(Recency, key[s[p]])
         /\ LC!Without(Recency, key[s[p]]) \in Seq(Keys)
         /\ Len(LC!Without(Recency, key[s[p]])) = lru.entry_count - 1
<1>1. PICK n : n = lru.entry_count
  OBVIOUS
<1>2. /\ n \in Nat /\ Recency = KeysOf(key, s, n)
      /\ Recency \in Seq(Keys) /\ Len(Recency) = n
      /\ \A i, j \in 1 .. n : Recency[i] = Recency[j] => i = j
      /\ p \in 1 .. n
  BY <1>1, RecencyIs
<1>3. Recency[p] = key[s[p]]
  BY <1>2 DEF KeysOf
<1>4. LC!Without(Recency, Recency[p]) = TakenOut(Recency, n, p)
  BY <1>2, WithoutIsTakenOut
<1>5. KeysOf(key, TakenOut(s, n, p), n - 1) = TakenOut(Recency, n, p)
  BY <1>2, KeysTakenOut
<1>6. TakenOut(Recency, n, p) \in Seq(Keys) /\ Len(TakenOut(Recency, n, p)) = n - 1
  <2>1. n - 1 \in Nat /\ \A i \in 1 .. n : Recency[i] \in Keys
    BY <1>2
  <2>2. \A i \in 1 .. n - 1 : i \in 1 .. n /\ i + 1 \in 1 .. n
    BY <1>2
  <2>3. TakenOut(Recency, n, p) \in [1 .. n - 1 -> Keys]
    BY <2>1, <2>2 DEF TakenOut
  <2> QED
    BY <2>1, <2>3
<1> QED
  BY <1>1, <1>3, <1>4, <1>5, <1>6

LEMMA KeysAdded ==
  ASSUME NEW f, NEW s, NEW n \in Nat, NEW e, f[e] \in Keys,
         KeysOf(f, s, n) \in Seq(Keys), Len(KeysOf(f, s, n)) = n
  PROVE  KeysOf(f, InFront(s, n, e), n + 1) = <<f[e]>> \o KeysOf(f, s, n)
  BY KeysInFront, ConcatIsInFront

LEMMA KeysToFront ==
  ASSUME CInv, NEW s, InOrder(lru, s, Listed), NEW p \in 1 .. lru.entry_count
  PROVE  KeysOf(key, InFront(TakenOut(s, lru.entry_count, p), lru.entry_count - 1, s[p]),
                lru.entry_count)
           = LC!ToFront(Recency, key[s[p]])
<1>1. PICK n : n = lru.entry_count
  OBVIOUS
<1>2. PICK t : t = TakenOut(s, n, p)
  OBVIOUS
<1>3. n \in Nat /\ p \in 1 .. n /\ n - 1 \in Nat /\ (n - 1) + 1 = n
  BY <1>1, RecencyIs
<1>4. /\ KeysOf(key, t, n - 1) = LC!Without(Recency, key[s[p]])
      /\ LC!Without(Recency, key[s[p]]) \in Seq(Keys)
      /\ Len(LC!Without(Recency, key[s[p]])) = n - 1
  BY <1>1, <1>2, KeysWithout
<1>5. key[s[p]] \in Keys
  BY <1>1, <1>3, StoredIs DEF InOrder, Listed
<1>6. KeysOf(key, InFront(t, n - 1, s[p]), (n - 1) + 1)
        = <<key[s[p]]>> \o LC!Without(Recency, key[s[p]])
  <2>1. KeysOf(key, t, n - 1) \in Seq(Keys) /\ Len(KeysOf(key, t, n - 1)) = n - 1
    BY <1>4
  <2>2. KeysOf(key, InFront(t, n - 1, s[p]), (n - 1) + 1)
          = <<key[s[p]]>> \o KeysOf(key, t, n - 1)
    BY <1>3, <1>5, <2>1, KeysAdded
  <2> QED
    BY <1>4, <2>2
<1> QED
  BY <1>1, <1>2, <1>3, <1>6 DEF LC!ToFront

LEMMA KeysButLast ==
  ASSUME CInv, NEW s, InOrder(lru, s, Listed), lru.entry_count # 0
  PROVE  KeysOf(key, TakenOut(s, lru.entry_count, lru.entry_count), lru.entry_count - 1)
           = SubSeq(Recency, 1, Len(Recency) - 1)
<1>1. PICK n : n = lru.entry_count
  OBVIOUS
<1>2. /\ n \in Nat /\ n # 0 /\ Recency = KeysOf(key, s, n)
      /\ Recency \in Seq(Keys) /\ Len(Recency) = n
  BY <1>1, RecencyIs
<1>3. \A i \in 1 .. n - 1 : i \in 1 .. n /\ Recency[i] \in Keys /\ Recency[i] = key[s[i]]
  BY <1>2 DEF KeysOf
<1>4. /\ SubSeq(Recency, 1, n - 1) \in Seq(Keys)
      /\ Len(SubSeq(Recency, 1, n - 1)) = n - 1
      /\ \A i \in 1 .. n - 1 : SubSeq(Recency, 1, n - 1)[i] = Recency[i]
  <2>1. 1 \in Int /\ n - 1 \in Int /\ \A i \in 1 .. n - 1 : Recency[i] \in Keys
    BY <1>2, <1>3
  <2>2. /\ SubSeq(Recency, 1, n - 1) \in Seq(Keys)
        /\ Len(SubSeq(Recency, 1, n - 1)) = IF 1 <= n - 1 THEN n - 1 - 1 + 1 ELSE 0
        /\ \A i \in 1 .. n - 1 - 1 + 1 : SubSeq(Recency, 1, n - 1)[i] = Recency[1 + i - 1]
    BY <2>1, SubSeqProperties
  <2> QED
    BY <1>2, <2>2
<1>5. SubSeq(Recency, 1, n - 1) = [i \in 1 .. n - 1 |-> key[s[i]]]
  <2>1. SubSeq(Recency, 1, n - 1) = [i \in 1 .. n - 1 |-> SubSeq(Recency, 1, n - 1)[i]]
    BY <1>2, <1>4
  <2>2. \A i \in 1 .. n - 1 : SubSeq(Recency, 1, n - 1)[i] = key[s[i]]
    BY <1>3, <1>4
  <2> QED
    BY <2>1, <2>2
<1>6. KeysOf(key, TakenOut(s, n, n), n - 1) = [i \in 1 .. n - 1 |-> key[s[i]]]
  <2>1. \A i \in 1 .. n - 1 : TakenOut(s, n, n)[i] = s[i]
    BY <1>2 DEF TakenOut
  <2> QED
    BY <2>1 DEF KeysOf
<1> QED
  BY <1>1, <1>2, <1>5, <1>6

(* StoredIs before and after a step. *)
LEMMA StoredRight ==
  CInv => /\ \A e \in Allocated : Stored[key[e]] = data[e]
          /\ \A j \in Keys : (\A e \in Allocated : key[e] # j) => Stored[j] = NoObject
  BY StoredIs

(* What is stored only changes under the key of the entry that changes. *)
LEMMA StoredNext ==
  ASSUME CInv, CInv', NEW k \in Keys, NEW o,
         \A e \in Allocated : key[e] # k =>
             e \in Allocated' /\ key'[e] = key[e] /\ data'[e] = data[e],
         \A e \in Allocated' : key'[e] # k => e \in Allocated /\ key'[e] = key[e],
         \/ \E e \in Allocated' : key'[e] = k /\ data'[e] = o
         \/ o = NoObject /\ \A e \in Allocated' : key'[e] # k
  PROVE  Stored' = [Stored EXCEPT ![k] = o]
<1>1. /\ \A e \in Allocated : Stored[key[e]] = data[e]
      /\ \A j \in Keys : (\A e \in Allocated : key[e] # j) => Stored[j] = NoObject
  BY StoredRight
<1>2. /\ \A e \in Allocated' : Stored'[key'[e]] = data'[e]
      /\ \A j \in Keys : (\A e \in Allocated' : key'[e] # j) => Stored'[j] = NoObject
  <2>1. (CInv => /\ \A e \in Allocated : Stored[key[e]] = data[e]
                 /\ \A j \in Keys : (\A e \in Allocated : key[e] # j) => Stored[j] = NoObject)'
    BY StoredRight, PTL
  <2> QED
    BY <2>1
<1>3. Stored'[k] = o
  BY <1>2
<1>4. ASSUME NEW j \in Keys \ {k} PROVE Stored'[j] = Stored[j]
  <2>1. CASE \E e \in Allocated : key[e] = j
    BY <1>1, <1>2, <2>1
  <2>2. CASE \A e \in Allocated : key[e] # j
    <3>1. \A e \in Allocated' : key'[e] # j
      BY <2>2
    <3> QED
      BY <1>1, <1>2, <2>2, <3>1
  <2> QED
    BY <2>1, <2>2
<1>5. Stored = [j \in Keys |-> Stored[j]]
      /\ Stored' = [j \in Keys |-> Stored'[j]]
  BY DEF Stored
<1> QED
  BY <1>3, <1>4, <1>5

(* Between two calls no room is being made. *)
LEMMA IdleIs ==
  ASSUME CInv, pc = "idle"
  PROVE  <<put_key, put_object>> = LC!Idle
  BY DEF CInv, TypeOK, LC!Idle

LEMMA AcceptableIs ==
  ASSUME CInv, NEW o \in Objects
  PROVE  Acceptable(o) <=> LC!Acceptable(o)
<1>1. SizeOf[o] \in Nat /\ MaxObject \in Nat /\ MaxTotal \in Nat /\ MaxObject <= MaxTotal
  BY CacheAssumption
<1> QED
  BY <1>1 DEF Acceptable, LC!Acceptable

(* The order of an entry that a call finds. *)
LEMMA PlaceOf ==
  ASSUME CInv, NEW e \in Listed
  PROVE  \E s : /\ InOrder(lru, s, Listed)
                /\ \E p \in 1 .. lru.entry_count : s[p] = e
<1>1. PICK s : InOrder(lru, s, Listed)
  BY Basics DEF Links
<1> QED
  BY <1>1 DEF InOrder

(* Calls that leave the table and the entry in hand alone. *)
LEMMA ViewUnchanged ==
  ASSUME UNCHANGED <<table, put_entry>>
  PROVE  Recency' = Recency /\ Stored' = Stored
  BY DEF Recency, Stored, StoredUnder, Listed, Allocated, table

(* ... an unacceptable object, or no memory for one that would fit in place*)
LEMMA RefuseSimulation ==
  ASSUME CInv, NEW k \in Keys, NEW o \in Objects, PutRefuse(k, o) \/ PutShrinkFails(k, o)
  PROVE  LC!Refuse(k, o)
<1>1. UNCHANGED <<table, call>> /\ pc = "idle" /\ result' = "not stored" /\ evicted' = FALSE
  BY DEF PutRefuse, PutShrinkFails
<1>2. Acceptable(o) => Matches(k) # {}
  BY DEF PutRefuse, PutShrinkFails
<1>3. LC!Acceptable(o) => Stored[k] # NoObject
  BY <1>2, AcceptableIs, MatchesIs
<1>4. Recency' = Recency /\ Stored' = Stored
  BY <1>1, ViewUnchanged DEF call
<1>5. <<put_key, put_object>> = LC!Idle
  BY <1>1, IdleIs
<1> QED
  BY <1>1, <1>3, <1>4, <1>5 DEF LC!Refuse, call

(* ... a new key, for which room is made. *)
LEMMA NewSimulation ==
  ASSUME CInv, NEW k \in Keys, NEW o \in Objects, PutNew(k, o)
  PROVE  LC!Begin(k, o)
<1>1. /\ UNCHANGED <<table, put_entry, result>> /\ pc = "idle" /\ Acceptable(o)
      /\ evicted' = FALSE
      /\ Matches(k) = {} /\ put_key' = k /\ put_object' = o
  BY DEF PutNew
<1>2. Stored[k] = NoObject
  BY <1>1, MatchesIs
<1>3. Recency' = Recency /\ Stored' = Stored
  BY <1>1, ViewUnchanged
<1>4. LC!Without(Recency, k) = Recency
  <2>1. PICK s : InOrder(lru, s, Listed)
    BY Basics DEF Links
  <2>2. Recency = KeysOf(key, s, lru.entry_count)
    BY <2>1, RecencyIs
  <2>3. \A i \in DOMAIN Recency : Recency[i] # k
    <3> SUFFICES ASSUME NEW i \in 1 .. lru.entry_count PROVE key[s[i]] # k
      BY <2>2 DEF KeysOf
    <3>1. s[i] \in Allocated
      BY <2>1 DEF InOrder, Listed
    <3> QED
      BY <1>1, <3>1, MatchesIs
  <2> QED
    BY <2>3, WithoutIsAll
<1>5. <<put_key, put_object>> = LC!Idle
  BY <1>1, IdleIs
<1>6. LC!Acceptable(o)
  BY <1>1, AcceptableIs
<1> QED
  BY <1>1, <1>2, <1>3, <1>4, <1>5, <1>6 DEF LC!Begin

(* No memory for a new entry: but there was room. *)
LEMMA InsertFailsSimulation ==
  ASSUME CInv, InsertFails
  PROVE  LC!Abandon
<1>1. /\ UNCHANGED table /\ pc = "insert" /\ ~MustEvict /\ put_entry = NULL
      /\ put_key' = NoKey /\ put_object' = NoObject /\ put_entry' = NULL
      /\ result' = "not stored" /\ put_key \in Keys /\ put_object \in Objects
      /\ UNCHANGED evicted
  BY DEF InsertFails, Return, CInv, TypeOK
<1>2. Recency' = Recency /\ Stored' = Stored
  BY <1>1, ViewUnchanged
<1>3. Stored[put_key] = NoObject
  BY <1>1, StoredIs DEF CInv, CallInv
<1>4. LC!Fits
  BY <1>1, UsedIs, RoomFromInv DEF LC!Fits, RoomIsFound, Fits
<1>5. <<put_key, put_object>> # LC!Idle
  BY <1>1, CacheAssumption DEF LC!Idle
<1> QED
  BY <1>1, <1>2, <1>3, <1>4, <1>5 DEF LC!Abandon, LC!Idle

(* The replaced entry steps out of the list. *)
LEMMA GrowSimulation ==
  ASSUME CInv, CInv', NEW k \in Keys, NEW o \in Objects, PutGrow(k, o)
  PROVE  LC!Begin(k, o)
<1>1. PICK e \in Matches(k) :
        /\ pc = "idle" /\ Acceptable(o) /\ SizeOf[o] > Size(e)
        /\ lru' = Detach(lru, e)
        /\ put_key' = k /\ put_object' = o /\ put_entry' = e
        /\ evicted' = FALSE
        /\ UNCHANGED <<key, data, result>>
  BY DEF PutGrow
<1>2. e \in Listed /\ e \in Allocated /\ key[e] = k /\ Listed = Allocated
  BY <1>1, MatchIsListed, Basics
<1>3. PICK s : /\ InOrder(lru, s, Listed)
               /\ \E p \in 1 .. lru.entry_count : s[p] = e
  BY <1>2, PlaceOf
<1>4. PICK p \in 1 .. lru.entry_count : s[p] = e
  BY <1>3
<1>5. /\ lru'.entry_count = lru.entry_count - 1
      /\ InOrder(lru', TakenOut(s, lru.entry_count, p), Listed \ {e})
  BY <1>1, <1>3, <1>4, Basics, DetachOrder
<1>6. Listed' = Listed \ {e}
  BY <1>1, <1>2 DEF Listed, Allocated
<1>7. Recency' = KeysOf(key, TakenOut(s, lru.entry_count, p), lru.entry_count - 1)
  BY <1>1, <1>5, <1>6, RecencyNext
<1>8. Recency' = LC!Without(Recency, k)
  BY <1>2, <1>3, <1>4, <1>7, KeysWithout
<1>9. Stored' = Stored
  BY <1>1 DEF Stored, StoredUnder, Allocated
<1>10. Stored[k] # NoObject => SizeOf[o] > SizeOf[Stored[k]]
  BY <1>1, MatchesIs DEF Size
<1>11. <<put_key, put_object>> = LC!Idle /\ LC!Acceptable(o)
  BY <1>1, IdleIs, AcceptableIs
<1> QED
  BY <1>1, <1>8, <1>9, <1>10, <1>11 DEF LC!Begin

(* Moving an entry to the front moves its key. *)
LEMMA MoveSimulation ==
  ASSUME CInv, CInv', NEW k \in Keys, NEW e \in Matches(k), pc = "idle",
         lru' = MoveToFront(lru, e), UNCHANGED <<key, put_entry>>
  PROVE  Recency' = LC!ToFront(Recency, k)
<1>1. e \in Listed /\ key[e] = k
  BY MatchIsListed
<1>2. PICK s : /\ InOrder(lru, s, Listed)
               /\ \E p \in 1 .. lru.entry_count : s[p] = e
  BY <1>1, PlaceOf
<1>3. PICK p \in 1 .. lru.entry_count : s[p] = e
  BY <1>2
<1>4. PICK t : t = InFront(TakenOut(s, lru.entry_count, p), lru.entry_count - 1, e)
  OBVIOUS
<1>5. lru'.entry_count = lru.entry_count /\ InOrder(lru', t, Listed)
  <2>1. lru \in Lists /\ Listed \in SUBSET Entries /\ InOrder(lru, s, Listed)
    BY <1>2, Basics
  <2>2. /\ MoveToFront(lru, s[p]).entry_count = lru.entry_count
        /\ InOrder(MoveToFront(lru, s[p]),
                   InFront(TakenOut(s, lru.entry_count, p), lru.entry_count - 1, s[p]), Listed)
    BY <2>1, MoveToFrontOrder
  <2> QED
    BY <1>3, <1>4, <2>2
<1>6. Listed' = Listed
  BY DEF Listed, Allocated
<1>7. Recency' = KeysOf(key, t, lru.entry_count)
  BY <1>5, <1>6, RecencyNext
<1> QED
  BY <1>1, <1>2, <1>3, <1>4, <1>7, KeysToFront

(* ... an object that takes the place of one that is not smaller. *)
LEMMA ShrinkSimulation ==
  ASSUME CInv, CInv', NEW k \in Keys, NEW o \in Objects, PutShrink(k, o)
  PROVE  LC!Overwrite(k, o)
<1>1. PICK e \in Matches(k) :
        /\ pc = "idle" /\ Acceptable(o) /\ SizeOf[o] <= Size(e)
        /\ lru' = MoveToFront(lru, e)
        /\ data' = [data EXCEPT ![e] = o]
        /\ UNCHANGED <<key, call>> /\ result' = "stored" /\ evicted' = FALSE
  BY DEF PutShrink
<1>2. e \in Entries /\ e \in Allocated /\ key[e] = k /\ data \in [Entries -> Objects \cup {NoObject}]
  BY <1>1, MatchIsListed DEF CInv, TypeOK
<1>3. Recency' = LC!ToFront(Recency, k)
  BY <1>1, MoveSimulation DEF call
<1>4. Allocated' = Allocated /\ data'[e] = o /\ \A x \in Allocated : x # e => data'[x] = data[x]
  BY <1>1, <1>2 DEF Allocated
<1>5. Stored' = [Stored EXCEPT ![k] = o]
  BY <1>1, <1>2, <1>4, StoredNext
<1>6. Stored[k] # NoObject /\ SizeOf[o] <= SizeOf[Stored[k]]
  BY <1>1, MatchesIs DEF Size
<1>7. <<put_key, put_object>> = LC!Idle /\ LC!Acceptable(o)
  BY <1>1, IdleIs, AcceptableIs
<1> QED
  BY <1>1, <1>3, <1>5, <1>6, <1>7 DEF LC!Overwrite, call

(* cache_get *)
LEMMA GetSimulation ==
  ASSUME CInv, CInv', NEW k \in Keys, GetHit(k) \/ GetMiss(k)
  PROVE  LC!Hit(k) \/ LC!Miss(k)
<1>1. CASE GetMiss(k)
  <2>1. Recency' = Recency /\ Stored' = Stored /\ <<put_key, put_object>> = LC!Idle
    BY <1>1, ViewUnchanged, IdleIs DEF GetMiss, call
  <2> QED
    BY <1>1, <2>1 DEF GetMiss, LC!Miss, call
<1>2. CASE GetHit(k)
  <2>1. PICK e \in Matches(k) :
          /\ pc = "idle" /\ result' = data[e] /\ lru' = MoveToFront(lru, e)
          /\ UNCHANGED <<key, data, call, evicted>>
    BY <1>2 DEF GetHit
  <2>2. Recency' = LC!ToFront(Recency, k)
    BY <2>1, MoveSimulation DEF call
  <2>3. Stored' = Stored
    BY <2>1 DEF Stored, StoredUnder, Allocated
  <2>4. Stored[k] # NoObject /\ Stored[k] = data[e]
    BY <2>1, MatchesIs
  <2>5. <<put_key, put_object>> = LC!Idle
    BY <2>1, IdleIs
  <2> QED
    BY <2>1, <2>2, <2>3, <2>4, <2>5 DEF LC!Hit, call
<1> QED
  BY <1>1, <1>2

(* One turn of the eviction loop drops the key that was not used for the   *)
(* longest time.                                                           *)
LEMMA EvictSimulation ==
  ASSUME CInv, CInv', EvictTail
  PROVE  LC!Drop
<1>1. PICK e : e = lru.tail
  OBVIOUS
<1>2. /\ lru' = Detach(lru, e)
      /\ key' = [key EXCEPT ![e] = NoKey]
      /\ data' = [data EXCEPT ![e] = NoObject]
      /\ UNCHANGED <<call, result>> /\ evicted' = TRUE
      /\ ~Fits(put_object) /\ e # NULL /\ pc \in {"insert", "grow"}
  BY <1>1 DEF EvictTail, RemoveTail, MustEvict
<1>3. e \in Listed
  BY <1>1, <1>2, Basics, TailLinks
<1>4. PICK s : InOrder(lru, s, Listed)
  BY Basics DEF Links
<1>5. PICK n : n = lru.entry_count
  OBVIOUS
<1>6. n \in Nat /\ n # 0 /\ s[n] = e /\ n \in 1 .. n
  <2>1. n \in Nat /\ e = IF n = 0 THEN NULL ELSE s[n]
    BY <1>1, <1>4, <1>5, RecencyIs DEF InOrder
  <2> QED
    BY <1>2, <2>1
<1>7. lru'.entry_count = n - 1 /\ InOrder(lru', TakenOut(s, n, n), Listed \ {e})
  <2>1. lru \in Lists /\ Listed \in SUBSET Entries
    BY Basics
  <2> QED
    BY <1>2, <1>4, <1>5, <1>6, <2>1, DetachOrder
<1>8. /\ e \in Entries /\ e \in Allocated /\ e # put_entry /\ key[e] \in Keys
      /\ \A x \in Entries : x # e => key'[x] = key[x] /\ data'[x] = data[x]
      /\ key'[e] = NoKey
  BY <1>2, <1>3 DEF Listed, Allocated, CInv, TypeOK
<1>9. Allocated' = Allocated \ {e} /\ Listed' = Listed \ {e}
  BY <1>2, <1>8 DEF Allocated, Listed, call
<1>10. Recency' = KeysOf(key', TakenOut(s, n, n), n - 1)
  BY <1>7, <1>9, RecencyNext
<1>11. KeysOf(key', TakenOut(s, n, n), n - 1) = KeysOf(key, TakenOut(s, n, n), n - 1)
  <2>1. \A i \in 1 .. n - 1 : TakenOut(s, n, n)[i] \in Listed \ {e}
    BY <1>7 DEF InOrder
  <2>2. \A i \in 1 .. n - 1 : key'[TakenOut(s, n, n)[i]] = key[TakenOut(s, n, n)[i]]
    BY <1>8, <2>1 DEF Listed, Allocated
  <2> QED
    BY <2>2, KeysSame
<1>12. Recency' = SubSeq(Recency, 1, Len(Recency) - 1)
  BY <1>4, <1>5, <1>6, <1>10, <1>11, KeysButLast
<1>13. Recency # <<>> /\ Recency[Len(Recency)] = key[e]
  BY <1>4, <1>5, <1>6, RecencyIs DEF KeysOf
<1>14. Stored' = [Stored EXCEPT ![key[e]] = NoObject]
  <2>1. \A x \in Allocated : key[x] # key[e] =>
          x \in Allocated' /\ key'[x] = key[x] /\ data'[x] = data[x]
    BY <1>8, <1>9 DEF Allocated
  <2>2. \A x \in Allocated' : x \in Allocated /\ x # e /\ key'[x] = key[x]
    BY <1>8, <1>9 DEF Allocated
  <2>3. \A x \in Allocated' : key'[x] # key[e]
    BY <1>8, <2>2 DEF CInv, TableIntact
  <2> QED
    BY <1>8, <2>1, <2>2, <2>3, StoredNext
<1>15. ~LC!Fits
  BY <1>2, UsedIs DEF LC!Fits, Fits
<1>16. <<put_key, put_object>> # LC!Idle
  <2>1. put_key \in Keys
    BY <1>2 DEF CInv, TypeOK
  <2> QED
    BY <2>1, CacheAssumption DEF LC!Idle
<1> QED
  BY <1>2, <1>12, <1>13, <1>14, <1>15, <1>16 DEF LC!Drop, call

(* A cache_put that found room links its entry first: the order before, and*)
(* the entry with the key it now has in front of it.                       *)
LEMMA LinkFirst ==
  ASSUME CInv, CInv', NEW e \in Entries, e \notin Listed,
         lru' = AttachFront(lru, e), Listed' = Listed \cup {e},
         key'[e] \in Keys, \A x \in Listed : key'[x] = key[x]
  PROVE  Recency' = <<key'[e]>> \o Recency
<1>1. PICK s : InOrder(lru, s, Listed)
  BY Basics DEF Links
<1>2. PICK n : n = lru.entry_count
  OBVIOUS
<1>3. lru'.entry_count = n + 1 /\ InOrder(lru', InFront(s, n, e), Listed \cup {e})
  <2>1. lru \in Lists /\ Listed \in SUBSET Entries
    BY Basics
  <2> QED
    BY <1>1, <1>2, <2>1, AttachFrontOrder
<1>4. /\ n \in Nat /\ Recency = KeysOf(key, s, n)
      /\ Recency \in Seq(Keys) /\ Len(Recency) = n
  BY <1>1, <1>2, RecencyIs
<1>5. Recency' = KeysOf(key', InFront(s, n, e), n + 1)
  BY <1>3, RecencyNext
<1>6. KeysOf(key', s, n) = Recency
  <2>1. \A i \in 1 .. n : key'[s[i]] = key[s[i]]
    BY <1>1, <1>2 DEF InOrder
  <2> QED
    BY <1>4, <2>1, KeysSame
<1>7. KeysOf(key', s, n) \in Seq(Keys) /\ Len(KeysOf(key', s, n)) = n
  BY <1>4, <1>6
<1>8. KeysOf(key', InFront(s, n, e), n + 1) = <<key'[e]>> \o KeysOf(key', s, n)
  BY <1>4, <1>7, KeysAdded
<1> QED
  BY <1>5, <1>6, <1>8

(* ... a new entry. *)
LEMMA InsertSimulation ==
  ASSUME CInv, CInv', InsertEntry
  PROVE  LC!Commit
<1>1. TypeOK /\ CallInv /\ pc = "insert" /\ put_entry = NULL
      /\ put_key \in Keys /\ put_object \in Objects
  BY DEF CInv, TypeOK, InsertEntry
<1>2. PICK e \in Entries \ Allocated :
        /\ key' = [key EXCEPT ![e] = put_key]
        /\ data' = [data EXCEPT ![e] = put_object]
        /\ lru' = AttachFront(lru, e)
        /\ put_key' = NoKey /\ put_object' = NoObject /\ put_entry' = NULL
        /\ result' = "stored" /\ Fits(put_object) /\ UNCHANGED evicted
  BY DEF InsertEntry, Return
<1>3. /\ \A x \in Entries : x # e => key'[x] = key[x] /\ data'[x] = data[x]
      /\ key'[e] = put_key /\ data'[e] = put_object /\ put_key # NoKey
  BY <1>1, <1>2, CacheAssumption DEF TypeOK
<1>4. /\ Allocated' = Allocated \cup {e} /\ e \notin Allocated /\ Listed = Allocated
      /\ Listed' = Listed \cup {e}
  BY <1>1, <1>2, <1>3, Basics DEF Allocated, Listed
<1>5. Recency' = <<put_key>> \o Recency
  <2>1. \A x \in Listed : key'[x] = key[x]
    BY <1>3, <1>4 DEF Allocated
  <2> QED
    BY <1>1, <1>2, <1>3, <1>4, <2>1, LinkFirst
<1>6. Stored' = [Stored EXCEPT ![put_key] = put_object]
  <2>1. \A x \in Allocated : x \in Allocated' /\ key'[x] = key[x] /\ data'[x] = data[x]
    BY <1>3, <1>4 DEF Allocated
  <2>2. \A x \in Allocated' : key'[x] # put_key => x \in Allocated /\ key'[x] = key[x]
    BY <1>3, <1>4, <2>1
  <2>3. e \in Allocated' /\ key'[e] = put_key /\ data'[e] = put_object
    BY <1>3, <1>4
  <2> QED
    BY <1>1, <2>1, <2>2, <2>3, StoredNext
<1>7. LC!Fits
  BY <1>2, UsedIs DEF LC!Fits, Fits
<1>8. <<put_key, put_object>> # LC!Idle
  BY <1>3 DEF LC!Idle
<1> QED
  BY <1>2, <1>5, <1>6, <1>7, <1>8 DEF LC!Commit, LC!Idle

(* ... or the one it replaces, with the new object or the old one. *)
LEMMA GrowEndSimulation ==
  ASSUME CInv, CInv', GrowEntry \/ GrowFails
  PROVE  LC!Commit \/ LC!Abandon
<1>1. PICK e : e = put_entry
  OBVIOUS
<1>2. /\ TypeOK /\ pc = "grow" /\ put_key \in Keys /\ put_object \in Objects
      /\ e \in Allocated /\ key[e] = put_key /\ e \in Entries
  BY <1>1 DEF CInv, CallInv, TypeOK, GrowEntry, GrowFails, Allocated
<1>3. /\ UNCHANGED key /\ lru' = AttachFront(lru, e)
      /\ put_key' = NoKey /\ put_object' = NoObject /\ put_entry' = NULL
      /\ ~MustEvict /\ UNCHANGED evicted
  BY <1>1 DEF GrowEntry, GrowFails, Return
<1>4. /\ Allocated' = Allocated /\ Listed = Allocated \ {e} /\ e \notin Listed
      /\ Listed' = Listed \cup {e}
  BY <1>1, <1>2, <1>3, NullAssumption DEF Allocated, Listed
<1>5. Recency' = <<put_key>> \o Recency
  BY <1>2, <1>3, <1>4, LinkFirst
<1>6. LC!Fits
  BY <1>2, <1>3, UsedIs, RoomFromInv DEF LC!Fits, RoomIsFound, Fits
<1>7. <<put_key, put_object>> # LC!Idle
  BY <1>2, CacheAssumption DEF LC!Idle
<1>8. CASE GrowEntry
  <2>1. data' = [data EXCEPT ![e] = put_object] /\ result' = "stored"
    BY <1>1, <1>8 DEF GrowEntry, Return
  <2>2. /\ data'[e] = put_object
        /\ \A x \in Allocated : x # e => data'[x] = data[x]
    BY <1>2, <2>1 DEF TypeOK, Allocated
  <2>3. Stored' = [Stored EXCEPT ![put_key] = put_object]
    BY <1>2, <1>3, <1>4, <2>2, StoredNext
  <2> QED
    BY <1>3, <1>5, <1>6, <1>7, <2>1, <2>3 DEF LC!Commit, LC!Idle
<1>9. CASE GrowFails
  <2>1. UNCHANGED data /\ result' = "not stored"
    BY <1>9 DEF GrowFails, Return
  <2>2. Stored' = Stored
    BY <1>3, <2>1 DEF Stored, StoredUnder, Allocated
  <2>3. Stored[put_key] # NoObject
    BY <1>2, StoredIs
  <2> QED
    BY <1>3, <1>5, <1>6, <1>7, <2>1, <2>2, <2>3 DEF LC!Abandon, LC!Idle
<1> QED
  BY <1>8, <1>9

(* cache_destroy empties the store. *)
LEMMA DestroySimulation ==
  ASSUME CInv, CInv', Destroy
  PROVE  LC!Clear
<1>1. /\ pc = "idle" /\ lru' = EmptyList /\ Allocated' = {}
      /\ UNCHANGED <<put_key, put_object, put_entry, result, evicted>>
  BY DestroyInv DEF Destroy
<1>2. lru'.entry_count = 0
  BY <1>1 DEF EmptyList
<1>3. Recency' = <<>>
  <2>1. Recency' = [i \in 1 .. 0 |-> key'[Order(lru', Listed')[i]]]
    BY <1>2 DEF Recency
  <2> QED
    BY <2>1
<1>4. Stored' = [k \in Keys |-> NoObject]
  BY <1>1 DEF Stored, StoredUnder
<1>5. <<put_key, put_object>> = LC!Idle
  BY <1>1, IdleIs
<1> QED
  BY <1>1, <1>3, <1>4, <1>5 DEF LC!Clear

(* Every step of the cache is a step of the abstract store or leaves it as *)
(* it is.                                                                  *)
LEMMA CacheStepSimulation ==
  ASSUME CInv, CInv', [Next]_vars
  PROVE  [LC!Next]_(LC!lvars)
<1>1. ASSUME NEW k \in Keys, NEW o \in Objects, PutStart(k, o)
      PROVE  LC!Begin(k, o) \/ LC!Overwrite(k, o) \/ LC!Refuse(k, o)
  BY <1>1, RefuseSimulation, NewSimulation, GrowSimulation, ShrinkSimulation DEF PutStart
<1>2. CASE PutStep
  BY <1>2, EvictSimulation, InsertSimulation, InsertFailsSimulation, GrowEndSimulation
     DEF PutStep, LC!Next
<1>3. ASSUME NEW k \in Keys, GetHit(k) \/ GetMiss(k)
      PROVE  LC!Hit(k) \/ LC!Miss(k)
  BY <1>3, GetSimulation
<1>4. CASE Destroy
  BY <1>4, DestroySimulation DEF LC!Next
<1>5. CASE UNCHANGED vars
  <2>1. Recency' = Recency /\ Stored' = Stored
    BY <1>5, ViewUnchanged DEF vars, call
  <2> QED
    BY <1>5, <2>1 DEF LC!lvars, vars, call
<1> QED
  BY <1>1, <1>2, <1>3, <1>4, <1>5 DEF Next, Finished, LC!Next

(* cache_create gives an empty store. *)
LEMMA CacheInitSimulation == Init => LC!Init
<1> SUFFICES ASSUME Init PROVE LC!Init
  OBVIOUS
<1>1. Recency = <<>>
  <2>1. lru.entry_count = 0
    BY DEF Init, EmptyList
  <2>2. Recency = [i \in 1 .. 0 |-> key[Order(lru, Listed)[i]]]
    BY <2>1 DEF Recency
  <2> QED
    BY <2>2
<1>2. Stored = [k \in Keys |-> NoObject]
  BY DEF Init, Stored, StoredUnder, Allocated
<1> QED
  BY <1>1, <1>2 DEF Init, LC!Init, LC!Idle

(* cache.c is an LRU store: for any keys, sizes and hash function, and for *)
(* any limits, each of its executions, seen through the keys in the order  *)
(* of the list, what lies under them and the call under way, is one of     *)
(* LruCache.  Hits return the last object stored, room is made at the cost *)
(* of the least recently used, and of no more of them than needed.         *)
THEOREM CacheIsLruCache == Spec => LC!Safety
<1>1. CInv /\ CInv' /\ [Next]_vars => [LC!Next]_(LC!lvars)
  BY CacheStepSimulation
<1> QED
  BY <1>1, CacheInitSimulation, CacheInductive, PTL DEF Spec, LC!Safety

-----------------------------------------------------------------------------
(* How long a cache_put takes. *)

(* A call that makes room either returns, its bytes within the limit, or   *)
(* has one entry less to evict, and the list's count says so.              *)
PutGoesOn ==
    pc \in {"insert", "grow"} =>
       \/ pc' = "idle" /\ current_size' <= MaxTotal
       \/ /\ pc' = pc
          /\ lru.entry_count = Cardinality(Listed)
          /\ lru'.entry_count = lru.entry_count - 1 /\ lru'.entry_count \in Nat

(* The list's count is the number of its entries. *)
LEMMA CountIsListed ==
  ASSUME NEW l \in Lists, NEW S, Links(l, S)
  PROVE  l.entry_count = Cardinality(S)
<1>1. PICK s \in [1 .. l.entry_count -> S] : InOrder(l, s, S)
  BY DEF Links
<1>2. l.entry_count \in Nat
  BY DEF Lists
<1>3. PICK n : n = l.entry_count
  OBVIOUS
<1>4. s \in Bijection(1 .. n, S)
  BY <1>1, <1>3 DEF InOrder, Bijection, Injection, Surjection, IsInjective
<1>5. IsFiniteSet(1 .. n) /\ Cardinality(1 .. n) = n
  BY <1>2, <1>3, FS_Interval
<1>6. ExistsBijection(1 .. n, S)
  BY <1>4 DEF ExistsBijection
<1> QED
  BY <1>3, <1>5, <1>6, FS_Bijection

(* However many entries there are, every cache_put returns: its loop ends  *)
(* after at most as many turns as the list has entries, and the count      *)
(* never falls below zero in it.                                           *)
THEOREM EveryPutGoesOn == Spec => [][PutGoesOn]_vars
<1>1. CInv /\ CInv' /\ [Next]_vars => [PutGoesOn]_vars
  <2> SUFFICES ASSUME CInv, CInv', Next, vars' # vars, pc \in {"insert", "grow"}
               PROVE  PutGoesOn
    BY DEF PutGoesOn
  <2>1. PutStep
    BY DEF Next, PutStart, PutRefuse, PutNew, PutGrow, PutShrink, PutShrinkFails, GetHit, GetMiss,
           Destroy, Finished
  <2>2. current_size' <= MaxTotal
    BY CacheAssumption DEF CInv, TypeOK
  <2>3. CASE EvictTail
    <3>1. pc' = pc /\ lru.tail # NULL /\ lru' = Detach(lru, lru.tail)
      BY <2>3 DEF EvictTail, MustEvict, RemoveTail, call
    <3>2. lru \in Lists /\ Links(lru, Listed)
      BY DEF CInv, TypeOK, ListIntact
    <3>3. lru.entry_count \in Nat /\ lru.entry_count # 0
      BY <3>1, <3>2 DEF Lists, Links, InOrder
    <3>4. lru'.entry_count = lru.entry_count - 1
      BY <3>1, <3>3 DEF Detach
    <3> QED
      BY <3>1, <3>2, <3>3, <3>4, CountIsListed DEF PutGoesOn
  <2>4. CASE InsertEntry \/ InsertFails \/ GrowEntry \/ GrowFails
    BY <2>2, <2>4 DEF InsertEntry, InsertFails, GrowEntry, GrowFails, Return, PutGoesOn
  <2> QED
    BY <2>1, <2>3, <2>4 DEF PutStep
<1> QED
  BY <1>1, CacheInductive, PTL DEF Spec
=============================================================================
