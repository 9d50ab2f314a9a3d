--------------------------- MODULE LruListProofs ---------------------------
(***************************************************************************)
(* What the operations of lru.c do to the order of the list, for lists of  *)
(* every length.                                                           *)
(***************************************************************************)
EXTENDS LruList, Integers, WellFoundedInduction, TLAPS

(* The order after e was put in front of s, and after position k was taken *)
(* out of it.                                                              *)
InFront(s, n, e) == [i \in 1 .. n + 1 |-> IF i = 1 THEN e ELSE s[i - 1]]
TakenOut(s, n, k) == [i \in 1 .. n - 1 |-> IF i < k THEN s[i] ELSE s[i + 1]]

(* The empty list links no entry. *)
LEMMA EmptyListOrder ==
  /\ EmptyList \in Lists
  /\ InOrder(EmptyList, [i \in 1 .. 0 |-> NULL], {})
<1>1. EmptyList \in Lists
  BY DEF EmptyList, Lists
<1>2. EmptyList.entry_count = 0 /\ EmptyList.head = NULL /\ EmptyList.tail = NULL
  BY DEF EmptyList
<1> QED
  BY <1>1, <1>2 DEF InOrder

(* lru_attach_front puts an entry that was not in the list before all      *)
(* others.                                                                 *)
LEMMA AttachFrontOrder ==
  ASSUME NEW l \in Lists, NEW S \in SUBSET Entries, NEW s, InOrder(l, s, S),
         NEW e \in Entries, e \notin S
  PROVE  /\ AttachFront(l, e) \in Lists
         /\ AttachFront(l, e).entry_count = l.entry_count + 1
         /\ InOrder(AttachFront(l, e), InFront(s, l.entry_count, e), S \cup {e})
<1> DEFINE n == l.entry_count
           m == AttachFront(l, e)
           t == InFront(s, n, e)
<1>1. /\ n \in Nat /\ l.head \in Entries \cup {NULL} /\ l.tail \in Entries \cup {NULL}
      /\ l.prev \in [Entries -> Entries \cup {NULL}]
      /\ l.next \in [Entries -> Entries \cup {NULL}]
      /\ NULL \notin Entries
  BY NullAssumption DEF Lists
<1>2. /\ m.head = e
      /\ m.tail = IF l.head = NULL THEN e ELSE l.tail
      /\ m.entry_count = n + 1
      /\ m.prev = [x \in Entries |-> IF x = l.head THEN e
                                     ELSE IF x = e THEN NULL ELSE l.prev[x]]
      /\ m.next = [l.next EXCEPT ![e] = l.head]
  BY DEF AttachFront
<1>3. m \in Lists
  BY <1>1 DEF AttachFront, Lists
<1>4. /\ s \in [1 .. n -> S]
      /\ \A x \in S : \E i \in 1 .. n : s[i] = x
      /\ \A i, j \in 1 .. n : s[i] = s[j] => i = j
      /\ l.head = IF n = 0 THEN NULL ELSE s[1]
      /\ l.tail = IF n = 0 THEN NULL ELSE s[n]
      /\ \A i \in 1 .. n : /\ l.prev[s[i]] = IF i = 1 THEN NULL ELSE s[i - 1]
                           /\ l.next[s[i]] = IF i = n THEN NULL ELSE s[i + 1]
  BY DEF InOrder
<1>5. /\ DOMAIN t = 1 .. n + 1
      /\ t[1] = e
      /\ \A i \in 1 .. n + 1 : i # 1 => i - 1 \in 1 .. n /\ t[i] = s[i - 1]
      /\ \A i \in 1 .. n : i + 1 \in 1 .. n + 1 /\ t[i + 1] = s[i]
  BY <1>1 DEF InFront
<1>6. t \in [1 .. n + 1 -> S \cup {e}]
  BY <1>1, <1>4, <1>5 DEF InFront
<1>7. \A x \in S \cup {e} : \E i \in 1 .. n + 1 : t[i] = x
  BY <1>1, <1>4, <1>5
<1>8. \A i, j \in 1 .. n + 1 : t[i] = t[j] => i = j
  <2> SUFFICES ASSUME NEW i \in 1 .. n + 1, NEW j \in 1 .. n + 1, t[i] = t[j]
               PROVE  i = j
    OBVIOUS
  <2>1. CASE i = 1 \/ j = 1
    <3>1. \A h \in 1 .. n + 1 : h # 1 => t[h] \in S
      BY <1>4, <1>5
    <3> QED
      BY <1>5, <2>1, <3>1
  <2>2. CASE i # 1 /\ j # 1
    <3>1. i - 1 \in 1 .. n /\ j - 1 \in 1 .. n /\ s[i - 1] = s[j - 1]
      BY <1>5, <2>2
    <3>2. i - 1 = j - 1
      BY <1>4, <3>1
    <3> QED
      BY <1>1, <3>2
  <2> QED
    BY <2>1, <2>2
<1>9. m.head = t[1] /\ m.tail = t[n + 1]
  <2>1. CASE n = 0
    BY <1>2, <1>4, <1>5, <2>1
  <2>2. CASE n # 0
    <3>1. l.head # NULL
      BY <1>1, <1>4, <2>2
    <3> QED
      BY <1>1, <1>2, <1>4, <1>5, <2>2, <3>1
  <2> QED
    BY <2>1, <2>2
<1>10. ASSUME NEW i \in 1 .. n + 1
       PROVE  /\ m.prev[t[i]] = IF i = 1 THEN NULL ELSE t[i - 1]
              /\ m.next[t[i]] = IF i = n + 1 THEN NULL ELSE t[i + 1]
  <2>1. CASE i = 1
    <3>1. l.head # e
      BY <1>1, <1>4
    <3>2. m.prev[e] = NULL /\ m.next[e] = l.head
      BY <1>1, <1>2, <3>1
    <3> QED
      BY <1>1, <1>4, <1>5, <2>1, <3>2
  <2>2. CASE i # 1
    <3>1. i - 1 \in 1 .. n /\ t[i] = s[i - 1] /\ s[i - 1] \in S /\ s[i - 1] \in Entries
          /\ s[i - 1] # e
      BY <1>4, <1>5, <2>2
    <3>2. m.next[t[i]] = l.next[s[i - 1]]
      BY <1>1, <1>2, <3>1
    <3>3. l.next[s[i - 1]] = IF i = n + 1 THEN NULL ELSE t[i + 1]
      <4>1. l.next[s[i - 1]] = IF i - 1 = n THEN NULL ELSE s[(i - 1) + 1]
        BY <1>4, <3>1
      <4>2. i # n + 1 => t[i + 1] = s[i]
        BY <1>1, <1>5
      <4> QED
        BY <1>1, <4>1, <4>2
    <3>4. CASE i = 2
      <4>1. t[i] = l.head
        BY <1>1, <1>4, <3>1, <3>4
      <4>2. m.prev[t[i]] = e
        BY <1>1, <1>2, <3>1, <4>1
      <4> QED
        BY <1>5, <3>2, <3>3, <3>4, <4>2
    <3>5. CASE i # 2
      <4>1. t[i] # l.head
        BY <1>1, <1>4, <2>2, <3>1, <3>5
      <4>2. m.prev[t[i]] = l.prev[s[i - 1]]
        BY <1>1, <1>2, <3>1, <4>1
      <4>3. l.prev[s[i - 1]] = t[i - 1]
        BY <1>1, <1>4, <1>5, <2>2, <3>1, <3>5
      <4> QED
        BY <2>2, <3>2, <3>3, <4>2, <4>3
    <3> QED
      BY <3>4, <3>5
  <2> QED
    BY <2>1, <2>2
<1>11. n + 1 # 0
  BY <1>1
<1> HIDE DEF m, t
<1>12. InOrder(m, t, S \cup {e})
  BY <1>2, <1>6, <1>7, <1>8, <1>9, <1>10, <1>11 DEF InOrder
<1> QED
  BY <1>2, <1>3, <1>12 DEF m, t

(* lru_detach takes an entry of the list out and leaves the others in      *)
(* their order.                                                            *)
LEMMA DetachOrder ==
  ASSUME NEW l \in Lists, NEW S \in SUBSET Entries, NEW s, InOrder(l, s, S),
         NEW k \in 1 .. l.entry_count
  PROVE  /\ Detach(l, s[k]) \in Lists
         /\ Detach(l, s[k]).entry_count = l.entry_count - 1
         /\ InOrder(Detach(l, s[k]), TakenOut(s, l.entry_count, k), S \ {s[k]})
<1> DEFINE n == l.entry_count
           e == s[k]
           m == Detach(l, e)
           t == TakenOut(s, n, k)
<1>1. /\ n \in Nat /\ l.head \in Entries \cup {NULL} /\ l.tail \in Entries \cup {NULL}
      /\ l.prev \in [Entries -> Entries \cup {NULL}]
      /\ l.next \in [Entries -> Entries \cup {NULL}]
      /\ NULL \notin Entries
      /\ k \in Nat /\ 1 <= k /\ k <= n
  BY NullAssumption DEF Lists
<1>2. /\ s \in [1 .. n -> S]
      /\ \A x \in S : \E i \in 1 .. n : s[i] = x
      /\ \A i, j \in 1 .. n : s[i] = s[j] => i = j
      /\ l.head = IF n = 0 THEN NULL ELSE s[1]
      /\ l.tail = IF n = 0 THEN NULL ELSE s[n]
      /\ \A i \in 1 .. n : /\ l.prev[s[i]] = IF i = 1 THEN NULL ELSE s[i - 1]
                           /\ l.next[s[i]] = IF i = n THEN NULL ELSE s[i + 1]
  BY DEF InOrder
<1>3. /\ e \in S /\ e \in Entries
      /\ l.prev[e] = IF k = 1 THEN NULL ELSE s[k - 1]
      /\ l.next[e] = IF k = n THEN NULL ELSE s[k + 1]
      /\ l.prev[e] = NULL <=> k = 1
      /\ l.next[e] = NULL <=> k = n
  BY <1>1, <1>2
<1>4. /\ m.head = IF k = 1 THEN l.next[e] ELSE l.head
      /\ m.tail = IF k = n THEN l.prev[e] ELSE l.tail
      /\ m.entry_count = n - 1
      /\ m.prev = [x \in Entries |-> IF x = e THEN NULL
                                     ELSE IF x = l.next[e] THEN l.prev[e] ELSE l.prev[x]]
      /\ m.next = [x \in Entries |-> IF x = e THEN NULL
                                     ELSE IF x = l.prev[e] THEN l.next[e] ELSE l.next[x]]
  BY <1>1, <1>3 DEF Detach
<1>5. m \in Lists
  BY <1>1, <1>3 DEF Detach, Lists
<1>6. /\ \A i \in 1 .. n - 1 : i < k => i \in 1 .. n /\ t[i] = s[i]
      /\ \A i \in 1 .. n - 1 : ~(i < k) => i + 1 \in 1 .. n /\ t[i] = s[i + 1]
  BY <1>1 DEF TakenOut
<1>7. t \in [1 .. n - 1 -> S \ {e}]
  <2>1. ASSUME NEW i \in 1 .. n - 1 PROVE t[i] \in S \ {e}
    <3>1. CASE i < k
      <4>1. i \in 1 .. n /\ t[i] = s[i] /\ i # k
        BY <1>1, <1>6, <3>1
      <4> QED
        BY <1>2, <4>1
    <3>2. CASE ~(i < k)
      <4>1. i + 1 \in 1 .. n /\ t[i] = s[i + 1] /\ i + 1 # k
        BY <1>1, <1>6, <3>2
      <4> QED
        BY <1>2, <4>1
    <3> QED
      BY <3>1, <3>2
  <2> QED
    BY <2>1 DEF TakenOut
<1>8. ASSUME NEW x \in S \ {e} PROVE \E i \in 1 .. n - 1 : t[i] = x
  <2>1. PICK i \in 1 .. n : s[i] = x
    BY <1>2
  <2>2. CASE i < k
    <3>1. i \in 1 .. n - 1 /\ t[i] = x
      BY <1>1, <1>6, <2>1, <2>2
    <3> QED
      BY <3>1
  <2>3. CASE i > k
    <3>1. i - 1 \in 1 .. n - 1 /\ t[i - 1] = s[(i - 1) + 1] /\ (i - 1) + 1 = i
      BY <1>1, <1>6, <2>3
    <3> QED
      BY <2>1, <3>1
  <2> QED
    BY <1>1, <2>1, <2>2, <2>3
<1>9. ASSUME NEW i \in 1 .. n - 1, NEW j \in 1 .. n - 1, t[i] = t[j]
      PROVE  i = j
  BY <1>1, <1>2, <1>6, <1>9
<1>10. m.head = (IF n - 1 = 0 THEN NULL ELSE t[1]) /\ m.tail = (IF n - 1 = 0 THEN NULL ELSE t[n - 1])
  <2>1. CASE n = 1
    BY <1>1, <1>3, <1>4, <2>1
  <2>2. CASE n # 1
    <3>1. 1 \in 1 .. n - 1 /\ n - 1 \in 1 .. n - 1
      BY <1>1, <2>2
    <3>2. m.head = t[1]
      BY <1>1, <1>2, <1>3, <1>4, <1>6, <2>2, <3>1
    <3>3. m.tail = t[n - 1]
      BY <1>1, <1>2, <1>3, <1>4, <1>6, <2>2, <3>1
    <3> QED
      BY <1>1, <2>2, <3>2, <3>3
  <2> QED
    BY <2>1, <2>2
<1>11. ASSUME NEW i \in 1 .. n - 1
       PROVE  /\ m.prev[t[i]] = IF i = 1 THEN NULL ELSE t[i - 1]
              /\ m.next[t[i]] = IF i = n - 1 THEN NULL ELSE t[i + 1]
  <2>0. t[i] \in S /\ t[i] # e /\ t[i] \in Entries
    BY <1>7
  <2>1. m.prev[t[i]] = IF t[i] = l.next[e] THEN l.prev[e] ELSE l.prev[t[i]]
    BY <1>4, <2>0
  <2>2. m.next[t[i]] = IF t[i] = l.prev[e] THEN l.next[e] ELSE l.next[t[i]]
    BY <1>4, <2>0
  <2>3. t[i] = l.next[e] <=> i = k
    BY <1>1, <1>2, <1>3, <1>6, <2>0
  <2>4. t[i] = l.prev[e] <=> i = k - 1
    BY <1>1, <1>2, <1>3, <1>6, <2>0
  <2>5. m.prev[t[i]] = IF i = 1 THEN NULL ELSE t[i - 1]
    <3>1. CASE i = k
      BY <1>1, <1>2, <1>3, <1>6, <2>1, <2>3, <3>1
    <3>2. CASE i < k
      <4>1. i \in 1 .. n /\ t[i] = s[i] /\ (i # 1 => t[i - 1] = s[i - 1])
        BY <1>1, <1>6, <3>2
      <4>2. l.prev[s[i]] = IF i = 1 THEN NULL ELSE s[i - 1]
        BY <1>2, <4>1
      <4> QED
        BY <1>1, <2>1, <2>3, <3>2, <4>1, <4>2
    <3>3. CASE i > k
      <4>1. i + 1 \in 1 .. n /\ t[i] = s[i + 1] /\ i - 1 \in 1 .. n - 1 /\ ~(i - 1 < k)
        BY <1>1, <1>6, <3>3
      <4>2. t[i - 1] = s[(i - 1) + 1] /\ (i - 1) + 1 = i /\ (i + 1) - 1 = i
        BY <1>1, <1>6, <4>1
      <4>3. l.prev[s[i + 1]] = s[(i + 1) - 1]
        BY <1>1, <1>2, <3>3, <4>1
      <4> QED
        BY <1>1, <2>1, <2>3, <3>3, <4>1, <4>2, <4>3
    <3> QED
      BY <1>1, <3>1, <3>2, <3>3
  <2>6. m.next[t[i]] = IF i = n - 1 THEN NULL ELSE t[i + 1]
    <3>1. CASE i = k - 1
      BY <1>1, <1>2, <1>3, <1>6, <2>2, <2>4, <3>1
    <3>2. CASE i < k - 1
      <4>1. /\ i \in 1 .. n /\ t[i] = s[i] /\ t[i + 1] = s[i + 1]
            /\ i # n - 1 /\ i # n /\ i # k - 1
        BY <1>1, <1>6, <3>2
      <4>2. l.next[s[i]] = IF i = n THEN NULL ELSE s[i + 1]
        BY <1>2, <4>1
      <4> QED
        BY <2>2, <2>4, <4>1, <4>2
    <3>3. CASE i >= k
      <4>1. i + 1 \in 1 .. n /\ t[i] = s[i + 1]
        BY <1>1, <1>6, <3>3
      <4>2. l.next[s[i + 1]] = IF i + 1 = n THEN NULL ELSE s[(i + 1) + 1]
        BY <1>2, <4>1
      <4>3. i # n - 1 => i + 1 \in 1 .. n - 1 /\ t[i + 1] = s[(i + 1) + 1]
        BY <1>1, <1>6, <3>3
      <4> QED
        BY <1>1, <2>2, <2>4, <3>3, <4>1, <4>2, <4>3
    <3> QED
      BY <1>1, <3>1, <3>2, <3>3
  <2> QED
    BY <2>5, <2>6
<1> HIDE DEF m, t, e
<1>12. InOrder(m, t, S \ {e})
  BY <1>4, <1>7, <1>8, <1>9, <1>10, <1>11 DEF InOrder
<1> QED
  BY <1>4, <1>5, <1>12 DEF m, t, e

(* The same, without the order. *)
LEMMA AttachFrontLinks ==
  ASSUME NEW l \in Lists, NEW S \in SUBSET Entries, Links(l, S),
         NEW e \in Entries, e \notin S
  PROVE  AttachFront(l, e) \in Lists /\ Links(AttachFront(l, e), S \cup {e})
<1>1. PICK s : InOrder(l, s, S)
  BY DEF Links
<1>2. /\ AttachFront(l, e) \in Lists
      /\ InOrder(AttachFront(l, e), InFront(s, l.entry_count, e), S \cup {e})
  BY <1>1, AttachFrontOrder
<1> QED
  BY <1>2 DEF Links, InOrder

(* lru_detach takes one entry out and leaves the others linked. *)
LEMMA DetachLinks ==
  ASSUME NEW l \in Lists, NEW S \in SUBSET Entries, Links(l, S), NEW e \in S
  PROVE  Detach(l, e) \in Lists /\ Links(Detach(l, e), S \ {e})
<1>1. PICK s : InOrder(l, s, S)
  BY DEF Links
<1>2. PICK k \in 1 .. l.entry_count : s[k] = e
  BY <1>1 DEF InOrder
<1>3. /\ Detach(l, e) \in Lists
      /\ InOrder(Detach(l, e), TakenOut(s, l.entry_count, k), S \ {e})
  BY <1>1, <1>2, DetachOrder
<1> QED
  BY <1>3 DEF Links, InOrder

(* lru_move_to_front links the same entries as before. *)
LEMMA MoveToFrontLinks ==
  ASSUME NEW l \in Lists, NEW S \in SUBSET Entries, Links(l, S), NEW e \in S
  PROVE  MoveToFront(l, e) \in Lists /\ Links(MoveToFront(l, e), S)
<1>1. CASE l.head = e
  BY <1>1 DEF MoveToFront
<1>2. CASE l.head # e
  <2>1. Detach(l, e) \in Lists /\ Links(Detach(l, e), S \ {e})
    BY DetachLinks
  <2>2. AttachFront(Detach(l, e), e) \in Lists
        /\ Links(AttachFront(Detach(l, e), e), (S \ {e}) \cup {e})
    BY <2>1, AttachFrontLinks
  <2>3. (S \ {e}) \cup {e} = S
    OBVIOUS
  <2> QED
    BY <1>2, <2>2, <2>3 DEF MoveToFront
<1> QED
  BY <1>1, <1>2

(* A list with a tail has entries, and a list without one has none. *)
LEMMA TailLinks ==
  ASSUME NEW l \in Lists, NEW S \in SUBSET Entries, Links(l, S)
  PROVE  IF l.tail = NULL THEN S = {} ELSE l.tail \in S
<1>1. PICK s : InOrder(l, s, S)
  BY DEF Links
<1>2. l.entry_count \in Nat
  BY DEF Lists
<1>3. CASE l.entry_count = 0
  BY <1>1, <1>3 DEF InOrder
<1>4. CASE l.entry_count # 0
  BY <1>1, <1>2, <1>4, NullAssumption DEF InOrder
<1> QED
  BY <1>3, <1>4

(* A set of numbers that is not empty has a least one. *)
LEMMA SomeLeast ==
  ASSUME NEW I \in SUBSET Nat, I # {}
  PROVE  \E x \in I : \A y \in I : x <= y
<1> DEFINE Less == {ss \in Nat \X Nat : ss[1] < ss[2]}
<1>1. Less = OpToRel(<, Nat)
  BY Zenon DEF OpToRel
<1>2. IsWellFoundedOn(Less, Nat)
  BY <1>1, NatLessThanWellFounded, Zenon
<1>3. PICK x \in I : \A y \in I : ~ (<<y, x>> \in Less)
  <2> HIDE DEF Less
  <2> QED
    BY <1>2, WFMin
<1>4. \A y \in I : x <= y
  <2> SUFFICES ASSUME NEW y \in I PROVE x <= y
    OBVIOUS
  <2>1. ~ (<<y, x>> \in Less) /\ x \in Nat /\ y \in Nat
    BY <1>3
  <2> QED
    BY <2>1
<1> QED
  BY <1>4

(* The pointers determine the order: following next from the head, two     *)
(* orders of one list cannot part.                                         *)
LEMMA OrderUnique ==
  ASSUME NEW l \in Lists, NEW S, NEW s, NEW t, InOrder(l, s, S), InOrder(l, t, S)
  PROVE  s = t
<1> DEFINE n == l.entry_count
           I == {i \in 1 .. n : s[i] # t[i]}
<1>1. n \in Nat
  BY DEF Lists
<1>2. /\ s \in [1 .. n -> S] /\ t \in [1 .. n -> S]
      /\ l.head = IF n = 0 THEN NULL ELSE s[1]
      /\ l.head = IF n = 0 THEN NULL ELSE t[1]
      /\ \A i \in 1 .. n : /\ l.next[s[i]] = IF i = n THEN NULL ELSE s[i + 1]
                           /\ l.next[t[i]] = IF i = n THEN NULL ELSE t[i + 1]
  BY DEF InOrder
<1>3. I = {}
  <2> SUFFICES ASSUME I # {} PROVE FALSE
    OBVIOUS
  <2>1. I \in SUBSET Nat
    BY <1>1
  <2>2. PICK i \in I : \A j \in I : i <= j
    BY <2>1, SomeLeast
  <2>3. i # 1
    BY <1>1, <1>2
  <2>4. i - 1 \in 1 .. n /\ i - 1 # n /\ (i - 1) + 1 = i
    BY <1>1, <2>3
  <2>5. s[i - 1] = t[i - 1]
    BY <1>1, <2>2, <2>4
  <2> QED
    BY <1>2, <2>4, <2>5
<1>4. \A i \in 1 .. n : s[i] = t[i]
  BY <1>3
<1> HIDE DEF n, I
<1>5. s = [i \in 1 .. n |-> s[i]] /\ t = [i \in 1 .. n |-> t[i]]
  BY <1>2
<1>6. [i \in 1 .. n |-> s[i]] = [i \in 1 .. n |-> t[i]]
  BY <1>4
<1> QED
  BY <1>5, <1>6

(* So Order is the order. *)
LEMMA OrderIs ==
  ASSUME NEW l \in Lists, NEW S, NEW s, InOrder(l, s, S)
  PROVE  Order(l, S) = s
<1>1. s \in [1 .. l.entry_count -> S]
  BY DEF InOrder
<1>2. InOrder(l, Order(l, S), S)
  BY <1>1 DEF Order
<1> QED
  BY <1>2, OrderUnique

(* lru_move_to_front puts one entry before all others, which stay in their *)
(* order, also when it is at the front already.                            *)
LEMMA MoveToFrontOrder ==
  ASSUME NEW l \in Lists, NEW S \in SUBSET Entries, NEW s, InOrder(l, s, S),
         NEW k \in 1 .. l.entry_count
  PROVE  /\ MoveToFront(l, s[k]) \in Lists
         /\ MoveToFront(l, s[k]).entry_count = l.entry_count
         /\ InOrder(MoveToFront(l, s[k]),
                    InFront(TakenOut(s, l.entry_count, k), l.entry_count - 1, s[k]), S)
<1> DEFINE n == l.entry_count
           e == s[k]
           m == Detach(l, e)
           t == TakenOut(s, n, k)
<1>1. /\ n \in Nat /\ s \in [1 .. n -> S] /\ e \in S /\ e \in Entries
      /\ \A i, j \in 1 .. n : s[i] = s[j] => i = j
      /\ l.head = s[1] /\ k \in 1 .. n /\ (n - 1) + 1 = n
  BY DEF Lists, InOrder
<1>2. CASE l.head = e
  <2>1. k = 1 /\ 1 \in 1 .. n
    <3>1. 1 \in 1 .. n /\ s[1] = s[k]
      BY <1>1, <1>2
    <3> QED
      BY <1>1, <3>1
  <2>2. InFront(t, n - 1, e) = [i \in 1 .. n |-> s[i]]
    <3>1. ASSUME NEW i \in 1 .. n
          PROVE  InFront(t, n - 1, e)[i] = s[i]
      BY <1>1, <2>1 DEF InFront, TakenOut
    <3>2. InFront(t, n - 1, e) = [i \in 1 .. n |-> InFront(t, n - 1, e)[i]]
      BY <1>1 DEF InFront
    <3> QED
      BY <3>1, <3>2
  <2>3. InFront(t, n - 1, e) = s
    BY <1>1, <2>2
  <2>4. MoveToFront(l, e) = l
    BY <1>2 DEF MoveToFront
  <2> QED
    BY <2>3, <2>4
<1>3. CASE l.head # e
  <2>1. m \in Lists /\ m.entry_count = n - 1 /\ InOrder(m, t, S \ {e})
    BY DetachOrder
  <2>2. /\ AttachFront(m, e) \in Lists
        /\ AttachFront(m, e).entry_count = (n - 1) + 1
        /\ InOrder(AttachFront(m, e), InFront(t, n - 1, e), (S \ {e}) \cup {e})
    <3> HIDE DEF m, t, e
    <3>1. e \notin S \ {e} /\ S \ {e} \in SUBSET Entries
      OBVIOUS
    <3> QED
      BY <1>1, <2>1, <3>1, AttachFrontOrder
  <2>3. MoveToFront(l, e) = AttachFront(m, e) /\ (S \ {e}) \cup {e} = S
    BY <1>1, <1>3 DEF MoveToFront
  <2> QED
    BY <1>1, <2>2, <2>3
<1> QED
  BY <1>2, <1>3
=============================================================================
