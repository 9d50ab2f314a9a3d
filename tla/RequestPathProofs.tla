------------------------- MODULE RequestPathProofs -------------------------
(***************************************************************************)
(* Proofs about RequestPath, for all streams of tokens of any length, all  *)
(* limits and all lists of addresses.                                      *)
(***************************************************************************)
EXTENDS RequestPath, SequenceTheorems, WellFoundedInduction, TLAPS

-----------------------------------------------------------------------------
(* The connection to the origin. *)

Connected == {"building", "filtering", "writing", "relaying"}

(* The address under the cursor is the first that is still worth trying.   *)
ConnectInv ==
    /\ cursor \in Nat \ {0}
    /\ stage \in {"reading", "parsing", "resolving"} => cursor = 1
    /\ \A j \in 1 .. cursor - 1 : addresses[j] # "accepts"
    /\ open = IF stage \in Connected THEN {cursor} ELSE {}
    /\ stage \in Connected => addresses[cursor] = "accepts"
    /\ written \in Nat
    /\ stage = "relaying" => written = Len(outbound) /\ written > 0

LEMMA ConnectInit == Init => ConnectInv
  BY DEF Init, ConnectInv, Connected

LEMMA ConnectNext == ConnectInv /\ [Next]_vars => ConnectInv'
<1> SUFFICES ASSUME ConnectInv, [Next]_vars PROVE ConnectInv'
  OBVIOUS
<1> USE DEF ConnectInv, Connected, reading, connecting, rewriting
<1>1. CASE ReadStep
  BY <1>1 DEF ReadStep, Receive, ReceiveEnd, ReceiveFails, Refuse
<1>2. CASE ParseText
  BY <1>2 DEF ParseText, Refuse
<1>3. CASE ConnectStep
  <2>1. CASE Resolve
    BY <2>1 DEF Resolve, Fail
  <2>2. CASE TryAddress
    BY <2>2 DEF TryAddress
  <2>3. CASE NoAddressLeft
    BY <2>3 DEF NoAddressLeft, Fail
  <2>4. CASE TimeoutFails
    BY <2>4 DEF TimeoutFails, Fail
  <2> QED
    BY <1>3, <2>1, <2>2, <2>3, <2>4 DEF ConnectStep
<1>4. CASE RewriteStep
  BY <1>4 DEF RewriteStep, StartRewrite, FilterLine, EndRewrite
<1>5. CASE SendStep
  <2>1. CASE SendFails
    BY <2>1 DEF SendFails, Fail
  <2>2. ASSUME NEW n \in 1 .. Len(outbound), Send(n) PROVE ConnectInv'
    BY <2>2 DEF Send
  <2> QED
    BY <1>5, <2>1, <2>2 DEF SendStep
<1>6. CASE UNCHANGED vars
  BY <1>6 DEF vars
<1> QED
  BY <1>1, <1>2, <1>3, <1>4, <1>5, <1>6 DEF Next, Step, Finished

-----------------------------------------------------------------------------
(* Searching texts. *)

Texts == Seq(Tokens)

(* What has been read grows at its end. *)
Extends(t, s) == Len(s) <= Len(t) /\ \A i \in 1 .. Len(s) : t[i] = s[i]

LEMMA MinIsLeast ==
  ASSUME NEW I \in SUBSET Nat, I # {}
  PROVE  Min(I) \in I /\ \A j \in I : Min(I) <= j
<1> DEFINE Less == {ss \in Nat \X Nat : ss[1] < ss[2]}
<1>1. Less = OpToRel(<, Nat)
  BY Zenon DEF OpToRel
<1>2. IsWellFoundedOn(Less, Nat)
  BY <1>1, NatLessThanWellFounded, Zenon
<1>3. PICK x \in I : \A y \in I : ~ (<<y, x>> \in Less)
  <2> HIDE DEF Less
  <2> QED
    BY <1>2, WFMin
<1>4. \A y \in I : x <= y
  <2> SUFFICES ASSUME NEW y \in I PROVE x <= y
    OBVIOUS
  <2>1. ~ (<<y, x>> \in Less) /\ x \in Nat /\ y \in Nat
    BY <1>3
  <2> QED
    BY <2>1
<1> QED
  BY <1>4 DEF Min

(* FirstOf finds the first place, or says that there is none. *)
LEMMA FirstOfInSeq ==
  ASSUME NEW S, NEW s \in Seq(S), NEW x
  PROVE  /\ FirstOf(s, x) \in 0 .. Len(s)
         /\ FirstOf(s, x) = 0 => \A i \in 1 .. Len(s) : s[i] # x
         /\ FirstOf(s, x) # 0 => /\ s[FirstOf(s, x)] = x
                                 /\ \A i \in 1 .. FirstOf(s, x) - 1 : s[i] # x
<1> DEFINE I == {i \in 1 .. Len(s) : s[i] = x}
<1>1. I \in SUBSET Nat /\ Len(s) \in Nat
  BY LenProperties
<1>2. FirstOf(s, x) = IF I # {} THEN Min(I) ELSE 0
  BY DEF FirstOf, SelectInSeq
<1>3. CASE I = {}
  BY <1>1, <1>2, <1>3
<1>4. CASE I # {}
  <2>1. PICK m : m = Min(I)
    OBVIOUS
  <2>2. m \in I /\ \A j \in I : m <= j
    BY <1>1, <1>4, <2>1, MinIsLeast
  <2>3. FirstOf(s, x) = m
    BY <1>2, <1>4, <2>1
  <2> QED
    BY <1>1, <2>2, <2>3
<1> QED
  BY <1>3, <1>4

LEMMA FirstOfIsFirst ==
  ASSUME NEW s \in Texts, NEW x
  PROVE  /\ FirstOf(s, x) \in 0 .. Len(s)
         /\ FirstOf(s, x) = 0 => \A i \in 1 .. Len(s) : s[i] # x
         /\ FirstOf(s, x) # 0 => /\ s[FirstOf(s, x)] = x
                                 /\ \A i \in 1 .. FirstOf(s, x) - 1 : s[i] # x
  BY FirstOfInSeq DEF Texts

(* So does LineEnd. *)
LEMMA LineEndIsFirst ==
  ASSUME NEW s \in Texts
  PROVE  /\ LineEnd(s) \in 0 .. Len(s)
         /\ LineEnd(s) = 0 => \A i \in 1 .. Len(s) : s[i] \notin {"CR", "LF"}
         /\ LineEnd(s) # 0 => /\ s[LineEnd(s)] \in {"CR", "LF"}
                              /\ \A i \in 1 .. LineEnd(s) - 1 : s[i] \notin {"CR", "LF"}
<1> DEFINE I == {i \in 1 .. Len(s) : s[i] \in {"CR", "LF"}}
<1>1. I \in SUBSET Nat /\ Len(s) \in Nat
  BY LenProperties DEF Texts
<1>2. LineEnd(s) = IF I # {} THEN Min(I) ELSE 0
  BY DEF LineEnd, SelectInSeq
<1>3. CASE I = {}
  BY <1>1, <1>2, <1>3
<1>4. CASE I # {}
  <2>1. PICK m : m = Min(I)
    OBVIOUS
  <2>2. m \in I /\ \A j \in I : m <= j
    BY <1>1, <1>4, <2>1, MinIsLeast
  <2>3. LineEnd(s) = m
    BY <1>2, <1>4, <2>1
  <2> QED
    BY <1>1, <2>2, <2>3
<1> QED
  BY <1>3, <1>4

(* What a part of a text is. *)
LEMMA BeforeIs ==
  ASSUME NEW s \in Texts, NEW i \in 1 .. Len(s) + 1
  PROVE  /\ Before(s, i) \in Texts /\ Len(Before(s, i)) = i - 1
         /\ \A j \in 1 .. i - 1 : Before(s, i)[j] = s[j]
<1>1. Len(s) \in Nat /\ i - 1 \in Int /\ \A j \in 1 .. i - 1 : s[j] \in Tokens
  BY LenProperties, ElementOfSeq DEF Texts
<1>2. /\ SubSeq(s, 1, i - 1) \in Seq(Tokens)
      /\ Len(SubSeq(s, 1, i - 1)) = IF 1 <= i - 1 THEN i - 1 - 1 + 1 ELSE 0
      /\ \A j \in 1 .. i - 1 - 1 + 1 : SubSeq(s, 1, i - 1)[j] = s[1 + j - 1]
  BY <1>1, SubSeqProperties
<1> QED
  BY <1>1, <1>2 DEF Before, Texts

LEMMA AfterIs ==
  ASSUME NEW s \in Texts, NEW i \in 0 .. Len(s)
  PROVE  /\ After(s, i) \in Texts /\ Len(After(s, i)) = Len(s) - i
         /\ \A j \in 1 .. Len(s) - i : After(s, i)[j] = s[i + j]
<1>1. Len(s) \in Nat /\ i + 1 \in Int /\ \A j \in i + 1 .. Len(s) : s[j] \in Tokens
  BY LenProperties, ElementOfSeq DEF Texts
<1>2. /\ SubSeq(s, i + 1, Len(s)) \in Seq(Tokens)
      /\ Len(SubSeq(s, i + 1, Len(s))) = IF i + 1 <= Len(s) THEN Len(s) - (i + 1) + 1 ELSE 0
      /\ \A j \in 1 .. Len(s) - (i + 1) + 1 : SubSeq(s, i + 1, Len(s))[j] = s[i + 1 + j - 1]
  BY <1>1, SubSeqProperties
<1> QED
  BY <1>1, <1>2 DEF After, Texts

(* A pattern occurs where all of its tokens are. *)
LEMMA OccursAtInSeq ==
  ASSUME NEW S, NEW p \in Seq(S), NEW s \in Seq(S), NEW i \in 1 .. Len(s)
  PROVE  OccursAt(p, s, i) <=>
            /\ i + Len(p) - 1 <= Len(s)
            /\ \A j \in 1 .. Len(p) : s[i + j - 1] = p[j]
<1>1. Len(s) \in Nat /\ Len(p) \in Nat
  BY LenProperties
<1>2. CASE ~ (i + Len(p) - 1 <= Len(s))
  BY <1>2 DEF OccursAt
<1>3. CASE i + Len(p) - 1 <= Len(s)
  <2> DEFINE m == i + Len(p) - 1
             part == SubSeq(s, i, m)
  <2>1. m \in Int /\ i \in Int /\ \A j \in i .. m : s[j] \in S
    BY <1>1, <1>3, ElementOfSeq
  <2>2. /\ part \in Seq(S)
        /\ Len(part) = IF i <= m THEN m - i + 1 ELSE 0
        /\ \A j \in 1 .. m - i + 1 : part[j] = s[i + j - 1]
    <3> HIDE DEF m
    <3> QED  BY <2>1, SubSeqProperties
  <2>3. Len(part) = Len(p) /\ \A j \in 1 .. Len(p) : part[j] = s[i + j - 1]
    BY <1>1, <2>2
  <2>4. part = p <=> \A j \in 1 .. Len(p) : s[i + j - 1] = p[j]
    <3> HIDE DEF part
    <3> QED  BY <2>2, <2>3, SeqEqual
  <2> QED
    BY <1>3, <2>4 DEF OccursAt
<1> QED
  BY <1>2, <1>3

LEMMA OccursAtIs ==
  ASSUME NEW p \in Texts, NEW s \in Texts, NEW i \in 1 .. Len(s)
  PROVE  OccursAt(p, s, i) <=>
            /\ i + Len(p) - 1 <= Len(s)
            /\ \A j \in 1 .. Len(p) : s[i + j - 1] = p[j]
  BY OccursAtInSeq DEF Texts

-----------------------------------------------------------------------------
(* Texts that grow. *)

LEMMA OccursStays ==
  ASSUME NEW p \in Texts, NEW s \in Texts, NEW t \in Texts, Extends(t, s), Occurs(p, s)
  PROVE  Occurs(p, t)
<1>1. Len(s) \in Nat /\ Len(t) \in Nat /\ Len(p) \in Nat
  BY LenProperties DEF Texts
<1>2. PICK i \in 1 .. Len(s) : OccursAt(p, s, i)
  BY DEF Occurs
<1>3. i + Len(p) - 1 <= Len(s) /\ \A j \in 1 .. Len(p) : s[i + j - 1] = p[j]
  BY <1>2, OccursAtIs
<1>4. i \in 1 .. Len(t) /\ i + Len(p) - 1 <= Len(t)
  BY <1>1, <1>3 DEF Extends
<1>5. \A j \in 1 .. Len(p) : t[i + j - 1] = p[j]
  BY <1>1, <1>3 DEF Extends
<1> QED
  BY <1>4, <1>5, OccursAtIs DEF Occurs

(* The same pattern, seen without the tokens in front of it. *)
LEMMA OccursBehind ==
  ASSUME NEW p \in Texts, NEW s \in Texts, NEW k \in 0 .. Len(s), Occurs(p, After(s, k))
  PROVE  Occurs(p, s)
<1>1. Len(s) \in Nat /\ Len(p) \in Nat
  BY LenProperties DEF Texts
<1>2. /\ After(s, k) \in Texts /\ Len(After(s, k)) = Len(s) - k
      /\ \A j \in 1 .. Len(s) - k : After(s, k)[j] = s[k + j]
  BY AfterIs
<1>3. PICK i \in 1 .. Len(After(s, k)) : OccursAt(p, After(s, k), i)
  BY DEF Occurs
<1>4. i + Len(p) - 1 <= Len(s) - k /\ \A j \in 1 .. Len(p) : After(s, k)[i + j - 1] = p[j]
  BY <1>2, <1>3, OccursAtIs
<1>5. k + i \in 1 .. Len(s) /\ (k + i) + Len(p) - 1 <= Len(s)
  BY <1>1, <1>2, <1>4
<1>6. ASSUME NEW j \in 1 .. Len(p) PROVE s[(k + i) + j - 1] = p[j]
  <2>1. i + j - 1 \in 1 .. Len(s) - k /\ k + (i + j - 1) = (k + i) + j - 1
    BY <1>1, <1>2, <1>4
  <2>2. After(s, k)[i + j - 1] = p[j] /\ After(s, k)[i + j - 1] = s[k + (i + j - 1)]
    BY <1>2, <1>4, <2>1
  <2> QED
    BY <2>1, <2>2
<1> QED
  BY <1>5, <1>6, OccursAtIs DEF Occurs

LEMMA PairIsText ==
  ASSUME NEW a \in Tokens, NEW b \in Tokens
  PROVE  <<a, b>> \in Texts /\ Len(<<a, b>>) = 2 /\ <<a, b>>[1] = a /\ <<a, b>>[2] = b
<1>1. <<a, b>> \in [1 .. 2 -> Tokens] /\ Len(<<a, b>>) = 2
  OBVIOUS
<1> QED
  BY <1>1, SeqDef DEF Texts

LEMMA Terminators ==
  /\ CRLF \in Texts /\ Len(CRLF) = 2 /\ CRLF[1] = "CR" /\ CRLF[2] = "LF"
  /\ CRLF \o CRLF \in Texts /\ Len(CRLF \o CRLF) = 4 /\ (CRLF \o CRLF)[1] = "CR"
  /\ <<"LF", "LF">> \in Texts /\ Len(<<"LF", "LF">>) = 2 /\ <<"LF", "LF">>[1] = "LF"
<1> "CR" \in Tokens /\ "LF" \in Tokens
  BY ParserAssumption
<1>1. CRLF \in Seq(Tokens) /\ Len(CRLF) = 2 /\ CRLF[1] = "CR" /\ CRLF[2] = "LF"
  BY PairIsText DEF CRLF, Texts
<1>2. <<"LF", "LF">> \in Seq(Tokens)
  BY PairIsText DEF Texts
<1>3. /\ CRLF \o CRLF \in Seq(Tokens)
      /\ Len(CRLF \o CRLF) = Len(CRLF) + Len(CRLF)
      /\ \A i \in 1 .. Len(CRLF) + Len(CRLF) : (CRLF \o CRLF)[i] =
            IF i <= Len(CRLF) THEN CRLF[i] ELSE CRLF[i - Len(CRLF)]
  BY <1>1, ConcatProperties
<1> QED
  BY <1>1, <1>2, <1>3 DEF Texts

LEMMA TerminatorStays ==
  ASSUME NEW s \in Texts, NEW t \in Texts, Extends(t, s), HasTerminator(s)
  PROVE  HasTerminator(t)
  BY Terminators, OccursStays DEF HasTerminator

LEMMA TerminatorBehind ==
  ASSUME NEW s \in Texts, NEW k \in 0 .. Len(s), HasTerminator(After(s, k))
  PROVE  HasTerminator(s)
  BY Terminators, OccursBehind DEF HasTerminator

(* A text with a terminator has a line, and something behind its end. *)
LEMMA LineBeforeTerminator ==
  ASSUME NEW s \in Texts, HasTerminator(s)
  PROVE  LineEnd(s) \in 1 .. Len(s) - 1
<1>1. Len(s) \in Nat
  BY LenProperties DEF Texts
<1>2. PICK i \in 1 .. Len(s) : i + 1 <= Len(s) /\ s[i] \in {"CR", "LF"}
  <2>1. CASE Occurs(CRLF \o CRLF, s)
    <3>1. PICK i \in 1 .. Len(s) : OccursAt(CRLF \o CRLF, s, i)
      BY <2>1 DEF Occurs
    <3>2. PICK p \in Texts : p = CRLF \o CRLF /\ Len(p) = 4 /\ p[1] = "CR"
      BY Terminators
    <3>3. i + Len(p) - 1 <= Len(s) /\ \A j \in 1 .. Len(p) : s[i + j - 1] = p[j]
      BY <3>1, <3>2, OccursAtIs
    <3>4. 1 \in 1 .. Len(p) /\ i + 1 - 1 = i
      BY <3>2
    <3>5. s[i] = "CR" /\ i + 1 <= Len(s)
      <4>1. s[i + 1 - 1] = p[1]
        BY <3>3, <3>4
      <4> QED
        BY <1>1, <3>2, <3>3, <3>4, <4>1
    <3> QED
      BY <1>1, <3>5
  <2>2. CASE Occurs(<<"LF", "LF">>, s)
    <3>1. PICK i \in 1 .. Len(s) : OccursAt(<<"LF", "LF">>, s, i)
      BY <2>2 DEF Occurs
    <3>2. PICK p \in Texts : p = <<"LF", "LF">> /\ Len(p) = 2 /\ p[1] = "LF"
      BY Terminators
    <3>3. i + Len(p) - 1 <= Len(s) /\ \A j \in 1 .. Len(p) : s[i + j - 1] = p[j]
      BY <3>1, <3>2, OccursAtIs
    <3>4. 1 \in 1 .. Len(p) /\ i + 1 - 1 = i
      BY <3>2
    <3>5. s[i] = "LF" /\ i + 1 <= Len(s)
      <4>1. s[i + 1 - 1] = p[1]
        BY <3>3, <3>4
      <4> QED
        BY <1>1, <3>2, <3>3, <3>4, <4>1
    <3> QED
      BY <1>1, <3>5
  <2> QED
    BY <2>1, <2>2 DEF HasTerminator
<1>3. LineEnd(s) \in 0 .. Len(s) /\ LineEnd(s) # 0
  BY <1>2, LineEndIsFirst
<1>4. \A j \in 1 .. LineEnd(s) - 1 : s[j] \notin {"CR", "LF"}
  BY <1>3, LineEndIsFirst
<1> QED
  BY <1>1, <1>2, <1>3, <1>4

(* The first line does not change when more comes behind it. *)
LEMMA SameLine ==
  ASSUME NEW s \in Texts, NEW t \in Texts, Extends(t, s), HasTerminator(s)
  PROVE  LineEnd(t) = LineEnd(s) /\ RequestLine(t) = RequestLine(s)
<1>1. Len(s) \in Nat /\ Len(t) \in Nat
  BY LenProperties DEF Texts
<1>2. PICK e : e = LineEnd(s)
  OBVIOUS
<1>3. /\ e \in 1 .. Len(s) - 1 /\ s[e] \in {"CR", "LF"}
      /\ \A i \in 1 .. e - 1 : s[i] \notin {"CR", "LF"}
  BY <1>2, LineBeforeTerminator, LineEndIsFirst
<1>4. /\ e \in 1 .. Len(t) /\ t[e] \in {"CR", "LF"}
      /\ \A i \in 1 .. e - 1 : t[i] = s[i] /\ t[i] \notin {"CR", "LF"}
  BY <1>1, <1>3 DEF Extends
<1>5. LineEnd(t) = e
  <2>1. PICK f : f = LineEnd(t)
    OBVIOUS
  <2>2. /\ f \in 0 .. Len(t)
        /\ f = 0 => \A i \in 1 .. Len(t) : t[i] \notin {"CR", "LF"}
        /\ f # 0 => t[f] \in {"CR", "LF"} /\ \A i \in 1 .. f - 1 : t[i] \notin {"CR", "LF"}
    BY <2>1, LineEndIsFirst
  <2> QED
    BY <1>1, <1>4, <2>1, <2>2
<1>6. /\ Before(s, e) \in Texts /\ Len(Before(s, e)) = e - 1
      /\ \A j \in 1 .. e - 1 : Before(s, e)[j] = s[j]
  <2>1. e \in 1 .. Len(s) + 1
    BY <1>1, <1>3
  <2> QED
    BY <2>1, BeforeIs
<1>7. /\ Before(t, e) \in Texts /\ Len(Before(t, e)) = e - 1
      /\ \A j \in 1 .. e - 1 : Before(t, e)[j] = t[j]
  <2>1. e \in 1 .. Len(t) + 1
    BY <1>1, <1>4
  <2> QED
    BY <2>1, BeforeIs
<1>8. Before(t, e) = Before(s, e)
  BY <1>4, <1>6, <1>7, SeqEqual DEF Texts
<1> QED
  BY <1>2, <1>5, <1>8 DEF RequestLine

(* How much of a text skip_line_break leaves. *)
LEMMA AfterBreakIs ==
  ASSUME NEW s \in Texts, NEW e \in 1 .. Len(s)
  PROVE  \/ OccursAt(CRLF, s, e) /\ e + 1 <= Len(s) /\ AfterBreak(s, e) = After(s, e + 1)
         \/ ~ OccursAt(CRLF, s, e) /\ AfterBreak(s, e) = After(s, e)
  BY Terminators, OccursAtIs DEF AfterBreak

(* What is left keeps its terminator when more comes. *)
LEMMA RestStays ==
  ASSUME NEW s \in Texts, NEW t \in Texts, Extends(t, s), NEW e \in 1 .. Len(s) - 1,
         HasTerminator(AfterBreak(s, e))
  PROVE  HasTerminator(AfterBreak(t, e))
<1>1. Len(s) \in Nat /\ Len(t) \in Nat /\ Len(s) <= Len(t)
  BY LenProperties DEF Texts, Extends
<1>2. e \in 1 .. Len(s) /\ e \in 1 .. Len(t)
  BY <1>1
<1>3. \A j \in 1 .. 2 : s[e + j - 1] = t[e + j - 1]
  BY <1>1 DEF Extends
<1>4. OccursAt(CRLF, s, e) <=> OccursAt(CRLF, t, e)
  <2>1. PICK p \in Texts : p = CRLF /\ Len(p) = 2
    BY Terminators
  <2>2. e + Len(p) - 1 <= Len(s) /\ e + Len(p) - 1 <= Len(t)
    BY <1>1, <2>1
  <2>3. OccursAt(p, s, e) <=> \A j \in 1 .. Len(p) : s[e + j - 1] = p[j]
    BY <1>2, <2>2, OccursAtIs
  <2>4. OccursAt(p, t, e) <=> \A j \in 1 .. Len(p) : t[e + j - 1] = p[j]
    BY <1>2, <2>2, OccursAtIs
  <2> QED
    BY <1>3, <2>1, <2>3, <2>4
<1>5. ASSUME NEW k \in 0 .. Len(s) PROVE Extends(After(t, k), After(s, k))
  <2>1. k \in 0 .. Len(t)
    BY <1>1
  <2>2. /\ Len(After(s, k)) = Len(s) - k
        /\ \A j \in 1 .. Len(s) - k : After(s, k)[j] = s[k + j]
    BY AfterIs
  <2>3. /\ Len(After(t, k)) = Len(t) - k
        /\ \A j \in 1 .. Len(t) - k : After(t, k)[j] = t[k + j]
    BY <2>1, AfterIs
  <2>4. \A j \in 1 .. Len(s) - k : k + j \in 1 .. Len(s) /\ j \in 1 .. Len(t) - k
    BY <1>1
  <2>5. \A j \in 1 .. Len(s) : t[j] = s[j]
    BY DEF Extends
  <2>6. ASSUME NEW j \in 1 .. Len(s) - k PROVE After(t, k)[j] = After(s, k)[j]
    <3>1. k + j \in 1 .. Len(s) /\ j \in 1 .. Len(t) - k
      BY <2>4
    <3> QED
      BY <2>2, <2>3, <2>5, <3>1
  <2> QED
    BY <1>1, <2>2, <2>3, <2>6 DEF Extends
<1>6. PICK k \in 0 .. Len(s) : AfterBreak(s, e) = After(s, k) /\ AfterBreak(t, e) = After(t, k)
  <2>1. e \in 0 .. Len(s) /\ e + 1 \in 0 .. Len(s)
    BY <1>1
  <2> QED
    BY <1>4, <2>1 DEF AfterBreak
<1>7. k \in 0 .. Len(t) /\ After(s, k) \in Texts /\ After(t, k) \in Texts
  <2>1. k \in 0 .. Len(t)
    BY <1>1
  <2> QED
    BY <2>1, AfterIs
<1> QED
  BY <1>5, <1>6, <1>7, TerminatorStays

-----------------------------------------------------------------------------
(* What the parser returns. *)

LEMMA AfterIsText ==
  ASSUME NEW s \in Texts, NEW i \in Nat
  PROVE  After(s, i) \in Texts
<1>1. Len(s) \in Nat /\ i + 1 \in Int /\ \A j \in i + 1 .. Len(s) : s[j] \in Tokens
  BY LenProperties, ElementOfSeq DEF Texts
<1> QED
  BY <1>1, SubSeqProperties DEF After, Texts

LEMMA ParseUrlType ==
  ASSUME NEW url \in Texts, ParseUrl[url] # Refused
  PROVE  ParseUrl[url] \in Urls
<1> DEFINE remainder == After(url, Len(Scheme))
           slash == FirstOf(remainder, "/")
           authority == IF slash = 0 THEN remainder ELSE Before(remainder, slash)
           path == IF slash = 0 THEN <<"/">> ELSE SubSeq(remainder, slash, Len(remainder))
           colon == FirstOf(authority, ":")
           host == IF colon = 0 THEN authority ELSE Before(authority, colon)
           port == IF colon = 0 THEN 80 ELSE PortValue(After(authority, colon))
           good == /\ OccursAt(Scheme, url, 1) /\ remainder # <<>>
                   /\ Fits(path, PathSize)
                   /\ host # <<>> /\ Fits(host, HostSize)
                   /\ port # 0
<1>1. ParseUrl[url] = IF good THEN [host |-> host, port |-> port, path |-> path] ELSE Refused
  BY DEF ParseUrl, Texts
<1>2. remainder \in Texts
  <2>1. Len(Scheme) \in Nat
    BY DEF Scheme
  <2> QED
    BY <2>1, AfterIsText
<1>3. slash \in 0 .. Len(remainder) /\ Len(remainder) \in Nat
  <2> HIDE DEF remainder
  <2> QED
    BY <1>2, FirstOfIsFirst, LenProperties DEF Texts
<1>4. authority \in Texts
  <2> HIDE DEF remainder, slash
  <2>1. slash # 0 => slash \in 1 .. Len(remainder) + 1
    BY <1>3
  <2> QED
    BY <1>2, <2>1, BeforeIs
<1>5. path \in Seq(Tokens)
  <2> HIDE DEF remainder, slash
  <2>1. CASE slash = 0
    <3>1. "/" \in Tokens
      BY ParserAssumption
    <3> QED
      BY <2>1, <3>1
  <2>2. CASE slash # 0
    <3>1. \A j \in slash .. Len(remainder) : remainder[j] \in Tokens
      BY <1>2, <1>3, <2>2, ElementOfSeq DEF Texts
    <3>2. SubSeq(remainder, slash, Len(remainder)) \in Seq(Tokens)
      BY <1>3, <3>1, SubSeqProperties
    <3> QED
      BY <2>2, <3>2
  <2> QED
    BY <2>1, <2>2
<1>6. colon \in 0 .. Len(authority) /\ Len(authority) \in Nat
  <2> HIDE DEF authority
  <2> QED
    BY <1>4, FirstOfIsFirst, LenProperties DEF Texts
<1>7. host \in Texts
  <2> HIDE DEF authority, colon
  <2>1. colon # 0 => colon \in 1 .. Len(authority) + 1
    BY <1>6
  <2> QED
    BY <1>4, <2>1, BeforeIs
<1>8. port \in Nat
  <2> HIDE DEF authority, colon
  <2> QED
    BY ParserAssumption DEF PortValue
<1> HIDE DEF remainder, slash, authority, path, colon, host, port, good
<1> QED
  BY <1>1, <1>5, <1>7, <1>8 DEF Urls, Texts

LEMMA ParseLineType ==
  ASSUME NEW line \in Texts, ParseLine[line] # Refused
  PROVE  ParseLine[line].url \in Urls /\ ParseLine[line].version \in Tokens
<1> DEFINE first == FirstOf(line, "sp")
           second == first + FirstOf(After(line, first), "sp")
           url == SubSeq(line, first + 1, second - 1)
           good == /\ first # 0 /\ second # first
                   /\ Before(line, first) = <<"GET">>
                   /\ \E v \in Versions : After(line, second) = <<v>>
                   /\ ParseUrl[url] # Refused
<1>1. ParseLine[line] = IF good THEN [url |-> ParseUrl[url], version |-> After(line, second)[1]]
                        ELSE Refused
  BY DEF ParseLine, Texts
<1>2. good
  <2> HIDE DEF good
  <2> QED
    BY <1>1
<1>3. first \in 1 .. Len(line) /\ Len(line) \in Nat
  BY <1>2, FirstOfIsFirst, LenProperties DEF Texts
<1>4. After(line, first) \in Texts /\ Len(After(line, first)) = Len(line) - first
  <2> HIDE DEF first, good
  <2>1. first \in 0 .. Len(line)
    BY <1>3
  <2> QED
    BY <2>1, AfterIs
<1>5. FirstOf(After(line, first), "sp") \in 0 .. Len(line) - first
  <2> HIDE DEF first, good
  <2> QED
    BY <1>4, FirstOfIsFirst
<1>6. second \in first + 1 .. Len(line)
  <2> HIDE DEF first
  <2> QED
    BY <1>2, <1>3, <1>5
<1>7. url \in Texts
  <2> HIDE DEF first, second, good
  <2>1. \A j \in first + 1 .. second - 1 : line[j] \in Tokens
    BY <1>3, <1>6, ElementOfSeq DEF Texts
  <2>2. first + 1 \in Int /\ second - 1 \in Int
    BY <1>3, <1>6
  <2> QED
    BY <2>1, <2>2, SubSeqProperties DEF Texts
<1>8. ParseUrl[url] \in Urls
  <2> HIDE DEF first, second, url
  <2> QED
    BY <1>2, <1>7, ParseUrlType
<1>9. After(line, second)[1] \in Tokens
  <2> HIDE DEF first, second, url
  <2>1. PICK v \in Versions : After(line, second) = <<v>>
    BY <1>2
  <2> QED
    BY <2>1, ParserAssumption DEF Versions
<1> HIDE DEF first, second, url, good
<1> QED
  BY <1>1, <1>2, <1>8, <1>9

(* When a text is taken: the line is well formed, and behind its line      *)
(* break the headers end.                                                  *)
LEMMA ParseIs ==
  ASSUME NEW s \in Texts
  PROVE  Parse[s] # Refused <=> /\ LineEnd(s) > 1
                                /\ ParseLine[RequestLine(s)] # Refused
                                /\ HasTerminator(AfterBreak(s, LineEnd(s)))
<1> DEFINE e == LineEnd(s)
           parsed == ParseLine[RequestLine(s)]
           good == e > 1 /\ parsed # Refused /\ HasTerminator(AfterBreak(s, e))
           result == [url |-> parsed.url, version |-> parsed.version, headers |-> AfterBreak(s, e)]
<1>1. Parse[s] = IF good THEN result ELSE Refused
  BY DEF Parse, Texts, RequestLine
<1>2. e \in 0 .. Len(s) /\ Len(s) \in Nat
  BY LineEndIsFirst, LenProperties DEF Texts
<1>3. ASSUME good PROVE result # Refused
  <2> HIDE DEF e
  <2>1. e \in 1 .. Len(s) /\ e \in 1 .. Len(s) + 1
    BY <1>2, <1>3
  <2>2. RequestLine(s) \in Texts
    BY <2>1, BeforeIs DEF RequestLine, e
  <2>3. parsed.url \in Urls /\ parsed.version \in Tokens
    BY <1>3, <2>2, ParseLineType
  <2>4. AfterBreak(s, e) \in Seq(Tokens)
    <3>1. e \in Nat /\ e + 1 \in Nat
      BY <2>1
    <3> QED
      BY <3>1, AfterIsText DEF AfterBreak, Texts
  <2>5. result \in [url : Urls, version : Tokens, headers : Seq(Tokens)]
    <3> HIDE DEF parsed
    <3> QED
      BY <2>3, <2>4
  <2> QED
    BY <2>5, RefusedAssumption
<1> HIDE DEF result
<1> QED
  BY <1>1, <1>3

-----------------------------------------------------------------------------
(* What more bytes change.  Let s be complete and t be s with more behind. *)

(* What is taken from s is taken from t. *)
LEMMA TakenStaysTaken ==
  ASSUME NEW s \in Texts, NEW t \in Texts, Extends(t, s), HasTerminator(s), Parse[s] # Refused
  PROVE  Parse[t] # Refused
<1>1. LineEnd(s) \in 1 .. Len(s) - 1
  BY LineBeforeTerminator
<1>2. LineEnd(t) = LineEnd(s) /\ RequestLine(t) = RequestLine(s)
  BY SameLine
<1>3. /\ LineEnd(s) > 1 /\ ParseLine[RequestLine(s)] # Refused
      /\ HasTerminator(AfterBreak(s, LineEnd(s)))
  BY ParseIs
<1>4. HasTerminator(AfterBreak(t, LineEnd(s)))
  BY <1>1, <1>3, RestStays
<1> QED
  BY <1>2, <1>3, <1>4, ParseIs

(* What is taken from t only is a request line with nothing behind it.     *)
LEMMA TakenLaterIsBare ==
  ASSUME NEW s \in Texts, NEW t \in Texts, Extends(t, s), HasTerminator(s),
         Parse[t] # Refused, Parse[s] = Refused
  PROVE  Bare(s)
<1>1. RequestLine(t) = RequestLine(s)
  BY SameLine
<1>2. ParseLine[RequestLine(t)] # Refused
  BY ParseIs
<1>3. s # <<>>
  <2>1. LineEnd(s) \in 1 .. Len(s) - 1 /\ Len(s) \in Nat
    BY LineBeforeTerminator, LenProperties DEF Texts
  <2> QED
    BY <2>1
<1> QED
  BY <1>1, <1>2, <1>3 DEF Bare

(* Nothing is taken without a terminator. *)
LEMMA IncompleteIsRefused ==
  ASSUME NEW t \in Texts, ~ HasTerminator(t)
  PROVE  Parse[t] = Refused
<1> SUFFICES ASSUME Parse[t] # Refused PROVE FALSE
  OBVIOUS
<1>1. LineEnd(t) > 1 /\ HasTerminator(AfterBreak(t, LineEnd(t)))
  BY ParseIs
<1>2. LineEnd(t) \in 0 .. Len(t) /\ Len(t) \in Nat
  BY LineEndIsFirst, LenProperties DEF Texts
<1>3. PICK k \in 0 .. Len(t) : AfterBreak(t, LineEnd(t)) = After(t, k)
  <2>1. LineEnd(t) \in 1 .. Len(t)
    BY <1>1, <1>2
  <2>2. LineEnd(t) + 1 <= Len(t) => LineEnd(t) + 1 \in 0 .. Len(t)
    BY <1>2
  <2> QED
    BY <1>2, <2>1, <2>2, AfterBreakIs
<1> QED
  BY <1>1, <1>3, TerminatorBehind

-----------------------------------------------------------------------------
(* What has been read of a stream. *)

LEMMA TextIs ==
  ASSUME stream \in Texts, NEW n \in 0 .. Len(stream)
  PROVE  /\ Text(n) \in Texts /\ Len(Text(n)) \in 0 .. n
         /\ \A m \in 0 .. n : Extends(Text(n), Text(m))
         /\ \A m \in 0 .. Len(Text(n)) : Len(Text(m)) = m
<1> DEFINE Part(k) == SubSeq(stream, 1, k)
           Nul(k) == FirstOf(Part(k), "NUL")
<1>1. Len(stream) \in Nat
  BY LenProperties DEF Texts
<1>2. ASSUME NEW k \in 0 .. Len(stream)
      PROVE  /\ Part(k) \in Texts /\ Len(Part(k)) = k
             /\ \A i \in 1 .. k : Part(k)[i] = stream[i]
  <2>1. \A i \in 1 .. k : stream[i] \in Tokens
    BY <1>1, ElementOfSeq DEF Texts
  <2>2. /\ SubSeq(stream, 1, k) \in Seq(Tokens)
        /\ Len(SubSeq(stream, 1, k)) = IF 1 <= k THEN k - 1 + 1 ELSE 0
        /\ \A i \in 1 .. k - 1 + 1 : SubSeq(stream, 1, k)[i] = stream[1 + i - 1]
    BY <1>1, <2>1, SubSeqProperties
  <2> QED
    BY <1>1, <2>2 DEF Texts
<1>3. ASSUME NEW k \in 0 .. Len(stream)
      PROVE  /\ Nul(k) \in 0 .. k
             /\ Nul(k) = 0 => \A i \in 1 .. k : stream[i] # "NUL"
             /\ Nul(k) # 0 => /\ stream[Nul(k)] = "NUL"
                              /\ \A i \in 1 .. Nul(k) - 1 : stream[i] # "NUL"
  <2>1. PICK p \in Texts : p = Part(k) /\ Len(p) = k /\ \A i \in 1 .. k : p[i] = stream[i]
    BY <1>2
  <2>2. PICK f : f = FirstOf(p, "NUL")
    OBVIOUS
  <2>3. /\ f \in 0 .. Len(p)
        /\ f = 0 => \A i \in 1 .. Len(p) : p[i] # "NUL"
        /\ f # 0 => p[f] = "NUL" /\ \A i \in 1 .. f - 1 : p[i] # "NUL"
    BY <2>2, FirstOfIsFirst
  <2>4. Nul(k) = f
    BY <2>1, <2>2
  <2> QED
    BY <1>1, <2>1, <2>3, <2>4
<1>4. ASSUME NEW k \in 0 .. Len(stream)
      PROVE  /\ Text(k) \in Texts
             /\ Len(Text(k)) = IF Nul(k) = 0 THEN k ELSE Nul(k) - 1
             /\ \A i \in 1 .. Len(Text(k)) : Text(k)[i] = stream[i]
  <2>1. Text(k) = IF Nul(k) = 0 THEN Part(k) ELSE Before(Part(k), Nul(k))
    BY DEF Text
  <2>2. CASE Nul(k) = 0
    BY <1>2, <2>1, <2>2
  <2>3. CASE Nul(k) # 0
    <3>1. PICK p \in Texts : p = Part(k) /\ Len(p) = k /\ \A i \in 1 .. k : p[i] = stream[i]
      BY <1>2
    <3>2. PICK f : f = Nul(k)
      OBVIOUS
    <3>3. f \in 1 .. k /\ f \in 1 .. Len(p) + 1
      BY <1>1, <1>3, <2>3, <3>1, <3>2
    <3>4. /\ Before(p, f) \in Texts /\ Len(Before(p, f)) = f - 1
          /\ \A j \in 1 .. f - 1 : Before(p, f)[j] = p[j]
      BY <3>3, BeforeIs
    <3>5. Text(k) = Before(p, f)
      BY <2>1, <2>3, <3>1, <3>2
    <3> HIDE DEF Nul, Part
    <3>6. \A j \in 1 .. f - 1 : Text(k)[j] = stream[j]
      BY <3>1, <3>3, <3>4, <3>5
    <3> QED
      BY <2>3, <3>2, <3>4, <3>5, <3>6
  <2> QED
    BY <2>2, <2>3
<1>5. ASSUME NEW m \in 0 .. n
      PROVE  /\ Extends(Text(n), Text(m))
             /\ m <= Len(Text(n)) => Len(Text(m)) = m
  <2>1. m \in 0 .. Len(stream)
    BY <1>1
  <2> HIDE DEF Nul
  <2>2. Nul(m) = 0 => Nul(n) = 0 \/ Nul(n) > m
    BY <1>1, <1>3, <2>1
  <2>3. Nul(m) # 0 => Nul(n) = Nul(m)
    BY <1>1, <1>3, <2>1
  <2>4. Len(Text(m)) <= Len(Text(n))
    BY <1>1, <1>3, <1>4, <2>1, <2>2, <2>3
  <2>5. Len(Text(n)) \in Nat /\ Len(Text(m)) \in Nat
    BY <1>4, <2>1, LenProperties DEF Texts
  <2>6. Extends(Text(n), Text(m))
    BY <1>4, <2>1, <2>4, <2>5 DEF Extends
  <2>7. ASSUME m <= Len(Text(n)) PROVE Len(Text(m)) = m
    <3>1. Nul(m) \in 0 .. m /\ Nul(n) \in 0 .. n
      BY <1>3, <2>1
    <3>2. Nul(m) = 0
      BY <1>1, <1>4, <2>3, <2>7, <3>1
    <3> QED
      BY <1>4, <2>1, <3>2
  <2> QED
    BY <2>6, <2>7
<1>6. Len(Text(n)) \in 0 .. n
  <2> HIDE DEF Nul
  <2>1. Nul(n) \in 0 .. n
    BY <1>3
  <2> QED
    BY <1>1, <1>4, <2>1
<1> QED
  <2>1. \A m \in 0 .. Len(Text(n)) : m \in 0 .. n
    BY <1>1, <1>6
  <2> QED
    BY <1>4, <1>5, <1>6, <2>1

-----------------------------------------------------------------------------
(* The verdict. *)

Judged(status) == Bare(FirstComplete) \/ status = Verdict(FirstComplete)

NoneYet(n) == \A k \in 1 .. n : ~ HasTerminator(Text(k))

(* When there is a terminator, the first text with one is a part of what   *)
(* was read.                                                               *)
LEMMA FirstIsPart ==
  ASSUME stream \in Texts, NEW n \in 1 .. Len(stream), n <= Limit, HasTerminator(Text(n))
  PROVE  /\ FirstComplete \in Texts /\ Text(n) \in Texts
         /\ HasTerminator(FirstComplete) /\ Extends(Text(n), FirstComplete)
<1> DEFINE ends == {k \in 1 .. Len(stream) : k <= Limit /\ HasTerminator(Text(k))}
<1>1. Len(stream) \in Nat
  BY LenProperties DEF Texts
<1>2. ends \in SUBSET Nat /\ n \in ends
  BY <1>1
<1>3. PICK m : m = Min(ends)
  OBVIOUS
<1>4. m \in ends /\ \A j \in ends : m <= j
  <2> HIDE DEF ends
  <2> QED
    BY <1>2, <1>3, MinIsLeast
<1>5. m \in 0 .. n /\ m \in 0 .. Len(stream) /\ n \in 0 .. Len(stream)
  BY <1>1, <1>2, <1>4
<1>6. FirstComplete = Text(m)
  BY <1>2, <1>3 DEF FirstComplete
<1>7. HasTerminator(Text(m))
  BY <1>4
<1> QED
  BY <1>5, <1>6, <1>7, TextIs

LEMMA NoFirst ==
  ASSUME stream \in Texts, NEW n \in Nat, NoneYet(n), n >= Limit \/ n >= Len(stream)
  PROVE  FirstComplete = <<>>
<1>1. Len(stream) \in Nat /\ Limit \in Nat
  BY LenProperties, PathAssumption DEF Texts
<1>2. {k \in 1 .. Len(stream) : k <= Limit /\ HasTerminator(Text(k))} = {}
  BY <1>1 DEF NoneYet
<1> QED
  BY <1>2 DEF FirstComplete

LEMMA NoneBefore ==
  ASSUME stream \in Texts, NEW n \in 0 .. Len(stream), ~ HasTerminator(Text(n))
  PROVE  NoneYet(n)
<1> SUFFICES ASSUME NEW k \in 1 .. n, HasTerminator(Text(k)) PROVE FALSE
  BY DEF NoneYet
<1>1. k \in 0 .. n /\ k \in 0 .. Len(stream)
  BY LenProperties DEF Texts
<1> QED
  BY <1>1, TextIs, TerminatorStays

(* The parser's answer to all that was read is the verdict on the first    *)
(* complete part of it.                                                    *)
LEMMA ParserJudges ==
  ASSUME stream \in Texts, NEW n \in 1 .. Len(stream), n <= Limit, HasTerminator(Text(n))
  PROVE  Judged(IF Parse[Text(n)] = Refused THEN 400 ELSE 0)
<1>1. PICK s : s = FirstComplete
  OBVIOUS
<1>2. PICK t : t = Text(n)
  OBVIOUS
<1>3. s \in Texts /\ t \in Texts /\ HasTerminator(s) /\ Extends(t, s)
  BY <1>1, <1>2, FirstIsPart
<1>4. s # <<>>
  <2>1. LineEnd(s) \in 1 .. Len(s) - 1 /\ Len(s) \in Nat
    BY <1>3, LineBeforeTerminator, LenProperties DEF Texts
  <2> QED
    BY <2>1
<1>5. Verdict(s) = IF Parse[s] = Refused THEN 400 ELSE 0
  BY <1>4 DEF Verdict
<1>6. Parse[s] # Refused => Parse[t] # Refused
  BY <1>3, TakenStaysTaken
<1>7. Parse[t] # Refused /\ Parse[s] = Refused => Bare(s)
  BY <1>3, TakenLaterIsBare
<1> QED
  BY <1>1, <1>2, <1>5, <1>6, <1>7 DEF Judged

(* The reader's answer to a stream that ends, or fills the buffer, before  *)
(* its headers do.                                                         *)
LEMMA ReaderJudges ==
  ASSUME stream \in Texts, NEW n \in 0 .. Len(stream), NoneYet(n)
  PROVE  /\ n = Limit => Judged(413)
         /\ n = Len(stream) /\ n < Limit => Judged(400)
<1>1. Len(stream) \in Nat /\ Limit \in Nat /\ n \in Nat
  BY LenProperties, PathAssumption DEF Texts
<1>2. n >= Limit \/ n >= Len(stream) => FirstComplete = <<>>
  BY <1>1, NoFirst
<1>3. Verdict(<<>>) = IF Len(stream) >= Limit THEN 413 ELSE 400
  BY DEF Verdict
<1>4. FirstComplete = <<>> => Verdict(FirstComplete) = IF Len(stream) >= Limit THEN 413 ELSE 400
  BY <1>3
<1> HIDE DEF Judged
<1>5. CASE n = Limit
  BY <1>1, <1>2, <1>4, <1>5 DEF Judged
<1>6. CASE n = Len(stream) /\ n < Limit
  BY <1>1, <1>2, <1>4, <1>6 DEF Judged
<1> QED
  BY <1>1, <1>5, <1>6

(* None of this changes as long as the stream is the same. *)
LEMMA SameStream ==
  ASSUME stream' = stream
  PROVE  \A n : Text(n)' = Text(n) /\ NoneYet(n)' = NoneYet(n)
  BY DEF Text, NoneYet

(* Nothing with the end of the headers in it is kept waiting, and what the *)
(* parser gets either has that end or is all there is.                     *)
Complete(n) == HasTerminator(Text(n))

VerdictInv ==
    /\ stream \in Texts
    /\ got \in 0 .. Len(stream)
    /\ answer # 0 => stage = "refused"
    /\ stage = "reading" => got < Limit /\ NoneYet(got)
    /\ stage = "parsing" => /\ got \in 1 .. Limit
                            /\ \/ Complete(got)
                               \/ NoneYet(got) /\ got = Len(stream) /\ got < Limit
    /\ stage = "resolving" \/ answer \in {400, 413} => Judged(answer)

LEMMA VerdictInit == Init => VerdictInv
<1> SUFFICES ASSUME Init PROVE VerdictInv
  OBVIOUS
<1>1. stream \in Texts /\ Limit \in Nat \ {0}
  BY PathAssumption DEF Init, Texts
<1>2. Len(stream) \in Nat
  BY <1>1, LenProperties DEF Texts
<1>3. NoneYet(0)
  BY DEF NoneYet
<1> QED
  BY <1>1, <1>2, <1>3 DEF Init, VerdictInv

(* The same verdict in the next state. *)
LEMMA SameVerdict ==
  ASSUME UNCHANGED stream, stage' = "resolving" \/ answer' \in {400, 413} => Judged(answer')
  PROVE  stage' = "resolving" \/ answer' \in {400, 413} => Judged(answer)'
<1>1. FirstComplete' = FirstComplete /\ \A text : Verdict(text)' = Verdict(text)
  BY DEF FirstComplete, Text, Verdict
<1>2. Verdict(FirstComplete)' = Verdict(FirstComplete)
  BY DEF FirstComplete, Text, Verdict
<1> QED
  BY <1>1, <1>2 DEF Judged

(* A step behind the parser, which fails with 502 if it fails.             *)
LEMMA LaterStep ==
  ASSUME VerdictInv, UNCHANGED reading, stage \notin {"reading", "parsing", "refused"},
         stage' \notin {"reading", "parsing", "resolving"},
         (stage' = "refused" /\ answer' = 502) \/ UNCHANGED answer
  PROVE  VerdictInv'
<1>1. stream' \in Texts /\ got' \in 0 .. Len(stream')
  BY DEF VerdictInv, reading
<1>2. (stage' = "refused" /\ answer' = 502) \/ answer' = 0
  BY DEF VerdictInv
<1> QED
  BY <1>1, <1>2 DEF VerdictInv

LEMMA VerdictNext == VerdictInv /\ [Next]_vars => VerdictInv'
<1> SUFFICES ASSUME VerdictInv, [Next]_vars PROVE VerdictInv'
  OBVIOUS
<1>1. stream \in Texts /\ Len(stream) \in Nat /\ Limit \in Nat /\ got \in 0 .. Len(stream)
  BY LenProperties, PathAssumption DEF VerdictInv, Texts
<1>2. ASSUME NEW n \in 1 .. Limit, Receive(n) PROVE VerdictInv'
  <2>1. PICK m : m = got + n
    OBVIOUS
  <2>2. m \in 1 .. Len(stream) /\ m <= Limit /\ got' = m /\ stream' = stream
    BY <1>1, <1>2, <2>1 DEF Receive
  <2>3. stage = "reading" /\ answer = 0
    BY <1>2 DEF Receive, VerdictInv
  <2>4. Text(m)' = Text(m) /\ NoneYet(m)' = NoneYet(m)
    BY <2>2, SameStream
  <2>5. CASE HasTerminator(Text(m))
    <3>1. stage' = "parsing" /\ answer' = 0
      BY <1>2, <2>1, <2>3, <2>5 DEF Receive
    <3>2. Complete(got)'
      BY <2>2, <2>5 DEF Complete, Text
    <3>3. got' \in 1 .. Limit /\ got' \in 0 .. Len(stream') /\ stream' \in Texts
      BY <1>1, <2>2
    <3> QED
      BY <3>1, <3>2, <3>3 DEF VerdictInv
  <2>6. CASE ~ HasTerminator(Text(m))
    <3>1. NoneYet(m)
      BY <1>1, <2>2, <2>6, NoneBefore
    <3>2. CASE m = Limit
      <4>1. stage' = "refused" /\ answer' = 413
        BY <1>2, <2>1, <2>2, <2>6, <3>2 DEF Receive, Refuse
      <4>2. Judged(413)
        BY <1>1, <2>2, <3>1, <3>2, ReaderJudges
      <4>3. Judged(answer)'
        BY <2>2, <4>1, <4>2, SameVerdict
      <4> QED
        BY <1>1, <2>2, <4>1, <4>3 DEF VerdictInv
    <3>3. CASE m # Limit
      <4>1. stage' = "reading" /\ answer' = 0
        BY <1>2, <2>1, <2>2, <2>3, <2>6, <3>3 DEF Receive
      <4> QED
        BY <1>1, <2>2, <2>4, <3>1, <3>3, <4>1 DEF VerdictInv
    <3> QED
      BY <3>2, <3>3
  <2> QED
    BY <2>5, <2>6
<1>3. CASE ReceiveEnd
  <2>1. /\ stage = "reading" /\ answer = 0 /\ got = Len(stream) /\ got < Limit /\ NoneYet(got)
        /\ stream' = stream /\ got' = got
    BY <1>3 DEF ReceiveEnd, VerdictInv, reading
  <2>2. CASE got = 0
    <3>1. stage' = "refused" /\ answer' = 400
      BY <1>3, <2>2 DEF ReceiveEnd, Refuse
    <3>2. Judged(400)
      BY <1>1, <2>1, ReaderJudges
    <3>3. Judged(answer)'
      BY <2>1, <3>1, <3>2, SameVerdict
    <3> QED
      BY <1>1, <2>1, <3>1, <3>3 DEF VerdictInv
  <2>3. CASE got # 0
    <3>1. stage' = "parsing" /\ answer' = 0
      BY <1>3, <2>1, <2>3 DEF ReceiveEnd
    <3>2. NoneYet(got)'
      <4>1. PICK n : n = got
        OBVIOUS
      <4>2. NoneYet(n)' = NoneYet(n)
        BY <2>1, SameStream
      <4> QED
        BY <2>1, <4>1, <4>2
    <3> QED
      BY <1>1, <2>1, <2>3, <3>1, <3>2 DEF VerdictInv
  <2> QED
    BY <2>2, <2>3
<1>4. CASE ReceiveFails
  <2>1. stage' = "refused" /\ answer' = 408 /\ stream' = stream /\ got' = got
    BY <1>4 DEF ReceiveFails, Refuse, reading
  <2> QED
    BY <1>1, <2>1 DEF VerdictInv
<1>5. CASE ParseText
  <2>1. /\ stage = "parsing" /\ answer = 0 /\ stream' = stream /\ got' = got
        /\ got \in 1 .. Len(stream) /\ got <= Limit
        /\ HasTerminator(Text(got)) \/ (NoneYet(got) /\ got = Len(stream) /\ got < Limit)
    BY <1>1, <1>5 DEF ParseText, VerdictInv, reading, Complete
  <2>2. PICK n : n = got
    OBVIOUS
  <2>3. Judged(IF Parse[Text(n)] = Refused THEN 400 ELSE 0)
    <3>1. CASE HasTerminator(Text(n))
      BY <1>1, <2>1, <2>2, <3>1, ParserJudges
    <3>2. CASE ~ HasTerminator(Text(n))
      <4>1. n \in 0 .. Len(stream) /\ NoneYet(n) /\ n = Len(stream) /\ n < Limit
        BY <1>1, <2>1, <2>2, <3>2
      <4>2. Judged(400)
        BY <1>1, <4>1, ReaderJudges
      <4>3. Text(n) \in Texts
        BY <1>1, <4>1, TextIs
      <4>4. Parse[Text(n)] = Refused
        BY <3>2, <4>3, IncompleteIsRefused
      <4> QED
        BY <4>2, <4>4
    <3> QED
      BY <3>1, <3>2
  <2>4. CASE Parse[Text(n)] = Refused
    <3>1. stage' = "refused" /\ answer' = 400
      BY <1>5, <2>2, <2>4 DEF ParseText, Refuse
    <3>2. Judged(answer)'
      BY <2>1, <2>3, <2>4, <3>1, SameVerdict
    <3> QED
      BY <1>1, <2>1, <3>1, <3>2 DEF VerdictInv
  <2>5. CASE Parse[Text(n)] # Refused
    <3>1. stage' = "resolving" /\ answer' = 0
      BY <1>5, <2>1, <2>2, <2>5 DEF ParseText
    <3>2. Judged(answer)'
      BY <2>1, <2>3, <2>5, <3>1, SameVerdict
    <3> QED
      BY <1>1, <2>1, <3>1, <3>2 DEF VerdictInv
  <2> QED
    BY <2>4, <2>5
<1>6. CASE ConnectStep \/ RewriteStep
  <2>1. /\ stage \in {"resolving", "connecting", "building", "filtering"} /\ UNCHANGED reading
        /\ stage' \notin {"reading", "parsing", "resolving"}
        /\ (stage' = "refused" /\ answer' = 502) \/ UNCHANGED answer
    BY <1>6 DEF ConnectStep, Resolve, TryAddress, NoAddressLeft, TimeoutFails, Fail,
                RewriteStep, StartRewrite, FilterLine, EndRewrite
  <2> QED
    BY <2>1, LaterStep
<1>7. CASE SendStep
  <2>1. /\ stage = "writing" /\ UNCHANGED reading
        /\ stage' \notin {"reading", "parsing", "resolving"}
        /\ (stage' = "refused" /\ answer' = 502) \/ UNCHANGED answer
    BY <1>7 DEF SendStep, Send, SendFails, Fail
  <2> QED
    BY <2>1, LaterStep
<1>8. CASE UNCHANGED vars
  <2>1. UNCHANGED <<stage, stream, got, answer>>
    BY <1>8 DEF vars, reading
  <2>2. stage' = "resolving" \/ answer' \in {400, 413} => Judged(answer)'
    <3>1. stage' = "resolving" \/ answer' \in {400, 413} => Judged(answer')
      BY <2>1 DEF VerdictInv
    <3> QED
      BY <2>1, <3>1, SameVerdict
  <2>3. Complete(got)' = Complete(got) /\ NoneYet(got)' = NoneYet(got)
    BY <2>1 DEF NoneYet, Text, Complete
  <2> QED
    BY <2>1, <2>2, <2>3 DEF VerdictInv
<1> QED
  BY <1>2, <1>3, <1>4, <1>5, <1>6, <1>7, <1>8 DEF Next, Step, ReadStep, Finished

(* Whatever a client sends, however it is cut into reads and wherever the  *)
(* buffer ends: the verdict is that on the first complete part, except for *)
(* a request line with nothing behind it.                                  *)
THEOREM VerdictAlwaysFixed == Spec => []VerdictFixed
<1>1. VerdictInv => VerdictFixed
  BY DEF VerdictInv, Judged, VerdictFixed
<1> QED
  BY <1>1, VerdictInit, VerdictNext, PTL DEF Spec

-----------------------------------------------------------------------------
(* Recursion and induction over a size. *)

(* A function that is computed from its value at a smaller argument: base  *)
(* at the arguments of Base, and elsewhere step of the argument and of the *)
(* value at its predecessor.  There is one, whatever size counts.          *)
Descends(S, V, size, Base, pred, base, step) ==
    /\ size \in [S -> Nat] /\ Base \subseteq S
    /\ pred \in [S \ Base -> S] /\ \A x \in S \ Base : size[pred[x]] < size[x]
    /\ base \in [Base -> V] /\ step \in [(S \ Base) \X V -> V]

ValueAt(f, x, Base, pred, base, step) == IF x \in Base THEN base[x] ELSE step[<<x, f[pred[x]]>>]

LEMMA Recursion ==
  ASSUME NEW S, NEW V, NEW size, NEW Base, NEW pred, NEW base, NEW step,
         Descends(S, V, size, Base, pred, base, step)
  PROVE  \E f \in [S -> V] : \A x \in S : f[x] = ValueAt(f, x, Base, pred, base, step)
<1> DEFINE Below(k) == {x \in S : size[x] <= k}
           Good(g, k) == \A x \in Below(k) : g[x] = ValueAt(g, x, Base, pred, base, step)
           Partial(k) == {g \in [Below(k) -> V] : Good(g, k)}
<1>1. \A x \in S : size[x] \in Nat
  BY DEF Descends
<1>2. \A x \in S \ Base : pred[x] \in S /\ size[pred[x]] < size[x]
  BY DEF Descends
<1>3. ASSUME NEW k \in Nat, NEW g, NEW D, \A x \in Below(k) \ Base : pred[x] \in D,
             \A y \in D : g[y] \in V
      PROVE  [x \in Below(k) |-> ValueAt(g, x, Base, pred, base, step)] \in [Below(k) -> V]
  <2>1. ASSUME NEW x \in Below(k) PROVE ValueAt(g, x, Base, pred, base, step) \in V
    <3>1. CASE x \in Base
      BY <3>1 DEF ValueAt, Descends
    <3>2. CASE x \notin Base
      <4>1. <<x, g[pred[x]]>> \in (S \ Base) \X V
        BY <1>3, <3>2
      <4> QED
        BY <3>2, <4>1 DEF ValueAt, Descends
    <3> QED
      BY <3>1, <3>2
  <2> QED
    BY <2>1
<1>4. \A k \in Nat : Partial(k) # {}
  <2> DEFINE I == {k \in Nat : Partial(k) = {}}
  <2> SUFFICES ASSUME I # {} PROVE FALSE
    OBVIOUS
  <2>1. PICK k \in I : \A j \in I : k <= j
    <3>1. I \in SUBSET Nat
      OBVIOUS
    <3> HIDE DEF I
    <3> QED
      BY <3>1, MinIsLeast
  <2>2. k \in Nat /\ Partial(k) = {}
    BY <2>1
  <2>3. PICK D, g : /\ \A x \in Below(k) \ Base : pred[x] \in D
                    /\ \A y \in D : y \in Below(k) /\ g[y] \in V /\ g[y] = ValueAt(g, y, Base, pred, base, step)
    <3>1. CASE k = 0
      <4>1. \A x \in Below(k) \ Base : FALSE
        BY <1>1, <1>2, <3>1
      <4> QED
        BY <4>1
    <3>2. CASE k # 0
      <4>1. k - 1 \in Nat /\ ~ (k <= k - 1)
        BY <2>2, <3>2
      <4>2. Partial(k - 1) # {}
        BY <2>1, <4>1
      <4>3. PICK g \in [Below(k - 1) -> V] : Good(g, k - 1)
        BY <4>2
      <4>4. \A x \in Below(k) \ Base : pred[x] \in Below(k - 1)
        BY <1>1, <1>2, <2>2
      <4>5. \A y \in Below(k - 1) : y \in Below(k)
        BY <1>1, <2>2
      <4> QED
        BY <4>3, <4>4, <4>5
    <3> QED
      BY <3>1, <3>2
  <2> DEFINE h == [x \in Below(k) |-> ValueAt(g, x, Base, pred, base, step)]
  <2>4. h \in [Below(k) -> V]
    BY <1>3, <2>2, <2>3
  <2>5. \A y \in D : h[y] = g[y]
    BY <2>3
  <2>6. \A x \in Below(k) : h[x] = ValueAt(h, x, Base, pred, base, step)
    BY <2>3, <2>5 DEF ValueAt
  <2>7. h \in Partial(k)
    <3> HIDE DEF h
    <3> QED
      BY <2>4, <2>6
  <2> QED
    BY <2>2, <2>7
<1>5. ASSUME NEW k \in Nat, NEW m \in Nat, NEW g \in Partial(k), NEW h \in Partial(m)
      PROVE  \A x \in Below(k) : x \in Below(m) => g[x] = h[x]
  <2> DEFINE Bad == {x \in Below(k) : x \in Below(m) /\ g[x] # h[x]}
             I == {size[x] : x \in Bad}
  <2> SUFFICES ASSUME Bad # {} PROVE FALSE
    OBVIOUS
  <2>1. I \in SUBSET Nat /\ I # {}
    BY <1>1
  <2>2. PICK n \in I : \A j \in I : n <= j
    <3> HIDE DEF I
    <3> QED
      BY <2>1, MinIsLeast
  <2>3. PICK x \in Bad : \A y \in Bad : size[x] <= size[y]
    BY <2>2
  <2>4. x \in Below(k) /\ x \in Below(m) /\ g[x] # h[x]
    BY <2>3
  <2>5. /\ g[x] = ValueAt(g, x, Base, pred, base, step)
        /\ h[x] = ValueAt(h, x, Base, pred, base, step)
    BY <2>4
  <2>6. x \notin Base
    BY <2>4, <2>5 DEF ValueAt
  <2>7. pred[x] \in S /\ size[pred[x]] < size[x] /\ size[x] \in Nat /\ size[pred[x]] \in Nat
    BY <1>1, <1>2, <2>4, <2>6
  <2>8. pred[x] \in Below(k) /\ pred[x] \in Below(m)
    BY <2>4, <2>7
  <2>9. g[pred[x]] = h[pred[x]]
    BY <2>3, <2>7, <2>8
  <2> QED
    BY <2>4, <2>5, <2>9 DEF ValueAt
<1> DEFINE part(k) == CHOOSE g : g \in Partial(k)
           f == [x \in S |-> part(size[x])[x]]
<1>6. \A k \in Nat : part(k) \in Partial(k)
  <2> HIDE DEF Partial
  <2> QED
    BY <1>4
<1> HIDE DEF part
<1>7. \A x \in S : x \in Below(size[x]) /\ size[x] \in Nat
  BY <1>1
<1>8. f \in [S -> V]
  BY <1>6, <1>7
<1>9. ASSUME NEW x \in S PROVE f[x] = ValueAt(f, x, Base, pred, base, step)
  <2>1. f[x] = ValueAt(part(size[x]), x, Base, pred, base, step)
    BY <1>6, <1>7
  <2>2. CASE x \in Base
    BY <2>1, <2>2 DEF ValueAt
  <2>3. CASE x \notin Base
    <3>1. pred[x] \in S /\ size[pred[x]] < size[x] /\ size[x] \in Nat /\ size[pred[x]] \in Nat
      BY <1>1, <1>2, <2>3
    <3>2. pred[x] \in Below(size[x]) /\ pred[x] \in Below(size[pred[x]])
      BY <3>1
    <3>3. part(size[pred[x]])[pred[x]] = part(size[x])[pred[x]]
      <4> HIDE DEF Below, Partial
      <4> QED
        BY <1>5, <1>6, <3>1, <3>2
    <3>4. f[pred[x]] = part(size[x])[pred[x]]
      BY <3>1, <3>3
    <3> QED
      BY <2>1, <2>3, <3>4 DEF ValueAt
  <2> QED
    BY <2>2, <2>3
<1> HIDE DEF f
<1> QED
  BY <1>8, <1>9

(* Induction: what holds of x whenever it holds of all that is smaller.    *)
LEMMA SmallerFirst ==
  ASSUME NEW S, NEW size \in [S -> Nat], NEW Good,
         \A x \in S : (\A y \in S : size[y] < size[x] => y \in Good) => x \in Good
  PROVE  \A x \in S : x \in Good
<1> DEFINE Bad == {x \in S : x \notin Good}
           I == {size[x] : x \in Bad}
<1> SUFFICES ASSUME Bad # {} PROVE FALSE
  OBVIOUS
<1>1. I \in SUBSET Nat /\ I # {}
  OBVIOUS
<1>2. PICK n \in I : \A j \in I : n <= j
  <2> HIDE DEF I
  <2> QED
    BY <1>1, MinIsLeast
<1>3. PICK x \in Bad : \A y \in Bad : size[x] <= size[y]
  BY <1>2
<1>4. \A y \in S : size[y] < size[x] => y \in Good
  <2>1. \A y \in S : size[y] \in Nat
    OBVIOUS
  <2> QED
    BY <1>3, <2>1
<1> QED
  BY <1>3, <1>4

-----------------------------------------------------------------------------
(* Numbers. *)

LEMMA DigitsAre ==
  /\ Digits \in [1 .. 10 -> DigitSet]
  /\ \A d \in DigitSet : \E i \in 1 .. 10 : d = Digits[i]
  /\ "/" \notin DigitSet /\ ":" \notin DigitSet /\ "|" \notin DigitSet /\ "+" \notin DigitSet
  /\ "sp" \notin DigitSet
<1>1. \A i \in 1 .. 10 : Digits[i] \in DigitSet
  BY DEF DigitSet
<1>2. Digits \in [1 .. 10 -> {Digits[i] : i \in 1 .. 10}]
  BY DEF Digits
<1>3. \A i \in 1 .. 10 : i \in {1, 2, 3, 4, 5, 6, 7, 8, 9, 10}
  OBVIOUS
<1>4. \A i \in 1 .. 10 : Digits[i] \notin {"/", ":", "|", "+", "sp"}
  BY <1>3 DEF Digits
<1> QED
  BY <1>1, <1>2, <1>4 DEF DigitSet

(* The value of a digit. *)
LEMMA DigitValueIs ==
  ASSUME NEW i \in 1 .. 10
  PROVE  DigitValue(Digits[i]) = i - 1
<1>1. Len(Digits) = 10
  BY DEF Digits
<1> DEFINE I == {k \in 1 .. Len(Digits) : Digits[k] = Digits[i]}
<1>2. ASSUME NEW k \in 1 .. 10, Digits[k] = Digits[i] PROVE k = i
  <2>1. i \in {1, 2, 3, 4, 5, 6, 7, 8, 9, 10} /\ k \in {1, 2, 3, 4, 5, 6, 7, 8, 9, 10}
    OBVIOUS
  <2> QED
    BY <1>2, <2>1 DEF Digits
<1>3. I = {i}
  BY <1>1, <1>2
<1>4. Min(I) = i
  BY <1>3 DEF Min
<1>5. FirstOf(Digits, Digits[i]) = IF I # {} THEN Min(I) ELSE 0
  BY DEF FirstOf, SelectInSeq
<1>6. FirstOf(Digits, Digits[i]) = i
  <2> HIDE DEF I
  <2> QED
    BY <1>3, <1>4, <1>5
<1> QED
  BY <1>6 DEF DigitValue

(* printf's %d does what its definition says. *)
LEMMA DecimalIs ==
  /\ Decimal \in [Nat -> Seq(DigitSet)]
  /\ \A n \in Nat : Decimal[n] = IF n < 10 THEN <<Digits[n + 1]>>
                                 ELSE Append(Decimal[n \div 10], Digits[(n % 10) + 1])
<1> DEFINE Base == 0 .. 9
           V == Seq(DigitSet)
           size == [n \in Nat |-> n]
           pred == [n \in Nat \ Base |-> n \div 10]
           base == [n \in Base |-> <<Digits[n + 1]>>]
           step == [x \in (Nat \ Base) \X V |-> Append(x[2], Digits[(x[1] % 10) + 1])]
           Body(f, n) == IF n < 10 THEN <<Digits[n + 1]>>
                         ELSE Append(f[n \div 10], Digits[(n % 10) + 1])
<1>1. \A n \in Nat : (n % 10) + 1 \in 1 .. 10 /\ n \div 10 \in Nat /\ (n >= 10 => n \div 10 < n)
  OBVIOUS
<1>2. \A i \in 1 .. 10 : Digits[i] \in DigitSet
  BY DigitsAre
<1>3. Descends(Nat, V, size, Base, pred, base, step)
  <2>1. size \in [Nat -> Nat] /\ Base \subseteq Nat
    OBVIOUS
  <2>2. pred \in [Nat \ Base -> Nat] /\ \A x \in Nat \ Base : size[pred[x]] < size[x]
    BY <1>1
  <2>3. base \in [Base -> V]
    BY <1>2
  <2>4. step \in [(Nat \ Base) \X V -> V]
    <3>1. ASSUME NEW x \in (Nat \ Base) \X V PROVE step[x] \in V
      <4>1. x[1] \in Nat /\ x[2] \in V
        OBVIOUS
      <4>2. Digits[(x[1] % 10) + 1] \in DigitSet
        BY <1>1, <1>2, <4>1
      <4> QED
        BY <4>1, <4>2
    <3> QED
      BY <3>1
  <2> HIDE DEF V, size, Base, pred, base, step
  <2> QED
    BY <2>1, <2>2, <2>3, <2>4 DEF Descends
<1>4. PICK f \in [Nat -> V] : \A n \in Nat : f[n] = ValueAt(f, n, Base, pred, base, step)
  <2> HIDE DEF V, size, Base, pred, base, step
  <2> QED
    BY <1>3, Recursion
<1>5. ASSUME NEW g, NEW n \in Nat, g[n \div 10] \in V \/ n < 10
      PROVE  ValueAt(g, n, Base, pred, base, step) = Body(g, n)
  <2>1. CASE n < 10
    <3>1. n \in Base
      BY <2>1
    <3>2. ValueAt(g, n, Base, pred, base, step) = base[n]
      <4> HIDE DEF Base, base
      <4> QED
        BY <3>1 DEF ValueAt
    <3>3. base[n] = <<Digits[n + 1]>>
      BY <3>1
    <3> QED
      BY <2>1, <3>2, <3>3
  <2>2. CASE ~ (n < 10)
    <3>1. n \in Nat \ Base /\ g[n \div 10] \in V /\ pred[n] = n \div 10
      BY <1>5, <2>2
    <3>2. ValueAt(g, n, Base, pred, base, step) = step[<<n, g[n \div 10]>>]
      BY <3>1 DEF ValueAt
    <3> QED
      BY <2>2, <3>1, <3>2
  <2> QED
    BY <2>1, <2>2
<1>6. \A n \in Nat : f[n] = Body(f, n)
  <2> SUFFICES ASSUME NEW n \in Nat PROVE f[n] = Body(f, n)
    OBVIOUS
  <2>1. f[n] = ValueAt(f, n, Base, pred, base, step) /\ f[n \div 10] \in V
    BY <1>1, <1>4
  <2> HIDE DEF V, Base, pred, base, step, Body
  <2> QED
    BY <1>5, <2>1
<1>7. f = [n \in Nat |-> Body(f, n)]
  <2>1. f = [n \in Nat |-> f[n]]
    BY <1>4
  <2> HIDE DEF Body, V
  <2> QED
    BY <1>6, <2>1
<1>8. Decimal = CHOOSE g : g = [n \in Nat |-> Body(g, n)]
  BY DEF Decimal
<1>9. Decimal = [n \in Nat |-> Body(Decimal, n)]
  <2> HIDE DEF Body
  <2> QED
    BY <1>7, <1>8
<1> DEFINE Good == {n \in Nat : Decimal[n] \in V}
<1>10. ASSUME NEW n \in Nat, \A k \in Nat : size[k] < size[n] => k \in Good
       PROVE  n \in Good
  <2>1. Decimal[n] = Body(Decimal, n)
    <3> HIDE DEF Body
    <3> QED
      BY <1>9
  <2>2. CASE n < 10
    <3>1. PICK d \in DigitSet : d = Digits[n + 1]
      <4>1. PICK m \in 1 .. 10 : m = n + 1
        BY <2>2
      <4>2. Digits[m] \in DigitSet
        BY <1>2
      <4> QED
        BY <4>1, <4>2
    <3>2. Decimal[n] = <<d>>
      BY <2>1, <2>2, <3>1
    <3>3. <<d>> \in Seq(DigitSet)
      OBVIOUS
    <3> QED
      BY <3>2, <3>3
  <2>3. CASE ~ (n < 10)
    <3>1. PICK s \in V : s = Decimal[n \div 10]
      BY <1>1, <1>10, <2>3
    <3>2. PICK d \in DigitSet : d = Digits[(n % 10) + 1]
      <4>1. PICK m \in 1 .. 10 : m = (n % 10) + 1
        BY <1>1
      <4>2. Digits[m] \in DigitSet
        BY <1>2
      <4> QED
        BY <4>1, <4>2
    <3>3. Decimal[n] = Append(s, d)
      BY <2>1, <2>3, <3>1, <3>2
    <3>4. Append(s, d) \in V
      BY AppendProperties
    <3> QED
      BY <3>3, <3>4
  <2> QED
    BY <2>2, <2>3
<1>11. \A n \in Nat : Decimal[n] \in V
  <2>1. size \in [Nat -> Nat]
    OBVIOUS
  <2> HIDE DEF size
  <2>2. \A n \in Nat : n \in Good
    <3> HIDE DEF Good
    <3> QED
      BY <1>10, <2>1, SmallerFirst
  <2> QED
    BY <2>2
<1>12. \A n \in Nat : Decimal[n] = Body(Decimal, n)
  <2> HIDE DEF Body
  <2> QED
    BY <1>9
<1>13. Decimal \in [Nat -> V]
  <2>1. Decimal = [n \in Nat |-> Decimal[n]]
    <3> HIDE DEF Body
    <3> QED
      BY <1>9
  <2> HIDE DEF V, Body
  <2> QED
    BY <1>11, <2>1
<1> QED
  BY <1>12, <1>13

(* A text without its last character. *)
LEMMA FrontIs ==
  ASSUME NEW S, NEW t \in Seq(S), t # <<>>
  PROVE  Front(t) \in Seq(S) /\ Len(Front(t)) = Len(t) - 1 /\ Last(t) \in S
<1>1. Len(t) \in Nat \ {0} /\ \A i \in 1 .. Len(t) : t[i] \in S
  BY LenProperties, EmptySeq, ElementOfSeq
<1>2. /\ SubSeq(t, 1, Len(t) - 1) \in Seq(S)
      /\ Len(SubSeq(t, 1, Len(t) - 1)) = IF 1 <= Len(t) - 1 THEN Len(t) - 1 - 1 + 1 ELSE 0
  <2>1. PICK m : m = Len(t) - 1
    OBVIOUS
  <2>2. m \in Int /\ 1 \in Int /\ \A i \in 1 .. m : t[i] \in S
    BY <1>1, <2>1
  <2> QED
    BY <2>1, <2>2, SubSeqProperties
<1>3. Len(SubSeq(t, 1, Len(t) - 1)) = Len(t) - 1
  <2>1. PICK n \in Nat \ {0} : n = Len(t)
    BY <1>1
  <2>2. PICK k : k = Len(SubSeq(t, 1, Len(t) - 1))
    OBVIOUS
  <2>3. k = IF 1 <= n - 1 THEN n - 1 - 1 + 1 ELSE 0
    BY <1>2, <2>1, <2>2
  <2>4. k = n - 1
    BY <2>3
  <2> QED
    BY <2>1, <2>2, <2>4
<1>4. t[Len(t)] \in S
  BY <1>1
<1> QED
  BY <1>2, <1>3, <1>4 DEF Front, Last

LEMMA FrontOfAppend ==
  ASSUME NEW S, NEW t \in Seq(S), NEW x \in S
  PROVE  Append(t, x) # <<>> /\ Front(Append(t, x)) = t /\ Last(Append(t, x)) = x
<1>1. /\ Append(t, x) \in Seq(S) /\ Len(Append(t, x)) = Len(t) + 1 /\ Len(t) \in Nat
      /\ \A i \in 1 .. Len(t) : Append(t, x)[i] = t[i]
      /\ Append(t, x)[Len(t) + 1] = x
  BY AppendProperties, LenProperties
<1>2. PICK a \in Seq(S) : a = Append(t, x)
  BY <1>1
<1>3. /\ SubSeq(a, 1, Len(t)) \in Seq(S)
      /\ Len(SubSeq(a, 1, Len(t))) = IF 1 <= Len(t) THEN Len(t) - 1 + 1 ELSE 0
      /\ \A i \in 1 .. Len(t) - 1 + 1 : SubSeq(a, 1, Len(t))[i] = a[1 + i - 1]
  <2>1. \A i \in 1 .. Len(t) : a[i] \in S
    BY <1>1, <1>2, ElementOfSeq
  <2> QED
    BY <1>1, <2>1, SubSeqProperties
<1>4. SubSeq(a, 1, Len(t)) = t
  <2>1. Len(SubSeq(a, 1, Len(t))) = Len(t)
    BY <1>1, <1>3
  <2>2. \A i \in 1 .. Len(t) : SubSeq(a, 1, Len(t))[i] = t[i]
    BY <1>1, <1>2, <1>3
  <2> QED
    BY <1>3, <2>1, <2>2, SeqEqual
<1>5. Front(a) = t
  BY <1>1, <1>2, <1>4 DEF Front
<1> QED
  BY <1>1, <1>2, <1>5, EmptySeq DEF Last

(* strtol's digits. *)
LEMMA NumeralIs ==
  \A t \in Seq(DigitSet) :
     Numeral[t] = IF t = <<>> THEN 0 ELSE 10 * Numeral[Front(t)] + DigitValue(Last(t))
<1> DEFINE S == Seq(DigitSet)
           Base == {<<>>}
           size == [t \in S |-> Len(t)]
           pred == [t \in S \ Base |-> Front(t)]
           base == [t \in Base |-> 0]
           step == [x \in (S \ Base) \X Nat |-> 10 * x[2] + DigitValue(Last(x[1]))]
           Body(f, t) == IF t = <<>> THEN 0 ELSE 10 * f[Front(t)] + DigitValue(Last(t))
<1>1. \A t \in S \ Base : Front(t) \in S /\ Len(Front(t)) < Len(t) /\ DigitValue(Last(t)) \in Nat
  <2> SUFFICES ASSUME NEW t \in S \ Base
               PROVE Front(t) \in S /\ Len(Front(t)) < Len(t) /\ DigitValue(Last(t)) \in Nat
    OBVIOUS
  <2>1. Front(t) \in S /\ Len(Front(t)) = Len(t) - 1 /\ Last(t) \in DigitSet /\ Len(t) \in Nat
    BY FrontIs, LenProperties
  <2>2. PICK i \in 1 .. 10 : Last(t) = Digits[i]
    BY <2>1, DigitsAre
  <2>3. DigitValue(Last(t)) = i - 1
    BY <2>2, DigitValueIs
  <2> QED
    BY <2>1, <2>3
<1>2. Descends(S, Nat, size, Base, pred, base, step)
  <2>1. size \in [S -> Nat] /\ Base \subseteq S
    BY LenProperties
  <2>2. pred \in [S \ Base -> S] /\ \A x \in S \ Base : size[pred[x]] < size[x]
    BY <1>1
  <2>3. base \in [Base -> Nat]
    OBVIOUS
  <2>4. step \in [(S \ Base) \X Nat -> Nat]
    <3>1. ASSUME NEW x \in (S \ Base) \X Nat PROVE 10 * x[2] + DigitValue(Last(x[1])) \in Nat
      <4>1. PICK v \in Nat : v = x[2]
        OBVIOUS
      <4>2. PICK d \in Nat : d = DigitValue(Last(x[1]))
        <5> HIDE DEF S
        <5> QED
          BY <1>1
      <4>3. 10 * v + d \in Nat
        OBVIOUS
      <4> QED
        BY <4>1, <4>2, <4>3
    <3> HIDE DEF S, Base
    <3> QED
      BY <3>1
  <2> HIDE DEF S, size, Base, pred, base, step
  <2> QED
    BY <2>1, <2>2, <2>3, <2>4 DEF Descends
<1>3. PICK f \in [S -> Nat] : \A t \in S : f[t] = ValueAt(f, t, Base, pred, base, step)
  <2> HIDE DEF S, size, Base, pred, base, step
  <2> QED
    BY <1>2, Recursion
<1>4. ASSUME NEW t \in S PROVE f[t] = Body(f, t)
  <2>1. CASE t = <<>>
    BY <1>3, <2>1 DEF ValueAt
  <2>2. CASE t # <<>>
    <3>1. t \in S \ Base /\ f[Front(t)] \in Nat /\ pred[t] = Front(t)
      BY <1>1, <1>3, <2>2
    <3>2. f[t] = step[<<t, f[Front(t)]>>]
      <4> HIDE DEF S, Base, pred, base, step
      <4> QED
        BY <1>3, <3>1 DEF ValueAt
    <3>3. step[<<t, f[Front(t)]>>] = 10 * f[Front(t)] + DigitValue(Last(t))
      <4> HIDE DEF S, Base
      <4> QED
        BY <3>1
    <3> QED
      BY <2>2, <3>2, <3>3
  <2> QED
    BY <2>1, <2>2
<1>5. f = [t \in S |-> Body(f, t)]
  <2>1. f = [t \in S |-> f[t]]
    BY <1>3
  <2> HIDE DEF Body, S
  <2> QED
    BY <1>4, <2>1
<1>6. Numeral = CHOOSE g : g = [t \in S |-> Body(g, t)]
  BY DEF Numeral
<1>7. Numeral = [t \in S |-> Body(Numeral, t)]
  <2> HIDE DEF Body, S
  <2> QED
    BY <1>5, <1>6
<1>8. \A t \in S : Numeral[t] = Body(Numeral, t)
  <2> HIDE DEF Body, S
  <2> QED
    BY <1>7
<1> QED
  BY <1>8

(* Reading a number back. *)
LEMMA NumberOfDecimal ==
  ASSUME NEW n \in Nat
  PROVE  /\ Decimal[n] \in Seq(DigitSet) /\ Decimal[n] # <<>>
         /\ NumberOf(Decimal[n]) = n
<1> DEFINE Good == {k \in Nat : Decimal[k] # <<>> /\ Numeral[Decimal[k]] = k}
           size == [k \in Nat |-> k]
<1>1. \A k \in Nat : Decimal[k] \in Seq(DigitSet)
  BY DecimalIs
<1>2. ASSUME NEW k \in Nat, \A j \in Nat : size[j] < size[k] => j \in Good
      PROVE  k \in Good
  <2>1. CASE k < 10
    <3>1. PICK m \in 1 .. 10 : m = k + 1
      BY <2>1
    <3>2. Decimal[k] = <<Digits[m]>>
      BY <2>1, <3>1, DecimalIs
    <3>3. PICK d \in DigitSet : d = Digits[m] /\ DigitValue(d) = k
      <4>1. Digits[m] \in DigitSet
        BY DigitsAre
      <4>2. DigitValue(Digits[m]) = k
        BY <3>1, DigitValueIs
      <4> QED
        BY <4>1, <4>2
    <3>4. <<>> \in Seq(DigitSet) /\ Append(<<>>, d) = <<d>>
      BY EmptySeq
    <3>5. Decimal[k] # <<>> /\ Front(Decimal[k]) = <<>> /\ Last(Decimal[k]) = d
      <4>1. Decimal[k] = Append(<<>>, d)
        BY <3>2, <3>3, <3>4
      <4> QED
        BY <3>4, <4>1, FrontOfAppend
    <3>6. Numeral[Decimal[k]] = 10 * Numeral[<<>>] + k
      BY <1>1, <3>3, <3>5, NumeralIs
    <3>7. Numeral[<<>>] = 0
      BY <3>4, NumeralIs
    <3> QED
      BY <3>5, <3>6, <3>7
  <2>2. CASE ~ (k < 10)
    <3>1. PICK q \in Nat, m \in 1 .. 10 : q = k \div 10 /\ m = (k % 10) + 1 /\ q < k /\ k = 10 * q + (m - 1)
      <4>1. PICK q : q = k \div 10
        OBVIOUS
      <4>2. PICK m : m = (k % 10) + 1
        OBVIOUS
      <4>3. q \in Nat /\ m \in 1 .. 10 /\ q < k /\ k = 10 * q + (m - 1)
        BY <2>2, <4>1, <4>2
      <4> QED
        BY <4>1, <4>2, <4>3
    <3>2. PICK s \in Seq(DigitSet) : s = Decimal[q] /\ Numeral[s] = q
      <4>1. q \in Good
        BY <1>2, <3>1
      <4> QED
        BY <1>1, <4>1
    <3>3. PICK d \in DigitSet : d = Digits[m] /\ DigitValue(d) = m - 1
      <4>1. Digits[m] \in DigitSet
        BY DigitsAre
      <4> QED
        BY <4>1, DigitValueIs
    <3>4. Decimal[k] = Append(s, d)
      BY <2>2, <3>1, <3>2, <3>3, DecimalIs
    <3>5. Decimal[k] # <<>> /\ Front(Decimal[k]) = s /\ Last(Decimal[k]) = d
      BY <3>4, FrontOfAppend
    <3>6. Numeral[Decimal[k]] = 10 * q + (m - 1)
      <4>1. Numeral[Decimal[k]] = 10 * Numeral[Front(Decimal[k])] + DigitValue(Last(Decimal[k]))
        BY <1>1, <3>5, NumeralIs
      <4> QED
        BY <3>2, <3>3, <3>5, <4>1
    <3> QED
      BY <3>1, <3>5, <3>6
  <2> QED
    BY <2>1, <2>2
<1>3. n \in Good
  <2>1. size \in [Nat -> Nat]
    OBVIOUS
  <2> HIDE DEF size, Good
  <2> QED
    BY <1>2, <2>1, SmallerFirst
<1>4. Unsigned(Decimal[n]) = Decimal[n]
  <2>1. Decimal[n][1] \in DigitSet
    <3>1. Len(Decimal[n]) \in Nat \ {0}
      BY <1>1, <1>3, EmptySeq, LenProperties
    <3>2. 1 \in 1 .. Len(Decimal[n])
      BY <3>1
    <3> QED
      BY <1>1, <3>2, ElementOfSeq
  <2>2. Head(Decimal[n]) # "+"
    BY <1>1, <1>3, <2>1, DigitsAre, HeadTailProperties
  <2> QED
    BY <2>2 DEF Unsigned
<1> QED
  BY <1>1, <1>3, <1>4 DEF NumberOf

Requests == [url : Urls, version : Tokens, headers : Seq(Tokens)]

(* What the parser makes of a text it takes. *)
LEMMA ParsedIs ==
  ASSUME NEW s \in Texts, Parse[s] # Refused
  PROVE  /\ Parse[s] \in Requests
         /\ Parse[s] = [url |-> ParseLine[RequestLine(s)].url,
                        version |-> ParseLine[RequestLine(s)].version,
                        headers |-> AfterBreak(s, LineEnd(s))]
<1> DEFINE e == LineEnd(s)
           parsed == ParseLine[RequestLine(s)]
           good == e > 1 /\ parsed # Refused /\ HasTerminator(AfterBreak(s, e))
           result == [url |-> parsed.url, version |-> parsed.version, headers |-> AfterBreak(s, e)]
<1>1. Parse[s] = IF good THEN result ELSE Refused
  BY DEF Parse, Texts, RequestLine
<1>2. good /\ Parse[s] = result
  BY <1>1
<1>3. e \in 0 .. Len(s) /\ Len(s) \in Nat
  BY LineEndIsFirst, LenProperties DEF Texts
<1>4. e \in Nat /\ e + 1 \in Nat /\ e \in 1 .. Len(s) + 1
  <2> HIDE DEF e
  <2> QED
    BY <1>2, <1>3
<1>5. RequestLine(s) \in Texts
  BY <1>4, BeforeIs DEF RequestLine
<1>6. parsed.url \in Urls /\ parsed.version \in Tokens
  BY <1>2, <1>5, ParseLineType
<1>7. AfterBreak(s, e) \in Seq(Tokens)
  <2> HIDE DEF e
  <2> QED
    BY <1>4, AfterIsText DEF AfterBreak, Texts
<1>8. result \in Requests
  <2> HIDE DEF parsed, e
  <2> QED
    BY <1>6, <1>7 DEF Requests
<1> QED
  BY <1>2, <1>8

-----------------------------------------------------------------------------
(* The request for the origin. *)

(* What a request is made of, and the words the proxy adds to it. *)
Chars == Tokens \cup DigitSet \cup {"GET", "sp", "host", ":", "connection", "http", "|"}

LEMMA TextsAreChars == \A s \in Texts : s \in Seq(Chars)
  BY SeqMonotonic DEF Texts, Chars

LEMMA CrlfIs == CRLF \in Seq(Chars) /\ Len(CRLF) = 2 /\ CRLF[1] = "CR" /\ CRLF[2] = "LF"
  BY Terminators, TextsAreChars

LEMMA OwnIsText ==
  ASSUME NEW r \in Requests
  PROVE  /\ StartLine(r) \in Seq(Chars) /\ OwnLines(r.url) \in Seq(Chars)
         /\ StartLine(r) \o OwnLines(r.url) \in Seq(Chars)
<1>1. r.url.host \in Seq(Chars) /\ r.url.path \in Seq(Chars) /\ r.version \in Chars /\ r.url.port \in Nat
  <2>1. r.url \in Urls /\ r.version \in Tokens
    BY DEF Requests
  <2>2. r.url.host \in Texts /\ r.url.path \in Texts /\ r.url.port \in Nat
    BY <2>1 DEF Urls, Texts
  <2> QED
    BY <2>1, <2>2, TextsAreChars DEF Chars
<1>2. Decimal[r.url.port] \in Seq(Chars)
  <2>1. DigitSet \subseteq Chars
    BY DEF Chars
  <2> QED
    BY <1>1, <2>1, DecimalIs, SeqMonotonic
<1>3. /\ <<"GET", "sp">> \in Seq(Chars) /\ <<"sp", r.version>> \in Seq(Chars)
      /\ <<"host">> \in Seq(Chars) /\ <<":">> \in Seq(Chars) /\ <<"connection">> \in Seq(Chars)
  <2>2. {"GET", "sp", "host", ":", "connection"} \subseteq Chars
    BY DEF Chars
  <2> HIDE DEF Chars
  <2> QED
    BY <1>1, <2>2
<1> HIDE DEF Chars
<1>4. StartLine(r) \in Seq(Chars)
  BY <1>1, <1>3, CrlfIs, ConcatProperties DEF StartLine
<1>5. OwnLines(r.url) \in Seq(Chars)
  <2>1. <<"host">> \o r.url.host \in Seq(Chars)
    BY <1>1, <1>3, ConcatProperties
  <2>2. <<"host">> \o r.url.host \o <<":">> \in Seq(Chars)
    BY <1>3, <2>1, ConcatProperties
  <2>3. <<"host">> \o r.url.host \o <<":">> \o Decimal[r.url.port] \in Seq(Chars)
    BY <1>2, <2>2, ConcatProperties
  <2> QED
    BY <1>3, <2>3, CrlfIs, ConcatProperties DEF OwnLines
<1> QED
  BY <1>4, <1>5, ConcatProperties

(* The line at the start of a text. *)
LEMMA LineLengthIs ==
  ASSUME NEW s \in Texts
  PROVE  /\ LineLength(s) \in 0 .. Len(s)
         /\ \A i \in 1 .. LineLength(s) : ~ OccursAt(CRLF, s, i)
         /\ LineLength(s) < Len(s) => OccursAt(CRLF, s, LineLength(s) + 1)
<1> DEFINE ends == {i \in 1 .. Len(s) : OccursAt(CRLF, s, i)}
           first == CHOOSE i \in ends : \A j \in ends : i <= j
<1>1. Len(s) \in Nat
  BY LenProperties DEF Texts
<1>2. LineLength(s) = IF ends = {} THEN Len(s) ELSE first - 1
  BY DEF LineLength
<1>3. CASE ends = {}
  <2>1. \A i \in 1 .. Len(s) : ~ OccursAt(CRLF, s, i)
    BY <1>3
  <2> QED
    BY <1>1, <1>2, <1>3, <2>1
<1>4. CASE ends # {}
  <2>1. \E i \in ends : \A j \in ends : i <= j
    <3>1. ends \in SUBSET Nat
      OBVIOUS
    <3> HIDE DEF ends
    <3> QED
      BY <1>4, <3>1, MinIsLeast
  <2>2. PICK n : n = first
    OBVIOUS
  <2>3. n \in ends /\ \A j \in ends : n <= j
    <3> HIDE DEF ends
    <3> QED
      BY <2>1, <2>2
  <2>4. LineLength(s) = n - 1 /\ n \in 1 .. Len(s)
    BY <1>2, <1>4, <2>2, <2>3
  <2>5. \A i \in 1 .. n - 1 : ~ OccursAt(CRLF, s, i)
    BY <1>1, <2>3, <2>4
  <2>6. OccursAt(CRLF, s, n - 1 + 1)
    <3>1. n - 1 + 1 = n
      BY <2>4
    <3> QED
      BY <2>3, <3>1
  <2> QED
    BY <1>1, <2>4, <2>5, <2>6
<1> QED
  BY <1>3, <1>4

LEMMA PartIs ==
  ASSUME NEW S, NEW s \in Seq(S), NEW n \in 0 .. Len(s)
  PROVE  /\ SubSeq(s, 1, n) \in Seq(S) /\ Len(SubSeq(s, 1, n)) = n
         /\ \A i \in 1 .. n : SubSeq(s, 1, n)[i] = s[i]
<1>1. Len(s) \in Nat /\ \A i \in 1 .. n : s[i] \in S
  BY LenProperties, ElementOfSeq
<1>2. /\ SubSeq(s, 1, n) \in Seq(S)
      /\ Len(SubSeq(s, 1, n)) = IF 1 <= n THEN n - 1 + 1 ELSE 0
      /\ \A i \in 1 .. n - 1 + 1 : SubSeq(s, 1, n)[i] = s[1 + i - 1]
  BY <1>1, SubSeqProperties
<1> QED
  BY <1>1, <1>2

LEMMA KeptIs ==
  ASSUME NEW line \in Texts
  PROVE  Kept(line) \in Seq(Chars)
<1>1. line \in Seq(Chars) /\ <<>> \in Seq(Chars)
  BY TextsAreChars, EmptySeq
<1>2. line \o CRLF \in Seq(Chars)
  BY <1>1, CrlfIs, ConcatProperties
<1> QED
  BY <1>1, <1>2 DEF Kept

(* The request is there from the parser on, and nothing is written before  *)
(* it is complete.                                                         *)
TypeInv ==
    /\ stage \in {"reading", "parsing", "resolving", "connecting", "building",
                  "filtering", "writing", "relaying", "refused"}
    /\ got \in 0 .. Limit
    /\ answer \in {0, 400, 408, 413, 502}
    /\ stage \in {"resolving", "connecting"} \cup Connected => request \in Requests
    /\ addresses \in Addresses \cup {<<>>}
    /\ cursor \in 1 .. Len(addresses) + 1
    /\ rest \in Texts
    /\ outbound \in Seq(Chars)
    /\ written \in 0 .. Len(outbound)
    /\ stage \notin {"writing", "relaying", "refused"} => written = 0

LEMMA AddressesLen == \A l \in Addresses \cup {<<>>} : Len(l) \in Nat
  BY PathAssumption, LenProperties, EmptySeq

LEMMA TypeInit == Init => TypeInv
<1> SUFFICES ASSUME Init PROVE TypeInv
  OBVIOUS
<1>1. Limit \in Nat /\ <<>> \in Texts /\ <<>> \in Seq(Chars) /\ Len(<<>>) = 0
  BY PathAssumption DEF Texts
<1> QED
  BY <1>1 DEF Init, TypeInv, Connected

LEMMA TypeNext == TypeInv /\ ConnectInv /\ VerdictInv /\ [Next]_vars => TypeInv'
<1> SUFFICES ASSUME TypeInv, ConnectInv, VerdictInv, [Next]_vars PROVE TypeInv'
  OBVIOUS
<1> USE DEF reading, connecting, rewriting
<1>1. Limit \in Nat /\ Len(addresses) \in Nat /\ Len(outbound) \in Nat
  BY PathAssumption, AddressesLen, LenProperties DEF TypeInv
<1>2. ASSUME NEW n \in 1 .. Limit, Receive(n) PROVE TypeInv'
  <2>1. got' \in 0 .. Limit
    BY <1>1, <1>2 DEF Receive, TypeInv
  <2> QED
    BY <1>2, <2>1 DEF Receive, Refuse, TypeInv, Connected
<1>3. CASE ReceiveEnd \/ ReceiveFails
  BY <1>3 DEF ReceiveEnd, ReceiveFails, Refuse, TypeInv, Connected
<1>4. CASE ParseText
  <2>1. Text(got) \in Texts
    BY TextIs DEF VerdictInv
  <2>2. Parse[Text(got)] # Refused => Parse[Text(got)] \in Requests
    BY <2>1, ParsedIs
  <2> QED
    BY <1>4, <2>2 DEF ParseText, Refuse, TypeInv, Connected
<1>5. CASE Resolve
  <2>1. cursor = 1
    BY <1>5 DEF Resolve, ConnectInv
  <2>2. Len(addresses') \in Nat
    BY <1>1, <1>5, AddressesLen DEF Resolve
  <2>3. cursor' \in 1 .. Len(addresses') + 1
    BY <1>5, <2>1, <2>2 DEF Resolve
  <2> QED
    BY <1>5, <2>3 DEF Resolve, Fail, TypeInv, Connected
<1>6. CASE TryAddress
  <2>1. cursor' \in 1 .. Len(addresses) + 1
    BY <1>1, <1>6 DEF TryAddress, TypeInv
  <2> QED
    BY <1>6, <2>1 DEF TryAddress, TypeInv, Connected
<1>7. CASE NoAddressLeft \/ TimeoutFails \/ SendFails
  BY <1>7 DEF NoAddressLeft, TimeoutFails, SendFails, Fail, TypeInv, Connected
<1>8. CASE StartRewrite
  <2>1. request \in Requests /\ written = 0
    BY <1>8 DEF StartRewrite, TypeInv, Connected
  <2>2. StartLine(request) \o OwnLines(request.url) \in Seq(Chars) /\ request.headers \in Texts
    BY <2>1, OwnIsText DEF Requests, Texts
  <2>3. outbound' \in Seq(Chars) /\ rest' \in Texts /\ written' = 0
    BY <1>8, <2>1, <2>2 DEF StartRewrite
  <2>4. written' \in 0 .. Len(outbound')
    BY <2>3, LenProperties
  <2> QED
    BY <1>8, <2>3, <2>4 DEF StartRewrite, TypeInv, Connected
<1>9. CASE FilterLine
  <2>1. LineLength(rest) \in 0 .. Len(rest) /\ Len(rest) \in Nat
    BY LineLengthIs, LenProperties DEF TypeInv, Texts
  <2>2. SubSeq(rest, 1, LineLength(rest)) \in Texts
    BY <2>1, PartIs DEF TypeInv, Texts
  <2>3. outbound' \in Seq(Chars)
    BY <1>9, <2>2, KeptIs, ConcatProperties DEF FilterLine, TypeInv
  <2>4. LineLength(rest) + 2 \in Nat
    BY <2>1
  <2>5. rest' \in Texts
    BY <1>9, <2>4, AfterIsText DEF FilterLine, TypeInv
  <2>6. written' = 0 /\ stage = "filtering"
    BY <1>9 DEF FilterLine, TypeInv
  <2>7. written' \in 0 .. Len(outbound')
    BY <2>3, <2>6, LenProperties
  <2> QED
    BY <1>9, <2>3, <2>5, <2>6, <2>7 DEF FilterLine, TypeInv, Connected
<1>10. CASE EndRewrite
  <2>1. outbound' \in Seq(Chars)
    BY <1>10, CrlfIs, ConcatProperties DEF EndRewrite, TypeInv
  <2>2. written' = 0 /\ stage = "filtering"
    BY <1>10 DEF EndRewrite, TypeInv
  <2>3. written' \in 0 .. Len(outbound')
    BY <2>1, <2>2, LenProperties
  <2> QED
    BY <1>10, <2>1, <2>2, <2>3 DEF EndRewrite, TypeInv, Connected
<1>11. ASSUME NEW n \in 1 .. Len(outbound), Send(n) PROVE TypeInv'
  <2>1. written' \in 0 .. Len(outbound')
    BY <1>1, <1>11 DEF Send, TypeInv
  <2> QED
    BY <1>11, <2>1 DEF Send, TypeInv, Connected
<1>12. CASE UNCHANGED vars
  BY <1>12 DEF vars, TypeInv, Connected
<1> QED
  BY <1>2, <1>3, <1>4, <1>5, <1>6, <1>7, <1>8, <1>9, <1>10, <1>11, <1>12
     DEF Next, Step, ReadStep, ConnectStep, RewriteStep, SendStep, Finished

(* However a client cuts its request, whatever the origin's name resolves  *)
(* to and however the request is taken by its socket: the counters of the  *)
(* three loops stay within the buffer, the list and the request.           *)
THEOREM TypeAlwaysOK == Spec => []TypeOK
<1>1. TypeInv /\ ConnectInv /\ VerdictInv => TypeOK
  <2> SUFFICES ASSUME TypeInv, ConnectInv, VerdictInv PROVE TypeOK
    OBVIOUS
  <2>1. stream \in Seq(Tokens) /\ got <= Len(stream)
    BY LenProperties DEF VerdictInv, Texts
  <2>2. open \subseteq {cursor}
    BY DEF ConnectInv
  <2> QED
    BY <2>1, <2>2 DEF TypeInv, TypeOK
<1> QED
  BY <1>1, ConnectInit, ConnectNext, VerdictInit, VerdictNext, TypeInit, TypeNext, PTL DEF Spec

-----------------------------------------------------------------------------
(* Parts of texts. *)

(* FirstOf finds nothing else. *)
LEMMA FirstOfIs ==
  ASSUME NEW S, NEW s \in Seq(S), NEW x, NEW i \in 1 .. Len(s),
         s[i] = x, \A j \in 1 .. i - 1 : s[j] # x
  PROVE  FirstOf(s, x) = i
<1>1. PICK f : f = FirstOf(s, x)
  OBVIOUS
<1>2. /\ f \in 0 .. Len(s) /\ Len(s) \in Nat
      /\ f = 0 => \A j \in 1 .. Len(s) : s[j] # x
      /\ f # 0 => s[f] = x /\ \A j \in 1 .. f - 1 : s[j] # x
  BY <1>1, FirstOfInSeq, LenProperties
<1> QED
  BY <1>1, <1>2

LEMMA FirstOfNone ==
  ASSUME NEW S, NEW s \in Seq(S), NEW x, \A j \in 1 .. Len(s) : s[j] # x
  PROVE  FirstOf(s, x) = 0
<1>1. PICK f : f = FirstOf(s, x)
  OBVIOUS
<1>2. f \in 0 .. Len(s) /\ Len(s) \in Nat /\ (f # 0 => s[f] = x)
  BY <1>1, FirstOfInSeq, LenProperties
<1> QED
  BY <1>1, <1>2

(* What a middle part of a text is. *)
LEMMA SliceIs ==
  ASSUME NEW S, NEW s \in Seq(S), NEW m \in Nat \ {0}, NEW n \in Nat, m <= n + 1, n <= Len(s)
  PROVE  /\ SubSeq(s, m, n) \in Seq(S) /\ Len(SubSeq(s, m, n)) = n - m + 1
         /\ \A i \in 1 .. n - m + 1 : SubSeq(s, m, n)[i] = s[m + i - 1]
<1>1. Len(s) \in Nat /\ m \in Int /\ n \in Int /\ \A i \in m .. n : s[i] \in S
  BY LenProperties, ElementOfSeq
<1>2. /\ SubSeq(s, m, n) \in Seq(S)
      /\ Len(SubSeq(s, m, n)) = IF m <= n THEN n - m + 1 ELSE 0
      /\ \A i \in 1 .. n - m + 1 : SubSeq(s, m, n)[i] = s[m + i - 1]
  BY <1>1, SubSeqProperties
<1> QED
  BY <1>1, <1>2

LEMMA SliceEquals ==
  ASSUME NEW S, NEW s \in Seq(S), NEW t \in Seq(S), NEW m \in Nat \ {0}, NEW n \in Nat,
         n = m - 1 + Len(t), n <= Len(s),
         \A i \in 1 .. Len(t) : s[m - 1 + i] = t[i]
  PROVE  SubSeq(s, m, n) = t
<1>1. Len(t) \in Nat /\ m <= n + 1 /\ n - m + 1 = Len(t)
  BY LenProperties
<1>2. PICK p : p = SubSeq(s, m, n)
  OBVIOUS
<1>3. /\ p \in Seq(S) /\ Len(p) = n - m + 1
      /\ \A i \in 1 .. n - m + 1 : p[i] = s[m + i - 1]
  BY <1>1, <1>2, SliceIs
<1>4. ASSUME NEW i \in 1 .. Len(t) PROVE p[i] = t[i]
  <2>1. PICK k : k = m + i - 1
    OBVIOUS
  <2>2. k = m - 1 + i
    BY <1>1, <2>1
  <2> QED
    BY <1>1, <1>3, <2>1, <2>2
<1> QED
  BY <1>1, <1>2, <1>3, <1>4, SeqEqual

(* Where the parts of a text are that is put together. *)
Joined(k, s, t) ==
    /\ Len(k) = Len(s) + Len(t)
    /\ \A i \in 1 .. Len(s) : k[i] = s[i]
    /\ \A i \in 1 .. Len(t) : k[Len(s) + i] = t[i]

LEMMA JoinedIs ==
  ASSUME NEW S, NEW s \in Seq(S), NEW t \in Seq(S)
  PROVE  s \o t \in Seq(S) /\ Joined(s \o t, s, t)
<1>1. Len(s) \in Nat /\ Len(t) \in Nat
  BY LenProperties
<1>2. /\ s \o t \in Seq(S) /\ Len(s \o t) = Len(s) + Len(t)
      /\ \A i \in 1 .. Len(s) + Len(t) : (s \o t)[i] =
            IF i <= Len(s) THEN s[i] ELSE t[i - Len(s)]
  BY ConcatProperties
<1>3. ASSUME NEW i \in 1 .. Len(s) PROVE (s \o t)[i] = s[i]
  BY <1>1, <1>2
<1>4. ASSUME NEW i \in 1 .. Len(t) PROVE (s \o t)[Len(s) + i] = t[i]
  <2>1. PICK j : j = Len(s) + i
    OBVIOUS
  <2>2. j \in 1 .. Len(s) + Len(t) /\ ~ (j <= Len(s)) /\ j - Len(s) = i
    BY <1>1, <2>1
  <2> QED
    BY <1>2, <2>1, <2>2
<1> QED
  BY <1>2, <1>3, <1>4 DEF Joined

-----------------------------------------------------------------------------
(* What arrives at the origin. *)

(* Two parts of a text, one behind the other, are one part. *)
LEMMA PartsJoin ==
  ASSUME NEW S, NEW s \in Seq(S), NEW w \in Nat, NEW n \in Nat, w + n <= Len(s)
  PROVE  SubSeq(s, 1, w) \o SubSeq(s, w + 1, w + n) = SubSeq(s, 1, w + n)
<1>1. Len(s) \in Nat /\ w + 1 \in Nat \ {0} /\ w + n \in Nat
  BY LenProperties
<1>2. PICK a : a = SubSeq(s, 1, w)
  OBVIOUS
<1>3. PICK b : b = SubSeq(s, w + 1, w + n)
  OBVIOUS
<1>4. PICK c : c = SubSeq(s, 1, w + n)
  OBVIOUS
<1>5. a \in Seq(S) /\ Len(a) = w /\ \A i \in 1 .. w : a[i] = s[i]
  <2>1. /\ a \in Seq(S) /\ Len(a) = w - 1 + 1
        /\ \A i \in 1 .. w - 1 + 1 : a[i] = s[1 + i - 1]
    BY <1>1, <1>2, SliceIs
  <2> QED
    BY <2>1
<1>6. b \in Seq(S) /\ Len(b) = n /\ \A i \in 1 .. n : b[i] = s[w + i]
  <2>1. /\ b \in Seq(S) /\ Len(b) = w + n - (w + 1) + 1
        /\ \A i \in 1 .. w + n - (w + 1) + 1 : b[i] = s[w + 1 + i - 1]
    BY <1>1, <1>3, SliceIs
  <2>2. w + n - (w + 1) + 1 = n
    OBVIOUS
  <2>3. \A i \in 1 .. n : w + 1 + i - 1 = w + i
    OBVIOUS
  <2> QED
    BY <2>1, <2>2, <2>3
<1>7. c \in Seq(S) /\ Len(c) = w + n /\ \A i \in 1 .. w + n : c[i] = s[i]
  <2>1. /\ c \in Seq(S) /\ Len(c) = w + n - 1 + 1
        /\ \A i \in 1 .. w + n - 1 + 1 : c[i] = s[1 + i - 1]
    BY <1>1, <1>4, SliceIs
  <2> QED
    BY <2>1
<1>8. PICK d : d = a \o b
  OBVIOUS
<1>9. d \in Seq(S) /\ Joined(d, a, b)
  BY <1>5, <1>6, <1>8, JoinedIs
<1>10. Len(d) = w + n
  BY <1>5, <1>6, <1>9 DEF Joined
<1>11. ASSUME NEW i \in 1 .. w + n PROVE d[i] = c[i]
  <2>1. CASE i <= w
    <3>1. i \in 1 .. w
      BY <2>1
    <3>2. d[i] = a[i] /\ a[i] = s[i]
      BY <1>5, <1>9, <3>1 DEF Joined
    <3> QED
      BY <1>7, <3>2
  <2>2. CASE ~ (i <= w)
    <3>1. PICK j : j = i - w
      OBVIOUS
    <3>2. j \in 1 .. n /\ w + j = i
      BY <2>2, <3>1
    <3>3. d[w + j] = b[j] /\ b[j] = s[w + j]
      BY <1>5, <1>6, <1>9, <3>2 DEF Joined
    <3> QED
      BY <1>7, <3>2, <3>3
  <2> QED
    BY <2>1, <2>2
<1>12. d = c
  BY <1>7, <1>9, <1>10, <1>11, SeqEqual
<1> QED
  BY <1>2, <1>3, <1>4, <1>8, <1>12

(* The origin has the request up to where the next send starts. *)
WriteInv == received = SubSeq(outbound, 1, written)

LEMMA NothingSent == \A s : SubSeq(s, 1, 0) = <<>>
  BY SubSeqEmpty

LEMMA WriteInit == Init => WriteInv
  BY NothingSent DEF Init, WriteInv

LEMMA WriteNext == WriteInv /\ TypeInv /\ [Next]_vars => WriteInv'
<1> SUFFICES ASSUME WriteInv, TypeInv, [Next]_vars PROVE WriteInv'
  OBVIOUS
<1>1. CASE UNCHANGED rewriting
  BY <1>1 DEF rewriting, WriteInv
<1>2. CASE RewriteStep
  <2>1. written = 0 /\ UNCHANGED <<written, received>>
    BY <1>2 DEF RewriteStep, StartRewrite, FilterLine, EndRewrite, TypeInv
  <2>2. received = <<>>
    BY <2>1, NothingSent DEF WriteInv
  <2> QED
    BY <2>1, <2>2, NothingSent DEF WriteInv
<1>3. ASSUME NEW n \in 1 .. Len(outbound), Send(n) PROVE WriteInv'
  <2>1. /\ outbound \in Seq(Chars) /\ written \in Nat /\ n \in Nat
        /\ written + n <= Len(outbound)
    BY <1>3, LenProperties DEF Send, TypeInv
  <2>2. /\ received' = received \o Sent(written + 1, n)
        /\ written' = written + n /\ outbound' = outbound
    BY <1>3 DEF Send
  <2>3. written + 1 + n - 1 = written + n
    BY <2>1
  <2>4. Sent(written + 1, n) = SubSeq(outbound, written + 1, written + n)
    BY <2>3 DEF Sent
  <2>5. received' = SubSeq(outbound, 1, written + n)
    BY <2>1, <2>2, <2>4, PartsJoin DEF WriteInv
  <2> QED
    BY <2>2, <2>5 DEF WriteInv
<1>4. \/ UNCHANGED rewriting \/ RewriteStep
      \/ \E n \in 1 .. Len(outbound) : Send(n)
  <2>1. CASE ReadStep \/ ParseText
    BY <2>1 DEF ReadStep, ParseText, Receive, ReceiveEnd, ReceiveFails
  <2>2. CASE ConnectStep
    BY <2>2 DEF ConnectStep, Resolve, TryAddress, NoAddressLeft, TimeoutFails
  <2>3. CASE SendStep
    BY <2>3 DEF SendStep, SendFails
  <2> QED
    BY <2>1, <2>2, <2>3 DEF Next, Step, Finished, vars
<1> QED
  BY <1>1, <1>2, <1>3, <1>4

(* What has been received when the response is waited for. *)
LEMMA AllReceived ==
  ASSUME WriteInv, TypeInv, ConnectInv, stage = "relaying"
  PROVE  received = outbound /\ received # <<>>
<1>1. outbound \in Seq(Chars) /\ written = Len(outbound) /\ Len(outbound) > 0
  BY DEF TypeInv, ConnectInv
<1>2. received = outbound
  BY <1>1, SubSeqFull DEF WriteInv
<1> QED
  BY <1>1, <1>2

(* However many addresses there are and whichever of them refuse: the      *)
(* first that accepts is used, every other socket is closed, and however   *)
(* the request is cut into sends, the origin gets all of it, once and in   *)
(* order, before anything is read from it.                                 *)
THEOREM OriginAlwaysReached == Spec => []OriginReached
<1>1. WriteInv /\ TypeInv /\ ConnectInv => OriginReached
  <2> SUFFICES ASSUME WriteInv, TypeInv, ConnectInv PROVE OriginReached
    OBVIOUS
  <2>1. stage = "relaying" => received = outbound /\ received # <<>>
    BY AllReceived
  <2> QED
    BY <2>1 DEF ConnectInv, WriteInv, Connected, OriginReached
<1> QED
  BY <1>1, ConnectInit, ConnectNext, VerdictInit, VerdictNext, TypeInit, TypeNext,
     WriteInit, WriteNext, PTL DEF Spec

-----------------------------------------------------------------------------
(* The cache key. *)

(* Where the parts of a key are. *)
KeyParts(key, host, port, path) ==
    /\ key \in Seq(Chars) /\ Len(key) = Len(host) + Len(port) + Len(path) + 4
    /\ key[1] = "GET" /\ key[2] = "|"
    /\ \A i \in 1 .. Len(host) : key[2 + i] = host[i]
    /\ key[Len(host) + 3] = "|"
    /\ \A i \in 1 .. Len(port) : key[Len(host) + 3 + i] = port[i]
    /\ key[Len(host) + Len(port) + 4] = "|"
    /\ \A i \in 1 .. Len(path) : key[Len(host) + Len(port) + 4 + i] = path[i]

LEMMA KeyIs ==
  ASSUME NEW host \in Seq(Chars), NEW port \in Seq(Chars), NEW path \in Seq(Chars)
  PROVE  KeyParts(<<"GET", "|">> \o host \o <<"|">> \o port \o <<"|">> \o path, host, port, path)
<1>1. /\ <<"GET", "|">> \in Seq(Chars) /\ Len(<<"GET", "|">>) = 2
      /\ <<"GET", "|">>[1] = "GET" /\ <<"GET", "|">>[2] = "|"
      /\ <<"|">> \in Seq(Chars) /\ Len(<<"|">>) = 1 /\ <<"|">>[1] = "|"
  <2>1. {"GET", "|"} \subseteq Chars
    BY DEF Chars
  <2> HIDE DEF Chars
  <2> QED
    BY <2>1
<1>2. Len(host) \in Nat /\ Len(port) \in Nat /\ Len(path) \in Nat
  BY LenProperties
<1>3. PICK s \in Seq(Chars) : s = <<"GET", "|">> /\ Len(s) = 2 /\ s[1] = "GET" /\ s[2] = "|"
  BY <1>1
<1>4. PICK b \in Seq(Chars) : b = <<"|">> /\ Len(b) = 1 /\ b[1] = "|"
  BY <1>1
<1>5. PICK k1 \in Seq(Chars) : k1 = s \o host /\ Joined(k1, s, host)
  BY JoinedIs
<1>6. PICK k2 \in Seq(Chars) : k2 = k1 \o b /\ Joined(k2, k1, b)
  BY JoinedIs
<1>7. PICK k3 \in Seq(Chars) : k3 = k2 \o port /\ Joined(k3, k2, port)
  BY JoinedIs
<1>8. PICK k4 \in Seq(Chars) : k4 = k3 \o b /\ Joined(k4, k3, b)
  BY JoinedIs
<1>9. PICK k5 \in Seq(Chars) : k5 = k4 \o path /\ Joined(k5, k4, path)
  BY JoinedIs
<1>10. PICK h \in Nat, p \in Nat, r \in Nat : h = Len(host) /\ p = Len(port) /\ r = Len(path)
  BY <1>2
<1>11. /\ Len(k1) = h + 2 /\ Len(k2) = h + 3 /\ Len(k3) = h + p + 3 /\ Len(k4) = h + p + 4
       /\ Len(k5) = h + p + r + 4
  BY <1>3, <1>4, <1>5, <1>6, <1>7, <1>8, <1>9, <1>10 DEF Joined
<1>12. /\ \A i \in 1 .. h + 2 : k5[i] = k1[i]
       /\ \A i \in 1 .. h + 3 : k5[i] = k2[i]
       /\ \A i \in 1 .. h + p + 3 : k5[i] = k3[i]
       /\ \A i \in 1 .. h + p + 4 : k5[i] = k4[i]
  <2>1. \A i \in 1 .. h + p + 4 : k5[i] = k4[i]
    BY <1>9, <1>11 DEF Joined
  <2>2. \A i \in 1 .. h + p + 3 : k5[i] = k3[i]
    BY <1>8, <1>10, <1>11, <2>1 DEF Joined
  <2>3. \A i \in 1 .. h + 3 : k5[i] = k2[i]
    BY <1>7, <1>10, <1>11, <2>2 DEF Joined
  <2>4. \A i \in 1 .. h + 2 : k5[i] = k1[i]
    BY <1>6, <1>10, <1>11, <2>3 DEF Joined
  <2> QED
    BY <2>1, <2>2, <2>3, <2>4
<1>13. k5[1] = "GET" /\ k5[2] = "|"
  BY <1>3, <1>5, <1>10, <1>12 DEF Joined
<1>14. ASSUME NEW i \in 1 .. h PROVE k5[2 + i] = host[i]
  <2>1. PICK j \in 1 .. h + 2 : j = 2 + i
    BY <1>10
  <2>2. k1[j] = host[i]
    BY <1>3, <1>5, <1>10, <2>1 DEF Joined
  <2> QED
    BY <1>12, <2>1, <2>2
<1>15. k5[h + 3] = "|"
  <2>1. k2[Len(k1) + 1] = b[1] /\ Len(k1) + 1 = h + 3
    BY <1>4, <1>6, <1>10, <1>11 DEF Joined
  <2>2. PICK j : j = h + 3 /\ j \in 1 .. h + 3
    <3>1. h + 3 \in 1 .. h + 3
      BY <1>10
    <3> QED
      BY <3>1
  <2>3. k2[j] = "|"
    BY <1>4, <2>1, <2>2
  <2> QED
    BY <1>12, <2>2, <2>3
<1>16. ASSUME NEW i \in 1 .. p PROVE k5[h + 3 + i] = port[i]
  <2>1. PICK j : j = h + 3 + i /\ j \in 1 .. h + p + 3
    <3>1. h + 3 + i \in 1 .. h + p + 3
      BY <1>10
    <3> QED
      BY <3>1
  <2>2. k3[j] = port[i]
    BY <1>7, <1>10, <1>11, <2>1 DEF Joined
  <2> QED
    BY <1>12, <2>1, <2>2
<1>17. k5[h + p + 4] = "|"
  <2>1. k4[Len(k3) + 1] = b[1] /\ Len(k3) + 1 = h + p + 4
    BY <1>4, <1>8, <1>10, <1>11 DEF Joined
  <2>2. PICK j : j = h + p + 4 /\ j \in 1 .. h + p + 4
    <3>1. h + p + 4 \in 1 .. h + p + 4
      BY <1>10
    <3> QED
      BY <3>1
  <2>3. k4[j] = "|"
    BY <1>4, <2>1, <2>2
  <2> QED
    BY <1>12, <2>2, <2>3
<1>18. \A i \in 1 .. r : k5[h + p + 4 + i] = path[i]
  BY <1>9, <1>10, <1>11 DEF Joined
<1>19. k5 = <<"GET", "|">> \o host \o <<"|">> \o port \o <<"|">> \o path
  BY <1>3, <1>4, <1>5, <1>6, <1>7, <1>8, <1>9
<1> QED
  BY <1>10, <1>11, <1>12, <1>13, <1>14, <1>15, <1>16, <1>17, <1>18, <1>19 DEF KeyParts

LEMMA LargestIs ==
  ASSUME NEW I \in SUBSET Nat, NEW n \in I, \A j \in I : j <= n
  PROVE  (CHOOSE i \in I : \A j \in I : j <= i) = n
<1>1. PICK m : m = CHOOSE i \in I : \A j \in I : j <= i
  OBVIOUS
<1>2. m \in I /\ \A j \in I : j <= m
  BY <1>1
<1> QED
  BY <1>1, <1>2

(* A key is read back: its path starts at the first slash, and the port    *)
(* has neither a slash nor a bar in it, whatever the host has.             *)
LEMMA KeyIsRead ==
  ASSUME NEW url \in Urls, \A i \in 1 .. Len(url.host) : url.host[i] # "/",
         url.path # <<>>, url.path[1] = "/"
  PROVE  KeyDecoded(CacheKey(url)) = url
<1>1. PICK host \in Seq(Chars), port \in Seq(Chars), path \in Seq(Chars) :
         host = url.host /\ port = Decimal[url.port] /\ path = url.path
  <2>1. url.host \in Texts /\ url.path \in Texts /\ url.port \in Nat
    BY DEF Urls, Texts
  <2>2. Decimal[url.port] \in Seq(Chars)
    <3>1. DigitSet \subseteq Chars
      BY DEF Chars
    <3> QED
      BY <2>1, <3>1, DecimalIs, SeqMonotonic
  <2>3. url.host \in Seq(Chars) /\ url.path \in Seq(Chars)
    BY <2>1, TextsAreChars
  <2> QED
    BY <2>2, <2>3
<1>2. PICK key \in Seq(Chars) : key = CacheKey(url) /\ KeyParts(key, host, port, path)
  <2>1. KeyParts(CacheKey(url), host, port, path)
    BY <1>1, KeyIs DEF CacheKey
  <2> QED
    BY <2>1 DEF KeyParts
<1>3. PICK h \in Nat : h = Len(host)
  BY LenProperties
<1>4. PICK p \in Nat : p = Len(port)
  BY LenProperties
<1>5. PICK r \in Nat \ {0} : r = Len(path)
  BY <1>1, EmptySeq
<1>6. /\ Len(key) = h + p + r + 4
      /\ key[1] = "GET" /\ key[2] = "|"
      /\ \A i \in 1 .. h : key[2 + i] = host[i]
      /\ key[h + 3] = "|"
      /\ \A i \in 1 .. p : key[h + 3 + i] = port[i]
      /\ key[h + p + 4] = "|"
      /\ \A i \in 1 .. r : key[h + p + 4 + i] = path[i]
  BY <1>2, <1>3, <1>4, <1>5 DEF KeyParts
<1>7. \A i \in 1 .. p : port[i] \in DigitSet
  <2>1. url.port \in Nat
    BY DEF Urls
  <2>2. port \in Seq(DigitSet)
    BY <1>1, <2>1, DecimalIs
  <2> QED
    BY <1>4, <2>2, ElementOfSeq
<1>8. \A i \in 1 .. h : host[i] # "/"
  BY <1>1, <1>3
<1>9. ASSUME NEW j \in 1 .. h + p + 4
      PROVE  key[j] # "/" /\ (j > h + 3 /\ j < h + p + 4 => key[j] # "|")
  <2>1. CASE j <= 2
    BY <1>6, <2>1
  <2>2. CASE j > 2 /\ j <= h + 2
    <3>1. PICK i : i = j - 2
      OBVIOUS
    <3>2. i \in 1 .. h /\ j = 2 + i
      BY <2>2, <3>1
    <3>3. key[j] = host[i] /\ host[i] # "/"
      BY <1>6, <1>8, <3>2
    <3> QED
      BY <2>2, <3>3
  <2>3. CASE j = h + 3 \/ j = h + p + 4
    <3>1. key[j] = "|"
      BY <1>6, <2>3
    <3>2. ~ (j > h + 3 /\ j < h + p + 4)
      BY <2>3
    <3> QED
      BY <3>1, <3>2
  <2>4. CASE j > h + 3 /\ j < h + p + 4
    <3>1. PICK i : i = j - (h + 3)
      OBVIOUS
    <3>2. i \in 1 .. p /\ h + 3 + i = j
      BY <2>4, <3>1
    <3>3. key[j] \in DigitSet
      BY <1>6, <1>7, <3>2
    <3> QED
      BY <3>3, DigitsAre
  <2> QED
    BY <2>1, <2>2, <2>3, <2>4
<1>10. FirstOf(key, "/") = h + p + 5
  <2>1. PICK m : m = h + p + 5
    OBVIOUS
  <2>2. m \in 1 .. Len(key) /\ m = h + p + 4 + 1 /\ 1 \in 1 .. r
    BY <1>6, <2>1
  <2>3. key[m] = "/"
    BY <1>1, <1>6, <2>2
  <2>4. \A j \in 1 .. m - 1 : key[j] # "/"
    BY <1>9, <2>1
  <2> QED
    BY <2>1, <2>2, <2>3, <2>4, FirstOfIs
<1> DEFINE slash == FirstOf(key, "/")
           bars == {i \in 1 .. slash - 1 : key[i] = "|"}
           last == CHOOSE i \in bars : \A j \in bars : j <= i
           others == bars \ {last}
           middle == CHOOSE i \in others : \A j \in others : j <= i
<1>11. bars = {i \in 1 .. h + p + 4 : key[i] = "|"}
  BY <1>10
<1>12. last = h + p + 4
  <2>1. bars \in SUBSET Nat /\ h + p + 4 \in bars /\ \A j \in bars : j <= h + p + 4
    <3>1. h + p + 4 \in 1 .. h + p + 4
      OBVIOUS
    <3> HIDE DEF bars
    <3> QED
      BY <1>6, <1>11, <3>1
  <2> HIDE DEF bars
  <2> QED
    BY <2>1, LargestIs
<1>13. middle = h + 3
  <2>1. others = {i \in 1 .. h + p + 4 : key[i] = "|" /\ i # h + p + 4}
    <3> HIDE DEF last, bars
    <3> QED
      BY <1>11, <1>12
  <2>2. h + 3 \in 1 .. h + p + 4 /\ h + 3 # h + p + 4
    <3>1. p # 0
      <4>1. url.port \in Nat
        BY DEF Urls
      <4>2. port # <<>> /\ port \in Seq(DigitSet)
        BY <1>1, <4>1, NumberOfDecimal
      <4> QED
        BY <1>4, <4>2, EmptySeq
    <3> QED
      BY <3>1
  <2>3. others \in SUBSET Nat /\ h + 3 \in others /\ \A j \in others : j <= h + 3
    <3> HIDE DEF others
    <3> QED
      BY <1>6, <1>9, <2>1, <2>2
  <2> HIDE DEF others
  <2> QED
    BY <2>3, LargestIs
<1>14. KeyDecoded(key) = [host |-> SubSeq(key, 3, h + 2),
                          port |-> NumberOf(SubSeq(key, h + 4, h + p + 3)),
                          path |-> SubSeq(key, h + p + 5, h + p + r + 4)]
  <2>1. KeyDecoded(key) = [host |-> SubSeq(key, 3, middle - 1),
                           port |-> NumberOf(SubSeq(key, middle + 1, last - 1)),
                           path |-> SubSeq(key, slash, Len(key))]
    BY DEF KeyDecoded
  <2>2. /\ middle - 1 = h + 2 /\ middle + 1 = h + 4 /\ last - 1 = h + p + 3
        /\ slash = h + p + 5 /\ Len(key) = h + p + r + 4
    <3>1. Len(key) = h + p + r + 4
      BY <1>6
    <3>2. slash = h + p + 5
      BY <1>10
    <3> HIDE DEF middle, last, slash
    <3> QED
      BY <1>12, <1>13, <3>1, <3>2
  <2> HIDE DEF middle, last, slash
  <2> QED
    BY <2>1, <2>2
<1>15. SubSeq(key, 3, h + 2) = host
  <2>1. PICK m \in Nat \ {0} : m = 3
    OBVIOUS
  <2>2. PICK n \in Nat : n = h + 2
    OBVIOUS
  <2>3. n = m - 1 + Len(host) /\ n <= Len(key) /\ m - 1 = 2
    BY <1>3, <1>6, <2>1, <2>2
  <2>4. \A i \in 1 .. Len(host) : key[m - 1 + i] = host[i]
    BY <1>3, <1>6, <2>3
  <2>5. SubSeq(key, m, n) = host
    BY <2>3, <2>4, SliceEquals
  <2> QED
    BY <2>1, <2>2, <2>5
<1>16. SubSeq(key, h + 4, h + p + 3) = port
  <2>1. PICK m \in Nat \ {0} : m = h + 4
    OBVIOUS
  <2>2. PICK n \in Nat : n = h + p + 3
    OBVIOUS
  <2>3. n = m - 1 + Len(port) /\ n <= Len(key) /\ m - 1 = h + 3
    BY <1>4, <1>6, <2>1, <2>2
  <2>4. \A i \in 1 .. Len(port) : key[m - 1 + i] = port[i]
    BY <1>4, <1>6, <2>3
  <2>5. SubSeq(key, m, n) = port
    BY <2>3, <2>4, SliceEquals
  <2> QED
    BY <2>1, <2>2, <2>5
<1>17. SubSeq(key, h + p + 5, h + p + r + 4) = path
  <2>1. PICK m \in Nat \ {0} : m = h + p + 5
    OBVIOUS
  <2>2. PICK n \in Nat : n = h + p + r + 4
    OBVIOUS
  <2>3. n = m - 1 + Len(path) /\ n <= Len(key) /\ m - 1 = h + p + 4
    BY <1>5, <1>6, <2>1, <2>2
  <2>4. \A i \in 1 .. Len(path) : key[m - 1 + i] = path[i]
    BY <1>5, <1>6, <2>3
  <2>5. SubSeq(key, m, n) = path
    BY <2>3, <2>4, SliceEquals
  <2> QED
    BY <2>1, <2>2, <2>5
<1>18. url.port \in Nat /\ url = [host |-> url.host, port |-> url.port, path |-> url.path]
  BY DEF Urls
<1>19. NumberOf(port) = url.port
  BY <1>1, <1>18, NumberOfDecimal
<1> QED
  BY <1>1, <1>2, <1>14, <1>15, <1>16, <1>17, <1>18, <1>19

-----------------------------------------------------------------------------
(* The URL. *)

(* The pieces parse_absolute_url finds. *)
Remainder(url) == After(url, Len(Scheme))
Slash(url) == FirstOf(Remainder(url), "/")
Authority(url) == IF Slash(url) = 0 THEN Remainder(url) ELSE Before(Remainder(url), Slash(url))
PathPart(url) == IF Slash(url) = 0 THEN <<"/">>
                 ELSE SubSeq(Remainder(url), Slash(url), Len(Remainder(url)))
Colon(url) == FirstOf(Authority(url), ":")
HostPart(url) == IF Colon(url) = 0 THEN Authority(url) ELSE Before(Authority(url), Colon(url))
PortText(url) == After(Authority(url), Colon(url))
PortPart(url) == IF Colon(url) = 0 THEN 80 ELSE PortValue(PortText(url))

UrlTaken(url) ==
    /\ OccursAt(Scheme, url, 1) /\ Remainder(url) # <<>>
    /\ Fits(PathPart(url), PathSize)
    /\ HostPart(url) # <<>> /\ Fits(HostPart(url), HostSize)
    /\ PortPart(url) # 0

LEMMA ParseUrlIs ==
  ASSUME NEW url \in Texts
  PROVE  ParseUrl[url] = IF UrlTaken(url)
                         THEN [host |-> HostPart(url), port |-> PortPart(url), path |-> PathPart(url)]
                         ELSE Refused
  BY DEF ParseUrl, Texts, UrlTaken, Remainder, Slash, Authority, PathPart, Colon, HostPart,
         PortText, PortPart

(* The pieces of Meanings, cut at a and b. *)
CutHost(url, a) == SubSeq(url, Len(Scheme) + 1, a)
CutPort(url, a, b) == SubSeq(url, a + 1, b)
CutPath(url, b) == IF b = Len(url) THEN <<"/">> ELSE After(url, b)
CutNumber(url, a, b) == IF a = b THEN 80 ELSE NumberOf(Tail(CutPort(url, a, b)))
CutUrl(url, a, b) ==
    [host |-> CutHost(url, a), port |-> CutNumber(url, a, b), path |-> CutPath(url, b)]

IsCut(url, a, b) ==
    /\ a > Len(Scheme) /\ Fits(CutHost(url, a), HostSize)
    /\ \A i \in 1 .. a - Len(Scheme) : CutHost(url, a)[i] \notin {":", "/"}
    /\ Head(CutPath(url, b)) = "/" /\ Fits(CutPath(url, b), PathSize)
    /\ a < b => /\ Head(CutPort(url, a, b)) = ":"
                /\ IsNumber(Tail(CutPort(url, a, b)))
                /\ Fits(Tail(CutPort(url, a, b)), PortSize)
    /\ CutNumber(url, a, b) \in 1 .. MaxPort

LEMMA SchemeLen == Len(Scheme) = 4
  BY DEF Scheme

LEMMA RemainderIs ==
  ASSUME NEW url \in Texts, Len(url) >= 4
  PROVE  /\ Remainder(url) \in Texts /\ Len(Remainder(url)) = Len(url) - 4
         /\ \A j \in 1 .. Len(url) - 4 : Remainder(url)[j] = url[4 + j]
<1>1. 4 \in 0 .. Len(url)
  BY LenProperties DEF Texts
<1> QED
  BY <1>1, AfterIs, SchemeLen DEF Remainder

(* The authority ends at b when the path starts behind it. *)
SlashBehind(url, b) == Slash(url) = IF b = Len(url) THEN 0 ELSE b - 3

ColonBehind(url, a, b) == Colon(url) = IF a = b THEN 0 ELSE a - 3

LEMMA AuthorityIs ==
  ASSUME NEW url \in Texts, NEW b \in 4 .. Len(url), SlashBehind(url, b)
  PROVE  /\ Authority(url) \in Texts /\ Len(Authority(url)) = b - 4
         /\ \A j \in 1 .. b - 4 : Authority(url)[j] = url[4 + j]
         /\ PathPart(url) = CutPath(url, b)
<1>1. PICK n \in Nat : n = Len(url)
  BY LenProperties DEF Texts
<1>2. PICK r \in Texts : /\ r = Remainder(url) /\ Len(r) = n - 4
                         /\ \A j \in 1 .. n - 4 : r[j] = url[4 + j]
  <2>1. n >= 4
    BY <1>1
  <2> QED
    BY <1>1, <2>1, RemainderIs
<1>3. CASE b = n
  BY <1>1, <1>2, <1>3 DEF SlashBehind, Authority, PathPart, CutPath
<1>4. CASE b # n
  <2>1. b - 3 \in 1 .. Len(r) + 1 /\ b - 3 \in Nat \ {0} /\ Slash(url) = b - 3
    BY <1>1, <1>2, <1>4 DEF SlashBehind
  <2>2. PICK k : k = b - 3
    OBVIOUS
  <2>3. /\ Before(r, k) \in Texts /\ Len(Before(r, k)) = k - 1
        /\ \A j \in 1 .. k - 1 : Before(r, k)[j] = r[j]
    BY <2>1, <2>2, BeforeIs
  <2>4. Authority(url) = Before(r, k)
    BY <1>2, <2>1, <2>2 DEF Authority
  <2>5. \A j \in 1 .. b - 4 : Authority(url)[j] = url[4 + j]
    BY <1>1, <1>2, <2>2, <2>3, <2>4
  <2>6. SubSeq(r, k, n - 4) = After(url, b)
    <3>1. PICK t \in Texts : /\ t = After(url, b) /\ Len(t) = n - b
                             /\ \A j \in 1 .. n - b : t[j] = url[b + j]
      <4>1. b \in 0 .. Len(url)
        OBVIOUS
      <4> QED
        BY <1>1, <4>1, AfterIs
    <3>2. PICK m \in Nat : m = n - 4
      BY <1>1
    <3>3. m = k - 1 + Len(t) /\ m <= Len(r)
      BY <1>1, <1>2, <2>2, <3>1, <3>2
    <3>4. ASSUME NEW i \in 1 .. Len(t) PROVE r[k - 1 + i] = t[i]
      <4>1. PICK j : j = k - 1 + i
        OBVIOUS
      <4>2. j \in 1 .. n - 4 /\ 4 + j = b + i /\ i \in 1 .. n - b
        BY <1>1, <2>2, <3>1, <4>1
      <4> QED
        BY <1>2, <3>1, <4>1, <4>2
    <3>5. r \in Seq(Tokens) /\ t \in Seq(Tokens) /\ k \in Nat \ {0}
      BY <2>1, <2>2 DEF Texts
    <3>6. SubSeq(r, k, m) = t
      BY <3>3, <3>4, <3>5, SliceEquals
    <3> QED
      BY <3>1, <3>2, <3>6
  <2>7. PathPart(url) = CutPath(url, b)
    BY <1>1, <1>2, <1>4, <2>1, <2>2, <2>6 DEF PathPart, CutPath
  <2> QED
    BY <2>2, <2>3, <2>4, <2>5, <2>7
<1> QED
  BY <1>3, <1>4

LEMMA CutPortIs ==
  ASSUME NEW url \in Texts, NEW b \in 4 .. Len(url), NEW a \in 4 .. b - 1
  PROVE  /\ CutPort(url, a, b) \in Texts /\ Len(CutPort(url, a, b)) = b - a
         /\ \A i \in 1 .. b - a : CutPort(url, a, b)[i] = url[a + i]
         /\ CutPort(url, a, b) # <<>> /\ Head(CutPort(url, a, b)) = url[a + 1]
         /\ Tail(CutPort(url, a, b)) \in Texts /\ Len(Tail(CutPort(url, a, b))) = b - a - 1
         /\ \A i \in 1 .. b - a - 1 : Tail(CutPort(url, a, b))[i] = url[a + 1 + i]
<1>1. Len(url) \in Nat
  BY LenProperties DEF Texts
<1>2. PICK m \in Nat \ {0} : m = a + 1
  OBVIOUS
<1>3. m <= b + 1 /\ b <= Len(url) /\ b \in Nat /\ b - m + 1 = b - a
  BY <1>1, <1>2
<1>4. /\ SubSeq(url, m, b) \in Texts /\ Len(SubSeq(url, m, b)) = b - m + 1
      /\ \A i \in 1 .. b - m + 1 : SubSeq(url, m, b)[i] = url[m + i - 1]
  BY <1>3, SliceIs DEF Texts
<1>5. PICK p \in Texts : p = CutPort(url, a, b)
  BY <1>2, <1>4 DEF CutPort
<1>6. ASSUME NEW i \in 1 .. b - a PROVE p[i] = url[a + i]
  <2>1. PICK k : k = m + i - 1
    OBVIOUS
  <2>2. k = a + i
    BY <1>2, <2>1
  <2> QED
    BY <1>2, <1>3, <1>4, <1>5, <2>1, <2>2 DEF CutPort
<1>7. Len(p) = b - a
  BY <1>2, <1>3, <1>4, <1>5 DEF CutPort
<1>8. p # <<>> /\ Head(p) = p[1]
  <2>1. Len(<<>>) = 0
    OBVIOUS
  <2>2. p # <<>>
    BY <1>7, <2>1
  <2> QED
    BY <2>2 DEF Texts
<1>9. /\ Tail(p) \in Texts /\ Len(Tail(p)) = b - a - 1
      /\ \A i \in 1 .. b - a - 1 : Tail(p)[i] = p[i + 1]
  BY <1>7, <1>8, HeadTailProperties DEF Texts
<1>10. ASSUME NEW i \in 1 .. b - a - 1 PROVE Tail(p)[i] = url[a + 1 + i]
  <2>1. PICK k : k = i + 1
    OBVIOUS
  <2>2. k \in 1 .. b - a /\ a + k = a + 1 + i
    BY <2>1
  <2> QED
    BY <1>6, <1>9, <2>1, <2>2
<1>11. p[1] = url[a + 1]
  BY <1>6
<1> QED
  BY <1>5, <1>6, <1>7, <1>8, <1>9, <1>10, <1>11

LEMMA CutHostIs ==
  ASSUME NEW url \in Texts, NEW a \in 4 .. Len(url)
  PROVE  /\ CutHost(url, a) \in Texts /\ Len(CutHost(url, a)) = a - 4
         /\ \A i \in 1 .. a - 4 : CutHost(url, a)[i] = url[4 + i]
<1>1. Len(url) \in Nat
  BY LenProperties DEF Texts
<1>2. a \in Nat /\ 5 <= a + 1 /\ a <= Len(url) /\ a - 5 + 1 = a - 4
  BY <1>1
<1>3. /\ SubSeq(url, 5, a) \in Texts /\ Len(SubSeq(url, 5, a)) = a - 5 + 1
      /\ \A i \in 1 .. a - 5 + 1 : SubSeq(url, 5, a)[i] = url[5 + i - 1]
  BY <1>2, SliceIs DEF Texts
<1>4. CutHost(url, a) = SubSeq(url, 5, a)
  BY SchemeLen DEF CutHost
<1>5. ASSUME NEW i \in 1 .. a - 4 PROVE CutHost(url, a)[i] = url[4 + i]
  <2>1. PICK k : k = 5 + i - 1
    OBVIOUS
  <2>2. k = 4 + i
    BY <2>1
  <2> QED
    BY <1>2, <1>3, <1>4, <2>1, <2>2
<1> QED
  BY <1>2, <1>3, <1>4, <1>5

LEMMA SameParts ==
  ASSUME NEW url \in Texts, NEW b \in 4 .. Len(url), NEW a \in 4 .. b,
         SlashBehind(url, b), ColonBehind(url, a, b)
  PROVE  /\ HostPart(url) = CutHost(url, a) /\ PathPart(url) = CutPath(url, b)
         /\ a < b => PortText(url) = Tail(CutPort(url, a, b))
<1>1. PICK n \in Nat : n = Len(url)
  BY LenProperties DEF Texts
<1>2. PICK u \in Texts : /\ u = Authority(url) /\ Len(u) = b - 4
                         /\ \A j \in 1 .. b - 4 : u[j] = url[4 + j]
  BY AuthorityIs
<1>3. PICK h \in Texts : /\ h = CutHost(url, a) /\ Len(h) = a - 4
                         /\ \A i \in 1 .. a - 4 : h[i] = url[4 + i]
  <2>1. a \in 4 .. Len(url)
    BY <1>1
  <2> QED
    BY <2>1, CutHostIs
<1>4. CASE a = b
  <2>1. HostPart(url) = u
    BY <1>2, <1>4 DEF ColonBehind, HostPart
  <2>2. u = h
    BY <1>2, <1>3, <1>4, SeqEqual DEF Texts
  <2> QED
    BY <1>3, <1>4, <2>1, <2>2, AuthorityIs
<1>5. CASE a # b
  <2>1. PICK c : c = a - 3
    OBVIOUS
  <2>2. c \in 1 .. Len(u) /\ c \in 1 .. Len(u) + 1 /\ c \in 0 .. Len(u) /\ Colon(url) = c
    BY <1>2, <1>5, <2>1 DEF ColonBehind
  <2>3. /\ Before(u, c) \in Texts /\ Len(Before(u, c)) = c - 1
        /\ \A j \in 1 .. c - 1 : Before(u, c)[j] = u[j]
    BY <2>2, BeforeIs
  <2>4. HostPart(url) = Before(u, c)
    BY <1>2, <2>1, <2>2 DEF HostPart
  <2>5. Before(u, c) = h
    <3>1. Len(Before(u, c)) = Len(h)
      BY <1>3, <2>1, <2>3
    <3>2. \A j \in 1 .. Len(h) : Before(u, c)[j] = h[j]
      BY <1>2, <1>3, <2>1, <2>3
    <3> QED
      BY <2>3, <3>1, <3>2, SeqEqual DEF Texts
  <2>6. /\ After(u, c) \in Texts /\ Len(After(u, c)) = b - 4 - c
        /\ \A j \in 1 .. b - 4 - c : After(u, c)[j] = u[c + j]
    BY <1>2, <2>2, AfterIs
  <2>7. a \in 4 .. b - 1
    BY <1>5
  <2>8. PICK p \in Texts : /\ p = Tail(CutPort(url, a, b)) /\ Len(p) = b - a - 1
                           /\ \A i \in 1 .. b - a - 1 : p[i] = url[a + 1 + i]
    BY <2>7, CutPortIs
  <2>9. ASSUME NEW i \in 1 .. b - a - 1 PROVE After(u, c)[i] = p[i]
    <3>1. PICK k : k = c + i
      OBVIOUS
    <3>2. k \in 1 .. b - 4 /\ i \in 1 .. b - 4 - c /\ 4 + k = a + 1 + i
      BY <2>1, <2>7, <3>1
    <3> QED
      BY <1>2, <2>6, <2>8, <3>1, <3>2
  <2>10. After(u, c) = p
    <3>1. Len(After(u, c)) = Len(p) /\ Len(p) = b - a - 1
      BY <2>1, <2>6, <2>8
    <3> QED
      BY <2>6, <2>9, <3>1, SeqEqual DEF Texts
  <2>11. PortText(url) = After(u, c)
    BY <1>2, <2>2 DEF PortText
  <2> QED
    BY <1>3, <2>4, <2>5, <2>8, <2>10, <2>11, AuthorityIs
<1> QED
  BY <1>4, <1>5

(* A number has digits in it, and possibly a sign in front. *)
LEMMA NumberChars ==
  ASSUME NEW t \in Texts, IsNumber(t), NEW i \in 1 .. Len(t)
  PROVE  t[i] \in DigitSet \/ t[i] = "+"
<1>1. Len(t) \in Nat
  BY LenProperties DEF Texts
<1>2. CASE Unsigned(t) = t
  BY <1>1, <1>2, LenProperties DEF IsNumber, Texts
<1>3. CASE Unsigned(t) # t
  <2>1. t # <<>> /\ Head(t) = "+" /\ Unsigned(t) = Tail(t)
    BY <1>3 DEF Unsigned
  <2>2. /\ Tail(t) \in Seq(Tokens) /\ Len(Tail(t)) = Len(t) - 1 /\ Head(t) = t[1]
        /\ \A j \in 1 .. Len(Tail(t)) : Tail(t)[j] = t[j + 1]
    BY <2>1, HeadTailProperties DEF Texts
  <2>3. \A j \in 1 .. Len(Tail(t)) : Tail(t)[j] \in DigitSet
    BY <2>1, <2>2, LenProperties DEF IsNumber
  <2>4. CASE i = 1
    BY <2>1, <2>2, <2>4
  <2>5. CASE i # 1
    <3>1. PICK j : j = i - 1
      OBVIOUS
    <3>2. j \in 1 .. Len(Tail(t)) /\ j + 1 = i
      BY <1>1, <2>2, <2>5, <3>1
    <3> QED
      BY <2>2, <2>3, <3>2
  <2> QED
    BY <2>4, <2>5
<1> QED
  BY <1>2, <1>3

LEMMA CutPathHead ==
  ASSUME NEW url \in Texts, NEW b \in 4 .. Len(url)
  PROVE  /\ CutPath(url, b) \in Texts /\ CutPath(url, b) # <<>>
         /\ Head(CutPath(url, b)) = CutPath(url, b)[1]
         /\ Head(CutPath(url, b)) = "/" <=> b = Len(url) \/ url[b + 1] = "/"
<1>1. Len(url) \in Nat
  BY LenProperties DEF Texts
<1>2. CASE b = Len(url)
  <2>1. "/" \in Tokens
    BY ParserAssumption
  <2> QED
    BY <1>2, <2>1 DEF CutPath, Texts
<1>3. CASE b # Len(url)
  <2>1. b \in 0 .. Len(url) /\ 1 \in 1 .. Len(url) - b
    BY <1>1, <1>3
  <2>2. PICK t \in Texts : t = After(url, b) /\ Len(t) = Len(url) - b /\ t[1] = url[b + 1]
    BY <2>1, AfterIs
  <2>3. t # <<>>
    <3>1. Len(<<>>) = 0
      OBVIOUS
    <3> QED
      BY <2>1, <2>2, <3>1
  <2>4. Head(t) = t[1]
    BY <2>3 DEF Texts
  <2> QED
    BY <1>3, <2>2, <2>3, <2>4 DEF CutPath
<1> QED
  BY <1>2, <1>3

(* Where a cut is made, the searches find their separators. *)
LEMMA CutIsFound ==
  ASSUME NEW url \in Texts, NEW b \in 1 .. Len(url), NEW a \in 1 .. b, IsCut(url, a, b)
  PROVE  /\ b \in 4 .. Len(url) /\ a \in 4 .. b /\ a > 4
         /\ SlashBehind(url, b) /\ ColonBehind(url, a, b)
<1>1. PICK n \in Nat : n = Len(url)
  BY LenProperties DEF Texts
<1>2. a > 4 /\ a \in 4 .. b /\ a \in 4 .. Len(url) /\ b \in 4 .. Len(url) /\ n >= 4
  BY <1>1, SchemeLen DEF IsCut
<1>3. \A i \in 1 .. a - 4 : url[4 + i] \notin {":", "/"}
  BY <1>2, CutHostIs, SchemeLen DEF IsCut
<1>4. b = n \/ url[b + 1] = "/"
  BY <1>1, <1>2, CutPathHead DEF IsCut
<1>5. a < b => url[a + 1] = ":" /\ \A i \in 1 .. b - a - 1 : url[a + 1 + i] # "/"
  <2> SUFFICES ASSUME a < b PROVE url[a + 1] = ":" /\ \A i \in 1 .. b - a - 1 : url[a + 1 + i] # "/"
    OBVIOUS
  <2>1. a \in 4 .. b - 1
    BY <1>2
  <2>2. PICK t \in Texts : /\ t = Tail(CutPort(url, a, b)) /\ Len(t) = b - a - 1
                           /\ \A i \in 1 .. b - a - 1 : t[i] = url[a + 1 + i]
    BY <1>2, <2>1, CutPortIs
  <2>3. Head(CutPort(url, a, b)) = url[a + 1]
    BY <1>2, <2>1, CutPortIs
  <2>4. IsNumber(t) /\ Head(CutPort(url, a, b)) = ":"
    BY <2>2 DEF IsCut
  <2>5. \A i \in 1 .. b - a - 1 : t[i] # "/"
    <3> SUFFICES ASSUME NEW i \in 1 .. b - a - 1 PROVE t[i] # "/"
      OBVIOUS
    <3>1. t[i] \in DigitSet \/ t[i] = "+"
      BY <2>2, <2>4, NumberChars
    <3> QED
      BY <3>1, DigitsAre
  <2> QED
    BY <2>2, <2>3, <2>4, <2>5
<1>6. PICK r \in Texts : /\ r = Remainder(url) /\ Len(r) = n - 4
                         /\ \A j \in 1 .. n - 4 : r[j] = url[4 + j]
  BY <1>1, <1>2, RemainderIs
<1>7. ASSUME NEW j \in 1 .. b - 4 PROVE r[j] # "/"
  <2>1. r[j] = url[4 + j]
    BY <1>1, <1>6
  <2>2. CASE j <= a - 4
    BY <1>2, <1>3, <2>1, <2>2
  <2>3. CASE j = a - 3
    <3>1. a < b /\ 4 + j = a + 1
      BY <1>2, <2>3
    <3> QED
      BY <1>5, <2>1, <3>1
  <2>4. CASE j > a - 3
    <3>1. PICK i : i = j - (a - 3)
      OBVIOUS
    <3>2. a < b /\ i \in 1 .. b - a - 1 /\ 4 + j = a + 1 + i
      BY <1>2, <2>4, <3>1
    <3> QED
      BY <1>5, <2>1, <3>2
  <2> QED
    BY <1>2, <2>2, <2>3, <2>4
<1>8. SlashBehind(url, b)
  <2>1. CASE b = n
    BY <1>1, <1>6, <1>7, <2>1, FirstOfNone DEF SlashBehind, Slash, Texts
  <2>2. CASE b # n
    <3>1. PICK k : k = b - 3
      OBVIOUS
    <3>2. k \in 1 .. Len(r) /\ 4 + k = b + 1 /\ k \in 1 .. n - 4 /\ k - 1 = b - 4
      BY <1>1, <1>2, <1>6, <2>2, <3>1
    <3>3. r[k] = "/" /\ \A j \in 1 .. k - 1 : r[j] # "/"
      BY <1>4, <1>6, <1>7, <2>2, <3>2
    <3>4. FirstOf(r, "/") = k
      BY <3>2, <3>3, FirstOfIs DEF Texts
    <3> QED
      BY <1>1, <1>6, <2>2, <3>1, <3>4 DEF SlashBehind, Slash
  <2> QED
    BY <2>1, <2>2
<1>9. PICK u \in Texts : /\ u = Authority(url) /\ Len(u) = b - 4
                         /\ \A j \in 1 .. b - 4 : u[j] = url[4 + j]
  BY <1>2, <1>8, AuthorityIs
<1>10. \A j \in 1 .. a - 4 : u[j] # ":"
  BY <1>2, <1>3, <1>9
<1>11. ColonBehind(url, a, b)
  <2>1. CASE a = b
    BY <1>9, <1>10, <2>1, FirstOfNone DEF ColonBehind, Colon, Texts
  <2>2. CASE a # b
    <3>1. PICK k : k = a - 3
      OBVIOUS
    <3>2. k \in 1 .. Len(u) /\ 4 + k = a + 1 /\ k \in 1 .. b - 4 /\ k - 1 = a - 4 /\ a < b
      BY <1>2, <1>9, <2>2, <3>1
    <3>3. u[k] = ":" /\ \A j \in 1 .. k - 1 : u[j] # ":"
      BY <1>5, <1>9, <1>10, <3>2
    <3>4. FirstOf(u, ":") = k
      BY <3>2, <3>3, FirstOfIs DEF Texts
    <3> QED
      BY <1>9, <2>2, <3>1, <3>4 DEF ColonBehind, Colon
  <2> QED
    BY <2>1, <2>2
<1> QED
  BY <1>2, <1>8, <1>11

(* A cut is what the parser makes of the URL, so that there is one only. *)
LEMMA CutIsParsed ==
  ASSUME NEW url \in Texts, NEW b \in 1 .. Len(url), NEW a \in 1 .. b, IsCut(url, a, b),
         OccursAt(Scheme, url, 1)
  PROVE  UrlTaken(url) /\ ParseUrl[url] = CutUrl(url, a, b)
<1>1. /\ b \in 4 .. Len(url) /\ a \in 4 .. b /\ a > 4
      /\ SlashBehind(url, b) /\ ColonBehind(url, a, b)
  BY CutIsFound
<1>2. /\ HostPart(url) = CutHost(url, a) /\ PathPart(url) = CutPath(url, b)
      /\ a < b => PortText(url) = Tail(CutPort(url, a, b))
  BY <1>1, SameParts
<1>3. Len(url) \in Nat
  BY LenProperties DEF Texts
<1>4. PortPart(url) = CutNumber(url, a, b)
  <2>1. CASE a = b
    BY <2>1, <1>1 DEF ColonBehind, PortPart, CutNumber
  <2>2. CASE a # b
    <3>1. a < b /\ Colon(url) # 0
      BY <1>1, <2>2 DEF ColonBehind
    <3>2. PortValue(PortText(url)) = NumberOf(Tail(CutPort(url, a, b)))
      BY <1>2, <2>2, <3>1 DEF PortValue, IsCut, CutNumber
    <3> QED
      BY <2>2, <3>1, <3>2 DEF PortPart, CutNumber
  <2> QED
    BY <2>1, <2>2
<1>5. CutNumber(url, a, b) # 0
  BY DEF IsCut
<1>6. CutHost(url, a) # <<>>
  <2>1. a \in 4 .. Len(url)
    BY <1>1, <1>3
  <2>2. Len(CutHost(url, a)) = a - 4 /\ Len(<<>>) = 0
    BY <2>1, CutHostIs
  <2> QED
    BY <1>1, <2>2
<1>7. Remainder(url) # <<>>
  <2>1. Len(url) >= 4
    BY <1>1, <1>3
  <2>2. Len(Remainder(url)) = Len(url) - 4 /\ Len(<<>>) = 0
    BY <2>1, RemainderIs
  <2> QED
    BY <1>1, <1>3, <2>2
<1>8. UrlTaken(url)
  BY <1>2, <1>4, <1>5, <1>6, <1>7 DEF UrlTaken, IsCut
<1> QED
  BY <1>2, <1>4, <1>8, ParseUrlIs DEF CutUrl

(* And the parser makes a cut. *)
LEMMA ParsedIsCut ==
  ASSUME NEW url \in Texts, UrlTaken(url)
  PROVE  /\ OccursAt(Scheme, url, 1)
         /\ \E b \in 1 .. Len(url) : \E a \in 1 .. b : IsCut(url, a, b)
<1>1. PICK n \in Nat : n = Len(url)
  BY LenProperties DEF Texts
<1>2. n >= 4
  BY <1>1, SchemeLen DEF UrlTaken, OccursAt
<1>3. PICK r \in Texts : /\ r = Remainder(url) /\ Len(r) = n - 4
                         /\ \A j \in 1 .. n - 4 : r[j] = url[4 + j]
  BY <1>1, <1>2, RemainderIs
<1>4. PICK sl : sl = Slash(url)
  OBVIOUS
<1>5. /\ sl \in 0 .. n - 4
      /\ sl # 0 => r[sl] = "/" /\ \A i \in 1 .. sl - 1 : r[i] # "/"
      /\ sl = 0 => \A i \in 1 .. n - 4 : r[i] # "/"
  BY <1>3, <1>4, FirstOfIsFirst DEF Slash
<1>6. PICK b : b = IF sl = 0 THEN n ELSE sl + 3
  OBVIOUS
<1>7. b \in 4 .. Len(url) /\ SlashBehind(url, b)
  BY <1>1, <1>2, <1>4, <1>5, <1>6 DEF SlashBehind
<1>8. PICK u \in Texts : /\ u = Authority(url) /\ Len(u) = b - 4
                         /\ \A j \in 1 .. b - 4 : u[j] = url[4 + j]
  BY <1>7, AuthorityIs
<1>9. PICK co : co = Colon(url)
  OBVIOUS
<1>10. /\ co \in 0 .. b - 4
       /\ co # 0 => u[co] = ":" /\ \A i \in 1 .. co - 1 : u[i] # ":"
       /\ co = 0 => \A i \in 1 .. b - 4 : u[i] # ":"
  BY <1>8, <1>9, FirstOfIsFirst DEF Colon
<1>11. PICK a : a = IF co = 0 THEN b ELSE co + 3
  OBVIOUS
<1>12. a \in 4 .. b /\ ColonBehind(url, a, b)
  BY <1>1, <1>7, <1>9, <1>10, <1>11 DEF ColonBehind
<1>13. /\ HostPart(url) = CutHost(url, a) /\ PathPart(url) = CutPath(url, b)
       /\ a < b => PortText(url) = Tail(CutPort(url, a, b))
  BY <1>7, <1>12, SameParts
<1>14. a \in 4 .. Len(url)
  BY <1>1, <1>7, <1>12
<1>15. PICK h \in Texts : /\ h = CutHost(url, a) /\ Len(h) = a - 4
                          /\ \A i \in 1 .. a - 4 : h[i] = url[4 + i]
  BY <1>14, CutHostIs
<1>16. a > 4
  <2>1. h # <<>>
    BY <1>13, <1>15 DEF UrlTaken
  <2> QED
    BY <1>12, <1>15, <2>1, EmptySeq DEF Texts
<1>17. ASSUME NEW i \in 1 .. a - 4 PROVE h[i] \notin {":", "/"}
  <2>1. i \in 1 .. b - 4 /\ i \in 1 .. n - 4 /\ h[i] = u[i] /\ h[i] = r[i]
    BY <1>1, <1>3, <1>7, <1>8, <1>12, <1>15
  <2>2. u[i] # ":"
    <3>1. CASE co = 0
      BY <1>10, <2>1, <3>1
    <3>2. CASE co # 0
      <4>1. i \in 1 .. co - 1
        BY <1>10, <1>11, <3>2
      <4> QED
        BY <1>10, <3>2, <4>1
    <3> QED
      BY <3>1, <3>2
  <2>3. r[i] # "/"
    BY <1>5, <1>6, <1>12, <2>1
  <2> QED
    BY <2>1, <2>2, <2>3
<1>18. Head(CutPath(url, b)) = "/"
  <2>1. b = n \/ url[b + 1] = "/"
    <3>1. CASE sl # 0
      <4>1. 4 + sl = b + 1 /\ sl \in 1 .. n - 4
        BY <1>5, <1>6, <3>1
      <4> QED
        BY <1>3, <1>5, <3>1, <4>1
    <3> QED
      BY <1>6, <3>1
  <2> QED
    BY <1>1, <1>7, <2>1, CutPathHead
<1>19. /\ a > Len(Scheme) /\ Fits(CutHost(url, a), HostSize)
       /\ \A i \in 1 .. a - Len(Scheme) : CutHost(url, a)[i] \notin {":", "/"}
       /\ Head(CutPath(url, b)) = "/" /\ Fits(CutPath(url, b), PathSize)
  <2>1. \A i \in 1 .. a - Len(Scheme) : CutHost(url, a)[i] \notin {":", "/"}
    BY <1>15, <1>17, SchemeLen
  <2>2. a > Len(Scheme)
    BY <1>16, SchemeLen
  <2> QED
    BY <1>13, <1>18, <2>1, <2>2 DEF UrlTaken
<1>20. CASE a = b
  <2>1. CutNumber(url, a, b) \in 1 .. MaxPort
    BY <1>20, ParserAssumption DEF CutNumber
  <2>2. ~ (a < b)
    BY <1>12, <1>20
  <2>3. IsCut(url, a, b)
    BY <1>19, <2>1, <2>2 DEF IsCut
  <2> QED
    BY <1>1, <1>7, <1>12, <2>3 DEF UrlTaken
<1>21. CASE a # b
  <2>1. a < b /\ a \in 4 .. b - 1 /\ co # 0 /\ co \in 1 .. b - 4 /\ 4 + co = a + 1
    BY <1>10, <1>11, <1>12, <1>21
  <2>2. Head(CutPort(url, a, b)) = ":"
    <3>1. Head(CutPort(url, a, b)) = url[a + 1]
      BY <1>7, <2>1, CutPortIs
    <3> QED
      BY <1>8, <1>10, <2>1, <3>1
  <2>3. PortValue(PortText(url)) # 0
    BY <1>9, <2>1 DEF UrlTaken, PortPart
  <2>4. /\ Fits(PortText(url), PortSize) /\ IsNumber(PortText(url))
        /\ NumberOf(PortText(url)) \in 1 .. MaxPort
    BY <2>3 DEF PortValue
  <2>5. CutNumber(url, a, b) \in 1 .. MaxPort
    BY <1>13, <1>21, <2>1, <2>4 DEF CutNumber
  <2>6. IsNumber(Tail(CutPort(url, a, b))) /\ Fits(Tail(CutPort(url, a, b)), PortSize)
    BY <1>13, <2>1, <2>4
  <2>7. a < b => /\ Head(CutPort(url, a, b)) = ":"
                 /\ IsNumber(Tail(CutPort(url, a, b)))
                 /\ Fits(Tail(CutPort(url, a, b)), PortSize)
    BY <2>2, <2>6
  <2>8. IsCut(url, a, b)
    BY <1>19, <2>5, <2>7, Zenon DEF IsCut
  <2> QED
    BY <1>1, <1>7, <1>12, <2>8 DEF UrlTaken
<1> QED
  BY <1>20, <1>21

-----------------------------------------------------------------------------
(* The request line. *)

UrlOf(line) == SubSeq(line, 3, Len(line) - 2)

(* GET, a URL without spaces and a version, with one space between them.   *)
Framed(line) ==
    /\ Len(line) >= 4 /\ line[1] = "GET" /\ line[2] = "sp"
    /\ line[Len(line) - 1] = "sp" /\ line[Len(line)] \in Versions
    /\ \A i \in 3 .. Len(line) - 2 : line[i] # "sp"

LEMMA UrlOfIs ==
  ASSUME NEW line \in Texts, Len(line) >= 4
  PROVE  /\ UrlOf(line) \in Texts /\ Len(UrlOf(line)) = Len(line) - 4
         /\ \A i \in 1 .. Len(line) - 4 : UrlOf(line)[i] = line[2 + i]
<1>1. PICK n \in Nat : n = Len(line)
  BY LenProperties DEF Texts
<1>2. PICK m : m = n - 2
  OBVIOUS
<1>3. m \in Nat /\ 3 <= m + 1 /\ m <= Len(line) /\ m - 3 + 1 = n - 4
  BY <1>1, <1>2
<1>4. /\ SubSeq(line, 3, m) \in Texts /\ Len(SubSeq(line, 3, m)) = m - 3 + 1
      /\ \A i \in 1 .. m - 3 + 1 : SubSeq(line, 3, m)[i] = line[3 + i - 1]
  BY <1>3, SliceIs DEF Texts
<1>5. \A i \in 1 .. n - 4 : 3 + i - 1 = 2 + i
  OBVIOUS
<1> QED
  BY <1>1, <1>2, <1>3, <1>4, <1>5 DEF UrlOf

(* A text of one token. *)
LEMMA OneToken ==
  ASSUME NEW t \in Texts, NEW x
  PROVE  t = <<x>> <=> Len(t) = 1 /\ t[1] = x
<1>1. ASSUME Len(t) = 1, t[1] = x PROVE t = <<x>>
  <2>1. t \in Seq(Tokens \cup {x}) /\ <<x>> \in Seq(Tokens \cup {x})
    BY SeqMonotonic DEF Texts
  <2>2. Len(<<x>>) = 1 /\ <<x>>[1] = x
    OBVIOUS
  <2> QED
    BY <1>1, <2>1, <2>2, SeqEqual
<1> QED
  BY <1>1

(* Where the parser finds the two spaces. *)
FirstSpace(line) == FirstOf(line, "sp")
Behind(line) == After(line, FirstSpace(line))
SecondSpace(line) == FirstSpace(line) + FirstOf(Behind(line), "sp")

IsSplit(line) ==
    /\ FirstSpace(line) # 0 /\ SecondSpace(line) # FirstSpace(line)
    /\ Before(line, FirstSpace(line)) = <<"GET">>
    /\ \E v \in Versions : After(line, SecondSpace(line)) = <<v>>

SplitAt(line) ==
    /\ FirstSpace(line) = 2 /\ SecondSpace(line) = Len(line) - 1
    /\ After(line, SecondSpace(line)) = <<line[Len(line)]>>

LEMMA SplitIs ==
  ASSUME NEW line \in Texts, IsSplit(line)
  PROVE  Framed(line) /\ SplitAt(line)
<1> DEFINE first == FirstSpace(line)
           behind == Behind(line)
           second == SecondSpace(line)
<1>0. PICK v \in Versions : After(line, second) = <<v>>
  BY DEF IsSplit
<1>1. PICK n \in Nat : n = Len(line)
  BY LenProperties DEF Texts
<1>2. PICK f : f = first
  OBVIOUS
<1>3. f \in 1 .. n /\ line[f] = "sp" /\ \A i \in 1 .. f - 1 : line[i] # "sp"
  BY <1>1, <1>2, FirstOfIsFirst DEF IsSplit, FirstSpace
<1>4. f = 2 /\ line[1] = "GET"
  <2>1. f \in 1 .. Len(line) + 1
    BY <1>1, <1>3
  <2>2. /\ Before(line, f) \in Texts /\ Len(Before(line, f)) = f - 1
        /\ \A j \in 1 .. f - 1 : Before(line, f)[j] = line[j]
    BY <2>1, BeforeIs
  <2>3. Len(Before(line, f)) = 1 /\ Before(line, f)[1] = "GET"
    BY <1>2, <2>2, OneToken DEF IsSplit
  <2>4. f = 2
    <3>1. PICK l : l = Len(Before(line, f))
      OBVIOUS
    <3>2. l = f - 1
      BY <2>2, <3>1
    <3>3. l = 1
      BY <2>3, <3>1
    <3>4. f \in Nat
      BY <1>3
    <3> QED
      BY <3>2, <3>3, <3>4
  <2> QED
    BY <2>2, <2>3, <2>4
<1>5. PICK t \in Texts : /\ t = behind /\ Len(t) = n - 2
                         /\ \A j \in 1 .. n - 2 : t[j] = line[2 + j]
  <2>1. 2 \in 0 .. Len(line)
    BY <1>1, <1>3, <1>4
  <2> QED
    BY <1>1, <1>2, <1>4, <2>1, AfterIs DEF Behind
<1>6. PICK k : k = FirstOf(t, "sp")
  OBVIOUS
<1>7. second = 2 + k /\ k # 0
  <2>1. second = f + FirstOf(t, "sp") /\ second # f
    BY <1>2, <1>5 DEF SecondSpace, IsSplit
  <2>2. k \in 0 .. Len(t)
    BY <1>6, FirstOfIsFirst
  <2> QED
    BY <1>2, <1>4, <1>6, <2>1, <2>2
<1>8. k \in 1 .. n - 2 /\ t[k] = "sp" /\ \A i \in 1 .. k - 1 : t[i] # "sp"
  BY <1>5, <1>6, <1>7, FirstOfIsFirst
<1>9. PICK s : s = 2 + k
  OBVIOUS
<1>10. s \in 3 .. n /\ line[s] = "sp" /\ s \in 0 .. Len(line)
  BY <1>1, <1>5, <1>8, <1>9
<1>11. After(line, s) \in Texts /\ Len(After(line, s)) = n - s
       /\ \A j \in 1 .. n - s : After(line, s)[j] = line[s + j]
  BY <1>1, <1>10, AfterIs
<1>12. After(line, s) = <<v>>
  <2> HIDE DEF second
  <2> QED
    BY <1>0, <1>7, <1>9
<1>13. Len(After(line, s)) = 1 /\ After(line, s)[1] = v
  BY <1>11, <1>12, OneToken
<1>14. s = n - 1 /\ s + 1 = n /\ line[n] = v /\ n >= 4
  <2>1. s = n - 1
    <3>1. PICK l : l = Len(After(line, s))
      OBVIOUS
    <3>2. l = n - s
      BY <1>11, <3>1
    <3>3. l = 1
      BY <1>13, <3>1
    <3>4. s \in Nat
      BY <1>10
    <3> QED
      BY <3>2, <3>3, <3>4
  <2>2. s + 1 = n /\ n >= 4 /\ 1 \in 1 .. n - s
    BY <1>10, <2>1
  <2> QED
    BY <1>11, <1>13, <2>1, <2>2
<1>15. ASSUME NEW i \in 3 .. n - 2 PROVE line[i] # "sp"
  <2>1. PICK j : j = i - 2
    OBVIOUS
  <2>2. j \in 1 .. k - 1 /\ j \in 1 .. n - 2 /\ 2 + j = i
    BY <1>8, <1>9, <1>14, <2>1
  <2> QED
    BY <1>5, <1>8, <2>2
<1>16. Framed(line)
  <2>1. line[2] = "sp" /\ line[n - 1] = "sp"
    BY <1>3, <1>4, <1>10, <1>14
  <2> QED
    BY <1>1, <1>4, <1>14, <1>15, <2>1 DEF Framed
<1> HIDE DEF second, first
<1>17. second = n - 1 /\ first = 2 /\ After(line, second) = <<line[n]>>
  BY <1>2, <1>4, <1>7, <1>9, <1>12, <1>14
<1> QED
  BY <1>1, <1>16, <1>17 DEF SplitAt, first, second

LEMMA FramedIsSplit ==
  ASSUME NEW line \in Texts, Framed(line)
  PROVE  IsSplit(line)
<1> DEFINE first == FirstSpace(line)
           behind == Behind(line)
           second == SecondSpace(line)
<1>1. PICK n \in Nat : n = Len(line)
  BY LenProperties DEF Texts
<1>2. /\ n >= 4 /\ line[1] = "GET" /\ line[2] = "sp" /\ line[n - 1] = "sp"
      /\ \A i \in 3 .. n - 2 : line[i] # "sp"
  BY <1>1 DEF Framed
<1>3. first = 2
  <2>1. 2 \in 1 .. Len(line) /\ \A j \in 1 .. 2 - 1 : line[j] # "sp"
    BY <1>1, <1>2
  <2> QED
    BY <1>2, <2>1, FirstOfIs DEF FirstSpace, Texts
<1>4. PICK t \in Texts : /\ t = behind /\ Len(t) = n - 2
                         /\ \A j \in 1 .. n - 2 : t[j] = line[2 + j]
  <2>1. 2 \in 0 .. Len(line)
    BY <1>1, <1>2
  <2> QED
    BY <1>1, <1>3, <2>1, AfterIs DEF Behind
<1>5. FirstOf(t, "sp") = n - 3
  <2>1. PICK k : k = n - 3
    OBVIOUS
  <2>2. k \in 1 .. Len(t) /\ 2 + k = n - 1 /\ k \in 1 .. n - 2
    BY <1>2, <1>4, <2>1
  <2>3. t[k] = "sp"
    BY <1>2, <1>4, <2>2
  <2>4. ASSUME NEW j \in 1 .. k - 1 PROVE t[j] # "sp"
    <3>1. 2 + j \in 3 .. n - 2 /\ j \in 1 .. n - 2
      BY <1>2, <2>1
    <3> QED
      BY <1>2, <1>4, <3>1
  <2> QED
    BY <2>1, <2>2, <2>3, <2>4, FirstOfIs DEF Texts
<1>6. second = n - 1
  <2> QED
    BY <1>2, <1>3, <1>4, <1>5 DEF SecondSpace
<1>7. Before(line, 2) = <<"GET">>
  <2>1. 2 \in 1 .. Len(line) + 1
    BY <1>1, <1>2
  <2>2. Before(line, 2) \in Texts /\ Len(Before(line, 2)) = 2 - 1
        /\ \A j \in 1 .. 2 - 1 : Before(line, 2)[j] = line[j]
    BY <2>1, BeforeIs
  <2> QED
    BY <1>2, <2>2, OneToken
<1>8. After(line, n - 1) = <<line[n]>>
  <2>1. PICK m : m = n - 1
    OBVIOUS
  <2>2. m \in 0 .. Len(line) /\ Len(line) - m = 1 /\ m + 1 = n
    BY <1>1, <1>2, <2>1
  <2>3. After(line, m) \in Texts /\ Len(After(line, m)) = Len(line) - m
        /\ \A j \in 1 .. Len(line) - m : After(line, m)[j] = line[m + j]
    BY <2>2, AfterIs
  <2>4. After(line, m)[1] = line[n]
    BY <2>2, <2>3
  <2> QED
    BY <2>1, <2>2, <2>3, <2>4, OneToken
<1>9. line[n] \in Versions /\ n - 1 # 2
  BY <1>1, <1>2 DEF Framed
<1> HIDE DEF second, first
<1>10. first # 0 /\ second # first /\ Before(line, first) = <<"GET">> /\ After(line, second) = <<line[n]>>
  BY <1>2, <1>3, <1>6, <1>7, <1>8, <1>9
<1> QED
  BY <1>9, <1>10 DEF IsSplit, first, second

(* What a cut yields. *)
LEMMA CutIsUrl ==
  ASSUME NEW url \in Texts, NEW b \in 1 .. Len(url), NEW a \in 1 .. b, IsCut(url, a, b)
  PROVE  /\ CutUrl(url, a, b) \in Urls
         /\ \A i \in 1 .. Len(CutUrl(url, a, b).host) : CutUrl(url, a, b).host[i] # "/"
         /\ CutUrl(url, a, b).path # <<>> /\ CutUrl(url, a, b).path[1] = "/"
<1>1. b \in 4 .. Len(url) /\ a \in 4 .. b
  BY CutIsFound
<1>2. a \in 4 .. Len(url)
  BY <1>1, LenProperties DEF Texts
<1>3. PICK host \in Texts : host = CutHost(url, a) /\ Len(host) = a - 4
  BY <1>2, CutHostIs
<1>4. PICK path \in Texts : path = CutPath(url, b) /\ path # <<>> /\ path[1] = "/"
  BY <1>1, CutPathHead DEF IsCut
<1>5. PICK port \in Nat : port = CutNumber(url, a, b)
  BY ParserAssumption DEF IsCut
<1>6. PICK u : u = [host |-> host, port |-> port, path |-> path]
  OBVIOUS
<1>7. u \in Urls /\ u.host = host /\ u.path = path
  BY <1>6 DEF Urls, Texts
<1>8. \A i \in 1 .. Len(u.host) : u.host[i] # "/"
  <2>1. a - Len(Scheme) = a - 4
    BY SchemeLen
  <2> QED
    BY <1>3, <1>7, <2>1 DEF IsCut
<1>9. u = CutUrl(url, a, b)
  BY <1>3, <1>4, <1>5, <1>6 DEF CutUrl
<1> QED
  BY <1>4, <1>7, <1>8, <1>9

(* What the parser makes of a line. *)
LineUrl(line) == SubSeq(line, FirstSpace(line) + 1, SecondSpace(line) - 1)

LEMMA ParseLineIs ==
  ASSUME NEW line \in Texts
  PROVE  ParseLine[line] = IF IsSplit(line) /\ ParseUrl[LineUrl(line)] # Refused
                           THEN [url |-> ParseUrl[LineUrl(line)],
                                 version |-> After(line, SecondSpace(line))[1]]
                           ELSE Refused
  BY DEF ParseLine, Texts, IsSplit, LineUrl, FirstSpace, SecondSpace, Behind

LEMMA LineParsed ==
  ASSUME NEW line \in Texts
  PROVE  /\ ParseLine[line] # Refused <=> Framed(line) /\ UrlTaken(UrlOf(line))
         /\ ParseLine[line] # Refused =>
               ParseLine[line] = [url |-> ParseUrl[UrlOf(line)], version |-> line[Len(line)]]
<1>1. PICK n \in Nat : n = Len(line)
  BY LenProperties DEF Texts
<1>2. ASSUME IsSplit(line)
      PROVE  /\ Framed(line) /\ LineUrl(line) = UrlOf(line) /\ UrlOf(line) \in Texts
             /\ After(line, SecondSpace(line))[1] = line[n]
  <2>1. Framed(line) /\ SplitAt(line)
    BY <1>2, SplitIs
  <2>2. FirstSpace(line) + 1 = 3 /\ SecondSpace(line) - 1 = n - 2
    BY <1>1, <2>1 DEF SplitAt
  <2>3. UrlOf(line) \in Texts
    BY <2>1, UrlOfIs DEF Framed
  <2>4. <<line[n]>>[1] = line[n]
    OBVIOUS
  <2> QED
    BY <1>1, <2>1, <2>2, <2>3, <2>4 DEF LineUrl, UrlOf, SplitAt
<1>3. ASSUME UrlOf(line) \in Texts
      PROVE  ParseUrl[UrlOf(line)] # Refused <=> UrlTaken(UrlOf(line))
  <2>1. PICK url \in Texts : url = UrlOf(line)
    BY <1>3
  <2>2. CASE ~ UrlTaken(url)
    BY <2>1, <2>2, ParseUrlIs
  <2>3. CASE UrlTaken(url)
    <3>1. PICK b \in 1 .. Len(url) : \E a \in 1 .. b : IsCut(url, a, b)
      BY <2>3, ParsedIsCut
    <3>2. PICK a \in 1 .. b : IsCut(url, a, b)
      BY <3>1
    <3>3. ParseUrl[url] = CutUrl(url, a, b)
      BY <2>3, <3>2, CutIsParsed, ParsedIsCut
    <3>4. CutUrl(url, a, b) \in Urls
      BY <3>2, CutIsUrl
    <3> QED
      BY <2>1, <2>3, <3>3, <3>4, RefusedAssumption
  <2> QED
    BY <2>1, <2>2, <2>3
<1>4. ASSUME Framed(line) PROVE IsSplit(line)
  BY <1>4, FramedIsSplit
<1>5. CASE ~ IsSplit(line)
  BY <1>4, <1>5, ParseLineIs
<1>6. CASE IsSplit(line)
  <2>1. /\ Framed(line) /\ LineUrl(line) = UrlOf(line) /\ UrlOf(line) \in Texts
        /\ After(line, SecondSpace(line))[1] = line[n]
    BY <1>2, <1>6
  <2>2. ParseUrl[UrlOf(line)] # Refused <=> UrlTaken(UrlOf(line))
    BY <1>3, <2>1
  <2>3. CASE ~ UrlTaken(UrlOf(line))
    BY <1>6, <2>1, <2>2, <2>3, ParseLineIs
  <2>4. CASE UrlTaken(UrlOf(line))
    <3>1. ParseLine[line] = [url |-> ParseUrl[UrlOf(line)], version |-> line[n]]
      BY <1>6, <2>1, <2>2, <2>4, ParseLineIs
    <3>2. line[n] \in Tokens
      BY <1>1, <2>1, ParserAssumption DEF Framed, Versions
    <3>3. ParseUrl[UrlOf(line)] \in Urls
      BY <2>1, <2>2, <2>4, ParseUrlType
    <3>4. ParseLine[line] \in [url : Urls, version : Tokens]
      BY <3>1, <3>2, <3>3
    <3> QED
      BY <1>1, <2>1, <2>4, <3>1, <3>4, RefusedAssumption
  <2> QED
    BY <2>3, <2>4
<1> QED
  BY <1>5, <1>6

(* The shape of a line that has a meaning, in one piece. *)
Whole(url, v) == <<"GET", "sp">> \o Scheme \o After(url, Len(Scheme)) \o <<"sp", v>>

Meant(line) ==
    /\ \E v \in Versions : line = Whole(UrlOf(line), v)
    /\ \A i \in DOMAIN UrlOf(line) : UrlOf(line)[i] # "sp"

LEMMA MeaningsAre ==
  ASSUME NEW line
  PROVE  Meanings(line) =
            IF Meant(line)
            THEN {[url |-> CutUrl(UrlOf(line), x[1], x[2]), version |-> line[Len(line)]] :
                     x \in {y \in (1 .. Len(UrlOf(line))) \X (1 .. Len(UrlOf(line))) :
                              y[1] <= y[2] /\ IsCut(UrlOf(line), y[1], y[2])}}
            ELSE {}
  BY DEF Meanings, Meant, Whole, UrlOf, CutUrl, CutHost, CutPort, CutPath, CutNumber, IsCut

LEMMA SchemeIs ==
  /\ Scheme \in Seq(Chars) /\ Len(Scheme) = 4
  /\ <<"GET", "sp">> \in Seq(Chars) /\ Len(<<"GET", "sp">>) = 2
  /\ <<"GET", "sp">>[1] = "GET" /\ <<"GET", "sp">>[2] = "sp"
<1>1. {"GET", "sp", "http", ":", "/"} \subseteq Chars
  BY ParserAssumption DEF Chars
<1> HIDE DEF Chars
<1> QED
  BY <1>1 DEF Scheme

LEMMA EndIs ==
  ASSUME NEW v \in Versions
  PROVE  <<"sp", v>> \in Seq(Chars) /\ Len(<<"sp", v>>) = 2 /\ <<"sp", v>>[1] = "sp" /\ <<"sp", v>>[2] = v
<1>1. "sp" \in Chars /\ v \in Chars
  BY ParserAssumption DEF Chars, Versions
<1> HIDE DEF Chars
<1> QED
  BY <1>1

(* Where the parts of such a line are. *)
Shape(w, url, v) ==
    /\ w \in Seq(Chars) /\ Len(w) = Len(url) + 4
    /\ w[1] = "GET" /\ w[2] = "sp"
    /\ \A i \in 1 .. 4 : w[2 + i] = Scheme[i]
    /\ \A i \in 5 .. Len(url) : w[2 + i] = url[i]
    /\ w[Len(url) + 3] = "sp" /\ w[Len(url) + 4] = v

LEMMA WholeIs ==
  ASSUME NEW url \in Texts, NEW v \in Versions
  PROVE  /\ Len(url) >= 4 => Shape(Whole(url, v), url, v)
         /\ Len(url) < 4 => Whole(url, v) \in Seq(Chars) /\ Len(Whole(url, v)) = 8
<1>1. PICK n \in Nat : n = Len(url)
  BY LenProperties DEF Texts
<1>2. PICK s \in Seq(Chars) : s = <<"GET", "sp">> /\ Len(s) = 2 /\ s[1] = "GET" /\ s[2] = "sp"
  BY SchemeIs
<1>3. PICK m \in Seq(Chars) : m = Scheme /\ Len(m) = 4
  BY SchemeIs
<1>4. PICK e \in Seq(Chars) : e = <<"sp", v>> /\ Len(e) = 2 /\ e[1] = "sp" /\ e[2] = v
  BY EndIs
<1>5. PICK r \in Seq(Chars) : r = After(url, 4)
  BY AfterIsText, TextsAreChars
<1>6. PICK k1 \in Seq(Chars) : k1 = s \o m /\ Joined(k1, s, m)
  BY JoinedIs
<1>7. PICK k2 \in Seq(Chars) : k2 = k1 \o r /\ Joined(k2, k1, r)
  BY JoinedIs
<1>8. PICK k3 \in Seq(Chars) : k3 = k2 \o e /\ Joined(k3, k2, e)
  BY JoinedIs
<1>9. k3 = Whole(url, v)
  BY <1>2, <1>3, <1>4, <1>5, <1>6, <1>7, <1>8 DEF Whole
<1>10. CASE n < 4
  <2>1. Len(r) = 0
    <3>1. SubSeq(url, 4 + 1, n) = <<>>
      BY <1>1, <1>10, SubSeqProperties DEF Texts
    <3> QED
      BY <1>1, <1>5, <3>1 DEF After
  <2>2. Len(k1) = 6
    BY <1>2, <1>3, <1>6 DEF Joined
  <2>3. Len(k2) = 6
    BY <1>7, <2>1, <2>2 DEF Joined
  <2>4. Len(k3) = 8
    BY <1>4, <1>8, <2>3 DEF Joined
  <2> QED
    BY <1>1, <1>9, <1>10, <2>4
<1>11. CASE n >= 4
  <2>1. Len(r) = n - 4 /\ \A i \in 1 .. n - 4 : r[i] = url[4 + i]
    <3>1. 4 \in 0 .. Len(url)
      BY <1>1, <1>11
    <3> QED
      BY <1>1, <1>5, <3>1, AfterIs
  <2>2. Len(k1) = 6
    BY <1>2, <1>3, <1>6 DEF Joined
  <2>3. Len(k2) = n + 2
    BY <1>7, <1>11, <2>1, <2>2 DEF Joined
  <2>4. Len(k3) = n + 4
    BY <1>4, <1>8, <1>11, <2>3 DEF Joined
  <2>5. \A i \in 1 .. 6 : k3[i] = k1[i]
    BY <1>7, <1>8, <1>11, <2>2, <2>3 DEF Joined
  <2>6. k3[1] = "GET" /\ k3[2] = "sp"
    <3>1. 1 \in 1 .. 6 /\ 2 \in 1 .. 6 /\ 1 \in 1 .. Len(s) /\ 2 \in 1 .. Len(s)
      BY <1>2
    <3> QED
      BY <1>2, <1>6, <2>5, <3>1 DEF Joined
  <2>7. ASSUME NEW i \in 1 .. 4 PROVE k3[2 + i] = Scheme[i]
    <3>1. 2 + i \in 1 .. 6
      OBVIOUS
    <3>2. k1[Len(s) + i] = m[i]
      BY <1>3, <1>6 DEF Joined
    <3> QED
      BY <1>2, <1>3, <2>5, <3>1, <3>2
  <2>8. ASSUME NEW i \in 5 .. n PROVE k3[2 + i] = url[i]
    <3>1. PICK j : j = i - 4
      OBVIOUS
    <3>2. j \in 1 .. n - 4 /\ 4 + j = i /\ 6 + j = 2 + i /\ 2 + i \in 1 .. n + 2
      BY <1>11, <3>1
    <3>3. k2[Len(k1) + j] = r[j]
      BY <1>7, <2>1, <3>2 DEF Joined
    <3>4. k3[2 + i] = k2[2 + i]
      BY <1>8, <2>3, <3>2 DEF Joined
    <3>5. k2[2 + i] = r[j] /\ r[j] = url[i]
      BY <2>1, <2>2, <3>2, <3>3
    <3> QED
      BY <3>4, <3>5
  <2>9. k3[n + 3] = "sp" /\ k3[n + 4] = v
    <3>1. 1 \in 1 .. Len(e) /\ 2 \in 1 .. Len(e)
      BY <1>4
    <3>2. k3[Len(k2) + 1] = "sp" /\ k3[Len(k2) + 2] = v
      BY <1>4, <1>8, <3>1 DEF Joined
    <3>3. Len(k2) + 1 = n + 3 /\ Len(k2) + 2 = n + 4
      BY <2>3
    <3> QED
      BY <3>2, <3>3
  <2> QED
    BY <1>1, <1>9, <1>11, <2>4, <2>6, <2>7, <2>8, <2>9 DEF Shape
<1> QED
  BY <1>1, <1>10, <1>11

LEMMA SchemeOccurs ==
  ASSUME NEW url \in Texts
  PROVE  OccursAt(Scheme, url, 1) <=> Len(url) >= 4 /\ \A j \in 1 .. 4 : url[j] = Scheme[j]
<1>1. PICK n \in Nat : n = Len(url)
  BY LenProperties DEF Texts
<1>2. CASE n = 0
  BY <1>1, <1>2, SchemeIs DEF OccursAt
<1>3. CASE n # 0
  <2>1. url \in Seq(Chars) /\ Scheme \in Seq(Chars) /\ 1 \in 1 .. Len(url)
    BY <1>1, <1>3, TextsAreChars, SchemeIs
  <2>2. OccursAt(Scheme, url, 1) <=>
            /\ 1 + Len(Scheme) - 1 <= Len(url)
            /\ \A j \in 1 .. Len(Scheme) : url[1 + j - 1] = Scheme[j]
    BY <2>1, OccursAtInSeq
  <2>3. 1 + Len(Scheme) - 1 = 4 /\ \A j \in 1 .. 4 : 1 + j - 1 = j
    BY SchemeIs
  <2> QED
    BY <1>1, <2>2, <2>3, SchemeIs
<1> QED
  BY <1>2, <1>3

(* A line has a meaning when the parser splits it and finds the scheme.    *)
LEMMA MeantIs ==
  ASSUME NEW line \in Texts
  PROVE  Meant(line) <=> Framed(line) /\ OccursAt(Scheme, UrlOf(line), 1)
<1>1. PICK n \in Nat : n = Len(line)
  BY LenProperties DEF Texts
<1>2. CASE n < 4
  <2>1. UrlOf(line) = <<>>
    BY <1>1, <1>2, SubSeqProperties DEF UrlOf, Texts
  <2>2. <<>> \in Texts /\ Len(<<>>) = 0
    BY DEF Texts
  <2>3. \A v \in Versions : Len(Whole(UrlOf(line), v)) = 8
    BY <2>1, <2>2, WholeIs
  <2>4. ~ (n = 8)
    BY <1>2
  <2>5. ~ Meant(line)
    BY <1>1, <2>3, <2>4 DEF Meant
  <2>6. ~ Framed(line)
    BY <1>1, <1>2 DEF Framed
  <2> QED
    BY <2>5, <2>6
<1>3. CASE n >= 4
  <2>1. PICK u \in Texts : /\ u = UrlOf(line) /\ Len(u) = n - 4
                           /\ \A i \in 1 .. n - 4 : u[i] = line[2 + i]
    BY <1>1, <1>3, UrlOfIs
  <2>2. CASE n - 4 < 4
    <3>1. \A v \in Versions : Len(Whole(u, v)) = 8
      BY <2>1, <2>2, WholeIs
    <3>2. ~ (n = 8)
      BY <2>2
    <3>3. ~ Meant(line)
      BY <1>1, <2>1, <3>1, <3>2 DEF Meant
    <3>4. ~ OccursAt(Scheme, u, 1)
      BY <2>1, <2>2, SchemeOccurs
    <3> QED
      BY <2>1, <3>3, <3>4
  <2>3. CASE n - 4 >= 4
    <3>1. DOMAIN u = 1 .. n - 4
      BY <2>1, LenProperties DEF Texts
    <3>2. \A v \in Versions : Shape(Whole(u, v), u, v)
      BY <2>1, <2>3, WholeIs
    <3>3. ASSUME Meant(line) PROVE Framed(line) /\ OccursAt(Scheme, u, 1)
      <4>1. PICK v \in Versions : line = Whole(u, v)
        BY <2>1, <3>3 DEF Meant
      <4>2. Shape(line, u, v)
        BY <3>2, <4>1
      <4>3. n - 4 + 3 = n - 1 /\ n - 4 + 4 = n
        OBVIOUS
      <4>4. line[1] = "GET" /\ line[2] = "sp" /\ line[n - 1] = "sp" /\ line[n] = v
        BY <2>1, <4>2, <4>3 DEF Shape
      <4>5. ASSUME NEW i \in 3 .. n - 2 PROVE line[i] # "sp"
        <5>1. PICK j : j = i - 2
          OBVIOUS
        <5>2. j \in 1 .. n - 4 /\ 2 + j = i
          BY <5>1
        <5> QED
          BY <2>1, <3>1, <3>3, <5>2 DEF Meant
      <4>6. ASSUME NEW j \in 1 .. 4 PROVE u[j] = Scheme[j]
        <5>1. j \in 1 .. n - 4
          BY <2>3
        <5> QED
          BY <2>1, <4>2, <5>1 DEF Shape
      <4>7. OccursAt(Scheme, u, 1)
        BY <2>1, <2>3, <4>6, SchemeOccurs
      <4> QED
        BY <1>1, <1>3, <4>4, <4>5, <4>7 DEF Framed
    <3>4. ASSUME Framed(line), OccursAt(Scheme, u, 1) PROVE Meant(line)
      <4>1. PICK v \in Versions : v = line[n]
        BY <1>1, <3>4 DEF Framed
      <4>2. PICK w \in Seq(Chars) : w = Whole(u, v) /\ Shape(w, u, v)
        BY <3>2 DEF Shape
      <4>3. n - 4 + 3 = n - 1 /\ n - 4 + 4 = n
        OBVIOUS
      <4>4. Len(w) = n /\ w[1] = "GET" /\ w[2] = "sp" /\ w[n - 1] = "sp" /\ w[n] = v
        BY <2>1, <4>2, <4>3 DEF Shape
      <4>5. line[1] = "GET" /\ line[2] = "sp" /\ line[n - 1] = "sp"
        BY <1>1, <3>4 DEF Framed
      <4>6. ASSUME NEW i \in 1 .. n - 4 PROVE w[2 + i] = line[2 + i]
        <5>1. CASE i <= 4
          <6>1. i \in 1 .. 4
            BY <5>1
          <6>2. u[i] = Scheme[i]
            BY <3>4, <6>1, SchemeOccurs
          <6> QED
            BY <2>1, <4>2, <6>1, <6>2 DEF Shape
        <5>2. CASE i > 4
          <6>1. i \in 5 .. Len(u)
            BY <2>1, <5>2
          <6> QED
            BY <2>1, <4>2, <6>1 DEF Shape
        <5> QED
          BY <5>1, <5>2
      <4>7. ASSUME NEW i \in 1 .. n PROVE line[i] = w[i]
        <5>1. CASE i \in 3 .. n - 2
          <6>1. PICK j : j = i - 2
            OBVIOUS
          <6>2. j \in 1 .. n - 4 /\ 2 + j = i
            BY <5>1, <6>1
          <6> QED
            BY <4>6, <6>2
        <5>2. CASE i \notin 3 .. n - 2
          <6>1. i = 1 \/ i = 2 \/ i = n - 1 \/ i = n
            BY <5>2
          <6> QED
            BY <4>1, <4>4, <4>5, <6>1
        <5> QED
          BY <5>1, <5>2
      <4>8. line \in Seq(Chars)
        BY TextsAreChars
      <4>9. line = w
        BY <1>1, <4>2, <4>4, <4>7, <4>8, SeqEqual
      <4>10. ASSUME NEW i \in 1 .. n - 4 PROVE u[i] # "sp"
        <5>1. 2 + i \in 3 .. n - 2
          OBVIOUS
        <5> QED
          BY <1>1, <2>1, <3>4, <5>1 DEF Framed
      <4> QED
        BY <2>1, <3>1, <4>2, <4>9, <4>10 DEF Meant
    <3> QED
      BY <2>1, <3>3, <3>4
  <2> QED
    BY <2>2, <2>3
<1> QED
  BY <1>2, <1>3

(* What a cut yields has a key that is read back. *)
LEMMA CutHasKey ==
  ASSUME NEW url \in Texts, NEW b \in 1 .. Len(url), NEW a \in 1 .. b, IsCut(url, a, b)
  PROVE  KeyDecoded(CacheKey(CutUrl(url, a, b))) = CutUrl(url, a, b)
  BY CutIsUrl, KeyIsRead

(* A line has the meaning the parser finds, and no other. *)
LEMMA MeaningIsParsed ==
  ASSUME NEW line \in Texts
  PROVE  /\ Meanings(line) = {ParseLine[line]} \ {Refused}
         /\ \A m \in Meanings(line) : KeyDecoded(CacheKey(m.url)) = m.url
<1>1. PICK u : u = UrlOf(line)
  OBVIOUS
<1>2. ASSUME Framed(line) PROVE u \in Texts
  BY <1>1, <1>2, UrlOfIs DEF Framed
<1>3. CASE ~ Meant(line)
  <2>1. Meanings(line) = {}
    BY <1>3, MeaningsAre
  <2>2. ASSUME Framed(line), UrlTaken(u) PROVE FALSE
    <3>1. OccursAt(Scheme, u, 1)
      BY <1>2, <2>2, ParsedIsCut
    <3> QED
      BY <1>1, <1>3, <2>2, <3>1, MeantIs
  <2>3. ParseLine[line] = Refused
    BY <1>1, <2>2, LineParsed
  <2> QED
    BY <2>1, <2>3
<1>4. CASE Meant(line)
  <2>1. Framed(line) /\ OccursAt(Scheme, u, 1) /\ u \in Texts
    BY <1>1, <1>2, <1>4, MeantIs
  <2> DEFINE Cuts == {y \in (1 .. Len(u)) \X (1 .. Len(u)) : y[1] <= y[2] /\ IsCut(u, y[1], y[2])}
             Meaning(x) == [url |-> CutUrl(u, x[1], x[2]), version |-> line[Len(line)]]
  <2>2. Meanings(line) = {Meaning(x) : x \in Cuts}
    BY <1>1, <1>4, MeaningsAre
  <2>3. ASSUME NEW x \in Cuts
        PROVE  /\ x[2] \in 1 .. Len(u) /\ x[1] \in 1 .. x[2] /\ IsCut(u, x[1], x[2])
               /\ UrlTaken(u) /\ ParseUrl[u] = CutUrl(u, x[1], x[2])
    <3>1. Len(u) \in Nat
      BY <2>1, LenProperties DEF Texts
    <3>2. x[2] \in 1 .. Len(u) /\ x[1] \in 1 .. Len(u) /\ x[1] <= x[2] /\ IsCut(u, x[1], x[2])
      OBVIOUS
    <3>3. x[1] \in 1 .. x[2]
      BY <3>1, <3>2
    <3> QED
      BY <2>1, <3>2, <3>3, CutIsParsed
  <2>4. CASE ~ UrlTaken(u)
    <3>1. Cuts = {}
      BY <2>3, <2>4
    <3>2. ParseLine[line] = Refused
      BY <1>1, <2>4, LineParsed
    <3>3. Meanings(line) = {}
      BY <2>2, <3>1
    <3> QED
      BY <3>2, <3>3
  <2>5. CASE UrlTaken(u)
    <3>1. /\ ParseLine[line] # Refused
          /\ ParseLine[line] = [url |-> ParseUrl[u], version |-> line[Len(line)]]
      BY <1>1, <2>1, <2>5, LineParsed
    <3>2. PICK b \in 1 .. Len(u) : \E a \in 1 .. b : IsCut(u, a, b)
      BY <2>1, <2>5, ParsedIsCut
    <3>3. PICK a \in 1 .. b : IsCut(u, a, b)
      BY <3>2
    <3>4. <<a, b>> \in Cuts
      <4>1. a \in 1 .. Len(u) /\ a <= b
        BY <2>1, LenProperties DEF Texts
      <4> QED
        BY <3>2, <3>3, <4>1
    <3>5. \A x \in Cuts : Meaning(x) = ParseLine[line]
      BY <2>3, <3>1
    <3>6. Meanings(line) = {ParseLine[line]}
      <4> HIDE DEF Cuts, Meaning
      <4> QED
        BY <2>2, <3>4, <3>5
    <3>7. KeyDecoded(CacheKey(ParseUrl[u])) = ParseUrl[u]
      BY <2>1, <2>3, <3>2, <3>3, <3>4, CutHasKey, CutIsParsed
    <3> QED
      BY <3>1, <3>6, <3>7
  <2> QED
    BY <2>4, <2>5
<1> QED
  BY <1>3, <1>4

(* Whatever a client sends and however it is cut: a request line is taken  *)
(* exactly if it has a meaning, the parser's searches find that meaning    *)
(* and the line has no second one; and a cache key names one URL only.     *)
THEOREM AlwaysUnderstood == Spec => []Understood
<1>1. VerdictInv => Understood
  <2> SUFFICES ASSUME VerdictInv, stage = "parsing", LineEnd(Text(got)) # 0
               PROVE  /\ Meanings(RequestLine(Text(got))) = {ParseLine[RequestLine(Text(got))]} \ {Refused}
                      /\ \A m \in Meanings(RequestLine(Text(got))) : KeyDecoded(CacheKey(m.url)) = m.url
    BY DEF Understood
  <2>1. PICK s \in Texts : s = Text(got)
    BY TextIs DEF VerdictInv
  <2>2. LineEnd(s) \in 1 .. Len(s) + 1
    <3>1. LineEnd(s) \in 0 .. Len(s) /\ Len(s) \in Nat
      BY LineEndIsFirst, LenProperties DEF Texts
    <3> QED
      BY <2>1, <3>1
  <2>3. RequestLine(s) \in Texts
    BY <2>2, BeforeIs DEF RequestLine
  <2> QED
    BY <2>1, <2>3, MeaningIsParsed
<1> QED
  BY <1>1, VerdictInit, VerdictNext, PTL DEF Spec

-----------------------------------------------------------------------------
(* The fields that are forwarded. *)

(* What FieldsKept keeps of the first i tokens of a text. *)
KeptWith(s, g, i) ==
    IF i = 0 THEN <<>>
    ELSE IF s[StartOf(s, i)] \in Replaced THEN g[i - 1]
    ELSE Append(g[i - 1], s[i])

KeptTo(s) == CHOOSE g : g = [i \in 0 .. Len(s) |-> KeptWith(s, g, i)]

LEMMA KeptToIs ==
  ASSUME NEW s \in Texts
  PROVE  /\ \A i \in 0 .. Len(s) : KeptTo(s)[i] = KeptWith(s, KeptTo(s), i)
         /\ FieldsKept(s) = KeptTo(s)[Len(s)]
<1> DEFINE S == 0 .. Len(s)
           Base == {0}
           size == [i \in S |-> i]
           pred == [i \in S \ Base |-> i - 1]
           base == [i \in Base |-> <<>>]
           step == [x \in (S \ Base) \X Texts |->
                      IF s[StartOf(s, x[1])] \in Replaced THEN x[2] ELSE Append(x[2], s[x[1]])]
<1>1. Len(s) \in Nat /\ \A i \in 1 .. Len(s) : s[i] \in Tokens
  BY LenProperties, ElementOfSeq DEF Texts
<1>2. \A i \in S \ Base : i \in 1 .. Len(s) /\ i - 1 \in S /\ i - 1 < i
  BY <1>1
<1>3. Descends(S, Texts, size, Base, pred, base, step)
  <2>1. size \in [S -> Nat] /\ Base \subseteq S
    BY <1>1
  <2>2. pred \in [S \ Base -> S] /\ \A x \in S \ Base : size[pred[x]] < size[x]
    BY <1>1
  <2>3. base \in [Base -> Texts]
    BY DEF Texts
  <2>4. step \in [(S \ Base) \X Texts -> Texts]
    <3>1. ASSUME NEW x \in (S \ Base) \X Texts
          PROVE (IF s[StartOf(s, x[1])] \in Replaced THEN x[2] ELSE Append(x[2], s[x[1]])) \in Texts
      <4>1. x[1] \in S \ Base /\ x[2] \in Texts
        OBVIOUS
      <4>2. s[x[1]] \in Tokens
        BY <1>1, <1>2, <4>1
      <4>3. Append(x[2], s[x[1]]) \in Texts
        BY <4>1, <4>2, AppendProperties DEF Texts
      <4> QED
        BY <4>1, <4>3
    <3> HIDE DEF S, Base
    <3> QED
      BY <3>1
  <2> HIDE DEF S, size, Base, pred, base, step
  <2> QED
    BY <2>1, <2>2, <2>3, <2>4 DEF Descends
<1>4. PICK f \in [S -> Texts] : \A i \in S : f[i] = ValueAt(f, i, Base, pred, base, step)
  <2> HIDE DEF S, size, Base, pred, base, step
  <2> QED
    BY <1>3, Recursion
<1>5. ASSUME NEW i \in S PROVE f[i] = KeptWith(s, f, i)
  <2>1. CASE i = 0
    BY <1>4, <2>1 DEF ValueAt, KeptWith
  <2>2. CASE i # 0
    <3>1. i \in S \ Base /\ i - 1 \in S /\ pred[i] = i - 1
      BY <1>2, <2>2
    <3>2. f[i - 1] \in Texts
      <4> HIDE DEF S
      <4> QED
        BY <1>4, <3>1
    <3>3. f[i] = step[<<i, f[i - 1]>>]
      <4> HIDE DEF S, Base, pred, base, step
      <4> QED
        BY <1>4, <3>1 DEF ValueAt
    <3>4. step[<<i, f[i - 1]>>] =
            IF s[StartOf(s, i)] \in Replaced THEN f[i - 1] ELSE Append(f[i - 1], s[i])
      <4> HIDE DEF S, Base
      <4> QED
        BY <3>1, <3>2
    <3> QED
      BY <2>2, <3>3, <3>4 DEF KeptWith
  <2> QED
    BY <2>1, <2>2
<1>6. f = [i \in S |-> KeptWith(s, f, i)]
  <2>1. f = [i \in S |-> f[i]]
    BY <1>4
  <2> HIDE DEF S
  <2> QED
    BY <1>5, <2>1
<1>7. KeptTo(s) = [i \in S |-> KeptWith(s, KeptTo(s), i)]
  BY <1>6 DEF KeptTo
<1>8. FieldsKept(s) = KeptTo(s)[Len(s)]
  BY DEF FieldsKept, KeptTo, KeptWith
<1>9. \A i \in S : KeptTo(s)[i] = KeptWith(s, KeptTo(s), i)
  <2> HIDE DEF S
  <2> QED
    BY <1>7
<1> QED
  BY <1>8, <1>9

LEMMA KeptToType ==
  ASSUME NEW s \in Texts
  PROVE  \A i \in 0 .. Len(s) : KeptTo(s)[i] \in Texts
<1> DEFINE S == 0 .. Len(s)
           size == [i \in S |-> i]
           Good == {i \in S : KeptTo(s)[i] \in Texts}
<1>1. Len(s) \in Nat /\ \A i \in 1 .. Len(s) : s[i] \in Tokens
  BY LenProperties, ElementOfSeq DEF Texts
<1>2. ASSUME NEW i \in S, \A j \in S : size[j] < size[i] => j \in Good
      PROVE  i \in Good
  <2>1. KeptTo(s)[i] = KeptWith(s, KeptTo(s), i)
    BY KeptToIs
  <2>2. CASE i = 0
    <3>1. KeptTo(s)[i] = <<>>
      BY <2>1, <2>2 DEF KeptWith
    <3>2. <<>> \in Texts
      BY DEF Texts
    <3> QED
      BY <3>1, <3>2
  <2>3. CASE i # 0
    <3>1. i - 1 \in S /\ i - 1 < i /\ s[i] \in Tokens
      BY <1>1, <2>3
    <3>2. size[i - 1] < size[i]
      BY <3>1
    <3>3. KeptTo(s)[i - 1] \in Texts
      BY <1>2, <3>1, <3>2
    <3>4. Append(KeptTo(s)[i - 1], s[i]) \in Texts
      BY <3>1, <3>3, AppendProperties DEF Texts
    <3> QED
      BY <2>1, <2>3, <3>3, <3>4 DEF KeptWith
  <2> QED
    BY <2>2, <2>3
<1>3. \A i \in S : i \in Good
  <2>1. size \in [S -> Nat]
    BY <1>1
  <2> HIDE DEF S, size, Good
  <2> QED
    BY <1>2, <2>1, SmallerFirst
<1> QED
  BY <1>3

LEMMA StartIs ==
  ASSUME NEW s, NEW k \in Nat, NEW c \in 1 .. k, c = 1 \/ s[c - 1] = "LF",
         \A j \in c .. k - 1 : s[j] # "LF"
  PROVE  StartOf(s, k) = c
<1> DEFINE Good(j) == /\ j = 1 \/ s[j - 1] = "LF"
                      /\ \A i \in j .. k - 1 : s[i] # "LF"
<1>1. Good(c)
  OBVIOUS
<1>2. ASSUME NEW j \in 1 .. k, Good(j) PROVE j = c
  <2>1. CASE j < c
    <3>1. c - 1 \in j .. k - 1 /\ c # 1
      BY <2>1
    <3> QED
      BY <1>2, <3>1
  <2>2. CASE j > c
    <3>1. j - 1 \in c .. k - 1 /\ j # 1
      BY <2>2
    <3> QED
      BY <1>2, <3>1
  <2> QED
    BY <2>1, <2>2
<1>3. StartOf(s, k) = CHOOSE j \in 1 .. k : Good(j)
  BY DEF StartOf
<1> HIDE DEF Good
<1> QED
  BY <1>1, <1>2, <1>3

(* The filter's decision on a whole line. *)
LEMMA LineKept ==
  ASSUME NEW s \in Texts, NEW p \in 0 .. Len(s), NEW q \in p + 1 .. Len(s),
         \A k \in p + 1 .. q : StartOf(s, k) = p + 1
  PROVE  KeptTo(s)[q] = IF s[p + 1] \in Replaced THEN KeptTo(s)[p]
                        ELSE KeptTo(s)[p] \o SubSeq(s, p + 1, q)
<1> DEFINE With(k) == IF s[p + 1] \in Replaced THEN KeptTo(s)[p]
                      ELSE KeptTo(s)[p] \o SubSeq(s, p + 1, k)
           S == p .. q
           size == [i \in S |-> i]
           Good == {k \in S : KeptTo(s)[k] = With(k)}
<1>1. Len(s) \in Nat /\ \A i \in 1 .. Len(s) : s[i] \in Tokens
  BY LenProperties, ElementOfSeq DEF Texts
<1>2. \A k \in S : k \in 0 .. Len(s)
  BY <1>1
<1>3. KeptTo(s)[p] \in Texts
  BY KeptToType
<1>4. ASSUME NEW k \in S, \A j \in S : size[j] < size[k] => j \in Good
      PROVE  k \in Good
  <2>1. CASE k = p
    <3>1. SubSeq(s, p + 1, p) = <<>>
      BY <1>1, SubSeqEmpty
    <3>2. KeptTo(s)[p] \o <<>> = KeptTo(s)[p]
      BY <1>3, ConcatEmptySeq DEF Texts
    <3> QED
      BY <2>1, <3>1, <3>2
  <2>2. CASE k # p
    <3>1. k - 1 \in S /\ k - 1 < k /\ k # 0 /\ k \in p + 1 .. q /\ k \in 1 .. Len(s) /\ k \in 0 .. Len(s)
      BY <1>1, <2>2
    <3>2. size[k - 1] < size[k]
      BY <3>1
    <3>3. KeptTo(s)[k - 1] = With(k - 1)
      BY <1>4, <3>1, <3>2
    <3>4. KeptTo(s)[k] = KeptWith(s, KeptTo(s), k)
      BY <3>1, KeptToIs
    <3>5. StartOf(s, k) = p + 1
      BY <3>1
    <3>6. CASE s[p + 1] \in Replaced
      BY <3>1, <3>3, <3>4, <3>5, <3>6 DEF KeptWith
    <3>7. CASE s[p + 1] \notin Replaced
      <4>1. KeptTo(s)[k] = Append(KeptTo(s)[p] \o SubSeq(s, p + 1, k - 1), s[k])
        BY <3>1, <3>3, <3>4, <3>5, <3>7 DEF KeptWith
      <4>2. PICK t \in Seq(Tokens) : t = SubSeq(s, p + 1, k - 1)
        <5>1. p + 1 \in Nat \ {0} /\ k - 1 \in Nat /\ p + 1 <= k - 1 + 1 /\ k - 1 <= Len(s)
          BY <3>1
        <5> QED
          BY <5>1, SliceIs DEF Texts
      <4>3. PICK a \in Seq(Tokens) : a = KeptTo(s)[p]
        BY <1>3 DEF Texts
      <4>4. PICK x \in Tokens : x = s[k]
        BY <1>1, <3>1
      <4>5. SubSeq(s, p + 1, k) = t \o <<x>>
        <5>1. p + 1 \in 1 .. Len(s) /\ k \in p + 1 .. Len(s)
          BY <1>1, <3>1
        <5> QED
          BY <4>2, <4>4, <5>1, SubSeqRecursiveSecond DEF Texts
      <4>6. a \o t \in Seq(Tokens) /\ <<x>> \in Seq(Tokens)
        BY ConcatProperties
      <4>7. Append(a \o t, x) = (a \o t) \o <<x>>
        BY <4>6, AppendIsConcat
      <4>8. (a \o t) \o <<x>> = a \o (t \o <<x>>)
        BY <4>6, ConcatAssociative
      <4>9. KeptTo(s)[k] = a \o SubSeq(s, p + 1, k)
        BY <4>1, <4>2, <4>3, <4>4, <4>5, <4>7, <4>8
      <4> QED
        BY <3>7, <4>3, <4>9
    <3> QED
      BY <3>6, <3>7
  <2> QED
    BY <2>1, <2>2
<1>5. \A k \in S : k \in Good
  <2>1. size \in [S -> Nat]
    BY <1>1
  <2> HIDE DEF S, size, Good
  <2> QED
    BY <1>4, <2>1, SmallerFirst
<1>6. q \in S
  BY <1>1
<1> QED
  BY <1>5, <1>6

-----------------------------------------------------------------------------
(* The filter on a line of the request. *)

(* The header fields of a request whose lines end in CR LF: the first is   *)
(* not empty, and there is an empty one at the end only.                   *)
Fields(h) ==
    /\ Crlf(h) /\ Len(h) >= 4 /\ h[1] # "CR"
    /\ \A i \in 1 .. Len(h) - 2 : h[i] = "CR" /\ h[i + 2] = "CR" <=> i = Len(h) - 3

LEMMA CrlfAt ==
  ASSUME NEW s \in Texts, NEW i \in 1 .. Len(s)
  PROVE  OccursAt(CRLF, s, i) <=> i + 1 <= Len(s) /\ s[i] = "CR" /\ s[i + 1] = "LF"
<1>1. OccursAt(CRLF, s, i) <=>
            /\ i + Len(CRLF) - 1 <= Len(s)
            /\ \A j \in 1 .. Len(CRLF) : s[i + j - 1] = CRLF[j]
  BY OccursAtIs, Terminators
<1>2. i + Len(CRLF) - 1 = i + 1 /\ i + 1 - 1 = i /\ i + 2 - 1 = i + 1
  BY Terminators, LenProperties DEF Texts
<1>3. (\A j \in 1 .. Len(CRLF) : s[i + j - 1] = CRLF[j]) <=> s[i] = "CR" /\ s[i + 1] = "LF"
  <2>1. \A j \in 1 .. 2 : j = 1 \/ j = 2
    OBVIOUS
  <2> QED
    BY <1>2, <2>1, Terminators
<1> QED
  BY <1>1, <1>2, <1>3

(* The line that starts behind p, up to the CR at q. *)
IsLine(h, p, q) ==
    /\ p \in 0 .. Len(h) - 2 /\ (p = 0 \/ h[p] = "LF")
    /\ q \in p + 1 .. Len(h) - 1 /\ h[q] = "CR"
    /\ \A i \in p + 1 .. q - 1 : h[i] # "CR"

(* The empty line is the last one. *)
LEMMA LineIs ==
  ASSUME NEW h \in Texts, Fields(h), NEW p, NEW q, IsLine(h, p, q)
  PROVE  /\ q = p + 1 => p = Len(h) - 2
         /\ q # p + 1 => q + 1 <= Len(h) - 2
         /\ h[q + 1] = "LF"
         /\ \A k \in p + 1 .. q + 1 : StartOf(h, k) = p + 1
<1>1. PICK n \in Nat : n = Len(h)
  BY LenProperties DEF Texts
<1>2. /\ n >= 4 /\ h[1] # "CR" /\ DOMAIN h = 1 .. n
      /\ \A i \in 1 .. n - 2 : h[i] = "CR" /\ h[i + 2] = "CR" <=> i = n - 3
  BY <1>1, LenProperties DEF Fields, Texts
<1>3. \A i \in 1 .. n : /\ h[i] = "CR" => i < n /\ h[i + 1] = "LF"
                        /\ h[i] = "LF" => i > 1 /\ h[i - 1] = "CR"
  BY <1>1, <1>2 DEF Fields, Crlf
<1>4. /\ p \in 0 .. n - 2 /\ (p = 0 \/ h[p] = "LF")
      /\ q \in p + 1 .. n - 1 /\ h[q] = "CR"
      /\ \A i \in p + 1 .. q - 1 : h[i] # "CR"
  BY <1>1 DEF IsLine
<1>5. h[n - 3] = "CR" /\ h[n - 1] = "CR"
  <2>1. n - 3 \in 1 .. n - 2 /\ n - 3 + 2 = n - 1
    BY <1>2
  <2> QED
    BY <1>2, <2>1
<1>6. h[q + 1] = "LF"
  BY <1>3, <1>4
<1>7. p # 0 => p > 1 /\ h[p - 1] = "CR"
  BY <1>3, <1>4
<1>8. ASSUME q = p + 1 PROVE p = n - 2
  <2>1. p # 0
    BY <1>2, <1>4, <1>8
  <2>2. PICK i : i = p - 1
    OBVIOUS
  <2>3. i \in 1 .. n - 2 /\ h[i] = "CR" /\ i + 2 = q
    BY <1>4, <1>7, <1>8, <2>1, <2>2
  <2>4. i = n - 3
    BY <1>2, <1>4, <2>3
  <2> QED
    BY <1>4, <2>2, <2>4
<1>9. ASSUME q # p + 1 PROVE q + 1 <= n - 2
  <2>1. q # n - 1
    <3> SUFFICES ASSUME q = n - 1 PROVE FALSE
      OBVIOUS
    <3>1. p < n - 2
      BY <1>4, <1>9
    <3>2. CASE p = n - 3
      <4>1. p # 0
        BY <1>2, <3>2
      <4> QED
        BY <1>4, <1>5, <3>2, <4>1
    <3>3. CASE p < n - 3
      <4>1. n - 3 \in p + 1 .. q - 1
        BY <1>4, <3>3
      <4> QED
        BY <1>4, <1>5, <4>1
    <3> QED
      BY <1>4, <3>1, <3>2, <3>3
  <2>2. q # n - 2
    <3>1. ASSUME q = n - 2 PROVE FALSE
      <4>1. q + 1 = n - 1
        BY <3>1
      <4> QED
        BY <1>5, <1>6, <4>1
    <3> QED
      BY <3>1
  <2> QED
    BY <1>4, <2>1, <2>2
<1>10. ASSUME NEW j \in p + 1 .. q PROVE h[j] # "LF"
  <2> SUFFICES ASSUME h[j] = "LF" PROVE FALSE
    OBVIOUS
  <2>1. j > 1 /\ h[j - 1] = "CR" /\ j \in 1 .. n
    BY <1>3, <1>4
  <2>2. CASE j = p + 1
    <3>1. p # 0 /\ j - 1 = p
      BY <1>4, <2>1, <2>2
    <3> QED
      BY <1>4, <2>1, <3>1
  <2>3. CASE j # p + 1
    <3>1. j - 1 \in p + 1 .. q - 1
      BY <1>4, <2>3
    <3> QED
      BY <1>4, <2>1, <3>1
  <2> QED
    BY <2>2, <2>3
<1>11. ASSUME NEW k \in p + 1 .. q + 1 PROVE StartOf(h, k) = p + 1
  <2>1. PICK c \in 1 .. k : c = p + 1 /\ k \in Nat
    <3>1. k \in Nat /\ p + 1 \in 1 .. k
      BY <1>4
    <3> QED
      BY <3>1
  <2>2. c = 1 \/ h[c - 1] = "LF"
    BY <1>4, <2>1
  <2>3. \A j \in c .. k - 1 : h[j] # "LF"
    BY <1>4, <1>10, <2>1
  <2>4. StartOf(h, k) = c
    BY <2>1, <2>2, <2>3, StartIs
  <2> QED
    BY <2>1, <2>4
<1> QED
  BY <1>1, <1>6, <1>8, <1>9, <1>11

(* The line the filter is at. *)
LEMMA LineIsFound ==
  ASSUME NEW f \in Texts, Fields(f), NEW h \in Texts, Extends(h, f),
         NEW p \in 0 .. Len(f) - 2, p = 0 \/ f[p] = "LF"
  PROVE  IsLine(f, p, p + LineLength(After(h, p)) + 1)
<1>1. PICK n \in Nat : n = Len(f)
  BY LenProperties DEF Texts
<1>2. PICK m \in Nat : m = Len(h)
  BY LenProperties DEF Texts
<1>3. n >= 4 /\ n <= m /\ (\A i \in 1 .. n : h[i] = f[i]) /\ DOMAIN f = 1 .. n
  BY <1>1, <1>2, LenProperties DEF Fields, Extends, Texts
<1>4. \A i \in 1 .. n : f[i] = "CR" => i < n /\ f[i + 1] = "LF"
  BY <1>1, <1>3 DEF Fields, Crlf
<1>5. f[n - 1] = "CR" /\ f[n] = "LF"
  <2>1. n - 3 \in 1 .. n - 2 /\ n - 3 + 2 = n - 1
    BY <1>3
  <2>2. f[n - 1] = "CR"
    BY <1>1, <2>1 DEF Fields
  <2>3. n - 1 \in 1 .. n /\ n - 1 + 1 = n
    BY <1>3
  <2> QED
    BY <1>4, <2>2, <2>3
<1>6. p \in 0 .. m /\ p \in 0 .. n - 2
  BY <1>1, <1>2, <1>3
<1>7. PICK r \in Texts : /\ r = After(h, p) /\ Len(r) = m - p
                         /\ \A j \in 1 .. m - p : r[j] = h[p + j]
  BY <1>2, <1>6, AfterIs
<1>8. PICK l : l = LineLength(r)
  OBVIOUS
<1>9. /\ l \in 0 .. m - p
      /\ \A i \in 1 .. l : ~ OccursAt(CRLF, r, i)
      /\ l < m - p => OccursAt(CRLF, r, l + 1)
  BY <1>7, <1>8, LineLengthIs
<1>10. ASSUME NEW i \in 1 .. n - 1 - p
       PROVE  OccursAt(CRLF, r, i) <=> f[p + i] = "CR"
  <2>1. i \in 1 .. m - p /\ i + 1 \in 1 .. m - p /\ p + i \in 1 .. n /\ p + i + 1 \in 1 .. n
    BY <1>3, <1>6
  <2>2. i \in 1 .. Len(r) /\ i + 1 <= Len(r) /\ p + (i + 1) = p + i + 1
    BY <1>3, <1>6, <1>7
  <2>3. r[i] = f[p + i] /\ r[i + 1] = f[p + i + 1]
    BY <1>3, <1>7, <2>1, <2>2
  <2>4. OccursAt(CRLF, r, i) <=> r[i] = "CR" /\ r[i + 1] = "LF"
    BY <2>2, CrlfAt
  <2> QED
    BY <1>4, <2>1, <2>3, <2>4
<1>11. l < n - 1 - p
  <2>1. PICK d : d = n - 1 - p
    OBVIOUS
  <2>2. d \in 1 .. n - 1 - p /\ p + d = n - 1
    BY <1>6, <2>1
  <2>3. OccursAt(CRLF, r, d)
    BY <1>5, <1>10, <2>2
  <2> QED
    BY <1>6, <1>9, <2>1, <2>2, <2>3
<1>12. PICK q : q = p + l + 1
  OBVIOUS
<1>13. q \in p + 1 .. n - 1 /\ f[q] = "CR"
  <2>1. l + 1 \in 1 .. n - 1 - p /\ p + (l + 1) = q /\ l < m - p
    BY <1>3, <1>6, <1>9, <1>11, <1>12
  <2>2. f[q] = "CR"
    BY <1>9, <1>10, <2>1
  <2> QED
    BY <1>6, <1>9, <1>11, <1>12, <2>2
<1>14. ASSUME NEW i \in p + 1 .. q - 1 PROVE f[i] # "CR"
  <2>1. PICK j : j = i - p
    OBVIOUS
  <2>2. j \in 1 .. l /\ j \in 1 .. n - 1 - p /\ p + j = i
    BY <1>6, <1>9, <1>11, <1>12, <2>1
  <2> QED
    BY <1>9, <1>10, <2>2
<1> QED
  BY <1>1, <1>6, <1>7, <1>8, <1>12, <1>13, <1>14 DEF IsLine

LEMMA AfterAfter ==
  ASSUME NEW h \in Texts, NEW p \in 0 .. Len(h), NEW k \in 0 .. Len(h) - p
  PROVE  After(After(h, p), k) = After(h, p + k)
<1>1. PICK m \in Nat : m = Len(h)
  BY LenProperties DEF Texts
<1>2. PICK r \in Texts : r = After(h, p) /\ Len(r) = m - p /\ \A j \in 1 .. m - p : r[j] = h[p + j]
  BY <1>1, AfterIs
<1>3. k \in 0 .. Len(r) /\ m - p - k \in Nat
  BY <1>1, <1>2
<1>4. PICK t \in Texts : /\ t = After(r, k) /\ Len(t) = m - p - k
                         /\ \A j \in 1 .. m - p - k : t[j] = r[k + j]
  <2>1. /\ After(r, k) \in Texts /\ Len(After(r, k)) = Len(r) - k
        /\ \A j \in 1 .. Len(r) - k : After(r, k)[j] = r[k + j]
    BY <1>3, AfterIs
  <2>2. Len(r) - k = m - p - k
    BY <1>2
  <2> QED
    BY <2>1, <2>2
<1>5. PICK d \in 0 .. Len(h) : d = p + k
  <2>1. p + k \in 0 .. Len(h)
    BY <1>1
  <2> QED
    BY <2>1
<1>6. PICK u \in Texts : /\ u = After(h, d) /\ Len(u) = m - d
                         /\ \A j \in 1 .. m - d : u[j] = h[d + j]
  BY <1>1, AfterIs
<1>7. ASSUME NEW j \in 1 .. m - p - k PROVE t[j] = u[j]
  <2>1. k + j \in 1 .. m - p /\ p + (k + j) = d + j /\ j \in 1 .. m - d
    BY <1>1, <1>5
  <2> QED
    BY <1>2, <1>4, <1>6, <2>1
<1>8. m - d = m - p - k
  BY <1>1, <1>5
<1>9. t = u
  BY <1>4, <1>6, <1>7, <1>8, SeqEqual DEF Texts
<1> QED
  BY <1>2, <1>4, <1>5, <1>6, <1>9

(* The filter's line behind p is l tokens long. *)
LengthAt(h, p, l) == l = LineLength(After(h, p))

(* A turn of the filter on the line of l tokens behind p.                  *)
AtLine(f, h, p, l) == (p = 0 \/ f[p] = "LF") /\ LengthAt(h, p, l)
Turned(f, h, p, l) ==
    /\ l \in Nat
    /\ l = 0 => FieldsKept(f) = KeptTo(f)[p] \o CRLF
    /\ l > 0 => /\ p + l + 2 \in 0 .. Len(f) - 2 /\ f[p + l + 2] = "LF"
                /\ After(After(h, p), l + 2) = After(h, p + l + 2)
                /\ KeptTo(f)[p + l + 2] = KeptTo(f)[p] \o Kept(SubSeq(After(h, p), 1, l))

(* The filter keeps of a line what FieldsKept keeps of it. *)
LEMMA FilterStep ==
  ASSUME NEW f \in Texts, Fields(f), NEW h \in Texts, Extends(h, f),
         NEW p \in 0 .. Len(f) - 2, NEW l, AtLine(f, h, p, l)
  PROVE  Turned(f, h, p, l)
<1>0. (p = 0 \/ f[p] = "LF") /\ LengthAt(h, p, l)
  BY DEF AtLine
<1>1. PICK n \in Nat : n = Len(f)
  BY LenProperties DEF Texts
<1>2. PICK m \in Nat : m = Len(h)
  BY LenProperties DEF Texts
<1>3. n >= 4 /\ n <= m /\ \A i \in 1 .. n : h[i] = f[i]
  BY <1>1, <1>2 DEF Fields, Extends
<1>4. p \in 0 .. m /\ p \in 0 .. n - 2 /\ p \in 0 .. Len(f)
  BY <1>1, <1>2, <1>3
<1>5. PICK r \in Texts : /\ r = After(h, p) /\ Len(r) = m - p
                         /\ \A j \in 1 .. m - p : r[j] = h[p + j]
  BY <1>2, <1>4, AfterIs
<1>6. l \in 0 .. m - p
  BY <1>0, <1>5, LineLengthIs DEF LengthAt
<1>7. PICK q : q = p + l + 1
  OBVIOUS
<1>8. IsLine(f, p, q)
  BY <1>0, <1>7, LineIsFound DEF LengthAt
<1>9. /\ q = p + 1 => p = n - 2
      /\ q # p + 1 => q + 1 <= n - 2
      /\ f[q + 1] = "LF" /\ f[q] = "CR"
      /\ \A k \in p + 1 .. q + 1 : StartOf(f, k) = p + 1
      /\ q \in p + 1 .. n - 1
  <2>1. /\ q = p + 1 => p = Len(f) - 2
        /\ q # p + 1 => q + 1 <= Len(f) - 2
        /\ f[q + 1] = "LF"
        /\ \A k \in p + 1 .. q + 1 : StartOf(f, k) = p + 1
    BY <1>8, LineIs
  <2> QED
    BY <1>1, <1>8, <2>1 DEF IsLine
<1>10. PICK e \in p + 1 .. n : e = q + 1
  <2>1. q + 1 \in p + 1 .. n
    BY <1>1, <1>4, <1>9
  <2> QED
    BY <2>1
<1>11. KeptTo(f)[e] = IF f[p + 1] \in Replaced THEN KeptTo(f)[p]
                      ELSE KeptTo(f)[p] \o SubSeq(f, p + 1, e)
  BY <1>0, <1>1, <1>4, <1>9, <1>10, LineKept
<1>12. q \in Nat /\ e \in Nat /\ p \in Nat /\ e = p + l + 2 /\ q = p + l + 1 /\ l \in Nat
  BY <1>4, <1>6, <1>7, <1>9, <1>10
<1>13. CASE l = 0
  <2>1. q = p + 1 /\ e = n /\ p = n - 2
    BY <1>9, <1>12, <1>13
  <2>2. f[p + 1] \notin Replaced
    BY <1>9, <2>1 DEF Replaced
  <2>3. SubSeq(f, p + 1, e) = CRLF
    <3>1. /\ p + 1 \in Nat \ {0} /\ e = p + 1 - 1 + Len(CRLF) /\ e <= Len(f)
      BY <1>1, <1>12, <2>1, Terminators
    <3>2. \A i \in 1 .. Len(CRLF) : f[p + 1 - 1 + i] = CRLF[i]
      <4>1. \A i \in 1 .. 2 : i = 1 \/ i = 2
        OBVIOUS
      <4>2. p + 1 - 1 + 1 = q /\ p + 1 - 1 + 2 = q + 1
        BY <1>12, <2>1
      <4> QED
        BY <1>9, <4>1, <4>2, Terminators
    <3> QED
      BY <1>12, <3>1, <3>2, SliceEquals, Terminators DEF Texts
  <2>4. FieldsKept(f) = KeptTo(f)[e]
    BY <1>1, <2>1, KeptToIs
  <2>5. FieldsKept(f) = KeptTo(f)[p] \o CRLF
    BY <1>11, <2>2, <2>3, <2>4
  <2> QED
    BY <1>12, <1>13, <2>5 DEF Turned
<1>14. CASE l > 0
  <2>1. e \in 0 .. n - 2 /\ l + 2 \in 0 .. m - p /\ p + (l + 2) = e
    BY <1>3, <1>9, <1>10, <1>12, <1>14
  <2>2. After(r, l + 2) = After(h, e)
    <3>1. PICK k \in 0 .. Len(h) - p : k = l + 2
      BY <1>2, <2>1
    <3>2. p \in 0 .. Len(h) /\ p + k = e
      BY <1>2, <1>4, <2>1, <3>1
    <3> QED
      BY <1>5, <3>1, <3>2, AfterAfter
  <2>3. PICK t \in Texts : t = SubSeq(r, 1, l) /\ Len(t) = l /\ \A i \in 1 .. l : t[i] = r[i]
    <3>1. l \in 0 .. Len(r) /\ r \in Seq(Tokens)
      BY <1>5, <1>6 DEF Texts
    <3>2. /\ SubSeq(r, 1, l) \in Seq(Tokens) /\ Len(SubSeq(r, 1, l)) = l
          /\ \A i \in 1 .. l : SubSeq(r, 1, l)[i] = r[i]
      BY <3>1, PartIs
    <3> QED
      BY <3>2 DEF Texts
  <2>4. \A i \in 1 .. l : t[i] = f[p + i]
    <3>1. \A i \in 1 .. l : i \in 1 .. m - p /\ p + i \in 1 .. n
      BY <1>4, <1>6, <1>9, <1>12
    <3> QED
      BY <1>3, <1>5, <2>3, <3>1
  <2>5. Head(t) = f[p + 1]
    <3>1. t # <<>> /\ 1 \in 1 .. l
      <4>1. Len(<<>>) = 0 /\ ~ (l = 0)
        BY <1>14
      <4>2. l \in Nat
        BY <1>12
      <4>3. t # <<>>
        BY <2>3, <4>1
      <4>4. 1 \in 1 .. l
        BY <1>14, <4>2
      <4> QED
        BY <4>3, <4>4
    <3>2. Head(t) = t[1]
      OBVIOUS
    <3> QED
      BY <2>4, <3>1, <3>2
  <2>6. SubSeq(f, p + 1, e) = t \o CRLF
    <3>1. PICK w \in Texts : w = t \o CRLF /\ Joined(w, t, CRLF)
      BY JoinedIs, Terminators DEF Texts
    <3>2. Len(w) = l + 2
      BY <2>3, <3>1, Terminators DEF Joined
    <3>3. PICK c \in Nat \ {0} : c = p + 1
      BY <1>12
    <3>4. e = c - 1 + Len(w) /\ e <= Len(f)
      BY <1>1, <1>12, <2>1, <3>2, <3>3
    <3>5. ASSUME NEW i \in 1 .. l + 2 PROVE f[c - 1 + i] = w[i]
      <4>1. c - 1 + i = p + i
        BY <1>12, <3>3
      <4>2. CASE i <= l
        <5>1. i \in 1 .. l
          BY <1>12, <4>2
        <5>2. w[i] = t[i]
          BY <2>3, <3>1, <5>1 DEF Joined
        <5> QED
          BY <2>4, <4>1, <5>1, <5>2
      <4>3. CASE i > l
        <5>1. i = l + 1 \/ i = l + 2
          BY <1>12, <4>3
        <5>2. w[l + 1] = "CR" /\ w[l + 2] = "LF"
          <6>1. 1 \in 1 .. Len(CRLF) /\ 2 \in 1 .. Len(CRLF)
            BY Terminators
          <6>2. w[Len(t) + 1] = "CR" /\ w[Len(t) + 2] = "LF"
            BY <3>1, <6>1, Terminators DEF Joined
          <6> QED
            BY <2>3, <6>2
        <5>3. p + (l + 1) = q /\ p + (l + 2) = q + 1
          BY <1>12
        <5> QED
          BY <1>9, <4>1, <5>1, <5>2, <5>3
      <4> QED
        BY <1>12, <4>2, <4>3
    <3>6. SubSeq(f, c, e) = w
      <4>1. \A i \in 1 .. Len(w) : f[c - 1 + i] = w[i]
        BY <3>2, <3>5
      <4>2. f \in Seq(Tokens) /\ w \in Seq(Tokens) /\ e \in Nat
        BY <1>12 DEF Texts
      <4> QED
        BY <3>4, <4>1, <4>2, SliceEquals
    <3> QED
      BY <3>1, <3>3, <3>6
  <2>7. KeptTo(f)[e] = KeptTo(f)[p] \o Kept(t)
    <3>1. CASE f[p + 1] \in Replaced
      <4>1. KeptTo(f)[p] \o <<>> = KeptTo(f)[p]
        BY <1>4, KeptToType, ConcatEmptySeq DEF Texts
      <4> QED
        BY <1>11, <2>5, <3>1, <4>1 DEF Kept
    <3>2. CASE f[p + 1] \notin Replaced
      BY <1>11, <2>5, <2>6, <3>2 DEF Kept
    <3> QED
      BY <3>1, <3>2
  <2> QED
    BY <1>1, <1>5, <1>9, <1>10, <1>12, <1>14, <2>1, <2>2, <2>3, <2>7 DEF Turned
<1> QED
  BY <1>12, <1>13, <1>14

-----------------------------------------------------------------------------
(* The end of the headers. *)

(* What the reader takes for the end of the headers. *)
Ends == {CRLF \o CRLF, <<"LF", "LF">>}

LEMMA EndsAre ==
  /\ \A p \in Ends : p \in Texts /\ Len(p) \in 2 .. 4
  /\ \A s : HasTerminator(s) <=> \E p \in Ends : Occurs(p, s)
<1>1. \A s : HasTerminator(s) <=> \E p \in Ends : Occurs(p, s)
  BY DEF HasTerminator, Ends
<1> QED
  BY <1>1, Terminators DEF Ends

(* The first text with a terminator has nothing behind it. *)
LEMMA FirstEnds ==
  ASSUME stream \in Texts, NEW n \in 1 .. Len(stream), n <= Limit, HasTerminator(Text(n)),
         NEW p \in Ends, NEW i \in 1 .. Len(FirstComplete), OccursAt(p, FirstComplete, i)
  PROVE  i + Len(p) - 1 = Len(FirstComplete)
<1> DEFINE ends == {k \in 1 .. Len(stream) : k <= Limit /\ HasTerminator(Text(k))}
<1>1. Len(stream) \in Nat
  BY LenProperties DEF Texts
<1>2. ends \in SUBSET Nat /\ n \in ends
  BY <1>1
<1>3. PICK m : m = Min(ends)
  OBVIOUS
<1>4. m \in ends /\ \A j \in ends : m <= j
  <2> HIDE DEF ends
  <2> QED
    BY <1>2, <1>3, MinIsLeast
<1>5. m \in 0 .. Len(stream) /\ m <= Limit /\ Limit \in Nat
  BY <1>1, <1>4, PathAssumption
<1>6. PICK f \in Texts : /\ f = FirstComplete /\ f = Text(m) /\ Len(f) \in 0 .. m
                         /\ \A k \in 0 .. m : Extends(f, Text(k))
                         /\ \A k \in 0 .. Len(f) : Len(Text(k)) = k
  BY <1>2, <1>3, <1>5, TextIs DEF FirstComplete
<1>7. PICK l \in 2 .. 4 : l = Len(p)
  BY EndsAre
<1>8. PICK j : j = i + l - 1
  OBVIOUS
<1>9. p \in Texts /\ i \in 1 .. Len(f)
  BY <1>6, EndsAre
<1>10. /\ j <= Len(f) /\ i \in 1 .. j /\ i + Len(p) - 1 = j /\ j \in Nat
       /\ \A k \in 1 .. Len(p) : f[i + k - 1] = p[k]
  <2>1. /\ i + Len(p) - 1 <= Len(f)
        /\ \A k \in 1 .. Len(p) : f[i + k - 1] = p[k]
    BY <1>6, <1>9, OccursAtIs
  <2>2. i + Len(p) - 1 = j
    BY <1>7, <1>8
  <2>3. i \in 1 .. j
    BY <1>6, <1>7, <1>8, <1>9
  <2> QED
    BY <2>1, <2>2, <2>3
<1> SUFFICES ASSUME j < Len(f) PROVE FALSE
  <2>1. Len(f) \in Nat /\ Len(f) = Len(FirstComplete)
    BY <1>6
  <2> HIDE DEF ends
  <2> QED
    BY <1>10, <2>1
<1>11. j \in 1 .. m - 1 /\ j \in 0 .. m /\ j \in 0 .. Len(f) /\ j \in 1 .. Len(stream) /\ j <= Limit
  BY <1>1, <1>5, <1>6, <1>8, <1>9, <1>10
<1>12. PICK t \in Texts : t = Text(j) /\ Len(t) = j /\ Extends(f, t)
  <2>1. j \in 0 .. Len(stream)
    BY <1>11
  <2>2. Text(j) \in Texts
    BY <2>1, TextIs
  <2> QED
    BY <1>6, <1>11, <2>2
<1>13. OccursAt(p, t, i)
  <2>1. i \in 1 .. Len(t)
    BY <1>10, <1>12
  <2>2. i + Len(p) - 1 <= Len(t)
    BY <1>7, <1>8, <1>12, <1>11
  <2>3. ASSUME NEW k \in 1 .. Len(p) PROVE t[i + k - 1] = p[k]
    <3>1. i + k - 1 \in 1 .. Len(t)
      BY <1>7, <1>8, <1>12, <2>1
    <3>2. f[i + k - 1] = t[i + k - 1]
      BY <1>12, <3>1 DEF Extends
    <3> QED
      BY <1>10, <3>2
  <2> QED
    BY <1>9, <1>12, <2>1, <2>2, <2>3, OccursAtIs
<1>14. HasTerminator(t)
  <2>1. i \in 1 .. Len(t)
    BY <1>10, <1>12
  <2>2. Occurs(p, t)
    BY <1>13, <2>1 DEF Occurs
  <2> QED
    BY <2>2, EndsAre
<1>15. j \in ends
  BY <1>11, <1>12, <1>14
<1> QED
  BY <1>4, <1>5, <1>11, <1>15

LEMMA QuadAt ==
  ASSUME NEW s \in Texts, Crlf(s), NEW i \in 1 .. Len(s)
  PROVE  OccursAt(CRLF \o CRLF, s, i) <=> i + 2 <= Len(s) /\ s[i] = "CR" /\ s[i + 2] = "CR"
<1>1. PICK q \in Texts : q = CRLF \o CRLF /\ Len(q) = 4
  BY Terminators
<1>2. q[1] = "CR" /\ q[2] = "LF" /\ q[3] = "CR" /\ q[4] = "LF"
  <2>1. CRLF \in Seq(Tokens) /\ Len(CRLF) = 2 /\ CRLF[1] = "CR" /\ CRLF[2] = "LF"
    BY Terminators DEF Texts
  <2>2. Joined(q, CRLF, CRLF)
    BY <1>1, <2>1, JoinedIs
  <2>3. 1 \in 1 .. Len(CRLF) /\ 2 \in 1 .. Len(CRLF) /\ Len(CRLF) + 1 = 3 /\ Len(CRLF) + 2 = 4
    BY <2>1
  <2> QED
    BY <2>1, <2>2, <2>3 DEF Joined
<1>3. PICK n \in Nat : n = Len(s)
  BY LenProperties DEF Texts
<1>4. \A j \in 1 .. n : s[j] = "CR" => j < n /\ s[j + 1] = "LF"
  BY <1>3, LenProperties DEF Crlf, Texts
<1>5. OccursAt(q, s, i) <=> i + 4 - 1 <= n /\ \A j \in 1 .. 4 : s[i + j - 1] = q[j]
  <2>1. OccursAt(q, s, i) <=> /\ i + Len(q) - 1 <= Len(s)
                              /\ \A j \in 1 .. Len(q) : s[i + j - 1] = q[j]
    BY OccursAtIs
  <2> QED
    BY <1>1, <1>3, <2>1
<1>6. i \in 1 .. n /\ i + 1 - 1 = i /\ i + 2 - 1 = i + 1 /\ i + 3 - 1 = i + 2 /\ i + 4 - 1 = i + 3
  BY <1>3
<1>7. (\A j \in 1 .. 4 : s[i + j - 1] = q[j]) <=>
         s[i] = "CR" /\ s[i + 1] = "LF" /\ s[i + 2] = "CR" /\ s[i + 3] = "LF"
  <2>1. \A j \in 1 .. 4 : j = 1 \/ j = 2 \/ j = 3 \/ j = 4
    OBVIOUS
  <2>2. 1 \in 1 .. 4 /\ 2 \in 1 .. 4 /\ 3 \in 1 .. 4 /\ 4 \in 1 .. 4
    OBVIOUS
  <2> QED
    BY <1>2, <1>6, <2>1, <2>2
<1>8. ASSUME i + 2 <= n, s[i] = "CR", s[i + 2] = "CR"
      PROVE  i + 3 <= n /\ s[i + 1] = "LF" /\ s[i + 3] = "LF"
  <2>1. i + 2 \in 1 .. n /\ i + 2 + 1 = i + 3
    BY <1>6, <1>8
  <2> QED
    BY <1>4, <1>6, <1>8, <2>1
<1>9. i + 3 <= n => i + 2 <= n
  BY <1>6
<1> QED
  BY <1>1, <1>3, <1>5, <1>6, <1>7, <1>8, <1>9

(* The headers end with the text and not before. *)
EndsOnce(s) ==
    /\ HasTerminator(s)
    /\ \A p \in Ends : \A i \in 1 .. Len(s) : OccursAt(p, s, i) => i + Len(p) - 1 = Len(s)

(* The fields of such a text. *)
LEMMA FieldsAre ==
  ASSUME NEW s \in Texts, Crlf(s), EndsOnce(s), Parse[s] # Refused
  PROVE  /\ LineEnd(s) \in 1 .. Len(s) - 1 /\ s[LineEnd(s)] = "CR" /\ s[LineEnd(s) + 1] = "LF"
         /\ After(s, LineEnd(s) + 1) \in Texts /\ Fields(After(s, LineEnd(s) + 1))
<1>1. PICK m \in Nat : m = Len(s)
  BY LenProperties DEF Texts
<1>2. \A i \in 1 .. m : /\ s[i] = "CR" => i < m /\ s[i + 1] = "LF"
                        /\ s[i] = "LF" => i > 1 /\ s[i - 1] = "CR"
                        /\ s[i] # "NUL"
  BY <1>1, LenProperties DEF Crlf, Texts
<1>3. PICK e \in 1 .. m - 1 : e = LineEnd(s)
  BY <1>1, LineBeforeTerminator DEF EndsOnce
<1>4. s[e] \in {"CR", "LF"} /\ \A i \in 1 .. e - 1 : s[i] \notin {"CR", "LF"}
  BY <1>3, LineEndIsFirst
<1>5. s[e] = "CR" /\ s[e + 1] = "LF"
  <2>1. s[e] # "LF"
    <3> SUFFICES ASSUME s[e] = "LF" PROVE FALSE
      OBVIOUS
    <3>1. e > 1 /\ s[e - 1] = "CR"
      BY <1>1, <1>2
    <3>2. e - 1 \in 1 .. e - 1
      BY <1>1, <3>1
    <3> QED
      BY <1>4, <3>1, <3>2
  <2> QED
    BY <1>1, <1>2, <1>4, <2>1
<1>6. PICK d \in 2 .. m : d = e + 1
  <2>1. e + 1 \in 2 .. m
    BY <1>1
  <2> QED
    BY <2>1
<1>7. PICK n \in Nat : n = m - d
  <2>1. m - d \in Nat
    OBVIOUS
  <2> QED
    BY <2>1
<1>8. PICK f \in Texts : f = After(s, d) /\ Len(f) = n /\ \A j \in 1 .. n : f[j] = s[d + j]
  <2>1. d \in 0 .. Len(s)
    BY <1>1
  <2> QED
    BY <1>1, <1>7, <2>1, AfterIs
<1>9. DOMAIN f = 1 .. n
  BY <1>8, LenProperties DEF Texts
<1>10. Crlf(f)
  <2> SUFFICES ASSUME NEW i \in 1 .. n
               PROVE  /\ f[i] = "CR" => i < n /\ f[i + 1] = "LF"
                      /\ f[i] = "LF" => i > 1 /\ f[i - 1] = "CR"
                      /\ f[i] # "NUL"
    BY <1>8, <1>9 DEF Crlf
  <2>1. d + i \in 1 .. m /\ f[i] = s[d + i]
    BY <1>1, <1>7, <1>8
  <2>2. ASSUME f[i] = "CR" PROVE i < n /\ f[i + 1] = "LF"
    <3>1. d + i < m /\ s[d + i + 1] = "LF"
      BY <1>2, <2>1, <2>2
    <3>2. i + 1 \in 1 .. n /\ i < n /\ d + (i + 1) = d + i + 1
      BY <1>1, <1>7, <3>1
    <3> QED
      BY <1>8, <3>1, <3>2
  <2>3. ASSUME f[i] = "LF" PROVE i > 1 /\ f[i - 1] = "CR"
    <3>1. s[d + i - 1] = "CR"
      <4>1. s[d + i] = "LF"
        BY <2>1, <2>3
      <4> QED
        BY <1>2, <2>1, <4>1
    <3>2. i # 1
      <4>1. i = 1 => d + i - 1 = e + 1
        BY <1>6
      <4> QED
        BY <1>5, <3>1, <4>1
    <3>3. i - 1 \in 1 .. n /\ i > 1 /\ d + (i - 1) = d + i - 1
      BY <1>7, <3>2
    <3> QED
      BY <1>8, <3>1, <3>3
  <2> QED
    BY <1>2, <2>1, <2>2, <2>3
<1>11. HasTerminator(f)
  <2>1. HasTerminator(AfterBreak(s, e))
    BY <1>3, ParseIs
  <2>2. OccursAt(CRLF, s, e)
    <3>1. e \in 1 .. Len(s) /\ e + 1 <= Len(s)
      BY <1>1
    <3> QED
      BY <1>5, <3>1, CrlfAt
  <2>3. AfterBreak(s, e) = After(s, e + 1)
    BY <2>2 DEF AfterBreak
  <2> QED
    BY <1>6, <1>8, <2>1, <2>3
<1>12. PICK i \in 1 .. n : OccursAt(CRLF \o CRLF, f, i)
  <2>1. ASSUME NEW i \in 1 .. n, OccursAt(<<"LF", "LF">>, f, i) PROVE FALSE
    <3>1. /\ i + Len(<<"LF", "LF">>) - 1 <= Len(f)
          /\ \A j \in 1 .. Len(<<"LF", "LF">>) : f[i + j - 1] = <<"LF", "LF">>[j]
      BY <1>8, <2>1, OccursAtIs, Terminators
    <3>2. /\ 1 \in 1 .. Len(<<"LF", "LF">>) /\ 2 \in 1 .. Len(<<"LF", "LF">>)
          /\ i + 1 - 1 = i /\ i + 2 - 1 = i + 1 /\ i + Len(<<"LF", "LF">>) - 1 = i + 1
          /\ i + 1 - 1 = i
      BY Terminators
    <3>3. f[i] = "LF" /\ f[i + 1] = "LF" /\ i + 1 <= n
      BY <1>8, <3>1, <3>2
    <3>4. i + 1 \in 1 .. n
      BY <3>3
    <3>5. f[i + 1 - 1] = "CR"
      <4>1. \A j \in 1 .. n : f[j] = "LF" => f[j - 1] = "CR"
        BY <1>9, <1>10 DEF Crlf
      <4>2. PICK j \in 1 .. n : j = i + 1
        BY <3>4
      <4> QED
        BY <3>3, <4>1, <4>2
    <3> QED
      BY <3>2, <3>3, <3>5
  <2>2. ~ Occurs(<<"LF", "LF">>, f)
    BY <1>8, <2>1 DEF Occurs
  <2>3. Occurs(CRLF \o CRLF, f)
    BY <1>11, <2>2 DEF HasTerminator
  <2> QED
    BY <1>8, <2>3 DEF Occurs
<1>13. \A j \in 1 .. n : OccursAt(CRLF \o CRLF, f, j) <=> j + 2 <= n /\ f[j] = "CR" /\ f[j + 2] = "CR"
  BY <1>8, <1>10, QuadAt
<1>14. ASSUME NEW j \in 1 .. m, j + 2 <= m, s[j] = "CR", s[j + 2] = "CR"
       PROVE  j + 3 = m
  <2>1. OccursAt(CRLF \o CRLF, s, j)
    BY <1>1, <1>14, QuadAt
  <2>2. j + Len(CRLF \o CRLF) - 1 = m
    BY <1>1, <2>1 DEF EndsOnce, Ends
  <2> QED
    BY <2>2, Terminators
<1>15. ASSUME NEW j \in 1 .. n - 2, f[j] = "CR", f[j + 2] = "CR"
       PROVE  j = n - 3
  <2>1. PICK k : k = d + j
    OBVIOUS
  <2>2. k \in 1 .. m /\ k + 2 <= m /\ j \in 1 .. n /\ j + 2 \in 1 .. n /\ d + (j + 2) = k + 2
    BY <1>1, <1>7, <2>1
  <2>3. s[k] = "CR" /\ s[k + 2] = "CR"
    BY <1>8, <1>15, <2>1, <2>2
  <2>4. k + 3 = m
    BY <1>14, <2>2, <2>3
  <2> QED
    BY <1>1, <1>7, <2>1, <2>4
<1>16. i \in 1 .. n - 2 /\ f[i] = "CR" /\ f[i + 2] = "CR" /\ i = n - 3
  <2>1. i + 2 <= n /\ f[i] = "CR" /\ f[i + 2] = "CR"
    BY <1>12, <1>13
  <2>2. i \in 1 .. n - 2
    BY <2>1
  <2> QED
    BY <1>15, <2>1, <2>2
<1>17. f[1] # "CR"
  <2> SUFFICES ASSUME f[1] = "CR" PROVE FALSE
    OBVIOUS
  <2>1. d + 1 = e + 2 /\ 1 \in 1 .. n /\ e \in 1 .. m /\ e + 2 <= m
    BY <1>1, <1>6, <1>7, <1>16
  <2>2. s[e + 2] = "CR"
    BY <1>8, <2>1
  <2>3. e + 3 = m
    BY <1>5, <1>14, <2>1, <2>2
  <2> QED
    BY <1>1, <1>6, <1>7, <1>16, <2>3
<1>18. Fields(f)
  BY <1>8, <1>10, <1>15, <1>16, <1>17 DEF Fields
<1> QED
  BY <1>1, <1>3, <1>5, <1>6, <1>8, <1>18

Rest(s) == After(s, LineEnd(s) + 1)
LineOf(s) == ParseLine[RequestLine(s)]

(* What the parser takes of a text that may go on behind its headers.      *)
LEMMA TakenFields ==
  ASSUME NEW s \in Texts, NEW t \in Texts, Extends(t, s), Crlf(s), EndsOnce(s), ~ Bare(s),
         Parse[t] # Refused
  PROVE  /\ Rest(s) \in Texts /\ Fields(Rest(s))
         /\ Parse[t] \in Requests /\ Extends(Parse[t].headers, Rest(s))
         /\ Parse[t].url = LineOf(s).url /\ Parse[t].version = LineOf(s).version
<1>1. HasTerminator(s)
  BY DEF EndsOnce
<1>2. Parse[s] # Refused
  BY <1>1, TakenLaterIsBare
<1>3. PICK m \in Nat : m = Len(s)
  BY LenProperties DEF Texts
<1>4. PICK k \in Nat : k = Len(t)
  BY LenProperties DEF Texts
<1>5. PICK e \in 1 .. m - 1 : /\ e = LineEnd(s) /\ s[e] = "CR" /\ s[e + 1] = "LF"
                              /\ After(s, e + 1) \in Texts /\ Fields(After(s, e + 1))
  BY <1>2, <1>3, FieldsAre
<1>6. LineEnd(t) = e /\ RequestLine(t) = RequestLine(s)
  BY <1>1, <1>5, SameLine
<1>7. m <= k /\ \A i \in 1 .. m : t[i] = s[i]
  BY <1>3, <1>4 DEF Extends
<1>8. e \in 1 .. k /\ e + 1 <= k /\ e \in 1 .. m /\ e + 1 \in 1 .. m
  BY <1>3, <1>4, <1>7
<1>9. AfterBreak(t, e) = After(t, e + 1)
  <2>1. OccursAt(CRLF, t, e)
    BY <1>4, <1>5, <1>7, <1>8, CrlfAt
  <2> QED
    BY <2>1 DEF AfterBreak
<1>10. /\ Parse[t] \in Requests
       /\ Parse[t] = [url |-> LineOf(s).url, version |-> LineOf(s).version, headers |-> After(t, e + 1)]
  BY <1>6, <1>9, ParsedIs DEF LineOf
<1>11. Extends(After(t, e + 1), After(s, e + 1))
  <2>1. PICK d : d = e + 1
    OBVIOUS
  <2>2. d \in 0 .. Len(s) /\ d \in 0 .. Len(t)
    BY <1>3, <1>4, <1>8, <2>1
  <2>3. /\ Len(After(s, d)) = m - d
        /\ \A j \in 1 .. m - d : After(s, d)[j] = s[d + j]
    BY <1>3, <2>2, AfterIs
  <2>4. /\ Len(After(t, d)) = k - d
        /\ \A j \in 1 .. k - d : After(t, d)[j] = t[d + j]
    BY <1>4, <2>2, AfterIs
  <2>5. \A j \in 1 .. m - d : d + j \in 1 .. m /\ j \in 1 .. k - d
    BY <1>3, <1>7, <2>2
  <2>6. m - d <= k - d
    BY <1>3, <1>7, <2>2
  <2>7. PICK u : u = After(s, d)
    OBVIOUS
  <2>8. PICK v : v = After(t, d)
    OBVIOUS
  <2>9. \A j \in 1 .. m - d : v[j] = u[j]
    BY <1>7, <2>3, <2>4, <2>5, <2>7, <2>8
  <2>10. Extends(v, u)
    BY <2>3, <2>4, <2>6, <2>7, <2>8, <2>9 DEF Extends
  <2> QED
    BY <2>1, <2>7, <2>8, <2>10
<1> QED
  BY <1>5, <1>10, <1>11 DEF Rest

-----------------------------------------------------------------------------
(* The way of the fields through the filter. *)

(* The requests ForwardedAsMeant is about, their fields, and the lines the *)
(* proxy puts before them.                                                 *)
Plain == Crlf(FirstComplete) /\ ~ Bare(FirstComplete)
Lines == Rest(FirstComplete)
Own == StartLine(request) \o OwnLines(request.url)

(* What the parser was given, and what the filter has done with it.        *)
ParsedFrom(n) ==
    n \in 1 .. Len(stream) /\ n <= Limit /\ request = Parse[Text(n)] /\ request # Refused

FilteredTo(p) ==
    /\ p \in 0 .. Len(Lines) - 2 /\ (p = 0 \/ Lines[p] = "LF")
    /\ rest = After(request.headers, p)
    /\ outbound = Own \o KeptTo(Lines)[p]

(* The request stays the one that was parsed, and the filter is always at  *)
(* the start of a line, with what FieldsKept keeps of the lines before it. *)
ForwardInv ==
    /\ stage \in {"resolving", "connecting"} \cup Connected => ParsedFrom(got)
    /\ stage = "filtering" /\ Plain => \E p \in Nat : FilteredTo(p)
    /\ stage \in {"writing", "relaying"} /\ Plain => outbound = Own \o FieldsKept(Lines)

LEMMA ForwardInit == Init => ForwardInv
  BY DEF Init, ForwardInv, Connected

LEMMA FieldsTaken ==
  ASSUME stream \in Texts, ParsedFrom(got), Plain
  PROVE  /\ Lines \in Texts /\ Fields(Lines)
         /\ request \in Requests /\ Extends(request.headers, Lines)
         /\ request.url = LineOf(FirstComplete).url /\ request.version = LineOf(FirstComplete).version
<1>1. PICK n \in 1 .. Len(stream) : n = got
  BY DEF ParsedFrom
<1>2. n <= Limit /\ request = Parse[Text(n)] /\ request # Refused
  BY <1>1 DEF ParsedFrom
<1>3. n \in 0 .. Len(stream)
  BY LenProperties DEF Texts
<1>4. PICK t \in Texts : t = Text(n)
  BY <1>3, TextIs
<1>5. HasTerminator(t)
  BY <1>2, <1>4, IncompleteIsRefused
<1>6. PICK s \in Texts : s = FirstComplete /\ HasTerminator(s) /\ Extends(t, s)
  BY <1>2, <1>4, <1>5, FirstIsPart
<1>7. EndsOnce(s)
  <2>1. ASSUME NEW p \in Ends, NEW i \in 1 .. Len(s), OccursAt(p, s, i)
        PROVE  i + Len(p) - 1 = Len(s)
    BY <1>2, <1>4, <1>5, <1>6, <2>1, FirstEnds
  <2> QED
    BY <1>6, <2>1 DEF EndsOnce
<1>8. Crlf(s) /\ ~ Bare(s)
  BY <1>6 DEF Plain
<1>9. Parse[t] # Refused
  BY <1>2, <1>4
<1>10. /\ Rest(s) \in Texts /\ Fields(Rest(s))
       /\ Parse[t] \in Requests /\ Extends(Parse[t].headers, Rest(s))
       /\ Parse[t].url = LineOf(s).url /\ Parse[t].version = LineOf(s).version
  BY <1>6, <1>7, <1>8, <1>9, TakenFields
<1> QED
  BY <1>2, <1>4, <1>6, <1>10 DEF Lines

(* None of this changes with the stream, the reader and the request.       *)
LEMMA SameRequest ==
  ASSUME UNCHANGED reading, request' = request
  PROVE  /\ Plain' = Plain /\ Lines' = Lines /\ Own' = Own /\ stream' = stream
         /\ ParsedFrom(got)' = ParsedFrom(got)
<1>1. stream' = stream /\ got' = got
  BY DEF reading
<1>2. FirstComplete' = FirstComplete
  BY <1>1 DEF FirstComplete, Text
<1> QED
  BY <1>1, <1>2 DEF Plain, Lines, Own, ParsedFrom, Text

(* The start of the filter. *)
LEMMA ForwardStart ==
  ASSUME stream \in Texts, ParsedFrom(got), Plain
  PROVE  /\ 0 \in 0 .. Len(Lines) - 2 /\ After(request.headers, 0) = request.headers
         /\ Own \o KeptTo(Lines)[0] = Own
<1>1. Lines \in Texts /\ Fields(Lines) /\ request \in Requests
  BY FieldsTaken
<1>2. PICK n \in Nat : n = Len(Lines)
  BY <1>1, LenProperties DEF Texts
<1>3. 0 \in 0 .. Len(Lines) - 2 /\ 0 \in 0 .. Len(Lines)
  BY <1>1, <1>2 DEF Fields
<1>4. After(request.headers, 0) = request.headers
  <2>1. request.headers \in Seq(Tokens)
    BY <1>1 DEF Requests
  <2>2. 0 + 1 = 1
    OBVIOUS
  <2> QED
    BY <2>1, <2>2, SubSeqFull DEF After
<1>5. Own \o KeptTo(Lines)[0] = Own
  <2>1. KeptTo(Lines)[0] = <<>>
    BY <1>1, <1>3, KeptToIs DEF KeptWith
  <2>2. Own \in Seq(Chars)
    BY <1>1, OwnIsText DEF Own
  <2> QED
    BY <2>1, <2>2, ConcatEmptySeq
<1> QED
  BY <1>3, <1>4, <1>5

LEMMA CharsAssociate ==
  \A a, b, c \in Seq(Chars) : (a \o b) \o c = a \o (b \o c)
  BY ConcatAssociative

(* A turn of the filter, and its end. *)
LEMMA ForwardLine ==
  ASSUME stream \in Texts, ParsedFrom(got), Plain, NEW p \in Nat, FilteredTo(p),
         NEW l, LengthAt(request.headers, p, l)
  PROVE  /\ l \in Nat
         /\ l = 0 => outbound \o CRLF = Own \o FieldsKept(Lines)
         /\ l > 0 => /\ p + l + 2 \in 0 .. Len(Lines) - 2 /\ Lines[p + l + 2] = "LF"
                     /\ After(rest, l + 2) = After(request.headers, p + l + 2)
                     /\ outbound \o Kept(SubSeq(rest, 1, l)) = Own \o KeptTo(Lines)[p + l + 2]
<1>1. PICK f \in Texts : f = Lines /\ Fields(f) /\ request \in Requests /\ Extends(request.headers, f)
  BY FieldsTaken
<1>2. PICK h \in Texts : h = request.headers
  BY <1>1 DEF Requests, Texts
<1>3. PICK q \in 0 .. Len(f) - 2 : q = p /\ (q = 0 \/ f[q] = "LF")
  BY <1>1 DEF FilteredTo
<1>4. rest = After(h, q) /\ outbound = Own \o KeptTo(f)[q]
  BY <1>1, <1>2, <1>3 DEF FilteredTo
<1>5. AtLine(f, h, q, l)
  BY <1>2, <1>3 DEF AtLine
<1>6. Turned(f, h, q, l)
  BY <1>1, <1>2, <1>5, FilterStep
<1>7. PICK own \in Seq(Chars) : own = Own
  BY <1>1, OwnIsText DEF Own
<1>8. PICK k \in Seq(Chars) : k = KeptTo(f)[q]
  <2>1. q \in 0 .. Len(f)
    BY <1>3, LenProperties DEF Texts
  <2> QED
    BY <2>1, KeptToType, TextsAreChars
<1>9. \A t \in Seq(Chars) : outbound \o t = Own \o (KeptTo(f)[q] \o t)
  <2>1. outbound = own \o k
    BY <1>4, <1>7, <1>8
  <2>2. \A t \in Seq(Chars) : (own \o k) \o t = own \o (k \o t)
    BY CharsAssociate
  <2> QED
    BY <1>7, <1>8, <2>1, <2>2
<1>10. ASSUME l = 0 PROVE outbound \o CRLF = Own \o FieldsKept(Lines)
  BY <1>1, <1>6, <1>9, <1>10, CrlfIs DEF Turned
<1>11. ASSUME l > 0 PROVE outbound \o Kept(SubSeq(rest, 1, l)) = Own \o KeptTo(f)[q + l + 2]
  <2>1. rest \in Texts
    <3>1. q \in Nat
      BY <1>3
    <3> QED
      BY <1>4, <3>1, AfterIsText
  <2>2. l \in 0 .. Len(rest)
    BY <1>2, <1>3, <1>4, <2>1, LineLengthIs DEF LengthAt
  <2>3. SubSeq(rest, 1, l) \in Texts
    BY <2>1, <2>2, PartIs DEF Texts
  <2>4. Kept(SubSeq(rest, 1, l)) \in Seq(Chars)
    BY <2>3, KeptIs
  <2> QED
    BY <1>4, <1>6, <1>9, <1>11, <2>4 DEF Turned
<1> QED
  BY <1>1, <1>2, <1>3, <1>4, <1>6, <1>10, <1>11 DEF Turned

(* A step that keeps the request and neither starts nor goes on with the   *)
(* rewriting.                                                              *)
LEMMA ForwardKept ==
  ASSUME ForwardInv, UNCHANGED reading, request' = request,
         stage \in {"resolving", "connecting"} \cup Connected,
         stage' # "filtering",
         stage' \in {"writing", "relaying"} =>
            stage \in {"writing", "relaying"} /\ outbound' = outbound
  PROVE  ForwardInv'
<1>1. Plain' = Plain /\ Lines' = Lines /\ Own' = Own /\ ParsedFrom(got)' = ParsedFrom(got)
  BY SameRequest
<1>2. ParsedFrom(got)'
  BY <1>1 DEF ForwardInv
<1>3. ASSUME stage' \in {"writing", "relaying"}, Plain' PROVE outbound' = (Own \o FieldsKept(Lines))'
  <2>1. outbound = Own \o FieldsKept(Lines)
    BY <1>1, <1>3 DEF ForwardInv
  <2>2. (FieldsKept(Lines))' = FieldsKept(Lines)
    BY <1>1 DEF FieldsKept, StartOf
  <2> QED
    BY <1>1, <1>3, <2>1, <2>2
<1> QED
  BY <1>2, <1>3 DEF ForwardInv

(* Where the filter is after a step. *)
LEMMA FilteredThen ==
  ASSUME UNCHANGED reading, request' = request,
         NEW p, p \in 0 .. Len(Lines) - 2, p = 0 \/ Lines[p] = "LF",
         rest' = After(request.headers, p), outbound' = Own \o KeptTo(Lines)[p]
  PROVE  FilteredTo(p)'
<1>1. Lines' = Lines /\ Own' = Own
  BY SameRequest
<1>2. (KeptTo(Lines)[p])' = KeptTo(Lines)[p]
  BY <1>1 DEF KeptTo
<1> QED
  BY <1>1, <1>2 DEF FilteredTo

LEMMA ForwardNext == ForwardInv /\ VerdictInv /\ [Next]_vars => ForwardInv'
<1> SUFFICES ASSUME ForwardInv, VerdictInv, [Next]_vars PROVE ForwardInv'
  OBVIOUS
<1> USE DEF connecting, rewriting
<1>1. stream \in Texts /\ Len(stream) \in Nat /\ Limit \in Nat /\ got \in 0 .. Len(stream)
  BY LenProperties, PathAssumption DEF VerdictInv, Texts
<1>2. ASSUME NEW n \in 1 .. Limit, Receive(n) PROVE ForwardInv'
  <2>1. stage' \in {"reading", "parsing", "refused"}
    BY <1>2 DEF Receive, Refuse
  <2> QED
    BY <2>1 DEF ForwardInv, Connected
<1>3. CASE ReceiveEnd \/ ReceiveFails
  <2>1. stage' \in {"parsing", "refused"}
    BY <1>3 DEF ReceiveEnd, ReceiveFails, Refuse
  <2> QED
    BY <2>1 DEF ForwardInv, Connected
<1>4. CASE ParseText
  <2>1. CASE request' = Refused
    <3>1. stage' = "refused"
      BY <1>4, <2>1 DEF ParseText, Refuse
    <3> QED
      BY <3>1 DEF ForwardInv, Connected
  <2>2. CASE request' # Refused
    <3>1. stage' = "resolving" /\ stream' = stream /\ got' = got /\ request' = Parse[Text(got)]
      BY <1>4, <2>2 DEF ParseText, reading
    <3>2. got \in 1 .. Len(stream) /\ got <= Limit
      BY <1>1, <1>4 DEF ParseText, VerdictInv
    <3>3. Text(got)' = Text(got)
      BY <3>1 DEF Text
    <3>4. ParsedFrom(got)'
      BY <2>2, <3>1, <3>2, <3>3 DEF ParsedFrom
    <3> QED
      BY <3>1, <3>4 DEF ForwardInv
  <2> QED
    BY <2>1, <2>2
<1>5. CASE Resolve
  BY <1>5, ForwardKept DEF Resolve, Fail, Connected
<1>6. CASE TryAddress
  BY <1>6, ForwardKept DEF TryAddress, Connected
<1>7. CASE NoAddressLeft \/ TimeoutFails \/ SendFails
  BY <1>7, ForwardKept DEF NoAddressLeft, TimeoutFails, SendFails, Fail, Connected
<1>8. CASE StartRewrite
  <2>1. /\ UNCHANGED reading /\ request' = request /\ stage' = "filtering"
        /\ ParsedFrom(got) /\ rest' = request.headers /\ outbound' = Own
    BY <1>8 DEF StartRewrite, ForwardInv, Connected, Own
  <2>2. Plain' = Plain /\ ParsedFrom(got)'
    BY <2>1, SameRequest
  <2>3. ASSUME Plain PROVE FilteredTo(0)'
    <3>1. 0 \in 0 .. Len(Lines) - 2 /\ After(request.headers, 0) = request.headers
          /\ Own \o KeptTo(Lines)[0] = Own
      BY <1>1, <2>1, <2>3, ForwardStart
    <3> QED
      BY <2>1, <3>1, FilteredThen
  <2> QED
    BY <2>1, <2>2, <2>3 DEF ForwardInv
<1>9. CASE FilterLine
  <2>1. PICK l : l = LineLength(rest)
    OBVIOUS
  <2>2. /\ UNCHANGED reading /\ request' = request /\ stage = "filtering" /\ stage' = "filtering"
        /\ l > 0 /\ outbound' = outbound \o Kept(SubSeq(rest, 1, l)) /\ rest' = After(rest, l + 2)
    BY <1>9, <2>1 DEF FilterLine
  <2>3. Plain' = Plain /\ ParsedFrom(got) /\ ParsedFrom(got)'
    BY <2>2, SameRequest DEF ForwardInv, Connected
  <2>4. ASSUME Plain PROVE \E p \in Nat : FilteredTo(p)'
    <3>1. PICK p \in Nat : FilteredTo(p)
      BY <2>2, <2>4 DEF ForwardInv
    <3>2. LengthAt(request.headers, p, l)
      BY <2>1, <3>1 DEF FilteredTo, LengthAt
    <3>3. /\ l \in Nat /\ p + l + 2 \in 0 .. Len(Lines) - 2 /\ Lines[p + l + 2] = "LF"
          /\ After(rest, l + 2) = After(request.headers, p + l + 2)
          /\ outbound \o Kept(SubSeq(rest, 1, l)) = Own \o KeptTo(Lines)[p + l + 2]
      BY <1>1, <2>2, <2>3, <2>4, <3>1, <3>2, ForwardLine
    <3>4. PICK e \in Nat : e = p + l + 2
      BY <3>1, <3>3
    <3>5. FilteredTo(e)'
      BY <2>2, <3>3, <3>4, FilteredThen
    <3> QED
      BY <3>5
  <2> QED
    BY <2>2, <2>3, <2>4 DEF ForwardInv
<1>10. CASE EndRewrite
  <2>1. PICK l : l = LineLength(rest)
    OBVIOUS
  <2>2. /\ UNCHANGED reading /\ request' = request /\ stage = "filtering" /\ stage' = "writing"
        /\ l = 0 /\ outbound' = outbound \o CRLF
    BY <1>10, <2>1 DEF EndRewrite
  <2>3. Plain' = Plain /\ Lines' = Lines /\ Own' = Own /\ ParsedFrom(got) /\ ParsedFrom(got)'
    BY <2>2, SameRequest DEF ForwardInv, Connected
  <2>4. ASSUME Plain PROVE outbound' = (Own \o FieldsKept(Lines))'
    <3>1. PICK p \in Nat : FilteredTo(p)
      BY <2>2, <2>4 DEF ForwardInv
    <3>2. LengthAt(request.headers, p, l)
      BY <2>1, <3>1 DEF FilteredTo, LengthAt
    <3>3. outbound \o CRLF = Own \o FieldsKept(Lines)
      BY <1>1, <2>2, <2>3, <2>4, <3>1, <3>2, ForwardLine
    <3>4. (FieldsKept(Lines))' = FieldsKept(Lines)
      BY <2>3 DEF FieldsKept, StartOf
    <3> QED
      BY <2>2, <2>3, <3>3, <3>4
  <2> QED
    BY <2>2, <2>3, <2>4 DEF ForwardInv
<1>11. ASSUME NEW n \in 1 .. Len(outbound), Send(n) PROVE ForwardInv'
  BY <1>11, ForwardKept DEF Send, Connected
<1>12. CASE UNCHANGED vars
  <2>1. /\ UNCHANGED reading /\ request' = request /\ stage' = stage /\ rest' = rest
        /\ outbound' = outbound
    BY <1>12 DEF vars
  <2>2. /\ Plain' = Plain /\ Lines' = Lines /\ Own' = Own
        /\ ParsedFrom(got)' = ParsedFrom(got)
    BY <2>1, SameRequest
  <2>3. \A p \in Nat : FilteredTo(p) => FilteredTo(p)'
    <3> SUFFICES ASSUME NEW p \in Nat, FilteredTo(p) PROVE FilteredTo(p)'
      OBVIOUS
    <3> QED
      BY <2>1, FilteredThen DEF FilteredTo
  <2>4. (Own \o FieldsKept(Lines))' = Own \o FieldsKept(Lines)
    BY <2>2 DEF FieldsKept, StartOf
  <2> QED
    BY <2>1, <2>2, <2>3, <2>4 DEF ForwardInv
<1> QED
  BY <1>2, <1>3, <1>4, <1>5, <1>6, <1>7, <1>8, <1>9, <1>10, <1>11, <1>12
     DEF Next, Step, ReadStep, ConnectStep, RewriteStep, SendStep, Finished

(* Whatever a client sends whose request ends all its lines in CR LF, and  *)
(* however it is cut into reads and the rewritten one into sends: what the *)
(* origin has received when its response is waited for is the request line *)
(* in origin form, the proxy's own Host and Connection, and every other    *)
(* field of the client, whole, unchanged and in order.                     *)
THEOREM AlwaysForwardedAsMeant == Spec => []ForwardedAsMeant
<1>1. ForwardInv /\ VerdictInv /\ WriteInv /\ TypeInv /\ ConnectInv => ForwardedAsMeant
  <2> SUFFICES ASSUME ForwardInv, VerdictInv, WriteInv, TypeInv, ConnectInv,
                      stage = "relaying", Plain
               PROVE  received = StartLine(LineOf(FirstComplete)) \o OwnLines(LineOf(FirstComplete).url)
                                    \o FieldsKept(Lines)
    BY DEF ForwardedAsMeant, Plain, Lines, LineOf, Rest
  <2>1. outbound = Own \o FieldsKept(Lines) /\ ParsedFrom(got) /\ stream \in Texts
    BY DEF ForwardInv, VerdictInv, Connected
  <2>2. /\ request.url = LineOf(FirstComplete).url
        /\ request.version = LineOf(FirstComplete).version
    BY <2>1, FieldsTaken
  <2>3. Own = StartLine(LineOf(FirstComplete)) \o OwnLines(LineOf(FirstComplete).url)
    BY <2>2 DEF Own, StartLine
  <2>4. received = outbound
    BY AllReceived
  <2> QED
    BY <2>1, <2>3, <2>4
<1> QED
  BY <1>1, ForwardInit, ForwardNext, VerdictInit, VerdictNext, ConnectInit, ConnectNext,
     TypeInit, TypeNext, WriteInit, WriteNext, PTL DEF Spec

-----------------------------------------------------------------------------
(* The request goes on. *)

(* What is left of the way of a request: its stages only follow one        *)
(* another, and within a stage every step takes some of what it works on.  *)
Ahead == [reading |-> 7, parsing |-> 6, resolving |-> 5, connecting |-> 4, building |-> 3,
          filtering |-> 2, writing |-> 1, relaying |-> 0, refused |-> 0]

Left == CASE stage = "reading" -> Limit - got
          [] stage = "connecting" -> Len(addresses) + 1 - cursor
          [] stage = "filtering" -> Len(rest)
          [] stage = "writing" -> Len(outbound) - written
          [] OTHER -> 0

GoesOn ==
    \/ Ahead[stage'] < Ahead[stage]
    \/ stage' = stage /\ Left \in Nat /\ Left' \in Nat /\ Left' < Left

LEMMA LessIsLeft ==
  ASSUME NEW s \in Texts, LineLength(s) > 0
  PROVE  Len(After(s, LineLength(s) + 2)) < Len(s)
<1>1. PICK l : l = LineLength(s)
  OBVIOUS
<1>2. l \in 0 .. Len(s) /\ l > 0 /\ Len(s) \in Nat
  BY <1>1, LineLengthIs, LenProperties DEF Texts
<1>3. l + 2 + 1 \in Int /\ \A j \in l + 2 + 1 .. Len(s) : s[j] \in Tokens
  BY <1>2, ElementOfSeq DEF Texts
<1>4. Len(SubSeq(s, l + 2 + 1, Len(s))) = IF l + 2 + 1 <= Len(s) THEN Len(s) - (l + 2 + 1) + 1 ELSE 0
  BY <1>2, <1>3, SubSeqProperties
<1> QED
  BY <1>1, <1>2, <1>4 DEF After

LEMMA GoesOnNext == TypeInv /\ ConnectInv /\ VerdictInv /\ Next /\ vars' # vars => GoesOn
<1> SUFFICES ASSUME TypeInv, ConnectInv, VerdictInv, Next, vars' # vars PROVE GoesOn
  OBVIOUS
<1> USE DEF connecting, rewriting
<1>1. /\ Limit \in Nat /\ Len(addresses) \in Nat /\ Len(outbound) \in Nat /\ Len(rest) \in Nat
      /\ got \in 0 .. Limit /\ cursor \in 1 .. Len(addresses) + 1 /\ written \in 0 .. Len(outbound)
      /\ rest \in Texts
  BY PathAssumption, AddressesLen, LenProperties DEF TypeInv, Texts
<1>2. ASSUME NEW n \in 1 .. Limit, Receive(n) PROVE GoesOn
  <2>1. CASE stage' = "reading"
    <3>1. /\ stage = "reading" /\ got + n <= Limit /\ got' = got + n
      BY <1>2 DEF Receive
    <3>2. Left = Limit - got /\ Left' = Limit - got'
      BY <2>1, <3>1 DEF Left
    <3> QED
      BY <1>1, <2>1, <3>1, <3>2 DEF GoesOn
  <2>2. CASE stage' # "reading"
    <3>1. stage = "reading" /\ stage' \in {"parsing", "refused"}
      BY <1>2, <2>2 DEF Receive, Refuse
    <3> QED
      BY <3>1 DEF GoesOn, Ahead
  <2> QED
    BY <2>1, <2>2
<1>3. CASE ReceiveEnd \/ ReceiveFails
  BY <1>3 DEF ReceiveEnd, ReceiveFails, Refuse, GoesOn, Ahead
<1>4. CASE ParseText
  BY <1>4 DEF ParseText, Refuse, GoesOn, Ahead
<1>5. CASE Resolve
  BY <1>5 DEF Resolve, Fail, GoesOn, Ahead
<1>6. CASE TryAddress
  <2>1. CASE addresses[cursor] = "accepts"
    BY <1>6, <2>1 DEF TryAddress, GoesOn, Ahead
  <2>2. CASE addresses[cursor] # "accepts"
    <3>1. /\ stage = "connecting" /\ stage' = "connecting" /\ cursor <= Len(addresses)
          /\ cursor' = cursor + 1 /\ addresses' = addresses
      BY <1>6, <2>2 DEF TryAddress
    <3>2. Left = Len(addresses) + 1 - cursor /\ Left' = Len(addresses) + 1 - cursor'
      BY <3>1 DEF Left
    <3> QED
      BY <1>1, <3>1, <3>2 DEF GoesOn
  <2> QED
    BY <2>1, <2>2
<1>7. CASE NoAddressLeft \/ TimeoutFails \/ SendFails
  BY <1>7 DEF NoAddressLeft, TimeoutFails, SendFails, Fail, GoesOn, Ahead
<1>8. CASE StartRewrite
  BY <1>8 DEF StartRewrite, GoesOn, Ahead
<1>9. CASE FilterLine
  <2>1. /\ stage = "filtering" /\ stage' = "filtering" /\ LineLength(rest) > 0
        /\ rest' = After(rest, LineLength(rest) + 2)
    BY <1>9 DEF FilterLine
  <2>2. Len(rest') < Len(rest)
    BY <1>1, <2>1, LessIsLeft
  <2>3. Len(rest') \in Nat
    <3>1. LineLength(rest) + 2 \in Nat
      BY <1>1, LineLengthIs
    <3>2. rest' \in Texts
      BY <1>1, <2>1, <3>1, AfterIsText
    <3> QED
      BY <3>2, LenProperties DEF Texts
  <2>4. Left = Len(rest) /\ Left' = Len(rest')
    BY <2>1 DEF Left
  <2> QED
    BY <1>1, <2>1, <2>2, <2>3, <2>4 DEF GoesOn
<1>10. CASE EndRewrite
  BY <1>10 DEF EndRewrite, GoesOn, Ahead
<1>11. ASSUME NEW n \in 1 .. Len(outbound), Send(n) PROVE GoesOn
  <2>1. /\ stage = "writing" /\ written + n <= Len(outbound) /\ written' = written + n
        /\ outbound' = outbound /\ stage' \in {"relaying", "writing"}
    BY <1>11 DEF Send
  <2>2. CASE stage' = "relaying"
    BY <2>1, <2>2 DEF GoesOn, Ahead
  <2>3. CASE stage' = "writing"
    <3>1. Left = Len(outbound) - written /\ Left' = Len(outbound) - written'
      BY <2>1, <2>3 DEF Left
    <3> QED
      BY <1>1, <2>1, <2>3, <3>1 DEF GoesOn
  <2> QED
    BY <2>1, <2>2, <2>3
<1>12. ~ Finished
  BY DEF Finished
<1> QED
  BY <1>2, <1>3, <1>4, <1>5, <1>6, <1>7, <1>8, <1>9, <1>10, <1>11, <1>12
     DEF Next, Step, ReadStep, ConnectStep, RewriteStep, SendStep

(* What RequestEnds rests on: whatever the client and the origin do, the   *)
(* worker never goes back, reads at most as often as there are bytes in    *)
(* the buffer, tries each address once, filters at most one line for each  *)
(* byte it got and sends at most as often as there are bytes to send.      *)
THEOREM RequestAlwaysGoesOn == Spec => [][GoesOn]_vars
<1>1. TypeInv /\ ConnectInv /\ VerdictInv /\ [Next]_vars => [GoesOn]_vars
  BY GoesOnNext
<1> QED
  BY <1>1, ConnectInit, ConnectNext, VerdictInit, VerdictNext, TypeInit, TypeNext, PTL DEF Spec
=============================================================================
