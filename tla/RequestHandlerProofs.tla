------------------------ MODULE RequestHandlerProofs ------------------------
(***************************************************************************)
(* Invariance proofs for RequestHandler, for any set of workers, keys and  *)
(* sockets.  HInv is inductive; it says of every buffer a worker holds     *)
(* where its pieces came from (Contents), so that what is stored and what  *)
(* is replayed can be traced to a relay that was complete.                 *)
(***************************************************************************)
EXTENDS RequestHandler, FiniteSetTheorems, SequenceTheorems, TLAPS

(* What HandlerAssumption says, in the form the provers use it. *)
LEMMA Basics ==
    /\ \A r \in Responses : Length[r] \in Nat /\ Length[r] > 0
    /\ MaxCapture \in Nat /\ MaxConnections \in Nat
    /\ NoSocket \notin Sockets /\ NoKey \notin Keys
    /\ IsFiniteSet(Workers)
BY HandlerAssumption

(* What an origin can do on a connection. *)
LEMMA ScriptFields ==
  ASSUME NEW s \in Scripts
  PROVE  s # NoScript /\ s.response \in Responses /\ s.pieces \in Nat
<1>1. PICK r \in Responses : s \in [response : {r}, pieces : 0 .. Length[r],
                                    end : {"close", "reset", "silence"}]
  BY DEF Scripts
<1>2. s.end # NoScript.end
  BY <1>1 DEF NoScript
<1> QED
  BY <1>1, <1>2, Basics

(* A write leaves pieces and pages in the client's stream. *)
LEMMA WriteType ==
  ASSUME NEW S, NEW s \in Seq(S), NEW t \in Seq(S), NEW n \in 0 .. Len(t)
  PROVE  s \o SubSeq(t, 1, n) \in Seq(S)
<1>1. SubSeq(t, 1, n) \in Seq(S)
  <2>1. \A i \in 1 .. n : t[i] \in S
    OBVIOUS
  <2> QED
    BY <2>1
<1> QED
  BY <1>1

(* Writing a sequence of one piece appends the piece. *)
LEMMA WriteOne ==
  ASSUME NEW S, NEW s \in Seq(S), NEW p \in S
  PROVE  s \o SubSeq(<<p>>, 1, 1) = Append(s, p)
<1>1. <<p>> \in Seq(S) /\ Len(<<p>>) = 1
  OBVIOUS
<1>2. SubSeq(<<p>>, 1, 1) = <<p>>
  BY <1>1, SubSeqFull
<1> QED
  BY <1>2

(* Writing all of t to a client that has nothing leaves t. *)
LEMMA WriteWhole ==
  ASSUME NEW S, NEW t \in Seq(S)
  PROVE  <<>> \o SubSeq(t, 1, Len(t)) = t
<1>1. SubSeq(t, 1, Len(t)) = t
  OBVIOUS
<1> QED
  BY <1>1

(* Whatever part of s is written, the client's stream stays well typed and *)
(* the other clients' streams stay as they are.                            *)
LEMMA WriteAllEffect ==
  ASSUME BuffersTyped, NEW w \in Workers,
         NEW s \in Seq(Pieces \cup Pages), NEW n, WriteAll(w, s, n)
  PROVE  /\ sent' \in [Workers -> Seq(Pieces \cup Pages)]
         /\ \A v \in Workers : v # w => sent'[v] = sent[v]
<1>1. sent[w] \o SubSeq(s, 1, n) \in Seq(Pieces \cup Pages)
  BY WriteType DEF WriteAll, BuffersTyped
<1> QED
  BY <1>1 DEF WriteAll, BuffersTyped

(* An error page can be part of what a client gets. *)
LEMMA PageType ==
  ASSUME NEW status \in {400, 408, 413, 502}
  PROVE  <<Page(status)>> \in Seq(Pieces \cup Pages)
BY DEF Pages

(* The metrics calls keep their counters natural numbers. *)
LEMMA CountersTyped ==
  ASSUME NEW c \in [Counters -> Nat]
  PROVE  /\ \A name \in Counters, n \in Nat : Bump(c, name, n) \in [Counters -> Nat]
         /\ Decremented(c) \in [Counters -> Nat]
BY DEF Bump, Decremented, Counters

(* The counters the handler uses exist. *)
LEMMA CounterNames ==
    /\ "total_requests" \in Counters /\ "active_connections" \in Counters
    /\ "cache_hits" \in Counters /\ "cache_misses" \in Counters
    /\ "cache_evictions" \in Counters /\ "origin_fetch_failures" \in Counters
    /\ "bytes_in" \in Counters /\ "bytes_out" \in Counters
BY DEF Counters

(* What every return of the handler does. *)
LEMMA LeaveEffect ==
  ASSUME TypeOK, NEW w \in Workers, NEW how \in Outcomes,
         NEW c \in [Counters -> Nat], Leave(w, how, c)
  PROVE  /\ pc' = [pc EXCEPT ![w] = "idle"]
         /\ client' = [client EXCEPT ![w] = NoSocket]
         /\ outcome' = [outcome EXCEPT ![w] = how] /\ outcome' \in [Workers -> Outcomes]
         /\ counters' \in [Counters -> Nat]
         /\ open' = open \ {client[w]}
BY CountersTyped DEF Leave, TypeOK, WorkersTyped

(* One turn of the relay loop. *)
LEMMA RelayEffect ==
  ASSUME TypeOK, NEW w \in Workers, RelayPiece(w)
  PROVE  /\ Piece(w) \in Pieces
         /\ sent' = [sent EXCEPT ![w] = Append(@, Piece(w))]
<1>1. script[w] \in Scripts /\ taken[w] \in Nat
  BY DEF TypeOK, WorkersTyped, CallLocals, RelayPiece
<1>2. Piece(w) \in Pieces
  BY <1>1, ScriptFields DEF Piece, Pieces
<1>3. sent[w] \o SubSeq(<<Piece(w)>>, 1, 1) = Append(sent[w], Piece(w))
  <2>1. sent[w] \in Seq(Pieces \cup Pages) /\ Piece(w) \in Pieces \cup Pages
    BY <1>2 DEF TypeOK, BuffersTyped
  <2> QED
    BY <2>1, WriteOne
<1> QED
  BY <1>2, <1>3 DEF RelayPiece, WriteAll

(* A return of the handler leaves nothing of the call behind.  What the    *)
(* worker does not hold at that point counts as emptied.                   *)
LEMMA TypeLeave ==
  ASSUME TypeOK, NEW w \in Workers, NEW how \in Outcomes,
         NEW c \in [Counters -> Nat], Leave(w, how, c),
         pc[w] # "relaying",
         cached' \in [Keys -> Seq(Pieces)],
         sent' \in [Workers -> Seq(Pieces \cup Pages)],
         found' = [found EXCEPT ![w] = <<>>],
         capture' = [capture EXCEPT ![w] = <<>>],
         UNCHANGED <<key, origin, script, taken, capturing, history>>
  PROVE  TypeOK'
<1>1. SharedTyped'
  BY LeaveEffect DEF TypeOK, SharedTyped, history
<1>2. WorkersTyped'
  BY LeaveEffect, Basics DEF TypeOK, WorkersTyped
<1>3. BuffersTyped'
  BY DEF TypeOK, BuffersTyped
<1>4. CallLocals'
  <2>1. /\ pc'[w] = "idle" /\ client'[w] = NoSocket
        /\ found'[w] = <<>> /\ capture'[w] = <<>>
        /\ origin'[w] = origin[w] /\ script'[w] = script[w] /\ ~capturing'[w]
    BY LeaveEffect DEF TypeOK, WorkersTyped, BuffersTyped, CallLocals
  <2>2. origin[w] = NoSocket /\ script[w] = NoScript
    BY DEF TypeOK, WorkersTyped, CallLocals
  <2>3. ASSUME NEW v \in Workers, v # w
        PROVE  /\ pc'[v] = pc[v] /\ client'[v] = client[v]
               /\ found'[v] = found[v] /\ capture'[v] = capture[v]
    <3>1. pc' = [pc EXCEPT ![w] = "idle"] /\ client' = [client EXCEPT ![w] = NoSocket]
      BY LeaveEffect
    <3> QED
      BY <2>3, <3>1 DEF TypeOK, WorkersTyped, BuffersTyped
  <2>4. UNCHANGED <<key, origin, script, taken, capturing>>
    OBVIOUS
  <2> SUFFICES ASSUME NEW v \in Workers
               PROVE  CallLocals!(v)'
    BY DEF CallLocals
  <2>5. CASE v = w
    BY <2>1, <2>2, <2>4, <2>5, Basics DEF TypeOK, CallLocals
  <2>6. CASE v # w
    BY <2>3, <2>4, <2>6 DEF TypeOK, CallLocals
  <2> QED
    BY <2>5, <2>6
<1> QED
  BY <1>1, <1>2, <1>3, <1>4 DEF TypeOK

(* Only a worker that replays holds a copy from the cache. *)
LEMMA NothingFound ==
  ASSUME TypeOK, NEW w \in Workers, pc[w] # "replaying"
  PROVE  found = [found EXCEPT ![w] = <<>>]
BY DEF TypeOK, BuffersTyped, CallLocals

(* A worker outside the fetch holds no capture buffer. *)
LEMMA NothingCaptured ==
  ASSUME TypeOK, NEW w \in Workers, pc[w] \notin {"relaying", "storing"} \/ capture[w] = <<>>
  PROVE  capture = [capture EXCEPT ![w] = <<>>]
BY DEF TypeOK, BuffersTyped, CallLocals

(* Evictions leave objects of the cache as they are. *)
LEMMA EvictedType ==
  ASSUME TypeOK, NEW gone
  PROVE  Evicted(gone) \in [Keys -> Seq(Pieces)]
BY DEF Evicted, TypeOK, SharedTyped

(* Every step keeps the variables typed. *)
LEMMA TypeNext ==
  ASSUME TypeOK, NEW w \in Workers, Step(w) PROVE TypeOK'
<1>1. CASE Begin(w)
  <2>1. counters' \in [Counters -> Nat]
    BY <1>1, CountersTyped, CounterNames DEF Begin, TypeOK, SharedTyped, BuffersTyped
  <2>2. SharedTyped'
    BY <1>1, Basics, <2>1
       DEF TypeOK, SharedTyped, Begin, Outcomes, fetch, history
  <2>3. WorkersTyped'
    BY <1>1, Basics
       DEF TypeOK, WorkersTyped, CallLocals, Begin, Outcomes, fetch, history
  <2>4. BuffersTyped'
    BY <1>1, Basics
       DEF TypeOK, SharedTyped, WorkersTyped, BuffersTyped, CallLocals, Begin, Outcomes, fetch, history
  <2>5. CallLocals'
    BY <1>1, Basics
       DEF TypeOK, SharedTyped, WorkersTyped, BuffersTyped, CallLocals, Begin, Outcomes, fetch, history
  <2> QED
    BY <2>2, <2>3, <2>4, <2>5 DEF TypeOK
<1>2. CASE SetTimeoutFails(w)
  <2>1. Decremented(counters) \in [Counters -> Nat]
    BY CountersTyped, CounterNames DEF TypeOK, SharedTyped
  <2>2. Leave(w, "dropped", Decremented(counters)) /\ "dropped" \in Outcomes
    BY <1>2 DEF SetTimeoutFails, Outcomes
  <2>3. sent' \in [Workers -> Seq(Pieces \cup Pages)]
    BY <1>2 DEF SetTimeoutFails, TypeOK, BuffersTyped
  <2>4. cached' \in [Keys -> Seq(Pieces)]
    BY <1>2 DEF SetTimeoutFails, TypeOK, SharedTyped
  <2> QED
    BY <1>2, <2>1, <2>2, <2>3, <2>4, NothingFound, NothingCaptured, TypeLeave
       DEF SetTimeoutFails, fetch
<1>3. CASE ReadFails(w)
  <2>1. Decremented(counters) \in [Counters -> Nat]
    BY CountersTyped, CounterNames DEF TypeOK, SharedTyped
  <2>2. Leave(w, "refused", Decremented(counters)) /\ "refused" \in Outcomes
    BY <1>3 DEF ReadFails, Outcomes
  <2>3. PICK status \in {400, 408, 413, 502}, n \in 0 .. 1 : WriteAll(w, <<Page(status)>>, n)
    BY <1>3 DEF ReadFails
  <2>4. sent' \in [Workers -> Seq(Pieces \cup Pages)]
    <3>1. <<Page(status)>> \in Seq(Pieces \cup Pages)
      BY PageType
    <3> QED
      BY <2>3, <3>1, WriteAllEffect DEF TypeOK
  <2>5. cached' \in [Keys -> Seq(Pieces)]
    BY <1>3 DEF ReadFails, TypeOK, SharedTyped
  <2> QED
    BY <1>3, <2>1, <2>2, <2>3, <2>4, <2>5, NothingFound, NothingCaptured, TypeLeave
       DEF ReadFails, fetch
<1>4. CASE ParseFails(w)
  <2>1. Decremented(Bump(counters, "bytes_in", 1)) \in [Counters -> Nat]
    BY CountersTyped, CounterNames DEF TypeOK, SharedTyped
  <2>2. Leave(w, "refused", Decremented(Bump(counters, "bytes_in", 1))) /\ "refused" \in Outcomes
    BY <1>4 DEF ParseFails, Outcomes
  <2>3. PICK status \in {400, 408, 413, 502}, n \in 0 .. 1 : WriteAll(w, <<Page(status)>>, n)
    BY <1>4 DEF ParseFails
  <2>4. sent' \in [Workers -> Seq(Pieces \cup Pages)]
    <3>1. <<Page(status)>> \in Seq(Pieces \cup Pages)
      BY PageType
    <3> QED
      BY <2>3, <3>1, WriteAllEffect DEF TypeOK
  <2>5. cached' \in [Keys -> Seq(Pieces)]
    BY <1>4 DEF ParseFails, TypeOK, SharedTyped
  <2> QED
    BY <1>4, <2>1, <2>2, <2>3, <2>4, <2>5, NothingFound, NothingCaptured, TypeLeave
       DEF ParseFails, fetch
<1>5. ASSUME NEW k \in Keys, ParseRequest(w, k) PROVE TypeOK'
  <2>1. counters' \in [Counters -> Nat]
    BY <1>5, CountersTyped, CounterNames DEF ParseRequest, TypeOK, SharedTyped, BuffersTyped
  <2>2. SharedTyped'
    BY <1>5, Basics, <2>1
       DEF TypeOK, SharedTyped, ParseRequest, fetch, history
  <2>3. WorkersTyped'
    BY <1>5, Basics
       DEF TypeOK, WorkersTyped, CallLocals, ParseRequest, fetch, history
  <2>4. BuffersTyped'
    BY <1>5, Basics
       DEF TypeOK, SharedTyped, WorkersTyped, BuffersTyped, CallLocals, ParseRequest, fetch, history
  <2>5. CallLocals'
    BY <1>5, Basics
       DEF TypeOK, SharedTyped, WorkersTyped, BuffersTyped, CallLocals, ParseRequest, fetch, history
  <2> QED
    BY <2>2, <2>3, <2>4, <2>5 DEF TypeOK
<1>6. CASE LookupHit(w)
  <2>1. counters' \in [Counters -> Nat]
    BY <1>6, CountersTyped, CounterNames DEF LookupHit, TypeOK, SharedTyped, BuffersTyped
  <2>2. SharedTyped'
    BY <1>6, Basics, <2>1
       DEF TypeOK, SharedTyped, LookupHit, fetch, history
  <2>3. WorkersTyped'
    BY <1>6, Basics
       DEF TypeOK, WorkersTyped, CallLocals, LookupHit, fetch, history
  <2>4. BuffersTyped'
    BY <1>6, Basics
       DEF TypeOK, SharedTyped, WorkersTyped, BuffersTyped, CallLocals, LookupHit, fetch, history
  <2>5. CallLocals'
    BY <1>6, Basics
       DEF TypeOK, SharedTyped, WorkersTyped, BuffersTyped, CallLocals, LookupHit, fetch, history
  <2> QED
    BY <2>2, <2>3, <2>4, <2>5 DEF TypeOK
<1>7. CASE LookupMiss(w)
  <2>1. counters' \in [Counters -> Nat]
    BY <1>7, CountersTyped, CounterNames DEF LookupMiss, TypeOK, SharedTyped, BuffersTyped
  <2>2. SharedTyped'
    BY <1>7, Basics, <2>1
       DEF TypeOK, SharedTyped, LookupMiss, lookup, fetch, history
  <2>3. WorkersTyped'
    BY <1>7, Basics
       DEF TypeOK, WorkersTyped, CallLocals, LookupMiss, lookup, fetch, history
  <2>4. BuffersTyped'
    BY <1>7, Basics
       DEF TypeOK, SharedTyped, WorkersTyped, BuffersTyped, CallLocals, LookupMiss, lookup, fetch, history
  <2>5. CallLocals'
    BY <1>7, Basics
       DEF TypeOK, SharedTyped, WorkersTyped, BuffersTyped, CallLocals, LookupMiss, lookup, fetch, history
  <2> QED
    BY <2>2, <2>3, <2>4, <2>5 DEF TypeOK
<1>8. CASE Replay(w)
  <2>1. PICK n \in 0 .. Len(found[w]), how \in {"replayed", "cut"} :
           /\ WriteAll(w, found[w], n)
           /\ Leave(w, how, Decremented(Bump(counters, "bytes_out", Len(found[w]))))
    BY <1>8 DEF Replay
  <2>2. found[w] \in Seq(Pieces) /\ found[w] \in Seq(Pieces \cup Pages) /\ Len(found[w]) \in Nat
    BY DEF TypeOK, BuffersTyped
  <2>3. Decremented(Bump(counters, "bytes_out", Len(found[w]))) \in [Counters -> Nat] /\ how \in Outcomes
    BY <2>2, CountersTyped, CounterNames DEF TypeOK, SharedTyped, Outcomes
  <2>4. sent' \in [Workers -> Seq(Pieces \cup Pages)]
    BY <2>1, <2>2, WriteAllEffect DEF TypeOK
  <2>5. cached' \in [Keys -> Seq(Pieces)]
    BY <1>8 DEF Replay, TypeOK, SharedTyped
  <2> QED
    BY <1>8, <2>1, <2>3, <2>4, <2>5, NothingCaptured, TypeLeave DEF Replay, fetch
<1>9. ASSUME NEW s \in Scripts, Connect(w, s) PROVE TypeOK'
  <2>1. SharedTyped'
    BY <1>9, Basics
       DEF TypeOK, SharedTyped, Connect, lookup, history
  <2>2. WorkersTyped'
    BY <1>9, Basics, ScriptFields
       DEF TypeOK, WorkersTyped, CallLocals, Connect, lookup, history
  <2>3. BuffersTyped'
    BY <1>9, Basics
       DEF TypeOK, SharedTyped, WorkersTyped, BuffersTyped, CallLocals, Connect, lookup, history
  <2>4. CallLocals'
    BY <1>9, Basics, ScriptFields
       DEF TypeOK, SharedTyped, WorkersTyped, BuffersTyped, CallLocals, Connect, lookup, history
  <2> QED
    BY <2>1, <2>2, <2>3, <2>4 DEF TypeOK
<1>10. CASE ConnectFails(w)
  <2>1. SharedTyped'
    BY <1>10, Basics
       DEF TypeOK, SharedTyped, ConnectFails, shared, lookup, fetch, history
  <2>2. WorkersTyped'
    BY <1>10, Basics
       DEF TypeOK, WorkersTyped, CallLocals, ConnectFails, shared, lookup, fetch, history
  <2>3. BuffersTyped'
    BY <1>10, Basics
       DEF TypeOK, SharedTyped, WorkersTyped, BuffersTyped, CallLocals, ConnectFails, shared, lookup, fetch, history
  <2>4. CallLocals'
    BY <1>10, Basics
       DEF TypeOK, SharedTyped, WorkersTyped, BuffersTyped, CallLocals, ConnectFails, shared, lookup, fetch, history
  <2> QED
    BY <2>1, <2>2, <2>3, <2>4 DEF TypeOK
<1>11. CASE RelayPiece(w)
  <2>1. /\ Piece(w) \in Pieces /\ taken[w] \in Nat
        /\ sent' = [sent EXCEPT ![w] = Append(@, Piece(w))]
        /\ taken' = [taken EXCEPT ![w] = @ + 1]
        /\ UNCHANGED <<shared, pc, lookup, origin, script, outcome, history>>
    BY <1>11, RelayEffect DEF RelayPiece, TypeOK, WorkersTyped
  <2>2. /\ capture' \in [Workers -> Seq(Pieces)]
        /\ capturing' \in [Workers -> BOOLEAN]
        /\ \A v \in Workers : Len(capture'[v]) <= MaxCapture
        /\ \A v \in Workers : capturing'[v] => capturing[v]
        /\ \A v \in Workers : capture'[v] # <<>> => capture[v] # <<>> \/ capturing[v]
        /\ \A v \in Workers : capture'[v] # <<>> /\ capturing[v] => capturing'[v]
    <3>1. CASE capturing[w] /\ KeepPiece(w)
      BY <2>1, <3>1, Basics DEF KeepPiece, TypeOK, WorkersTyped, BuffersTyped, CallLocals
    <3>2. CASE capturing[w] /\ DropCapture(w)
      BY <3>2, Basics DEF DropCapture, TypeOK, WorkersTyped, BuffersTyped, CallLocals
    <3>3. CASE ~capturing[w] /\ UNCHANGED <<capture, capturing>>
      BY <3>3 DEF TypeOK, WorkersTyped, BuffersTyped, CallLocals
    <3> QED
      BY <1>11, <3>1, <3>2, <3>3 DEF RelayPiece
  <2>3. SharedTyped'
    BY <2>1 DEF TypeOK, SharedTyped, shared, history
  <2>4. WorkersTyped'
    <3>1. taken' \in [Workers -> Nat]
      BY <2>1 DEF TypeOK, WorkersTyped
    <3>2. UNCHANGED <<pc, client, key, origin, script, outcome>>
      BY <2>1 DEF lookup
    <3> QED
      BY <2>2, <3>1, <3>2 DEF TypeOK, WorkersTyped
  <2>5. BuffersTyped'
    <3>1. Append(sent[w], Piece(w)) \in Seq(Pieces \cup Pages)
      BY <2>1 DEF TypeOK, BuffersTyped
    <3> QED
      BY <2>1, <2>2, <3>1 DEF TypeOK, BuffersTyped, lookup
  <2>6. CallLocals'
    BY <2>1, <2>2 DEF TypeOK, CallLocals, lookup
  <2> QED
    BY <2>3, <2>4, <2>5, <2>6 DEF TypeOK
<1>12. CASE ClientGone(w)
  <2>1. SharedTyped'
    BY <1>12, Basics
       DEF TypeOK, SharedTyped, ClientGone, EndFetch, lookup, history
  <2>2. WorkersTyped'
    BY <1>12, Basics
       DEF TypeOK, WorkersTyped, CallLocals, ClientGone, EndFetch, lookup, history
  <2>3. BuffersTyped'
    BY <1>12, Basics
       DEF TypeOK, SharedTyped, WorkersTyped, BuffersTyped, CallLocals, ClientGone, EndFetch, lookup, history
  <2>4. CallLocals'
    BY <1>12, Basics
       DEF TypeOK, SharedTyped, WorkersTyped, BuffersTyped, CallLocals, ClientGone, EndFetch, lookup, history
  <2> QED
    BY <2>1, <2>2, <2>3, <2>4 DEF TypeOK
<1>13. CASE OriginFails(w)
  <2>1. SharedTyped'
    BY <1>13, Basics
       DEF TypeOK, SharedTyped, OriginFails, EndFetch, lookup
  <2>2. WorkersTyped'
    BY <1>13, Basics
       DEF TypeOK, WorkersTyped, CallLocals, OriginFails, EndFetch, lookup
  <2>3. BuffersTyped'
    BY <1>13, Basics
       DEF TypeOK, SharedTyped, WorkersTyped, BuffersTyped, CallLocals, OriginFails, EndFetch, lookup
  <2>4. CallLocals'
    BY <1>13, Basics
       DEF TypeOK, SharedTyped, WorkersTyped, BuffersTyped, CallLocals, OriginFails, EndFetch, lookup
  <2> QED
    BY <2>1, <2>2, <2>3, <2>4 DEF TypeOK
<1>14. CASE OriginCloses(w)
  <2>1. counters' \in [Counters -> Nat]
    BY <1>14, CountersTyped, CounterNames DEF OriginCloses, TypeOK, SharedTyped, WorkersTyped
  <2>2. key[w] \in Keys /\ sent[w] \in Seq(Pieces \cup Pages)
    BY <1>14 DEF OriginCloses, TypeOK, BuffersTyped, CallLocals
  <2>3. SharedTyped'
    BY <1>14, <2>1, <2>2 DEF OriginCloses, TypeOK, SharedTyped, WorkersTyped, CallLocals
  <2>4. WorkersTyped'
    BY <1>14 DEF OriginCloses, EndFetch, lookup, TypeOK, WorkersTyped
  <2>5. BuffersTyped'
    BY <1>14 DEF OriginCloses, EndFetch, lookup, TypeOK, BuffersTyped
  <2>6. CallLocals'
    BY <1>14 DEF OriginCloses, EndFetch, lookup, TypeOK, WorkersTyped, BuffersTyped, CallLocals
  <2> QED
    BY <2>3, <2>4, <2>5, <2>6 DEF TypeOK
<1>15. CASE AnswerFailure(w)
  <2>1. Decremented(Bump(counters, "origin_fetch_failures", 1)) \in [Counters -> Nat]
    BY CountersTyped, CounterNames DEF TypeOK, SharedTyped
  <2>2. Leave(w, "failed", Decremented(Bump(counters, "origin_fetch_failures", 1))) /\ "failed" \in Outcomes
    BY <1>15 DEF AnswerFailure, Outcomes
  <2>3. PICK status \in {400, 408, 413, 502}, n \in 0 .. 1 : WriteAll(w, <<Page(status)>>, n)
    BY <1>15 DEF AnswerFailure
  <2>4. sent' \in [Workers -> Seq(Pieces \cup Pages)]
    <3>1. <<Page(status)>> \in Seq(Pieces \cup Pages)
      BY PageType
    <3> QED
      BY <2>3, <3>1, WriteAllEffect DEF TypeOK
  <2>5. cached' \in [Keys -> Seq(Pieces)]
    BY <1>15 DEF AnswerFailure, TypeOK, SharedTyped
  <2> QED
    BY <1>15, <2>1, <2>2, <2>3, <2>4, <2>5, NothingFound, NothingCaptured, TypeLeave
       DEF AnswerFailure, fetch
<1>16. CASE Store(w)
  <2>1. PICK gone \in Evictions(key[w]) :
           /\ cached' = [Evicted(gone) EXCEPT ![key[w]] = capture[w]]
           /\ Leave(w, "relayed", Decremented(Bump(counters, "cache_evictions", IF gone = {} THEN 0 ELSE 1)))
    BY <1>16 DEF Store
  <2>2. Decremented(Bump(counters, "cache_evictions", IF gone = {} THEN 0 ELSE 1)) \in [Counters -> Nat]
    BY CountersTyped, CounterNames DEF TypeOK, SharedTyped
  <2>3. cached' \in [Keys -> Seq(Pieces)]
    BY <2>1, EvictedType DEF TypeOK, BuffersTyped
  <2>4. sent' \in [Workers -> Seq(Pieces \cup Pages)] /\ "relayed" \in Outcomes
    BY <1>16 DEF Store, TypeOK, BuffersTyped, Outcomes
  <2> QED
    BY <1>16, <2>1, <2>2, <2>3, <2>4, NothingFound, TypeLeave DEF Store
<1>17. CASE StoreFails(w)
  <2>1. cached' \in [Keys -> Seq(Pieces)]
    BY <1>17, EvictedType DEF StoreFails
  <2>2. Leave(w, "relayed", Decremented(counters)) /\ Decremented(counters) \in [Counters -> Nat] /\ "relayed" \in Outcomes
    BY <1>17, CountersTyped DEF StoreFails, TypeOK, SharedTyped, Outcomes
  <2>3. sent' \in [Workers -> Seq(Pieces \cup Pages)]
    BY <1>17 DEF StoreFails, TypeOK, BuffersTyped
  <2> QED
    BY <1>17, <2>1, <2>2, <2>3, NothingFound, TypeLeave DEF StoreFails
<1>18. CASE SkipStore(w)
  <2>1. Decremented(counters) \in [Counters -> Nat]
    BY CountersTyped, CounterNames DEF TypeOK, SharedTyped
  <2>2. Leave(w, "relayed", Decremented(counters)) /\ "relayed" \in Outcomes
    BY <1>18 DEF SkipStore, Outcomes
  <2>3. sent' \in [Workers -> Seq(Pieces \cup Pages)]
    BY <1>18 DEF SkipStore, TypeOK, BuffersTyped
  <2>4. cached' \in [Keys -> Seq(Pieces)]
    BY <1>18 DEF SkipStore, TypeOK, SharedTyped
  <2> QED
    BY <1>18, <2>1, <2>2, <2>3, <2>4, NothingFound, NothingCaptured, TypeLeave
       DEF SkipStore, fetch
<1> QED
  BY <1>1, <1>2, <1>3, <1>4, <1>5, <1>6, <1>7, <1>8, <1>9, <1>10, <1>11, <1>12, <1>13,
     <1>14, <1>15, <1>16, <1>17, <1>18 DEF Step, Request, Lookup, Fetch, Finish

(***************************************************************************)
(* Sockets.                                                                *)
(***************************************************************************)

(* A return closes the client's socket, which belonged to nobody else.     *)
LEMMA SocketsLeave ==
  ASSUME TypeOK, SocketsOwned, NEW w \in Workers, NEW how, NEW c, Leave(w, how, c),
         pc[w] \notin {"idle", "relaying"}, origin' = origin
  PROVE  SocketsOwned'
<1>1. /\ pc' = [pc EXCEPT ![w] = "idle"]
      /\ client' = [client EXCEPT ![w] = NoSocket]
      /\ open' = open \ {client[w]}
  BY DEF Leave
<1>2. Busy' = Busy \ {w} /\ w \in Busy
  BY <1>1 DEF Busy, TypeOK, WorkersTyped
<1>3. At({"relaying"})' = At({"relaying"}) /\ w \notin At({"relaying"})
  BY <1>1 DEF At, TypeOK, WorkersTyped
<1>4. \A v \in Busy \ {w} : client'[v] = client[v]
  BY <1>1 DEF Busy, TypeOK, WorkersTyped
<1>5. open' = {client'[v] : v \in Busy'} \cup {origin'[v] : v \in At({"relaying"})'}
  BY <1>1, <1>2, <1>3, <1>4 DEF SocketsOwned
<1> QED
  BY <1>2, <1>3, <1>4, <1>5 DEF SocketsOwned

(* The end of a fetch closes the origin's socket, likewise. *)
LEMMA SocketsEndFetch ==
  ASSUME TypeOK, SocketsOwned, NEW w \in Workers, pc[w] = "relaying",
         NEW place \in {"failing", "storing"}, pc' = [pc EXCEPT ![w] = place],
         open' = open \ {origin[w]}, EndFetch(w), client' = client
  PROVE  SocketsOwned'
<1>1. Busy' = Busy /\ w \in Busy
  BY DEF Busy, TypeOK, WorkersTyped
<1>2. At({"relaying"})' = At({"relaying"}) \ {w} /\ w \in At({"relaying"})
  BY DEF At, TypeOK, WorkersTyped
<1>3. \A v \in At({"relaying"}) \ {w} : origin'[v] = origin[v]
  BY DEF EndFetch, At, TypeOK, WorkersTyped
<1>4. open' = {client'[v] : v \in Busy'} \cup {origin'[v] : v \in At({"relaying"})'}
  BY <1>1, <1>2, <1>3 DEF SocketsOwned
<1> QED
  BY <1>1, <1>2, <1>3, <1>4 DEF SocketsOwned

(* A step that opens and closes nothing. *)
LEMMA SocketsSame ==
  ASSUME TypeOK, SocketsOwned, UNCHANGED <<open, client, origin>>,
         Busy' = Busy, At({"relaying"})' = At({"relaying"})
  PROVE  SocketsOwned'
BY DEF SocketsOwned

(* The operating system gives out a handle that is not open: the new       *)
(* socket has one owner too.                                               *)
LEMMA SocketsBegin ==
  ASSUME TypeOK, SocketsOwned, NEW w \in Workers, Begin(w)
  PROVE  SocketsOwned'
<1>1. PICK s \in Sockets \ open : client' = [client EXCEPT ![w] = s] /\ open' = open \cup {s}
  BY DEF Begin
<1>2. Busy' = Busy \cup {w} /\ w \notin Busy
  BY DEF Begin, Busy, TypeOK, WorkersTyped
<1>3. At({"relaying"})' = At({"relaying"}) /\ origin' = origin
  BY DEF Begin, At, fetch, TypeOK, WorkersTyped
<1>4. client'[w] = s /\ \A v \in Busy : client'[v] = client[v]
  BY <1>1, <1>2 DEF Busy, TypeOK, WorkersTyped
<1>5. open' = {client'[v] : v \in Busy'} \cup {origin'[v] : v \in At({"relaying"})'}
  BY <1>1, <1>2, <1>3, <1>4 DEF SocketsOwned
<1> QED
  BY <1>1, <1>2, <1>3, <1>4, <1>5 DEF SocketsOwned

(* Connecting takes a handle that is not open. *)
LEMMA SocketsConnect ==
  ASSUME TypeOK, SocketsOwned, NEW w \in Workers, NEW s \in Scripts, Connect(w, s)
  PROVE  SocketsOwned'
<1>1. PICK o \in Sockets \ open : origin' = [origin EXCEPT ![w] = o] /\ open' = open \cup {o}
  BY DEF Connect
<1>2. Busy' = Busy /\ client' = client
  BY DEF Connect, Busy, lookup, TypeOK, WorkersTyped
<1>3. At({"relaying"})' = At({"relaying"}) \cup {w} /\ w \notin At({"relaying"})
  BY DEF Connect, At, TypeOK, WorkersTyped
<1>4. origin'[w] = o /\ \A v \in At({"relaying"}) : origin'[v] = origin[v]
  BY <1>1, <1>3 DEF At, TypeOK, WorkersTyped
<1>5. open' = {client'[v] : v \in Busy'} \cup {origin'[v] : v \in At({"relaying"})'}
  BY <1>1, <1>2, <1>3, <1>4 DEF SocketsOwned
<1> QED
  BY <1>1, <1>2, <1>3, <1>4, <1>5 DEF SocketsOwned

(* Every step keeps every open socket with one owner. *)
LEMMA SocketsNext ==
  ASSUME TypeOK, SocketsOwned, NEW w \in Workers, Step(w) PROVE SocketsOwned'
<1>1. CASE SetTimeoutFails(w) \/ ReadFails(w) \/ ParseFails(w)
  BY <1>1, SocketsLeave DEF SetTimeoutFails, ReadFails, ParseFails, fetch
<1>2. CASE Replay(w) \/ AnswerFailure(w)
  BY <1>2, SocketsLeave DEF Replay, AnswerFailure, fetch
<1>3. CASE Store(w) \/ StoreFails(w) \/ SkipStore(w)
  BY <1>3, SocketsLeave DEF Store, StoreFails, SkipStore, fetch
<1>4. CASE ClientGone(w) \/ OriginFails(w) \/ OriginCloses(w)
  BY <1>4, SocketsEndFetch DEF ClientGone, OriginFails, OriginCloses, lookup
<1>5. ASSUME NEW k \in Keys, ParseRequest(w, k) PROVE SocketsOwned'
  BY <1>5, SocketsSame DEF ParseRequest, Busy, At, fetch, TypeOK, WorkersTyped
<1>6. CASE LookupHit(w) \/ LookupMiss(w)
  BY <1>6, SocketsSame DEF LookupHit, LookupMiss, Busy, At, lookup, fetch, TypeOK, WorkersTyped
<1>7. CASE ConnectFails(w)
  BY <1>7, SocketsSame DEF ConnectFails, Busy, At, shared, lookup, fetch, TypeOK, WorkersTyped
<1>8. CASE RelayPiece(w)
  BY <1>8, SocketsSame DEF RelayPiece, Busy, At, shared, lookup, TypeOK, WorkersTyped
<1> QED
  BY <1>1, <1>2, <1>3, <1>4, <1>5, <1>6, <1>7, <1>8, SocketsBegin, SocketsConnect
     DEF Step, Request, Lookup, Fetch, Finish

(***************************************************************************)
(* Contents.                                                               *)
(***************************************************************************)

(* What a worker holds in the middle of a connection: nothing is sent      *)
(* before the answer; the copy from the cache and the finished capture are *)
(* what some client got; a capture still under way is what the client has  *)
(* got so far.                                                             *)
Streams ==
    \A w \in Workers :
        /\ pc[w] # "idle" => outcome[w] = "none"
        /\ pc[w] \in {"reading", "lookup", "replaying", "connecting"} => sent[w] = <<>>
        /\ pc[w] = "replaying" => <<key[w], found[w]>> \in relayed
        /\ capturing[w] => capture[w] = sent[w]
        /\ pc[w] = "storing" /\ capture[w] # <<>> => <<key[w], capture[w]>> \in relayed

Contents == CacheHoldsRelayed /\ ReplayIsRelayed /\ Streams

(* A return, after which the cache still holds only what was relayed and   *)
(* the client has what the outcome says.                                   *)
LEMMA ContentsLeave ==
  ASSUME TypeOK, Contents, NEW w \in Workers, NEW how, NEW c, Leave(w, how, c),
         pc[w] # "relaying",
         how = "replayed" => <<key[w], sent'[w]>> \in relayed,
         \A k \in Keys : cached'[k] # <<>> => <<k, cached'[k]>> \in relayed,
         \A v \in Workers : v # w => /\ sent'[v] = sent[v]
                                     /\ found'[v] = found[v]
                                     /\ capture'[v] = capture[v],
         UNCHANGED <<key, capturing, relayed>>
  PROVE  Contents'
<1>1. pc'[w] = "idle" /\ outcome'[w] = how /\ ~capturing'[w]
  BY DEF Leave, TypeOK, WorkersTyped, CallLocals
<1>2. \A v \in Workers : v # w => pc'[v] = pc[v] /\ outcome'[v] = outcome[v]
  BY DEF Leave, TypeOK, WorkersTyped
<1>3. CacheHoldsRelayed'
  BY DEF CacheHoldsRelayed
<1>4. ReplayIsRelayed'
  BY <1>1, <1>2 DEF Contents, ReplayIsRelayed
<1>5. Streams'
  BY <1>1, <1>2 DEF Contents, Streams
<1> QED
  BY <1>3, <1>4, <1>5 DEF Contents

(* A write to one client leaves the others' streams alone. *)
LEMMA PageElsewhere ==
  ASSUME TypeOK, NEW w \in Workers, NEW s, NEW n, WriteAll(w, s, n)
  PROVE  \A v \in Workers : v # w => sent'[v] = sent[v]
BY DEF WriteAll, TypeOK, BuffersTyped

(* What is not evicted was relayed before. *)
LEMMA EvictedRelayed ==
  ASSUME TypeOK, Contents, NEW gone
  PROVE  \A k \in Keys : Evicted(gone)[k] # <<>> => <<k, Evicted(gone)[k]>> \in relayed
BY DEF Evicted, Contents, CacheHoldsRelayed

(* Every step keeps what is cached, captured and found among what was      *)
(* relayed.                                                                *)
LEMMA ContentsNext ==
  ASSUME TypeOK, Contents, NEW w \in Workers, Step(w) PROVE Contents'
<1>a. \A k \in Keys : cached[k] # <<>> => <<k, cached[k]>> \in relayed
  BY DEF Contents, CacheHoldsRelayed
<1>1. CASE Begin(w)
  <2>1. /\ pc'[w] = "reading" /\ outcome'[w] = "none" /\ sent'[w] = <<>>
        /\ pc[w] = "idle" /\ ~capturing[w]
        /\ UNCHANGED <<cached, found, fetch, history>>
    BY <1>1 DEF Begin, TypeOK, WorkersTyped, BuffersTyped, CallLocals
  <2>2. \A v \in Workers : v # w => /\ pc'[v] = pc[v] /\ outcome'[v] = outcome[v]
                                    /\ sent'[v] = sent[v] /\ key'[v] = key[v]
    BY <1>1 DEF Begin, TypeOK, WorkersTyped, BuffersTyped
  <2> QED
    BY <2>1, <2>2 DEF Contents, CacheHoldsRelayed, ReplayIsRelayed, Streams, fetch, history
<1>2. CASE SetTimeoutFails(w)
  BY <1>2, <1>a, ContentsLeave DEF SetTimeoutFails, fetch, history
<1>3. CASE ReadFails(w)
  <2>1. \A v \in Workers : v # w => sent'[v] = sent[v]
    <3>1. PICK status \in {408, 413, 400}, n \in 0 .. 1 : WriteAll(w, <<Page(status)>>, n)
      BY <1>3 DEF ReadFails
    <3> QED
      BY <3>1, PageElsewhere
  <2>2. Leave(w, "refused", Decremented(counters)) /\ pc[w] = "reading"
    BY <1>3 DEF ReadFails
  <2>3. UNCHANGED <<cached, key, found, capture, capturing, relayed>>
    BY <1>3 DEF ReadFails, fetch, history
  <2>4. \A v \in Workers : v # w => /\ sent'[v] = sent[v]
                                    /\ found'[v] = found[v]
                                    /\ capture'[v] = capture[v]
    BY <2>1, <2>3
  <2> QED
    BY <1>a, <2>2, <2>3, <2>4, ContentsLeave
<1>4. CASE ParseFails(w)
  BY <1>4, <1>a, PageElsewhere, ContentsLeave DEF ParseFails, fetch, history
<1>5. ASSUME NEW k \in Keys, ParseRequest(w, k) PROVE Contents'
  <2>1. /\ pc'[w] = "lookup" /\ pc[w] = "reading"
        /\ UNCHANGED <<cached, found, fetch, sent, outcome, history>>
        /\ \A v \in Workers : v # w => pc'[v] = pc[v] /\ key'[v] = key[v]
    BY <1>5 DEF ParseRequest, TypeOK, WorkersTyped
  <2> QED
    BY <2>1 DEF Contents, CacheHoldsRelayed, ReplayIsRelayed, Streams, fetch, history
<1>6. CASE LookupHit(w)
  <2>1. /\ pc'[w] = "replaying" /\ pc[w] = "lookup" /\ key[w] \in Keys
        /\ cached[key[w]] # <<>> /\ found'[w] = cached[key[w]]
        /\ UNCHANGED <<cached, key, fetch, sent, outcome, history>>
        /\ \A v \in Workers : v # w => pc'[v] = pc[v] /\ found'[v] = found[v]
    BY <1>6 DEF LookupHit, TypeOK, WorkersTyped, BuffersTyped, CallLocals
  <2> QED
    BY <1>a, <2>1 DEF Contents, CacheHoldsRelayed, ReplayIsRelayed, Streams, fetch, history
<1>7. CASE LookupMiss(w)
  <2>1. /\ pc'[w] = "connecting" /\ pc[w] = "lookup"
        /\ UNCHANGED <<cached, lookup, fetch, sent, outcome, history>>
        /\ \A v \in Workers : v # w => pc'[v] = pc[v]
    BY <1>7 DEF LookupMiss, TypeOK, WorkersTyped
  <2> QED
    BY <2>1 DEF Contents, CacheHoldsRelayed, ReplayIsRelayed, Streams, lookup, fetch, history
<1>8. CASE Replay(w)
  <2>1. PICK n \in 0 .. Len(found[w]) :
           /\ WriteAll(w, found[w], n)
           /\ Leave(w, IF n = Len(found[w]) THEN "replayed" ELSE "cut",
                    Decremented(Bump(counters, "bytes_out", Len(found[w]))))
    BY <1>8 DEF Replay
  <2>2. /\ sent[w] = <<>> /\ <<key[w], found[w]>> \in relayed /\ found[w] \in Seq(Pieces)
    BY <1>8 DEF Replay, Contents, Streams, TypeOK, BuffersTyped
  <2>3. n = Len(found[w]) => sent'[w] = found[w]
    BY <2>1, <2>2, WriteWhole DEF WriteAll, TypeOK, BuffersTyped
  <2>4. \A v \in Workers : v # w => found'[v] = found[v]
    BY <1>8 DEF Replay, TypeOK, BuffersTyped
  <2> QED
    BY <1>8, <1>a, <2>1, <2>2, <2>3, <2>4, PageElsewhere, ContentsLeave DEF Replay, fetch, history
<1>9. ASSUME NEW s \in Scripts, Connect(w, s) PROVE Contents'
  <2>1. /\ pc'[w] = "relaying" /\ pc[w] = "connecting" /\ capture'[w] = <<>>
        /\ UNCHANGED <<cached, key, found, sent, outcome, relayed>>
        /\ \A v \in Workers : v # w => /\ pc'[v] = pc[v] /\ capture'[v] = capture[v]
                                       /\ capturing'[v] = capturing[v]
    BY <1>9 DEF Connect, lookup, history, TypeOK, WorkersTyped, BuffersTyped
  <2> QED
    BY <2>1 DEF Contents, CacheHoldsRelayed, ReplayIsRelayed, Streams
<1>10. CASE ConnectFails(w)
  <2>1. /\ pc'[w] = "failing" /\ pc[w] = "connecting"
        /\ UNCHANGED <<shared, lookup, fetch, sent, outcome, history>>
        /\ \A v \in Workers : v # w => pc'[v] = pc[v]
    BY <1>10 DEF ConnectFails, TypeOK, WorkersTyped
  <2> QED
    BY <2>1 DEF Contents, CacheHoldsRelayed, ReplayIsRelayed, Streams,
                shared, lookup, fetch, history
<1>11. CASE RelayPiece(w)
  <2>1. /\ pc[w] = "relaying"
        /\ UNCHANGED <<cached, pc, key, found, outcome, relayed>>
        /\ sent'[w] = Append(sent[w], Piece(w))
        /\ \A v \in Workers : v # w => sent'[v] = sent[v]
    BY <1>11, RelayEffect DEF RelayPiece, shared, lookup, history, TypeOK, BuffersTyped
  <2>2. capturing'[w] => capturing[w] /\ capture'[w] = Append(capture[w], Piece(w))
    BY <1>11 DEF RelayPiece, KeepPiece, DropCapture, TypeOK, WorkersTyped, BuffersTyped
  <2>3. \A v \in Workers : v # w => capture'[v] = capture[v] /\ capturing'[v] = capturing[v]
    BY <1>11 DEF RelayPiece, KeepPiece, DropCapture, TypeOK, WorkersTyped, BuffersTyped
  <2>4. outcome[w] = "none"
    BY <2>1 DEF Contents, Streams
  <2> QED
    BY <2>1, <2>2, <2>3, <2>4 DEF Contents, CacheHoldsRelayed, ReplayIsRelayed, Streams
<1>12. CASE ClientGone(w) \/ OriginFails(w)
  <2>1. /\ pc'[w] = "failing" /\ pc[w] = "relaying" /\ ~capturing'[w]
        /\ UNCHANGED <<cached, key, found, sent, outcome, relayed>>
        /\ \A v \in Workers : v # w => /\ pc'[v] = pc[v] /\ capture'[v] = capture[v]
                                       /\ capturing'[v] = capturing[v]
    BY <1>12 DEF ClientGone, OriginFails, EndFetch, lookup, history,
                 TypeOK, WorkersTyped, BuffersTyped
  <2> QED
    BY <2>1 DEF Contents, CacheHoldsRelayed, ReplayIsRelayed, Streams
<1>13. CASE OriginCloses(w)
  <2>1. /\ pc'[w] = "storing" /\ pc[w] = "relaying" /\ ~capturing'[w]
        /\ UNCHANGED <<cached, key, found, capture, sent, outcome>>
        /\ relayed' = relayed \cup {<<key[w], sent[w]>>}
        /\ \A v \in Workers : v # w => pc'[v] = pc[v] /\ capturing'[v] = capturing[v]
    BY <1>13 DEF OriginCloses, EndFetch, lookup, TypeOK, WorkersTyped
  <2>2. capture[w] # <<>> => capture[w] = sent[w]
    BY <2>1 DEF TypeOK, CallLocals, Contents, Streams
  <2> QED
    BY <2>1, <2>2 DEF Contents, CacheHoldsRelayed, ReplayIsRelayed, Streams
<1>14. CASE AnswerFailure(w)
  BY <1>14, <1>a, PageElsewhere, ContentsLeave DEF AnswerFailure, fetch, history
<1>15. CASE Store(w)
  <2>1. PICK gone \in Evictions(key[w]) :
           /\ cached' = [Evicted(gone) EXCEPT ![key[w]] = capture[w]]
           /\ Leave(w, "relayed", Decremented(Bump(counters, "cache_evictions", IF gone = {} THEN 0 ELSE 1)))
    BY <1>15 DEF Store
  <2>2. <<key[w], capture[w]>> \in relayed
    BY <1>15 DEF Store, Contents, Streams
  <2>3. \A k \in Keys : cached'[k] # <<>> => <<k, cached'[k]>> \in relayed
    BY <2>1, <2>2, EvictedRelayed, EvictedType
  <2>4. /\ UNCHANGED <<key, found, capturing, sent, history>> /\ pc[w] = "storing"
        /\ \A v \in Workers : v # w => capture'[v] = capture[v]
    BY <1>15 DEF Store, TypeOK, BuffersTyped
  <2> QED
    BY <2>1, <2>3, <2>4, ContentsLeave DEF history
<1>16. CASE StoreFails(w)
  <2>1. \A k \in Keys : cached'[k] # <<>> => <<k, cached'[k]>> \in relayed
    BY <1>16, EvictedRelayed DEF StoreFails
  <2>2. /\ UNCHANGED <<key, found, capturing, sent, history>> /\ pc[w] = "storing"
        /\ \A v \in Workers : v # w => capture'[v] = capture[v]
        /\ Leave(w, "relayed", Decremented(counters))
    BY <1>16 DEF StoreFails, TypeOK, BuffersTyped
  <2> QED
    BY <2>1, <2>2, ContentsLeave DEF history
<1>17. CASE SkipStore(w)
  BY <1>17, <1>a, ContentsLeave DEF SkipStore, fetch, history
<1> QED
  BY <1>1, <1>2, <1>3, <1>4, <1>5, <1>6, <1>7, <1>8, <1>9, <1>10, <1>11, <1>12, <1>13,
     <1>14, <1>15, <1>16, <1>17 DEF Step, Request, Lookup, Fetch, Finish

(***************************************************************************)
(* Metrics.                                                                *)
(***************************************************************************)

(* Finitely many workers are busy. *)
LEMMA BusyFinite == IsFiniteSet(Busy)
BY Basics, FS_Subset DEF Busy

(* A return is counted, once. *)
LEMMA ActiveLeave ==
  ASSUME TypeOK, ActiveIsBusy, NEW w \in Workers, NEW how, NEW c \in [Counters -> Nat],
         Leave(w, how, Decremented(c)), pc[w] # "idle",
         c["active_connections"] = counters["active_connections"]
  PROVE  ActiveIsBusy'
<1>1. Busy' = Busy \ {w} /\ w \in Busy
  BY DEF Leave, Busy, TypeOK, WorkersTyped
<1>2. Cardinality(Busy') = Cardinality(Busy) - 1 /\ Cardinality(Busy) \in Nat
  BY <1>1, BusyFinite, FS_RemoveElement, FS_CardinalityType
<1>3. Cardinality(Busy) # 0
  BY <1>1, BusyFinite, FS_EmptySet
<1>4. counters'["active_connections"] = Cardinality(Busy) - 1
  BY <1>2, <1>3, CounterNames DEF Leave, Decremented, ActiveIsBusy
<1> QED
  BY <1>2, <1>4 DEF ActiveIsBusy

(* A connection that begins is counted and makes its worker busy. *)
LEMMA ActiveBegin ==
  ASSUME TypeOK, ActiveIsBusy, NEW w \in Workers, Begin(w)
  PROVE  ActiveIsBusy'
<1>1. Busy' = Busy \cup {w} /\ w \notin Busy
  BY DEF Begin, Busy, TypeOK, WorkersTyped
<1>2. Cardinality(Busy') = Cardinality(Busy) + 1
  BY <1>1, BusyFinite, FS_AddElement
<1>3. counters'["active_connections"] = counters["active_connections"] + 1
  BY CounterNames DEF Begin, Bump, TypeOK, SharedTyped
<1> QED
  BY <1>2, <1>3 DEF ActiveIsBusy

(* A step inside the handler counts something else. *)
LEMMA ActiveSame ==
  ASSUME ActiveIsBusy, Busy' = Busy,
         counters'["active_connections"] = counters["active_connections"]
  PROVE  ActiveIsBusy'
BY DEF ActiveIsBusy

(* Counting something else leaves active_connections alone. *)
LEMMA OtherCounters ==
  ASSUME TypeOK, NEW name \in Counters \ {"active_connections"}, NEW n \in Nat
  PROVE  /\ Bump(counters, name, n) \in [Counters -> Nat]
         /\ Bump(counters, name, n)["active_connections"] = counters["active_connections"]
BY CountersTyped, CounterNames DEF Bump, TypeOK, SharedTyped

(* Every step keeps active_connections at the number of busy workers. *)
LEMMA ActiveNext ==
  ASSUME TypeOK, ActiveIsBusy, NEW w \in Workers, Step(w) PROVE ActiveIsBusy'
<1>1. CASE SetTimeoutFails(w) \/ ReadFails(w) \/ StoreFails(w) \/ SkipStore(w)
  <2>1. counters \in [Counters -> Nat]
    BY DEF TypeOK, SharedTyped
  <2>2. pc[w] # "idle" /\ \E how \in Outcomes : Leave(w, how, Decremented(counters))
    BY <1>1 DEF SetTimeoutFails, ReadFails, StoreFails, SkipStore, Outcomes
  <2> QED
    BY <2>1, <2>2, ActiveLeave
<1>2. CASE ParseFails(w)
  BY <1>2, ActiveLeave, OtherCounters, CounterNames DEF ParseFails
<1>3. CASE AnswerFailure(w)
  BY <1>3, ActiveLeave, OtherCounters, CounterNames DEF AnswerFailure
<1>4. CASE Replay(w)
  <2>1. Len(found[w]) \in Nat
    BY DEF TypeOK, BuffersTyped
  <2> QED
    BY <1>4, <2>1, ActiveLeave, OtherCounters, CounterNames DEF Replay
<1>5. CASE Store(w)
  BY <1>5, ActiveLeave, OtherCounters, CounterNames DEF Store
<1>6. ASSUME NEW k \in Keys, ParseRequest(w, k) PROVE ActiveIsBusy'
  BY <1>6, ActiveSame, OtherCounters, CounterNames DEF ParseRequest, Busy, TypeOK, WorkersTyped
<1>7. CASE LookupHit(w) \/ LookupMiss(w)
  <2>1. Busy' = Busy
    BY <1>7 DEF LookupHit, LookupMiss, Busy, TypeOK, WorkersTyped
  <2>2. \E name \in {"cache_hits", "cache_misses"} : counters' = Bump(counters, name, 1)
    BY <1>7 DEF LookupHit, LookupMiss
  <2>3. counters'["active_connections"] = counters["active_connections"]
    <3>1. PICK name \in {"cache_hits", "cache_misses"} : counters' = Bump(counters, name, 1)
      BY <2>2
    <3>2. name \in Counters \ {"active_connections"}
      BY <3>1, CounterNames
    <3> QED
      BY <3>1, <3>2, OtherCounters
  <2> QED
    BY <2>1, <2>3, ActiveSame
<1>8. ASSUME NEW s \in Scripts, Connect(w, s) PROVE ActiveIsBusy'
  BY <1>8, ActiveSame DEF Connect, Busy, TypeOK, WorkersTyped
<1>9. CASE ConnectFails(w) \/ RelayPiece(w)
  BY <1>9, ActiveSame DEF ConnectFails, RelayPiece, Busy, shared, TypeOK, WorkersTyped
<1>10. CASE ClientGone(w) \/ OriginFails(w)
  BY <1>10, ActiveSame DEF ClientGone, OriginFails, Busy, TypeOK, WorkersTyped
<1>11. CASE OriginCloses(w)
  BY <1>11, ActiveSame, OtherCounters, CounterNames
     DEF OriginCloses, Busy, TypeOK, WorkersTyped
<1> QED
  BY <1>1, <1>2, <1>3, <1>4, <1>5, <1>6, <1>7, <1>8, <1>9, <1>10, <1>11, ActiveBegin
     DEF Step, Request, Lookup, Fetch, Finish

(* What a call on the metrics does to a counter. *)
LEMMA CounterAfter ==
  ASSUME NEW c \in [Counters -> Nat], NEW name \in Counters, NEW n \in Nat, NEW x \in Counters
  PROVE  /\ Bump(c, name, n) \in [Counters -> Nat]
         /\ Bump(c, name, n)[x] = IF x = name THEN c[x] + n ELSE c[x]
         /\ x # "active_connections" => Decremented(c)[x] = c[x]
BY DEF Bump, Decremented, Counters

(* A set of workers, when one comes in or goes. *)
LEMMA OneMoves ==
  ASSUME NEW A \in SUBSET Workers, NEW w \in Workers
  PROVE  /\ Cardinality(A) \in Nat
         /\ w \in A => Cardinality(A \ {w}) = Cardinality(A) - 1
         /\ w \notin A => Cardinality(A \cup {w}) = Cardinality(A) + 1
BY Basics, FS_Subset, FS_RemoveElement, FS_AddElement, FS_CardinalityType

EarlyPlaces == {"reading", "lookup"}
LatePlaces == {"connecting", "relaying", "storing", "failing"}
Early == At(EarlyPlaces)
Late == At(LatePlaces)

(* Their numbers, when a worker moves. *)
LEMMA EarlyAfter ==
  ASSUME TypeOK, NEW w \in Workers, NEW p, pc' = [pc EXCEPT ![w] = p]
  PROVE  /\ Cardinality(Early) \in Nat /\ Cardinality(Early') \in Nat
         /\ Cardinality(Early') = Cardinality(Early)
               + (IF p \in EarlyPlaces THEN 1 ELSE 0) - (IF pc[w] \in EarlyPlaces THEN 1 ELSE 0)
<1>1. /\ Early \in SUBSET Workers /\ Early' \in SUBSET Workers
      /\ Cardinality(Early) \in Nat /\ Cardinality(Early') \in Nat
  BY Basics, FS_Subset, FS_CardinalityType DEF Early, At
<1>2. \A v \in Workers : pc'[v] = IF v = w THEN p ELSE pc[v]
  BY DEF TypeOK, WorkersTyped
<1>3. CASE pc[w] \in EarlyPlaces /\ p \in EarlyPlaces
  <2>1. Early' = Early
    BY <1>2, <1>3 DEF Early, At
  <2> QED
    BY <1>1, <1>3, <2>1
<1>4. CASE pc[w] \notin EarlyPlaces /\ p \notin EarlyPlaces
  <2>1. Early' = Early
    BY <1>2, <1>4 DEF Early, At
  <2> QED
    BY <1>1, <1>4, <2>1
<1>5. CASE pc[w] \in EarlyPlaces /\ p \notin EarlyPlaces
  <2>1. Early' = Early \ {w} /\ w \in Early
    BY <1>2, <1>5 DEF Early, At
  <2>2. Cardinality(Early \ {w}) = Cardinality(Early) - 1
    BY <1>1, <2>1, OneMoves
  <2> QED
    BY <1>1, <1>5, <2>1, <2>2
<1>6. CASE pc[w] \notin EarlyPlaces /\ p \in EarlyPlaces
  <2>1. Early' = Early \cup {w} /\ w \notin Early
    BY <1>2, <1>6 DEF Early, At
  <2>2. Cardinality(Early \cup {w}) = Cardinality(Early) + 1
    BY <1>1, <2>1, OneMoves
  <2> QED
    BY <1>1, <1>6, <2>1, <2>2
<1> QED
  BY <1>3, <1>4, <1>5, <1>6

LEMMA LateAfter ==
  ASSUME TypeOK, NEW w \in Workers, NEW p, pc' = [pc EXCEPT ![w] = p]
  PROVE  /\ Cardinality(Late) \in Nat /\ Cardinality(Late') \in Nat
         /\ Cardinality(Late') = Cardinality(Late)
               + (IF p \in LatePlaces THEN 1 ELSE 0) - (IF pc[w] \in LatePlaces THEN 1 ELSE 0)
<1>1. /\ Late \in SUBSET Workers /\ Late' \in SUBSET Workers
      /\ Cardinality(Late) \in Nat /\ Cardinality(Late') \in Nat
  BY Basics, FS_Subset, FS_CardinalityType DEF Late, At
<1>2. \A v \in Workers : pc'[v] = IF v = w THEN p ELSE pc[v]
  BY DEF TypeOK, WorkersTyped
<1>3. CASE pc[w] \in LatePlaces /\ p \in LatePlaces
  <2>1. Late' = Late
    BY <1>2, <1>3 DEF Late, At
  <2> QED
    BY <1>1, <1>3, <2>1
<1>4. CASE pc[w] \notin LatePlaces /\ p \notin LatePlaces
  <2>1. Late' = Late
    BY <1>2, <1>4 DEF Late, At
  <2> QED
    BY <1>1, <1>4, <2>1
<1>5. CASE pc[w] \in LatePlaces /\ p \notin LatePlaces
  <2>1. Late' = Late \ {w} /\ w \in Late
    BY <1>2, <1>5 DEF Late, At
  <2>2. Cardinality(Late \ {w}) = Cardinality(Late) - 1
    BY <1>1, <2>1, OneMoves
  <2> QED
    BY <1>1, <1>5, <2>1, <2>2
<1>6. CASE pc[w] \notin LatePlaces /\ p \in LatePlaces
  <2>1. Late' = Late \cup {w} /\ w \notin Late
    BY <1>2, <1>6 DEF Late, At
  <2>2. Cardinality(Late \cup {w}) = Cardinality(Late) + 1
    BY <1>1, <2>1, OneMoves
  <2> QED
    BY <1>1, <1>6, <2>1, <2>2
<1> QED
  BY <1>3, <1>4, <1>5, <1>6

(* The keys the cache has something under, when it is left alone, *)
LEMMA FilledSame == ASSUME UNCHANGED cached PROVE Filled' = Filled
  BY DEF Filled

(* ... when a store evicts and then fails, *)
LEMMA FilledShrinks ==
  ASSUME NEW w \in Workers, StoreFails(w)
  PROVE  Filled' \subseteq Filled
  BY DEF Filled, StoreFails, Evictions, Evicted

(* ... and when it succeeds: it fills one key more, unless it was counted  *)
(* as an eviction.                                                         *)
LEMMA FilledByStore ==
  ASSUME TypeOK, IsFiniteSet(Filled), NEW w \in Workers, Store(w)
  PROVE  /\ IsFiniteSet(Filled')
         /\ \E n \in {0, 1} :
               /\ Leave(w, "relayed", Decremented(Bump(counters, "cache_evictions", n)))
               /\ Cardinality(Filled') + n <= Cardinality(Filled) + 1
<1>1. PICK k \in Keys : k = key[w]
  BY DEF Store, TypeOK, CallLocals
<1>2. PICK gone \in Evictions(k) :
        /\ cached' = [Evicted(gone) EXCEPT ![k] = capture[w]]
        /\ Leave(w, "relayed", Decremented(Bump(counters, "cache_evictions", IF gone = {} THEN 0 ELSE 1)))
        /\ capture[w] # <<>>
  BY <1>1 DEF Store
<1>3. gone \subseteq Filled \ {k}
  BY <1>2 DEF Evictions, Filled
<1>4. \A x \in Keys : cached'[x] = IF x = k THEN capture[w] ELSE IF x \in gone THEN <<>> ELSE cached[x]
  BY <1>1, <1>2 DEF Evicted
<1>5. Filled' = (Filled \ gone) \cup {k}
  BY <1>1, <1>2, <1>3, <1>4 DEF Filled
<1>6. ASSUME NEW A, IsFiniteSet(A)
      PROVE  /\ IsFiniteSet(A \cup {k}) /\ Cardinality(A) \in Nat /\ Cardinality(A \cup {k}) \in Nat
             /\ Cardinality(A \cup {k}) <= Cardinality(A) + 1
  <2>1. /\ IsFiniteSet(A \cup {k})
        /\ Cardinality(A \cup {k}) = IF k \in A THEN Cardinality(A) ELSE Cardinality(A) + 1
    BY <1>6, FS_AddElement
  <2>2. Cardinality(A) \in Nat /\ Cardinality(A \cup {k}) \in Nat
    BY <1>6, <2>1, FS_CardinalityType
  <2> QED
    BY <2>1, <2>2
<1>7. CASE gone = {}
  <2>1. Filled' = Filled \cup {k}
    BY <1>5, <1>7
  <2>2. IsFiniteSet(Filled') /\ Cardinality(Filled') + 0 <= Cardinality(Filled) + 1
    BY <1>6, <2>1
  <2> QED
    BY <1>2, <1>7, <2>2
<1>8. CASE gone # {}
  <2>1. PICK g \in gone : g \in Filled
    BY <1>3, <1>8
  <2>2. PICK A : A = Filled \ {g}
    OBVIOUS
  <2>3. IsFiniteSet(A) /\ Cardinality(A) = Cardinality(Filled) - 1
    BY <2>1, <2>2, FS_RemoveElement
  <2>4. IsFiniteSet(A \cup {k}) /\ Cardinality(A \cup {k}) <= Cardinality(A) + 1
        /\ Cardinality(A \cup {k}) \in Nat /\ Cardinality(Filled) \in Nat
    BY <1>6, <2>3, FS_CardinalityType
  <2>5. Filled' \subseteq A \cup {k}
    BY <1>5, <2>1, <2>2
  <2>6. IsFiniteSet(Filled') /\ Cardinality(Filled') <= Cardinality(A \cup {k})
        /\ Cardinality(Filled') \in Nat
    BY <2>4, <2>5, FS_Subset, FS_CardinalityType
  <2>7. Cardinality(Filled') + 1 <= Cardinality(Filled) + 1
    BY <2>3, <2>4, <2>6
  <2> QED
    BY <1>2, <1>8, <2>6, <2>7
<1> QED
  BY <1>7, <1>8

(* No other step fills a key. *)
LEMMA FilledAfter ==
  ASSUME TypeOK, IsFiniteSet(Filled), NEW w \in Workers, Step(w)
  PROVE  /\ IsFiniteSet(Filled')
         /\ Cardinality(Filled) \in Nat /\ Cardinality(Filled') \in Nat
         /\ cached' = cached => Cardinality(Filled') = Cardinality(Filled)
         /\ StoreFails(w) => Cardinality(Filled') <= Cardinality(Filled)
<1>1. cached' = cached \/ StoreFails(w) \/ Store(w)
  BY DEF Step, Request, Lookup, Fetch, Finish, Begin, SetTimeoutFails, ReadFails, ParseFails,
         ParseRequest, LookupHit, LookupMiss, Replay, Connect, ConnectFails, RelayPiece,
         ClientGone, OriginFails, OriginCloses, AnswerFailure, SkipStore, shared
<1>2. IsFiniteSet(Filled')
  BY <1>1, FilledSame, FilledShrinks, FilledByStore, FS_Subset
<1> QED
  BY <1>2, FilledSame, FilledShrinks, FS_Subset, FS_CardinalityType

(* How much room the two inequalities leave. *)
EarlyRoom == counters["total_requests"]
             - (counters["cache_hits"] + counters["cache_misses"] + Cardinality(Early))
LateRoom == counters["cache_misses"]
            - (counters["origin_fetch_failures"] + counters["cache_evictions"]
                  + Cardinality(Filled) + Cardinality(Late))

LEMMA FitAsRoom ==
  ASSUME TypeOK, TypeOK', Cardinality(Filled) \in Nat, Cardinality(Filled') \in Nat
  PROVE  /\ CountersFitTogether <=> EarlyRoom >= 0 /\ LateRoom >= 0
         /\ CountersFitTogether' <=> EarlyRoom' >= 0 /\ LateRoom' >= 0
<1>1. \A x \in Counters : counters[x] \in Nat /\ counters'[x] \in Nat
  BY DEF TypeOK, SharedTyped
<1>2. /\ Cardinality(Early) \in Nat /\ Cardinality(Late) \in Nat
      /\ Cardinality(Early') \in Nat /\ Cardinality(Late') \in Nat
  BY Basics, FS_Subset, FS_CardinalityType DEF Early, Late, At
<1>3. CountersFitTogether <=> EarlyRoom >= 0 /\ LateRoom >= 0
  BY <1>1, <1>2, CounterNames
     DEF CountersFitTogether, EarlyRoom, LateRoom, Early, Late, EarlyPlaces, LatePlaces
<1>4. CountersFitTogether' <=> EarlyRoom' >= 0 /\ LateRoom' >= 0
  BY <1>1, <1>2, CounterNames
     DEF CountersFitTogether, EarlyRoom, LateRoom, Early, Late, EarlyPlaces, LatePlaces
<1> QED
  BY <1>3, <1>4

(* No room is lost when the counters do not change and no worker comes in. *)
LEMMA FitKept ==
  ASSUME TypeOK, TypeOK', CountersFitTogether, NEW w \in Workers, NEW p,
         pc' = [pc EXCEPT ![w] = p],
         \A x \in Counters \ {"active_connections", "bytes_in", "bytes_out"} : counters'[x] = counters[x],
         p \in EarlyPlaces => pc[w] \in EarlyPlaces,
         p \in LatePlaces => pc[w] \in LatePlaces,
         Cardinality(Filled) \in Nat, Cardinality(Filled') \in Nat,
         Cardinality(Filled') <= Cardinality(Filled)
  PROVE  CountersFitTogether'
<1>1. \A x \in Counters : counters[x] \in Nat
  BY DEF TypeOK, SharedTyped
<1>e. /\ Cardinality(Early) \in Nat /\ Cardinality(Early') \in Nat
      /\ Cardinality(Early') = Cardinality(Early)
            + (IF p \in EarlyPlaces THEN 1 ELSE 0) - (IF pc[w] \in EarlyPlaces THEN 1 ELSE 0)
  BY EarlyAfter
<1>l. /\ Cardinality(Late) \in Nat /\ Cardinality(Late') \in Nat
      /\ Cardinality(Late') = Cardinality(Late)
            + (IF p \in LatePlaces THEN 1 ELSE 0) - (IF pc[w] \in LatePlaces THEN 1 ELSE 0)
  BY LateAfter
<1>2. EarlyRoom \in Int /\ EarlyRoom' \in Int /\ EarlyRoom' >= EarlyRoom
  BY <1>1, <1>e, CounterNames DEF EarlyRoom
<1>3. LateRoom \in Int /\ LateRoom' \in Int /\ LateRoom' >= LateRoom
  BY <1>1, <1>l, CounterNames DEF LateRoom
<1> QED
  BY <1>2, <1>3, FitAsRoom

(* Every step keeps the counters together. *)
LEMMA FitNext ==
  ASSUME TypeOK, TypeOK', CountersFitTogether, IsFiniteSet(Filled), NEW w \in Workers, Step(w)
  PROVE  CountersFitTogether' /\ IsFiniteSet(Filled')
<1> DEFINE Same(c, names) == \A x \in Counters \ names : c[x] = counters[x]
<1> DEFINE Free == {"active_connections", "bytes_in", "bytes_out"}
<1>a. counters \in [Counters -> Nat]
  BY DEF TypeOK, SharedTyped
<1>d. \A x \in Counters : counters[x] \in Nat
  BY <1>a
<1>f. /\ IsFiniteSet(Filled')
      /\ Cardinality(Filled) \in Nat /\ Cardinality(Filled') \in Nat
      /\ cached' = cached => Cardinality(Filled') = Cardinality(Filled)
      /\ StoreFails(w) => Cardinality(Filled') <= Cardinality(Filled)
  BY FilledAfter
<1>g. Cardinality(Filled) <= Cardinality(Filled)
  BY <1>f
<1>b. ASSUME NEW how, NEW c \in [Counters -> Nat], Same(c, Free), Leave(w, how, Decremented(c)),
             Cardinality(Filled') <= Cardinality(Filled)
      PROVE  CountersFitTogether'
  <2>1. \A x \in Counters \ Free : counters'[x] = counters[x]
    BY <1>b, CounterAfter DEF Leave, Decremented, Counters
  <2> HIDE DEF Free
  <2>2. pc' = [pc EXCEPT ![w] = "idle"]
    BY <1>b DEF Leave
  <2> QED
    BY <1>b, <1>f, <2>1, <2>2, FitKept DEF Free, EarlyPlaces, LatePlaces
<1>c. ASSUME NEW name \in {"bytes_in", "bytes_out"}, NEW n \in Nat
      PROVE  Bump(counters, name, n) \in [Counters -> Nat] /\ Same(Bump(counters, name, n), Free)
  BY <1>a, <1>c DEF Bump, Counters
<1>1. CASE Begin(w)
  <2>1. /\ pc[w] = "idle" /\ pc' = [pc EXCEPT ![w] = "reading"]
        /\ counters' = Bump(Bump(counters, "total_requests", 1), "active_connections", 1)
        /\ cached' = cached
    BY <1>1 DEF Begin
  <2>2. /\ counters'["total_requests"] = counters["total_requests"] + 1
        /\ \A x \in {"cache_hits", "cache_misses", "origin_fetch_failures", "cache_evictions"} :
              counters'[x] = counters[x] + 0
    BY <1>a, <2>1, CounterNames DEF Bump, Counters
  <2>e. /\ Cardinality(Early) \in Nat /\ Cardinality(Early') \in Nat
        /\ Cardinality(Early') = Cardinality(Early)
              + (IF "reading" \in EarlyPlaces THEN 1 ELSE 0) - (IF pc[w] \in EarlyPlaces THEN 1 ELSE 0)
    BY <2>1, EarlyAfter
  <2>l. /\ Cardinality(Late) \in Nat /\ Cardinality(Late') \in Nat
        /\ Cardinality(Late') = Cardinality(Late)
              + (IF "reading" \in LatePlaces THEN 1 ELSE 0) - (IF pc[w] \in LatePlaces THEN 1 ELSE 0)
    BY <2>1, LateAfter
  <2>3. EarlyRoom \in Int /\ EarlyRoom' \in Int /\ EarlyRoom' >= EarlyRoom
    BY <1>d, <2>1, <2>2, <2>e, CounterNames DEF EarlyRoom, EarlyPlaces
  <2>4. LateRoom \in Int /\ LateRoom' \in Int /\ LateRoom' >= LateRoom
    BY <1>d, <2>1, <2>2, <2>l, <1>f, CounterNames DEF LateRoom, LatePlaces
  <2> QED
    BY <2>3, <2>4, <1>f, FitAsRoom
<1>2. CASE SetTimeoutFails(w) \/ ReadFails(w) \/ StoreFails(w) \/ SkipStore(w)
  <2>1. PICK how \in Outcomes : Leave(w, how, Decremented(counters))
    BY <1>2 DEF SetTimeoutFails, ReadFails, StoreFails, SkipStore, Outcomes
  <2>2. cached' = cached \/ StoreFails(w)
    BY <1>2 DEF SetTimeoutFails, ReadFails, SkipStore
  <2>3. Cardinality(Filled') <= Cardinality(Filled)
    BY <1>f, <1>g, <2>2
  <2> QED
    BY <1>a, <1>b, <1>f, <2>1, <2>3
<1>3. CASE ParseFails(w)
  BY <1>3, <1>b, <1>c, <1>f, <1>g DEF ParseFails
<1>4. ASSUME NEW k \in Keys, ParseRequest(w, k) PROVE CountersFitTogether'
  <2>1. Same(counters', Free)
    BY <1>4, <1>c DEF ParseRequest
  <2> QED
    BY <1>4, <1>f, <1>g, <2>1, FitKept DEF ParseRequest, EarlyPlaces, LatePlaces
<1>5. CASE LookupHit(w)
  <2>1. /\ pc[w] = "lookup" /\ pc' = [pc EXCEPT ![w] = "replaying"]
        /\ counters' = Bump(counters, "cache_hits", 1) /\ cached' = cached
    BY <1>5 DEF LookupHit
  <2>2. /\ counters'["cache_hits"] = counters["cache_hits"] + 1
        /\ \A x \in {"total_requests", "cache_misses", "origin_fetch_failures", "cache_evictions"} :
              counters'[x] = counters[x] + 0
    BY <1>a, <2>1, CounterNames DEF Bump, Counters
  <2>e. /\ Cardinality(Early) \in Nat /\ Cardinality(Early') \in Nat
        /\ Cardinality(Early') = Cardinality(Early)
              + (IF "replaying" \in EarlyPlaces THEN 1 ELSE 0) - (IF pc[w] \in EarlyPlaces THEN 1 ELSE 0)
    BY <2>1, EarlyAfter
  <2>l. /\ Cardinality(Late) \in Nat /\ Cardinality(Late') \in Nat
        /\ Cardinality(Late') = Cardinality(Late)
              + (IF "replaying" \in LatePlaces THEN 1 ELSE 0) - (IF pc[w] \in LatePlaces THEN 1 ELSE 0)
    BY <2>1, LateAfter
  <2>3. EarlyRoom \in Int /\ EarlyRoom' \in Int /\ EarlyRoom' >= EarlyRoom
    BY <1>d, <2>1, <2>2, <2>e, CounterNames DEF EarlyRoom, EarlyPlaces
  <2>4. LateRoom \in Int /\ LateRoom' \in Int /\ LateRoom' >= LateRoom
    BY <1>d, <2>1, <2>2, <2>l, <1>f, CounterNames DEF LateRoom, LatePlaces
  <2> QED
    BY <2>3, <2>4, <1>f, FitAsRoom
<1>6. CASE LookupMiss(w)
  <2>1. /\ pc[w] = "lookup" /\ pc' = [pc EXCEPT ![w] = "connecting"]
        /\ counters' = Bump(counters, "cache_misses", 1) /\ cached' = cached
    BY <1>6 DEF LookupMiss
  <2>2. /\ counters'["cache_misses"] = counters["cache_misses"] + 1
        /\ \A x \in {"total_requests", "cache_hits", "origin_fetch_failures", "cache_evictions"} :
              counters'[x] = counters[x] + 0
    BY <1>a, <2>1, CounterNames DEF Bump, Counters
  <2>e. /\ Cardinality(Early) \in Nat /\ Cardinality(Early') \in Nat
        /\ Cardinality(Early') = Cardinality(Early)
              + (IF "connecting" \in EarlyPlaces THEN 1 ELSE 0) - (IF pc[w] \in EarlyPlaces THEN 1 ELSE 0)
    BY <2>1, EarlyAfter
  <2>l. /\ Cardinality(Late) \in Nat /\ Cardinality(Late') \in Nat
        /\ Cardinality(Late') = Cardinality(Late)
              + (IF "connecting" \in LatePlaces THEN 1 ELSE 0) - (IF pc[w] \in LatePlaces THEN 1 ELSE 0)
    BY <2>1, LateAfter
  <2>3. EarlyRoom \in Int /\ EarlyRoom' \in Int /\ EarlyRoom' >= EarlyRoom
    BY <1>d, <2>1, <2>2, <2>e, CounterNames DEF EarlyRoom, EarlyPlaces
  <2>4. LateRoom \in Int /\ LateRoom' \in Int /\ LateRoom' >= LateRoom
    BY <1>d, <2>1, <2>2, <2>l, <1>f, CounterNames DEF LateRoom, LatePlaces
  <2> QED
    BY <2>3, <2>4, <1>f, FitAsRoom
<1>7. CASE Replay(w)
  <2>1. Len(found[w]) \in Nat
    BY DEF TypeOK, BuffersTyped
  <2> QED
    BY <1>7, <1>b, <1>c, <1>f, <1>g, <2>1 DEF Replay
<1>8. ASSUME NEW s \in Scripts, Connect(w, s) PROVE CountersFitTogether'
  BY <1>8, <1>f, <1>g, FitKept DEF Connect, EarlyPlaces, LatePlaces
<1>9. CASE ConnectFails(w) \/ ClientGone(w) \/ OriginFails(w)
  BY <1>9, <1>f, <1>g, FitKept DEF ConnectFails, ClientGone, OriginFails, shared, EarlyPlaces, LatePlaces
<1>10. CASE RelayPiece(w)
  BY <1>10, FilledSame DEF RelayPiece, shared, CountersFitTogether, At
<1>11. CASE OriginCloses(w)
  <2>1. taken[w] \in Nat
    BY DEF TypeOK, WorkersTyped
  <2>2. Same(counters', Free)
    BY <1>11, <1>c, <2>1 DEF OriginCloses
  <2> QED
    BY <1>11, <1>f, <1>g, <2>2, FitKept DEF OriginCloses, EarlyPlaces, LatePlaces
<1>12. CASE AnswerFailure(w)
  <2>1. /\ pc[w] = "failing" /\ pc' = [pc EXCEPT ![w] = "idle"]
        /\ counters' = Decremented(Bump(counters, "origin_fetch_failures", 1)) /\ cached' = cached
    BY <1>12 DEF AnswerFailure, Leave
  <2>2. /\ counters'["origin_fetch_failures"] = counters["origin_fetch_failures"] + 1
        /\ \A x \in {"total_requests", "cache_hits", "cache_misses", "cache_evictions"} :
              counters'[x] = counters[x] + 0
    BY <1>a, <2>1, CounterNames DEF Bump, Decremented, Counters
  <2>e. /\ Cardinality(Early) \in Nat /\ Cardinality(Early') \in Nat
        /\ Cardinality(Early') = Cardinality(Early)
              + (IF "idle" \in EarlyPlaces THEN 1 ELSE 0) - (IF pc[w] \in EarlyPlaces THEN 1 ELSE 0)
    BY <2>1, EarlyAfter
  <2>l. /\ Cardinality(Late) \in Nat /\ Cardinality(Late') \in Nat
        /\ Cardinality(Late') = Cardinality(Late)
              + (IF "idle" \in LatePlaces THEN 1 ELSE 0) - (IF pc[w] \in LatePlaces THEN 1 ELSE 0)
    BY <2>1, LateAfter
  <2>3. EarlyRoom \in Int /\ EarlyRoom' \in Int /\ EarlyRoom' >= EarlyRoom
    BY <1>d, <2>1, <2>2, <2>e, CounterNames DEF EarlyRoom, EarlyPlaces
  <2>4. LateRoom \in Int /\ LateRoom' \in Int /\ LateRoom' >= LateRoom
    BY <1>d, <2>1, <2>2, <2>l, <1>f, CounterNames DEF LateRoom, LatePlaces
  <2> QED
    BY <2>3, <2>4, <1>f, FitAsRoom
<1>13. CASE Store(w)
  <2>1. PICK n \in {0, 1} :
          /\ Leave(w, "relayed", Decremented(Bump(counters, "cache_evictions", n)))
          /\ Cardinality(Filled') + n <= Cardinality(Filled) + 1
    BY <1>13, FilledByStore
  <2>2. /\ pc[w] = "storing" /\ pc' = [pc EXCEPT ![w] = "idle"]
        /\ counters' = Decremented(Bump(counters, "cache_evictions", n))
    BY <1>13, <2>1 DEF Store, Leave
  <2>3. /\ counters'["cache_evictions"] = counters["cache_evictions"] + n
        /\ \A x \in {"total_requests", "cache_hits", "cache_misses", "origin_fetch_failures"} :
              counters'[x] = counters[x] + 0
    BY <1>a, <2>2, CounterNames DEF Bump, Decremented, Counters
  <2>e. /\ Cardinality(Early) \in Nat /\ Cardinality(Early') \in Nat
        /\ Cardinality(Early') = Cardinality(Early)
              + (IF "idle" \in EarlyPlaces THEN 1 ELSE 0) - (IF pc[w] \in EarlyPlaces THEN 1 ELSE 0)
    BY <2>2, EarlyAfter
  <2>l. /\ Cardinality(Late) \in Nat /\ Cardinality(Late') \in Nat
        /\ Cardinality(Late') = Cardinality(Late)
              + (IF "idle" \in LatePlaces THEN 1 ELSE 0) - (IF pc[w] \in LatePlaces THEN 1 ELSE 0)
    BY <2>2, LateAfter
  <2>4. EarlyRoom \in Int /\ EarlyRoom' \in Int /\ EarlyRoom' >= EarlyRoom
    BY <1>d, <2>2, <2>3, <2>e, CounterNames DEF EarlyRoom, EarlyPlaces
  <2>5. LateRoom \in Int /\ LateRoom' \in Int /\ LateRoom' >= LateRoom
    BY <1>d, <2>1, <2>2, <2>3, <2>l, <1>f, CounterNames DEF LateRoom, LatePlaces
  <2> QED
    BY <2>4, <2>5, <1>f, FitAsRoom
<1> QED
  BY <1>f, <1>1, <1>2, <1>3, <1>4, <1>5, <1>6, <1>7, <1>8, <1>9, <1>10, <1>11, <1>12, <1>13
     DEF Step, Request, Lookup, Fetch, Finish

(***************************************************************************)
(* The theorems.                                                           *)
(***************************************************************************)

HInv == /\ TypeOK /\ SocketsOwned /\ Contents /\ ActiveIsBusy /\ CountersFitTogether
        /\ IsFiniteSet(Filled)

(* The handlers start in the inductive invariant. *)
LEMMA HInvInit == Init => HInv
<1> SUFFICES ASSUME Init PROVE HInv
  OBVIOUS
<1>1. Busy = {} /\ At({"relaying"}) = {}
  BY DEF Init, Busy, At
<1>2. TypeOK
  BY Basics DEF Init, TypeOK, SharedTyped, WorkersTyped, BuffersTyped, CallLocals, Outcomes
<1>3. SocketsOwned
  BY <1>1 DEF Init, SocketsOwned
<1>4. Contents
  BY DEF Init, Contents, CacheHoldsRelayed, ReplayIsRelayed, Streams
<1>5. ActiveIsBusy
  BY <1>1, FS_EmptySet, CounterNames DEF Init, ActiveIsBusy
<1>7. Filled = {}
  BY DEF Init, Filled
<1>6. CountersFitTogether
  <2>1. At({"reading", "lookup"}) = {} /\ At({"connecting", "relaying", "storing", "failing"}) = {}
    BY DEF Init, At
  <2>2. \A x \in Counters : counters[x] = 0
    BY DEF Init
  <2> QED
    BY <1>7, <2>1, <2>2, FS_EmptySet, CounterNames DEF CountersFitTogether
<1> QED
  BY <1>2, <1>3, <1>4, <1>5, <1>6, <1>7, FS_EmptySet DEF HInv

(* Every step keeps the inductive invariant. *)
LEMMA HInvNext == HInv /\ [Next]_vars => HInv'
<1> SUFFICES ASSUME HInv, [Next]_vars PROVE HInv'
  OBVIOUS
<1>1. ASSUME NEW w \in Workers, Step(w) PROVE HInv'
  BY <1>1, TypeNext, SocketsNext, ContentsNext, ActiveNext, FitNext DEF HInv
<1>2. CASE UNCHANGED vars
  <2>1. TypeOK'
    BY <1>2 DEF HInv, TypeOK, SharedTyped, WorkersTyped, BuffersTyped, CallLocals,
                vars, shared, lookup, fetch, history
  <2>2. SocketsOwned' /\ ActiveIsBusy' /\ CountersFitTogether' /\ IsFiniteSet(Filled')
    BY <1>2, FilledSame DEF HInv, SocketsOwned, ActiveIsBusy, CountersFitTogether, Busy, At, vars, shared, lookup, fetch
  <2>3. Contents'
    BY <1>2 DEF HInv, Contents, CacheHoldsRelayed, ReplayIsRelayed, Streams,
                vars, shared, lookup, fetch, history
  <2> QED
    BY <2>1, <2>2, <2>3 DEF HInv
<1> QED
  BY <1>1, <1>2 DEF Next, Finished

(* The inductive invariant of the request handler. *)
THEOREM HandlerInductive == Spec => []HInv
BY HInvInit, HInvNext, PTL DEF Spec

(* Types, and the end of every variable of a call with the call. *)
THEOREM HandlerTypeCorrect == Spec => []TypeOK
<1>1. HInv => TypeOK
  BY DEF HInv
<1> QED
  BY <1>1, HandlerInductive, PTL

(* For any number of workers and sockets: the open sockets are exactly     *)
(* those of the connections and fetches under way, each with one owner, so *)
(* that no path through the handler leaks a socket or closes one twice.    *)
THEOREM SocketsAlwaysOwned == Spec => []SocketsOwned
<1>1. HInv => SocketsOwned
  BY DEF HInv
<1> QED
  BY <1>1, HandlerInductive, PTL

(* Whatever an origin, a client or the memory do: the cache only holds     *)
(* what some client got from an origin under the same key, from first to   *)
(* last piece.                                                             *)
THEOREM CacheAlwaysHoldsRelayed == Spec => []CacheHoldsRelayed
<1>1. HInv => CacheHoldsRelayed
  BY DEF HInv, Contents
<1> QED
  BY <1>1, HandlerInductive, PTL

(* A replay that reaches its end is, piece for piece, what another client  *)
(* got before, whatever other workers do to the cache in the meantime.     *)
THEOREM ReplayAlwaysRelayed == Spec => []ReplayIsRelayed
<1>1. HInv => ReplayIsRelayed
  BY DEF HInv, Contents
<1> QED
  BY <1>1, HandlerInductive, PTL

(* active_connections counts the connections being handled, exactly. *)
THEOREM ActiveAlwaysBusy == Spec => []ActiveIsBusy
<1>1. HInv => ActiveIsBusy
  BY DEF HInv
<1> QED
  BY <1>1, HandlerInductive, PTL

(* In every interleaving of any number of workers, each parsed request is  *)
(* counted as a hit or a miss, once, and no failure or eviction is counted *)
(* that does not belong to a miss of its own.                              *)
THEOREM CountersAlwaysFit == Spec => []CountersFitTogether
<1>1. HInv => CountersFitTogether
  BY DEF HInv
<1> QED
  BY <1>1, HandlerInductive, PTL

-----------------------------------------------------------------------------
(* Every connection goes on, and on its own. *)

(* How far each place is from the end of process_client_connection. *)
Ahead == [reading |-> 5, lookup |-> 4, replaying |-> 3, connecting |-> 3, relaying |-> 2,
          storing |-> 1, failing |-> 1, idle |-> 0]

(* What a worker still has to relay of what its origin sends. *)
Left(w) == script[w].pieces - taken[w]

Advances(w) ==
    \/ pc[w] = "idle" /\ pc'[w] = "reading"
    \/ Ahead[pc'[w]] < Ahead[pc[w]]
    \/ pc[w] = "relaying" /\ pc'[w] = "relaying" /\ Left(w)' \in Nat /\ Left(w)' = Left(w) - 1

(* All that a worker keeps in process_client_connection and in             *)
(* response_forwarder_forward.                                             *)
Undisturbed(w) ==
    UNCHANGED <<pc[w], client[w], key[w], found[w], origin[w], script[w], taken[w],
                capture[w], capturing[w], sent[w], outcome[w]>>

GoesOn == \E w \in Workers : Advances(w) /\ \A v \in Workers \ {w} : Undisturbed(v)

(* The others' variables stay as they are. *)
LEMMA StepIsOwn ==
  ASSUME TypeOK, NEW w \in Workers, Step(w), NEW v \in Workers, v # w
  PROVE  Undisturbed(v)
<1> USE DEF shared, lookup, fetch, history, TypeOK, WorkersTyped, BuffersTyped, Undisturbed
<1>1. CASE Request(w)
  BY <1>1 DEF Request, Begin, SetTimeoutFails, ReadFails, ParseFails, ParseRequest, Leave, WriteAll
<1>2. CASE Lookup(w)
  BY <1>2 DEF Lookup, LookupHit, LookupMiss, Replay, Leave, WriteAll
<1>3. CASE (\E s \in Scripts : Connect(w, s)) \/ ConnectFails(w)
  BY <1>3 DEF Connect, ConnectFails
<1>4. CASE RelayPiece(w)
  BY <1>4 DEF RelayPiece, KeepPiece, DropCapture, WriteAll
<1>5. CASE ClientGone(w) \/ OriginFails(w) \/ OriginCloses(w)
  BY <1>5 DEF ClientGone, OriginFails, OriginCloses, EndFetch
<1>6. CASE Finish(w)
  BY <1>6 DEF Finish, AnswerFailure, Store, StoreFails, SkipStore, Leave, WriteAll
<1> QED
  BY <1>1, <1>2, <1>3, <1>4, <1>5, <1>6 DEF Step, Fetch

LEMMA StepAdvances ==
  ASSUME TypeOK, NEW w \in Workers, Step(w)
  PROVE  Advances(w)
<1>1. \A p : pc' = [pc EXCEPT ![w] = p] => pc'[w] = p
  BY DEF TypeOK, WorkersTyped
<1>2. CASE Begin(w)
  BY <1>1, <1>2 DEF Begin, Advances
<1>3. CASE SetTimeoutFails(w) \/ ReadFails(w) \/ ParseFails(w)
  <2>1. pc[w] = "reading" /\ pc'[w] = "idle"
    BY <1>1, <1>3 DEF SetTimeoutFails, ReadFails, ParseFails, Leave
  <2> QED
    BY <2>1 DEF Advances, Ahead
<1>4. ASSUME NEW k \in Keys, ParseRequest(w, k) PROVE Advances(w)
  <2>1. pc[w] = "reading" /\ pc'[w] = "lookup"
    BY <1>1, <1>4 DEF ParseRequest
  <2> QED
    BY <2>1 DEF Advances, Ahead
<1>5. CASE LookupHit(w) \/ LookupMiss(w)
  <2>1. pc[w] = "lookup" /\ pc'[w] \in {"replaying", "connecting"}
    BY <1>1, <1>5 DEF LookupHit, LookupMiss
  <2> QED
    BY <2>1 DEF Advances, Ahead
<1>6. CASE Replay(w)
  <2>1. pc[w] = "replaying" /\ pc'[w] = "idle"
    BY <1>1, <1>6 DEF Replay, Leave
  <2> QED
    BY <2>1 DEF Advances, Ahead
<1>7. CASE (\E s \in Scripts : Connect(w, s)) \/ ConnectFails(w)
  <2>1. pc[w] = "connecting" /\ pc'[w] \in {"relaying", "failing"}
    BY <1>1, <1>7 DEF Connect, ConnectFails
  <2> QED
    BY <2>1 DEF Advances, Ahead
<1>8. CASE RelayPiece(w)
  <2>1. /\ pc[w] = "relaying" /\ pc' = pc /\ script' = script
        /\ taken' = [taken EXCEPT ![w] = @ + 1] /\ taken[w] < script[w].pieces
    BY <1>8 DEF RelayPiece
  <2>2. taken'[w] = taken[w] + 1 /\ taken[w] \in Nat
    BY <2>1 DEF TypeOK, WorkersTyped
  <2>3. script[w].pieces \in Nat
    BY <2>1, ScriptFields DEF TypeOK, WorkersTyped, CallLocals
  <2> QED
    BY <2>1, <2>2, <2>3 DEF Advances, Left
<1>9. CASE ClientGone(w) \/ OriginFails(w) \/ OriginCloses(w)
  <2>1. pc[w] = "relaying" /\ pc'[w] \in {"failing", "storing"}
    BY <1>1, <1>9 DEF ClientGone, OriginFails, OriginCloses
  <2> QED
    BY <2>1 DEF Advances, Ahead
<1>10. CASE Finish(w)
  <2>1. pc[w] \in {"failing", "storing"} /\ pc'[w] = "idle"
    BY <1>1, <1>10 DEF Finish, AnswerFailure, Store, StoreFails, SkipStore, Leave
  <2> QED
    BY <2>1 DEF Advances, Ahead
<1> QED
  BY <1>2, <1>3, <1>4, <1>5, <1>6, <1>7, <1>8, <1>9, <1>10 DEF Step, Request, Lookup, Fetch

(* What ConnectionEnds rests on, for any number of workers: each step is   *)
(* one worker's, takes its connection towards its end - or takes a piece   *)
(* of what the origin has left - and touches nothing the other handlers    *)
(* hold, so that none of them can be sent back or cut off by another.      *)
THEOREM ConnectionsAlwaysGoOn == Spec => [][GoesOn]_vars
<1>1. HInv /\ [Next]_vars => [GoesOn]_vars
  <2> SUFFICES ASSUME HInv, Next, vars' # vars PROVE GoesOn
    OBVIOUS
  <2>1. PICK w \in Workers : Step(w)
    BY DEF Next, Finished
  <2>2. TypeOK
    BY DEF HInv
  <2> QED
    BY <2>1, <2>2, StepAdvances, StepIsOwn DEF GoesOn
<1> QED
  BY <1>1, HandlerInductive, PTL DEF Spec

=============================================================================
