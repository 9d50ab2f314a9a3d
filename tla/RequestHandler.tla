--------------------------- MODULE RequestHandler ---------------------------
(***************************************************************************)
(* The life of one client connection in a worker thread:                   *)
(* process_client_connection of src/src/proxy_server.c with                *)
(* response_forwarder_forward, for several workers at a time that share    *)
(* the response cache, the metrics and the process's sockets.              *)
(*                                                                         *)
(* A step is what a worker does up to and including its next call that     *)
(* another thread, the client or the origin can take part in: a read or a  *)
(* write on a socket, a cache operation.  The metrics calls in between     *)
(* commute with everything the other workers do and are part of the step.  *)
(*                                                                         *)
(* Bytes come in pieces.  Piece i of an origin's response r is <<r, i>>,   *)
(* what one read returns; an error page is one piece.  Byte counts count   *)
(* pieces, and every request is one piece long.                            *)
(*                                                                         *)
(* Definitions under "Mutant" are not part of the specification: each is   *)
(* the definition below it with a slip (see README.md).                    *)
(***************************************************************************)
EXTENDS Naturals, Sequences, FiniteSets

CONSTANTS Workers,
          Keys,            \* cache keys: what the request asks for
          Responses,       \* responses an origin may answer with
          Length,          \* the pieces each of them has when it is whole
          MaxCapture,      \* PROXY_CACHE_MAX_OBJECT_SIZE, in pieces
          Sockets,         \* the handles the operating system can give out
          NoSocket,        \* SOCKET_HANDLE_INVALID
          NoKey,
          MaxConnections   \* bound on the connections of a behaviour

ASSUME HandlerAssumption ==
    /\ Length \in [Responses -> Nat \ {0}]
    /\ MaxCapture \in Nat
    /\ NoSocket \notin Sockets
    /\ NoKey \notin Keys
    /\ MaxConnections \in Nat
    /\ IsFiniteSet(Workers)

VARIABLES
    cached,      \* the shared cache: the pieces under each key, <<>> for none
    counters,    \* metrics->counters
    open,        \* the open sockets of the connections workers handle
    pc,          \* where each worker is in process_client_connection
    client,      \* job->client_socket
    key,         \* cache_key
    found,       \* cached_response
    origin,      \* origin_socket
    script,      \* what the origin is going to do on this connection
    taken,       \* origin_response_bytes: pieces read from the origin
    capture,     \* capture_buffer, <<>> for NULL; then captured_response
    capturing,   \* capture_enabled
    sent,        \* what reached the client, kept until the next connection
    outcome,     \* how the worker's last connection ended
    relayed,     \* history: the <<key, pieces>> some client got from an origin
    lost         \* history: buffers nobody points to any more

shared == <<cached, counters, open>>
lookup == <<client, key, found>>
fetch == <<origin, script, taken, capture, capturing>>
history == <<relayed, lost>>
vars == <<shared, pc, lookup, fetch, sent, outcome, history>>

Counters == {"total_requests", "active_connections", "cache_hits", "cache_misses",
             "cache_evictions", "origin_fetch_failures", "bytes_in", "bytes_out"}

(* An origin answers with the first pieces of a response, and then closes  *)
(* the connection in order, resets it, or says nothing more.  It may close *)
(* before the response is whole: nothing in the forwarder looks at         *)
(* Content-Length or at the end of a chunked body.                         *)
Scripts == UNION {[response : {r}, pieces : 0 .. Length[r],
                   end : {"close", "reset", "silence"}] : r \in Responses}

NoScript == [pieces |-> 0, end |-> "none"]

Whole(r) == [i \in 1 .. Length[r] |-> <<r, i>>]

(* The page of error_response_send. *)
Page(status) == <<"page", status>>

Bump(c, name, n) == [c EXCEPT ![name] = @ + n]

(* metrics_decrement_active_connections does not go below zero. *)
Decremented(c) == [c EXCEPT !["active_connections"] = IF @ > 0 THEN @ - 1 ELSE 0]

-----------------------------------------------------------------------------
(* Steps many of the returns of the handler share. *)

(* socket_utils_write_all: all of s reaches the client, or a part only.    *)
WriteAll(w, s, n) ==
    /\ n \in 0 .. Len(s)
    /\ sent' = [sent EXCEPT ![w] = @ \o SubSeq(s, 1, n)]

(* socket_utils_close(client_socket) and return.  The calls to metrics     *)
(* before it, the decrement among them, have left the counters as c.       *)
Leave(w, how, c) ==
    /\ pc' = [pc EXCEPT ![w] = "idle"]
    /\ open' = open \ {client[w]}
    /\ client' = [client EXCEPT ![w] = NoSocket]
    /\ outcome' = [outcome EXCEPT ![w] = how]
    /\ counters' = c

-----------------------------------------------------------------------------
(* The request *)

(* The pool hands a client's socket to an idle worker, whose handler       *)
(* counts it and sets the timeouts; if that fails, closes it again.        *)
Begin(w) ==
    /\ pc[w] = "idle"
    /\ counters["total_requests"] < MaxConnections
    /\ \E s \in Sockets \ open :
          /\ client' = [client EXCEPT ![w] = s]
          /\ open' = open \cup {s}
    /\ counters' = Bump(Bump(counters, "total_requests", 1), "active_connections", 1)
    /\ pc' = [pc EXCEPT ![w] = "reading"]
    /\ key' = [key EXCEPT ![w] = NoKey]
    /\ sent' = [sent EXCEPT ![w] = <<>>]
    /\ outcome' = [outcome EXCEPT ![w] = "none"]
    /\ UNCHANGED <<cached, found, fetch, history>>

(* Mutant: this return forgets the decrement. *)
SetTimeoutFailsUncounted(w) ==
    /\ pc[w] = "reading"
    /\ Leave(w, "dropped", counters)
    /\ UNCHANGED <<cached, key, found, fetch, sent, history>>

SetTimeoutFails(w) ==
    /\ pc[w] = "reading"
    /\ Leave(w, "dropped", Decremented(counters))
    /\ UNCHANGED <<cached, key, found, fetch, sent, history>>

(* No request arrives: an error or a timeout (408), more than the buffer   *)
(* holds (413), or the client closes without a byte (400).                 *)
ReadFails(w) ==
    /\ pc[w] = "reading"
    /\ \E status \in {408, 413, 400}, n \in 0 .. 1 : WriteAll(w, <<Page(status)>>, n)
    /\ Leave(w, "refused", Decremented(counters))
    /\ UNCHANGED <<cached, key, found, fetch, history>>

(* Bytes arrive that request_parser_parse does not accept, possibly        *)
(* because the client closed in the middle of the headers.                 *)
ParseFails(w) ==
    /\ pc[w] = "reading"
    /\ \E n \in 0 .. 1 : WriteAll(w, <<Page(400)>>, n)
    /\ Leave(w, "refused", Decremented(Bump(counters, "bytes_in", 1)))
    /\ UNCHANGED <<cached, key, found, fetch, history>>

ParseRequest(w, k) ==
    /\ pc[w] = "reading"
    /\ key' = [key EXCEPT ![w] = k]
    /\ counters' = Bump(counters, "bytes_in", 1)
    /\ pc' = [pc EXCEPT ![w] = "lookup"]
    /\ UNCHANGED <<cached, open, client, found, fetch, sent, outcome, history>>

-----------------------------------------------------------------------------
(* The cache lookup *)

(* Mutant: the miss is counted before the cache is asked. *)
LookupHitCountedTwice(w) ==
    /\ pc[w] = "lookup"
    /\ cached[key[w]] # <<>>
    /\ found' = [found EXCEPT ![w] = cached[key[w]]]
    /\ counters' = Bump(Bump(counters, "cache_misses", 1), "cache_hits", 1)
    /\ pc' = [pc EXCEPT ![w] = "replaying"]
    /\ UNCHANGED <<cached, open, client, key, fetch, sent, outcome, history>>

(* cache_get gives the worker a copy of its own. *)
LookupHit(w) ==
    /\ pc[w] = "lookup"
    /\ cached[key[w]] # <<>>
    /\ found' = [found EXCEPT ![w] = cached[key[w]]]
    /\ counters' = Bump(counters, "cache_hits", 1)
    /\ pc' = [pc EXCEPT ![w] = "replaying"]
    /\ UNCHANGED <<cached, open, client, key, fetch, sent, outcome, history>>

(* Nothing there, or no memory for the copy. *)
LookupMiss(w) ==
    /\ pc[w] = "lookup"
    /\ counters' = Bump(counters, "cache_misses", 1)
    /\ pc' = [pc EXCEPT ![w] = "connecting"]
    /\ UNCHANGED <<cached, open, lookup, fetch, sent, outcome, history>>

(* Mutant: writes from the entry in the cache, no longer under its mutex.  *)
ReplayShared(w) ==
    /\ pc[w] = "replaying"
    /\ WriteAll(w, cached[key[w]], Len(cached[key[w]]))
    /\ Leave(w, "replayed", Decremented(Bump(counters, "bytes_out", Len(found[w]))))
    /\ found' = [found EXCEPT ![w] = <<>>]
    /\ UNCHANGED <<cached, key, fetch, history>>

(* The copy is written; bytes_out counts all of it even if that fails.     *)
Replay(w) ==
    /\ pc[w] = "replaying"
    /\ \E n \in 0 .. Len(found[w]) :
          /\ WriteAll(w, found[w], n)
          /\ Leave(w, IF n = Len(found[w]) THEN "replayed" ELSE "cut",
                   Decremented(Bump(counters, "bytes_out", Len(found[w]))))
    /\ found' = [found EXCEPT ![w] = <<>>]
    /\ UNCHANGED <<cached, key, fetch, history>>

-----------------------------------------------------------------------------
(* response_forwarder_forward *)

(* The origin is connected to and has the rewritten request. *)
Connect(w, s) ==
    /\ pc[w] = "connecting"
    /\ \E o \in Sockets \ open :
          /\ origin' = [origin EXCEPT ![w] = o]
          /\ open' = open \cup {o}
    /\ script' = [script EXCEPT ![w] = s]
    /\ taken' = [taken EXCEPT ![w] = 0]
    /\ capture' = [capture EXCEPT ![w] = <<>>]
    /\ capturing' = [capturing EXCEPT ![w] = MaxCapture > 0]
    /\ pc' = [pc EXCEPT ![w] = "relaying"]
    /\ UNCHANGED <<cached, counters, lookup, sent, outcome, history>>

(* No address, no connection, no timeout set, a request that is too long   *)
(* for the buffer or cannot be written: the socket, if there was one, is   *)
(* closed again.                                                           *)
ConnectFails(w) ==
    /\ pc[w] = "connecting"
    /\ pc' = [pc EXCEPT ![w] = "failing"]
    /\ UNCHANGED <<shared, lookup, fetch, sent, outcome, history>>

Piece(w) == <<script[w].response, taken[w] + 1>>

(* Mutant: what was captured is freed, but capturing goes on. *)
DropCaptureGoOn(w) ==
    /\ capture' = [capture EXCEPT ![w] = <<>>]
    /\ UNCHANGED capturing

(* More than the limit, or realloc returned NULL: no capture from here on. *)
DropCapture(w) ==
    /\ capture' = [capture EXCEPT ![w] = <<>>]
    /\ capturing' = [capturing EXCEPT ![w] = FALSE]

(* Mutant: off by one. *)
KeepPieceTooMany(w) ==
    /\ Len(capture[w]) <= MaxCapture
    /\ capture' = [capture EXCEPT ![w] = Append(@, Piece(w))]
    /\ UNCHANGED capturing

KeepPiece(w) ==
    /\ Len(capture[w]) < MaxCapture
    /\ capture' = [capture EXCEPT ![w] = Append(@, Piece(w))]
    /\ UNCHANGED capturing

(* One turn of the relay loop: read, capture, write. *)
RelayPiece(w) ==
    /\ pc[w] = "relaying"
    /\ taken[w] < script[w].pieces
    /\ taken' = [taken EXCEPT ![w] = @ + 1]
    /\ IF capturing[w] THEN KeepPiece(w) \/ DropCapture(w)
       ELSE UNCHANGED <<capture, capturing>>
    /\ WriteAll(w, <<Piece(w)>>, 1)
    /\ UNCHANGED <<shared, pc, lookup, origin, script, outcome, history>>

(* response_forwarder_forward returns: its variables are gone. *)
EndFetch(w) ==
    /\ origin' = [origin EXCEPT ![w] = NoSocket]
    /\ script' = [script EXCEPT ![w] = NoScript]
    /\ taken' = [taken EXCEPT ![w] = 0]
    /\ capturing' = [capturing EXCEPT ![w] = FALSE]

(* Mutant: the origin's socket stays open. *)
ClientGoneLeaky(w) ==
    /\ pc[w] = "relaying"
    /\ taken[w] < script[w].pieces
    /\ EndFetch(w)
    /\ capture' = [capture EXCEPT ![w] = <<>>]
    /\ pc' = [pc EXCEPT ![w] = "failing"]
    /\ UNCHANGED <<shared, lookup, sent, outcome, history>>

(* ... the write fails; the piece does not reach the client whole. *)
ClientGone(w) ==
    /\ pc[w] = "relaying"
    /\ taken[w] < script[w].pieces
    /\ open' = open \ {origin[w]}
    /\ EndFetch(w)
    /\ capture' = [capture EXCEPT ![w] = <<>>]
    /\ pc' = [pc EXCEPT ![w] = "failing"]
    /\ UNCHANGED <<cached, counters, lookup, sent, outcome, history>>

(* Mutant: without SO_RCVTIMEO a silent origin is waited for forever. *)
OriginFailsByReset(w) ==
    /\ pc[w] = "relaying"
    /\ taken[w] = script[w].pieces
    /\ \/ /\ script[w].end = "reset"
          /\ open' = open \ {origin[w]}
          /\ EndFetch(w)
          /\ capture' = [capture EXCEPT ![w] = <<>>]
          /\ pc' = [pc EXCEPT ![w] = "failing"]
          /\ UNCHANGED <<cached, counters, lookup, sent, outcome, history>>
       \/ /\ script[w].end = "silence"
          /\ UNCHANGED vars

(* ... the read fails, or times out on a silent origin.  This return does  *)
(* not free the capture buffer.                                            *)
OriginFails(w) ==
    /\ pc[w] = "relaying"
    /\ taken[w] = script[w].pieces /\ script[w].end # "close"
    /\ open' = open \ {origin[w]}
    /\ EndFetch(w)
    /\ capture' = [capture EXCEPT ![w] = <<>>]
    /\ lost' = lost + (IF capture[w] = <<>> THEN 0 ELSE 1)
    /\ pc' = [pc EXCEPT ![w] = "failing"]
    /\ UNCHANGED <<cached, counters, lookup, sent, outcome, relayed>>

(* ... the read returns 0: the relay is complete and the capture, if it    *)
(* was kept up, goes to the caller.                                        *)
OriginCloses(w) ==
    /\ pc[w] = "relaying"
    /\ taken[w] = script[w].pieces /\ script[w].end = "close"
    /\ open' = open \ {origin[w]}
    /\ EndFetch(w)
    /\ counters' = Bump(counters, "bytes_out", taken[w])
    /\ relayed' = relayed \cup {<<key[w], sent[w]>>}
    /\ pc' = [pc EXCEPT ![w] = "storing"]
    /\ UNCHANGED <<cached, lookup, capture, sent, outcome, lost>>

-----------------------------------------------------------------------------
(* The ends of a miss *)

(* response_forwarder_forward returned -1, whatever the client already has.*)
AnswerFailure(w) ==
    /\ pc[w] = "failing"
    /\ \E n \in 0 .. 1 : WriteAll(w, <<Page(502)>>, n)
    /\ Leave(w, "failed", Decremented(Bump(counters, "origin_fetch_failures", 1)))
    /\ UNCHANGED <<cached, key, found, fetch, history>>

(* What a cache_put under k may do to the other keys.  Which ones are      *)
(* evicted is the business of Cache.                                       *)
Evictions(k) == SUBSET {x \in Keys \ {k} : cached[x] # <<>>}

Evicted(gone) == [x \in Keys |-> IF x \in gone THEN <<>> ELSE cached[x]]

(* Mutant: takes every store for one that evicted. *)
StoreCountedAlways(w) ==
    /\ pc[w] = "storing"
    /\ capture[w] # <<>>
    /\ \E gone \in Evictions(key[w]) :
          cached' = [Evicted(gone) EXCEPT ![key[w]] = capture[w]]
    /\ Leave(w, "relayed", Decremented(Bump(counters, "cache_evictions", 1)))
    /\ capture' = [capture EXCEPT ![w] = <<>>]
    /\ UNCHANGED <<key, found, origin, script, taken, capturing, sent, history>>

(* cache_put stores what was captured, and what it evicted is counted once *)
(* if it was anything; then the captured copy is freed.                    *)
Store(w) ==
    /\ pc[w] = "storing"
    /\ capture[w] # <<>>
    /\ \E gone \in Evictions(key[w]) :
          /\ cached' = [Evicted(gone) EXCEPT ![key[w]] = capture[w]]
          /\ Leave(w, "relayed",
                   Decremented(Bump(counters, "cache_evictions", IF gone = {} THEN 0 ELSE 1)))
    /\ capture' = [capture EXCEPT ![w] = <<>>]
    /\ UNCHANGED <<key, found, origin, script, taken, capturing, sent, history>>

(* cache_put refuses the object, or runs out of memory, maybe after it     *)
(* evicted others: those are not counted.                                  *)
StoreFails(w) ==
    /\ pc[w] = "storing"
    /\ capture[w] # <<>>
    /\ \E gone \in Evictions(key[w]) : cached' = Evicted(gone)
    /\ Leave(w, "relayed", Decremented(counters))
    /\ capture' = [capture EXCEPT ![w] = <<>>]
    /\ UNCHANGED <<key, found, origin, script, taken, capturing, sent, history>>

(* There is nothing to store. *)
SkipStore(w) ==
    /\ pc[w] = "storing"
    /\ capture[w] = <<>>
    /\ Leave(w, "relayed", Decremented(counters))
    /\ UNCHANGED <<cached, key, found, fetch, sent, history>>

-----------------------------------------------------------------------------
Init ==
    /\ cached = [k \in Keys |-> <<>>]
    /\ counters = [name \in Counters |-> 0]
    /\ open = {}
    /\ pc = [w \in Workers |-> "idle"]
    /\ client = [w \in Workers |-> NoSocket]
    /\ key = [w \in Workers |-> NoKey]
    /\ found = [w \in Workers |-> <<>>]
    /\ origin = [w \in Workers |-> NoSocket]
    /\ script = [w \in Workers |-> NoScript]
    /\ taken = [w \in Workers |-> 0]
    /\ capture = [w \in Workers |-> <<>>]
    /\ capturing = [w \in Workers |-> FALSE]
    /\ sent = [w \in Workers |-> <<>>]
    /\ outcome = [w \in Workers |-> "none"]
    /\ relayed = {}
    /\ lost = 0

Request(w) == Begin(w) \/ SetTimeoutFails(w) \/ ReadFails(w) \/ ParseFails(w)
              \/ (\E k \in Keys : ParseRequest(w, k))
Lookup(w) == LookupHit(w) \/ LookupMiss(w) \/ Replay(w)
Fetch(w) == \/ \E s \in Scripts : Connect(w, s)
            \/ ConnectFails(w)
            \/ RelayPiece(w) \/ ClientGone(w) \/ OriginFails(w) \/ OriginCloses(w)
Finish(w) == AnswerFailure(w) \/ Store(w) \/ StoreFails(w) \/ SkipStore(w)

Step(w) == Request(w) \/ Lookup(w) \/ Fetch(w) \/ Finish(w)

(* Nobody has to connect: the bound on connections is where it ends here.  *)
Finished == (\A w \in Workers : pc[w] = "idle") /\ UNCHANGED vars

Next == (\E w \in Workers : Step(w)) \/ Finished

(* A worker with a connection runs on: its reads and writes return, by the *)
(* timeout if by nothing else.                                             *)
Spec == Init /\ [][Next]_vars /\ \A w \in Workers : WF_vars(pc[w] # "idle" /\ Step(w))

-----------------------------------------------------------------------------
(* Properties *)

Pieces == Responses \X (Nat \ {0})
Pages == {Page(400), Page(408), Page(413), Page(502)}
Busy == {w \in Workers : pc[w] # "idle"}
At(places) == {w \in Workers : pc[w] \in places}

Outcomes == {"none", "dropped", "refused", "replayed", "cut", "relayed", "failed"}

SharedTyped ==
    /\ cached \in [Keys -> Seq(Pieces)]
    /\ counters \in [Counters -> Nat]
    /\ open \subseteq Sockets
    /\ relayed \subseteq Keys \X Seq(Pieces \cup Pages)
    /\ lost \in Nat

WorkersTyped ==
    /\ pc \in [Workers -> {"idle", "reading", "lookup", "replaying", "connecting",
                          "relaying", "storing", "failing"}]
    /\ client \in [Workers -> Sockets \cup {NoSocket}]
    /\ key \in [Workers -> Keys \cup {NoKey}]
    /\ origin \in [Workers -> Sockets \cup {NoSocket}]
    /\ script \in [Workers -> Scripts \cup {NoScript}]
    /\ taken \in [Workers -> Nat]
    /\ capturing \in [Workers -> BOOLEAN]
    /\ outcome \in [Workers -> Outcomes]

BuffersTyped ==
    /\ found \in [Workers -> Seq(Pieces)]
    /\ capture \in [Workers -> Seq(Pieces)]
    /\ sent \in [Workers -> Seq(Pieces \cup Pages)]

(* The variables of a call are there exactly while the worker is in it. *)
CallLocals ==
    \A w \in Workers :
        /\ pc[w] \notin {"idle", "reading"} => key[w] \in Keys
        /\ client[w] # NoSocket <=> pc[w] # "idle"
        /\ pc[w] = "relaying" <=> origin[w] # NoSocket
        /\ pc[w] = "relaying" <=> script[w] # NoScript
        /\ found[w] # <<>> => pc[w] = "replaying"
        /\ capturing[w] => pc[w] = "relaying"
        /\ capture[w] # <<>> => pc[w] = "storing" \/ capturing[w]
        /\ Len(capture[w]) <= MaxCapture

(* Every variable keeps its type, a capture never exceeds its limit, and   *)
(* no variable of a call survives it.                                      *)
TypeOK == SharedTyped /\ WorkersTyped /\ BuffersTyped /\ CallLocals

(* The sockets that are open are the clients' of the busy workers and the  *)
(* origins' of the relaying ones, each with one owner: no return of the    *)
(* handler leaves a socket behind, and none closes or uses a handle that   *)
(* was closed before and may be somebody else's by now.                    *)
SocketsOwned ==
    /\ open = {client[w] : w \in Busy} \cup {origin[w] : w \in At({"relaying"})}
    /\ \A v, w \in Busy : client[v] = client[w] => v = w
    /\ \A v, w \in At({"relaying"}) : origin[v] = origin[w] => v = w
    /\ \A v \in Busy, w \in At({"relaying"}) : client[v] # origin[w]

(* The cache holds, under a key, only what a client that asked for that    *)
(* key got from an origin, from the first piece to the last: nothing of a  *)
(* fetch that failed or of a client that went away, and no capture with a  *)
(* hole in it.                                                             *)
CacheHoldsRelayed ==
    \A k \in Keys : cached[k] # <<>> => <<k, cached[k]>> \in relayed

(* What a client gets from the cache is, piece for piece, what an earlier  *)
(* client got for the same key, whatever other workers evict or replace    *)
(* while it is written.                                                    *)
ReplayIsRelayed ==
    \A w \in Workers : outcome[w] = "replayed" => <<key[w], sent[w]>> \in relayed

(* active_connections is the number of connections being handled, however  *)
(* they end; the guard against going below zero is never needed.           *)
ActiveIsBusy == counters["active_connections"] = Cardinality(Busy)

(* The keys that have something in the cache. *)
Filled == {k \in Keys : cached[k] # <<>>}

(* The counters fit together and with the cache, also while workers are    *)
(* between two of them: a request that was parsed is a hit or a miss and   *)
(* not both, and each miss is at most one of still in flight, a failure, a *)
(* response that is in the cache, and an eviction that made room for one:  *)
(* a store is counted as an eviction only if it cost another its place.    *)
CountersFitTogether ==
    /\ counters["cache_hits"] + counters["cache_misses"]
          + Cardinality(At({"reading", "lookup"})) <= counters["total_requests"]
    /\ counters["origin_fetch_failures"] + counters["cache_evictions"] + Cardinality(Filled)
          + Cardinality(At({"connecting", "relaying", "storing", "failing"}))
             <= counters["cache_misses"]

(* The handler returns, and the worker is free for the next client: no     *)
(* silent client or origin keeps it.  (An origin that goes on sending      *)
(* would; here responses have an end.)                                     *)
ConnectionEnds == \A w \in Workers : pc[w] # "idle" ~> pc[w] = "idle"

-----------------------------------------------------------------------------
(* Claims the code does not live up to. *)

(* docs/design-decisions.md:71 says that caching only after the relay      *)
(* "avoids caching partial responses": whatever is cached is a whole       *)
(* response.                                                               *)
NoPartialResponseCached ==
    \A k \in Keys : cached[k] # <<>> => \E r \in Responses : cached[k] = Whole(r)

(* docs/architecture.md:103-108: an origin fetch failure is answered by an *)
(* explicit HTTP error response: when a client gets the page of a 502, the *)
(* page is its answer and not the continuation of another.                 *)
FailureIsAnErrorResponse ==
    \A w \in Workers : \A i \in DOMAIN sent[w] :
        sent[w][i] = Page(502) => sent[w] = <<Page(502)>>

(* docs/design-decisions.md:73 says that the same order "simplifies        *)
(* ownership and failure handling": the capture buffer always has an       *)
(* owner.                                                                  *)
NoCaptureLost == lost = 0
=============================================================================
