---------------------------- MODULE RequestPath ----------------------------
(***************************************************************************)
(* The way of one request through the proxy, token by token: it is read    *)
(* from the client in pieces (read_request_bytes of proxy_server.c),       *)
(* parsed, and, when the cache does not have the answer, rewritten line by *)
(* line and written in pieces to the first address of the origin that      *)
(* accepts a connection (response_forwarder.c, socket_utils.c).  What      *)
(* RequestHandler takes in one step, between "reading" and "relaying", is  *)
(* here in detail, for one worker; no two workers share any of it.         *)
(*                                                                         *)
(* Texts are those of RequestParser.  The word "host" or "connection" at   *)
(* the start of a line stands for a header field the proxy replaces, with  *)
(* any case of its name ("connection" for proxy-connection as well).       *)
(***************************************************************************)
EXTENDS RequestParser

CONSTANTS Streams,    \* what a client may send before it is silent or closes
          Limit,      \* PROXY_REQUEST_BUFFER_SIZE - 1
          Addresses   \* what getaddrinfo may return

(* Each address either yields no socket, or refuses or accepts.            *)
ASSUME PathAssumption ==
    /\ \A s \in Streams : s \in Seq(Tokens)
    /\ Limit \in Nat \ {0}
    /\ \A l \in Addresses : l \in Seq({"no_socket", "refuses", "accepts"})

VARIABLES
    stage,      \* where process_client_connection is
    stream,     \* what this client sends
    got,        \* total_bytes_read
    answer,     \* the status of the error page, 0 for none
    request,    \* the parsed request
    addresses,  \* the result of getaddrinfo
    cursor,     \* the address that is tried
    open,       \* the sockets to the origin that are open, by their address
    rest,       \* the header lines from line_start on
    outbound,   \* outbound_request
    written,    \* total_sent
    received    \* what has arrived at the origin

reading == <<stream, got>>
connecting == <<addresses, cursor, open>>
rewriting == <<rest, outbound, written, received>>
vars == <<stage, reading, answer, request, connecting, rewriting>>

-----------------------------------------------------------------------------
(* read_request_bytes *)

(* The first n tokens as a C string: a NUL hides what is behind it. *)
Text(n) == LET s == SubSeq(stream, 1, n)
               nul == FirstOf(s, "NUL")
           IN IF nul = 0 THEN s ELSE Before(s, nul)

(* The request is refused with a page, and the client's socket closed. *)
Refuse(status) == stage' = "refused" /\ answer' = status

(* Mutant: only looks at what the last read returned. *)
ReceivePiece(n) ==
    /\ stage = "reading"
    /\ got + n <= Limit /\ got + n <= Len(stream)
    /\ got' = got + n
    /\ IF HasTerminator(SubSeq(stream, got + 1, got + n)) THEN stage' = "parsing" /\ UNCHANGED answer
       ELSE IF got' = Limit THEN Refuse(413)
       ELSE UNCHANGED <<stage, answer>>
    /\ UNCHANGED <<stream, request, connecting, rewriting>>

(* Mutant: the bytes read so far are forgotten with every read. *)
ReceiveOverwriting(n) ==
    /\ stage = "reading"
    /\ n <= Limit /\ n <= Len(stream)
    /\ got' = n
    /\ IF HasTerminator(Text(n)) THEN stage' = "parsing" /\ UNCHANGED answer
       ELSE IF got' = Limit THEN Refuse(413)
       ELSE UNCHANGED <<stage, answer>>
    /\ UNCHANGED <<stream, request, connecting, rewriting>>

(* recv returns the next n tokens.  The whole buffer is searched again.    *)
Receive(n) ==
    /\ stage = "reading"
    /\ got + n <= Limit /\ got + n <= Len(stream)
    /\ got' = got + n
    /\ IF HasTerminator(Text(got + n)) THEN stage' = "parsing" /\ UNCHANGED answer
       ELSE IF got' = Limit THEN Refuse(413)
       ELSE UNCHANGED <<stage, answer>>
    /\ UNCHANGED <<stream, request, connecting, rewriting>>

(* The client closes in order: what came so far goes to the parser.        *)
ReceiveEnd ==
    /\ stage = "reading"
    /\ got = Len(stream)
    /\ IF got = 0 THEN Refuse(400) ELSE stage' = "parsing" /\ UNCHANGED answer
    /\ UNCHANGED <<reading, request, connecting, rewriting>>

(* recv fails or times out. *)
ReceiveFails ==
    /\ stage = "reading"
    /\ Refuse(408)
    /\ UNCHANGED <<reading, request, connecting, rewriting>>

ParseText ==
    /\ stage = "parsing"
    /\ request' = Parse[Text(got)]
    /\ IF request' = Refused THEN Refuse(400) ELSE stage' = "resolving" /\ UNCHANGED answer
    /\ UNCHANGED <<reading, connecting, rewriting>>

-----------------------------------------------------------------------------
(* socket_utils_connect_to_host *)

(* response_forwarder_forward returns -1 and the client gets the page. *)
Fail == stage' = "refused" /\ answer' = 502

Resolve ==
    /\ stage = "resolving"
    /\ \/ Fail /\ UNCHANGED addresses
       \/ /\ addresses' \in Addresses
          /\ stage' = "connecting"
          /\ UNCHANGED answer
    /\ UNCHANGED <<reading, request, cursor, open, rewriting>>

(* Mutant: the socket that could not be connected stays open. *)
TryAddressLeaky ==
    /\ stage = "connecting"
    /\ cursor <= Len(addresses)
    /\ IF addresses[cursor] = "accepts"
       THEN stage' = "building" /\ UNCHANGED cursor
       ELSE cursor' = cursor + 1 /\ UNCHANGED stage
    /\ open' = IF addresses[cursor] = "no_socket" THEN open ELSE open \cup {cursor}
    /\ UNCHANGED <<reading, answer, request, addresses, rewriting>>

(* One turn of the loop: a socket, if there is one, that is connected or   *)
(* closed again.                                                           *)
TryAddress ==
    /\ stage = "connecting"
    /\ cursor <= Len(addresses)
    /\ IF addresses[cursor] = "accepts"
       THEN stage' = "building" /\ open' = open \cup {cursor} /\ UNCHANGED cursor
       ELSE cursor' = cursor + 1 /\ UNCHANGED <<stage, open>>
    /\ UNCHANGED <<reading, answer, request, addresses, rewriting>>

NoAddressLeft ==
    /\ stage = "connecting"
    /\ cursor > Len(addresses)
    /\ Fail
    /\ UNCHANGED <<reading, request, connecting, rewriting>>

(* The timeouts cannot be set on the connection. *)
TimeoutFails ==
    /\ stage = "building"
    /\ Fail
    /\ open' = open \ {cursor}
    /\ UNCHANGED <<reading, request, addresses, cursor, rewriting>>

-----------------------------------------------------------------------------
(* build_origin_request and append_filtered_headers.  The buffer is larger *)
(* than the largest request of the parser with the lines added here, so    *)
(* that its overflow branches are left out.                                *)

Replaced == {"host", "connection"}

OwnLines(url) ==
    <<"host">> \o url.host \o <<":">> \o Decimal[url.port] \o CRLF \o <<"connection">> \o CRLF

StartLine(r) == <<"GET", "sp">> \o r.url.path \o <<"sp", r.version>> \o CRLF

StartRewrite ==
    /\ stage = "building"
    /\ stage' = "filtering"
    /\ outbound' = StartLine(request) \o OwnLines(request.url)
    /\ rest' = request.headers
    /\ UNCHANGED <<reading, answer, request, connecting, written, received>>

(* The line at the start of s: up to the first CR LF, or all of s. *)
LineLength(s) ==
    LET ends == {i \in 1 .. Len(s) : OccursAt(CRLF, s, i)}
    IN IF ends = {} THEN Len(s) ELSE (CHOOSE i \in ends : \A j \in ends : i <= j) - 1

(* Mutant: a field the proxy replaces ends the filter. *)
KeptNoneAfter(line) == IF Head(line) \in Replaced THEN CRLF ELSE line \o CRLF

(* What the filter keeps of a line. *)
Kept(line) == IF Head(line) \in Replaced THEN <<>> ELSE line \o CRLF

FilterLine ==
    /\ stage = "filtering"
    /\ LineLength(rest) > 0
    /\ outbound' = outbound \o Kept(SubSeq(rest, 1, LineLength(rest)))
    /\ rest' = After(rest, LineLength(rest) + 2)
    /\ UNCHANGED <<stage, reading, answer, request, connecting, written, received>>

(* At the empty line or the end of the text. *)
EndRewrite ==
    /\ stage = "filtering"
    /\ LineLength(rest) = 0
    /\ outbound' = outbound \o CRLF
    /\ stage' = "writing"
    /\ UNCHANGED <<reading, answer, request, connecting, rest, written, received>>

-----------------------------------------------------------------------------
(* socket_utils_write_all on the origin's socket *)

(* What a send takes of the request from its at-th token on. *)
Sent(at, n) == SubSeq(outbound, at, at + n - 1)

(* Mutant: one send is taken for all of it. *)
SendOnce(n) ==
    /\ stage = "writing"
    /\ written + n <= Len(outbound)
    /\ received' = received \o Sent(written + 1, n)
    /\ written' = written + n
    /\ stage' = "relaying"
    /\ UNCHANGED <<reading, answer, request, connecting, rest, outbound>>

(* Mutant: the pointer is not moved on after a short send. *)
SendFromStart(n) ==
    /\ stage = "writing"
    /\ written + n <= Len(outbound)
    /\ received' = received \o Sent(1, n)
    /\ written' = written + n
    /\ stage' = IF written' = Len(outbound) THEN "relaying" ELSE stage
    /\ UNCHANGED <<reading, answer, request, connecting, rest, outbound>>

(* send takes the next n tokens. *)
Send(n) ==
    /\ stage = "writing"
    /\ written + n <= Len(outbound)
    /\ received' = received \o Sent(written + 1, n)
    /\ written' = written + n
    /\ stage' = IF written' = Len(outbound) THEN "relaying" ELSE stage
    /\ UNCHANGED <<reading, answer, request, connecting, rest, outbound>>

SendFails ==
    /\ stage = "writing"
    /\ Fail
    /\ open' = open \ {cursor}
    /\ UNCHANGED <<reading, request, addresses, cursor, rewriting>>

(* The relay of the response follows: see RequestHandler. *)
Finished == stage \in {"refused", "relaying"} /\ UNCHANGED vars

-----------------------------------------------------------------------------
Init ==
    /\ stage = "reading"
    /\ stream \in Streams
    /\ got = 0
    /\ answer = 0
    /\ request = Refused
    /\ addresses = <<>>
    /\ cursor = 1
    /\ open = {}
    /\ rest = <<>>
    /\ outbound = <<>>
    /\ written = 0
    /\ received = <<>>

ReadStep == (\E n \in 1 .. Limit : Receive(n)) \/ ReceiveEnd \/ ReceiveFails
ConnectStep == Resolve \/ TryAddress \/ NoAddressLeft \/ TimeoutFails
RewriteStep == StartRewrite \/ FilterLine \/ EndRewrite
SendStep == (\E n \in 1 .. Len(outbound) : Send(n)) \/ SendFails
Step == ReadStep \/ ParseText \/ ConnectStep \/ RewriteStep \/ SendStep

Next == Step \/ Finished

(* Reads and writes return, by the timeouts if by nothing else. *)
Spec == Init /\ [][Next]_vars /\ WF_vars(Step)

-----------------------------------------------------------------------------
(* Properties *)

(* Every variable keeps its type. *)
TypeOK ==
    /\ stage \in {"reading", "parsing", "resolving", "connecting", "building",
                  "filtering", "writing", "relaying", "refused"}
    /\ stream \in Seq(Tokens)
    /\ got \in 0 .. Limit /\ got <= Len(stream)
    /\ answer \in {0, 400, 408, 413, 502}
    /\ addresses \in Addresses \cup {<<>>}
    /\ cursor \in 1 .. Len(addresses) + 1
    /\ open \subseteq {cursor}
    /\ written \in 0 .. Len(outbound)

(* What the reader has in its buffer when it first sees the end of the    *)
(* headers, or <<>> if it never does.                                      *)
FirstComplete ==
    LET ends == {n \in 1 .. Len(stream) : n <= Limit /\ HasTerminator(Text(n))}
    IN IF ends = {} THEN <<>> ELSE Text(Min(ends))

RequestLine(text) == Before(text, LineEnd(text))

(* A request line with an empty line right behind it: the reader takes it  *)
(* for complete, the parser does not, unless more came in the same read.   *)
Bare(text) == text # <<>> /\ Parse[text] = Refused /\ ParseLine[RequestLine(text)] # Refused

(* What becomes of the stream as long as no socket call fails, 0 for "it   *)
(* is forwarded", if text is its FirstComplete.                            *)
Verdict(text) == IF text # <<>> THEN (IF Parse[text] = Refused THEN 400 ELSE 0)
                 ELSE IF Len(stream) >= Limit THEN 413 ELSE 400

(* The verdict on a request does not depend on the pieces it is read in,   *)
(* nor on what follows it: one whose headers end with the last byte of the *)
(* buffer is accepted, one that is longer is too large, and one that ends  *)
(* before its headers do is refused.                                       *)
VerdictFixed ==
    stage = "resolving" \/ answer \in {400, 413} =>
        LET text == FirstComplete IN Bare(text) \/ answer = Verdict(text)

(* The lines of a stream whose every line ends in CR LF, up to the first   *)
(* empty one, are its request line and its fields.                         *)
Crlf(s) == \A i \in DOMAIN s :
              /\ s[i] = "CR" => i < Len(s) /\ s[i + 1] = "LF"
              /\ s[i] = "LF" => i > 1 /\ s[i - 1] = "CR"
              /\ s[i] # "NUL"

(* Where the line of a token starts. *)
StartOf(s, i) == CHOOSE j \in 1 .. i : /\ j = 1 \/ s[j - 1] = "LF"
                                       /\ \A k \in j .. i - 1 : s[k] # "LF"

(* The header fields of such a text, in order, without those the proxy     *)
(* replaces: all tokens of lines that start with another word.             *)
FieldsKept(s) ==
    LET kept[i \in 0 .. Len(s)] ==
            IF i = 0 THEN <<>>
            ELSE IF s[StartOf(s, i)] \in Replaced THEN kept[i - 1]
            ELSE Append(kept[i - 1], s[i])
    IN kept[Len(s)]

(* The origin gets the client's request line in origin form, the proxy's   *)
(* own Host and Connection, and then every other header field of the       *)
(* client as it was, in order, up to the first empty line and no byte from *)
(* behind it, however the request was cut into reads and its rewritten     *)
(* form into writes.                                                       *)
ForwardedAsMeant ==
    stage = "relaying" =>
        LET text == FirstComplete
            line == ParseLine[RequestLine(text)]
        IN Crlf(text) /\ ~Bare(text) =>
              received = StartLine(line) \o OwnLines(line.url)
                            \o FieldsKept(After(text, LineEnd(text) + 1))

(* The connection that is used is the first that was accepted, it is the   *)
(* only socket left open by the attempts before it, it is closed if it is  *)
(* not used, the origin gets every part of the request once and in order,  *)
(* and the response is only waited for when it has all of it.              *)
OriginReached ==
    /\ open = IF stage \in {"building", "filtering", "writing", "relaying"} THEN {cursor} ELSE {}
    /\ \A i \in open : addresses[i] = "accepts" /\ \A j \in 1 .. i - 1 : addresses[j] # "accepts"
    /\ received = SubSeq(outbound, 1, written)
    /\ stage = "relaying" => received = outbound /\ received # <<>>

(* The parser accepts a request line exactly if it has a meaning, and then *)
(* finds it; and a cache key names one meaning only, so that no request is *)
(* answered with the response of another.                                  *)
Understood ==
    stage = "parsing" /\ LineEnd(Text(got)) # 0 =>
        LET line == RequestLine(Text(got))
            meanings == Meanings(line)
        IN /\ meanings = {ParseLine[line]} \ {Refused}
           /\ \A m \in meanings : KeyDecoded(CacheKey(m.url)) = m.url

(* Every request ends, refused or on its way: a client that sends token    *)
(* after token, each just in time for its own timeout, is held by the      *)
(* buffer, and one that closes is not read from again.                     *)
RequestEnds == <>(stage \in {"refused", "relaying"})

-----------------------------------------------------------------------------
(* A claim the code does not live up to. *)

(* README.md:8: the proxy "parses absolute-form `GET` requests".  A whole  *)
(* such request, with any number of header fields, is not refused as       *)
(* malformed.                                                              *)
GetIsParsed ==
    answer = 400 => FirstComplete = <<>> \/ ParseLine[RequestLine(FirstComplete)] = Refused
=============================================================================
