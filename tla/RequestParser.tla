--------------------------- MODULE RequestParser ---------------------------
(***************************************************************************)
(* src/src/request_parser.c and build_cache_key of proxy_server.c, as      *)
(* operators on texts.  A text is a sequence of tokens.  Every character   *)
(* the parser looks for is a token of its own ("sp", ":", "/", "|", "+",   *)
(* the digits, "CR", "LF"); any other token is a word without such a       *)
(* character in it, and counts as one character where length is limited.   *)
(***************************************************************************)
EXTENDS Naturals, Sequences, SequencesExt

CONSTANTS Tokens,    \* the characters and words texts are made of
          MaxPort,   \* 65535
          PortSize,  \* sizeof(port_buffer)
          HostSize,  \* sizeof(request->host)
          PathSize,  \* sizeof(request->path)
          Refused    \* the parser returned -1

ASSUME ParserAssumption ==
    /\ MaxPort \in Nat /\ MaxPort >= 80
    /\ {"CR", "LF", "/", "HTTP/1.0", "HTTP/1.1"} \subseteq Tokens
    /\ PortSize \in Nat \ {0} /\ HostSize \in Nat \ {0} /\ PathSize \in Nat \ {0, 1}

(* A failure is told from every result. *)
Urls == [host : Seq(Tokens), port : Nat, path : Seq(Tokens)]

ASSUME RefusedAssumption ==
    /\ Refused \notin Urls
    /\ Refused \notin [url : Urls, version : Tokens]
    /\ Refused \notin [url : Urls, version : Tokens, headers : Seq(Tokens)]

Digits == <<"0", "1", "2", "3", "4", "5", "6", "7", "8", "9">>
DigitSet == {Digits[i] : i \in 1 .. 10}
Versions == {"HTTP/1.0", "HTTP/1.1"}
Scheme == <<"http", ":", "/", "/">>
CRLF == <<"CR", "LF">>

-----------------------------------------------------------------------------
(* Searching: memchr, strstr, and the two parts around what was found. *)

(* Where t occurs first in s, 0 if it does not. *)
FirstOf(s, t) == SelectInSeq(s, LAMBDA x : x = t)

Before(s, i) == SubSeq(s, 1, i - 1)
After(s, i) == SubSeq(s, i + 1, Len(s))

OccursAt(pattern, s, i) ==
    i + Len(pattern) - 1 <= Len(s) /\ SubSeq(s, i, i + Len(pattern) - 1) = pattern

Occurs(pattern, s) == \E i \in 1 .. Len(s) : OccursAt(pattern, s, i)

(* buffer_has_complete_headers, contains_header_terminator *)
HasTerminator(s) == Occurs(CRLF \o CRLF, s) \/ Occurs(<<"LF", "LF">>, s)

(* copy_substring leaves room for the terminating NUL. *)
Fits(s, size) == Len(s) < size

-----------------------------------------------------------------------------
(* Numbers *)

DigitValue(d) == FirstOf(Digits, d) - 1

(* strtol(text, &end, 10) with *end = '\0': an optional sign and digits.   *)
(* (Negative numbers are out of range anyway and left out.)                *)
Unsigned(text) == IF text # <<>> /\ Head(text) = "+" THEN Tail(text) ELSE text
IsNumber(text) == Unsigned(text) # <<>> /\ \A i \in DOMAIN Unsigned(text) : Unsigned(text)[i] \in DigitSet
Numeral[t \in Seq(DigitSet)] == IF t = <<>> THEN 0 ELSE 10 * Numeral[Front(t)] + DigitValue(Last(t))
NumberOf(text) == Numeral[Unsigned(text)]

(* printf's %d *)
Decimal[n \in Nat] == IF n < 10 THEN <<Digits[n + 1]>>
                      ELSE Append(Decimal[n \div 10], Digits[(n % 10) + 1])

(* Mutant: the upper limit is off by one. *)
PortOffByOne(text) ==
    IF /\ Fits(text, PortSize)
       /\ IsNumber(text)
       /\ NumberOf(text) \in 1 .. MaxPort + 1
    THEN NumberOf(text) ELSE 0

(* parse_port_value; 0 stands for its failure. *)
PortValue(text) ==
    IF /\ Fits(text, PortSize)
       /\ IsNumber(text)
       /\ NumberOf(text) \in 1 .. MaxPort
    THEN NumberOf(text) ELSE 0

-----------------------------------------------------------------------------
(* The request line *)

(* parse_absolute_url *)
ParseUrl[url \in Seq(Tokens)] ==
    LET rest == After(url, Len(Scheme))
        slash == FirstOf(rest, "/")
        authority == IF slash = 0 THEN rest ELSE Before(rest, slash)
        path == IF slash = 0 THEN <<"/">> ELSE SubSeq(rest, slash, Len(rest))
        colon == FirstOf(authority, ":")
        host == IF colon = 0 THEN authority ELSE Before(authority, colon)
        port == IF colon = 0 THEN 80 ELSE PortValue(After(authority, colon))
    IN IF /\ OccursAt(Scheme, url, 1) /\ rest # <<>>
          /\ Fits(path, PathSize)
          /\ host # <<>> /\ Fits(host, HostSize)
          /\ port # 0
       THEN [host |-> host, port |-> port, path |-> path]
       ELSE Refused

(* parse_request_line and parse_absolute_url: the line splits at its first *)
(* two spaces.                                                             *)
ParseLine[line \in Seq(Tokens)] ==
    LET first == FirstOf(line, "sp")
        second == first + FirstOf(After(line, first), "sp")
        url == SubSeq(line, first + 1, second - 1)
    IN IF /\ first # 0 /\ second # first
          /\ Before(line, first) = <<"GET">>
          /\ \E v \in Versions : After(line, second) = <<v>>
          /\ ParseUrl[url] # Refused
       THEN [url |-> ParseUrl[url], version |-> After(line, second)[1]]
       ELSE Refused

(* find_line_end *)
LineEnd(text) == SelectInSeq(text, LAMBDA x : x \in {"CR", "LF"})

(* skip_line_break *)
AfterBreak(text, i) == IF OccursAt(CRLF, text, i) THEN After(text, i + 1) ELSE After(text, i)

(* request_parser_parse.  The headers, which are shorter than the buffer   *)
(* they were read into, always fit.                                        *)
Parse[text \in Seq(Tokens)] ==
    LET e == LineEnd(text)
        parsed == ParseLine[Before(text, e)]
    IN IF e > 1 /\ parsed # Refused /\ HasTerminator(AfterBreak(text, e))
       THEN [url |-> parsed.url, version |-> parsed.version, headers |-> AfterBreak(text, e)]
       ELSE Refused

(* build_cache_key *)
CacheKey(url) ==
    <<"GET", "|">> \o url.host \o <<"|">> \o Decimal[url.port] \o <<"|">> \o url.path

-----------------------------------------------------------------------------
(* What the operators above are compared with. *)

(* What a request line means, said without searching: the ways to cut it   *)
(* into a host, which ends at a, a port, which ends at b, and a path.      *)
Meanings(line) ==
    LET url == SubSeq(line, 3, Len(line) - 2)
        Host(a) == SubSeq(url, Len(Scheme) + 1, a)
        Port(a, b) == SubSeq(url, a + 1, b)
        Path(b) == IF b = Len(url) THEN <<"/">> ELSE After(url, b)
        Number(a, b) == IF a = b THEN 80 ELSE NumberOf(Tail(Port(a, b)))
        Cut(a, b) == /\ a > Len(Scheme) /\ Fits(Host(a), HostSize)
                     /\ \A i \in 1 .. a - Len(Scheme) : Host(a)[i] \notin {":", "/"}
                     /\ Head(Path(b)) = "/" /\ Fits(Path(b), PathSize)
                     /\ a < b => /\ Head(Port(a, b)) = ":"
                                 /\ IsNumber(Tail(Port(a, b)))
                                 /\ Fits(Tail(Port(a, b)), PortSize)
                     /\ Number(a, b) \in 1 .. MaxPort
    IN IF \E v \in Versions :
             line = <<"GET", "sp">> \o Scheme \o After(url, Len(Scheme)) \o <<"sp", v>>
          /\ \A i \in DOMAIN url : url[i] # "sp"
       THEN {[url |-> [host |-> Host(x[1]), port |-> Number(x[1], x[2]), path |-> Path(x[2])],
              version |-> line[Len(line)]] :
                x \in {y \in (1 .. Len(url)) \X (1 .. Len(url)) : y[1] <= y[2] /\ Cut(y[1], y[2])}}
       ELSE {}

(* The cache key of one request, read back: the path starts at the first   *)
(* "/" and the port is what lies before it, between the last two bars.     *)
KeyDecoded(key) ==
    LET slash == FirstOf(key, "/")
        bars == {i \in 1 .. slash - 1 : key[i] = "|"}
        last == CHOOSE i \in bars : \A j \in bars : j <= i
        rest == bars \ {last}
        middle == CHOOSE i \in rest : \A j \in rest : j <= i
    IN [host |-> SubSeq(key, 3, middle - 1),
        port |-> NumberOf(SubSeq(key, middle + 1, last - 1)),
        path |-> SubSeq(key, slash, Len(key))]
=============================================================================
