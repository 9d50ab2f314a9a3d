--------------------------- MODULE MCRequestPath ---------------------------
(***************************************************************************)
(* RequestPath on small instances.  One family of streams varies the       *)
(* request line, one what follows a good one, and one its length, which is *)
(* below, at and above the limit.                                          *)
(***************************************************************************)
EXTENDS RequestPath

CONSTANTS UrlTokens, UrlLength,   \* the second half of the URL
          FieldTokens, FieldLength

(* Every sequence of tokens up to the length. *)
TextsUpTo(tokens, n) == UNION {[1 .. k -> tokens] : k \in 0 .. n}

(* A good line, with any text for the rest of its URL, and lines that are  *)
(* wrong somewhere else.                                                   *)
Good(text) == <<"GET", "sp">> \o Scheme \o text \o <<"sp", "HTTP/1.1">>

Lines == {Good(u) : u \in TextsUpTo(UrlTokens, UrlLength - 1)}
         \cup {Good(<<"h">> \o u) : u \in TextsUpTo(UrlTokens, UrlLength)}
         \cup {m \o s \o <<"h">> \o v :
                  m \in {<<"GET", "sp">>, <<"POST", "sp">>, <<"sp">>},
                  s \in {Scheme, <<"http", ":", "/">>},
                  v \in {<<"sp", "HTTP/1.0">>, <<"sp", "HTTP/2">>, <<"HTTP/1.1">>}}

(* Two empty lines in a row, so that most of them are complete. *)
Endings == {<<>>, CRLF \o CRLF, CRLF \o CRLF \o <<"x">> \o CRLF \o CRLF}

MCStreams ==
    {<<>>} \cup {l \o CRLF \o <<"x">> \o CRLF \o CRLF : l \in Lines}
           \cup {Good(<<"h">>) \o f \o e : f \in TextsUpTo(FieldTokens, FieldLength), e \in Endings}
           \cup {Good(<<"h">>) \o CRLF \o [i \in 1 .. n |-> "x"] \o CRLF \o CRLF : n \in 1 .. 5}

MCTokens == {"GET", "POST", "sp", "http", "HTTP/1.0", "HTTP/1.1", "HTTP/2", "h", "x", "host",
             ":", "/", "|", "+", "0", "6", "8", "CR", "LF", "NUL"}

MCAddresses == TextsUpTo({"no_socket", "refuses", "accepts"}, 2) \ {<<>>}
=============================================================================
