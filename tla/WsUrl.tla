-------------------------------- MODULE WsUrl --------------------------------
(***************************************************************************)
(* ParseWsUrl (core/src/config.cpp).  A URL is its scheme and the rest of   *)
(* its characters: the punctuation the parser looks for, digits, and "h"    *)
(* for a run of any others.                                                 *)
(***************************************************************************)
EXTENDS Integers, Sequences, SequencesExt

kDefaultTlsPort == 443
kDefaultPlainPort == 80

Digits == [d \in {"0", "3", "5", "6", "8"} |->
             CASE d = "0" -> 0 [] d = "3" -> 3 [] d = "5" -> 5 [] d = "6" -> 6 [] d = "8" -> 8]

\* std::string_view's find and rfind of one character, 0 for npos, and substr.
Find(text, char) == SelectInSeq(text, LAMBDA c : c = char)
RFind(text, char) == SelectLastInSeq(text, LAMBDA c : c = char)
From(text, i) == SubSeq(text, i, Len(text))

\* The port a text stands for, 0 if it is none.
ParsePort(text) ==
  IF Len(text) \notin 1..5 \/ ~(ToSet(text) \subseteq DOMAIN Digits) THEN 0
  ELSE LET value == FoldLeft(LAMBDA v, d : v * 10 + Digits[d], 0, text)
       IN  IF value > 65535 THEN 0 ELSE value

Authority(host, hasPort, port) == [ok |-> TRUE, host |-> host, has_port |-> hasPort, port |-> port]
Malformed == [ok |-> FALSE, host |-> <<>>, has_port |-> FALSE, port |-> <<>>]

\* Without a bracket the last colon separates the port.
SplitAtColon(authority) ==
  LET colon == RFind(authority, ":")
  IN  IF colon = 0 THEN Authority(authority, FALSE, <<>>)
      ELSE Authority(SubSeq(authority, 1, colon - 1), TRUE, From(authority, colon + 1))

\* Mutation of SplitAuthority: brackets mean nothing.
SplitIgnoringBrackets(authority) == SplitAtColon(authority)

SplitAuthority(authority) ==
  IF authority = <<>> \/ authority[1] # "[" THEN SplitAtColon(authority)
  ELSE LET close == Find(authority, "]")
           rest  == From(authority, close + 1)
           host  == SubSeq(authority, 2, close - 1)
       IN  IF close = 0 THEN Malformed
           ELSE IF rest = <<>> THEN Authority(host, FALSE, <<>>)
           ELSE IF rest[1] # ":" THEN Malformed
           ELSE Authority(host, TRUE, Tail(rest))

Endpoint(tls, host, port, path) == [ok |-> TRUE, tls |-> tls, host |-> host, port |-> port, path |-> path]
NoEndpoint == [ok |-> FALSE, tls |-> FALSE, host |-> <<>>, port |-> 0, path |-> <<>>]

ParseWsUrl(url) ==
  LET slash == Find(url.rest, "/")
      split == SplitAuthority(IF slash = 0 THEN url.rest ELSE SubSeq(url.rest, 1, slash - 1))
      path  == IF slash = 0 THEN <<"/">> ELSE From(url.rest, slash)
      tls   == url.scheme = "wss"
      port  == IF split.has_port THEN ParsePort(split.port)
               ELSE IF tls THEN kDefaultTlsPort ELSE kDefaultPlainPort
  IN  IF url.scheme \in {"ws", "wss"} /\ split.ok /\ split.host # <<>> /\ port # 0
      THEN Endpoint(tls, split.host, port, path)
      ELSE NoEndpoint

-----------------------------------------------------------------------------
\* How a URL for an endpoint is written: a host with a colon in brackets, a
\* port where it is not the scheme's.
FormatWsUrl(endpoint, portText) ==
  LET host == IF Contains(endpoint.host, ":") THEN <<"[">> \o endpoint.host \o <<"]">> ELSE endpoint.host
  IN  [scheme |-> IF endpoint.tls THEN "wss" ELSE "ws",
       rest |-> host \o (IF portText = <<>> THEN <<>> ELSE <<":">> \o portText) \o endpoint.path]

=============================================================================
