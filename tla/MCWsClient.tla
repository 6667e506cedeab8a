----------------------------- MODULE MCWsClient -----------------------------
(* Inputs of WsClient for TLC: URLs that are written for an endpoint and     *)
(* arbitrary ones, and server texts by their structure.                      *)
EXTENDS WsClient

Hosts == {<<"h">>, <<":", ":">>, <<"h", ":", "h">>}
Paths == {<<"/">>, <<"/", "h", ":", "8", "/">>}
GoodPorts == {<<>>, <<"8">>, <<"8", "8">>, <<"8", "8", "8">>, <<"0", "0", "8", "0">>,
              <<"6", "5", "5", "3", "5">>}
BadPorts == {<<"0">>, <<"6", "5", "5", "3", "6">>, <<"0", "0", "0", "0", "8", "0">>, <<"8", "h">>, <<":">>}

PortOf(tls, text) ==
  IF text = <<>> THEN IF tls THEN 443 ELSE 80
  ELSE CASE text = <<"8">> -> 8 [] text = <<"8", "8">> -> 88 [] text = <<"8", "8", "8">> -> 888
         [] text = <<"0", "0", "8", "0">> -> 80 [] OTHER -> 65535

MCUrls ==
  UNION {
    {<<FormatWsUrl(e, t), e>> : e \in {Endpoint(s, h, PortOf(s, t), p) : h \in Hosts, p \in Paths}}
      : s \in BOOLEAN, t \in GoodPorts}
  \cup {<<[scheme |-> s, rest |-> <<"h", ":">> \o t], NoEndpoint>> : s \in {"ws", "wss"}, t \in BadPorts}
  \cup {<<[scheme |-> s, rest |-> r], NoEndpoint>> :
          s \in {"ws", "other"}, r \in BoundedSeq({"[", "]", ":", "/", "h", "8"}, 5)}

-----------------------------------------------------------------------------
\* JSON strings by their characters, arrays by their items.
String(chars) == [array |-> FALSE, chars |-> <<"quote">> \o chars \o <<"quote">>, depth |-> 0]
Array(items) ==
  [array |-> TRUE,
   chars |-> <<"open">> \o FlattenSeq([i \in DOMAIN items |-> items[i].chars]) \o <<"close">>,
   depth |-> 1 + Max({0} \cup {items[i].depth : i \in DOMAIN items})]

Strings == {String(<<>>), String(<<"open", "close", "close">>), String(<<"backslash", "quote", "open", "open">>),
            String(<<"open", "open", "open", "backslash", "backslash">>)}
Flat == {Array(items) : items \in BoundedSeq(Strings, 2)}
Nested == {Array(<<s, f, s>>) : s \in Strings, f \in Flat}
TooNested == {Array(<<s, Array(<<f, f>>)>>) : s \in Strings, f \in Flat}

NoMembers == [valid |-> TRUE, type |-> "other", name |-> Absent, rate |-> Absent, channels |-> Absent]
Documents ==
  {[bytes |-> n, chars |-> d.chars, depth |-> d.depth, json |-> NoMembers] :
     n \in {65536}, d \in Strings \cup Flat \cup Nested \cup TooNested}

Objects ==
  [valid : {TRUE}, type : {"clear", "disconnect", "other"}, name : {Absent}, rate : {Absent}, channels : {Absent}]
  \cup [valid : {TRUE}, type : {"mark"}, name : {Absent, WrongType, 0, 1, 256, 257}, rate : {Absent}, channels : {Absent}]
  \cup [valid : {TRUE}, type : {"start_playback"}, name : {Absent},
        rate : {Absent, WrongType, 7999, 8000, 48000, 48001, Word + 8000}, channels : {Absent, WrongType, 0, 1, 2, 3}]

MCTexts ==
  Documents
  \cup {[bytes |-> n, chars |-> <<"open", "close">>, depth |-> 1, json |-> o] : n \in {9, 65537}, o \in Objects}
  \cup {[bytes |-> 9, chars |-> c, depth |-> 0, json |-> [NoMembers EXCEPT !.valid = FALSE]] :
          c \in {<<"close", "close">>, <<"quote", "open", "open", "open">>}}

=============================================================================
