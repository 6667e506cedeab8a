------------------------------ MODULE WsClient ------------------------------
(***************************************************************************)
(* A fork's socket from the URL of its start or modify command to the       *)
(* server's messages: ParseWsUrl decides whether there is a connection,     *)
(* WsConnection carries it, and each text it delivers whole goes through    *)
(* ParseServerMessage.                                                      *)
(***************************************************************************)
EXTENDS WsConnection, WsUrl, Protocol

CONSTANTS
  Urls,       \* pairs of a URL and the endpoint it was written for, or NoEndpoint
  PortTexts,  \* ways to write a port, and the empty text
  Texts       \* texts a server may send, with the depth their JSON really has

VARIABLES
  url, meant,   \* the command's URL and the endpoint it was written for
  endpoint,     \* what ParseWsUrl returned
  heard         \* the text last delivered and what the session takes it for

Unparsed == [NoEndpoint EXCEPT !.port = Absent]
NoText == [text |-> [depth |-> 0], message |-> Message("none")]
NoUrl == [scheme |-> "", rest |-> <<>>]
command == <<url, meant, endpoint>>
clientVars == <<vars, command, heard>>

ClientInit ==
  /\ Init
  /\ \E pair \in Urls : url = pair[1] /\ meant = pair[2]
  /\ endpoint = Unparsed /\ heard = NoText

\* ParseEndpoint; without an endpoint the command fails and nothing connects.
ParseEndpoint ==
  /\ wsi = "none" /\ endpoint = Unparsed
  /\ endpoint' = ParseWsUrl(url)
  /\ UNCHANGED <<vars, url, meant, heard>>

\* Connect uses the endpoint up: nothing later depends on it.
ConnectTo ==
  /\ endpoint.ok /\ Connect
  /\ url' = NoUrl /\ meant' = NoEndpoint /\ endpoint' = Unparsed
  /\ UNCHANGED heard

Understood == {[text |-> text, message |-> ParseServerMessage(text)] : text \in Texts}

\* A message arrives; OnText parses it if it is a text.  The parse depends on
\* the text alone: it is explored while nothing has been queued.
ReceiveText ==
  /\ accepted = 0 /\ ~closeRequested
  /\ Receive
  /\ heard' \in IF received' = <<>> THEN {NoText} ELSE Understood
  /\ UNCHANGED command

\* A binary message, and any other step, forgets what was heard.
Forgets == heard' = NoText /\ UNCHANGED command

ReceiveBinary == Receive /\ Forgets

\* Any other step of the connection.
Connection ==
  /\ Established \/ ConnectionError \/ Enqueue \/ Close \/ Writeable \/ PeerCloses
     \/ DrainTimeout \/ Closed
  /\ Forgets

ClientNext == ParseEndpoint \/ ConnectTo \/ ReceiveText \/ ReceiveBinary \/ Connection

\* lws delivers a close that is due and enforces timeouts; it promises neither
\* that a connect completes nor that a peer reads.
ClientSpec ==
  /\ ClientInit /\ [][ClientNext]_clientVars
  /\ WF_clientVars(Closed /\ Forgets) /\ WF_clientVars(DrainTimeout /\ Forgets)
  /\ WF_clientVars(timeout = "kill" /\ ConnectionError /\ Forgets)

-----------------------------------------------------------------------------

\* A URL written for an endpoint is parsed to that endpoint, an IPv6 host in
\* brackets included; and whatever URL is accepted (ParseWsUrl,
\* SplitAuthority, ParsePort) has a host, a port in range and a path, and names
\* the same endpoint when written out again, if its host has no brackets: one
\* such as "a]b" cannot be written in brackets.
UrlsRoundTrip ==
  endpoint # Unparsed =>
    /\ meant.ok => endpoint = meant
    /\ endpoint.ok =>
         /\ endpoint.host # <<>> /\ endpoint.port \in 1..65535 /\ endpoint.path[1] = "/"
         /\ ToSet(endpoint.host) \cap {"[", "]"} = {} =>
              \E text \in PortTexts : ParseWsUrl(FormatWsUrl(endpoint, text)) = endpoint

\* The session hears whole messages, the fragments of one in order and none of
\* another (WsEventLoop::HandleLws).  A text is refused exactly if it is too
\* large, nested too deeply by its structure (not by brackets in its strings),
\* no JSON, or a mark or start_playback with a member out of range; a rate is
\* taken as it was sent; and every other JSON is relayed (ParseServerMessage).
ServerTextsUnderstood ==
  /\ \A i \in DOMAIN received :
       received[i] = <<received[1][1], i, i = Len(received)>>
  /\ heard # NoText =>
       LET text == heard.text
           json == heard.text.json
           badMark  == json.type = "mark" /\ json.name \notin 1..kMaxMarkNameBytes
           badStart == json.type = "start_playback" /\
                         (json.rate \notin {Absent} \cup kMinSampleRate..kMaxSampleRate
                          \/ json.channels \notin {Absent, 1, 2})
           control == {"clear", "disconnect", "mark", "start_playback"}
           refused == \/ text.bytes > kMaxMessageBytes \/ text.depth > kMaxNestingDepth
                      \/ ~json.valid \/ badMark \/ badStart
       IN  /\ heard.message.kind = "Invalid" <=> refused
           /\ heard.message.kind = "Relay" <=> ~refused /\ json.type \notin control
           /\ heard.message.kind = "StartPlayback" =>
                json.rate \in {Absent, heard.message.sample_rate}

=============================================================================
