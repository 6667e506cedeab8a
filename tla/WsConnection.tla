---------------------------- MODULE WsConnection ----------------------------
(***************************************************************************)
(* One websocket connection of an event loop (net/src/ws_client.cpp): its  *)
(* bounded send queue, the graceful close, and the callbacks lws makes.    *)
(* Everything here runs on the loop thread; what is concurrent is lws and  *)
(* the peer.  A message sent is its size; one received is its fragments,   *)
(* each one the message's number (modulo 2), its index and whether it is    *)
(* the last.                                                               *)
(***************************************************************************)
EXTENDS Integers, Sequences, SequencesExt

CONSTANTS
  maxQueuedBytes,  \* max_queued_bytes_
  Sizes,           \* message sizes
  MaxMessages,     \* bound on the messages accepted
  MaxFragments     \* bound on the fragments of a message received

ASSUME QueueAssumption ==
  maxQueuedBytes \in Nat /\ Sizes \subseteq Nat /\ MaxMessages \in Nat /\ MaxFragments \in Nat \ {0}

VARIABLES
  wsi,             \* what lws makes of the socket
  outgoing, queuedBytes, established, closeRequested, closedDelivered,
  writable,        \* lws_callback_on_writable is pending
  timeout,         \* the timeout Close sets: "none", "drain" or "kill"
  handed,          \* Connect returned the connection to its caller
  connected, closes, connectFailed,  \* the handler's OnConnected, OnClosed and its argument
  accepted, written, handshake,      \* messages accepted and written; close handshake sent
  incoming,                          \* incoming_
  arriving,                          \* what the peer has sent: message number, its fragments so far
  received                           \* what OnText or OnBinary was last called with

queue == <<outgoing, queuedBytes>>
flags == <<established, closeRequested, closedDelivered>>
handler == <<connected, closes, connectFailed>>
traffic == <<accepted, written, handshake>>
inbound == <<incoming, arriving, received>>
vars == <<wsi, queue, flags, writable, timeout, handed, handler, traffic, inbound>>

TypeOK ==
  /\ wsi \in {"none", "connecting", "open", "closing", "gone"}
  /\ outgoing \in Seq(Sizes) /\ queuedBytes \in 0..maxQueuedBytes
  /\ {established, closeRequested, closedDelivered, writable, handed, connected, connectFailed,
      handshake} \subseteq BOOLEAN
  /\ timeout \in {"none", "drain", "kill"}
  /\ closes \in Nat /\ accepted \in 0..MaxMessages /\ written \in 0..accepted
  /\ arriving \in [message : {0, 1}, fragments : 0..MaxFragments]
  /\ {incoming, received} \subseteq Seq({0, 1} \X (1..MaxFragments) \X BOOLEAN)

Init ==
  /\ wsi = "none" /\ outgoing = <<>> /\ queuedBytes = 0
  /\ established = FALSE /\ closeRequested = FALSE /\ closedDelivered = FALSE
  /\ writable = FALSE /\ timeout = "none" /\ handed = FALSE
  /\ connected = FALSE /\ closes = 0 /\ connectFailed = FALSE
  /\ accepted = 0 /\ written = 0 /\ handshake = FALSE
  /\ incoming = <<>> /\ received = <<>> /\ arriving = [message |-> 0, fragments |-> 0]

-----------------------------------------------------------------------------
\* FinishConnection: deliver OnClosed, then destroy the connection.
FinishConnection(failed) ==
  /\ wsi' = "gone"
  /\ closedDelivered' = TRUE
  /\ closes' = IF closedDelivered THEN closes ELSE closes + 1
  /\ connectFailed' = IF closedDelivered THEN connectFailed ELSE failed
  /\ UNCHANGED <<queue, established, closeRequested, writable, timeout, connected, traffic, inbound>>

\* WsEventLoop::Connect: lws may refuse, with or without calling back at once,
\* or go on connecting.
Connect ==
  /\ wsi = "none"
  /\ \/ /\ FinishConnection(TRUE) /\ UNCHANGED handed
     \/ /\ wsi' \in {"gone", "connecting"}
        /\ handed' = (wsi' = "connecting")
        /\ UNCHANGED <<queue, flags, writable, timeout, handler, traffic, inbound>>

\* LWS_CALLBACK_CLIENT_ESTABLISHED, which may still come for a connect that
\* Close has told lws to give up.
Established ==
  /\ wsi = "connecting"
  /\ wsi' = "open" /\ established' = TRUE /\ connected' = TRUE
  /\ UNCHANGED <<queue, closeRequested, closedDelivered, writable, timeout, handed, closes,
                 connectFailed, traffic, inbound>>

\* LWS_CALLBACK_CLIENT_CONNECTION_ERROR, also for a connect that was killed.
ConnectionError ==
  /\ wsi = "connecting"
  /\ FinishConnection(TRUE)
  /\ UNCHANGED handed

FitsQueue(size) == queuedBytes + size <= maxQueuedBytes

\* Enqueue, for a message it accepts.
Enqueue ==
  /\ established /\ ~closeRequested /\ ~closedDelivered
  /\ accepted < MaxMessages
  /\ \E size \in Sizes :
       /\ FitsQueue(size)
       /\ outgoing' = Append(outgoing, size)
       /\ queuedBytes' = queuedBytes + size
  /\ accepted' = accepted + 1
  /\ writable' = TRUE
  /\ UNCHANGED <<wsi, flags, timeout, handed, handler, written, handshake, inbound>>

\* Mutation of CloseTimeout: a graceful close waits for the peer however long.
CloseTimeoutNone == IF established THEN "none" ELSE "kill"

CloseTimeout == IF established THEN "drain" ELSE "kill"

\* Close: drain what is queued within the timeout, or give up on the connect.
Close ==
  /\ handed /\ ~closedDelivered /\ ~closeRequested
  /\ closeRequested' = TRUE
  /\ timeout' = CloseTimeout
  /\ writable' = (writable \/ established)
  /\ UNCHANGED <<wsi, queue, established, closedDelivered, handed, handler, traffic, inbound>>

\* Mutation of RequestsMore: one message per request.
RequestsNothing(rest) == FALSE

\* More to write: the callback asks to be called again.
RequestsMore(rest) == rest # <<>>

Unqueued == IF outgoing = <<>> THEN queuedBytes ELSE queuedBytes - Head(outgoing)

\* Mutation of MayShake: the close does not wait for the queue.
MayShakeEarly(rest) == closeRequested

\* The close handshake follows the last queued message.
MayShake(rest) == closeRequested /\ rest = <<>>

\* LWS_CALLBACK_CLIENT_WRITEABLE; a short write closes the socket.
Writeable ==
  /\ wsi = "open" /\ writable
  /\ \/ /\ outgoing # <<>>
        /\ wsi' = "closing"
        /\ writable' = FALSE
        /\ UNCHANGED <<queue, written, handshake>>
     \/ LET rest == IF outgoing = <<>> THEN <<>> ELSE Tail(outgoing)
        IN  /\ outgoing' = rest
            /\ queuedBytes' = Unqueued
            /\ written' = IF outgoing = <<>> THEN written ELSE written + 1
            /\ writable' = RequestsMore(rest)
            /\ handshake' = MayShake(rest)
            /\ wsi' = IF MayShake(rest) THEN "closing" ELSE "open"
  /\ UNCHANGED <<flags, timeout, handed, handler, accepted, inbound>>

\* LWS_CALLBACK_CLIENT_RECEIVE of the next fragment, the last of its message or
\* not: the first one empties incoming_, the last one delivers and empties it.
Receive ==
  /\ wsi = "open"
  /\ LET index == arriving.fragments + 1
     IN  \E final \in IF index < MaxFragments THEN BOOLEAN ELSE {TRUE} :
           LET whole == Append(IF index = 1 THEN <<>> ELSE incoming, <<arriving.message, index, final>>)
           IN  /\ incoming' = IF final THEN <<>> ELSE whole
               /\ received' = IF final THEN whole ELSE <<>>
               /\ arriving' = IF final THEN [message |-> 1 - arriving.message, fragments |-> 0]
                              ELSE [arriving EXCEPT !.fragments = index]
  /\ UNCHANGED <<wsi, queue, flags, writable, timeout, handed, handler, traffic>>

\* The peer or the network ends the connection.
PeerCloses ==
  /\ wsi = "open" /\ wsi' = "closing"
  /\ UNCHANGED <<queue, flags, writable, timeout, handed, handler, traffic, inbound>>

\* lws enforces the timeout Close has set, also if the handshake of a connect
\* it was to give up came first.
DrainTimeout ==
  /\ wsi = "open" /\ timeout # "none"
  /\ wsi' = "closing"
  /\ UNCHANGED <<queue, flags, writable, timeout, handed, handler, traffic, inbound>>

\* Mutation of ClosedArgument: every end looks like a failed connect.
ClosedArgumentAlways == TRUE

ClosedArgument == FALSE

\* LWS_CALLBACK_CLIENT_CLOSED.
Closed ==
  /\ wsi = "closing"
  /\ FinishConnection(ClosedArgument)
  /\ UNCHANGED handed

Next ==
  \/ Connect \/ Established \/ ConnectionError \/ Enqueue \/ Close
  \/ Writeable \/ Receive \/ PeerCloses \/ DrainTimeout \/ Closed

Spec == Init /\ [][Next]_vars

-----------------------------------------------------------------------------
\* OnClosed comes at most once, always for a connection that was handed out and
\* is gone, and says connect_failed only if OnConnected never came
\* (ws_client.hpp:35-37).
ClosedOnce ==
  /\ closes <= 1
  /\ handed /\ wsi = "gone" => closes = 1
  /\ closes = 1 => connectFailed = ~connected

\* A connection with something to write, or to close, has asked to be called
\* (Enqueue, Close, HandleLws): no message waits for a wake-up that does not
\* come.  Only one that was closed while it connected has not: lws ends it.
NoLostWakeup ==
  wsi = "open" =>
    /\ outgoing # <<>> => writable
    /\ closeRequested => writable \/ timeout = "kill"

\* The close is graceful: the handshake comes after every accepted message,
\* the bye included (ws_client.cpp:310-311).
ByeBeforeClose == handshake => written = accepted

\* A requested close ends, whatever the peer does (close_drain_timeout).
CloseEnds == closeRequested ~> wsi = "gone"
=============================================================================
