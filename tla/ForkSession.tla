----------------------------- MODULE ForkSession -----------------------------
(***************************************************************************)
(* The control plane of one fork (core/src/fork_session.cpp): its state    *)
(* machine, the sockets it opens, the texts and audio it puts on them, its *)
(* retry timer, the tasks other threads post to its shard, and the strong  *)
(* references that keep it alive.                                          *)
(*                                                                         *)
(* The shard thread runs every handler to completion.  A handler that      *)
(* delivers an event to the state machine leaves the action it got in      *)
(* `todo', and no other shard step is enabled until that action, and what  *)
(* it calls in turn, has been applied: every such call is in tail position *)
(* in the code.  What other threads can see in between is the atomic       *)
(* `state', so PushAudio, SendText and Modify interleave with the pieces.  *)
(***************************************************************************)
EXTENDS Naturals, Sequences, FiniteSets, SessionState

CONSTANTS
  Sockets,          \* ids of WsConnections; a closed one is reused by Connect
  NoSocket,         \* nullptr
  Callers,          \* control threads, one API call each
  Calls,            \* the calls they make: kTeardown, kText, kModify
  Hellos,           \* what EncodeHello may make of a fork's parameters
  LateHandshakes,   \* may a socket closed while connecting still connect?
  MaxPendingTexts,  \* kMaxPendingTexts
  RingFrames,       \* capacity of the handoff ring, in frames
  BufferFrames,     \* cap of the send buffer, in frames
  CoalesceFrames    \* frames one flush may hand to the socket

ASSUME SocketAssumption == NoSocket \notin Sockets
ASSUME CallsAssumption ==
  Calls \subseteq {"kTeardown", "kText", "kModify"}
ASSUME HelloAssumption == Hellos \subseteq {"valid", "invalid", "oversized"}
ASSUME HandshakeAssumption == LateHandshakes \in BOOLEAN
ASSUME BoundsAssumption ==
  /\ MaxPendingTexts \in Nat \ {0}
  /\ RingFrames \in Nat \ {0}
  /\ BufferFrames \in Nat \ {0}
  /\ CoalesceFrames \in Nat \ {0}

VARIABLES
  hello,            \* of this fork: valid, invalid (no encoding) or oversized
                    \* (an empty send queue has no room for it)
  state,            \* state_
  todo,             \* the SessionAction the shard thread has yet to apply
  ticking,          \* the shard thread is inside Shard::Tick
  connection,       \* connection_
  phase,            \* of each socket: connecting, established or closed
  closing,          \* close_requested_ of each socket
  said,             \* what each live socket has been handed, in order
  posted,           \* tasks posted to the shard and not yet run
  call,             \* progress of each control thread's call
  timers,           \* retry timers scheduled and not yet fired
  reconnecting, endpointChanged, byeSent,
  drainDeadline,    \* drain_deadline_: unset, running or passed
  pendingTexts,     \* length of pending_texts_
  textsDropped,     \* pending_texts_dropped_
  textsSent,        \* app texts accepted by some socket
  ring, buffer,     \* frames in the handoff ring and in the send buffer
  pushing,          \* the media thread has passed PushAudio's state check
  refs,             \* owners of a strong reference to the session
  finished          \* times on_finished_ ran

control == <<state, todo, ticking>>
sockets == <<phase, closing, said>>
flags   == <<reconnecting, endpointChanged, byeSent, drainDeadline>>
texts   == <<pendingTexts, textsDropped, textsSent>>
audio   == <<ring, buffer, pushing>>
owners  == <<refs, finished>>
vars == <<hello, control, connection, sockets, posted, call, timers, flags, texts,
          audio, owners>>

Owners == {"bug", "registry", "shard"}
Tasks == {"kStart", "kTeardown", "kText", "kModify"}
Messages == {"hello", "resume", "text", "audio", "bye"}

TypeOK ==
  /\ hello \in Hellos
  /\ state \in SessionStates
  /\ todo \in SessionActions \cup {"Pump"}
  /\ ticking \in BOOLEAN
  /\ connection \in Sockets \cup {NoSocket}
  /\ phase \in [Sockets -> {"connecting", "established", "closed"}]
  /\ closing \in [Sockets -> BOOLEAN]
  /\ said \in [Sockets -> Seq(Messages)]
  /\ posted \in Seq(Tasks)
  /\ call \in [Callers -> {"ready", "done", "texted"} \cup {"kText", "kModify"}]
  /\ timers \in Nat
  /\ reconnecting \in BOOLEAN
  /\ endpointChanged \in BOOLEAN
  /\ byeSent \in BOOLEAN
  /\ drainDeadline \in {"unset", "running", "passed"}
  /\ pendingTexts \in 0..MaxPendingTexts
  /\ textsDropped \in Nat
  /\ textsSent \in Nat
  /\ ring \in 0..RingFrames
  /\ buffer \in 0..BufferFrames
  /\ pushing \in BOOLEAN
  /\ refs \subseteq Owners
  /\ finished \in Nat

\* ForkSession::Create followed by Shard::Adopt's Post: the media bug and the
\* registry hold the session, the shard will once its Start task runs.
Init ==
  /\ hello \in Hellos
  /\ state = "kConnecting"
  /\ todo = "kNone"
  /\ ticking = FALSE
  /\ connection = NoSocket
  /\ phase = [c \in Sockets |-> "closed"]
  /\ closing = [c \in Sockets |-> FALSE]
  /\ said = [c \in Sockets |-> <<>>]
  /\ posted = <<"kStart">>
  /\ call = [k \in Callers |-> "ready"]
  /\ timers = 0
  /\ reconnecting = FALSE /\ endpointChanged = FALSE /\ byeSent = FALSE
  /\ drainDeadline = "unset"
  /\ pendingTexts = 0 /\ textsDropped = 0 /\ textsSent = 0
  /\ ring = 0 /\ buffer = 0 /\ pushing = FALSE
  /\ refs = {"bug", "registry"}
  /\ finished = 0

-----------------------------------------------------------------------------
Smaller(m, n) == IF m <= n THEN m ELSE n

Idle == todo = "kNone" /\ ~ticking

\* Adopt's task, the first ever posted, has not run yet.
StartPending == posted # <<>> /\ Head(posted) = "kStart"

\* A posted task and a call in progress each hold a strong reference.
Destroyed ==
  /\ refs = {}
  /\ posted = <<>>
  /\ \A k \in Callers : call[k] \in {"ready", "done", "texted"}

Live(c) == phase[c] # "closed"

\* WsConnection::Enqueue refuses a socket that is not established or that is
\* closing; a usable one may still refuse for want of queue space.
Usable(c) ==
  /\ c # NoSocket
  /\ phase[c] = "established"
  /\ ~closing[c]

SendOutcomes(c) == IF Usable(c) THEN BOOLEAN ELSE {FALSE}

\* SessionStateMachine::OnEvent; its caller applies the action it returns.
OnEvent(e) ==
  /\ state' = SessionTransitionFor(state, e).next
  /\ todo' = SessionTransitionFor(state, e).action

-----------------------------------------------------------------------------
(* Control threads.                                                        *)

\* Stop() posts unconditionally.
Stop(k) ==
  /\ "kTeardown" \in Calls
  /\ call[k] = "ready"
  /\ "registry" \in refs
  /\ call' = [call EXCEPT ![k] = "done"]
  /\ posted' = Append(posted, "kTeardown")
  /\ UNCHANGED <<hello, control, connection, sockets, timers, flags, texts, audio, owners>>

\* SendText() and Modify() read the state first and post afterwards.
CheckState(k, what) ==
  /\ what \in Calls \ {"kTeardown"}
  /\ call[k] = "ready"
  /\ "registry" \in refs
  /\ call' = [call EXCEPT ![k] = IF Accepting(state) THEN what ELSE "done"]
  /\ UNCHANGED <<hello, control, connection, sockets, posted, timers, flags, texts, audio,
                 owners>>

PostChecked(k) ==
  /\ call[k] \in {"kText", "kModify"}
  /\ call' = [call EXCEPT ![k] = IF @ = "kText" THEN "texted" ELSE "done"]
  /\ posted' = Append(posted, call[k])
  /\ UNCHANGED <<hello, control, connection, sockets, timers, flags, texts, audio, owners>>

-----------------------------------------------------------------------------
(* The media thread.                                                       *)

\* PushAudio passes its state check...
PushAudioCheck ==
  /\ "bug" \in refs
  /\ ~pushing
  /\ Accepting(state)
  /\ pushing' = TRUE
  /\ UNCHANGED <<hello, control, connection, sockets, posted, call, timers, flags, texts,
                 ring, buffer, owners>>

\* ... and pushes into the ring, or counts a media drop when it is full.
PushAudio ==
  /\ pushing
  /\ pushing' = FALSE
  /\ ring' = Smaller(ring + 1, RingFrames)
  /\ UNCHANGED <<hello, control, connection, sockets, posted, call, timers, flags, texts,
                 buffer, owners>>

\* The media bug's CLOSE callback: stop the fork and let go of it.
CloseMediaBug ==
  /\ "bug" \in refs
  /\ ~pushing
  /\ refs' = refs \ {"bug"}
  /\ posted' = Append(posted, "kTeardown")
  /\ UNCHANGED <<hello, control, connection, sockets, call, timers, flags, texts, audio,
                 finished>>

-----------------------------------------------------------------------------
(* Tasks the shard thread takes from its queue.                            *)

TakePosted(task) ==
  /\ Idle
  /\ posted # <<>>
  /\ Head(posted) = task
  /\ posted' = Tail(posted)

\* Shard::Adopt's task: register the session, then Start().
RunStart ==
  /\ TakePosted("kStart")
  /\ refs' = refs \cup {"shard"}
  /\ todo' = "kBeginConnect"
  /\ UNCHANGED <<hello, state, ticking, connection, sockets, call, timers, flags, texts,
                 audio, finished>>

RunTeardown ==
  /\ TakePosted("kTeardown")
  /\ OnEvent("kTeardown")
  /\ UNCHANGED <<hello, ticking, connection, sockets, call, timers, flags, texts, audio,
                 owners>>

\* QueueText: the oldest text makes room for a new one.
QueueText ==
  /\ pendingTexts' = Smaller(pendingTexts + 1, MaxPendingTexts)
  /\ textsDropped' = textsDropped + (pendingTexts + 1 - pendingTexts')
  /\ UNCHANGED <<said, textsSent>>

\* Mutation of SendOrDrop: a refused text is not counted.
SendOrForget ==
  \E sent \in SendOutcomes(connection) :
    /\ said' = IF sent THEN [said EXCEPT ![connection] = Append(@, "text")] ELSE said
    /\ textsSent' = textsSent + (IF sent THEN 1 ELSE 0)
    /\ UNCHANGED <<textsDropped, pendingTexts>>

SendOrDrop ==
  \E sent \in SendOutcomes(connection) :
    /\ said' = IF sent THEN [said EXCEPT ![connection] = Append(@, "text")] ELSE said
    /\ textsSent' = textsSent + (IF sent THEN 1 ELSE 0)
    /\ textsDropped' = textsDropped + (IF sent THEN 0 ELSE 1)
    /\ UNCHANGED pendingTexts

DeliverText ==
  /\ TakePosted("kText")
  /\ \/ /\ state = "kActive" /\ connection # NoSocket
        /\ SendOrDrop
     \/ /\ Accepting(state)
        /\ ~(state = "kActive" /\ connection # NoSocket)
        /\ QueueText
     \/ /\ ~Accepting(state)
        /\ textsDropped' = textsDropped + 1
        /\ UNCHANGED <<said, pendingTexts, textsSent>>
  /\ UNCHANGED <<hello, control, connection, phase, closing, call, timers, flags, audio,
                 owners>>

\* ApplyModify: say goodbye, close, and forget the socket at once.
ApplyModify ==
  /\ TakePosted("kModify")
  /\ endpointChanged' = (endpointChanged \/ Accepting(state))
  /\ IF Accepting(state) /\ connection # NoSocket
     THEN /\ \E sent \in SendOutcomes(connection) :
               said' = IF sent THEN [said EXCEPT ![connection] = Append(@, "bye")] ELSE said
          /\ closing' = [closing EXCEPT ![connection] = TRUE]
          /\ connection' = NoSocket
     ELSE UNCHANGED <<said, closing, connection>>
  /\ UNCHANGED <<hello, control, phase, call, timers, reconnecting, byeSent, drainDeadline,
                 texts, audio, owners>>

-----------------------------------------------------------------------------
(* Callbacks from the event loop.  A callback into a destroyed session is   *)
(* undefined; NoDanglingCallback says that none is due.                    *)

Callback(c) == Idle /\ ~Destroyed /\ Live(c)

\* A socket that completes its handshake outside kConnecting is abandoned: the
\* code closes and forgets connection_, whichever socket that is.
AbandonSocket ==
  /\ closing' = IF connection # NoSocket THEN [closing EXCEPT ![connection] = TRUE] ELSE closing
  /\ connection' = NoSocket
  /\ UNCHANGED <<state, todo>>

OnConnected(c) ==
  /\ Callback(c)
  /\ phase[c] = "connecting"
  /\ closing[c] => LateHandshakes
  /\ phase' = [phase EXCEPT ![c] = "established"]
  /\ IF SessionTransitionFor(state, "kWsConnected").action = "kAbandonSocket"
     THEN AbandonSocket
     ELSE OnEvent("kWsConnected") /\ UNCHANGED <<closing, connection>>
  /\ UNCHANGED <<hello, ticking, said, posted, call, timers, flags, texts, audio, owners>>

\* Mutation of ForgetSocket: the pointer outlives the socket.
KeepSocket == UNCHANGED connection

\* OnClosed clears connection_ whichever socket it was that closed.
ForgetSocket == connection' = NoSocket

\* Any socket may go away at any time, one that is closing eventually does.
OnClosed(c) ==
  /\ Callback(c)
  /\ phase' = [phase EXCEPT ![c] = "closed"]
  /\ closing' = [closing EXCEPT ![c] = FALSE]
  /\ said' = [said EXCEPT ![c] = <<>>]
  /\ ForgetSocket
  /\ OnEvent("kWsError")
  /\ UNCHANGED <<hello, ticking, posted, call, timers, flags, texts, audio, owners>>

\* OnText with the server's "disconnect".
OnDisconnect(c) ==
  /\ Callback(c)
  /\ phase[c] = "established"
  /\ OnEvent("kTeardown")
  /\ UNCHANGED <<hello, ticking, connection, sockets, posted, call, timers, flags, texts,
                 audio, owners>>

\* The timer holds a weak reference: it does nothing to a destroyed session.
RetryTimerFires ==
  /\ Idle
  /\ timers > 0
  /\ timers' = timers - 1
  /\ IF Destroyed THEN UNCHANGED <<state, todo>> ELSE OnEvent("kRetryTimerFired")
  /\ UNCHANGED <<hello, ticking, connection, sockets, posted, call, flags, texts, audio,
                 owners>>

DrainDeadlinePasses ==
  /\ drainDeadline = "running"
  /\ drainDeadline' = "passed"
  /\ UNCHANGED <<hello, control, connection, sockets, posted, call, timers, reconnecting,
                 endpointChanged, byeSent, texts, audio, owners>>

\* Shard::Tick pumps the session...
Tick ==
  /\ Idle
  /\ "shard" \in refs
  /\ ticking' = TRUE
  /\ todo' = "Pump"
  /\ UNCHANGED <<hello, state, connection, sockets, posted, call, timers, flags, texts,
                 audio, owners>>

Retire == refs' = IF state = "kDead" THEN refs \ {"shard"} ELSE refs

\* ... and drops it if that left it dead.
RetireFinished ==
  /\ ticking
  /\ todo = "kNone"
  /\ ticking' = FALSE
  /\ Retire
  /\ UNCHANGED <<hello, state, todo, connection, sockets, posted, call, timers, flags,
                 texts, audio, finished>>

-----------------------------------------------------------------------------
(* ForkSession::Apply: one action per SessionAction, and Pump.             *)

HelloSent == hello = "valid" /\ Usable(connection)

HelloInvalid ==
  /\ todo = "kNotifyConnected"
  /\ hello = "invalid"
  /\ OnEvent("kTeardown")
  /\ UNCHANGED <<hello, ticking, connection, sockets, posted, call, timers, flags, texts,
                 audio, owners>>

HelloRefused ==
  /\ todo = "kNotifyConnected"
  /\ hello # "invalid" /\ ~HelloSent
  /\ OnEvent("kWsError")
  /\ UNCHANGED <<hello, ticking, connection, sockets, posted, call, timers, flags, texts,
                 audio, owners>>

\* Mutation of Greeting: the queued texts go out ahead of the resume.
GreetingTextsFirst(resumed, sent) ==
  <<"hello">> \o [i \in 1..sent |-> "text"] \o (IF resumed THEN <<"resume">> ELSE <<>>)

Greeting(resumed, sent) ==
  <<"hello">> \o (IF resumed THEN <<"resume">> ELSE <<>>) \o [i \in 1..sent |-> "text"]

\* Hello, then resume if the same server is back, then the queued texts.  The
\* socket may refuse any of them but the hello; a refused text is a drop.
Greet ==
  /\ todo = "kNotifyConnected"
  /\ HelloSent
  /\ \E resumed \in (IF reconnecting /\ ~endpointChanged THEN BOOLEAN ELSE {FALSE}),
        sent \in 0..pendingTexts :
       /\ said' = [said EXCEPT ![connection] = @ \o Greeting(resumed, sent)]
       /\ textsSent' = textsSent + sent
       /\ textsDropped' = textsDropped + (pendingTexts - sent)
  /\ pendingTexts' = 0
  /\ reconnecting' = FALSE
  /\ endpointChanged' = FALSE
  /\ todo' = "Pump"
  /\ UNCHANGED <<hello, state, ticking, connection, phase, closing, posted, call, timers,
                 byeSent, drainDeadline, audio, owners>>

ArmRetryTimer == timers' = timers + 1

ScheduleRetry ==
  /\ todo = "kScheduleRetry"
  /\ reconnecting' = TRUE
  /\ ArmRetryTimer
  /\ todo' = "kNone"
  /\ UNCHANGED <<hello, state, ticking, connection, sockets, posted, call, endpointChanged,
                 byeSent, drainDeadline, texts, audio, owners>>

\* NetPort::Connect may fail at once; the OnClosed lws may already have
\* delivered by then left the state machine where this error leaves it.
BeginConnect ==
  /\ todo = "kBeginConnect"
  /\ \/ \E c \in Sockets :
          /\ ~Live(c)
          /\ phase' = [phase EXCEPT ![c] = "connecting"]
          /\ connection' = c
          /\ todo' = "kNone"
          /\ UNCHANGED state
     \/ /\ connection' = NoSocket
        /\ OnEvent("kWsError")
        /\ UNCHANGED phase
  /\ UNCHANGED <<hello, ticking, closing, said, posted, call, timers, flags, texts, audio,
                 owners>>

\* Mutation of SetDrainDeadline: the drain is not bounded.
SetNoDeadline == UNCHANGED drainDeadline

SetDrainDeadline == drainDeadline' = "running"

BeginDrain ==
  /\ todo = "kBeginDrain"
  /\ SetDrainDeadline
  /\ IF connection = NoSocket
     THEN OnEvent("kDrainComplete")
     ELSE todo' = "Pump" /\ UNCHANGED state
  /\ UNCHANGED <<hello, ticking, connection, sockets, posted, call, timers, reconnecting,
                 endpointChanged, byeSent, texts, audio, owners>>

\* Mutation of CloseConnection: the socket is left to itself.
CloseUnasked == OnEvent("kCloseComplete") /\ UNCHANGED closing

CloseConnection ==
  IF connection = NoSocket
  THEN OnEvent("kCloseComplete") /\ UNCHANGED closing
  ELSE /\ closing' = [closing EXCEPT ![connection] = TRUE]
       /\ todo' = "kNone"
       /\ UNCHANGED state

BeginClose ==
  /\ todo = "kBeginClose"
  /\ CloseConnection
  /\ UNCHANGED <<hello, ticking, connection, phase, said, posted, call, timers, flags,
                 texts, audio, owners>>

\* on_finished_ removes the fork from the module's registry.
Finalize ==
  /\ todo = "kFinalize"
  /\ buffer' = 0
  /\ textsDropped' = textsDropped + pendingTexts
  /\ pendingTexts' = 0
  /\ connection' = NoSocket
  /\ refs' = refs \ {"registry"}
  /\ finished' = finished + 1
  /\ todo' = "kNone"
  /\ UNCHANGED <<hello, state, ticking, sockets, posted, call, timers, flags, textsSent,
                 ring, pushing>>

-----------------------------------------------------------------------------
\* FlushToConnection: how many of `frames' the socket may take.
Flushable(frames) ==
  IF Usable(connection) THEN 0..Smaller(frames, CoalesceFrames) ELSE {0}

\* Consecutive audio messages are recorded as one.
WithAudio(s) == IF s # <<>> /\ s[Len(s)] = "audio" THEN s ELSE Append(s, "audio")

Say(flushed, bye) ==
  said' = IF flushed = 0 /\ ~bye THEN said
          ELSE [said EXCEPT ![connection] =
                  LET heard == IF flushed > 0 THEN WithAudio(@) ELSE @
                  IN  IF bye THEN Append(heard, "bye") ELSE heard]

\* DrainHandoffRing, dropping the oldest frames, then what the state asks for.
Pump ==
  /\ todo = "Pump"
  /\ ring' = 0
  /\ LET backlog == Smaller(buffer + ring, BufferFrames)
     IN \/ /\ state = "kActive"
           /\ \E flushed \in Flushable(backlog) :
                buffer' = backlog - flushed /\ Say(flushed, FALSE)
           /\ todo' = "kNone"
           /\ UNCHANGED <<state, byeSent>>
        \/ /\ state = "kDraining"
           /\ \E flushed \in Flushable(backlog) :
                /\ buffer' = backlog - flushed
                /\ \E bye \in (IF buffer' = 0 /\ ~byeSent THEN SendOutcomes(connection)
                               ELSE {FALSE}) :
                     Say(flushed, bye) /\ byeSent' = (byeSent \/ bye)
           /\ IF (buffer' = 0 /\ byeSent') \/ drainDeadline = "passed"
              THEN OnEvent("kDrainComplete")
              ELSE todo' = "kNone" /\ UNCHANGED state
        \/ /\ state \notin {"kActive", "kDraining"}
           /\ buffer' = backlog
           /\ todo' = "kNone"
           /\ UNCHANGED <<state, said, byeSent>>
  /\ UNCHANGED <<hello, ticking, connection, phase, closing, posted, call, timers, reconnecting,
                 endpointChanged, drainDeadline, texts, pushing, owners>>

Apply ==
  \/ HelloInvalid \/ HelloRefused \/ Greet \/ ScheduleRetry \/ BeginConnect
  \/ BeginDrain \/ BeginClose \/ Finalize \/ Pump

RunPosted == RunStart \/ RunTeardown \/ DeliverText \/ ApplyModify

\* The session is gone, and so is everything that could still call it.
Terminated ==
  /\ Destroyed
  /\ timers = 0
  /\ UNCHANGED vars

Next ==
  \/ \E k \in Callers :
       Stop(k) \/ PostChecked(k) \/ \E what \in Calls : CheckState(k, what)
  \/ PushAudioCheck \/ PushAudio \/ CloseMediaBug
  \/ RunPosted
  \/ \E c \in Sockets : OnConnected(c) \/ OnClosed(c) \/ OnDisconnect(c)
  \/ RetryTimerFires \/ DrainDeadlinePasses \/ Tick \/ RetireFinished
  \/ Apply
  \/ Terminated

Spec == Init /\ [][Next]_vars

\* The event loop keeps turning: each turn of WsEventLoop::Run services the
\* sockets, drains the posted tasks and the due timers, and ticks; lws closes
\* a socket whose close was requested when its drain timeout expires.  Each of
\* these is disabled for a moment while a handler runs, hence SF.
Fairness ==
  /\ WF_vars(Apply)
  /\ WF_vars(RetireFinished)
  /\ WF_vars(DrainDeadlinePasses)
  /\ SF_vars(RunPosted)
  /\ SF_vars(RetryTimerFires)
  /\ SF_vars(Tick)
  /\ \A c \in Sockets : SF_vars(closing[c] /\ OnClosed(c))

FairSpec == Spec /\ Fairness

-----------------------------------------------------------------------------
(* Properties.                                                             *)

\* on_finished_ and the Stop event happen exactly once, when the session is
\* dead, whichever of hangup, stop, disconnect and socket loss race to it
\* (session_state.hpp:46-47).
FinalizeOnce ==
  finished = IF state = "kDead" /\ todo # "kFinalize" THEN 1 ELSE 0

\* Exactly one retry timer is pending while the fork waits to reconnect and
\* none in any other live state, so a flapping socket never starts two
\* connects (ScheduleRetry, fork_session.cpp:412-420).
OneRetryTimer ==
  /\ state = "kReconnecting" /\ todo # "kScheduleRetry" => timers = 1
  /\ timers # 0 => timers = 1 /\ state \in {"kReconnecting", "kDead"}
                 /\ todo # "kScheduleRetry"

\* connection_ is only ever a socket that has not delivered OnClosed
\* (ports.hpp:14-15).
TrackedSocketIsLive == connection # NoSocket => Live(connection)

\* Between handlers, a session that is not dead always has something coming
\* that moves it on: its Start task, a socket whose outcome it waits for, a
\* retry timer, or a drain deadline.
NeverStranded ==
  Idle /\ ~StartPending =>
    /\ state \in {"kConnecting", "kActive"} => \E c \in Sockets : Live(c)
    /\ state = "kReconnecting" => timers > 0
    /\ state = "kDraining" => drainDeadline # "unset"
    /\ state = "kClosing" => \E c \in Sockets : Live(c) /\ closing[c]

\* The hello is the first message on every socket, and comes once
\* (DESIGN.md:155).
HelloFirst ==
  \A c \in Sockets : \A i \in DOMAIN said[c] : said[c][i] = "hello" <=> i = 1

\* On every socket: hello if the fork has a valid one, then at most one resume
\* before any text or audio, and nothing after a bye (DESIGN.md:153-160).
ProtocolOrder ==
  /\ hello = "valid" => HelloFirst
  /\ \A c \in Sockets : \A i \in DOMAIN said[c] :
       /\ said[c][i] = "resume" => i = 2
       /\ said[c][i] = "bye" => i = Len(said[c])

\* Every text SendText accepted is still queued, was taken by a socket once, or
\* was counted as dropped (pending_texts_dropped_).
TextsAccountedFor ==
  Cardinality({k \in Callers : call[k] = "texted"})
    = textsSent + textsDropped + pendingTexts
      + Cardinality({i \in DOMAIN posted : posted[i] = "kText"})

\* A socket that completed its handshake is the session's connection or is on
\* its way out: none stays open with nobody to close it
\* (session_state.hpp:44-45, fork_session.cpp:207).
NoSocketLeak ==
  Idle => \A c \in Sockets :
            phase[c] = "established" => c = connection \/ closing[c]

\* No socket can still call back into a session that has been destroyed
\* (DESIGN.md:115-116).
NoDanglingCallback == Destroyed => \A c \in Sockets : ~Live(c)

\* Buffers are released at finalize rather than at destruction
\* (fork_session.hpp:33-35, fork_session.cpp:391-392).
FinalizedHoldsNoAudio == state = "kDead" /\ Idle => buffer = 0

\* Once the session is dead nothing it does reaches the network again: no
\* socket is opened, no message sent, no timer armed.
SilentStep ==
  state = "kDead" =>
    /\ state' = "kDead"
    /\ timers' <= timers
    /\ \A c \in Sockets :
         /\ phase[c] = "closed" => phase'[c] = "closed"
         /\ Len(said'[c]) <= Len(said[c])

\* Every step of the session satisfies SilentStep.
DeadIsSilent == [][SilentStep]_vars

\* A teardown that was posted, or that an unencodable hello began.
Ending ==
  "kTeardown" \in {posted[i] : i \in DOMAIN posted} \/ state \in {"kDraining", "kClosing", "kDead"}

\* A session that is to end is finalized and dropped by its shard however slow
\* or silent the peer is (DESIGN.md:183), and one that lost its server keeps
\* trying until it is stopped (DESIGN.md:178).
SessionMovesOn ==
  /\ Ending ~> state = "kDead" /\ "shard" \notin refs
  /\ state = "kReconnecting" ~> state \in {"kConnecting", "kDead"}
=============================================================================
