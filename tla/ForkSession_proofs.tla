------------------------- MODULE ForkSession_proofs -------------------------
(***************************************************************************)
(* Machine-checked proofs about ForkSession, for every set of sockets and  *)
(* callers and every capacity: in which states the handlers run, what that *)
(* means for sockets, timers and the end of a session, and what a session  *)
(* tells its server.                                                       *)
(***************************************************************************)
EXTENDS ForkSession, SequenceTheorems, FiniteSetTheorems, FunctionTheorems, TLAPS

-----------------------------------------------------------------------------
(* The inductive invariant.                                                *)

\* An action is pending only in the state whose row asked for it.
TodoFits ==
  /\ todo # "kAbandonSocket"
  /\ todo = "kNotifyConnected" => state = "kActive"
  /\ todo = "kScheduleRetry" => state = "kReconnecting"
  /\ todo = "kBeginConnect" => state = "kConnecting"
  /\ todo = "kBeginDrain" => state = "kDraining"
  /\ todo = "kBeginClose" => state = "kClosing"
  /\ todo = "kFinalize" => state = "kDead"

\* Before the Start task has run, which is the first ever posted, nothing else
\* about the session can happen on the shard.
StartComesFirst ==
  /\ \A i \in 2..Len(posted) : posted[i] # "kStart"
  /\ StartPending =>
       /\ state = "kConnecting" /\ todo = "kNone" /\ ~ticking
       /\ timers = 0
       /\ "shard" \notin refs
       /\ \A c \in Sockets : ~Live(c)

\* The registry lets go of the session only when Finalize runs.
Registered == state # "kDead" \/ todo = "kFinalize" => "registry" \in refs

\* What a state waits for is there once the action it was entered with is done.
Awaited ==
  /\ state \in {"kConnecting", "kActive"} /\ todo # "kBeginConnect" /\ ~StartPending
       => \E c \in Sockets : Live(c)
  /\ state = "kDraining" /\ todo # "kBeginDrain" => drainDeadline # "unset"
  /\ state = "kClosing" /\ todo # "kBeginClose"
       => \E c \in Sockets : Live(c) /\ closing[c]

SafetyInv ==
  /\ TodoFits
  /\ StartComesFirst
  /\ Registered
  /\ OneRetryTimer
  /\ FinalizeOnce
  /\ TrackedSocketIsLive
  /\ Awaited

-----------------------------------------------------------------------------
(* The transition table, and OnEvent event by event.                       *)

\* Looking a state up in the table yields its row.
LEMMA Rows ==
  ASSUME NEW e
  PROVE  /\ SessionTransitionFor("kConnecting", e) = FromConnecting[e]
         /\ SessionTransitionFor("kActive", e) = FromActive[e]
         /\ SessionTransitionFor("kReconnecting", e) = FromReconnecting[e]
         /\ SessionTransitionFor("kDraining", e) = FromDraining[e]
         /\ SessionTransitionFor("kClosing", e) = FromClosing[e]
         /\ SessionTransitionFor("kDead", e) = FromDead[e]
  BY SMT DEF SessionTransitionFor

\* A state stays put on the events its row does not name.
LEMMA Entries ==
  /\ FromConnecting["kWsConnected"] = To("kActive", "kNotifyConnected")
  /\ FromConnecting["kWsError"] = To("kReconnecting", "kScheduleRetry")
  /\ FromConnecting["kTeardown"] = To("kClosing", "kBeginClose")
  /\ FromConnecting["kRetryTimerFired"] = To("kConnecting", "kNone")
  /\ FromActive["kWsConnected"] = To("kActive", "kAbandonSocket")
  /\ FromActive["kWsError"] = To("kReconnecting", "kScheduleRetry")
  /\ FromActive["kTeardown"] = To("kDraining", "kBeginDrain")
  /\ FromActive["kRetryTimerFired"] = To("kActive", "kNone")
  /\ FromReconnecting["kWsConnected"] = To("kReconnecting", "kAbandonSocket")
  /\ FromReconnecting["kWsError"] = To("kReconnecting", "kNone")
  /\ FromReconnecting["kTeardown"] = To("kDead", "kFinalize")
  /\ FromReconnecting["kRetryTimerFired"] = To("kConnecting", "kBeginConnect")
  /\ FromDraining["kWsConnected"] = To("kDraining", "kAbandonSocket")
  /\ FromDraining["kWsError"] = To("kClosing", "kBeginClose")
  /\ FromDraining["kTeardown"] = To("kDraining", "kNone")
  /\ FromDraining["kRetryTimerFired"] = To("kDraining", "kNone")
  /\ FromDraining["kDrainComplete"] = To("kClosing", "kBeginClose")
  /\ FromClosing["kWsConnected"] = To("kClosing", "kAbandonSocket")
  /\ FromClosing["kWsError"] = To("kDead", "kFinalize")
  /\ FromClosing["kTeardown"] = To("kClosing", "kNone")
  /\ FromClosing["kRetryTimerFired"] = To("kClosing", "kNone")
  /\ FromClosing["kCloseComplete"] = To("kDead", "kFinalize")
  /\ FromDead["kWsConnected"] = To("kDead", "kAbandonSocket")
  /\ FromDead["kWsError"] = To("kDead", "kNone")
  /\ FromDead["kTeardown"] = To("kDead", "kNone")
  /\ FromDead["kRetryTimerFired"] = To("kDead", "kNone")
  BY SMT DEF SessionEvents, FromConnecting, FromActive, FromReconnecting, FromDraining,
             FromClosing, FromDead, Ignoring

\* The table is closed: it yields states and actions.
LEMMA TransitionType ==
  ASSUME NEW s \in SessionStates, NEW e \in SessionEvents
  PROVE  /\ SessionTransitionFor(s, e).next \in SessionStates
         /\ SessionTransitionFor(s, e).action \in SessionActions
  <1> USE DEF SessionStates, SessionEvents, SessionActions, SessionTransitionFor, Ignoring, To
  <1>1. CASE s = "kConnecting" BY <1>1, SMT DEF FromConnecting
  <1>2. CASE s = "kActive" BY <1>2, SMT DEF FromActive
  <1>3. CASE s = "kReconnecting" BY <1>3, SMT DEF FromReconnecting
  <1>4. CASE s = "kDraining" BY <1>4, SMT DEF FromDraining
  <1>5. CASE s = "kClosing" BY <1>5, SMT DEF FromClosing
  <1>6. CASE s = "kDead" BY <1>6, SMT DEF FromDead
  <1> QED BY <1>1, <1>2, <1>3, <1>4, <1>5, <1>6

\* Delivering an event to state_ keeps the types: OnEvent stays in the table.
LEMMA OnEventType ==
  ASSUME state \in SessionStates, NEW e \in SessionEvents, OnEvent(e)
  PROVE  state' \in SessionStates /\ todo' \in SessionActions \cup {"Pump"}
  BY TransitionType DEF OnEvent

\* A socket that connects is greeted in kConnecting and abandoned elsewhere.
LEMMA ConnectedRow ==
  ASSUME state \in SessionStates
  PROVE  /\ state = "kConnecting"
              => SessionTransitionFor(state, "kWsConnected") = To("kActive", "kNotifyConnected")
         /\ state # "kConnecting"
              => SessionTransitionFor(state, "kWsConnected") = To(state, "kAbandonSocket")
  BY Rows, Entries, SMT DEF SessionStates, To

\* A handshake that completes activates a fork that waits for one, and is abandoned
\* by any other.
LEMMA ConnectedStep ==
  ASSUME state \in SessionStates, NEW c \in Sockets, OnConnected(c)
  PROVE  \/ /\ state = "kConnecting"
            /\ state' = "kActive" /\ todo' = "kNotifyConnected"
            /\ closing' = closing /\ connection' = connection
         \/ state # "kConnecting" /\ AbandonSocket
  <1> DEFINE row == SessionTransitionFor(state, "kWsConnected")
  <1>1. IF row.action = "kAbandonSocket"
        THEN AbandonSocket
        ELSE /\ state' = row.next /\ todo' = row.action
             /\ closing' = closing /\ connection' = connection
    BY Zenon DEF OnConnected, OnEvent
  <1>2. CASE state = "kConnecting"
    <2>1. row.next = "kActive" /\ row.action = "kNotifyConnected"
      BY <1>2, ConnectedRow, SMTT(30) DEF To
    <2> QED
      BY <1>1, <1>2, <2>1, Zenon
  <1>3. CASE state # "kConnecting"
    <2>1. row.action = "kAbandonSocket"
      BY <1>3, ConnectedRow, SMTT(30) DEF To
    <2> QED
      BY <1>1, <1>3, <2>1, Zenon
  <1> QED
    BY <1>2, <1>3

\* An error ends a connection attempt, a connection, a drain or a close.
LEMMA ErrorRow ==
  ASSUME state \in SessionStates, OnEvent("kWsError")
  PROVE  \/ /\ state \in {"kConnecting", "kActive"}
            /\ state' = "kReconnecting" /\ todo' = "kScheduleRetry"
         \/ state = "kDraining" /\ state' = "kClosing" /\ todo' = "kBeginClose"
         \/ state = "kClosing" /\ state' = "kDead" /\ todo' = "kFinalize"
         \/ state \in {"kReconnecting", "kDead"} /\ state' = state /\ todo' = "kNone"
  BY Rows, Entries, SMT DEF SessionStates, To, OnEvent

\* A teardown drains, closes or finalizes, and changes nothing the second time.
LEMMA TeardownRow ==
  ASSUME state \in SessionStates, OnEvent("kTeardown")
  PROVE  \/ state = "kConnecting" /\ state' = "kClosing" /\ todo' = "kBeginClose"
         \/ state = "kActive" /\ state' = "kDraining" /\ todo' = "kBeginDrain"
         \/ state = "kReconnecting" /\ state' = "kDead" /\ todo' = "kFinalize"
         \/ /\ state \in {"kDraining", "kClosing", "kDead"}
            /\ state' = state /\ todo' = "kNone"
  BY Rows, Entries, SMT DEF SessionStates, To, OnEvent

\* The retry timer means something in kReconnecting only.
LEMMA RetryRow ==
  ASSUME state \in SessionStates, OnEvent("kRetryTimerFired")
  PROVE  \/ state = "kReconnecting" /\ state' = "kConnecting" /\ todo' = "kBeginConnect"
         \/ state # "kReconnecting" /\ state' = state /\ todo' = "kNone"
  BY Rows, Entries, SMT DEF SessionStates, To, OnEvent

\* A drain that is over closes; a close that is over finalizes.
LEMMA CompletionRows ==
  ASSUME state \in SessionStates
  PROVE  /\ state = "kDraining" /\ OnEvent("kDrainComplete")
              => state' = "kClosing" /\ todo' = "kBeginClose"
         /\ state = "kClosing" /\ OnEvent("kCloseComplete")
              => state' = "kDead" /\ todo' = "kFinalize"
  BY Rows, Entries, SMT DEF SessionStates, To, OnEvent

\* std::min of two counts is a count no larger than either.
LEMMA SmallerType ==
  ASSUME NEW m \in Nat, NEW n \in Nat
  PROVE  Smaller(m, n) \in 0..n /\ Smaller(m, n) <= m
  BY DEF Smaller

-----------------------------------------------------------------------------
(* Type correctness.                                                       *)

\* What NotifyConnected sends on a fresh socket is a sequence of messages.
LEMMA GreetingType ==
  ASSUME NEW r \in BOOLEAN, NEW n \in Nat
  PROVE  Greeting(r, n) \in Seq(Messages)
  <1>1. [i \in 1..n |-> "text"] \in Seq(Messages)
    BY DEF Messages
  <1>2. <<"resume">> \in Seq(Messages) /\ <<>> \in Seq(Messages)
    BY DEF Messages
  <1>3. <<"hello">> \in Seq(Messages)
    BY DEF Messages
  <1> QED
    BY <1>1, <1>2, <1>3, ConcatProperties DEF Greeting

\* Sending one more message leaves a sequence of messages.
LEMMA Appended ==
  ASSUME TypeOK, connection # NoSocket, NEW m \in Messages
  PROVE  [said EXCEPT ![connection] = Append(@, m)] \in [Sockets -> Seq(Messages)]
  BY DEF TypeOK

\* What one Pump puts on the socket keeps said a record of messages.
LEMMA SayType ==
  ASSUME TypeOK, NEW n \in Nat, NEW b \in BOOLEAN, n > 0 \/ b => connection # NoSocket, Say(n, b)
  PROVE  said' \in [Sockets -> Seq(Messages)]
  <1>1. CASE n = 0 /\ ~b
    BY <1>1 DEF Say, TypeOK
  <1>2. CASE n > 0 \/ b
    <2>1. connection \in Sockets
      BY <1>2 DEF TypeOK
    <2>2. said[connection] \in Seq(Messages)
      BY <2>1 DEF TypeOK
    <2>3. WithAudio(said[connection]) \in Seq(Messages)
      BY <2>2 DEF WithAudio, Messages
    <2> QED
      BY <1>2, <2>1, <2>2, <2>3 DEF Say, TypeOK, Messages
  <1> QED
    BY <1>1, <1>2

\* A session as Create and Adopt leave it is of its type.
LEMMA TypeInit == Init => TypeOK
  <1> SUFFICES ASSUME Init PROVE TypeOK
    OBVIOUS
  <1>1. <<>> \in Seq(Messages) /\ <<"kStart">> \in Seq(Tasks)
    BY DEF Tasks
  <1>2. said \in [Sockets -> Seq(Messages)]
    BY <1>1 DEF Init
  <1>3. /\ pendingTexts \in 0..MaxPendingTexts /\ textsDropped \in Nat /\ textsSent \in Nat
        /\ ring \in 0..RingFrames /\ buffer \in 0..BufferFrames
        /\ timers \in Nat /\ finished \in Nat
    BY BoundsAssumption DEF Init
  <1>4. ticking \in BOOLEAN /\ reconnecting \in BOOLEAN /\ endpointChanged \in BOOLEAN
        /\ byeSent \in BOOLEAN /\ pushing \in BOOLEAN
    BY Zenon DEF Init
  <1>5. /\ phase \in [Sockets -> {"connecting", "established", "closed"}]
        /\ closing \in [Sockets -> BOOLEAN]
        /\ call \in [Callers -> {"ready", "done", "texted"} \cup {"kText", "kModify"}]
    BY DEF Init
  <1> QED
    BY <1>1, <1>2, <1>3, <1>4, <1>5 DEF Init, TypeOK, SessionStates, SessionActions, Owners

\* Every handler and every call of another thread keeps the type.
LEMMA TypeStep == TypeOK /\ [Next]_vars => TypeOK'
  <1> SUFFICES ASSUME TypeOK, [Next]_vars PROVE TypeOK'
    OBVIOUS
  <1> USE DEF TypeOK, control, sockets, flags, texts, audio, owners
  <1>1. ASSUME NEW k \in Callers, Stop(k) PROVE TypeOK'
    BY <1>1 DEF Stop, Tasks
  <1>2. ASSUME NEW k \in Callers, PostChecked(k) PROVE TypeOK'
    BY <1>2 DEF PostChecked, Tasks
  <1>3. ASSUME NEW k \in Callers, NEW what \in Calls, CheckState(k, what) PROVE TypeOK'
    BY <1>3, CallsAssumption DEF CheckState
  <1>4. CASE PushAudioCheck
    BY <1>4 DEF PushAudioCheck
  <1>5. CASE PushAudio
    <2>1. ring' \in 0..RingFrames
      BY <1>5, BoundsAssumption DEF PushAudio, Smaller
    <2> QED
      BY <1>5, <2>1, Zenon DEF PushAudio
  <1>6. CASE CloseMediaBug
    BY <1>6 DEF CloseMediaBug, Tasks
  <1>7. CASE RunStart
    BY <1>7 DEF RunStart, TakePosted, Owners, SessionActions
  <1>8. CASE RunTeardown
    BY <1>8, OnEventType DEF RunTeardown, TakePosted, SessionEvents
  <1>9. CASE DeliverText
    <2>1. posted' \in Seq(Tasks)
      BY <1>9 DEF DeliverText, TakePosted
    <2>2. ASSUME SendOrDrop, connection # NoSocket
          PROVE  /\ said' \in [Sockets -> Seq(Messages)]
                 /\ pendingTexts' \in 0..MaxPendingTexts
                 /\ textsDropped' \in Nat /\ textsSent' \in Nat
      BY <2>2, Appended DEF SendOrDrop, Messages
    <2>3. ASSUME QueueText
          PROVE  /\ said' \in [Sockets -> Seq(Messages)]
                 /\ pendingTexts' \in 0..MaxPendingTexts
                 /\ textsDropped' \in Nat /\ textsSent' \in Nat
      BY <2>3, BoundsAssumption DEF QueueText, Smaller
    <2> QED
      BY <1>9, <2>1, <2>2, <2>3 DEF DeliverText
  <1>10. CASE ApplyModify
    <2>1. posted' \in Seq(Tasks)
      BY <1>10 DEF ApplyModify, TakePosted
    <2>2. said' \in [Sockets -> Seq(Messages)]
      BY <1>10, Appended, Zenon DEF ApplyModify, Messages
    <2>3. closing' \in [Sockets -> BOOLEAN] /\ connection' \in Sockets \cup {NoSocket}
      BY <1>10, Zenon DEF ApplyModify
    <2> QED
      BY <1>10, <2>1, <2>2, <2>3 DEF ApplyModify
  <1>11. ASSUME NEW c \in Sockets, OnConnected(c) PROVE TypeOK'
    BY <1>11, OnEventType, Zenon DEF OnConnected, AbandonSocket, SessionEvents
  <1>12. ASSUME NEW c \in Sockets, OnClosed(c) PROVE TypeOK'
    BY <1>12, OnEventType DEF OnClosed, ForgetSocket, SessionEvents
  <1>13. ASSUME NEW c \in Sockets, OnDisconnect(c) PROVE TypeOK'
    BY <1>13, OnEventType DEF OnDisconnect, SessionEvents
  <1>14. CASE RetryTimerFires
    BY <1>14, OnEventType DEF RetryTimerFires, SessionEvents
  <1>15. CASE DrainDeadlinePasses
    BY <1>15 DEF DrainDeadlinePasses
  <1>16. CASE Tick
    BY <1>16 DEF Tick
  <1>17. CASE RetireFinished
    BY <1>17, Zenon DEF RetireFinished, Retire
  <1>18. CASE HelloInvalid
    BY <1>18, OnEventType DEF HelloInvalid, SessionEvents
  <1>19. CASE HelloRefused
    BY <1>19, OnEventType DEF HelloRefused, SessionEvents
  <1>20. CASE Greet
    <2>1. connection \in Sockets
      BY <1>20 DEF Greet, HelloSent, Usable
    <2>2. PICK resumed \in BOOLEAN, sent \in 0..pendingTexts :
            /\ said' = [said EXCEPT ![connection] = @ \o Greeting(resumed, sent)]
            /\ textsSent' = textsSent + sent
            /\ textsDropped' = textsDropped + (pendingTexts - sent)
      BY <1>20, Zenon DEF Greet
    <2>3. said[connection] \o Greeting(resumed, sent) \in Seq(Messages)
      <3>1. said[connection] \in Seq(Messages)
        BY <2>1
      <3>2. Greeting(resumed, sent) \in Seq(Messages)
        BY GreetingType
      <3> QED BY <3>1, <3>2, ConcatProperties, Zenon
    <2>4. said' \in [Sockets -> Seq(Messages)]
      BY <2>1, <2>2, <2>3
    <2>5. /\ textsSent' \in Nat /\ textsDropped' \in Nat
          /\ pendingTexts' \in 0..MaxPendingTexts
      BY <1>20, <2>2, BoundsAssumption DEF Greet
    <2>6. reconnecting' \in BOOLEAN /\ endpointChanged' \in BOOLEAN
      BY <1>20, Zenon DEF Greet
    <2> QED
      BY <1>20, <2>4, <2>5, <2>6 DEF Greet
  <1>21. CASE ScheduleRetry
    BY <1>21 DEF ScheduleRetry, ArmRetryTimer, SessionActions
  <1>22. CASE BeginConnect
    BY <1>22, OnEventType, Zenon DEF BeginConnect, SessionEvents, SessionActions
  <1>23. CASE BeginDrain
    BY <1>23, OnEventType DEF BeginDrain, SetDrainDeadline, SessionEvents
  <1>24. CASE BeginClose
    BY <1>24, OnEventType, Zenon DEF BeginClose, CloseConnection, SessionEvents, SessionActions
  <1>25. CASE Finalize
    BY <1>25, BoundsAssumption DEF Finalize, SessionActions
  <1>26. CASE Pump
    <2> DEFINE backlog == Smaller(buffer + ring, BufferFrames)
    <2>1. backlog \in 0..BufferFrames
      BY BoundsAssumption DEF Smaller
    <2>2. Flushable(backlog) \subseteq 0..backlog
      BY <2>1, BoundsAssumption DEF Flushable, Smaller
    <2>3. \A n \in Flushable(backlog) : n > 0 => connection # NoSocket
      BY <2>1 DEF Flushable, Usable
    <2>4. \A b \in SendOutcomes(connection) : b \in BOOLEAN /\ (b => connection # NoSocket)
      BY Zenon DEF SendOutcomes, Usable
    <2>5. CASE state = "kActive"
      <3>1. PICK n \in Flushable(backlog) : buffer' = backlog - n /\ Say(n, FALSE)
        BY <1>26, <2>5, Zenon DEF Pump
      <3>2. said' \in [Sockets -> Seq(Messages)]
        <4>1. n \in Nat /\ (n > 0 \/ FALSE => connection # NoSocket)
          BY <2>1, <2>2, <2>3
        <4>2. FALSE \in BOOLEAN
          OBVIOUS
        <4> QED
          BY <3>1, <4>1, <4>2, SayType, Zenon
      <3>3. buffer' \in 0..BufferFrames
        BY <2>1, <2>2, <3>1, BoundsAssumption
      <3> QED
        BY <1>26, <2>5, <3>2, <3>3, BoundsAssumption DEF Pump, SessionActions
    <2>6. CASE state = "kDraining"
      <3>1. PICK n \in Flushable(backlog) :
              /\ buffer' = backlog - n
              /\ \E b \in (IF buffer' = 0 /\ ~byeSent THEN SendOutcomes(connection) ELSE {FALSE}) :
                   Say(n, b) /\ byeSent' = (byeSent \/ b)
        BY <1>26, <2>6, Zenon DEF Pump
      <3>2. PICK b \in BOOLEAN : /\ b => connection # NoSocket
                                 /\ Say(n, b) /\ byeSent' = (byeSent \/ b)
        BY <2>4, <3>1, Zenon
      <3>3. said' \in [Sockets -> Seq(Messages)]
        BY <2>1, <2>2, <2>3, <3>2, SayType
      <3>4. buffer' \in 0..BufferFrames
        BY <2>1, <2>2, <3>1, BoundsAssumption
      <3>5. state' \in SessionStates /\ todo' \in SessionActions \cup {"Pump"}
        BY <1>26, <2>6, OnEventType DEF Pump, SessionEvents, SessionActions, SessionStates
      <3>6. byeSent' \in BOOLEAN
        BY <3>2
      <3> QED
        BY <1>26, <2>6, <3>3, <3>4, <3>5, <3>6, BoundsAssumption DEF Pump
    <2>7. CASE state \notin {"kActive", "kDraining"}
      <3>1. buffer' \in 0..BufferFrames /\ ring' \in 0..RingFrames
        <4>1. buffer' = backlog
          BY <1>26, <2>7, Zenon DEF Pump
        <4>2. ring' = 0
          BY <1>26 DEF Pump
        <4> QED
          BY <2>1, <4>1, <4>2, BoundsAssumption
      <3>2. todo' = "kNone" /\ UNCHANGED <<state, said, byeSent>>
        BY <1>26, <2>7, Zenon DEF Pump
      <3> QED
        BY <1>26, <3>1, <3>2 DEF Pump, SessionActions
    <2> QED
      BY <2>5, <2>6, <2>7
  <1>27. CASE UNCHANGED vars
    BY <1>27 DEF vars
  <1> QED
    BY <1>1, <1>2, <1>3, <1>4, <1>5, <1>6, <1>7, <1>8, <1>9, <1>10, <1>11, <1>12, <1>13,
       <1>14, <1>15, <1>16, <1>17, <1>18, <1>19, <1>20, <1>21, <1>22, <1>23, <1>24, <1>25,
       <1>26, <1>27, Zenon DEF Next, Apply, RunPosted, Terminated

\* Every variable of a session keeps its type in every reachable state; in
\* particular the pending texts, the ring and the send buffer never exceed
\* their capacities (QueueText, PushAudio, DrainHandoffRing).
THEOREM TypeCorrect == Spec => []TypeOK
  BY TypeInit, TypeStep, PTL DEF Spec

-----------------------------------------------------------------------------
(* The task queue: Start is only ever at its front.                        *)

\* A task that any thread posts goes behind Adopt's Start task.
LEMMA PostKeepsStart ==
  ASSUME TypeOK, StartComesFirst, NEW task \in Tasks, task # "kStart",
         posted' = Append(posted, task)
  PROVE  /\ \A i \in 2..Len(posted') : posted'[i] # "kStart"
         /\ StartPending' <=> StartPending
  <1>1. posted \in Seq(Tasks) /\ posted' \in Seq(Tasks) /\ posted' # <<>>
    BY AppendProperties DEF TypeOK
  <1>2. Len(posted') = Len(posted) + 1 /\ posted'[Len(posted) + 1] = task
    BY <1>1
  <1>3. \A i \in 1..Len(posted) : posted'[i] = posted[i]
    BY <1>1
  <1>4. \A i \in 2..Len(posted') : posted'[i] # "kStart"
    BY <1>1, <1>2, <1>3 DEF StartComesFirst
  <1>5. CASE posted = <<>>
    BY <1>1, <1>2, <1>4, <1>5 DEF StartPending
  <1>6. CASE posted # <<>>
    <2>1. Head(posted') = Head(posted)
      BY <1>1, <1>2, <1>3, <1>6
    <2> QED
      BY <1>1, <1>4, <1>6, <2>1 DEF StartPending
  <1> QED
    BY <1>5, <1>6

\* Once the first posted task has been taken, no Start is left.
LEMMA TakeEndsStart ==
  ASSUME TypeOK, StartComesFirst, NEW task \in Tasks, TakePosted(task)
  PROVE  /\ \A i \in 2..Len(posted') : posted'[i] # "kStart"
         /\ ~StartPending'
         /\ task # "kStart" => ~StartPending
  BY DEF TypeOK, StartComesFirst, StartPending, TakePosted

-----------------------------------------------------------------------------
(* The safety invariant.                                                   *)

\* The inductive invariant holds of a session as Create and Adopt leave it.
LEMMA SafetyInit == Init => SafetyInv
  BY DEF Init, SafetyInv, TodoFits, StartComesFirst, StartPending, Registered, OneRetryTimer,
         FinalizeOnce, TrackedSocketIsLive, Awaited, Live

\* Every handler of fork_session.cpp and every call of another thread
\* preserves the inductive invariant.
LEMMA SafetyStep == TypeOK /\ SafetyInv /\ [Next]_vars => SafetyInv'
  <1> SUFFICES ASSUME TypeOK, SafetyInv, [Next]_vars PROVE SafetyInv'
    BY Zenon
  <1> USE DEF SafetyInv, TodoFits, StartComesFirst, Registered, OneRetryTimer, FinalizeOnce,
              TrackedSocketIsLive, Awaited, Live, control, sockets, flags, texts, audio, owners
  <1>1. ASSUME NEW k \in Callers, Stop(k) PROVE SafetyInv'
    BY <1>1, PostKeepsStart DEF Stop, Tasks
  <1>2. ASSUME NEW k \in Callers, PostChecked(k) PROVE SafetyInv'
    BY <1>2, PostKeepsStart DEF PostChecked, Tasks
  <1>3. ASSUME NEW k \in Callers, NEW what \in Calls, CheckState(k, what) PROVE SafetyInv'
    BY <1>3 DEF CheckState, StartPending
  <1>4. CASE PushAudioCheck
    BY <1>4 DEF PushAudioCheck, StartPending
  <1>5. CASE PushAudio
    BY <1>5 DEF PushAudio, StartPending
  <1>6. CASE CloseMediaBug
    BY <1>6, PostKeepsStart DEF CloseMediaBug, Tasks
  <1>7. CASE RunStart
    <2>1. StartPending /\ Idle
      BY <1>7 DEF RunStart, TakePosted, StartPending
    <2>2. ~StartPending' /\ \A i \in 2..Len(posted') : posted'[i] # "kStart"
      BY <1>7, TakeEndsStart DEF RunStart, Tasks
    <2> QED
      BY <1>7, <2>1, <2>2 DEF RunStart
  <1>8. CASE RunTeardown
    <2>1. /\ ~StartPending /\ ~StartPending'
          /\ \A i \in 2..Len(posted') : posted'[i] # "kStart"
      BY <1>8, TakeEndsStart DEF RunTeardown, Tasks
    <2>2. todo = "kNone"
      BY <1>8 DEF RunTeardown, TakePosted, Idle
    <2> QED
      BY <1>8, <2>1, <2>2, TeardownRow, Zenon DEF RunTeardown, TypeOK
  <1>9. CASE DeliverText
    BY <1>9, TakeEndsStart DEF DeliverText, Tasks
  <1>10. CASE ApplyModify
    BY <1>10, TakeEndsStart DEF ApplyModify, Tasks, TypeOK
  <1>11. ASSUME NEW c \in Sockets, OnConnected(c) PROVE SafetyInv'
    <2>1. /\ todo = "kNone" /\ Live(c) /\ phase' = [phase EXCEPT ![c] = "established"]
          /\ UNCHANGED <<ticking, posted, timers, drainDeadline, refs, finished>>
      BY <1>11, Zenon DEF OnConnected, Callback, Idle
    <2>2. CASE /\ state = "kConnecting"
               /\ state' = "kActive" /\ todo' = "kNotifyConnected"
               /\ closing' = closing /\ connection' = connection
      BY <2>1, <2>2 DEF TypeOK, StartPending
    <2>3. CASE state # "kConnecting" /\ AbandonSocket
      BY <2>1, <2>3 DEF AbandonSocket, TypeOK, StartPending
    <2> QED
      BY <1>11, <2>2, <2>3, ConnectedStep, Zenon DEF TypeOK
  <1>12. ASSUME NEW c \in Sockets, OnClosed(c) PROVE SafetyInv'
    <2>1. todo = "kNone" /\ ~StartPending /\ ~StartPending'
      BY <1>12 DEF OnClosed, Callback, Idle, StartPending
    <2>2. \/ /\ state \in {"kConnecting", "kActive"}
             /\ state' = "kReconnecting" /\ todo' = "kScheduleRetry"
          \/ state = "kDraining" /\ state' = "kClosing" /\ todo' = "kBeginClose"
          \/ state = "kClosing" /\ state' = "kDead" /\ todo' = "kFinalize"
          \/ state \in {"kReconnecting", "kDead"} /\ state' = state /\ todo' = "kNone"
      BY <1>12, ErrorRow DEF OnClosed, TypeOK
    <2> QED
      BY <1>12, <2>1, <2>2 DEF OnClosed, ForgetSocket
  <1>13. ASSUME NEW c \in Sockets, OnDisconnect(c) PROVE SafetyInv'
    <2>1. todo = "kNone" /\ ~StartPending /\ ~StartPending'
      BY <1>13 DEF OnDisconnect, Callback, Idle, StartPending
    <2> QED
      BY <1>13, <2>1, TeardownRow, Zenon DEF OnDisconnect, TypeOK
  <1>14. CASE RetryTimerFires
    BY <1>14, RetryRow DEF RetryTimerFires, Idle, Destroyed, TypeOK, StartPending
  <1>15. CASE DrainDeadlinePasses
    BY <1>15 DEF DrainDeadlinePasses, StartPending
  <1>16. CASE Tick
    BY <1>16 DEF Tick, Idle, StartPending
  <1>17. CASE RetireFinished
    BY <1>17 DEF RetireFinished, Retire, StartPending
  <1>18. CASE HelloInvalid
    BY <1>18, TeardownRow DEF HelloInvalid, StartPending, TypeOK
  <1>19. CASE HelloRefused
    BY <1>19, ErrorRow DEF HelloRefused, StartPending, TypeOK
  <1>20. CASE Greet
    BY <1>20 DEF Greet, StartPending
  <1>21. CASE ScheduleRetry
    BY <1>21, SMTT(30) DEF ScheduleRetry, ArmRetryTimer, StartPending, TypeOK
  <1>22. CASE BeginConnect
    BY <1>22, ErrorRow, SocketAssumption DEF BeginConnect, StartPending, TypeOK
  <1>23. CASE BeginDrain
    BY <1>23, CompletionRows DEF BeginDrain, SetDrainDeadline, StartPending, TypeOK
  <1>24. CASE BeginClose
    BY <1>24, CompletionRows DEF BeginClose, CloseConnection, StartPending, TypeOK
  <1>25. CASE Finalize
    BY <1>25 DEF Finalize, StartPending
  <1>26. CASE Pump
    BY <1>26, CompletionRows, Zenon DEF Pump, StartPending, TypeOK
  <1>27. CASE UNCHANGED vars
    BY <1>27 DEF vars, StartPending
  <1> QED
    BY <1>1, <1>2, <1>3, <1>4, <1>5, <1>6, <1>7, <1>8, <1>9, <1>10, <1>11, <1>12, <1>13,
       <1>14, <1>15, <1>16, <1>17, <1>18, <1>19, <1>20, <1>21, <1>22, <1>23, <1>24, <1>25,
       <1>26, <1>27, Zenon DEF Next, Apply, RunPosted, Terminated

\* The inductive invariant holds of every reachable session, whatever the
\* interleaving of the shard, the media thread and the control threads.
THEOREM Safe == Spec => [](TypeOK /\ SafetyInv)
  <1>1. Init => TypeOK /\ SafetyInv
    BY TypeInit, SafetyInit
  <1>2. TypeOK /\ SafetyInv /\ [Next]_vars => (TypeOK /\ SafetyInv)'
    BY TypeStep, SafetyStep
  <1> QED
    BY <1>1, <1>2, PTL DEF Spec

\* Whatever races to end the fork (API stop, hangup, server disconnect, socket
\* loss), Finalize runs once, and only in kDead (session_state.hpp:46-47).
THEOREM FinalizesOnce == Spec => []FinalizeOnce
  <1>1. SafetyInv => FinalizeOnce
    BY DEF SafetyInv
  <1> QED
    BY <1>1, Safe, PTL

\* A fork waiting to reconnect has exactly one timer, however often its
\* sockets fail (Apply's kScheduleRetry, fork_session.cpp:335-339).
THEOREM RetriesOnOneTimer == Spec => []OneRetryTimer
  <1>1. SafetyInv => OneRetryTimer
    BY DEF SafetyInv
  <1> QED
    BY <1>1, Safe, PTL

\* connection_ never outlives the socket it points to (OnClosed,
\* fork_session.cpp:277-286).
THEOREM NeverDangles == Spec => []TrackedSocketIsLive
  <1>1. SafetyInv => TrackedSocketIsLive
    BY DEF SafetyInv
  <1> QED
    BY <1>1, Safe, PTL

\* Between two handlers a session that is not dead is always waiting for
\* something that is really there (Apply, fork_session.cpp:288-361).
THEOREM AlwaysHasAWayOn == Spec => []NeverStranded
  <1>1. TypeOK /\ SafetyInv => NeverStranded
    BY DEF TypeOK, SafetyInv, Awaited, OneRetryTimer, NeverStranded, Idle
  <1> QED
    BY <1>1, Safe, PTL

-----------------------------------------------------------------------------
(* A dead session stays silent.                                            *)

\* A step that touches neither state_, sockets nor timers is silent.
LEMMA SilentWhenUnchanged ==
  ASSUME TypeOK, state' = state, timers' = timers, phase' = phase, said' = said
  PROVE  SilentStep
  BY DEF SilentStep, TypeOK

\* No handler that runs in kDead opens a socket, sends or arms a timer.
LEMMA DeadStaysSilent == TypeOK /\ SafetyInv /\ [Next]_vars => SilentStep
  <1> SUFFICES ASSUME TypeOK, SafetyInv, [Next]_vars, state = "kDead" PROVE SilentStep
    BY DEF SilentStep
  <1> USE DEF control, sockets, flags, texts, audio, owners
  <1>0. todo \in {"kNone", "kFinalize", "Pump"}
    BY DEF SafetyInv, TodoFits, TypeOK, SessionActions
  <1>1. \A c \in Sockets : Len(said[c]) \in Nat
    BY DEF TypeOK
  <1>2. ASSUME NEW k \in Callers,
               Stop(k) \/ PostChecked(k) \/ \E what \in Calls : CheckState(k, what)
        PROVE  SilentStep
    BY <1>2, SilentWhenUnchanged DEF Stop, PostChecked, CheckState
  <1>3. CASE PushAudioCheck \/ PushAudio \/ CloseMediaBug
    BY <1>3, SilentWhenUnchanged DEF PushAudioCheck, PushAudio, CloseMediaBug
  <1>4. CASE RunStart
    BY <1>4, SilentWhenUnchanged DEF RunStart
  <1>5. CASE RunTeardown
    BY <1>5, SilentWhenUnchanged, TeardownRow DEF RunTeardown, SessionStates
  <1>6. CASE DeliverText
    BY <1>6, SilentWhenUnchanged DEF DeliverText, Accepting
  <1>7. CASE ApplyModify
    BY <1>7, SilentWhenUnchanged DEF ApplyModify, Accepting
  <1>8. ASSUME NEW c \in Sockets, OnConnected(c) PROVE SilentStep
    BY <1>1, <1>8, ConnectedRow DEF OnConnected, AbandonSocket, To, SilentStep, TypeOK
  <1>9. ASSUME NEW c \in Sockets, OnClosed(c) PROVE SilentStep
    <2>1. state' = "kDead"
      BY <1>9, ErrorRow DEF OnClosed, SessionStates
    <2>2. \A d \in Sockets : Len(said'[d]) <= Len(said[d])
      BY <1>1, <1>9 DEF OnClosed, TypeOK
    <2> QED
      BY <1>9, <2>1, <2>2 DEF OnClosed, SilentStep, TypeOK
  <1>10. ASSUME NEW c \in Sockets, OnDisconnect(c) PROVE SilentStep
    BY <1>10, SilentWhenUnchanged, TeardownRow DEF OnDisconnect, SessionStates
  <1>11. CASE RetryTimerFires
    BY <1>1, <1>11, RetryRow DEF RetryTimerFires, SilentStep, SessionStates, TypeOK
  <1>12. CASE DrainDeadlinePasses \/ Tick \/ RetireFinished
    BY <1>12, SilentWhenUnchanged DEF DrainDeadlinePasses, Tick, RetireFinished
  <1>13. CASE Finalize
    BY <1>13, SilentWhenUnchanged DEF Finalize
  <1>14. CASE Pump
    BY <1>14, SilentWhenUnchanged DEF Pump
  <1>15. CASE UNCHANGED vars
    BY <1>15, SilentWhenUnchanged DEF vars
  <1> QED
    BY <1>0, <1>2, <1>3, <1>4, <1>5, <1>6, <1>7, <1>8, <1>9, <1>10, <1>11, <1>12, <1>13,
       <1>14, <1>15
      , Zenon DEF Next, Apply, RunPosted, Terminated, HelloInvalid, HelloRefused, Greet, ScheduleRetry,
           BeginConnect, BeginDrain, BeginClose

\* kDead is absorbing and a dead session neither connects, nor sends, nor arms
\* a timer, whatever is still queued for it (session_state.hpp:42-47).
THEOREM DeadSessionsAreSilent == Spec => DeadIsSilent
  BY DeadStaysSilent, Safe, PTL DEF Spec, DeadIsSilent

-----------------------------------------------------------------------------
(* One socket at a time.                                                   *)

\* When sockets that are closed while connecting never connect, and the hello
\* goes out, there is one live socket at a time: the session's connection, or
\* one it has asked to close.
LeakInv ==
  /\ \A c, d \in Sockets : Live(c) /\ Live(d) => c = d
  /\ \A c \in Sockets : Live(c) => c = connection \/ closing[c]
  /\ state = "kReconnecting" \/ todo = "kBeginConnect" => \A c \in Sockets : ~Live(c)
  /\ todo = "kNotifyConnected" => Usable(connection)
  /\ todo = "kFinalize" => \A c \in Sockets : Live(c) => closing[c]

\* Every handler keeps it so.
LEMMA LeakStep ==
  ASSUME ~LateHandshakes, Hellos = {"valid"}
  PROVE  TypeOK /\ SafetyInv /\ LeakInv /\ [Next]_vars => LeakInv'
  <1> SUFFICES ASSUME TypeOK, SafetyInv, LeakInv, [Next]_vars PROVE LeakInv'
    OBVIOUS
  <1> USE DEF LeakInv, Live, Usable, control, sockets, flags, texts, audio, owners
  <1>0. hello = "valid"
    BY DEF TypeOK
  <1>1. ASSUME NEW k \in Callers, Stop(k) PROVE LeakInv'
    BY <1>1 DEF Stop
  <1>2. ASSUME NEW k \in Callers, PostChecked(k) PROVE LeakInv'
    BY <1>2 DEF PostChecked
  <1>3. ASSUME NEW k \in Callers, NEW what \in Calls, CheckState(k, what) PROVE LeakInv'
    BY <1>3, Zenon DEF CheckState
  <1>4. CASE PushAudioCheck
    BY <1>4 DEF PushAudioCheck
  <1>5. CASE PushAudio
    BY <1>5 DEF PushAudio
  <1>6. CASE CloseMediaBug
    BY <1>6 DEF CloseMediaBug
  <1>7. CASE RunStart
    <2>1. StartPending
      BY <1>7 DEF RunStart, TakePosted, StartPending
    <2> QED
      BY <1>7, <2>1 DEF RunStart, SafetyInv, StartComesFirst
  <1>8. CASE RunTeardown
    BY <1>8, TeardownRow DEF RunTeardown, TypeOK
  <1>9. CASE DeliverText
    BY <1>9, Zenon DEF DeliverText
  <1>10. CASE ApplyModify
    BY <1>10, Zenon DEF ApplyModify, TakePosted, Idle, TypeOK
  <1>11. ASSUME NEW c \in Sockets, OnConnected(c) PROVE LeakInv'
    <2>1. ~closing[c] /\ Live(c) /\ todo = "kNone"
      BY <1>11, Zenon DEF OnConnected, Callback, Idle, TypeOK
    <2>2. c = connection /\ state # "kReconnecting" /\ connection # NoSocket
      BY <2>1, SocketAssumption
    <2>3. phase[c] = "connecting" /\ phase' = [phase EXCEPT ![c] = "established"]
      BY <1>11, Zenon DEF OnConnected
    <2>4. phase'[c] = "established" /\ \A d \in Sockets \ {c} : phase'[d] = phase[d]
      BY <2>3, Zenon DEF TypeOK
    <2>5. \A d \in Sockets : Live(d)' <=> Live(d)
      BY <2>1, <2>4, Zenon DEF Live
    <2>6. CASE state = "kConnecting"
      <3>1. /\ state' = "kActive" /\ todo' = "kNotifyConnected"
            /\ closing' = closing /\ connection' = connection
        BY <1>11, <2>6, ConnectedStep, Zenon DEF TypeOK
      <3>2. Usable(connection)'
        BY <2>1, <2>2, <2>4, <3>1, Zenon DEF Usable
      <3> QED
        BY <2>5, <3>1, <3>2, Zenon DEF LeakInv
    <2>7. CASE state # "kConnecting"
      <3>1. AbandonSocket
        BY <1>11, <2>7, ConnectedStep, Zenon DEF TypeOK
      <3>2. /\ closing' = [closing EXCEPT ![c] = TRUE]
            /\ state' = state /\ todo' = "kNone" /\ state # "kReconnecting"
        BY <2>1, <2>2, <3>1, Zenon DEF AbandonSocket
      <3>3. closing'[c] = TRUE
        BY <3>2, Zenon DEF TypeOK
      <3>4. \A d \in Sockets : Live(d)' => d = c
        BY <2>1, <2>5, Zenon DEF LeakInv
      <3> QED
        BY <3>2, <3>3, <3>4, Zenon DEF LeakInv
    <2> QED
      BY <2>6, <2>7, Zenon
  <1>12. ASSUME NEW c \in Sockets, OnClosed(c) PROVE LeakInv'
    <2>1. \A d \in Sockets : phase'[d] = "closed"
      BY <1>12 DEF OnClosed, Callback, TypeOK
    <2>2. todo' # "kNotifyConnected"
      BY <1>12, ErrorRow DEF OnClosed, TypeOK
    <2> QED
      BY <2>1, <2>2
  <1>13. ASSUME NEW c \in Sockets, OnDisconnect(c) PROVE LeakInv'
    BY <1>13, TeardownRow DEF OnDisconnect, TypeOK
  <1>14. CASE RetryTimerFires
    BY <1>14, RetryRow DEF RetryTimerFires, TypeOK
  <1>15. CASE DrainDeadlinePasses
    BY <1>15, Zenon DEF DrainDeadlinePasses
  <1>16. CASE Tick
    BY <1>16, Zenon DEF Tick
  <1>17. CASE RetireFinished
    BY <1>17, Zenon DEF RetireFinished
  <1>18. CASE HelloInvalid
    BY <1>0, <1>18 DEF HelloInvalid
  <1>19. CASE HelloRefused
    BY <1>0, <1>19, Zenon DEF HelloRefused, HelloSent
  <1>20. CASE Greet
    <2>1. state # "kReconnecting"
      BY <1>20 DEF Greet, SafetyInv, TodoFits
    <2> QED
      BY <1>20, <2>1, Zenon DEF Greet
  <1>21. CASE ScheduleRetry
    BY <1>21, Zenon DEF ScheduleRetry, SafetyInv, TodoFits
  <1>22. CASE BeginConnect
    <2>1. state = "kConnecting" /\ \A d \in Sockets : phase[d] = "closed"
      BY <1>22, Zenon DEF BeginConnect, SafetyInv, TodoFits
    <2>2. ASSUME NEW c \in Sockets, phase' = [phase EXCEPT ![c] = "connecting"],
                 connection' = c, todo' = "kNone", state' = state
          PROVE  LeakInv'
      BY <2>1, <2>2, Zenon DEF TypeOK
    <2>3. ASSUME phase' = phase, OnEvent("kWsError")
          PROVE  LeakInv'
      BY <2>1, <2>3, ErrorRow, Zenon DEF TypeOK
    <2> QED
      BY <1>22, <2>2, <2>3, Zenon DEF BeginConnect
  <1>23. CASE BeginDrain
    BY <1>23, CompletionRows DEF BeginDrain, SafetyInv, TodoFits, TypeOK
  <1>24. CASE BeginClose
    <2>1. state = "kClosing" /\ phase' = phase /\ connection' = connection
      BY <1>24, Zenon DEF BeginClose, SafetyInv, TodoFits
    <2>2. CASE connection = NoSocket
      <3>1. state' = "kDead" /\ todo' = "kFinalize" /\ closing' = closing
        BY <1>24, <2>1, <2>2, CompletionRows DEF BeginClose, CloseConnection, TypeOK
      <3> QED
        BY <2>1, <2>2, <3>1, SocketAssumption, Zenon
    <2>3. CASE connection # NoSocket
      <3>1. /\ state' = state /\ todo' = "kNone"
            /\ closing' = [closing EXCEPT ![connection] = TRUE]
        BY <1>24, <2>3, Zenon DEF BeginClose, CloseConnection
      <3> QED
        BY <2>1, <2>3, <3>1 DEF TypeOK
    <2> QED
      BY <2>2, <2>3, Zenon
  <1>25. CASE Finalize
    BY <1>25 DEF Finalize, SafetyInv, TodoFits
  <1>26. CASE Pump
    BY <1>26, CompletionRows, Zenon DEF Pump, TypeOK
  <1>27. CASE UNCHANGED vars
    BY <1>27, Zenon DEF vars
  <1> QED
    BY <1>1, <1>2, <1>3, <1>4, <1>5, <1>6, <1>7, <1>8, <1>9, <1>10, <1>11, <1>12, <1>13,
       <1>14, <1>15, <1>16, <1>17, <1>18, <1>19, <1>20, <1>21, <1>22, <1>23, <1>24, <1>25,
       <1>26, <1>27, Zenon DEF Next, Apply, RunPosted, Terminated

\* No socket stays open with nobody to close it, as long as a socket closed
\* while connecting does not connect after all and every fork has a hello the
\* socket takes (ApplyModify, OnConnected, OnClosed, fork_session.cpp:158-180,
\* 204-215, 277-286).
THEOREM NoSocketIsLeaked ==
  ASSUME ~LateHandshakes, Hellos = {"valid"}
  PROVE  Spec => []NoSocketLeak
  <1>1. Init => LeakInv
    BY DEF Init, LeakInv, Live
  <1>2. TypeOK /\ SafetyInv /\ LeakInv /\ [Next]_vars => LeakInv'
    BY LeakStep
  <1>3. TypeOK /\ LeakInv => NoSocketLeak
    BY DEF LeakInv, NoSocketLeak, Live, TypeOK
  <1> QED
    BY <1>1, <1>2, <1>3, Safe, PTL DEF Spec

-----------------------------------------------------------------------------
(* What one socket is told, and in which order.                            *)

\* ProtocolOrder of one socket's messages, for a fork whose hello is h.
InOrder(s, h) ==
  \A i \in DOMAIN s :
    /\ h = "valid" => (s[i] = "hello" <=> i = 1)
    /\ s[i] = "resume" => i = 2
    /\ s[i] = "bye" => i = Len(s)

NoBye(s) == \A i \in DOMAIN s : s[i] # "bye"

\* Every socket is told things in order, and a closed one has been told nothing;
\* a connection is told nothing before its hello, and nothing after a bye because
\* a bye is said on the way to kClosing only.
OrderInv ==
  /\ \A c \in Sockets : InOrder(said[c], hello) /\ (~Live(c) => said[c] = <<>>)
  /\ connection # NoSocket =>
       /\ (state = "kConnecting" /\ todo # "kBeginConnect") \/ todo = "kNotifyConnected"
            => said[connection] = <<>>
       /\ state \notin {"kClosing", "kDead"} => NoBye(said[connection])
       /\ hello = "valid" /\ Usable(connection)
            => \/ said[connection] # <<>>
               \/ todo = "kNotifyConnected"
               \/ state \in {"kClosing", "kDead"}

\* A fresh socket has been told nothing out of order.
LEMMA NothingSaid ==
  ASSUME NEW h
  PROVE  InOrder(<<>>, h) /\ NoBye(<<>>)
  BY DEF InOrder, NoBye

\* A text, audio or a bye may follow anything but a bye, once the hello is out.
LEMMA Spoken ==
  ASSUME NEW h, NEW s \in Seq(Messages), NEW m \in {"text", "audio", "bye"},
         InOrder(s, h), NoBye(s), h = "valid" => s # <<>>
  PROVE  /\ Append(s, m) \in Seq(Messages) /\ Append(s, m) # <<>>
         /\ InOrder(Append(s, m), h)
         /\ m # "bye" => NoBye(Append(s, m))
  <1> DEFINE t == Append(s, m)
  <1>1. m \in Messages
    BY DEF Messages
  <1>2. /\ t \in Seq(Messages) /\ t # <<>> /\ Len(t) = Len(s) + 1
        /\ \A i \in 1..Len(s) : t[i] = s[i]
        /\ t[Len(s) + 1] = m
    BY <1>1, AppendProperties
  <1>3. DOMAIN t = 1..(Len(s) + 1) /\ DOMAIN s = 1..Len(s) /\ Len(s) \in Nat
    BY <1>2, LenProperties
  <1>4. h = "valid" => Len(s) # 0
    BY EmptySeq
  <1> HIDE DEF t
  <1>5. ASSUME NEW i \in 1..(Len(s) + 1)
        PROVE  /\ h = "valid" => (t[i] = "hello" <=> i = 1)
               /\ t[i] = "resume" => i = 2
               /\ t[i] = "bye" => i = Len(t)
               /\ m # "bye" => t[i] # "bye"
    <2>1. CASE i \in 1..Len(s)
      BY <1>2, <1>3, <2>1 DEF InOrder, NoBye
    <2>2. CASE i = Len(s) + 1
      BY <1>2, <1>3, <1>4, <2>2
    <2> QED
      BY <1>3, <2>1, <2>2
  <1>6. InOrder(t, h) /\ (m # "bye" => NoBye(t))
    BY <1>3, <1>5 DEF InOrder, NoBye
  <1> QED
    BY <1>2, <1>6 DEF t

\* So may the audio of one flush.
LEMMA Flushed ==
  ASSUME NEW h, NEW s \in Seq(Messages), InOrder(s, h), NoBye(s), h = "valid" => s # <<>>
  PROVE  /\ WithAudio(s) \in Seq(Messages) /\ WithAudio(s) # <<>>
         /\ InOrder(WithAudio(s), h) /\ NoBye(WithAudio(s))
  <1>1. CASE s # <<>> /\ s[Len(s)] = "audio"
    BY <1>1 DEF WithAudio
  <1>2. CASE ~(s # <<>> /\ s[Len(s)] = "audio")
    <2>1. WithAudio(s) = Append(s, "audio")
      BY <1>2 DEF WithAudio
    <2>2. /\ Append(s, "audio") \in Seq(Messages) /\ Append(s, "audio") # <<>>
          /\ InOrder(Append(s, "audio"), h) /\ NoBye(Append(s, "audio"))
      BY Spoken
    <2> QED
      BY <2>1, <2>2
  <1> QED
    BY <1>1, <1>2

\* NotifyConnected's messages are in order: one hello, then perhaps one resume,
\* then texts.
LEMMA Greeted ==
  ASSUME NEW h, NEW r \in BOOLEAN, NEW n \in Nat
  PROVE  /\ <<>> \o Greeting(r, n) # <<>>
         /\ InOrder(<<>> \o Greeting(r, n), h) /\ NoBye(<<>> \o Greeting(r, n))
  <1> DEFINE a == <<"hello">>
             b == IF r THEN <<"resume">> ELSE <<>>
             d == [i \in 1..n |-> "text"]
             ab == a \o b
             g == ab \o d
  <1>1. /\ a \in Seq(Messages) /\ Len(a) = 1 /\ a[1] = "hello"
        /\ b \in Seq(Messages) /\ Len(b) \in 0..1 /\ (Len(b) = 1 => b[1] = "resume")
        /\ d \in Seq(Messages) /\ Len(d) = n /\ \A i \in 1..n : d[i] = "text"
    <2>1. a \in Seq(Messages) /\ Len(a) = 1 /\ a[1] = "hello"
      BY DEF Messages
    <2>2. b \in Seq(Messages) /\ Len(b) \in 0..1 /\ (Len(b) = 1 => b[1] = "resume")
      <3>1. CASE r
        BY <3>1 DEF Messages
      <3>2. CASE ~r
        BY <3>2, EmptySeq
      <3> QED
        BY <3>1, <3>2
    <2>3. d \in Seq(Messages)
      BY DEF Messages
    <2>4. Len(d) = n /\ \A i \in 1..n : d[i] = "text"
      BY <2>3, LenProperties
    <2> QED
      BY <2>1, <2>2, <2>3, <2>4
  <1>2. g = Greeting(r, n) /\ g \in Seq(Messages) /\ <<>> \o g = g
    BY GreetingType, ConcatEmptySeq, Zenon DEF Greeting
  <1> HIDE DEF a, b, d
  <1>3. /\ ab \in Seq(Messages) /\ Len(ab) = 1 + Len(b)
        /\ ab[1] = "hello" /\ \A i \in 2..Len(ab) : ab[i] = "resume" /\ i = 2
    <2>1. /\ ab \in Seq(Messages) /\ Len(ab) = Len(a) + Len(b)
          /\ \A i \in 1..(Len(a) + Len(b)) :
               ab[i] = IF i <= Len(a) THEN a[i] ELSE b[i - Len(a)]
      BY <1>1, ConcatProperties, Zenon
    <2> HIDE DEF ab
    <2> QED
      BY <1>1, <2>1
  <1> HIDE DEF ab
  <1>4. /\ Len(g) = Len(ab) + Len(d)
        /\ \A i \in 1..(Len(ab) + Len(d)) :
             g[i] = IF i <= Len(ab) THEN ab[i] ELSE d[i - Len(ab)]
    BY <1>1, <1>3, ConcatProperties
  <1>5. DOMAIN g = 1..Len(g)
    BY <1>2, LenProperties
  <1>6. g # <<>>
    BY <1>1, <1>3, <1>4, EmptySeq
  <1> HIDE DEF g
  <1>7. ASSUME NEW i \in 1..Len(g)
        PROVE  /\ g[i] = "hello" <=> i = 1
               /\ g[i] = "resume" => i = 2
               /\ g[i] # "bye"
    <2>1. CASE i <= Len(ab)
      BY <1>1, <1>3, <1>4, <2>1
    <2>2. CASE i > Len(ab)
      BY <1>1, <1>3, <1>4, <2>2
    <2> QED
      BY <1>1, <1>3, <2>1, <2>2
  <1>8. InOrder(g, h) /\ NoBye(g)
    BY <1>5, <1>7, Zenon DEF InOrder, NoBye
  <1> QED
    BY <1>2, <1>6, <1>8

\* A Pump says what it flushes, and the bye, in order.
LEMMA SaidInOrder ==
  ASSUME TypeOK, OrderInv, todo = "Pump", state \in {"kActive", "kDraining"},
         NEW n \in Nat, NEW b \in BOOLEAN, n > 0 \/ b => Usable(connection),
         Say(n, b), hello' = hello, phase' = phase
  PROVE  /\ \A c \in Sockets : InOrder(said'[c], hello') /\ (~Live(c)' => said'[c] = <<>>)
         /\ connection # NoSocket /\ ~b => NoBye(said'[connection])
         /\ n > 0 \/ b => said'[connection] # <<>>
         /\ n = 0 /\ ~b => said' = said
  <1>0. (n = 0 /\ ~b) \/ (n > 0 \/ b)
    OBVIOUS
  <1>1. CASE n = 0 /\ ~b
    <2>1. said' = said /\ ~(n > 0) /\ state \notin {"kClosing", "kDead"}
      BY <1>1 DEF Say
    <2>2. \A c \in Sockets : Live(c)' <=> Live(c)
      BY Zenon DEF Live
    <2> QED
      BY <1>1, <2>1, <2>2, Zenon DEF OrderInv
  <1>2. CASE n > 0 \/ b
    <2>1. connection \in Sockets /\ Usable(connection) /\ Live(connection)
      BY <1>2 DEF Usable, Live, TypeOK
    <2> DEFINE s == said[connection]
               heard == IF n > 0 THEN WithAudio(s) ELSE s
               t == IF b THEN Append(heard, "bye") ELSE heard
    <2>2. /\ s \in Seq(Messages) /\ InOrder(s, hello) /\ NoBye(s)
          /\ hello = "valid" => s # <<>>
      BY <2>1, SocketAssumption DEF OrderInv, TypeOK
    <2>3. said' = [said EXCEPT ![connection] = t]
      BY <1>2, SMTT(30) DEF Say
    <2> HIDE DEF s
    <2>4. /\ heard \in Seq(Messages) /\ InOrder(heard, hello) /\ NoBye(heard)
          /\ hello = "valid" => heard # <<>>
          /\ n > 0 => heard # <<>>
      <3>1. CASE n > 0
        BY <2>2, <3>1, Flushed
      <3>2. CASE ~(n > 0)
        BY <2>2, <3>2
      <3> QED
        BY <3>1, <3>2
    <2> HIDE DEF heard
    <2>5. t # <<>> /\ InOrder(t, hello) /\ (~b => NoBye(t))
      <3>1. CASE b
        BY <2>4, <3>1, Spoken
      <3>2. CASE ~b
        BY <1>2, <2>4, <3>2
      <3> QED
        BY <3>1, <3>2
    <2> HIDE DEF t
    <2>6. said'[connection] = t /\ \A c \in Sockets \ {connection} : said'[c] = said[c]
      BY <2>1, <2>3 DEF TypeOK
    <2>7. \A c \in Sockets : Live(c)' <=> Live(c)
      BY Zenon DEF Live
    <2>8. ASSUME NEW c \in Sockets
          PROVE  InOrder(said'[c], hello') /\ (~Live(c)' => said'[c] = <<>>)
      <3>1. CASE c = connection
        BY <2>1, <2>5, <2>6, <2>7, <3>1, Zenon
      <3>2. CASE c # connection
        <4>1. said'[c] = said[c]
          BY <2>6, <3>2, Zenon
        <4> QED
          BY <2>7, <4>1, Zenon DEF OrderInv
      <3> QED
        BY <3>1, <3>2, Zenon
    <2>9. ~(n = 0 /\ ~b)
      BY <1>2
    <2> QED
      BY <2>5, <2>6, <2>8, <2>9, Zenon
  <1> QED
    BY <1>0, <1>1, <1>2, Zenon

\* Frames are flushed to a usable socket only.
LEMMA Flushes ==
  ASSUME NEW k, NEW n \in Flushable(k)
  PROVE  n \in Nat /\ (n = 0 \/ n > 0) /\ (n > 0 => Usable(connection))
  BY DEF Flushable

\* Every handler speaks in order.
LEMMA OrderStep == TypeOK /\ SafetyInv /\ OrderInv /\ [Next]_vars => OrderInv'
  <1> SUFFICES ASSUME TypeOK, SafetyInv, OrderInv, [Next]_vars PROVE OrderInv'
    BY Zenon
  <1> USE DEF OrderInv, Live, Usable, control, sockets, flags, texts, audio, owners
  <1>1. ASSUME NEW k \in Callers, Stop(k) PROVE OrderInv'
    BY <1>1, Zenon DEF Stop
  <1>2. ASSUME NEW k \in Callers, PostChecked(k) PROVE OrderInv'
    BY <1>2, Zenon DEF PostChecked
  <1>3. ASSUME NEW k \in Callers, NEW what \in Calls, CheckState(k, what) PROVE OrderInv'
    BY <1>3, Zenon DEF CheckState
  <1>4. CASE PushAudioCheck
    BY <1>4, Zenon DEF PushAudioCheck
  <1>5. CASE PushAudio
    BY <1>5, Zenon DEF PushAudio
  <1>6. CASE CloseMediaBug
    BY <1>6, Zenon DEF CloseMediaBug
  <1>7. CASE RunStart
    BY <1>7, Zenon DEF RunStart, TakePosted, Idle
  <1>8. CASE RunTeardown
    BY <1>8, TeardownRow, Zenon DEF RunTeardown, TakePosted, Idle, TypeOK
  <1>9. CASE DeliverText
    <2>1. /\ hello' = hello /\ connection' = connection /\ phase' = phase
          /\ closing' = closing /\ state' = state /\ todo' = todo /\ todo = "kNone"
      BY <1>9, Zenon DEF DeliverText, TakePosted, Idle
    <2>2. CASE said' = said
      BY <2>1, <2>2, Zenon
    <2>3. CASE said' # said
      <3>1. /\ state = "kActive" /\ connection \in Sockets /\ Usable(connection)
            /\ said' = [said EXCEPT ![connection] = Append(@, "text")]
        BY <1>9, <2>3, Zenon DEF DeliverText, QueueText, SendOrDrop, SendOutcomes, TypeOK
      <3> DEFINE s == said[connection]
      <3>2. /\ s \in Seq(Messages) /\ InOrder(s, hello) /\ NoBye(s)
            /\ hello = "valid" => s # <<>>
        BY <2>1, <3>1, SocketAssumption, Zenon DEF TypeOK
      <3>3. /\ Append(s, "text") # <<>> /\ InOrder(Append(s, "text"), hello)
            /\ NoBye(Append(s, "text"))
        BY <3>2, Spoken, Zenon
      <3>4. /\ said'[connection] = Append(s, "text")
            /\ \A c \in Sockets \ {connection} : said'[c] = said[c]
        BY <3>1, Zenon DEF TypeOK
      <3> HIDE DEF s
      <3> QED
        BY <2>1, <3>1, <3>3, <3>4, Zenon
    <2> QED
      BY <2>2, <2>3, Zenon
  <1>10. CASE ApplyModify
    <2>1. /\ hello' = hello /\ phase' = phase /\ state' = state /\ todo' = todo
          /\ todo = "kNone"
      BY <1>10, Zenon DEF ApplyModify, TakePosted, Idle
    <2>2. CASE Accepting(state) /\ connection # NoSocket
      <3>1. connection' = NoSocket /\ connection \in Sockets
        BY <1>10, <2>2, Zenon DEF ApplyModify, TypeOK
      <3>2. CASE said' = said
        BY <2>1, <3>1, <3>2, Zenon
      <3>3. CASE said' # said
        <4>1. /\ Usable(connection)
              /\ said' = [said EXCEPT ![connection] = Append(@, "bye")]
          BY <1>10, <2>2, <3>3, Zenon DEF ApplyModify, SendOutcomes
        <4> DEFINE s == said[connection]
        <4>2. /\ s \in Seq(Messages) /\ InOrder(s, hello) /\ NoBye(s)
              /\ hello = "valid" => s # <<>>
          BY <2>1, <2>2, <3>1, <4>1, Zenon DEF TypeOK, Accepting
        <4>3. InOrder(Append(s, "bye"), hello)
          BY <4>2, Spoken, Zenon
        <4>4. /\ said'[connection] = Append(s, "bye")
              /\ \A c \in Sockets \ {connection} : said'[c] = said[c]
          BY <3>1, <4>1, Zenon DEF TypeOK
        <4> HIDE DEF s
        <4> QED
          BY <2>1, <3>1, <4>1, <4>3, <4>4, Zenon
      <3> QED
        BY <3>2, <3>3, Zenon
    <2>3. CASE ~(Accepting(state) /\ connection # NoSocket)
      BY <1>10, <2>1, <2>3, Zenon DEF ApplyModify
    <2> QED
      BY <2>2, <2>3, Zenon
  <1>11. ASSUME NEW c \in Sockets, OnConnected(c) PROVE OrderInv'
    <2>1. todo = "kNone" /\ hello' = hello /\ said' = said /\ Live(c) /\ todo # "kBeginConnect"
      BY <1>11, Zenon DEF OnConnected, Callback, Idle
    <2>2. \A d \in Sockets : Live(d)' <=> Live(d)
      BY <1>11, <2>1, Zenon DEF OnConnected, TypeOK
    <2>3. CASE state = "kConnecting"
      <3>1. state' = "kActive" /\ todo' = "kNotifyConnected" /\ connection' = connection
        BY <1>11, <2>3, ConnectedStep, Zenon DEF TypeOK
      <3> QED
        BY <2>1, <2>2, <2>3, <3>1, Zenon
    <2>4. CASE state # "kConnecting"
      <3>1. connection' = NoSocket
        BY <1>11, <2>4, ConnectedStep, Zenon DEF AbandonSocket, TypeOK
      <3> QED
        BY <2>1, <2>2, <3>1, Zenon
    <2> QED
      BY <2>3, <2>4, Zenon
  <1>12. ASSUME NEW c \in Sockets, OnClosed(c) PROVE OrderInv'
    BY <1>12, NothingSaid, Zenon DEF OnClosed, ForgetSocket, TypeOK
  <1>13. ASSUME NEW c \in Sockets, OnDisconnect(c) PROVE OrderInv'
    BY <1>13, TeardownRow, Zenon DEF OnDisconnect, Callback, Idle, TypeOK
  <1>14. CASE RetryTimerFires
    BY <1>14, RetryRow, Zenon DEF RetryTimerFires, Idle, TypeOK
  <1>15. CASE DrainDeadlinePasses
    BY <1>15, Zenon DEF DrainDeadlinePasses
  <1>16. CASE Tick
    BY <1>16, Zenon DEF Tick, Idle
  <1>17. CASE RetireFinished
    BY <1>17, Zenon DEF RetireFinished
  <1>18. CASE HelloInvalid
    BY <1>18, TeardownRow, Zenon DEF HelloInvalid, SafetyInv, TodoFits, TypeOK
  <1>19. CASE HelloRefused
    BY <1>19, ErrorRow, Zenon DEF HelloRefused, HelloSent, SafetyInv, TodoFits, TypeOK
  <1>20. CASE Greet
    <2>1. /\ todo = "kNotifyConnected" /\ todo' = "Pump" /\ state = "kActive" /\ state' = state
          /\ hello' = hello /\ phase' = phase /\ closing' = closing /\ connection' = connection
          /\ connection \in Sockets /\ Live(connection) /\ connection # NoSocket
      BY <1>20, Zenon DEF Greet, HelloSent, SafetyInv, TodoFits, TypeOK
    <2>2. PICK r \in BOOLEAN, n \in Nat :
            said' = [said EXCEPT ![connection] = @ \o Greeting(r, n)]
      <3>1. PICK r \in (IF reconnecting /\ ~endpointChanged THEN BOOLEAN ELSE {FALSE}),
                 n \in 0..pendingTexts :
              said' = [said EXCEPT ![connection] = @ \o Greeting(r, n)]
        BY <1>20, Zenon DEF Greet
      <3>2. r \in BOOLEAN
        BY Zenon
      <3>3. n \in Nat
        BY DEF TypeOK
      <3> QED
        BY <3>1, <3>2, <3>3, Zenon
    <2> DEFINE t == <<>> \o Greeting(r, n)
    <2>3. /\ said'[connection] = t
          /\ \A c \in Sockets \ {connection} : said'[c] = said[c]
      BY <2>1, <2>2, Zenon DEF TypeOK
    <2>4. t # <<>> /\ InOrder(t, hello) /\ NoBye(t)
      BY Greeted, Zenon
    <2> HIDE DEF t
    <2> QED
      BY <2>1, <2>3, <2>4, Zenon
  <1>21. CASE ScheduleRetry
    BY <1>21, Zenon DEF ScheduleRetry, SafetyInv, TodoFits
  <1>22. CASE BeginConnect
    <2>1. /\ todo = "kBeginConnect" /\ state = "kConnecting"
          /\ hello' = hello /\ said' = said /\ closing' = closing
      BY <1>22, Zenon DEF BeginConnect, SafetyInv, TodoFits
    <2>2. ASSUME NEW c \in Sockets, ~Live(c), phase' = [phase EXCEPT ![c] = "connecting"],
                 connection' = c, todo' = "kNone", state' = state
          PROVE  OrderInv'
      BY <2>1, <2>2, NothingSaid, Zenon DEF TypeOK
    <2>3. ASSUME phase' = phase, connection' = NoSocket
          PROVE  OrderInv'
      BY <2>1, <2>3, Zenon
    <2> QED
      BY <1>22, <2>2, <2>3, Zenon DEF BeginConnect
  <1>23. CASE BeginDrain
    BY <1>23, CompletionRows, Zenon DEF BeginDrain, SafetyInv, TodoFits, TypeOK
  <1>24. CASE BeginClose
    BY <1>24, CompletionRows, Zenon DEF BeginClose, CloseConnection, SafetyInv, TodoFits, TypeOK
  <1>25. CASE Finalize
    BY <1>25, Zenon DEF Finalize
  <1>26. CASE Pump
    <2>1. /\ todo = "Pump" /\ hello' = hello /\ phase' = phase /\ closing' = closing
          /\ connection' = connection
      BY <1>26, Zenon DEF Pump
    <2>2. CASE state \notin {"kActive", "kDraining"}
      BY <1>26, <2>1, <2>2, Zenon DEF Pump
    <2>3. CASE state = "kActive"
      <3>1. PICK n \in Nat : (n = 0 \/ n > 0) /\ (n > 0 => Usable(connection)) /\ Say(n, FALSE)
        <4>1. PICK n \in Flushable(Smaller(buffer + ring, BufferFrames)) : Say(n, FALSE)
          BY <1>26, <2>3, Zenon DEF Pump
        <4>2. n \in Nat /\ (n = 0 \/ n > 0) /\ (n > 0 => Usable(connection))
          BY Flushes, Zenon
        <4> QED
          BY <4>1, <4>2, Zenon
      <3>2. state' = state /\ todo' = "kNone"
        BY <1>26, <2>3, Zenon DEF Pump
      <3>3. /\ \A c \in Sockets : InOrder(said'[c], hello') /\ (~Live(c)' => said'[c] = <<>>)
            /\ connection # NoSocket => NoBye(said'[connection])
            /\ n > 0 => said'[connection] # <<>>
            /\ n = 0 => said' = said
        BY <2>1, <2>3, <3>1, SaidInOrder, Zenon
      <3> QED
        BY <2>1, <2>3, <3>1, <3>2, <3>3, Zenon
    <2>4. CASE state = "kDraining"
      <3>1. PICK n \in Nat, b \in BOOLEAN :
              /\ n = 0 \/ n > 0
              /\ n > 0 \/ b => Usable(connection)
              /\ Say(n, b)
              /\ b => buffer' = 0 /\ byeSent'
        <4>1. PICK n \in Flushable(Smaller(buffer + ring, BufferFrames)) :
                \E b \in (IF buffer' = 0 /\ ~byeSent THEN SendOutcomes(connection) ELSE {FALSE}) :
                  Say(n, b) /\ byeSent' = (byeSent \/ b)
          BY <1>26, <2>4, Zenon DEF Pump
        <4>2. PICK b \in (IF buffer' = 0 /\ ~byeSent THEN SendOutcomes(connection) ELSE {FALSE}) :
                Say(n, b) /\ byeSent' = (byeSent \/ b)
          BY <4>1, Zenon
        <4>3. n \in Nat /\ (n = 0 \/ n > 0) /\ (n > 0 => Usable(connection))
          BY Flushes, Zenon
        <4>4. b \in BOOLEAN /\ (b => Usable(connection) /\ buffer' = 0)
          BY Zenon DEF SendOutcomes
        <4>5. b => byeSent'
          BY <4>2, <4>4, Zenon
        <4> QED
          BY <4>2, <4>3, <4>4, <4>5, Zenon
      <3>2. \/ state' = "kClosing" /\ todo' = "kBeginClose"
            \/ ~b /\ state' = state /\ todo' = "kNone"
        BY <1>26, <2>4, <3>1, CompletionRows, Zenon DEF Pump, TypeOK
      <3>3. /\ \A c \in Sockets : InOrder(said'[c], hello') /\ (~Live(c)' => said'[c] = <<>>)
            /\ connection # NoSocket /\ ~b => NoBye(said'[connection])
            /\ n > 0 \/ b => said'[connection] # <<>>
            /\ n = 0 /\ ~b => said' = said
        BY <2>1, <2>4, <3>1, SaidInOrder, Zenon
      <3> QED
        BY <2>1, <2>4, <3>1, <3>2, <3>3, Zenon
    <2> QED
      BY <2>2, <2>3, <2>4, Zenon
  <1>27. CASE UNCHANGED vars
    BY <1>27, Zenon DEF vars
  <1> QED
    BY <1>1, <1>2, <1>3, <1>4, <1>5, <1>6, <1>7, <1>8, <1>9, <1>10, <1>11, <1>12, <1>13,
       <1>14, <1>15, <1>16, <1>17, <1>18, <1>19, <1>20, <1>21, <1>22, <1>23, <1>24, <1>25,
       <1>26, <1>27, Zenon DEF Next, Apply, RunPosted, Terminated

\* On every socket the hello comes first and once, a resume only right after it,
\* and nothing after a bye, however texts, audio, modify, reconnects and late
\* handshakes interleave (Apply, ApplyModify, Pump, DeliverText,
\* fork_session.cpp:158-202, 288-361, 464-488).
THEOREM MessagesInOrder == Spec => []ProtocolOrder
  <1>1. Init => OrderInv
    BY NothingSaid DEF Init, OrderInv
  <1>2. TypeOK /\ SafetyInv /\ OrderInv /\ [Next]_vars => OrderInv'
    BY OrderStep
  <1>3. OrderInv => ProtocolOrder
    BY Zenon DEF OrderInv, InOrder, ProtocolOrder, HelloFirst
  <1> QED
    BY <1>1, <1>2, <1>3, Safe, PTL DEF Spec

-----------------------------------------------------------------------------
(* Counting texts.                                                         *)

\* The places of the texts in a queue of tasks.
TextsIn(s) == {i \in DOMAIN s : s[i] = "kText"}

\* The control threads whose SendText got through.
Texted == {k \in Callers : call[k] = "texted"}

\* There are finitely many texts in a queue.
LEMMA TextsFinite ==
  ASSUME NEW s \in Seq(Tasks)
  PROVE  IsFiniteSet(TextsIn(s)) /\ Cardinality(TextsIn(s)) \in Nat
  <1>1. DOMAIN s = 1..Len(s) /\ Len(s) \in Nat
    BY LenProperties
  <1>2. IsFiniteSet(1..Len(s))
    BY <1>1, FS_Interval
  <1>3. TextsIn(s) \in SUBSET (1..Len(s))
    BY <1>1 DEF TextsIn
  <1> QED
    BY <1>2, <1>3, FS_Subset, FS_CardinalityType

\* Posting a text adds one to them, posting anything else none.
LEMMA TextPosted ==
  ASSUME NEW s \in Seq(Tasks), NEW task \in Tasks
  PROVE  Cardinality(TextsIn(Append(s, task)))
           = Cardinality(TextsIn(s)) + (IF task = "kText" THEN 1 ELSE 0)
  <1> DEFINE t == Append(s, task)
  <1>1. DOMAIN s = 1..Len(s) /\ Len(s) \in Nat
    BY LenProperties
  <1>2. /\ t \in Seq(Tasks) /\ Len(t) = Len(s) + 1 /\ DOMAIN t = 1..(Len(s) + 1)
        /\ \A i \in 1..Len(s) : t[i] = s[i]
        /\ t[Len(s) + 1] = task
    BY AppendProperties, LenProperties
  <1>3. IsFiniteSet(TextsIn(s)) /\ Cardinality(TextsIn(s)) \in Nat
    BY TextsFinite
  <1> HIDE DEF t
  <1>4. CASE task = "kText"
    <2>1. TextsIn(t) = TextsIn(s) \cup {Len(s) + 1}
      BY <1>1, <1>2, <1>4 DEF TextsIn
    <2>2. Len(s) + 1 \notin TextsIn(s)
      BY <1>1 DEF TextsIn
    <2>3. Cardinality(TextsIn(t)) = Cardinality(TextsIn(s)) + 1
      BY <1>3, <2>1, <2>2, FS_AddElement, Zenon
    <2> QED
      BY <1>4, <2>3 DEF t
  <1>5. CASE task # "kText"
    <2>1. TextsIn(t) = TextsIn(s)
      BY <1>1, <1>2, <1>5 DEF TextsIn
    <2> QED
      BY <1>3, <1>5, <2>1 DEF t
  <1> QED
    BY <1>4, <1>5

\* Running a text takes one away, running anything else none.
LEMMA TextTaken ==
  ASSUME NEW s \in Seq(Tasks), s # <<>>
  PROVE  Cardinality(TextsIn(s))
           = Cardinality(TextsIn(Tail(s))) + (IF Head(s) = "kText" THEN 1 ELSE 0)
  <1> DEFINE t == Tail(s)
             rest == TextsIn(s) \ {1}
             f == [i \in TextsIn(t) |-> i + 1]
  <1>1. DOMAIN s = 1..Len(s) /\ Len(s) \in Nat /\ Len(s) # 0 /\ Head(s) = s[1]
    BY LenProperties, EmptySeq
  <1>2. /\ t \in Seq(Tasks) /\ Len(t) = Len(s) - 1 /\ DOMAIN t = 1..(Len(s) - 1)
        /\ \A i \in 1..(Len(s) - 1) : t[i] = s[i + 1]
    BY HeadTailProperties, LenProperties
  <1>3. /\ IsFiniteSet(TextsIn(s)) /\ Cardinality(TextsIn(s)) \in Nat
        /\ IsFiniteSet(TextsIn(t)) /\ Cardinality(TextsIn(t)) \in Nat
    BY <1>2, TextsFinite, Zenon
  <1> HIDE DEF t
  <1>4. \A i \in TextsIn(t) : i \in Nat /\ i + 1 \in rest
    BY <1>1, <1>2 DEF TextsIn
  <1>5. \A j \in rest : j - 1 \in TextsIn(t) /\ (j - 1) + 1 = j
    BY <1>1, <1>2 DEF TextsIn
  <1>6. f \in Bijection(TextsIn(t), rest)
    <2> HIDE DEF rest
    <2>1. f \in [TextsIn(t) -> rest]
      BY <1>4
    <2>2. \A i, j \in TextsIn(t) : f[i] = f[j] => i = j
      BY <1>4
    <2>3. \A j \in rest : \E i \in TextsIn(t) : f[i] = j
      BY <1>5
    <2> HIDE DEF f
    <2> QED
      BY <2>1, <2>2, <2>3, Fun_IsBij
  <1>7. Cardinality(rest) = Cardinality(TextsIn(t))
    BY <1>3, <1>6, FS_Bijection DEF ExistsBijection
  <1>8. Cardinality(rest) = IF 1 \in TextsIn(s) THEN Cardinality(TextsIn(s)) - 1
                            ELSE Cardinality(TextsIn(s))
    BY <1>3, FS_RemoveElement, Zenon
  <1>9. 1 \in TextsIn(s) <=> Head(s) = "kText"
    BY <1>1 DEF TextsIn
  <1> HIDE DEF rest
  <1> QED
    BY <1>3, <1>7, <1>8, <1>9 DEF t

\* TextsAccountedFor, in terms of these.
Accounted ==
  Cardinality(Texted) = textsSent + textsDropped + pendingTexts + Cardinality(TextsIn(posted))

\* A step that posts, or takes, no text and answers no SendText changes nothing.
LEMMA NoTextMoves ==
  ASSUME TypeOK, Accounted, UNCHANGED texts, Texted' = Texted,
         \/ posted' = posted
         \/ \E task \in Tasks \ {"kText"} : posted' = Append(posted, task)
         \/ posted # <<>> /\ Head(posted) # "kText" /\ posted' = Tail(posted)
  PROVE  Accounted'
  <1>1. posted \in Seq(Tasks) /\ Cardinality(TextsIn(posted)) \in Nat
    BY TextsFinite DEF TypeOK
  <1>2. Cardinality(TextsIn(posted')) = Cardinality(TextsIn(posted))
    <2>1. ASSUME NEW task \in Tasks \ {"kText"}, posted' = Append(posted, task)
          PROVE  Cardinality(TextsIn(posted')) = Cardinality(TextsIn(posted))
      BY <1>1, <2>1, TextPosted
    <2>2. ASSUME posted # <<>>, Head(posted) # "kText", posted' = Tail(posted)
          PROVE  Cardinality(TextsIn(posted')) = Cardinality(TextsIn(posted))
      <3>1. Cardinality(TextsIn(Tail(posted))) \in Nat
        BY <1>1, <2>2, HeadTailProperties, TextsFinite, Zenon
      <3> QED
        BY <1>1, <2>2, <3>1, TextTaken
    <2> QED
      BY <2>1, <2>2
  <1> QED
    BY <1>2, Zenon DEF Accounted, texts

\* Running a text task moves one text out of the queue: to the socket, to the
\* drops or to the pending texts.
LEMMA TextMovesOn ==
  ASSUME TypeOK, Accounted, call' = call, TakePosted("kText"),
         textsSent' + textsDropped' + pendingTexts'
           = textsSent + textsDropped + pendingTexts + 1
  PROVE  Accounted'
  <1>1. posted \in Seq(Tasks) /\ posted # <<>> /\ Head(posted) = "kText" /\ posted' = Tail(posted)
    BY DEF TypeOK, TakePosted
  <1>2. Cardinality(TextsIn(posted)) = Cardinality(TextsIn(posted')) + 1
    BY <1>1, TextTaken
  <1>3. Cardinality(TextsIn(posted')) \in Nat
    BY <1>1, HeadTailProperties, TextsFinite, Zenon
  <1>4. Texted' = Texted
    BY DEF Texted
  <1>5. textsSent \in Nat /\ textsDropped \in Nat /\ pendingTexts \in Nat
    BY SMTT(30) DEF TypeOK
  <1> QED
    BY <1>2, <1>3, <1>4, <1>5 DEF Accounted

\* Every handler keeps count.
LEMMA TextStep ==
  ASSUME IsFiniteSet(Callers)
  PROVE  TypeOK /\ Accounted /\ [Next]_vars => Accounted'
  <1> SUFFICES ASSUME TypeOK, Accounted, [Next]_vars PROVE Accounted'
    OBVIOUS
  <1> USE DEF control, sockets, flags, audio, owners
  <1>0. textsSent \in Nat /\ textsDropped \in Nat /\ pendingTexts \in Nat
    BY DEF TypeOK
  <1>u. ASSUME UNCHANGED <<call, posted, texts>> PROVE Accounted'
    BY <1>u, NoTextMoves DEF Texted
  <1>t. ASSUME NEW task \in Tasks \ {"kText"}, TakePosted(task), UNCHANGED <<call, texts>>
        PROVE  Accounted'
    BY <1>t, NoTextMoves DEF Texted, TakePosted
  <1>1. ASSUME NEW k \in Callers, Stop(k) PROVE Accounted'
    <2>1. Texted' = Texted
      BY <1>1 DEF Stop, Texted, TypeOK
    <2>2. "kTeardown" \in Tasks \ {"kText"}
      BY DEF Tasks
    <2> QED
      BY <1>1, <2>1, <2>2, NoTextMoves DEF Stop
  <1>2. ASSUME NEW k \in Callers, PostChecked(k) PROVE Accounted'
    <2>1. CASE call[k] = "kText"
      <3>1. Texted' = Texted \cup {k} /\ k \notin Texted
        BY <1>2, <2>1 DEF PostChecked, Texted, TypeOK
      <3>2. Texted \in SUBSET Callers
        BY DEF Texted
      <3>3. IsFiniteSet(Texted)
        BY <3>2, FS_Subset
      <3>4. Cardinality(Texted') = Cardinality(Texted) + 1
        BY <3>1, <3>3, FS_AddElement, Zenon
      <3>5. /\ posted' = Append(posted, "kText") /\ posted \in Seq(Tasks) /\ "kText" \in Tasks
            /\ UNCHANGED texts
        BY <1>2, <2>1 DEF PostChecked, TypeOK, Tasks
      <3>6. Cardinality(TextsIn(posted')) = Cardinality(TextsIn(posted)) + 1
        BY <3>5, TextPosted
      <3>7. Cardinality(TextsIn(posted)) \in Nat
        BY <3>5, TextsFinite
      <3> QED
        BY <1>0, <3>4, <3>5, <3>6, <3>7, SMTT(30) DEF Accounted, texts
    <2>2. CASE call[k] # "kText"
      <3>1. Texted' = Texted
        BY <1>2, <2>2 DEF PostChecked, Texted, TypeOK
      <3>2. call[k] \in Tasks \ {"kText"} /\ posted' = Append(posted, call[k]) /\ UNCHANGED texts
        BY <1>2, <2>2 DEF PostChecked, Tasks
      <3> QED
        BY <3>1, <3>2, NoTextMoves
    <2> QED
      BY <2>1, <2>2
  <1>3. ASSUME NEW k \in Callers, NEW what \in Calls, CheckState(k, what) PROVE Accounted'
    <2>1. Texted' = Texted
      BY <1>3, CallsAssumption DEF CheckState, Texted, TypeOK
    <2> QED
      BY <1>3, <2>1, NoTextMoves, Zenon DEF CheckState
  <1>4. CASE PushAudioCheck
    BY <1>4, <1>u DEF PushAudioCheck
  <1>5. CASE PushAudio
    BY <1>5, <1>u DEF PushAudio
  <1>6. CASE CloseMediaBug
    <2>1. "kTeardown" \in Tasks \ {"kText"}
      BY DEF Tasks
    <2>2. Texted' = Texted
      BY <1>6 DEF CloseMediaBug, Texted
    <2> QED
      BY <1>6, <2>1, <2>2, NoTextMoves DEF CloseMediaBug
  <1>7. CASE RunStart
    BY <1>7, <1>t DEF RunStart, Tasks
  <1>8. CASE RunTeardown
    BY <1>8, <1>t DEF RunTeardown, Tasks
  <1>9. CASE DeliverText
    <2>1. TakePosted("kText") /\ call' = call
      BY <1>9 DEF DeliverText
    <2>2. textsSent' + textsDropped' + pendingTexts' = textsSent + textsDropped + pendingTexts + 1
      <3>1. CASE SendOrDrop
        BY <1>0, <3>1 DEF SendOrDrop
      <3>2. CASE QueueText
        BY <1>0, <3>2, BoundsAssumption DEF QueueText, Smaller
      <3>3. CASE textsDropped' = textsDropped + 1 /\ UNCHANGED <<said, pendingTexts, textsSent>>
        BY <1>0, <3>3, SMTT(30)
      <3> QED
        BY <1>9, <3>1, <3>2, <3>3 DEF DeliverText
    <2> QED
      BY <2>1, <2>2, TextMovesOn
  <1>10. CASE ApplyModify
    BY <1>10, <1>t DEF ApplyModify, Tasks
  <1>11. ASSUME NEW c \in Sockets, OnConnected(c) PROVE Accounted'
    BY <1>11, <1>u DEF OnConnected
  <1>12. ASSUME NEW c \in Sockets, OnClosed(c) PROVE Accounted'
    BY <1>12, <1>u DEF OnClosed
  <1>13. ASSUME NEW c \in Sockets, OnDisconnect(c) PROVE Accounted'
    BY <1>13, <1>u DEF OnDisconnect
  <1>14. CASE RetryTimerFires
    BY <1>14, <1>u DEF RetryTimerFires
  <1>15. CASE DrainDeadlinePasses
    BY <1>15, <1>u DEF DrainDeadlinePasses
  <1>16. CASE Tick
    BY <1>16, <1>u DEF Tick
  <1>17. CASE RetireFinished
    BY <1>17, <1>u DEF RetireFinished
  <1>18. CASE HelloInvalid
    BY <1>18, <1>u DEF HelloInvalid
  <1>19. CASE HelloRefused
    BY <1>19, <1>u DEF HelloRefused
  <1>20. CASE Greet
    <2>1. Texted' = Texted /\ posted' = posted
      BY <1>20 DEF Greet, Texted
    <2>2. textsSent' + textsDropped' + pendingTexts' = textsSent + textsDropped + pendingTexts
      BY <1>0, <1>20 DEF Greet
    <2> QED
      BY <2>1, <2>2 DEF Accounted
  <1>21. CASE ScheduleRetry
    BY <1>21, <1>u DEF ScheduleRetry
  <1>22. CASE BeginConnect
    BY <1>22, <1>u DEF BeginConnect
  <1>23. CASE BeginDrain
    BY <1>23, <1>u DEF BeginDrain
  <1>24. CASE BeginClose
    BY <1>24, <1>u DEF BeginClose
  <1>25. CASE Finalize
    <2>1. Texted' = Texted /\ posted' = posted
      BY <1>25 DEF Finalize, Texted
    <2>2. textsSent' + textsDropped' + pendingTexts' = textsSent + textsDropped + pendingTexts
      BY <1>0, <1>25, SMTT(30) DEF Finalize
    <2> QED
      BY <2>1, <2>2 DEF Accounted
  <1>26. CASE Pump
    BY <1>26, <1>u, Zenon DEF Pump
  <1>27. CASE UNCHANGED vars
    BY <1>27, <1>u DEF vars
  <1> QED
    BY <1>1, <1>2, <1>3, <1>4, <1>5, <1>6, <1>7, <1>8, <1>9, <1>10, <1>11, <1>12, <1>13,
       <1>14, <1>15, <1>16, <1>17, <1>18, <1>19, <1>20, <1>21, <1>22, <1>23, <1>24, <1>25,
       <1>26, <1>27 DEF Next, Apply, RunPosted, Terminated

\* No text is lost or sent twice: each one SendText accepted is in the shard's
\* queue, pending, on a socket or counted as dropped, through reconnects,
\* overflow, modify and finalize (DeliverText, QueueText, FlushPendingTexts,
\* Finalize, fork_session.cpp:390-398, 464-507).
THEOREM TextsKept ==
  ASSUME IsFiniteSet(Callers)
  PROVE  Spec => []TextsAccountedFor
  <1>1. Init => Accounted
    <2> SUFFICES ASSUME Init PROVE Accounted
      OBVIOUS
    <2>1. Texted = {} /\ TextsIn(posted) = {}
      BY DEF Init, Texted, TextsIn
    <2>2. Cardinality(Texted) = 0 /\ Cardinality(TextsIn(posted)) = 0
      BY <2>1, FS_EmptySet
    <2> QED
      BY <2>2 DEF Init, Accounted
  <1>2. TypeOK /\ Accounted /\ [Next]_vars => Accounted'
    BY TextStep
  <1>3. Accounted => TextsAccountedFor
    BY DEF Accounted, TextsAccountedFor, Texted, TextsIn
  <1> QED
    BY <1>1, <1>2, <1>3, TypeCorrect, PTL DEF Spec
=============================================================================
