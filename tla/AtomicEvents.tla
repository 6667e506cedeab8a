---------------------------- MODULE AtomicEvents ----------------------------
(***************************************************************************)
(* What SessionStateMachine::OnEvent promises to the threads that call it: *)
(* every call takes effect at one instant between its start and its        *)
(* return, and its result is what the transition table says of that        *)
(* instant.  This is the OnEvent that ForkSession is written with.         *)
(***************************************************************************)
EXTENDS SessionState

CONSTANT Threads

VARIABLES state, call

Idle == [status |-> "idle"]
Pending(e) == [status |-> "pending", event |-> e]
Done(action) == [status |-> "done", action |-> action]

Init == state = "kConnecting" /\ call = [t \in Threads |-> Idle]

Begin(t) ==
  /\ call[t] = Idle
  /\ \E e \in SessionEvents : call' = [call EXCEPT ![t] = Pending(e)]
  /\ UNCHANGED state

Effect(t) ==
  \E e \in SessionEvents :
    /\ call[t] = Pending(e)
    /\ state' = SessionTransitionFor(state, e).next
    /\ call' = [call EXCEPT ![t] = Done(SessionTransitionFor(state, e).action)]

Return(t) ==
  /\ \E action \in SessionActions : call[t] = Done(action)
  /\ call' = [call EXCEPT ![t] = Idle]
  /\ UNCHANGED state

Next == \E t \in Threads : Begin(t) \/ Effect(t) \/ Return(t)

Spec == Init /\ [][Next]_<<state, call>>
=============================================================================
