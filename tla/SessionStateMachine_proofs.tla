--------------------- MODULE SessionStateMachine_proofs ---------------------
(***************************************************************************)
(* OnEvent is linearizable for any number of threads: the load, the weak   *)
(* compare-and-swap loop and its spurious failures implement the atomic    *)
(* OnEvent of AtomicEvents.                                                *)
(***************************************************************************)
EXTENDS SessionStateMachine, TLAPS

\* The table leads from states to states, and asks for actions it names.
LEMMA TableClosed ==
  ASSUME NEW s \in SessionStates, NEW e \in SessionEvents
  PROVE  /\ SessionTransitionFor(s, e).next \in SessionStates
         /\ SessionTransitionFor(s, e).action \in SessionActions
<1> USE DEF SessionEvents, SessionStates, SessionActions, Ignoring, To
<1>1. CASE s = "kConnecting"
  BY <1>1, SMTT(30) DEF SessionTransitionFor, FromConnecting
<1>2. CASE s = "kActive"
  BY <1>2, SMTT(30) DEF SessionTransitionFor, FromActive
<1>3. CASE s = "kReconnecting"
  BY <1>3, SMTT(30) DEF SessionTransitionFor, FromReconnecting
<1>4. CASE s = "kDraining"
  BY <1>4, SMTT(30) DEF SessionTransitionFor, FromDraining
<1>5. CASE s = "kClosing"
  BY <1>5, SMTT(30) DEF SessionTransitionFor, FromClosing
<1>6. CASE s = "kDead"
  BY <1>6, SMTT(30) DEF SessionTransitionFor, FromDead
<1> QED
  BY <1>1, <1>2, <1>3, <1>4, <1>5, <1>6 DEF SessionStates

\* The table the abstract specification uses is the table of the code.
LEMMA SameTable ==
  /\ Atomic!SessionEvents = SessionEvents
  /\ Atomic!SessionActions = SessionActions
  /\ \A s, e : Atomic!SessionTransitionFor(s, e) = SessionTransitionFor(s, e)
BY DEF SessionEvents, Atomic!SessionEvents, SessionActions, Atomic!SessionActions,
  SessionTransitionFor, FromConnecting, FromActive, FromReconnecting, FromDraining, FromClosing,
  FromDead, Ignoring, To,
  Atomic!SessionTransitionFor, Atomic!FromConnecting, Atomic!FromActive, Atomic!FromReconnecting,
  Atomic!FromDraining, Atomic!FromClosing, Atomic!FromDead, Atomic!Ignoring, Atomic!To

-----------------------------------------------------------------------------
\* Each place in the loop has its locals.
LEMMA FrameKinds ==
  /\ Idle \in Frames
  /\ \A e \in SessionEvents : AtLoad(e) \in Frames
  /\ \A e \in SessionEvents, s \in SessionStates : AtSwap(e, s) \in Frames
  /\ \A a \in SessionActions : AtReturn(a) \in Frames
BY DEF Frames

\* No thread is in OnEvent at first.
LEMMA InitTyped == Init => TypeOK
BY FrameKinds DEF Init, TypeOK, SessionStates

\* Every step keeps the types.
LEMMA NextTyped == TypeOK /\ [Next]_vars => TypeOK'
<1> SUFFICES ASSUME TypeOK, [Next]_vars PROVE TypeOK'
  OBVIOUS
<1>1. ASSUME NEW t \in Threads, Begin(t) PROVE TypeOK'
  BY <1>1, FrameKinds DEF Begin, TypeOK
<1>2. ASSUME NEW t \in Threads, NEW e \in SessionEvents, Read(t, e) PROVE TypeOK'
  BY <1>2, TableClosed, FrameKinds DEF Read, HandOut, TypeOK
<1>3. ASSUME NEW t \in Threads, Load(t) PROVE TypeOK'
  BY <1>2, <1>3 DEF Load
<1>4. ASSUME NEW t \in Threads, NEW e \in SessionEvents, NEW s \in SessionStates,
             state' = SessionTransitionFor(s, e).next,
             HandOut(t, SessionTransitionFor(s, e).action)
      PROVE  TypeOK'
  BY <1>4, TableClosed, FrameKinds DEF HandOut, TypeOK
<1>5. ASSUME NEW t \in Threads, Swap(t) PROVE TypeOK'
  BY <1>2, <1>4, <1>5 DEF Swap
<1>6. ASSUME NEW t \in Threads, Return(t) PROVE TypeOK'
  BY <1>6, FrameKinds DEF Return, TypeOK
<1>7. CASE UNCHANGED vars
  BY <1>7 DEF vars, TypeOK
<1> QED BY <1>1, <1>3, <1>5, <1>6, <1>7 DEF Next

\* The state is always one of the table's, and every thread in OnEvent holds the
\* locals that its place in the loop needs.
THEOREM Typed == Spec => []TypeOK
BY InitTyped, NextTyped, PTL DEF Spec

-----------------------------------------------------------------------------
\* What a frame stands for in the abstract specification.
LEMMA FrameAbstraction ==
  ASSUME NEW t \in Threads
  PROVE  /\ frame[t] = Idle => AbstractCall[t] = Atomic!Idle
         /\ \A e : frame[t] = AtLoad(e) => AbstractCall[t] = Atomic!Pending(e)
         /\ \A e, s : frame[t] = AtSwap(e, s) => AbstractCall[t] = Atomic!Pending(e)
         /\ \A a : frame[t] = AtReturn(a) => AbstractCall[t] = Atomic!Done(a)
BY DEF AbstractCall, Idle, AtLoad, AtSwap, AtReturn, Atomic!Idle, Atomic!Pending, Atomic!Done

\* A step that changes the frame of one thread changes its abstract call alone.
LEMMA OneCallMoves ==
  ASSUME NEW t \in Threads, \A u \in Threads : u # t => frame'[u] = frame[u]
  PROVE  AbstractCall' = [AbstractCall EXCEPT ![t] = AbstractCall'[t]]
<1>1. \A u \in Threads : u # t => AbstractCall'[u] = AbstractCall[u]
  BY DEF AbstractCall
<1>2. AbstractCall = [u \in Threads |-> AbstractCall[u]]
  BY DEF AbstractCall
<1>3. AbstractCall' = [u \in Threads |-> AbstractCall'[u]]
  BY DEF AbstractCall
<1> QED BY <1>1, <1>2, <1>3

\* A call begins in both.
LEMMA BeginImplements ==
  ASSUME TypeOK, NEW t \in Threads, Begin(t)
  PROVE  Atomic!Begin(t)
<1>1. PICK e \in SessionEvents : frame' = [frame EXCEPT ![t] = AtLoad(e)]
  BY Zenon DEF Begin
<1>2. frame'[t] = AtLoad(e) /\ \A u \in Threads : u # t => frame'[u] = frame[u]
  BY <1>1 DEF TypeOK
<1>3. AbstractCall[t] = Atomic!Idle /\ AbstractCall'[t] = Atomic!Pending(e)
  BY <1>2 DEF Begin, AbstractCall, Idle, AtLoad, Atomic!Idle, Atomic!Pending
<1>4. AbstractCall' = [AbstractCall EXCEPT ![t] = Atomic!Pending(e)]
  BY <1>2, <1>3, OneCallMoves
<1> QED BY <1>3, <1>4, SameTable, Zenon DEF Begin, Atomic!Begin

\* A call returns the same action in both.
LEMMA ReturnImplements ==
  ASSUME TypeOK, NEW t \in Threads, Return(t)
  PROVE  Atomic!Return(t)
<1>1. PICK a \in SessionActions : frame[t] = AtReturn(a)
  BY DEF Return
<1>2. frame'[t] = Idle /\ \A u \in Threads : u # t => frame'[u] = frame[u]
  BY DEF Return, TypeOK
<1>3. AbstractCall[t] = Atomic!Done(a) /\ AbstractCall'[t] = Atomic!Idle
  BY <1>1, <1>2 DEF AbstractCall, Idle, AtReturn, Atomic!Idle, Atomic!Done
<1>4. AbstractCall' = [AbstractCall EXCEPT ![t] = Atomic!Idle]
  BY <1>2, <1>3, OneCallMoves
<1> QED BY <1>3, <1>4, SameTable DEF Return, Atomic!Return

\* Handing out the action of the state a thread finds is the instant at which
\* its call takes effect: at the read if the state stays, at the swap otherwise.
LEMMA HandOutImplements ==
  ASSUME TypeOK, NEW t \in Threads, NEW e \in SessionEvents,
         AbstractCall[t] = Atomic!Pending(e),
         state' = SessionTransitionFor(state, e).next,
         HandOut(t, SessionTransitionFor(state, e).action)
  PROVE  Atomic!Effect(t)
<1>1. /\ frame'[t] = AtReturn(SessionTransitionFor(state, e).action)
      /\ \A u \in Threads : u # t => frame'[u] = frame[u]
  BY DEF HandOut, TypeOK
<1>2. AbstractCall'[t] = Atomic!Done(SessionTransitionFor(state, e).action)
  BY <1>1 DEF AbstractCall, AtReturn, Atomic!Done
<1>3. AbstractCall' =
        [AbstractCall EXCEPT ![t] = Atomic!Done(SessionTransitionFor(state, e).action)]
  BY <1>1, <1>2, OneCallMoves
<1> QED BY <1>3, SameTable, Zenon DEF Atomic!Effect

\* A read that finds a transition to make leaves the call pending.
LEMMA ReadImplements ==
  ASSUME TypeOK, NEW t \in Threads, NEW e \in SessionEvents,
         AbstractCall[t] = Atomic!Pending(e), Read(t, e)
  PROVE  Atomic!Effect(t) \/ UNCHANGED <<state, AbstractCall>>
<1>1. CASE SessionTransitionFor(state, e).next = state
  BY <1>1, HandOutImplements DEF Read
<1>2. CASE SessionTransitionFor(state, e).next # state
  <2>1. /\ frame'[t] = AtSwap(e, state)
        /\ \A u \in Threads : u # t => frame'[u] = frame[u]
    BY <1>2 DEF Read, TypeOK
  <2>2. AbstractCall'[t] = AbstractCall[t]
    BY <2>1 DEF AbstractCall, AtSwap, Atomic!Pending
  <2>3. AbstractCall' = AbstractCall
    BY <2>1, <2>2, OneCallMoves DEF AbstractCall
  <2> QED BY <2>3 DEF Read
<1> QED BY <1>1, <1>2

\* A load is the effect of an event that changes nothing, or no step.
LEMMA LoadImplements ==
  ASSUME TypeOK, NEW t \in Threads, Load(t)
  PROVE  Atomic!Effect(t) \/ UNCHANGED <<state, AbstractCall>>
BY FrameAbstraction, ReadImplements DEF Load

\* So is a compare-and-swap: its success is the effect.
LEMMA SwapImplements ==
  ASSUME TypeOK, NEW t \in Threads, Swap(t)
  PROVE  Atomic!Effect(t) \/ UNCHANGED <<state, AbstractCall>>
BY FrameAbstraction, ReadImplements, HandOutImplements DEF Swap, SwapSucceeds

\* Every step of the loop is a step of the atomic machine, or none.
LEMMA StepImplements ==
  TypeOK /\ [Next]_vars => [Atomic!Next]_<<state, AbstractCall>>
<1>1. CASE UNCHANGED vars
  BY <1>1 DEF vars, AbstractCall
<1> QED
  BY <1>1, BeginImplements, LoadImplements, SwapImplements, ReturnImplements DEF Next, Atomic!Next

\* Both begin in the same state.
LEMMA InitImplements == Init => Atomic!Init
BY DEF Init, Atomic!Init, AbstractCall, Idle, Atomic!Idle

\* OnEvent is linearizable, for any number of threads that deliver any events
\* in any order: the lock-free loop of load and weak compare-and-swap, with its
\* retries and spurious failures, behaves as one atomic step of the table.
THEOREM Linearizable == Spec => ImplementsAtomicEvents
BY InitImplements, StepImplements, Typed, PTL DEF Spec, ImplementsAtomicEvents, Atomic!Spec
=============================================================================
