------------------------ MODULE SessionStateMachine ------------------------
(***************************************************************************)
(* SessionStateMachine (core/include/audiofork/session_state.hpp): threads *)
(* deliver events through a load and a weak compare-and-swap loop, each of *)
(* which is a step of its own.                                             *)
(***************************************************************************)
EXTENDS SessionState, Integers

CONSTANT Threads

VARIABLES
  state,  \* state_
  frame   \* per thread: where it is in OnEvent, with its argument and locals

vars == <<state, frame>>

Idle == [pc |-> "idle"]
AtLoad(e) == [pc |-> "load", event |-> e]
AtSwap(e, current) == [pc |-> "swap", event |-> e, current |-> current]
AtReturn(action) == [pc |-> "return", action |-> action]

Frames ==
  {Idle} \cup {AtLoad(e) : e \in SessionEvents}
  \cup {AtSwap(e, s) : e \in SessionEvents, s \in SessionStates}
  \cup {AtReturn(a) : a \in SessionActions}

TypeOK ==
  /\ state \in SessionStates
  /\ frame \in [Threads -> Frames]

Init ==
  /\ state = "kConnecting"
  /\ frame = [t \in Threads |-> Idle]

Begin(t) ==
  /\ frame[t] = Idle
  /\ \E e \in SessionEvents : frame' = [frame EXCEPT ![t] = AtLoad(e)]
  /\ UNCHANGED state

HandOut(t, action) == frame' = [frame EXCEPT ![t] = AtReturn(action)]

\* A read of the state, by the load or by a failed swap.  A transition that
\* stays in the state needs no swap and returns.
Read(t, e) ==
  /\ IF SessionTransitionFor(state, e).next = state
     THEN HandOut(t, SessionTransitionFor(state, e).action)
     ELSE frame' = [frame EXCEPT ![t] = AtSwap(e, state)]
  /\ UNCHANGED state

Load(t) == \E e \in SessionEvents : frame[t] = AtLoad(e) /\ Read(t, e)

\* Mutation of SwapSucceeds: a plain store in place of the swap.
StoreSucceeds(current) == TRUE

SwapSucceeds(current) == state = current

\* compare_exchange_weak succeeds on the state that was read; it may also fail
\* for no reason, and then reads the state again.
Swap(t) ==
  \E e \in SessionEvents, s \in SessionStates :
    /\ frame[t] = AtSwap(e, s)
    /\ \/ /\ SwapSucceeds(s)
          /\ state' = SessionTransitionFor(s, e).next
          /\ HandOut(t, SessionTransitionFor(s, e).action)
       \/ Read(t, e)

Return(t) ==
  /\ \E action \in SessionActions : frame[t] = AtReturn(action)
  /\ frame' = [frame EXCEPT ![t] = Idle]
  /\ UNCHANGED state

Next == \E t \in Threads : Begin(t) \/ Load(t) \/ Swap(t) \/ Return(t)

Spec == Init /\ [][Next]_vars

-----------------------------------------------------------------------------
\* A call that has not handed out its action yet is still pending; the table
\* decides at the read when no swap is needed, at the swap otherwise.
AbstractCall ==
  [t \in Threads |->
     IF frame[t].pc = "idle" THEN [status |-> "idle"]
     ELSE IF frame[t].pc = "return" THEN [status |-> "done", action |-> frame[t].action]
     ELSE [status |-> "pending", event |-> frame[t].event]]

Atomic == INSTANCE AtomicEvents WITH call <- AbstractCall

\* OnEvent is linearizable: load, retries and spurious failures included, it
\* behaves as one atomic step of the transition table.
ImplementsAtomicEvents == Atomic!Spec
=============================================================================
