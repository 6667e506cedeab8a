---------------------------- MODULE SessionState ----------------------------
(***************************************************************************)
(* The pure transition table of a fork session                             *)
(* (core/include/audiofork/session_state.hpp): for a state and an event,   *)
(* the next state and the action the caller of OnEvent has to apply.  A    *)
(* row is a function of the event, one row per state.                      *)
(***************************************************************************)

SessionStates ==
  {"kConnecting", "kActive", "kReconnecting", "kDraining", "kClosing", "kDead"}

SessionEvents ==
  {"kWsConnected", "kWsError", "kTeardown", "kRetryTimerFired",
   "kDrainComplete", "kCloseComplete"}

SessionActions ==
  {"kNone", "kNotifyConnected", "kScheduleRetry", "kBeginConnect",
   "kBeginDrain", "kBeginClose", "kAbandonSocket", "kFinalize"}

To(next, action) == [next |-> next, action |-> action]

\* The events a row does not name leave the state alone and ask for nothing.
Ignoring(s) == [e \in SessionEvents |-> To(s, "kNone")]

FromConnecting ==
  [Ignoring("kConnecting") EXCEPT
     !["kWsConnected"] = To("kActive", "kNotifyConnected"),
     !["kWsError"]     = To("kReconnecting", "kScheduleRetry"),
     !["kTeardown"]    = To("kClosing", "kBeginClose")]

FromActive ==
  [Ignoring("kActive") EXCEPT
     !["kWsConnected"] = To("kActive", "kAbandonSocket"),
     !["kWsError"]     = To("kReconnecting", "kScheduleRetry"),
     !["kTeardown"]    = To("kDraining", "kBeginDrain")]

\* Mutation of FromReconnecting: a second error schedules a second retry.
FromReconnectingRearms ==
  [Ignoring("kReconnecting") EXCEPT
     !["kWsConnected"]     = To("kReconnecting", "kAbandonSocket"),
     !["kWsError"]         = To("kReconnecting", "kScheduleRetry"),
     !["kTeardown"]        = To("kDead", "kFinalize"),
     !["kRetryTimerFired"] = To("kConnecting", "kBeginConnect")]

FromReconnecting ==
  [Ignoring("kReconnecting") EXCEPT
     !["kWsConnected"]     = To("kReconnecting", "kAbandonSocket"),
     !["kTeardown"]        = To("kDead", "kFinalize"),
     !["kRetryTimerFired"] = To("kConnecting", "kBeginConnect")]

FromDraining ==
  [Ignoring("kDraining") EXCEPT
     !["kWsConnected"]   = To("kDraining", "kAbandonSocket"),
     !["kWsError"]       = To("kClosing", "kBeginClose"),
     !["kDrainComplete"] = To("kClosing", "kBeginClose")]

\* Mutation of FromClosing: the close of the socket is not taken as the end.
FromClosingDeaf ==
  [Ignoring("kClosing") EXCEPT
     !["kWsConnected"]   = To("kClosing", "kAbandonSocket"),
     !["kCloseComplete"] = To("kDead", "kFinalize")]

FromClosing ==
  [Ignoring("kClosing") EXCEPT
     !["kWsConnected"]   = To("kClosing", "kAbandonSocket"),
     !["kWsError"]       = To("kDead", "kFinalize"),
     !["kCloseComplete"] = To("kDead", "kFinalize")]

\* Mutation of FromDead: a second teardown finalizes a second time.
FromDeadTwice ==
  [Ignoring("kDead") EXCEPT
     !["kWsConnected"] = To("kDead", "kAbandonSocket"),
     !["kTeardown"]    = To("kDead", "kFinalize")]

\* Mutation of FromDead: a socket that fails late is retried.
FromDeadRetries ==
  [Ignoring("kDead") EXCEPT
     !["kWsConnected"] = To("kDead", "kAbandonSocket"),
     !["kWsError"]     = To("kDead", "kScheduleRetry")]

FromDead ==
  [Ignoring("kDead") EXCEPT !["kWsConnected"] = To("kDead", "kAbandonSocket")]

SessionTransitionFor(s, e) ==
  [kConnecting |-> FromConnecting, kActive |-> FromActive,
   kReconnecting |-> FromReconnecting, kDraining |-> FromDraining,
   kClosing |-> FromClosing, kDead |-> FromDead][s][e]

\* The states in which PushAudio, SendText and Modify let a caller in.
Accepting(s) == s \in {"kConnecting", "kActive", "kReconnecting"}
=============================================================================
