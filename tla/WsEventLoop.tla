---------------------------- MODULE WsEventLoop ----------------------------
(***************************************************************************)
(* The loop of one shard (net/src/ws_client.cpp): Run alternates between   *)
(* lws_service, the tasks other threads have posted and the timers that    *)
(* are due; Stop ends it.  Sockets are in WsConnection; here a service     *)
(* call wakes up for a cancel or a tick.                                   *)
(*                                                                         *)
(* A task is <<poster, n>>; running it schedules a timer, as a session     *)
(* that starts or loses its connection does, and a timer's task may        *)
(* schedule the next one.  timers_ grows at its end and is partitioned     *)
(* stably, so it is always in the order of the ids: a set stands for it.   *)
(***************************************************************************)
EXTENDS Integers, Sequences

CONSTANTS
  Posters,   \* threads that call Post
  MaxPosts,  \* posts per thread
  MaxTimers, \* timers scheduled in all
  MaxDelay,  \* longest delay of a timer
  MaxNow     \* bound on the clock

\* The thread that calls Stop.
Stopper == "stopper"

ASSUME LoopAssumption ==
  {MaxPosts, MaxTimers, MaxDelay, MaxNow} \subseteq Nat /\ Stopper \notin Posters

VARIABLES
  posted,     \* posted_
  calls,      \* posts each thread has made
  cancelling, \* threads in Post or Stop that have yet to call lws_cancel_service
  cancelled,  \* lws_cancel_service has been called since the last wake-up
  stop,       \* stop_
  pc,         \* where Run is
  then,       \* where the running DrainPosted or DrainDueTimers returns to
  running,    \* the tasks DrainPosted has taken out and not run yet
  ran,        \* the tasks run so far, in order
  timers, scheduled, fired,
  due,        \* the timers DrainDueTimers has taken out and not run yet
  now

posting == <<posted, calls, cancelling>>
timing == <<timers, scheduled, fired, due>>
loopVars == <<posting, cancelled, stop, pc, then, running, ran, timing, now>>

Tasks == Posters \X (1..MaxPosts)
Timer == [id : 1..MaxTimers, deadline : 0..(MaxNow + MaxDelay)]

LoopTypeOK ==
  /\ posted \in Seq(Tasks) /\ ran \in Seq(Tasks)
  /\ calls \in [Posters -> 0..MaxPosts] /\ cancelling \subseteq Posters \cup {Stopper}
  /\ {cancelled, stop} \subseteq BOOLEAN
  /\ pc \in {"check", "service", "tasks", "drain", "timers", "due", "exited"}
  /\ then \in {"check", "service", "drain", "timers"}
  /\ running \in Seq(Tasks)
  /\ timers \subseteq Timer /\ due \subseteq Timer /\ scheduled \in 0..MaxTimers /\ fired \subseteq 1..MaxTimers
  /\ now \in 0..MaxNow

LoopInit ==
  /\ posted = <<>> /\ calls = [p \in Posters |-> 0] /\ cancelling = {}
  /\ cancelled = FALSE /\ stop = FALSE
  /\ pc = "check" /\ then = "check" /\ running = <<>> /\ ran = <<>>
  /\ timers = {} /\ scheduled = 0 /\ fired = {} /\ due = {} /\ now = 0

-----------------------------------------------------------------------------
(* Other threads.                                                          *)

\* Post pushes under posted_mutex_ and cancels the wait after unlocking.
PostPush(p) ==
  /\ p \notin cancelling /\ calls[p] < MaxPosts
  /\ calls' = [calls EXCEPT ![p] = @ + 1]
  /\ posted' = Append(posted, <<p, calls[p] + 1>>)
  /\ cancelling' = cancelling \cup {p}
  /\ UNCHANGED <<cancelled, stop, pc, then, running, ran, timing, now>>

\* Stop stores the flag and then cancels the wait.
Stop ==
  /\ ~stop /\ stop' = TRUE
  /\ cancelling' = cancelling \cup {Stopper}
  /\ UNCHANGED <<posted, calls, cancelled, pc, then, running, ran, timing, now>>

\* Mutation of CancelService: the wait goes on.
CancelServiceNever(p) ==
  /\ p \in cancelling /\ cancelling' = cancelling \ {p}
  /\ UNCHANGED <<posted, calls, cancelled, stop, pc, then, running, ran, timing, now>>

\* The lws_cancel_service at the end of Post and of Stop.
CancelService(p) ==
  /\ p \in cancelling /\ cancelling' = cancelling \ {p}
  /\ cancelled' = TRUE
  /\ UNCHANGED <<posted, calls, stop, pc, then, running, ran, timing, now>>

TimePasses ==
  /\ now < MaxNow /\ now' = now + 1
  /\ UNCHANGED <<posting, cancelled, stop, pc, then, running, ran, timing>>

-----------------------------------------------------------------------------
(* The loop thread.                                                        *)

\* Run's loop condition.
Check ==
  /\ pc = "check" /\ pc' = IF stop THEN "exited" ELSE "service"
  /\ UNCHANGED <<posting, cancelled, stop, then, running, ran, timing, now>>

\* lws_service reports a cancel, and HandleLws drains the posted tasks.
WaitCancelled ==
  /\ pc = "service" /\ cancelled /\ cancelled' = FALSE
  /\ pc' = "drain" /\ then' = "service"
  /\ UNCHANGED <<posting, stop, running, ran, timing, now>>

\* lws_service runs the tick, which begins with the timers (OnTick).
OnTick ==
  /\ pc = "service" /\ pc' = "timers" /\ then' = "service"
  /\ UNCHANGED <<posting, cancelled, stop, running, ran, timing, now>>

\* lws_service returns when it has served something; DrainPosted is next.
ServiceReturns ==
  /\ pc = "service" /\ then = "service"
  /\ pc' = "drain" /\ then' = "timers"
  /\ UNCHANGED <<posting, cancelled, stop, running, ran, timing, now>>

\* What the swap leaves behind.
LeftPosted == <<>>

\* DrainPosted swaps the list out under the mutex.
DrainPosted ==
  /\ pc = "drain" /\ pc' = "tasks"
  /\ running' = posted
  /\ posted' = LeftPosted
  /\ UNCHANGED <<calls, cancelling, cancelled, stop, then, ran, timing, now>>

\* Where the loop goes on once a drain has come to its end.
AfterDrain ==
  /\ pc' = then
  /\ then' = IF then = "timers" THEN "check" ELSE then

\* ScheduleTimer, for a task that schedules one.
MaySchedule ==
  \/ UNCHANGED <<timers, scheduled>>
  \/ /\ scheduled < MaxTimers
     /\ scheduled' = scheduled + 1
     /\ \E delay \in 0..MaxDelay :
          timers' = timers \cup {[id |-> scheduled + 1, deadline |-> now + delay]}

RunTask ==
  /\ pc = "tasks" /\ running # <<>>
  /\ running' = Tail(running)
  /\ ran' = Append(ran, Head(running))
  /\ MaySchedule
  /\ UNCHANGED <<posting, cancelled, stop, pc, then, fired, due, now>>

TasksDone ==
  /\ pc = "tasks" /\ running = <<>>
  /\ AfterDrain
  /\ UNCHANGED <<posting, cancelled, stop, running, ran, timing, now>>

IsDue(timer) == timer.deadline <= now

\* Mutation of KeptTimers: due timers are run in place.
KeptTimersAll == timers

KeptTimers == {timer \in timers : ~IsDue(timer)}

\* DrainDueTimers moves the due timers out before it runs any.
DrainDueTimers ==
  /\ pc = "timers" /\ pc' = "due"
  /\ due' = {timer \in timers : IsDue(timer)}
  /\ timers' = KeptTimers
  /\ UNCHANGED <<posting, cancelled, stop, then, running, ran, scheduled, fired, now>>

FireTimer ==
  /\ pc = "due"
  /\ \E timer \in due :
       /\ \A other \in due : timer.id <= other.id
       /\ due' = due \ {timer}
       /\ fired' = fired \cup {timer.id}
  /\ MaySchedule
  /\ UNCHANGED <<posting, cancelled, stop, pc, then, running, ran, now>>

TimersDone ==
  /\ pc = "due" /\ due = {}
  /\ AfterDrain
  /\ UNCHANGED <<posting, cancelled, stop, running, ran, timing, now>>

\* What the loop thread does when it has something to do.
LoopStep ==
  \/ Check \/ WaitCancelled \/ ServiceReturns
  \/ DrainPosted \/ RunTask \/ TasksDone
  \/ DrainDueTimers \/ FireTimer \/ TimersDone

LoopNext ==
  \/ \E p \in Posters : PostPush(p)
  \/ \E p \in cancelling : CancelService(p)
  \/ Stop \/ TimePasses \/ OnTick \/ LoopStep

LoopSpec == LoopInit /\ [][LoopNext]_loopVars

\* The loop thread runs, lws_service returns after it has served an event, and
\* a thread that has begun a Post or a Stop ends it.  The tick is not counted
\* on: a loop that nothing wakes may stay in lws_service for ever.
LoopFairSpec ==
  /\ LoopSpec
  /\ WF_loopVars(LoopStep) /\ SF_loopVars(ServiceReturns)
  /\ \A p \in Posters \cup {Stopper} : WF_loopVars(CancelService(p))

-----------------------------------------------------------------------------
\* All the tasks there have been, in the order they run.
AllTasks == ran \o running \o posted

\* The tasks of a thread are those it has posted, in the order it posted them.
TasksInOrder ==
  /\ \A p \in Posters :
       {AllTasks[i][2] : i \in {j \in DOMAIN AllTasks : AllTasks[j][1] = p}} = 1..calls[p]
  /\ \A i, j \in DOMAIN AllTasks :
       i < j /\ AllTasks[i][1] = AllTasks[j][1] => AllTasks[i][2] < AllTasks[j][2]

Ids(set) == {timer.id : timer \in set}

\* A timer that was scheduled is pending, due or has fired, one of the three.
TimersApart ==
  /\ Ids(timers) \cup Ids(due) \cup fired = 1..scheduled
  /\ Ids(timers) \cap Ids(due) = {}
  /\ (Ids(timers) \cup Ids(due)) \cap fired = {}

\* Every posted task runs at most once and a thread's tasks run in the order it
\* posted them, so that a Start is never overtaken by the Stop of the same
\* thread; a timer is pending, due or has fired, exactly one of these, also when
\* a task schedules another while the due ones run (ws_client.cpp:213).
NothingLostOrRepeated == TasksInOrder /\ TimersApart

\* No wake-up is lost (Post, Stop): the cancel alone, without the tick's help,
\* sees to it that a posted task is taken out to run, unless the loop is stopped
\* first (a task posted after the last drain is lost with the loop), and that a
\* stopped loop ends, so that joining its thread cannot hang.
EveryWakeupCounts ==
  /\ posted # <<>> ~> posted = <<>> \/ stop
  /\ stop ~> pc = "exited"
=============================================================================
