----------------------------- MODULE ShardPool -----------------------------
(***************************************************************************)
(* The shards (net/src/shard_pool.cpp): every fork is pinned to the least  *)
(* loaded one, adopted by a task posted to its loop, pumped by its tick    *)
(* and dropped by the first tick that finds it dead.  The pool is started  *)
(* and destroyed in two phases.                                            *)
(*                                                                         *)
(* A fork is alive from the moment it is created until its session says    *)
(* kDead (ForkSession); its socket is a connection of the shard's loop,    *)
(* reached through an adapter the shard's port owns.                       *)
(***************************************************************************)
EXTENDS Integers, Sequences, FiniteSets

CONSTANTS Shards, Forks

VARIABLES
  context,   \* per shard: "none", "created", "destroyed" (the lws context)
  thread,    \* per shard: "none", "running", "joined"
  phase,     \* of the pool: "creating", "up", "stopping", "clearing", "gone"
  caller,    \* per fork: the StartFork call that makes it, between its steps
  pinned,    \* per fork: the shard chosen for it
  posted, sessions, load,  \* per shard: tasks to adopt, sessions_, load_
  dead,      \* forks whose session is kDead
  sockets,   \* forks with a live connection in their loop
  adapters,  \* forks whose adapter is owned by their shard's port
  danglingCall  \* lws called back into an adapter that no longer exists

life == <<context, thread, phase>>
placing == <<caller, pinned>>
work == <<posted, sessions, load, dead>>
net == <<sockets, adapters, danglingCall>>
vars == <<life, placing, work, net>>

None == "none"

TypeOK ==
  /\ context \in [Shards -> {"none", "created", "destroyed"}]
  /\ thread \in [Shards -> {"none", "running", "joined"}]
  /\ phase \in {"creating", "up", "stopping", "clearing", "gone"}
  /\ caller \in [Forks -> {"idle", "picked", "counted", "done"}]
  /\ pinned \in [Forks -> Shards \cup {None}]
  /\ posted \in [Shards -> Seq(Forks)] /\ sessions \in [Shards -> SUBSET Forks]
  /\ load \in [Shards -> Int]
  /\ {dead, sockets, adapters} \subseteq SUBSET Forks /\ danglingCall \in BOOLEAN

Init ==
  /\ context = [s \in Shards |-> "none"] /\ thread = [s \in Shards |-> "none"]
  /\ phase = "creating"
  /\ caller = [f \in Forks |-> "idle"] /\ pinned = [f \in Forks |-> None]
  /\ posted = [s \in Shards |-> <<>>] /\ sessions = [s \in Shards |-> {}]
  /\ load = [s \in Shards |-> 0] /\ dead = {}
  /\ sockets = {} /\ adapters = {} /\ danglingCall = FALSE

-----------------------------------------------------------------------------
(* ShardPool::Start and ~ShardPool, on the thread that loads the module.   *)

\* Shard::Create; a failure destroys the shards made so far.
CreateShard(s) ==
  /\ phase = "creating" /\ context[s] = "none"
  /\ \/ context' = [context EXCEPT ![s] = "created"] /\ UNCHANGED phase
     \/ phase' = "clearing" /\ UNCHANGED context
  /\ UNCHANGED <<thread, placing, work, net>>

\* Mutation of MayStart: a shard's thread starts as soon as its context exists.
MayStartAtOnce(s) == context[s] = "created"

\* Every context exists before any service thread starts.
MayStart(s) == \A r \in Shards : context[r] = "created"

StartThread(s) ==
  /\ phase = "creating" /\ MayStart(s) /\ thread[s] = "none"
  /\ thread' = [thread EXCEPT ![s] = "running"]
  /\ phase' = IF \A r \in Shards \ {s} : thread[r] = "running" THEN "up" ELSE phase
  /\ UNCHANGED <<context, placing, work, net>>

\* ~ShardPool begins once no StartFork is in progress.
Unload ==
  /\ phase = "up" /\ phase' = "stopping"
  /\ \A f \in Forks : caller[f] \in {"idle", "done"}
  /\ UNCHANGED <<context, thread, placing, work, net>>

StopThread(s) ==
  /\ phase = "stopping" /\ thread[s] = "running"
  /\ thread' = [thread EXCEPT ![s] = "joined"]
  /\ phase' = IF \A r \in Shards \ {s} : thread[r] # "running" THEN "clearing" ELSE phase
  /\ UNCHANGED <<context, placing, work, net>>

Of(s) == {f \in Forks : pinned[f] = s}

\* Destroying a Shard: its members go in reverse order, sessions_ and port_
\* with its adapters before loop_, whose context then closes what is open and
\* calls the adapters back.
DestroyShard(s) ==
  /\ phase = "clearing" /\ context[s] = "created"
  /\ context' = [context EXCEPT ![s] = "destroyed"]
  /\ sessions' = [sessions EXCEPT ![s] = {}] /\ posted' = [posted EXCEPT ![s] = <<>>]
  /\ adapters' = adapters \ Of(s)
  /\ sockets' = sockets \ Of(s)
  /\ danglingCall' = (danglingCall \/ sockets \cap Of(s) # {})
  /\ UNCHANGED <<thread, phase, placing, load, dead>>

Cleared ==
  /\ phase = "clearing" /\ \A s \in Shards : context[s] # "created"
  /\ phase' = "gone"
  /\ UNCHANGED <<context, thread, placing, work, net>>

-----------------------------------------------------------------------------
(* StartFork, on any control thread.                                       *)

\* LeastLoadedShard: the loads are read here and counted in the next step.
PickShard(f) ==
  /\ phase = "up" /\ caller[f] = "idle"
  /\ caller' = [caller EXCEPT ![f] = "picked"]
  /\ \E s \in Shards :
       /\ \A r \in Shards : load[s] <= load[r]
       /\ pinned' = [pinned EXCEPT ![f] = s]
  /\ UNCHANGED <<life, work, net>>

\* The session may not be made at all; otherwise Adopt counts it.
CountFork(f) ==
  /\ caller[f] = "picked"
  /\ \/ /\ caller' = [caller EXCEPT ![f] = "counted"]
        /\ load' = [load EXCEPT ![pinned[f]] = @ + 1]
        /\ UNCHANGED <<pinned, dead>>
     \/ /\ caller' = [caller EXCEPT ![f] = "done"]
        /\ pinned' = [pinned EXCEPT ![f] = None]
        /\ UNCHANGED <<load, dead>>
  /\ UNCHANGED <<life, posted, sessions, net>>

\* Adopt hops onto the loop thread.
PostAdopt(f) ==
  /\ caller[f] = "counted" /\ caller' = [caller EXCEPT ![f] = "done"]
  /\ posted' = [posted EXCEPT ![pinned[f]] = Append(@, f)]
  /\ UNCHANGED <<life, pinned, sessions, load, dead, net>>

-----------------------------------------------------------------------------
(* The shard threads.                                                      *)

\* The posted task: the session is owned by the shard and starts to connect.
RunAdopt(s) ==
  /\ thread[s] = "running" /\ posted[s] # <<>>
  /\ posted' = [posted EXCEPT ![s] = Tail(@)]
  /\ sessions' = [sessions EXCEPT ![s] = @ \cup {Head(posted[s])}]
  /\ sockets' = sockets \cup {Head(posted[s])}
  /\ adapters' = adapters \cup {Head(posted[s])}
  /\ UNCHANGED <<life, placing, load, dead, danglingCall>>

\* The connection ends and with it the session (a socket that outlives its
\* session is in ForkSession).
SessionDies(f) ==
  /\ f \notin dead /\ \E s \in Shards : f \in sessions[s] /\ thread[s] = "running"
  /\ dead' = dead \cup {f}
  /\ sockets' = sockets \ {f}
  /\ UNCHANGED <<life, placing, posted, sessions, load, adapters, danglingCall>>

\* Mutation of Dropped: every session found dead is subtracted as one.
DroppedOnce(finished) == IF finished = {} THEN 0 ELSE 1

Dropped(finished) == Cardinality(finished)

Finished(s) == sessions[s] \cap dead

\* Shard::Tick, after it has pumped: dead sessions go and are no longer counted.
Tick(s) ==
  /\ thread[s] = "running" /\ Finished(s) # {}
  /\ load' = [load EXCEPT ![s] = @ - Dropped(Finished(s))]
  /\ sessions' = [sessions EXCEPT ![s] = @ \ Finished(s)]
  /\ UNCHANGED <<life, placing, posted, dead, net>>

Next ==
  \/ \E s \in Shards : CreateShard(s) \/ StartThread(s) \/ StopThread(s) \/ DestroyShard(s)
  \/ Unload \/ Cleared
  \/ \E f \in Forks : PickShard(f) \/ CountFork(f) \/ PostAdopt(f) \/ SessionDies(f)
  \/ \E s \in Shards : RunAdopt(s) \/ Tick(s)

Spec == Init /\ [][Next]_vars

-----------------------------------------------------------------------------
\* load() counts, for every shard, the forks on their way to it and the ones
\* it owns, whichever thread changed it last: active_forks() is exact, and
\* never wraps below zero (Adopt, Tick).
LoadIsExact ==
  phase \in {"up", "stopping"} =>
    \A s \in Shards :
      load[s] = Len(posted[s]) + Cardinality(sessions[s])
                + Cardinality({f \in Of(s) : caller[f] = "counted"})

\* No lws context is created or destroyed while a service thread runs, the
\* lock-order deadlock the two-phase lifecycle rules out (shard_pool.hpp:39-44).
NoContextChangeWhileServing ==
  [][context' # context => \A s \in Shards : thread[s] # "running"]_vars

\* Adapters outlive their connection so late lws callbacks stay safe
\* (shard_pool.cpp:61-62).
AdaptersOutliveConnections == ~danglingCall

\* The shard drops a fork's adapters when its session finishes
\* (shard_pool.cpp:61-62).
AdaptersDroppedWithSession ==
  phase = "up" => \A f \in dead \ sockets : (\E s \in Shards : f \in sessions[s]) \/ f \notin adapters
=============================================================================
