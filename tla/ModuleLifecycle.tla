-------------------------- MODULE ModuleLifecycle --------------------------
(***************************************************************************)
(* The module and its shards together: ModuleShell's commands start forks  *)
(* on the shards of ShardPool, whose threads end the sessions and run the  *)
(* finish callbacks, and loading and unloading the module makes and        *)
(* destroys the shards.                                                    *)
(*                                                                         *)
(* Every step is a step of one of the two, or of both where one calls the  *)
(* other: ShardPool::StartFork, a session's end, and shards.reset().       *)
(***************************************************************************)
EXTENDS ModuleShell, Sequences

CONSTANT Shards

VARIABLES
  context, thread, phase, caller, pinned, posted, sessions, load, dead, sockets, adapters,
  danglingCall

Pool == INSTANCE ShardPool

shards ==
  <<context, thread, phase, caller, pinned, posted, sessions, load, dead, sockets, adapters,
    danglingCall>>
allVars == <<vars, shards>>

InitModule == Init /\ Pool!Init

-----------------------------------------------------------------------------
\* mod_audio_fork_load: ShardPool::Start; the commands exist once it is done.
Load ==
  /\ \E s \in Shards : Pool!CreateShard(s) \/ Pool!StartThread(s)
  /\ UNCHANGED vars

\* The first part of ShardPool::StartFork: a shard is picked and counts the fork.
Place(f) ==
  /\ start[f] = "checked"
  /\ Pool!PickShard(f) \/ (Pool!CountFork(f) /\ caller'[f] = "counted")
  /\ UNCHANGED vars

\* It ends with the session's hop to its shard; or CanLease, or the making of
\* the session, has failed.
Create(f) ==
  /\ CreateFork(f)
  /\ IF start'[f] = "created" THEN Pool!PostAdopt(f)
     ELSE \/ caller[f] = "idle" /\ UNCHANGED shards
          \/ Pool!CountFork(f) /\ caller'[f] = "done"

\* The other steps of a start command touch no shard.
Command(f) ==
  /\ phase = "up"
  /\ CheckLimit(f) \/ Watch(f) \/ AttachBug(f) \/ SetPrivate(f) \/ InstallHook(f) \/ Register(f)
  /\ UNCHANGED shards

Start(f) == Place(f) \/ Create(f) \/ Command(f)

\* Stop commands and the call's hangup.
Shell ==
  /\ phase = "up"
  /\ StopForks \/ HangUp \/ StopAll \/ ClearState
  /\ UNCHANGED shards

Close(f) == CloseBug(f) /\ UNCHANGED shards

\* A session is finalized on its shard's thread, which runs ForgetFork.
End(f) == SessionEnds(f) /\ Pool!SessionDies(f)

Adopt(s) == Pool!RunAdopt(s) /\ UNCHANGED vars
Tick(s) == Pool!Tick(s) /\ UNCHANGED vars

\* shards.reset(): the threads are joined one by one, then the shards go.  A
\* load that failed goes straight to the latter.
Reset ==
  \/ unload = "cleared" /\ Pool!Unload /\ UNCHANGED vars
  \/ \E s \in Shards :
       \/ Pool!StopThread(s) /\ IF phase' = "clearing" THEN JoinShards ELSE UNCHANGED vars
       \/ Pool!DestroyShard(s) /\ UNCHANGED vars
  \/ Pool!Cleared /\ UNCHANGED vars

NextModule ==
  \/ Load \/ Shell \/ Reset
  \/ \E f \in Forks : Start(f) \/ Close(f) \/ End(f)
  \/ \E s \in Shards : Adopt(s) \/ Tick(s)

SpecModule == InitModule /\ [][NextModule]_allVars

\* The fairness of the two: commands come to their end, bugs of a call that
\* hung up are closed, a stopped session ends, a shard adopts and ticks.
FairModule ==
  /\ SpecModule
  /\ \A f \in Forks :
       /\ WF_allVars(start[f] # "idle" /\ Start(f))
       /\ WF_allVars(Close(f))
       /\ WF_allVars(session[f] = "stopping" /\ End(f))
  /\ \A s \in Shards : WF_allVars(Adopt(s)) /\ WF_allVars(Tick(s))

-----------------------------------------------------------------------------
\* ShardPool's properties, in the company of the module's commands: every
\* shard's load_ counts its forks exactly (Adopt, Tick) ...
LoadIsExact == Pool!LoadIsExact

\* ... and no lws context is created or destroyed while any service thread
\* runs, also when the load fails half-way (shard_pool.hpp:39-44).
NoContextChangeWhileServing == Pool!NoContextChangeWhileServing

\* After a hangup in any state the counters return to zero and stay there
\* (DESIGN.md:183): whatever start, stop and failure were under way, every
\* session of the call ends and its shard drops it.
LoadReturnsToZero ==
  <>[](hungUp /\ unload = "no" => \A s \in Shards : load[s] = 0)
=============================================================================
