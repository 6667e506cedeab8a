---------------------------- MODULE ModuleShell ----------------------------
(***************************************************************************)
(* The FreeSWITCH side (module/mod_audio_fork.cpp), for one call: start    *)
(* and stop commands on control threads, the media bugs of the call and    *)
(* its hangup, the registry of forks, the finish callback that the shard   *)
(* threads run, and the unload of the module.                              *)
(*                                                                         *)
(* A fork's session is what ForkSession promises of it: it may end at any  *)
(* time, ends after a Stop, and calls on_finished_ when it does.           *)
(***************************************************************************)
EXTENDS Integers, FiniteSets

CONSTANTS Forks, maxForksPerCall

ASSUME MaxForksAssumption == maxForksPerCall \in Nat

VARIABLES
  start,     \* per fork: where the StartFork command that makes it is
  session,   \* per fork: "none", "running", "stopping" (Stop posted), "dead"
  onFinished,\* forks whose on_finished_ is set
  registry,  \* the call's forks
  bug,       \* per fork: "none", "attached", "closed"
  private,   \* forks whose bug the channel's kPrivateKey holds: at most one
  stopping,  \* the stop command in progress: "none", "snapshot", "stopped", "unhook", "unhooking"
  snapshot,  \* the forks it found
  hungUp,
  unload,    \* "no", "stopped", "cleared" (g_state is null), "joined"
  nullState, \* g_state was used when it was null, or a shard after it was destroyed
  hook,      \* OnRecvDtmf is a hook of the call
  hookKey,   \* the channel's kDtmfHookKey is set
  digit,     \* OnRecvDtmf in progress: "none", "checked", "found"
  overlapped \* history: a start has run alongside a stop

command == <<start, stopping, snapshot>>
call == <<bug, private, hungUp>>
dtmf == <<hook, hookKey, digit, overlapped>>
module == <<unload, nullState, dtmf>>
vars == <<command, session, onFinished, registry, call, module>>

InProgress == {"checked", "created", "watched", "attached", "private", "hooked"}

TypeOK ==
  /\ start \in [Forks -> {"idle", "failed", "started"} \cup InProgress]
  /\ session \in [Forks -> {"none", "running", "stopping", "dead"}]
  /\ {onFinished, registry, private, snapshot} \subseteq SUBSET Forks
  /\ bug \in [Forks -> {"none", "attached", "closed"}]
  /\ {hungUp, nullState, hook, hookKey, overlapped} \subseteq BOOLEAN
  /\ stopping \in {"none", "snapshot", "stopped", "unhook", "unhooking"}
  /\ digit \in {"none", "checked", "found"}
  /\ unload \in {"no", "stopped", "cleared", "joined"}

Init ==
  /\ start = [f \in Forks |-> "idle"] /\ session = [f \in Forks |-> "none"]
  /\ onFinished = {} /\ registry = {}
  /\ bug = [f \in Forks |-> "none"] /\ private = {}
  /\ stopping = "none" /\ snapshot = {} /\ hungUp = FALSE
  /\ unload = "no" /\ nullState = FALSE
  /\ hook = FALSE /\ hookKey = FALSE /\ digit = "none" /\ overlapped = FALSE

\* ForkSession::Stop of some forks: a teardown is posted to their shards.
Stop(forks) ==
  session' = [f \in Forks |-> IF f \in forks /\ session[f] = "running" THEN "stopping"
                              ELSE session[f]]

Goes(f, to) == start' = [start EXCEPT ![f] = to] /\ UNCHANGED <<stopping, snapshot>>

-----------------------------------------------------------------------------
(* StartFork, on a control thread.                                         *)

\* The check of the limit, under the registry's mutex.
CheckLimit(f) ==
  /\ unload = "no" /\ start[f] = "idle"
  /\ Goes(f, IF Cardinality(registry) >= maxForksPerCall THEN "failed" ELSE "checked")
  /\ overlapped' = (overlapped \/ stopping # "none")
  /\ UNCHANGED <<session, onFinished, registry, call, unload, nullState, hook, hookKey, digit>>

\* CanLease, then ShardPool::StartFork: from here on a shard runs the session.
CreateFork(f) ==
  /\ start[f] = "checked"
  /\ \/ Goes(f, "failed") /\ UNCHANGED session
     \/ Goes(f, "created") /\ session' = [session EXCEPT ![f] = "running"]
  /\ UNCHANGED <<onFinished, registry, call, module>>

\* set_on_finished comes after the session was handed to its shard.
Watch(f) ==
  /\ start[f] = "created" /\ Goes(f, "watched")
  /\ onFinished' = onFinished \cup {f}
  /\ UNCHANGED <<session, registry, call, module>>

\* Mutation of GiveUp: the error path returns without stopping the session.
GiveUpSilently(f) == Goes(f, "failed") /\ UNCHANGED session

\* The error paths after the session exists.
GiveUp(f) == Goes(f, "failed") /\ Stop({f})

\* The resampler and the media bug; FreeSWITCH refuses a bug after the hangup.
AttachBug(f) ==
  /\ start[f] = "watched"
  /\ \/ GiveUp(f) /\ UNCHANGED bug
     \/ /\ ~hungUp
        /\ Goes(f, "attached")
        /\ bug' = [bug EXCEPT ![f] = "attached"]
        /\ UNCHANGED session
  /\ UNCHANGED <<onFinished, registry, private, hungUp, module>>

\* The channel remembers the last bug.
SetPrivate(f) ==
  /\ start[f] = "attached" /\ Goes(f, "private")
  /\ private' = {f}
  /\ UNCHANGED <<session, onFinished, registry, bug, hungUp, module>>

\* One DTMF hook per channel, looked up by its key, then added and remembered;
\* FreeSWITCH refuses one the call already has.  One step: what others do
\* between lookup and addition they could do before or after.
InstallHook(f) ==
  /\ start[f] = "private" /\ Goes(f, "hooked")
  /\ hook' = (hook \/ ~hookKey) /\ hookKey' = (hookKey \/ ~hook)
  /\ UNCHANGED <<session, onFinished, registry, call, unload, nullState, digit, overlapped>>

Register(f) ==
  /\ start[f] = "hooked" /\ Goes(f, "started")
  /\ registry' = registry \cup {f}
  /\ UNCHANGED <<session, onFinished, call, module>>

StartFork(f) ==
  \/ CheckLimit(f) \/ CreateFork(f) \/ Watch(f) \/ AttachBug(f) \/ SetPrivate(f)
  \/ InstallHook(f) \/ Register(f)

-----------------------------------------------------------------------------
(* StopForks and the hangup.                                               *)

FindForks ==
  /\ unload = "no" /\ stopping = "none" /\ stopping' = "snapshot"
  /\ snapshot' = registry
  /\ overlapped' = (overlapped \/ \E f \in Forks : start[f] \in InProgress)
  /\ UNCHANGED <<start, session, onFinished, registry, call, unload, nullState, hook, hookKey, digit>>

StopFound ==
  /\ stopping = "snapshot" /\ stopping' = "stopped"
  /\ Stop(snapshot)
  /\ UNCHANGED <<start, snapshot, onFinished, registry, call, module>>

\* The bug the channel remembers is removed, which closes it.
RemoveBug ==
  /\ stopping = "stopped" /\ stopping' = "unhook" /\ snapshot' = {}
  /\ LET attached == {f \in private : bug[f] = "attached"}
     IN  /\ bug' = [f \in Forks |-> IF f \in attached THEN "closed" ELSE bug[f]]
         /\ Stop(attached)
  /\ private' = {}
  /\ UNCHANGED <<start, onFinished, registry, hungUp, module>>

\* Mutation of ForgottenKey: the key outlives the hook.
KeptKey == hookKey

ForgottenKey == FALSE

\* Then the hook goes, if the channel knows of one: first the key, then the hook.
ClearHookKey ==
  /\ stopping = "unhook" /\ stopping' = IF hookKey THEN "unhooking" ELSE "none"
  /\ hookKey' = ForgottenKey
  /\ UNCHANGED <<start, snapshot, session, onFinished, registry, call, unload, nullState, hook, digit,
                 overlapped>>

RemoveHook ==
  /\ stopping = "unhooking" /\ stopping' = "none"
  /\ hook' = FALSE
  /\ UNCHANGED <<start, snapshot, session, onFinished, registry, call, unload, nullState, hookKey, digit,
                 overlapped>>

StopForks == FindForks \/ StopFound \/ RemoveBug \/ ClearHookKey \/ RemoveHook

HangUp ==
  /\ ~hungUp /\ hungUp' = TRUE
  /\ UNCHANGED <<command, session, onFinished, registry, bug, private, module>>

\* Mutation of CloseStops: closing a bug only frees its state.
CloseStopsNothing(f) == UNCHANGED session

\* SWITCH_ABC_TYPE_CLOSE stops the fork.
CloseStops(f) == Stop({f})

\* FreeSWITCH closes every bug of a call that hung up.  Stop posts to the
\* session's shard, there or not.
CloseBug(f) ==
  /\ hungUp /\ bug[f] = "attached"
  /\ bug' = [bug EXCEPT ![f] = "closed"]
  /\ CloseStops(f)
  /\ nullState' = (nullState \/ unload = "joined")
  /\ UNCHANGED <<command, onFinished, registry, private, hungUp, unload, dtmf>>

-----------------------------------------------------------------------------
(* A shard thread: the session is finalized and ForgetFork runs if it was  *)
(* set by then.                                                            *)

SessionEnds(f) ==
  /\ session[f] \in {"running", "stopping"} /\ unload # "joined"
  /\ session' = [session EXCEPT ![f] = "dead"]
  /\ onFinished' = onFinished \ {f}
  /\ registry' = IF f \in onFinished THEN registry \ {f} ELSE registry
  /\ nullState' = (nullState \/ (f \in onFinished /\ unload = "cleared"))
  /\ UNCHANGED <<command, call, unload, dtmf>>

-----------------------------------------------------------------------------
(* mod_audio_fork_shutdown; FreeSWITCH lets no command run during it.      *)

StopAll ==
  /\ unload = "no" /\ unload' = "stopped"
  /\ stopping = "none" /\ \A f \in Forks : start[f] \notin InProgress
  /\ Stop(registry)
  /\ UNCHANGED <<command, onFinished, registry, call, nullState, dtmf>>

\* g_state is cleared before the shards are joined.
ClearState ==
  /\ unload = "stopped" /\ unload' = "cleared"
  /\ UNCHANGED <<command, session, onFinished, registry, call, nullState, dtmf>>

JoinShards ==
  /\ unload = "cleared" /\ unload' = "joined"
  /\ UNCHANGED <<command, session, onFinished, registry, call, nullState, dtmf>>

-----------------------------------------------------------------------------
(* OnRecvDtmf, on the call's thread, which an unload does not wait for.  A  *)
(* digit only reads, so it is explored from the unload on.                  *)

DigitArrives ==
  /\ hook /\ digit = "none" /\ unload = "stopped"
  /\ digit' = "checked"
  /\ UNCHANGED <<command, session, onFinished, registry, call, unload, nullState, hook, hookKey, overlapped>>

\* ForksFor, then SendDtmf to each fork, which posts to its shard.
DigitFinds ==
  /\ digit = "checked" /\ digit' = "found"
  /\ nullState' = (nullState \/ unload \in {"cleared", "joined"})
  /\ UNCHANGED <<command, session, onFinished, registry, call, unload, hook, hookKey, overlapped>>

DigitSends ==
  /\ digit = "found" /\ digit' = "none"
  /\ nullState' = (nullState \/ (registry # {} /\ unload = "joined"))
  /\ UNCHANGED <<command, session, onFinished, registry, call, unload, hook, hookKey, overlapped>>

Digit == DigitArrives \/ DigitFinds \/ DigitSends

Next ==
  \/ \E f \in Forks : StartFork(f) \/ CloseBug(f) \/ SessionEnds(f)
  \/ StopForks \/ HangUp \/ Digit
  \/ StopAll \/ ClearState \/ JoinShards

Spec == Init /\ [][Next]_vars

-----------------------------------------------------------------------------
\* A running session always has someone who will stop it: the command that is
\* starting it, its media bug, or the registry.  No error path of StartFork
\* and no order of stop, hangup and start loses the last of them.
NoOrphanSession ==
  \A f \in Forks :
    session[f] = "running" =>
      start[f] \in InProgress \/ bug[f] = "attached" \/ f \in registry

\* Caller DTMF reaches every fork of the channel (README.md:95): a registered
\* fork that runs has the hook, however starts, ends and stops of the call's
\* forks follow each other, as long as no start ran alongside a stop: if one
\* did, the stop may take away the hook that the start relies on.
DigitsReachForks ==
  ~overlapped => \A f \in registry : session[f] = "running" => hook

\* ... and also where a start did, once the commands are done.
DigitsAlwaysReachForks ==
  stopping = "none" /\ (\A f \in Forks : start[f] \notin InProgress) =>
    \A f \in registry : session[f] = "running" => hook

\* Live sessions return to 0 (DESIGN.md:183): what the status command counts as
\* forks of the call has not ended.
NoDeadForkRegistered == \A f \in registry : session[f] # "dead"

\* A call never has more than max-forks-per-call forks (DESIGN.md section 9).
LimitHolds == Cardinality(registry) <= maxForksPerCall

\* A callback arriving after teardown starts is never a dangling dereference
\* (DESIGN.md:115-116): the shards are gone before the state they use.
StateOutlivesShards == ~nullState
=============================================================================
