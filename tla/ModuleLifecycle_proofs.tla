----------------------- MODULE ModuleLifecycle_proofs -----------------------
(***************************************************************************)
(* The module and its shards, for any number of forks and of shards: no    *)
(* session is orphaned, caller digits reach every fork, every load_ is     *)
(* exact, and no lws context changes while a service thread runs.  Each is *)
(* proved of ModuleShell or of ShardPool alone and carried over to         *)
(* ModuleLifecycle, whose steps are steps of one of them or of both.       *)
(***************************************************************************)
EXTENDS ModuleLifecycle, FiniteSetTheorems, SequenceTheorems, TLAPS

\* Every step of the module is a step of its shell, or leaves the shell alone.
LEMMA ShellStep == [NextModule]_allVars => [Next]_vars
BY DEF NextModule, allVars, Load, Shell, Reset, Start, Place, Create, Command, Close, End, Adopt, Tick,
       Next, StartFork

\* Every step of the module is a step of its shards, or leaves them alone.
LEMMA PoolStep == [NextModule]_allVars => [Pool!Next]_(Pool!vars)
BY DEF NextModule, allVars, shards, Load, Shell, Reset, Start, Place, Create, Command, Close, End,
       Adopt, Tick, Pool!Next, Pool!vars, Pool!life, Pool!placing, Pool!work, Pool!net

\* The shards count with the same Cardinality as the rest.
LEMMA SameCardinality == \A S : Pool!Cardinality(S) = Cardinality(S)
BY DEF Pool!Cardinality, Cardinality, Pool!IsFiniteSet, IsFiniteSet

-----------------------------------------------------------------------------
(* The shell: commands, the call and its hangup, the unload.               *)

ShellTyped ==
  /\ start \in [Forks -> {"idle", "failed", "started"} \cup InProgress]
  /\ session \in [Forks -> {"none", "running", "stopping", "dead"}]
  /\ registry \subseteq Forks /\ snapshot \subseteq Forks
  /\ hook \in BOOLEAN /\ hookKey \in BOOLEAN /\ overlapped \in BOOLEAN

\* A session runs from CreateFork on; a fork whose start is done and whose
\* session runs is in the registry, where StopForks and the unload find it.
OwnedInv ==
  \A f \in Forks :
    /\ start[f] \in {"idle", "checked"} => session[f] = "none"
    /\ f \in registry => start[f] = "started"
    /\ session[f] = "running" => start[f] \in InProgress \/ f \in registry

\* As long as no start ran alongside a stop: the key and the hook agree except
\* while the stop removes the hook, and it removes the hook only after it has
\* stopped every fork of the call.
HookInv ==
  ~overlapped =>
    /\ stopping # "none" => \A f \in Forks : start[f] \notin InProgress
    /\ stopping # "unhooking" => hook = hookKey
    /\ stopping = "unhooking" => ~hookKey
    /\ stopping = "snapshot" => registry \subseteq snapshot
    /\ stopping \in {"stopped", "unhook", "unhooking"} => \A f \in registry : session[f] # "running"
    /\ \A f \in Forks : (start[f] = "hooked" \/ f \in registry) /\ session[f] = "running" => hook

ShellInv == ShellTyped /\ OwnedInv /\ HookInv

\* Every step of a command, callback or hook keeps the types.
LEMMA ShellTypedStep == ShellTyped /\ [Next]_vars => ShellTyped'
<1> SUFFICES ASSUME ShellTyped, [Next]_vars PROVE ShellTyped'
  OBVIOUS
<1> USE DEF ShellTyped, Goes, InProgress, command, call, dtmf, module
<1>1. ASSUME NEW f \in Forks, CheckLimit(f) PROVE ShellTyped'
  BY <1>1 DEF CheckLimit
<1>2. ASSUME NEW f \in Forks, CreateFork(f) PROVE ShellTyped'
  BY <1>2 DEF CreateFork
<1>3. ASSUME NEW f \in Forks, Watch(f) PROVE ShellTyped'
  BY <1>3 DEF Watch
<1>4. ASSUME NEW f \in Forks, AttachBug(f) PROVE ShellTyped'
  BY <1>4 DEF AttachBug, GiveUp, Stop
<1>5. ASSUME NEW f \in Forks, SetPrivate(f) PROVE ShellTyped'
  BY <1>5 DEF SetPrivate
<1>6. ASSUME NEW f \in Forks, InstallHook(f) PROVE ShellTyped'
  BY <1>6 DEF InstallHook
<1>7. ASSUME NEW f \in Forks, Register(f) PROVE ShellTyped'
  BY <1>7 DEF Register
<1>8. ASSUME NEW f \in Forks, CloseBug(f) PROVE ShellTyped'
  BY <1>8 DEF CloseBug, CloseStops, Stop
<1>9. ASSUME NEW f \in Forks, SessionEnds(f) PROVE ShellTyped'
  BY <1>9 DEF SessionEnds
<1>10. CASE FindForks
  BY <1>10 DEF FindForks
<1>11. CASE StopFound
  BY <1>11 DEF StopFound, Stop
<1>12. CASE RemoveBug
  BY <1>12 DEF RemoveBug, Stop
<1>13. CASE ClearHookKey
  BY <1>13, Zenon DEF ClearHookKey, ForgottenKey
<1>14. CASE RemoveHook
  BY <1>14, Zenon DEF RemoveHook
<1>15. CASE HangUp
  BY <1>15 DEF HangUp
<1>16. CASE DigitArrives
  BY <1>16 DEF DigitArrives
<1>17. CASE DigitFinds
  BY <1>17 DEF DigitFinds
<1>18. CASE DigitSends
  BY <1>18 DEF DigitSends
<1>19. CASE StopAll
  BY <1>19 DEF StopAll, Stop
<1>20. CASE ClearState
  BY <1>20 DEF ClearState
<1>21. CASE JoinShards
  BY <1>21 DEF JoinShards
<1>22. CASE UNCHANGED vars
  BY <1>22 DEF vars
<1> QED
  BY <1>1, <1>2, <1>3, <1>4, <1>5, <1>6, <1>7, <1>8, <1>9, <1>10, <1>11,
     <1>12, <1>13, <1>14, <1>15, <1>16, <1>17, <1>18, <1>19, <1>20, <1>21, <1>22
  DEF Next, StartFork, StopForks, Digit

\* Every step leaves a running session somebody who can stop it.
LEMMA OwnedStep == ShellTyped /\ OwnedInv /\ [Next]_vars => OwnedInv'
<1> SUFFICES ASSUME ShellTyped, OwnedInv, [Next]_vars PROVE OwnedInv'
  OBVIOUS
<1> USE DEF ShellTyped, OwnedInv, Goes, InProgress, command, call, dtmf, module
<1>1. ASSUME NEW f \in Forks, CheckLimit(f) PROVE OwnedInv'
  BY <1>1 DEF CheckLimit
<1>2. ASSUME NEW f \in Forks, CreateFork(f) PROVE OwnedInv'
  BY <1>2 DEF CreateFork
<1>3. ASSUME NEW f \in Forks, Watch(f) PROVE OwnedInv'
  BY <1>3 DEF Watch
<1>4. ASSUME NEW f \in Forks, AttachBug(f) PROVE OwnedInv'
  BY <1>4 DEF AttachBug, GiveUp, Stop
<1>5. ASSUME NEW f \in Forks, SetPrivate(f) PROVE OwnedInv'
  BY <1>5 DEF SetPrivate
<1>6. ASSUME NEW f \in Forks, InstallHook(f) PROVE OwnedInv'
  BY <1>6 DEF InstallHook
<1>7. ASSUME NEW f \in Forks, Register(f) PROVE OwnedInv'
  BY <1>7 DEF Register
<1>8. ASSUME NEW f \in Forks, CloseBug(f) PROVE OwnedInv'
  BY <1>8 DEF CloseBug, CloseStops, Stop
<1>9. ASSUME NEW f \in Forks, SessionEnds(f) PROVE OwnedInv'
  BY <1>9 DEF SessionEnds
<1>10. CASE FindForks
  BY <1>10 DEF FindForks
<1>11. CASE StopFound
  BY <1>11 DEF StopFound, Stop
<1>12. CASE RemoveBug
  BY <1>12 DEF RemoveBug, Stop
<1>13. CASE ClearHookKey
  BY <1>13 DEF ClearHookKey, ForgottenKey
<1>14. CASE RemoveHook
  BY <1>14 DEF RemoveHook
<1>15. CASE HangUp
  BY <1>15 DEF HangUp
<1>16. CASE DigitArrives
  BY <1>16 DEF DigitArrives
<1>17. CASE DigitFinds
  BY <1>17 DEF DigitFinds
<1>18. CASE DigitSends
  BY <1>18 DEF DigitSends
<1>19. CASE StopAll
  BY <1>19 DEF StopAll, Stop
<1>20. CASE ClearState
  BY <1>20 DEF ClearState
<1>21. CASE JoinShards
  BY <1>21 DEF JoinShards
<1>22. CASE UNCHANGED vars
  BY <1>22 DEF vars
<1> QED
  BY <1>1, <1>2, <1>3, <1>4, <1>5, <1>6, <1>7, <1>8, <1>9, <1>10, <1>11,
     <1>12, <1>13, <1>14, <1>15, <1>16, <1>17, <1>18, <1>19, <1>20, <1>21, <1>22
  DEF Next, StartFork, StopForks, Digit

\* Every step keeps the DTMF hook in place for the registered forks.
LEMMA HookStep == ShellTyped /\ OwnedInv /\ HookInv /\ [Next]_vars => HookInv'
<1> SUFFICES ASSUME ShellTyped, OwnedInv, HookInv, [Next]_vars PROVE HookInv'
  OBVIOUS
<1> USE DEF ShellTyped, OwnedInv, HookInv, Goes, InProgress, command, call, dtmf, module
<1>1. ASSUME NEW f \in Forks, CheckLimit(f) PROVE HookInv'
  BY <1>1, Zenon DEF CheckLimit
<1>2. ASSUME NEW f \in Forks, CreateFork(f) PROVE HookInv'
  BY <1>2 DEF CreateFork
<1>3. ASSUME NEW f \in Forks, Watch(f) PROVE HookInv'
  BY <1>3 DEF Watch
<1>4. ASSUME NEW f \in Forks, AttachBug(f) PROVE HookInv'
  BY <1>4 DEF AttachBug, GiveUp, Stop
<1>5. ASSUME NEW f \in Forks, SetPrivate(f) PROVE HookInv'
  BY <1>5 DEF SetPrivate
<1>6. ASSUME NEW f \in Forks, InstallHook(f) PROVE HookInv'
  BY <1>6, Zenon DEF InstallHook
<1>7. ASSUME NEW f \in Forks, Register(f) PROVE HookInv'
  BY <1>7 DEF Register
<1>8. ASSUME NEW f \in Forks, CloseBug(f) PROVE HookInv'
  BY <1>8 DEF CloseBug, CloseStops, Stop
<1>9. ASSUME NEW f \in Forks, SessionEnds(f) PROVE HookInv'
  BY <1>9 DEF SessionEnds
<1>10. CASE FindForks
  BY <1>10, Zenon DEF FindForks
<1>11. CASE StopFound
  BY <1>11 DEF StopFound, Stop
<1>12. CASE RemoveBug
  BY <1>12 DEF RemoveBug, Stop
<1>13. CASE ClearHookKey
  BY <1>13, Zenon DEF ClearHookKey, ForgottenKey
<1>14. CASE RemoveHook
  BY <1>14, Zenon DEF RemoveHook
<1>15. CASE HangUp
  BY <1>15 DEF HangUp
<1>16. CASE DigitArrives
  BY <1>16, Zenon DEF DigitArrives
<1>17. CASE DigitFinds
  BY <1>17 DEF DigitFinds
<1>18. CASE DigitSends
  BY <1>18 DEF DigitSends
<1>19. CASE StopAll
  BY <1>19 DEF StopAll, Stop
<1>20. CASE ClearState
  BY <1>20 DEF ClearState
<1>21. CASE JoinShards
  BY <1>21 DEF JoinShards
<1>22. CASE UNCHANGED vars
  BY <1>22 DEF vars
<1> QED
  BY <1>1, <1>2, <1>3, <1>4, <1>5, <1>6, <1>7, <1>8, <1>9, <1>10, <1>11,
     <1>12, <1>13, <1>14, <1>15, <1>16, <1>17, <1>18, <1>19, <1>20, <1>21, <1>22, Zenon
  DEF Next, StartFork, StopForks, Digit

\* The shell begins with no fork.
LEMMA ShellInitially == Init => ShellInv
BY Zenon DEF Init, ShellInv, ShellTyped, OwnedInv, HookInv, InProgress

\* Every step of the shell keeps its invariant.
LEMMA ShellInvStep == ShellInv /\ [Next]_vars => ShellInv'
BY ShellTypedStep, OwnedStep, HookStep DEF ShellInv

\* The invariant of the shell, in the company of the shards.
THEOREM ShellInvariant == SpecModule => []ShellInv
<1>1. InitModule => ShellInv
  BY ShellInitially DEF InitModule
<1>2. ShellInv /\ [NextModule]_allVars => ShellInv'
  BY ShellInvStep, ShellStep
<1> QED BY <1>1, <1>2, PTL DEF SpecModule

\* Whatever error paths, stops, hangups and ends interleave with the starts of
\* any number of forks, a running session has the command that is starting it,
\* its media bug or the registry to stop it
\* (StartFork, StopForks, OnMediaBug, ForgetFork).
THEOREM NoSessionOrphaned == SpecModule => []NoOrphanSession
<1>1. ShellInv => NoOrphanSession
  BY DEF ShellInv, OwnedInv, NoOrphanSession
<1> QED BY <1>1, ShellInvariant, PTL

\* Caller DTMF reaches every registered fork that runs, for any number of forks
\* and any sequence of starts, ends and stops, as long as no start ran alongside
\* a stop (StartFork, StopForks, OnRecvDtmf).
THEOREM DigitsReach == SpecModule => []DigitsReachForks
<1>1. ShellInv => DigitsReachForks
  BY DEF ShellInv, ShellTyped, HookInv, DigitsReachForks
<1> QED BY <1>1, ShellInvariant, PTL

-----------------------------------------------------------------------------
(* The shards.                                                             *)

Counted(s) == {f \in Forks : pinned[f] = s /\ caller[f] = "counted"}

\* A fork is posted to, and then owned by, the shard it is pinned to, once.
PlacedInv ==
  /\ caller \in [Forks -> {"idle", "picked", "counted", "done"}]
  /\ pinned \in [Forks -> Shards \cup {Pool!None}]
  /\ posted \in [Shards -> Seq(Forks)] /\ sessions \in [Shards -> SUBSET Forks]
  /\ \A f \in Forks : caller[f] \in {"picked", "counted"} => pinned[f] \in Shards
  /\ \A s \in Shards :
       /\ \A f \in sessions[s] : caller[f] = "done"
       /\ \A i \in 1..Len(posted[s]) : caller[posted[s][i]] = "done" /\ posted[s][i] \notin sessions[s]
       /\ \A i, j \in 1..Len(posted[s]) : i # j => posted[s][i] # posted[s][j]

\* load_ counts the forks on their way to a shard and the ones it owns.
LoadInv ==
  /\ load \in [Shards -> Int]
  /\ \A s \in Shards : IsFiniteSet(sessions[s]) /\ IsFiniteSet(Counted(s))
  /\ phase \notin {"clearing", "gone"} =>
       \A s \in Shards :
         load[s] = Len(posted[s]) + Cardinality(sessions[s]) + Cardinality(Counted(s))

\* Threads run only while every context exists and none is destroyed.
PhaseInv ==
  /\ context \in [Shards -> {"none", "created", "destroyed"}]
  /\ thread \in [Shards -> {"none", "running", "joined"}]
  /\ phase \in {"creating", "up", "stopping", "clearing", "gone"}
  /\ phase = "creating" /\ (\E s \in Shards : thread[s] = "running") =>
       \A s \in Shards : context[s] = "created"
  /\ phase \in {"clearing", "gone"} => \A s \in Shards : thread[s] # "running"

\* The shards begin unstarted.
LEMMA PhaseInitially == Pool!Init => PhaseInv
BY DEF Pool!Init, PhaseInv

\* Every step keeps contexts and threads in step with the phase of the pool.
LEMMA PhaseStep == PhaseInv /\ [Pool!Next]_(Pool!vars) => PhaseInv'
<1> SUFFICES ASSUME PhaseInv, [Pool!Next]_(Pool!vars) PROVE PhaseInv'
  OBVIOUS
<1> USE DEF PhaseInv, Pool!MayStart, Pool!life, Pool!placing, Pool!work, Pool!net
<1>1. ASSUME NEW s \in Shards, Pool!CreateShard(s) PROVE PhaseInv'
  BY <1>1 DEF Pool!CreateShard
<1>2. ASSUME NEW s \in Shards, Pool!StartThread(s) PROVE PhaseInv'
  BY <1>2 DEF Pool!StartThread
<1>3. ASSUME NEW s \in Shards, Pool!StopThread(s) PROVE PhaseInv'
  BY <1>3 DEF Pool!StopThread
<1>4. ASSUME NEW s \in Shards, Pool!DestroyShard(s) PROVE PhaseInv'
  BY <1>4 DEF Pool!DestroyShard
<1>5. ASSUME NEW f \in Forks, Pool!PickShard(f) PROVE PhaseInv'
  BY <1>5 DEF Pool!PickShard
<1>6. ASSUME NEW f \in Forks, Pool!CountFork(f) PROVE PhaseInv'
  BY <1>6 DEF Pool!CountFork
<1>7. ASSUME NEW f \in Forks, Pool!PostAdopt(f) PROVE PhaseInv'
  BY <1>7 DEF Pool!PostAdopt
<1>8. ASSUME NEW f \in Forks, Pool!SessionDies(f) PROVE PhaseInv'
  BY <1>8 DEF Pool!SessionDies
<1>9. ASSUME NEW s \in Shards, Pool!RunAdopt(s) PROVE PhaseInv'
  BY <1>9 DEF Pool!RunAdopt
<1>10. ASSUME NEW s \in Shards, Pool!Tick(s) PROVE PhaseInv'
  BY <1>10 DEF Pool!Tick
<1>11. CASE Pool!Unload
  BY <1>11 DEF Pool!Unload
<1>12. CASE Pool!Cleared
  BY <1>12 DEF Pool!Cleared
<1>13. CASE UNCHANGED Pool!vars
  BY <1>13 DEF Pool!vars
<1> QED
  BY <1>1, <1>2, <1>3, <1>4, <1>5, <1>6, <1>7, <1>8, <1>9, <1>10, <1>11, <1>12, <1>13 DEF Pool!Next

\* At first no fork is anywhere.
LEMMA PlacedInitially == Pool!Init => PlacedInv
BY EmptySeq DEF Pool!Init, PlacedInv

\* Every step keeps a fork in one place of one shard.
LEMMA PlacedStep == PlacedInv /\ [Pool!Next]_(Pool!vars) => PlacedInv'
<1> SUFFICES ASSUME PlacedInv, [Pool!Next]_(Pool!vars) PROVE PlacedInv'
  OBVIOUS
<1> USE DEF PlacedInv, Pool!life, Pool!placing, Pool!work, Pool!net
<1>1. ASSUME NEW s \in Shards, Pool!CreateShard(s) PROVE PlacedInv'
  BY <1>1 DEF Pool!CreateShard
<1>2. ASSUME NEW s \in Shards, Pool!StartThread(s) PROVE PlacedInv'
  BY <1>2 DEF Pool!StartThread
<1>3. ASSUME NEW s \in Shards, Pool!StopThread(s) PROVE PlacedInv'
  BY <1>3 DEF Pool!StopThread
<1>4. ASSUME NEW s \in Shards, Pool!DestroyShard(s) PROVE PlacedInv'
  BY <1>4 DEF Pool!DestroyShard
<1>5. ASSUME NEW f \in Forks, Pool!PickShard(f) PROVE PlacedInv'
  BY <1>5 DEF Pool!PickShard
<1>6. ASSUME NEW f \in Forks, Pool!CountFork(f) PROVE PlacedInv'
  <2>1. CASE caller' = [caller EXCEPT ![f] = "counted"] /\ UNCHANGED pinned
    BY <1>6, <2>1 DEF Pool!CountFork
  <2>2. CASE caller' = [caller EXCEPT ![f] = "done"] /\ pinned' = [pinned EXCEPT ![f] = Pool!None]
    BY <1>6, <2>2 DEF Pool!CountFork
  <2> QED BY <1>6, <2>1, <2>2 DEF Pool!CountFork
<1>7. ASSUME NEW f \in Forks, Pool!PostAdopt(f) PROVE PlacedInv'
  BY <1>7 DEF Pool!PostAdopt
<1>8. ASSUME NEW f \in Forks, Pool!SessionDies(f) PROVE PlacedInv'
  BY <1>8 DEF Pool!SessionDies
<1>9. ASSUME NEW s \in Shards, Pool!RunAdopt(s) PROVE PlacedInv'
  BY <1>9 DEF Pool!RunAdopt
<1>10. ASSUME NEW s \in Shards, Pool!Tick(s) PROVE PlacedInv'
  BY <1>10 DEF Pool!Tick
<1>11. CASE Pool!Unload
  BY <1>11 DEF Pool!Unload
<1>12. CASE Pool!Cleared
  BY <1>12 DEF Pool!Cleared
<1>13. CASE UNCHANGED Pool!vars
  BY <1>13 DEF Pool!vars
<1> QED
  BY <1>1, <1>2, <1>3, <1>4, <1>5, <1>6, <1>7, <1>8, <1>9, <1>10, <1>11, <1>12, <1>13, Zenon DEF Pool!Next

-----------------------------------------------------------------------------
\* At first there is no load.
LEMMA LoadInitially == Pool!Init => LoadInv
<1> SUFFICES ASSUME Pool!Init PROVE LoadInv
  OBVIOUS
<1>1. \A s \in Shards : Counted(s) = {} /\ sessions[s] = {} /\ Len(posted[s]) = 0 /\ load[s] = 0
  BY EmptySeq DEF Pool!Init, Counted
<1>2. IsFiniteSet({}) /\ Cardinality({}) = 0
  BY FS_EmptySet
<1>3. load \in [Shards -> Int]
  BY DEF Pool!Init
<1>4. ASSUME NEW s \in Shards
      PROVE  /\ IsFiniteSet(sessions[s]) /\ IsFiniteSet(Counted(s))
             /\ load[s] = Len(posted[s]) + Cardinality(sessions[s]) + Cardinality(Counted(s))
  <2>1. Cardinality(sessions[s]) = 0 /\ Cardinality(Counted(s)) = 0
    BY <1>1, <1>2, Zenon
  <2>2. IsFiniteSet(sessions[s]) /\ IsFiniteSet(Counted(s))
    BY <1>1, <1>2, Zenon
  <2>3. load[s] = 0 /\ Len(posted[s]) = 0
    BY <1>1
  <2> QED BY <2>1, <2>2, <2>3
<1> QED BY <1>3, <1>4 DEF LoadInv

\* The steps that touch neither forks nor loads.
LEMMA LoadUntouched ==
  ASSUME LoadInv, UNCHANGED <<caller, pinned, posted, sessions, load>>,
         phase' \notin {"clearing", "gone"} => phase \notin {"clearing", "gone"}
  PROVE  LoadInv'
BY DEF LoadInv, Counted

\* PickShard changes no count: the fork it pins is not counted yet.
LEMMA PickedLoad ==
  ASSUME PlacedInv, LoadInv, NEW f \in Forks, Pool!PickShard(f)
  PROVE  LoadInv'
<1>1. \A s \in Shards : Counted(s)' = Counted(s)
  BY DEF Counted, Pool!PickShard, PlacedInv
<1>2. UNCHANGED <<posted, sessions, load, phase>>
  BY DEF Pool!PickShard, Pool!life, Pool!work
<1> QED BY <1>1, <1>2 DEF LoadInv

\* The counts that make up a load are numbers.
LEMMA CountsTyped ==
  ASSUME PlacedInv, LoadInv, NEW s \in Shards
  PROVE  /\ Cardinality(Counted(s)) \in Nat /\ Cardinality(sessions[s]) \in Nat
         /\ Len(posted[s]) \in Nat /\ load[s] \in Int
BY FS_CardinalityType, LenProperties DEF LoadInv, PlacedInv

\* A step that keeps the account of one shard and leaves the others' alone.
LEMMA OneLoadMoves ==
  ASSUME LoadInv, NEW t \in Shards, UNCHANGED phase, load' \in [Shards -> Int],
         \A s \in Shards : s # t => /\ load'[s] = load[s] /\ posted'[s] = posted[s]
                                   /\ sessions'[s] = sessions[s] /\ Counted(s)' = Counted(s),
         IsFiniteSet(sessions'[t]), IsFiniteSet(Counted(t)'),
         load[t] = Len(posted[t]) + Cardinality(sessions[t]) + Cardinality(Counted(t)) =>
           load'[t] = Len(posted'[t]) + Cardinality(sessions'[t]) + Cardinality(Counted(t)')
  PROVE  LoadInv'
<1>1. ASSUME NEW s \in Shards PROVE IsFiniteSet(sessions'[s]) /\ IsFiniteSet(Counted(s)')
  BY DEF LoadInv
<1>2. ASSUME NEW s \in Shards, phase \notin {"clearing", "gone"}
      PROVE  load'[s] = Len(posted'[s]) + Cardinality(sessions'[s]) + Cardinality(Counted(s)')
  <2>1. CASE s = t
    BY <1>2, <2>1 DEF LoadInv
  <2>2. CASE s # t
    BY <1>2, <2>2 DEF LoadInv
  <2> QED BY <2>1, <2>2
<1> QED BY <1>1, <1>2 DEF LoadInv

\* Adopt counts the fork for the shard it is pinned to, before it posts it.
LEMMA CountedLoad ==
  ASSUME PlacedInv, LoadInv, NEW f \in Forks, Pool!CountFork(f)
  PROVE  LoadInv'
<1>1. PICK t \in Shards : t = pinned[f]
  BY DEF Pool!CountFork, PlacedInv
<1>2. UNCHANGED <<posted, sessions, phase>>
  BY DEF Pool!CountFork, Pool!life
<1>3. CASE /\ caller' = [caller EXCEPT ![f] = "counted"] /\ UNCHANGED pinned
           /\ load' = [load EXCEPT ![pinned[f]] = @ + 1]
  <2>1. /\ Counted(t)' = Counted(t) \cup {f} /\ f \notin Counted(t)
        /\ \A s \in Shards : s # t => Counted(s)' = Counted(s)
    BY <1>1, <1>3 DEF Pool!CountFork, Counted, PlacedInv
  <2>2. /\ IsFiniteSet(Counted(t)')
        /\ Cardinality(Counted(t)') = Cardinality(Counted(t)) + 1
    BY <2>1, FS_AddElement DEF LoadInv
  <2>3. /\ load' \in [Shards -> Int] /\ load'[t] = load[t] + 1
        /\ \A s \in Shards : s # t => load'[s] = load[s]
    BY <1>1, <1>3 DEF LoadInv
  <2>4. load[t] = Len(posted[t]) + Cardinality(sessions[t]) + Cardinality(Counted(t)) =>
          load'[t] = Len(posted'[t]) + Cardinality(sessions'[t]) + Cardinality(Counted(t)')
    <3>1. /\ Cardinality(Counted(t)) \in Nat /\ Cardinality(sessions[t]) \in Nat
          /\ Len(posted[t]) \in Nat /\ load[t] \in Int
      BY CountsTyped
    <3>2. posted'[t] = posted[t] /\ sessions'[t] = sessions[t]
      BY <1>2
    <3> QED BY <2>2, <2>3, <3>1, <3>2, SMTT(30)
  <2>5. IsFiniteSet(sessions'[t])
    BY <1>2 DEF LoadInv
  <2> QED BY <1>2, <2>1, <2>2, <2>3, <2>4, <2>5, OneLoadMoves, Zenon
<1>4. CASE /\ caller' = [caller EXCEPT ![f] = "done"] /\ pinned' = [pinned EXCEPT ![f] = Pool!None]
           /\ UNCHANGED load
  <2>1. \A s \in Shards : Counted(s)' = Counted(s)
    BY <1>4 DEF Pool!CountFork, Counted, PlacedInv
  <2> QED BY <1>2, <1>4, <2>1 DEF LoadInv
<1> QED BY <1>3, <1>4 DEF Pool!CountFork

\* The hop: a fork that was counted on its way is counted as posted.
LEMMA PostedLoad ==
  ASSUME PlacedInv, LoadInv, NEW f \in Forks, Pool!PostAdopt(f)
  PROVE  LoadInv'
<1>1. PICK t \in Shards : t = pinned[f]
  BY DEF Pool!PostAdopt, PlacedInv
<1>2. UNCHANGED <<sessions, load, phase>>
  BY DEF Pool!PostAdopt, Pool!life
<1>3. /\ Counted(t)' = Counted(t) \ {f} /\ f \in Counted(t)
      /\ \A s \in Shards : s # t => Counted(s)' = Counted(s)
  BY <1>1 DEF Pool!PostAdopt, Counted, PlacedInv
<1>4. /\ posted'[t] = Append(posted[t], f) /\ Len(posted'[t]) = Len(posted[t]) + 1
      /\ \A s \in Shards : s # t => posted'[s] = posted[s]
  BY <1>1, AppendProperties DEF Pool!PostAdopt, PlacedInv
<1>5. /\ IsFiniteSet(Counted(t)')
      /\ Cardinality(Counted(t)') = Cardinality(Counted(t)) - 1
  BY <1>3, FS_RemoveElement DEF LoadInv
<1>6. load[t] = Len(posted[t]) + Cardinality(sessions[t]) + Cardinality(Counted(t)) =>
        load'[t] = Len(posted'[t]) + Cardinality(sessions'[t]) + Cardinality(Counted(t)')
  <2>1. /\ Cardinality(Counted(t)) \in Nat /\ Cardinality(sessions[t]) \in Nat
        /\ Len(posted[t]) \in Nat /\ load[t] \in Int
    BY CountsTyped
  <2>2. load'[t] = load[t] /\ sessions'[t] = sessions[t]
    BY <1>2
  <2> QED BY <1>4, <1>5, <2>1, <2>2
<1>7. load' \in [Shards -> Int] /\ IsFiniteSet(sessions'[t])
  BY <1>2 DEF LoadInv
<1> QED BY <1>2, <1>3, <1>4, <1>5, <1>6, <1>7, OneLoadMoves, Zenon

\* RunAdopt: the first posted fork becomes a session.
LEMMA AdoptedLoad ==
  ASSUME PlacedInv, LoadInv, NEW t \in Shards, Pool!RunAdopt(t)
  PROVE  LoadInv'
<1> DEFINE f == Head(posted[t])
<1>1. UNCHANGED <<caller, pinned, load, phase>> /\ \A s \in Shards : Counted(s)' = Counted(s)
  BY DEF Pool!RunAdopt, Pool!life, Pool!placing, Counted
<1>2. posted[t] \in Seq(Forks) /\ posted[t] # <<>>
  BY DEF Pool!RunAdopt, PlacedInv
<1>3. f \notin sessions[t]
  <2>1. 1 \in 1..Len(posted[t]) /\ f = posted[t][1]
    BY <1>2, EmptySeq, LenProperties
  <2> QED BY <2>1 DEF PlacedInv
<1> HIDE DEF f
<1>4. /\ sessions'[t] = sessions[t] \cup {f} /\ posted'[t] = Tail(posted[t])
      /\ \A s \in Shards : s # t => posted'[s] = posted[s] /\ sessions'[s] = sessions[s]
  BY DEF Pool!RunAdopt, PlacedInv, f
<1>5. IsFiniteSet(sessions'[t]) /\ Cardinality(sessions'[t]) = Cardinality(sessions[t]) + 1
  BY <1>3, <1>4, FS_AddElement DEF LoadInv
<1>6. Len(posted'[t]) = Len(posted[t]) - 1
  BY <1>2, <1>4, HeadTailProperties
<1>7. /\ Cardinality(Counted(t)) \in Nat /\ Cardinality(sessions[t]) \in Nat
      /\ Len(posted[t]) \in Nat /\ load[t] \in Int
  BY CountsTyped
<1>8. load[t] = Len(posted[t]) + Cardinality(sessions[t]) + Cardinality(Counted(t)) =>
        load'[t] = Len(posted'[t]) + Cardinality(sessions'[t]) + Cardinality(Counted(t)')
  <2>1. load'[t] = load[t] /\ Counted(t)' = Counted(t)
    BY <1>1
  <2> QED BY <1>5, <1>6, <1>7, <2>1
<1>9. load' \in [Shards -> Int] /\ IsFiniteSet(Counted(t)')
  BY <1>1 DEF LoadInv
<1> QED BY <1>1, <1>4, <1>5, <1>8, <1>9, OneLoadMoves, Zenon

\* Tick drops the dead sessions of its shard and subtracts as many.
LEMMA TickedLoad ==
  ASSUME PlacedInv, LoadInv, NEW t \in Shards, Pool!Tick(t)
  PROVE  LoadInv'
<1> DEFINE finished == sessions[t] \cap dead
<1>1. UNCHANGED <<caller, pinned, posted, phase>> /\ \A s \in Shards : Counted(s)' = Counted(s)
  BY DEF Pool!Tick, Pool!life, Pool!placing, Counted
<1>2. /\ load' = [load EXCEPT ![t] = @ - Cardinality(finished)]
      /\ sessions' = [sessions EXCEPT ![t] = @ \ finished]
  <2>1. Pool!Dropped(Pool!Finished(t)) = Cardinality(finished) /\ Pool!Finished(t) = finished
    BY SameCardinality DEF Pool!Finished, Pool!Dropped
  <2> HIDE DEF finished
  <2> QED BY <2>1 DEF Pool!Tick
<1>3. /\ sessions'[t] = sessions[t] \ finished
      /\ \A s \in Shards : s # t => sessions'[s] = sessions[s]
  BY <1>2 DEF PlacedInv
<1>4. IsFiniteSet(sessions[t]) /\ IsFiniteSet(finished)
  <2>1. IsFiniteSet(sessions[t])
    BY DEF LoadInv
  <2> QED BY <2>1, FS_Intersection
<1>5. Cardinality(finished) \in Nat
  BY <1>4, FS_CardinalityType
<1>6. /\ IsFiniteSet(sessions'[t])
      /\ Cardinality(sessions'[t]) = Cardinality(sessions[t]) - Cardinality(finished)
  <2>1. sessions[t] \cap finished = finished
    OBVIOUS
  <2> QED BY <1>3, <1>4, <2>1, FS_Difference, Zenon
<1> HIDE DEF finished
<1>7. /\ load' \in [Shards -> Int] /\ load'[t] = load[t] - Cardinality(finished)
      /\ \A s \in Shards : s # t => load'[s] = load[s]
  BY <1>2, <1>5 DEF LoadInv
<1>8. load[t] = Len(posted[t]) + Cardinality(sessions[t]) + Cardinality(Counted(t)) =>
        load'[t] = Len(posted'[t]) + Cardinality(sessions'[t]) + Cardinality(Counted(t)')
  <2>1. /\ Cardinality(Counted(t)) \in Nat /\ Cardinality(sessions[t]) \in Nat
        /\ Len(posted[t]) \in Nat /\ load[t] \in Int
    BY CountsTyped
  <2>2. posted'[t] = posted[t] /\ Counted(t)' = Counted(t)
    BY <1>1
  <2> QED BY <1>5, <1>6, <1>7, <2>1, <2>2
<1>9. IsFiniteSet(Counted(t)')
  BY <1>1 DEF LoadInv
<1> QED BY <1>1, <1>3, <1>6, <1>7, <1>8, <1>9, OneLoadMoves, Zenon

\* Every step counts a fork once.
LEMMA LoadStep == PlacedInv /\ LoadInv /\ PhaseInv /\ [Pool!Next]_(Pool!vars) => LoadInv'
<1> SUFFICES ASSUME PlacedInv, LoadInv, PhaseInv, [Pool!Next]_(Pool!vars) PROVE LoadInv'
  OBVIOUS
<1>1. ASSUME NEW s \in Shards, Pool!CreateShard(s) \/ Pool!StartThread(s) \/ Pool!StopThread(s)
      PROVE  LoadInv'
  BY <1>1, LoadUntouched DEF Pool!CreateShard, Pool!StartThread, Pool!StopThread, Pool!placing, Pool!work
<1>2. ASSUME NEW s \in Shards, Pool!DestroyShard(s) PROVE LoadInv'
  <2>1. /\ UNCHANGED <<load, phase>> /\ phase = "clearing"
        /\ \A r \in Shards : Counted(r)' = Counted(r)
    BY <1>2 DEF Pool!DestroyShard, Pool!placing, Counted
  <2>2. \A r \in Shards : sessions'[r] = sessions[r] \/ sessions'[r] = {}
    BY <1>2 DEF Pool!DestroyShard, PlacedInv
  <2> QED BY <2>1, <2>2, FS_EmptySet, Zenon DEF LoadInv
<1>3. ASSUME NEW f \in Forks, Pool!SessionDies(f) PROVE LoadInv'
  BY <1>3, LoadUntouched DEF Pool!SessionDies, Pool!life, Pool!placing
<1>4. CASE Pool!Unload \/ Pool!Cleared
  BY <1>4, LoadUntouched DEF Pool!Unload, Pool!Cleared, Pool!placing, Pool!work
<1>5. CASE UNCHANGED Pool!vars
  BY <1>5, LoadUntouched DEF Pool!vars, Pool!life, Pool!placing, Pool!work
<1> QED
  BY <1>1, <1>2, <1>3, <1>4, <1>5, PickedLoad, CountedLoad, PostedLoad, AdoptedLoad, TickedLoad
  DEF Pool!Next

-----------------------------------------------------------------------------
PoolInv == PhaseInv /\ PlacedInv /\ LoadInv

\* The invariant of the shards, in the company of the shell.
THEOREM PoolInvariant == SpecModule => []PoolInv
<1>1. InitModule => PoolInv
  BY PhaseInitially, PlacedInitially, LoadInitially DEF InitModule, PoolInv
<1>2. PoolInv /\ [NextModule]_allVars => PoolInv'
  BY PoolStep, PhaseStep, PlacedStep, LoadStep DEF PoolInv
<1> QED BY <1>1, <1>2, PTL DEF SpecModule

\* active_forks() is exact for any number of shards and forks: each load_ is the
\* number of forks on their way to the shard plus those it owns, so it never
\* drifts and never wraps below zero (Adopt, Tick).
THEOREM LoadsAreExact == SpecModule => []LoadIsExact
<1>1. PoolInv => LoadIsExact
  <2> SUFFICES ASSUME PoolInv, phase \in {"up", "stopping"}, NEW s \in Shards
               PROVE  load[s] = Len(posted[s]) + Cardinality(sessions[s])
                                + Cardinality({f \in Pool!Of(s) : caller[f] = "counted"})
    BY SameCardinality DEF LoadIsExact, Pool!LoadIsExact
  <2>1. {f \in Pool!Of(s) : caller[f] = "counted"} = Counted(s)
    BY DEF Pool!Of, Counted
  <2> QED BY <2>1, Zenon DEF PoolInv, LoadInv
<1> QED BY <1>1, PoolInvariant, PTL

\* The two-phase lifecycle: with any number of shards, and also when creating
\* one of them fails, no lws context is created or destroyed while a service
\* thread runs (ShardPool::Start, ~ShardPool).
THEOREM ContextsChangeUnserved == SpecModule => NoContextChangeWhileServing
<1>1. PoolInv /\ [NextModule]_allVars =>
        [context' # context => \A s \in Shards : thread[s] # "running"]_(Pool!vars)
  <2> SUFFICES ASSUME PoolInv, [Pool!Next]_(Pool!vars), context' # context
               PROVE  \A s \in Shards : thread[s] # "running"
    BY PoolStep
  <2>1. PICK s \in Shards : Pool!CreateShard(s) \/ Pool!DestroyShard(s)
    BY DEF Pool!Next, Pool!vars, Pool!life, Pool!StartThread, Pool!StopThread, Pool!Unload, Pool!Cleared,
           Pool!PickShard, Pool!CountFork, Pool!PostAdopt, Pool!SessionDies, Pool!RunAdopt, Pool!Tick
  <2> QED BY <2>1 DEF Pool!CreateShard, Pool!DestroyShard, PoolInv, PhaseInv
<1> QED
  BY <1>1, PoolInvariant, PTL
  DEF SpecModule, NoContextChangeWhileServing, Pool!NoContextChangeWhileServing
=============================================================================
