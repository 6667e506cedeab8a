# TLA+ models of mod_audio_fork

`mod_audio_fork` forks the audio of a FreeSWITCH call to a WebSocket server and
plays what the server sends back. Each call's **media thread** exchanges audio
with a fork's session through two single-producer rings. K **shard threads**,
each with an event loop and an lws context of its own, run the sessions: every
20 ms a tick pumps all sessions of the shard. **Control threads** (API commands,
DTMF, hangup) never touch a socket; they hop to the shard with `NetPort::Post`.
A session reconnects for as long as its call wants the fork and is owned by
reference: by its shard, by its media bug and by the module's registry.

Paths below are relative to `src/`. `core` is `core/src` and
`core/include/audiofork`, `net` is `net/src` and `net/include/audiofork_net`.

## Inventory

| Component | State | Operations | What makes it hard |
|---|---|---|---|
| State machine (`session_state.hpp`) | one atomic | `OnEvent` | compare-exchange from several threads; teardown actions must be handed out once |
| Session control (`fork_session.cpp`) | state, `connection_`, flags, texts, owners | `Start`, `Stop`, `SendText`, `SendDtmf`, `Modify`, `OnConnected/OnText/OnClosed`, retry timer, `Pump`, `Apply`, `Finalize` | checks on one thread and acts on another; late sockets; refused sends; who still holds a reference |
| Send path (`fork_session.cpp`, `send_buffer.cpp`, `slab_queue.cpp`) | ring, chunk queue, cap, episode flags, counters | `PushAudio`, `DrainHandoffRing`, `Append`, `SetCap`, `FlushToConnection` | the pool runs dry half-way through an append while other forks take what it frees |
| Playback (`fork_session.cpp`, `jitter_buffer.cpp`) | jitter queue, marks, mute, generation, pause mirror | `OnBinary`, `clear`, `mark`, `PumpPlayback`, `ReadPlayback` | a clear races the media thread; watermarks and reconnects |
| Byte ring (`spsc_ring.hpp`) | storage, two indices | `Push`, `Pop` | two threads without a lock; wrapping indices |
| Slab pool (`slab_pool.cpp`) | free list, two gauges | `Acquire`, `Release`, `CanLease` | allocates outside its lock, and may fail there |
| Connection (`ws_client.cpp`) | queue, flags, incoming message | `Connect`, `Enqueue`, `Close`, lws callbacks | close against queue, peer and timeout; messages in fragments |
| Event loop (`ws_client.cpp`) | posted tasks, timers, stop flag | `Run`, `Post`, `Stop`, `ScheduleTimer`, tick | lost wake-ups; tasks that schedule tasks |
| Shard pool (`shard_pool.cpp`) | contexts, threads, sessions, loads, adapters | `Start`, `StartFork`, `Adopt`, `Tick`, destructors | start and stop order over all shards; what outlives what |
| Module shell (`mod_audio_fork.cpp`) | registry, bugs, channel privates, DTMF hook, `g_state` | `StartFork`, `StopForks`, `OnRecvDtmf`, bug close, load, unload | a start is many steps, and the session already runs during them; one hook for all forks of a call |
| Media bug (`mod_audio_fork.cpp`) | playback resampler and its rate | `WRITE_REPLACE`, `EnsurePlaybackResampler` | the rate is read, then the ring, while the server changes both |
| Configuration (`config.cpp`, `LoadConfig`, `MakeTuning`) | `ModuleConfig` | parameters, `SanitizeConfig`, sizes | bounds that depend on each other; zero, overflow, rounding |
| Backoff (`backoff.hpp`) | `current_` | `NextDelay`, `Reset` | growth, cap and jitter for any bounds |
| URL and messages (`config.cpp`, `protocol.cpp`) | none | `ParseWsUrl`, `ParseServerMessage` | brackets, ports; nesting in strings; casts that wrap |

`PROJECT.json` lists these with their status, the lines every definition models
(`map`) and the hazards, each at the line where it bites.

## Modules

Control is kept: every guard, early return and error path, and the order of
effects. Data is reduced to what the properties tell apart: a frame is a count
of bytes or an item with its age, a message is its kind.

| Module | Models | One action is |
|---|---|---|
| `SessionState` | the transition table, as one function per state | – |
| `SessionStateMachine` | `OnEvent` of any number of threads | one atomic load, compare-exchange or return |
| `AtomicEvents` | its abstract specification: transitions happen at once | one call's effect |
| `ForkSession` | the control plane of one session, sockets and owners included | one handler on the shard up to its next event; one step of an API call |
| `SpscRing`, `ByteFifo` | the ring, and the FIFO it promises | one byte copied, one index published |
| `SlabPool` | the pool | one critical section |
| `SlabQueue` | the chunk queue, as operators on its value: one turn of `Append`'s loop, one of `Consume`'s | – |
| `SendPath` | audio from `PushAudio` to the socket | one `Push`, one turn of the loops of `Append` and `Consume` (at most one slab taken or returned), one chunk flushed |
| `Playback` | audio from the socket to `ReadPlayback` | one callback, one hand-over to the ring, one step of a read |
| `MediaBug` | the playback callback of a media bug, against the server's messages | one message; reading the format, looking for a clear, taking from the ring |
| `Configuration` | `SanitizeConfig`, `MakeTuning`, `MinimumSlabs`, `ReconnectBackoff`, as operators | – |
| `ModuleStart` | loading, and what rests on the configuration: `SlabPool`, the backoff and `MediaBug` | one parameter read, one delay computed, a step of one of the two modules |
| `WsConnection` | one connection under lws, received fragments included | one callback or method |
| `WsUrl`, `Protocol` | `ParseWsUrl`, `ParseServerMessage`, as operators | – |
| `WsClient` | `WsConnection` between the two: the URL it connects to, the texts it delivers | a step of the connection, with the parse it leads to |
| `WsEventLoop` | one loop with the threads that post to it and stop it | one locked section, one cancel, one task or timer run |
| `ShardPool` | all shards, from `Start` to destruction | one step of `StartFork`, one tick, one context or thread made or ended |
| `ModuleShell` | one call and unload | one critical section or FreeSWITCH call of a command |
| `ModuleLifecycle` | `ModuleShell` and `ShardPool` composed: commands start forks on shards, shards end them, load and unload make and destroy the shards | a step of one of the two, or of both where one calls the other |
| `ForkSession_proofs`, `SessionStateMachine_proofs`, `SpscRing_proofs`, `SendPath_proofs`, `Playback_proofs`, `WsClient_proofs`, `ModuleLifecycle_proofs`, `ModuleStart_proofs` | – | theorems about the module of that name and those it composes |
| `MCForkSession`, `MCModuleStart`, `MCWsClient` | – | inputs of the small instances |

### How the modules fit together

One model of everything is out of reach, so each module assumes of its
neighbours what another module shows:

* `ForkSession` treats `OnEvent` as atomic: `SessionStateMachine` implements
  `AtomicEvents`, with the same transition table.
* `SendPath`, `Playback` and `ForkSession` treat a ring as an atomic queue:
  `SpscRing` implements `ByteFifo`.
* `SendPath` treats the pool as a counter of slabs that other forks take and
  return: `SlabPool` shows that the account is exact and capped. `Append` takes
  and `Consume` returns slabs one at a time, and other forks may take or return
  some between any two of them.
* `ForkSession` assumes that posted tasks run once and in order, that a socket
  reports its close once and that a requested close ends: `WsEventLoop`
  (`NothingLostOrRepeated`, `EveryWakeupCounts`) and `WsConnection` (`ClosedOnce`,
  `CloseEnds`).
* `ModuleLifecycle` assumes that a stopped session ends: `SessionMovesOn`.
* `Playback` and `ForkSession` take a server's message by its kind:
  `ServerTextsUnderstood` shows that a text is taken for what it is.
* `SendPath` and `Playback` assume that a flush fits the ring and the low
  watermark is not above the high one: `EveryForkFits`, for every file.

### ForkSession in more detail

The shard thread runs each handler to completion. A handler that delivers an
event leaves the returned action in `todo`, and no other shard step is enabled
until it is applied; the nested calls of `Apply` are all tail calls. Other
threads see `state` in between, which is why the pieces are separate steps.
`ticking` marks the part of `Shard::Tick` between the pump and the removal of
dead sessions. Socket ids are recycled, so reconnecting is unbounded. Each
control thread makes one call. `SetPaused` is not an action: a paused frame
never enters the ring, which is the same as not pushing.

`hello`, chosen at the start from `Hellos`, says whether the fork's metadata
gives a valid hello, none (`invalid`), or one that does not fit the
connection's queue (`oversized`). The constant `LateHandshakes`
says whether a socket that was asked to close while connecting may still
complete its handshake. The core's contract allows it (`session_state.hpp:44`,
and the test `SocketCompletingAfterTeardownIsClosedNotAdopted`). The net layer
asks lws "to give up on it now" (`ws_client.cpp:111-113`), and whether a
handshake may still come first is up to lws. `fork_session` allows late
handshakes; `NoSocketLeak` in `fork_session_live`, and `Playback`, assume that
there are none. `WsConnection` allows them and assumes only that lws enforces
the timeout all the same.

## Runs

Passing runs; the numbers of distinct states are TLC's.

| Run | Shows | Bounds | States |
|---|---|---|---|
| `fork_session` | `FinalizeOnce`, `OneRetryTimer`, `TrackedSocketIsLive`, `NeverStranded`, `ProtocolOrder`, `TextsAccountedFor`, `DeadIsSilent`, when control threads stop, modify and send texts, for every kind of hello, with late handshakes | 2 callers, 2 sockets, 1 pending text, ring, buffer and flush of 1 frame | 685,638 |
| `fork_session_live` | `NoSocketLeak` if no handshake is late; `SessionMovesOn`: a session that ends is finalized and dropped, one that lost its socket tries again | the same, callers stop and modify, hellos that fit | 173,114 |
| `session_state_machine` | implements `AtomicEvents` | 3 threads, any number of events | 55,795 |
| `spsc_ring` | implements `ByteFifo` | capacity 4, indices modulo 8, frames and reads up to 3 bytes | 239,360 |
| `module_start` | `EveryForkFits`, `BackoffIsExponential`; `Accounting`, `WithinCap`; `PlayedAsDeclared` | up to 3 parameters with values below, at and above each clamp and one that overflows, to one of 5 values, 5 rates, 6 retries; 3 threads, 4 leases, a cap that is not a multiple of the slab size; 3 playback rates (below, at and above the call's), 2 declarations at any time, 2 clears, 5 samples, a jitter buffer of 2 samples and a ring of 3 | 1,237,584 |
| `send_path` | `BytesConserved`, `GaugeCoversBuffer`, `SlabsConserved`, `DegradedOncePerEpisode`, `BufferDrains` | 2 slabs of 3 bytes shared with other forks, cap 5, emergency cap 2, 8 bytes | 190,341 |
| `playback` | `MutedUntilMark`, `MarksMatchAudio`, `OverflowIsExplained`, `NoStaleAudio`, `PauseEnds`, `MarksAreSettled` | 4 bytes, watermarks 1 and 0, messages up to the cap of 2, 1 message read ahead, 2 clears, 2 marks, 1 reconnect, 1 modify, pool not dry | 687,151 |
| `ws_connection` | `ClosedOnce`, `NoLostWakeup`, `ByeBeforeClose`, `CloseEnds`; `UrlsRoundTrip`, `ServerTextsUnderstood` | limit of 4 bytes, 5 messages out, 3 fragments in; every URL of up to 5 of the characters the parser looks for, and written ones; texts nested up to 3 for a limit of 2, a cast that wraps at 2^16 | 45,663 |
| `ws_event_loop` | `NothingLostOrRepeated`, `EveryWakeupCounts` | 2 posters, 2 posts each, a stop, 2 timers | 591,390 |
| `module_lifecycle` | `NoOrphanSession`, `DigitsReachForks`, `LoadIsExact`, `NoContextChangeWhileServing`, `LoadReturnsToZero` | 2 forks, limit 1, 2 shards | 955,398 |

In `module_start` the pool, the media bug and the backoff depend on nothing of
each other, so the first two are explored under the default configuration, one
while the other is idle, and the backoff under every configuration. In
`ws_connection` a parse depends on its text alone, and every text is tried while
nothing has been queued yet.

Why the bounds suffice: two sockets are the most that matter at once (the one
tracked and one on its way out) and ids are recycled; one pending text, one
frame and a full buffer already meet every limit; the ring wraps both its
storage and its indices; two slabs are enough to lose one to another fork
between two attempts; the cap of five bytes is cut by a chunk of three; two
forks on two shards suffice for two starts that race, a shard with two
sessions, and one thread that serves while another is made or joined; two
clears and two declarations let each fall before, between and after the
callback's three steps; with a high watermark of one byte a message is at,
above or twice it; limits of nesting and of a cast only have to be passed
by one, so they are scaled down (`kMaxNestingDepth`, `Word`).

`CHECK_DEADLOCK FALSE` is used where the system may stop: a closed connection, a
stopped loop, an unloaded module.

### Disagreements between the code and what it says

Each of these configurations checks one statement of the repository, and TLC
finds a behaviour of the code that contradicts it. The first two are runs of
`PROJECT.json`, which quotes the statements in full; the others are kept for
reproduction with `tlc -config <name>.cfg <module>`.

| Configuration | Module | Statement | What happens |
|---|---|---|---|
| `session_dangling` | `MCForkSession` | `NoDanglingCallback`, DESIGN.md:115-116 "never a dangling dereference" | Modify while connecting forgets the socket; a stop finalizes at once and the session is destroyed while the socket can still call it. |
| `module_unload` | `ModuleShell` | `StateOutlivesShards`, module/mod_audio_fork.cpp:849-850 | `g_state` is null while shard threads still run sessions. |
| `session_abandon` | `MCForkSession` | `NoSocketLeak`, session_state.hpp:44-45 "abandoned rather than adopted ... or it leaks" | After a modify, a late handshake reaches the abandon path, which closes `connection_` (null, or the new socket), not the late one. Only if late handshakes exist, see above. |
| `session_hello_refused` | `MCForkSession` | `NoSocketLeak`, fork_session.cpp:207 "close it or it leaks" | A hello too large for the queue: the retry opens a second socket and the first stays open. |
| `session_hello_invalid` | `MCForkSession` | `HelloFirst`, DESIGN.md:155 "First frame after connect/reconnect" | Metadata that is not JSON: audio and a bye are sent without a hello. |
| `session_dead_buffer` | `MCForkSession` | `FinalizedHoldsNoAudio`, fork_session.hpp:34-35 "released at finalize" | A tick on a dead session refills the released buffer from the ring. |
| `playback_reconnect` | `Playback` | `NothingDropped`, ports.hpp:27-28 "so nothing is dropped" | The pause mirror survives the connection: a session whose first socket was paused never pauses the next, and audio is dropped. `OverflowIsExplained` lists all the ways there are. |
| `playback_next_turn` | `Playback` | `NextTurnIsPlayed`, DESIGN.md:168-169 "Re-arms playback after `clear`" | Audio that follows clear and mark is discarded with the old. |
| `playback_mark` | `Playback` | `MarkFollowsPlayback`, DESIGN.md:169 "when playback reaches the mark" | The mark event precedes the playing of the audio before the mark. |
| `shard_pool_adapters` | `ShardPool` | `AdaptersOutliveConnections`, shard_pool.cpp:61 "adapters outlive their connection" | The adapters are destroyed before the loop that still calls them. |
| `shard_pool_retained` | `ShardPool` | `AdaptersDroppedWithSession`, shard_pool.cpp:61-62 "the shard drops them when its sessions finish" | Adapters are never dropped. |
| `module_registry` | `ModuleShell` | `NoDeadForkRegistered`, DESIGN.md:183 "live sessions return to 0" | A session that ends during its start stays in the registry. |
| `module_limit` | `ModuleShell` | `LimitHolds`, DESIGN.md:216 | Concurrent starts exceed `max-forks-per-call`. |
| `module_dtmf` | `ModuleShell` | `DigitsAlwaysReachForks`, README.md:95 | A start that runs alongside a stop finds the key of the hook, which the stop then removes: the fork runs without digits. |
| `media_redeclared` | `MediaBug` | `PlayedAtItsRate`, module/mod_audio_fork.cpp:259-260 "Rebuilt if the server changes rate mid-call" | The rate changes while audio of the old one waits, which is then played at the new one. By `PlayedAsDeclared` nothing else plays audio at a wrong rate: there has been a declaration behind it in the same turn. |
| `media_alignment` | `MediaBug` | `SamplesStayAligned`, DESIGN.md:149 | At a rate such as 11025 Hz into a call at 8000 Hz a frame's share is an odd number of bytes; half a sample is consumed and lost, and what follows is torn in two. The same happens where a fork at 11025 Hz hands its playback over in runs of 2205 bytes (`mod_audio_fork.cpp:250-255`, `fork_session.cpp:556-562`) and a frame ends with one. By `PlayedAsDeclared` nothing else tears samples, and by `EveryForkFits` runs are whole samples at rates of whole kHz. |

## Fairness

* `ForkSession`: the loop runs what is pending. `Apply`, the removal of dead
  sessions and the drain deadline are weakly fair. Posted tasks, the timer, the
  tick and the close of a socket that was asked to close are strongly fair, for
  each is disabled while another handler runs; one turn of `Run` serves them all
  (`ws_client.cpp:175-181`). No socket is assumed to connect, and no peer to
  read.
* `SendPath`: the pump runs; the peer reads again and again (strong fairness of
  an accepted flush), which only `BufferDrains` uses.
* `Playback`: the tick and the media thread's reads continue.
* `WsClient`: lws reports a close and honours the timeouts it was given.
* `WsEventLoop`: the loop thread runs, `lws_service` returns after it has served
  something, and a thread in `Post` or `Stop` gets to its cancel. The tick is
  left out: it would wake the loop whether or not the cancels do.
* `ModuleLifecycle`: shard threads adopt and tick; a command under way
  continues; a stopped session ends; FreeSWITCH closes the bugs of a call that
  hung up. No call is assumed to hang up.

## Proofs

TLAPS proves what follows for every value of the constants, under the `ASSUME`s
of the modules and the hypotheses named here. Each invariant that a run also
checks is stated under the run's name; the strengthened ones were checked by TLC
on the run's instance before they were proved.

| Module | Theorems | Says, for any number of sockets, threads, forks, shards, bytes ... |
|---|---|---|
| `ForkSession_proofs` | `TypeCorrect`, `FinalizesOnce`, `RetriesOnOneTimer`, `NeverDangles`, `AlwaysHasAWayOn`, `DeadSessionsAreSilent` | the session's control plane: `FinalizeOnce`, `OneRetryTimer`, `TrackedSocketIsLive`, `NeverStranded`, `DeadIsSilent` |
| | `NoSocketIsLeaked`, `MessagesInOrder`, `TextsKept` | `NoSocketLeak`, `ProtocolOrder`, `TextsAccountedFor` |
| `SessionStateMachine_proofs` | `Linearizable` | the compare-exchange loop implements `AtomicEvents` |
| `SpscRing_proofs` | `RingInvariant`, `RingIsFifo` | the ring implements `ByteFifo` |
| `SendPath_proofs` | `SendInvariant`, `NoByteIsLost`, `NoSlabIsLost`, `GaugeIsHonest`, `DegradedIsNotRepeated` | `BytesConserved`, `SlabsConserved`, `GaugeCoversBuffer`, `DegradedOncePerEpisode` |
| `Playback_proofs` | `ResidueStaysOut`, `BargeInIsImmediate`, `OverflowsAreExplained`, `MarksFollowAudio` | `MutedUntilMark`, `NoStaleAudio`, `OverflowIsExplained`, `MarksMatchAudio` |
| `WsClient_proofs` | `OnClosedOnce`, `WakeupNeverLost`, `HandshakeComesLast`, `MessagesArriveWhole` | `ClosedOnce`, `NoLostWakeup`, `ByeBeforeClose`; the reassembly in `ServerTextsUnderstood` |
| | `LoopLosesNothing` | `NothingLostOrRepeated` of the event loop |
| `ModuleLifecycle_proofs` | `NoSessionOrphaned`, `DigitsReach`, `LoadsAreExact`, `ContextsChangeUnserved` | `NoOrphanSession`, `DigitsReachForks`, `LoadIsExact`, `NoContextChangeWhileServing` |
| `ModuleStart_proofs` | `SanitizedIsOrdered`, `OrderedIsKept`, `SanitizeIsIdempotent`, `AnyFileServesEveryFork`, `AudioKeepsItsRate` | `SanitizeConfig` for every configuration; `EveryForkFits`, `PlayedAsDeclared` |
| | `AccountingHolds`, `CapHolds`, `ReleaseNeverAllocates` | the slab pool: `Accounting`, `WithinCap` |

### The arguments

* **Session control.** `SafetyInv` adds to the invariants: the pending action
  fits the state (`TodoFits`: a transition into that state returned it, so a
  finalize is only pending when dead); the start task runs before anything else
  (`StartComesFirst`); the registry holds the session until finalize
  (`Registered`); and what a state waits for exists as soon as its entry action
  has run (`Awaited`, which is `NeverStranded` without the idle loop).
* **Order of messages.** `ProtocolOrder` speaks of what was said; `OrderInv`
  adds when nothing was said yet (a socket on its way, or one whose greeting is
  still to be applied) and when no bye was (until the session closes). Only the
  tracked socket is ever spoken to, so late handshakes do not matter.
* **Texts.** `TextsAccountedFor` is its own invariant; the work is in counting:
  a text that `SendText` posts adds one to the tasks that carry one, the task
  takes it away, and `Pump` moves pending texts on without losing any.
* **Sockets.** `LeakInv` is one live socket at a time, tracked or being closed,
  and none while a retry or a connect is due. It was first tried without the
  clause for `kFinalize`, and then was not inductive: `Finalize` forgets the
  socket, so it must be known that the close was asked for before.
* **State machine.** `TypeOK`, which relates each thread's locals to its place
  in the loop, is all the refinement needs: a failed exchange is a stutter, a
  successful one is the atomic transition because it proves the loaded state
  current.
* **Ring.** `RingInv`: a frame being pushed fits behind what is queued, what was
  copied of it is in the cells behind the head, and a read under way has the
  bytes from the tail on. Writer and reader touch different cells because two
  indices less than a capacity apart have different remainders (`Apart`), also
  across the wrap of the indices, which is where `IndexSpan % Capacity = 0` is
  needed (`CellTurns`).
* **Pool.** Four invariants together: `WithinCap` needs the byte account, and the
  account needs that a failing allocation is one that was counted
  (`LeasesCounted`). `FreeListFits`, that `Release` stays within the capacity
  `Create` reserved, follows and is only proved.
* **Chunk queue.** `WellFormed` is what makes one turn of a loop correct: only
  the first chunk starts and only the last one ends inside its slab, so the
  cached size is that of the whole slabs between plus the two ends, and no chunk
  but an only one is empty. `AppendedKeeps` and `ConsumedKeeps` show that a turn
  of `Append` or `Consume` keeps this and moves at least one byte and no more than
  asked; `PopsOne`, that at most the first chunk goes back. The bytes of whole slabs are a product, which the provers handle badly;
  it is kept behind a name (`Whole`) of which only the successor rule is used
  (`WholeSlabs`).
* **Send path.** `SendInv` adds to the two accounts where in `DrainHandoffRing`
  the buffer may exceed what the cap allows, and by how much: while `DropOldest`
  is at work it is what is still to be dropped (`PlaceInv`). `GaugeCoversBuffer`
  follows, for outside an append the buffer has only shrunk since the gauge was
  stored. `BytesConserved` and `SlabsConserved` are invariant through every turn
  of the loops, whatever others do to the pool in between. `EpisodeInv` says a
  fork whose pool has served no append since `degraded` still knows the pool to
  be dry, so it cannot recover and report again.
* **Barge-in.** `BargeInInv` says where bytes from before a clear can be: not in
  the jitter buffer, and in the ring only until the media thread has acted on
  the generation. `MuteInv` adds that without the mute a mark has followed the
  clear. `NoStaleAudio` is a property of the read's last step, and follows.
* **Marks.** `OffsetInv` ties the two clocks of the jitter buffer: a byte lies
  before a mark in the byte count exactly if it arrived before it. `NamesInv`
  and `ReportedInv` give the order and that nothing is reported early.
* **Flow control.** `RoomInv`: until a connection is lost the session knows
  whether its socket is paused, and between two pumps a buffer above the high
  watermark has `receive_paused_` set. So a message that overflows twice the
  watermark is larger than the watermark, or comes although the session asked,
  or believes to have asked, for none. Nothing is assumed of message sizes, of
  the distance of the watermarks or of what lws reads ahead.
* **Connection.** `LifeInv` relates lws's view of the connection to the flags;
  `QueueInv` says the callback is asked for whenever there is something to do.
* **Event loop.** The tasks run, taken out and posted, in that order, are one
  sequence (`AllTasks`), which only `Post` changes: a swap or a task that runs
  moves the border between the three (`OneMoves`). `LoopInv` adds that nothing
  is taken out while the loop is elsewhere, without which a swap would overwrite
  tasks, and that ids tell timers apart.
* **Lifecycle.** `OwnedInv` gives every running session a start under way or a
  place in the registry. `HookInv` follows a stop through its four steps, as
  long as no start overlaps it. `LoadInv` adds to `LoadIsExact` that no fork is
  in a shard's queue twice, or in the queue and owned (`PlacedInv`): without it
  adopting one would not keep the sum. `PhaseInv` is the two-phase start and
  stop of the shards.
* **Media bug.** A byte whose rate differs from the one it is played at was
  followed by a declaration in its own turn. For that, what waits in the buffer
  is of the present turn, and so is what was handed over unless a clear is still
  to be honoured (`TurnInv`); during a callback, what was declared by the time
  the format was read fits it or is explained (`FrameInv`). Buffer and ring hold
  whole samples as long as the sizes are (`AlignedInv`).
* **Configuration.** `SanitizeConfig` orders the bounds (`Ordered`) whatever it
  is given; from there it is arithmetic, from milliseconds to bytes (where
  rounding must keep the order) and from bytes to slabs.

### Hypotheses

* `NoSocketIsLeaked` assumes `~LateHandshakes` and `Hellos = {"valid"}`, as the
  run does: without the first the configuration `session_abandon`, without the
  second `session_hello_refused` and `session_hello_invalid` are what happens.
* `TextsKept` assumes finitely many callers, as it counts them.
* `AnyFileServesEveryFork` assumes rates the protocol admits (8000 to 48000).
  Numbers of the file are any integers, and those whose thousandfold overflows
  an `int` give any value.
* `SpscRing` states that `Capacity` is positive and divides `IndexSpan`. `Create`
  rounds the capacity up to a power of two and the indices wrap at one
  (`spsc_ring.hpp`); the provers know nothing of powers, so the model states
  what follows from it.

### Only model-checked

* Liveness: `SessionMovesOn`, `BufferDrains`, `PauseEnds`, `MarksAreSettled`,
  `CloseEnds`, `EveryWakeupCounts`, `LoadReturnsToZero`. Fairness is out of the
  prover's reach.
* `BackoffIsExponential`, by powers of two; `UrlsRoundTrip` and the parsing in
  `ServerTextsUnderstood`, by recursion over texts.

## Not modelled

* The JSON encoders and the text of events and of the status command: no state
  depends on them, except whether a hello can be encoded and fits, which
  `ForkSession` has as a choice.
* What a resampler does to samples, on either side; which byte arrives is
  modelled, not what it sounds like. So two things at the capture resampler are
  outside the models: it is made for one channel and fed both of a stereo fork
  (`mod_audio_fork.cpp:511`), and it has no owner left when the media bug cannot
  be added (`mod_audio_fork.cpp:532`).
  The playback channels a server declares are stored and read by nobody.
* TLS set-up: options handed to lws.
* `SetPaused`: a paused frame never enters the ring, which is the same as not
  pushing. `pause`, `modify` and `send_text` pass their call on to each
  registered fork; the calls are in `ForkSession`.
* Gauges that only the status command reads, other than `buffered_bytes_`.
* Builds, packaging and the rig.

Memory ordering is modelled as sequentially consistent; the ring's
acquire/release pairs publish each index after the bytes it covers, which is
the order the model has.

## Plan

1. Proofs: the parsing in `ServerTextsUnderstood` and `UrlsRoundTrip` once
   induction over sequences is available to the provers.
2. Models: `ForkSession` with a loop that stops while sessions live; late
   handshakes, and so two sockets at a time, in `Playback`.
