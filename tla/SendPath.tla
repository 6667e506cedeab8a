------------------------------ MODULE SendPath ------------------------------
(***************************************************************************)
(* The outbound audio of one fork: the media thread's handoff ring, the    *)
(* send buffer (core/src/send_buffer.cpp) on slabs of the pool it shares   *)
(* with every other fork, and Pump, which moves the audio along and cuts   *)
(* the cap while the pool is dry (core/src/fork_session.cpp).              *)
(*                                                                         *)
(* Other forks live on other threads and take or return slabs between any  *)
(* two steps, in particular between the slabs one append takes or drops.   *)
(***************************************************************************)
EXTENDS SlabQueue

CONSTANTS
  PoolSlabs,     \* slabs the pool may lease in all
  RingBytes,     \* capacity of the handoff ring
  DrainChunk,    \* kDrainChunkBytes
  SendCap,       \* send_cap_bytes
  EmergencyCap,  \* emergency_cap_bytes; 0 disables degradation
  CoalesceMax,   \* coalesce_max_bytes
  MaxFrame,      \* largest frame the media thread pushes
  MaxBytes       \* bound on the audio pushed in all

\* SanitizeConfig keeps the emergency buffer within the send buffer.
ASSUME CapsAssumption ==
  /\ {PoolSlabs, RingBytes, DrainChunk, SendCap, CoalesceMax} \subseteq Nat \ {0}
  /\ EmergencyCap \in 0..SendCap
  /\ {MaxFrame, MaxBytes} \subseteq Nat

VARIABLES
  ring,       \* bytes in the handoff ring
  queue, cap, \* the send buffer: its SlabQueue and cap_bytes_
  slabs,      \* slabs the pool could still lease
  others,     \* slabs other forks hold
  pc,         \* where the shard thread is in Pump
  remaining,  \* of the bytes SendBuffer::Append was given, those not stored yet
  result,     \* the AppendResult it is building
  toDrop,     \* of the bytes SlabQueue::Consume was given, those still to go
  before,     \* the size of the queue when DropOldest was called
  sentThisTick,
  phase,      \* "open" while frames are accepted, then "draining", then "dead"
  admitted,   \* PushAudio has read an open state and has yet to push
  dropping, poolStarved, degraded,
  served,     \* the pool has filled a whole append since `degraded' was emitted
  pushed, sent, bufferDropped, discarded, \* byte counters
  gauge       \* buffered_bytes_, what the status command reports

pool == <<slabs, others>>
append == <<remaining, result>>
drop == <<toDrop, before>>
episode == <<dropping, poolStarved, degraded, served>>
counters == <<pushed, sent, bufferDropped, discarded>>
session == <<phase, admitted>>
vars == <<ring, queue, cap, pool, pc, append, drop, sentThisTick, session, episode, counters, gauge>>

\* Where SendBuffer is inside DropOldest: for the cap, for the pool, in SetCap.
DropPoints == {"excess", "reclaim", "shed"}

NoResult == [dropped |-> 0, exhausted |-> FALSE]

TypeOK ==
  /\ ring \in 0..RingBytes
  /\ queue \in Queue
  /\ cap \in {SendCap, EmergencyCap}
  /\ slabs \in Nat /\ others \in Nat
  /\ pc \in {"idle", "pop", "store", "appended", "flush"} \union DropPoints
  /\ remaining \in 0..DrainChunk /\ result \in [dropped : Nat, exhausted : BOOLEAN]
  /\ toDrop \in Nat /\ before \in Nat
  /\ sentThisTick \in 0..CoalesceMax
  /\ phase \in {"open", "draining", "dead"} /\ admitted \in BOOLEAN
  /\ dropping \in BOOLEAN /\ poolStarved \in BOOLEAN /\ degraded \in BOOLEAN /\ served \in BOOLEAN
  /\ pushed \in Nat /\ sent \in Nat /\ bufferDropped \in Nat /\ discarded \in Nat /\ gauge \in Nat

Init ==
  /\ ring = 0 /\ queue = EmptyQueue /\ cap = SendCap
  /\ slabs = PoolSlabs /\ others = 0
  /\ pc = "idle" /\ remaining = 0 /\ result = NoResult /\ sentThisTick = 0
  /\ toDrop = 0 /\ before = 0
  /\ phase = "open" /\ admitted = FALSE
  /\ dropping = FALSE /\ poolStarved = FALSE /\ degraded = FALSE /\ served = TRUE
  /\ pushed = 0 /\ sent = 0 /\ bufferDropped = 0 /\ discarded = 0 /\ gauge = 0

-----------------------------------------------------------------------------
(* Other threads.                                                          *)

\* PushAudio reads the state first and pushes later: the shard may have moved on.
AdmitAudio ==
  /\ phase = "open" /\ ~admitted /\ admitted' = TRUE
  /\ UNCHANGED <<ring, queue, cap, pool, pc, append, drop, sentThisTick, phase, episode, counters, gauge>>

\* A frame the ring has no room for is a media drop: it is never queued.
PushAudio ==
  /\ admitted /\ admitted' = FALSE
  /\ \E n \in 1..MaxFrame :
       /\ pushed + n <= MaxBytes
       /\ LET taken == IF ring + n <= RingBytes THEN n ELSE 0
          IN  ring' = ring + taken /\ pushed' = pushed + taken
  /\ UNCHANGED <<queue, cap, pool, pc, append, drop, sentThisTick, phase, episode, sent,
                 bufferDropped, discarded, gauge>>

OthersAcquire ==
  /\ slabs > 0
  /\ slabs' = slabs - 1 /\ others' = others + 1
  /\ UNCHANGED <<ring, queue, cap, pc, append, drop, sentThisTick, session, episode, counters, gauge>>

OthersRelease ==
  /\ others > 0
  /\ slabs' = slabs + 1 /\ others' = others - 1
  /\ UNCHANGED <<ring, queue, cap, pc, append, drop, sentThisTick, session, episode, counters, gauge>>

-----------------------------------------------------------------------------
(* The shard thread.                                                       *)

\* The queue becomes q; the slabs it gained or lost come from or go to the pool.
SetQueue(q) ==
  /\ queue' = q
  /\ slabs' = slabs + Len(queue.chunks) - Len(q.chunks)
  /\ UNCHANGED others

PumpBegins ==
  /\ pc = "idle" /\ pc' = "pop"
  /\ UNCHANGED <<ring, queue, cap, pool, append, drop, sentThisTick, session, episode, counters, gauge>>

\* SendBuffer::DropOldest(n): Consume is entered with what there is, at most.
DropOldest(n, at) ==
  /\ toDrop' = Min({n, queue.size})
  /\ before' = queue.size
  /\ pc' = at

\* A turn of Consume's loop: the slabs it drains go back one by one.
DropChunk ==
  /\ pc \in DropPoints /\ toDrop > 0 /\ queue.chunks # <<>>
  /\ SetQueue(Consumed(queue, toDrop))
  /\ toDrop' = toDrop - (queue.size - queue'.size)
  /\ UNCHANGED <<ring, cap, pc, append, before, sentThisTick, session, episode, counters, gauge>>

\* Consume returns; what DropOldest returns is Dropped.
DropReturns ==
  /\ toDrop = 0 \/ queue.chunks = <<>>
  /\ toDrop' = 0 /\ before' = 0

Dropped == IF pc \in DropPoints THEN before - queue.size ELSE 0

\* DrainHandoffRing pops a chunk; SendBuffer::Append keeps its newest bytes if
\* it exceeds the cap and drops the oldest queued ones to make room.
PopRing ==
  /\ pc = "pop"
  /\ LET count == Min({ring, DrainChunk})
         kept == Min({count, cap})
     IN  /\ ring' = ring - count
         /\ remaining' = kept
         /\ result' = [NoResult EXCEPT !.dropped = count - kept]
         /\ \/ count = 0 /\ pc' = "flush" /\ UNCHANGED drop
            \/ /\ count > 0 /\ queue.size + kept > cap
               /\ DropOldest(queue.size + kept - cap, "excess")
            \/ count > 0 /\ queue.size + kept <= cap /\ pc' = "store" /\ UNCHANGED drop
  /\ UNCHANGED <<queue, cap, pool, sentThisTick, session, episode, counters, gauge>>

ExcessDropped ==
  /\ pc = "excess" /\ pc' = "store"
  /\ DropReturns
  /\ result' = [result EXCEPT !.dropped = @ + Dropped]
  /\ UNCHANGED <<ring, queue, cap, pool, remaining, sentThisTick, session, episode, counters, gauge>>

\* A turn of SlabQueue::Append's loop that has a chunk to write to.
Store ==
  /\ pc = "store" /\ (NeedsChunk(queue) => slabs > 0)
  /\ SetQueue(Appended(queue, remaining))
  /\ remaining' = remaining - (queue'.size - queue.size)
  /\ pc' = IF remaining' = 0 THEN "appended" ELSE "store"
  /\ UNCHANGED <<ring, cap, result, drop, sentThisTick, session, episode, counters, gauge>>

\* One that has none, the pool being exhausted: drop the oldest and retry.
MakeRoom ==
  /\ pc = "store" /\ NeedsChunk(queue) /\ slabs = 0
  /\ result' = [result EXCEPT !.exhausted = TRUE]
  /\ DropOldest(remaining, "reclaim")
  /\ UNCHANGED <<ring, queue, cap, pool, remaining, sentThisTick, session, episode, counters, gauge>>

\* Mutation of Lost: what could not be stored at all is not counted.
LostReclaimedOnly(reclaimed) == reclaimed

\* Bytes a full pool costs: what was reclaimed, or the rest of the new audio
\* when there was nothing left to reclaim.
Lost(reclaimed) == IF reclaimed = 0 THEN remaining ELSE reclaimed

\* Retry with the room made, or give up if there was none to make.
Reclaimed ==
  /\ pc = "reclaim" /\ pc' = IF Dropped = 0 THEN "appended" ELSE "store"
  /\ DropReturns
  /\ result' = [result EXCEPT !.dropped = @ + Lost(Dropped)]
  /\ remaining' = IF Dropped = 0 THEN 0 ELSE remaining
  /\ UNCHANGED <<ring, queue, cap, pool, sentThisTick, session, episode, counters, gauge>>

\* DegradeIfNewEpisode acts once per episode.
Degrades == result.exhausted /\ EmergencyCap # 0 /\ ~degraded

\* Mutation of Shed: the new cap only binds the appends to come.
ShedNothing == 0

\* SetCap drops the oldest bytes beyond the new cap at once.
Shed == Max({0, queue.size - EmergencyCap})

\* The append came back short: cut the cap and shed what no longer fits.
Degrade ==
  /\ pc = "appended" /\ Degrades
  /\ poolStarved' = TRUE
  /\ degraded' = TRUE /\ served' = FALSE
  /\ cap' = EmergencyCap
  /\ DropOldest(Shed, "shed")
  /\ UNCHANGED <<ring, queue, pool, append, sentThisTick, session, dropping, counters, gauge>>

\* The rest of DrainHandoffRing's loop body.
Settle ==
  /\ pc = "shed" \/ (pc = "appended" /\ ~Degrades)
  /\ pc' = "pop"
  /\ DropReturns
  /\ poolStarved' = result.exhausted
  /\ served' = (served \/ ~result.exhausted)
  /\ bufferDropped' = bufferDropped + Dropped + result.dropped
  /\ gauge' = queue.size
  /\ dropping' = (result.dropped > 0)
  /\ result' = NoResult
  /\ UNCHANGED <<ring, queue, cap, pool, remaining, sentThisTick, session, degraded, pushed, sent,
                 discarded>>

\* One SendBinary of FlushToConnection that the socket takes.  What Peek gave
\* lies in the first chunk, so Consume's loop turns once.
FlushChunk ==
  /\ pc = "flush" /\ phase # "dead"
  /\ queue.size > 0 /\ sentThisTick < CoalesceMax
  /\ LET n == Peek(queue, CoalesceMax - sentThisTick)
     IN  /\ n > 0
         /\ SetQueue(Consumed(queue, n))
         /\ sentThisTick' = sentThisTick + n
         /\ sent' = sent + n
  /\ UNCHANGED <<ring, cap, pc, append, drop, session, episode, pushed, bufferDropped, discarded, gauge>>

\* Mutation of Recovered: an empty buffer is taken for recovery.
RecoveredWhenEmpty == degraded /\ queue.size = 0

\* RestoreCapIfDrained.
Recovered == degraded /\ ~poolStarved /\ queue.size = 0

\* Mutation of GaugeAfterFlush: the gauge is only kept by the appends.
GaugeUntouched == {gauge}

\* A flush that runs to its end stores the gauge; one the socket cuts short
\* does not, nor does a state without a flush.
GaugeAfterFlush ==
  IF queue.size = 0 \/ sentThisTick = CoalesceMax
  THEN IF sentThisTick > 0 THEN {queue.size} ELSE {gauge, queue.size}
  ELSE {gauge}

\* The flush ends: nothing left, a tick's worth sent, the socket refuses, or
\* the state does not flush at all.  Only an active session restores its cap.
PumpEnds ==
  /\ pc = "flush" /\ pc' = "idle"
  /\ sentThisTick' = 0
  /\ gauge' \in GaugeAfterFlush
  /\ \E active \in {FALSE, phase = "open"} :
       /\ cap' = IF active /\ Recovered THEN SendCap ELSE cap
       /\ degraded' = (degraded /\ ~(active /\ Recovered))
  /\ UNCHANGED <<ring, queue, pool, append, drop, session, dropping, poolStarved, served, counters>>

\* BeginDrain: no new frame is accepted, what is buffered still goes out.
BeginDrain ==
  /\ pc = "idle" /\ phase = "open" /\ phase' = "draining"
  /\ UNCHANGED <<ring, queue, cap, pool, pc, append, drop, sentThisTick, admitted, episode, counters, gauge>>

\* Finalize clears the buffer.  Pump runs at least once more after it.
Finalize ==
  /\ pc = "idle" /\ phase # "dead" /\ phase' = "dead"
  /\ SetQueue(EmptyQueue)
  /\ discarded' = discarded + queue.size
  /\ UNCHANGED <<ring, cap, pc, append, drop, sentThisTick, admitted, episode, pushed, sent,
                 bufferDropped, gauge>>

PumpStep ==
  \/ PumpBegins \/ PopRing \/ DropChunk \/ ExcessDropped \/ Store \/ MakeRoom \/ Reclaimed
  \/ Degrade \/ Settle \/ FlushChunk \/ PumpEnds

Next ==
  \/ AdmitAudio \/ PushAudio \/ OthersAcquire \/ OthersRelease
  \/ PumpStep \/ BeginDrain \/ Finalize

Spec == Init /\ [][Next]_vars

\* The shard ticks forever, and the peer takes a message infinitely often.
FairSpec == Spec /\ WF_vars(PumpStep) /\ SF_vars(FlushChunk)

-----------------------------------------------------------------------------
\* Every byte the media thread handed over is in the ring, in Append, in the
\* buffer, was sent, or was counted as dropped (or cleared by Finalize): the
\* gap accounting of DESIGN.md section 5 has no hole, whatever other forks do
\* to the pool during an append.
BytesConserved ==
  pushed = ring + remaining + Dropped + result.dropped + queue.size + sent + bufferDropped + discarded

\* Between two appends the buffer is within the cap in force, the emergency cap
\* included (SendBuffer::Append, SetCap), and the gauge operators watch never
\* shows less than is buffered nor more than the cap allows.
GaugeCoversBuffer ==
  pc \in {"idle", "pop", "flush"} => queue.size <= cap /\ queue.size <= gauge /\ gauge <= SendCap

\* Every slab is leased to this fork's queue, to another fork, or in the pool,
\* and none is held for nothing: no path through the retry loop loses a slab or
\* strands one without bytes in it.
SlabsConserved == slabs + others + Len(queue.chunks) = PoolSlabs /\ WellFormed(queue)

\* The degraded event is not repeated while the pool stays dry: between two of
\* them some append got all the slabs it needed (fork_session.cpp:541-543).
DegradedOncePerEpisode == [][~degraded /\ degraded' => served]_vars

\* As long as the peer keeps reading, buffered audio does not stay buffered
\* (Pump, FlushToConnection), Append's retry loop always comes to an end, and a
\* gauge left too high by a flush the socket cut short is put right.
BufferDrains ==
  queue.size > 0 \/ gauge > 0 ~> (queue.size = 0 /\ gauge = 0) \/ phase = "dead"
=============================================================================
