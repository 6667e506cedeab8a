------------------------------ MODULE Playback ------------------------------
(***************************************************************************)
(* The inbound audio of one fork: what the server sends is queued in the   *)
(* jitter buffer (core/src/jitter_buffer.cpp), handed to the media thread  *)
(* through a ring and played; `clear' is barge-in, `mark' names a position *)
(* in the stream, and the socket is paused between two watermarks          *)
(* (core/src/fork_session.cpp: OnBinary, PumpPlayback, HandleClear,        *)
(* ReadPlayback).                                                          *)
(*                                                                         *)
(* The shard thread runs one handler at a time but hands audio over chunk  *)
(* by chunk while the media thread reads.  A byte carries what was true    *)
(* when it arrived: how many clears and how many marks came before it.     *)
(***************************************************************************)
EXTENDS Integers, Sequences, FiniteSetsExt, Functions

CONSTANTS
  HighWatermark, LowWatermark,  \* playback_{high,low}_watermark_bytes
  HandoffBytes,                 \* playback_handoff_bytes
  RingBytes,                    \* the capacity of playback_ring_
  ReadBytes,                    \* size of the media thread's reads
  PoolDries,                    \* may the slab pool refuse the jitter buffer?
  ReadAhead,                    \* messages lws may still deliver from a paused socket
  MaxMessage, MaxBytes, MaxClears, MaxMarks, MaxReconnects, MaxModifies  \* bounds

ASSUME WatermarkAssumption ==
  /\ LowWatermark \in Nat /\ HighWatermark \in Nat /\ LowWatermark <= HighWatermark
  /\ HandoffBytes \in 1..RingBytes /\ ReadBytes \in Nat \ {0}
  /\ PoolDries \in BOOLEAN

ASSUME BoundsAssumption ==
  {RingBytes, ReadAhead, MaxMessage, MaxBytes, MaxClears, MaxMarks, MaxReconnects, MaxModifies}
    \subseteq Nat

VARIABLES
  buffer, muted, written, consumed, \* the jitter buffer: queue_, muted_, its offsets
  marks, reached,                   \* marks_ and reached_marks_, marks numbered as they come
  ring, generation, mediaGeneration,
  receivePaused,                    \* what the session believes of its socket
  socket,                           \* "none", "connecting" or "open"
  owned,                            \* connection_ is that socket, not null
  socketPaused, ahead,              \* its flow control; what it may still deliver while paused
  finished,                         \* Finalize has run
  pumping,                          \* the shard thread is in PumpPlayback's loop
  mediaPc, readFrom,                \* ReadPlayback, and the clears seen when it began
  received, clears, marked, clearedAt, reconnects, modifies,
  dropped,                          \* playback_bytes_dropped_
  emitted                           \* the mark events, in order

jitter == <<buffer, muted, written, consumed, marks>>
link == <<socket, owned, socketPaused, ahead, reconnects, modifies>>
media == <<mediaGeneration, mediaPc, readFrom>>
inputs == <<received, clears, marked, clearedAt>>
vars == <<jitter, reached, ring, generation, receivePaused, link, finished, pumping, media,
          inputs, dropped, emitted>>

\* The jitter buffer's backstop.
CapBytes == 2 * HighWatermark

Byte == [epoch : 0..MaxClears, after : 0..MaxMarks]
Mark == [offset : 0..MaxBytes, name : 1..MaxMarks]

TypeOK ==
  /\ buffer \in Seq(Byte) /\ Len(buffer) <= CapBytes /\ muted \in BOOLEAN
  /\ written \in 0..MaxBytes /\ consumed \in 0..written
  /\ marks \in Seq(Mark) /\ reached \in Seq(1..MaxMarks) /\ emitted \in Seq(1..MaxMarks)
  /\ ring \in Seq(Byte) /\ Len(ring) <= RingBytes
  /\ generation \in 0..MaxClears /\ mediaGeneration \in 0..generation
  /\ {receivePaused, owned, socketPaused, finished, pumping} \subseteq BOOLEAN
  /\ socket \in {"none", "connecting", "open"}
  /\ mediaPc \in {"idle", "discard", "pop"} /\ readFrom \in 0..clears
  /\ received \in 0..MaxBytes /\ clears \in 0..MaxClears /\ marked \in 0..MaxMarks
  /\ clearedAt \in 0..marked /\ reconnects \in 0..MaxReconnects /\ modifies \in 0..MaxModifies
  /\ ahead \in 0..ReadAhead /\ dropped \in 0..received

Init ==
  /\ buffer = <<>> /\ muted = FALSE /\ written = 0 /\ consumed = 0 /\ marks = <<>>
  /\ reached = <<>> /\ ring = <<>> /\ generation = 0 /\ receivePaused = FALSE
  /\ socket = "connecting" /\ owned = TRUE /\ socketPaused = FALSE /\ ahead = 0
  /\ reconnects = 0 /\ modifies = 0
  /\ finished = FALSE /\ pumping = FALSE
  /\ mediaGeneration = 0 /\ mediaPc = "idle" /\ readFrom = 0
  /\ received = 0 /\ clears = 0 /\ marked = 0 /\ clearedAt = 0 /\ dropped = 0
  /\ emitted = <<>>

-----------------------------------------------------------------------------
(* The socket, as lws serves it.                                           *)

\* A paused socket delivers nothing but what lws had already read; one that a
\* modify has left behind still delivers.
Delivers ==
  /\ ~pumping /\ socket = "open"
  /\ socketPaused => ahead > 0
  /\ ahead' = IF socketPaused THEN ahead - 1 ELSE ahead

SetReceivePaused(paused) ==
  /\ receivePaused' = paused
  /\ socketPaused' = paused
  /\ ahead' = IF paused THEN ReadAhead ELSE 0
  /\ UNCHANGED <<socket, owned, reconnects, modifies>>

\* A new socket starts out unpaused (Start, or the retry timer).
BeginConnect ==
  /\ ~pumping /\ socket = "none" /\ ~finished
  /\ socket' = "connecting" /\ owned' = TRUE
  /\ UNCHANGED <<jitter, reached, ring, generation, receivePaused, socketPaused, ahead,
                 reconnects, modifies, finished, pumping, media, inputs, dropped, emitted>>

\* Mutation of OnConnected: it does not end with Pump.
OnConnectedUnpumped ==
  /\ ~pumping /\ socket = "connecting" /\ owned
  /\ socket' = "open"
  /\ UNCHANGED <<jitter, reached, ring, generation, receivePaused, owned, socketPaused, ahead,
                 reconnects, modifies, finished, pumping, media, inputs, dropped, emitted>>

\* The handshake is complete: the hello, then Pump.  A connect that was given up
\* is taken not to complete (late handshakes are in ForkSession).
OnConnected ==
  /\ ~pumping /\ socket = "connecting" /\ owned
  /\ socket' = "open" /\ pumping' = TRUE
  /\ UNCHANGED <<jitter, reached, ring, generation, receivePaused, owned, socketPaused, ahead,
                 reconnects, modifies, finished, media, inputs, dropped, emitted>>

\* The socket is gone, or never came up; the session keeps receive_paused_.
OnClosed ==
  /\ ~pumping /\ socket # "none" /\ reconnects < MaxReconnects
  /\ socket' = "none" /\ owned' = FALSE /\ socketPaused' = FALSE /\ ahead' = 0
  /\ reconnects' = reconnects + 1
  /\ UNCHANGED <<jitter, reached, ring, generation, receivePaused, modifies, finished, pumping,
                 media, inputs, dropped, emitted>>

\* ApplyModify forgets the connection at once; its socket closes in its own time.
ApplyModify ==
  /\ ~pumping /\ owned /\ modifies < MaxModifies
  /\ owned' = FALSE /\ modifies' = modifies + 1
  /\ UNCHANGED <<jitter, reached, ring, generation, receivePaused, socket, socketPaused, ahead,
                 reconnects, finished, pumping, media, inputs, dropped, emitted>>

-----------------------------------------------------------------------------
(* Handlers of the shard thread.                                           *)

\* JitterBuffer::Append of n bytes when the pool takes at most `limit' of them.
Stored(n, limit) == IF muted THEN 0 ELSE Min({n, limit, CapBytes - Len(buffer)})

\* OnBinary up to its call of PumpPlayback.
OnBinary ==
  /\ Delivers
  /\ \E n \in 1..MaxMessage, limit \in 0..MaxMessage :
       /\ received + n <= MaxBytes
       /\ PoolDries \/ limit = MaxMessage
       /\ received' = received + n
       /\ buffer' = buffer \o [i \in 1..Stored(n, limit) |->
                                [epoch |-> clears, after |-> marked]]
       /\ written' = written + Stored(n, limit)
       /\ dropped' = IF muted THEN dropped ELSE dropped + n - Stored(n, limit)
  /\ pumping' = TRUE
  /\ UNCHANGED <<muted, consumed, marks, reached, ring, generation, receivePaused, socket, owned,
                 socketPaused, reconnects, modifies, finished, media, clears, marked, clearedAt,
                 emitted>>

\* The shard's tick calls PumpPlayback too.
Tick ==
  /\ ~pumping /\ pumping' = TRUE
  /\ UNCHANGED <<jitter, reached, ring, generation, receivePaused, link, finished, media,
                 inputs, dropped, emitted>>

\* JitterBuffer::Consume up to an offset reaches the marks at or before it.
Due(mark, offset) == mark.offset <= offset

\* It takes the first d of them: it stops at the first mark that is not due.
DueMarks(d, offset) ==
  /\ \A i \in 1..d : Due(marks[i], offset)
  /\ d < Len(marks) => ~Due(marks[d + 1], offset)

FreeBytes == RingBytes - Len(ring)

\* One turn of PumpPlayback's loop.  Peek returns one contiguous run, so any
\* length up to the handoff size may come, depending on the slab boundaries.
HandOver ==
  /\ pumping
  /\ \E n \in 1..Min({HandoffBytes, Len(buffer), FreeBytes}), d \in 0..Len(marks) :
       /\ ring' = ring \o SubSeq(buffer, 1, n)
       /\ buffer' = SubSeq(buffer, n + 1, Len(buffer))
       /\ consumed' = consumed + n
       /\ DueMarks(d, consumed + n)
       /\ reached' = reached \o [i \in 1..d |-> marks[i].name]
       /\ marks' = SubSeq(marks, d + 1, Len(marks))
  /\ UNCHANGED <<muted, written, generation, receivePaused, link, finished, pumping, media,
                 inputs, dropped, emitted>>

InFlight == Len(buffer) + Len(ring)

\* Mutation of BelowLow: the low watermark itself does not resume.
BelowLowStrictly == InFlight < LowWatermark

BelowLow == InFlight <= LowWatermark

AboveHigh == InFlight >= HighWatermark

\* Mutation of EmitReached: of several marks reached at once one is emitted.
EmitOneReached ==
  emitted' = emitted \o SubSeq(reached, 1, Min({1, Len(reached)})) /\ reached' = <<>>

\* TakeReachedMarks, and an event for each.
EmitReached == emitted' = emitted \o reached /\ reached' = <<>>

\* The end of PumpPlayback: nothing left, or the next run does not fit.  Marks
\* are emitted and, if there is a connection, the watermarks consulted.
PumpEnds ==
  /\ pumping /\ pumping' = FALSE
  /\ Min({HandoffBytes, Len(buffer)}) > FreeBytes \/ buffer = <<>>
  /\ EmitReached
  /\ IF owned /\ ~receivePaused /\ AboveHigh THEN SetReceivePaused(TRUE)
     ELSE IF owned /\ receivePaused /\ BelowLow THEN SetReceivePaused(FALSE)
     ELSE UNCHANGED <<receivePaused, link>>
  /\ UNCHANGED <<jitter, ring, generation, finished, media, inputs, dropped>>

\* Mutation of ClearJitter: the read position stays behind the discarded audio.
ClearJitterKeepsOffset ==
  /\ buffer' = <<>> /\ marks' = <<>>
  /\ muted' = TRUE
  /\ UNCHANGED <<consumed, written>>

\* Mutation of ClearJitter: audio still on the wire is accepted.
ClearJitterUnmuted ==
  /\ buffer' = <<>> /\ marks' = <<>>
  /\ consumed' = written
  /\ UNCHANGED <<muted, written>>

\* JitterBuffer::Clear.
ClearJitter ==
  /\ buffer' = <<>> /\ marks' = <<>>
  /\ consumed' = written
  /\ muted' = TRUE
  /\ UNCHANGED written

\* Mutation of BumpGeneration: the media thread is not told.
BumpNothing == UNCHANGED generation

BumpGeneration == generation' = generation + 1

\* HandleClear.
HandleClear ==
  /\ Delivers /\ clears < MaxClears
  /\ clears' = clears + 1
  /\ clearedAt' = marked
  /\ ClearJitter
  /\ BumpGeneration
  /\ receivePaused' = (receivePaused /\ ~owned)
  /\ socketPaused' = (socketPaused /\ ~(receivePaused /\ owned))
  /\ UNCHANGED <<reached, ring, socket, owned, reconnects, modifies, finished, pumping, media, received,
                 marked, dropped, emitted>>

\* HandleMark: a mark with no audio before it is reached at once.
HandleMark ==
  /\ Delivers /\ marked < MaxMarks
  /\ marked' = marked + 1
  /\ muted' = FALSE
  /\ IF written <= consumed
     THEN reached' = Append(reached, marked + 1) /\ UNCHANGED marks
     ELSE marks' = Append(marks, [offset |-> written, name |-> marked + 1]) /\ UNCHANGED reached
  /\ UNCHANGED <<buffer, written, consumed, ring, generation, receivePaused, socket,
                 owned, socketPaused, reconnects, modifies, finished, pumping, media, received,
                 clears, clearedAt, dropped, emitted>>

\* Finalize clears the jitter buffer and forgets the connection, which has closed
\* by then unless a modify had left it behind.
Finalize ==
  /\ ~pumping /\ ~finished /\ finished' = TRUE
  /\ ClearJitter
  /\ owned' = FALSE
  /\ IF owned THEN socket' = "none" /\ socketPaused' = FALSE /\ ahead' = 0
     ELSE UNCHANGED <<socket, socketPaused, ahead>>
  /\ UNCHANGED <<reached, ring, generation, receivePaused, reconnects, modifies, pumping, media,
                 inputs, dropped, emitted>>

-----------------------------------------------------------------------------
(* ReadPlayback, on the media thread.                                      *)

ReadBegins ==
  /\ mediaPc = "idle"
  /\ mediaGeneration' = generation
  /\ mediaPc' = IF generation = mediaGeneration THEN "pop" ELSE "discard"
  /\ readFrom' = clears
  /\ UNCHANGED <<jitter, reached, ring, generation, receivePaused, link, finished, pumping,
                 inputs, dropped, emitted>>

PopRing == ring' = SubSeq(ring, Min({ReadBytes, Len(ring)}) + 1, Len(ring))

\* After a barge-in the ring is emptied, and the read returns nothing.
Discard ==
  /\ mediaPc = "discard"
  /\ PopRing
  /\ mediaPc' = IF ring = <<>> THEN "idle" ELSE "discard"
  /\ UNCHANGED <<jitter, reached, generation, receivePaused, link, finished, pumping,
                 mediaGeneration, readFrom, inputs, dropped, emitted>>

Play ==
  /\ mediaPc = "pop" /\ mediaPc' = "idle"
  /\ PopRing
  /\ UNCHANGED <<jitter, reached, generation, receivePaused, link, finished, pumping,
                 mediaGeneration, readFrom, inputs, dropped, emitted>>

ReadPlayback == ReadBegins \/ Discard \/ Play
Pumps == Tick \/ HandOver \/ PumpEnds

Next ==
  \/ OnBinary \/ HandleClear \/ HandleMark \/ Finalize
  \/ BeginConnect \/ OnConnected \/ OnClosed \/ ApplyModify
  \/ Pumps \/ ReadPlayback

Spec == Init /\ [][Next]_vars

\* The shard ticks and the media bug is called for as long as the call lasts.
FairSpec == Spec /\ WF_vars(Pumps) /\ WF_vars(ReadPlayback)

-----------------------------------------------------------------------------
\* How many bytes the media thread takes off the ring in a step.
Popped == Len(ring) - Len(ring')

\* Barge-in within one frame: a read that begins after a clear never returns
\* audio from before it, although the ring still holds it (ReadPlayback's
\* generation check against HandleClear on the other thread).
NoStaleAudio ==
  [][mediaPc = "pop" => \A i \in 1..Popped : ring[i].epoch >= readFrom]_vars

\* What is buffered came after the last clear and after the first mark that
\* followed it: residue of the interrupted turn is not resurrected.
MutedUntilMark ==
  clears > 0 /\ ~finished =>
    \A b \in Range(buffer) : b.epoch = clears /\ b.after > clearedAt

\* Marks are reported at most once and in the order they came; a reported mark
\* has no audio waiting in front of it, and a mark that waits has: offsets
\* survive partial appends, refusals and clears.
MarksMatchAudio ==
  LET names == emitted \o reached \o [i \in DOMAIN marks |-> marks[i].name]
  IN  /\ \A i, j \in DOMAIN names : i < j => names[i] < names[j]
      /\ \A b \in Range(buffer), m \in Range(emitted \o reached) : m <= b.after
      /\ \A m \in Range(marks) : \E b \in Range(buffer) : b.after < m.name

\* The watermarks alone keep the jitter buffer within its cap: no audio of a
\* peer that honours backpressure is lost (ports.hpp:27-28).
NothingDropped == dropped = 0

\* The jitter buffer overflows only where flow control cannot help: on a socket
\* that a modify left behind and nobody pauses any more, with what lws had read
\* before the pause, with a message larger than the high watermark (OnBinary has
\* no limit), or after a reconnect that found receive_paused_ set from before
\* (PumpPlayback then takes the new socket for paused).  In particular it does
\* not on the first connection, nor when a modify brings a full buffer to a new
\* one, nor with the two watermarks equal.
OverflowIsExplained ==
  [][LET size == received' - received
     IN  dropped' > dropped /\ Len(buffer) + size > CapBytes =>
           \/ ~owned \/ socketPaused \/ size > HighWatermark
           \/ receivePaused /\ reconnects > 0]_vars

\* Audio discarded by the media thread is audio from before a clear: the turn
\* that a mark re-armed is played from its first byte (DESIGN.md:168-169).
NextTurnIsPlayed ==
  [][mediaPc = "discard" => \A i \in 1..Popped : ring[i].epoch < generation]_vars

\* The mark event is emitted when playback reaches the mark (DESIGN.md:169): no
\* audio from before the mark is still waiting in the ring.
MarkFollowsPlayback ==
  generation = mediaGeneration =>
    \A b \in Range(ring), m \in Range(emitted) : m <= b.after

\* A paused socket is resumed once enough has been played (PumpPlayback), unless
\* the session has given it up.
PauseEnds == receivePaused ~> ~receivePaused \/ ~owned

\* Every mark is reported in the end unless a clear came after it or the session
\* ended: none waits forever behind audio that is not played, none is lost.
MarksAreSettled ==
  \A m \in 1..MaxMarks :
    marked >= m ~> m \in Range(emitted) \/ clearedAt >= m \/ finished
=============================================================================
