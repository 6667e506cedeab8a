------------------------------ MODULE MediaBug ------------------------------
(***************************************************************************)
(* The WRITE_REPLACE callback of a fork's media bug: it reads the format    *)
(* the server declared, sees to a resampler for that rate, and takes a      *)
(* frame's worth of audio from the playback ring, while the shard applies   *)
(* the server's messages.  Every byte carries what the server had declared  *)
(* and cleared when it came; marks and flow control are left to Playback.   *)
(***************************************************************************)
EXTENDS Integers, Sequences, FiniteSetsExt

CONSTANTS
  PlaybackRates,  \* what a server declares
  ForkRate,       \* the fork's own rate, until it does
  SessionRate,    \* ForkBug::session_rate
  FrameBytes,     \* datalen of a frame to replace
  ScratchBytes,   \* size of playback_scratch
  HandoffBytes,   \* playback_handoff_bytes
  JitterBytes,    \* the jitter buffer's cap, twice the high watermark
  PlaybackRing,   \* capacity of the ring
  MaxDeclared,    \* bound: declarations
  MaxClears,      \* bound: clears
  MaxSamples      \* bound: samples the server sends

ASSUME MediaBugAssumption ==
  /\ (PlaybackRates \cup {ForkRate}) \subseteq Nat \ {0} /\ SessionRate \in Nat \ {0}
  /\ \A bytes \in {FrameBytes, ScratchBytes, JitterBytes} : bytes \in Nat /\ bytes % 2 = 0
  /\ HandoffBytes \in Nat \ {0} /\ PlaybackRing \in Nat

VARIABLES
  rate,        \* playback_rate_
  declaredIn,  \* history: for every declaration, the clears before it
  muted,       \* the jitter buffer drops what comes, until a mark
  generation,  \* playback_generation_
  seen,        \* media_playback_generation_
  waiting,     \* playback_: the bytes in it, each as it was sent
  handed,      \* playback_ring_: the bytes in it
  samples,     \* samples sent so far
  at,          \* where the callback is: "idle", "read", "discard" or "pop"
  resampler,   \* the rate playback_resampler was made for, 0 if there is none
  frame        \* the read under way, then what it put into the frame

server == <<rate, declaredIn, muted, generation, waiting, samples>>
callback == <<seen, at, resampler, frame>>
bugVars == <<server, callback, handed>>

\* How many declarations there were.
declared == Len(declaredIn)

NoFrame == [declared |-> 0, format |-> SessionRate, bytes |-> <<>>]

BugInit ==
  /\ rate = ForkRate /\ declaredIn = <<>>
  /\ muted = FALSE /\ generation = 0 /\ seen = 0
  /\ waiting = <<>> /\ handed = <<>> /\ samples = 0
  /\ at = "idle" /\ resampler = 0 /\ frame = NoFrame

-----------------------------------------------------------------------------
(* The shard thread.                                                       *)

\* HandlePlaybackStart; a message without a rate leaves it.  The channels it
\* stores are read by nobody.
HandlePlaybackStart ==
  /\ declared < MaxDeclared
  /\ rate' \in PlaybackRates \cup {rate} /\ declaredIn' = Append(declaredIn, generation)
  /\ UNCHANGED <<muted, generation, waiting, samples, handed, callback>>

\* HandleClear empties the buffer and leaves what was handed over to the reader,
\* by the generation; a mark arms playback again.
Clear ==
  /\ generation < MaxClears
  /\ generation' = generation + 1 /\ muted' = TRUE /\ waiting' = <<>>
  /\ UNCHANGED <<rate, declaredIn, samples, handed, callback>>

Rearm ==
  /\ muted /\ muted' = FALSE
  /\ UNCHANGED <<rate, declaredIn, generation, waiting, samples, handed, callback>>

\* JitterBuffer::Append of a sample, its low byte and then its high one: what is
\* above the cap is lost.
OnBinary ==
  /\ ~muted /\ samples < MaxSamples
  /\ samples' = samples + 1
  /\ LET byte(half) == [rate |-> rate, declared |-> declared, epoch |-> generation, half |-> half]
     IN  waiting' = waiting \o SubSeq(<<byte(1), byte(2)>>, 1, Min({2, JitterBytes - Len(waiting)}))
  /\ UNCHANGED <<rate, declaredIn, muted, generation, handed, callback>>

\* One turn of PumpPlayback's loop: a run of the hand-off size, or less where
\* the buffer or a slab of it ends, which is the end of a sample.
HandOver ==
  \E n \in 1..Min({HandoffBytes, Len(waiting)}) :
    /\ n \in {HandoffBytes, Len(waiting)} \/ waiting[n].half = 2
    /\ Len(handed) + n <= PlaybackRing
    /\ handed' = handed \o SubSeq(waiting, 1, n)
    /\ waiting' = SubSeq(waiting, n + 1, Len(waiting))
    /\ UNCHANGED <<rate, declaredIn, muted, generation, samples, callback>>

-----------------------------------------------------------------------------
(* The media thread.                                                       *)

\* Mutation of Ensured: a resampler there is will do.
EnsuredOnce(format) ==
  IF format = SessionRate THEN {0} ELSE IF resampler # 0 THEN {resampler} ELSE {0, format}

\* EnsurePlaybackResampler: the resampler after it.  The library may fail to
\* make one.
Ensured(format) ==
  IF format = SessionRate THEN {0} ELSE IF resampler = format THEN {format} ELSE {0, format}

\* The format is read and the resampler seen to; without one where one is
\* needed the frame is left alone.
ReadFormat ==
  /\ at = "idle"
  /\ resampler' \in Ensured(rate)
  /\ at' = IF resampler' = 0 /\ rate # SessionRate THEN "idle" ELSE "read"
  /\ frame' = [declared |-> declared, format |-> rate, bytes |-> <<>>]
  /\ UNCHANGED <<server, seen, handed>>

\* How many bytes of playback make up a frame.
Wanted ==
  IF resampler = 0 THEN FrameBytes
  ELSE Min({Max({(FrameBytes * frame.format) \div SessionRate, 2}), ScratchBytes})

\* ReadPlayback looks for a clear.
ReadPlayback ==
  /\ at = "read"
  /\ at' = IF generation = seen THEN "pop" ELSE "discard"
  /\ seen' = generation
  /\ UNCHANGED <<server, handed, resampler, frame>>

\* What is in the ring is discarded a span at a time.
DiscardHanded ==
  /\ at = "discard"
  /\ at' = IF handed = <<>> THEN "idle" ELSE "discard"
  /\ handed' = SubSeq(handed, Wanted + 1, Len(handed))
  /\ UNCHANGED <<server, seen, resampler, frame>>

\* The frame gets what there is.
PopHanded ==
  /\ at = "pop" /\ at' = "idle"
  /\ frame' = [frame EXCEPT !.bytes = SubSeq(handed, 1, Min({Wanted, Len(handed)}))]
  /\ handed' = SubSeq(handed, Wanted + 1, Len(handed))
  /\ UNCHANGED <<server, seen, resampler>>

BugNext ==
  \/ HandlePlaybackStart \/ Clear \/ Rearm \/ OnBinary \/ HandOver
  \/ ReadFormat \/ ReadPlayback \/ DiscardHanded \/ PopHanded

BugSpec == BugInit /\ [][BugNext]_bugVars

-----------------------------------------------------------------------------
\* The rate the bytes of the frame are played at.
PlayedAt == IF resampler = 0 THEN SessionRate ELSE resampler

\* Playback arrives at whatever rate the server declared, which may change
\* (mod_audio_fork.cpp:259-260): whatever was sent before the callback read the
\* format is played at the rate it was sent at.
PlayedAtItsRate ==
  at = "idle" => \A i \in DOMAIN frame.bytes :
    frame.bytes[i].declared <= frame.declared => frame.bytes[i].rate = PlayedAt

\* Binary frames are L16 PCM (DESIGN.md:149): a frame begins with the first
\* byte of a sample, so the bytes of different samples never pair up.
SamplesStayAligned == frame.bytes # <<>> => frame.bytes[1].half = 1

\* The byte was sent at the rate, or a declaration came behind it, no later than
\* the d-th and with no clear in between.
RateExplained(byte, d, played) ==
  byte.rate = played \/ \E k \in byte.declared + 1..d : declaredIn[k] = byte.epoch

\* The hand-off size and what a callback takes, at whichever rate, are whole
\* samples.
WholeSamples ==
  /\ HandoffBytes % 2 = 0
  /\ \A r \in PlaybackRates \cup {ForkRate} : ((FrameBytes * r) \div SessionRate) % 2 = 0

\* What comes of audio while declarations, clears, marks and a full buffer race
\* the callback, and a resampler is remade or found wanting in between (OnMediaBug
\* against HandleClear, HandlePlaybackStart, PumpPlayback).  Audio is played at
\* the rate it was sent at, unless the server declared another behind it in the
\* same turn: a clear parts the rates of two turns, although it leaves the old
\* turn's audio in the ring.  And where the sizes are whole samples, no drop, run
\* or discard ever splits one.
PlayedAsDeclared ==
  /\ at = "idle" => \A i \in DOMAIN frame.bytes :
       frame.bytes[i].declared <= frame.declared =>
         RateExplained(frame.bytes[i], frame.declared, PlayedAt)
  /\ WholeSamples => SamplesStayAligned

=============================================================================
