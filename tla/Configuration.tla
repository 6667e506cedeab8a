---------------------------- MODULE Configuration ----------------------------
(***************************************************************************)
(* What the module computes from audio_fork.conf.xml: the configuration it  *)
(* reads and clamps, the tuning of a fork's buffers, the slabs a fork must  *)
(* find free, and the delays between its reconnects.  Durations are in      *)
(* milliseconds.  Pool sizes are in pages of 4 KB, which divides all of     *)
(* them.                                                                    *)
(***************************************************************************)
EXTENDS Integers

kMaxShards == 16
kMinBuffer == 100
kMaxBuffer == 60000
kMinCoalesce == 20
PageBytes == 4096
PagesPerMB == 256

\* std::min, std::max and std::clamp.
AtMost(v, hi) == IF v > hi THEN hi ELSE v
AtLeast(v, lo) == IF v < lo THEN lo ELSE v

\* Mutation of Clamp: the upper bound is forgotten.
ClampBelow(v, lo, hi) == AtLeast(v, lo)

Clamp(v, lo, hi) == AtMost(AtLeast(v, lo), hi)

\* ModuleConfig.  A certificate file is set or it is empty.
ModuleConfig ==
  [shard_count : Nat, send_buffer : Int, handoff_buffer : Int, coalesce_max : Int,
   emergency_buffer : Int, drain_timeout : Int, playback_high_watermark : Int,
   playback_low_watermark : Int, reconnect_min : Int, reconnect_max : Int,
   slab_size : Nat, global_memory_cap : Nat, max_forks_per_call : Nat,
   cert_file : BOOLEAN, key_file : BOOLEAN]

Defaults ==
  [shard_count |-> 0, send_buffer |-> 10000, handoff_buffer |-> 1000, coalesce_max |-> 100,
   emergency_buffer |-> 2000, drain_timeout |-> 2000, playback_high_watermark |-> 10000,
   playback_low_watermark |-> 2000, reconnect_min |-> 250, reconnect_max |-> 5000,
   slab_size |-> 16, global_memory_cap |-> 1536 * PagesPerMB, max_forks_per_call |-> 4,
   cert_file |-> FALSE, key_file |-> FALSE]

\* The clamps of SanitizeConfig in their order: a bound that is itself a field
\* has been clamped before it is used.
SanitizeConfig(c) ==
  LET send     == Clamp(c.send_buffer, kMinBuffer, kMaxBuffer)
      handoff  == Clamp(c.handoff_buffer, kMinCoalesce, send)
      high     == Clamp(c.playback_high_watermark, kMinCoalesce, kMaxBuffer)
      minDelay == AtLeast(c.reconnect_min, 1)
      slab     == AtLeast(c.slab_size, 1)
  IN  [shard_count |-> AtMost(c.shard_count, kMaxShards),
       send_buffer |-> send,
       handoff_buffer |-> handoff,
       coalesce_max |-> Clamp(c.coalesce_max, kMinCoalesce, handoff),
       emergency_buffer |-> Clamp(c.emergency_buffer, kMinCoalesce, send),
       drain_timeout |-> AtLeast(c.drain_timeout, 0),
       playback_high_watermark |-> high,
       playback_low_watermark |-> Clamp(c.playback_low_watermark, 0, high),
       reconnect_min |-> minDelay,
       reconnect_max |-> AtLeast(c.reconnect_max, minDelay),
       slab_size |-> slab,
       global_memory_cap |-> AtLeast(c.global_memory_cap, slab * 16),
       max_forks_per_call |-> Clamp(c.max_forks_per_call, 1, 8),
       cert_file |-> c.cert_file /\ c.key_file,
       key_file |-> c.cert_file /\ c.key_file]

-----------------------------------------------------------------------------

\* bps * ms / 1000, split so that no product leaves 32 bits.
BytesForDuration(format, ms) ==
  LET bps == format.sample_rate * format.channels * 2
  IN  (bps \div 1000) * ms + ((bps % 1000) * ms) \div 1000

\* The tuning of a fork.  Playback is sized in mono at the fork's rate.
MakeTuning(c, format) ==
  LET mono == [sample_rate |-> format.sample_rate, channels |-> 1]
  IN  [send_cap_bytes |-> BytesForDuration(format, c.send_buffer),
       handoff_bytes |-> BytesForDuration(format, c.handoff_buffer),
       coalesce_max_bytes |-> BytesForDuration(format, c.coalesce_max),
       emergency_cap_bytes |-> BytesForDuration(format, c.emergency_buffer),
       playback_high_watermark_bytes |-> BytesForDuration(mono, c.playback_high_watermark),
       playback_low_watermark_bytes |-> BytesForDuration(mono, c.playback_low_watermark),
       playback_handoff_bytes |-> BytesForDuration(mono, c.coalesce_max)]

\* The slabs that must be free for a fork to start.
MinimumSlabs(tuning, slabBytes) ==
  (tuning.coalesce_max_bytes + slabBytes - 1) \div slabBytes + 1

\* ForkSession::Create refuses a fork with a buffer of no bytes.
Creatable(tuning) ==
  tuning.send_cap_bytes > 0 /\ tuning.handoff_bytes > 0 /\ tuning.coalesce_max_bytes > 0

\* The session has a playback path.
HasPlayback(tuning) ==
  tuning.playback_high_watermark_bytes > 0 /\ tuning.playback_handoff_bytes > 0

-----------------------------------------------------------------------------

\* Mutation of Base: the maximum is not applied.
BaseUncapped(c, current) == current

\* ReconnectBackoff with multiplier 2 and jitter 1/4: the base of the next
\* delay, current_ after it, and the delay at both ends of the jitter and
\* without any.
Base(c, current) == AtMost(current, c.reconnect_max)

Grown(c, current) == Base(c, current) * 2

NextDelays(c, current) ==
  LET base == Base(c, current)
  IN  {AtLeast((3 * base) \div 4, 1), base, (5 * base) \div 4}

=============================================================================
