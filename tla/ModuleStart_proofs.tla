------------------------- MODULE ModuleStart_proofs -------------------------
(***************************************************************************)
(* What loading the module promises for every file, every rate and every    *)
(* size, and not only for the few a run explores: a sanitized configuration *)
(* orders its bounds and serves every kind of fork, a media bug plays audio *)
(* at the rate it was sent at, and the slab pool keeps its account and its  *)
(* cap.                                                                     *)
(***************************************************************************)
EXTENDS ModuleStart, SequenceTheorems, FiniteSetTheorems, TLAPS

-----------------------------------------------------------------------------
(* The configuration.                                                      *)

\* The bounds depend on each other: each buffer is at least the smallest
\* flush and at most the buffer it is emptied into, the low watermark is not
\* above the high one, nor the first reconnect delay above the last, and the
\* pool holds sixteen slabs.
Ordered(c) ==
  /\ c.shard_count <= kMaxShards
  /\ kMinCoalesce <= c.coalesce_max /\ c.coalesce_max <= c.handoff_buffer
  /\ c.handoff_buffer <= c.send_buffer
  /\ kMinBuffer <= c.send_buffer /\ c.send_buffer <= kMaxBuffer
  /\ kMinCoalesce <= c.emergency_buffer /\ c.emergency_buffer <= c.send_buffer
  /\ 0 <= c.playback_low_watermark
  /\ c.playback_low_watermark <= c.playback_high_watermark
  /\ kMinCoalesce <= c.playback_high_watermark /\ c.playback_high_watermark <= kMaxBuffer
  /\ 0 <= c.drain_timeout
  /\ 1 <= c.reconnect_min /\ c.reconnect_min <= c.reconnect_max
  /\ 1 <= c.slab_size /\ 16 * c.slab_size <= c.global_memory_cap
  /\ 1 <= c.max_forks_per_call /\ c.max_forks_per_call <= 8
  /\ c.cert_file = c.key_file

\* SanitizeConfig keeps the type of a configuration and orders its bounds,
\* whatever they were.
THEOREM SanitizedIsOrdered ==
  ASSUME NEW c \in ModuleConfig
  PROVE  SanitizeConfig(c) \in ModuleConfig /\ Ordered(SanitizeConfig(c))
<1> DEFINE s == SanitizeConfig(c)
<1>1. /\ c.send_buffer \in Int /\ c.handoff_buffer \in Int /\ c.coalesce_max \in Int
      /\ c.emergency_buffer \in Int /\ c.playback_high_watermark \in Int
      /\ c.playback_low_watermark \in Int /\ c.max_forks_per_call \in Nat
  BY DEF ModuleConfig
<1>2. /\ s.send_buffer = Clamp(c.send_buffer, kMinBuffer, kMaxBuffer)
      /\ s.handoff_buffer = Clamp(c.handoff_buffer, kMinCoalesce, s.send_buffer)
      /\ s.coalesce_max = Clamp(c.coalesce_max, kMinCoalesce, s.handoff_buffer)
      /\ s.emergency_buffer = Clamp(c.emergency_buffer, kMinCoalesce, s.send_buffer)
  BY Zenon DEF SanitizeConfig
<1>3. /\ s.playback_high_watermark = Clamp(c.playback_high_watermark, kMinCoalesce, kMaxBuffer)
      /\ s.playback_low_watermark = Clamp(c.playback_low_watermark, 0, s.playback_high_watermark)
      /\ s.max_forks_per_call = Clamp(c.max_forks_per_call, 1, 8)
  BY Zenon DEF SanitizeConfig
<1>4. /\ s.reconnect_min \in Int /\ s.reconnect_max \in Int /\ s.drain_timeout \in Int
      /\ 0 <= s.drain_timeout
      /\ 1 <= s.reconnect_min /\ s.reconnect_min <= s.reconnect_max
  <2>1. c.reconnect_min \in Int /\ c.reconnect_max \in Int /\ c.drain_timeout \in Int
    BY DEF ModuleConfig
  <2>2. /\ s.drain_timeout = AtLeast(c.drain_timeout, 0)
        /\ s.reconnect_min = AtLeast(c.reconnect_min, 1)
        /\ s.reconnect_max = AtLeast(c.reconnect_max, s.reconnect_min)
    BY Zenon DEF SanitizeConfig
  <2> HIDE DEF s
  <2> QED BY <2>1, <2>2 DEF AtLeast
<1>5. /\ s.slab_size \in Nat /\ s.global_memory_cap \in Nat
      /\ 1 <= s.slab_size /\ 16 * s.slab_size <= s.global_memory_cap
  <2>1. c.slab_size \in Nat /\ c.global_memory_cap \in Nat
    BY DEF ModuleConfig
  <2>2. /\ s.slab_size = AtLeast(c.slab_size, 1)
        /\ s.global_memory_cap = AtLeast(c.global_memory_cap, s.slab_size * 16)
    BY Zenon DEF SanitizeConfig
  <2> HIDE DEF s
  <2> QED BY <2>1, <2>2 DEF AtLeast
<1>6. s.shard_count \in Nat /\ s.shard_count <= kMaxShards
  BY SMTT(30) DEF SanitizeConfig, AtMost, ModuleConfig, kMaxShards
<1>7. s.cert_file = (c.cert_file /\ c.key_file) /\ s.key_file = (c.cert_file /\ c.key_file)
  BY Zenon DEF SanitizeConfig
<1>8. s.cert_file \in BOOLEAN /\ s.cert_file = s.key_file
  BY <1>7, Zenon
<1>9. s = [shard_count |-> s.shard_count, send_buffer |-> s.send_buffer,
           handoff_buffer |-> s.handoff_buffer, coalesce_max |-> s.coalesce_max,
           emergency_buffer |-> s.emergency_buffer, drain_timeout |-> s.drain_timeout,
           playback_high_watermark |-> s.playback_high_watermark,
           playback_low_watermark |-> s.playback_low_watermark,
           reconnect_min |-> s.reconnect_min, reconnect_max |-> s.reconnect_max,
           slab_size |-> s.slab_size, global_memory_cap |-> s.global_memory_cap,
           max_forks_per_call |-> s.max_forks_per_call,
           cert_file |-> s.cert_file, key_file |-> s.key_file]
  BY Zenon DEF SanitizeConfig
<1> HIDE DEF s
<1> USE DEF kMinBuffer, kMaxBuffer, kMinCoalesce, Clamp, AtMost, AtLeast
<1>send. s.send_buffer \in Int /\ kMinBuffer <= s.send_buffer /\ s.send_buffer <= kMaxBuffer
  BY <1>1, <1>2
<1>handoff. /\ s.handoff_buffer \in Int
            /\ kMinCoalesce <= s.handoff_buffer /\ s.handoff_buffer <= s.send_buffer
  BY <1>1, <1>2, <1>send
<1>coalesce. /\ s.coalesce_max \in Int
             /\ kMinCoalesce <= s.coalesce_max /\ s.coalesce_max <= s.handoff_buffer
  BY <1>1, <1>2, <1>handoff
<1>emergency. /\ s.emergency_buffer \in Int
              /\ kMinCoalesce <= s.emergency_buffer /\ s.emergency_buffer <= s.send_buffer
  BY <1>1, <1>2, <1>send
<1>high. /\ s.playback_high_watermark \in Int
         /\ kMinCoalesce <= s.playback_high_watermark /\ s.playback_high_watermark <= kMaxBuffer
  BY <1>1, <1>3
<1>low. /\ s.playback_low_watermark \in Int
        /\ 0 <= s.playback_low_watermark
        /\ s.playback_low_watermark <= s.playback_high_watermark
  BY <1>1, <1>3, <1>high
<1>forks. /\ s.max_forks_per_call \in Nat
          /\ 1 <= s.max_forks_per_call /\ s.max_forks_per_call <= 8
  BY <1>1, <1>3
<1>10. Ordered(s)
  BY <1>send, <1>handoff, <1>coalesce, <1>emergency, <1>high, <1>low, <1>forks,
     <1>4, <1>5, <1>6, <1>8 DEF Ordered
<1>11. s \in ModuleConfig
  <2>1. s.key_file \in BOOLEAN
    BY <1>8, Zenon
  <2> QED BY <1>send, <1>handoff, <1>coalesce, <1>emergency, <1>high, <1>low, <1>forks,
             <1>4, <1>5, <1>6, <1>8, <1>9, <2>1 DEF ModuleConfig
<1> QED BY <1>10, <1>11 DEF s

\* A configuration whose bounds are ordered is left as it is; so what
\* SanitizeConfig returned once it returns again.
THEOREM OrderedIsKept ==
  ASSUME NEW c \in ModuleConfig, Ordered(c)
  PROVE  SanitizeConfig(c) = c
<1>1. /\ AtMost(c.shard_count, kMaxShards) = c.shard_count
      /\ Clamp(c.send_buffer, kMinBuffer, kMaxBuffer) = c.send_buffer
      /\ Clamp(c.handoff_buffer, kMinCoalesce, c.send_buffer) = c.handoff_buffer
      /\ Clamp(c.coalesce_max, kMinCoalesce, c.handoff_buffer) = c.coalesce_max
      /\ Clamp(c.emergency_buffer, kMinCoalesce, c.send_buffer) = c.emergency_buffer
  BY DEF ModuleConfig, Ordered, Clamp, AtMost, AtLeast, kMinBuffer, kMaxBuffer, kMinCoalesce, kMaxShards
<1>2. /\ Clamp(c.playback_high_watermark, kMinCoalesce, kMaxBuffer) = c.playback_high_watermark
      /\ Clamp(c.playback_low_watermark, 0, c.playback_high_watermark) = c.playback_low_watermark
      /\ Clamp(c.max_forks_per_call, 1, 8) = c.max_forks_per_call
      /\ AtLeast(c.drain_timeout, 0) = c.drain_timeout
  BY DEF ModuleConfig, Ordered, Clamp, AtMost, AtLeast, kMaxBuffer, kMinCoalesce
<1>3. /\ AtLeast(c.reconnect_min, 1) = c.reconnect_min
      /\ AtLeast(c.reconnect_max, c.reconnect_min) = c.reconnect_max
      /\ AtLeast(c.slab_size, 1) = c.slab_size
      /\ AtLeast(c.global_memory_cap, c.slab_size * 16) = c.global_memory_cap
  BY DEF ModuleConfig, Ordered, AtLeast
<1>4. (c.cert_file /\ c.key_file) = c.cert_file /\ (c.cert_file /\ c.key_file) = c.key_file
  <2>1. c.cert_file \in BOOLEAN /\ c.key_file \in BOOLEAN
    BY DEF ModuleConfig
  <2> QED BY <2>1, Zenon DEF Ordered
<1>5. c = [shard_count |-> c.shard_count, send_buffer |-> c.send_buffer,
           handoff_buffer |-> c.handoff_buffer, coalesce_max |-> c.coalesce_max,
           emergency_buffer |-> c.emergency_buffer, drain_timeout |-> c.drain_timeout,
           playback_high_watermark |-> c.playback_high_watermark,
           playback_low_watermark |-> c.playback_low_watermark,
           reconnect_min |-> c.reconnect_min, reconnect_max |-> c.reconnect_max,
           slab_size |-> c.slab_size, global_memory_cap |-> c.global_memory_cap,
           max_forks_per_call |-> c.max_forks_per_call,
           cert_file |-> c.cert_file, key_file |-> c.key_file]
  BY DEF ModuleConfig
<1> QED BY <1>1, <1>2, <1>3, <1>4, <1>5, Zenon DEF SanitizeConfig

\* Whatever the file said, sanitizing twice is sanitizing once: the order of
\* the clamps leaves no bound that a later clamp would have moved.
THEOREM SanitizeIsIdempotent ==
  ASSUME NEW c \in ModuleConfig
  PROVE  SanitizeConfig(SanitizeConfig(c)) = SanitizeConfig(c)
  BY SanitizedIsOrdered, OrderedIsKept

\* The sample rates the protocol admits (kMinSampleRate, kMaxSampleRate,
\* protocol.cpp:16-17).
ProtocolRates == {r \in Nat : 8000 <= r /\ r <= 48000}

\* A buffer set in seconds is whole seconds, unless it is to be clamped to less
\* than one, or to the most there can be.
WholeSeconds(ms) == ms < 1000 \/ ms >= kMaxBuffer \/ \E k \in Nat : ms = 1000 * k

\* A number whose thousandfold fits 32 bits is whole seconds.
LEMMA SecondsWithinRange ==
  ASSUME NEW number \in Int, InRange(number), NEW ms \in Milliseconds(number)
  PROVE  WholeSeconds(ms)
<1>1. ms = number * 1000
  BY Zenon DEF Milliseconds
<1>2. CASE number >= 0
  <2>1. number \in Nat /\ ms = 1000 * number
    BY <1>1, <1>2, SMTT(30)
  <2> QED BY <2>1, SMTT(30) DEF WholeSeconds
<1>3. CASE number < 0
  <2>1. ms < 1000
    BY <1>1, <1>3, SMTT(30)
  <2> QED BY <2>1, SMTT(30) DEF WholeSeconds
<1> QED BY <1>1, <1>2, <1>3, SMTT(30)

\* The hand-off buffer and the slab size are no parameters of the file, so they
\* are never above the second and the 64 KB they default to.  The two buffers set
\* in seconds are, until one of them overflows.
ConfigInv ==
  /\ stage \in {"loading", "loaded"}
  /\ config \in ModuleConfig
  /\ config.handoff_buffer <= 1000 /\ config.slab_size = 16
  /\ overflow \/ (WholeSeconds(config.send_buffer) /\ WholeSeconds(config.emergency_buffer))
  /\ stage = "loaded" => Ordered(config)

\* One parameter of the file sets one field to a value of its type.
LEMMA ParamKeeps ==
  ASSUME ConfigInv, stage = "loading", stage' = stage,
         NEW number \in Numbers, NEW name \in DOMAIN Settings(number),
         NEW value \in Settings(number)[name],
         config' = [config EXCEPT ![name] = value],
         overflow' = (overflow \/ (name \in {"send_buffer", "emergency_buffer"} /\ ~InRange(number)))
  PROVE  ConfigInv'
<1>1. number \in Int
  BY NumbersAssumption
<1>2. ASSUME NEW ms \in Milliseconds(number)
      PROVE  ms \in Int /\ (InRange(number) => WholeSeconds(ms))
  <2>1. ms \in Int
    BY <1>1, NumbersAssumption, SMTT(30) DEF Milliseconds
  <2> QED BY <1>1, <2>1, SecondsWithinRange, Zenon
<1>3. AtLeast(number, 0) \in Nat /\ AtLeast(number, 1) \in Nat /\ AtLeast(number, 1) * PagesPerMB \in Nat
  BY <1>1 DEF AtLeast, PagesPerMB
<1>4. config \in ModuleConfig /\ config.handoff_buffer <= 1000 /\ config.slab_size = 16
  BY DEF ConfigInv
<1>5. overflow \/ (WholeSeconds(config.send_buffer) /\ WholeSeconds(config.emergency_buffer))
  BY Zenon DEF ConfigInv
<1>6. name \in {"shard_count", "send_buffer", "playback_high_watermark", "playback_low_watermark",
                "coalesce_max", "emergency_buffer", "global_memory_cap", "reconnect_min",
                "reconnect_max", "max_forks_per_call", "cert_file", "key_file"}
  BY DEF Settings
<1>7. /\ name = "shard_count" => value = AtLeast(number, 0)
      /\ name \in {"send_buffer", "emergency_buffer"} => value \in Milliseconds(number)
      /\ name \in {"playback_high_watermark", "playback_low_watermark", "coalesce_max",
                   "reconnect_min", "reconnect_max"} => value = number
      /\ name = "global_memory_cap" => value = AtLeast(number, 1) * PagesPerMB
      /\ name = "max_forks_per_call" => value = AtLeast(number, 1)
      /\ name \in {"cert_file", "key_file"} => value \in BOOLEAN
  BY <1>6 DEF Settings
<1>8. config' \in ModuleConfig
  BY <1>1, <1>2, <1>3, <1>4, <1>6, <1>7 DEF ModuleConfig
<1>9. /\ config'.handoff_buffer = config.handoff_buffer /\ config'.slab_size = config.slab_size
      /\ name # "send_buffer" => config'.send_buffer = config.send_buffer
      /\ name = "send_buffer" => config'.send_buffer = value
      /\ name # "emergency_buffer" => config'.emergency_buffer = config.emergency_buffer
      /\ name = "emergency_buffer" => config'.emergency_buffer = value
  BY <1>4, <1>6 DEF ModuleConfig
<1>10. overflow' \/ (WholeSeconds(config'.send_buffer) /\ WholeSeconds(config'.emergency_buffer))
  <2> SUFFICES ASSUME ~overflow'
               PROVE  WholeSeconds(config'.send_buffer) /\ WholeSeconds(config'.emergency_buffer)
    BY Zenon
  <2>1. WholeSeconds(config.send_buffer) /\ WholeSeconds(config.emergency_buffer)
    BY <1>5, Zenon
  <2>2. name \in {"send_buffer", "emergency_buffer"} => WholeSeconds(value)
    BY <1>2, <1>7, Zenon
  <2>3. name \in {"send_buffer", "emergency_buffer"} <=> name = "send_buffer" \/ name = "emergency_buffer"
    BY Zenon
  <2> QED BY <1>9, <2>1, <2>2, <2>3, Zenon
<1> QED BY <1>4, <1>8, <1>9, <1>10 DEF ConfigInv
\* SanitizeConfig keeps whole seconds whole, the hand-off buffer within a second
\* and the slab size.
LEMMA LoadKeeps ==
  ASSUME ConfigInv, stage' = "loaded", config' = SanitizeConfig(config), overflow' = overflow
  PROVE  ConfigInv'
<1> DEFINE c == config
           s == SanitizeConfig(config)
<1>1. s \in ModuleConfig /\ Ordered(s)
  BY SanitizedIsOrdered DEF ConfigInv
<1>2. /\ c.send_buffer \in Int /\ c.handoff_buffer \in Int /\ c.emergency_buffer \in Int
      /\ c.handoff_buffer <= 1000 /\ c.slab_size = 16
  BY DEF ConfigInv, ModuleConfig
<1>3. overflow \/ (WholeSeconds(c.send_buffer) /\ WholeSeconds(c.emergency_buffer))
  BY Zenon DEF ConfigInv
<1>4. /\ s.send_buffer = Clamp(c.send_buffer, kMinBuffer, kMaxBuffer)
      /\ s.handoff_buffer = Clamp(c.handoff_buffer, kMinCoalesce, s.send_buffer)
      /\ s.emergency_buffer = Clamp(c.emergency_buffer, kMinCoalesce, s.send_buffer)
      /\ s.slab_size = AtLeast(c.slab_size, 1)
  BY Zenon DEF SanitizeConfig
<1>5. s.send_buffer \in Int /\ kMinBuffer <= s.send_buffer /\ s.send_buffer <= kMaxBuffer
  BY <1>1 DEF ModuleConfig, Ordered
<1> HIDE DEF c, s
<1>6. s.handoff_buffer <= 1000 /\ s.slab_size = 16
  BY <1>2, <1>4, <1>5, SMTT(30) DEF Clamp, AtMost, AtLeast, kMinBuffer, kMinCoalesce
<1>7. /\ s.send_buffer \in {c.send_buffer, kMinBuffer, kMaxBuffer}
      /\ c.send_buffer >= kMaxBuffer => s.send_buffer = kMaxBuffer
      /\ s.emergency_buffer \in {c.emergency_buffer, kMinCoalesce, s.send_buffer}
      /\ c.emergency_buffer >= kMaxBuffer => s.emergency_buffer = s.send_buffer
  BY <1>2, <1>4, <1>5, SMTT(30) DEF Clamp, AtMost, AtLeast, kMinBuffer, kMaxBuffer, kMinCoalesce
<1>8. WholeSeconds(kMinBuffer) /\ WholeSeconds(kMinCoalesce) /\ WholeSeconds(kMaxBuffer)
  BY SMTT(30) DEF WholeSeconds, kMinBuffer, kMinCoalesce, kMaxBuffer
<1>9. overflow \/ (WholeSeconds(s.send_buffer) /\ WholeSeconds(s.emergency_buffer))
  <2> SUFFICES ASSUME ~overflow PROVE WholeSeconds(s.send_buffer) /\ WholeSeconds(s.emergency_buffer)
    BY Zenon
  <2>1. WholeSeconds(c.send_buffer) /\ WholeSeconds(c.emergency_buffer)
    BY <1>3, Zenon
  <2> QED BY <1>7, <1>8, <2>1, Zenon
<1>10. config' = s /\ stage' = "loaded"
  BY DEF s
<1> QED BY <1>1, <1>6, <1>9, <1>10 DEF ConfigInv

\* A product grows with its factor.
LEMMA ProductGrows ==
  ASSUME NEW a \in Nat, NEW m \in Nat, NEW n \in Nat, m <= n
  PROVE  a * m \in Nat /\ a * m <= a * n
  BY SMTT(30)

\* The bytes of a duration, from the bytes of a second.
BytesFor(bps, ms) == (bps \div 1000) * ms + ((bps % 1000) * ms) \div 1000

\* A longer buffer is never fewer bytes, and at a thousand bytes a second or
\* more a millisecond is at least one.
LEMMA BytesGrow ==
  ASSUME NEW bps \in Nat, NEW m \in Nat, NEW n \in Nat, m <= n
  PROVE  /\ BytesFor(bps, m) \in Nat /\ BytesFor(bps, m) <= BytesFor(bps, n)
         /\ bps >= 1000 => m <= BytesFor(bps, m)
<1> DEFINE q == bps \div 1000
           r == bps % 1000
<1>1. q \in Nat /\ r \in Nat /\ (bps >= 1000 => 1 <= q)
  BY SMTT(30)
<1>2. BytesFor(bps, m) = q * m + (r * m) \div 1000 /\ BytesFor(bps, n) = q * n + (r * n) \div 1000
  BY Zenon DEF BytesFor
<1> HIDE DEF q, r
<1> DEFINE qm == q * m  qn == q * n  rm == r * m  rn == r * n
<1>3. qm \in Nat /\ qn \in Nat /\ qm <= qn
  BY <1>1, ProductGrows
<1>4. rm \in Nat /\ rn \in Nat /\ rm <= rn
  BY <1>1, ProductGrows
<1>5. bps >= 1000 => m <= qm
  <2> SUFFICES ASSUME bps >= 1000 PROVE m * 1 <= m * q
    BY <1>1, SMTT(30)
  <2> QED BY <1>1, ProductGrows
<1> HIDE DEF qm, qn, rm, rn
<1>6. qm + rm \div 1000 \in Nat /\ qm + rm \div 1000 <= qn + rn \div 1000 /\ qm <= qm + rm \div 1000
  BY <1>3, <1>4, SMTT(30)
<1> QED BY <1>2, <1>3, <1>5, <1>6, SMTT(30) DEF qm, qn, rm, rn

\* A thousand bytes a second or more, as one name for the provers.
Thousands(bps) == bps \in Nat /\ bps >= 1000

\* What BytesGrow says of such a rate, for all durations.
LEMMA BytesOrdered ==
  ASSUME NEW bps, Thousands(bps)
  PROVE  \A m, n \in Nat : m <= n =>
           BytesFor(bps, m) \in Nat /\ BytesFor(bps, m) <= BytesFor(bps, n) /\ m <= BytesFor(bps, m)
<1>1. bps \in Nat /\ bps >= 1000
  BY SMTT(30) DEF Thousands
<1> QED BY <1>1, BytesGrow, SMTT(30)

\* k seconds are k times the bytes of one.
LEMMA BytesOfSeconds ==
  ASSUME NEW bps \in Nat, NEW k \in Nat
  PROVE  BytesFor(bps, 1000 * k) = bps * k
<1> DEFINE q == bps \div 1000
           r == bps % 1000
<1>1. q \in Nat /\ r \in Nat /\ bps = 1000 * q + r
  BY SMTT(30)
<1>2. BytesFor(bps, 1000 * k) = q * (1000 * k) + (r * (1000 * k)) \div 1000
  BY SMTT(30) DEF BytesFor
<1> HIDE DEF q, r
<1> DEFINE x == r * k
<1>3. x \in Nat
  BY <1>1, SMTT(30)
<1>4. r * (1000 * k) = 1000 * x
  BY <1>1, SMTT(30)
<1>5. bps * k = q * (1000 * k) + x
  BY <1>1, SMTT(30)
<1> HIDE DEF x
<1>6. (1000 * x) \div 1000 = x
  BY <1>3, SMTT(30)
<1> QED BY <1>2, <1>4, <1>5, <1>6, SMTT(30)

\* The bytes a second of a fork's audio takes (AudioFormat::bytes_per_second).
SecondBytes(rt, ch) == rt * ch * 2

\* A second of audio at the rates of the protocol is between 1000 and 192000 bytes.
LEMMA BytesASecond ==
  ASSUME NEW rt \in ProtocolRates, NEW ch \in {1, 2}
  PROVE  /\ SecondBytes(rt, ch) \in Nat
         /\ 1000 <= SecondBytes(rt, ch) /\ SecondBytes(rt, ch) <= 192000
<1>1. rt \in Nat /\ 8000 <= rt /\ rt <= 48000
  BY SMTT(30) DEF ProtocolRates
<1>2. CASE ch = 1
  BY <1>1, <1>2, SMTT(30) DEF SecondBytes
<1>3. CASE ch = 2
  BY <1>1, <1>3, SMTT(30) DEF SecondBytes
<1> QED BY <1>2, <1>3, SMTT(30)

\* A number of seconds is whole sample frames.
LEMMA WholeFrames ==
  ASSUME NEW rt \in Nat, NEW ch \in {1, 2}, NEW k \in Nat
  PROVE  (SecondBytes(rt, ch) * k) % (2 * ch) = 0
<1> DEFINE x == rt * k
<1>1. x \in Nat /\ rt * 1 * 2 * k = 2 * x /\ rt * 2 * 2 * k = 4 * x
  BY SMTT(30)
<1> HIDE DEF x
<1>2. (2 * x) % 2 = 0 /\ (4 * x) % 4 = 0
  BY <1>1, SMTT(30)
<1>3. CASE ch = 1
  BY <1>1, <1>2, <1>3, SMTT(30) DEF SecondBytes
<1>4. CASE ch = 2
  BY <1>1, <1>2, <1>4, SMTT(30) DEF SecondBytes
<1> QED BY <1>3, <1>4, Zenon

\* At a rate of whole kHz every millisecond is whole samples.
LEMMA WholeKilohertz ==
  ASSUME NEW rt \in Nat, rt % 1000 = 0, NEW ms \in Nat
  PROVE  BytesFor(SecondBytes(rt, 1), ms) % 2 = 0
<1> DEFINE k == rt \div 1000
<1>1. k \in Nat /\ rt = 1000 * k
  BY SMTT(30)
<1> HIDE DEF k
<1> DEFINE bps == SecondBytes(rt, 1)
           x == k * ms
<1>2. bps = 2000 * k
  BY <1>1, SMTT(30) DEF SecondBytes
<1> HIDE DEF bps
<1>3. bps \div 1000 = 2 * k /\ bps % 1000 = 0
  BY <1>1, <1>2, SMTT(30)
<1>4. x \in Nat /\ (2 * k) * ms = 2 * x /\ (0 * ms) \div 1000 = 0
  BY <1>1, SMTT(30)
<1> HIDE DEF x
<1>5. BytesFor(bps, ms) = 2 * x
  BY <1>3, <1>4, SMTT(30) DEF BytesFor
<1>6. (2 * x) % 2 = 0
  BY <1>4, SMTT(30)
<1> QED BY <1>5, <1>6 DEF bps

\* What EveryForkFits says of one kind of fork, with buffers of whole seconds or not.
ForkIsServed(c, format, whole) ==
  LET tuning == MakeTuning(c, format)
  IN  /\ Creatable(tuning) /\ HasPlayback(tuning)
      /\ tuning.coalesce_max_bytes <= tuning.handoff_bytes
      /\ tuning.handoff_bytes <= tuning.send_cap_bytes
      /\ tuning.emergency_cap_bytes <= tuning.send_cap_bytes
      /\ tuning.playback_low_watermark_bytes <= tuning.playback_high_watermark_bytes
      /\ MinimumSlabs(tuning, c.slab_size * PageBytes) <= c.global_memory_cap \div c.slab_size
      /\ format.sample_rate % 1000 = 0 => tuning.playback_handoff_bytes % 2 = 0
      /\ c.send_buffer >= 1000 /\ whole => tuning.send_cap_bytes % (2 * format.channels) = 0
      /\ c.emergency_buffer >= 1000 /\ whole =>
           tuning.emergency_cap_bytes % (2 * format.channels) = 0

\* An ordered configuration with the defaults the file cannot change serves every
\* fork at a rate of the protocol.
LEMMA OrderedFits ==
  ASSUME NEW c \in ModuleConfig, Ordered(c), c.handoff_buffer <= 1000, c.slab_size = 16,
         NEW whole, whole => WholeSeconds(c.send_buffer) /\ WholeSeconds(c.emergency_buffer),
         NEW rt \in ProtocolRates, NEW ch \in {1, 2},
         NEW format, format = [sample_rate |-> rt, channels |-> ch]
  PROVE  ForkIsServed(c, format, whole)
<1> DEFINE bps == SecondBytes(rt, ch)
           mono == SecondBytes(rt, 1)
           B(ms) == BytesFor(bps, ms)
           M(ms) == BytesFor(mono, ms)
<1>0. \A k \in Nat : (bps * k) % (2 * ch) = 0
  <2>1. rt \in Nat
    BY SMTT(30) DEF ProtocolRates
  <2> QED BY <2>1, WholeFrames, Zenon
<1>1. bps \in Nat /\ 1000 <= bps /\ bps <= 192000
  BY BytesASecond, SMTT(30)
<1>2. mono \in Nat /\ 1000 <= mono
  BY BytesASecond, SMTT(30)
<1>3. /\ c.send_buffer \in Nat /\ c.handoff_buffer \in Nat /\ c.coalesce_max \in Nat
      /\ c.emergency_buffer \in Nat /\ c.playback_high_watermark \in Nat
      /\ c.playback_low_watermark \in Nat /\ c.global_memory_cap \in Nat
  BY SMTT(30) DEF ModuleConfig, Ordered, kMinCoalesce, kMinBuffer
<1>4. /\ 20 <= c.coalesce_max /\ c.coalesce_max <= c.handoff_buffer
      /\ c.handoff_buffer <= c.send_buffer /\ c.emergency_buffer <= c.send_buffer
      /\ c.playback_low_watermark <= c.playback_high_watermark
      /\ 20 <= c.playback_high_watermark /\ 256 <= c.global_memory_cap
      /\ c.send_buffer <= 60000
  BY SMTT(30) DEF ModuleConfig, Ordered, kMinCoalesce, kMinBuffer, kMaxBuffer
<1> DEFINE tuning == MakeTuning(c, format)
<1>5. /\ tuning.send_cap_bytes = B(c.send_buffer)
      /\ tuning.handoff_bytes = B(c.handoff_buffer)
      /\ tuning.coalesce_max_bytes = B(c.coalesce_max)
      /\ tuning.emergency_cap_bytes = B(c.emergency_buffer)
      /\ tuning.playback_high_watermark_bytes = M(c.playback_high_watermark)
      /\ tuning.playback_low_watermark_bytes = M(c.playback_low_watermark)
      /\ tuning.playback_handoff_bytes = M(c.coalesce_max)
  <2>1. format.sample_rate = rt /\ format.channels = ch
    BY SMTT(30)
  <2>2. \A ms : BytesForDuration(format, ms) = B(ms)
    <3> TAKE ms
    <3>1. BytesForDuration(format, ms) = BytesFor(format.sample_rate * format.channels * 2, ms)
      BY Zenon DEF BytesForDuration, BytesFor
    <3> QED BY <2>1, <3>1, Zenon DEF SecondBytes
  <2>3. \A ms : BytesForDuration([sample_rate |-> rt, channels |-> 1], ms) = M(ms)
    BY ZenonT(30) DEF BytesForDuration, BytesFor, SecondBytes
  <2> HIDE DEF bps, mono, B, M
  <2> QED BY <2>1, <2>2, <2>3, Zenon DEF MakeTuning
<1>6. format.channels = ch
  BY SMTT(30)
<1> HIDE DEF tuning, bps, mono
<1>7. \A m, n \in Nat : m <= n => B(m) \in Nat /\ B(m) <= B(n) /\ m <= B(m)
  <2>1. Thousands(bps)
    BY <1>1, SMTT(30) DEF Thousands
  <2> QED BY <2>1, BytesOrdered, Zenon
<1>8. \A m, n \in Nat : m <= n => M(m) \in Nat /\ M(m) <= M(n) /\ m <= M(m)
  <2>1. Thousands(mono)
    BY <1>2, SMTT(30) DEF Thousands
  <2> QED BY <2>1, BytesOrdered, Zenon
<1>9. B(1000) <= 192000
  <2>1. 1000 = 1000 * 1 /\ 1 \in Nat
    BY SMTT(30)
  <2>2. B(1000) = bps * 1
    BY <1>1, <2>1, BytesOfSeconds, SMTT(30)
  <2> QED BY <1>1, <2>2, SMTT(30)
<1> HIDE DEF B, M
<1>10. /\ B(c.coalesce_max) \in Nat /\ B(c.coalesce_max) <= B(c.handoff_buffer)
       /\ c.coalesce_max <= B(c.coalesce_max)
  BY <1>3, <1>4, <1>7, SMTT(30)
<1>11. /\ B(c.handoff_buffer) \in Nat /\ B(c.handoff_buffer) <= B(c.send_buffer)
       /\ B(c.handoff_buffer) <= B(1000)
  BY <1>3, <1>4, <1>7, SMTT(30)
<1>12. /\ B(c.emergency_buffer) \in Nat /\ B(c.emergency_buffer) <= B(c.send_buffer)
       /\ B(c.send_buffer) \in Nat
  BY <1>3, <1>4, <1>7, SMTT(30)
<1>13. /\ M(c.playback_low_watermark) <= M(c.playback_high_watermark)
       /\ M(c.playback_high_watermark) \in Nat /\ M(c.coalesce_max) \in Nat
       /\ c.playback_high_watermark <= M(c.playback_high_watermark)
       /\ c.coalesce_max <= M(c.coalesce_max)
  BY <1>3, <1>4, <1>8, SMTT(30)
<1>14. ASSUME NEW ms \in Nat, ms >= 1000, ms <= 60000, WholeSeconds(ms)
       PROVE  B(ms) % (2 * ch) = 0
  <2>1. PICK k \in Nat : ms = 1000 * k
    <3>1. CASE ms >= kMaxBuffer
      <4>1. ms = 1000 * 60 /\ 60 \in Nat
        BY <1>14, <3>1, SMTT(30) DEF kMaxBuffer
      <4> QED BY <4>1, SMTT(30)
    <3> QED BY <1>14, <3>1, SMTT(30) DEF WholeSeconds
  <2>2. B(ms) = bps * k
    BY <1>1, <2>1, BytesOfSeconds, SMTT(30) DEF B
  <2>3. (bps * k) % (2 * ch) = 0
    BY <1>0, Zenon
  <2> QED BY <2>2, <2>3
<1>15. MinimumSlabs(tuning, c.slab_size * PageBytes) <= c.global_memory_cap \div c.slab_size
  <2>1. c.slab_size * PageBytes = 65536 /\ 16 <= c.global_memory_cap \div c.slab_size
    BY <1>3, <1>4, SMTT(30) DEF PageBytes
  <2>2. tuning.coalesce_max_bytes \in Nat /\ tuning.coalesce_max_bytes <= 192000
    <3>1. B(1000) \in Nat
      BY <1>7, SMTT(30)
    <3> QED BY <1>5, <1>9, <1>10, <1>11, <3>1, SMTT(30)
  <2>3. (tuning.coalesce_max_bytes + 65536 - 1) \div 65536 + 1 <= 16
    BY <2>2, SMTT(30)
  <2> QED BY <1>3, <2>1, <2>2, <2>3, SMTT(30) DEF MinimumSlabs
<1>16. Creatable(tuning) /\ HasPlayback(tuning)
  <2>1. 0 < B(c.coalesce_max) /\ 0 < B(c.handoff_buffer) /\ 0 < B(c.send_buffer)
    BY <1>3, <1>4, <1>10, <1>11, <1>12, SMTT(30)
  <2>2. 0 < M(c.coalesce_max) /\ 0 < M(c.playback_high_watermark)
    BY <1>3, <1>4, <1>13, SMTT(30)
  <2> QED BY <1>5, <1>10, <1>11, <1>12, <1>13, <2>1, <2>2, SMTT(30) DEF Creatable, HasPlayback
<1>17. ASSUME whole
       PROVE  /\ c.send_buffer >= 1000 => tuning.send_cap_bytes % (2 * format.channels) = 0
              /\ c.emergency_buffer >= 1000 => tuning.emergency_cap_bytes % (2 * format.channels) = 0
  <2>1. WholeSeconds(c.send_buffer) /\ WholeSeconds(c.emergency_buffer)
    BY <1>17
  <2> QED BY <1>3, <1>4, <1>5, <1>6, <1>14, <2>1, SMTT(30)
<1>18. format.sample_rate % 1000 = 0 => tuning.playback_handoff_bytes % 2 = 0
  <2> SUFFICES ASSUME rt % 1000 = 0 PROVE M(c.coalesce_max) % 2 = 0
    BY <1>5, SMTT(30)
  <2>1. rt \in Nat
    BY SMTT(30) DEF ProtocolRates
  <2>2. c.coalesce_max \in Nat
    BY <1>3, Zenon
  <2>3. \A ms \in Nat : BytesFor(SecondBytes(rt, 1), ms) % 2 = 0
    BY <2>1, WholeKilohertz, SMTT(30)
  <2>4. M(c.coalesce_max) = BytesFor(SecondBytes(rt, 1), c.coalesce_max)
    BY ZenonT(40) DEF M, mono
  <2>5. BytesFor(SecondBytes(rt, 1), c.coalesce_max) % 2 = 0
    BY <2>2, <2>3, SMTT(30)
  <2> QED BY <2>4, <2>5, SMTT(30)
<1>19. /\ tuning.coalesce_max_bytes <= tuning.handoff_bytes
       /\ tuning.handoff_bytes <= tuning.send_cap_bytes
       /\ tuning.emergency_cap_bytes <= tuning.send_cap_bytes
       /\ tuning.playback_low_watermark_bytes <= tuning.playback_high_watermark_bytes
  BY <1>5, <1>10, <1>11, <1>12, <1>13, SMTT(30)
<1> QED BY <1>15, <1>16, <1>17, <1>18, <1>19 DEF ForkIsServed, tuning

\* The inductive invariant of loading the configuration (LoadConfig,
\* SanitizeConfig), for a file of any length.
THEOREM ConfigInvariant == StartSpec => []ConfigInv
<1>1. StartInit => ConfigInv
  <2> SUFFICES ASSUME StartInit PROVE ConfigInv
    OBVIOUS
  <2>1. stage = "loading" /\ config = Defaults
    BY DEF StartInit
  <2>2. Defaults \in ModuleConfig
    BY SMTT(30) DEF Defaults, ModuleConfig, PagesPerMB
  <2>3. /\ Defaults.handoff_buffer <= 1000 /\ Defaults.slab_size = 16
        /\ Defaults.send_buffer = 1000 * 10 /\ Defaults.emergency_buffer = 1000 * 2
    BY SMTT(30) DEF Defaults
  <2>4. WholeSeconds(Defaults.send_buffer) /\ WholeSeconds(Defaults.emergency_buffer)
    BY <2>3, SMTT(30) DEF WholeSeconds
  <2>5. stage # "loaded" /\ stage \in {"loading", "loaded"}
    BY <2>1
  <2> QED BY <2>1, <2>2, <2>3, <2>4, <2>5, ZenonT(40) DEF ConfigInv
<1>2. ConfigInv /\ [StartNext]_startVars => ConfigInv'
  <2> SUFFICES ASSUME ConfigInv, [StartNext]_startVars PROVE ConfigInv'
    OBVIOUS
  <2>1. CASE ReadParam
    <3>1. PICK number \in Numbers : \E name \in DOMAIN Settings(number) :
            /\ \E value \in Settings(number)[name] : config' = [config EXCEPT ![name] = value]
            /\ overflow' = (overflow \/ (name \in {"send_buffer", "emergency_buffer"} /\ ~InRange(number)))
      BY <2>1, Zenon DEF ReadParam
    <3>2. stage = "loading" /\ stage' = stage
      BY <2>1 DEF ReadParam
    <3> QED BY <3>1, <3>2, ParamKeeps, Zenon
  <2>2. CASE Load
    BY <2>2, LoadKeeps DEF Load
  <2>3. CASE UNCHANGED <<stage, config, overflow>>
    BY <2>3 DEF ConfigInv, Ordered
  <2> QED BY <2>1, <2>2, <2>3, Zenon DEF StartNext, Reconnects, NextDelay, Reset, PoolStep, BugStep,
                                       loading, startVars
<1> QED BY <1>1, <1>2, PTL DEF StartSpec

\* Whatever the file says, a loaded module can serve every kind of fork at every
\* rate of the protocol (SanitizeConfig, MakeTuning, ForkSession::Create,
\* MinimumSlabs), and sanitizing its configuration again would change nothing.
THEOREM AnyFileServesEveryFork ==
  ASSUME Rates \subseteq ProtocolRates
  PROVE  StartSpec => []EveryForkFits
<1>1. ConfigInv => EveryForkFits
  <2> SUFFICES ASSUME ConfigInv, stage = "loaded"
               PROVE  /\ SanitizeConfig(config) = config
                      /\ config.cert_file = config.key_file
                      /\ \A format \in Formats : ForkIsServed(config, format, ~overflow)
    BY Zenon DEF EveryForkFits, ForkIsServed
  <2>1. config \in ModuleConfig /\ Ordered(config)
    BY DEF ConfigInv
  <2>2. SanitizeConfig(config) = config
    BY <2>1, OrderedIsKept
  <2>3. config.cert_file = config.key_file
    BY <2>1, Zenon DEF Ordered
  <2>4. ASSUME NEW format \in Formats
        PROVE  ForkIsServed(config, format, ~overflow)
    <3>1. /\ format.sample_rate \in ProtocolRates /\ format.channels \in {1, 2}
          /\ format = [sample_rate |-> format.sample_rate, channels |-> format.channels]
      BY DEF Formats
    <3>2. /\ config.handoff_buffer <= 1000 /\ config.slab_size = 16
          /\ ~overflow => WholeSeconds(config.send_buffer) /\ WholeSeconds(config.emergency_buffer)
      BY Zenon DEF ConfigInv
    <3> QED BY <2>1, <3>1, <3>2, OrderedFits
  <2> QED BY <2>2, <2>3, <2>4
<1> QED BY <1>1, ConfigInvariant, PTL

-----------------------------------------------------------------------------
(* The media bug.                                                          *)

BugRates == PlaybackRates \cup {ForkRate}

BugBytes == [rate : BugRates, declared : Nat, epoch : Nat, half : 1..2]

Handed == Seq(BugBytes)

Frames == [declared : Nat, format : BugRates \cup {SessionRate}, bytes : Handed]

\* The bytes in a buffer, whatever their places.
BytesOf(s) == {s[i] : i \in 1..Len(s)}

\* RateExplained, with the declarations as a parameter.
Explains(log, byte, d, played) ==
  byte.rate = played \/ \E k \in byte.declared + 1..d : log[k] = byte.epoch

BugTyped ==
  /\ rate \in BugRates /\ declaredIn \in Seq(Nat)
  /\ generation \in Nat /\ seen \in Nat /\ seen <= generation
  /\ waiting \in Handed /\ Len(waiting) <= JitterBytes /\ handed \in Handed
  /\ at \in {"idle", "read", "discard", "pop"}
  /\ resampler \in BugRates \cup {0}
  /\ frame \in Frames /\ frame.declared <= declared

\* Once the format is read, the resampler is the one for it, and the frame is
\* still empty.
Resampled ==
  at # "idle" => /\ frame.format \in BugRates /\ frame.format = PlayedAt
                 /\ frame.bytes = <<>>

\* A byte of the present turn, at the rate declared last or with its rate
\* explained.
OfThisTurn(byte) ==
  byte.epoch = generation /\ byte.declared <= declared /\ Explains(declaredIn, byte, declared, rate)

\* The buffer holds nothing else, nor does the ring unless a clear is pending or
\* being carried out.
TurnInv ==
  /\ \A byte \in BytesOf(waiting) : OfThisTurn(byte)
  /\ generation = seen /\ at # "discard" => \A byte \in BytesOf(handed) : OfThisTurn(byte)

\* A byte that was there when the format was read, or before a later
\* declaration, fits that format or has its rate explained.
FitsFormat(byte) ==
  byte.declared <= frame.declared => Explains(declaredIn, byte, frame.declared, frame.format)

FrameInv ==
  /\ at # "idle" =>
       /\ frame.declared = declared => frame.format = rate
       /\ \A byte \in BytesOf(waiting) : FitsFormat(byte)
  /\ at = "pop" \/ (at = "read" /\ generation = seen) =>
       \A byte \in BytesOf(handed) : FitsFormat(byte)

\* The buffer begins with the first byte of a sample and holds whole samples.
Aligned(s) ==
  /\ Len(s) % 2 = 0
  /\ \A i \in 1..Len(s) : i % 2 = 1 => s[i].half = 1

AlignedInv == WholeSamples => Aligned(waiting) /\ Aligned(handed)

BugInv == BugTyped /\ Resampled /\ TurnInv /\ FrameInv /\ AlignedInv /\ PlayedAsDeclared

\* Min and Max of two numbers.
LEMMA MinMaxOfTwo ==
  ASSUME NEW a \in Int, NEW b \in Int
  PROVE  /\ Min({a, b}) = IF a <= b THEN a ELSE b
         /\ Max({a, b}) = IF a >= b THEN a ELSE b
<1>1. \E x \in {a, b} : \A y \in {a, b} : x <= y
  OBVIOUS
<1>2. Min({a, b}) \in {a, b} /\ \A y \in {a, b} : Min({a, b}) <= y
  BY <1>1, Zenon DEF Min
<1>3. \E x \in {a, b} : \A y \in {a, b} : x >= y
  OBVIOUS
<1>4. Max({a, b}) \in {a, b} /\ \A y \in {a, b} : Max({a, b}) >= y
  BY <1>3, Zenon DEF Max
<1> QED BY <1>2, <1>4

\* Bytes are counted in pairs.
LEMMA Parity ==
  ASSUME NEW a \in Nat, NEW b \in Nat, b % 2 = 0
  PROVE  /\ (a + b) % 2 = a % 2
         /\ b <= a => (a - b) % 2 = a % 2
  OBVIOUS

\* What is left of a buffer after n bytes of it were taken.
Rest(s, n) == SubSeq(s, n + 1, Len(s))

LEMMA RestOf ==
  ASSUME NEW s \in Handed, NEW n \in Nat
  PROVE  /\ Rest(s, n) \in Handed /\ Len(s) \in Nat
         /\ Len(Rest(s, n)) = IF n <= Len(s) THEN Len(s) - n ELSE 0
         /\ \A i \in 1..Len(Rest(s, n)) : i + n \in 1..Len(s) /\ Rest(s, n)[i] = s[i + n]
<1> DEFINE t == SubSeq(s, n + 1, Len(s))
<1>0. Len(s) \in Nat /\ \A i \in 1..Len(s) : s[i] \in BugBytes
  BY LenProperties, ElementOfSeq DEF Handed
<1>1. /\ t \in Handed
      /\ Len(t) = IF n + 1 <= Len(s) THEN Len(s) - (n + 1) + 1 ELSE 0
      /\ \A i \in 1..Len(s) - (n + 1) + 1 : t[i] = s[n + 1 + i - 1]
  <2>1. n + 1 \in Int /\ Len(s) \in Int /\ \A i \in n + 1..Len(s) : s[i] \in BugBytes
    BY <1>0
  <2> QED BY <2>1, SubSeqProperties DEF Handed
<1> HIDE DEF t
<1>2. /\ Len(t) = IF n <= Len(s) THEN Len(s) - n ELSE 0
      /\ \A i \in 1..Len(t) : i + n \in 1..Len(s) /\ t[i] = s[i + n]
  BY <1>0, <1>1
<1>3. Rest(s, n) = t
  BY Zenon DEF Rest, t
<1> QED BY <1>0, <1>1, <1>2, <1>3, Zenon

\* What was taken.
LEMMA Taken ==
  ASSUME NEW s \in Handed, NEW n \in 0..Len(s)
  PROVE  /\ SubSeq(s, 1, n) \in Handed /\ Len(SubSeq(s, 1, n)) = n
         /\ \A i \in 1..n : i \in 1..Len(s) /\ SubSeq(s, 1, n)[i] = s[i]
<1> DEFINE t == SubSeq(s, 1, n)
<1>0. Len(s) \in Nat /\ \A i \in 1..Len(s) : s[i] \in BugBytes
  BY LenProperties, ElementOfSeq DEF Handed
<1>1. /\ t \in Handed
      /\ Len(t) = IF 1 <= n THEN n - 1 + 1 ELSE 0
      /\ \A i \in 1..n - 1 + 1 : t[i] = s[1 + i - 1]
  <2>1. 1 \in Int /\ n \in Int /\ \A i \in 1..n : s[i] \in BugBytes
    BY <1>0
  <2> QED BY <2>1, SubSeqProperties DEF Handed
<1> HIDE DEF t
<1>2. Len(t) = n /\ \A i \in 1..n : i \in 1..Len(s) /\ t[i] = s[i]
  BY <1>0, <1>1
<1> QED BY <1>1, <1>2 DEF t

\* One buffer behind another.
LEMMA Joined ==
  ASSUME NEW s \in Handed, NEW u \in Handed
  PROVE  /\ s \o u \in Handed /\ Len(s) \in Nat /\ Len(u) \in Nat
         /\ Len(s \o u) = Len(s) + Len(u)
         /\ \A i \in 1..Len(s \o u) :
              \/ i \in 1..Len(s) /\ (s \o u)[i] = s[i]
              \/ i - Len(s) \in 1..Len(u) /\ (s \o u)[i] = u[i - Len(s)]
<1> DEFINE t == s \o u
<1>1. Len(s) \in Nat /\ Len(u) \in Nat
  BY LenProperties DEF Handed
<1>2. /\ t \in Handed /\ Len(t) = Len(s) + Len(u)
      /\ \A i \in 1..Len(s) + Len(u) : t[i] = IF i <= Len(s) THEN s[i] ELSE u[i - Len(s)]
  BY ConcatProperties DEF Handed
<1> HIDE DEF t
<1>3. \A i \in 1..Len(t) :
        \/ i \in 1..Len(s) /\ t[i] = s[i]
        \/ i - Len(s) \in 1..Len(u) /\ t[i] = u[i - Len(s)]
  BY <1>1, <1>2
<1> QED BY <1>1, <1>2, <1>3 DEF t

\* None of the three adds a byte of its own.
LEMMA BytesKept ==
  ASSUME NEW s \in Handed, NEW u \in Handed, NEW n \in Nat
  PROVE  /\ BytesOf(Rest(s, n)) \subseteq BytesOf(s)
         /\ n <= Len(s) => BytesOf(SubSeq(s, 1, n)) \subseteq BytesOf(s)
         /\ BytesOf(s \o u) \subseteq BytesOf(s) \cup BytesOf(u)
         /\ BytesOf(<<>>) = {}
<1>0. Len(s) \in Nat
  BY LenProperties DEF Handed
<1>1. BytesOf(Rest(s, n)) \subseteq BytesOf(s)
  <2> DEFINE t == Rest(s, n)
  <2>1. \A i \in 1..Len(t) : i + n \in 1..Len(s) /\ t[i] = s[i + n]
    BY RestOf, Zenon
  <2> HIDE DEF t
  <2>2. ASSUME NEW i \in 1..Len(t) PROVE t[i] \in BytesOf(s)
    BY <2>1, Zenon DEF BytesOf
  <2> QED BY <2>2, Zenon DEF BytesOf, t
<1>2. ASSUME n <= Len(s) PROVE BytesOf(SubSeq(s, 1, n)) \subseteq BytesOf(s)
  <2>1. n \in 0..Len(s)
    BY <1>0, <1>2
  <2>2. Len(SubSeq(s, 1, n)) = n /\ \A i \in 1..n : i \in 1..Len(s) /\ SubSeq(s, 1, n)[i] = s[i]
    BY <2>1, Taken, Zenon
  <2> QED BY <2>2, Zenon DEF BytesOf
<1>3. BytesOf(s \o u) \subseteq BytesOf(s) \cup BytesOf(u)
  <2> DEFINE t == s \o u
  <2>1. \A i \in 1..Len(t) : \/ i \in 1..Len(s) /\ t[i] = s[i]
                             \/ i - Len(s) \in 1..Len(u) /\ t[i] = u[i - Len(s)]
    BY Joined, Zenon
  <2> HIDE DEF t
  <2>2. ASSUME NEW i \in 1..Len(t) PROVE t[i] \in BytesOf(s) \cup BytesOf(u)
    BY <2>1 DEF BytesOf
  <2> QED BY <2>2, Zenon DEF BytesOf, t
<1>4. BytesOf(<<>>) = {}
  <2>1. Len(<<>>) = 0 /\ 1..0 = {}
    BY EmptySeq
  <2> QED BY <2>1, Zenon DEF BytesOf
<1> QED BY <1>1, <1>2, <1>3, <1>4

\* Nor do they split a sample, if an even number of bytes is taken.
LEMMA AlignmentKept ==
  ASSUME NEW s \in Handed, NEW u \in Handed, Aligned(s), NEW n \in Nat, n % 2 = 0
  PROVE  /\ Aligned(Rest(s, n))
         /\ n <= Len(s) => Aligned(SubSeq(s, 1, n))
         /\ Aligned(u) => Aligned(s \o u)
<1>0. /\ Len(s) \in Nat /\ Len(s) % 2 = 0
      /\ \A i \in 1..Len(s) : i % 2 = 1 => s[i].half = 1
  BY LenProperties DEF Handed, Aligned
<1>1. Aligned(Rest(s, n))
  <2> DEFINE t == Rest(s, n)
  <2>1. /\ Len(t) = IF n <= Len(s) THEN Len(s) - n ELSE 0
        /\ \A i \in 1..Len(t) : i + n \in 1..Len(s) /\ t[i] = s[i + n]
    BY RestOf, Zenon
  <2> HIDE DEF t
  <2>2. Len(t) \in Nat /\ Len(t) % 2 = 0
    <3>1. Len(s) \in Nat /\ Len(s) % 2 = 0
      BY <1>0, Zenon
    <3>2. CASE n <= Len(s)
      <4>1. Len(t) = Len(s) - n /\ (Len(s) - n) % 2 = Len(s) % 2
        BY <2>1, <3>1, <3>2, Parity, Zenon
      <4> QED BY <3>1, <3>2, <4>1
    <3>3. CASE ~(n <= Len(s))
      <4>1. Len(t) = 0
        BY <2>1, <3>3, Zenon
      <4> QED BY <4>1
    <3> QED BY <3>2, <3>3
  <2>3. ASSUME NEW i \in 1..Len(t), i % 2 = 1 PROVE t[i].half = 1
    <3>1. (i + n) % 2 = 1
      BY <2>2, <2>3
    <3>2. i + n \in 1..Len(s) /\ t[i] = s[i + n]
      BY <2>1, Zenon
    <3>3. s[i + n].half = 1
      BY <1>0, <3>1, <3>2, Zenon
    <3> QED BY <3>2, <3>3, Zenon
  <2> QED BY <2>2, <2>3, Zenon DEF Aligned, t
<1>2. ASSUME n <= Len(s) PROVE Aligned(SubSeq(s, 1, n))
  <2>1. n \in 0..Len(s)
    BY <1>0, <1>2
  <2>2. Len(SubSeq(s, 1, n)) = n /\ \A i \in 1..n : i \in 1..Len(s) /\ SubSeq(s, 1, n)[i] = s[i]
    BY <2>1, Taken, Zenon
  <2> QED BY <1>0, <2>2, Zenon DEF Aligned
<1>3. ASSUME Aligned(u) PROVE Aligned(s \o u)
  <2> DEFINE t == s \o u
  <2>1. /\ Len(u) \in Nat /\ Len(t) = Len(s) + Len(u)
        /\ \A i \in 1..Len(t) :
             \/ i \in 1..Len(s) /\ t[i] = s[i]
             \/ i - Len(s) \in 1..Len(u) /\ t[i] = u[i - Len(s)]
    BY Joined, Zenon
  <2>2. Len(u) % 2 = 0 /\ \A i \in 1..Len(u) : i % 2 = 1 => u[i].half = 1
    BY <1>3, Zenon DEF Aligned
  <2> HIDE DEF t
  <2>3. Len(t) \in Nat /\ Len(t) % 2 = 0
    BY <1>0, <2>1, <2>2
  <2>4. ASSUME NEW i \in 1..Len(t), i % 2 = 1 PROVE t[i].half = 1
    <3>1. CASE i \in 1..Len(s) /\ t[i] = s[i]
      BY <1>0, <2>4, <3>1, Zenon
    <3>2. CASE i - Len(s) \in 1..Len(u) /\ t[i] = u[i - Len(s)]
      <4>1. (i - Len(s)) % 2 = 1
        <5>1. Len(s) \in Nat /\ Len(u) \in Nat /\ Len(s) % 2 = 0
          BY <1>0, <2>1, Zenon
        <5>2. i \in Nat
          BY <2>3
        <5>3. Len(s) <= i
          BY <3>2, <5>1, <5>2
        <5> QED BY <2>4, <5>1, <5>2, <5>3, Parity
      <4>2. u[i - Len(s)].half = 1
        BY <2>2, <3>2, <4>1, Zenon
      <4> QED BY <3>2, <4>2, Zenon
    <3> QED BY <2>1, <3>1, <3>2, Zenon
  <2> QED BY <2>3, <2>4, Zenon DEF Aligned, t
<1> QED BY <1>1, <1>2, <1>3

\* RateExplained is Explains for the declarations there were.
LEMMA ExplainedBy ==
  \A byte, d, r : RateExplained(byte, d, r) = Explains(declaredIn, byte, d, r)
  BY Zenon DEF RateExplained, Explains

\* Where only the callback's bytes and the declarations count, PlayedAsDeclared
\* follows from the bytes of the frame.
LEMMA PlayedKept ==
  ASSUME PlayedAsDeclared, BugTyped, UNCHANGED <<at, resampler, frame>>,
         \A k \in 1..declared : declaredIn'[k] = declaredIn[k]
  PROVE  PlayedAsDeclared'
<1>1. ASSUME at = "idle", NEW i \in DOMAIN frame.bytes, frame.bytes[i].declared <= frame.declared
      PROVE  Explains(declaredIn', frame.bytes[i], frame.declared, PlayedAt)
  <2> DEFINE b == frame.bytes[i]
  <2>1. Explains(declaredIn, b, frame.declared, PlayedAt)
    BY <1>1, ExplainedBy, Zenon DEF PlayedAsDeclared
  <2>2. b.declared \in Nat /\ frame.declared \in Nat /\ declared \in Nat /\ frame.declared <= declared
    <3>1. frame.bytes \in Seq(BugBytes) /\ frame.declared \in Nat /\ declaredIn \in Seq(Nat)
      BY DEF BugTyped, Frames, Handed
    <3>2. b \in BugBytes
      BY <1>1, <3>1, LenProperties, ElementOfSeq
    <3> QED BY <3>1, <3>2, LenProperties DEF BugTyped, BugBytes, declared
  <2> HIDE DEF b
  <2>3. \A k \in b.declared + 1..frame.declared : k \in 1..declared
    BY <2>2
  <2>4. Explains(declaredIn', b, frame.declared, PlayedAt)
    BY <2>1, <2>3, Zenon DEF Explains
  <2> QED BY <2>4 DEF b
<1>2. PlayedAt' = PlayedAt /\ (WholeSamples => SamplesStayAligned)'
  BY Zenon DEF PlayedAsDeclared, PlayedAt, SamplesStayAligned
<1>3. ASSUME at' = "idle", NEW i \in DOMAIN frame'.bytes,
             frame'.bytes[i].declared <= frame'.declared
      PROVE  RateExplained(frame.bytes[i], frame.declared, PlayedAt)'
  <2>1. Explains(declaredIn', frame.bytes[i], frame.declared, PlayedAt)
    BY <1>1, <1>3, Zenon
  <2> QED BY <1>2, <2>1, Zenon DEF RateExplained, Explains
<1> QED BY <1>2, <1>3, Zenon DEF PlayedAsDeclared

\* HandlePlaybackStart explains the rate of whatever is there of this turn.
LEMMA StartKeeps ==
  ASSUME BugInv, HandlePlaybackStart
  PROVE  BugInv'
<1> USE DEF callback
<1>t. BugTyped /\ Resampled /\ TurnInv /\ FrameInv /\ AlignedInv /\ PlayedAsDeclared
  BY DEF BugInv
<1>1. /\ rate' \in BugRates /\ declaredIn' = Append(declaredIn, generation)
      /\ UNCHANGED <<generation, waiting, handed, seen, at, resampler, frame>>
  BY <1>t DEF HandlePlaybackStart, BugTyped, BugRates
<1>2. /\ declaredIn' \in Seq(Nat) /\ declared \in Nat /\ declared' = declared + 1
      /\ \A k \in 1..declared : declaredIn'[k] = declaredIn[k]
      /\ declaredIn'[declared + 1] = generation
  BY <1>t, <1>1, AppendProperties, LenProperties DEF BugTyped, declared
<1>3. frame.declared \in Nat /\ frame.declared <= declared
  BY <1>t DEF BugTyped, Frames
<1>4. BugTyped' /\ Resampled' /\ AlignedInv'
  <2>1. frame.declared <= declared'
    BY <1>2, <1>3
  <2>2. BugTyped'
    BY <1>t, <1>1, <1>2, <2>1, Zenon DEF BugTyped
  <2> QED BY <1>t, <1>1, <2>2, Zenon DEF Resampled, PlayedAt, AlignedInv, Aligned
<1>5. PlayedAsDeclared'
  BY <1>t, <1>1, <1>2, PlayedKept, Zenon
<1>6. \A s \in Handed : \A byte \in BytesOf(s) : byte.declared \in Nat
  <2> SUFFICES ASSUME NEW s \in Handed, NEW i \in 1..Len(s) PROVE s[i].declared \in Nat
    BY Zenon DEF BytesOf
  <2>1. s[i] \in BugBytes
    BY ElementOfSeq DEF Handed
  <2> QED BY <2>1 DEF BugBytes
<1>7. \A byte : OfThisTurn(byte) /\ byte.declared \in Nat => OfThisTurn(byte)'
  <2> SUFFICES ASSUME NEW byte, OfThisTurn(byte), byte.declared \in Nat
               PROVE  /\ byte.epoch = generation /\ byte.declared <= declared'
                      /\ Explains(declaredIn', byte, declared', rate')
    BY <1>1, Zenon DEF OfThisTurn, Explains
  <2>1. byte.epoch = generation /\ byte.declared <= declared
    BY Zenon DEF OfThisTurn
  <2>2. byte.declared <= declared' /\ declared + 1 \in byte.declared + 1..declared'
    BY <1>2, <2>1
  <2>3. Explains(declaredIn', byte, declared', rate')
    BY <1>2, <2>1, <2>2, Zenon DEF Explains
  <2> QED BY <2>1, <2>2, <2>3
<1>8. TurnInv'
  <2>1. waiting \in Handed /\ handed \in Handed
    BY <1>t DEF BugTyped
  <2> QED BY <1>t, <1>1, <1>6, <1>7, <2>1, Zenon DEF TurnInv
<1>9. \A byte : FitsFormat(byte) /\ byte.declared \in Nat => FitsFormat(byte)'
  <2> SUFFICES ASSUME NEW byte, FitsFormat(byte), byte.declared \in Nat,
                      byte.declared <= frame.declared
               PROVE  Explains(declaredIn', byte, frame.declared, frame.format)
    BY <1>1, Zenon DEF FitsFormat, Explains
  <2>1. \A k \in byte.declared + 1..frame.declared : k \in 1..declared
    BY <1>2, <1>3
  <2> QED BY <1>2, <2>1, Zenon DEF FitsFormat, Explains
<1>10. FrameInv'
  <2>1. frame'.declared # declared'
    BY <1>1, <1>2, <1>3
  <2>2. waiting \in Handed /\ handed \in Handed
    BY <1>t DEF BugTyped
  <2> QED BY <1>t, <1>1, <1>6, <1>9, <2>1, <2>2, Zenon DEF FrameInv
<1> QED BY <1>4, <1>5, <1>8, <1>10 DEF BugInv

\* Where the declarations stay, so does what they explain.
LEMMA PlayedStays ==
  ASSUME PlayedAsDeclared, BugTyped, UNCHANGED <<declaredIn, at, resampler, frame>>
  PROVE  PlayedAsDeclared'
  BY PlayedKept, Zenon

\* HandleClear leaves nothing of the turn in the buffer, and makes the ring's
\* contents somebody else's.
LEMMA ClearKeeps ==
  ASSUME BugInv, Clear
  PROVE  BugInv'
<1> USE DEF callback
<1>t. BugTyped /\ Resampled /\ TurnInv /\ FrameInv /\ AlignedInv /\ PlayedAsDeclared
  BY DEF BugInv
<1>1. /\ generation' = generation + 1 /\ waiting' = <<>>
      /\ UNCHANGED <<rate, declaredIn, handed, seen, at, resampler, frame>>
  BY DEF Clear
<1>2. waiting' \in Handed /\ Len(waiting') = 0 /\ BytesOf(waiting') = {}
  <2>1. <<>> \in Handed /\ Len(<<>>) = 0 /\ 1..0 = {}
    BY EmptySeq DEF Handed
  <2> QED BY <1>1, <2>1, Zenon DEF BytesOf
<1>3. generation' \in Nat /\ seen' <= generation' /\ generation' # seen'
  BY <1>t, <1>1 DEF BugTyped
<1>4. BugTyped'
  <2>1. Len(waiting') <= JitterBytes
    BY <1>2, MediaBugAssumption
  <2>2. declared' = declared
    BY <1>1, Zenon DEF declared
  <2> QED BY <1>t, <1>1, <1>2, <1>3, <2>1, <2>2, Zenon DEF BugTyped
<1>5. Resampled' /\ AlignedInv'
  <2>1. Aligned(waiting')
    BY <1>2 DEF Aligned
  <2> QED BY <1>t, <1>1, <2>1, Zenon DEF Resampled, PlayedAt, AlignedInv, Aligned
<1>6. TurnInv' /\ FrameInv'
  BY <1>t, <1>1, <1>2, <1>3, Zenon DEF TurnInv, FrameInv, FitsFormat, Explains, declared
<1> QED BY <1>t, <1>1, <1>4, <1>5, <1>6, PlayedStays, Zenon DEF BugInv

\* What JitterBuffer::Append stores of a sample: whole samples while the buffer
\* holds whole samples, for the cap is one of them too.
ByteSent(half) == [rate |-> rate, declared |-> declared, epoch |-> generation, half |-> half]

Arrived == SubSeq(<<ByteSent(1), ByteSent(2)>>, 1, Min({2, JitterBytes - Len(waiting)}))

LEMMA ArrivedBytes ==
  ASSUME BugTyped
  PROVE  /\ Arrived \in Handed /\ Len(waiting) + Len(Arrived) <= JitterBytes
         /\ \A byte \in BytesOf(Arrived) :
              byte.rate = rate /\ byte.declared = declared /\ byte.epoch = generation
         /\ Len(waiting) % 2 = 0 => Aligned(Arrived)
<1> DEFINE pair == <<ByteSent(1), ByteSent(2)>>
           n == Min({2, JitterBytes - Len(waiting)})
           t == SubSeq(pair, 1, n)
<1>1. /\ rate \in BugRates /\ declared \in Nat /\ generation \in Nat
      /\ Len(waiting) \in Nat /\ Len(waiting) <= JitterBytes
      /\ JitterBytes \in Nat /\ JitterBytes % 2 = 0
  BY LenProperties, MediaBugAssumption DEF BugTyped, Handed, declared
<1>2. n \in 0..2 /\ Len(waiting) + n <= JitterBytes
  BY <1>1, MinMaxOfTwo
<1>3. Len(waiting) % 2 = 0 => n % 2 = 0
  <2>1. Len(waiting) % 2 = 0 => (JitterBytes - Len(waiting)) % 2 = 0
    BY <1>1, Parity
  <2> QED BY <1>1, <2>1, MinMaxOfTwo
<1>b. ASSUME NEW k \in 1..2
      PROVE  /\ ByteSent(k) \in BugBytes
             /\ ByteSent(k).rate = rate /\ ByteSent(k).declared = declared
             /\ ByteSent(k).epoch = generation /\ ByteSent(k).half = k
  BY <1>1 DEF BugBytes, ByteSent
<1>5. /\ pair \in Handed /\ Len(pair) = 2 /\ n \in 0..Len(pair)
      /\ \A k \in 1..2 : pair[k] = ByteSent(k)
  <2> DEFINE x == ByteSent(1)  y == ByteSent(2)
  <2>1. x \in BugBytes /\ y \in BugBytes
    BY <1>b
  <2> HIDE DEF x, y
  <2>2. <<x, y>> \in Seq(BugBytes) /\ Len(<<x, y>>) = 2
        /\ <<x, y>>[1] = x /\ <<x, y>>[2] = y
    BY <2>1
  <2>3. \A k \in 1..2 : k = 1 \/ k = 2
    OBVIOUS
  <2> QED BY <1>2, <2>2, <2>3, Zenon DEF Handed, x, y
<1>4. \A k \in 1..2 : /\ pair[k].rate = rate /\ pair[k].declared = declared
                      /\ pair[k].epoch = generation /\ pair[k].half = k
  <2> SUFFICES ASSUME NEW k \in 1..2
               PROVE  /\ pair[k].rate = rate /\ pair[k].declared = declared
                      /\ pair[k].epoch = generation /\ pair[k].half = k
    BY Zenon
  <2>1. pair[k] = ByteSent(k)
    BY <1>5, Zenon
  <2> HIDE DEF pair
  <2> QED BY <1>b, <2>1
<1> HIDE DEF pair, n
<1>6. t \in Handed /\ Len(t) = n /\ \A i \in 1..n : i \in 1..2 /\ t[i] = pair[i]
  <2>1. \A s \in Handed : \A m \in 0..Len(s) :
          /\ SubSeq(s, 1, m) \in Handed /\ Len(SubSeq(s, 1, m)) = m
          /\ \A i \in 1..m : i \in 1..Len(s) /\ SubSeq(s, 1, m)[i] = s[i]
    BY Taken
  <2> QED BY <1>5, <2>1, Zenon
<1>7. Arrived = t
  BY Zenon DEF Arrived, pair, n
<1> HIDE DEF t
<1>8. \A byte \in BytesOf(t) :
        byte.rate = rate /\ byte.declared = declared /\ byte.epoch = generation
  <2> SUFFICES ASSUME NEW i \in 1..Len(t)
               PROVE  t[i].rate = rate /\ t[i].declared = declared /\ t[i].epoch = generation
    BY Zenon DEF BytesOf
  <2>1. i \in 1..2 /\ t[i] = pair[i]
    BY <1>6, Zenon
  <2> QED BY <1>4, <2>1, Zenon
<1>9. ASSUME Len(waiting) % 2 = 0 PROVE Aligned(t)
  <2>1. \A i \in 1..n : t[i].half = i
    BY <1>4, <1>6, Zenon
  <2>2. \A i \in 1..n : i % 2 = 1 => i = 1
    BY <1>2
  <2> QED BY <1>3, <1>6, <1>9, <2>1, <2>2, Zenon DEF Aligned
<1> QED BY <1>2, <1>6, <1>7, <1>8, <1>9, Zenon

\* OnBinary adds to the buffer what is at the rate declared last.
LEMMA ArrivalKeeps ==
  ASSUME BugInv, OnBinary
  PROVE  BugInv'
<1> USE DEF callback
<1>t. BugTyped /\ Resampled /\ TurnInv /\ FrameInv /\ AlignedInv /\ PlayedAsDeclared
  BY DEF BugInv
<1>1. UNCHANGED <<rate, declaredIn, generation, handed, seen, at, resampler, frame>>
  BY DEF OnBinary
<1>2. waiting' = waiting \o Arrived
  BY Zenon DEF OnBinary, Arrived, ByteSent
<1>3. /\ Arrived \in Handed /\ Len(waiting) + Len(Arrived) <= JitterBytes
      /\ \A byte \in BytesOf(Arrived) :
           byte.rate = rate /\ byte.declared = declared /\ byte.epoch = generation
      /\ Len(waiting) % 2 = 0 => Aligned(Arrived)
  BY <1>t, ArrivedBytes, Zenon
<1>4. waiting \in Handed /\ frame.declared \in Nat /\ declared \in Nat /\ frame.declared <= declared
  BY <1>t, LenProperties DEF BugTyped, Frames, declared
<1>5. declared' = declared
  BY <1>1, Zenon DEF declared
<1>6. BugTyped'
  <2>1. waiting' \in Handed /\ Len(waiting') = Len(waiting) + Len(Arrived)
    BY <1>2, <1>3, <1>4, Joined, Zenon
  <2> QED BY <1>t, <1>1, <1>3, <1>5, <2>1, Zenon DEF BugTyped
<1>7. AlignedInv' /\ Resampled'
  <2>1. ASSUME WholeSamples PROVE Aligned(waiting')
    <3>1. Aligned(waiting) /\ Len(waiting) % 2 = 0
      BY <1>t, <2>1, Zenon DEF AlignedInv, Aligned
    <3>2. 0 \in Nat /\ 0 % 2 = 0
      OBVIOUS
    <3> QED BY <1>2, <1>3, <1>4, <3>1, <3>2, AlignmentKept, Zenon
  <2> QED BY <1>t, <1>1, <2>1, Zenon DEF AlignedInv, Aligned, Resampled, PlayedAt
<1>8. BytesOf(waiting') \subseteq BytesOf(waiting) \cup BytesOf(Arrived)
  <2>1. 0 \in Nat
    OBVIOUS
  <2> QED BY <1>2, <1>3, <1>4, <2>1, BytesKept, Zenon
<1>9. \A byte \in BytesOf(Arrived) : OfThisTurn(byte)
  <2>1. declared <= declared
    BY <1>4
  <2> QED BY <1>3, <2>1, Zenon DEF OfThisTurn, Explains
<1>10. \A byte : (OfThisTurn(byte) => OfThisTurn(byte)') /\ (FitsFormat(byte) => FitsFormat(byte)')
  BY <1>1, <1>5, Zenon DEF OfThisTurn, FitsFormat, Explains
<1>11. TurnInv'
  BY <1>t, <1>1, <1>8, <1>9, <1>10, Zenon DEF TurnInv
<1>12. ASSUME at # "idle", NEW byte \in BytesOf(Arrived) PROVE FitsFormat(byte)
  <2>1. declared <= frame.declared => frame.declared = declared
    BY <1>4
  <2> QED BY <1>t, <1>3, <1>12, <2>1, Zenon DEF FrameInv, FitsFormat, Explains
<1>13. FrameInv'
  BY <1>t, <1>1, <1>5, <1>8, <1>10, <1>12, Zenon DEF FrameInv
<1> QED BY <1>t, <1>1, <1>6, <1>7, <1>11, <1>13, PlayedStays, Zenon DEF BugInv

\* A run handed over moves from the buffer to the ring, where sizes allow it in
\* whole samples.
LEMMA HandOverKeeps ==
  ASSUME BugInv, HandOver
  PROVE  BugInv'
<1> USE DEF callback
<1>t. BugTyped /\ Resampled /\ TurnInv /\ FrameInv /\ AlignedInv /\ PlayedAsDeclared
  BY DEF BugInv
<1>1. PICK n \in 1..Min({HandoffBytes, Len(waiting)}) :
        /\ n \in {HandoffBytes, Len(waiting)} \/ waiting[n].half = 2
        /\ handed' = handed \o SubSeq(waiting, 1, n)
        /\ waiting' = Rest(waiting, n)
        /\ UNCHANGED <<rate, declaredIn, generation, seen, at, resampler, frame>>
  BY Zenon DEF HandOver, Rest
<1> DEFINE run == SubSeq(waiting, 1, n)
<1>2. waiting \in Handed /\ handed \in Handed /\ Len(waiting) \in Nat
  BY <1>t, LenProperties DEF BugTyped, Handed
<1>3. n \in Nat /\ n \in 1..Len(waiting) /\ n <= Len(waiting) /\ n \in 0..Len(waiting)
  BY <1>2, MinMaxOfTwo, MediaBugAssumption
<1>4. /\ run \in Handed /\ handed' = handed \o run
      /\ handed' \in Handed /\ waiting' \in Handed
  BY <1>1, <1>2, <1>3, Taken, Joined, RestOf, Zenon
<1>5. BugTyped' /\ Resampled'
  <2>1. Len(waiting') = Len(waiting) - n
    BY <1>1, <1>2, <1>3, RestOf, Zenon
  <2>2. Len(waiting') <= JitterBytes
    <3>1. Len(waiting) <= JitterBytes /\ JitterBytes \in Nat
      BY <1>t, MediaBugAssumption DEF BugTyped
    <3> QED BY <1>2, <1>3, <2>1, <3>1
  <2>3. declared' = declared
    BY <1>1, Zenon DEF declared
  <2> QED BY <1>t, <1>1, <1>4, <2>2, <2>3, Zenon DEF BugTyped, Resampled, PlayedAt
<1>6. AlignedInv'
  <2> SUFFICES ASSUME WholeSamples PROVE Aligned(waiting') /\ Aligned(handed')
    BY Zenon DEF AlignedInv, Aligned
  <2>1. Aligned(waiting) /\ Aligned(handed) /\ HandoffBytes % 2 = 0
    BY <1>t, Zenon DEF AlignedInv, WholeSamples
  <2>2. n % 2 = 0
    <3>1. Len(waiting) % 2 = 0 /\ (n % 2 = 1 => waiting[n].half = 1)
      BY <1>3, <2>1, Zenon DEF Aligned
    <3>2. n % 2 \in {0, 1} /\ 1 # 2
      BY <1>3
    <3> QED BY <1>1, <2>1, <3>1, <3>2, Zenon
  <2>3. Aligned(run) /\ Aligned(waiting')
    BY <1>1, <1>2, <1>3, <1>4, <2>1, <2>2, AlignmentKept, Zenon
  <2> HIDE DEF run
  <2> QED BY <1>2, <1>3, <1>4, <2>1, <2>2, <2>3, AlignmentKept, Zenon
<1>7. BytesOf(run) \subseteq BytesOf(waiting) /\ BytesOf(waiting') \subseteq BytesOf(waiting)
  BY <1>1, <1>2, <1>3, <1>4, BytesKept, Zenon
<1> HIDE DEF run
<1>8. BytesOf(handed') \subseteq BytesOf(handed) \cup BytesOf(waiting)
  <2>1. BytesOf(handed') \subseteq BytesOf(handed) \cup BytesOf(run)
    BY <1>2, <1>3, <1>4, BytesKept, Zenon
  <2> QED BY <1>7, <2>1, Zenon
<1>9. \A byte : (OfThisTurn(byte) => OfThisTurn(byte)') /\ (FitsFormat(byte) => FitsFormat(byte)')
  BY <1>1, Zenon DEF OfThisTurn, FitsFormat, Explains, declared
<1>10. TurnInv'
  BY <1>t, <1>1, <1>7, <1>8, <1>9, Zenon DEF TurnInv
<1>11. FrameInv'
  <2>1. at \in {"pop", "read"} => at # "idle"
    OBVIOUS
  <2>2. declared' = declared
    BY <1>1, Zenon DEF declared
  <2> QED BY <1>t, <1>1, <1>7, <1>8, <1>9, <2>1, <2>2, Zenon DEF FrameInv
<1> QED BY <1>t, <1>1, <1>5, <1>6, <1>10, <1>11, PlayedStays, Zenon DEF BugInv

\* ReadFormat makes frame and resampler fit what was declared last.
LEMMA FormatKeeps ==
  ASSUME BugInv, ReadFormat
  PROVE  BugInv'
<1> USE DEF server
<1>t. BugTyped /\ Resampled /\ TurnInv /\ FrameInv /\ AlignedInv /\ PlayedAsDeclared
  BY DEF BugInv
<1>1. /\ at = "idle" /\ at' \in {"idle", "read"}
      /\ UNCHANGED <<rate, declaredIn, generation, waiting, seen, handed>>
  BY DEF ReadFormat
<1>2. /\ frame' = [declared |-> declared, format |-> rate, bytes |-> <<>>]
      /\ frame'.declared = declared /\ frame'.format = rate /\ frame'.bytes = <<>>
  BY DEF ReadFormat
<1>3. /\ resampler' \in {0, rate}
      /\ at' # "idle" => rate = IF resampler' = 0 THEN SessionRate ELSE resampler'
  BY DEF ReadFormat, Ensured
<1>4. declared' = declared /\ declared \in Nat /\ declared <= declared
  BY <1>t, <1>1, LenProperties DEF declared, BugTyped
<1>5. BugTyped'
  <2>1. frame' \in Frames
    BY <1>t, <1>2, <1>4, EmptySeq DEF BugTyped, Frames, Handed
  <2>2. resampler' \in BugRates \cup {0}
    BY <1>t, <1>3, Zenon DEF BugTyped
  <2>3. at' \in {"idle", "read", "discard", "pop"}
    BY <1>1
  <2> QED BY <1>t, <1>1, <1>2, <1>4, <2>1, <2>2, <2>3, Zenon DEF BugTyped
<1>6. Resampled' /\ AlignedInv'
  BY <1>t, <1>1, <1>2, <1>3, Zenon DEF Resampled, PlayedAt, BugTyped, AlignedInv, Aligned
<1>7. TurnInv'
  <2>1. at # "discard"
    BY <1>1
  <2> QED BY <1>t, <1>1, <1>4, <2>1, Zenon DEF TurnInv, OfThisTurn, Explains
<1>8. FrameInv'
  <2>1. \A byte : OfThisTurn(byte) => FitsFormat(byte)'
    BY <1>1, <1>2, Zenon DEF OfThisTurn, FitsFormat, Explains
  <2>2. at # "discard" /\ at' # "pop"
    BY <1>1
  <2> QED BY <1>t, <1>1, <1>2, <1>4, <2>1, <2>2, Zenon DEF FrameInv, TurnInv
<1>9. PlayedAsDeclared'
  <2>1. frame'.bytes = <<>> /\ DOMAIN <<>> = {}
    BY <1>2
  <2> QED BY <2>1, Zenon DEF PlayedAsDeclared, SamplesStayAligned
<1> QED BY <1>5, <1>6, <1>7, <1>8, <1>9 DEF BugInv

\* ReadPlayback goes on to the bytes only if no clear came in between.
LEMMA LookKeeps ==
  ASSUME BugInv, ReadPlayback
  PROVE  BugInv'
<1> USE DEF server
<1>t. BugTyped /\ Resampled /\ TurnInv /\ FrameInv /\ AlignedInv /\ PlayedAsDeclared
  BY DEF BugInv
<1>1. /\ at = "read" /\ seen' = generation
      /\ at' = IF generation = seen THEN "pop" ELSE "discard"
      /\ UNCHANGED <<rate, declaredIn, generation, waiting, handed, resampler, frame>>
  BY DEF ReadPlayback
<1>2. declared' = declared
  BY <1>1, Zenon DEF declared
<1>3. at # "idle" /\ at # "discard" /\ at' # "idle" /\ at' # "read"
  BY <1>1
<1>4. BugTyped' /\ Resampled' /\ AlignedInv'
  <2>1. generation <= generation /\ at' \in {"idle", "read", "discard", "pop"}
    BY <1>t, <1>1 DEF BugTyped
  <2>2. BugTyped'
    BY <1>t, <1>1, <1>2, <2>1, Zenon DEF BugTyped
  <2> QED BY <1>t, <1>1, <1>3, <2>2, Zenon DEF Resampled, PlayedAt, AlignedInv, Aligned
<1>5. \A byte : (OfThisTurn(byte) => OfThisTurn(byte)') /\ (FitsFormat(byte) => FitsFormat(byte)')
  BY <1>1, Zenon DEF OfThisTurn, FitsFormat, Explains, declared
<1>6. CASE generation = seen
  <2>1. TurnInv' /\ FrameInv'
    BY <1>t, <1>1, <1>2, <1>3, <1>5, <1>6, Zenon DEF TurnInv, FrameInv
  <2>2. PlayedAsDeclared'
    BY <1>t, <1>1, <1>3, Zenon DEF PlayedAsDeclared, SamplesStayAligned
  <2> QED BY <1>4, <2>1, <2>2 DEF BugInv
<1>7. CASE generation # seen
  <2>1. at' = "discard" /\ at' # "pop"
    BY <1>1, <1>7
  <2>2. TurnInv' /\ FrameInv'
    BY <1>t, <1>1, <1>2, <1>3, <1>5, <2>1, Zenon DEF TurnInv, FrameInv
  <2>3. PlayedAsDeclared'
    BY <1>t, <1>1, <1>3, Zenon DEF PlayedAsDeclared, SamplesStayAligned
  <2> QED BY <1>4, <2>2, <2>3 DEF BugInv
<1> QED BY <1>6, <1>7

\* What a callback takes is a number of bytes, and of whole samples where the
\* rates make it so.
LEMMA WantedBytes ==
  ASSUME BugTyped, Resampled, at # "idle"
  PROVE  Wanted \in Nat /\ (WholeSamples => Wanted % 2 = 0)
<1> DEFINE w == (FrameBytes * frame.format) \div SessionRate
<1>1. frame.format \in BugRates /\ (WholeSamples => w % 2 = 0)
  BY Zenon DEF Resampled, WholeSamples, BugRates
<1>2. frame.format \in Nat /\ FrameBytes \in Nat /\ SessionRate \in Nat \ {0} /\ ScratchBytes \in Nat
  BY <1>1, MediaBugAssumption DEF BugRates
<1>3. FrameBytes * frame.format \in Nat
  BY <1>2
<1>4. w \in Nat
  BY <1>2, <1>3
<1>5. FrameBytes % 2 = 0 /\ ScratchBytes % 2 = 0 /\ 2 % 2 = 0
  BY MediaBugAssumption
<1>6. resampler # 0 => Wanted = Min({Max({w, 2}), ScratchBytes})
  BY Zenon DEF Wanted
<1>7. resampler = 0 => Wanted = FrameBytes
  BY Zenon DEF Wanted
<1> HIDE DEF w
<1>8. Max({w, 2}) \in Nat /\ (Max({w, 2}) = w \/ Max({w, 2}) = 2)
  BY <1>4, MinMaxOfTwo
<1>9. Min({Max({w, 2}), ScratchBytes}) \in {Max({w, 2}), ScratchBytes}
  BY <1>2, <1>8, MinMaxOfTwo
<1> QED BY <1>1, <1>2, <1>5, <1>6, <1>7, <1>8, <1>9, Zenon

\* The bytes discarded or played leave the ring.
LEMMA TakenFromRing ==
  ASSUME BugInv, at # "idle", handed' = SubSeq(handed, Wanted + 1, Len(handed))
  PROVE  /\ handed' \in Handed /\ BytesOf(handed') \subseteq BytesOf(handed)
         /\ WholeSamples => Aligned(handed')
<1>1. BugTyped /\ Resampled /\ AlignedInv
  BY DEF BugInv
<1>2. Wanted \in Nat /\ (WholeSamples => Wanted % 2 = 0)
  BY <1>1, WantedBytes, Zenon
<1>3. handed \in Handed /\ handed' = Rest(handed, Wanted)
  BY <1>1, Zenon DEF BugTyped, Rest
<1>4. handed' \in Handed /\ BytesOf(handed') \subseteq BytesOf(handed)
  <2>1. Rest(handed, Wanted) \in Handed
    BY <1>2, <1>3, RestOf, Zenon
  <2>2. BytesOf(Rest(handed, Wanted)) \subseteq BytesOf(handed)
    BY <1>2, <1>3, BytesKept, Zenon
  <2> QED BY <1>3, <2>1, <2>2, Zenon
<1>5. ASSUME WholeSamples PROVE Aligned(handed')
  <2>1. Aligned(handed)
    BY <1>1, <1>5, Zenon DEF AlignedInv
  <2> QED BY <1>2, <1>3, <1>5, <2>1, AlignmentKept, Zenon
<1> QED BY <1>4, <1>5

\* The discard ends with an empty ring, which holds nothing of an earlier turn.
LEMMA DiscardKeeps ==
  ASSUME BugInv, DiscardHanded
  PROVE  BugInv'
<1> USE DEF server
<1>t. BugTyped /\ Resampled /\ TurnInv /\ FrameInv /\ AlignedInv /\ PlayedAsDeclared
  BY DEF BugInv
<1>1. /\ at = "discard" /\ at' = IF handed = <<>> THEN "idle" ELSE "discard"
      /\ handed' = SubSeq(handed, Wanted + 1, Len(handed))
      /\ UNCHANGED <<rate, declaredIn, generation, waiting, seen, resampler, frame>>
  BY DEF DiscardHanded
<1>2. at # "idle" /\ at' \in {"idle", "discard"} /\ at' # "pop" /\ at' # "read"
  BY <1>1
<1>3. /\ handed' \in Handed /\ BytesOf(handed') \subseteq BytesOf(handed)
      /\ WholeSamples => Aligned(handed')
  BY <1>1, <1>2, TakenFromRing, Zenon
<1>4. declared' = declared
  BY <1>1, Zenon DEF declared
<1>5. frame.bytes = <<>>
  BY <1>t, <1>2, Zenon DEF Resampled
<1>6. BugTyped' /\ Resampled' /\ AlignedInv'
  <2>1. at' \in {"idle", "read", "discard", "pop"}
    BY <1>2
  <2>2. BugTyped'
    BY <1>t, <1>1, <1>3, <1>4, <2>1, Zenon DEF BugTyped
  <2> QED BY <1>t, <1>1, <1>2, <1>3, <2>2, Zenon DEF Resampled, PlayedAt, AlignedInv, Aligned
<1>7. at' # "discard" => BytesOf(handed') = {}
  <2>1. at' # "discard" => handed = <<>>
    BY <1>1
  <2>2. BytesOf(<<>>) = {}
    <3>1. Len(<<>>) = 0 /\ 1..0 = {}
      BY EmptySeq
    <3> QED BY <3>1, Zenon DEF BytesOf
  <2>3. \A S : S \subseteq {} => S = {}
    OBVIOUS
  <2> QED BY <1>3, <2>1, <2>2, <2>3, Zenon
<1>8. \A byte : (OfThisTurn(byte) => OfThisTurn(byte)') /\ (FitsFormat(byte) => FitsFormat(byte)')
  BY <1>1, Zenon DEF OfThisTurn, FitsFormat, Explains, declared
<1>9. TurnInv' /\ FrameInv'
  BY <1>t, <1>1, <1>2, <1>4, <1>7, <1>8, Zenon DEF TurnInv, FrameInv
<1>10. PlayedAsDeclared'
  <2>1. frame'.bytes = <<>> /\ DOMAIN <<>> = {}
    BY <1>1, <1>5
  <2> QED BY <2>1, Zenon DEF PlayedAsDeclared, SamplesStayAligned
<1> QED BY <1>6, <1>9, <1>10 DEF BugInv

\* The bytes of the frame come from the ring, which is of one turn or was found
\* to be when the callback looked.
LEMMA PopKeeps ==
  ASSUME BugInv, PopHanded
  PROVE  BugInv'
<1> USE DEF server
<1>t. BugTyped /\ Resampled /\ TurnInv /\ FrameInv /\ AlignedInv /\ PlayedAsDeclared
  BY DEF BugInv
<1> DEFINE n == Min({Wanted, Len(handed)})
           bytes == SubSeq(handed, 1, n)
<1>1. /\ at = "pop" /\ at' = "idle"
      /\ handed' = SubSeq(handed, Wanted + 1, Len(handed))
      /\ frame' = [frame EXCEPT !.bytes = bytes]
      /\ UNCHANGED <<rate, declaredIn, generation, waiting, seen, resampler>>
  BY DEF PopHanded
<1>2. at # "idle" /\ at # "discard" /\ at' # "pop" /\ at' # "read"
  BY <1>1
<1>3. /\ handed' \in Handed /\ BytesOf(handed') \subseteq BytesOf(handed)
      /\ WholeSamples => Aligned(handed')
  BY <1>1, <1>2, TakenFromRing, Zenon
<1>4. handed \in Handed /\ Len(handed) \in Nat /\ n \in 0..Len(handed)
  <2>1. handed \in Handed /\ Len(handed) \in Nat /\ Wanted \in Nat
    BY <1>t, <1>2, WantedBytes, LenProperties DEF BugTyped, Handed
  <2> QED BY <2>1, MinMaxOfTwo
<1>5. bytes \in Handed /\ Len(bytes) = n /\ \A i \in 1..n : i \in 1..Len(handed) /\ bytes[i] = handed[i]
  BY <1>4, Taken, Zenon
<1> HIDE DEF n, bytes
<1>6. frame' \in Frames /\ frame'.declared = frame.declared /\ frame'.bytes = bytes
  <2>1. frame \in Frames
    BY <1>t DEF BugTyped
  <2> QED BY <1>1, <1>5, <2>1 DEF Frames
<1>7. declared' = declared /\ PlayedAt' = PlayedAt /\ PlayedAt = frame.format
  BY <1>t, <1>1, <1>2, Zenon DEF declared, PlayedAt, Resampled
<1>8. BugTyped' /\ Resampled' /\ AlignedInv'
  <2>1. at' \in {"idle", "read", "discard", "pop"}
    BY <1>1
  <2>2. BugTyped'
    BY <1>t, <1>1, <1>3, <1>6, <1>7, <2>1, Zenon DEF BugTyped
  <2> QED BY <1>t, <1>1, <1>3, <2>2, Zenon DEF Resampled, AlignedInv, Aligned
<1>9. \A byte : OfThisTurn(byte) => OfThisTurn(byte)'
  BY <1>1, Zenon DEF OfThisTurn, Explains, declared
<1>10. TurnInv' /\ FrameInv'
  BY <1>t, <1>1, <1>2, <1>3, <1>9, Zenon DEF TurnInv, FrameInv
<1>11. ASSUME NEW i \in DOMAIN bytes, bytes[i].declared <= frame.declared
       PROVE  Explains(declaredIn, bytes[i], frame.declared, PlayedAt)
  <2>1. DOMAIN bytes = 1..n
    BY <1>5, LenProperties DEF Handed
  <2>2. bytes[i] \in BytesOf(handed)
    BY <1>5, <2>1, Zenon DEF BytesOf
  <2>3. FitsFormat(bytes[i])
    BY <1>t, <1>1, <2>2, Zenon DEF FrameInv
  <2> QED BY <1>7, <1>11, <2>3, Zenon DEF FitsFormat
<1>12. (WholeSamples => SamplesStayAligned)'
  <2> SUFFICES ASSUME WholeSamples, bytes # <<>> PROVE bytes[1].half = 1
    BY <1>6, Zenon DEF SamplesStayAligned
  <2>1. n # 0
    BY <1>5, EmptySeq DEF Handed
  <2>2. 1 \in 1..n /\ 1 % 2 = 1
    BY <1>4, <2>1
  <2>3. 1 \in 1..Len(handed) /\ bytes[1] = handed[1]
    BY <1>5, <2>2, Zenon
  <2>4. handed[1].half = 1
    BY <1>t, <2>2, <2>3, Zenon DEF AlignedInv, Aligned
  <2> QED BY <2>3, <2>4, Zenon
<1>13. PlayedAsDeclared'
  <2>1. ASSUME NEW i \in DOMAIN frame'.bytes, frame'.bytes[i].declared <= frame'.declared
        PROVE  RateExplained(frame.bytes[i], frame.declared, PlayedAt)'
    <3>1. Explains(declaredIn, bytes[i], frame.declared, PlayedAt)
      BY <1>6, <1>11, <2>1, Zenon
    <3> QED BY <1>1, <1>6, <1>7, <3>1, Zenon DEF RateExplained, Explains
  <2> QED BY <1>12, <2>1, Zenon DEF PlayedAsDeclared
<1> QED BY <1>8, <1>10, <1>13 DEF BugInv

\* A mark changes nothing the callback depends on, and a step that leaves the
\* media bug alone nothing at all.
LEMMA RestKeeps ==
  ASSUME BugInv, UNCHANGED <<rate, declaredIn, generation, waiting, handed, callback>>
  PROVE  BugInv'
<1>1. UNCHANGED <<rate, declaredIn, generation, waiting, handed, seen, at, resampler, frame>>
  BY DEF callback
<1>2. BugTyped' /\ Resampled' /\ AlignedInv'
  BY <1>1, Zenon DEF BugInv, BugTyped, Resampled, AlignedInv, Aligned, declared, PlayedAt
<1>3. \A byte : (OfThisTurn(byte) => OfThisTurn(byte)') /\ (FitsFormat(byte) => FitsFormat(byte)')
  BY <1>1, Zenon DEF OfThisTurn, FitsFormat, Explains, declared
<1>4. TurnInv' /\ FrameInv'
  BY <1>1, <1>3, Zenon DEF BugInv, TurnInv, FrameInv, BytesOf, declared
<1>5. PlayedAsDeclared'
  BY <1>1, PlayedStays, Zenon DEF BugInv
<1> QED BY <1>2, <1>4, <1>5 DEF BugInv

\* A callback, a buffer and a ring that have seen nothing.
LEMMA BugInitHolds == BugInit => BugInv
<1> SUFFICES ASSUME BugInit PROVE BugInv
  OBVIOUS
<1>1. /\ rate = ForkRate /\ declaredIn = <<>> /\ generation = 0 /\ seen = 0
      /\ waiting = <<>> /\ handed = <<>> /\ at = "idle" /\ resampler = 0
      /\ frame = [declared |-> 0, format |-> SessionRate, bytes |-> <<>>]
  BY DEF BugInit, NoFrame
<1>2. /\ handed \in Handed /\ waiting \in Handed /\ Len(handed) = 0 /\ Len(waiting) = 0
      /\ declaredIn \in Seq(Nat) /\ declared = 0
      /\ frame.bytes = <<>> /\ DOMAIN <<>> = {} /\ frame.declared = 0
  BY <1>1, EmptySeq DEF Handed, declared
<1>3. BytesOf(handed) = {} /\ BytesOf(waiting) = {}
  <2>1. 1..0 = {}
    OBVIOUS
  <2> QED BY <1>2, <2>1, Zenon DEF BytesOf
<1>4. BugTyped
  <2>1. frame \in Frames
    BY <1>1, <1>2 DEF Frames
  <2>2. 0 <= JitterBytes /\ 0 <= 0 /\ 0 \in Nat
    BY MediaBugAssumption
  <2> QED BY <1>1, <1>2, <2>1, <2>2, Zenon DEF BugTyped, BugRates
<1>5. Resampled /\ TurnInv /\ FrameInv
  <2>1. at # "pop" /\ at # "read"
    BY <1>1
  <2> QED BY <1>1, <1>3, <2>1, Zenon DEF Resampled, TurnInv, FrameInv
<1>6. AlignedInv
  BY <1>2 DEF AlignedInv, Aligned
<1>7. PlayedAsDeclared
  BY <1>2, Zenon DEF PlayedAsDeclared, SamplesStayAligned
<1> QED BY <1>4, <1>5, <1>6, <1>7 DEF BugInv

\* Loading the module, the pool and the reconnects leave the bug alone.
LEMMA StartStepIsBugStep == [StartNext]_startVars => [BugNext]_bugVars
  BY Zenon DEF StartNext, ReadParam, Load, Reconnects, NextDelay, Reset, PoolStep, BugStep, startVars

\* The inductive invariant of the jitter buffer, the ring and the media callback
\* that reads it (mod_audio_fork.cpp:323-369, ForkSession::ReadPlayback), for
\* every set of rates, every hand-off, cap, frame, scratch and ring size, and any
\* number of clears, declarations and samples.
THEOREM BugInvariant == StartSpec => []BugInv
<1>1. StartInit => BugInv
  BY BugInitHolds DEF StartInit
<1>2. BugInv /\ [StartNext]_startVars => BugInv'
  <2> SUFFICES ASSUME BugInv, [StartNext]_startVars PROVE BugInv'
    OBVIOUS
  <2>1. CASE Rearm
    BY <2>1, RestKeeps, Zenon DEF Rearm
  <2>2. CASE UNCHANGED bugVars
    BY <2>2, RestKeeps, Zenon DEF bugVars, server
  <2> QED BY <2>1, <2>2, StartStepIsBugStep, StartKeeps, ClearKeeps, ArrivalKeeps, HandOverKeeps,
             FormatKeeps, LookKeeps, DiscardKeeps, PopKeeps, Zenon DEF BugNext
<1> QED BY <1>1, <1>2, PTL DEF StartSpec

\* However clears, declarations, marks and a full buffer race the callback
\* between its reading the format, its looking for a clear and its taking the
\* bytes, audio is played at the rate it was sent at unless another was declared
\* behind it in its own turn; and where the hand-off and the rates are of whole
\* samples, so is what is played.
THEOREM AudioKeepsItsRate == StartSpec => []PlayedAsDeclared
<1>1. BugInv => PlayedAsDeclared
  BY DEF BugInv
<1> QED BY <1>1, BugInvariant, PTL

-----------------------------------------------------------------------------
(* The slab pool.                                                          *)

\* Inductive as it stands: LeasesCounted is what makes leased_slabs positive
\* when a lease is released, Accounting what makes allocated_bytes cover a slab
\* that is given back.
Inv == TypeOK /\ Accounting /\ WithinCap /\ LeasesCounted

\* A pool as SlabPool::Create leaves it satisfies the invariant.
LEMMA InvInit == Init => Inv
  BY FS_EmptySet, SizeAssumption, TotalAssumption
     DEF Init, Inv, TypeOK, Accounting, WithinCap, LeasesCounted

\* The arithmetic of taking or returning one slab.
LEMMA Distribute ==
  ASSUME NEW s \in Nat, NEW m \in Nat, NEW n \in Nat
  PROVE  /\ s * (m + n + 1) = s * (m + n) + s
         /\ m + n > 0 => s * (m + n - 1) = s * (m + n) - s
  OBVIOUS

\* A set with an element has a positive size.
LEMMA InhabitedIsPositive ==
  ASSUME NEW S, IsFiniteSet(S), NEW x \in S
  PROVE  Cardinality(S) \in Nat /\ Cardinality(S) > 0
  BY FS_CardinalityType, FS_EmptySet

\* A fresh lease adds one to the number of leases.
LEMMA NewLeaseCounted ==
  ASSUME TypeOK, NewLease
  PROVE  /\ leases' \subseteq Leases /\ IsFiniteSet(leases')
         /\ Cardinality(leases') = Cardinality(leases) + 1
  BY FS_AddElement DEF TypeOK, NewLease

\* Acquire, its failed allocation, and Release preserve the invariant.
LEMMA InvStep == Inv /\ [Next]_vars => Inv'
  <1> SUFFICES ASSUME Inv, [Next]_vars PROVE Inv'
    OBVIOUS
  <1> USE SizeAssumption, TotalAssumption DEF Inv, TypeOK, Accounting, WithinCap, LeasesCounted
  <1>0. Cardinality(leases) \in Nat /\ Cardinality(allocating) \in Nat
    BY FS_CardinalityType
  <1>1. ASSUME NEW t \in Threads, AcquireFree(t) PROVE Inv'
    BY <1>0, <1>1, NewLeaseCounted DEF AcquireFree
  <1>2. ASSUME NEW t \in Threads, Reserve(t) PROVE Inv'
    <2>1. IsFiniteSet(allocating') /\ Cardinality(allocating') = Cardinality(allocating) + 1
      BY <1>2, FS_AddElement DEF Reserve
    <2>2. slabSize * (freeSlabs' + leasedSlabs') = slabSize * (freeSlabs + leasedSlabs) + slabSize
      BY <1>2, Distribute DEF Reserve
    <2> QED
      BY <1>0, <1>2, <2>1, <2>2 DEF Reserve, Fits
  <1>3. ASSUME NEW t \in Threads, AllocationSucceeds(t) PROVE Inv'
    <2>1. IsFiniteSet(allocating') /\ Cardinality(allocating') = Cardinality(allocating) - 1
      BY <1>3, FS_RemoveElement DEF AllocationSucceeds
    <2> QED
      BY <1>0, <1>3, <2>1, NewLeaseCounted DEF AllocationSucceeds
  <1>4. ASSUME NEW t \in Threads, AllocationFails(t) PROVE Inv'
    <2>1. IsFiniteSet(allocating') /\ Cardinality(allocating') = Cardinality(allocating) - 1
      BY <1>4, FS_RemoveElement DEF AllocationFails
    <2>2. leasedSlabs > 0
      BY <1>0, <1>4, InhabitedIsPositive DEF AllocationFails
    <2>3. slabSize * (freeSlabs' + leasedSlabs') = slabSize * (freeSlabs + leasedSlabs) - slabSize
      BY <1>4, <2>2, Distribute DEF AllocationFails, GiveBack
    <2>4. slabSize * (freeSlabs' + leasedSlabs') \in Nat
      BY <1>4, <2>2 DEF AllocationFails, GiveBack
    <2> QED
      BY <1>0, <1>4, <2>1, <2>2, <2>3, <2>4 DEF AllocationFails, GiveBack
  <1>5. CASE Release
    <2>1. PICK lease \in leases : leases' = leases \ {lease}
      BY <1>5 DEF Release
    <2>2. IsFiniteSet(leases') /\ Cardinality(leases') = Cardinality(leases) - 1
      BY <2>1, FS_RemoveElement
    <2>3. leasedSlabs > 0
      BY <1>0, <2>1, InhabitedIsPositive
    <2> QED
      BY <1>0, <1>5, <2>1, <2>2, <2>3 DEF Release
  <1>6. CASE UNCHANGED vars
    BY <1>6 DEF vars
  <1> QED
    BY <1>1, <1>2, <1>3, <1>4, <1>5, <1>6 DEF Next

\* The accounting of slab_pool.cpp holds in every reachable state of the pool.
THEOREM PoolInvariant == Spec => []Inv
  BY InvInit, InvStep, PTL DEF Spec

\* A number of slabs that fits in the cap is at most the quotient.
LEMMA SlabsFit ==
  ASSUME NEW n \in Nat, slabSize * n <= maxTotal
  PROVE  n <= MaxSlabs
  BY SizeAssumption, TotalAssumption DEF MaxSlabs

\* Every byte the pool has allocated is in a free or a leased slab, also when
\* allocations outside the mutex succeed or fail concurrently (Acquire).
THEOREM AccountingHolds == Spec => [](Accounting /\ LeasesCounted)
  <1>1. Inv => Accounting /\ LeasesCounted
    BY DEF Inv
  <1> QED
    BY <1>1, PoolInvariant, PTL

\* allocated_bytes never exceeds max_total_bytes (Acquire, CanLease).
THEOREM CapHolds == Spec => []WithinCap
  <1>1. Inv => WithinCap
    BY DEF Inv
  <1> QED
    BY <1>1, PoolInvariant, PTL

\* Returning a slab never makes the free list grow past the capacity Create
\* reserved, so Release keeps its noexcept (slab_pool.cpp:26-29).
THEOREM ReleaseNeverAllocates == Spec => []FreeListFits
  <1>1. Inv => FreeListFits
    BY SlabsFit DEF Inv, TypeOK, Accounting, WithinCap, FreeListFits
  <1> QED
    BY <1>1, PoolInvariant, PTL

=============================================================================
