----------------------------- MODULE ModuleStart -----------------------------
(***************************************************************************)
(* mod_audio_fork_load and what rests on the configuration it reads: the    *)
(* parameters of audio_fork.conf.xml one after the other, SanitizeConfig,   *)
(* then the slab pool shared by the forks, and the reconnect delays and the *)
(* media bug of one of them.                                                *)
(***************************************************************************)
EXTENDS SlabPool, Configuration, MediaBug

CONSTANTS
  Numbers,     \* what atoi may make of a parameter's value
  Overflowed,  \* what an int may be after an overflow
  Rates,       \* sample rates forks are started with
  MaxParams,   \* bound: parameters in the file
  MaxTries     \* bound: reconnects without a handshake in between

ASSUME NumbersAssumption == Numbers \subseteq Int /\ Overflowed \subseteq Int

VARIABLES
  stage,       \* "loading" | "loaded"
  config,      \* ModuleState::config
  params,      \* parameters read so far
  overflow,    \* history: a parameter in seconds overflowed
  current,     \* ReconnectBackoff::current_ of a fork
  tries,       \* history: NextDelay calls since the last Reset
  delay        \* what the last NextDelay returned, 0 before the first

backoff == <<current, tries, delay>>
loading == <<stage, config, params, overflow>>
startVars == <<loading, backoff, vars, bugVars>>

\* 1000 * number fits a 32-bit int.  If it does not, its value is undefined.
InRange(number) == -2147483 <= number /\ number <= 2147483

Milliseconds(number) == IF InRange(number) THEN {number * 1000} ELSE Overflowed

\* The parameters LoadConfig knows, the field each one sets and the values it
\* may set it to.  Neither the hand-off buffer, the slab size nor the drain
\* timeout is among them.
Settings(number) ==
  [shard_count |-> {AtLeast(number, 0)},
   send_buffer |-> Milliseconds(number),
   playback_high_watermark |-> {number},
   playback_low_watermark |-> {number},
   coalesce_max |-> {number},
   emergency_buffer |-> Milliseconds(number),
   global_memory_cap |-> {AtLeast(number, 1) * PagesPerMB},
   reconnect_min |-> {number},
   reconnect_max |-> {number},
   max_forks_per_call |-> {AtLeast(number, 1)},
   cert_file |-> BOOLEAN,
   key_file |-> BOOLEAN]

\* What a fork can be started with: ParseMixType's kinds, stereo with two
\* channels and the others with one, at a rate given or the call's.
Formats == [sample_rate : Rates, channels : {1, 2}]

-----------------------------------------------------------------------------

StartInit ==
  /\ Init /\ BugInit
  /\ stage = "loading" /\ config = Defaults /\ params = 0 /\ overflow = FALSE
  /\ current = Defaults.reconnect_min /\ tries = 0 /\ delay = 0

\* One iteration of LoadConfig's loop.
ReadParam ==
  /\ stage = "loading" /\ params < MaxParams
  /\ params' = params + 1
  /\ \E number \in Numbers : \E name \in DOMAIN Settings(number) :
       /\ \E value \in Settings(number)[name] : config' = [config EXCEPT ![name] = value]
       /\ overflow' = (overflow \/ (name \in {"send_buffer", "emergency_buffer"} /\ ~InRange(number)))
  /\ UNCHANGED <<stage, backoff, vars, bugVars>>

\* The end of LoadConfig, also when there is no file.
Load ==
  /\ stage = "loading"
  /\ stage' = "loaded" /\ config' = SanitizeConfig(config)
  /\ params' = 0
  /\ current' = SanitizeConfig(config).reconnect_min
  /\ UNCHANGED <<overflow, tries, delay, vars, bugVars>>

\* A reconnect is scheduled.
NextDelay ==
  /\ stage = "loaded" /\ tries < MaxTries
  /\ delay' \in NextDelays(config, current)
  /\ current' = Grown(config, current)
  /\ tries' = tries + 1
  /\ UNCHANGED <<loading, vars, bugVars>>

\* A handshake completed, or the fork was given another endpoint.
Reset ==
  /\ stage = "loaded" /\ tries > 0
  /\ current' = config.reconnect_min /\ tries' = 0 /\ delay' = 0
  /\ UNCHANGED <<loading, vars, bugVars>>

\* The forks use the pool, or one plays its server's audio.  These steps and the
\* reconnects depend on nothing else here, so each is explored without the
\* others, and the first two for the default configuration.
Undisturbed ==
  stage = "loaded" /\ ~overflow /\ config = SanitizeConfig(Defaults) /\ tries = 0

PoolStep ==
  /\ Undisturbed /\ BugInit
  /\ Next
  /\ UNCHANGED <<loading, backoff, bugVars>>

BugStep ==
  /\ Undisturbed /\ Init
  /\ BugNext
  /\ UNCHANGED <<loading, backoff, vars>>

Reconnects == Init /\ BugInit /\ (NextDelay \/ Reset)

StartNext == ReadParam \/ Load \/ Reconnects \/ PoolStep \/ BugStep

StartSpec == StartInit /\ [][StartNext]_startVars

-----------------------------------------------------------------------------

\* Whatever the file says, the module can serve every kind of fork once it is
\* loaded (SanitizeConfig, MakeTuning, ForkSession::Create, MinimumSlabs):
\* sanitizing again changes nothing; the fork is created, with playback; a
\* flush fits the hand-off ring and the ring the buffer; degrading to the
\* emergency cap never enlarges the buffer; reading resumes at or below the mark
\* it paused at; an empty pool admits the fork; at a rate of whole kHz playback is
\* handed over in whole samples; and the caps, set in whole seconds, are whole
\* sample frames, so that dropping the oldest bytes down to one never leaves half
\* a sample or one channel of a pair at the head of the stream (a cap below a
\* second, which replaces zero or less, need not be).  Only this last promise
\* falls with a number of seconds that overflows.
EveryForkFits ==
  stage = "loaded" =>
    /\ SanitizeConfig(config) = config
    /\ config.cert_file = config.key_file
    /\ \A format \in Formats :
         LET tuning == MakeTuning(config, format)
         IN  /\ Creatable(tuning) /\ HasPlayback(tuning)
             /\ tuning.coalesce_max_bytes <= tuning.handoff_bytes
             /\ tuning.handoff_bytes <= tuning.send_cap_bytes
             /\ tuning.emergency_cap_bytes <= tuning.send_cap_bytes
             /\ tuning.playback_low_watermark_bytes <= tuning.playback_high_watermark_bytes
             /\ MinimumSlabs(tuning, config.slab_size * PageBytes)
                  <= config.global_memory_cap \div config.slab_size
             /\ format.sample_rate % 1000 = 0 => tuning.playback_handoff_bytes % 2 = 0
             /\ config.send_buffer >= 1000 /\ ~overflow =>
                  tuning.send_cap_bytes % (2 * format.channels) = 0
             /\ config.emergency_buffer >= 1000 /\ ~overflow =>
                  tuning.emergency_cap_bytes % (2 * format.channels) = 0

\* NextDelay doubles from reconnect_min and stops at reconnect_max: the delay
\* after n failures is min * 2^n capped at max, a quarter more or less, and
\* never zero, whatever bounds the file gave.
BackoffIsExponential ==
  tries > 0 =>
    LET base == AtMost(config.reconnect_min * 2 ^ (tries - 1), config.reconnect_max)
    IN  delay \in AtLeast((3 * base) \div 4, 1)..((5 * base) \div 4)

=============================================================================
