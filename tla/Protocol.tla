------------------------------ MODULE Protocol ------------------------------
(***************************************************************************)
(* ParseServerMessage (core/src/protocol.cpp).  A text is its size, its     *)
(* characters as far as the scan for nesting tells them apart, and what the *)
(* JSON parser makes of it; a string is its length.                         *)
(***************************************************************************)
EXTENDS Integers, Sequences, SequencesExt

CONSTANTS
  kMaxNestingDepth,  \* 64 in the code
  Word               \* 2^32 in the code: what a cast to std::uint32_t wraps at

kMaxMessageBytes == 65536
kMaxMarkNameBytes == 256
kMinSampleRate == 8000
kMaxSampleRate == 48000

\* A JSON member that is missing, or not a string or unsigned number as needed.
Absent == -1
WrongType == -2

ASSUME WordAssumption == Word > kMaxSampleRate /\ kMaxNestingDepth > 0

\* One character of NestingTooDeep's scan; brackets in a string do not count.
ScanCharacter(scan, char) ==
  IF scan.too_deep THEN scan
  ELSE IF scan.in_string
  THEN [scan EXCEPT !.escaped = ~scan.escaped /\ char = "backslash",
                    !.in_string = scan.escaped \/ char # "quote"]
  ELSE CASE char = "quote" -> [scan EXCEPT !.in_string = TRUE]
         [] char = "open"  -> [scan EXCEPT !.depth = @ + 1,
                                           !.too_deep = scan.depth + 1 > kMaxNestingDepth]
         [] char = "close" -> [scan EXCEPT !.depth = IF @ > 0 THEN @ - 1 ELSE 0]
         [] OTHER -> scan

NestingTooDeep(chars) ==
  FoldLeft(ScanCharacter,
           [depth |-> 0, in_string |-> FALSE, escaped |-> FALSE, too_deep |-> FALSE],
           chars).too_deep

\* Mutation of RateInRange: only the value cast to 32 bits is looked at.
RateWrapped(rate) == rate % Word \in kMinSampleRate..kMaxSampleRate

\* The cast happens before the lower bound is checked, hence the second check.
RateInRange(rate) == rate % Word \in kMinSampleRate..kMaxSampleRate /\ rate <= kMaxSampleRate

Message(kind) == [kind |-> kind, sample_rate |-> 0, channels |-> 0]

\* A start_playback: what is absent stays 0, the session's own format.
ParseStartPlayback(json) ==
  IF /\ json.rate = Absent \/ (json.rate # WrongType /\ RateInRange(json.rate))
     /\ json.channels \in {Absent, 1, 2}
  THEN [kind |-> "StartPlayback",
        sample_rate |-> IF json.rate = Absent THEN 0 ELSE json.rate % Word,
        channels |-> IF json.channels = Absent THEN 0 ELSE json.channels]
  ELSE Message("Invalid")

ParseServerMessage(text) ==
  LET json == text.json
  IN  IF text.bytes > kMaxMessageBytes \/ NestingTooDeep(text.chars) \/ ~json.valid
      THEN Message("Invalid")
      ELSE CASE json.type = "clear" -> Message("Clear")
             [] json.type = "disconnect" -> Message("Disconnect")
             [] json.type = "mark" -> IF json.name \in 1..kMaxMarkNameBytes
                                      THEN Message("Mark") ELSE Message("Invalid")
             [] json.type = "start_playback" -> ParseStartPlayback(json)
             [] OTHER -> Message("Relay")

=============================================================================
