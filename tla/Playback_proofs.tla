--------------------------- MODULE Playback_proofs ---------------------------
(***************************************************************************)
(* The inbound audio, for every size of the buffers and every number of    *)
(* messages, clears and marks: barge-in never lets a read return audio     *)
(* from before the clear, nor the buffer take residue of the turn it cut   *)
(* off; marks are reported once, in order and in step with the audio; and  *)
(* the buffer overflows only where flow control has no say.                *)
(***************************************************************************)
EXTENDS Playback, SequenceTheorems, TLAPS

Bytes == [epoch : Nat, after : Nat]
Marks == [offset : Nat, name : Nat]

Typed ==
  /\ buffer \in Seq(Bytes) /\ Len(buffer) <= CapBytes /\ muted \in BOOLEAN
  /\ written \in Nat /\ consumed \in Nat
  /\ marks \in Seq(Marks) /\ reached \in Seq(Nat) /\ emitted \in Seq(Nat)
  /\ ring \in Seq(Bytes)
  /\ generation \in Nat /\ mediaGeneration \in Nat /\ readFrom \in Nat
  /\ received \in Nat /\ clears \in Nat /\ marked \in Nat /\ clearedAt \in Nat
  /\ ahead \in Nat /\ reconnects \in Nat /\ dropped \in Int
  /\ receivePaused \in BOOLEAN /\ owned \in BOOLEAN /\ socketPaused \in BOOLEAN

\* The generation counts the clears; the buffer holds audio of the current one,
\* and the ring, unless it is being discarded, none older than the generation
\* the media thread has seen.
BargeInInv ==
  /\ generation = clears /\ mediaGeneration <= generation
  /\ mediaPc \in {"idle", "discard", "pop"}
  /\ \A i \in 1..Len(buffer) : buffer[i].epoch = clears
  /\ mediaPc # "discard" => \A i \in 1..Len(ring) : ring[i].epoch >= mediaGeneration
  /\ mediaPc = "pop" => readFrom = mediaGeneration

\* A clear mutes until a later mark.
MuteInv ==
  /\ clearedAt <= marked
  /\ clears > 0 => /\ ~muted => marked > clearedAt
                   /\ \A i \in 1..Len(buffer) : buffer[i].after > clearedAt

\* The buffer is the stream from consumed to written; a waiting mark lies within
\* it, behind the bytes that came before the mark and in front of the others.
OffsetInv ==
  /\ written = consumed + Len(buffer)
  /\ \A k \in 1..Len(buffer) : buffer[k].after <= marked
  /\ \A i \in 1..Len(marks) :
       consumed < marks[i].offset /\ marks[i].offset <= written /\ marks[i].name <= marked
  /\ \A i, j \in 1..Len(marks) : i <= j => marks[i].offset <= marks[j].offset
  /\ \A i \in 1..Len(marks), k \in 1..Len(buffer) :
       consumed + k <= marks[i].offset <=> buffer[k].after < marks[i].name

\* The marks reported or about to be, then those that wait: the marks that were
\* not cleared, in the order they came.
Reported == emitted \o reached
Waiting == [i \in 1..Len(marks) |-> marks[i].name]
Names == Reported \o Waiting

NamesInv ==
  /\ \A i \in 1..Len(Names) : Names[i] <= marked
  /\ \A i, j \in 1..Len(Names) : i < j => Names[i] < Names[j]

\* No audio from before a reported mark is left in the buffer.
ReportedInv ==
  \A i \in 1..Len(Reported), k \in 1..Len(buffer) : Reported[i] <= buffer[k].after

\* Until the first connection is lost the session knows whether its socket is
\* paused; and whenever a socket may deliver what the session did not mean to
\* stop, the buffer is at most at the high watermark.
RoomInv ==
  /\ socket = "none" => finished \/ reconnects > 0
  /\ owned /\ reconnects = 0 => socketPaused = receivePaused
  /\ ~pumping /\ owned /\ socket = "open" /\ ~receivePaused => Len(buffer) <= HighWatermark

-----------------------------------------------------------------------------
(* Facts about the operators on sequences and on the least of two or three *)
(* numbers.                                                                *)

\* The next number is above every number up to this one.
LEMMA OneMore == \A b \in Nat : b + 1 \in Nat /\ \A a \in Nat : a <= b => a <= b + 1 /\ a < b + 1
OBVIOUS

\* A position within a stretch is not behind its end.
LEMMA Within == \A a, m \in Nat : \A k \in 1..m : a + k <= a + m
OBVIOUS

\* Of two numbers, one that is not below the other is at or above it.
LEMMA NotBelow == \A a, b \in Nat : ~(a < b) => b <= a
OBVIOUS

\* std::min is one of two numbers, and above neither.
LEMMA MinOfTwo ==
  ASSUME NEW a \in Int, NEW b \in Int
  PROVE  Min({a, b}) \in Int /\ Min({a, b}) <= a /\ Min({a, b}) <= b
         /\ Min({a, b}) \in {a, b}
<1>1. \E x \in {a, b} : \A y \in {a, b} : x <= y
  <2>1. CASE a <= b  BY <2>1
  <2>2. CASE b <= a  BY <2>2
  <2> QED  BY <2>1, <2>2
<1>2. Min({a, b}) \in {a, b} /\ \A y \in {a, b} : Min({a, b}) <= y
  BY <1>1, Zenon DEF Min
<1> QED  BY <1>2

\* And of three.
LEMMA MinOfThree ==
  ASSUME NEW a \in Int, NEW b \in Int, NEW c \in Int
  PROVE  /\ Min({a, b, c}) \in {a, b, c} /\ Min({a, b, c}) \in Int
         /\ Min({a, b, c}) <= a /\ Min({a, b, c}) <= b /\ Min({a, b, c}) <= c
<1>1. \E x \in {a, b, c} : \A y \in {a, b, c} : x <= y
  <2>1. CASE a <= b /\ a <= c  BY <2>1
  <2>2. CASE b <= a /\ b <= c  BY <2>2
  <2>3. CASE c <= a /\ c <= b  BY <2>3
  <2> QED  BY <2>1, <2>2, <2>3
<1>2. Min({a, b, c}) \in {a, b, c} /\ \A y \in {a, b, c} : Min({a, b, c}) <= y
  BY <1>1, Zenon DEF Min
<1> QED  BY <1>2

\* What is appended comes behind what was there, and moves none of it.
LEMMA Joined ==
  ASSUME NEW S, NEW s \in Seq(S), NEW t \in Seq(S)
  PROVE  /\ s \o t \in Seq(S) /\ Len(s \o t) = Len(s) + Len(t)
         /\ \A i \in 1..Len(s) : (s \o t)[i] = s[i]
         /\ \A i \in 1..Len(t) : (s \o t)[Len(s) + i] = t[i]
<1>1. Len(s) \in Nat /\ Len(t) \in Nat  BY LenProperties
<1>2. /\ s \o t \in Seq(S) /\ Len(s \o t) = Len(s) + Len(t)
      /\ \A i \in 1..Len(s) + Len(t) :
           (s \o t)[i] = IF i <= Len(s) THEN s[i] ELSE t[i - Len(s)]
  BY ConcatProperties
<1> QED  BY <1>1, <1>2

\* The first n elements.
LEMMA TakeFirst ==
  ASSUME NEW S, NEW s \in Seq(S), NEW n \in 0..Len(s)
  PROVE  /\ SubSeq(s, 1, n) \in Seq(S) /\ Len(SubSeq(s, 1, n)) = n
         /\ \A i \in 1..n : SubSeq(s, 1, n)[i] = s[i]
<1>1. Len(s) \in Nat /\ \A i \in 1..Len(s) : s[i] \in S  BY LenProperties, ElementOfSeq
<1> QED  BY <1>1

\* All but the first n elements.
LEMMA DropFirst ==
  ASSUME NEW S, NEW s \in Seq(S), NEW n \in 0..Len(s)
  PROVE  /\ SubSeq(s, n + 1, Len(s)) \in Seq(S)
         /\ Len(SubSeq(s, n + 1, Len(s))) = Len(s) - n
         /\ \A i \in 1..Len(s) - n : SubSeq(s, n + 1, Len(s))[i] = s[i + n]
<1>1. Len(s) \in Nat /\ \A i \in 1..Len(s) : s[i] \in S  BY LenProperties, ElementOfSeq
<1> QED  BY <1>1

\* The sizes are natural numbers.
LEMMA Constants ==
  /\ HighWatermark \in Nat /\ LowWatermark \in Nat /\ CapBytes \in Nat
  /\ HandoffBytes \in Nat /\ ReadBytes \in Nat /\ RingBytes \in Nat
  /\ MaxMessage \in Nat /\ ReadAhead \in Nat /\ PoolDries \in BOOLEAN
BY WatermarkAssumption, BoundsAssumption DEF CapBytes

-----------------------------------------------------------------------------
(* What the steps that touch a sequence do to it.                          *)

\* A new byte: what came with the present clears and marks.
NewByte == [epoch |-> clears, after |-> marked]

\* JitterBuffer::Append stores no more than it is given or has room for, and
\* nothing while muted.
LEMMA StoredBound ==
  ASSUME Typed, NEW n \in 1..MaxMessage, NEW limit \in 0..MaxMessage
  PROVE  /\ Stored(n, limit) \in 0..n /\ Len(buffer) + Stored(n, limit) <= CapBytes
         /\ muted => Stored(n, limit) = 0
         /\ ~muted => Stored(n, limit) \in {n, limit, CapBytes - Len(buffer)}
<1>1. Len(buffer) \in Nat /\ Len(buffer) <= CapBytes /\ CapBytes \in Nat /\ n \in Nat /\ limit \in Nat
  BY Constants, LenProperties DEF Typed
<1>2. CASE muted  BY <1>1, <1>2 DEF Stored
<1>3. CASE ~muted
  <2>1. Stored(n, limit) = Min({n, limit, CapBytes - Len(buffer)})  BY <1>3 DEF Stored
  <2> DEFINE room == CapBytes - Len(buffer)
             m == Min({n, limit, room})
  <2>2. room \in Nat  BY <1>1
  <2> HIDE DEF room
  <2>3. m \in {n, limit, room} /\ m \in Int /\ m <= n /\ m <= room
    <3>1. n \in Int /\ limit \in Int /\ room \in Int  BY <1>1, <2>2
    <3> QED  BY <3>1, MinOfThree, Zenon
  <2> HIDE DEF m
  <2>4. m \in 0..n  BY <1>1, <2>2, <2>3
  <2>5. Stored(n, limit) = m  BY <2>1 DEF m, room
  <2> QED  BY <1>1, <1>3, <2>3, <2>4, <2>5 DEF room
<1> QED  BY <1>2, <1>3

\* A message is appended up to the bytes that are stored.
LEMMA Arrival ==
  ASSUME Typed, OnBinary
  PROVE  \E k \in Nat :
           /\ buffer' \in Seq(Bytes) /\ Len(buffer') = Len(buffer) + k
           /\ Len(buffer') <= CapBytes
           /\ muted => k = 0
           /\ written' = written + k
           /\ \A i \in 1..Len(buffer) : buffer'[i] = buffer[i]
           /\ \A i \in 1..k : buffer'[Len(buffer) + i] = NewByte
<1>1. PICK n \in 1..MaxMessage, limit \in 0..MaxMessage :
        /\ buffer' = buffer \o [i \in 1..Stored(n, limit) |-> NewByte]
        /\ written' = written + Stored(n, limit)
  BY Zenon DEF OnBinary, NewByte
<1> DEFINE k == Stored(n, limit)
           news == [i \in 1..k |-> NewByte]
<1>2. k \in Nat /\ Len(buffer) + k <= CapBytes /\ (muted => k = 0)
  <2>1. n \in Nat  BY Constants
  <2> QED  BY <2>1, StoredBound
<1> HIDE DEF k
<1>3. NewByte \in Bytes  BY DEF NewByte, Bytes, Typed
<1>4. news \in Seq(Bytes) /\ Len(news) = k /\ \A i \in 1..k : news[i] = NewByte
  <2>1. news \in [1..k -> Bytes]  BY <1>3
  <2> QED  BY <1>2, <2>1
<1>5. buffer' = buffer \o news /\ written' = written + k  BY <1>1 DEF k
<1>6. buffer \in Seq(Bytes) /\ Len(buffer) \in Nat  BY LenProperties DEF Typed
<1> HIDE DEF news
<1>7. /\ buffer' \in Seq(Bytes) /\ Len(buffer') = Len(buffer) + k
      /\ \A i \in 1..Len(buffer) : buffer'[i] = buffer[i]
      /\ \A i \in 1..k : buffer'[Len(buffer) + i] = NewByte
  <2>1. ASSUME NEW t \in Seq(Bytes), Len(t) = k, \A i \in 1..k : t[i] = NewByte,
               buffer' = buffer \o t
        PROVE  /\ buffer' \in Seq(Bytes) /\ Len(buffer') = Len(buffer) + k
               /\ \A i \in 1..Len(buffer) : buffer'[i] = buffer[i]
               /\ \A i \in 1..k : buffer'[Len(buffer) + i] = NewByte
    <3>1. /\ buffer \o t \in Seq(Bytes) /\ Len(buffer \o t) = Len(buffer) + Len(t)
          /\ \A i \in 1..Len(buffer) : (buffer \o t)[i] = buffer[i]
          /\ \A i \in 1..Len(t) : (buffer \o t)[Len(buffer) + i] = t[i]
      BY <1>6, Joined
    <3>2. buffer' \in Seq(Bytes)  BY <2>1, <3>1
    <3>3. Len(buffer') = Len(buffer) + k  BY <2>1, <3>1
    <3>4. \A i \in 1..Len(buffer) : buffer'[i] = buffer[i]  BY <2>1, <3>1
    <3>5. \A i \in 1..k : buffer'[Len(buffer) + i] = NewByte  BY <2>1, <3>1
    <3> QED  BY <3>2, <3>3, <3>4, <3>5
  <2> QED  BY <1>4, <1>5, <2>1, Zenon
<1> QED  BY <1>2, <1>5, <1>7, Zenon

\* A run of bytes moves to the ring, and the marks it reaches are taken.
LEMMA Transfer ==
  ASSUME Typed, HandOver
  PROVE  \E n \in 1..Len(buffer), d \in 0..Len(marks) :
           /\ n \in Nat /\ d \in Nat
           /\ ring' \in Seq(Bytes) /\ Len(ring') = Len(ring) + n
           /\ \A i \in 1..Len(ring) : ring'[i] = ring[i]
           /\ \A i \in 1..n : ring'[Len(ring) + i] = buffer[i]
           /\ buffer' \in Seq(Bytes) /\ Len(buffer') = Len(buffer) - n
           /\ \A i \in 1..Len(buffer) - n : buffer'[i] = buffer[i + n]
           /\ consumed' = consumed + n
           /\ DueMarks(d, consumed + n)
           /\ reached' = reached \o [i \in 1..d |-> marks[i].name]
           /\ marks' \in Seq(Marks) /\ Len(marks') = Len(marks) - d
           /\ \A i \in 1..Len(marks) - d : marks'[i] = marks[i + d]
<1>1. PICK n \in 1..Min({HandoffBytes, Len(buffer), FreeBytes}), d \in 0..Len(marks) :
        /\ ring' = ring \o SubSeq(buffer, 1, n)
        /\ buffer' = SubSeq(buffer, n + 1, Len(buffer))
        /\ consumed' = consumed + n
        /\ DueMarks(d, consumed + n)
        /\ reached' = reached \o [i \in 1..d |-> marks[i].name]
        /\ marks' = SubSeq(marks, d + 1, Len(marks))
  BY Zenon DEF HandOver
<1>2. /\ buffer \in Seq(Bytes) /\ ring \in Seq(Bytes) /\ marks \in Seq(Marks)
      /\ Len(buffer) \in Nat /\ Len(ring) \in Nat /\ Len(marks) \in Nat
  BY LenProperties DEF Typed
<1>3. n \in 1..Len(buffer) /\ n \in 0..Len(buffer) /\ n \in Nat /\ d \in Nat
  <2>1. FreeBytes \in Int  BY Constants, <1>2 DEF FreeBytes
  <2> DEFINE m == Min({HandoffBytes, Len(buffer), FreeBytes})
  <2>2. m \in Int /\ m <= Len(buffer)
    <3>1. HandoffBytes \in Int /\ Len(buffer) \in Int  BY <1>2, Constants
    <3> HIDE DEF FreeBytes
    <3> QED  BY <2>1, <3>1, MinOfThree, Zenon
  <2>3. n \in 1..m  BY <1>1
  <2> HIDE DEF m
  <2> QED  BY <1>2, <2>2, <2>3
<1>4. /\ SubSeq(buffer, 1, n) \in Seq(Bytes) /\ Len(SubSeq(buffer, 1, n)) = n
      /\ \A i \in 1..n : SubSeq(buffer, 1, n)[i] = buffer[i]
  BY <1>2, <1>3, TakeFirst
<1>5. /\ ring' \in Seq(Bytes) /\ Len(ring') = Len(ring) + n
      /\ \A i \in 1..Len(ring) : ring'[i] = ring[i]
      /\ \A i \in 1..n : ring'[Len(ring) + i] = buffer[i]
  <2> DEFINE t == SubSeq(buffer, 1, n)
  <2>1. t \in Seq(Bytes) /\ Len(t) = n /\ (\A i \in 1..n : t[i] = buffer[i]) /\ ring' = ring \o t
    BY <1>1, <1>4
  <2> HIDE DEF t
  <2>2. ring' \in Seq(Bytes) /\ Len(ring') = Len(ring) + Len(t)  BY <1>2, <2>1, Joined, Zenon
  <2>3. \A i \in 1..Len(ring) : (ring \o t)[i] = ring[i]  BY <1>2, <2>1, Joined
  <2>4. \A i \in 1..Len(t) : (ring \o t)[Len(ring) + i] = t[i]  BY <1>2, <2>1, Joined
  <2> QED  BY <2>1, <2>2, <2>3, <2>4
<1>6. /\ buffer' \in Seq(Bytes) /\ Len(buffer') = Len(buffer) - n
      /\ \A i \in 1..Len(buffer) - n : buffer'[i] = buffer[i + n]
  BY <1>1, <1>2, <1>3, DropFirst
<1>7. /\ marks' \in Seq(Marks) /\ Len(marks') = Len(marks) - d
      /\ \A i \in 1..Len(marks) - d : marks'[i] = marks[i + d]
  BY <1>1, <1>2, DropFirst, Zenon
<1> QED  BY <1>1, <1>3, <1>5, <1>6, <1>7, Zenon

\* A pop takes bytes off the front of the ring.
LEMMA Pop ==
  ASSUME Typed, PopRing
  PROVE  \E p \in 0..Len(ring) :
           /\ ring' \in Seq(Bytes) /\ Len(ring') = Len(ring) - p
           /\ \A i \in 1..Len(ring) - p : ring'[i] = ring[i + p]
           /\ ring # <<>> \/ Len(ring') = 0
<1>1. ring \in Seq(Bytes) /\ Len(ring) \in Nat  BY LenProperties DEF Typed
<1> DEFINE p == Min({ReadBytes, Len(ring)})
<1>2. p \in 0..Len(ring)
  <2>1. ReadBytes \in Nat /\ ReadBytes \in Int /\ Len(ring) \in Int  BY <1>1, Constants
  <2>2. p \in Int /\ p <= Len(ring) /\ p \in {ReadBytes, Len(ring)}  BY <2>1, MinOfTwo, Zenon
  <2> HIDE DEF p
  <2> QED  BY <1>1, <2>1, <2>2
<1>3. ring' = SubSeq(ring, p + 1, Len(ring))  BY DEF PopRing
<1> HIDE DEF p
<1>4. /\ ring' \in Seq(Bytes) /\ Len(ring') = Len(ring) - p
      /\ \A i \in 1..Len(ring) - p : ring'[i] = ring[i + p]
  BY <1>1, <1>2, <1>3, DropFirst
<1>5. ring = <<>> => Len(ring) = 0  BY EmptySeq
<1> QED  BY <1>1, <1>2, <1>4, <1>5

-----------------------------------------------------------------------------
(* Type correctness.                                                       *)

\* A fork begins well typed.
LEMMA InitTyped == Init => Typed
<1> SUFFICES ASSUME Init PROVE Typed  OBVIOUS
<1>1. Len(buffer) = 0  BY EmptySeq DEF Init
<1>2. /\ buffer \in Seq(Bytes) /\ ring \in Seq(Bytes) /\ marks \in Seq(Marks)
      /\ reached \in Seq(Nat) /\ emitted \in Seq(Nat)
  BY EmptySeq DEF Init
<1>3. Len(buffer) <= CapBytes  BY <1>1, Constants
<1>4. /\ written \in Nat /\ consumed \in Nat
      /\ generation \in Nat /\ mediaGeneration \in Nat /\ readFrom \in Nat
      /\ received \in Nat /\ clears \in Nat /\ marked \in Nat /\ clearedAt \in Nat
      /\ ahead \in Nat /\ reconnects \in Nat /\ dropped \in Int
  BY DEF Init
<1>5. /\ muted \in BOOLEAN /\ receivePaused \in BOOLEAN
      /\ owned \in BOOLEAN /\ socketPaused \in BOOLEAN
  BY Zenon DEF Init
<1> QED  BY <1>2, <1>3, <1>4, <1>5 DEF Typed

\* What a paused socket still delivers is a count.
LEMMA TakenAhead ==
  ASSUME Typed, Delivers
  PROVE  ahead' \in Nat
<1>1. CASE socketPaused  BY <1>1 DEF Typed, Delivers
<1>2. CASE ~socketPaused  BY <1>2 DEF Typed, Delivers
<1> QED  BY <1>1, <1>2

\* The names of the first d marks.
LEMMA NameSeq ==
  ASSUME Typed, NEW d \in 0..Len(marks)
  PROVE  LET names == [i \in 1..d |-> marks[i].name]
         IN  names \in Seq(Nat) /\ Len(names) = d
<1>1. Len(marks) \in Nat /\ d \in Nat /\ marks \in Seq(Marks)  BY LenProperties DEF Typed
<1>2. \A i \in 1..d : marks[i] \in Marks  BY <1>1, ElementOfSeq
<1>3. \A i \in 1..d : marks[i].name \in Nat  BY <1>2 DEF Marks
<1>4. [i \in 1..d |-> marks[i].name] \in [1..d -> Nat]  BY <1>3
<1> QED  BY <1>1, <1>4

\* Every step keeps the types.
LEMMA NextTyped == Typed /\ [Next]_vars => Typed'
<1> SUFFICES ASSUME Typed, [Next]_vars PROVE Typed'  OBVIOUS
<1> USE DEF jitter, link, media, inputs
<1>1. CASE OnBinary
  <2>1. buffer' \in Seq(Bytes) /\ Len(buffer') <= CapBytes /\ written' \in Nat
    BY <1>1, Arrival DEF Typed
  <2>2. received' \in Nat /\ dropped' \in Int
    <3>1. PICK n \in 1..MaxMessage, limit \in 0..MaxMessage :
            /\ received' = received + n
            /\ dropped' = IF muted THEN dropped ELSE dropped + n - Stored(n, limit)
      BY <1>1 DEF OnBinary
    <3>2. n \in Nat /\ Stored(n, limit) \in Int  BY Constants, StoredBound
    <3> QED  BY <3>1, <3>2 DEF Typed
  <2>3. ahead' \in Nat  BY <1>1, TakenAhead DEF OnBinary
  <2> QED  BY <1>1, <2>1, <2>2, <2>3, Zenon DEF Typed, OnBinary
<1>2. CASE HandleClear
  <2>1. ahead' \in Nat  BY <1>2, TakenAhead DEF HandleClear
  <2>2. Len(buffer') = 0 /\ buffer' \in Seq(Bytes) /\ marks' \in Seq(Marks)
    BY <1>2, EmptySeq DEF HandleClear, ClearJitter
  <2>3. Len(buffer') <= CapBytes  BY <2>2, Constants
  <2>4. clears' \in Nat /\ clearedAt' \in Nat /\ generation' \in Nat /\ consumed' \in Nat
    BY <1>2 DEF HandleClear, ClearJitter, BumpGeneration, Typed
  <2>5. socketPaused' \in BOOLEAN /\ receivePaused' \in BOOLEAN
    BY <1>2, Zenon DEF HandleClear, Typed
  <2> QED  BY <1>2, <2>1, <2>2, <2>3, <2>4, <2>5, Zenon DEF HandleClear, ClearJitter, Typed
<1>3. CASE HandleMark
  <2>1. ahead' \in Nat  BY <1>3, TakenAhead DEF HandleMark
  <2>2. marked' \in Nat /\ marked + 1 \in Nat  BY <1>3 DEF HandleMark, Typed
  <2>3. reached' \in Seq(Nat) /\ marks' \in Seq(Marks)
    <3>1. [offset |-> written, name |-> marked + 1] \in Marks  BY <2>2 DEF Marks, Typed
    <3>2. CASE written <= consumed
      <4>1. reached' = Append(reached, marked + 1) /\ marks' = marks  BY <1>3, <3>2 DEF HandleMark
      <4> QED  BY <2>2, <4>1, AppendProperties DEF Typed
    <3>3. CASE ~(written <= consumed)
      <4> DEFINE new == [offset |-> written, name |-> marked + 1]
      <4>1. reached' = reached /\ marks' = Append(marks, new)  BY <1>3, <3>3 DEF HandleMark
      <4>2. new \in Marks  BY <3>1
      <4> HIDE DEF new
      <4> QED  BY <4>1, <4>2, AppendProperties DEF Typed
    <3> QED  BY <3>2, <3>3
  <2> QED  BY <1>3, <2>1, <2>2, <2>3, Zenon DEF HandleMark, Typed
<1>4. CASE OnClosed
  <2>1. reconnects' \in Nat  BY <1>4 DEF OnClosed, Typed
  <2> QED  BY <1>4, <2>1, Zenon DEF OnClosed, Typed
<1>5. CASE BeginConnect  BY <1>5, Zenon DEF BeginConnect, Typed
<1>6. CASE Finalize
  <2>1. Len(buffer') = 0 /\ buffer' \in Seq(Bytes) /\ marks' \in Seq(Marks)
    BY <1>6, EmptySeq DEF Finalize, ClearJitter
  <2>2. Len(buffer') <= CapBytes  BY <2>1, Constants
  <2>3. socketPaused' \in BOOLEAN /\ ahead' \in Nat
    <3>1. CASE owned
      <4>1. socketPaused' = FALSE /\ ahead' = 0  BY <1>6, <3>1, Zenon DEF Finalize
      <4> QED  BY <4>1
    <3>2. CASE ~owned  BY <1>6, <3>2, Zenon DEF Finalize, Typed
    <3> QED  BY <3>1, <3>2
  <2> QED  BY <1>6, <2>1, <2>2, <2>3, Zenon DEF Finalize, ClearJitter, Typed
<1>7. CASE Tick  BY <1>7 DEF Tick, Typed
<1>8. CASE HandOver
  <2>1. /\ ring' \in Seq(Bytes) /\ buffer' \in Seq(Bytes) /\ marks' \in Seq(Marks)
        /\ Len(buffer') <= CapBytes /\ consumed' \in Nat
    <3>1. Len(buffer) \in Nat /\ Len(buffer) <= CapBytes  BY LenProperties DEF Typed
    <3> QED  BY <1>8, <3>1, Constants, Transfer, SMTT(30) DEF Typed
  <2>2. reached' \in Seq(Nat)
    <3>1. PICK d \in 0..Len(marks) : reached' = reached \o [i \in 1..d |-> marks[i].name]
      BY <1>8, Transfer, Zenon
    <3>2. [i \in 1..d |-> marks[i].name] \in Seq(Nat)  BY NameSeq
    <3> QED  BY <3>1, <3>2, Joined DEF Typed
  <2> QED  BY <1>8, <2>1, <2>2 DEF HandOver, Typed
<1>9. CASE PumpEnds
  <2>1. emitted' \in Seq(Nat) /\ reached' \in Seq(Nat)
    BY <1>9, Joined, EmptySeq DEF PumpEnds, EmitReached, Typed
  <2>2. /\ receivePaused' \in BOOLEAN /\ socketPaused' \in BOOLEAN /\ owned' \in BOOLEAN
        /\ ahead' \in Nat /\ reconnects' \in Nat
    <3>1. CASE owned /\ ~receivePaused /\ AboveHigh
      <4>1. SetReceivePaused(TRUE)  BY <1>9, <3>1, Zenon DEF PumpEnds
      <4> QED  BY <4>1, Constants DEF SetReceivePaused, Typed
    <3>2. CASE ~(owned /\ ~receivePaused /\ AboveHigh) /\ owned /\ receivePaused /\ BelowLow
      <4>1. SetReceivePaused(FALSE)  BY <1>9, <3>2, Zenon DEF PumpEnds
      <4> QED  BY <4>1, Zenon DEF SetReceivePaused, Typed
    <3>3. CASE UNCHANGED <<receivePaused, link>>
      BY <3>3 DEF Typed
    <3> QED  BY <1>9, <3>1, <3>2, <3>3, Zenon DEF PumpEnds
  <2> QED  BY <1>9, <2>1, <2>2 DEF PumpEnds, Typed
<1>10. CASE ReadBegins  BY <1>10 DEF ReadBegins, Typed
<1>11. CASE Discard
  <2>1. ring' \in Seq(Bytes)  BY <1>11, Pop DEF Discard
  <2> QED  BY <1>11, <2>1 DEF Discard, Typed
<1>12. CASE Play
  <2>1. ring' \in Seq(Bytes)  BY <1>12, Pop DEF Play
  <2> QED  BY <1>12, <2>1 DEF Play, Typed
<1>14. CASE OnConnected  BY <1>14 DEF OnConnected, Typed
<1>15. CASE ApplyModify  BY <1>15 DEF ApplyModify, Typed
<1>13. CASE UNCHANGED vars  BY <1>13 DEF vars, Typed
<1> QED  BY <1>1, <1>2, <1>3, <1>4, <1>5, <1>6, <1>7, <1>8, <1>9, <1>10, <1>11, <1>12, <1>13,
            <1>14, <1>15
         DEF Next, Pumps, ReadPlayback

-----------------------------------------------------------------------------
(* Barge-in.                                                               *)

\* A fork begins with no clear and no mute.
LEMMA InitBargeIn == Init => BargeInInv /\ MuteInv
<1> SUFFICES ASSUME Init PROVE BargeInInv /\ MuteInv  OBVIOUS
<1>1. Len(buffer) = 0 /\ Len(ring) = 0  BY EmptySeq DEF Init
<1>2. \A i \in 1..Len(buffer) : buffer[i].epoch = clears  BY <1>1
<1>3. \A i \in 1..Len(ring) : ring[i].epoch >= mediaGeneration  BY <1>1
<1>4. generation = clears /\ mediaGeneration <= generation /\ mediaPc = "idle" /\ ~(clears > 0)
      /\ clearedAt <= marked
  BY DEF Init
<1> QED  BY <1>2, <1>3, <1>4 DEF BargeInInv, MuteInv

\* Every step of either thread keeps the generations in order.
LEMMA NextBargeIn == Typed /\ BargeInInv /\ [Next]_vars => BargeInInv'
<1> SUFFICES ASSUME Typed, BargeInInv, [Next]_vars PROVE BargeInInv'  OBVIOUS
<1> USE DEF jitter, link, media, inputs
<1>0. Len(buffer) \in Nat /\ Len(ring) \in Nat  BY LenProperties DEF Typed
<1>1. CASE OnBinary
  <2>1. PICK k \in Nat :
          /\ Len(buffer') = Len(buffer) + k
          /\ \A i \in 1..Len(buffer) : buffer'[i] = buffer[i]
          /\ \A i \in 1..k : buffer'[Len(buffer) + i] = NewByte
    BY <1>1, Arrival, Zenon
  <2>2. clears' = clears  BY <1>1 DEF OnBinary
  <2>3. ASSUME NEW i \in 1..Len(buffer') PROVE buffer'[i].epoch = clears'
    <3>1. CASE i \in 1..Len(buffer)  BY <2>1, <2>2, <3>1 DEF BargeInInv
    <3>2. CASE i \notin 1..Len(buffer)
      <4> DEFINE j == i - Len(buffer)
      <4>1. j \in 1..k /\ i = Len(buffer) + j  BY <1>0, <2>1, <3>2
      <4> HIDE DEF j
      <4>2. buffer'[i] = NewByte  BY <2>1, <4>1
      <4> QED  BY <2>2, <4>2 DEF NewByte
    <3> QED  BY <3>1, <3>2
  <2> QED  BY <1>1, <2>3, Zenon DEF OnBinary, BargeInInv
<1>2. CASE HandleClear
  <2>1. Len(buffer') = 0  BY <1>2, EmptySeq DEF HandleClear, ClearJitter
  <2>2. \A i \in 1..Len(buffer') : buffer'[i].epoch = clears'  BY <2>1
  <2>3. generation' = clears' /\ mediaGeneration' <= generation'
    BY <1>2 DEF HandleClear, BumpGeneration, BargeInInv, Typed
  <2> QED  BY <1>2, <2>2, <2>3 DEF HandleClear, BargeInInv
<1>3. CASE HandleMark  BY <1>3 DEF HandleMark, BargeInInv
<1>4. CASE OnClosed  BY <1>4 DEF OnClosed, BargeInInv
<1>5. CASE BeginConnect  BY <1>5 DEF BeginConnect, BargeInInv
<1>6. CASE Finalize
  <2>1. Len(buffer') = 0  BY <1>6, EmptySeq DEF Finalize, ClearJitter
  <2>2. \A i \in 1..Len(buffer') : buffer'[i].epoch = clears'  BY <2>1
  <2> QED  BY <1>6, <2>2 DEF Finalize, BargeInInv
<1>7. CASE Tick  BY <1>7 DEF Tick, BargeInInv
<1>8. CASE HandOver
  <2>1. PICK n \in 1..Len(buffer) :
          /\ Len(ring') = Len(ring) + n
          /\ \A i \in 1..Len(ring) : ring'[i] = ring[i]
          /\ \A i \in 1..n : ring'[Len(ring) + i] = buffer[i]
          /\ Len(buffer') = Len(buffer) - n
          /\ \A i \in 1..Len(buffer) - n : buffer'[i] = buffer[i + n]
    BY <1>8, Transfer, Zenon
  <2>2. /\ clears' = clears /\ generation' = generation /\ mediaGeneration' = mediaGeneration
        /\ mediaPc' = mediaPc /\ readFrom' = readFrom
    BY <1>8 DEF HandOver
  <2>3. ASSUME NEW i \in 1..Len(buffer') PROVE buffer'[i].epoch = clears'
    <3>1. i \in 1..Len(buffer) - n /\ i + n \in 1..Len(buffer)  BY <1>0, <2>1
    <3> QED  BY <2>1, <2>2, <3>1 DEF BargeInInv
  <2>4. ASSUME mediaPc # "discard", NEW i \in 1..Len(ring')
        PROVE  ring'[i].epoch >= mediaGeneration
    <3>1. CASE i \in 1..Len(ring)  BY <2>1, <2>4, <3>1, Zenon DEF BargeInInv
    <3>2. CASE i \notin 1..Len(ring)
      <4> DEFINE j == i - Len(ring)
      <4>1. j \in 1..n /\ j \in 1..Len(buffer) /\ i = Len(ring) + j  BY <1>0, <2>1, <3>2
      <4> HIDE DEF j
      <4>2. ring'[i] = buffer[j]  BY <2>1, <4>1
      <4>3. ring'[i].epoch = clears  BY <4>1, <4>2 DEF BargeInInv
      <4> QED  BY <4>3 DEF BargeInInv, Typed
    <3> QED  BY <3>1, <3>2
  <2> QED  BY <2>2, <2>3, <2>4 DEF BargeInInv
<1>9. CASE PumpEnds  BY <1>9 DEF PumpEnds, BargeInInv
<1>10. CASE ReadBegins
  <2>1. CASE generation = mediaGeneration  BY <1>10, <2>1 DEF ReadBegins, BargeInInv, Typed
  <2>2. CASE generation # mediaGeneration  BY <1>10, <2>2 DEF ReadBegins, BargeInInv, Typed
  <2> QED  BY <2>1, <2>2
<1>11. CASE Discard
  <2>1. ring # <<>> \/ Len(ring') = 0  BY <1>11, Pop DEF Discard
  <2>2. mediaPc' \in {"idle", "discard"} /\ (mediaPc' # "discard" => Len(ring') = 0)
    BY <1>11, <2>1 DEF Discard
  <2>3. mediaPc' # "discard" => \A i \in 1..Len(ring') : ring'[i].epoch >= mediaGeneration'
    BY <2>2
  <2> QED  BY <1>11, <2>2, <2>3 DEF Discard, BargeInInv
<1>12. CASE Play
  <2>1. PICK p \in 0..Len(ring) :
          /\ Len(ring') = Len(ring) - p
          /\ \A i \in 1..Len(ring) - p : ring'[i] = ring[i + p]
    BY <1>12, Pop DEF Play
  <2>2. ASSUME NEW i \in 1..Len(ring') PROVE ring'[i].epoch >= mediaGeneration
    <3>1. i \in 1..Len(ring) - p /\ i + p \in 1..Len(ring)  BY <1>0, <2>1
    <3> QED  BY <1>12, <2>1, <3>1 DEF Play, BargeInInv
  <2> QED  BY <1>12, <2>2 DEF Play, BargeInInv
<1>14. CASE OnConnected  BY <1>14 DEF OnConnected, BargeInInv
<1>15. CASE ApplyModify  BY <1>15 DEF ApplyModify, BargeInInv
<1>13. CASE UNCHANGED vars  BY <1>13 DEF vars, BargeInInv
<1> QED  BY <1>1, <1>2, <1>3, <1>4, <1>5, <1>6, <1>7, <1>8, <1>9, <1>10, <1>11, <1>12, <1>13,
            <1>14, <1>15
         DEF Next, Pumps, ReadPlayback

\* Every step keeps what is buffered behind the mark that ended the mute.
LEMMA NextMute == Typed /\ MuteInv /\ [Next]_vars => MuteInv'
<1> SUFFICES ASSUME Typed, MuteInv, [Next]_vars PROVE MuteInv'  OBVIOUS
<1> USE DEF jitter, link, media, inputs
<1>0. Len(buffer) \in Nat  BY LenProperties DEF Typed
<1>1. CASE OnBinary
  <2>1. PICK k \in Nat :
          /\ Len(buffer') = Len(buffer) + k
          /\ muted => k = 0
          /\ \A i \in 1..Len(buffer) : buffer'[i] = buffer[i]
          /\ \A i \in 1..k : buffer'[Len(buffer) + i] = NewByte
    BY <1>1, Arrival, Zenon
  <2>2. clears' = clears /\ clearedAt' = clearedAt /\ marked' = marked /\ muted' = muted
    BY <1>1 DEF OnBinary
  <2>3. ASSUME clears > 0, NEW i \in 1..Len(buffer') PROVE buffer'[i].after > clearedAt
    <3>1. CASE i \in 1..Len(buffer)  BY <2>1, <2>3, <3>1 DEF MuteInv
    <3>2. CASE i \notin 1..Len(buffer)
      <4> DEFINE j == i - Len(buffer)
      <4>1. j \in 1..k /\ i = Len(buffer) + j /\ k # 0  BY <1>0, <2>1, <3>2
      <4> HIDE DEF j
      <4>2. buffer'[i] = NewByte  BY <2>1, <4>1
      <4>3. marked > clearedAt  BY <2>1, <2>3, <4>1 DEF MuteInv
      <4> QED  BY <4>2, <4>3 DEF NewByte
    <3> QED  BY <3>1, <3>2
  <2> QED  BY <2>2, <2>3 DEF MuteInv
<1>2. CASE HandleClear
  <2>1. Len(buffer') = 0 /\ muted'  BY <1>2, EmptySeq DEF HandleClear, ClearJitter
  <2>2. \A i \in 1..Len(buffer') : buffer'[i].after > clearedAt'  BY <2>1
  <2>3. clearedAt' <= marked'  BY <1>2 DEF HandleClear, Typed
  <2> QED  BY <2>1, <2>2, <2>3 DEF MuteInv
<1>3. CASE HandleMark
  <2>1. marked' > clearedAt' /\ clearedAt' <= marked'  BY <1>3 DEF HandleMark, MuteInv, Typed
  <2> QED  BY <1>3, <2>1 DEF HandleMark, MuteInv
<1>4. CASE OnClosed  BY <1>4 DEF OnClosed, MuteInv
<1>5. CASE BeginConnect  BY <1>5 DEF BeginConnect, MuteInv
<1>6. CASE Finalize
  <2>1. Len(buffer') = 0 /\ muted'  BY <1>6, EmptySeq DEF Finalize, ClearJitter
  <2>2. \A i \in 1..Len(buffer') : buffer'[i].after > clearedAt'  BY <2>1
  <2>3. clearedAt' <= marked'  BY <1>6 DEF Finalize, MuteInv
  <2> QED  BY <2>1, <2>2, <2>3 DEF MuteInv
<1>7. CASE Tick  BY <1>7 DEF Tick, MuteInv
<1>8. CASE HandOver
  <2>1. PICK n \in 1..Len(buffer) :
          /\ Len(buffer') = Len(buffer) - n
          /\ \A i \in 1..Len(buffer) - n : buffer'[i] = buffer[i + n]
    BY <1>8, Transfer, Zenon
  <2>2. clears' = clears /\ clearedAt' = clearedAt /\ marked' = marked /\ muted' = muted
    BY <1>8 DEF HandOver
  <2>3. ASSUME clears > 0, NEW i \in 1..Len(buffer') PROVE buffer'[i].after > clearedAt
    <3>1. i \in 1..Len(buffer) - n /\ i + n \in 1..Len(buffer)  BY <1>0, <2>1
    <3> QED  BY <2>1, <2>3, <3>1 DEF MuteInv
  <2> QED  BY <2>2, <2>3 DEF MuteInv
<1>9. CASE PumpEnds  BY <1>9 DEF PumpEnds, MuteInv
<1>10. CASE ReadBegins  BY <1>10 DEF ReadBegins, MuteInv
<1>11. CASE Discard  BY <1>11 DEF Discard, MuteInv
<1>12. CASE Play  BY <1>12 DEF Play, MuteInv
<1>14. CASE OnConnected  BY <1>14 DEF OnConnected, MuteInv
<1>15. CASE ApplyModify  BY <1>15 DEF ApplyModify, MuteInv
<1>13. CASE UNCHANGED vars  BY <1>13 DEF vars, MuteInv
<1> QED  BY <1>1, <1>2, <1>3, <1>4, <1>5, <1>6, <1>7, <1>8, <1>9, <1>10, <1>11, <1>12, <1>13,
            <1>14, <1>15
         DEF Next, Pumps, ReadPlayback

\* Barge-in, for every size and number: generations, epochs and the mute keep
\* their invariant through every step of both threads.
THEOREM BargeInInvariant == Spec => [](Typed /\ BargeInInv /\ MuteInv)
<1>1. Init => Typed /\ BargeInInv /\ MuteInv  BY InitTyped, InitBargeIn
<1>2. Typed /\ BargeInInv /\ MuteInv /\ [Next]_vars => (Typed /\ BargeInInv /\ MuteInv)'
  BY NextTyped, NextBargeIn, NextMute
<1> QED  BY <1>1, <1>2, PTL DEF Spec

\* After HandleClear the jitter buffer takes nothing until the next mark, so what
\* it holds came after the clear and after a mark that followed it.
THEOREM ResidueStaysOut == Spec => []MutedUntilMark
<1>1. Typed /\ BargeInInv /\ MuteInv => MutedUntilMark
  <2> SUFFICES ASSUME Typed, BargeInInv, MuteInv, clears > 0, NEW b \in Range(buffer)
               PROVE  b.epoch = clears /\ b.after > clearedAt
    BY DEF MutedUntilMark
  <2>1. buffer \in Seq(Bytes)  BY DEF Typed
  <2>2. DOMAIN buffer = 1..Len(buffer)  BY <2>1, LenProperties
  <2>3. PICK i \in 1..Len(buffer) : b = buffer[i]  BY <2>2 DEF Range
  <2> QED  BY <2>3 DEF BargeInInv, MuteInv
<1> QED  BY <1>1, BargeInInvariant, PTL

\* A read of ReadPlayback that begins after a clear returns no byte from before it,
\* whatever the shard thread does between the generation check and the pops.
THEOREM BargeInIsImmediate == Spec => NoStaleAudio
<1> DEFINE Fresh == mediaPc = "pop" => \A i \in 1..Popped : ring[i].epoch >= readFrom
<1>1. Typed /\ BargeInInv /\ [Next]_vars => [Fresh]_vars
  <2> SUFFICES ASSUME Typed, BargeInInv, mediaPc = "pop", NEW i \in 1..Popped, [Next]_vars
               PROVE  ring[i].epoch >= readFrom
    OBVIOUS
  <2>0. Len(ring) \in Nat  BY LenProperties DEF Typed
  <2>1. i \in 1..Len(ring)
    <3>1. Len(ring') \in Nat  BY NextTyped, LenProperties DEF Typed
    <3> QED  BY <2>0, <3>1 DEF Popped
  <2>2. ring[i].epoch >= mediaGeneration /\ readFrom = mediaGeneration
    BY <2>1 DEF BargeInInv
  <2> QED  BY <2>2
<1>2. Spec => [](Typed /\ BargeInInv)  BY BargeInInvariant, PTL
<1> QED  BY <1>1, <1>2, PTL DEF Spec, NoStaleAudio

-----------------------------------------------------------------------------
(* The watermarks.                                                         *)

\* A fork begins on its first connection, with an empty buffer.
LEMMA InitRoom == Init => RoomInv
<1> SUFFICES ASSUME Init PROVE RoomInv  OBVIOUS
<1>1. socket = "connecting" /\ socketPaused = FALSE /\ receivePaused = FALSE  BY DEF Init
<1> QED  BY <1>1 DEF RoomInv

\* Every step leaves the high watermark free below the cap on a socket that the
\* session takes to be delivering.
LEMMA NextRoom == Typed /\ RoomInv /\ [Next]_vars => RoomInv'
<1> SUFFICES ASSUME Typed, RoomInv, [Next]_vars PROVE RoomInv'  OBVIOUS
<1> USE DEF jitter, link, media, inputs
<1>0. Len(buffer) \in Nat /\ Len(ring) \in Nat  BY LenProperties DEF Typed
<1>1. CASE OnBinary  BY <1>1, Zenon DEF OnBinary, RoomInv
<1>2. CASE HandleClear
  <2>1. Len(buffer') = 0  BY <1>2, EmptySeq DEF HandleClear, ClearJitter
  <2>2. Len(buffer') <= HighWatermark  BY <2>1, Constants
  <2>3. owned /\ reconnects = 0 => socketPaused' = receivePaused'
    BY <1>2, Zenon DEF HandleClear, RoomInv, Typed
  <2> QED  BY <1>2, <2>2, <2>3, Zenon DEF HandleClear, RoomInv
<1>3. CASE HandleMark  BY <1>3, Zenon DEF HandleMark, RoomInv
<1>4. CASE OnClosed
  <2>1. reconnects' > 0  BY <1>4 DEF OnClosed, Typed
  <2> QED  BY <1>4, <2>1, Zenon DEF OnClosed, RoomInv
<1>5. CASE BeginConnect
  <2>1. reconnects > 0  BY <1>5, Zenon DEF BeginConnect, RoomInv
  <2>2. reconnects' > 0 /\ reconnects' # 0  BY <1>5, <2>1 DEF BeginConnect, Typed
  <2>3. socket' = "connecting" /\ socket' # "none" /\ socket' # "open"  BY <1>5 DEF BeginConnect
  <2> QED  BY <2>2, <2>3, Zenon DEF RoomInv
<1>6. CASE Finalize  BY <1>6, Zenon DEF Finalize, RoomInv
<1>7. CASE Tick  BY <1>7, Zenon DEF Tick, RoomInv
<1>8. CASE HandOver  BY <1>8, Zenon DEF HandOver, RoomInv
<1>9. CASE PumpEnds
  <2>1. /\ buffer' = buffer /\ finished' = finished /\ reconnects' = reconnects
        /\ socket' = socket /\ owned' = owned
    BY <1>9, Zenon DEF PumpEnds, SetReceivePaused
  <2>2. CASE owned /\ ~receivePaused /\ AboveHigh
    <3>1. receivePaused' = TRUE /\ socketPaused' = TRUE
      BY <1>9, <2>2, Zenon DEF PumpEnds, SetReceivePaused
    <3> QED  BY <2>1, <3>1, Zenon DEF RoomInv
  <2>3. CASE owned /\ receivePaused /\ BelowLow
    <3>1. receivePaused' = FALSE /\ socketPaused' = FALSE
      BY <1>9, <2>3, Zenon DEF PumpEnds, SetReceivePaused
    <3>2. Len(buffer) <= HighWatermark
      <4>1. Len(buffer) + Len(ring) <= LowWatermark  BY <2>3, Zenon DEF BelowLow, InFlight
      <4> QED  BY <1>0, <4>1, WatermarkAssumption
    <3> QED  BY <2>1, <3>1, <3>2, Zenon DEF RoomInv
  <2>4. CASE ~(owned /\ ~receivePaused /\ AboveHigh) /\ ~(owned /\ receivePaused /\ BelowLow)
    <3>1. receivePaused' = receivePaused /\ socketPaused' = socketPaused
      BY <1>9, <2>4, Zenon DEF PumpEnds
    <3>2. ASSUME owned, ~receivePaused PROVE Len(buffer) <= HighWatermark
      <4>1. ~AboveHigh  BY <2>4, <3>2
      <4> QED  BY <1>0, <4>1, Constants DEF AboveHigh, InFlight
    <3> QED  BY <2>1, <3>1, <3>2, Zenon DEF RoomInv
  <2> QED  BY <2>2, <2>3, <2>4
<1>10. CASE ReadBegins  BY <1>10, Zenon DEF ReadBegins, RoomInv
<1>11. CASE Discard  BY <1>11, Zenon DEF Discard, RoomInv
<1>12. CASE Play  BY <1>12, Zenon DEF Play, RoomInv
<1>13. CASE OnConnected
  <2>1. socket' = "open" /\ socket' # "none"  BY <1>13 DEF OnConnected
  <2> QED  BY <1>13, <2>1, Zenon DEF OnConnected, RoomInv
<1>14. CASE ApplyModify  BY <1>14, Zenon DEF ApplyModify, RoomInv
<1>15. CASE UNCHANGED vars  BY <1>15, Zenon DEF vars, RoomInv
<1> QED  BY <1>1, <1>2, <1>3, <1>4, <1>5, <1>6, <1>7, <1>8, <1>9, <1>10, <1>11, <1>12, <1>13,
            <1>14, <1>15
         DEF Next, Pumps, ReadPlayback

\* Only OnBinary drops audio, and only what arrived on an open socket.
LEMMA DropsOnArrival ==
  ASSUME Typed, [Next]_vars, dropped' # dropped
  PROVE  OnBinary /\ ~pumping /\ socket = "open"
<1>1. OnBinary
  BY Zenon DEF Next, Pumps, ReadPlayback, vars, HandleClear, HandleMark, Finalize, BeginConnect,
     OnConnected, OnClosed, ApplyModify, Tick, HandOver, PumpEnds, ReadBegins, Discard, Play
<1> QED  BY <1>1 DEF OnBinary, Delivers

\* For every size of messages, watermarks and ring, with any pool, reconnects and
\* modifies: JitterBuffer::Append meets its cap only on a socket that a modify
\* left behind, with what lws had read before the pause, with a message above the
\* high watermark, or after a reconnect with receive_paused_ still set.
THEOREM OverflowsAreExplained == Spec => OverflowIsExplained
<1> DEFINE Explained ==
      LET size == received' - received
      IN  dropped' > dropped /\ Len(buffer) + size > CapBytes =>
            \/ ~owned \/ socketPaused \/ size > HighWatermark
            \/ receivePaused /\ reconnects > 0
<1>1. Typed /\ RoomInv /\ [Next]_vars => [Explained]_vars
  <2> DEFINE size == received' - received
  <2> SUFFICES ASSUME Typed, RoomInv, [Next]_vars,
                      dropped' > dropped, Len(buffer) + size > CapBytes,
                      owned, ~socketPaused, ~(size > HighWatermark),
                      ~(receivePaused /\ reconnects > 0)
               PROVE  FALSE
    BY Zenon
  <2>0. Len(buffer) \in Nat /\ received \in Nat /\ reconnects \in Nat /\ dropped \in Int
    BY LenProperties DEF Typed
  <2>1. received' \in Nat  BY NextTyped DEF Typed
  <2>2. ~pumping /\ socket = "open"
    <3>1. dropped' # dropped  BY <2>0
    <3> QED  BY <3>1, DropsOnArrival
  <2>3. ~receivePaused
    <3>1. CASE reconnects = 0  BY <3>1, Zenon DEF RoomInv, Typed
    <3>2. CASE reconnects # 0
      <4>1. reconnects > 0  BY <2>0, <3>2
      <4> QED  BY <4>1
    <3> QED  BY <3>1, <3>2
  <2>4. Len(buffer) <= HighWatermark  BY <2>2, <2>3, Zenon DEF RoomInv
  <2>5. size \in Int  BY <2>0, <2>1
  <2> HIDE DEF size
  <2>6. HighWatermark \in Nat /\ CapBytes = 2 * HighWatermark  BY Constants, Zenon DEF CapBytes
  <2> QED  BY <2>0, <2>4, <2>5, <2>6
<1>2. Spec => [](Typed /\ RoomInv)
  BY InitTyped, InitRoom, NextTyped, NextRoom, PTL DEF Spec
<1> QED  BY <1>1, <1>2, PTL DEF Spec, OverflowIsExplained

-----------------------------------------------------------------------------
(* The offsets of the marks.                                               *)

\* What is buffered and what waits are numbers to compare.
LEMMA Elements ==
  ASSUME Typed
  PROVE  /\ Len(buffer) \in Nat /\ Len(marks) \in Nat
         /\ \A k \in 1..Len(buffer) : buffer[k].after \in Nat
         /\ \A i \in 1..Len(marks) : marks[i].offset \in Nat /\ marks[i].name \in Nat
         /\ written \in Nat /\ consumed \in Nat /\ marked \in Nat
<1>1. buffer \in Seq(Bytes) /\ marks \in Seq(Marks)  BY DEF Typed
<1>2. Len(buffer) \in Nat /\ Len(marks) \in Nat  BY <1>1, LenProperties
<1>3. ASSUME NEW k \in 1..Len(buffer) PROVE buffer[k].after \in Nat
  <2>1. buffer[k] \in Bytes  BY <1>1, ElementOfSeq
  <2> QED  BY <2>1 DEF Bytes
<1>4. ASSUME NEW i \in 1..Len(marks) PROVE marks[i].offset \in Nat /\ marks[i].name \in Nat
  <2>1. marks[i] \in Marks  BY <1>1, ElementOfSeq
  <2> QED  BY <2>1 DEF Marks
<1> QED  BY <1>2, <1>3, <1>4 DEF Typed

\* Audio that arrives goes behind every waiting mark.
LEMMA OffsetsOnBinary == ASSUME Typed, OffsetInv, OnBinary PROVE OffsetInv'
<1>0. /\ Len(buffer) \in Nat /\ Len(marks) \in Nat
      /\ \A k \in 1..Len(buffer) : buffer[k].after \in Nat
      /\ \A i \in 1..Len(marks) : marks[i].offset \in Nat /\ marks[i].name \in Nat
      /\ written \in Nat /\ consumed \in Nat /\ marked \in Nat
  BY Elements
<1>1. PICK k \in Nat :
        /\ Len(buffer') = Len(buffer) + k /\ written' = written + k
        /\ \A i \in 1..Len(buffer) : buffer'[i] = buffer[i]
        /\ \A i \in 1..k : buffer'[Len(buffer) + i] = NewByte
  BY Arrival
<1>2. consumed' = consumed /\ marks' = marks /\ marked' = marked  BY DEF OnBinary
<1>3. ASSUME NEW b \in 1..Len(buffer')
      PROVE  \/ b \in 1..Len(buffer) /\ buffer'[b] = buffer[b]
             \/ b > Len(buffer) /\ buffer'[b].after = marked
  <2>1. CASE b <= Len(buffer)  BY <1>0, <1>1, <2>1
  <2>2. CASE b > Len(buffer)
    <3> DEFINE j == b - Len(buffer)
    <3>1. j \in 1..k /\ b = Len(buffer) + j  BY <1>0, <1>1, <2>2
    <3> HIDE DEF j
    <3>2. buffer'[b] = NewByte  BY <1>1, <3>1, Zenon
    <3> QED  BY <2>2, <3>2 DEF NewByte
  <2>3. Len(buffer) \in Nat /\ Len(buffer') \in Nat  BY <1>0, <1>1, SMTT(30)
  <2>4. b <= Len(buffer) \/ b > Len(buffer)  BY <2>3, SMTT(30)
  <2> QED  BY <2>1, <2>2, <2>4, ZenonT(40)
<1>4. written' = consumed' + Len(buffer')  BY <1>0, <1>1, <1>2, SMTT(30) DEF OffsetInv
<1>5. ASSUME NEW b \in 1..Len(buffer') PROVE buffer'[b].after <= marked'
  <2>1. CASE b \in 1..Len(buffer) /\ buffer'[b] = buffer[b]  BY <1>2, <2>1 DEF OffsetInv
  <2>2. CASE buffer'[b].after = marked  BY <1>0, <1>2, <2>2
  <2> QED  BY <1>3, <2>1, <2>2
<1>6. \A i \in 1..Len(marks') :
        consumed' < marks'[i].offset /\ marks'[i].offset <= written' /\ marks'[i].name <= marked'
  BY <1>0, <1>1, <1>2 DEF OffsetInv
<1>7. ASSUME NEW i \in 1..Len(marks), NEW b \in 1..Len(buffer')
      PROVE  consumed + b <= marks[i].offset <=> buffer'[b].after < marks[i].name
  <2>1. CASE b \in 1..Len(buffer) /\ buffer'[b] = buffer[b]  BY <2>1 DEF OffsetInv
  <2>2. CASE b > Len(buffer) /\ buffer'[b].after = marked
    <3>1. marks[i].offset <= written /\ written = consumed + Len(buffer) /\ marks[i].name <= marked
      BY DEF OffsetInv
    <3>2. b \in Int  OBVIOUS
    <3>3. ~(consumed + b <= marks[i].offset)  BY <1>0, <2>2, <3>1, <3>2
    <3>4. ~(buffer'[b].after < marks[i].name)  BY <1>0, <2>2, <3>1
    <3> QED  BY <3>3, <3>4
  <2> QED  BY <1>3, <2>1, <2>2
<1> QED  BY <1>2, <1>4, <1>5, <1>6, <1>7 DEF OffsetInv

\* A mark goes behind the audio that is buffered, or is reported at once.
LEMMA OffsetsHandleMark == ASSUME Typed, OffsetInv, HandleMark PROVE OffsetInv'
<1>0. /\ Len(buffer) \in Nat /\ Len(marks) \in Nat
      /\ \A k \in 1..Len(buffer) : buffer[k].after \in Nat
      /\ \A i \in 1..Len(marks) : marks[i].offset \in Nat /\ marks[i].name \in Nat
      /\ written \in Nat /\ consumed \in Nat /\ marked \in Nat
  BY Elements
<1>1. buffer' = buffer /\ written' = written /\ consumed' = consumed /\ marked' = marked + 1
  BY DEF HandleMark
<1>2. /\ written' = consumed' + Len(buffer')
      /\ \A k \in 1..Len(buffer') : buffer'[k].after <= marked'
  BY <1>0, <1>1 DEF OffsetInv
<1>3. CASE written <= consumed
  <2>1. marks' = marks  BY <1>3 DEF HandleMark
  <2>2. \A i \in 1..Len(marks) : marks[i].name <= marked'  BY <1>0, <1>1, OneMore, Zenon DEF OffsetInv
  <2> QED  BY <1>1, <1>2, <2>1, <2>2 DEF OffsetInv
<1>4. CASE ~(written <= consumed)
  <2> DEFINE new == [offset |-> written, name |-> marked + 1]
  <2>1. marks' = Append(marks, new)  BY <1>4 DEF HandleMark
  <2>2. new.offset = written /\ new.name = marked + 1  OBVIOUS
  <2>3. new \in Marks
    <3>1. written \in Nat /\ marked + 1 \in Nat  BY <1>0, OneMore, Zenon
    <3> QED  BY <3>1, Zenon DEF Marks
  <2> HIDE DEF new
  <2>4. marks \in Seq(Marks)  BY DEF Typed
  <2>5. /\ Len(marks') = Len(marks) + 1
        /\ \A i \in 1..Len(marks) : marks'[i] = marks[i]
        /\ marks'[Len(marks) + 1] = new
    BY <2>1, <2>3, <2>4, AppendProperties
  <2>6. ASSUME NEW i \in 1..Len(marks')
        PROVE  \/ i \in 1..Len(marks) /\ marks'[i] = marks[i]
               \/ i = Len(marks) + 1 /\ marks'[i].offset = written /\ marks'[i].name = marked + 1
    BY <1>0, <2>2, <2>5, SMTT(30)
  <2>7. ASSUME NEW i \in 1..Len(marks')
        PROVE  /\ marks'[i].offset \in Nat
               /\ consumed < marks'[i].offset /\ marks'[i].offset <= written
               /\ marks'[i].name <= marked + 1
    <3>1. CASE i \in 1..Len(marks) /\ marks'[i] = marks[i]  BY <1>0, <3>1, SMTT(30) DEF OffsetInv
    <3>2. CASE i = Len(marks) + 1 /\ marks'[i].offset = written /\ marks'[i].name = marked + 1
      BY <1>0, <1>4, <3>2
    <3> QED  BY <2>6, <3>1, <3>2
  <2>8. ASSUME NEW i \in 1..Len(marks'), NEW j \in 1..Len(marks'), i <= j
        PROVE  marks'[i].offset <= marks'[j].offset
    <3>1. CASE j \in 1..Len(marks) /\ marks'[j] = marks[j]
      <4>1. i \in 1..Len(marks)  BY <1>0, <2>8, <3>1
      <4> QED  BY <2>5, <2>8, <3>1, <4>1 DEF OffsetInv
    <3>2. CASE j = Len(marks) + 1 /\ marks'[j].offset = written
      BY <2>7, <3>2
    <3> QED  BY <2>6, <3>1, <3>2
  <2>9. ASSUME NEW i \in 1..Len(marks'), NEW k \in 1..Len(buffer)
        PROVE  consumed + k <= marks'[i].offset <=> buffer[k].after < marks'[i].name
    <3>1. CASE i \in 1..Len(marks) /\ marks'[i] = marks[i]  BY <3>1, Zenon DEF OffsetInv
    <3>2. CASE i = Len(marks) + 1 /\ marks'[i].offset = written /\ marks'[i].name = marked + 1
      <4>1. written = consumed + Len(buffer) /\ buffer[k].after <= marked  BY Zenon DEF OffsetInv
      <4>2. consumed + k <= marks'[i].offset  BY <1>0, <3>2, <4>1, Within, Zenon
      <4>3. buffer[k].after < marks'[i].name  BY <1>0, <3>2, <4>1, OneMore, Zenon
      <4> QED  BY <4>2, <4>3
    <3> QED  BY <2>6, <3>1, <3>2
  <2> QED  BY <1>1, <1>2, <2>7, <2>8, <2>9 DEF OffsetInv
<1> QED  BY <1>3, <1>4

\* A transfer takes audio off the front and reports the marks it reaches.
LEMMA OffsetsHandOver == ASSUME Typed, OffsetInv, HandOver PROVE OffsetInv'
<1>0. /\ Len(buffer) \in Nat /\ Len(marks) \in Nat
      /\ \A k \in 1..Len(buffer) : buffer[k].after \in Nat
      /\ \A i \in 1..Len(marks) : marks[i].offset \in Nat /\ marks[i].name \in Nat
      /\ written \in Nat /\ consumed \in Nat /\ marked \in Nat
  BY Elements
<1>1. PICK n \in 1..Len(buffer), d \in 0..Len(marks) :
        /\ Len(buffer') = Len(buffer) - n
        /\ \A i \in 1..Len(buffer) - n : buffer'[i] = buffer[i + n]
        /\ consumed' = consumed + n
        /\ DueMarks(d, consumed + n)
        /\ Len(marks') = Len(marks) - d
        /\ \A i \in 1..Len(marks) - d : marks'[i] = marks[i + d]
  BY Transfer, Zenon
<1>2. written' = written /\ marked' = marked  BY DEF HandOver, inputs
<1>a. /\ Len(buffer) \in Nat /\ Len(buffer') = Len(buffer) - n
      /\ Len(marks) \in Nat /\ Len(marks') = Len(marks) - d
  BY <1>0, <1>1, Zenon
<1>3. ASSUME NEW k \in 1..Len(buffer') PROVE k + n \in 1..Len(buffer) /\ buffer'[k] = buffer[k + n]
  <2>1. k \in 1..Len(buffer) - n /\ k + n \in 1..Len(buffer)  BY <1>a
  <2> QED  BY <1>1, <2>1, Zenon
<1>4. ASSUME NEW i \in 1..Len(marks') PROVE i + d \in 1..Len(marks) /\ marks'[i] = marks[i + d]
  <2>1. i \in 1..Len(marks) - d /\ i + d \in 1..Len(marks)  BY <1>a
  <2> QED  BY <1>1, <2>1, Zenon
<1>5. ASSUME NEW i \in 1..Len(marks') PROVE consumed + n < marks[i + d].offset
  <2>1. d < Len(marks) /\ d + 1 \in 1..Len(marks) /\ d + 1 <= i + d  BY <1>a
  <2>2. ~(marks[d + 1].offset <= consumed + n)
    <3>1. DueMarks(d, consumed + n)  BY <1>1, Zenon
    <3> QED  BY <2>1, <3>1, Zenon DEF DueMarks, Due
  <2>3. marks[d + 1].offset <= marks[i + d].offset  BY <1>4, <2>1 DEF OffsetInv
  <2> QED  BY <1>0, <1>4, <2>1, <2>2, <2>3
<1>6. /\ written' = consumed' + Len(buffer')
      /\ \A k \in 1..Len(buffer') : buffer'[k].after <= marked'
  <2>0. written = consumed + Len(buffer) /\ consumed' = consumed + n
    BY <1>1, Zenon DEF OffsetInv
  <2>1. written' = consumed' + Len(buffer')  BY <1>0, <1>a, <1>2, <2>0
  <2>2. \A k \in 1..Len(buffer') : buffer'[k].after <= marked'  BY <1>2, <1>3 DEF OffsetInv
  <2> QED  BY <2>1, <2>2
<1>7. \A i \in 1..Len(marks') :
        consumed' < marks'[i].offset /\ marks'[i].offset <= written' /\ marks'[i].name <= marked'
  BY <1>1, <1>2, <1>4, <1>5 DEF OffsetInv
<1>8. ASSUME NEW i \in 1..Len(marks'), NEW j \in 1..Len(marks'), i <= j
      PROVE  marks'[i].offset <= marks'[j].offset
  <2>1. i + d <= j + d  BY <1>1, <1>8
  <2> QED  BY <1>4, <2>1, Zenon DEF OffsetInv
<1>9. ASSUME NEW i \in 1..Len(marks'), NEW k \in 1..Len(buffer')
      PROVE  consumed' + k <= marks'[i].offset <=> buffer'[k].after < marks'[i].name
  <2>1. consumed + (k + n) <= marks[i + d].offset <=> buffer[k + n].after < marks[i + d].name
    BY <1>3, <1>4 DEF OffsetInv
  <2>2. consumed' + k = consumed + (k + n)  BY <1>0, <1>1
  <2> QED  BY <1>3, <1>4, <2>1, <2>2
<1> QED  BY <1>6, <1>7, <1>8, <1>9 DEF OffsetInv

\* A clear leaves no audio and no mark.
LEMMA OffsetsCleared == ASSUME Typed, ClearJitter PROVE OffsetInv'
<1>1. Len(buffer') = 0 /\ Len(marks') = 0  BY EmptySeq DEF ClearJitter
<1>2. written' = consumed' + Len(buffer')  BY <1>1 DEF ClearJitter, Typed
<1>3. 1..Len(buffer') = {} /\ 1..Len(marks') = {}  BY <1>1
<1> QED  BY <1>2, <1>3, Zenon DEF OffsetInv

\* Every step keeps the marks at their places.
LEMMA NextOffsets == Typed /\ OffsetInv /\ [Next]_vars => OffsetInv'
<1> SUFFICES ASSUME Typed, OffsetInv, [Next]_vars PROVE OffsetInv'  OBVIOUS
<1> USE DEF jitter, link, media, inputs
<1>1. CASE OnBinary  BY <1>1, OffsetsOnBinary
<1>2. CASE HandleClear  BY <1>2, OffsetsCleared DEF HandleClear
<1>3. CASE HandleMark  BY <1>3, OffsetsHandleMark
<1>4. CASE OnClosed  BY <1>4 DEF OnClosed, OffsetInv
<1>5. CASE BeginConnect  BY <1>5 DEF BeginConnect, OffsetInv
<1>6. CASE Finalize  BY <1>6, OffsetsCleared DEF Finalize
<1>7. CASE Tick  BY <1>7 DEF Tick, OffsetInv
<1>8. CASE HandOver  BY <1>8, OffsetsHandOver
<1>9. CASE PumpEnds  BY <1>9 DEF PumpEnds, OffsetInv
<1>10. CASE ReadBegins  BY <1>10 DEF ReadBegins, OffsetInv
<1>11. CASE Discard  BY <1>11 DEF Discard, OffsetInv
<1>12. CASE Play  BY <1>12 DEF Play, OffsetInv
<1>14. CASE OnConnected  BY <1>14 DEF OnConnected, OffsetInv
<1>15. CASE ApplyModify  BY <1>15 DEF ApplyModify, OffsetInv
<1>13. CASE UNCHANGED vars  BY <1>13 DEF vars, OffsetInv
<1> QED  BY <1>1, <1>2, <1>3, <1>4, <1>5, <1>6, <1>7, <1>8, <1>9, <1>10, <1>11, <1>12, <1>13,
            <1>14, <1>15
         DEF Next, Pumps, ReadPlayback

-----------------------------------------------------------------------------
(* The names of the marks.                                                 *)

\* The names reported, and behind them those that wait.
LEMMA NamesTyped ==
  ASSUME Typed
  PROVE  /\ emitted \in Seq(Nat) /\ reached \in Seq(Nat)
         /\ Reported \in Seq(Nat) /\ Waiting \in Seq(Nat) /\ Names \in Seq(Nat)
         /\ Len(Waiting) = Len(marks) /\ Len(Names) = Len(Reported) + Len(marks)
         /\ Len(Reported) \in Nat /\ Len(marks) \in Nat
         /\ \A i \in 1..Len(Reported) : Names[i] = Reported[i]
         /\ \A i \in 1..Len(marks) : Names[Len(Reported) + i] = marks[i].name
<1>1. emitted \in Seq(Nat) /\ reached \in Seq(Nat) /\ Len(marks) \in Nat
  BY LenProperties DEF Typed
<1>2. Reported \in Seq(Nat)  BY <1>1, Joined DEF Reported
<1>3. Waiting \in Seq(Nat) /\ Len(Waiting) = Len(marks)
  <2>1. Len(marks) \in 0..Len(marks)  BY <1>1
  <2> QED  BY <2>1, NameSeq DEF Waiting
<1>4. \A i \in 1..Len(marks) : Waiting[i] = marks[i].name  BY DEF Waiting
<1>5. Len(Reported) \in Nat  BY <1>2, LenProperties
<1>6. /\ Names \in Seq(Nat) /\ Len(Names) = Len(Reported) + Len(Waiting)
      /\ \A i \in 1..Len(Reported) : Names[i] = Reported[i]
      /\ \A i \in 1..Len(Waiting) : Names[Len(Reported) + i] = Waiting[i]
  <2>1. \A s, t \in Seq(Nat) : /\ s \o t \in Seq(Nat) /\ Len(s \o t) = Len(s) + Len(t)
                               /\ \A i \in 1..Len(s) : (s \o t)[i] = s[i]
                               /\ \A i \in 1..Len(t) : (s \o t)[Len(s) + i] = t[i]
    BY Joined, SMTT(30)
  <2>2. Names = Reported \o Waiting  BY DEF Names
  <2> HIDE DEF Names
  <2>3. Names \in Seq(Nat) /\ Len(Names) = Len(Reported) + Len(Waiting)
    BY <1>2, <1>3, <2>1, <2>2, ZenonT(40)
  <2>4. \A i \in 1..Len(Reported) : Names[i] = Reported[i]
    BY <1>2, <1>3, <2>1, <2>2, ZenonT(40)
  <2>5. \A i \in 1..Len(Waiting) : Names[Len(Reported) + i] = Waiting[i]
    <3>1. Waiting \in Seq(Nat)  BY <1>3
    <3> DEFINE Behind(s, t, n) == \A i \in 1..Len(t) : n[Len(s) + i] = t[i]
    <3>2. \A s, t \in Seq(Nat) : Behind(s, t, s \o t)  BY <2>1, SMTT(30)
    <3> HIDE DEF Behind
    <3>3. Behind(Reported, Waiting, Names)  BY <1>2, <2>2, <3>1, <3>2, ZenonT(40)
    <3> QED  BY <3>3 DEF Behind
  <2> QED  BY <2>3, <2>4, <2>5
<1> QED  BY <1>1, <1>2, <1>3, <1>4, <1>5, <1>6, Zenon

\* Order survives a larger name at the end.
LEMMA LargerAppended ==
  ASSUME Typed, NamesInv, Names' = Append(Names, marked + 1), marked' = marked + 1
  PROVE  NamesInv'
<1>1. Names \in Seq(Nat) /\ Len(Names) \in Nat /\ marked \in Nat /\ marked + 1 \in Nat
  <2>1. Names \in Seq(Nat)  BY NamesTyped, Zenon
  <2>2. marked \in Nat  BY Elements, Zenon
  <2> QED  BY <2>1, <2>2, LenProperties
<1>2. /\ Len(Names') = Len(Names) + 1
      /\ \A i \in 1..Len(Names) : Names'[i] = Names[i]
      /\ Names'[Len(Names) + 1] = marked + 1
  BY <1>1, AppendProperties
<1>3. \A i \in 1..Len(Names) : Names[i] \in Nat  BY <1>1, ElementOfSeq
<1>4. ASSUME NEW i \in 1..Len(Names')
      PROVE  \/ i \in 1..Len(Names) /\ Names'[i] = Names[i] /\ Names[i] <= marked /\ Names[i] \in Nat
             \/ i = Len(Names) + 1 /\ Names'[i] = marked + 1
  BY <1>1, <1>2, <1>3 DEF NamesInv
<1>5. ASSUME NEW i \in 1..Len(Names') PROVE Names'[i] <= marked'
  BY <1>1, <1>4
<1>6. ASSUME NEW i \in 1..Len(Names'), NEW j \in 1..Len(Names'), i < j
      PROVE  Names'[i] < Names'[j]
  <2>1. i \in 1..Len(Names) /\ Names'[i] = Names[i] /\ Names[i] <= marked /\ Names[i] \in Nat
    BY <1>1, <1>2, <1>4, <1>6
  <2>2. CASE j \in 1..Len(Names) /\ Names'[j] = Names[j]
    BY <1>6, <2>1, <2>2 DEF NamesInv
  <2>3. CASE Names'[j] = marked + 1
    <3>1. Names[i] < marked + 1  BY <1>1, <2>1
    <3> QED  BY <2>1, <2>3, <3>1, Zenon
  <2> QED  BY <1>4, <2>2, <2>3
<1> QED  BY <1>5, <1>6 DEF NamesInv

\* It survives the loss of the names at the end.
LEMMA TailForgotten ==
  ASSUME Typed, NamesInv, Reported' = Reported, Len(marks') = 0, marked' = marked
  PROVE  NamesInv'
<1>1. /\ Len(Names) = Len(Reported) + Len(marks) /\ Len(Reported) \in Nat /\ Len(marks) \in Nat
      /\ \A i \in 1..Len(Reported) : Names[i] = Reported[i]
  BY NamesTyped
<1>2. Names' = Reported
  <2>1. Waiting' = <<>>  BY DEF Waiting
  <2>2. Reported \in Seq(Nat)  BY NamesTyped
  <2> QED  BY <2>1, <2>2, ConcatEmptySeq DEF Names
<1>3. \A i \in 1..Len(Names') : i \in 1..Len(Names) /\ Names'[i] = Names[i]
  BY <1>1, <1>2
<1> QED  BY <1>3 DEF NamesInv

\* Appending is associative.
LEMMA Regrouped == \A s, t, u \in Seq(Nat) : (s \o t) \o u = s \o (t \o u)
<1> DEFINE S == Nat
<1>1. ASSUME NEW s \in Seq(S), NEW t \in Seq(S), NEW u \in Seq(S)
      PROVE  (s \o t) \o u = s \o (t \o u)
  <2> HIDE DEF S
  <2> QED  BY ConcatAssociative, SMTT(30)
<1> QED  BY <1>1, Zenon

\* A new mark is the last of the names.
LEMMA NamesHandleMark ==
  ASSUME Typed, OffsetInv, NamesInv, HandleMark
  PROVE  NamesInv'
<1>1. /\ emitted \in Seq(Nat) /\ reached \in Seq(Nat) /\ Reported \in Seq(Nat)
      /\ Waiting \in Seq(Nat) /\ Len(marks) \in Nat /\ marked + 1 \in Nat
  BY NamesTyped, Elements, OneMore, Zenon
<1>2. emitted' = emitted /\ marked' = marked + 1  BY DEF HandleMark
<1>3. CASE written <= consumed
  <2>1. reached' = Append(reached, marked + 1) /\ marks' = marks  BY <1>3 DEF HandleMark
  <2>2. Len(marks) = 0
    <3>1. \A i \in 1..Len(marks) : consumed < marks[i].offset /\ marks[i].offset <= written
      BY DEF OffsetInv
    <3>2. 1 \in 1..Len(marks) => FALSE  BY <1>3, <3>1, Elements
    <3> QED  BY <1>1, <3>2
  <2>3. Waiting = <<>> /\ Waiting' = <<>>  BY <2>1, <2>2 DEF Waiting
  <2>4. Names = Reported  BY <1>1, <2>3, ConcatEmptySeq DEF Names
  <2>5. Reported' = Append(Reported, marked + 1)
    BY <1>1, <1>2, <2>1 DEF Reported
  <2>6. Names' = Reported'
    <3>1. Append(Reported, marked + 1) \in Seq(Nat)  BY <1>1, AppendProperties
    <3> QED  BY <2>3, <2>5, <3>1, ConcatEmptySeq DEF Names
  <2> QED  BY <1>2, <2>4, <2>5, <2>6, LargerAppended
<1>4. CASE ~(written <= consumed)
  <2> DEFINE new == [offset |-> written, name |-> marked + 1]
  <2>1. reached' = reached /\ marks' = Append(marks, new)  BY <1>4 DEF HandleMark
  <2>2. new.name = marked + 1 /\ new \in Marks  BY DEF Marks, Typed
  <2> HIDE DEF new
  <2>3. /\ Len(marks') = Len(marks) + 1
        /\ \A i \in 1..Len(marks) : marks'[i] = marks[i]
        /\ marks'[Len(marks) + 1] = new
    BY <2>1, <2>2, AppendProperties DEF Typed
  <2>4. Waiting' = Append(Waiting, marked + 1)
    <3>1. Waiting' = [i \in 1..Len(marks) + 1 |-> marks'[i].name]  BY <2>3 DEF Waiting
    <3>2. /\ Len(Waiting) = Len(marks)
          /\ \A i \in 1..Len(marks) : Waiting[i] = marks[i].name
      BY NamesTyped DEF Waiting
    <3>3. /\ Append(Waiting, marked + 1) \in Seq(Nat)
          /\ Len(Append(Waiting, marked + 1)) = Len(marks) + 1
          /\ \A i \in 1..Len(marks) : Append(Waiting, marked + 1)[i] = Waiting[i]
          /\ Append(Waiting, marked + 1)[Len(marks) + 1] = marked + 1
      BY <1>1, <3>2, AppendProperties
    <3>4. Append(Waiting, marked + 1) = [i \in 1..Len(marks) + 1 |-> Append(Waiting, marked + 1)[i]]
      BY <3>3, LenProperties
    <3>5. ASSUME NEW i \in 1..Len(marks) + 1
          PROVE  marks'[i].name = Append(Waiting, marked + 1)[i]
      <4>1. CASE i \in 1..Len(marks)  BY <2>3, <3>2, <3>3, <4>1
      <4>2. CASE i = Len(marks) + 1  BY <2>2, <2>3, <3>3, <4>2
      <4>3. i \in 1..Len(marks) \/ i = Len(marks) + 1  BY <1>1
      <4> QED  BY <4>1, <4>2, <4>3, Zenon
    <3> QED  BY <3>1, <3>4, <3>5, Zenon
  <2>5. Names' = Append(Names, marked + 1)
    <3>1. Names' = Reported \o Append(Waiting, marked + 1)  BY <1>2, <2>1, <2>4 DEF Names, Reported
    <3>2. \A s, t \in Seq(Nat), e \in Nat : s \o Append(t, e) = Append(s \o t, e)
      <4> SUFFICES ASSUME NEW s \in Seq(Nat), NEW t \in Seq(Nat), NEW e \in Nat
                   PROVE  s \o Append(t, e) = Append(s \o t, e)
        OBVIOUS
      <4>1. Append(t, e) = t \o <<e>> /\ Append(s \o t, e) = (s \o t) \o <<e>>
        BY AppendIsConcat, Joined
      <4>2. <<e>> \in Seq(Nat)  OBVIOUS
      <4>3. (s \o t) \o <<e>> = s \o (t \o <<e>>)  BY <4>2, Regrouped, Zenon
      <4> QED  BY <4>1, <4>3, Zenon
    <3> QED  BY <1>1, <3>1, <3>2, Zenon DEF Names
  <2> QED  BY <1>2, <2>5, LargerAppended
<1> QED  BY <1>3, <1>4

\* The marks a transfer reaches move from the front of those that wait to the end
\* of those that are reported.
LEMMA NamesHandOver ==
  ASSUME Typed, HandOver
  PROVE  /\ Names' = Names
         /\ \E d \in 0..Len(marks) :
              Reported' = Reported \o [i \in 1..d |-> marks[i].name]
<1>1. PICK d \in 0..Len(marks) :
        /\ reached' = reached \o [i \in 1..d |-> marks[i].name]
        /\ Len(marks') = Len(marks) - d
        /\ \A i \in 1..Len(marks) - d : marks'[i] = marks[i + d]
  BY Transfer, Zenon
<1> DEFINE taken == [i \in 1..d |-> marks[i].name]
<1>2. /\ emitted \in Seq(Nat) /\ reached \in Seq(Nat) /\ Reported \in Seq(Nat)
      /\ Waiting \in Seq(Nat) /\ Len(Waiting) = Len(marks) /\ Len(marks) \in Nat
  BY NamesTyped
<1>3. taken \in Seq(Nat) /\ Len(taken) = d /\ \A i \in 1..d : taken[i] = marks[i].name
  BY NameSeq
<1>4. \A i \in 1..Len(marks) : Waiting[i] = marks[i].name /\ Waiting[i] \in Nat
  BY <1>2, ElementOfSeq DEF Waiting
<1>5. reached' = reached \o taken  BY <1>1
<1>6. /\ Waiting' \in Seq(Nat) /\ Len(Waiting') = Len(marks) - d
      /\ \A i \in 1..Len(marks) - d : Waiting'[i] = Waiting[i + d]
  <2>1. ASSUME NEW i \in 1..Len(marks) - d
        PROVE  marks'[i].name = Waiting[i + d] /\ Waiting[i + d] \in Nat
    <3>1. i + d \in 1..Len(marks)  BY <1>2
    <3>2. marks'[i] = marks[i + d]  BY <1>1
    <3> QED  BY <1>4, <3>1, <3>2
  <2>2. Waiting' = [i \in 1..Len(marks) - d |-> marks'[i].name]  BY <1>1 DEF Waiting
  <2>3. Waiting' \in [1..Len(marks) - d -> Nat]  BY <2>1, <2>2
  <2>4. Len(marks) - d \in Nat  BY <1>2
  <2> QED  BY <2>1, <2>2, <2>3, <2>4
<1> HIDE DEF taken
<1>7. taken \o Waiting' = Waiting
  <2> DEFINE w == Waiting'
             whole == taken \o w
  <2>1. w \in Seq(Nat) /\ Len(w) = Len(marks) - d /\ \A i \in 1..Len(marks) - d : w[i] = Waiting[i + d]
    BY <1>6
  <2> HIDE DEF w
  <2>2. whole \in Seq(Nat) /\ Len(whole) = Len(marks)  BY <1>2, <1>3, <2>1
  <2>3. ASSUME NEW i \in 1..Len(marks) PROVE whole[i] = Waiting[i]
    <3>1. CASE i <= d
      <4>1. i \in 1..d  BY <3>1
      <4>2. whole[i] = taken[i]  BY <1>2, <1>3, <2>1, <4>1
      <4> QED  BY <1>3, <1>4, <4>1, <4>2
    <3>2. CASE i > d
      <4>1. i - d \in 1..Len(marks) - d /\ (i - d) + d = i  BY <1>2, <3>2
      <4>2. \A j \in 1..Len(w) : whole[Len(taken) + j] = w[j]  BY <1>3, <2>1, Joined, SMTT(30)
      <4>3. whole[i] = w[i - d]
        <5>1. whole[d + (i - d)] = w[i - d]  BY <1>3, <2>1, <4>1, <4>2, Zenon
        <5>2. d + (i - d) = i  BY <1>2
        <5> QED  BY <5>1, <5>2, Zenon
      <4> QED  BY <2>1, <4>1, <4>3
    <3>3. i <= d \/ i > d  BY <1>2
    <3> QED  BY <3>1, <3>2, <3>3, Zenon
  <2> HIDE DEF whole
  <2>4. whole = Waiting  BY <1>2, <2>2, <2>3, SeqEqual
  <2> QED  BY <2>4 DEF whole, w
<1>8. Reported' = Reported \o taken
  <2>1. emitted' = emitted  BY DEF HandOver
  <2> QED  BY <1>2, <1>3, <1>5, <2>1, Regrouped, Zenon DEF Reported
<1>9. Names' = Names
  <2>1. Names' = (Reported \o taken) \o Waiting'  BY <1>8 DEF Names
  <2>2. (Reported \o taken) \o Waiting' = Reported \o (taken \o Waiting')
    <3>1. Reported \in Seq(Nat) /\ taken \in Seq(Nat) /\ Waiting' \in Seq(Nat)
      BY <1>2, <1>3, <1>6, Zenon
    <3> QED  BY <3>1, Regrouped, Zenon
  <2> QED  BY <1>7, <2>1, <2>2 DEF Names
<1> QED  BY <1>8, <1>9 DEF taken

\* Every step keeps the names in order.
LEMMA NextNames == Typed /\ OffsetInv /\ NamesInv /\ [Next]_vars => NamesInv'
<1> SUFFICES ASSUME Typed, OffsetInv, NamesInv, [Next]_vars PROVE NamesInv'  OBVIOUS
<1> USE DEF jitter, link, media, inputs
<1>a. ASSUME Names' = Names, marked' = marked PROVE NamesInv'  BY <1>a DEF NamesInv
<1>b. ASSUME UNCHANGED <<emitted, reached, marks>> PROVE Names' = Names
  BY <1>b DEF Names, Reported, Waiting
<1>1. CASE OnBinary  BY <1>1, <1>a, <1>b DEF OnBinary
<1>2. CASE HandleClear
  <2>1. Len(marks') = 0  BY <1>2, EmptySeq DEF HandleClear, ClearJitter
  <2>2. Reported' = Reported /\ marked' = marked  BY <1>2 DEF HandleClear, Reported
  <2> QED  BY <2>1, <2>2, TailForgotten
<1>3. CASE HandleMark  BY <1>3, NamesHandleMark
<1>4. CASE OnClosed  BY <1>4, <1>a, <1>b DEF OnClosed
<1>5. CASE BeginConnect  BY <1>5, <1>a, <1>b DEF BeginConnect
<1>6. CASE Finalize
  <2>1. Len(marks') = 0  BY <1>6, EmptySeq DEF Finalize, ClearJitter
  <2>2. Reported' = Reported /\ marked' = marked  BY <1>6 DEF Finalize, Reported
  <2> QED  BY <2>1, <2>2, TailForgotten
<1>7. CASE Tick  BY <1>7, <1>a, <1>b DEF Tick
<1>8. CASE HandOver  BY <1>8, <1>a, NamesHandOver, Zenon DEF HandOver
<1>9. CASE PumpEnds
  <2>1. Reported' = Reported
    <3>1. emitted' = Reported /\ reached' = <<>>  BY <1>9 DEF PumpEnds, EmitReached, Reported
    <3>2. Reported \in Seq(Nat)  BY NamesTyped
    <3>3. Reported' = Reported \o <<>>  BY <3>1 DEF Reported
    <3> QED  BY <3>2, <3>3, ConcatEmptySeq
  <2>2. Names' = Names  BY <1>9, <2>1 DEF PumpEnds, Names, Waiting
  <2> QED  BY <1>9, <1>a, <2>2 DEF PumpEnds
<1>10. CASE ReadBegins  BY <1>10, <1>a, <1>b DEF ReadBegins
<1>11. CASE Discard  BY <1>11, <1>a, <1>b DEF Discard
<1>12. CASE Play  BY <1>12, <1>a, <1>b DEF Play
<1>14. CASE OnConnected  BY <1>14, <1>a, <1>b DEF OnConnected
<1>15. CASE ApplyModify  BY <1>15, <1>a, <1>b DEF ApplyModify
<1>13. CASE UNCHANGED vars  BY <1>13, <1>a, <1>b DEF vars
<1> QED  BY <1>1, <1>2, <1>3, <1>4, <1>5, <1>6, <1>7, <1>8, <1>9, <1>10, <1>11, <1>12, <1>13,
            <1>14, <1>15
         DEF Next, Pumps, ReadPlayback

-----------------------------------------------------------------------------
(* Reported marks and the audio that is left.                              *)

\* Audio that arrives comes after every mark that was reported.
LEMMA ReportedOnBinary ==
  ASSUME Typed, NamesInv, ReportedInv, OnBinary
  PROVE  ReportedInv'
<1>1. PICK k \in Nat :
        /\ Len(buffer') = Len(buffer) + k
        /\ \A i \in 1..Len(buffer) : buffer'[i] = buffer[i]
        /\ \A i \in 1..k : buffer'[Len(buffer) + i] = NewByte
  BY Arrival, Zenon
<1>2. Reported' = Reported  BY DEF OnBinary, Reported
<1>3. /\ Len(Names) = Len(Reported) + Len(marks) /\ Len(Reported) \in Nat /\ Len(marks) \in Nat
      /\ \A i \in 1..Len(Reported) : Names[i] = Reported[i]
  BY NamesTyped
<1>4. Len(buffer) \in Nat  BY Elements
<1>5. ASSUME NEW i \in 1..Len(Reported), NEW b \in 1..Len(buffer')
      PROVE  Reported[i] <= buffer'[b].after
  <2>1. CASE b <= Len(buffer)
    <3>1. b \in 1..Len(buffer)  BY <1>1, <1>4, <2>1
    <3> QED  BY <1>1, <3>1 DEF ReportedInv
  <2>2. CASE b > Len(buffer)
    <3> DEFINE j == b - Len(buffer)
    <3>1. j \in 1..k /\ b = Len(buffer) + j  BY <1>1, <1>4, <2>2
    <3> HIDE DEF j
    <3>2. buffer'[b] = NewByte /\ NewByte.after = marked
      BY <1>1, <3>1, Zenon DEF NewByte
    <3>3. i \in 1..Len(Names) /\ Names[i] = Reported[i]  BY <1>3
    <3>4. Reported[i] <= marked  BY <3>3 DEF NamesInv
    <3> QED  BY <3>2, <3>4, Zenon
  <2>3. b <= Len(buffer) \/ b > Len(buffer)  BY <1>1, <1>4
  <2> QED  BY <2>1, <2>2, <2>3, Zenon
<1> QED  BY <1>2, <1>5 DEF ReportedInv

\* A mark that a transfer reports has no earlier audio left behind it.
LEMMA ReportedHandOver ==
  ASSUME Typed, OffsetInv, ReportedInv, HandOver
  PROVE  ReportedInv'
<1>0. /\ Len(buffer) \in Nat /\ Len(marks) \in Nat
      /\ \A k \in 1..Len(buffer) : buffer[k].after \in Nat
      /\ \A i \in 1..Len(marks) : marks[i].offset \in Nat /\ marks[i].name \in Nat
      /\ consumed \in Nat
  BY Elements
<1>1. PICK n \in 1..Len(buffer), d \in 0..Len(marks) :
        /\ Len(buffer') = Len(buffer) - n
        /\ \A i \in 1..Len(buffer) - n : buffer'[i] = buffer[i + n]
        /\ DueMarks(d, consumed + n)
        /\ reached' = reached \o [i \in 1..d |-> marks[i].name]
  BY Transfer, Zenon
<1> DEFINE taken == [i \in 1..d |-> marks[i].name]
<1>2. taken \in Seq(Nat) /\ Len(taken) = d /\ \A i \in 1..d : taken[i] = marks[i].name
  BY NameSeq
<1>3. reached' = reached \o taken  BY <1>1
<1> HIDE DEF taken
<1>4. Reported \in Seq(Nat) /\ emitted \in Seq(Nat) /\ reached \in Seq(Nat) /\ Len(Reported) \in Nat
  BY NamesTyped
<1>5. Reported' = Reported \o taken
  <2>1. emitted' = emitted  BY DEF HandOver
  <2> QED  BY <1>2, <1>3, <1>4, <2>1, Regrouped, Zenon DEF Reported
<1>6. /\ Len(Reported') = Len(Reported) + d
      /\ \A i \in 1..Len(Reported) : Reported'[i] = Reported[i]
      /\ \A i \in 1..d : Reported'[Len(Reported) + i] = taken[i]
  <2> DEFINE all == Reported \o taken
  <2>1. /\ Len(all) = Len(Reported) + Len(taken)
        /\ \A i \in 1..Len(Reported) : all[i] = Reported[i]
        /\ \A i \in 1..Len(taken) : all[Len(Reported) + i] = taken[i]
    <3>1. taken \in Seq(Nat) /\ Reported \in Seq(Nat)  BY <1>2, <1>4
    <3> QED  BY <3>1, Joined, SMTT(30)
  <2> HIDE DEF all
  <2>2. Reported' = all  BY <1>5 DEF all
  <2> QED  BY <1>2, <2>1, <2>2
<1>7. ASSUME NEW i \in 1..Len(Reported'), NEW b \in 1..Len(buffer')
      PROVE  Reported'[i] <= buffer'[b].after
  <2>1. b + n \in 1..Len(buffer) /\ buffer'[b] = buffer[b + n]
    <3>1. Len(buffer) \in Nat /\ Len(buffer') = Len(buffer) - n  BY <1>0, <1>1, Zenon
    <3>2. b \in 1..Len(buffer) - n /\ b + n \in 1..Len(buffer)  BY <3>1
    <3> QED  BY <1>1, <3>2, Zenon
  <2>2. CASE i <= Len(Reported)
    <3>1. i \in 1..Len(Reported)  BY <1>4, <2>2
    <3> QED  BY <1>6, <2>1, <3>1 DEF ReportedInv
  <2>3. CASE i > Len(Reported)
    <3> DEFINE j == i - Len(Reported)
    <3>1. j \in 1..d /\ j \in 1..Len(marks) /\ i = Len(Reported) + j  BY <1>0, <1>4, <1>6, <2>3
    <3> HIDE DEF j
    <3>2. Reported'[i] = marks[j].name  BY <1>2, <1>6, <3>1
    <3>3. marks[j].offset <= consumed + n  BY <1>1, <3>1 DEF DueMarks, Due
    <3>4. consumed + (b + n) <= marks[j].offset <=> buffer[b + n].after < marks[j].name
      BY <2>1, <3>1 DEF OffsetInv
    <3>5. ~(consumed + (b + n) <= marks[j].offset)  BY <1>0, <3>1, <3>3, SMTT(30)
    <3>6. marks[j].name \in Nat /\ buffer[b + n].after \in Nat  BY <1>0, <2>1, <3>1, Zenon
    <3>7. marks[j].name <= buffer[b + n].after  BY <3>4, <3>5, <3>6, NotBelow, Zenon
    <3> QED  BY <2>1, <3>2, <3>7
  <2>4. i <= Len(Reported) \/ i > Len(Reported)  BY <1>4, <1>6
  <2> QED  BY <2>2, <2>3, <2>4, Zenon
<1> QED  BY <1>7 DEF ReportedInv

\* No step reports a mark ahead of the audio before it.
LEMMA NextReported ==
  Typed /\ OffsetInv /\ NamesInv /\ ReportedInv /\ [Next]_vars => ReportedInv'
<1> SUFFICES ASSUME Typed, OffsetInv, NamesInv, ReportedInv, [Next]_vars PROVE ReportedInv'
  OBVIOUS
<1> USE DEF jitter, link, media, inputs
<1>a. ASSUME UNCHANGED <<emitted, reached, buffer>> PROVE ReportedInv'
  BY <1>a DEF ReportedInv, Reported
<1>b. ASSUME Len(buffer') = 0 PROVE ReportedInv'
  <2>1. 1..Len(buffer') = {}  BY <1>b
  <2> QED  BY <2>1, Zenon DEF ReportedInv
<1>1. CASE OnBinary  BY <1>1, ReportedOnBinary
<1>2. CASE HandleClear
  <2>1. Len(buffer') = 0  BY <1>2, EmptySeq DEF HandleClear, ClearJitter
  <2> QED  BY <1>b, <2>1
<1>3. CASE HandleMark
  <2>1. CASE written <= consumed
    <3>1. Len(buffer) = 0
      <4>1. written = consumed + Len(buffer)  BY Zenon DEF OffsetInv
      <4>2. Len(buffer) \in Nat /\ consumed \in Nat  BY Elements, Zenon
      <4> QED  BY <2>1, <4>1, <4>2
    <3>2. Len(buffer') = 0  BY <1>3, <3>1 DEF HandleMark
    <3> QED  BY <1>b, <3>2
  <2>2. CASE ~(written <= consumed)  BY <1>3, <1>a, <2>2 DEF HandleMark
  <2> QED  BY <2>1, <2>2
<1>4. CASE OnClosed  BY <1>4, <1>a DEF OnClosed
<1>5. CASE BeginConnect  BY <1>5, <1>a DEF BeginConnect
<1>6. CASE Finalize
  <2>1. Len(buffer') = 0  BY <1>6, EmptySeq DEF Finalize, ClearJitter
  <2> QED  BY <1>b, <2>1
<1>7. CASE Tick  BY <1>7, <1>a DEF Tick
<1>8. CASE HandOver  BY <1>8, ReportedHandOver
<1>9. CASE PumpEnds
  <2>1. emitted' = Reported /\ reached' = <<>> /\ buffer' = buffer
    BY <1>9 DEF PumpEnds, EmitReached, Reported
  <2>2. Reported \in Seq(Nat)  BY NamesTyped
  <2>3. Reported' = Reported \o <<>>  BY <2>1 DEF Reported
  <2>4. Reported' = Reported  BY <2>2, <2>3, ConcatEmptySeq
  <2> QED  BY <2>1, <2>4 DEF ReportedInv
<1>10. CASE ReadBegins  BY <1>10, <1>a DEF ReadBegins
<1>11. CASE Discard  BY <1>11, <1>a DEF Discard
<1>12. CASE Play  BY <1>12, <1>a DEF Play
<1>14. CASE OnConnected  BY <1>14, <1>a DEF OnConnected
<1>15. CASE ApplyModify  BY <1>15, <1>a DEF ApplyModify
<1>13. CASE UNCHANGED vars  BY <1>13, <1>a DEF vars
<1> QED  BY <1>1, <1>2, <1>3, <1>4, <1>5, <1>6, <1>7, <1>8, <1>9, <1>10, <1>11, <1>12, <1>13,
            <1>14, <1>15
         DEF Next, Pumps, ReadPlayback

\* A fork begins with no mark.
LEMMA InitMarks == Init => OffsetInv /\ NamesInv /\ ReportedInv
<1> SUFFICES ASSUME Init PROVE OffsetInv /\ NamesInv /\ ReportedInv  OBVIOUS
<1>1. Len(buffer) = 0 /\ Len(marks) = 0  BY EmptySeq DEF Init
<1>2. written = consumed + Len(buffer)  BY <1>1 DEF Init
<1>3. 1..Len(buffer) = {} /\ 1..Len(marks) = {}  BY <1>1
<1>4. OffsetInv /\ ReportedInv  BY <1>2, <1>3, Zenon DEF OffsetInv, ReportedInv
<1>5. Reported = <<>>  BY DEF Init, Reported
<1>6. Waiting = <<>>  BY <1>1 DEF Waiting
<1>7. Names = <<>>  BY <1>5, <1>6 DEF Names
<1>8. Len(Names) = 0  BY <1>7, EmptySeq
<1>9. 1..Len(Names) = {}  BY <1>8
<1> QED  BY <1>4, <1>9, Zenon DEF NamesInv

\* Marks follow the audio, for every size and number: a waiting mark sits between
\* the bytes before it and those after it, and the names stay in order.
THEOREM MarksInvariant == Spec => [](Typed /\ OffsetInv /\ NamesInv /\ ReportedInv)
<1> DEFINE Inv == Typed /\ OffsetInv /\ NamesInv /\ ReportedInv
<1>1. Init => Inv  BY InitTyped, InitMarks
<1>2. Inv /\ [Next]_vars => Inv'  BY NextTyped, NextOffsets, NextNames, NextReported
<1> QED  BY <1>1, <1>2, PTL DEF Spec

\* JitterBuffer reports each mark at most once and in order, none while audio that
\* came before it is buffered, and keeps none waiting without such audio.
THEOREM MarksFollowAudio == Spec => []MarksMatchAudio
<1>1. Typed /\ OffsetInv /\ NamesInv /\ ReportedInv => MarksMatchAudio
  <2> SUFFICES ASSUME Typed, OffsetInv, NamesInv, ReportedInv PROVE MarksMatchAudio  OBVIOUS
  <2>0. /\ buffer \in Seq(Bytes) /\ marks \in Seq(Marks) /\ Reported \in Seq(Nat) /\ Names \in Seq(Nat)
        /\ Len(buffer) \in Nat /\ Len(marks) \in Nat
    BY NamesTyped, Elements DEF Typed
  <2>1. /\ DOMAIN buffer = 1..Len(buffer) /\ DOMAIN marks = 1..Len(marks)
        /\ DOMAIN Reported = 1..Len(Reported) /\ DOMAIN Names = 1..Len(Names)
    BY <2>0, LenProperties
  <2>2. Names = emitted \o reached \o [i \in DOMAIN marks |-> marks[i].name]
    BY <2>1 DEF Names, Reported, Waiting
  <2>3. \A i, j \in DOMAIN Names : i < j => Names[i] < Names[j]  BY <2>1 DEF NamesInv
  <2>4. ASSUME NEW b \in Range(buffer), NEW m \in Range(emitted \o reached) PROVE m <= b.after
    <3>1. PICK k \in 1..Len(buffer) : b = buffer[k]  BY <2>1 DEF Range
    <3>2. PICK i \in 1..Len(Reported) : m = Reported[i]  BY <2>1 DEF Range, Reported
    <3> QED  BY <3>1, <3>2 DEF ReportedInv
  <2>5. ASSUME NEW m \in Range(marks) PROVE \E b \in Range(buffer) : b.after < m.name
    <3>1. PICK i \in 1..Len(marks) : m = marks[i]  BY <2>1 DEF Range
    <3>2. consumed < m.offset /\ m.offset <= written /\ written = consumed + Len(buffer)
      BY <3>1 DEF OffsetInv
    <3>3. m.offset \in Nat /\ consumed \in Nat  BY <3>1, Elements
    <3>4. 1 \in 1..Len(buffer) /\ consumed + 1 <= m.offset  BY <2>0, <3>2, <3>3
    <3>5. buffer[1].after < m.name  BY <3>1, <3>4 DEF OffsetInv
    <3>6. buffer[1] \in Range(buffer)  BY <2>1, <3>4 DEF Range
    <3> QED  BY <3>5, <3>6
  <2> QED  BY <2>2, <2>3, <2>4, <2>5, Zenon DEF MarksMatchAudio
<1> QED  BY <1>1, MarksInvariant, PTL
=============================================================================
