--------------------------- MODULE SendPath_proofs ---------------------------
(***************************************************************************)
(* Proofs about the outbound audio of one fork: the chunk queue keeps its  *)
(* shape, no byte and no slab is lost whatever other forks do to the pool, *)
(* the buffer keeps to the cap in force and `degraded' is not repeated.    *)
(***************************************************************************)
EXTENDS SendPath, SequenceTheorems, TLAPS

-----------------------------------------------------------------------------
(* The chunk queue.                                                        *)

\* Min of two numbers, as std::min.
LEMMA MinOfTwo ==
  ASSUME NEW a \in Int, NEW b \in Int
  PROVE  Min({a, b}) = IF a <= b THEN a ELSE b
<1>1. \E x \in {a, b} : \A y \in {a, b} : x <= y
  OBVIOUS
<1>2. Min({a, b}) \in {a, b} /\ \A y \in {a, b} : Min({a, b}) <= y
  BY <1>1, Zenon DEF Min
<1> QED BY <1>2

\* Max of two numbers, as in SetCap's and Append's comparisons.
LEMMA MaxOfTwo ==
  ASSUME NEW a \in Int, NEW b \in Int
  PROVE  Max({a, b}) = IF a >= b THEN a ELSE b
<1>1. \E x \in {a, b} : \A y \in {a, b} : x >= y
  OBVIOUS
<1>2. Max({a, b}) \in {a, b} /\ \A y \in {a, b} : Max({a, b}) >= y
  BY <1>1, Zenon DEF Max
<1> QED BY <1>2

\* A set of integers has one least element, which Min is.
LEMMA MinIs ==
  ASSUME NEW S \in SUBSET Int, NEW m \in S, \A y \in S : m <= y
  PROVE  Min(S) = m
<1>1. \E x \in S : \A y \in S : x <= y
  OBVIOUS
<1>2. Min(S) \in S /\ \A y \in S : Min(S) <= y
  BY <1>1, Zenon DEF Min
<1>3. Min(S) <= m /\ m <= Min(S)
  BY <1>2, Zenon
<1>4. Min(S) \in Int /\ m \in Int
  BY <1>2, Zenon
<1> QED BY <1>3, <1>4

\* The bytes of n whole slabs.
Whole(n) == slabSize * n

\* Whole is kept folded below: this is all that is used of it.
LEMMA WholeSlabs ==
  /\ Whole(0) = 0
  /\ \A n \in Nat : Whole(n) \in Nat /\ Whole(n + 1) = Whole(n) + slabSize
<1>1. slabSize \in Nat
  BY SlabSizeAssumption
<1> QED BY <1>1 DEF Whole

\* The chunks a turn of Consume's loop leaves, when only the first of them may
\* be drained: PopFrontIfDrained returns at most that one.
LEMMA PopsOne ==
  ASSUME NEW c \in Seq(Chunk), c # <<>>, \A i \in 2..Len(c) : ChunkSize(c[i]) # 0
  PROVE  PopFrontIfDrained(c) =
           IF ChunkSize(c[1]) # 0 THEN c
           ELSE IF Len(c) > 1 THEN Tail(c)
           ELSE IF c[1].end = slabSize THEN <<>> ELSE c
<1> DEFINE S == {i \in DOMAIN c : ChunkSize(c[i]) # 0} \union {Len(c)}
           front == Min(S)
           rest == SubSeq(c, front, Len(c))
<1>1. Len(c) \in Nat /\ Len(c) >= 1 /\ DOMAIN c = 1..Len(c)
  BY EmptySeq, LenProperties
<1>2. S \in SUBSET Int /\ \A y \in S : 1 <= y
  BY <1>1
<1>3. PopFrontIfDrained(c) = IF Len(rest) = 1 /\ ChunkSize(Head(rest)) = 0 /\ Head(rest).end = slabSize
                             THEN <<>> ELSE rest
  BY Zenon DEF PopFrontIfDrained
<1> HIDE DEF front, rest
<1>4. SubSeq(c, 1, Len(c)) = c /\ Head(c) = c[1]
  BY <1>1, SubSeqFull
<1>5. CASE ChunkSize(c[1]) # 0
  <2>1. 1 \in S
    BY <1>1, <1>5
  <2>2. front = 1
    BY <1>2, <2>1, MinIs, Zenon DEF front
  <2>3. rest = c
    BY <2>2, <1>4 DEF rest
  <2> QED BY <1>3, <1>4, <1>5, <2>3, Zenon
<1>6. CASE ChunkSize(c[1]) = 0 /\ Len(c) = 1
  <2>1. 1 \in S
    BY <1>6
  <2>2. front = 1
    BY <1>2, <2>1, MinIs, Zenon DEF front
  <2>3. rest = c
    BY <2>2, <1>4 DEF rest
  <2> QED BY <1>3, <1>4, <1>6, <2>3
<1>7. CASE ChunkSize(c[1]) = 0 /\ Len(c) > 1
  <2>1. 2 \in S
    BY <1>1, <1>7
  <2>2. \A y \in S : 2 <= y
    BY <1>1, <1>7
  <2>3. front = 2
    BY <1>2, <2>1, <2>2, MinIs, Zenon DEF front
  <2>4. rest = Tail(c)
    BY <2>3, TailIsSubSeq DEF rest
  <2>5. Head(rest) = c[2]
    BY <2>4, <1>1, <1>7, HeadTailProperties
  <2>6. ChunkSize(Head(rest)) # 0
    BY <2>5, <1>1, <1>7
  <2> QED BY <1>3, <1>7, <2>4, <2>6
<1> QED BY <1>1, <1>5, <1>6, <1>7

\* What WellFormed says of a queue with chunks, one fact at a time.
LEMMA ChunkFacts ==
  ASSUME NEW q \in Queue, WellFormed(q)
  PROVE  /\ q.chunks \in Seq(Chunk) /\ q.size \in Nat
         /\ q.chunks = <<>> => q.size = 0
         /\ q.chunks # <<>> =>
              /\ Len(q.chunks) \in Nat /\ Len(q.chunks) >= 1
              /\ q.size = Whole(Len(q.chunks) - 1) + q.chunks[Len(q.chunks)].end
                            - q.chunks[1].begin
         /\ \A i \in 1..Len(q.chunks) :
              /\ q.chunks[i] \in Chunk
              /\ q.chunks[i].begin \in 0..slabSize /\ q.chunks[i].end \in 0..slabSize
              /\ q.chunks[i].begin <= q.chunks[i].end
              /\ ChunkSize(q.chunks[i]) = q.chunks[i].end - q.chunks[i].begin
              /\ ChunkSize(q.chunks[i]) = 0 => Len(q.chunks) = 1 /\ q.chunks[i].end < slabSize
              /\ i > 1 => q.chunks[i].begin = 0
              /\ i < Len(q.chunks) => q.chunks[i].end = slabSize
<1>1. q.chunks \in Seq(Chunk) /\ q.size \in Nat
  BY DEF Queue
<1>2. Len(q.chunks) \in Nat /\ DOMAIN q.chunks = 1..Len(q.chunks)
  BY <1>1, LenProperties
<1>3. \A i \in 1..Len(q.chunks) : q.chunks[i] \in Chunk
  BY <1>1, ElementOfSeq
<1>4. \A x \in Chunk : x.begin \in 0..slabSize /\ x.end \in 0..slabSize
  BY DEF Chunk
<1>5. q.chunks # <<>> => Len(q.chunks) >= 1
  BY <1>1, <1>2, EmptySeq
<1>6. q.chunks # <<>> => Head(q.chunks) = q.chunks[1] /\ Back(q.chunks) = q.chunks[Len(q.chunks)]
  BY <1>1 DEF Back
<1>7. /\ q.chunks = <<>> => q.size = 0
      /\ q.chunks # <<>> => q.size = Whole(Len(q.chunks) - 1) + q.chunks[Len(q.chunks)].end
                                       - q.chunks[1].begin
  BY <1>6 DEF WellFormed, Whole
<1>8. \A i \in 1..Len(q.chunks) :
        /\ q.chunks[i].begin <= q.chunks[i].end
        /\ ChunkSize(q.chunks[i]) = q.chunks[i].end - q.chunks[i].begin
        /\ ChunkSize(q.chunks[i]) = 0 => Len(q.chunks) = 1 /\ q.chunks[i].end < slabSize
        /\ i > 1 => q.chunks[i].begin = 0
        /\ i < Len(q.chunks) => q.chunks[i].end = slabSize
  BY <1>2, Zenon DEF WellFormed, ChunkSize
<1> QED BY <1>1, <1>2, <1>3, <1>4, <1>5, <1>7, <1>8, Zenon

\* The converse, for the queues the loops build.
LEMMA BuildsQueue ==
  ASSUME NEW c \in Seq(Chunk), NEW n \in Nat,
         c = <<>> => n = 0,
         c # <<>> => n = Whole(Len(c) - 1) + c[Len(c)].end - c[1].begin,
         \A i \in 1..Len(c) :
            /\ c[i].begin <= c[i].end
            /\ c[i].end - c[i].begin = 0 => Len(c) = 1 /\ c[i].end < slabSize
            /\ i > 1 => c[i].begin = 0
            /\ i < Len(c) => c[i].end = slabSize
  PROVE  LET q == [chunks |-> c, size |-> n] IN q \in Queue /\ WellFormed(q)
<1> DEFINE q == [chunks |-> c, size |-> n]
<1>1. q.chunks = c /\ q.size = n
  OBVIOUS
<1>2. q \in Queue
  BY DEF Queue
<1>3. DOMAIN c = 1..Len(c)
  BY LenProperties
<1>4. c # <<>> => Head(c) = c[1] /\ Back(c) = c[Len(c)]
  BY DEF Back
<1>5. n = IF c = <<>> THEN 0 ELSE slabSize * (Len(c) - 1) + Back(c).end - Head(c).begin
  BY <1>4 DEF Whole
<1>6. WellFormed(q)
  <2> HIDE DEF q
  <2> QED BY <1>1, <1>3, <1>5, Zenon DEF WellFormed, ChunkSize
<1> QED BY <1>2, <1>6

\* The first chunk of a queue that holds bytes holds some: Peek returns some and
\* a turn of Consume's loop gets on.
LEMMA HeadHasBytes ==
  ASSUME NEW q \in Queue, WellFormed(q), q.size > 0
  PROVE  /\ q.chunks # <<>> /\ Head(q.chunks) = q.chunks[1]
         /\ ChunkSize(q.chunks[1]) \in Nat \ {0}
<1>1. q.chunks # <<>>
  BY ChunkFacts
<1>2. Len(q.chunks) \in Nat /\ Len(q.chunks) >= 1 /\ q.chunks \in Seq(Chunk)
  BY <1>1, ChunkFacts, Zenon
<1>3. 1 \in 1..Len(q.chunks)
  BY <1>2
<1>4. /\ q.chunks[1].begin \in 0..slabSize /\ q.chunks[1].end \in 0..slabSize
      /\ q.chunks[1].begin <= q.chunks[1].end
      /\ ChunkSize(q.chunks[1]) = q.chunks[1].end - q.chunks[1].begin
      /\ ChunkSize(q.chunks[1]) = 0 => Len(q.chunks) = 1
  BY <1>3, ChunkFacts, Zenon
<1>5. q.size = Whole(Len(q.chunks) - 1) + q.chunks[Len(q.chunks)].end - q.chunks[1].begin
  BY <1>1, ChunkFacts, Zenon
<1>6. ChunkSize(q.chunks[1]) # 0
  <2> SUFFICES ASSUME ChunkSize(q.chunks[1]) = 0 PROVE FALSE
    OBVIOUS
  <2>1. Len(q.chunks) = 1
    BY <1>4
  <2>2. q.size = 0 + q.chunks[1].end - q.chunks[1].begin
    BY <2>1, <1>5, WholeSlabs
  <2> QED BY <2>2, <1>4, SlabSizeAssumption
<1> QED BY <1>1, <1>2, <1>4, <1>6, SlabSizeAssumption

\* The chunks Append's loop is about to write to.
LEMMA WritableLast ==
  ASSUME NEW q \in Queue, WellFormed(q)
  PROVE  LET c == Writable(q) IN
         /\ c \in Seq(Chunk) /\ Len(c) \in Nat /\ Len(c) >= 1
         /\ Len(c) = Len(q.chunks) + (IF NeedsChunk(q) THEN 1 ELSE 0)
         /\ c[Len(c)].begin \in 0..slabSize /\ c[Len(c)].end \in 0..(slabSize - 1)
         /\ c[Len(c)].begin <= c[Len(c)].end
         /\ Len(c) > 1 => c[Len(c)].begin = 0
         /\ q.size = Whole(Len(c) - 1) + c[Len(c)].end - c[1].begin
         /\ \A i \in 1..(Len(c) - 1) :
              /\ c[i] \in Chunk /\ c[i].begin <= c[i].end
              /\ c[i].end - c[i].begin # 0
              /\ i > 1 => c[i].begin = 0
              /\ c[i].end = slabSize
<1> DEFINE c == Writable(q)
           e == [begin |-> 0, end |-> 0]
           old == q.chunks
<1>0. slabSize \in Nat /\ slabSize > 0
  BY SlabSizeAssumption
<1>1. old \in Seq(Chunk) /\ q.size \in Nat /\ Len(old) \in Nat
  BY ChunkFacts, LenProperties
<1>2. \A i \in 1..Len(old) :
        /\ old[i] \in Chunk
        /\ old[i].begin \in 0..slabSize /\ old[i].end \in 0..slabSize
        /\ old[i].begin <= old[i].end
        /\ ChunkSize(old[i]) = old[i].end - old[i].begin
        /\ ChunkSize(old[i]) = 0 => Len(old) = 1 /\ old[i].end < slabSize
        /\ i > 1 => old[i].begin = 0
        /\ i < Len(old) => old[i].end = slabSize
  BY ChunkFacts, Zenon
<1>3. old = <<>> => q.size = 0 /\ Len(old) = 0
  BY ChunkFacts, EmptySeq
<1>4. old # <<>> => /\ Len(old) >= 1
                    /\ q.size = Whole(Len(old) - 1) + old[Len(old)].end - old[1].begin
  BY ChunkFacts, Zenon
<1>5. NeedsChunk(q) <=> (old # <<>> => old[Len(old)].end = slabSize)
  BY DEF NeedsChunk, Back
<1> HIDE DEF old
<1>6. CASE NeedsChunk(q)
  <2>1. c = Append(old, e)
    BY <1>6 DEF Writable, old
  <2>2. e \in Chunk /\ e.begin = 0 /\ e.end = 0
    BY <1>0 DEF Chunk
  <2> HIDE DEF c, e
  <2>3. /\ c \in Seq(Chunk) /\ Len(c) = Len(old) + 1 /\ c[Len(c)] = e
        /\ \A i \in 1..Len(old) : c[i] = old[i]
    BY <2>1, <2>2, <1>1, AppendProperties
  <2>4. \A i \in 1..Len(old) : old[i].end = slabSize
    <3>1. CASE old = <<>>
      BY <3>1, <1>3
    <3>2. CASE old # <<>>
      BY <3>2, <1>1, <1>2, <1>4, <1>5, <1>6
    <3> QED BY <3>1, <3>2
  <2>5. \A i \in 1..Len(old) : old[i].end - old[i].begin # 0
    BY <2>4, <1>0, <1>2
  <2>6. q.size = Whole(Len(c) - 1) + c[Len(c)].end - c[1].begin
    <3>1. CASE old = <<>>
      <4>1. Len(c) = 1 /\ c[1] = e /\ q.size = 0
        BY <3>1, <1>3, <2>3
      <4> QED BY <4>1, <2>2, WholeSlabs
    <3>2. CASE old # <<>>
      <4>1. Len(c) - 1 = Len(old) /\ c[1] = old[1] /\ c[Len(c)].end = 0
        BY <3>2, <1>1, <1>4, <2>2, <2>3
      <4>2. old[Len(old)].end = slabSize /\ old[1].begin \in Int
        BY <3>2, <1>0, <1>1, <1>2, <1>4, <2>4
      <4>3. /\ q.size = Whole(Len(old) - 1) + slabSize - old[1].begin
            /\ Len(old) - 1 \in Nat /\ Len(old) = (Len(old) - 1) + 1
        BY <3>2, <1>1, <1>4, <4>2
      <4>4. Whole(Len(old) - 1) \in Nat /\ Whole(Len(old)) = Whole(Len(old) - 1) + slabSize
        BY <4>3, WholeSlabs
      <4> QED BY <4>1, <4>2, <4>3, <4>4, <1>0
    <3> QED BY <3>1, <3>2
  <2>7. \A i \in 1..(Len(c) - 1) :
          /\ c[i] \in Chunk /\ c[i].begin <= c[i].end
          /\ c[i].end - c[i].begin # 0
          /\ i > 1 => c[i].begin = 0
          /\ c[i].end = slabSize
    <3>1. Len(c) - 1 = Len(old)
      BY <1>1, <2>3
    <3> QED BY <3>1, <1>2, <2>3, <2>4, <2>5
  <2>8. /\ Len(c) \in Nat /\ Len(c) >= 1 /\ Len(c) = Len(old) + (IF NeedsChunk(q) THEN 1 ELSE 0)
        /\ c[Len(c)].begin = 0 /\ c[Len(c)].end = 0
    BY <1>1, <1>6, <2>2, <2>3
  <2>9. /\ c[Len(c)].begin \in 0..slabSize /\ c[Len(c)].end \in 0..(slabSize - 1)
        /\ c[Len(c)].begin <= c[Len(c)].end
    BY <1>0, <2>8
  <2> QED BY <2>3, <2>6, <2>7, <2>8, <2>9, Zenon DEF c, old
<1>7. CASE ~NeedsChunk(q)
  <2>1. c = old /\ old # <<>> /\ old[Len(old)].end # slabSize
    BY <1>5, <1>7 DEF Writable, old
  <2> HIDE DEF c
  <2>2. Len(old) \in 1..Len(old) /\ Len(old) >= 1
    BY <2>1, <1>1, <1>4
  <2>3. /\ old[Len(old)].begin \in 0..slabSize /\ old[Len(old)].end \in 0..(slabSize - 1)
        /\ old[Len(old)].begin <= old[Len(old)].end
        /\ Len(old) > 1 => old[Len(old)].begin = 0
    BY <2>1, <2>2, <1>0, <1>2
  <2>4. \A i \in 1..(Len(old) - 1) :
          /\ old[i] \in Chunk /\ old[i].begin <= old[i].end
          /\ old[i].end - old[i].begin # 0
          /\ i > 1 => old[i].begin = 0
          /\ old[i].end = slabSize
    BY <1>0, <1>1, <1>2
  <2>5. q.size = Whole(Len(old) - 1) + old[Len(old)].end - old[1].begin
    BY <2>1, <1>4, Zenon
  <2>6. Len(old) = Len(old) + (IF NeedsChunk(q) THEN 1 ELSE 0)
    BY <1>1, <1>7
  <2> QED BY <1>1, <2>1, <2>2, <2>3, <2>4, <2>5, <2>6, Zenon DEF c, old
<1> QED BY <1>6, <1>7, Zenon

\* A turn of SlabQueue::Append's loop stores at least one byte, takes a slab only
\* when it needs one, and keeps the queue in shape.
LEMMA AppendedKeeps ==
  ASSUME NEW q \in Queue, WellFormed(q), NEW n \in Nat \ {0}
  PROVE  /\ Appended(q, n) \in Queue /\ WellFormed(Appended(q, n))
         /\ Appended(q, n).size - q.size \in 1..n
         /\ Len(Appended(q, n).chunks) = Len(q.chunks) + (IF NeedsChunk(q) THEN 1 ELSE 0)
<1> DEFINE c == Writable(q)
           L == Len(c)
           take == Min({slabSize - c[L].end, n})
           d == [c EXCEPT ![L].end = @ + take]
<1>0. slabSize \in Nat /\ slabSize > 0 /\ q.size \in Nat
  BY SlabSizeAssumption, ChunkFacts
<1>1. c \in Seq(Chunk) /\ L \in Nat /\ L >= 1
  BY WritableLast, Zenon
<1>2. L = Len(q.chunks) + (IF NeedsChunk(q) THEN 1 ELSE 0)
  BY WritableLast, Zenon
<1>3. /\ c[L].begin \in 0..slabSize /\ c[L].end \in 0..(slabSize - 1)
      /\ c[L].begin <= c[L].end
      /\ L > 1 => c[L].begin = 0
  BY WritableLast, Zenon
<1>4. q.size = Whole(L - 1) + c[L].end - c[1].begin
  BY WritableLast, Zenon
<1>5. \A i \in 1..(L - 1) :
        /\ c[i] \in Chunk /\ c[i].begin <= c[i].end
        /\ c[i].end - c[i].begin # 0
        /\ i > 1 => c[i].begin = 0
        /\ c[i].end = slabSize
  BY WritableLast, Zenon
<1>6. Appended(q, n) = [chunks |-> d, size |-> q.size + take]
  BY DEF Appended, Back
<1> HIDE DEF c, L, take, d
<1>7. take \in 1..n /\ take <= slabSize - c[L].end
  <2>1. slabSize - c[L].end \in Int /\ slabSize - c[L].end >= 1
    BY <1>0, <1>3
  <2>2. take = IF slabSize - c[L].end <= n THEN slabSize - c[L].end ELSE n
    BY <2>1, MinOfTwo DEF take
  <2> QED BY <2>1, <2>2
<1>8. L \in 1..L /\ 1 \in 1..L
  BY <1>1
<1>9. \A i \in 1..L : c[i] \in Chunk
  BY <1>1, ElementOfSeq DEF L
<1>10. /\ d \in Seq(Chunk) /\ Len(d) = L
       /\ d[L].begin = c[L].begin /\ d[L].end = c[L].end + take
       /\ \A i \in 1..L : i # L => d[i] = c[i]
  <2> DEFINE x == [c[L] EXCEPT !.end = @ + take]
  <2>1. c[L] \in Chunk
    BY <1>8, <1>9
  <2>2. c[L].end + take \in 0..slabSize
    BY <1>0, <1>3, <1>7
  <2>3. x \in Chunk /\ x.begin = c[L].begin /\ x.end = c[L].end + take
    BY <2>1, <2>2 DEF Chunk
  <2>4. d = [c EXCEPT ![L] = x]
    BY Zenon DEF d
  <2> HIDE DEF x
  <2>5. d \in Seq(Chunk) /\ Len(d) = Len(c) /\ \A i \in 1..Len(c) : d[i] = IF i = L THEN x ELSE c[i]
    BY <2>3, <2>4, <1>1, <1>8, ExceptSeq DEF L
  <2>6. \A i \in 1..L : d[i] = IF i = L THEN x ELSE c[i]
    BY <2>5, Zenon DEF L
  <2>7. d[L] = x
    BY <2>6, <1>8
  <2> QED BY <2>3, <2>5, <2>6, <2>7, Zenon DEF L
<1>11. d # <<>>
  BY <1>1, <1>10, EmptySeq
<1>12. q.size + take = Whole(Len(d) - 1) + d[Len(d)].end - d[1].begin
  <2>1. d[1].begin = c[1].begin
    BY <1>8, <1>10, Zenon
  <2>2. c[1].begin \in Int /\ c[L].end \in Int /\ take \in Int
    BY <1>0, <1>3, <1>7, <1>8, <1>9 DEF Chunk
  <2>3. L - 1 \in Nat
    BY <1>1
  <2>4. Whole(L - 1) \in Int
    BY <2>3, WholeSlabs
  <2>5. q.size + take = Whole(L - 1) + (c[L].end + take) - c[1].begin
    BY <2>2, <2>4, <1>4
  <2> QED BY <2>1, <2>5, <1>10, Zenon
<1>13. \A i \in 1..Len(d) :
        /\ d[i].begin <= d[i].end
        /\ d[i].end - d[i].begin = 0 => Len(d) = 1 /\ d[i].end < slabSize
        /\ i > 1 => d[i].begin = 0
        /\ i < Len(d) => d[i].end = slabSize
  <2> SUFFICES ASSUME NEW i \in 1..L
               PROVE  /\ d[i].begin <= d[i].end
                      /\ d[i].end - d[i].begin # 0
                      /\ i > 1 => d[i].begin = 0
                      /\ i < L => d[i].end = slabSize
    BY <1>10, Zenon
  <2>1. CASE i = L
    <3>1. d[L].begin <= d[L].end /\ d[L].end - d[L].begin # 0
      BY <1>0, <1>3, <1>7, <1>10
    <3> QED BY <2>1, <3>1, <1>1, <1>3, <1>10
  <2>2. CASE i # L
    <3>1. i \in 1..(L - 1)
      BY <2>2, <1>1
    <3>2. d[i] = c[i]
      BY <2>2, <1>10, Zenon
    <3> QED BY <3>1, <3>2, <1>5, Zenon
  <2> QED BY <2>1, <2>2
<1>14. q.size + take \in Nat
  BY <1>0, <1>7
<1>15. /\ [chunks |-> d, size |-> q.size + take] \in Queue
       /\ WellFormed([chunks |-> d, size |-> q.size + take])
  BY <1>10, <1>11, <1>12, <1>13, <1>14, BuildsQueue, Zenon
<1>16. Appended(q, n).size = q.size + take /\ Appended(q, n).chunks = d
  BY <1>6
<1>17. Appended(q, n).size - q.size \in 1..n
  BY <1>16, <1>0, <1>7
<1> QED BY <1>2, <1>6, <1>10, <1>15, <1>16, <1>17, Zenon

\* A turn of SlabQueue::Consume's loop takes at least one byte and no more than
\* asked, returns at most the chunks it had, and keeps the queue in shape.
LEMMA ConsumedKeeps ==
  ASSUME NEW q \in Queue, WellFormed(q), NEW n \in Nat \ {0}, n <= q.size
  PROVE  /\ Consumed(q, n) \in Queue /\ WellFormed(Consumed(q, n))
         /\ q.size - Consumed(q, n).size = Min({ChunkSize(Head(q.chunks)), n})
         /\ q.size - Consumed(q, n).size \in 1..n
         /\ Len(Consumed(q, n).chunks) \in 0..Len(q.chunks)
<1> DEFINE c == q.chunks
           L == Len(c)
           take == Min({ChunkSize(c[1]), n})
           d == [c EXCEPT ![1].begin = @ + take]
           p == PopFrontIfDrained(d)
           r == [chunks |-> p, size |-> q.size - take]
<1>0. slabSize \in Nat /\ slabSize > 0 /\ q.size \in Nat
  BY SlabSizeAssumption, ChunkFacts
<1>1. c # <<>> /\ Head(c) = c[1] /\ ChunkSize(c[1]) \in Nat \ {0}
  BY HeadHasBytes, <1>0
<1>2. c \in Seq(Chunk) /\ L \in Nat /\ L >= 1
  BY <1>1, ChunkFacts, Zenon
<1>3. q.size = Whole(L - 1) + c[L].end - c[1].begin
  BY <1>1, ChunkFacts, Zenon
<1>4. \A i \in 1..L :
        /\ c[i] \in Chunk
        /\ c[i].begin \in 0..slabSize /\ c[i].end \in 0..slabSize
        /\ c[i].begin <= c[i].end
        /\ ChunkSize(c[i]) = c[i].end - c[i].begin
        /\ ChunkSize(c[i]) = 0 => L = 1 /\ c[i].end < slabSize
        /\ i > 1 => c[i].begin = 0
        /\ i < L => c[i].end = slabSize
  BY ChunkFacts, Zenon
<1>5. Consumed(q, n) = r
  BY <1>1 DEF Consumed
<1>6. r.size = q.size - take /\ r.chunks = p
  OBVIOUS
<1> HIDE DEF c, L, take, d, p, r
<1>7. take \in 1..n /\ take <= ChunkSize(c[1])
  BY <1>1, MinOfTwo DEF take
<1>8. 1 \in 1..L /\ L \in 1..L
  BY <1>2
<1>9. /\ d \in Seq(Chunk) /\ Len(d) = L
      /\ d[1].begin = c[1].begin + take /\ d[1].end = c[1].end
      /\ \A i \in 2..L : d[i] = c[i]
  <2> DEFINE x == [c[1] EXCEPT !.begin = @ + take]
  <2>0. c[1] \in Chunk /\ c[1].begin + take \in 0..slabSize
    BY <1>0, <1>4, <1>7, <1>8
  <2>1. x \in Chunk /\ x.begin = c[1].begin + take /\ x.end = c[1].end
    BY <2>0 DEF Chunk
  <2>2. d = [c EXCEPT ![1] = x]
    BY Zenon DEF d
  <2> HIDE DEF x
  <2>3. d \in Seq(Chunk) /\ Len(d) = Len(c) /\ \A i \in 1..Len(c) : d[i] = IF i = 1 THEN x ELSE c[i]
    BY <2>1, <2>2, <1>2, <1>8, ExceptSeq DEF L
  <2>4. \A i \in 1..L : d[i] = IF i = 1 THEN x ELSE c[i]
    BY <2>3, Zenon DEF L
  <2>5. d[1] = x /\ \A i \in 2..L : d[i] = c[i]
    BY <2>4, <1>2
  <2> QED BY <2>1, <2>3, <2>5, Zenon DEF L
<1>10. d # <<>>
  BY <1>2, <1>9, EmptySeq
<1>11. \A i \in 2..Len(d) : ChunkSize(d[i]) # 0
  <2> SUFFICES ASSUME NEW i \in 2..L PROVE ChunkSize(d[i]) # 0
    BY <1>9, Zenon
  <2>1. i \in 1..L /\ L # 1
    BY <1>2
  <2> QED BY <2>1, <1>4, <1>9, Zenon
<1>12. ChunkSize(d[1]) = d[1].end - d[1].begin
  BY DEF ChunkSize
<1>13. p = IF ChunkSize(d[1]) # 0 THEN d
           ELSE IF Len(d) > 1 THEN Tail(d)
           ELSE IF d[1].end = slabSize THEN <<>> ELSE d
  BY <1>9, <1>10, <1>11, PopsOne, Zenon DEF p
<1>14. q.size - take \in Nat
  BY <1>0, <1>7
<1>15. d[L].end = c[L].end
  <2>1. L = 1 \/ L \in 2..L
    BY <1>2
  <2> QED BY <2>1, <1>9, Zenon
<1>16. Whole(L - 1) \in Int
  <2>1. L - 1 \in Nat
    BY <1>2
  <2> QED BY <2>1, WholeSlabs
<1>17. /\ c[1].begin \in Int /\ c[1].end \in Int /\ c[L].end \in Int /\ take \in Int
       /\ c[1].begin <= c[1].end /\ c[1].end <= slabSize
       /\ ChunkSize(c[1]) = c[1].end - c[1].begin
  BY <1>0, <1>4, <1>7, <1>8
<1>18. p \in Seq(Chunk) /\ Len(p) \in 0..L /\ r \in Queue /\ WellFormed(r)
  <2>1. CASE ChunkSize(d[1]) # 0 \/ (Len(d) = 1 /\ d[1].end # slabSize)
    <3>1. p = d
      <4>1. CASE ChunkSize(d[1]) # 0
        BY <4>1, <1>13, Zenon
      <4>2. CASE Len(d) = 1 /\ d[1].end # slabSize
        <5>1. ~(Len(d) > 1)
          BY <4>2
        <5> QED BY <4>2, <5>1, <1>13, Zenon
      <4> QED BY <2>1, <4>1, <4>2, Zenon
    <3>2. q.size - take = Whole(Len(d) - 1) + d[Len(d)].end - d[1].begin
      <4>1. q.size - take = Whole(L - 1) + d[L].end - d[1].begin
        BY <1>3, <1>9, <1>15, <1>16, <1>17
      <4> QED BY <4>1, <1>9, Zenon
    <3>3. \A i \in 1..Len(d) :
            /\ d[i].begin <= d[i].end
            /\ d[i].end - d[i].begin = 0 => Len(d) = 1 /\ d[i].end < slabSize
            /\ i > 1 => d[i].begin = 0
            /\ i < Len(d) => d[i].end = slabSize
      <4> SUFFICES ASSUME NEW i \in 1..L
                   PROVE  /\ d[i].begin <= d[i].end
                          /\ d[i].end - d[i].begin = 0 => L = 1 /\ d[i].end < slabSize
                          /\ i > 1 => d[i].begin = 0
                          /\ i < L => d[i].end = slabSize
        BY <1>9, Zenon
      <4>1. CASE i = 1
        <5>1. d[1].begin <= d[1].end
          BY <1>7, <1>9, <1>17
        <5>2. d[1].end - d[1].begin = 0 => L = 1 /\ d[1].end < slabSize
          BY <2>1, <1>9, <1>12, <1>17, <1>0
        <5>3. 1 < L => d[1].end = slabSize
          BY <1>4, <1>8, <1>9, Zenon
        <5> QED BY <4>1, <5>1, <5>2, <5>3
      <4>2. CASE i # 1
        <5>1. i \in 2..L
          BY <4>2, <1>2
        <5>2. d[i] = c[i]
          BY <5>1, <1>9
        <5>3. i \in 1..L /\ L # 1
          BY <5>1, <1>2
        <5>4. /\ c[i].begin <= c[i].end
              /\ c[i].end - c[i].begin # 0
              /\ i > 1 => c[i].begin = 0
              /\ i < L => c[i].end = slabSize
          <6>1. ChunkSize(c[i]) # 0 /\ ChunkSize(c[i]) = c[i].end - c[i].begin
            BY <5>3, <1>4, Zenon
          <6> QED BY <5>3, <6>1, <1>4, Zenon
        <5> QED BY <5>2, <5>4, Zenon
      <4> QED BY <4>1, <4>2
    <3>4. r \in Queue /\ WellFormed(r)
      BY <3>1, <3>2, <3>3, <1>9, <1>10, <1>14, BuildsQueue, Zenon DEF r
    <3> QED BY <3>1, <3>4, <1>2, <1>9
  <2>2. CASE ChunkSize(d[1]) = 0 /\ Len(d) > 1
    <3>1. p = Tail(d)
      BY <2>2, <1>13
    <3>2. p \in Seq(Chunk) /\ Len(p) = L - 1 /\ \A i \in 1..Len(p) : p[i] = d[i + 1]
      BY <3>1, <1>9, <1>10, HeadTailProperties
    <3>3. \A i \in 1..Len(p) : i + 1 \in 2..L /\ p[i] = c[i + 1]
      BY <3>2, <1>2, <1>9
    <3>4. p # <<>>
      BY <3>2, <2>2, <1>2, <1>9, EmptySeq
    <3>5. q.size - take = Whole(Len(p) - 1) + p[Len(p)].end - p[1].begin
      <4>1. p[1].begin = 0 /\ p[Len(p)].end = c[L].end
        <5>1. 1 \in 1..Len(p) /\ Len(p) \in 1..Len(p) /\ Len(p) + 1 = L /\ 2 \in 1..L
          BY <3>2, <2>2, <1>2, <1>9
        <5>2. p[1] = c[2] /\ p[Len(p)] = c[L]
          BY <5>1, <3>3
        <5>3. c[2].begin = 0
          BY <5>1, <1>4
        <5> QED BY <5>2, <5>3
      <4>2. c[1].end = slabSize /\ take = slabSize - c[1].begin
        <5>1. c[1].end = slabSize
          BY <2>2, <1>4, <1>8, <1>9
        <5>2. d[1].end - d[1].begin = 0
          BY <2>2, <1>12, Zenon
        <5>3. slabSize - (c[1].begin + take) = 0
          BY <5>1, <5>2, <1>9, Zenon
        <5>4. take = slabSize - c[1].begin
          BY <5>3, <1>0, <1>17
        <5> QED BY <5>1, <5>4
      <4>3. Len(p) - 1 \in Nat /\ L - 1 = (Len(p) - 1) + 1
        BY <3>2, <2>2, <1>2, <1>9
      <4> DEFINE w == Whole(Len(p) - 1)
      <4>4. w \in Nat /\ Whole(L - 1) = w + slabSize
        BY <4>3, WholeSlabs, Zenon
      <4> HIDE DEF w
      <4>5. q.size = (w + slabSize) + c[L].end - c[1].begin
        BY <4>4, <1>3, Zenon
      <4>6. q.size - take = w + c[L].end - 0
        BY <4>2, <4>4, <4>5, <1>0, <1>17
      <4> QED BY <4>1, <4>6, Zenon DEF w
    <3>6. \A i \in 1..Len(p) :
            /\ p[i].begin <= p[i].end
            /\ p[i].end - p[i].begin = 0 => Len(p) = 1 /\ p[i].end < slabSize
            /\ i > 1 => p[i].begin = 0
            /\ i < Len(p) => p[i].end = slabSize
      <4> SUFFICES ASSUME NEW i \in 1..Len(p)
                   PROVE  /\ p[i].begin <= p[i].end
                          /\ p[i].end - p[i].begin # 0
                          /\ p[i].begin = 0
                          /\ i < Len(p) => p[i].end = slabSize
        BY Zenon
      <4>1. i + 1 \in 1..L /\ i + 1 > 1 /\ L # 1 /\ (i < Len(p) => i + 1 < L)
        BY <3>2, <2>2, <1>2, <1>9
      <4>2. p[i] = c[i + 1]
        BY <3>3, Zenon
      <4>3. ChunkSize(c[i + 1]) # 0 /\ ChunkSize(c[i + 1]) = c[i + 1].end - c[i + 1].begin
        BY <4>1, <1>4, Zenon
      <4> QED BY <4>1, <4>2, <4>3, <1>4, Zenon
    <3>7. r \in Queue /\ WellFormed(r)
      BY <3>2, <3>4, <3>5, <3>6, <1>14, BuildsQueue, Zenon DEF r
    <3> QED BY <3>2, <3>7, <1>2
  <2>3. CASE ChunkSize(d[1]) = 0 /\ Len(d) = 1 /\ d[1].end = slabSize
    <3>1. p = <<>>
      BY <2>3, <1>13
    <3>2. q.size - take = 0
      <4>1. L = 1 /\ L - 1 = 0
        BY <2>3, <1>9
      <4>2. Whole(L - 1) = 0
        BY <4>1, WholeSlabs, Zenon
      <4> QED BY <4>1, <4>2, <2>3, <1>3, <1>9, <1>12, <1>17
    <3>3. p \in Seq(Chunk) /\ Len(p) = 0
      BY <3>1, EmptySeq
    <3>4. r \in Queue /\ WellFormed(r)
      <4>1. \A i \in 1..Len(p) : FALSE
        BY <3>3
      <4> QED BY <4>1, <3>1, <3>2, <3>3, <1>14, BuildsQueue, Zenon DEF r
    <3> QED BY <3>3, <3>4, <1>2
  <2> QED BY <2>1, <2>2, <2>3, <1>2, <1>9
<1>19. q.size - r.size = take
  BY <1>0, <1>17, <1>6
<1> QED BY <1>1, <1>5, <1>7, <1>18, <1>6, <1>19, Zenon DEF c, L, take

\* A queue starts empty, and Clear leaves it so.
LEMMA EmptyQueueFits ==
  /\ EmptyQueue \in Queue /\ WellFormed(EmptyQueue)
  /\ EmptyQueue.size = 0 /\ EmptyQueue.chunks = <<>> /\ Len(EmptyQueue.chunks) = 0
<1>1. EmptyQueue.size = 0 /\ EmptyQueue.chunks = <<>>
  BY DEF EmptyQueue
<1>2. <<>> \in Seq(Chunk) /\ Len(<<>>) = 0
  BY EmptySeq
<1>3. \A i \in 1..Len(<<>>) : FALSE
  BY <1>2
<1>4. 0 \in Nat
  OBVIOUS
<1>5. EmptyQueue \in Queue /\ WellFormed(EmptyQueue)
  BY <1>2, <1>3, <1>4, BuildsQueue, Zenon DEF EmptyQueue
<1> QED BY <1>1, <1>2, <1>5, Zenon

\* What Peek returns lies in the first chunk, which is part of the queue.
LEMMA HeadWithinSize ==
  ASSUME NEW q \in Queue, WellFormed(q), q.size > 0
  PROVE  ChunkSize(q.chunks[1]) <= q.size
<1> DEFINE c == q.chunks
           L == Len(c)
<1>0. slabSize \in Nat /\ slabSize > 0
  BY SlabSizeAssumption
<1>1. c # <<>>
  BY HeadHasBytes
<1>2. L \in Nat /\ L >= 1 /\ q.size = Whole(L - 1) + c[L].end - c[1].begin
  BY <1>1, ChunkFacts, Zenon
<1>3. 1 \in 1..L /\ L \in 1..L
  BY <1>2
<1>4. /\ c[1].begin \in 0..slabSize /\ c[1].end \in 0..slabSize /\ c[L].end \in 0..slabSize
      /\ ChunkSize(c[1]) = c[1].end - c[1].begin
      /\ 1 < L => c[1].end = slabSize
  BY <1>3, ChunkFacts, Zenon
<1> HIDE DEF L
<1>5. CASE L = 1
  <2>1. Whole(L - 1) = 0
    BY <1>5, WholeSlabs
  <2> QED BY <1>0, <1>2, <1>4, <1>5, <2>1
<1>6. CASE L > 1
  <2>0. L - 2 \in Nat /\ L - 1 = (L - 2) + 1
    BY <1>2, <1>6
  <2>1. Whole(L - 1) = Whole(L - 2) + slabSize /\ Whole(L - 2) \in Nat
    BY <2>0, WholeSlabs
  <2> QED BY <1>0, <1>2, <1>4, <1>6, <2>1
<1> QED BY <1>2, <1>5, <1>6

-----------------------------------------------------------------------------
(* The send path.                                                          *)

\* Where the bytes are that each step of Pump answers for: what an append still
\* has to store fits the cap in force next to what is queued, and what DropOldest
\* still has to drop is there to be dropped.
PlaceInv ==
  /\ cap > 0 /\ gauge <= SendCap
  /\ pc \in {"idle", "pop", "flush"} =>
       queue.size <= cap /\ queue.size <= gauge /\ remaining = 0 /\ result = NoResult
  /\ pc \in {"excess", "store", "reclaim"} => remaining > 0
  /\ pc = "excess" => queue.size - toDrop + remaining <= cap
  /\ pc \in {"store", "reclaim"} => queue.size + remaining <= cap
  /\ pc = "appended" => queue.size <= cap /\ remaining = 0
  /\ pc = "shed" => queue.size - toDrop <= cap /\ remaining = 0
  /\ pc \in DropPoints => toDrop <= queue.size /\ queue.size <= before

\* While the pool has not served an append, the fork is degraded and knows that
\* the pool is dry, so RestoreCapIfDrained does not end the episode.
EpisodeInv == served \/ (degraded /\ poolStarved)

SendInv == TypeOK /\ SlabsConserved /\ BytesConserved /\ PlaceInv /\ EpisodeInv

\* The numbers of the send path, with the bounds the steps below share.
Counts ==
  /\ ring \in Nat /\ ring <= RingBytes /\ RingBytes \in Nat
  /\ remaining \in Nat /\ remaining <= DrainChunk /\ DrainChunk \in Nat /\ DrainChunk > 0
  /\ result.dropped \in Nat /\ queue.size \in Nat /\ toDrop \in Nat /\ before \in Nat
  /\ Dropped \in Int
  /\ pushed \in Nat /\ sent \in Nat /\ bufferDropped \in Nat /\ discarded \in Nat /\ gauge \in Nat
  /\ slabs \in Nat /\ others \in Nat
  /\ sentThisTick \in Nat /\ CoalesceMax \in Nat
  /\ SendCap \in Nat /\ EmergencyCap \in Nat /\ EmergencyCap <= SendCap /\ SendCap > 0
  /\ cap \in Nat /\ cap <= SendCap

LEMMA Shared ==
  ASSUME TypeOK, SlabsConserved
  PROVE  /\ Counts
         /\ queue \in Queue /\ WellFormed(queue) /\ Len(queue.chunks) \in Nat
         /\ queue.chunks = <<>> => queue.size = 0
         /\ slabs + others + Len(queue.chunks) = PoolSlabs
<1>1. queue \in Queue /\ WellFormed(queue) /\ slabs + others + Len(queue.chunks) = PoolSlabs
  BY Zenon DEF TypeOK, SlabsConserved
<1>2. queue.size \in Nat /\ queue.chunks \in Seq(Chunk) /\ (queue.chunks = <<>> => queue.size = 0)
  BY <1>1, ChunkFacts, Zenon
<1>3. Len(queue.chunks) \in Nat
  BY <1>2, LenProperties
<1>4. /\ SendCap \in Nat /\ EmergencyCap \in Nat /\ EmergencyCap <= SendCap
      /\ CoalesceMax \in Nat /\ DrainChunk \in Nat /\ RingBytes \in Nat /\ PoolSlabs \in Nat
      /\ DrainChunk > 0 /\ SendCap > 0
  BY CapsAssumption
<1>5. /\ ring \in 0..RingBytes /\ remaining \in 0..DrainChunk /\ sentThisTick \in 0..CoalesceMax
      /\ cap \in {SendCap, EmergencyCap} /\ result \in [dropped : Nat, exhausted : BOOLEAN]
      /\ toDrop \in Nat /\ before \in Nat /\ slabs \in Nat /\ others \in Nat
      /\ pushed \in Nat /\ sent \in Nat /\ bufferDropped \in Nat /\ discarded \in Nat /\ gauge \in Nat
  BY Zenon DEF TypeOK
<1>6. /\ ring \in Nat /\ ring <= RingBytes /\ remaining \in Nat /\ remaining <= DrainChunk
      /\ sentThisTick \in Nat
  BY <1>4, <1>5
<1>7. cap \in Nat /\ cap <= SendCap /\ result.dropped \in Nat
  BY <1>4, <1>5
<1>8. Dropped \in Int
  BY <1>2, <1>5 DEF Dropped
<1> QED BY <1>1, <1>2, <1>3, <1>4, <1>5, <1>6, <1>7, <1>8, Zenon DEF Counts

\* Slabs that the queue gains or gives up change hands with the pool.
LEMMA SlabsChangeHands ==
  ASSUME TypeOK, SlabsConserved, NEW q \in Queue, WellFormed(q), SetQueue(q),
         Len(q.chunks) <= Len(queue.chunks) + slabs
  PROVE  queue' = q /\ slabs' \in Nat /\ others' = others /\ SlabsConserved'
<1> DEFINE old == Len(queue.chunks)
           new == Len(q.chunks)
<1>1. queue' = q /\ others' = others /\ slabs' = slabs + old - new
  BY DEF SetQueue
<1>2. old \in Nat /\ new \in Nat /\ new <= old + slabs
  BY Shared, LenProperties DEF Queue
<1>3. slabs \in Nat /\ others \in Nat /\ slabs + others + old = PoolSlabs
  BY Shared, Zenon DEF Counts
<1> HIDE DEF old, new
<1>4. slabs' \in Nat /\ slabs' + others' + new = PoolSlabs
  BY <1>1, <1>2, <1>3
<1> QED BY <1>1, <1>4, Zenon DEF SlabsConserved, new

\* A step of another thread, or one that only moves the shard on.
LEMMA ElsewhereStep ==
  ASSUME SendInv, AdmitAudio \/ PushAudio \/ OthersAcquire \/ OthersRelease \/ UNCHANGED vars
  PROVE  SendInv'
<1> USE DEF pool, append, drop, episode, counters, session
<1>0. TypeOK /\ SlabsConserved /\ BytesConserved /\ PlaceInv /\ EpisodeInv /\ Counts
  BY Shared, Zenon DEF SendInv
<1>1. /\ queue' = queue /\ cap' = cap /\ pc' = pc /\ remaining' = remaining /\ result' = result
      /\ toDrop' = toDrop /\ before' = before /\ sentThisTick' = sentThisTick
      /\ dropping' = dropping /\ poolStarved' = poolStarved /\ degraded' = degraded
      /\ served' = served /\ sent' = sent /\ bufferDropped' = bufferDropped
      /\ discarded' = discarded /\ gauge' = gauge
      /\ phase' = phase /\ (admitted' \in BOOLEAN \/ admitted' = admitted)
  BY Zenon DEF AdmitAudio, PushAudio, OthersAcquire, OthersRelease, vars
<1>2. /\ slabs' \in Nat /\ others' \in Nat /\ slabs' + others' = slabs + others
  <2>1. slabs \in Nat /\ others \in Nat
    BY <1>0, Zenon DEF Counts
  <2>2. CASE OthersAcquire
    BY <2>1, <2>2 DEF OthersAcquire
  <2>3. CASE OthersRelease
    BY <2>1, <2>3 DEF OthersRelease
  <2>4. CASE slabs' = slabs /\ others' = others
    BY <2>1, <2>4
  <2> QED BY <2>2, <2>3, <2>4, Zenon DEF AdmitAudio, PushAudio, vars
<1>3. ring' \in 0..RingBytes /\ pushed' \in Nat /\ pushed' + ring = pushed + ring'
  <2>1. ring \in 0..RingBytes /\ pushed \in Nat /\ RingBytes \in Nat
    BY <1>0 DEF Counts
  <2>2. CASE PushAudio
    <3>1. PICK n \in 1..MaxFrame :
            LET taken == IF ring + n <= RingBytes THEN n ELSE 0
            IN  ring' = ring + taken /\ pushed' = pushed + taken
      BY <2>2 DEF PushAudio
    <3>2. n \in Nat
      BY CapsAssumption
    <3> QED BY <2>1, <3>1, <3>2
  <2>3. CASE ~PushAudio
    <3>1. ring' = ring /\ pushed' = pushed
      BY <2>3, Zenon DEF AdmitAudio, OthersAcquire, OthersRelease, vars
    <3> QED BY <2>1, <3>1
  <2> QED BY <2>2, <2>3
<1>4. TypeOK'
  BY <1>0, <1>1, <1>2, <1>3 DEF TypeOK
<1>5. SlabsConserved'
  <2>1. WellFormed(queue')
    BY <1>0, <1>1, Zenon DEF SlabsConserved
  <2>2. slabs + others + Len(queue.chunks) = PoolSlabs
    BY <1>0, Zenon DEF SlabsConserved
  <2>3. slabs' + others' + Len(queue.chunks) = PoolSlabs
    BY <1>2, <2>2, Zenon
  <2>4. slabs' + others' + Len(queue'.chunks) = PoolSlabs
    BY <1>1, <2>3, Zenon
  <2> QED BY <2>1, <2>4, Zenon DEF SlabsConserved
<1>6. BytesConserved'
  <2>1. Dropped' = Dropped
    BY <1>1, Zenon DEF Dropped
  <2>2. ring' \in Nat /\ pushed' \in Nat /\ pushed' + ring = pushed + ring'
    BY <1>0, <1>3 DEF Counts
  <2> QED BY <1>0, <1>1, <2>1, <2>2 DEF Counts, BytesConserved
<1>7. PlaceInv' /\ EpisodeInv'
  BY <1>1, Zenon DEF SendInv, PlaceInv, EpisodeInv
<1> QED BY <1>4, <1>5, <1>6, <1>7 DEF SendInv

\* Pump begins, and BeginDrain: nothing moves.
LEMMA IdleStep ==
  ASSUME SendInv, PumpBegins \/ BeginDrain
  PROVE  SendInv'
<1> USE DEF pool, append, drop, episode, counters, session
<1>1. /\ ring' = ring /\ queue' = queue /\ cap' = cap /\ slabs' = slabs /\ others' = others
      /\ remaining' = remaining /\ result' = result /\ toDrop' = toDrop /\ before' = before
      /\ sentThisTick' = sentThisTick /\ admitted' = admitted /\ dropping' = dropping
      /\ poolStarved' = poolStarved /\ degraded' = degraded /\ served' = served
      /\ pushed' = pushed /\ sent' = sent /\ bufferDropped' = bufferDropped
      /\ discarded' = discarded /\ gauge' = gauge
  BY Zenon DEF PumpBegins, BeginDrain
<1>2. pc = "idle" /\ pc' \in {"idle", "pop"} /\ phase' \in {"open", "draining", "dead"}
  BY DEF PumpBegins, BeginDrain, SendInv, TypeOK
<1>3. TypeOK'
  BY <1>1, <1>2 DEF SendInv, TypeOK
<1>4. SlabsConserved'
  BY <1>1, Zenon DEF SendInv, SlabsConserved
<1>5. BytesConserved'
  <2>1. Dropped' = 0 /\ Dropped = 0
    BY <1>2 DEF Dropped, DropPoints
  <2> QED BY <1>1, <2>1 DEF SendInv, BytesConserved
<1>6. PlaceInv'
  BY <1>1, <1>2 DEF SendInv, PlaceInv, DropPoints
<1>7. EpisodeInv'
  BY <1>1, Zenon DEF SendInv, EpisodeInv
<1> QED BY <1>3, <1>4, <1>5, <1>6, <1>7 DEF SendInv

\* DrainHandoffRing pops a chunk and SendBuffer::Append begins.
LEMMA PopStep ==
  ASSUME SendInv, PopRing
  PROVE  SendInv'
<1> USE DEF pool, append, drop, episode, counters, session
<1> DEFINE count == Min({ring, DrainChunk})
           kept == Min({count, cap})
<1>0. TypeOK /\ SlabsConserved /\ BytesConserved /\ PlaceInv /\ EpisodeInv /\ Counts
  BY Shared, Zenon DEF SendInv
<1>1. /\ queue' = queue /\ cap' = cap /\ slabs' = slabs /\ others' = others
      /\ sentThisTick' = sentThisTick /\ phase' = phase /\ admitted' = admitted
      /\ dropping' = dropping /\ poolStarved' = poolStarved /\ degraded' = degraded
      /\ served' = served /\ pushed' = pushed /\ sent' = sent
      /\ bufferDropped' = bufferDropped /\ discarded' = discarded /\ gauge' = gauge
  BY Zenon DEF PopRing
<1>2. pc = "pop" /\ ring' = ring - count /\ remaining' = kept
      /\ result' = [NoResult EXCEPT !.dropped = count - kept]
  BY Zenon DEF PopRing
<1>3. \/ count = 0 /\ pc' = "flush" /\ toDrop' = toDrop /\ before' = before
      \/ /\ count > 0 /\ queue.size + kept > cap /\ pc' = "excess"
         /\ toDrop' = Min({queue.size + kept - cap, queue.size}) /\ before' = queue.size
      \/ count > 0 /\ queue.size + kept <= cap /\ pc' = "store" /\ toDrop' = toDrop /\ before' = before
  BY Zenon DEF PopRing, DropOldest
<1>4. /\ ring \in 0..RingBytes /\ RingBytes \in Nat /\ DrainChunk \in Nat /\ DrainChunk > 0
      /\ cap \in Nat /\ cap > 0 /\ queue.size \in Nat /\ toDrop \in Nat /\ before \in Nat
      /\ remaining = 0 /\ result = NoResult /\ queue.size <= cap /\ queue.size <= gauge
  <2>1. /\ remaining = 0 /\ result = NoResult /\ queue.size <= cap /\ queue.size <= gauge
        /\ cap > 0
    BY <1>0, <1>2, Zenon DEF PlaceInv
  <2> QED BY <1>0, <2>1 DEF Counts
<1> HIDE DEF count, kept
<1>5. count \in Nat /\ count <= ring /\ count <= DrainChunk
  BY <1>4, MinOfTwo DEF count
<1>6. kept \in Nat /\ kept <= count /\ kept <= cap /\ (count = 0 => kept = 0) /\ (count > 0 => kept > 0)
  BY <1>4, <1>5, MinOfTwo DEF kept
<1>7. result' = [dropped |-> count - kept, exhausted |-> FALSE] /\ count - kept \in Nat
  <2>1. result' = [dropped |-> count - kept, exhausted |-> FALSE]
    BY <1>2, Zenon DEF NoResult
  <2> QED BY <2>1, <1>5, <1>6
<1>8. toDrop' \in Nat /\ before' \in Nat
  BY <1>3, <1>4, <1>6, MinOfTwo
<1>9. TypeOK'
  <2>1. result' \in [dropped : Nat, exhausted : BOOLEAN]
    BY <1>7
  <2>2. ring' \in 0..RingBytes /\ remaining' \in 0..DrainChunk
    <3>1. ring' = ring - count /\ remaining' = kept
      BY <1>2, Zenon
    <3> QED BY <3>1, <1>4, <1>5, <1>6
  <2>3. pc' \in {"idle", "pop", "store", "appended", "flush"} \union DropPoints
    BY <1>3 DEF DropPoints
  <2> QED BY <1>0, <1>1, <1>8, <2>1, <2>2, <2>3, Zenon DEF TypeOK
<1>10. SlabsConserved'
  BY <1>0, <1>1, Zenon DEF SlabsConserved
<1>11. BytesConserved'
  <2>1. Dropped = 0
    BY <1>2 DEF Dropped, DropPoints
  <2>2. Dropped' = 0
    BY <1>1, <1>3, <1>4 DEF Dropped, DropPoints
  <2>3. result.dropped = 0 /\ result'.dropped = count - kept
    BY <1>4, <1>7 DEF NoResult
  <2> QED BY <1>0, <1>1, <1>2, <1>4, <1>5, <1>6, <2>1, <2>2, <2>3 DEF BytesConserved, Counts
<1>12. PlaceInv'
  <2>1. CASE pc' = "flush"
    <3>1. count = 0 /\ kept = 0
      BY <2>1, <1>3, <1>6
    <3>2. result' = NoResult
      BY <3>1, <1>7 DEF NoResult
    <3> QED BY <2>1, <3>1, <3>2, <1>0, <1>1, <1>2, <1>4 DEF PlaceInv, DropPoints
  <2>2. CASE pc' = "excess"
    <3>1. kept > 0 /\ toDrop' = queue.size + kept - cap /\ before' = queue.size
      BY <2>2, <1>3, <1>4, <1>6, MinOfTwo
    <3> QED BY <2>2, <3>1, <1>0, <1>1, <1>2, <1>4, <1>6 DEF PlaceInv, DropPoints
  <2>3. CASE pc' = "store"
    <3>1. kept > 0 /\ queue.size + kept <= cap
      BY <2>3, <1>3, <1>6
    <3> QED BY <2>3, <3>1, <1>0, <1>1, <1>2 DEF PlaceInv, DropPoints
  <2> QED BY <2>1, <2>2, <2>3, <1>3
<1>13. EpisodeInv'
  BY <1>0, <1>1, Zenon DEF EpisodeInv
<1> QED BY <1>9, <1>10, <1>11, <1>12, <1>13 DEF SendInv

\* A turn of the loop in which SlabQueue::Consume drops the oldest audio.
LEMMA DropStep ==
  ASSUME SendInv, DropChunk
  PROVE  SendInv'
<1> USE DEF pool, append, drop, episode, counters, session
<1> DEFINE q == Consumed(queue, toDrop)
<1>0. TypeOK /\ SlabsConserved /\ BytesConserved /\ PlaceInv /\ EpisodeInv /\ Counts
  BY Shared, Zenon DEF SendInv
<1>1. /\ ring' = ring /\ cap' = cap /\ pc' = pc /\ remaining' = remaining /\ result' = result
      /\ before' = before /\ sentThisTick' = sentThisTick /\ phase' = phase
      /\ admitted' = admitted /\ dropping' = dropping /\ poolStarved' = poolStarved
      /\ degraded' = degraded /\ served' = served /\ pushed' = pushed /\ sent' = sent
      /\ bufferDropped' = bufferDropped /\ discarded' = discarded /\ gauge' = gauge
  BY Zenon DEF DropChunk
<1>2. pc \in DropPoints /\ toDrop > 0 /\ SetQueue(q) /\ toDrop' = toDrop - (queue.size - queue'.size)
  BY Zenon DEF DropChunk
<1>3. toDrop \in Nat \ {0} /\ toDrop <= queue.size /\ queue.size <= before /\ before \in Nat
  BY <1>0, <1>2 DEF Counts, PlaceInv
<1>4. /\ queue \in Queue /\ WellFormed(queue) /\ queue.size \in Nat /\ Len(queue.chunks) \in Nat
      /\ slabs \in Nat
  BY <1>0, Shared, Zenon DEF Counts
<1>5. /\ q \in Queue /\ WellFormed(q) /\ queue.size - q.size \in 1..toDrop
      /\ Len(q.chunks) \in 0..Len(queue.chunks)
  BY <1>3, <1>4, ConsumedKeeps, Zenon
<1> HIDE DEF q
<1>6. queue' = q /\ slabs' \in Nat /\ others' = others /\ SlabsConserved'
  <2>1. Len(q.chunks) <= Len(queue.chunks) + slabs
    BY <1>4, <1>5
  <2> QED BY <2>1, <1>0, <1>2, <1>5, SlabsChangeHands, Zenon
<1>7. q.size \in Nat
  BY <1>5 DEF Queue
<1>8. /\ toDrop' \in Nat /\ toDrop' = toDrop - (queue.size - q.size)
      /\ toDrop' <= q.size /\ q.size <= before
  BY <1>2, <1>3, <1>4, <1>5, <1>6, <1>7, SMTT(30)
<1>9. TypeOK'
  BY <1>0, <1>1, <1>5, <1>6, <1>8, ZenonT(30) DEF TypeOK
<1>10. BytesConserved'
  <2>1. Dropped = before - queue.size /\ Dropped' = before - q.size
    BY <1>1, <1>2, <1>6 DEF Dropped
  <2>2. queue'.size = q.size
    BY <1>6
  <2> QED BY <1>0, <1>1, <1>7, <2>1, <2>2 DEF BytesConserved, Counts
<1>11. PlaceInv'
  <2>1. queue'.size - toDrop' = queue.size - toDrop /\ queue'.size <= queue.size
    BY <1>3, <1>4, <1>5, <1>6, <1>7, <1>8
  <2>2. queue'.size \in Nat /\ remaining \in Nat /\ cap \in Nat
    BY <1>0, <1>6, <1>7, Zenon DEF Counts
  <2> QED BY <1>0, <1>1, <1>2, <1>4, <1>6, <1>8, <2>1, <2>2 DEF PlaceInv, DropPoints
<1>12. EpisodeInv'
  BY <1>0, <1>1, Zenon DEF EpisodeInv
<1> QED BY <1>6, <1>9, <1>10, <1>11, <1>12 DEF SendInv

\* Consume has returned: all that was to be dropped is gone.
LEMMA NothingLeftToDrop ==
  ASSUME TypeOK, SlabsConserved, PlaceInv, DropReturns, pc \in DropPoints
  PROVE  toDrop = 0 /\ Dropped = before - queue.size /\ Dropped \in Nat
<1>1. toDrop \in Nat /\ before \in Nat /\ queue.size \in Nat /\ (queue.chunks = <<>> => queue.size = 0)
  BY Shared, Zenon DEF Counts
<1>2. toDrop <= queue.size /\ queue.size <= before
  BY DEF PlaceInv
<1>3. toDrop = 0
  BY <1>1, <1>2 DEF DropReturns
<1> QED BY <1>1, <1>2, <1>3 DEF Dropped

\* SendBuffer::Append has made room below the cap.
LEMMA ExcessStep ==
  ASSUME SendInv, ExcessDropped
  PROVE  SendInv'
<1> USE DEF pool, append, drop, episode, counters, session
<1>0. TypeOK /\ SlabsConserved /\ BytesConserved /\ PlaceInv /\ EpisodeInv /\ Counts
  BY Shared, Zenon DEF SendInv
<1>1. /\ ring' = ring /\ queue' = queue /\ cap' = cap /\ slabs' = slabs /\ others' = others
      /\ remaining' = remaining /\ sentThisTick' = sentThisTick /\ phase' = phase
      /\ admitted' = admitted /\ dropping' = dropping /\ poolStarved' = poolStarved
      /\ degraded' = degraded /\ served' = served /\ pushed' = pushed /\ sent' = sent
      /\ bufferDropped' = bufferDropped /\ discarded' = discarded /\ gauge' = gauge
  BY Zenon DEF ExcessDropped
<1>2. /\ pc = "excess" /\ pc' = "store" /\ DropReturns /\ toDrop' = 0 /\ before' = 0
      /\ result' = [result EXCEPT !.dropped = @ + Dropped]
  BY Zenon DEF ExcessDropped, DropReturns
<1>3. toDrop = 0 /\ Dropped = before - queue.size /\ Dropped \in Nat
  BY <1>0, <1>2, NothingLeftToDrop DEF DropPoints
<1>4. /\ result' \in [dropped : Nat, exhausted : BOOLEAN] /\ result'.dropped = result.dropped + Dropped
      /\ result.dropped \in Nat
  BY <1>0, <1>2, <1>3 DEF TypeOK
<1>5. TypeOK'
  BY <1>0, <1>1, <1>2, <1>4 DEF TypeOK
<1>6. SlabsConserved'
  BY <1>0, <1>1, Zenon DEF SlabsConserved
<1>7. BytesConserved'
  <2>1. Dropped' = 0
    BY <1>2 DEF Dropped, DropPoints
  <2> QED BY <1>0, <1>1, <1>3, <1>4, <2>1 DEF BytesConserved, Counts
<1>8. PlaceInv'
  <2>1. queue.size + remaining <= cap /\ remaining > 0
    <3>1. queue.size - toDrop + remaining <= cap /\ remaining > 0
      BY <1>0, <1>2, Zenon DEF PlaceInv
    <3> QED BY <3>1, <1>0, <1>3 DEF Counts
  <2> QED BY <1>0, <1>1, <1>2, <2>1 DEF PlaceInv, DropPoints
<1>9. EpisodeInv'
  BY <1>0, <1>1, Zenon DEF EpisodeInv
<1> QED BY <1>5, <1>6, <1>7, <1>8, <1>9 DEF SendInv

\* A turn of SlabQueue::Append's loop.
LEMMA StoreStep ==
  ASSUME SendInv, Store
  PROVE  SendInv'
<1> USE DEF pool, append, drop, episode, counters, session
<1> DEFINE q == Appended(queue, remaining)
<1>0. TypeOK /\ SlabsConserved /\ BytesConserved /\ PlaceInv /\ EpisodeInv /\ Counts
  BY Shared, Zenon DEF SendInv
<1>1. /\ ring' = ring /\ cap' = cap /\ result' = result /\ toDrop' = toDrop /\ before' = before
      /\ sentThisTick' = sentThisTick /\ phase' = phase
      /\ admitted' = admitted /\ dropping' = dropping /\ poolStarved' = poolStarved
      /\ degraded' = degraded /\ served' = served /\ pushed' = pushed /\ sent' = sent
      /\ bufferDropped' = bufferDropped /\ discarded' = discarded /\ gauge' = gauge
  BY Zenon DEF Store
<1>2. /\ pc = "store" /\ (NeedsChunk(queue) => slabs > 0) /\ SetQueue(q)
      /\ remaining' = remaining - (queue'.size - queue.size)
      /\ pc' = IF remaining' = 0 THEN "appended" ELSE "store"
  BY Zenon DEF Store
<1>3. remaining \in Nat \ {0} /\ remaining <= DrainChunk /\ queue.size + remaining <= cap
  <2>1. remaining > 0 /\ queue.size + remaining <= cap
    BY <1>0, <1>2, Zenon DEF PlaceInv
  <2> QED BY <2>1, <1>0 DEF Counts
<1>4. /\ queue \in Queue /\ WellFormed(queue) /\ queue.size \in Nat /\ Len(queue.chunks) \in Nat
      /\ slabs \in Nat /\ cap \in Nat /\ DrainChunk \in Nat
  BY <1>0, Shared, Zenon DEF Counts
<1>5. /\ q \in Queue /\ WellFormed(q) /\ q.size - queue.size \in 1..remaining
      /\ Len(q.chunks) = Len(queue.chunks) + (IF NeedsChunk(queue) THEN 1 ELSE 0)
  BY <1>3, <1>4, AppendedKeeps, Zenon
<1> HIDE DEF q
<1>6. queue' = q /\ slabs' \in Nat /\ others' = others /\ SlabsConserved'
  <2>1. Len(q.chunks) <= Len(queue.chunks) + slabs
    BY <1>2, <1>4, <1>5
  <2> QED BY <2>1, <1>0, <1>2, <1>5, SlabsChangeHands, Zenon
<1>7. q.size \in Nat
  BY <1>5 DEF Queue
<1>8. /\ remaining' \in 0..DrainChunk /\ remaining' + q.size = remaining + queue.size
      /\ remaining' \in Nat
  BY <1>2, <1>3, <1>4, <1>5, <1>6, <1>7
<1>9. TypeOK'
  <2>1. pc' \in {"idle", "pop", "store", "appended", "flush"} \union DropPoints
    BY <1>2
  <2> QED BY <1>0, <1>1, <1>5, <1>6, <1>8, <2>1, Zenon DEF TypeOK
<1>10. BytesConserved'
  <2>1. Dropped = 0 /\ Dropped' = 0
    BY <1>2 DEF Dropped, DropPoints
  <2>2. queue'.size = q.size
    BY <1>6
  <2> QED BY <1>0, <1>1, <1>7, <1>8, <2>1, <2>2 DEF BytesConserved, Counts
<1>11. PlaceInv'
  BY <1>0, <1>1, <1>2, <1>3, <1>4, <1>6, <1>7, <1>8 DEF PlaceInv, DropPoints
<1>12. EpisodeInv'
  BY <1>0, <1>1, Zenon DEF EpisodeInv
<1> QED BY <1>6, <1>9, <1>10, <1>11, <1>12 DEF SendInv

\* The pool is exhausted in the middle of an append.
LEMMA RoomStep ==
  ASSUME SendInv, MakeRoom
  PROVE  SendInv'
<1> USE DEF pool, append, drop, episode, counters, session
<1>0. TypeOK /\ SlabsConserved /\ BytesConserved /\ PlaceInv /\ EpisodeInv /\ Counts
  BY Shared, Zenon DEF SendInv
<1>1. /\ ring' = ring /\ queue' = queue /\ cap' = cap /\ slabs' = slabs /\ others' = others
      /\ remaining' = remaining /\ sentThisTick' = sentThisTick /\ phase' = phase
      /\ admitted' = admitted /\ dropping' = dropping /\ poolStarved' = poolStarved
      /\ degraded' = degraded /\ served' = served /\ pushed' = pushed /\ sent' = sent
      /\ bufferDropped' = bufferDropped /\ discarded' = discarded /\ gauge' = gauge
  BY Zenon DEF MakeRoom
<1>2. /\ pc = "store" /\ pc' = "reclaim" /\ result' = [result EXCEPT !.exhausted = TRUE]
      /\ toDrop' = Min({remaining, queue.size}) /\ before' = queue.size
  BY Zenon DEF MakeRoom, DropOldest
<1>3. /\ remaining \in Nat /\ queue.size \in Nat /\ remaining > 0 /\ queue.size + remaining <= cap
  <2>1. remaining > 0 /\ queue.size + remaining <= cap
    BY <1>0, <1>2, Zenon DEF PlaceInv
  <2> QED BY <2>1, <1>0, Zenon DEF Counts
<1>4. toDrop' \in Nat /\ toDrop' <= queue.size
  <2>1. toDrop' = IF remaining <= queue.size THEN remaining ELSE queue.size
    BY <1>2, <1>3, MinOfTwo
  <2> QED BY <2>1, <1>3
<1>5. result' \in [dropped : Nat, exhausted : BOOLEAN] /\ result'.dropped = result.dropped
  BY <1>0, <1>2, Zenon DEF TypeOK
<1>6. TypeOK'
  <2>1. pc' \in {"idle", "pop", "store", "appended", "flush"} \union DropPoints
    BY <1>2 DEF DropPoints
  <2> QED BY <1>0, <1>1, <1>2, <1>3, <1>4, <1>5, <2>1, Zenon DEF TypeOK
<1>7. SlabsConserved'
  BY <1>0, <1>1, Zenon DEF SlabsConserved
<1>8. BytesConserved'
  <2>1. Dropped = 0 /\ Dropped' = 0
    BY <1>1, <1>2, <1>3 DEF Dropped, DropPoints
  <2> QED BY <1>0, <1>1, <1>5, <2>1 DEF BytesConserved
<1>9. PlaceInv'
  BY <1>0, <1>1, <1>2, <1>3, <1>4 DEF PlaceInv, DropPoints
<1>10. EpisodeInv'
  BY <1>0, <1>1, Zenon DEF EpisodeInv
<1> QED BY <1>6, <1>7, <1>8, <1>9, <1>10 DEF SendInv

\* The retry, or the end of the attempts.
LEMMA ReclaimStep ==
  ASSUME SendInv, Reclaimed
  PROVE  SendInv'
<1> USE DEF pool, append, drop, episode, counters, session
<1>0. TypeOK /\ SlabsConserved /\ BytesConserved /\ PlaceInv /\ EpisodeInv /\ Counts
  BY Shared, Zenon DEF SendInv
<1>1. /\ ring' = ring /\ queue' = queue /\ cap' = cap /\ slabs' = slabs /\ others' = others
      /\ sentThisTick' = sentThisTick /\ phase' = phase
      /\ admitted' = admitted /\ dropping' = dropping /\ poolStarved' = poolStarved
      /\ degraded' = degraded /\ served' = served /\ pushed' = pushed /\ sent' = sent
      /\ bufferDropped' = bufferDropped /\ discarded' = discarded /\ gauge' = gauge
  BY Zenon DEF Reclaimed
<1>2. /\ pc = "reclaim" /\ DropReturns /\ toDrop' = 0 /\ before' = 0
      /\ pc' = IF Dropped = 0 THEN "appended" ELSE "store"
      /\ result' = [result EXCEPT !.dropped = @ + Lost(Dropped)]
      /\ remaining' = IF Dropped = 0 THEN 0 ELSE remaining
  BY Zenon DEF Reclaimed, DropReturns
<1>3. toDrop = 0 /\ Dropped = before - queue.size /\ Dropped \in Nat
  BY <1>0, <1>2, NothingLeftToDrop DEF DropPoints
<1>4. remaining \in 0..DrainChunk /\ DrainChunk \in Nat /\ remaining > 0 /\ queue.size \in Nat
      /\ queue.size + remaining <= cap /\ cap \in Nat
  <2>1. remaining > 0 /\ queue.size + remaining <= cap
    BY <1>0, <1>2, Zenon DEF PlaceInv
  <2> QED BY <2>1, <1>0 DEF Counts
<1>5. Lost(Dropped) = IF Dropped = 0 THEN remaining ELSE Dropped
  BY DEF Lost
<1>6. /\ result' \in [dropped : Nat, exhausted : BOOLEAN]
      /\ result'.dropped = result.dropped + Lost(Dropped) /\ result.dropped \in Nat
  BY <1>0, <1>2, <1>3, <1>4, <1>5 DEF TypeOK
<1>7. TypeOK'
  <2>1. /\ pc' \in {"idle", "pop", "store", "appended", "flush"} \union DropPoints
        /\ remaining' \in 0..DrainChunk /\ toDrop' \in Nat /\ before' \in Nat
    BY <1>2, <1>4
  <2> QED BY <1>0, <1>1, <1>6, <2>1, Zenon DEF TypeOK
<1>8. SlabsConserved'
  BY <1>0, <1>1, Zenon DEF SlabsConserved
<1>9. BytesConserved'
  <2>1. Dropped' = 0
    BY <1>2 DEF Dropped, DropPoints
  <2>2. remaining' + result'.dropped = remaining + Dropped + result.dropped
    BY <1>2, <1>3, <1>4, <1>5, <1>6
  <2>3. remaining' \in Int /\ result'.dropped \in Int
    BY <1>2, <1>4, <1>6
  <2> DEFINE elsewhere == queue.size + sent + bufferDropped + discarded
  <2>4. /\ pushed = ring + (remaining + Dropped + result.dropped) + elsewhere
        /\ ring \in Int /\ elsewhere \in Int
    BY <1>0, <1>3 DEF BytesConserved, Counts
  <2>5. elsewhere' = elsewhere /\ pushed' = pushed /\ ring' = ring
    BY <1>1, Zenon
  <2> HIDE DEF elsewhere
  <2>6. pushed' = ring' + remaining' + 0 + result'.dropped + elsewhere'
    BY <2>2, <2>3, <2>4, <2>5
  <2>7. /\ queue'.size \in Int /\ sent' \in Int /\ bufferDropped' \in Int /\ discarded' \in Int
        /\ ring' \in Int
    BY <1>0, <1>1 DEF Counts
  <2> QED BY <2>1, <2>3, <2>6, <2>7 DEF BytesConserved, elsewhere
<1>10. PlaceInv'
  BY <1>0, <1>1, <1>2, <1>4 DEF PlaceInv, DropPoints
<1>11. EpisodeInv'
  BY <1>0, <1>1, Zenon DEF EpisodeInv
<1> QED BY <1>7, <1>8, <1>9, <1>10, <1>11 DEF SendInv

\* The cap is cut to the emergency cap.
LEMMA DegradeStep ==
  ASSUME SendInv, Degrade
  PROVE  SendInv'
<1> USE DEF pool, append, drop, episode, counters, session
<1>0. TypeOK /\ SlabsConserved /\ BytesConserved /\ PlaceInv /\ EpisodeInv /\ Counts
  BY Shared, Zenon DEF SendInv
<1>1. /\ ring' = ring /\ queue' = queue /\ slabs' = slabs /\ others' = others
      /\ remaining' = remaining /\ result' = result /\ sentThisTick' = sentThisTick
      /\ phase' = phase /\ admitted' = admitted /\ dropping' = dropping
      /\ pushed' = pushed /\ sent' = sent
      /\ bufferDropped' = bufferDropped /\ discarded' = discarded /\ gauge' = gauge
  BY Zenon DEF Degrade
<1>2. /\ pc = "appended" /\ pc' = "shed" /\ EmergencyCap # 0 /\ cap' = EmergencyCap
      /\ poolStarved' = TRUE /\ degraded' = TRUE /\ served' = FALSE
      /\ toDrop' = Min({Shed, queue.size}) /\ before' = queue.size
  BY Zenon DEF Degrade, Degrades, DropOldest
<1>3. /\ queue.size \in Nat /\ EmergencyCap \in Nat /\ EmergencyCap <= SendCap /\ SendCap \in Nat
      /\ remaining = 0 /\ gauge <= SendCap
  BY <1>0, <1>2, Zenon DEF PlaceInv, Counts
<1>4. Shed = IF queue.size >= EmergencyCap THEN queue.size - EmergencyCap ELSE 0
  <2>1. Shed = IF 0 >= queue.size - EmergencyCap THEN 0 ELSE queue.size - EmergencyCap
    BY <1>3, MaxOfTwo DEF Shed
  <2> QED BY <1>3, <2>1
<1>5. toDrop' \in Nat /\ toDrop' <= queue.size /\ queue.size - toDrop' <= EmergencyCap
  BY <1>2, <1>3, <1>4, MinOfTwo
<1>6. TypeOK'
  <2>1. /\ pc' \in {"idle", "pop", "store", "appended", "flush"} \union DropPoints
        /\ cap' \in {SendCap, EmergencyCap} /\ before' \in Nat
    BY <1>2, <1>3 DEF DropPoints
  <2> QED BY <1>0, <1>1, <1>2, <1>5, <2>1, Zenon DEF TypeOK
<1>7. SlabsConserved'
  BY <1>0, <1>1, Zenon DEF SlabsConserved
<1>8. BytesConserved'
  <2>1. Dropped = 0 /\ Dropped' = 0
    BY <1>1, <1>2, <1>3 DEF Dropped, DropPoints
  <2> QED BY <1>0, <1>1, <2>1 DEF BytesConserved
<1>9. PlaceInv'
  BY <1>1, <1>2, <1>3, <1>5 DEF PlaceInv, DropPoints
<1>10. EpisodeInv'
  BY <1>2 DEF EpisodeInv
<1> QED BY <1>6, <1>7, <1>8, <1>9, <1>10 DEF SendInv

\* An append is accounted for.
LEMMA SettleStep ==
  ASSUME SendInv, Settle
  PROVE  SendInv'
<1> USE DEF pool, append, drop, episode, counters, session
<1>0. TypeOK /\ SlabsConserved /\ BytesConserved /\ PlaceInv /\ EpisodeInv /\ Counts
  BY Shared, Zenon DEF SendInv
<1>1. /\ ring' = ring /\ queue' = queue /\ cap' = cap /\ slabs' = slabs /\ others' = others
      /\ remaining' = remaining /\ sentThisTick' = sentThisTick
      /\ phase' = phase /\ admitted' = admitted /\ degraded' = degraded
      /\ pushed' = pushed /\ sent' = sent /\ discarded' = discarded
  BY Zenon DEF Settle
<1>2. /\ pc \in {"shed", "appended"} /\ pc' = "pop" /\ DropReturns /\ toDrop' = 0 /\ before' = 0
      /\ poolStarved' = result.exhausted /\ served' = (served \/ ~result.exhausted)
      /\ bufferDropped' = bufferDropped + Dropped + result.dropped
      /\ gauge' = queue.size /\ dropping' = (result.dropped > 0) /\ result' = NoResult
  BY DEF Settle, DropReturns
<1>3. Dropped \in Nat /\ queue.size <= cap /\ remaining = 0
  <2>1. CASE pc = "shed"
    <3>1. pc \in DropPoints
      BY <2>1 DEF DropPoints
    <3>2. toDrop = 0 /\ Dropped \in Nat
      BY <1>0, <1>2, <3>1, NothingLeftToDrop
    <3>3. queue.size - toDrop <= cap /\ remaining = 0
      BY <1>0, <2>1, Zenon DEF PlaceInv
    <3> QED BY <1>0, <3>2, <3>3 DEF Counts
  <2>2. CASE pc = "appended"
    BY <2>2, <1>0 DEF PlaceInv, Dropped, DropPoints
  <2> QED BY <1>2, <2>1, <2>2
<1>4. /\ queue.size \in Nat /\ cap \in Nat /\ cap <= SendCap /\ SendCap \in Nat
      /\ result.dropped \in Nat /\ result.exhausted \in BOOLEAN /\ bufferDropped \in Nat
  <2>1. result.exhausted \in BOOLEAN
    BY <1>0 DEF TypeOK
  <2> QED BY <2>1, <1>0, Zenon DEF Counts
<1>5. bufferDropped' \in Nat /\ gauge' \in Nat /\ gauge' <= SendCap
  BY <1>2, <1>3, <1>4
<1>6. TypeOK'
  <2>1. /\ pc' \in {"idle", "pop", "store", "appended", "flush"} \union DropPoints
        /\ toDrop' \in Nat /\ before' \in Nat /\ poolStarved' \in BOOLEAN
        /\ dropping' \in BOOLEAN /\ result' \in [dropped : Nat, exhausted : BOOLEAN]
    BY <1>2, <1>4 DEF NoResult
  <2>2. served' \in BOOLEAN
    BY <1>2, Zenon
  <2> QED BY <1>0, <1>1, <1>5, <2>1, <2>2, Zenon DEF TypeOK
<1>7. SlabsConserved'
  BY <1>0, <1>1, Zenon DEF SlabsConserved
<1>8. BytesConserved'
  <2>1. Dropped' = 0 /\ result'.dropped = 0
    BY <1>2 DEF Dropped, DropPoints, NoResult
  <2> QED BY <1>0, <1>1, <1>2, <1>3, <2>1 DEF BytesConserved, Counts
<1>9. PlaceInv'
  <2>1. cap > 0
    BY <1>0 DEF PlaceInv
  <2> QED BY <1>1, <1>2, <1>3, <1>4, <1>5, <2>1 DEF PlaceInv, DropPoints
<1>10. EpisodeInv'
  <2>1. CASE result.exhausted
    BY <2>1, <1>0, <1>1, <1>2, Zenon DEF EpisodeInv
  <2>2. CASE ~result.exhausted
    BY <2>2, <1>2, Zenon DEF EpisodeInv
  <2> QED BY <2>1, <2>2
<1> QED BY <1>6, <1>7, <1>8, <1>9, <1>10 DEF SendInv

\* The socket takes the head of the buffer.
LEMMA FlushStep ==
  ASSUME SendInv, FlushChunk
  PROVE  SendInv'
<1> USE DEF pool, append, drop, episode, counters, session
<1> DEFINE n == Peek(queue, CoalesceMax - sentThisTick)
           q == Consumed(queue, n)
<1>0. TypeOK /\ SlabsConserved /\ BytesConserved /\ PlaceInv /\ EpisodeInv /\ Counts
  BY Shared, Zenon DEF SendInv
<1>1. /\ ring' = ring /\ cap' = cap /\ pc' = pc /\ remaining' = remaining /\ result' = result
      /\ toDrop' = toDrop /\ before' = before /\ phase' = phase
      /\ admitted' = admitted /\ dropping' = dropping /\ poolStarved' = poolStarved
      /\ degraded' = degraded /\ served' = served /\ pushed' = pushed
      /\ bufferDropped' = bufferDropped /\ discarded' = discarded /\ gauge' = gauge
  BY Zenon DEF FlushChunk
<1>2. /\ pc = "flush" /\ queue.size > 0 /\ sentThisTick < CoalesceMax /\ n > 0
      /\ SetQueue(q) /\ sentThisTick' = sentThisTick + n /\ sent' = sent + n
  BY Zenon DEF FlushChunk
<1>3. /\ queue \in Queue /\ WellFormed(queue) /\ queue.size \in Nat /\ Len(queue.chunks) \in Nat
      /\ slabs \in Nat /\ CoalesceMax \in Nat /\ sentThisTick \in Nat /\ sent \in Nat
  BY <1>0, Shared, Zenon DEF Counts
<1> DEFINE h == ChunkSize(queue.chunks[1])
<1>4. queue.chunks # <<>> /\ Head(queue.chunks) = queue.chunks[1] /\ h \in Nat /\ h <= queue.size
  BY <1>2, <1>3, HeadHasBytes, HeadWithinSize
<1>5. n = Min({h, CoalesceMax - sentThisTick})
  BY <1>4 DEF Peek
<1> HIDE DEF n, h
<1>6. n \in Nat \ {0} /\ n <= h /\ n <= CoalesceMax - sentThisTick /\ n <= queue.size
  BY <1>2, <1>3, <1>4, <1>5, MinOfTwo
<1>7. /\ q \in Queue /\ WellFormed(q) /\ Len(q.chunks) \in 0..Len(queue.chunks)
      /\ queue.size - q.size = Min({h, n})
  BY <1>3, <1>4, <1>6, ConsumedKeeps, Zenon DEF h
<1> HIDE DEF q
<1>8. q.size \in Nat /\ q.size = queue.size - n
  <2>1. Min({h, n}) = n
    BY <1>4, <1>6, MinOfTwo
  <2> QED BY <1>3, <1>6, <1>7, <2>1 DEF Queue
<1>9. queue' = q /\ slabs' \in Nat /\ others' = others /\ SlabsConserved'
  <2>1. Len(q.chunks) <= Len(queue.chunks) + slabs
    BY <1>3, <1>7
  <2> QED BY <2>1, <1>0, <1>2, <1>7, SlabsChangeHands, Zenon
<1>10. sentThisTick' \in 0..CoalesceMax /\ sent' \in Nat
  BY <1>2, <1>3, <1>6
<1>11. TypeOK'
  BY <1>0, <1>1, <1>7, <1>9, <1>10, ZenonT(30) DEF TypeOK
<1>12. BytesConserved'
  <2>1. Dropped = 0 /\ Dropped' = 0
    BY <1>1, <1>2 DEF Dropped, DropPoints
  <2>2. queue'.size = queue.size - n /\ sent' = sent + n
    BY <1>2, <1>8, <1>9
  <2> QED BY <1>0, <1>1, <1>6, <2>1, <2>2 DEF BytesConserved, Counts
<1>13. PlaceInv'
  <2>1. queue'.size <= queue.size /\ queue'.size \in Nat /\ cap \in Nat /\ gauge \in Nat
    BY <1>0, <1>3, <1>6, <1>8, <1>9 DEF Counts
  <2> QED BY <1>0, <1>1, <1>2, <1>3, <2>1 DEF PlaceInv, DropPoints
<1>14. EpisodeInv'
  BY <1>0, <1>1, Zenon DEF EpisodeInv
<1> QED BY <1>9, <1>11, <1>12, <1>13, <1>14 DEF SendInv

\* The flush ends; an active session that has recovered gets its cap back.
LEMMA PumpEndsStep ==
  ASSUME SendInv, PumpEnds
  PROVE  SendInv'
<1> USE DEF pool, append, drop, episode, counters, session
<1>0. TypeOK /\ SlabsConserved /\ BytesConserved /\ PlaceInv /\ EpisodeInv /\ Counts
  BY Shared, Zenon DEF SendInv
<1>1. /\ ring' = ring /\ queue' = queue /\ slabs' = slabs /\ others' = others
      /\ remaining' = remaining /\ result' = result /\ toDrop' = toDrop /\ before' = before
      /\ phase' = phase /\ admitted' = admitted /\ dropping' = dropping
      /\ poolStarved' = poolStarved /\ served' = served /\ pushed' = pushed /\ sent' = sent
      /\ bufferDropped' = bufferDropped /\ discarded' = discarded
  BY Zenon DEF PumpEnds
<1>2. pc = "flush" /\ pc' = "idle" /\ sentThisTick' = 0 /\ gauge' \in GaugeAfterFlush
  BY Zenon DEF PumpEnds
<1>3. PICK active \in {FALSE, phase = "open"} :
        /\ cap' = IF active /\ Recovered THEN SendCap ELSE cap
        /\ degraded' = (degraded /\ ~(active /\ Recovered))
  BY Zenon DEF PumpEnds
<1>4. /\ queue.size \in Nat /\ cap \in Nat /\ cap <= SendCap /\ SendCap \in Nat /\ SendCap > 0
      /\ gauge \in Nat /\ CoalesceMax \in Nat /\ EmergencyCap \in Nat
      /\ queue.size <= cap /\ queue.size <= gauge /\ gauge <= SendCap /\ cap > 0
  BY <1>0, <1>2, Zenon DEF Counts, PlaceInv
<1>5. gauge' \in {gauge, queue.size}
  BY <1>2 DEF GaugeAfterFlush
<1>6. cap' \in {SendCap, EmergencyCap} /\ cap' \in Nat /\ cap <= cap' /\ cap' > 0
  BY <1>0, <1>3, <1>4 DEF TypeOK
<1>7. TypeOK'
  <2>1. /\ pc' \in {"idle", "pop", "store", "appended", "flush"} \union DropPoints
        /\ sentThisTick' \in 0..CoalesceMax /\ gauge' \in Nat
    BY <1>2, <1>4, <1>5
  <2>2. degraded' \in BOOLEAN
    BY <1>3, Zenon
  <2> QED BY <1>0, <1>1, <1>6, <2>1, <2>2, Zenon DEF TypeOK
<1>8. SlabsConserved'
  BY <1>0, <1>1, Zenon DEF SlabsConserved
<1>9. BytesConserved'
  <2>1. Dropped = 0 /\ Dropped' = 0
    BY <1>2 DEF Dropped, DropPoints
  <2> QED BY <1>0, <1>1, <2>1 DEF BytesConserved
<1>10. PlaceInv'
  <2>1. remaining = 0 /\ result = NoResult
    BY <1>0, <1>2 DEF PlaceInv
  <2> QED BY <1>1, <1>2, <1>4, <1>5, <1>6, <2>1 DEF PlaceInv, DropPoints
<1>11. EpisodeInv'
  <2>1. CASE active /\ Recovered
    <3>1. ~poolStarved
      BY <2>1, Zenon DEF Recovered
    <3> QED BY <3>1, <1>0, <1>1, Zenon DEF EpisodeInv
  <2>2. CASE ~(active /\ Recovered)
    <3>1. degraded => degraded'
      BY <2>2, <1>3, Zenon
    <3> QED BY <3>1, <1>0, <1>1, Zenon DEF EpisodeInv
  <2> QED BY <2>1, <2>2, Zenon
<1> QED BY <1>7, <1>8, <1>9, <1>10, <1>11 DEF SendInv

\* Finalize returns every slab and counts what it threw away.
LEMMA FinalizeStep ==
  ASSUME SendInv, Finalize
  PROVE  SendInv'
<1> USE DEF pool, append, drop, episode, counters, session
<1>0. TypeOK /\ SlabsConserved /\ BytesConserved /\ PlaceInv /\ EpisodeInv /\ Counts
  BY Shared, Zenon DEF SendInv
<1>1. /\ ring' = ring /\ cap' = cap /\ pc' = pc /\ remaining' = remaining /\ result' = result
      /\ toDrop' = toDrop /\ before' = before /\ sentThisTick' = sentThisTick
      /\ admitted' = admitted /\ dropping' = dropping /\ poolStarved' = poolStarved
      /\ degraded' = degraded /\ served' = served /\ pushed' = pushed /\ sent' = sent
      /\ bufferDropped' = bufferDropped /\ gauge' = gauge
  BY Zenon DEF Finalize
<1>2. /\ pc = "idle" /\ phase' = "dead" /\ SetQueue(EmptyQueue)
      /\ discarded' = discarded + queue.size
  BY Zenon DEF Finalize
<1>3. /\ EmptyQueue \in Queue /\ WellFormed(EmptyQueue)
      /\ EmptyQueue.size = 0 /\ Len(EmptyQueue.chunks) = 0
  BY EmptyQueueFits, Zenon
<1>4. queue.size \in Nat /\ Len(queue.chunks) \in Nat /\ slabs \in Nat /\ discarded \in Nat
      /\ cap \in Nat /\ gauge \in Nat
  BY <1>0, Shared, Zenon DEF Counts
<1>5. queue' = EmptyQueue /\ slabs' \in Nat /\ others' = others /\ SlabsConserved'
  <2>1. Len(EmptyQueue.chunks) <= Len(queue.chunks) + slabs
    BY <1>3, <1>4
  <2> QED BY <2>1, <1>0, <1>2, <1>3, SlabsChangeHands, Zenon
<1>6. TypeOK'
  <2>1. phase' \in {"open", "draining", "dead"} /\ discarded' \in Nat
    BY <1>2, <1>4
  <2> QED BY <1>0, <1>1, <1>3, <1>5, <2>1, Zenon DEF TypeOK
<1>7. BytesConserved'
  <2>1. Dropped = 0 /\ Dropped' = 0
    BY <1>1, <1>2 DEF Dropped, DropPoints
  <2>2. queue'.size = 0
    BY <1>3, <1>5
  <2> QED BY <1>0, <1>1, <1>2, <2>1, <2>2 DEF BytesConserved, Counts
<1>8. PlaceInv'
  <2>1. queue'.size = 0
    BY <1>3, <1>5
  <2> QED BY <1>0, <1>1, <1>2, <1>4, <2>1 DEF PlaceInv, DropPoints
<1>9. EpisodeInv'
  BY <1>0, <1>1, Zenon DEF EpisodeInv
<1> QED BY <1>5, <1>6, <1>7, <1>8, <1>9 DEF SendInv

\* Init establishes the invariant.
LEMMA InitSend == Init => SendInv
<1> SUFFICES ASSUME Init PROVE SendInv
  OBVIOUS
<1>1. /\ EmptyQueue \in Queue /\ WellFormed(EmptyQueue)
      /\ EmptyQueue.size = 0 /\ Len(EmptyQueue.chunks) = 0
  BY EmptyQueueFits, Zenon
<1>2. /\ SendCap \in Nat \ {0} /\ RingBytes \in Nat /\ DrainChunk \in Nat /\ CoalesceMax \in Nat
      /\ PoolSlabs \in Nat
  BY CapsAssumption
<1>3. TypeOK
  <2>1. NoResult \in [dropped : Nat, exhausted : BOOLEAN]
    BY DEF NoResult
  <2>2. 0 \in 0..RingBytes /\ 0 \in 0..DrainChunk /\ 0 \in 0..CoalesceMax /\ 0 \in Nat
    BY <1>2
  <2> QED BY <2>1, <2>2, <1>1, <1>2, Zenon DEF Init, TypeOK
<1>4. SlabsConserved
  BY <1>1, <1>2 DEF Init, SlabsConserved
<1>5. BytesConserved
  BY <1>1 DEF Init, BytesConserved, Dropped, DropPoints, NoResult
<1>6. PlaceInv
  BY <1>1, <1>2 DEF Init, PlaceInv, DropPoints
<1>7. EpisodeInv
  BY DEF Init, EpisodeInv
<1> QED BY <1>3, <1>4, <1>5, <1>6, <1>7 DEF SendInv

\* Every step keeps the invariant.
LEMMA NextSend == SendInv /\ [Next]_vars => SendInv'
<1> SUFFICES ASSUME SendInv, [Next]_vars PROVE SendInv'
  OBVIOUS
<1>1. CASE AdmitAudio \/ PushAudio \/ OthersAcquire \/ OthersRelease \/ UNCHANGED vars
  BY <1>1, ElsewhereStep
<1>2. CASE PumpBegins \/ BeginDrain
  BY <1>2, IdleStep
<1>3. CASE PumpStep
  BY <1>3, IdleStep, PopStep, DropStep, ExcessStep, StoreStep, RoomStep, ReclaimStep,
     DegradeStep, SettleStep, FlushStep, PumpEndsStep, Zenon DEF PumpStep
<1>4. CASE Finalize
  BY <1>4, FinalizeStep
<1> QED BY <1>1, <1>2, <1>3, <1>4, Zenon DEF Next

\* The invariant of the send path, for every pool, ring, cap and slab size.
THEOREM SendInvariant == Spec => []SendInv
  BY InitSend, NextSend, PTL DEF Spec

\* Every byte PushAudio handed over is in the ring, in Append, in DropOldest, in
\* the buffer, sent, or counted as dropped, in the middle of an append as well.
THEOREM NoByteIsLost == Spec => []BytesConserved
<1>1. SendInv => BytesConserved
  BY DEF SendInv
<1> QED BY <1>1, SendInvariant, PTL

\* Append, DropOldest, the flush and Finalize lose no slab to the pool's other
\* users and strand none without bytes, and Peek and Consume always get on.
THEOREM NoSlabIsLost == Spec => []SlabsConserved
<1>1. SendInv => SlabsConserved
  BY DEF SendInv
<1> QED BY <1>1, SendInvariant, PTL

\* The buffer keeps to the cap in force between appends, and buffered_bytes_
\* never shows less than is buffered.
THEOREM GaugeIsHonest == Spec => []GaugeCoversBuffer
<1>1. SendInv => GaugeCoversBuffer
  BY DEF SendInv, PlaceInv, GaugeCoversBuffer
<1> QED BY <1>1, SendInvariant, PTL

\* A second `degraded' is only emitted after the pool has served an append.
THEOREM DegradedIsNotRepeated == Spec => DegradedOncePerEpisode
<1>1. SendInv /\ [Next]_vars => [~degraded /\ degraded' => served]_vars
  BY Zenon DEF SendInv, EpisodeInv
<1> QED BY <1>1, SendInvariant, PTL DEF Spec, DegradedOncePerEpisode
=============================================================================
