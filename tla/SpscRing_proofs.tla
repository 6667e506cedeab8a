--------------------------- MODULE SpscRing_proofs ---------------------------
(***************************************************************************)
(* Machine-checked proof that the lock-free ring is a FIFO, for every      *)
(* capacity, every width of the indices that is a multiple of it, every    *)
(* frame size and every alphabet.                                          *)
(***************************************************************************)
EXTENDS SpscRing, SequenceTheorems, TLAPS

-----------------------------------------------------------------------------
(* Arithmetic of wrapping indices.                                         *)

\* What a remainder is.
LEMMA Division ==
  ASSUME NEW a \in Int, NEW m \in Int, m > 0
  PROVE  /\ (a % m) \in Nat /\ (a % m) < m
         /\ (a \div m) \in Int /\ a = m * (a \div m) + (a % m)
  BY SMT

\* It is the only one.
LEMMA Remainder ==
  ASSUME NEW a \in Int, NEW m \in Int, m > 0, NEW q \in Int, NEW r \in Nat, r < m,
         a = m * q + r
  PROVE  a % m = r
<1> DEFINE p == a \div m
           s == a % m
<1>1. p \in Int /\ s \in Nat /\ s < m /\ a = m * p + s
  BY Division
<1> HIDE DEF p, s
<1>2. q < p => m * q + m <= m * p
  BY <1>1, SMT
<1>3. p < q => m * p + m <= m * q
  BY <1>1, SMT
<1>4. p = q
  <2>1. m * q \in Int /\ m * p \in Int
    BY <1>1, SMT
  <2> QED BY <1>1, <1>2, <1>3, <2>1, SMT
<1> QED BY <1>1, <1>4, SMT DEF s

\* Whole turns do not change the place.
LEMMA Turns ==
  ASSUME NEW a \in Int, NEW m \in Int, m > 0, NEW k \in Int
  PROVE  (a + m * k) % m = a % m
<1> DEFINE p == a \div m
           r == a % m
<1>1. p \in Int /\ r \in Nat /\ r < m /\ a = m * p + r
  BY Division
<1> HIDE DEF p, r
<1>2. a + m * k = m * (p + k) + r
  BY <1>1, SMT
<1>3. a + m * k \in Int /\ p + k \in Int
  BY <1>1, SMT
<1>4. (a + m * k) % m = r
  BY <1>1, <1>2, <1>3, Remainder
<1> QED BY <1>4 DEF r

\* Two places less than a turn apart are different ones.
LEMMA Apart ==
  ASSUME NEW a \in Int, NEW b \in Int, NEW m \in Int, m > 0, a < b, b < a + m
  PROVE  a % m # b % m
<1> SUFFICES ASSUME a % m = b % m PROVE FALSE
  OBVIOUS
<1> DEFINE p == a \div m
           q == b \div m
           r == a % m
<1>1. /\ p \in Int /\ q \in Int /\ r \in Nat
      /\ a = m * p + r /\ b = m * q + r
  BY Division
<1> HIDE DEF p, q, r
<1>2. q <= p => m * q <= m * p
  BY <1>1, SMT
<1>3. p + 1 <= q => m * p + m <= m * q
  BY <1>1, SMT
<1>4. m * q \in Int /\ m * p \in Int
  BY <1>1, SMT
<1> QED BY <1>1, <1>2, <1>3, <1>4, SMT

-----------------------------------------------------------------------------
(* The indices of the ring.                                                *)

\* A cell does not change when the index goes round its width any number of
\* times, which is a multiple of the capacity (index & mask_).
LEMMA CellTurns ==
  ASSUME NEW a \in Int, NEW k \in Int
  PROVE  Cell(a + IndexSpan * k) = Cell(a)
<1> DEFINE p == IndexSpan \div Capacity
<1>1. Capacity \in Int /\ Capacity > 0 /\ IndexSpan \in Int /\ IndexSpan % Capacity = 0
  BY SpanAssumption
<1>2. p \in Int /\ IndexSpan = Capacity * p
  BY <1>1, Division, SMT
<1> HIDE DEF p
<1>3. IndexSpan * k = Capacity * (p * k) /\ p * k \in Int
  BY <1>1, <1>2, SMT
<1>4. (a + Capacity * (p * k)) % Capacity = a % Capacity
  BY <1>1, <1>3, Turns, Zenon
<1> QED BY <1>3, <1>4 DEF Cell

\* Storing an index at its width does not change the cells counted from it.
LEMMA CellOfAdvance ==
  ASSUME NEW a \in Int, NEW n \in Int, NEW k \in Int
  PROVE  Cell(Advance(a, n) + k) = Cell(a + n + k)
<1> DEFINE q == (a + n) \div IndexSpan
           r == (a + n) % IndexSpan
<1>1. IndexSpan \in Int /\ IndexSpan > 0
  BY SpanAssumption
<1>2. q \in Int /\ r \in Nat /\ a + n = IndexSpan * q + r
  BY <1>1, Division
<1>3. Advance(a, n) = r
  BY DEF Advance
<1> HIDE DEF q, r
<1>4. a + n + k = (r + k) + IndexSpan * q /\ r + k \in Int
  BY <1>1, <1>2, SMT
<1>5. Cell((r + k) + IndexSpan * q) = Cell(r + k)
  BY <1>2, <1>4, CellTurns
<1> QED BY <1>3, <1>4, <1>5

\* Counting from the producer's index is counting from the end of the bytes the
\* consumer sees.
LEMMA CellOfHead ==
  ASSUME NEW h \in Int, NEW t \in Int, NEW k \in Int
  PROVE  Cell(h + k) = Cell(t + ((h - t) % IndexSpan) + k)
<1> DEFINE q == (h - t) \div IndexSpan
           r == (h - t) % IndexSpan
<1>1. IndexSpan \in Int /\ IndexSpan > 0
  BY SpanAssumption
<1>2. q \in Int /\ r \in Nat /\ h - t = IndexSpan * q + r
  BY <1>1, Division
<1> HIDE DEF q, r
<1>3. h + k = (t + r + k) + IndexSpan * q /\ t + r + k \in Int
  BY <1>1, <1>2, SMT
<1>4. Cell((t + r + k) + IndexSpan * q) = Cell(t + r + k)
  BY <1>2, <1>3, CellTurns
<1> QED BY <1>3, <1>4 DEF r

\* The difference of the indices counts what is pushed and popped, also when one
\* of them has wrapped.
LEMMA Distance ==
  ASSUME NEW h \in Int, NEW t \in Int, NEW n \in Nat
  PROVE  /\ ((h - t) % IndexSpan) + n < IndexSpan
              => (Advance(h, n) - t) % IndexSpan = ((h - t) % IndexSpan) + n
         /\ n <= (h - t) % IndexSpan
              => (h - Advance(t, n)) % IndexSpan = ((h - t) % IndexSpan) - n
<1> DEFINE q == (h - t) \div IndexSpan
           r == (h - t) % IndexSpan
           p == (h + n) \div IndexSpan
           s == (h + n) % IndexSpan
           u == (t + n) \div IndexSpan
           v == (t + n) % IndexSpan
<1>1. IndexSpan \in Int /\ IndexSpan > 0
  BY SpanAssumption
<1>2. q \in Int /\ r \in Nat /\ r < IndexSpan /\ h - t = IndexSpan * q + r
  BY <1>1, Division
<1>3. p \in Int /\ s \in Nat /\ h + n = IndexSpan * p + s
  BY <1>1, Division
<1>4. u \in Int /\ v \in Nat /\ t + n = IndexSpan * u + v
  BY <1>1, Division
<1>5. Advance(h, n) = s /\ Advance(t, n) = v
  BY DEF Advance
<1> HIDE DEF q, r, p, s, u, v
<1>6. s - t = IndexSpan * (q - p) + (r + n) /\ s - t \in Int /\ q - p \in Int
  BY <1>1, <1>2, <1>3, SMT
<1>7. r + n < IndexSpan => (s - t) % IndexSpan = r + n
  <2> SUFFICES ASSUME r + n < IndexSpan PROVE (s - t) % IndexSpan = r + n
    OBVIOUS
  <2>1. r + n \in Nat
    BY <1>2, SMT
  <2> QED BY <1>1, <1>6, <2>1, Remainder, Zenon
<1>8. h - v = IndexSpan * (q + u) + (r - n) /\ h - v \in Int /\ q + u \in Int
  BY <1>1, <1>2, <1>4, SMT
<1>9. n <= r => (h - v) % IndexSpan = r - n
  <2> SUFFICES ASSUME n <= r PROVE (h - v) % IndexSpan = r - n
    OBVIOUS
  <2>1. r - n \in Nat /\ r - n < IndexSpan
    BY <1>1, <1>2, SMT
  <2> QED BY <1>1, <1>8, <2>1, Remainder, Zenon
<1> QED BY <1>5, <1>7, <1>9 DEF r

-----------------------------------------------------------------------------
(* The inductive invariant.                                                *)

\* What is being pushed fits behind what is queued, and the part of it that is
\* written lies there; a Pop in progress has read the oldest bytes, and takes no
\* more than there are.
RingInv ==
  /\ Size + Len(frame) <= Capacity
  /\ \A j \in 1..copied : storage[Cell(head + j - 1)] = frame[j]
  /\ count = -1 => dest = <<>>
  /\ count # -1 => Len(dest) <= count /\ count <= Size
  /\ \A j \in 1..Len(dest) : dest[j] = storage[Cell(tail + j - 1)]

\* A frame is a sequence of bytes.
LEMMA FrameType ==
  ASSUME NEW f \in Frames \cup {<<>>}
  PROVE  f \in Seq(Bytes) /\ Len(f) \in Nat /\ (f \in Frames => f # <<>>)
<1>1. CASE f \in Frames
  <2>1. PICK n \in 1..MaxFrame : f \in [1..n -> Bytes]
    BY <1>1 DEF Frames
  <2>2. n \in Nat /\ n # 0
    BY <2>1, FrameAssumption
  <2>3. f \in Seq(Bytes) /\ Len(f) = n
    BY <2>1, <2>2
  <2> QED BY <2>2, <2>3, EmptySeq
<1>2. CASE f \notin Frames
  BY <1>2, EmptySeq, Zenon
<1> QED BY <1>1, <1>2

\* Every index has a cell.
LEMMA CellType ==
  ASSUME NEW i \in Int
  PROVE  Cell(i) \in 0..(Capacity - 1)
<1>1. Capacity \in Int /\ Capacity > 0
  BY SpanAssumption
<1>2. (i % Capacity) \in Nat /\ (i % Capacity) < Capacity
  BY <1>1, Division
<1> QED BY <1>1, <1>2, SMT DEF Cell

\* What the model's types say of the indices.
LEMMA RingTypes ==
  ASSUME TypeOK
  PROVE  /\ head \in Nat /\ tail \in Nat /\ Capacity \in Nat /\ Capacity # 0
         /\ IndexSpan \in Nat /\ Capacity < IndexSpan
         /\ Size \in Nat
         /\ storage \in [0..(Capacity - 1) -> Bytes]
         /\ frame \in Seq(Bytes) /\ Len(frame) \in Nat
         /\ copied \in Nat /\ copied <= Len(frame)
         /\ dest \in Seq(Bytes) /\ Len(dest) \in Nat
         /\ count \in Int /\ out \in Seq(Bytes)
<1>1. Capacity \in Nat /\ Capacity # 0 /\ IndexSpan \in Nat /\ Capacity < IndexSpan
  BY SpanAssumption
<1>2. head \in Nat /\ tail \in Nat
  BY <1>1 DEF TypeOK
<1>3. Size \in Nat
  BY <1>1, <1>2, Division DEF Size
<1>4. frame \in Seq(Bytes) /\ Len(frame) \in Nat
  BY FrameType DEF TypeOK
<1>5. copied \in Nat /\ copied <= Len(frame)
  BY <1>4 DEF TypeOK
<1>6. dest \in Seq(Bytes) /\ Len(dest) \in Nat /\ out \in Seq(Bytes) /\ count \in Int
  BY <1>1, LenProperties DEF TypeOK
<1>7. storage \in [0..(Capacity - 1) -> Bytes]
  BY DEF TypeOK
<1> QED BY <1>1, <1>2, <1>3, <1>4, <1>5, <1>6, <1>7

\* The bytes between the indices are a sequence of as many bytes as Size says.
LEMMA ContentsType ==
  ASSUME TypeOK
  PROVE  /\ Contents \in Seq(Bytes) /\ Len(Contents) = Size
         /\ \A i \in 1..Size : Contents[i] = storage[Cell(tail + i - 1)]
<1> DEFINE n == Size
<1>1. n \in Nat /\ tail \in Nat /\ storage \in [0..(Capacity - 1) -> Bytes]
  BY RingTypes
<1>2. Contents = [i \in 1..n |-> storage[Cell(tail + i - 1)]]
  BY DEF Contents
<1> HIDE DEF n
<1>3. \A i \in 1..n : storage[Cell(tail + i - 1)] \in Bytes
  <2> TAKE i \in 1..n
  <2>1. tail + i - 1 \in Int
    BY <1>1
  <2> QED BY <1>1, <2>1, CellType
<1>4. Contents \in [1..n -> Bytes]
  BY <1>2, <1>3
<1>5. Contents \in Seq(Bytes) /\ Len(Contents) = n
  BY <1>1, <1>4
<1> QED BY <1>2, <1>5, Zenon DEF n

\* The cell CopyIn writes next is neither queued nor one it has written.
LEMMA FreeCell ==
  ASSUME TypeOK, RingInv, copied < Len(frame)
  PROVE  /\ \A i \in 1..Size : Cell(tail + i - 1) # Cell(head + copied)
         /\ \A j \in 1..copied : Cell(head + j - 1) # Cell(head + copied)
<1> DEFINE n == Size
<1>1. /\ head \in Nat /\ tail \in Nat /\ Capacity \in Nat /\ Capacity # 0
      /\ n \in Nat /\ copied \in Nat /\ Len(frame) \in Nat
  BY RingTypes
<1>2. n + Len(frame) <= Capacity
  BY DEF RingInv
<1>3. Cell(head + copied) = Cell(tail + n + copied)
  <2>1. head \in Int /\ tail \in Int /\ copied \in Int
    BY <1>1
  <2>2. Cell(head + copied) = Cell(tail + ((head - tail) % IndexSpan) + copied)
    BY <2>1, CellOfHead, Zenon
  <2> QED BY <2>2 DEF Size
<1> HIDE DEF n
<1>4. ASSUME NEW i \in 1..n PROVE Cell(tail + i - 1) # Cell(head + copied)
  <2> DEFINE a == tail + i - 1
             b == tail + n + copied
  <2>1. a \in Int /\ b \in Int /\ a < b /\ b < a + Capacity
    BY <1>1, <1>2, SMT
  <2> HIDE DEF a, b
  <2>2. a % Capacity # b % Capacity
    BY <1>1, <2>1, Apart
  <2> QED BY <1>3, <2>2 DEF Cell, a, b
<1>5. ASSUME NEW j \in 1..copied PROVE Cell(head + j - 1) # Cell(head + copied)
  <2> DEFINE a == head + j - 1
             b == head + copied
  <2>1. a \in Int /\ b \in Int /\ a < b /\ b < a + Capacity
    BY <1>1, <1>2, SMT
  <2> HIDE DEF a, b
  <2>2. a % Capacity # b % Capacity
    BY <1>1, <2>1, Apart
  <2> QED BY <2>2 DEF Cell, a, b
<1> QED BY <1>4, <1>5 DEF n

\* What publishing head_ and tail_ does to the size.
LEMMA SizeMoves ==
  ASSUME TypeOK, RingInv
  PROVE  /\ head' = Advance(head, Len(frame)) /\ tail' = tail => Size' = Size + Len(frame)
         /\ count # -1 /\ tail' = Advance(tail, count) /\ head' = head => Size' = Size - count
<1> DEFINE n == Size
<1>1. /\ head \in Nat /\ tail \in Nat /\ Capacity \in Nat /\ IndexSpan \in Nat
      /\ Capacity < IndexSpan /\ n \in Nat /\ Len(frame) \in Nat /\ count \in Int
  BY RingTypes
<1>2. n + Len(frame) <= Capacity
  BY DEF RingInv
<1>3. n = (head - tail) % IndexSpan
  BY DEF Size
<1>4. ASSUME head' = Advance(head, Len(frame)), tail' = tail PROVE Size' = n + Len(frame)
  <2>1. n + Len(frame) < IndexSpan
    BY <1>1, <1>2, SMT
  <2>2. (Advance(head, Len(frame)) - tail) % IndexSpan = n + Len(frame)
    BY <1>1, <1>3, <2>1, Distance
  <2> QED BY <1>4, <2>2 DEF Size
<1>5. ASSUME count # -1, tail' = Advance(tail, count), head' = head PROVE Size' = n - count
  <2>1. count \in Nat /\ count <= n
    BY <1>1, <1>5, RingTypes DEF RingInv
  <2>2. (head - Advance(tail, count)) % IndexSpan = n - count
    BY <1>1, <1>3, <2>1, Distance
  <2> QED BY <1>5, <2>2 DEF Size
<1> QED BY <1>4, <1>5 DEF n

\* An index is stored at its width.
LEMMA AdvanceType ==
  ASSUME NEW i \in Nat, NEW n \in Nat
  PROVE  Advance(i, n) \in 0..(IndexSpan - 1)
<1>1. IndexSpan \in Int /\ IndexSpan > 0 /\ i + n \in Int
  BY SpanAssumption
<1>2. ((i + n) % IndexSpan) \in Nat /\ ((i + n) % IndexSpan) < IndexSpan
  BY <1>1, Division
<1> QED BY <1>1, <1>2, SMT DEF Advance

\* std::min of what is asked for and what there is.
LEMMA MinOfTwo ==
  ASSUME NEW a \in Nat, NEW b \in Nat
  PROVE  Min({a, b}) \in Nat /\ Min({a, b}) <= a /\ Min({a, b}) <= b
<1>1. \E x \in {a, b} : \A y \in {a, b} : x <= y
  OBVIOUS
<1>2. Min({a, b}) \in {a, b} /\ \A y \in {a, b} : Min({a, b}) <= y
  BY <1>1, Zenon DEF Min
<1> QED BY <1>2

\* The ring as Create makes it.
LEMMA RingInit == Init => TypeOK /\ RingInv
<1> SUFFICES ASSUME Init PROVE TypeOK /\ RingInv
  OBVIOUS
<1>1. Capacity \in Nat /\ Capacity # 0 /\ IndexSpan \in Nat /\ IndexSpan > 0 /\ Bytes # {}
  BY SpanAssumption, FrameAssumption
<1>2. (CHOOSE b \in Bytes : TRUE) \in Bytes
  BY <1>1
<1>3. storage \in [0..(Capacity - 1) -> Bytes]
  BY <1>2 DEF Init
<1>4. Len(<<>>) = 0 /\ <<>> \in Seq(Bytes)
  BY EmptySeq
<1>5. TypeOK
  BY <1>1, <1>3, <1>4 DEF Init, TypeOK
<1>6. Size = 0
  <2>1. 0 % IndexSpan = 0
    BY <1>1, SMT
  <2> QED BY <2>1 DEF Init, Size
<1> QED BY <1>1, <1>4, <1>5, <1>6 DEF Init, RingInv

\* Every step of either thread keeps both.
LEMMA RingStep == TypeOK /\ RingInv /\ [Next]_vars => TypeOK' /\ RingInv'
<1> SUFFICES ASSUME TypeOK, RingInv, [Next]_vars PROVE TypeOK' /\ RingInv'
  OBVIOUS
<1> DEFINE n == Size
<1>t. /\ head \in Nat /\ tail \in Nat /\ Capacity \in Nat /\ Capacity # 0
      /\ IndexSpan \in Nat /\ n \in Nat
      /\ frame \in Seq(Bytes) /\ Len(frame) \in Nat
      /\ copied \in Nat /\ copied <= Len(frame)
      /\ dest \in Seq(Bytes) /\ Len(dest) \in Nat /\ count \in Int
  BY RingTypes
<1>u. ASSUME head' = head, tail' = tail PROVE Size' = n
  BY <1>u DEF Size
<1>0. /\ n + Len(frame) <= Capacity
      /\ count # -1 => Len(dest) <= count /\ count <= n
  BY DEF RingInv
<1>l. Len(<<>>) = 0 /\ <<>> \in Seq(Bytes)
  BY EmptySeq
<1> HIDE DEF n
<1>1. CASE PushBegin
  <2>1. PICK f \in Frames : Len(f) <= Capacity - n /\ frame' = f
    BY <1>1 DEF PushBegin, FreeBytes, n
  <2>2. f \in Seq(Bytes) /\ Len(f) \in Nat
    BY FrameType
  <2>3. UNCHANGED <<storage, head, tail, count, dest, out>> /\ copied' = 0
    BY <1>1 DEF PushBegin, consumer
  <2>4. Size' = n
    BY <1>u, <2>3
  <2>5. TypeOK'
    BY <2>1, <2>2, <2>3 DEF TypeOK
  <2>6. Size' + Len(frame') <= Capacity
    BY <1>t, <2>1, <2>2, <2>4
  <2>7. count' # -1 => Len(dest') <= count' /\ count' <= Size'
    BY <1>0, <2>3, <2>4
  <2> QED BY <2>3, <2>5, <2>6, <2>7 DEF RingInv
<1>2. CASE CopyIn
  <2> DEFINE cell == Cell(head + copied)
  <2>1. /\ UNCHANGED <<head, tail, frame, count, dest, out>> /\ copied' = copied + 1
        /\ copied < Len(frame)
        /\ storage' = [storage EXCEPT ![cell] = frame[copied + 1]]
    BY <1>2 DEF CopyIn, consumer
  <2>2. Size' = n
    BY <1>u, <2>1
  <2>3. /\ \A i \in 1..n : Cell(tail + i - 1) # cell
        /\ \A j \in 1..copied : Cell(head + j - 1) # cell
    BY <2>1, FreeCell DEF n
  <2>4. cell \in 0..(Capacity - 1) /\ frame[copied + 1] \in Bytes
    <3>1. head + copied \in Int /\ copied + 1 \in 1..Len(frame)
      BY <1>t, <2>1
    <3>2. cell \in 0..(Capacity - 1)
      BY <3>1, CellType, Zenon
    <3>3. frame[copied + 1] \in Bytes
      BY <1>t, <3>1, ElementOfSeq
    <3> QED BY <3>2, <3>3
  <2>5. storage \in [0..(Capacity - 1) -> Bytes]
    BY DEF TypeOK
  <2>c. head + (copied + 1) - 1 = head + copied
    BY <1>t
  <2> HIDE DEF cell
  <2>6. /\ storage'[cell] = frame[copied + 1]
        /\ \A x \in 0..(Capacity - 1) : x # cell => storage'[x] = storage[x]
        /\ storage' \in [0..(Capacity - 1) -> Bytes]
    BY <2>1, <2>4, <2>5
  <2>7. TypeOK'
    BY <1>t, <2>1, <2>6 DEF TypeOK
  <2>8. ASSUME NEW j \in 1..(copied + 1) PROVE storage'[Cell(head + j - 1)] = frame[j]
    <3>1. CASE j = copied + 1
      BY <2>6, <2>c, <3>1 DEF cell
    <3>2. CASE j \in 1..copied
      <4>1. head + j - 1 \in Int
        BY <1>t
      <4>2. Cell(head + j - 1) \in 0..(Capacity - 1)
        BY <4>1, CellType
      <4> QED BY <2>3, <2>6, <3>2, <4>2 DEF RingInv
    <3> QED BY <1>t, <3>1, <3>2
  <2>9. ASSUME NEW j \in 1..Len(dest) PROVE storage'[Cell(tail + j - 1)] = dest[j]
    <3>1. j \in 1..n
      BY <1>t, <1>0, <1>l DEF RingInv
    <3>2. tail + j - 1 \in Int
      BY <1>t
    <3>3. Cell(tail + j - 1) \in 0..(Capacity - 1)
      BY <3>2, CellType
    <3> QED BY <2>3, <2>6, <3>1, <3>3 DEF RingInv
  <2>10. /\ Size' + Len(frame') <= Capacity
         /\ \A j \in 1..copied' : storage'[Cell(head' + j - 1)] = frame'[j]
         /\ count' = -1 => dest' = <<>>
         /\ count' # -1 => Len(dest') <= count' /\ count' <= Size'
         /\ \A j \in 1..Len(dest') : dest'[j] = storage'[Cell(tail' + j - 1)]
    BY <1>0, <2>1, <2>2, <2>8, <2>9 DEF RingInv
  <2> QED BY <2>7, <2>10 DEF RingInv
<1>3. CASE PushEnd
  <2>1. /\ UNCHANGED <<storage, tail, count, dest, out>> /\ frame' = <<>> /\ copied' = 0
        /\ head' = Advance(head, Len(frame))
    BY <1>3 DEF PushEnd, consumer
  <2>2. Size' = n + Len(frame)
    BY <2>1, SizeMoves DEF n
  <2>3. head' \in 0..(IndexSpan - 1)
    BY <1>t, <2>1, AdvanceType
  <2>4. TypeOK'
    BY <1>l, <2>1, <2>3 DEF TypeOK
  <2>5. Size' + Len(frame') <= Capacity
    BY <1>t, <1>0, <1>l, <2>1, <2>2
  <2>6. count' # -1 => Len(dest') <= count' /\ count' <= Size'
    BY <1>t, <1>0, <2>1, <2>2
  <2> QED BY <2>1, <2>4, <2>5, <2>6 DEF RingInv
<1>4. CASE PopBegin
  <2>1. PICK m \in 1..MaxRead : count' = Min({m, n})
    BY <1>4 DEF PopBegin, n
  <2>2. m \in Nat
    BY FrameAssumption
  <2>3. count' \in Nat /\ count' <= n
    BY <1>t, <2>1, <2>2, MinOfTwo
  <2>4. UNCHANGED <<storage, head, tail, frame, copied, out>> /\ dest' = <<>>
    BY <1>4 DEF PopBegin, producer
  <2>5. Size' = n
    BY <1>u, <2>4
  <2>6. count' \in -1..Capacity
    BY <1>t, <1>0, <2>3
  <2>7. TypeOK'
    BY <1>l, <2>4, <2>6 DEF TypeOK
  <2>8. count' # -1 => Len(dest') <= count' /\ count' <= Size'
    BY <1>l, <2>3, <2>4, <2>5
  <2>9. \A j \in 1..Len(dest') : dest'[j] = storage'[Cell(tail' + j - 1)]
    BY <1>l, <2>4
  <2> QED BY <1>0, <2>4, <2>5, <2>7, <2>8, <2>9 DEF RingInv
<1>5. CASE CopyOut
  <2> DEFINE byte == storage[Cell(tail + Len(dest))]
  <2>1. /\ UNCHANGED <<storage, head, tail, frame, copied, count, out>>
        /\ Len(dest) < count /\ dest' = Append(dest, byte)
    BY <1>5 DEF CopyOut, producer
  <2>i. tail + Len(dest) \in Int
    BY <1>t
  <2>2. Cell(tail + Len(dest)) \in 0..(Capacity - 1)
    BY <2>i, CellType, Zenon
  <2>3. byte \in Bytes
    BY <2>2 DEF TypeOK
  <2>4. tail + (Len(dest) + 1) - 1 = tail + Len(dest)
    BY <1>t
  <2>5. byte = storage[Cell(tail + (Len(dest) + 1) - 1)]
    BY <2>4
  <2> HIDE DEF byte
  <2>6. /\ dest' \in Seq(Bytes) /\ Len(dest') = Len(dest) + 1
        /\ \A j \in 1..Len(dest) : dest'[j] = dest[j]
        /\ dest'[Len(dest) + 1] = byte
    BY <1>t, <2>1, <2>3, AppendProperties
  <2>7. Size' = n
    BY <1>u, <2>1
  <2>8. TypeOK'
    BY <2>1, <2>6 DEF TypeOK
  <2>9. count' # -1 => Len(dest') <= count' /\ count' <= Size'
    BY <1>t, <1>0, <2>1, <2>6, <2>7
  <2>10. ASSUME NEW j \in 1..(Len(dest) + 1) PROVE dest'[j] = storage[Cell(tail + j - 1)]
    <3>1. CASE j = Len(dest) + 1
      BY <2>5, <2>6, <3>1
    <3>2. CASE j \in 1..Len(dest)
      BY <2>6, <3>2 DEF RingInv
    <3> QED BY <1>t, <3>1, <3>2
  <2>11. \A j \in 1..Len(dest') : dest'[j] = storage'[Cell(tail' + j - 1)]
    BY <2>1, <2>6, <2>10
  <2>12. count' # -1
    BY <1>t, <2>1
  <2> QED BY <1>0, <2>1, <2>7, <2>8, <2>9, <2>11, <2>12 DEF RingInv
<1>6. CASE PopEnd
  <2>1. /\ UNCHANGED <<storage, head, frame, copied>> /\ count' = -1 /\ dest' = <<>>
        /\ out' = dest /\ tail' = Advance(tail, count) /\ count = Len(dest)
    BY <1>6 DEF PopEnd, producer
  <2>2. count \in Nat /\ count # -1
    BY <1>t, <2>1
  <2>3. Size' = n - count
    BY <2>1, <2>2, SizeMoves DEF n
  <2>4. tail' \in 0..(IndexSpan - 1)
    BY <1>t, <2>1, <2>2, AdvanceType
  <2>5. count' \in -1..Capacity
    BY <1>t, <2>1
  <2>6. TypeOK'
    BY <1>t, <1>l, <2>1, <2>4, <2>5 DEF TypeOK
  <2>7. Size' + Len(frame') <= Capacity
    BY <1>t, <1>0, <2>1, <2>2, <2>3
  <2>8. \A j \in 1..Len(dest') : dest'[j] = storage'[Cell(tail' + j - 1)]
    BY <1>l, <2>1
  <2> QED BY <2>1, <2>6, <2>7, <2>8 DEF RingInv
<1>7. CASE UNCHANGED vars
  BY <1>7 DEF vars, producer, consumer, TypeOK, RingInv, Size
<1> QED BY <1>1, <1>2, <1>3, <1>4, <1>5, <1>6, <1>7 DEF Next

\* The frame inside a Push fits the free cells however far the Pops have come,
\* its written part is not disturbed, and a Pop in progress has read the bytes
\* at the front (Push, Pop, spsc_ring.hpp:35-59).
THEOREM RingInvariant == Spec => [](TypeOK /\ RingInv)
<1>1. Init => TypeOK /\ RingInv
  BY RingInit
<1>2. TypeOK /\ RingInv /\ [Next]_vars => TypeOK' /\ RingInv'
  BY RingStep
<1> QED BY <1>1, <1>2, PTL DEF Spec

-----------------------------------------------------------------------------
(* The refinement.                                                         *)

\* Copying in and out changes nothing that either thread can see.
LEMMA ContentsKept ==
  ASSUME TypeOK, TypeOK', head' = head, tail' = tail,
         \A i \in 1..Size : storage'[Cell(tail + i - 1)] = storage[Cell(tail + i - 1)]
  PROVE  Contents' = Contents
<1>1. Size' = Size
  BY DEF Size
<1> QED BY <1>1, Zenon DEF Contents

\* Bytes in a sequence are what they are place by place.
LEMMA ByteByByte ==
  ASSUME NEW s \in Seq(Bytes)
  PROVE  s = [i \in 1..Len(s) |-> s[i]]
  BY LenProperties

\* Publishing head_ appends the frame.
LEMMA FrameAppears ==
  ASSUME TypeOK, RingInv, copied = Len(frame), storage' = storage, tail' = tail,
         head' = Advance(head, Len(frame))
  PROVE  Contents' = Contents \o frame
<1> DEFINE n == Size
           m == Len(frame)
           c == Contents
<1>1. /\ n \in Nat /\ m \in Nat /\ head \in Nat /\ tail \in Nat /\ frame \in Seq(Bytes)
  BY RingTypes
<1>2. /\ c \in Seq(Bytes) /\ Len(c) = n
      /\ \A i \in 1..n : c[i] = storage[Cell(tail + i - 1)]
  BY ContentsType
<1>3. Size' = n + m
  BY SizeMoves
<1>4. Contents' = [i \in 1..(n + m) |-> storage[Cell(tail + i - 1)]]
  BY <1>3, Zenon DEF Contents
<1>5. \A j \in 1..m : storage[Cell(head + j - 1)] = frame[j]
  BY DEF RingInv
<1>6. \A k \in Int : Cell(head + k) = Cell(tail + n + k)
  <2> TAKE k \in Int
  <2>1. head \in Int /\ tail \in Int
    BY <1>1
  <2>2. Cell(head + k) = Cell(tail + ((head - tail) % IndexSpan) + k)
    BY <2>1, CellOfHead, Zenon
  <2> QED BY <2>2 DEF Size
<1> HIDE DEF n, m, c
<1>7. /\ c \o frame \in Seq(Bytes) /\ Len(c \o frame) = n + m
      /\ \A i \in 1..(n + m) : (c \o frame)[i] = IF i <= n THEN c[i] ELSE frame[i - n]
  BY <1>1, <1>2, ConcatProperties, Zenon DEF m
<1>8. ASSUME NEW i \in 1..(n + m) PROVE storage[Cell(tail + i - 1)] = (c \o frame)[i]
  <2>1. CASE i <= n
    BY <1>1, <1>2, <1>7, <2>1
  <2>2. CASE i > n
    <3>1. i - n \in 1..m /\ (i - n) - 1 \in Int /\ head + (i - n) - 1 = head + ((i - n) - 1)
          /\ tail + n + ((i - n) - 1) = tail + i - 1
      BY <1>1, <2>2
    <3>2. storage[Cell(head + (i - n) - 1)] = frame[i - n]
      BY <1>5, <3>1
    <3>3. Cell(head + ((i - n) - 1)) = Cell(tail + n + ((i - n) - 1))
      BY <1>6, <3>1
    <3>4. storage[Cell(tail + i - 1)] = frame[i - n]
      BY <3>1, <3>2, <3>3
    <3> QED BY <1>1, <1>7, <2>2, <3>4
  <2>3. i <= n \/ i > n
    BY <1>1
  <2> QED BY <2>1, <2>2, <2>3, Zenon
<1>9. c \o frame = [i \in 1..(n + m) |-> (c \o frame)[i]]
  <2>1. c \o frame = [i \in 1..Len(c \o frame) |-> (c \o frame)[i]]
    BY <1>7, ByteByByte, Zenon
  <2> QED BY <1>7, <2>1, Zenon
<1>10. Contents' = c \o frame
  BY <1>4, <1>8, <1>9, Zenon
<1> QED BY <1>10 DEF c

\* Publishing tail_ takes the bytes that were read off the front.
LEMMA PrefixTaken ==
  ASSUME TypeOK, RingInv, count = Len(dest), storage' = storage, head' = head,
         tail' = Advance(tail, count)
  PROVE  /\ count \in 0..Len(Contents)
         /\ dest = SubSeq(Contents, 1, count)
         /\ Contents' = SubSeq(Contents, count + 1, Len(Contents))
<1> DEFINE n == Size
           c == Contents
<1>1. /\ n \in Nat /\ tail \in Nat /\ dest \in Seq(Bytes) /\ Len(dest) \in Nat
  BY RingTypes
<1>2. /\ c \in Seq(Bytes) /\ Len(c) = n
      /\ \A i \in 1..n : c[i] = storage[Cell(tail + i - 1)]
  BY ContentsType
<1>3. count \in Nat /\ count # -1 /\ count <= n
  BY <1>1 DEF RingInv
<1>4. Size' = n - count
  BY <1>3, SizeMoves
<1>5. Contents' = [i \in 1..(n - count) |-> storage[Cell(tail' + i - 1)]]
  BY <1>4, Zenon DEF Contents
<1>6. \A k \in Int : Cell(tail' + k) = Cell(tail + count + k)
  <2> TAKE k \in Int
  <2>1. tail \in Int /\ count \in Int
    BY <1>1, <1>3
  <2> QED BY <2>1, CellOfAdvance, Zenon
<1>7. \A j \in 1..count : dest[j] = storage[Cell(tail + j - 1)]
  BY DEF RingInv
<1>8. \A i \in 1..n : c[i] \in Bytes
  BY <1>2, ElementOfSeq
<1>10. tail' \in Int
  <2>1. Advance(tail, count) \in 0..(IndexSpan - 1)
    BY <1>1, <1>3, AdvanceType
  <2> QED BY <2>1, SpanAssumption
<1> HIDE DEF n, c
<1> DEFINE front == SubSeq(c, 1, count)
           rest == SubSeq(c, count + 1, n)
<1>11. /\ front \in Seq(Bytes) /\ Len(front) = count
       /\ \A i \in 1..count : front[i] = c[i]
  BY <1>1, <1>2, <1>3
<1>12. /\ rest \in Seq(Bytes) /\ Len(rest) = n - count
       /\ \A i \in 1..(n - count) : rest[i] = c[count + i]
  BY <1>1, <1>2, <1>3
<1> HIDE DEF front, rest
<1>13. dest = front
  <2>1. \A j \in 1..count : dest[j] = front[j]
    <3> TAKE j \in 1..count
    <3>1. j \in 1..n
      BY <1>1, <1>3
    <3>2. dest[j] = storage[Cell(tail + j - 1)] /\ front[j] = c[j]
      BY <1>7, <1>11, Zenon
    <3>3. c[j] = storage[Cell(tail + j - 1)]
      BY <1>2, <3>1, Zenon
    <3> QED BY <3>2, <3>3, Zenon
  <2> QED BY <1>1, <1>11, <2>1, SeqEqual
<1>14. ASSUME NEW i \in 1..(n - count) PROVE storage[Cell(tail' + i - 1)] = rest[i]
  <2>1. i - 1 \in Int /\ tail' + i - 1 = tail' + (i - 1) /\ count + i \in 1..n
        /\ tail + count + (i - 1) = tail + (count + i) - 1
    BY <1>1, <1>3, <1>10
  <2>2. Cell(tail' + (i - 1)) = Cell(tail + count + (i - 1))
    BY <1>6, <2>1
  <2>3. storage[Cell(tail + (count + i) - 1)] = c[count + i]
    BY <1>2, <2>1
  <2> QED BY <1>12, <2>1, <2>2, <2>3
<1>15. rest = [i \in 1..(n - count) |-> rest[i]]
  <2>1. rest = [i \in 1..Len(rest) |-> rest[i]]
    BY <1>12, ByteByByte, Zenon
  <2> QED BY <1>12, <2>1, Zenon
<1>16. Contents' = rest
  BY <1>5, <1>14, <1>15, Zenon
<1>17. count \in 0..Len(c)
  BY <1>1, <1>2, <1>3
<1>18. rest = SubSeq(c, count + 1, Len(c))
  BY <1>2, Zenon DEF rest
<1> QED BY <1>13, <1>16, <1>17, <1>18, Zenon DEF front, c

\* Every step of the ring is a step of the FIFO, or none.
LEMMA FifoStep ==
  TypeOK /\ RingInv /\ TypeOK' /\ [Next]_vars => [Fifo!Next]_(Fifo!vars)
<1> SUFFICES ASSUME TypeOK, RingInv, TypeOK', [Next]_vars PROVE [Fifo!Next]_(Fifo!vars)
  OBVIOUS
<1>s. ASSUME Contents' = Contents, frame' = frame, out' = out PROVE UNCHANGED Fifo!vars
  BY <1>s DEF Fifo!vars
<1>1. CASE PushBegin
  <2>1. /\ UNCHANGED <<storage, head, tail, out>> /\ frame = <<>> /\ frame' \in Frames
    BY <1>1 DEF PushBegin, consumer
  <2>2. Contents' = Contents
    BY <2>1, ContentsKept
  <2>3. frame' \in Fifo!Frames
    BY <2>1 DEF Frames, Fifo!Frames
  <2> QED BY <2>1, <2>2, <2>3 DEF Fifo!Next, Fifo!Offer
<1>2. CASE CopyIn
  <2> DEFINE cell == Cell(head + copied)
  <2>1. /\ UNCHANGED <<head, tail, frame, out>> /\ copied < Len(frame)
        /\ storage' = [storage EXCEPT ![cell] = frame[copied + 1]]
    BY <1>2 DEF CopyIn, consumer
  <2>2. \A i \in 1..Size : Cell(tail + i - 1) # cell
    BY <2>1, FreeCell
  <2>3. tail \in Nat /\ Size \in Nat /\ storage \in [0..(Capacity - 1) -> Bytes]
    BY RingTypes
  <2> HIDE DEF cell
  <2>4. ASSUME NEW i \in 1..Size
        PROVE  storage'[Cell(tail + i - 1)] = storage[Cell(tail + i - 1)]
    <3>1. tail + i - 1 \in Int
      BY <2>3
    <3>2. Cell(tail + i - 1) \in 0..(Capacity - 1)
      BY <3>1, CellType, Zenon
    <3> QED BY <2>1, <2>2, <2>3, <3>2, Zenon
  <2>5. Contents' = Contents
    BY <2>1, <2>4, ContentsKept
  <2> QED BY <1>s, <2>1, <2>5
<1>3. CASE PushEnd
  <2>1. /\ storage' = storage /\ tail' = tail /\ head' = Advance(head, Len(frame))
        /\ frame' = <<>> /\ out' = out /\ copied = Len(frame)
    BY <1>3 DEF PushEnd, Copied, consumer
  <2>2. Contents' = Contents \o frame
    BY <2>1, FrameAppears
  <2>3. Len(Contents) + Len(frame) <= Capacity
    BY ContentsType, Zenon DEF RingInv
  <2> QED BY <2>1, <2>2, <2>3 DEF Fifo!Next, Fifo!Push
<1>4. CASE PopBegin
  <2>1. UNCHANGED <<storage, head, tail, frame, out>>
    BY <1>4 DEF PopBegin, producer
  <2>2. Contents' = Contents
    BY <2>1, ContentsKept
  <2> QED BY <1>s, <2>1, <2>2
<1>5. CASE CopyOut
  <2>1. UNCHANGED <<storage, head, tail, frame, out>>
    BY <1>5 DEF CopyOut, producer
  <2>2. Contents' = Contents
    BY <2>1, ContentsKept
  <2> QED BY <1>s, <2>1, <2>2
<1>6. CASE PopEnd
  <2>1. /\ storage' = storage /\ head' = head /\ tail' = Advance(tail, count)
        /\ frame' = frame /\ out' = dest /\ count = Len(dest)
    BY <1>6 DEF PopEnd, producer
  <2>2. /\ count \in 0..Len(Contents)
        /\ dest = SubSeq(Contents, 1, count)
        /\ Contents' = SubSeq(Contents, count + 1, Len(Contents))
    BY <2>1, PrefixTaken
  <2>3. Fifo!Pop(count)
    BY <2>1, <2>2, Zenon DEF Fifo!Pop
  <2> QED BY <2>2, <2>3 DEF Fifo!Next
<1>7. CASE UNCHANGED vars
  <2>1. UNCHANGED <<storage, head, tail, frame, out>>
    BY <1>7 DEF vars, producer, consumer
  <2>2. Contents' = Contents
    BY <2>1, ContentsKept
  <2> QED BY <1>s, <2>1, <2>2
<1> QED BY <1>1, <1>2, <1>3, <1>4, <1>5, <1>6, <1>7 DEF Next

\* The ring of any capacity is a FIFO of bytes: whatever the interleaving of the
\* two threads' copies, and however often the indices wrap, a frame enters whole
\* and a Pop returns the oldest bytes (Push, Pop, CopyIn, CopyOut,
\* spsc_ring.hpp:35-86).
THEOREM RingIsFifo == Spec => ImplementsFifo
<1>1. Init => Fifo!Init
  <2> SUFFICES ASSUME Init PROVE Fifo!Init
    OBVIOUS
  <2>1. TypeOK
    BY RingInit
  <2>2. IndexSpan \in Nat /\ IndexSpan > 0
    BY SpanAssumption
  <2>3. Size = 0
    <3>1. 0 % IndexSpan = 0
      BY <2>2, SMT
    <3> QED BY <3>1 DEF Init, Size
  <2>4. Contents = <<>>
    BY <2>1, <2>3, ContentsType, EmptySeq
  <2> QED BY <2>4 DEF Init, Fifo!Init
<1>2. TypeOK /\ RingInv /\ TypeOK' /\ [Next]_vars => [Fifo!Next]_(Fifo!vars)
  BY FifoStep
<1> QED BY <1>1, <1>2, RingInvariant, PTL DEF Spec, ImplementsFifo, Fifo!Spec
=============================================================================
