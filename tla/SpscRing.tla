------------------------------ MODULE SpscRing ------------------------------
(***************************************************************************)
(* The lock-free byte ring between a media thread and its shard            *)
(* (core/include/audiofork/spsc_ring.hpp).  One thread pushes, one other   *)
(* pops; each reads the other's index once, copies byte by byte, and       *)
(* publishes its own index last.  The indices are free-running and wrap at *)
(* their width.  The release stores and acquire loads of the code make the *)
(* interleaved steps below its only behaviours.                            *)
(***************************************************************************)
EXTENDS Integers, Sequences, FiniteSetsExt

CONSTANTS
  MinCapacity,     \* what Create is asked for
  MaxCapacityLog,  \* log2 of kMaxCapacity
  IndexSpan,       \* 2^64 in the code: the indices are counted modulo this
  Bytes, MaxFrame, MaxRead

VARIABLES
  storage,  \* storage_
  head, tail,
  frame,    \* the frame inside Push, <<>> outside
  copied,   \* bytes of it CopyIn has written
  count,    \* bytes the Pop in progress returns, -1 outside Pop
  dest,     \* bytes CopyOut has read so far
  out       \* what the last completed Pop returned

producer == <<head, frame, copied>>
consumer == <<tail, count, dest, out>>
vars == <<storage, producer, consumer>>

\* Create rounds up to a power of two.
Capacity == Min({c \in {2^i : i \in 0..MaxCapacityLog} : c >= MinCapacity})

ASSUME CapacityAssumption == MinCapacity \in 1..2^MaxCapacityLog
ASSUME SpanAssumption ==
  /\ Capacity \in Nat \ {0} /\ IndexSpan \in Nat
  /\ IndexSpan > Capacity /\ IndexSpan % Capacity = 0
ASSUME FrameAssumption == Bytes # {} /\ MaxFrame \in Nat /\ MaxRead \in Nat

Frames == UNION {[1..n -> Bytes] : n \in 1..MaxFrame}

TypeOK ==
  /\ storage \in [0..Capacity - 1 -> Bytes]
  /\ head \in 0..IndexSpan - 1 /\ tail \in 0..IndexSpan - 1
  /\ frame \in Frames \cup {<<>>} /\ copied \in 0..Len(frame)
  /\ count \in -1..Capacity
  /\ dest \in Seq(Bytes) /\ out \in Seq(Bytes)

\* The vector is zero-filled; any byte will do here.
Init ==
  /\ storage = [i \in 0..Capacity - 1 |-> CHOOSE b \in Bytes : TRUE]
  /\ head = 0 /\ tail = 0
  /\ frame = <<>> /\ copied = 0
  /\ count = -1 /\ dest = <<>> /\ out = <<>>

Size == (head - tail) % IndexSpan

\* index & mask_
Cell(index) == index % Capacity

FreeBytes == Capacity - Size

Advance(index, n) == (index + n) % IndexSpan

-----------------------------------------------------------------------------
\* Push refuses a frame that does not fit, and changes nothing.
PushBegin ==
  /\ frame = <<>>
  /\ \E f \in Frames : Len(f) <= FreeBytes /\ frame' = f
  /\ copied' = 0
  /\ UNCHANGED <<storage, head, consumer>>

CopyIn ==
  /\ copied < Len(frame)
  /\ storage' = [storage EXCEPT ![Cell(head + copied)] = frame[copied + 1]]
  /\ copied' = copied + 1
  /\ UNCHANGED <<head, frame, consumer>>

\* Mutation of Copied: the index is published with the last byte unwritten.
CopiedEarly == copied + 1 >= Len(frame)

Copied == copied = Len(frame)

PushEnd ==
  /\ frame # <<>> /\ Copied
  /\ head' = Advance(head, Len(frame))
  /\ frame' = <<>> /\ copied' = 0
  /\ UNCHANGED <<storage, consumer>>

-----------------------------------------------------------------------------
PopBegin ==
  /\ count = -1
  /\ \E n \in 1..MaxRead : count' = Min({n, Size})
  /\ dest' = <<>>
  /\ UNCHANGED <<storage, producer, tail, out>>

CopyOut ==
  /\ Len(dest) < count
  /\ dest' = Append(dest, storage[Cell(tail + Len(dest))])
  /\ UNCHANGED <<storage, producer, tail, count, out>>

PopEnd ==
  /\ count = Len(dest)
  /\ tail' = Advance(tail, count)
  /\ out' = dest
  /\ count' = -1 /\ dest' = <<>>
  /\ UNCHANGED <<storage, producer>>

Next == PushBegin \/ CopyIn \/ PushEnd \/ PopBegin \/ CopyOut \/ PopEnd

Spec == Init /\ [][Next]_vars

-----------------------------------------------------------------------------
\* The bytes between the two indices.
Contents == [i \in 1..Size |-> storage[Cell(tail + i - 1)]]

Fifo == INSTANCE ByteFifo WITH queue <- Contents

\* The two threads see a FIFO: whatever the interleaving of the copies, the
\* frame Push was given appears whole when it stores head_, a Pop returns the oldest bytes, and
\* no cell is overwritten before it was read (spsc_ring.hpp:35-59), also when
\* the indices wrap.
ImplementsFifo == Fifo!Spec
=============================================================================
