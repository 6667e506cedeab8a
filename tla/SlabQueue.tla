------------------------------ MODULE SlabQueue ------------------------------
(***************************************************************************)
(* The slab-backed byte FIFO under both buffers (core/src/slab_queue.cpp), *)
(* as functions on its value: a sequence of chunks, each the used range of *)
(* one leased slab, and the cached size_.  Bytes are counted, not valued:  *)
(* the FIFO order of the chunks is the order of the audio.                 *)
(*                                                                         *)
(* Append and Consume loop over the chunks and take or return a slab in    *)
(* each turn, while other forks use the pool: one turn is one operator,    *)
(* and the module that uses the queue takes a step for each.               *)
(***************************************************************************)
EXTENDS Integers, Sequences, FiniteSetsExt

CONSTANT slabSize
ASSUME SlabSizeAssumption == slabSize \in Nat \ {0}

Chunk == [begin : 0..slabSize, end : 0..slabSize]
Queue == [chunks : Seq(Chunk), size : Nat]

EmptyQueue == [chunks |-> <<>>, size |-> 0]

ChunkSize(chunk) == chunk.end - chunk.begin
Back(chunks) == chunks[Len(chunks)]

\* Mutation of NeedsChunk: a drained last chunk is not written to again.
NeedsChunkAfterDrain(queue) ==
  queue.chunks # <<>> => \/ Back(queue.chunks).end = slabSize
                         \/ Back(queue.chunks).end > 0 /\ ChunkSize(Back(queue.chunks)) = 0

\* Append takes a new slab when there is no chunk or the last one is full.
NeedsChunk(queue) == queue.chunks # <<>> => Back(queue.chunks).end = slabSize

\* The chunks Append writes to: AcquireChunk has pushed an empty one if needed.
Writable(queue) ==
  IF NeedsChunk(queue) THEN Append(queue.chunks, [begin |-> 0, end |-> 0]) ELSE queue.chunks

\* A turn of Append's loop with n bytes left: as many as the last chunk takes.
Appended(queue, n) ==
  LET chunks == Writable(queue)
      take == Min({slabSize - Back(chunks).end, n})
  IN  [chunks |-> [chunks EXCEPT ![Len(chunks)].end = @ + take], size |-> queue.size + take]

\* Drained chunks go, but for a last one that has room left.
PopFrontIfDrained(chunks) ==
  LET front == Min({i \in DOMAIN chunks : ChunkSize(chunks[i]) # 0} \union {Len(chunks)})
      rest == SubSeq(chunks, front, Len(chunks))
  IN  IF Len(rest) = 1 /\ ChunkSize(Head(rest)) = 0 /\ Head(rest).end = slabSize
      THEN <<>>
      ELSE rest

\* A turn of Consume's loop with n bytes left: as many as the first chunk has.
Consumed(queue, n) ==
  LET take == Min({ChunkSize(Head(queue.chunks)), n})
  IN  [chunks |-> PopFrontIfDrained([queue.chunks EXCEPT ![1].begin = @ + take]),
       size |-> queue.size - take]

\* The length of the contiguous run Peek returns.
Peek(queue, max) ==
  IF queue.chunks = <<>> THEN 0 ELSE Min({ChunkSize(Head(queue.chunks)), max})

\* A queue that holds bytes has some in its first chunk, so Peek never returns
\* nothing and Consume never spins; only the first chunk starts, and only the
\* last one ends, inside its slab, so size_ is what the chunks hold; and the one
\* slab an empty queue may keep has room left to append to.
WellFormed(queue) ==
  LET chunks == queue.chunks
  IN  /\ queue.size = IF chunks = <<>> THEN 0
                      ELSE slabSize * (Len(chunks) - 1) + Back(chunks).end - Head(chunks).begin
      /\ \A i \in DOMAIN chunks :
           /\ chunks[i].begin <= chunks[i].end
           /\ ChunkSize(chunks[i]) = 0 => Len(chunks) = 1 /\ chunks[i].end < slabSize
           /\ i > 1 => chunks[i].begin = 0
           /\ i < Len(chunks) => chunks[i].end = slabSize
=============================================================================
