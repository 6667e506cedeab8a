------------------------------ MODULE ByteFifo ------------------------------
(***************************************************************************)
(* What the single-producer single-consumer ring promises its two threads: *)
(* a bounded FIFO of bytes.  A frame enters as a whole or not at all, and  *)
(* a read takes a prefix of what is queued, without loss, duplication or   *)
(* reordering.                                                             *)
(***************************************************************************)
EXTENDS Naturals, Sequences

CONSTANTS Bytes, Capacity, MaxFrame

VARIABLES
  queue,  \* bytes pushed and not yet popped
  frame,  \* the frame the producer is pushing, <<>> if none
  out     \* what the last completed Pop returned

vars == <<queue, frame, out>>

Frames == UNION {[1..n -> Bytes] : n \in 1..MaxFrame}

Init == queue = <<>> /\ frame = <<>> /\ out = <<>>

Offer ==
  /\ frame = <<>> /\ frame' \in Frames
  /\ UNCHANGED <<queue, out>>

Push ==
  /\ Len(queue) + Len(frame) <= Capacity
  /\ queue' = queue \o frame
  /\ frame' = <<>>
  /\ UNCHANGED out

Pop(n) ==
  /\ out' = SubSeq(queue, 1, n)
  /\ queue' = SubSeq(queue, n + 1, Len(queue))
  /\ UNCHANGED frame

Next == Offer \/ Push \/ (\E n \in 0..Len(queue) : Pop(n))

Spec == Init /\ [][Next]_vars
=============================================================================
