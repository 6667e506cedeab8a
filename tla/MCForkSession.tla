---------------------------- MODULE MCForkSession ----------------------------
(* Small instances of ForkSession for TLC.                                 *)
EXTENDS ForkSession, TLC

CONSTANTS c1, c2, k1, k2

TwoSockets == {c1, c2}
TwoCallers == {k1, k2}

AllCalls == {"kTeardown", "kText", "kModify"}
StopAndModify == {"kTeardown", "kModify"}

SocketSymmetry == Permutations(Sockets) \cup Permutations(Callers)
=============================================================================
