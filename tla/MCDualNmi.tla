----------------------------- MODULE MCDualNmi -----------------------------
(* Instance of DualNmi for TLC: the two controllers of an array. *)
EXTENDS DualNmi

CONSTANTS A, B

Both   == {A, B}
AltOf  == [c \in Both |-> IF c = A THEN B ELSE A]
=============================================================================
