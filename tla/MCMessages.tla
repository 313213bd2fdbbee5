----------------------------- MODULE MCMessages -----------------------------
(* Instances of Messages for TLC. *)
EXTENDS Messages, TLC

CONSTANTS r1, p1, p2

MCReaders == {r1}
MCPoints == {p1, p2}
MCSymmetry == Permutations(MCPoints)
=============================================================================
