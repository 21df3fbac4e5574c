----------------------------- MODULE MCTimeouts -----------------------------
(* Instances of Timeouts for TLC. *)
EXTENDS Timeouts, TLC

CONSTANTS c1, c2, c3

ThreeCells == {c1, c2, c3}
Symmetry   == Permutations(Cells)
=============================================================================
