----------------------------- MODULE MCChannels -----------------------------
(* Instances of Channels for TLC. *)
EXTENDS Channels, TLC

CONSTANTS u1, u2, c1

OneUser  == {u1}
TwoUsers == {u1, u2}
OneChan  == {c1}
Symmetry == Permutations(Users)
=============================================================================
