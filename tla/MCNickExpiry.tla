---------------------------- MODULE MCNickExpiry ----------------------------
(* Instances of NickExpiry for TLC. *)
EXTENDS NickExpiry, TLC

CONSTANTS a, b

OneNick  == {a}
TwoNicks == {a, b}
Symmetry == Permutations(Nicks)
=============================================================================
