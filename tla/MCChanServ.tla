----------------------------- MODULE MCChanServ -----------------------------
(* Instances of ChanServ for TLC. *)
EXTENDS ChanServ, TLC

CONSTANTS u1, n1, n2, c1, c2

OneUser   == {u1}
TwoNicks  == {n1, n2}
TwoInfos  == {c1, c2}
Symmetry  == Permutations(Nicks) \cup Permutations(Infos)
=============================================================================
