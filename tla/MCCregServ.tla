----------------------------- MODULE MCCregServ -----------------------------
(* Instances of CregServ for TLC. *)
EXTENDS CregServ, TLC

CONSTANTS u1, a1, a2, n1, n2, n3, m1, m2, m3, c1

OneUser    == {u1}
TwoAddrs   == {a1, a2}
ThreeNames == {n1, n2, n3}
ThreeMails == {m1, m2, m3}
OneChan    == {c1}
Symmetry   == Permutations(Addrs) \cup Permutations(Names) \cup Permutations(Mails)
=============================================================================
