----------------------------- MODULE MCNickServ -----------------------------
(* Instances of NickServ for TLC. *)
EXTENDS NickServ, TLC

CONSTANTS u1, u2, a, b

OneUser  == {u1}
TwoUsers == {u1, u2}
OneNick  == {a}
TwoNicks == {a, b}
Symmetry == Permutations(Users) \cup Permutations(Nicks)
=============================================================================
