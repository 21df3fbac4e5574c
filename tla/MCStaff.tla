------------------------------ MODULE MCStaff -------------------------------
(* Instances of Staff for TLC. *)
EXTENDS Staff, TLC

CONSTANTS root, nick, chan, a1, a2

TwoNicks == {root, nick}
Root == {root}
TwoAddrs == {a1, a2}
Swap == Permutations(TwoAddrs)

(* Two of the lists of services, the opers of JokuServ, its channels.             *)
Lists3 == {{"admins", "devels"}, {"joku_opers"}, {"canales"}}
=============================================================================
