---------------------------- MODULE NickSession ----------------------------
(***************************************************************************)
(* What nick protection promises, without records, pointers or timeouts: a *)
(* nick has at most one user at a time, a user who takes a nick starts     *)
(* unproved, proof of identity is given by the user in the seat, ends when *)
(* the seat is left, and is not accepted for a barred nick.                *)
(***************************************************************************)
CONSTANTS Users, Nicks, NULL

VARIABLES
  seat,    \* the nick each user sits at, NULL for none
  proved,  \* the nicks whose user has proved to own them
  barred   \* the nicks nobody may prove to own (suspended)

sessionVars == <<seat, proved, barred>>

Start ==
  /\ seat = [u \in Users |-> NULL]
  /\ proved = {}
  /\ barred \in SUBSET Nicks

(* u leaves the nick it sits at and takes n, or none.                      *)
Reseat(u, n) ==
  /\ n = NULL \/ \A v \in Users : seat[v] # n
  /\ seat' = [seat EXCEPT ![u] = n]
  /\ proved' = proved \ {seat[u]}
  /\ UNCHANGED barred

Prove(u) ==
  /\ seat[u] \in Nicks \ barred
  /\ proved' = proved \cup {seat[u]}
  /\ UNCHANGED <<seat, barred>>

Bar(n) ==
  /\ barred' = barred \cup {n}
  /\ proved' = proved \ {n}
  /\ UNCHANGED seat

Unbar(n) ==
  /\ barred' = barred \ {n}
  /\ UNCHANGED <<seat, proved>>

(* Proof is withdrawn from the nicks of S, and their bar with it when the  *)
(* nick stops being registered.                                            *)
Forget(S) ==
  /\ proved' = proved \ S
  /\ barred' \in {barred, barred \ S}
  /\ UNCHANGED seat

SessionNext ==
  \/ \E u \in Users : \E n \in Nicks \cup {NULL} : Reseat(u, n)
  \/ \E u \in Users : Prove(u)
  \/ \E n \in Nicks : Bar(n) \/ Unbar(n)
  \/ \E S \in SUBSET Nicks : Forget(S)

SessionSpec == Start /\ [][SessionNext]_sessionVars
=============================================================================
