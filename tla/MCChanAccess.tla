---------------------------- MODULE MCChanAccess ----------------------------
(* An instance of ChanAccess for TLC. *)
EXTENDS ChanAccess, FiniteSets, TLC

CONSTANTS u1, u2, oper, n1, n2

TwoUsers == {u1, u2}
OneOper == {oper}
TwoNicks == {n1, n2}

(* A level of CA_SET, one below 0, and one that wraps to 500.              *)
Words3 == {499, -1, 66036}
Zero == {0}
TwoLevels == {"ACCESS_CHANGE", "AUTOOP"}
AllFlags == {"SECUREOPS", "SECUREVOICES", "LEAVEOPS", "SUSPEND"}

(* Bound: one level at a time is off its default, and one of the flags but  *)
(* SUSPEND is set; SECUREVOICES and LEAVEOPS while no level is.             *)
OneOff ==
  /\ \E what \in DOMAIN levels : \A other \in DOMAIN levels \ {what} :
        levels[other] = def_levels[other]
  /\ Cardinality(flags \ {"SUSPEND"}) <= 1
  /\ flags \subseteq {"SECUREOPS", "SUSPEND"} \/ levels = def_levels

(* Bound: the second user, who has no nick, is on the channel while nobody  *)
(* has voice, the list is short, the levels are the default ones and no    *)
(* flag but SUSPEND is set.                                                *)
Bystander ==
  /\ ni[u2] = NULL /\ u2 \notin passid
  /\ u2 \in on => /\ marks["v"] = {} /\ Len(access) < CSAccessMax
                  /\ levels = def_levels /\ flags \subseteq {"SUSPEND"}

(* No guard reads by: it is looked at in the step that sets it.            *)
(* spared tells something of a suspended channel only.                     *)
View == <<people, owners, lists, on, marks,
          IF "SUSPEND" \in flags THEN spared ELSE {}, strays>>
Symmetry == Permutations(Nicks)
=============================================================================
