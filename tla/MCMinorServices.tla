-------------------------- MODULE MCMinorServices ---------------------------
(* Instances of MinorServices for TLC. *)
EXTENDS MinorServices

(* The durations in their order, from less than a tick of waiting up.      *)
Durations == ("5m" :> 1) @@ ("1h" :> 1) @@ ("6h" :> 1) @@ ("1d" :> 2) @@ ("7d" :> 2)
EndOrNever == {0, 1}
TwoTypes == {"logon", "oper"}
AllParts == {"akills", "akicks", "limits", "newcomers", "news", "spam", "vhosts", "memos"}
=============================================================================
