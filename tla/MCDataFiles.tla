---------------------------- MODULE MCDataFiles -----------------------------
(* Instances of DataFiles for TLC. *)
EXTENDS DataFiles

CONSTANTS c1, c2

(* One database whose routine tests open_db and one that does not.         *)
TwoKinds == {"nick", "akill"}
TwoAndOne == {<<"nick", c1>>, <<"nick", c2>>, <<"akill", c1>>}

(* What fails together: calls of one save, the ways to restore a file, the *)
(* signals; the other failures alone.                                      *)
Together == { {"rename", "create", "write"}, {"write", "back", "copy"},
              {"create", "back"}, {"signal", "late"}, {"crash"}, {"blind"},
              {"flush"} }
=============================================================================
