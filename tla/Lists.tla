------------------------------- MODULE Lists --------------------------------
(***************************************************************************)
(* The arrays in which the lists are kept: the entries behind one that goes*)
(* move down by memmove.                                                   *)
(***************************************************************************)
EXTENDS Naturals, SequencesExt

(* The entries of s at the places K, in their order: what a loop leaves    *)
(* that takes out all others.  SelectSeq would say the same of the places  *)
(* of a test, by recursion, and nothing could be proved of it.             *)
Remaining(s, K) ==
  LET place(i) == CHOOSE k \in K : Cardinality({j \in K : j <= k}) = i
  IN [i \in 1..Cardinality(K) |-> s[place(i)]]
=============================================================================
