------------------------ MODULE MinorServices_proofs ------------------------
(***************************************************************************)
(* Proofs about the lists and tables of MinorServices, for lists of any    *)
(* length and any names, numbers and durations.  Each part is changed by   *)
(* its own actions only, so each has an inductive invariant of its own.    *)
(***************************************************************************)
EXTENDS MinorServices, FiniteSetTheorems, SequenceTheorems, WellFoundedInduction, TLAPS

-----------------------------------------------------------------------------
(* The arrays.                                                             *)

(* The place of the i-th of the numbers K.                                 *)
Rank(K, k)  == Cardinality({j \in K : j <= k})
Place(K, i) == CHOOSE k \in K : Rank(K, k) = i

(* A function on 1..n is a sequence of length n.                           *)
LEMMA FunctionIsSeq ==
  ASSUME NEW S, NEW n \in Nat, NEW f \in [1..n -> S]
  PROVE  f \in Seq(S) /\ Len(f) = n /\ DOMAIN f = 1..n
OBVIOUS

(* The number of elements of K that are not above one of them rises with   *)
(* it, from 1 to the number of all.                                        *)
LEMMA RankRises ==
  ASSUME NEW n \in Nat, NEW K \in SUBSET (1..n)
  PROVE  /\ IsFiniteSet(K) /\ Cardinality(K) \in Nat
         /\ \A k \in K : Rank(K, k) \in 1..Cardinality(K)
         /\ \A j, k \in K : j < k => Rank(K, j) < Rank(K, k)
<1>0. \A k \in K : k \in Nat
  OBVIOUS
<1>1. IsFiniteSet(K) /\ Cardinality(K) \in Nat
  <2>1. IsFiniteSet(1..n)
    BY FS_Interval
  <2>2. IsFiniteSet(K)
    BY <2>1, FS_Subset
  <2> QED BY <2>2, FS_CardinalityType
<1>2. \A k \in K : Rank(K, k) \in 1..Cardinality(K)
  <2>1. TAKE k \in K
  <2>2. {j \in K : j <= k} \in SUBSET K /\ k \in {j \in K : j <= k}
    BY <1>0
  <2>3. /\ IsFiniteSet({j \in K : j <= k}) /\ Rank(K, k) \in Nat
        /\ Rank(K, k) <= Cardinality(K)
    BY <1>1, <2>2, FS_Subset, FS_CardinalityType DEF Rank
  <2>4. Rank(K, k) # 0
    BY <2>2, <2>3, FS_EmptySet DEF Rank
  <2> QED BY <1>1, <2>3, <2>4
<1>3. ASSUME NEW j \in K, NEW k \in K, j < k PROVE Rank(K, j) < Rank(K, k)
  <2> DEFINE A == {i \in K : i <= j}
             B == {i \in K : i <= k}
  <2>1. A \in SUBSET B /\ B \in SUBSET K /\ k \in B /\ k \notin A
    <3>1. j \in Nat /\ k \in Nat /\ \A i \in K : i <= j => i <= k
      BY <1>0, <1>3
    <3>2. k <= k /\ ~(k <= j)
      BY <1>3, <3>1
    <3> QED BY <3>1, <3>2
  <2>2. IsFiniteSet(B)
    BY <1>1, <2>1, FS_Subset
  <2>3. Cardinality(A) <= Cardinality(B) /\ Cardinality(A) # Cardinality(B)
    BY <2>1, <2>2, FS_Subset
  <2>4. Cardinality(A) \in Nat /\ Cardinality(B) \in Nat
    BY <1>2 DEF Rank
  <2> QED BY <2>3, <2>4 DEF Rank
<1> QED BY <1>1, <1>2, <1>3

(* Every number up to that of all is one of those numbers.                 *)
LEMMA RankOnto ==
  ASSUME NEW n \in Nat, NEW K \in SUBSET (1..n)
  PROVE  \A i \in 1..Cardinality(K) : \E k \in K : Rank(K, k) = i
<1> DEFINE f == [k \in K |-> Rank(K, k)]
           T == 1..Cardinality(K)
<1>1. /\ IsFiniteSet(K) /\ Cardinality(K) \in Nat
      /\ \A k \in K : Rank(K, k) \in T
      /\ \A j, k \in K : j < k => Rank(K, j) < Rank(K, k)
  BY RankRises
<1>2. f \in Injection(K, T)
  <2>1. f \in [K -> T]
    BY <1>1
  <2>2. \A j, k \in K : f[j] = f[k] => j = k
    <3> SUFFICES ASSUME NEW j \in K, NEW k \in K, j # k PROVE f[j] # f[k]
      OBVIOUS
    <3>1. j < k \/ k < j
      OBVIOUS
    <3>2. Rank(K, j) \in T /\ Rank(K, k) \in T /\ T \subseteq Nat
      BY <1>1
    <3>3. Rank(K, j) < Rank(K, k) \/ Rank(K, k) < Rank(K, j)
      BY <1>1, <3>1
    <3> QED BY <3>2, <3>3
  <2> QED BY <2>1, <2>2 DEF Injection, IsInjective
<1>3. IsFiniteSet(T) /\ Cardinality(T) = Cardinality(K)
  BY <1>1, FS_Interval
<1>4. f \in Surjection(K, T)
  BY <1>2, <1>3, FS_Injection
<1> QED BY <1>4 DEF Surjection

(* What is left at the places K: they are taken in their order, each once. *)
LEMMA RemainingList ==
  ASSUME NEW S, NEW s \in Seq(S), NEW K \in SUBSET (1..Len(s))
  PROVE  /\ Remaining(s, K) \in Seq(S)
         /\ DOMAIN Remaining(s, K) = 1..Cardinality(K)
         /\ \A i \in DOMAIN Remaining(s, K) :
              Place(K, i) \in K /\ Remaining(s, K)[i] = s[Place(K, i)]
         /\ \A i, j \in DOMAIN Remaining(s, K) : i < j => Place(K, i) < Place(K, j)
         /\ \A k \in K : \E i \in DOMAIN Remaining(s, K) : Place(K, i) = k
<1> DEFINE r == Remaining(s, K)
<1>0. Len(s) \in Nat /\ s \in [1..Len(s) -> S] /\ \A k \in K : k \in Nat
  OBVIOUS
<1>1. /\ IsFiniteSet(K) /\ Cardinality(K) \in Nat
      /\ \A k \in K : Rank(K, k) \in 1..Cardinality(K)
      /\ \A j, k \in K : j < k => Rank(K, j) < Rank(K, k)
  BY <1>0, RankRises
<1>2. \A i \in 1..Cardinality(K) : Place(K, i) \in K /\ Rank(K, Place(K, i)) = i
  BY <1>0, RankOnto DEF Place
<1>3. r = [i \in 1..Cardinality(K) |-> s[Place(K, i)]]
  BY DEF Remaining, Place, Rank
<1>4. r \in [1..Cardinality(K) -> S]
  BY <1>0, <1>2, <1>3
<1>5. r \in Seq(S) /\ DOMAIN r = 1..Cardinality(K)
  BY <1>1, <1>4, FunctionIsSeq
<1>6. \A i, j \in DOMAIN r : i < j => Place(K, i) < Place(K, j)
  <2> SUFFICES ASSUME NEW i \in DOMAIN r, NEW j \in DOMAIN r, i < j,
                      ~(Place(K, i) < Place(K, j))
               PROVE  FALSE
    OBVIOUS
  <2>1. /\ Place(K, i) \in K /\ Place(K, j) \in K
        /\ Place(K, i) \in Nat /\ Place(K, j) \in Nat
    BY <1>0, <1>2, <1>5
  <2>2. Place(K, j) = Place(K, i) \/ Place(K, j) < Place(K, i)
    BY <2>1
  <2>3. Rank(K, Place(K, i)) = i /\ Rank(K, Place(K, j)) = j
    BY <1>2, <1>5
  <2>4. j = i \/ j < i
    BY <1>1, <2>1, <2>2, <2>3
  <2> QED BY <1>5, <2>4
<1>7. \A k \in K : \E i \in DOMAIN r : Place(K, i) = k
  <2> SUFFICES ASSUME NEW k \in K PROVE Place(K, Rank(K, k)) = k
    BY <1>1, <1>5
  <2> DEFINE l == Place(K, Rank(K, k))
  <2>1. l \in K /\ Rank(K, l) = Rank(K, k) /\ l \in Nat /\ k \in Nat
    BY <1>0, <1>1, <1>2
  <2>2. Rank(K, k) \in Nat
    BY <1>1
  <2>3. (l < k => Rank(K, l) < Rank(K, k)) /\ (k < l => Rank(K, k) < Rank(K, l))
    BY <1>1, <2>1
  <2>4. ~(Rank(K, k) < Rank(K, k))
    BY <2>2
  <2> QED BY <2>1, <2>3, <2>4
<1> QED BY <1>2, <1>3, <1>5, <1>6, <1>7

(* RemoveAt takes out the entry at k; those behind it move down.           *)
LEMMA RemoveAtPlace ==
  ASSUME NEW S, NEW s \in Seq(S), NEW k \in 1..Len(s)
  PROVE  RemoveAt(s, k) = Without(s, k) /\ Without(s, k) \in Seq(S)
<1> DEFINE a == SubSeq(s, 1, k - 1)
           b == SubSeq(s, k + 1, Len(s))
           w == Without(s, k)
           r == RemoveAt(s, k)
<1>0. /\ Len(s) \in Nat /\ s \in [1..Len(s) -> S] /\ k \in Nat
      /\ 1 <= k /\ k <= Len(s) /\ Len(s) - 1 \in Nat
  OBVIOUS
<1>1. a \in Seq(S) /\ Len(a) = k - 1 /\ \A i \in 1..(k - 1) : a[i] = s[i]
  <2>1. \A i \in 1..(k - 1) : s[i] \in S
    BY <1>0
  <2> QED BY <1>0, <2>1, SubSeqProperties
<1>2. b \in Seq(S) /\ Len(b) = Len(s) - k /\ \A i \in 1..(Len(s) - k) : b[i] = s[k + i]
  <2>1. \A i \in (k + 1)..Len(s) : s[i] \in S
    BY <1>0
  <2>2. /\ b \in Seq(S) /\ Len(b) = IF k + 1 <= Len(s) THEN Len(s) - (k + 1) + 1 ELSE 0
        /\ \A i \in 1..(Len(s) - (k + 1) + 1) : b[i] = s[(k + 1) + i - 1]
    BY <1>0, <2>1, SubSeqProperties
  <2>3. Len(b) = Len(s) - k
    <3>1. k + 1 <= Len(s) => Len(s) - (k + 1) + 1 = Len(s) - k
      BY <1>0
    <3>2. ~(k + 1 <= Len(s)) => Len(s) - k = 0
      <4>1. \A x, y \in Nat : y <= x /\ ~(y + 1 <= x) => x - y = 0
        OBVIOUS
      <4> QED BY <1>0, <4>1
    <3> HIDE DEF b
    <3> QED BY <2>2, <3>1, <3>2
  <2>4. ASSUME NEW i \in 1..(Len(s) - k) PROVE b[i] = s[k + i]
    <3>1. (k + 1) + i - 1 = k + i /\ i \in 1..(Len(s) - (k + 1) + 1)
      BY <1>0
    <3> QED BY <2>2, <3>1
  <2> QED BY <2>2, <2>3, <2>4
<1>3. w \in [1..(Len(s) - 1) -> S]
  BY <1>0 DEF Without
<1>4. w \in Seq(S) /\ Len(w) = Len(s) - 1
  <2> DEFINE m == Len(s) - 1
  <2>1. m \in Nat /\ w \in [1..m -> S]
    BY <1>0, <1>3
  <2> HIDE DEF m, w
  <2>2. w \in Seq(S) /\ Len(w) = m
    BY <2>1, FunctionIsSeq
  <2> QED BY <2>2 DEF m
<1> HIDE DEF a, b
<1>5. r = a \o b
  BY DEF RemoveAt, a, b
<1>6. /\ r \in Seq(S) /\ Len(r) = Len(a) + Len(b)
      /\ \A i \in 1..(Len(a) + Len(b)) : r[i] = IF i <= Len(a) THEN a[i] ELSE b[i - Len(a)]
  <2>1. a \in Seq(S) /\ b \in Seq(S)
    BY <1>1, <1>2
  <2> HIDE DEF r
  <2> QED BY <1>5, <2>1, ConcatProperties
<1>7. Len(r) = Len(w)
  BY <1>0, <1>1, <1>2, <1>4, <1>6
<1>8. \A i \in 1..Len(r) : r[i] = w[i]
  <2> SUFFICES ASSUME NEW i \in 1..(Len(s) - 1) PROVE r[i] = w[i]
    BY <1>4, <1>7
  <2>1. r[i] = IF i <= k - 1 THEN s[i] ELSE s[k + (i - (k - 1))]
    <3>1. r[i] = IF i <= k - 1 THEN a[i] ELSE b[i - (k - 1)]
      BY <1>0, <1>1, <1>2, <1>6
    <3>2. CASE i <= k - 1
      BY <1>0, <1>1, <3>1, <3>2
    <3>3. CASE ~(i <= k - 1)
      <4>1. i - (k - 1) \in 1..(Len(s) - k)
        BY <1>0, <3>3
      <4> QED BY <1>2, <3>1, <3>3, <4>1
    <3> QED BY <3>2, <3>3
  <2>2. w[i] = IF i < k THEN s[i] ELSE s[i + 1]
    BY <1>0 DEF Without
  <2>3. i < k <=> i <= k - 1
    BY <1>0
  <2>4. k + (i - (k - 1)) = i + 1
    BY <1>0
  <2> QED BY <2>1, <2>2, <2>3, <2>4
<1>9. r = w
  BY <1>4, <1>6, <1>7, <1>8, SeqEqual
<1> QED BY <1>4, <1>9

-----------------------------------------------------------------------------
(* Virtual hosts.                                                          *)

ShownHosts == Hosts \cup {NoHost}
KeptTypeOK(k) == k.wait \in [VNicks -> Nat] /\ k.vhost \in [VNicks -> ShownHosts]
VhostTypeOK ==
  /\ now \in Nat
  /\ wait \in [VNicks -> Nat] /\ vhost \in [VNicks -> ShownHosts]
  /\ table2 \in [VNicks -> ShownHosts] /\ table4 \in [VNicks -> ShownHosts]
  /\ given \in [VNicks -> Nat \cup {Never}]
  /\ KeptTypeOK(nickfile)

(* Unless it was eased, the wait counts from the last change.              *)
WaitFromGiven == \A n \in VNicks : n \in eased \/ given[n] = Never
                                   \/ wait[n] = given[n] + SixHours
VhostInv == VhostTypeOK /\ HostsOfNicks /\ WaitFromGiven

(* Who changes the tables and the waits: nothing but its own commands, its *)
(* save and its load.                                                      *)
LEMMA VhostSteps ==
  [Next]_vars => \/ (IpVirtualNext \/ save_nicks \/ load_nicks) /\ UNCHANGED now
                 \/ Tick /\ UNCHANGED vhostVars
                 \/ UNCHANGED <<now, vhostVars>>
<1> USE DEF Others
<1>1. Work => (IpVirtualNext /\ UNCHANGED now) \/ UNCHANGED <<now, vhostVars>>
  BY DEF Work
<1>2. Time => Tick /\ UNCHANGED vhostVars
  BY DEF Time
<1>3. Save => (save_nicks /\ UNCHANGED now) \/ UNCHANGED <<now, vhostVars>>
  BY DEF Save
<1>4. Restart => (load_nicks /\ UNCHANGED now) \/ UNCHANGED <<now, vhostVars>>
  BY DEF Restart
<1>5. UNCHANGED vars => UNCHANGED <<now, vhostVars>>
  BY DEF vars
<1> QED BY <1>1, <1>2, <1>3, <1>4, <1>5 DEF Next

(* A command on one nick: what it may leave in the tables and the waits.   *)
LEMMA VhostCommand ==
  ASSUME VhostInv, UNCHANGED now, NEW n \in VNicks,
         \/ \E h \in Hosts : do_cambia_vhost(n, h)
         \/ \E h \in ShownHosts : \/ do_activarhost(n, h) \/ os_vhost(n, h)
                                  \/ do_set_vhost(n, h) \/ ns_set_vhost(n, h)
         \/ do_anular_vhost(n) \/ do_borrarhost(n) \/ Register(n) \/ Drop(n) \/ SetBdd(n)
         \/ Suspend(n) \/ Unsuspend(n)
  PROVE  VhostInv'
<1> USE IpVirtualAssumption
<1>0. NoHost \in ShownHosts /\ Hosts \subseteq ShownHosts /\ Never = -1
  BY DEF ShownHosts, Never
<1>1. ASSUME NEW h \in Hosts, do_cambia_vhost(n, h) PROVE VhostInv'
  BY <1>0, <1>1 DEF do_cambia_vhost, VhostInv, VhostTypeOK, KeptTypeOK, HostsOfNicks,
     WaitFromGiven, Write4, Note, StrayIf, registration
<1>2. ASSUME NEW h \in ShownHosts, do_activarhost(n, h) PROVE VhostInv'
  BY <1>0, <1>2 DEF do_activarhost, VhostInv, VhostTypeOK, KeptTypeOK, HostsOfNicks,
     WaitFromGiven, Write2, Note, registration
<1>3. ASSUME NEW h \in ShownHosts, os_vhost(n, h) PROVE VhostInv'
  BY <1>0, <1>3 DEF os_vhost, VhostInv, VhostTypeOK, KeptTypeOK, HostsOfNicks,
     WaitFromGiven, Write2, registration
<1>4. ASSUME NEW h \in ShownHosts, do_set_vhost(n, h) PROVE VhostInv'
  BY <1>0, <1>4 DEF do_set_vhost, VhostInv, VhostTypeOK, KeptTypeOK, HostsOfNicks,
     WaitFromGiven, Write4, registration
<1>5. ASSUME NEW h \in ShownHosts, ns_set_vhost(n, h) PROVE VhostInv'
  BY <1>0, <1>5 DEF ns_set_vhost, VhostInv, VhostTypeOK, KeptTypeOK, HostsOfNicks,
     WaitFromGiven, Write4, Note, registration
<1>6. ASSUME do_anular_vhost(n) PROVE VhostInv'
  BY <1>0, <1>6 DEF do_anular_vhost, VhostInv, VhostTypeOK, KeptTypeOK, HostsOfNicks,
     WaitFromGiven, Write4, Note, registration
<1>7. ASSUME Register(n) PROVE VhostInv'
  BY <1>7 DEF Register, VhostInv, VhostTypeOK, KeptTypeOK, HostsOfNicks, WaitFromGiven
<1>8. ASSUME Drop(n) PROVE VhostInv'
  BY <1>0, <1>8 DEF Drop, VhostInv, VhostTypeOK, KeptTypeOK, HostsOfNicks, WaitFromGiven, Note
<1>9. ASSUME SetBdd(n) PROVE VhostInv'
  BY <1>0, <1>9 DEF SetBdd, VhostInv, VhostTypeOK, KeptTypeOK, HostsOfNicks, WaitFromGiven
<1>10. ASSUME Suspend(n) \/ Unsuspend(n) PROVE VhostInv'
  BY <1>10 DEF Suspend, Unsuspend, VhostInv, VhostTypeOK, KeptTypeOK, HostsOfNicks, WaitFromGiven
<1>11. do_borrarhost(n) => do_activarhost(n, NoHost)
  BY DEF do_borrarhost
<1> QED BY <1>0, <1>1, <1>2, <1>3, <1>4, <1>5, <1>6, <1>7, <1>8, <1>9, <1>10, <1>11

(* The file takes what there is, and a start loads what it holds.          *)
LEMMA VhostFile ==
  ASSUME VhostInv, UNCHANGED now, save_nicks \/ load_nicks
  PROVE  VhostInv'
<1>1. CASE save_nicks
  BY <1>1 DEF save_nicks, Kept, VhostInv, VhostTypeOK, KeptTypeOK, HostsOfNicks, WaitFromGiven
<1>2. CASE load_nicks
  BY <1>2 DEF load_nicks, VhostInv, VhostTypeOK, KeptTypeOK, HostsOfNicks, WaitFromGiven
<1> QED BY <1>1, <1>2

(* The invariant of the virtual hosts.                                     *)
LEMMA VhostInvariant == Spec => []VhostInv
<1>1. Init => VhostInv
  BY DEF Init, IpVirtualInit, None4All, Kept, VhostInv, VhostTypeOK, KeptTypeOK, HostsOfNicks,
     WaitFromGiven, ShownHosts
<1>2. VhostInv /\ [Next]_vars => VhostInv'
  <2> SUFFICES ASSUME VhostInv, [Next]_vars PROVE VhostInv'
    OBVIOUS
  <2>1. CASE IpVirtualNext /\ UNCHANGED now
    BY <2>1, VhostCommand DEF IpVirtualNext, ShownHosts
  <2>2. CASE (save_nicks \/ load_nicks) /\ UNCHANGED now
    BY <2>2, VhostFile
  <2>3. CASE UNCHANGED vhostVars /\ now' \in Nat
    BY <2>3 DEF vhostVars, VhostInv, VhostTypeOK, KeptTypeOK, HostsOfNicks, WaitFromGiven
  <2>4. Tick \/ UNCHANGED now => now' \in Nat
    BY DEF Tick, VhostInv, VhostTypeOK
  <2> QED BY <2>1, <2>2, <2>3, <2>4, VhostSteps
<1> QED BY <1>1, <1>2, PTL DEF Spec

(* No command, drop or restart leaves a host in the tables of the network  *)
(* for a nick that is not in the BDD, but for the two exceptions.          *)
THEOREM HostsCorrect == Spec => []HostsOfNicks
<1>1. VhostInv => HostsOfNicks
  BY DEF VhostInv
<1> QED BY <1>1, VhostInvariant, PTL

(* Two changes of the user's in one registration are six hours apart.      *)
THEOREM SixHoursCorrect == Spec => SixHoursApart
<1> DEFINE Apart == \A n \in VNicks :
             given'[n] # given[n] /\ given[n] # Never /\ given'[n] # Never /\ n \notin eased
             => given'[n] >= given[n] + SixHours
<1>1. ASSUME VhostInv, [Next]_vars PROVE [Apart]_vhostVars
  <2> USE <1>1 DEF VhostInv, VhostTypeOK, WaitFromGiven
  <2> SUFFICES ASSUME vhostVars' # vhostVars, NEW n \in VNicks,
                      given'[n] # given[n], given[n] # Never, given'[n] # Never, n \notin eased
               PROVE  given'[n] >= given[n] + SixHours
    OBVIOUS
  <2>1. \E h \in Hosts : do_cambia_vhost(n, h)
    <3>1. ASSUME NEW m \in VNicks, NEW h \in Hosts, do_cambia_vhost(m, h) PROVE m = n
      BY <3>1 DEF do_cambia_vhost
    <3>2. ASSUME NEW m \in VNicks, Drop(m) PROVE FALSE
      BY <3>2 DEF Drop
    <3>3. ASSUME load_nicks PROVE FALSE
      BY <3>3 DEF load_nicks
    <3>4. ASSUME NEW m \in VNicks,
                 \/ \E h \in ShownHosts : \/ do_activarhost(m, h) \/ os_vhost(m, h)
                                          \/ do_set_vhost(m, h) \/ ns_set_vhost(m, h)
                 \/ do_anular_vhost(m) \/ do_borrarhost(m) \/ Register(m) \/ SetBdd(m)
                 \/ Suspend(m) \/ Unsuspend(m)
          PROVE  FALSE
      BY <3>4 DEF do_activarhost, os_vhost, do_set_vhost, ns_set_vhost, do_anular_vhost,
         do_borrarhost, Register, SetBdd, Suspend, Unsuspend
    <3>5. ~save_nicks
      BY DEF save_nicks
    <3>6. ~UNCHANGED vhostVars
      OBVIOUS
    <3> QED BY <1>1, <3>1, <3>2, <3>3, <3>4, <3>5, <3>6, VhostSteps DEF IpVirtualNext, ShownHosts
  <2> QED BY <2>1, IpVirtualAssumption DEF do_cambia_vhost
<1> QED BY <1>1, VhostInvariant, PTL DEF Spec, SixHoursApart

-----------------------------------------------------------------------------
(* Memos.                                                                  *)

Memo == [number : 0..MaxNumber, from : Senders, unread : BOOLEAN]
MemoInv == memos \in Seq(Memo) /\ NumbersIncrease

(* The memos are numbered by natural numbers.                              *)
LEMMA MemoNumbers ==
  ASSUME MemoInv
  PROVE  /\ Len(memos) \in Nat /\ DOMAIN memos = 1..Len(memos)
         /\ \A i \in 1..Len(memos) : memos[i] \in Memo /\ memos[i].number \in Nat
<1>1. /\ Len(memos) \in Nat /\ DOMAIN memos = 1..Len(memos)
      /\ \A i \in 1..Len(memos) : memos[i] \in Memo
  BY DEF MemoInv
<1>2. \A m \in Memo : m.number \in Nat
  BY MemoAssumption DEF Memo
<1> QED BY <1>1, <1>2

(* Who changes the mailbox: the commands of MemoServ, and what becomes of  *)
(* the nick or the channel.                                                *)
LEMMA MemoSteps == [Next]_vars => MemoNext \/ UNCHANGED memoVars
BY DEF Next, Work, Time, Save, Restart, Others, vars

(* The number after the last one wraps to 0.                               *)
LEMMA NextWraps ==
  ASSUME NEW x \in 0..MaxNumber
  PROVE  (x + 1) % (MaxNumber + 1) = IF x = MaxNumber THEN 0 ELSE x + 1
BY MemoAssumption

(* A new memo has a number above those of all others, or all get new ones. *)
LEMMA SentRises ==
  ASSUME MemoInv, NEW u \in Senders, Len(memos) < MaxMemos, memos' = Sent(memos, u)
  PROVE  MemoInv'
<1>0. /\ Len(memos) \in Nat /\ DOMAIN memos = 1..Len(memos)
      /\ MaxNumber \in Nat /\ MaxMemos \in Nat /\ MaxMemos < MaxNumber
      /\ \A i \in 1..Len(memos) : memos[i] \in Memo
  BY MemoAssumption DEF MemoInv
<1> DEFINE n == Len(memos) + 1
           next == NextNumber(memos)
<1>1. /\ next \in 0..MaxNumber
      /\ next >= 1 => \A i \in 1..Len(memos) : memos[i].number < next
  <2>1. CASE memos = <<>>
    BY <1>0, <2>1 DEF NextNumber
  <2>2. CASE memos # <<>>
    <3>1. Len(memos) \in DOMAIN memos
      BY <1>0, <2>2 DEF MemoInv
    <3> DEFINE last == memos[Len(memos)].number
    <3>2. last \in 0..MaxNumber
      BY <1>0, <3>1 DEF Memo
    <3>3. next = IF last = MaxNumber THEN 0 ELSE last + 1
      BY <2>2, <3>2, NextWraps DEF NextNumber
    <3>4. ASSUME NEW i \in 1..Len(memos)
          PROVE  memos[i].number \in Nat /\ memos[i].number <= last
      <4>1. memos[i].number \in Nat /\ last \in Nat
        BY <3>1, MemoNumbers
      <4>2. i = Len(memos) \/ i < Len(memos)
        <5>1. \A x, y \in Nat : x <= y => (x = y \/ x < y)
          OBVIOUS
        <5>2. i \in Nat /\ i <= Len(memos)
          BY <1>0
        <5> QED BY <1>0, <5>1, <5>2
      <4>3. i < Len(memos) => memos[i].number < last
        BY <1>0, <3>1 DEF MemoInv, NumbersIncrease
      <4> HIDE DEF last
      <4>4. i = Len(memos) => memos[i].number = last
        BY DEF last
      <4> QED BY <4>1, <4>2, <4>3, <4>4
    <3> HIDE DEF last, next
    <3> QED BY <1>0, <3>2, <3>3, <3>4
  <2> QED BY <2>1, <2>2
<1> HIDE DEF next
<1>2. memos' = [i \in 1..n |->
        [number |-> IF next < 1 THEN i ELSE IF i <= Len(memos) THEN memos[i].number ELSE next,
         from   |-> IF i <= Len(memos) THEN memos[i].from ELSE u,
         unread |-> IF i <= Len(memos) THEN memos[i].unread ELSE TRUE]]
  BY DEF Sent, next
<1>3. \A i \in 1..n : memos'[i].number = IF next < 1 THEN i
                                         ELSE IF i <= Len(memos) THEN memos[i].number ELSE next
  BY <1>2
<1>4. \A i \in 1..n : memos'[i] \in Memo
  <2>1. TAKE i \in 1..n
  <2>2. i \in 0..MaxNumber
    BY <1>0
  <2>3. i <= Len(memos) => memos[i] \in Memo
    BY <1>0
  <2> DEFINE num   == IF next < 1 THEN i ELSE IF i <= Len(memos) THEN memos[i].number ELSE next
             from  == IF i <= Len(memos) THEN memos[i].from ELSE u
             fresh == IF i <= Len(memos) THEN memos[i].unread ELSE TRUE
  <2>4. memos'[i] = [number |-> num, from |-> from, unread |-> fresh]
    BY <1>2
  <2>5. num \in 0..MaxNumber
    BY <1>0, <1>1, <2>2, <2>3 DEF Memo
  <2>6. from \in Senders /\ fresh \in BOOLEAN
    BY <2>3 DEF Memo
  <2> HIDE DEF num, from, fresh
  <2> QED BY <2>4, <2>5, <2>6 DEF Memo
<1>5. memos' \in Seq(Memo) /\ DOMAIN memos' = 1..n
  <2>1. n \in Nat
    BY <1>0
  <2>2. DOMAIN memos' = 1..n /\ memos' = [i \in 1..n |-> memos'[i]]
    BY <1>2
  <2>3. memos' \in [1..n -> Memo]
    BY <1>4, <2>2
  <2> QED BY <2>1, <2>3, FunctionIsSeq
<1>6. \A i, j \in 1..n : i < j => memos'[i].number < memos'[j].number
  BY <1>0, <1>1, <1>3 DEF MemoInv, NumbersIncrease
<1> QED BY <1>5, <1>6 DEF MemoInv, NumbersIncrease

(* A memo goes.                                                            *)
LEMMA GoneRises ==
  ASSUME MemoInv, NEW k \in DOMAIN memos, memos' = Without(memos, k)
  PROVE  MemoInv'
<1>1. /\ Len(memos) \in Nat /\ DOMAIN memos = 1..Len(memos) /\ k \in 1..Len(memos)
      /\ \A i \in 1..Len(memos) : memos[i].number \in Nat
  BY MemoNumbers
<1>2. memos' \in Seq(Memo)
  BY <1>1, RemoveAtPlace DEF MemoInv
<1>3. NumbersIncrease'
  <2> DEFINE at(i) == IF i < k THEN i ELSE i + 1
  <2>1. /\ DOMAIN memos' = 1..(Len(memos) - 1)
        /\ \A i \in 1..(Len(memos) - 1) : memos'[i] = memos[at(i)]
    BY DEF Without
  <2>2. ASSUME NEW i \in DOMAIN memos', NEW j \in DOMAIN memos', i < j
        PROVE  memos'[i].number < memos'[j].number
    <3>1. at(i) \in DOMAIN memos /\ at(j) \in DOMAIN memos /\ at(i) < at(j)
      BY <1>1, <2>1, <2>2
    <3>2. memos'[i] = memos[at(i)] /\ memos'[j] = memos[at(j)]
      BY <2>1
    <3> HIDE DEF at
    <3>3. memos[at(i)].number < memos[at(j)].number
      BY <3>1 DEF MemoInv, NumbersIncrease
    <3> QED BY <3>2, <3>3
  <2> QED BY <2>2 DEF NumbersIncrease
<1> QED BY <1>2, <1>3 DEF MemoInv

(* Memos are marked as read.                                               *)
LEMMA ReadRises ==
  ASSUME MemoInv, NEW read, read_memo(read)
  PROVE  MemoInv'
<1>1. Len(memos) \in Nat /\ DOMAIN memos = 1..Len(memos) /\ \A i \in 1..Len(memos) : memos[i] \in Memo
  BY DEF MemoInv
<1>2. /\ DOMAIN memos' = DOMAIN memos
      /\ \A i \in DOMAIN memos : memos'[i].number = memos[i].number /\ memos'[i] \in Memo
  <2>1. \A i \in DOMAIN memos : (memos[i].unread /\ i \notin read) \in BOOLEAN
    BY <1>1
  <2> QED BY <1>1, <2>1 DEF read_memo, Memo
<1>3. memos' \in [1..Len(memos) -> Memo]
  BY <1>1, <1>2 DEF read_memo
<1>4. memos' \in Seq(Memo)
  BY <1>1, <1>3, FunctionIsSeq
<1> QED BY <1>2, <1>4 DEF MemoInv, NumbersIncrease

(* The invariant of a mailbox.                                             *)
LEMMA MemoInvariant == Spec => []MemoInv
<1>0. \A S : <<>> \in Seq(S) /\ DOMAIN <<>> = {}
  OBVIOUS
<1>1. Init => MemoInv
  BY <1>0 DEF Init, MemoInit, MemoInv, NumbersIncrease
<1>2. MemoInv /\ [Next]_vars => MemoInv'
  <2> SUFFICES ASSUME MemoInv, [Next]_vars PROVE MemoInv'
    OBVIOUS
  <2>1. ASSUME memos' = <<>> PROVE MemoInv'
    BY <1>0, <2>1 DEF MemoInv, NumbersIncrease
  <2>2. ASSUME NEW num, delmemo(num) PROVE MemoInv'
    BY <2>2, GoneRises DEF delmemo
  <2>3. ASSUME UNCHANGED memos PROVE MemoInv'
    BY <2>3 DEF MemoInv, NumbersIncrease
  <2>4. ASSUME NEW u \in Senders, do_send(u) PROVE MemoInv'
    BY <2>4, SentRises DEF do_send
  <2>5. ASSUME NEW u \in Senders, do_cancel(u) PROVE MemoInv'
    BY <2>5, <2>2 DEF do_cancel
  <2>6. ASSUME NEW u \in Senders, do_read(u) PROVE MemoInv'
    BY <2>6, ReadRises DEF do_read
  <2>7. ASSUME NEW u \in Senders, do_del(u) PROVE MemoInv'
    BY <2>7, <2>1, <2>2 DEF do_del
  <2>8. ASSUME NEW u \in Senders, NEW max \in -1..MaxMemos, NEW hard \in BOOLEAN,
               do_set_limit(u, max, hard)
        PROVE  MemoInv'
    BY <2>8, <2>3 DEF do_set_limit
  <2>9. NewBox \/ FreeBox => MemoInv'
    BY <2>1 DEF NewBox, FreeBox
  <2>10. UNCHANGED memoVars => MemoInv'
    BY <2>3 DEF memoVars
  <2> QED BY <2>4, <2>5, <2>6, <2>7, <2>8, <2>9, <2>10, MemoSteps DEF MemoNext
<1> QED BY <1>1, <1>2, PTL DEF Spec

(* CANCEL takes back a memo of its user's that nobody has read, and that   *)
(* one only, whatever the numbers have been through.                       *)
THEOREM CancelCorrect == Spec => CancelOwn
<1> DEFINE Own == \A u \in Senders : do_cancel(u) =>
                    \E k \in DOMAIN memos : /\ memos[k].from = u /\ memos[k].unread
                                            /\ memos' = Without(memos, k)
<1>1. ASSUME MemoInv PROVE Own
  <2> SUFFICES ASSUME NEW u \in Senders, do_cancel(u)
               PROVE  \E k \in DOMAIN memos : /\ memos[k].from = u /\ memos[k].unread
                                              /\ memos' = Without(memos, k)
    OBVIOUS
  <2>1. PICK k \in DOMAIN memos : LastOwn(u, k) /\ delmemo(memos[k].number)
    BY DEF do_cancel
  <2>2. PICK l \in DOMAIN memos : HasNumber(memos, l, memos[k].number) /\ memos' = Without(memos, l)
    BY <2>1 DEF delmemo
  <2>3. l = k
    <3>1. /\ DOMAIN memos \subseteq Nat
          /\ \A i \in DOMAIN memos : memos[i].number \in Nat
      BY <1>1, MemoNumbers
    <3>2. memos[l].number = memos[k].number
      BY <2>2 DEF HasNumber
    <3>3. ~(l < k) /\ ~(k < l)
      BY <1>1, <3>1, <3>2 DEF MemoInv, NumbersIncrease
    <3> QED BY <3>1, <3>3
  <2> QED BY <2>1, <2>2, <2>3 DEF LastOwn
<1> QED BY <1>1, MemoInvariant, PTL DEF CancelOwn

-----------------------------------------------------------------------------
(* The first and the last place of an array that is looked for.            *)

(* A set of natural numbers that is not empty has a least one.             *)
LEMMA LeastIn ==
  ASSUME NEW I \in SUBSET Nat, I # {}
  PROVE  Min(I) \in I /\ \A y \in I : Min(I) <= y
<1> DEFINE R == OpToRel(<, Nat)
<1>1. IsWellFoundedOn(R, Nat)
  BY NatLessThanWellFounded, Zenon
<1>2. \A x, y \in Nat : x < y => <<x, y>> \in R
  BY Zenon DEF OpToRel
<1>3. PICK x \in I : \A y \in I : <<y, x>> \notin R
  <2> HIDE DEF R
  <2> QED BY <1>1, WFMin
<1> HIDE DEF R
<1>4. ASSUME NEW y \in I PROVE x <= y
  <2>1. ~(y < x)
    BY <1>2, <1>3
  <2> QED BY <2>1
<1>5. \E z \in I : \A y \in I : z <= y
  BY <1>4
<1> QED BY <1>5 DEF Min

(* A set of places of an array that is not empty has a greatest one.       *)
LEMMA GreatestIn ==
  ASSUME NEW n \in Nat, NEW I \in SUBSET (1..n), I # {}
  PROVE  Max(I) \in I /\ \A y \in I : y <= Max(I)
<1> DEFINE J == {j \in 0..n : n - j \in I}
<1>1. \A i \in I : i \in 1..n /\ n - i \in J /\ n - (n - i) = i
  OBVIOUS
<1>2. J \in SUBSET Nat /\ J # {} /\ \A j \in J : n - j \in I
  <2>1. J \in SUBSET Nat
    OBVIOUS
  <2>2. \A j \in J : n - j \in I
    OBVIOUS
  <2>3. \E i \in I : n - i \in J
    BY <1>1
  <2> QED BY <2>1, <2>2, <2>3
<1> HIDE DEF J
<1>3. PICK j \in J : j = Min(J) /\ \A y \in J : j <= y
  BY <1>2, LeastIn
<1>4. ASSUME NEW y \in I PROVE n - j >= y
  <2>1. j <= n - y /\ y \in Nat /\ j \in Nat
    BY <1>1, <1>2, <1>3
  <2> QED BY <2>1
<1>5. \E x \in I : \A y \in I : x >= y
  BY <1>2, <1>4
<1>6. PICK x \in I : x = Max(I) /\ \A y \in I : x >= y
  BY <1>5 DEF Max
<1> QED BY <1>6

(* No command turns the clock back.                                        *)
LEMMA ClockSteps == now \in Nat /\ [Next]_vars => now' \in Nat
<1>1. [Next]_vars => now' = now \/ Tick
  BY DEF Next, Work, Time, Save, Restart, vars
<1> QED BY <1>1 DEF Tick

-----------------------------------------------------------------------------
(* What is left of an array.                                               *)

(* t holds the entries of s at the places K, in their order.               *)
Selected(t, s, K) ==
  \E f \in [DOMAIN t -> K] :
    /\ \A i \in DOMAIN t : t[i] = s[f[i]]
    /\ \A i, j \in DOMAIN t : i < j => f[i] < f[j]
    /\ \A k \in K : \E i \in DOMAIN t : f[i] = k

(* Places that rise are different.                                         *)
LEMMA RisingDiffer ==
  ASSUME NEW D \in SUBSET Nat, NEW K \in SUBSET Nat, NEW f \in [D -> K],
         \A i, j \in D : i < j => f[i] < f[j]
  PROVE  \A i, j \in D : f[i] = f[j] => i = j
<1> SUFFICES ASSUME NEW i \in D, NEW j \in D, i # j PROVE f[i] # f[j]
  OBVIOUS
<1>1. i < j \/ j < i
  OBVIOUS
<1>2. f[i] \in Nat /\ f[j] \in Nat
  OBVIOUS
<1> QED BY <1>1, <1>2

(* A loop that takes entries out, or memmove.                              *)
LEMMA RemainingSelected ==
  ASSUME NEW S, NEW s \in Seq(S), NEW K \in SUBSET (1..Len(s))
  PROVE  Remaining(s, K) \in Seq(S) /\ Selected(Remaining(s, K), s, K)
<1> DEFINE r == Remaining(s, K)
           f == [i \in DOMAIN r |-> Place(K, i)]
<1>1. /\ r \in Seq(S)
      /\ \A i \in DOMAIN r : Place(K, i) \in K /\ r[i] = s[Place(K, i)]
      /\ \A i, j \in DOMAIN r : i < j => Place(K, i) < Place(K, j)
      /\ \A k \in K : \E i \in DOMAIN r : Place(K, i) = k
  BY RemainingList
<1> HIDE DEF r
<1>2. f \in [DOMAIN r -> K] /\ \A i \in DOMAIN r : f[i] = Place(K, i)
  BY <1>1
<1> HIDE DEF f
<1>3. Selected(r, s, K)
  BY <1>1, <1>2 DEF Selected
<1> QED BY <1>1, <1>3 DEF r

(* The same for one entry.                                                 *)
LEMMA WithoutSelected ==
  ASSUME NEW S, NEW s \in Seq(S), NEW k \in 1..Len(s)
  PROVE  Selected(Without(s, k), s, (1..Len(s)) \ {k})
<1> DEFINE w == Without(s, k)
           D == 1..(Len(s) - 1)
           K == (1..Len(s)) \ {k}
           f == [i \in D |-> IF i < k THEN i ELSE i + 1]
<1>0. Len(s) \in Nat /\ k \in Nat /\ 1 <= k /\ k <= Len(s)
  OBVIOUS
<1>1. w = [i \in D |-> s[IF i < k THEN i ELSE i + 1]] /\ DOMAIN w = D
  BY DEF Without
<1>2. \A i \in D : f[i] = IF i < k THEN i ELSE i + 1
  OBVIOUS
<1>3. f \in [D -> K]
  <2>1. \A i \in D : (IF i < k THEN i ELSE i + 1) \in K
    BY <1>0
  <2> QED BY <2>1
<1>4. \A i, j \in D : i < j => f[i] < f[j]
  BY <1>0
<1>5. \A l \in K : \E i \in D : f[i] = l
  <2> SUFFICES ASSUME NEW l \in K PROVE \E i \in D : f[i] = l
    OBVIOUS
  <2>1. CASE l < k
    <3>1. l \in D
      BY <1>0, <2>1
    <3> QED BY <1>2, <2>1, <3>1
  <2>2. CASE ~(l < k)
    <3>1. l - 1 \in D /\ ~(l - 1 < k) /\ (l - 1) + 1 = l
      BY <1>0, <2>2
    <3> QED BY <1>2, <3>1
  <2> QED BY <2>1, <2>2
<1>6. \A i \in D : w[i] = s[f[i]]
  BY <1>1, <1>2
<1> HIDE DEF w, f, K, D
<1>7. f \in [DOMAIN w -> K]
  BY <1>1, <1>3
<1>8. /\ \A i \in DOMAIN w : w[i] = s[f[i]]
      /\ \A i, j \in DOMAIN w : i < j => f[i] < f[j]
      /\ \A l \in K : \E i \in DOMAIN w : f[i] = l
  BY <1>1, <1>4, <1>5, <1>6
<1>9. Selected(w, s, K)
  BY <1>7, <1>8 DEF Selected
<1> QED BY <1>9 DEF w, K

(* What RemoveFirstMatch leaves, when I are the places of those that match.*)
FirstOut(s, I) == IF I # {} THEN RemoveAt(s, Min(I)) ELSE s

(* One of those that match goes, or there is none.                         *)
LEMMA FirstGoes ==
  ASSUME NEW S, NEW s \in Seq(S), NEW I \in SUBSET (1..Len(s))
  PROVE  /\ FirstOut(s, I) \in Seq(S)
         /\ \/ FirstOut(s, I) = s /\ I = {}
            \/ \E k \in I : /\ FirstOut(s, I) = Without(s, k)
                           /\ Selected(FirstOut(s, I), s, (1..Len(s)) \ {k})
<1> DEFINE t == FirstOut(s, I)
<1>1. CASE I = {}
  BY <1>1 DEF FirstOut
<1>2. CASE I # {}
  <2>1. I \in SUBSET Nat
    OBVIOUS
  <2>2. PICK k \in I : k = Min(I)
    BY <1>2, <2>1, LeastIn
  <2>3. k \in 1..Len(s) /\ t = RemoveAt(s, k)
    BY <1>2, <2>2 DEF FirstOut
  <2>4. t = Without(s, k) /\ t \in Seq(S)
    BY <2>3, RemoveAtPlace
  <2>5. Selected(t, s, (1..Len(s)) \ {k})
    BY <2>3, <2>4, WithoutSelected
  <2> QED BY <2>4, <2>5
<1> QED BY <1>1, <1>2

-----------------------------------------------------------------------------
(* AKILLs.                                                                 *)

Akill == [mask : Masks, expires : Nat]
AkillInv == now \in Nat /\ akills \in Seq(Akill) /\ akillfile \in Seq(Akill) /\ GlinesListed

(* Who changes the list and the G-lines: its commands, its save, its load. *)
LEMMA AkillSteps ==
  [Next]_vars => AkillsNext \/ save_akill \/ load_akill \/ UNCHANGED akillVars
BY DEF Next, Work, Time, Save, Restart, Others, vars

(* del_akill takes out one entry with the mask, or none is there.          *)
LEMMA AkillGoes ==
  ASSUME akills \in Seq(Akill), NEW m, del_akill(m)
  PROVE  /\ akills' \in Seq(Akill)
         /\ \A x \in Masks \ {m} : Listed(x) => Listed(x)'
<1> DEFINE I == {i \in 1..Len(akills) : akills[i].mask = m}
<1>1. akills' = FirstOut(akills, I)
  BY DEF del_akill, RemoveFirstMatch, SelectInSeq, FirstOut
<1>2. I \in SUBSET (1..Len(akills)) /\ \A k \in I : akills[k].mask = m
  OBVIOUS
<1> HIDE DEF I
<1>3. /\ akills' \in Seq(Akill)
      /\ \/ akills' = akills
         \/ \E k \in I : Selected(akills', akills, (1..Len(akills)) \ {k})
  BY <1>1, <1>2, FirstGoes
<1>4. CASE akills' = akills
  BY <1>3, <1>4 DEF Listed
<1>5. ASSUME NEW k \in I, Selected(akills', akills, (1..Len(akills)) \ {k})
      PROVE  \A x \in Masks \ {m} : Listed(x) => Listed(x)'
  BY <1>2, <1>5 DEF Selected, Listed
<1> QED BY <1>3, <1>4, <1>5

(* add_akill makes an entry, or the list is full.                          *)
LEMMA AkillComes ==
  ASSUME akills \in Seq(Akill), NEW m \in Masks, NEW due \in Nat, add_akill(m, due)
  PROVE  /\ akills' \in Seq(Akill)
         /\ \A x : Listed(x) => Listed(x)'
         /\ Len(akills) < FullAkills => Listed(m)'
<1> DEFINE e == [mask |-> m, expires |-> due]
<1>0. e \in Akill /\ Len(akills) \in Nat /\ FullAkills \in Nat /\ e.mask = m
  BY AkillsAssumption DEF Akill
<1>1. CASE Len(akills) >= FullAkills
  BY <1>0, <1>1 DEF add_akill, Listed
<1>2. CASE ~(Len(akills) >= FullAkills)
  <2>1. akills' = Append(akills, e)
    BY <1>2 DEF add_akill
  <2> HIDE DEF e
  <2>2. /\ akills' \in Seq(Akill) /\ DOMAIN akills' = 1..(Len(akills) + 1)
        /\ \A i \in DOMAIN akills : i \in DOMAIN akills' /\ akills'[i] = akills[i]
        /\ akills'[Len(akills) + 1] = e
    BY <1>0, <2>1
  <2>3. Len(akills) + 1 \in DOMAIN akills'
    BY <1>0, <2>2
  <2> QED BY <1>0, <2>2, <2>3 DEF Listed
<1> QED BY <1>1, <1>2

(* Entries expire, and their masks with them.                              *)
LEMMA AkillExpires ==
  ASSUME AkillInv, expire_akills
  PROVE  akills' \in Seq(Akill) /\ GlinesListed'
<1> DEFINE over == {i \in DOMAIN akills : akills[i].expires # 0 /\ akills[i].expires <= now}
           ended == {akills[i].mask : i \in over}
           K == DOMAIN akills \ over
<1>1. K \in SUBSET (1..Len(akills)) /\ akills \in Seq(Akill)
  BY DEF AkillInv
<1>2. akills' = Remaining(akills, K) /\ glines' = glines \ ended /\ loose' = loose \ ended
  BY DEF expire_akills
<1>3. /\ akills' \in Seq(Akill)
      /\ \A i \in DOMAIN akills' : Place(K, i) \in K /\ akills'[i] = akills[Place(K, i)]
      /\ \A k \in K : \E i \in DOMAIN akills' : Place(K, i) = k
  <2> HIDE DEF K
  <2> QED BY <1>1, <1>2, RemainingList
<1>4. ASSUME NEW m \in glines', m \notin loose' PROVE Listed(m)'
  <2>1. m \in glines /\ m \notin ended /\ m \notin loose
    BY <1>2, <1>4
  <2>2. PICK i \in DOMAIN akills : akills[i].mask = m
    BY <2>1 DEF AkillInv, GlinesListed, Listed
  <2>3. i \in K
    BY <2>1, <2>2
  <2> HIDE DEF K
  <2>4. PICK j \in DOMAIN akills' : akills'[j] = akills[i]
    BY <1>3, <2>3
  <2> QED BY <2>2, <2>4 DEF Listed
<1> QED BY <1>3, <1>4 DEF GlinesListed

(* Every other step but a load keeps a ban in the list or loose.           *)
LEMMA AkillCommand ==
  ASSUME AkillInv, AkillsNext
  PROVE  akills' \in Seq(Akill) /\ akillfile' = akillfile /\ GlinesListed'
<1> USE DEF AkillInv, GlinesListed, Gline, Ungline
<1>0. \A d \in {"5m", "1h", "6h", "7d", "1d"} : now + Dotime[d] \in Nat
  BY AkillsAssumption
<1>1. ASSUME NEW m \in Masks, NEW span \in Spans, do_akill_add(m, span)
      PROVE  akills' \in Seq(Akill) /\ akillfile' = akillfile /\ GlinesListed'
  <2>1. (IF span = 0 THEN 0 ELSE now + span) \in Nat
    BY AkillsAssumption
  <2>2. akills' \in Seq(Akill) /\ Listed(m)' /\ \A x : Listed(x) => Listed(x)'
    BY <1>1, <2>1, AkillComes DEF do_akill_add
  <2> QED BY <1>1, <2>2 DEF do_akill_add
<1>2. ASSUME NEW m \in Masks, NEW span \in Nat, now + span \in Nat, x_block(m, span)
      PROVE  akills' \in Seq(Akill) /\ akillfile' = akillfile /\ GlinesListed'
  <2>1. /\ akills' \in Seq(Akill) /\ \A x : Listed(x) => Listed(x)'
        /\ Len(akills) < FullAkills => Listed(m)'
    BY <1>2, AkillComes DEF x_block
  <2>2. Len(akills) >= FullAkills \/ Len(akills) < FullAkills
    BY AkillsAssumption
  <2>3. glines' = glines \cup {m} /\ akillfile' = akillfile
    BY <1>2 DEF x_block
  <2>4. loose' = IF Len(akills) >= FullAkills THEN loose \cup {m} ELSE loose
    BY <1>2 DEF x_block
  <2> QED BY <2>1, <2>2, <2>3, <2>4
<1>3. ASSUME NEW m \in Masks, del_akill(m), Ungline(m), UNCHANGED akillfile
      PROVE  akills' \in Seq(Akill) /\ akillfile' = akillfile /\ GlinesListed'
  <2>1. akills' \in Seq(Akill) /\ \A x \in Masks \ {m} : Listed(x) => Listed(x)'
    BY <1>3, AkillGoes
  <2>2. \A x : Listed(x) => x \in Masks
    <3>1. \A i \in DOMAIN akills : akills[i] \in Akill
      OBVIOUS
    <3>2. \A e \in Akill : e.mask \in Masks
      BY DEF Akill
    <3> QED BY <3>1, <3>2 DEF Listed
  <2> QED BY <1>3, <2>1, <2>2
<1>4. ASSUME NEW m \in Masks, os_block(m)
      PROVE  akills' \in Seq(Akill) /\ akillfile' = akillfile /\ GlinesListed'
  BY <1>4 DEF os_block, Listed
<1>5. ASSUME NEW i \in DOMAIN akills, check_akill(i)
      PROVE  akills' \in Seq(Akill) /\ akillfile' = akillfile /\ GlinesListed'
  BY <1>5 DEF check_akill, Listed
<1>6. ASSUME NEW m \in Masks, GlineEnds(m)
      PROVE  akills' \in Seq(Akill) /\ akillfile' = akillfile /\ GlinesListed'
  BY <1>6 DEF GlineEnds, Listed
<1>7. ASSUME expire_akills
      PROVE  akills' \in Seq(Akill) /\ akillfile' = akillfile /\ GlinesListed'
  BY <1>7, AkillExpires DEF expire_akills
<1>8. ASSUME NEW m \in Masks,
             \/ do_block(m) \/ do_blockpubli(m) \/ do_blockmol(m)
             \/ do_blockabus(m) \/ do_blockclon(m)
      PROVE  \E span \in Nat : now + span \in Nat /\ x_block(m, span)
  BY <1>0, <1>8, AkillsAssumption
     DEF do_block, do_blockpubli, do_blockmol, do_blockabus, do_blockclon
<1>9. ASSUME NEW m \in Masks, do_akill_del(m) \/ do_xakill_del(m) \/ do_unblock(m)
      PROVE  del_akill(m) /\ Ungline(m) /\ UNCHANGED akillfile
  BY <1>9 DEF do_akill_del, do_xakill_del, do_unblock
<1>10. \A m, span : do_xakill_add(m, span) => do_akill_add(m, span)
  BY DEF do_xakill_add
<1> QED BY <1>1, <1>2, <1>3, <1>4, <1>5, <1>6, <1>7, <1>8, <1>9, <1>10 DEF AkillsNext

(* The invariant of the AKILL list.                                        *)
LEMMA AkillInvariant == Spec => []AkillInv
<1>1. Init => AkillInv
  BY DEF Init, AkillsInit, AkillInv, GlinesListed
<1>2. AkillInv /\ [Next]_vars => AkillInv'
  <2> SUFFICES ASSUME AkillInv, [Next]_vars PROVE AkillInv'
    OBVIOUS
  <2>1. now' \in Nat
    BY ClockSteps DEF AkillInv
  <2>2. CASE AkillsNext
    BY <2>1, <2>2, AkillCommand DEF AkillInv
  <2>3. CASE save_akill
    BY <2>1, <2>3 DEF save_akill, AkillInv, GlinesListed, Listed
  <2>4. CASE load_akill
    BY <2>1, <2>4 DEF load_akill, AkillInv, GlinesListed, Listed
  <2>5. CASE UNCHANGED akillVars
    BY <2>1, <2>5 DEF akillVars, AkillInv, GlinesListed, Listed
  <2> QED BY <2>2, <2>3, <2>4, <2>5, AkillSteps
<1> QED BY <1>1, <1>2, PTL DEF Spec

(* No ban of akill.c outlives its entries.                                 *)
THEOREM GlinesCorrect == Spec => []GlinesListed
<1>1. AkillInv => GlinesListed
  BY DEF AkillInv
<1> QED BY <1>1, AkillInvariant, PTL

-----------------------------------------------------------------------------
(* AKICKs.                                                                 *)

Akick == [chan : AChans, mask : AMasks, in : Nat \ {0}]

(* No two entries of s have channel and mask in common.                    *)
SingleIn(s) == \A i, j \in DOMAIN s : s[i].chan = s[j].chan /\ s[i].mask = s[j].mask => i = j

AkickTypeOK ==
  /\ reg \in [AChans -> Nat] /\ regs \in Nat /\ achanakicks \in Seq(Akick)
  /\ akickfiles.reg \in [AChans -> Nat] /\ akickfiles.akicks \in Seq(Akick)
AkickInv == /\ AkickTypeOK /\ AkicksOwn
            /\ OneAkickPerMask /\ SingleIn(akickfiles.akicks)

(* Who changes the list and the registrations: its commands, its save, its *)
(* load.                                                                   *)
LEMMA AkickSteps ==
  [Next]_vars => \/ AkicksNext \/ save_achanakick \/ UNCHANGED akickVars
                 \/ \E half \in BOOLEAN : load_achanakick(half)
BY DEF Next, Work, Time, Save, Restart, Others, vars

(* The entries of the array are entries.                                   *)
LEMMA AkickEntries ==
  ASSUME NEW s \in Seq(Akick)
  PROVE  /\ Len(s) \in Nat /\ DOMAIN s = 1..Len(s)
         /\ \A i \in DOMAIN s : /\ s[i] \in Akick /\ s[i].chan \in AChans
                                /\ s[i].in \in Nat /\ s[i].in # 0
<1>1. Len(s) \in Nat /\ DOMAIN s = 1..Len(s) /\ \A i \in DOMAIN s : s[i] \in Akick
  OBVIOUS
<1>2. \A e \in Akick : e.chan \in AChans /\ e.in \in Nat /\ e.in # 0
  BY DEF Akick
<1> QED BY <1>1, <1>2

(* Entries go, and the others are as good as they were.                    *)
LEMMA AkicksLeft ==
  ASSUME AkickInv, NEW K \in SUBSET DOMAIN achanakicks, achanakicks' \in Seq(Akick),
         Selected(achanakicks', achanakicks, K),
         \A i \in K : LET c == achanakicks[i].chan
                      IN reg'[c] = reg[c] /\ (c \in torn => c \in torn')
  PROVE  AkicksOwn' /\ OneAkickPerMask'
<1>0. K \subseteq Nat /\ DOMAIN achanakicks' \subseteq Nat
  BY AkickEntries DEF AkickInv, AkickTypeOK
<1>1. PICK f \in [DOMAIN achanakicks' -> K] :
        /\ \A i \in DOMAIN achanakicks' : achanakicks'[i] = achanakicks[f[i]]
        /\ \A i, j \in DOMAIN achanakicks' : i < j => f[i] < f[j]
  BY DEF Selected
<1>2. AkicksOwn'
  BY <1>1 DEF AkickInv, AkicksOwn
<1>3. \A i, j \in DOMAIN achanakicks' : f[i] = f[j] => i = j
  BY <1>0, <1>1, RisingDiffer
<1>4. OneAkickPerMask'
  BY <1>1, <1>3 DEF AkickInv, OneAkickPerMask
<1> QED BY <1>2, <1>4

(* DEL ALL and all that takes a channel away.                              *)
LEMMA AkicksBorn ==
  ASSUME AkickInv, NEW c \in AChans, borra_akick(c),
         \A d \in AChans \ {c} : reg'[d] = reg[d]
  PROVE  achanakicks' \in Seq(Akick) /\ AkicksOwn' /\ OneAkickPerMask'
<1> DEFINE K == DOMAIN achanakicks \ Of(c)
<1>1. K \in SUBSET DOMAIN achanakicks /\ achanakicks \in Seq(Akick)
  BY DEF AkickInv, AkickTypeOK
<1>2. achanakicks' = Remaining(achanakicks, K) /\ torn' = torn \ {c}
  BY DEF borra_akick
<1>3. \A i \in K : achanakicks[i].chan \in AChans \ {c}
  BY <1>1, AkickEntries DEF Of
<1> HIDE DEF K
<1>4. achanakicks' \in Seq(Akick) /\ Selected(achanakicks', achanakicks, K)
  BY <1>1, <1>2, RemainingSelected
<1> QED BY <1>1, <1>2, <1>3, <1>4, AkicksLeft

(* An entry goes that is named by its mask or by its number.               *)
LEMMA AkickGoes ==
  ASSUME AkickInv, NEW c \in AChans, UNCHANGED <<reg, torn>>,
         \/ \E m \in AMasks : del_achanakick(c, m)
         \/ \E n \in 1..Cardinality(Of(c)) : del_achanakick_nth(c, n)
  PROVE  achanakicks' \in Seq(Akick) /\ AkicksOwn' /\ OneAkickPerMask'
<1>0. achanakicks \in Seq(Akick) /\ DOMAIN achanakicks = 1..Len(achanakicks)
  BY DEF AkickInv, AkickTypeOK
<1>1. ASSUME NEW k \in 1..Len(achanakicks), achanakicks' \in Seq(Akick),
             Selected(achanakicks', achanakicks, (1..Len(achanakicks)) \ {k})
      PROVE  AkicksOwn' /\ OneAkickPerMask'
  <2>1. (1..Len(achanakicks)) \ {k} \in SUBSET DOMAIN achanakicks
    BY <1>0
  <2> QED BY <1>1, <2>1, AkicksLeft
<1>2. ASSUME NEW m \in AMasks, del_achanakick(c, m)
      PROVE  achanakicks' \in Seq(Akick) /\ AkicksOwn' /\ OneAkickPerMask'
  <2> DEFINE I == {i \in 1..Len(achanakicks) : achanakicks[i].chan = c /\ achanakicks[i].mask = m}
  <2>1. achanakicks' = FirstOut(achanakicks, I)
    BY <1>2 DEF del_achanakick, RemoveFirstMatch, SelectInSeq, FirstOut
  <2>2. I \in SUBSET (1..Len(achanakicks))
    OBVIOUS
  <2> HIDE DEF I
  <2>3. /\ achanakicks' \in Seq(Akick)
        /\ \/ achanakicks' = achanakicks
           \/ \E k \in I : Selected(achanakicks', achanakicks, (1..Len(achanakicks)) \ {k})
    BY <1>0, <2>1, <2>2, FirstGoes
  <2>4. CASE achanakicks' = achanakicks
    BY <2>3, <2>4 DEF AkickInv, AkicksOwn, OneAkickPerMask
  <2> QED BY <1>1, <2>2, <2>3, <2>4
<1>3. ASSUME NEW n \in 1..Cardinality(Of(c)), del_achanakick_nth(c, n)
      PROVE  achanakicks' \in Seq(Akick) /\ AkicksOwn' /\ OneAkickPerMask'
  <2>1. PICK k \in 1..Len(achanakicks) : achanakicks' = RemoveAt(achanakicks, k)
    BY <1>0, <1>3 DEF del_achanakick_nth, Of
  <2>2. /\ achanakicks' \in Seq(Akick)
        /\ Selected(achanakicks', achanakicks, (1..Len(achanakicks)) \ {k})
    BY <1>0, <2>1, RemoveAtPlace, WithoutSelected
  <2> QED BY <1>1, <2>2
<1> QED BY <1>2, <1>3

(* An entry is made for a channel that is registered and kicks nobody with *)
(* the mask.                                                               *)
LEMMA AkickComes ==
  ASSUME AkickInv, NEW c \in AChans, NEW m \in AMasks, do_achanakick_add(c, m)
  PROVE  achanakicks' \in Seq(Akick) /\ AkicksOwn' /\ OneAkickPerMask'
<1> DEFINE e == [chan |-> c, mask |-> m, in |-> reg[c]]
           n == Len(achanakicks) + 1
<1>0. achanakicks \in Seq(Akick) /\ DOMAIN achanakicks = 1..Len(achanakicks) /\ Len(achanakicks) \in Nat
  BY DEF AkickInv, AkickTypeOK
<1>1. e \in Akick /\ e.chan = c /\ e.mask = m /\ e.in = reg[c] /\ reg[c] # 0
  BY DEF do_achanakick_add, Akick, AkickInv, AkickTypeOK
<1>2. achanakicks' = Append(achanakicks, e)
  BY DEF do_achanakick_add, add_achanakick
<1> HIDE DEF e
<1>3. /\ achanakicks' \in Seq(Akick) /\ DOMAIN achanakicks' = DOMAIN achanakicks \cup {n}
      /\ n \notin DOMAIN achanakicks
      /\ \A i \in DOMAIN achanakicks : achanakicks'[i] = achanakicks[i]
      /\ achanakicks'[n] = e
  BY <1>0, <1>1, <1>2
<1>4. reg' = reg /\ torn' = torn
  BY DEF do_achanakick_add
<1>5. \A i \in DOMAIN achanakicks : ~(achanakicks[i].chan = c /\ achanakicks[i].mask = m)
  BY DEF do_achanakick_add, Kicked, Of
<1>6. AkicksOwn'
  BY <1>1, <1>3, <1>4 DEF AkickInv, AkicksOwn
<1>7. OneAkickPerMask'
  BY <1>1, <1>3, <1>5 DEF AkickInv, OneAkickPerMask
<1> QED BY <1>3, <1>6, <1>7

(* No command and no restart enters an AKICK of another registration.      *)
LEMMA AkickCommand ==
  ASSUME AkickInv, AkicksNext
  PROVE  AkickInv'
<1>1. ASSUME NEW c \in AChans, RegisterChan(c) PROVE AkickInv'
  BY <1>1 DEF RegisterChan, AkickInv, AkickTypeOK, AkicksOwn, OneAkickPerMask, SingleIn
<1>2. ASSUME NEW c \in AChans, DropChan(c) PROVE AkickInv'
  <2>1. \A d \in AChans \ {c} : reg'[d] = reg[d]
    BY <1>2 DEF DropChan, AkickInv, AkickTypeOK
  <2>2. achanakicks' \in Seq(Akick) /\ AkicksOwn' /\ OneAkickPerMask'
    BY <1>2, <2>1, AkicksBorn DEF DropChan
  <2>3. reg' \in [AChans -> Nat] /\ UNCHANGED <<regs, akickfiles>>
    BY <1>2 DEF DropChan, AkickInv, AkickTypeOK
  <2> QED BY <2>2, <2>3 DEF AkickInv, AkickTypeOK, SingleIn
<1>3. ASSUME NEW c \in AChans, NEW m \in AMasks, do_achanakick_add(c, m) PROVE AkickInv'
  <2>1. achanakicks' \in Seq(Akick) /\ AkicksOwn' /\ OneAkickPerMask'
    BY <1>3, AkickComes
  <2> QED BY <1>3, <2>1 DEF do_achanakick_add, AkickInv, AkickTypeOK, SingleIn
<1>4. ASSUME NEW c \in AChans, do_achanakick_del(c) PROVE AkickInv'
  <2>1. UNCHANGED <<reg, regs, akickfiles>>
    BY <1>4 DEF do_achanakick_del
  <2>2. \/ borra_akick(c)
        \/ /\ UNCHANGED torn
           /\ \/ \E m \in AMasks : del_achanakick(c, m)
              \/ \E n \in 1..Cardinality(Of(c)) : del_achanakick_nth(c, n)
    BY <1>4 DEF do_achanakick_del
  <2>3. achanakicks' \in Seq(Akick) /\ AkicksOwn' /\ OneAkickPerMask'
    BY <2>1, <2>2, AkicksBorn, AkickGoes
  <2> QED BY <2>1, <2>3 DEF AkickInv, AkickTypeOK, SingleIn
<1> QED BY <1>1, <1>2, <1>3, <1>4 DEF AkicksNext

(* A start marks the channels whose entries are of another registration.   *)
LEMMA AkickLoad ==
  ASSUME AkickInv, NEW half \in BOOLEAN, load_achanakick(half)
  PROVE  AkickInv'
<1> DEFINE chans == IF half THEN reg ELSE akickfiles.reg
           entries == akickfiles.akicks
<1>1. /\ reg' = chans /\ achanakicks' = entries /\ UNCHANGED regs
      /\ torn' = {entries[i].chan : i \in
                    {j \in DOMAIN entries : entries[j].in # chans[entries[j].chan]}}
      /\ akickfiles'.reg = chans /\ akickfiles'.akicks = entries
  BY DEF load_achanakick
<1>2. chans \in [AChans -> Nat] /\ entries \in Seq(Akick) /\ SingleIn(entries) /\ regs \in Nat
  BY DEF AkickInv, AkickTypeOK
<1>3. \A i \in DOMAIN entries : entries[i].in # 0
  BY <1>2, AkickEntries
<1> HIDE DEF chans, entries
<1>4. AkicksOwn'
  BY <1>1, <1>3 DEF AkicksOwn
<1>5. OneAkickPerMask' /\ SingleIn(akickfiles.akicks)'
  BY <1>1, <1>2 DEF OneAkickPerMask, SingleIn
<1> QED BY <1>1, <1>2, <1>4, <1>5 DEF AkickInv, AkickTypeOK

(* The invariant of the AKICK list.                                        *)
LEMMA AkickInvariant == Spec => []AkickInv
<1>1. Init => AkickInv
  BY DEF Init, AkicksInit, AkickInv, AkickTypeOK, AkicksOwn, OneAkickPerMask, SingleIn
<1>2. AkickInv /\ [Next]_vars => AkickInv'
  <2> SUFFICES ASSUME AkickInv, [Next]_vars PROVE AkickInv'
    OBVIOUS
  <2>1. CASE save_achanakick
    BY <2>1 DEF save_achanakick, AkickInv, AkickTypeOK, AkicksOwn, OneAkickPerMask, SingleIn
  <2>2. CASE UNCHANGED akickVars
    BY <2>2 DEF akickVars, AkickInv, AkickTypeOK, AkicksOwn, OneAkickPerMask, SingleIn
  <2> QED BY <2>1, <2>2, AkickCommand, AkickLoad, AkickSteps
<1> QED BY <1>1, <1>2, PTL DEF Spec

(* The next founder of a channel starts with no AKICK of the last one's,   *)
(* unless services ended between the two files.                            *)
THEOREM AkicksCorrect == Spec => []AkicksOwn
<1>1. AkickInv => AkicksOwn
  BY DEF AkickInv
<1> QED BY <1>1, AkickInvariant, PTL

-----------------------------------------------------------------------------
(* Limits of users.                                                        *)

Change == [chan : LChans, numero : Nat]

(* The users a limit has to leave room for: those there are, but no more   *)
(* than there may be without a gap.                                        *)
RoomFor(n) == IF n < Tramo2 THEN n ELSE Tramo2 - 1

(* The change that is pending for a channel, or else the limit it has,     *)
(* leaves room.                                                            *)
RoomIn(c) ==
  /\ \A i \in DOMAIN alimits : alimits[i].chan = c => alimits[i].numero > RoomFor(erab[c])
  /\ (\A i \in DOMAIN alimits : alimits[i].chan # c) => limit[c] = 0 \/ limit[c] > RoomFor(erab[c])

LimitTypeOK ==
  /\ alimits \in Seq(Change) /\ erab \in [LChans -> Nat] /\ limit \in [LChans -> Nat]
  /\ auto \subseteq LChans /\ IsFiniteSet(auto)
LimitInv == LimitTypeOK /\ OneLimitPerChan /\ \A c \in auto \ stale : RoomIn(c)

(* Who changes the limits and the list of them.                            *)
LEMMA LimitSteps == [Next]_vars => LimitsNext \/ Burst \/ UNCHANGED limitVars
<1>1. ASSUME NewcomersNext PROVE Burst \/ UNCHANGED limitVars
  BY <1>1 DEF NewcomersNext, do_nick_new, do_quit, delete_user, Registered, do_nick_change,
     expire_aregistras, limitVars
<1>2. [Next]_vars => LimitsNext \/ NewcomersNext \/ UNCHANGED pendingVars
  BY DEF Next, Work, Time, Save, Restart, Others, vars
<1> QED BY <1>1, <1>2 DEF pendingVars

(* The numbers of the configuration.                                       *)
LEMMA Tramos ==
  /\ Tramo1 \in Nat /\ Tramo2 \in Nat /\ Tramo3 \in Nat
  /\ Incr1 \in Nat /\ Incr2 \in Nat /\ Incr3 \in Nat
  /\ Incr1 > 0 /\ Incr2 > 0 /\ Incr3 > 0
  /\ 0 < Tramo1 /\ Tramo1 < Tramo2 /\ Tramo2 < Tramo3
BY TramosAssumption

(* The entries of the list are entries.                                    *)
LEMMA ChangeEntries ==
  ASSUME NEW s \in Seq(Change)
  PROVE  /\ Len(s) \in Nat /\ DOMAIN s = 1..Len(s)
         /\ \A i \in DOMAIN s : s[i].chan \in LChans /\ s[i].numero \in Nat
<1>1. Len(s) \in Nat /\ DOMAIN s = 1..Len(s) /\ \A i \in DOMAIN s : s[i] \in Change
  OBVIOUS
<1>2. \A e \in Change : e.chan \in LChans /\ e.numero \in Nat
  BY DEF Change
<1> QED BY <1>1, <1>2

(* del_alimit leaves no change of the channel, and all others.             *)
LEMMA ChangeGoes ==
  ASSUME LimitInv, NEW c \in LChans
  PROVE  LET s == del_alimit(alimits, c)
         IN  /\ s \in Seq(Change)
             /\ \A i \in DOMAIN s : s[i].chan # c
             /\ \A i, j \in DOMAIN s : s[i].chan = s[j].chan => i = j
             /\ \A i \in DOMAIN s : \E j \in DOMAIN alimits : s[i] = alimits[j]
             /\ \A j \in DOMAIN alimits : alimits[j].chan # c =>
                  \E i \in DOMAIN s : s[i] = alimits[j]
<1> DEFINE s == del_alimit(alimits, c)
           I == {i \in 1..Len(alimits) : alimits[i].chan = c}
<1>0. /\ alimits \in Seq(Change) /\ Len(alimits) \in Nat /\ DOMAIN alimits = 1..Len(alimits)
      /\ \A i, j \in DOMAIN alimits : alimits[i].chan = alimits[j].chan => i = j
  BY DEF LimitInv, LimitTypeOK, OneLimitPerChan
<1>1. s = FirstOut(alimits, I)
  BY DEF del_alimit, RemoveFirstMatch, SelectInSeq, FirstOut
<1>2. /\ I \in SUBSET (1..Len(alimits)) /\ \A k \in I : alimits[k].chan = c
      /\ \A k \in 1..Len(alimits) : alimits[k].chan = c => k \in I
  OBVIOUS
<1> HIDE DEF I, s
<1>3. /\ s \in Seq(Change)
      /\ \/ s = alimits /\ I = {}
         \/ \E k \in I : Selected(s, alimits, (1..Len(alimits)) \ {k})
  BY <1>0, <1>1, <1>2, FirstGoes
<1>4. CASE s = alimits /\ I = {}
  BY <1>0, <1>2, <1>4 DEF s
<1>5. ASSUME NEW k \in I, Selected(s, alimits, (1..Len(alimits)) \ {k})
      PROVE  /\ \A i \in DOMAIN s : s[i].chan # c
             /\ \A i, j \in DOMAIN s : s[i].chan = s[j].chan => i = j
             /\ \A i \in DOMAIN s : \E j \in DOMAIN alimits : s[i] = alimits[j]
             /\ \A j \in DOMAIN alimits : alimits[j].chan # c =>
                  \E i \in DOMAIN s : s[i] = alimits[j]
  <2> DEFINE K == (1..Len(alimits)) \ {k}
  <2>1. PICK f \in [DOMAIN s -> K] :
          /\ \A i \in DOMAIN s : s[i] = alimits[f[i]]
          /\ \A i, j \in DOMAIN s : i < j => f[i] < f[j]
          /\ \A l \in K : \E i \in DOMAIN s : f[i] = l
    BY <1>5 DEF Selected
  <2>2. DOMAIN s \subseteq Nat /\ K \subseteq Nat
    BY <1>3, ChangeEntries
  <2>3. \A i, j \in DOMAIN s : f[i] = f[j] => i = j
    BY <2>1, <2>2, RisingDiffer
  <2>4. K \subseteq DOMAIN alimits /\ k \in DOMAIN alimits /\ k \notin K /\ alimits[k].chan = c
    BY <1>0, <1>2
  <2>5. \A j \in DOMAIN alimits : alimits[j].chan # c => j \in K
    BY <1>0, <1>2
  <2> HIDE DEF K
  <2>6. \A i \in DOMAIN s : s[i].chan # c
    BY <1>0, <2>1, <2>4
  <2>7. \A i, j \in DOMAIN s : s[i].chan = s[j].chan => i = j
    BY <1>0, <2>1, <2>3, <2>4
  <2> QED BY <2>1, <2>4, <2>5, <2>6, <2>7
<1> QED BY <1>3, <1>4, <1>5 DEF s

(* A join: its new change leaves room, and without one there was enough.   *)
LEMMA LimitJoin ==
  ASSUME LimitInv, NEW c \in LChans, chan_adduser(c)
  PROVE  LimitInv'
<1> DEFINE n == erab[c] + 1
           s == del_alimit(alimits, c)
           e == [chan |-> c, numero |-> LimitOnJoin(n)]
<1>0. n \in Nat /\ erab[c] \in Nat /\ RoomFor(n) \in Nat
  BY Tramos DEF LimitInv, LimitTypeOK, RoomFor
<1>1. /\ erab' = [erab EXCEPT ![c] = n] /\ auto' = auto /\ limit' = limit
      /\ alimits' = canal_autolimit(alimits, c, n)
      /\ stale' = IF c \in auto /\ ~Gap(n) THEN stale \ {c} ELSE stale
  BY DEF chan_adduser
<1>2. /\ erab' \in [LChans -> Nat] /\ erab'[c] = n
      /\ \A d \in LChans \ {c} : erab'[d] = erab[d]
  BY <1>0, <1>1 DEF LimitInv, LimitTypeOK
<1>3. CASE c \notin auto \/ Gap(n)
  <2>1. alimits' = alimits /\ stale' = stale
    BY <1>1, <1>3 DEF canal_autolimit
  <2>2. Gap(n) => RoomFor(n) = RoomFor(erab[c])
    BY <1>0, Tramos DEF Gap, RoomFor
  <2>3. ASSUME NEW d \in auto \ stale PROVE RoomFor(erab'[d]) = RoomFor(erab[d])
    BY <1>2, <1>3, <2>2 DEF LimitInv, LimitTypeOK
  <2>4. ASSUME NEW d \in auto \ stale PROVE RoomIn(d)'
    <3>1. RoomIn(d)
      BY DEF LimitInv
    <3> QED BY <1>1, <2>1, <2>3, <3>1 DEF RoomIn
  <2> QED BY <1>1, <1>2, <2>1, <2>4 DEF LimitInv, LimitTypeOK, OneLimitPerChan
<1>4. CASE c \in auto /\ ~Gap(n)
  <2>1. alimits' = Append(s, e) /\ stale' = stale \ {c}
    BY <1>1, <1>4 DEF canal_autolimit, add_alimit
  <2>2. /\ s \in Seq(Change)
        /\ \A i \in DOMAIN s : s[i].chan # c
        /\ \A i, j \in DOMAIN s : s[i].chan = s[j].chan => i = j
        /\ \A i \in DOMAIN s : \E j \in DOMAIN alimits : s[i] = alimits[j]
        /\ \A j \in DOMAIN alimits : alimits[j].chan # c =>
             \E i \in DOMAIN s : s[i] = alimits[j]
    BY ChangeGoes
  <2>3. LimitOnJoin(n) \in Nat /\ LimitOnJoin(n) > RoomFor(n)
    BY <1>0, Tramos DEF LimitOnJoin, RoomFor
  <2>4. e \in Change /\ e.chan = c /\ e.numero > RoomFor(n)
    BY <2>3 DEF Change
  <2> HIDE DEF s, e, n
  <2>5. /\ alimits' \in Seq(Change) /\ DOMAIN alimits' = DOMAIN s \cup {Len(s) + 1}
        /\ Len(s) + 1 \notin DOMAIN s
        /\ \A i \in DOMAIN s : alimits'[i] = s[i]
        /\ alimits'[Len(s) + 1] = e
    BY <2>1, <2>2, <2>4, ChangeEntries
  <2>6. OneLimitPerChan'
    BY <2>2, <2>4, <2>5 DEF OneLimitPerChan
  <2>7. RoomIn(c)'
    BY <1>2, <2>2, <2>4, <2>5 DEF RoomIn
  <2>8. ASSUME NEW d \in auto \ stale, d # c PROVE RoomIn(d)'
    <3>1. erab'[d] = erab[d] /\ limit'[d] = limit[d] /\ RoomIn(d)
      BY <1>1, <1>2, <2>8 DEF LimitInv, LimitTypeOK
    <3> QED BY <2>2, <2>4, <2>5, <2>8, <3>1 DEF RoomIn
  <2> QED BY <1>1, <1>2, <2>1, <2>5, <2>6, <2>7, <2>8 DEF LimitInv, LimitTypeOK
<1> QED BY <1>3, <1>4

(* PART sets a limit that leaves room, and takes the change out.           *)
LEMMA LimitPart ==
  ASSUME LimitInv, NEW c \in LChans, do_part(c)
  PROVE  LimitInv'
<1> DEFINE s == del_alimit(alimits, c)
           l == IF erab[c] = 1 THEN 0 ELSE IF c \in auto THEN SetOnPart(c) ELSE limit[c]
<1>0. erab[c] \in Nat /\ erab[c] > 0 /\ erab[c] - 1 \in Nat /\ limit[c] \in Nat
  BY DEF do_part, LimitInv, LimitTypeOK
<1>1. /\ erab' = [erab EXCEPT ![c] = erab[c] - 1] /\ auto' = auto
      /\ alimits' = IF c \in auto THEN s ELSE alimits
      /\ limit' = [limit EXCEPT ![c] = l]
      /\ stale' = IF c \in auto THEN stale \ {c} ELSE stale
  BY DEF do_part, sale_autolimit
<1>2. SetOnPart(c) \in Nat /\ SetOnPart(c) > RoomFor(erab[c] - 1)
  BY <1>0, Tramos DEF SetOnPart, RoomFor
<1>3. l \in Nat /\ (c \in auto => l = 0 \/ l > RoomFor(erab[c] - 1))
  BY <1>0, <1>2
<1> HIDE DEF l, s
<1>4. /\ erab' \in [LChans -> Nat] /\ limit' \in [LChans -> Nat]
      /\ erab'[c] = erab[c] - 1 /\ limit'[c] = l
      /\ \A d \in LChans \ {c} : erab'[d] = erab[d] /\ limit'[d] = limit[d]
  BY <1>0, <1>1, <1>3 DEF LimitInv, LimitTypeOK
<1>5. CASE c \notin auto
  <2>1. alimits' = alimits /\ stale' = stale
    BY <1>1, <1>5
  <2>2. ASSUME NEW d \in auto \ stale PROVE RoomIn(d)'
    <3>1. erab'[d] = erab[d] /\ limit'[d] = limit[d] /\ RoomIn(d)
      BY <1>4, <1>5 DEF LimitInv, LimitTypeOK
    <3> QED BY <2>1, <3>1 DEF RoomIn
  <2> QED BY <1>1, <1>4, <2>1, <2>2 DEF LimitInv, LimitTypeOK, OneLimitPerChan
<1>6. CASE c \in auto
  <2>1. /\ s \in Seq(Change)
        /\ \A i \in DOMAIN s : s[i].chan # c
        /\ \A i, j \in DOMAIN s : s[i].chan = s[j].chan => i = j
        /\ \A i \in DOMAIN s : \E j \in DOMAIN alimits : s[i] = alimits[j]
        /\ \A j \in DOMAIN alimits : alimits[j].chan # c =>
             \E i \in DOMAIN s : s[i] = alimits[j]
    BY ChangeGoes DEF s
  <2>2. alimits' = s /\ stale' = stale \ {c}
    BY <1>1, <1>6
  <2>3. RoomIn(c)'
    BY <1>3, <1>4, <1>6, <2>1, <2>2 DEF RoomIn
  <2>4. ASSUME NEW d \in auto \ stale, d # c PROVE RoomIn(d)'
    <3>1. erab'[d] = erab[d] /\ limit'[d] = limit[d] /\ RoomIn(d)
      BY <1>4, <2>4 DEF LimitInv, LimitTypeOK
    <3> QED BY <2>1, <2>2, <2>4, <3>1 DEF RoomIn
  <2> QED BY <1>1, <1>4, <2>1, <2>2, <2>3, <2>4 DEF LimitInv, LimitTypeOK, OneLimitPerChan
<1> QED BY <1>5, <1>6

(* Who is thrown out leaves more room.                                     *)
LEMMA LimitLeave ==
  ASSUME LimitInv, NEW c \in LChans, chan_deluser(c)
  PROVE  LimitInv'
<1>0. erab[c] \in Nat /\ erab[c] > 0 /\ erab[c] - 1 \in Nat
  BY DEF chan_deluser, LimitInv, LimitTypeOK
<1>1. /\ erab' = [erab EXCEPT ![c] = erab[c] - 1]
      /\ limit' = limit \/ limit' = [limit EXCEPT ![c] = 0]
      /\ UNCHANGED <<alimits, auto, stale>>
  BY DEF chan_deluser
<1>2. erab' \in [LChans -> Nat] /\ limit' \in [LChans -> Nat]
  <2>1. erab \in [LChans -> Nat] /\ limit \in [LChans -> Nat]
    BY DEF LimitInv, LimitTypeOK
  <2>2. erab' \in [LChans -> Nat]
    BY <1>0, <1>1, <2>1
  <2>3. CASE limit' = limit
    BY <2>1, <2>2, <2>3
  <2>4. CASE limit' = [limit EXCEPT ![c] = 0]
    BY <2>1, <2>2, <2>4
  <2> QED BY <1>1, <2>3, <2>4
<1>3. ASSUME NEW d \in LChans
      PROVE  /\ RoomFor(erab'[d]) \in Nat /\ RoomFor(erab[d]) \in Nat
             /\ RoomFor(erab'[d]) <= RoomFor(erab[d])
             /\ limit[d] \in Nat /\ (limit'[d] = limit[d] \/ limit'[d] = 0)
  <2>1. erab[d] \in Nat /\ erab'[d] \in Nat /\ erab'[d] <= erab[d]
    BY <1>0, <1>1 DEF LimitInv, LimitTypeOK
  <2>2. limit[d] \in Nat /\ (limit'[d] = limit[d] \/ limit'[d] = 0)
    BY <1>1 DEF LimitInv, LimitTypeOK
  <2> QED BY <2>1, <2>2, Tramos DEF RoomFor
<1>4. ASSUME NEW d \in auto \ stale PROVE RoomIn(d)'
  <2>1. RoomIn(d) /\ d \in LChans /\ \A i \in DOMAIN alimits : alimits[i].numero \in Nat
    BY ChangeEntries DEF LimitInv, LimitTypeOK
  <2> QED BY <1>1, <1>3, <2>1 DEF RoomIn
<1> QED BY <1>1, <1>2, <1>4 DEF LimitInv, LimitTypeOK, OneLimitPerChan

(* All changes are made at once.                                           *)
LEMMA LimitExpire ==
  ASSUME LimitInv, expire_alimits
  PROVE  LimitInv'
<1> DEFINE Of4(c) == {i \in 1..Len(alimits) : alimits[i].chan = c}
           due(c) == IF Of4(c) # {} THEN Max(Of4(c)) ELSE 0
           new(c) == IF due(c) # 0 /\ erab[c] > 0 THEN alimits[due(c)].numero ELSE limit[c]
<1>0. Len(alimits) \in Nat /\ DOMAIN alimits = 1..Len(alimits)
  BY ChangeEntries DEF LimitInv, LimitTypeOK
<1>1. limit' = [c \in LChans |-> new(c)] /\ alimits' = <<>> /\ UNCHANGED <<erab, auto, stale>>
  BY DEF expire_alimits, SelectLastInSeq
<1>2. ASSUME NEW c \in LChans
      PROVE  \/ due(c) # 0 /\ due(c) \in DOMAIN alimits /\ alimits[due(c)].chan = c
             \/ due(c) = 0 /\ \A i \in DOMAIN alimits : alimits[i].chan # c
  <2>1. CASE Of4(c) = {}
    BY <1>0, <2>1
  <2>2. CASE Of4(c) # {}
    <3>1. Of4(c) \in SUBSET (1..Len(alimits))
      OBVIOUS
    <3>2. Max(Of4(c)) \in Of4(c)
      BY <1>0, <2>2, <3>1, GreatestIn
    <3>3. due(c) = Max(Of4(c)) /\ due(c) \in 1..Len(alimits) /\ alimits[due(c)].chan = c
      BY <2>2, <3>2
    <3> QED BY <1>0, <3>3
  <2> QED BY <2>1, <2>2
<1> HIDE DEF due
<1>3. \A i \in DOMAIN alimits : alimits[i].numero \in Nat
  BY ChangeEntries DEF LimitInv, LimitTypeOK
<1>4. \A c \in LChans : limit[c] \in Nat /\ erab[c] \in Nat
  BY DEF LimitInv, LimitTypeOK
<1>5. limit' \in [LChans -> Nat]
  BY <1>1, <1>2, <1>3, <1>4
<1>6. ASSUME NEW c \in auto \ stale PROVE RoomIn(c)'
  <2>1. c \in LChans /\ RoomIn(c) /\ limit'[c] = new(c)
    BY <1>1 DEF LimitInv, LimitTypeOK
  <2>2. limit'[c] = 0 \/ limit'[c] > RoomFor(erab[c])
    <3>1. CASE erab[c] = 0
      <4>1. RoomFor(erab[c]) = 0
        BY <3>1, Tramos DEF RoomFor
      <4> QED BY <1>4, <1>5, <2>1, <4>1
    <3>2. CASE erab[c] > 0
      BY <1>2, <2>1, <3>2 DEF RoomIn
    <3> QED BY <1>4, <2>1, <3>1, <3>2
  <2> QED BY <1>1, <2>2 DEF RoomIn
<1>7. alimits' \in Seq(Change) /\ DOMAIN alimits' = {}
  BY <1>1
<1> QED BY <1>1, <1>5, <1>6, <1>7 DEF LimitInv, LimitTypeOK, OneLimitPerChan

(* An order of a finite set names each element once.                       *)
LEMMA OrderNames ==
  ASSUME NEW S, IsFiniteSet(S), NEW order \in SetToSeqs(S)
  PROVE  /\ order \in Seq(S) /\ DOMAIN order = 1..Len(order)
         /\ \A i, j \in DOMAIN order : order[i] = order[j] => i = j
         /\ \A x \in S : \E i \in DOMAIN order : order[i] = x
<1> DEFINE D == 1..Cardinality(S)
<1>1. order \in [D -> S] /\ \A i, j \in D : i # j => order[i] # order[j]
  BY DEF SetToSeqs
<1>2. Cardinality(S) \in Nat
  BY FS_CardinalityType
<1>3. IsFiniteSet(D) /\ Cardinality(D) = Cardinality(S)
  BY <1>2, FS_Interval
<1>4. order \in Injection(D, S)
  BY <1>1 DEF Injection, IsInjective
<1>5. order \in Surjection(D, S)
  BY <1>3, <1>4, FS_Injection
<1>6. order \in Seq(S) /\ Len(order) = Cardinality(S) /\ DOMAIN order = D
  BY <1>1, <1>2, FunctionIsSeq
<1> QED BY <1>1, <1>5, <1>6 DEF Surjection

(* The burst of the network makes a change for each channel with users.    *)
LEMMA LimitBurst ==
  ASSUME LimitInv, Burst
  PROVE  LimitInv'
<1> DEFINE S == auto \cap {c \in LChans : erab[c] > 0}
           e(c) == [chan |-> c, numero |-> LimitOnJoin(Rejoined(c))]
<1>0. /\ auto \subseteq LChans /\ IsFiniteSet(auto)
      /\ \A c \in LChans : erab[c] \in Nat /\ limit[c] \in Nat
  BY DEF LimitInv, LimitTypeOK
<1>1. IsFiniteSet(S)
  BY <1>0, FS_Intersection
<1>2. PICK order \in SetToSeqs(S) : alimits' = [i \in DOMAIN order |-> e(order[i])]
  BY DEF Burst
<1>3. stale' = {c \in stale : c \notin auto \/ erab[c] = 0} /\ UNCHANGED <<erab, auto, limit>>
  BY DEF Burst
<1>4. ASSUME NEW c \in LChans
      PROVE  LimitOnJoin(Rejoined(c)) \in Nat /\ LimitOnJoin(Rejoined(c)) > RoomFor(erab[c])
  BY <1>0, Tramos DEF LimitOnJoin, Rejoined, RoomFor, Gap
<1>5. \A c \in LChans : e(c) \in Change /\ e(c).chan = c /\ e(c).numero > RoomFor(erab[c])
  BY <1>4 DEF Change
<1>6. \A c \in S : c \in LChans
  OBVIOUS
<1> HIDE DEF e, S
<1>7. /\ order \in Seq(S) /\ DOMAIN order = 1..Len(order)
      /\ \A i, j \in DOMAIN order : order[i] = order[j] => i = j
      /\ \A x \in S : \E i \in DOMAIN order : order[i] = x
  BY <1>1, OrderNames
<1>8. /\ DOMAIN alimits' = DOMAIN order
      /\ \A i \in DOMAIN order : order[i] \in LChans /\ alimits'[i] = e(order[i])
  BY <1>2, <1>6, <1>7
<1>9. alimits' \in Seq(Change)
  <2>1. alimits' \in [1..Len(order) -> Change] /\ Len(order) \in Nat
    BY <1>2, <1>5, <1>7, <1>8
  <2> QED BY <2>1, FunctionIsSeq
<1>10. OneLimitPerChan'
  BY <1>5, <1>7, <1>8 DEF OneLimitPerChan
<1>11. ASSUME NEW c \in auto \ stale' PROVE RoomIn(c)'
  <2>1. \A i \in DOMAIN alimits' : alimits'[i].chan = c => alimits'[i].numero > RoomFor(erab[c])
    BY <1>5, <1>8
  <2>2. CASE erab[c] > 0
    <3>1. \E i \in DOMAIN alimits' : alimits'[i].chan = c
      <4>1. c \in S
        BY <1>0, <2>2 DEF S
      <4> QED BY <1>5, <1>6, <1>7, <1>8, <4>1
    <3> QED BY <1>3, <2>1, <3>1 DEF RoomIn
  <2>3. CASE erab[c] = 0
    <3>1. RoomFor(erab[c]) = 0 /\ limit[c] \in Nat
      BY <1>0, <2>3, Tramos DEF RoomFor
    <3>2. limit[c] = 0 \/ limit[c] > RoomFor(erab[c])
      BY <3>1
    <3> QED BY <1>3, <2>1, <3>2 DEF RoomIn
  <2> QED BY <1>0, <2>2, <2>3
<1> QED BY <1>3, <1>9, <1>10, <1>11 DEF LimitInv, LimitTypeOK

(* The invariant of the limits.                                            *)
LEMMA LimitInvariant == Spec => []LimitInv
<1>1. Init => LimitInv
  BY FS_EmptySet DEF Init, PendingInit, LimitInv, LimitTypeOK, OneLimitPerChan
<1>2. LimitInv /\ [Next]_vars => LimitInv'
  <2> SUFFICES ASSUME LimitInv, [Next]_vars PROVE LimitInv'
    OBVIOUS
  <2>1. ASSUME NEW c \in LChans, do_set_autolimit(c) PROVE LimitInv'
    <3>1. IsFiniteSet(auto \ {c}) /\ IsFiniteSet(auto \cup {c})
      BY FS_RemoveElement, FS_AddElement DEF LimitInv, LimitTypeOK
    <3> QED BY <2>1, <3>1 DEF do_set_autolimit, LimitInv, LimitTypeOK, OneLimitPerChan, RoomIn
  <2>2. CASE UNCHANGED limitVars
    BY <2>2 DEF limitVars, LimitInv, LimitTypeOK, OneLimitPerChan, RoomIn
  <2> QED BY <2>1, <2>2, LimitJoin, LimitPart, LimitLeave, LimitExpire, LimitBurst, LimitSteps
          DEF LimitsNext
<1> QED BY <1>1, <1>2, PTL DEF Spec

(* Once no change is pending, a channel with AUTOLIMIT below Tramo2 has    *)
(* room, whatever joins, parts and restarts there were between.            *)
THEOREM RoomCorrect == Spec => []LimitLeavesRoom
<1>1. LimitInv => LimitLeavesRoom
  <2> SUFFICES ASSUME LimitInv, NEW c \in auto \ stale, erab[c] \in 1..(Tramo2 - 1),
                      \A i \in DOMAIN alimits : alimits[i].chan # c
               PROVE  limit[c] = 0 \/ limit[c] > erab[c]
    BY DEF LimitLeavesRoom
  <2>1. RoomFor(erab[c]) = erab[c]
    BY Tramos DEF RoomFor
  <2> QED BY <2>1 DEF LimitInv, RoomIn
<1> QED BY <1>1, LimitInvariant, PTL

-----------------------------------------------------------------------------
(* Newcomers.                                                              *)

Visit == [nick : LNicks, expires : Nat]
Waits(n) == \E i \in DOMAIN aregistras : aregistras[i].nick = n
NewcomerInv ==
  /\ now \in Nat /\ aregistras \in Seq(Visit)
  /\ online \subseteq LNicks /\ IsFiniteSet(online)
  /\ NewcomersWait

(* Who changes the list of newcomers.                                      *)
LEMMA NewcomerSteps == [Next]_vars => NewcomersNext \/ Burst \/ UNCHANGED greetVars
<1>1. ASSUME LimitsNext PROVE Burst \/ UNCHANGED greetVars
  BY <1>1 DEF LimitsNext, chan_adduser, do_part, chan_deluser, do_set_autolimit,
     expire_alimits, greetVars
<1>2. [Next]_vars => LimitsNext \/ NewcomersNext \/ UNCHANGED pendingVars
  BY DEF Next, Work, Time, Save, Restart, Others, vars
<1> QED BY <1>1, <1>2 DEF pendingVars

(* del_aregistra takes an entry of the nick, if there is one.              *)
LEMMA VisitGoes ==
  ASSUME NewcomerInv, NEW n
  PROVE  LET s == del_aregistra(aregistras, n)
         IN  /\ s \in Seq(Visit)
             /\ \A m : m # n /\ Waits(m) => \E i \in DOMAIN s : s[i].nick = m
<1> DEFINE s == del_aregistra(aregistras, n)
           I == {i \in 1..Len(aregistras) : aregistras[i].nick = n}
<1>0. aregistras \in Seq(Visit) /\ DOMAIN aregistras = 1..Len(aregistras)
  BY DEF NewcomerInv
<1>1. s = FirstOut(aregistras, I)
  BY DEF del_aregistra, RemoveFirstMatch, SelectInSeq, FirstOut
<1>2. I \in SUBSET (1..Len(aregistras)) /\ \A k \in I : aregistras[k].nick = n
  OBVIOUS
<1> HIDE DEF I, s
<1>3. /\ s \in Seq(Visit)
      /\ \/ s = aregistras
         \/ \E k \in I : Selected(s, aregistras, (1..Len(aregistras)) \ {k})
  BY <1>0, <1>1, <1>2, FirstGoes
<1>4. CASE s = aregistras
  BY <1>3, <1>4 DEF Waits, s
<1>5. ASSUME NEW k \in I, Selected(s, aregistras, (1..Len(aregistras)) \ {k})
      PROVE  \A m : m # n /\ Waits(m) => \E i \in DOMAIN s : s[i].nick = m
  BY <1>0, <1>2, <1>5 DEF Selected, Waits
<1> QED BY <1>3, <1>4, <1>5 DEF s

(* add_aregistra keeps all entries and makes one.                          *)
LEMMA VisitComes ==
  ASSUME now \in Nat, NEW s \in Seq(Visit), NEW n \in LNicks
  PROVE  LET t == add_aregistra(s, n)
         IN  /\ t \in Seq(Visit)
             /\ \E i \in DOMAIN t : t[i].nick = n
             /\ \A m : (\E i \in DOMAIN s : s[i].nick = m) => \E i \in DOMAIN t : t[i].nick = m
<1> DEFINE e == [nick |-> n, expires |-> now + Greeting]
           t == add_aregistra(s, n)
<1>1. e \in Visit /\ e.nick = n
  BY PendingAssumption DEF Visit
<1>2. t = Append(s, e)
  BY DEF add_aregistra
<1> HIDE DEF e, t
<1>3. /\ t \in Seq(Visit) /\ \A i \in DOMAIN s : i \in DOMAIN t /\ t[i] = s[i]
      /\ Len(s) + 1 \in DOMAIN t /\ t[Len(s) + 1] = e
  BY <1>1, <1>2
<1> QED BY <1>1, <1>3 DEF t

(* Whoever comes, goes or changes nicks, the others still wait.            *)
LEMMA NewcomerCommand ==
  ASSUME NewcomerInv, NewcomersNext, ~Burst
  PROVE  /\ aregistras' \in Seq(Visit) /\ online' \subseteq LNicks /\ IsFiniteSet(online')
         /\ NewcomersWait'
<1> DEFINE Good == /\ aregistras' \in Seq(Visit) /\ online' \subseteq LNicks
                   /\ IsFiniteSet(online') /\ NewcomersWait'
<1>0. /\ now \in Nat /\ aregistras \in Seq(Visit) /\ online \subseteq LNicks
      /\ \A n \in newcomers : Waits(n)
      /\ \A n : IsFiniteSet(online \ {n})
      /\ \A n : IsFiniteSet(online \cup {n})
      /\ \A n, m : IsFiniteSet((online \ {n}) \cup {m})
  BY FS_RemoveElement, FS_AddElement DEF NewcomerInv, NewcomersWait, Waits
<1>1. ASSUME NEW n \in LNicks, do_nick_new(n) PROVE Good
  <2>1. online' = online \cup {n} /\ online' \subseteq LNicks
    BY <1>0, <1>1 DEF do_nick_new
  <2>2. CASE n \in owned
    BY <1>0, <1>1, <2>1, <2>2 DEF do_nick_new, NewcomersWait, Waits
  <2>3. CASE n \notin owned
    <3> DEFINE s == add_aregistra(aregistras, n)
    <3>1. aregistras' = s /\ newcomers' = newcomers \cup {n}
      BY <1>1, <2>3 DEF do_nick_new
    <3>2. /\ s \in Seq(Visit) /\ \E i \in DOMAIN s : s[i].nick = n
          /\ \A m : Waits(m) => \E i \in DOMAIN s : s[i].nick = m
      BY <1>0, VisitComes DEF Waits
    <3> HIDE DEF s
    <3> QED BY <1>0, <2>1, <3>1, <3>2 DEF NewcomersWait
  <2> QED BY <2>2, <2>3
<1>2. ASSUME NEW n \in LNicks, do_quit(n) PROVE Good
  <2> DEFINE s == del_aregistra(aregistras, n)
  <2>1. online' = online \ {n} /\ newcomers' = newcomers \ {n} /\ aregistras' = s
    BY <1>2 DEF do_quit
  <2>2. s \in Seq(Visit) /\ \A m : m # n /\ Waits(m) => \E i \in DOMAIN s : s[i].nick = m
    BY VisitGoes
  <2> HIDE DEF s
  <2> QED BY <1>0, <2>1, <2>2 DEF NewcomersWait
<1>3. ASSUME NEW n \in LNicks, delete_user(n) PROVE Good
  BY <1>0, <1>3 DEF delete_user, NewcomersWait, Waits
<1>4. ASSUME NEW n \in LNicks, Registered(n) PROVE Good
  BY <1>4 DEF Registered, NewcomersWait, NewcomerInv
<1>5. ASSUME NEW n \in LNicks, NEW m \in LNicks, do_nick_change(n, m) PROVE Good
  <2> DEFINE s == del_aregistra(aregistras, n)
             t == add_aregistra(s, m)
  <2>1. /\ online' = (online \ {n}) \cup {m}
        /\ newcomers' = (newcomers \ {n}) \cup ({m} \ owned)
        /\ aregistras' = IF m \in owned THEN s ELSE t
    BY <1>5 DEF do_nick_change
  <2>2. s \in Seq(Visit) /\ \A x : x # n /\ Waits(x) => \E i \in DOMAIN s : s[i].nick = x
    BY VisitGoes
  <2>3. /\ t \in Seq(Visit) /\ \E i \in DOMAIN t : t[i].nick = m
        /\ \A x : (\E i \in DOMAIN s : s[i].nick = x) => \E i \in DOMAIN t : t[i].nick = x
    <3> HIDE DEF s
    <3> QED BY <1>0, <2>2, VisitComes
  <2> HIDE DEF s, t
  <2>4. aregistras' \in Seq(Visit) /\ online' \subseteq LNicks /\ IsFiniteSet(online')
    BY <1>0, <2>1, <2>2, <2>3
  <2>5. ASSUME NEW x \in newcomers' PROVE \E i \in DOMAIN aregistras' : aregistras'[i].nick = x
    <3>1. CASE x = m /\ m \notin owned
      BY <2>1, <2>3, <3>1
    <3>2. CASE x \in newcomers \ {n}
      BY <1>0, <2>1, <2>2, <2>3, <3>2
    <3> QED BY <2>1, <3>1, <3>2
  <2> QED BY <2>4, <2>5 DEF NewcomersWait
<1>6. ASSUME expire_aregistras PROVE Good
  <2> DEFINE over == {i \in DOMAIN aregistras : aregistras[i].expires <= now}
             K == DOMAIN aregistras \ over
  <2>1. /\ aregistras' = Remaining(aregistras, K)
        /\ newcomers' = newcomers \ {aregistras[i].nick : i \in over}
        /\ online' = online
    BY <1>6 DEF expire_aregistras
  <2>2. K \in SUBSET (1..Len(aregistras))
    BY <1>0
  <2>3. \A n \in newcomers' : \E k \in K : aregistras[k].nick = n
    BY <1>0, <2>1 DEF Waits
  <2> HIDE DEF K
  <2>4. aregistras' \in Seq(Visit) /\ Selected(aregistras', aregistras, K)
    BY <1>0, <2>1, <2>2, RemainingSelected
  <2>5. \A k \in K : \E i \in DOMAIN aregistras' : aregistras'[i] = aregistras[k]
    BY <2>4 DEF Selected
  <2> QED BY <2>1, <2>3, <2>4, <2>5 DEF NewcomersWait, NewcomerInv
<1> QED BY <1>1, <1>2, <1>3, <1>4, <1>5, <1>6 DEF NewcomersNext

(* The burst of the network makes an entry for each nick that nobody owns. *)
LEMMA NewcomerBurst ==
  ASSUME NewcomerInv, Burst
  PROVE  aregistras' \in Seq(Visit) /\ NewcomersWait'
<1> DEFINE S == online \ owned
           e(n) == [nick |-> n, expires |-> now + Greeting]
<1>1. IsFiniteSet(S) /\ S \subseteq LNicks
  BY FS_Difference DEF NewcomerInv
<1>2. newcomers' = S
  BY DEF Burst
<1>3. PICK order \in SetToSeqs(S) : aregistras' = [i \in DOMAIN order |-> e(order[i])]
  BY DEF Burst
<1>4. \A n \in LNicks : e(n) \in Visit /\ e(n).nick = n
  BY PendingAssumption DEF Visit, NewcomerInv
<1> HIDE DEF S, e
<1>5. /\ order \in Seq(S) /\ DOMAIN order = 1..Len(order)
      /\ \A x \in S : \E i \in DOMAIN order : order[i] = x
  BY <1>1, OrderNames
<1>6. /\ DOMAIN aregistras' = DOMAIN order
      /\ \A i \in DOMAIN order : order[i] \in LNicks /\ aregistras'[i] = e(order[i])
  BY <1>1, <1>3, <1>5
<1>7. aregistras' \in Seq(Visit)
  <2>1. aregistras' \in [1..Len(order) -> Visit] /\ Len(order) \in Nat
    BY <1>3, <1>4, <1>5, <1>6
  <2> QED BY <2>1, FunctionIsSeq
<1>8. NewcomersWait'
  BY <1>1, <1>2, <1>4, <1>5, <1>6 DEF NewcomersWait
<1> QED BY <1>7, <1>8

(* The invariant of the newcomers.                                         *)
LEMMA NewcomerInvariant == Spec => []NewcomerInv
<1>1. Init => NewcomerInv
  BY FS_EmptySet DEF Init, PendingInit, NewcomerInv, NewcomersWait
<1>2. NewcomerInv /\ [Next]_vars => NewcomerInv'
  <2> SUFFICES ASSUME NewcomerInv, [Next]_vars PROVE NewcomerInv'
    OBVIOUS
  <2>1. now' \in Nat
    BY ClockSteps DEF NewcomerInv
  <2>2. CASE NewcomersNext /\ ~Burst
    BY <2>1, <2>2, NewcomerCommand DEF NewcomerInv
  <2>3. CASE Burst
    <3>1. online' = online
      BY <2>3 DEF Burst
    <3> QED BY <2>1, <2>3, <3>1, NewcomerBurst DEF NewcomerInv
  <2>4. CASE UNCHANGED greetVars
    BY <2>1, <2>4 DEF greetVars, NewcomerInv, NewcomersWait
  <2> QED BY <2>2, <2>3, <2>4, NewcomerSteps
<1> QED BY <1>1, <1>2, PTL DEF Spec

(* The entry of a newcomer who waits for the greeting is not taken away    *)
(* with another's.                                                         *)
THEOREM NewcomersCorrect == Spec => []NewcomersWait
<1>1. NewcomerInv => NewcomersWait
  BY DEF NewcomerInv
<1> QED BY <1>1, NewcomerInvariant, PTL

-----------------------------------------------------------------------------
(* Numbers of news and words.                                              *)

Item == [type : Types, num : Nat \ {0}]
Word == Nat \ {0}

(* The numbers rise, of the news in each type.                             *)
NewsRise(s) == \A i, j \in DOMAIN s : i < j /\ s[i].type = s[j].type => s[i].num < s[j].num
WordsRise(s) == \A i, j \in DOMAIN s : i < j => s[i] < s[j]
NumberInv ==
  /\ news \in Seq(Item) /\ NewsRise(news)
  /\ spam \in Seq(Word) /\ WordsRise(spam)
  /\ numfiles.news \in Seq(Item) /\ NewsRise(numfiles.news)
  /\ numfiles.spam \in Seq(Word) /\ WordsRise(numfiles.spam)

(* Who changes the news and the words.                                     *)
LEMMA NumberSteps ==
  [Next]_vars => NewsNext \/ SpamNext \/ save_numbered \/ load_numbered \/ UNCHANGED numVars
BY DEF Next, Work, Time, Save, Restart, Others, vars

(* The items and words of the arrays.                                      *)
LEMMA ItemEntries ==
  ASSUME NEW s \in Seq(Item)
  PROVE  /\ Len(s) \in Nat /\ DOMAIN s = 1..Len(s)
         /\ \A i \in DOMAIN s : s[i].type \in Types /\ s[i].num \in Nat \ {0}
<1>1. Len(s) \in Nat /\ DOMAIN s = 1..Len(s) /\ \A i \in DOMAIN s : s[i] \in Item
  OBVIOUS
<1>2. \A e \in Item : e.type \in Types /\ e.num \in Nat \ {0}
  BY DEF Item
<1> QED BY <1>1, <1>2

(* A new item has a number above those of its type.                        *)
LEMMA NewsComes ==
  ASSUME NumberInv, NEW type \in Types, add_newsitem(type)
  PROVE  news' \in Seq(Item) /\ NewsRise(news)'
<1> DEFINE I == {i \in 1..Len(news) : news[i].type = type}
           l == LastNews(type)
           e == [type |-> type, num |-> NextNews(type)]
<1>0. /\ news \in Seq(Item) /\ Len(news) \in Nat /\ DOMAIN news = 1..Len(news)
      /\ \A i \in DOMAIN news : news[i].type \in Types /\ news[i].num \in Nat \ {0}
  BY ItemEntries DEF NumberInv
<1>1. l = IF I # {} THEN Max(I) ELSE 0
  BY DEF LastNews, SelectLastInSeq
<1>2. I \in SUBSET (1..Len(news)) /\ \A i \in DOMAIN news : news[i].type = type <=> i \in I
  BY <1>0
<1>3. /\ NextNews(type) \in Nat \ {0}
      /\ \A i \in DOMAIN news : news[i].type = type => news[i].num < NextNews(type)
  <2>1. CASE I = {}
    BY <1>1, <1>2, <2>1 DEF NextNews
  <2>2. CASE I # {}
    <3>1. l \in I /\ \A i \in I : i <= l
      <4> HIDE DEF I, l
      <4> QED BY <1>0, <1>1, <1>2, <2>2, GreatestIn
    <3>2. l \in DOMAIN news /\ l # 0 /\ news[l].type = type
      BY <1>0, <3>1
    <3>3. NextNews(type) = news[l].num + 1
      BY <3>2 DEF NextNews
    <3>4. ASSUME NEW i \in DOMAIN news, news[i].type = type PROVE news[i].num <= news[l].num
      <4>1. i \in I /\ i <= l
        BY <1>2, <3>1, <3>4
      <4>2. i < l => news[i].num < news[l].num
        BY <3>2, <3>4 DEF NumberInv, NewsRise
      <4> HIDE DEF l
      <4> QED BY <1>0, <3>2, <4>1, <4>2
    <3> HIDE DEF l
    <3> QED BY <1>0, <3>2, <3>3, <3>4
  <2> QED BY <2>1, <2>2
<1>4. e \in Item /\ e.type = type /\ e.num = NextNews(type)
  BY <1>3 DEF Item
<1>5. news' = Append(news, e)
  BY DEF add_newsitem
<1> HIDE DEF e
<1>6. /\ news' \in Seq(Item) /\ DOMAIN news' = 1..(Len(news) + 1)
      /\ \A i \in DOMAIN news : news'[i] = news[i]
      /\ news'[Len(news) + 1] = e
  BY <1>0, <1>4, <1>5
<1>7. ASSUME NEW i \in DOMAIN news', NEW j \in DOMAIN news', i < j, news'[i].type = news'[j].type
      PROVE  news'[i].num < news'[j].num
  <2>1. i \in DOMAIN news /\ (j \in DOMAIN news \/ j = Len(news) + 1)
    BY <1>0, <1>6, <1>7
  <2>2. CASE j \in DOMAIN news
    BY <1>6, <1>7, <2>1, <2>2 DEF NumberInv, NewsRise
  <2>3. CASE j = Len(news) + 1
    BY <1>3, <1>4, <1>6, <1>7, <2>1, <2>3
  <2> QED BY <2>1, <2>2, <2>3
<1> QED BY <1>6, <1>7 DEF NewsRise

(* So has a new word.                                                      *)
LEMMA WordComes ==
  ASSUME NumberInv, add_spam
  PROVE  spam' \in Seq(Word) /\ WordsRise(spam)'
<1>0. /\ spam \in Seq(Word) /\ Len(spam) \in Nat /\ DOMAIN spam = 1..Len(spam)
      /\ \A i \in DOMAIN spam : spam[i] \in Nat /\ spam[i] # 0
  BY DEF NumberInv, Word
<1>1. NextSpam \in Word /\ \A i \in DOMAIN spam : spam[i] < NextSpam
  <2>1. CASE spam = <<>>
    BY <2>1 DEF NextSpam, Word
  <2>2. CASE spam # <<>>
    <3>1. Len(spam) \in DOMAIN spam /\ NextSpam = spam[Len(spam)] + 1
      BY <1>0, <2>2 DEF NextSpam, Last
    <3>2. ASSUME NEW i \in DOMAIN spam PROVE spam[i] <= spam[Len(spam)]
      <4>1. spam[i] \in Nat /\ (i < Len(spam) \/ i = Len(spam))
        BY <1>0
      <4>2. i < Len(spam) => spam[i] < spam[Len(spam)]
        BY <3>1 DEF NumberInv, WordsRise
      <4> QED BY <1>0, <3>1, <4>1, <4>2
    <3> QED BY <1>0, <3>1, <3>2 DEF Word
  <2> QED BY <2>1, <2>2
<1>2. spam' = Append(spam, NextSpam)
  BY DEF add_spam
<1>3. /\ spam' \in Seq(Word) /\ DOMAIN spam' = 1..(Len(spam) + 1)
      /\ \A i \in DOMAIN spam : spam'[i] = spam[i]
      /\ spam'[Len(spam) + 1] = NextSpam
  BY <1>0, <1>1, <1>2
<1>4. WordsRise(spam)'
  BY <1>0, <1>1, <1>3 DEF NumberInv, WordsRise
<1> QED BY <1>3, <1>4

(* What DEL leaves rises as before.                                        *)
LEMMA NumbersGo ==
  ASSUME NumberInv
  PROVE  /\ \A num, type : del_newsitem(num, type) => news' \in Seq(Item) /\ NewsRise(news)'
         /\ \A num : del_spam(num) => spam' \in Seq(Word) /\ WordsRise(spam)'
<1>1. ASSUME NEW num, NEW type, del_newsitem(num, type)
      PROVE  news' \in Seq(Item) /\ NewsRise(news)'
  <2> DEFINE K == {i \in DOMAIN news : ~(news[i].type = type /\ (num = 0 \/ news[i].num = num))}
  <2>1. news \in Seq(Item) /\ K \in SUBSET (1..Len(news)) /\ K \subseteq DOMAIN news
    BY DEF NumberInv
  <2>2. news' = Remaining(news, K)
    BY <1>1 DEF del_newsitem
  <2> HIDE DEF K
  <2>3. news' \in Seq(Item) /\ Selected(news', news, K)
    BY <2>1, <2>2, RemainingSelected
  <2>4. PICK f \in [DOMAIN news' -> K] :
          /\ \A i \in DOMAIN news' : news'[i] = news[f[i]]
          /\ \A i, j \in DOMAIN news' : i < j => f[i] < f[j]
    BY <2>3 DEF Selected
  <2>5. NewsRise(news)'
    BY <2>1, <2>4 DEF NewsRise, NumberInv
  <2> QED BY <2>3, <2>5
<1>2. ASSUME NEW num, del_spam(num) PROVE spam' \in Seq(Word) /\ WordsRise(spam)'
  <2> DEFINE K == {i \in DOMAIN spam : ~(num = 0 \/ spam[i] = num)}
  <2>1. spam \in Seq(Word) /\ K \in SUBSET (1..Len(spam)) /\ K \subseteq DOMAIN spam
    BY DEF NumberInv
  <2>2. spam' = Remaining(spam, K)
    BY <1>2 DEF del_spam
  <2> HIDE DEF K
  <2>3. spam' \in Seq(Word) /\ Selected(spam', spam, K)
    BY <2>1, <2>2, RemainingSelected
  <2>4. WordsRise(spam)'
    BY <2>1, <2>3 DEF Selected, WordsRise, NumberInv
  <2> QED BY <2>3, <2>4
<1> QED BY <1>1, <1>2

(* The invariant of the numbers.                                           *)
LEMMA NumberInvariant == Spec => []NumberInv
<1>1. Init => NumberInv
  <2>1. \A S : <<>> \in Seq(S) /\ DOMAIN <<>> = {}
    OBVIOUS
  <2> QED BY <2>1 DEF Init, NumberedInit, NumberInv, NewsRise, WordsRise
<1>2. NumberInv /\ [Next]_vars => NumberInv'
  <2> SUFFICES ASSUME NumberInv, [Next]_vars PROVE NumberInv'
    OBVIOUS
  <2>1. ASSUME NEW type \in Types, add_newsitem(type) PROVE NumberInv'
    BY <2>1, NewsComes DEF add_newsitem, NumberInv, NewsRise, WordsRise
  <2>2. ASSUME NEW num, NEW type, del_newsitem(num, type) PROVE NumberInv'
    <3>1. news' \in Seq(Item) /\ NewsRise(news)'
      BY <2>2, NumbersGo
    <3>2. UNCHANGED <<spam, numfiles>>
      BY <2>2 DEF del_newsitem
    <3> QED BY <3>1, <3>2 DEF NumberInv, NewsRise, WordsRise
  <2>3. ASSUME add_spam PROVE NumberInv'
    BY <2>3, WordComes DEF add_spam, NumberInv, NewsRise, WordsRise
  <2>4. ASSUME NEW num, del_spam(num) PROVE NumberInv'
    <3>1. spam' \in Seq(Word) /\ WordsRise(spam)'
      BY <2>4, NumbersGo
    <3>2. UNCHANGED <<news, numfiles>>
      BY <2>4 DEF del_spam
    <3> QED BY <3>1, <3>2 DEF NumberInv, NewsRise, WordsRise
  <2>5. CASE save_numbered
    BY <2>5 DEF save_numbered, NumberInv, NewsRise, WordsRise
  <2>6. CASE load_numbered
    BY <2>6 DEF load_numbered, NumberInv, NewsRise, WordsRise
  <2>7. CASE UNCHANGED numVars
    BY <2>7 DEF numVars, NumberInv, NewsRise, WordsRise
  <2> QED BY <2>1, <2>2, <2>3, <2>4, <2>5, <2>6, <2>7, NumberSteps DEF NewsNext, SpamNext
<1> QED BY <1>1, <1>2, PTL DEF Spec

(* Where numbers rise, a number names one item.                            *)
LEMMA RisingNames == NumberInv => OneItemPerNumber
<1> SUFFICES ASSUME NumberInv PROVE OneItemPerNumber
  OBVIOUS
<1>1. ASSUME NEW i \in DOMAIN news, NEW j \in DOMAIN news, news[i] = news[j] PROVE i = j
  <2>1. i \in Nat /\ j \in Nat /\ news[i].num \in Nat
    BY ItemEntries DEF NumberInv
  <2>2. ~(i < j) /\ ~(j < i)
    BY <1>1, <2>1 DEF NumberInv, NewsRise
  <2> QED BY <2>1, <2>2
<1>2. ASSUME NEW i \in DOMAIN spam, NEW j \in DOMAIN spam, spam[i] = spam[j] PROVE i = j
  <2>1. i \in Nat /\ j \in Nat /\ spam[i] \in Nat
    BY DEF NumberInv, Word
  <2>2. ~(i < j) /\ ~(j < i)
    BY <1>2, <2>1 DEF NumberInv, WordsRise
  <2> QED BY <2>1, <2>2
<1> QED BY <1>1, <1>2 DEF OneItemPerNumber

(* What DEL is given names one entry, of AKICKs, changes of limits, news,  *)
(* words and memos.                                                        *)
THEOREM NoTwinsCorrect == Spec => []NoTwins
<1>1. AkickInv /\ LimitInv /\ NumberInv /\ MemoInv => NoTwins
  BY RisingNames DEF AkickInv, LimitInv, MemoInv, NoTwins
<1> QED BY <1>1, AkickInvariant, LimitInvariant, NumberInvariant, MemoInvariant, PTL
=============================================================================
