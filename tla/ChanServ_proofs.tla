--------------------------- MODULE ChanServ_proofs ---------------------------
(***************************************************************************)
(* What ChanServ promises about the founder of a channel, for any number   *)
(* of users, nicks and channels.                                           *)
(***************************************************************************)
EXTENDS ChanServ, FiniteSetTheorems, TLAPS

(* The channels cs_remove_nick has passed no longer lead to the nick, but  *)
(* for those a successor has taken over.                                   *)
PassedClean ==
  ~Idle => \A ci \in infos \ (left \cup inherited) :
             founder[ci] # removing /\ removing \notin setters[ci]

(* All along, whatever a channel leads to is there.                        *)
LeadsToLive ==
  \A ci \in infos \ inherited :
    founder[ci] \in nicks \cup {NULL} /\ setters[ci] \subseteq nicks

ChanInv ==
  /\ TypeOK
  /\ Idle => left = {}
  /\ FounderUnlessForbidden
  /\ LeadsToLive
  /\ PassedClean

LEMMA InitChanInv == Init => ChanInv
BY NullAssumption DEF Init, ChanInv, TypeOK, FounderUnlessForbidden, LeadsToLive,
   PassedClean, Idle

(* Lowering and raising keep the counts natural numbers.                   *)
LEMMA CountsStayNat ==
  ASSUME NEW c \in [Nicks -> Nat], NEW n
  PROVE  /\ Lower(c, n) \in [Nicks -> Nat]
         /\ Raise(c, n) \in [Nicks -> Nat]
<1>1. CASE n \notin Nicks
  BY <1>1 DEF Lower, Raise
<1>2. CASE n \in Nicks
  <2>1. c[n] \in Nat
    BY <1>2
  <2>2. c[n] > 0 => c[n] - 1 \in Nat
    BY <2>1
  <2>3. c[n] + 1 \in Nat
    BY <2>1
  <2>4. ASSUME NEW k \in Nat
        PROVE  [c EXCEPT ![n] = k] \in [Nicks -> Nat]
    OBVIOUS
  <2>5. [c EXCEPT ![n] = c[n] + 1] \in [Nicks -> Nat]
    BY <2>3, <2>4
  <2>6. c[n] > 0 => [c EXCEPT ![n] = c[n] - 1] \in [Nicks -> Nat]
    BY <2>2, <2>4
  <2> QED BY <2>5, <2>6 DEF Lower, Raise
<1> QED BY <1>1, <1>2

(* A channel is freed: the others stay as they were.                       *)
LEMMA DelchanKeeps ==
  ASSUME ChanInv, NEW ci \in infos, delchan({ci}), UNCHANGED <<nicks, ni, identified, chans>>,
         count' \in [Nicks -> Nat],
         removing' = removing, left' = left \ {ci}
  PROVE  ChanInv'
BY DEF ChanInv, TypeOK, delchan, Freed, FounderUnlessForbidden, LeadsToLive,
   PassedClean, Idle

(* A channel is made, in place of those in gone, with a founder who is     *)
(* registered, or forbidden and without one.                               *)
LEMMA MakechanKeeps ==
  ASSUME ChanInv, Idle, NEW ci \in Infos, NEW gone \in SUBSET infos,
         NEW n \in nicks \cup {NULL}, NEW f \in SUBSET {"VERBOTEN", "SUSPEND"},
         n = NULL <=> "VERBOTEN" \in f,
         makechan(ci, gone, n, f),
         UNCHANGED <<nicks, ni, identified, removing, left>>,
         count' \in [Nicks -> Nat], chans' \in [Users -> SUBSET Infos]
  PROVE  ChanInv'
BY NullAssumption DEF ChanInv, TypeOK, makechan, Freed, FounderUnlessForbidden, LeadsToLive,
   PassedClean, Idle
-----------------------------------------------------------------------------
(* The steps that are not the loop of cs_remove_nick.                      *)
LEMMA NickStepKeeps == ChanInv /\ NickStep => ChanInv'
<1> SUFFICES ASSUME ChanInv, NickStep PROVE ChanInv'
  OBVIOUS
<1> USE NullAssumption DEF ChanInv
<1>1. ASSUME NEW n \in Nicks, makenick(n)
      PROVE  ChanInv'
  BY <1>1 DEF makenick, channels, people, sweep, TypeOK, FounderUnlessForbidden,
     LeadsToLive, PassedClean, Idle
<1>2. ASSUME NEW n \in Nicks, StartRemove(n)
      PROVE  ChanInv'
  BY <1>2 DEF StartRemove, channels, people, TypeOK, FounderUnlessForbidden,
     LeadsToLive, PassedClean, Idle
<1>3. ASSUME NEW u \in Users, NEW n \in nicks \cup {NULL}, ChangeNick(u, n)
      PROVE  ChanInv'
  BY <1>3 DEF ChangeNick, channels, sweep, TypeOK, FounderUnlessForbidden,
     LeadsToLive, PassedClean, Idle
<1>4. ASSUME NEW u \in Users, IdentifyNick(u)
      PROVE  ChanInv'
  BY <1>4 DEF IdentifyNick, channels, sweep, TypeOK, FounderUnlessForbidden,
     LeadsToLive, PassedClean, Idle
<1>5. ASSUME NEW u \in Users, DeleteUser(u)
      PROVE  ChanInv'
  BY <1>5 DEF DeleteUser, channels, sweep, TypeOK, FounderUnlessForbidden,
     LeadsToLive, PassedClean, Idle
<1> QED BY <1>1, <1>2, <1>3, <1>4, <1>5 DEF NickStep

(* The loop of cs_remove_nick and the end of delnick.                      *)
LEMMA RemoveStepKeeps == ChanInv /\ RemoveStep => ChanInv'
<1> SUFFICES ASSUME ChanInv, RemoveStep PROVE ChanInv'
  OBVIOUS
<1> USE NullAssumption
<1>1. ASSUME NEW ci \in Infos, RemoveChannel(ci)
      PROVE  ChanInv'
  <2>1. count' \in [Nicks -> Nat]
    BY <1>1, CountsStayNat DEF RemoveChannel, ChanInv, TypeOK
  <2>2. ci \in infos
    BY <1>1 DEF RemoveChannel, ChanInv, TypeOK
  <2> QED BY <1>1, <2>1, <2>2, DelchanKeeps DEF RemoveChannel, people
<1>2. ASSUME NEW ci \in Infos, TransferChannel(ci)
      PROVE  ChanInv'
  <2>1. count' \in [Nicks -> Nat]
    BY <1>2, CountsStayNat DEF TransferChannel, ChanInv, TypeOK
  <2> QED BY <1>2, <2>1 DEF TransferChannel, people, ChanInv, TypeOK,
          FounderUnlessForbidden, LeadsToLive, PassedClean, Idle
<1>3. ASSUME NEW ci \in Infos, CleanAccess(ci)
      PROVE  ChanInv'
  BY <1>3 DEF CleanAccess, people, ChanInv, TypeOK, FounderUnlessForbidden,
     LeadsToLive, PassedClean, Idle
<1>4. CASE EndRemove
  BY <1>4 DEF EndRemove, channels, ChanInv, TypeOK, FounderUnlessForbidden,
     LeadsToLive, PassedClean, Idle
<1> QED BY <1>1, <1>2, <1>3, <1>4 DEF RemoveStep

(* The commands of users.                                                  *)
LEMMA UserStepKeeps == ChanInv /\ UserStep => ChanInv'
<1> SUFFICES ASSUME ChanInv, NEW u \in Users, NEW ci \in Infos,
                    \/ do_identify(u, ci) \/ do_drop(u, ci)
                    \/ do_delsuccessor(u, ci) \/ do_delaccess(u, ci)
                    \/ \E n \in Nicks : do_set_founder(u, ci, n) \/ do_access(u, ci, n)
                    \/ \E n \in Nicks \cup {NULL} : do_set_successor(u, ci, n)
             PROVE  ChanInv'
  BY DEF UserStep
<1> USE NullAssumption
<1>1. CASE do_identify(u, ci)
  BY <1>1 DEF do_identify, channels, sweep, ChanInv, TypeOK, FounderUnlessForbidden,
     LeadsToLive, PassedClean, Idle
<1>2. CASE do_drop(u, ci)
  <2>1. count' \in [Nicks -> Nat]
    BY <1>2, CountsStayNat DEF do_drop, ChanInv, TypeOK
  <2>2. left' = left \ {ci}
    BY <1>2 DEF do_drop, sweep, ChanInv, TypeOK
  <2> QED BY <1>2, <2>1, <2>2, DelchanKeeps DEF do_drop, people, sweep
<1>3. CASE do_delsuccessor(u, ci)
  BY <1>3 DEF do_delsuccessor, people, sweep, ChanInv, TypeOK, FounderUnlessForbidden,
     LeadsToLive, PassedClean, Idle
<1>4. CASE do_delaccess(u, ci)
  BY <1>4 DEF do_delaccess, people, sweep, ChanInv, TypeOK, FounderUnlessForbidden,
     LeadsToLive, PassedClean, Idle
<1>5. ASSUME NEW n \in Nicks, do_set_founder(u, ci, n)
      PROVE  ChanInv'
  <2>1. count' \in [Nicks -> Nat]
    BY <1>5, CountsStayNat DEF do_set_founder, ChanInv, TypeOK
  <2> QED BY <1>5, <2>1 DEF do_set_founder, do_set, people, sweep, ChanInv, TypeOK,
          FounderUnlessForbidden, LeadsToLive, PassedClean, Idle
<1>6. ASSUME NEW n \in Nicks, do_access(u, ci, n)
      PROVE  ChanInv'
  BY <1>6 DEF do_access, people, sweep, ChanInv, TypeOK, FounderUnlessForbidden,
     LeadsToLive, PassedClean, Idle
<1>7. ASSUME NEW n \in Nicks \cup {NULL}, do_set_successor(u, ci, n)
      PROVE  ChanInv'
  BY <1>7 DEF do_set_successor, do_set, people, sweep, ChanInv, TypeOK,
     FounderUnlessForbidden, LeadsToLive, PassedClean, Idle
<1> QED BY <1>1, <1>2, <1>3, <1>4, <1>5, <1>6, <1>7

(* The commands of staff, a registration approved, and expiry.             *)
LEMMA StaffStepKeeps == ChanInv /\ StaffStep => ChanInv'
<1> SUFFICES ASSUME ChanInv, NEW ci \in Infos,
                    \/ \E n \in Nicks : registra_con_creg(ci, n)
                    \/ \E gone \in SUBSET infos : do_forbid(ci, gone)
                    \/ do_suspend(ci) \/ do_unsuspend(ci) \/ do_unforbid(ci)
                    \/ expire_chans(ci)
             PROVE  ChanInv'
  BY DEF StaffStep
<1> USE NullAssumption
<1>1. ASSUME NEW n \in Nicks, registra_con_creg(ci, n)
      PROVE  ChanInv'
  <2>1. count' \in [Nicks -> Nat] /\ chans' \in [Users -> SUBSET Infos]
    BY <1>1, CountsStayNat DEF registra_con_creg, ChanInv, TypeOK
  <2>2. n # NULL /\ n \in nicks \cup {NULL} /\ {} \in SUBSET infos
    BY <1>1 DEF registra_con_creg
  <2> QED BY <1>1, <2>1, <2>2, MakechanKeeps DEF registra_con_creg, sweep
<1>2. ASSUME NEW gone \in SUBSET infos, do_forbid(ci, gone)
      PROVE  ChanInv'
  <2>1. count' \in [Nicks -> Nat] /\ chans' \in [Users -> SUBSET Infos]
    BY <1>2, CountsStayNat DEF do_forbid, people, ChanInv, TypeOK
  <2> QED BY <1>2, <2>1, MakechanKeeps DEF do_forbid, people, sweep
<1>3. CASE do_suspend(ci)
  BY <1>3 DEF do_suspend, Barred, people, sweep, ChanInv, TypeOK, FounderUnlessForbidden,
     LeadsToLive, PassedClean, Idle
<1>4. CASE do_unsuspend(ci)
  BY <1>4 DEF do_unsuspend, people, sweep, ChanInv, TypeOK, FounderUnlessForbidden,
     LeadsToLive, PassedClean, Idle
<1>5. CASE do_unforbid(ci)
  <2>1. left' = left \ {ci} /\ count' \in [Nicks -> Nat]
    BY <1>5 DEF do_unforbid, sweep, ChanInv, TypeOK
  <2> QED BY <1>5, <2>1, DelchanKeeps DEF do_unforbid, people, sweep
<1>6. CASE expire_chans(ci)
  <2>1. count' \in [Nicks -> Nat]
    BY <1>6, CountsStayNat DEF expire_chans, ChanInv, TypeOK
  <2>2. left' = left \ {ci}
    BY <1>6 DEF expire_chans, sweep, ChanInv, TypeOK
  <2> QED BY <1>6, <2>1, <2>2, DelchanKeeps DEF expire_chans, people, sweep
<1> QED BY <1>1, <1>2, <1>3, <1>4, <1>5, <1>6

(* Save and load.                                                          *)
LEMMA RestartKeeps == ChanInv /\ Restart => ChanInv'
<1> SUFFICES ASSUME ChanInv, Restart PROVE ChanInv'
  OBVIOUS
<1> USE NullAssumption DEF ChanInv
<1>1. PICK as \in [Nicks \ nicks -> nicks \cup {NULL}] :
        Restart!2!(as)
  BY DEF Restart
<1> DEFINE Found(p) == IF p \in nicks \cup {NULL} THEN p ELSE as[p]
           Orphans  == {ci \in infos : /\ "VERBOTEN" \notin flags[ci]
                                      /\ Found(founder[ci]) = NULL}
<1>2. /\ infos'     = infos \ Orphans
      /\ founder'   = [ci \in Infos |-> Found(founder[ci])]
      /\ successor' = Freed([ci \in Infos |-> Found(successor[ci])], Orphans, NULL)
      /\ setters'   = Freed([ci \in Infos |->
                         {Found(n) : n \in setters[ci]} \ {NULL}], Orphans, {})
      /\ flags'     = Freed(flags, Orphans, {})
      /\ inherited' = inherited \ Orphans
  BY <1>1
<1>3. \A p \in Nicks \cup {NULL} : Found(p) \in nicks \cup {NULL}
  OBVIOUS
<1>4. /\ nicks' = nicks /\ removing' = NULL /\ left' = {} /\ removing = NULL
      /\ count' = count /\ ni' = [u \in Users |-> NULL] /\ identified' = {}
      /\ chans' = [u \in Users |-> {}]
  BY DEF Restart, sweep, Idle
<1>5. /\ founder' \in [Infos -> nicks \cup {NULL}]
      /\ successor' \in [Infos -> nicks \cup {NULL}]
      /\ setters' \in [Infos -> SUBSET nicks]
  <2> HIDE DEF Found
  <2>1. \A ci \in Infos : founder[ci] \in Nicks \cup {NULL}
                       /\ successor[ci] \in Nicks \cup {NULL}
                       /\ setters[ci] \subseteq Nicks
    BY DEF TypeOK
  <2>2. \A ci \in Infos : {Found(n) : n \in setters[ci]} \ {NULL} \subseteq nicks
    BY <1>3, <2>1
  <2> QED BY <1>2, <1>3, <2>1, <2>2 DEF Freed
<1>6. /\ flags' \in [Infos -> SUBSET {"VERBOTEN", "SUSPEND"}]
      /\ \A ci \in infos' : flags'[ci] = flags[ci] /\ ci \in infos /\ ci \in Infos
  <2> HIDE DEF Found
  <2> QED BY <1>2 DEF TypeOK, Freed
<1>7. TypeOK'
  <2> HIDE DEF Found, Orphans
  <2> QED BY <1>2, <1>4, <1>5, <1>6 DEF TypeOK
<1>8. FounderUnlessForbidden'
  <2> SUFFICES ASSUME NEW ci \in infos'
               PROVE  founder'[ci] = NULL <=> "VERBOTEN" \in flags'[ci]
    BY DEF FounderUnlessForbidden
  <2>1. founder'[ci] = Found(founder[ci]) /\ flags'[ci] = flags[ci]
    BY <1>2, <1>6
  <2>2. CASE "VERBOTEN" \in flags[ci]
    BY <1>6, <2>1, <2>2 DEF FounderUnlessForbidden
  <2>3. CASE "VERBOTEN" \notin flags[ci]
    BY <1>2, <1>6, <2>1, <2>3
  <2> QED BY <2>2, <2>3
<1>9. LeadsToLive' /\ PassedClean'
  BY <1>4, <1>5, <1>6 DEF LeadsToLive, PassedClean, Idle
<1> QED BY <1>4, <1>7, <1>8, <1>9
-----------------------------------------------------------------------------
LEMMA ChanInvInductive == ChanInv /\ [Next]_vars => ChanInv'
<1> SUFFICES ASSUME ChanInv, [Next]_vars PROVE ChanInv'
  OBVIOUS
<1>1. CASE UNCHANGED vars
  BY <1>1 DEF vars, channels, people, sweep, ChanInv, TypeOK, FounderUnlessForbidden,
     LeadsToLive, PassedClean, Idle
<1>2. CASE Next
  BY <1>2, NickStepKeeps, RemoveStepKeeps, UserStepKeeps, StaffStepKeeps, RestartKeeps
     DEF Next
<1> QED BY <1>1, <1>2

(* Every variable of ChanServ keeps its type: in particular user->ni is    *)
(* NULL or a nick that is registered.                                      *)
THEOREM TypeCorrect == Spec => []TypeOK
<1>1. ChanInv => TypeOK
  BY DEF ChanInv
<1> QED BY InitChanInv, ChanInvInductive, <1>1, PTL DEF Spec

(* A channel has a founder exactly if it is not forbidden, so the code     *)
(* that reads ci->founder->nick of a channel not forbidden never reads     *)
(* through NULL.                                                           *)
THEOREM FounderPresent == Spec => []FounderUnlessForbidden
<1>1. ChanInv => FounderUnlessForbidden
  BY DEF ChanInv
<1> QED BY InitChanInv, ChanInvInductive, <1>1, PTL DEF Spec

(* A channel leads to a nick that is gone, as founder or by its access     *)
(* list, only if a successor took it over.                                 *)
THEOREM OnlyInheritedDead == Spec => []DeadOnlyInherited
<1>1. ChanInv => DeadOnlyInherited
  BY DEF ChanInv, LeadsToLive, DeadOnlyInherited
<1> QED BY InitChanInv, ChanInvInductive, <1>1, PTL DEF Spec
-----------------------------------------------------------------------------
(* The count of channels.  A freed NickInfo has no count.                  *)
CountInv ==
  /\ ChanInv
  /\ \A n \in Nicks \ nicks : count[n] = 0
  /\ CountBound

LEMMA OwnedFinite ==
  ASSUME ChanInv, NEW n
  PROVE  IsFiniteSet(Owned(n)) /\ Cardinality(Owned(n)) \in Nat
<1>1. Owned(n) \subseteq Infos
  BY DEF ChanInv, TypeOK, Owned
<1> QED BY <1>1, FS_Subset, FS_CardinalityType, FiniteAssumption

(* What Lower and Raise make of the count of a registered nick.            *)
LEMMA LowerValue ==
  ASSUME ChanInv, NEW c \in [Nicks -> Nat], NEW n, NEW m \in Nicks
  PROVE  /\ Lower(c, n)[m] \in Nat
         /\ Lower(c, n)[m] <= c[m]
         /\ m = n /\ n \in nicks /\ c[m] > 0 => Lower(c, n)[m] = c[m] - 1
         /\ m # n => Lower(c, n)[m] = c[m]
<1>1. c[m] \in Nat
  OBVIOUS
<1>2. CASE n \in nicks /\ c[n] > 0
  <2>1. Lower(c, n) = [c EXCEPT ![n] = c[n] - 1]
    BY <1>2 DEF Lower
  <2>2. Lower(c, n)[m] = IF m = n THEN c[n] - 1 ELSE c[m]
    BY <2>1
  <2> QED BY <1>1, <1>2, <2>2
<1>3. CASE ~(n \in nicks /\ c[n] > 0)
  <2>1. Lower(c, n) = c
    BY <1>3 DEF Lower
  <2> QED BY <1>1, <1>3, <2>1
<1> QED BY <1>2, <1>3

LEMMA RaiseValue ==
  ASSUME ChanInv, NEW c \in [Nicks -> Nat], NEW n, NEW m \in Nicks
  PROVE  /\ m = n /\ n \in nicks => Raise(c, n)[m] = c[m] + 1
         /\ m # n \/ n \notin nicks => Raise(c, n)[m] = c[m]
BY DEF Raise

(* A nick that keeps its channels, or gets more, and has no higher count.  *)
LEMMA OwnedKept ==
  ASSUME CountInv, ChanInv', NEW m \in nicks \ {removing},
         Owned(m) \subseteq Owned(m)', count'[m] <= count[m]
  PROVE  count'[m] <= Cardinality(Owned(m)')
<1>1. IsFiniteSet(Owned(m)') /\ Cardinality(Owned(m)') \in Nat
  <2>1. Owned(m)' \subseteq Infos
    BY DEF ChanInv, TypeOK, Owned
  <2> QED BY <2>1, FS_Subset, FS_CardinalityType, FiniteAssumption
<1>2. Cardinality(Owned(m)) <= Cardinality(Owned(m)')
  BY <1>1, FS_Subset
<1>3. /\ Cardinality(Owned(m)) \in Nat
      /\ count[m] <= Cardinality(Owned(m))
      /\ count[m] \in Nat /\ count'[m] \in Nat
  BY OwnedFinite DEF CountInv, CountBound, ChanInv, TypeOK
<1> QED BY <1>1, <1>2, <1>3

(* A nick that gets a channel may count one more.                          *)
LEMMA OwnedGained ==
  ASSUME CountInv, ChanInv', NEW m \in nicks \ {removing}, NEW ci,
         ci \notin Owned(m), Owned(m)' = Owned(m) \cup {ci},
         count'[m] <= count[m] + 1
  PROVE  count'[m] <= Cardinality(Owned(m)')
<1>1. /\ IsFiniteSet(Owned(m)) /\ Cardinality(Owned(m)) \in Nat
      /\ count[m] <= Cardinality(Owned(m))
      /\ count[m] \in Nat /\ count'[m] \in Nat
  BY OwnedFinite DEF CountInv, CountBound, ChanInv, TypeOK
<1>2. Cardinality(Owned(m) \cup {ci}) = Cardinality(Owned(m)) + 1
  BY <1>1, FS_AddElement
<1> QED BY <1>1, <1>2

(* A nick that loses a channel counts one less, unless it counted none.    *)
LEMMA OwnedLost ==
  ASSUME CountInv, ChanInv', NEW m \in nicks \ {removing}, NEW ci \in Owned(m),
         Owned(m)' = Owned(m) \ {ci},
         count[m] > 0 => count'[m] <= count[m] - 1,
         count[m] = 0 => count'[m] = 0
  PROVE  count'[m] <= Cardinality(Owned(m)')
<1>1. /\ IsFiniteSet(Owned(m)) /\ Cardinality(Owned(m)) \in Nat
      /\ count[m] <= Cardinality(Owned(m))
      /\ count[m] \in Nat /\ count'[m] \in Nat
  BY OwnedFinite DEF CountInv, CountBound, ChanInv, TypeOK
<1>2. /\ IsFiniteSet(Owned(m) \ {ci})
      /\ Cardinality(Owned(m) \ {ci}) = Cardinality(Owned(m)) - 1
  BY <1>1, FS_RemoveElement
<1>3. Cardinality(Owned(m) \ {ci}) \in Nat
  BY <1>2, FS_CardinalityType
<1> QED BY <1>1, <1>2, <1>3

LEMMA CountNickStep == CountInv /\ ChanInv' /\ NickStep => CountInv'
<1> SUFFICES ASSUME CountInv, ChanInv', NickStep PROVE CountInv'
  OBVIOUS
<1>1. /\ count' = count /\ infos' = infos /\ founder' = founder
      /\ nicks \subseteq nicks' /\ nicks' \subseteq Nicks
      /\ removing = NULL
  BY DEF NickStep, makenick, StartRemove, ChangeNick, IdentifyNick, DeleteUser, channels,
     people, sweep, Idle, ChanInv, TypeOK
<1>2. ASSUME NEW m \in nicks' \ {removing'}
      PROVE  count'[m] <= Cardinality(Owned(m)')
  <2>1. Owned(m)' = Owned(m)
    BY <1>1 DEF Owned
  <2>2. CASE m \in nicks
    <3>1. m # removing
      BY <1>1, <2>2, NullAssumption DEF ChanInv, CountInv, TypeOK
    <3> QED BY <1>1, <2>1, <2>2, <3>1 DEF CountInv, CountBound
  <2>3. CASE m \notin nicks
    BY <1>1, <2>1, <2>3, OwnedFinite DEF CountInv
  <2> QED BY <2>2, <2>3
<1> QED BY <1>1, <1>2 DEF CountInv, CountBound

LEMMA CountRemoveStep == CountInv /\ ChanInv' /\ RemoveStep => CountInv'
<1> SUFFICES ASSUME CountInv, ChanInv', RemoveStep PROVE CountInv'
  OBVIOUS
<1> USE DEF Idle
<1>a. count \in [Nicks -> Nat] /\ nicks \subseteq Nicks
  BY DEF CountInv, ChanInv, TypeOK
<1>1. ASSUME NEW ci \in Infos, RemoveChannel(ci) PROVE CountInv'
  <2>1. /\ nicks' = nicks /\ removing' = removing /\ infos' = infos \ {ci}
        /\ founder[ci] = removing /\ count' = Lower(count, removing)
        /\ \A x \in Infos \ {ci} : founder'[x] = founder[x]
    BY <1>1 DEF RemoveChannel, delchan, Freed
  <2>2. ASSUME NEW m \in nicks \ {removing} PROVE count'[m] <= Cardinality(Owned(m)')
    <3>1. Owned(m) \subseteq Owned(m)'
      BY <2>1 DEF Owned, CountInv, ChanInv, TypeOK
    <3>2. count'[m] = count[m]
      BY <1>a, <2>1, LowerValue DEF CountInv
    <3> QED BY <1>a, <3>1, <3>2, OwnedKept
  <2>3. \A m \in Nicks \ nicks : count'[m] = 0
    BY <1>a, <2>1 DEF Lower, CountInv
  <2> QED BY <2>1, <2>2, <2>3 DEF CountInv, CountBound
<1>2. ASSUME NEW ci \in Infos, TransferChannel(ci) PROVE CountInv'
  <2>1. /\ nicks' = nicks /\ removing' = removing /\ infos' = infos /\ ci \in infos
        /\ founder[ci] = removing /\ count' = Raise(count, successor[ci])
        /\ founder'[ci] = successor[ci]
        /\ \A x \in Infos \ {ci} : founder'[x] = founder[x]
    BY <1>2 DEF TransferChannel, CountInv, ChanInv, TypeOK
  <2>2. ASSUME NEW m \in nicks \ {removing} PROVE count'[m] <= Cardinality(Owned(m)')
    <3>1. CASE m = successor[ci]
      <4>1. Owned(m)' = Owned(m) \cup {ci} /\ ci \notin Owned(m)
        BY <2>1, <3>1 DEF Owned, CountInv, ChanInv, TypeOK
      <4>2. count'[m] = count[m] + 1
        BY <1>a, <2>1, <3>1, RaiseValue DEF CountInv
      <4> QED BY <1>a, <4>1, <4>2, OwnedGained
    <3>2. CASE m # successor[ci]
      <4>1. Owned(m) \subseteq Owned(m)'
        BY <2>1 DEF Owned, CountInv, ChanInv, TypeOK
      <4>2. count'[m] = count[m]
        BY <1>a, <2>1, <3>2, RaiseValue DEF CountInv
      <4> QED BY <1>a, <4>1, <4>2, OwnedKept
    <3> QED BY <3>1, <3>2
  <2>3. \A m \in Nicks \ nicks : count'[m] = 0
    BY <1>a, <2>1 DEF Raise, CountInv
  <2> QED BY <2>1, <2>2, <2>3 DEF CountInv, CountBound
<1>3. ASSUME NEW ci \in Infos, CleanAccess(ci) PROVE CountInv'
  <2>1. UNCHANGED <<nicks, removing, infos, founder, count>>
    BY <1>3 DEF CleanAccess
  <2>2. \A m : Owned(m)' = Owned(m)
    BY <2>1 DEF Owned
  <2> QED BY <2>1, <2>2 DEF CountInv, CountBound
<1>4. CASE EndRemove
  <2>1. /\ nicks' = nicks \ {removing} /\ infos' = infos /\ founder' = founder
        /\ count' = [count EXCEPT ![removing] = 0]
    BY <1>4 DEF EndRemove, channels
  <2>2. \A m : Owned(m)' = Owned(m)
    BY <2>1 DEF Owned
  <2>3. \A m \in Nicks \ nicks' : count'[m] = 0
    BY <1>a, <2>1 DEF CountInv
  <2>4. \A m \in nicks' : count'[m] = count[m] /\ m \in nicks \ {removing}
    BY <1>a, <2>1
  <2> QED BY <2>2, <2>3, <2>4 DEF CountInv, CountBound
<1> QED BY <1>1, <1>2, <1>3, <1>4 DEF RemoveStep

(* A registered channel is freed and its founder counts one or two less.   *)
LEMMA CountDelchan ==
  ASSUME CountInv, ChanInv', NEW ci \in infos, delchan({ci}),
         UNCHANGED <<nicks, removing>>,
         \/ count' = Lower(count, founder[ci])
         \/ count' = Lower(Lower(count, founder[ci]), founder[ci])
         \/ founder[ci] = NULL /\ count' = count
  PROVE  CountInv'
<1>1. /\ count \in [Nicks -> Nat] /\ nicks \subseteq Nicks /\ ci \in Infos
      /\ infos \subseteq Infos
  BY DEF CountInv, ChanInv, TypeOK
<1>2. infos' = infos \ {ci} /\ \A x \in Infos \ {ci} : founder'[x] = founder[x]
  BY DEF delchan, Freed
<1>3. Lower(count, founder[ci]) \in [Nicks -> Nat]
  BY <1>1, CountsStayNat DEF CountInv, ChanInv
<1>4. \A m \in Nicks \ nicks : count'[m] = 0
  BY <1>1, NullAssumption DEF Lower, CountInv
<1>5. ASSUME NEW m \in nicks \ {removing} PROVE count'[m] <= Cardinality(Owned(m)')
  <2>1. count[m] \in Nat /\ count'[m] \in Nat
    BY <1>1 DEF ChanInv, TypeOK
  <2>2. CASE founder[ci] = m
    <3>1. ci \in Owned(m) /\ Owned(m)' = Owned(m) \ {ci}
      BY <1>1, <1>2, <2>2 DEF Owned
    <3>2. /\ count[m] > 0 => Lower(count, m)[m] = count[m] - 1
          /\ Lower(count, m)[m] <= count[m]
          /\ Lower(count, m)[m] \in Nat
      BY <1>1, LowerValue DEF CountInv
    <3>3. Lower(Lower(count, m), m)[m] <= Lower(count, m)[m]
      BY <1>1, <1>3, <2>2, LowerValue DEF CountInv
    <3>4. count'[m] <= Lower(count, m)[m]
      <4>1. CASE count' = Lower(count, m)
        BY <3>2, <4>1
      <4>2. CASE count' = Lower(Lower(count, m), m)
        BY <3>3, <4>2
      <4> QED BY <1>1, <2>2, <4>1, <4>2, NullAssumption
    <3>5. /\ count[m] > 0 => count'[m] <= count[m] - 1
          /\ count[m] = 0 => count'[m] = 0
      BY <2>1, <3>2, <3>4
    <3> QED BY <3>1, <3>5, OwnedLost
  <2>3. CASE founder[ci] # m
    <3>1. Owned(m) \subseteq Owned(m)'
      BY <1>1, <1>2, <2>3 DEF Owned
    <3>2. Lower(count, founder[ci])[m] = count[m]
      BY <1>1, <2>3, LowerValue DEF CountInv
    <3>3. Lower(Lower(count, founder[ci]), founder[ci])[m] = Lower(count, founder[ci])[m]
      BY <1>1, <1>3, <2>3, LowerValue DEF CountInv
    <3>4. count'[m] = count[m]
      BY <3>2, <3>3
    <3> QED BY <2>1, <3>1, <3>4, OwnedKept
  <2> QED BY <2>2, <2>3
<1> QED BY <1>4, <1>5 DEF CountInv, CountBound

(* The other steps that leave the counts and the founders as they are.     *)
LEMMA CountSame ==
  CountInv /\ ChanInv' /\ UNCHANGED <<nicks, removing, count, infos, founder>> => CountInv'
<1> SUFFICES ASSUME CountInv, ChanInv', UNCHANGED <<nicks, removing, count, infos, founder>>
             PROVE  CountInv'
  OBVIOUS
<1>1. \A m : Owned(m)' = Owned(m)
  BY DEF Owned
<1> QED BY <1>1 DEF CountInv, CountBound

LEMMA CountSetFounder ==
  ASSUME CountInv, ChanInv', NEW u, NEW ci, NEW n, do_set_founder(u, ci, n)
  PROVE  CountInv'
<1>1. /\ count \in [Nicks -> Nat] /\ nicks \subseteq Nicks /\ ci \in Infos
      /\ infos \subseteq Infos /\ ci \in infos /\ n \in nicks
      /\ founder \in [Infos -> Nicks \cup {NULL}]
  BY DEF CountInv, ChanInv, TypeOK, do_set_founder, do_set
<1>2. /\ UNCHANGED <<nicks, removing, infos>>
      /\ count' = Raise(Lower(count, founder[ci]), n)
      /\ founder' = [founder EXCEPT ![ci] = n]
  BY DEF do_set_founder, sweep
<1>3. Lower(count, founder[ci]) \in [Nicks -> Nat]
  BY <1>1, CountsStayNat DEF CountInv, ChanInv
<1>4. \A m \in Nicks \ nicks : count'[m] = 0
  BY <1>1, <1>2 DEF Lower, Raise, CountInv
<1>5. ASSUME NEW m \in nicks \ {removing} PROVE count'[m] <= Cardinality(Owned(m)')
  <2>1. /\ count[m] \in Nat /\ count'[m] \in Nat /\ m \in Nicks
        /\ count[m] <= Cardinality(Owned(m)) /\ Cardinality(Owned(m)) \in Nat
    BY <1>1, OwnedFinite DEF ChanInv, TypeOK, CountInv, CountBound
  <2>2. CASE m = n /\ founder[ci] = n
    <3>1. Owned(m)' = Owned(m) /\ ci \in Owned(m)
      BY <1>1, <1>2, <2>2 DEF Owned
    <3>2. Cardinality(Owned(m)) > 0
      <4>1. Owned(m) # {} /\ IsFiniteSet(Owned(m))
        BY <3>1, OwnedFinite DEF CountInv
      <4> QED BY <2>1, <4>1, FS_EmptySet
    <3>3. /\ count[m] > 0 => Lower(count, m)[m] = count[m] - 1
          /\ Lower(count, m)[m] <= count[m]
          /\ Lower(count, m)[m] \in Nat
      BY <1>1, <2>1, LowerValue DEF CountInv
    <3>4. count'[m] = Lower(count, m)[m] + 1
      BY <1>1, <1>2, <1>3, <2>1, <2>2, RaiseValue DEF CountInv
    <3> QED BY <2>1, <3>1, <3>2, <3>3, <3>4
  <2>3. CASE m = n /\ founder[ci] # n
    <3>1. Owned(m)' = Owned(m) \cup {ci} /\ ci \notin Owned(m)
      BY <1>1, <1>2, <2>3 DEF Owned
    <3>2. Lower(count, founder[ci])[m] = count[m]
      BY <1>1, <2>1, <2>3, LowerValue DEF CountInv
    <3>3. count'[m] = count[m] + 1
      BY <1>1, <1>2, <1>3, <2>1, <2>3, <3>2, RaiseValue DEF CountInv
    <3> QED BY <2>1, <3>1, <3>3, OwnedGained
  <2>4. CASE m # n /\ founder[ci] = m
    <3>1. ci \in Owned(m) /\ Owned(m)' = Owned(m) \ {ci}
      BY <1>1, <1>2, <2>4 DEF Owned
    <3>2. /\ count[m] > 0 => Lower(count, m)[m] = count[m] - 1
          /\ Lower(count, m)[m] <= count[m]
          /\ Lower(count, m)[m] \in Nat
      BY <1>1, <2>1, LowerValue DEF CountInv
    <3>3. count'[m] = Lower(count, m)[m]
      BY <1>2, <1>3, <2>1, <2>4, RaiseValue DEF CountInv
    <3>4. /\ count[m] > 0 => count'[m] <= count[m] - 1
          /\ count[m] = 0 => count'[m] = 0
      BY <2>1, <3>2, <3>3
    <3> QED BY <3>1, <3>4, OwnedLost
  <2>5. CASE m # n /\ founder[ci] # m
    <3>1. Owned(m) \subseteq Owned(m)'
      BY <1>1, <1>2, <2>5 DEF Owned
    <3>2. Lower(count, founder[ci])[m] = count[m]
      BY <1>1, <2>1, <2>5, LowerValue DEF CountInv
    <3>3. count'[m] = count[m]
      BY <1>2, <1>3, <2>1, <2>5, <3>2, RaiseValue DEF CountInv
    <3> QED BY <2>1, <3>1, <3>3, OwnedKept
  <2> QED BY <2>2, <2>3, <2>4, <2>5
<1> QED BY <1>2, <1>4, <1>5 DEF CountInv, CountBound

LEMMA CountUserStep == CountInv /\ ChanInv' /\ UserStep => CountInv'
<1> SUFFICES ASSUME CountInv, ChanInv', NEW u \in Users, NEW ci \in Infos,
                    \/ do_identify(u, ci) \/ do_drop(u, ci)
                    \/ do_delsuccessor(u, ci) \/ do_delaccess(u, ci)
                    \/ \E n \in Nicks : do_set_founder(u, ci, n) \/ do_access(u, ci, n)
                    \/ \E n \in Nicks \cup {NULL} : do_set_successor(u, ci, n)
             PROVE  CountInv'
  BY DEF UserStep
<1>1. CASE do_drop(u, ci)
  BY <1>1, CountDelchan DEF do_drop, sweep
<1>2. CASE \E n \in Nicks : do_set_founder(u, ci, n)
  BY <1>2, CountSetFounder
<1>3. CASE \/ do_identify(u, ci) \/ do_delsuccessor(u, ci) \/ do_delaccess(u, ci)
           \/ \E n \in Nicks : do_access(u, ci, n)
           \/ \E n \in Nicks \cup {NULL} : do_set_successor(u, ci, n)
  BY <1>3, CountSame DEF do_identify, do_delsuccessor, do_delaccess, do_access,
     do_set_successor, channels, sweep
<1> QED BY <1>1, <1>2, <1>3

LEMMA CountStaffStep == CountInv /\ ChanInv' /\ StaffStep => CountInv'
<1> SUFFICES ASSUME CountInv, ChanInv', NEW ci \in Infos,
                    \/ \E n \in Nicks : registra_con_creg(ci, n)
                    \/ \E gone \in SUBSET infos : do_forbid(ci, gone)
                    \/ do_suspend(ci) \/ do_unsuspend(ci) \/ do_unforbid(ci)
                    \/ expire_chans(ci)
             PROVE  CountInv'
  BY DEF StaffStep
<1>a. /\ count \in [Nicks -> Nat] /\ nicks \subseteq Nicks /\ infos \subseteq Infos
      /\ founder \in [Infos -> Nicks \cup {NULL}]
  BY DEF CountInv, ChanInv, TypeOK
<1>1. ASSUME NEW n \in Nicks, registra_con_creg(ci, n) PROVE CountInv'
  <2>1. /\ n \in nicks /\ ci \notin infos /\ infos' = infos \cup {ci}
        /\ founder'[ci] = n /\ \A x \in Infos \ {ci} : founder'[x] = founder[x]
        /\ count' = Raise(count, n) /\ UNCHANGED <<nicks, removing>>
    BY <1>1 DEF registra_con_creg, makechan, Freed, sweep
  <2>2. ASSUME NEW m \in nicks \ {removing} PROVE count'[m] <= Cardinality(Owned(m)')
    <3>1. count[m] \in Nat /\ m \in Nicks
      BY <1>a
    <3>2. CASE m = n
      <4>1. Owned(m)' = Owned(m) \cup {ci} /\ ci \notin Owned(m)
        BY <1>a, <2>1, <3>2 DEF Owned
      <4>2. count'[m] = count[m] + 1
        BY <1>a, <2>1, <3>1, <3>2, RaiseValue DEF CountInv
      <4> QED BY <3>1, <4>1, <4>2, OwnedGained
    <3>3. CASE m # n
      <4>1. Owned(m) \subseteq Owned(m)'
        BY <1>a, <2>1, <3>3 DEF Owned
      <4>2. count'[m] = count[m]
        BY <1>a, <2>1, <3>1, <3>3, RaiseValue DEF CountInv
      <4> QED BY <3>1, <4>1, <4>2, OwnedKept
    <3> QED BY <3>2, <3>3
  <2>3. \A m \in Nicks \ nicks : count'[m] = 0
    BY <1>a, <2>1 DEF Raise, CountInv
  <2> QED BY <2>1, <2>2, <2>3 DEF CountInv, CountBound
<1>2. ASSUME do_forbid(ci, {}) PROVE CountInv'
  <2>1. /\ ci \notin infos /\ infos' = infos \cup {ci}
        /\ \A x \in Infos \ {ci} : founder'[x] = founder[x]
        /\ UNCHANGED <<nicks, removing, count>>
    BY <1>2 DEF do_forbid, makechan, Freed, sweep
  <2>2. ASSUME NEW m \in nicks \ {removing} PROVE count'[m] <= Cardinality(Owned(m)')
    <3>1. Owned(m) \subseteq Owned(m)'
      BY <1>a, <2>1 DEF Owned
    <3>2. count'[m] = count[m] /\ count[m] \in Nat
      BY <1>a, <2>1
    <3> QED BY <3>1, <3>2, OwnedKept
  <2> QED BY <2>1, <2>2 DEF CountInv, CountBound
<1>3. ASSUME NEW old \in infos, do_forbid(ci, {old}) PROVE CountInv'
  <2>1. (CHOOSE x \in {old} : TRUE) = old
    OBVIOUS
  <2>2. /\ infos' = (infos \ {old}) \cup {ci} /\ ci \notin infos \ {old}
        /\ founder'[ci] = NULL
        /\ \A x \in Infos \ {ci, old} : founder'[x] = founder[x]
        /\ UNCHANGED <<nicks, removing>>
        /\ count' = Lower(count, founder[old])
    BY <1>3, <2>1 DEF do_forbid, makechan, Freed, sweep
  <2>3. ASSUME NEW m \in nicks \ {removing} PROVE count'[m] <= Cardinality(Owned(m)')
    <3>1. m # NULL /\ m \in Nicks /\ count[m] \in Nat
      BY <1>a, NullAssumption
    <3>2. Owned(m)' = Owned(m) \ {old}
      BY <1>a, <2>2, <3>1 DEF Owned
    <3>3. CASE founder[old] = m
      <4>1. old \in Owned(m)
        BY <3>3 DEF Owned
      <4>2. /\ count[m] > 0 => Lower(count, m)[m] = count[m] - 1
            /\ Lower(count, m)[m] <= count[m]
            /\ Lower(count, m)[m] \in Nat
        BY <1>a, <3>1, LowerValue DEF CountInv
      <4>3. /\ count[m] > 0 => count'[m] <= count[m] - 1
            /\ count[m] = 0 => count'[m] = 0
        BY <2>2, <3>1, <3>3, <4>2
      <4> QED BY <3>2, <4>1, <4>3, OwnedLost
    <3>4. CASE founder[old] # m
      <4>1. Owned(m) \subseteq Owned(m)'
        BY <3>2, <3>4 DEF Owned
      <4>2. count'[m] = count[m]
        BY <1>a, <2>2, <3>1, <3>4, LowerValue DEF CountInv
      <4> QED BY <3>1, <4>1, <4>2, OwnedKept
    <3> QED BY <3>3, <3>4
  <2>4. \A m \in Nicks \ nicks : count'[m] = 0
    BY <1>a, <2>2 DEF Lower, CountInv
  <2> QED BY <2>2, <2>3, <2>4 DEF CountInv, CountBound
<1>4. CASE \E gone \in SUBSET infos : do_forbid(ci, gone)
  <2>1. PICK gone \in SUBSET infos : do_forbid(ci, gone)
    BY <1>4
  <2>2. gone = {} \/ \E old \in infos : gone = {old}
    BY <2>1 DEF do_forbid
  <2> QED BY <1>2, <1>3, <2>1, <2>2
<1>5. CASE expire_chans(ci)
  BY <1>5, CountDelchan DEF expire_chans, sweep
<1>6. CASE do_unforbid(ci)
  <2>1. founder[ci] = NULL
    BY <1>6 DEF do_unforbid, CountInv, ChanInv, FounderUnlessForbidden
  <2> QED BY <1>6, <2>1, CountDelchan DEF do_unforbid, sweep
<1>7. CASE do_suspend(ci) \/ do_unsuspend(ci)
  BY <1>7, CountSame DEF do_suspend, do_unsuspend, sweep
<1> QED BY <1>1, <1>4, <1>5, <1>6, <1>7

LEMMA CountRestart == CountInv /\ ChanInv' /\ Restart => CountInv'
<1> SUFFICES ASSUME CountInv, ChanInv', Restart PROVE CountInv'
  OBVIOUS
<1>1. PICK as \in [Nicks \ nicks -> nicks \cup {NULL}] :
        LET Found(p) == IF p \in nicks \cup {NULL} THEN p ELSE as[p]
        IN  /\ infos' = infos \ {ci \in infos : /\ "VERBOTEN" \notin flags[ci]
                                                /\ Found(founder[ci]) = NULL}
            /\ founder' = [ci \in Infos |-> Found(founder[ci])]
  BY DEF Restart
<1>2. UNCHANGED <<nicks, count, removing>>
  BY DEF Restart, sweep
<1>a. /\ count \in [Nicks -> Nat] /\ nicks \subseteq Nicks /\ infos \subseteq Infos
  BY DEF CountInv, ChanInv, TypeOK
<1>3. ASSUME NEW m \in nicks \ {removing} PROVE count'[m] <= Cardinality(Owned(m)')
  <2>1. m # NULL
    BY <1>a, NullAssumption
  <2>2. Owned(m) \subseteq Owned(m)'
    <3> SUFFICES ASSUME NEW ci \in infos, founder[ci] = m PROVE ci \in infos' /\ founder'[ci] = m
      BY DEF Owned
    <3>1. founder'[ci] = m
      BY <1>1, <1>a
    <3> QED BY <1>1, <2>1, <3>1
  <2>3. count'[m] = count[m] /\ count[m] \in Nat
    BY <1>2, <1>a
  <2> QED BY <2>2, <2>3, OwnedKept
<1> QED BY <1>2, <1>3 DEF CountInv, CountBound
-----------------------------------------------------------------------------
(* The count of a nick never runs ahead of the channels it owns: nobody is *)
(* refused a channel at CSMaxReg for channels it does not have.            *)
THEOREM CountBounded == Spec => []CountBound
<1>1. Init => CountInv
  <2> SUFFICES ASSUME Init PROVE CountInv
    OBVIOUS
  <2>1. ChanInv
    BY InitChanInv
  <2> QED BY <2>1 DEF Init, CountInv, CountBound
<1>2. CountInv /\ [Next]_vars => CountInv'
  <2> SUFFICES ASSUME CountInv, [Next]_vars PROVE CountInv'
    OBVIOUS
  <2>1. ChanInv'
    BY ChanInvInductive DEF CountInv
  <2>2. CASE UNCHANGED vars
    BY <2>1, <2>2, CountSame DEF vars, channels, sweep
  <2>3. CASE Next
    BY <2>1, <2>3, CountNickStep, CountRemoveStep, CountUserStep, CountStaffStep,
       CountRestart DEF Next
  <2> QED BY <2>2, <2>3
<1>3. CountInv => CountBound
  BY DEF CountInv
<1> QED BY <1>1, <1>2, <1>3, PTL DEF Spec
=============================================================================
