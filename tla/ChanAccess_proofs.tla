------------------------- MODULE ChanAccess_proofs --------------------------
(***************************************************************************)
(* The access list of a channel and the marks it gives, for any users,     *)
(* opers, nicks, size of the list, numbers typed and levels changed.       *)
(***************************************************************************)
EXTENDS ChanAccess, WellFoundedInduction, TLAPS

Slots == [ni : Nicks \cup {NULL}, level : Ranks]

(* Only a stray entry leads to a record that was freed.                    *)
EntriesAlive ==
  ~strays => \A i \in DOMAIN access : access[i].ni \in nicks \cup {NULL}

(* The inductive invariant: types, one entry of a nick, entries of nicks    *)
(* that are registered, and the ops of a suspended channel.                *)
AccessInv == TypeOK /\ OneEntry /\ EntriesAlive /\ SuspendedOps
-----------------------------------------------------------------------------
(* The first slot that holds n.                                            *)
LEMMA FirstSlot ==
  ASSUME NEW a \in Seq(Slots), NEW n
  PROVE  \/ First(a, n) = 0 /\ \A i \in DOMAIN a : a[i].ni # n
         \/ First(a, n) \in DOMAIN a /\ a[First(a, n)].ni = n
<1>1. CASE ~ \E i \in DOMAIN a : a[i].ni = n
  BY <1>1 DEF First
<1>2. CASE \E i \in DOMAIN a : a[i].ni = n
  <2> DEFINE T == {i \in DOMAIN a : a[i].ni = n}
             R == OpToRel(<, Nat)
  <2>1. DOMAIN a = 1..Len(a) /\ Len(a) \in Nat
    OBVIOUS
  <2>2. T \subseteq Nat /\ T # {}
    BY <1>2, <2>1
  <2>3. IsWellFoundedOn(R, Nat)
    BY NatLessThanWellFounded, Zenon
  <2>4. \A x, y \in Nat : x < y => <<x, y>> \in R
    BY Zenon DEF OpToRel
  <2>6. PICK i \in T : \A j \in T : <<j, i>> \notin R
    <3> HIDE DEF T, R
    <3> QED BY <2>2, <2>3, WFMin
  <2>5. i \in DOMAIN a /\ a[i].ni = n /\ \A j \in 1..(i - 1) : a[j].ni # n
    <3>1. ASSUME NEW j \in 1..(i - 1), a[j].ni = n PROVE FALSE
      <4>1. j \in T /\ j < i /\ i \in Nat /\ j \in Nat
        BY <2>1, <3>1
      <4> HIDE DEF R, T
      <4> QED BY <4>1, <2>4, <2>6
    <3> QED BY <3>1
  <2> QED BY <1>2, <2>5 DEF First
<1> QED BY <1>1, <1>2

LEMMA ShortInt ==
  ASSUME NEW w \in Words \cup LevelWords
  PROVE  Short(w) \in Int
<1>1. w \in Int
  BY WordsAssumption
<1>2. w % 65536 \in Int
  BY <1>1
<1> QED BY <1>2 DEF Short

LEMMA EmptyList == <<>> \in Seq(Slots) /\ Len(<<>>) = 0 /\ DOMAIN <<>> = {}
OBVIOUS

LEMMA HoleSlot == Hole \in Slots /\ Hole.ni = NULL
BY DEF Hole, Slots, Ranks, ACCESS_INVALID, ACCESS_FOUNDER

LEMMA EntrySlot ==
  ASSUME NEW n \in Nicks \cup {NULL}, NEW l \in Ranks
  PROVE  Entry(n, l) \in Slots /\ Entry(n, l).ni = n
BY DEF Entry, Slots

LEMMA LevelsType == def_levels \in [DOMAIN def_levels -> Int]
BY DEF def_levels, ACCESS_INVALID

(* What a step leaves alone of the list stays right.                       *)
LEMMA ListSame ==
  ASSUME OneEntry, EntriesAlive,
         nicks \subseteq nicks', UNCHANGED <<access, strays>>
  PROVE  OneEntry' /\ EntriesAlive'
<1>1. OneEntry'
  BY DEF OneEntry
<1>2. EntriesAlive'
  BY DEF EntriesAlive
<1> QED BY <1>1, <1>2

LEMMA InitAccessInv == Init => AccessInv
<1> SUFFICES ASSUME Init PROVE AccessInv
  OBVIOUS
<1>1. access = <<>> /\ DOMAIN access = {}
  BY DEF Init
<1>2. TypeOK
  <2>1. access \in Seq(Slots) /\ Len(access) <= CSAccessMax
    BY <1>1, EmptyList, SizeAssumption
  <2>2. marks \in [Modes -> SUBSET on] /\ ni \in [Users \cup Opers -> nicks \cup {NULL}]
    BY DEF Init
  <2> QED BY <2>1, <2>2, LevelsType DEF Init, TypeOK, Slots
<1>3. OneEntry /\ EntriesAlive
  BY <1>1 DEF OneEntry, EntriesAlive
<1>4. SuspendedOps
  BY DEF Init, SuspendedOps
<1> QED BY <1>2, <1>3, <1>4 DEF AccessInv
-----------------------------------------------------------------------------
(* ACCESS and LEVELS.                                                      *)

LEMMA SlotFacts ==
  ASSUME AccessInv, NEW n
  PROVE  /\ access \in Seq(Slots)
         /\ \/ Slot(n) = 0 /\ \A i \in DOMAIN access : access[i].ni # n
            \/ Slot(n) \in 1..Len(access) /\ access[Slot(n)].ni = n
<1>1. access \in Seq(Slots)
  BY DEF AccessInv, TypeOK, Slots
<1> QED BY <1>1, FirstSlot DEF Slot

(* A slot gets a hole, or an entry for a nick that has no other.           *)
LEMMA PutInv ==
  ASSUME AccessInv, NEW k \in 1..Len(access), NEW e \in Slots,
         e.ni \in nicks \cup {NULL},
         e.ni # NULL => \A i \in DOMAIN access \ {k} : access[i].ni # e.ni \/ strays,
         access' = [access EXCEPT ![k] = e],
         UNCHANGED <<people, owners, levels, flags, room, strays>>,
         by' \in Users \cup Opers \cup {NULL}
  PROVE  AccessInv'
<1>1. access \in Seq(Slots) /\ DOMAIN access = 1..Len(access)
  BY DEF AccessInv, TypeOK, Slots
<1>2. access' \in Seq(Slots) /\ Len(access') = Len(access) /\ DOMAIN access' = DOMAIN access
  BY <1>1
<1>3. TypeOK'
  BY <1>2 DEF AccessInv, TypeOK, Slots, people, owners, room
<1>4. \A i \in DOMAIN access' : access'[i] = IF i = k THEN e ELSE access[i]
  BY <1>1
<1>5. OneEntry'
  BY <1>1, <1>2, <1>4 DEF AccessInv, OneEntry
<1>6. EntriesAlive'
  BY <1>1, <1>2, <1>4 DEF AccessInv, EntriesAlive, people
<1>7. SuspendedOps'
  BY DEF AccessInv, SuspendedOps, room
<1> QED BY <1>3, <1>5, <1>6, <1>7 DEF AccessInv

LEMMA AddInv ==
  ASSUME AccessInv, NEW u \in Users \cup Opers, NEW n \in Nicks, NEW w \in Words,
         do_access_add(u, n, w)
  PROVE  AccessInv'
<1> DEFINE e == Entry(n, Short(w))
<1>1. e \in Slots /\ e.ni = n /\ n \in nicks /\ n # NULL
  <2>1. Short(w) \in Ranks /\ n \in nicks
    BY DEF do_access_add
  <2> QED BY <2>1, NullAssumption DEF Slots, Entry
<1>2. by' = u /\ UNCHANGED <<people, owners, levels, flags, room, strays>>
  BY DEF do_access_add
<1>3. access \in Seq(Slots) /\ DOMAIN access = 1..Len(access)
  BY DEF AccessInv, TypeOK, Slots
<1>4. CASE Slot(n) > 0 /\ access' = [access EXCEPT ![Slot(n)] = e]
  <2>1. Slot(n) \in 1..Len(access) /\ access[Slot(n)].ni = n
    BY <1>4, SlotFacts
  <2>2. \A i \in DOMAIN access \ {Slot(n)} : access[i].ni # n \/ strays
    BY <1>1, <1>3, <2>1 DEF AccessInv, OneEntry
  <2> HIDE DEF e
  <2> QED BY <1>1, <1>2, <1>4, <2>1, <2>2, PutInv
<1>5. CASE Slot(n) = 0 /\ Slot(NULL) > 0 /\ access' = [access EXCEPT ![Slot(NULL)] = e]
  <2>1. Slot(NULL) \in 1..Len(access)
    BY <1>5, SlotFacts
  <2>2. \A i \in DOMAIN access : access[i].ni # n
    BY <1>3, <1>5, SlotFacts
  <2> HIDE DEF e
  <2> QED BY <1>1, <1>2, <1>5, <2>1, <2>2, PutInv
<1>6. CASE Slot(n) = 0 /\ Len(access) < CSAccessMax /\ access' = Append(access, e)
  <2>1. \A i \in DOMAIN access : access[i].ni # n
    BY <1>3, <1>6, SlotFacts
  <2>2. access' \in Seq(Slots) /\ Len(access') = Len(access) + 1 /\ DOMAIN access' = 1..(Len(access) + 1)
    BY <1>1, <1>3, <1>6
  <2>3. \A i \in DOMAIN access' : access'[i] = IF i = Len(access) + 1 THEN e ELSE access[i]
    BY <1>1, <1>3, <1>6
  <2>4. TypeOK'
    BY <1>2, <1>6, <2>2, SizeAssumption DEF AccessInv, TypeOK, Slots, people, owners, room
  <2>5. OneEntry'
    BY <1>1, <1>2, <1>3, <2>1, <2>2, <2>3 DEF AccessInv, OneEntry
  <2>6. EntriesAlive'
    BY <1>1, <1>2, <1>3, <2>2, <2>3 DEF AccessInv, EntriesAlive, people
  <2>7. SuspendedOps'
    BY <1>2 DEF AccessInv, SuspendedOps, room
  <2> QED BY <2>4, <2>5, <2>6, <2>7 DEF AccessInv
<1> QED BY <1>4, <1>5, <1>6 DEF do_access_add

LEMMA HoleInv ==
  ASSUME AccessInv, NEW n, Slot(n) > 0, access' = [access EXCEPT ![Slot(n)] = Hole],
         UNCHANGED <<people, owners, levels, flags, room, strays>>,
         by' \in Users \cup Opers \cup {NULL}
  PROVE  AccessInv'
<1>1. Slot(n) \in 1..Len(access)
  BY SlotFacts
<1> QED BY <1>1, HoleSlot, PutInv

LEMMA DelInv ==
  ASSUME AccessInv, NEW u \in Users \cup Opers, NEW n \in Nicks, do_access_del(u, n)
  PROVE  AccessInv'
BY HoleInv DEF do_access_del

(* Whoever has a level on the list has an entry there.                     *)
LEMMA LevelFromEntry ==
  ASSUME AccessInv, NEW u, get_access(u) # 0, ~is_founder(u)
  PROVE  Slot(ni[u]) > 0 /\ get_access(u) = access[Slot(ni[u])].level
BY DEF get_access

LEMMA DelaccessInv ==
  ASSUME AccessInv, NEW u \in Users \cup Opers, do_delaccess(u)
  PROVE  AccessInv'
<1>1. get_access(u) # 0 /\ ~is_founder(u)
  BY DEF do_delaccess
<1>2. Slot(ni[u]) > 0
  BY <1>1, LevelFromEntry
<1> QED BY <1>2, HoleInv DEF do_delaccess

LEMMA ClearInv ==
  ASSUME AccessInv, NEW u \in Users \cup Opers, do_access_clear(u)
  PROVE  AccessInv'
<1>1. access' = <<>> /\ DOMAIN access' = {} /\ Len(access') = 0
  BY DEF do_access_clear
<1>2. TypeOK'
  <2>1. access' \in Seq(Slots) /\ Len(access') <= CSAccessMax
    BY <1>1, EmptyList, SizeAssumption
  <2> QED BY <2>1 DEF do_access_clear, AccessInv, TypeOK, Slots, people, owners, room
<1>3. OneEntry' /\ EntriesAlive'
  BY <1>1 DEF OneEntry, EntriesAlive
<1>4. SuspendedOps'
  BY DEF do_access_clear, AccessInv, SuspendedOps, room
<1> QED BY <1>2, <1>3, <1>4 DEF AccessInv

LEMMA LevelsInv ==
  ASSUME AccessInv, NEW u \in Users \cup Opers, do_levels(u)
  PROVE  AccessInv'
<1>1. levels' \in [DOMAIN def_levels -> Int]
  <2>1. CASE levels' = def_levels
    BY <2>1, LevelsType
  <2>2. CASE \E what \in Tuned : levels' = [levels EXCEPT ![what] = ACCESS_INVALID]
    <3>1. PICK what \in Tuned : levels' = [levels EXCEPT ![what] = ACCESS_INVALID]
      BY <2>2
    <3>2. ACCESS_INVALID \in Int /\ levels \in [DOMAIN def_levels -> Int]
      BY DEF AccessInv, TypeOK, ACCESS_INVALID
    <3> QED BY <3>1, <3>2
  <2>3. CASE \E what \in Tuned, w \in LevelWords : levels' = [levels EXCEPT ![what] = Short(w)]
    <3>1. PICK what \in Tuned, w \in LevelWords : levels' = [levels EXCEPT ![what] = Short(w)]
      BY <2>3
    <3>2. Short(w) \in Int /\ levels \in [DOMAIN def_levels -> Int]
      BY ShortInt DEF AccessInv, TypeOK
    <3> QED BY <3>1, <3>2
  <2> QED BY <2>1, <2>2, <2>3 DEF do_levels
<1>2. TypeOK'
  BY <1>1 DEF do_levels, AccessInv, TypeOK, people, owners, room
<1>3. OneEntry' /\ EntriesAlive'
  BY ListSame DEF do_levels, AccessInv, people
<1>4. SuspendedOps'
  BY DEF do_levels, AccessInv, SuspendedOps, room
<1> QED BY <1>2, <1>3, <1>4 DEF AccessInv

LEMMA AccessStepInv == AccessInv /\ AccessStep => AccessInv'
BY AddInv, DelInv, ClearInv, DelaccessInv, LevelsInv DEF AccessStep
-----------------------------------------------------------------------------
(* SET.                                                                    *)

LEMMA OwnersInv ==
  ASSUME AccessInv, UNCHANGED <<people, lists, room, strays>>,
         founder' \in Nicks \cup {NULL}, successor' \in Nicks \cup {NULL},
         by' \in Users \cup Opers \cup {NULL}
  PROVE  AccessInv'
<1>1. TypeOK'
  BY DEF AccessInv, TypeOK, people, lists, room
<1>2. OneEntry' /\ EntriesAlive'
  BY ListSame DEF AccessInv, people, lists
<1>3. SuspendedOps'
  BY DEF AccessInv, SuspendedOps, room, lists
<1> QED BY <1>1, <1>2, <1>3 DEF AccessInv

LEMMA SetFounderInv ==
  ASSUME AccessInv, NEW u \in Users \cup Opers, NEW n \in Nicks, do_set_founder(u, n)
  PROVE  AccessInv'
<1>1. founder' \in Nicks \cup {NULL} /\ successor' \in Nicks \cup {NULL}
  BY DEF do_set_founder, AccessInv, TypeOK
<1> QED BY <1>1, OwnersInv DEF do_set_founder

LEMMA SetSuccessorInv ==
  ASSUME AccessInv, NEW u \in Users \cup Opers, NEW n \in Nicks \cup {NULL},
         do_set_successor(u, n)
  PROVE  AccessInv'
<1>1. founder' \in Nicks \cup {NULL} /\ successor' \in Nicks \cup {NULL}
  BY DEF do_set_successor, AccessInv, TypeOK
<1> QED BY <1>1, OwnersInv DEF do_set_successor

LEMMA FlagInv ==
  ASSUME AccessInv, NEW u \in Users \cup Opers, NEW f \in Flags, do_set_flag(u, f)
  PROVE  AccessInv'
<1>1. flags' \subseteq Flags /\ f # "SUSPEND" /\ ("SUSPEND" \in flags' => "SUSPEND" \in flags)
  BY DEF do_set_flag, AccessInv, TypeOK
<1>2. TypeOK'
  BY <1>1 DEF do_set_flag, AccessInv, TypeOK, people, owners, room
<1>3. OneEntry' /\ EntriesAlive'
  BY ListSame DEF do_set_flag, AccessInv, people
<1>4. SuspendedOps'
  BY <1>1 DEF do_set_flag, AccessInv, SuspendedOps, room
<1> QED BY <1>2, <1>3, <1>4 DEF AccessInv

LEMMA StayInv ==
  ASSUME AccessInv, NEW u \in Users \cup Opers, do_set_stay(u)
  PROVE  AccessInv'
<1>1. TypeOK'
  BY DEF do_set_stay, AccessInv, TypeOK, people, owners, room
<1>2. OneEntry' /\ EntriesAlive'
  BY ListSame DEF do_set_stay, AccessInv, people
<1>3. SuspendedOps'
  BY DEF do_set_stay, AccessInv, SuspendedOps, room
<1> QED BY <1>1, <1>2, <1>3 DEF AccessInv

LEMMA SetStepInv == AccessInv /\ SetStep => AccessInv'
BY SetFounderInv, SetSuccessorInv, FlagInv, StayInv DEF SetStep
-----------------------------------------------------------------------------
(* Op and voice.                                                           *)

(* Who is on the channel and who has a mark is all that changes.           *)
LEMMA MarksInv ==
  ASSUME AccessInv, UNCHANGED <<people, owners, lists, strays>>,
         on' \subseteq Users, marks' \in [Modes -> SUBSET on'],
         "SUSPEND" \in flags /\ marks["o"] \subseteq spared => marks'["o"] \subseteq spared',
         spared' \subseteq Users,
         by' \in Users \cup Opers \cup {NULL}
  PROVE  AccessInv'
<1>1. TypeOK'
  BY DEF AccessInv, TypeOK, people, owners, lists
<1>2. OneEntry' /\ EntriesAlive'
  BY ListSame DEF AccessInv, people, lists
<1>3. SuspendedOps'
  BY DEF AccessInv, SuspendedOps, lists
<1> QED BY <1>1, <1>2, <1>3 DEF AccessInv

LEMMA MarksOf ==
  ASSUME AccessInv
  PROVE  on \subseteq Users /\ spared \subseteq Users /\ marks \in [Modes -> SUBSET on] /\ "o" \in Modes /\ "v" \in Modes
BY DEF AccessInv, TypeOK, Modes

LEMMA JoinInv ==
  ASSUME AccessInv, NEW u \in Users, do_join(u)
  PROVE  AccessInv'
<1>1. on' = on \cup {u} /\ by' = NULL /\ UNCHANGED <<people, owners, lists, spared, strays>>
  BY DEF do_join
<1>2. marks' \in [Modes -> SUBSET on']
  BY <1>1, MarksOf DEF do_join
<1>3. "SUSPEND" \in flags => marks' = marks
  BY DEF do_join, check_should_op, check_should_voice, ShouldHave, Open
<1> QED BY <1>1, <1>2, <1>3, MarksOf, MarksInv

LEMMA PartInv ==
  ASSUME AccessInv, NEW u \in Users, do_part(u)
  PROVE  AccessInv'
<1>1. on' = on \ {u} /\ by' = NULL /\ UNCHANGED <<people, owners, lists, strays>>
  BY DEF do_part
<1>2. marks' \in [Modes -> SUBSET on'] /\ marks'["o"] = marks["o"] \ {u}
  BY <1>1, MarksOf DEF do_part
<1>3. spared' = spared \ {u}
  BY DEF do_part
<1> QED BY <1>1, <1>2, <1>3, MarksOf, MarksInv

LEMMA GainInv ==
  ASSUME AccessInv, NEW u \in Users, NEW m \in Modes, Gain(u, m), m = "o" => Open,
         by' \in Users \cup Opers \cup {NULL}
  PROVE  AccessInv'
<1>1. UNCHANGED <<people, owners, lists, spared, strays>> /\ on' = on
  BY DEF Gain
<1>2. marks' \in [Modes -> SUBSET on']
  BY <1>1, MarksOf DEF Gain
<1>3. "SUSPEND" \in flags => marks'["o"] \subseteq marks["o"]
  BY MarksOf DEF Gain, Open
<1> QED BY <1>1, <1>2, <1>3, MarksOf, MarksInv

LEMMA LoseInv ==
  ASSUME AccessInv, NEW us, NEW ms, Lose(us, ms), by' \in Users \cup Opers \cup {NULL}
  PROVE  AccessInv'
<1>1. UNCHANGED <<people, owners, lists, strays>> /\ on' = on
  BY DEF Lose
<1>2. marks' \in [Modes -> SUBSET on'] /\ spared' \subseteq Users
  BY <1>1, MarksOf DEF Lose
<1>3. marks["o"] \subseteq spared => marks'["o"] \subseteq spared'
  BY MarksOf DEF Lose
<1> QED BY <1>1, <1>2, <1>3, MarksOf, MarksInv

(* A suspension makes nobody an op, and notes the ops it leaves.           *)
LEMMA SuspendInv ==
  ASSUME AccessInv, do_suspend \/ suspende_con_creg \/ do_unsuspend
  PROVE  AccessInv'
<1>1. TypeOK'
  <2>1. CASE suspende_con_creg
    <3>1. PICK u \in on : marks' = [marks EXCEPT !["o"] = @ \ {u}]
      BY <2>1 DEF suspende_con_creg
    <3>2. marks' \in [Modes -> SUBSET on] /\ marks'["o"] \subseteq Users
      BY <3>1, MarksOf
    <3> QED BY <2>1, <3>2 DEF suspende_con_creg, AccessInv, TypeOK, people, owners
  <2>2. CASE do_suspend \/ do_unsuspend
    BY <2>2 DEF do_suspend, do_unsuspend, AccessInv, TypeOK, people, owners, room, Modes
  <2> QED BY <2>1, <2>2
<1>2. OneEntry' /\ EntriesAlive'
  BY ListSame DEF do_suspend, suspende_con_creg, do_unsuspend, AccessInv, people
<1>3. SuspendedOps'
  BY MarksOf DEF do_suspend, suspende_con_creg, do_unsuspend, SuspendedOps
<1> QED BY <1>1, <1>2, <1>3 DEF AccessInv

LEMMA ModeStepInv == AccessInv /\ ModeStep => AccessInv'
<1> SUFFICES ASSUME AccessInv, ModeStep PROVE AccessInv'
  OBVIOUS
<1>1. ASSUME NEW u \in Users, do_join(u) \/ do_part(u) PROVE AccessInv'
  BY <1>1, JoinInv, PartInv
<1>2. ASSUME NEW u \in Users,
             \/ \E serverop \in BOOLEAN : mode_op(u, serverop)
             \/ mode_voice(u)
      PROVE  AccessInv'
  BY <1>2, GainInv, MarksOf DEF mode_op, mode_voice, check_valid_op
<1>3. ASSUME NEW u \in Users, mode_deop(u) \/ mode_devoice(u) PROVE AccessInv'
  BY <1>3, LoseInv DEF mode_deop, mode_devoice
<1>4. ASSUME NEW a \in Users \cup Opers, NEW u \in Users, do_op(a, u) \/ do_voice(a, u)
      PROVE  AccessInv'
  BY <1>4, GainInv, MarksOf DEF do_op, do_voice, Commands, check_valid_op
<1>5. ASSUME NEW a \in Users \cup Opers, NEW u \in Users, do_deop(a, u) \/ do_devoice(a, u)
      PROVE  AccessInv'
  BY <1>5, LoseInv DEF do_deop, do_devoice, Commands
<1>6. ASSUME NEW a \in Users \cup Opers, do_reset(a) \/ \E m \in Modes : do_clear(a, m)
      PROVE  AccessInv'
  BY <1>6, LoseInv DEF do_reset, do_clear, Commands
<1> QED BY <1>1, <1>2, <1>3, <1>4, <1>5, <1>6, SuspendInv DEF ModeStep
-----------------------------------------------------------------------------
(* The life of the channel and of the nicks.                               *)

(* A channel that starts or ends has an empty list and no flags.           *)
LEMMA FreshInv ==
  ASSUME AccessInv, access' = <<>>, levels' = def_levels, flags' = {}, strays' = FALSE,
         founder' \in Nicks \cup {NULL}, successor' = NULL,
         nicks' \subseteq Nicks, ni' \in [Users \cup Opers -> nicks' \cup {NULL}],
         identified' \subseteq Users, passid' \subseteq Users,
         on' \subseteq Users, marks' \in [Modes -> SUBSET on'], spared' \subseteq Users,
         by' = NULL
  PROVE  AccessInv'
<1>1. TypeOK'
  <2>1. access' \in Seq(Slots) /\ Len(access') <= CSAccessMax
    BY EmptyList, SizeAssumption
  <2> QED BY <2>1, LevelsType DEF TypeOK, Slots
<1>2. OneEntry' /\ EntriesAlive'
  BY EmptyList DEF OneEntry, EntriesAlive
<1>3. SuspendedOps'
  BY DEF SuspendedOps
<1> QED BY <1>1, <1>2, <1>3 DEF AccessInv

LEMMA RegistraInv ==
  ASSUME AccessInv, NEW n \in Nicks, registra_con_creg(n)
  PROVE  AccessInv'
<1>1. UNCHANGED <<nicks, ni, identified, on, marks, spared>> /\ passid' \subseteq Users
  BY DEF registra_con_creg, AccessInv, TypeOK, room
<1> QED BY <1>1, FreshInv DEF registra_con_creg, AccessInv, TypeOK

LEMMA DelchanInv ==
  ASSUME AccessInv, delchan
  PROVE  AccessInv'
<1>1. UNCHANGED <<nicks, ni, identified, passid, on, marks, spared>>
  BY DEF delchan, room, people
<1> QED BY <1>1, FreshInv DEF delchan, Gone, AccessInv, TypeOK

(* A step of the people that leaves the channel alone.                     *)
LEMMA PeopleInv ==
  ASSUME AccessInv, UNCHANGED <<owners, lists, room, strays>>,
         nicks \subseteq nicks', nicks' \subseteq Nicks,
         ni' \in [Users \cup Opers -> nicks' \cup {NULL}],
         identified' \subseteq Users, passid' \subseteq Users, by' = NULL
  PROVE  AccessInv'
<1>1. TypeOK'
  BY DEF AccessInv, TypeOK, owners, lists, room
<1>2. OneEntry' /\ EntriesAlive'
  BY ListSame DEF AccessInv, lists
<1>3. SuspendedOps'
  BY DEF AccessInv, SuspendedOps, room, lists
<1> QED BY <1>1, <1>2, <1>3 DEF AccessInv

LEMMA IdentifyInv ==
  ASSUME AccessInv, NEW u \in Users, do_identify(u) \/ IdentifyNick(u)
  PROVE  AccessInv'
BY PeopleInv DEF do_identify, IdentifyNick, AccessInv, TypeOK

LEMMA MakenickInv ==
  ASSUME AccessInv, NEW n \in Nicks, makenick(n)
  PROVE  AccessInv'
<1>1. ni' \in [Users \cup Opers -> nicks' \cup {NULL}]
  BY DEF makenick, AccessInv, TypeOK
<1> QED BY <1>1, PeopleInv DEF makenick, AccessInv, TypeOK

LEMMA ChangeNickInv ==
  ASSUME AccessInv, NEW u \in Users, NEW n \in Nicks \cup {NULL}, ChangeNick(u, n)
  PROVE  AccessInv'
<1>1. ni' \in [Users \cup Opers -> nicks' \cup {NULL}] /\ identified' \subseteq Users
  BY DEF ChangeNick, AccessInv, TypeOK
<1> QED BY <1>1, PeopleInv DEF ChangeNick, AccessInv, TypeOK

LEMMA DelnickInv ==
  ASSUME AccessInv, NEW n \in Nicks, delnick(n)
  PROVE  AccessInv'
<1>1. /\ nicks' = nicks \ {n} /\ identified' \subseteq Users /\ by' = NULL
      /\ UNCHANGED <<passid, on, marks, spared>>
  BY DEF delnick, AccessInv, TypeOK, room
<1>2. ni' \in [Users \cup Opers -> nicks' \cup {NULL}]
  BY <1>1 DEF delnick, AccessInv, TypeOK
<1>3. CASE Gone
  BY <1>1, <1>2, <1>3, FreshInv DEF Gone, AccessInv, TypeOK
<1>4. CASE /\ founder' = successor /\ successor' = NULL
           /\ strays' = (strays \/ n \in Listed) /\ UNCHANGED lists
  <2>1. strays' \in BOOLEAN
    BY <1>4
  <2>2. TypeOK'
    BY <1>1, <1>2, <1>4, <2>1 DEF AccessInv, TypeOK, lists
  <2>3. OneEntry'
    BY <1>4 DEF AccessInv, OneEntry, lists
  <2>4. EntriesAlive'
    <3>1. ASSUME ~strays', NEW i \in DOMAIN access PROVE access[i].ni \in nicks' \cup {NULL}
      <4>1. ~strays /\ n \notin Listed
        BY <1>4, <3>1
      <4>2. access[i].ni \in nicks \cup {NULL}
        BY <4>1 DEF AccessInv, EntriesAlive
      <4>3. access[i].ni = NULL \/ access[i].ni # n
        BY <4>1 DEF Listed
      <4> QED BY <1>1, <4>2, <4>3
    <3> QED BY <1>4, <3>1 DEF EntriesAlive, lists
  <2>5. SuspendedOps'
    BY <1>1, <1>4 DEF AccessInv, SuspendedOps, lists
  <2> QED BY <2>2, <2>3, <2>4, <2>5 DEF AccessInv
<1>5. CASE /\ access' = [i \in DOMAIN access |-> IF access[i].ni = n THEN Hole ELSE access[i]]
           /\ UNCHANGED <<owners, levels, flags, strays>>
  <2>1. access \in Seq(Slots) /\ Hole \in Slots /\ Hole.ni = NULL /\ n # NULL
    BY NullAssumption, HoleSlot DEF AccessInv, TypeOK, Slots
  <2>2. access' \in Seq(Slots) /\ Len(access') = Len(access) /\ DOMAIN access' = DOMAIN access
    BY <1>5, <2>1
  <2>3. TypeOK'
    BY <1>1, <1>2, <1>5, <2>2 DEF AccessInv, TypeOK, Slots, owners
  <2>4. \A i \in DOMAIN access : access'[i].ni = IF access[i].ni = n THEN NULL ELSE access[i].ni
    BY <1>5, <2>1
  <2>5. OneEntry'
    BY <1>5, <2>1, <2>2, <2>4 DEF AccessInv, OneEntry
  <2>6. EntriesAlive'
    BY <1>1, <1>5, <2>2, <2>4 DEF AccessInv, EntriesAlive
  <2>7. SuspendedOps'
    BY <1>1, <1>5 DEF AccessInv, SuspendedOps
  <2> QED BY <2>3, <2>5, <2>6, <2>7 DEF AccessInv
<1> QED BY <1>3, <1>4, <1>5 DEF delnick, cs_remove_nick

(* Every entry of a list without strays is loaded as it was saved.         *)
LEMMA RestartInv ==
  ASSUME AccessInv, Restart
  PROVE  AccessInv'
<1> DEFINE Maps == [Nicks \ nicks -> nicks \cup {NULL}]
           Found(as, p) == IF p \in nicks \cup {NULL} THEN p ELSE as[p]
           Loaded(as, e) == IF Found(as, e.ni) = NULL THEN Hole
                            ELSE Entry(Found(as, e.ni), e.level)
<1>1. PICK as \in Maps :
        /\ IF Found(as, founder) = NULL THEN Gone
           ELSE /\ founder' = Found(as, founder) /\ successor' = Found(as, successor)
                /\ access' = [i \in DOMAIN access |-> Loaded(as, access[i])]
                /\ UNCHANGED <<levels, flags, strays>>
        /\ ni' = [u \in Users \cup Opers |-> NULL] /\ identified' = {} /\ passid' = {}
        /\ on' = {} /\ marks' = [m \in Modes |-> {}] /\ spared' = {}
        /\ by' = NULL
        /\ UNCHANGED nicks
  BY Zenon DEF Restart
<1>2. \A p \in Nicks \cup {NULL} : Found(as, p) \in nicks \cup {NULL}
  OBVIOUS
<1>3. /\ nicks' = nicks /\ nicks \subseteq Nicks /\ marks' \in [Modes -> SUBSET on'] /\ on' = {}
      /\ ni' \in [Users \cup Opers -> nicks' \cup {NULL}]
      /\ identified' = {} /\ passid' = {} /\ spared' = {} /\ by' = NULL
  BY <1>1 DEF AccessInv, TypeOK
<1>4. CASE Found(as, founder) = NULL
  <2>1. Gone
    BY <1>1, <1>4
  <2> QED BY <1>3, <2>1, FreshInv DEF Gone
<1>5. CASE Found(as, founder) # NULL
  <2>1. /\ founder' = Found(as, founder) /\ successor' = Found(as, successor)
        /\ access' = [i \in DOMAIN access |-> Loaded(as, access[i])]
        /\ UNCHANGED <<levels, flags, strays>>
    BY <1>1, <1>5
  <2>2. access \in Seq(Slots) /\ Hole \in Slots /\ Hole.ni = NULL
    BY HoleSlot DEF AccessInv, TypeOK, Slots
  <2>3. \A i \in DOMAIN access :
           Loaded(as, access[i]) \in Slots /\ Loaded(as, access[i]).ni = Found(as, access[i].ni)
    <3>1. ASSUME NEW e \in Slots
          PROVE  Loaded(as, e) \in Slots /\ Loaded(as, e).ni = Found(as, e.ni)
      <4>1. Found(as, e.ni) \in nicks \cup {NULL} /\ e.level \in Ranks
        BY <1>2 DEF Slots
      <4> HIDE DEF Found
      <4>2. CASE Found(as, e.ni) = NULL
        BY <4>2, <2>2
      <4>3. CASE Found(as, e.ni) # NULL
        <5>1. Loaded(as, e) = Entry(Found(as, e.ni), e.level)
          BY <4>3
        <5>2. Found(as, e.ni) \in Nicks \cup {NULL}
          BY <1>3, <4>1
        <5> HIDE DEF Loaded
        <5> QED BY <4>1, <5>1, <5>2, EntrySlot
      <4> QED BY <4>2, <4>3
    <3>2. \A i \in DOMAIN access : access[i] \in Slots
      BY <2>2
    <3> HIDE DEF Loaded, Found
    <3> QED BY <3>1, <3>2
  <2>4. access' \in Seq(Slots) /\ Len(access') = Len(access) /\ DOMAIN access' = DOMAIN access
    <3>1. DOMAIN access = 1..Len(access) /\ Len(access) \in Nat
      BY <2>2
    <3> HIDE DEF Loaded, Found
    <3>2. access' \in [1..Len(access) -> Slots]
      BY <2>1, <2>3, <3>1
    <3> QED BY <3>1, <3>2
  <2>5. TypeOK'
    <3>1. founder' \in Nicks \cup {NULL} /\ successor' \in Nicks \cup {NULL}
      BY <1>2, <1>3, <2>1 DEF AccessInv, TypeOK
    <3>2. Len(access') <= CSAccessMax /\ levels' = levels /\ flags' = flags /\ strays' = strays
      BY <2>1, <2>4 DEF AccessInv, TypeOK
    <3> HIDE DEF Loaded, Found
    <3> QED BY <1>3, <2>4, <3>1, <3>2 DEF AccessInv, TypeOK, Slots
  <2>6. \A i \in DOMAIN access : access'[i].ni = Found(as, access[i].ni)
    <3> HIDE DEF Loaded, Found
    <3> QED BY <2>1, <2>3
  <2>7. ~strays => \A i \in DOMAIN access : access'[i].ni = access[i].ni
    BY <2>6 DEF AccessInv, EntriesAlive
  <2>8. OneEntry' /\ EntriesAlive'
    <3>1. strays' = strays
      BY <2>1
    <3> HIDE DEF Loaded, Found
    <3>2. OneEntry'
      BY <2>4, <2>7, <3>1 DEF AccessInv, OneEntry
    <3>3. EntriesAlive'
      BY <1>3, <2>4, <2>7, <3>1 DEF AccessInv, EntriesAlive
    <3> QED BY <3>2, <3>3
  <2>9. SuspendedOps'
    BY <1>1 DEF SuspendedOps, Modes
  <2> QED BY <2>5, <2>8, <2>9 DEF AccessInv
<1> QED BY <1>4, <1>5

LEMMA LifeStepInv == AccessInv /\ LifeStep => AccessInv'
BY RegistraInv, MakenickInv, DelnickInv, IdentifyInv, ChangeNickInv, DelchanInv, RestartInv
   DEF LifeStep

LEMMA StutterInv == AccessInv /\ UNCHANGED vars => AccessInv'
<1> SUFFICES ASSUME AccessInv, UNCHANGED vars PROVE AccessInv'
  OBVIOUS
<1>1. TypeOK'
  BY DEF vars, people, owners, lists, room, AccessInv, TypeOK
<1>2. OneEntry' /\ EntriesAlive'
  BY ListSame DEF vars, people, lists, AccessInv
<1>3. SuspendedOps'
  BY DEF vars, lists, room, AccessInv, SuspendedOps
<1> QED BY <1>1, <1>2, <1>3 DEF AccessInv

(* Every step of ACCESS, LEVELS, SET, SUSPEND, the modes and restarts      *)
(* preserves AccessInv.                                                    *)
THEOREM AccessInvariant == Spec => []AccessInv
<1>1. AccessInv /\ [Next]_vars => AccessInv'
  BY AccessStepInv, SetStepInv, ModeStepInv, LifeStepInv, StutterInv DEF Next
<1> QED BY <1>1, InitAccessInv, PTL DEF Spec

(* Every nick has one entry in the list, wherever it lies among the holes. *)
THEOREM OneEntryCorrect == Spec => []OneEntry
<1>1. AccessInv => OneEntry
  BY DEF AccessInv
<1> QED BY <1>1, AccessInvariant, PTL

(* Whoever is op of a suspended channel was op when CReG suspended it and  *)
(* has been op since.                                                      *)
THEOREM SuspensionCorrect == Spec => []SuspendedOps
<1>1. AccessInv => SuspendedOps
  BY DEF AccessInv
<1> QED BY <1>1, AccessInvariant, PTL
-----------------------------------------------------------------------------
(* Op and voice on a secure channel.                                       *)

(* get_access and the levels can be compared.                              *)
LEMMA AccessInt ==
  ASSUME AccessInv, NEW u
  PROVE  get_access(u) \in Int
<1>1. CASE Slot(ni[u]) > 0
  <2>1. access[Slot(ni[u])] \in Slots
    BY <1>1, SlotFacts
  <2>2. access[Slot(ni[u])].level \in Int
    BY <2>1 DEF Slots, Ranks, ACCESS_INVALID, ACCESS_FOUNDER
  <2> QED BY <2>2 DEF get_access, ACCESS_FOUNDER
<1>2. CASE ~(Slot(ni[u]) > 0)
  BY <1>2 DEF get_access, ACCESS_FOUNDER
<1> QED BY <1>1, <1>2

(* Who passes AUTODEOP (AUTODEVOICE) for being at level 0 is not given it. *)
LEMMA ValidIsKnown ==
  ASSUME NEW u, NEW m \in Modes, Secure[m] \in flags, ~check_access(u, AutoDe[m])
  PROVE  get_access(u) # 0
<1>1. AutoDe[m] \in {"AUTODEOP", "AUTODEVOICE", "NOJOIN"}
  BY DEF Modes, AutoDe
<1> QED BY <1>1 DEF check_access, ACCESS_FOUNDER

LEMMA ShouldIsKnown ==
  ASSUME NEW u, NEW m \in Modes, ShouldHave(u, m)
  PROVE  \/ get_access(u) # 0
         \/ /\ u \in identified /\ levels[AutoGive[m]] # ACCESS_INVALID
            /\ get_access(u) >= levels[AutoGive[m]]
<1>1. /\ AutoGive[m] \notin {"AUTODEOP", "AUTODEVOICE", "NOJOIN"}
      /\ \A k \in Modes : AutoGive[m] # AutoDe[k]
  BY DEF Modes, AutoGive, AutoDe
<1> QED BY <1>1 DEF ShouldHave, check_access, ACCESS_FOUNDER

Known(u, m) ==
  \/ get_access(u) # 0
  \/ u \in identified /\ levels[AutoGive[m]] # ACCESS_INVALID
     /\ get_access(u) >= levels[AutoGive[m]]
Secured == \A m \in Modes : Secure[m] \in flags => \A u \in marks'[m] \ marks[m] : Known(u, m)

LEMMA GainSecured ==
  ASSUME AccessInv, NEW u \in Users, NEW k \in Modes, Gain(u, k), ~check_access(u, AutoDe[k])
  PROVE  Secured
<1> SUFFICES ASSUME NEW m \in Modes, Secure[m] \in flags, NEW w \in marks'[m] \ marks[m]
             PROVE  Known(w, m)
  BY DEF Secured
<1>1. w = u /\ m = k
  BY MarksOf DEF Gain
<1> QED BY <1>1, ValidIsKnown DEF Known

LEMMA JoinSecured ==
  ASSUME AccessInv, NEW u \in Users, do_join(u)
  PROVE  Secured
<1> SUFFICES ASSUME NEW m \in Modes, Secure[m] \in flags, NEW w \in marks'[m] \ marks[m]
             PROVE  Known(w, m)
  BY DEF Secured
<1>1. w = u /\ ShouldHave(u, m)
  <2>1. CASE check_should_op(u)
    <3>1. w = u /\ m = "o"
      BY <2>1, MarksOf DEF do_join
    <3> QED BY <2>1, <3>1 DEF check_should_op
  <2>2. CASE ~check_should_op(u) /\ check_should_voice(u)
    <3>1. w = u /\ m = "v"
      BY <2>2, MarksOf DEF do_join
    <3> QED BY <2>2, <3>1 DEF check_should_voice
  <2>3. CASE ~check_should_op(u) /\ ~check_should_voice(u)
    BY <2>3 DEF do_join
  <2> QED BY <2>1, <2>2, <2>3
<1> QED BY <1>1, ShouldIsKnown DEF Known

(* No other step gives a mark.                                             *)
LEMMA FewerSecured ==
  ASSUME \A m \in Modes : marks'[m] \subseteq marks[m]
  PROVE  Secured
BY DEF Secured

LEMMA LoseFewer ==
  ASSUME NEW us, NEW ms, Lose(us, ms)
  PROVE  \A m \in Modes : marks'[m] \subseteq marks[m]
BY DEF Lose

LEMMA ModeSecured == AccessInv /\ ModeStep => Secured
<1> SUFFICES ASSUME AccessInv, ModeStep PROVE Secured
  OBVIOUS
<1>a. AutoDe["o"] = "AUTODEOP" /\ AutoDe["v"] = "AUTODEVOICE" /\ "o" \in Modes /\ "v" \in Modes
  BY DEF AutoDe, Modes
<1>1. ASSUME NEW u \in Users, do_part(u) PROVE Secured
  BY <1>1, FewerSecured DEF do_part
<1>2. ASSUME NEW u \in Users, NEW serverop \in BOOLEAN, mode_op(u, serverop) PROVE Secured
  BY <1>a, <1>2, GainSecured DEF mode_op, check_valid_op
<1>3. ASSUME NEW u \in Users, mode_voice(u) PROVE Secured
  BY <1>a, <1>3, GainSecured DEF mode_voice, check_valid_voice
<1>4. ASSUME NEW u \in Users, mode_deop(u) \/ mode_devoice(u) PROVE Secured
  BY <1>4, LoseFewer, FewerSecured DEF mode_deop, mode_devoice
<1>5. ASSUME NEW a \in Users \cup Opers, NEW u \in Users, do_op(a, u) PROVE Secured
  BY <1>a, <1>5, GainSecured DEF do_op, check_valid_op
<1>6. ASSUME NEW a \in Users \cup Opers, NEW u \in Users, do_voice(a, u) PROVE Secured
  BY <1>a, <1>6, GainSecured DEF do_voice, check_valid_voice
<1>7. ASSUME NEW a \in Users \cup Opers, NEW u \in Users, do_deop(a, u) \/ do_devoice(a, u)
      PROVE  Secured
  BY <1>7, LoseFewer, FewerSecured DEF do_deop, do_devoice
<1>8. ASSUME NEW a \in Users \cup Opers, do_reset(a) \/ \E m \in Modes : do_clear(a, m)
      PROVE  Secured
  BY <1>8, LoseFewer, FewerSecured DEF do_reset, do_clear
<1>9. ASSUME do_suspend \/ suspende_con_creg \/ do_unsuspend PROVE Secured
  <2>1. \A m \in Modes : marks'[m] \subseteq marks[m]
    BY <1>9, MarksOf DEF do_suspend, suspende_con_creg, do_unsuspend, room
  <2> QED BY <2>1, FewerSecured
<1> QED BY JoinSecured, <1>1, <1>2, <1>3, <1>4, <1>5, <1>6, <1>7, <1>8, <1>9 DEF ModeStep

LEMMA OtherSecured == AccessInv /\ (AccessStep \/ SetStep \/ LifeStep) => Secured
<1> SUFFICES ASSUME AccessInv, AccessStep \/ SetStep \/ LifeStep PROVE Secured
  OBVIOUS
<1>1. CASE AccessStep
  BY <1>1, FewerSecured DEF AccessStep, do_access_del, do_access_add, do_access_clear,
     do_delaccess, do_levels, room
<1>2. CASE SetStep
  BY <1>2, FewerSecured DEF SetStep, do_set_founder, do_set_successor, do_set_flag, do_set_stay,
     room
<1>3. CASE LifeStep
  <2>1. ASSUME Restart PROVE Secured
    <3>1. marks' = [m \in Modes |-> {}]
      BY <2>1, Zenon DEF Restart
    <3> QED BY <3>1, FewerSecured
  <2>2. CASE ~Restart
    BY <1>3, <2>2, FewerSecured DEF LifeStep, registra_con_creg, makenick, delnick, do_identify,
       IdentifyNick, ChangeNick, delchan, room
  <2> QED BY <2>1, <2>2
<1> QED BY <1>1, <1>2, <1>3

(* No way to a mark is open to whom a secure channel does not know.        *)
THEOREM SecureCorrect == Spec => SecureMarks
<1>1. AccessInv /\ [Next]_vars => [\A m \in Modes : Secure[m] \in flags =>
        \A u \in marks'[m] \ marks[m] :
          \/ get_access(u) # 0
          \/ u \in identified /\ levels[AutoGive[m]] # ACCESS_INVALID
             /\ get_access(u) >= levels[AutoGive[m]]]_vars
  BY ModeSecured, OtherSecured DEF Next, Secured, Known
<1> QED BY <1>1, AccessInvariant, PTL DEF Spec, SecureMarks
-----------------------------------------------------------------------------
(* Levels change by right.                                                 *)

LevelIn(a, n) == IF First(a, n) = 0 THEN ACCESS_INVALID ELSE a[First(a, n)].level

LEMMA LevelInList == \A n : Level(n) = LevelIn(access, n) /\ Level(n)' = LevelIn(access', n)
BY DEF Level, LevelIn, Slot

(* A nick has the same level in two lists that have the same entry for it. *)
LEMMA SameLevel ==
  ASSUME NEW a \in Seq(Slots), NEW b \in Seq(Slots), NEW n,
         \A i \in DOMAIN a : a[i].ni = n => i \in DOMAIN b /\ b[i] = a[i],
         \A i \in DOMAIN b : b[i].ni = n => i \in DOMAIN a /\ a[i] = b[i],
         \A i, j \in DOMAIN a : a[i].ni = n /\ a[j].ni = n => i = j
  PROVE  LevelIn(a, n) = LevelIn(b, n)
<1>1. DOMAIN a \subseteq Nat \ {0} /\ DOMAIN b \subseteq Nat \ {0}
  OBVIOUS
<1>2. CASE First(a, n) = 0 /\ \A i \in DOMAIN a : a[i].ni # n
  <2>1. First(b, n) = 0
    BY <1>2, FirstSlot
  <2> QED BY <1>2, <2>1 DEF LevelIn
<1>3. CASE First(a, n) \in DOMAIN a /\ a[First(a, n)].ni = n
  <2>1. First(b, n) \in DOMAIN b /\ b[First(b, n)].ni = n
    BY <1>3, FirstSlot
  <2>2. First(b, n) \in DOMAIN a /\ a[First(b, n)] = b[First(b, n)]
    BY <2>1
  <2>3. First(a, n) = First(b, n)
    BY <1>3, <2>1, <2>2
  <2> QED BY <1>1, <1>3, <2>2, <2>3 DEF LevelIn
<1> QED BY <1>2, <1>3, FirstSlot

Unique(n) == \A i, j \in DOMAIN access : access[i].ni = n /\ access[j].ni = n => i = j

LEMMA UniqueSlot ==
  ASSUME AccessInv, ~strays, NEW n, n # NULL
  PROVE  Unique(n)
BY DEF AccessInv, OneEntry, Unique

(* Nobody but the nicks of the old and of the new entry gets another level. *)
LEMMA PutLevels ==
  ASSUME AccessInv, ~strays, NEW k \in 1..Len(access), NEW e \in Slots,
         access' = [access EXCEPT ![k] = e],
         NEW n, n # NULL, n # access[k].ni, n # e.ni
  PROVE  Level(n)' = Level(n)
<1>1. access \in Seq(Slots) /\ access' \in Seq(Slots) /\ DOMAIN access' = DOMAIN access
  BY DEF AccessInv, TypeOK, Slots
<1>2. \A i \in DOMAIN access : access'[i] = IF i = k THEN e ELSE access[i]
  BY <1>1
<1>3. \A i \in DOMAIN access : access[i].ni = n => i \in DOMAIN access' /\ access'[i] = access[i]
  BY <1>1, <1>2
<1>4. \A i \in DOMAIN access' : access'[i].ni = n => i \in DOMAIN access /\ access[i] = access'[i]
  BY <1>1, <1>2
<1>5. \A i, j \in DOMAIN access : access[i].ni = n /\ access[j].ni = n => i = j
  BY UniqueSlot DEF Unique
<1>6. LevelIn(access, n) = LevelIn(access', n)
  BY <1>1, <1>3, <1>4, <1>5, SameLevel
<1> QED BY <1>6, LevelInList

(* The nick of a new entry has its level.                                  *)
LEMMA NewLevel ==
  ASSUME AccessInv', ~strays', NEW k \in DOMAIN access', NEW n, n # NULL, access'[k].ni = n
  PROVE  Level(n)' = access'[k].level
<1>1. access' \in Seq(Slots)
  BY DEF AccessInv, TypeOK, Slots
<1>2. First(access', n) \in DOMAIN access' /\ access'[First(access', n)].ni = n
  BY <1>1, FirstSlot
<1>3. First(access', n) = k
  BY <1>2 DEF AccessInv, OneEntry
<1>4. DOMAIN access' \subseteq Nat \ {0}
  BY <1>1
<1>5. LevelIn(access', n) = access'[k].level
  BY <1>2, <1>3, <1>4 DEF LevelIn
<1> QED BY <1>5, LevelInList

(* A nick whose only entry becomes a hole has none.                        *)
LEMMA HoleLevels ==
  ASSUME AccessInv, ~strays, NEW n, n # NULL, Slot(n) > 0,
         access' = [access EXCEPT ![Slot(n)] = Hole]
  PROVE  /\ Slot(n)' = 0 /\ Level(n)' = ACCESS_INVALID
         /\ \A m : m # NULL /\ m # n => Level(m)' = Level(m)
<1>1. Slot(n) \in 1..Len(access) /\ access[Slot(n)].ni = n
  BY SlotFacts
<1>2. \A m : m # NULL /\ m # n => Level(m)' = Level(m)
  BY <1>1, HoleSlot, PutLevels
<1>3. access \in Seq(Slots) /\ access' \in Seq(Slots) /\ DOMAIN access' = DOMAIN access
  <2>1. access \in Seq(Slots)
    BY SlotFacts
  <2> QED BY <1>1, <2>1, HoleSlot
<1>4. \A i \in DOMAIN access' : access'[i].ni # n
  BY <1>1, <1>3, HoleSlot, UniqueSlot DEF Unique
<1>5. First(access', n) = 0
  BY <1>3, <1>4, FirstSlot
<1> QED BY <1>2, <1>5 DEF Slot, Level

LEMMA EmptyLevels ==
  ASSUME access' = <<>>, NEW n
  PROVE  Slot(n)' = 0 /\ Level(n)' = ACCESS_INVALID
BY DEF Slot, Level, First

Rightly == \A n \in Nicks : Level(n)' # Level(n) => strays \/ Justified(n)

LEMMA AddRightly ==
  ASSUME AccessInv, AccessInv', NEW u \in Users \cup Opers, NEW n \in Nicks, NEW w \in Words,
         do_access_add(u, n, w)
  PROVE  Rightly
<1> SUFFICES ASSUME ~strays, u \in Users, ~is_services_oper(u),
                    NEW m \in Nicks, Level(m)' # Level(m)
             PROVE  get_access(u) > Level(m) /\ get_access(u) > Level(m)'
  <2>1. by' = u
    BY DEF do_access_add
  <2> QED BY <2>1 DEF Rightly, Justified, is_services_oper
<1> DEFINE e == Entry(n, Short(w))
<1>1. Short(w) \in Ranks /\ get_access(u) > Short(w) /\ get_access(u) > ACCESS_INVALID
  <2>1. Short(w) \in Ranks /\ get_access(u) > Short(w)
    BY DEF do_access_add
  <2> QED BY <2>1, AccessInt DEF Ranks, ACCESS_INVALID, ACCESS_FOUNDER
<1>2. n # NULL /\ e \in Slots /\ e.ni = n /\ e.level = Short(w) /\ m # NULL /\ ~strays'
  BY <1>1, NullAssumption, EntrySlot DEF Entry, do_access_add
<1>3. access \in Seq(Slots) /\ DOMAIN access = 1..Len(access) /\ Len(access) \in Nat
  BY DEF AccessInv, TypeOK, Slots
<1>4. CASE /\ Slot(n) > 0 /\ get_access(u) > access[Slot(n)].level
           /\ access' = [access EXCEPT ![Slot(n)] = e]
  <2>1. Slot(n) \in 1..Len(access) /\ access[Slot(n)].ni = n
    BY <1>4, SlotFacts
  <2> HIDE DEF e
  <2>2. m = n
    BY <1>2, <1>4, <2>1, PutLevels
  <2>3. Level(n) = access[Slot(n)].level
    BY <1>4 DEF Level
  <2>4. Slot(n) \in DOMAIN access' /\ access'[Slot(n)] = e
    BY <1>3, <1>4, <2>1
  <2>5. Level(n)' = Short(w)
    BY <1>2, <2>4, NewLevel
  <2> QED BY <1>1, <1>4, <2>2, <2>3, <2>5
<1>5. CASE Slot(n) = 0 /\ Slot(NULL) > 0 /\ access' = [access EXCEPT ![Slot(NULL)] = e]
  <2>1. Slot(NULL) \in 1..Len(access) /\ access[Slot(NULL)].ni = NULL
    BY <1>5, SlotFacts
  <2> HIDE DEF e
  <2>2. m = n
    BY <1>2, <1>5, <2>1, PutLevels
  <2>3. Level(n) = ACCESS_INVALID
    BY <1>5 DEF Level
  <2>4. Slot(NULL) \in DOMAIN access' /\ access'[Slot(NULL)] = e
    BY <1>3, <1>5, <2>1
  <2>5. Level(n)' = Short(w)
    BY <1>2, <2>4, NewLevel
  <2> QED BY <1>1, <2>2, <2>3, <2>5
<1>6. CASE Slot(n) = 0 /\ access' = Append(access, e)
  <2> HIDE DEF e
  <2>1. access' \in Seq(Slots) /\ DOMAIN access' = 1..(Len(access) + 1)
        /\ access'[Len(access) + 1] = e /\ \A i \in DOMAIN access : access'[i] = access[i]
    BY <1>2, <1>3, <1>6
  <2>2. m = n
    <3>1. SUFFICES ASSUME m # n PROVE LevelIn(access, m) = LevelIn(access', m)
      BY LevelInList
    <3>2. \A i \in DOMAIN access : access[i].ni = m => i \in DOMAIN access' /\ access'[i] = access[i]
      BY <1>3, <2>1
    <3>3. \A i \in DOMAIN access' : access'[i].ni = m => i \in DOMAIN access /\ access[i] = access'[i]
      BY <1>2, <1>3, <2>1, <3>1
    <3>4. \A i, j \in DOMAIN access : access[i].ni = m /\ access[j].ni = m => i = j
      BY <1>2, UniqueSlot DEF Unique
    <3> QED BY <1>3, <2>1, <3>2, <3>3, <3>4, SameLevel
  <2>3. Level(n) = ACCESS_INVALID
    BY <1>6 DEF Level
  <2>4. Len(access) + 1 \in DOMAIN access' /\ access'[Len(access) + 1] = e
    BY <1>3, <2>1
  <2>5. Level(n)' = Short(w)
    BY <1>2, <2>4, NewLevel
  <2> QED BY <1>1, <2>2, <2>3, <2>5
<1> QED BY <1>4, <1>5, <1>6 DEF do_access_add, is_services_oper

LEMMA DelRightly ==
  ASSUME AccessInv, NEW u \in Users \cup Opers, NEW n \in Nicks, do_access_del(u, n)
  PROVE  Rightly
<1> SUFFICES ASSUME ~strays, u \in Users, ~is_services_oper(u),
                    NEW m \in Nicks, Level(m)' # Level(m)
             PROVE  get_access(u) > Level(m) /\ get_access(u) > Level(m)'
  <2>1. by' = u
    BY DEF do_access_del
  <2> QED BY <2>1 DEF Rightly, Justified, is_services_oper
<1>1. /\ Slot(n) > 0 /\ get_access(u) > access[Slot(n)].level
      /\ access' = [access EXCEPT ![Slot(n)] = Hole]
      /\ n # NULL /\ m # NULL
  BY NullAssumption DEF do_access_del, is_services_oper
<1>2. m = n /\ Level(n)' = ACCESS_INVALID /\ Level(n) = access[Slot(n)].level
  BY <1>1, HoleLevels DEF Level
<1>3. access[Slot(n)].level \in Ranks
  <2>1. access[Slot(n)] \in Slots
    BY <1>1, SlotFacts
  <2> QED BY <2>1 DEF Slots
<1>4. get_access(u) > ACCESS_INVALID
  BY <1>1, <1>3, AccessInt DEF Ranks, ACCESS_INVALID, ACCESS_FOUNDER
<1> QED BY <1>1, <1>2, <1>4

LEMMA DelaccessRightly ==
  ASSUME AccessInv, NEW u \in Users \cup Opers, do_delaccess(u)
  PROVE  Rightly
<1> SUFFICES ASSUME ~strays, u \in Users, NEW m \in Nicks, Level(m)' # Level(m)
             PROVE  ni[u] = m /\ Slot(m)' = 0
  <2>1. by' = u
    BY DEF do_delaccess
  <2> QED BY <2>1 DEF Rightly, Justified, is_services_oper
<1>1. get_access(u) # 0 /\ ~is_founder(u) /\ access' = [access EXCEPT ![Slot(ni[u])] = Hole]
  BY DEF do_delaccess
<1>2. Slot(ni[u]) > 0 /\ ni[u] # NULL /\ m # NULL
  BY <1>1, LevelFromEntry, NullAssumption DEF get_access
<1> QED BY <1>1, <1>2, HoleLevels

LEMMA ClearRightly ==
  ASSUME NEW u \in Users \cup Opers, do_access_clear(u)
  PROVE  Rightly
BY DEF do_access_clear, Rightly, Justified, is_services_oper

LEMMA SameRightly == UNCHANGED access => Rightly
BY DEF Rightly, Level, Slot

(* A list that goes with its channel.                                      *)
LEMMA EmptyRightly ==
  ASSUME access' = <<>>, by' = NULL
  PROVE  Rightly
BY EmptyLevels DEF Rightly, Justified

LEMMA DelnickRightly ==
  ASSUME AccessInv, NEW n \in Nicks, delnick(n)
  PROVE  Rightly
<1>1. by' = NULL
  BY DEF delnick
<1>2. CASE Gone
  BY <1>1, <1>2, EmptyRightly DEF Gone
<1>3. CASE UNCHANGED lists
  BY <1>3, SameRightly DEF lists
<1>4. CASE access' = [i \in DOMAIN access |-> IF access[i].ni = n THEN Hole ELSE access[i]]
  <2> SUFFICES ASSUME ~strays, NEW m \in Nicks, Level(m)' # Level(m)
               PROVE  Slot(m)' = 0
    BY <1>1 DEF Rightly, Justified
  <2>1. /\ access \in Seq(Slots) /\ DOMAIN access = 1..Len(access) /\ Len(access) \in Nat
        /\ \A i \in DOMAIN access : access[i] \in Slots
    <3>1. access \in Seq(Slots)
      BY SlotFacts
    <3> QED BY <3>1
  <2>2. DOMAIN access' = DOMAIN access /\ \A i \in DOMAIN access : access'[i] \in Slots
    BY <1>4, <2>1, HoleSlot
  <2>3. access' \in Seq(Slots)
    <3>1. access' \in [1..Len(access) -> Slots]
      BY <1>4, <2>1, HoleSlot
    <3> QED BY <2>1, <3>1
  <2>4. \A i \in DOMAIN access : access'[i] = IF access[i].ni = n THEN Hole ELSE access[i]
    BY <1>4
  <2>5. m # NULL /\ Hole.ni = NULL
    BY NullAssumption, HoleSlot
  <2>6. m = n
    <3>1. SUFFICES ASSUME m # n PROVE LevelIn(access, m) = LevelIn(access', m)
      BY LevelInList
    <3>2. \A i \in DOMAIN access : access[i].ni = m => i \in DOMAIN access' /\ access'[i] = access[i]
      BY <2>2, <2>4, <3>1
    <3>3. \A i \in DOMAIN access' : access'[i].ni = m => i \in DOMAIN access /\ access[i] = access'[i]
      BY <2>2, <2>4, <2>5
    <3>4. \A i, j \in DOMAIN access : access[i].ni = m /\ access[j].ni = m => i = j
      BY <2>5, UniqueSlot DEF Unique
    <3> QED BY <2>1, <2>3, <3>2, <3>3, <3>4, SameLevel
  <2>7. \A i \in DOMAIN access' : access'[i].ni # m
    BY <2>2, <2>4, <2>5, <2>6
  <2> QED BY <2>3, <2>7, FirstSlot DEF Slot
<1> QED BY <1>2, <1>3, <1>4 DEF delnick, cs_remove_nick

(* What is loaded of a list without strays is what was saved, holes apart. *)
LEMMA RestartRightly ==
  ASSUME AccessInv, Restart
  PROVE  Rightly
<1> DEFINE Maps == [Nicks \ nicks -> nicks \cup {NULL}]
           Found(as, p) == IF p \in nicks \cup {NULL} THEN p ELSE as[p]
           Loaded(as, e) == IF Found(as, e.ni) = NULL THEN Hole
                            ELSE Entry(Found(as, e.ni), e.level)
<1>1. PICK as \in Maps :
        /\ IF Found(as, founder) = NULL THEN Gone
           ELSE /\ founder' = Found(as, founder) /\ successor' = Found(as, successor)
                /\ access' = [i \in DOMAIN access |-> Loaded(as, access[i])]
                /\ UNCHANGED <<levels, flags, strays>>
        /\ ni' = [u \in Users \cup Opers |-> NULL] /\ identified' = {} /\ passid' = {}
        /\ on' = {} /\ marks' = [m \in Modes |-> {}] /\ spared' = {}
        /\ by' = NULL
        /\ UNCHANGED nicks
  BY Zenon DEF Restart
<1>2. CASE Gone
  BY <1>1, <1>2, EmptyRightly DEF Gone
<1>3. CASE ~Gone
  <2> SUFFICES ASSUME ~strays, NEW n \in Nicks
               PROVE  Level(n)' = Level(n)
    BY DEF Rightly
  <2>1. access' = [i \in DOMAIN access |-> Loaded(as, access[i])]
    BY <1>1, <1>3
  <2>2. /\ access \in Seq(Slots) /\ DOMAIN access = 1..Len(access) /\ Len(access) \in Nat
        /\ \A i \in DOMAIN access : access[i] \in Slots
    <3>1. access \in Seq(Slots)
      BY SlotFacts
    <3> QED BY <3>1
  <2>3. ASSUME NEW i \in DOMAIN access
        PROVE  access'[i] = IF access[i].ni = NULL THEN Hole ELSE access[i]
    <3>1. access[i] \in Slots /\ access[i].ni \in nicks \cup {NULL}
      BY <2>2 DEF AccessInv, EntriesAlive
    <3>2. access[i] = Entry(access[i].ni, access[i].level)
      BY <3>1 DEF Slots, Entry
    <3>3. Found(as, access[i].ni) = access[i].ni
      BY <3>1
    <3>4. access'[i] = Loaded(as, access[i])
      BY <2>1
    <3> HIDE DEF Found
    <3> QED BY <3>2, <3>3, <3>4
  <2>4. DOMAIN access' = DOMAIN access
    BY <2>1
  <2> HIDE DEF Loaded, Found
  <2>5. access' \in Seq(Slots)
    <3>1. \A i \in DOMAIN access : access'[i] \in Slots
      BY <2>2, <2>3, HoleSlot
    <3>2. access' \in [1..Len(access) -> Slots]
      BY <2>1, <2>2, <3>1
    <3> QED BY <2>2, <3>2
  <2>6. n # NULL /\ Hole.ni = NULL
    BY NullAssumption, HoleSlot
  <2>7. \A i \in DOMAIN access : access[i].ni = n => i \in DOMAIN access' /\ access'[i] = access[i]
    BY <2>3, <2>4, <2>6
  <2>8. \A i \in DOMAIN access' : access'[i].ni = n => i \in DOMAIN access /\ access[i] = access'[i]
    BY <2>3, <2>4, <2>6
  <2>9. \A i, j \in DOMAIN access : access[i].ni = n /\ access[j].ni = n => i = j
    BY <2>6, UniqueSlot DEF Unique
  <2>10. LevelIn(access, n) = LevelIn(access', n)
    BY <2>2, <2>5, <2>7, <2>8, <2>9, SameLevel
  <2> QED BY <2>10, LevelInList
<1> QED BY <1>2, <1>3

LEMMA LifeRightly == AccessInv /\ LifeStep => Rightly
<1> SUFFICES ASSUME AccessInv, LifeStep PROVE Rightly
  OBVIOUS
<1>1. ASSUME NEW n \in Nicks, registra_con_creg(n) PROVE Rightly
  BY <1>1, EmptyRightly DEF registra_con_creg
<1>2. ASSUME delchan PROVE Rightly
  BY <1>2, EmptyRightly DEF delchan, Gone
<1>3. ASSUME NEW n \in Nicks, makenick(n) PROVE Rightly
  BY <1>3, SameRightly DEF makenick, lists
<1>4. ASSUME NEW u \in Users, do_identify(u) \/ IdentifyNick(u) PROVE Rightly
  BY <1>4, SameRightly DEF do_identify, IdentifyNick, lists
<1>5. ASSUME NEW u \in Users, NEW n \in Nicks \cup {NULL}, ChangeNick(u, n) PROVE Rightly
  BY <1>5, SameRightly DEF ChangeNick, lists
<1> QED BY <1>1, <1>2, <1>3, <1>4, <1>5, DelnickRightly, RestartRightly DEF LifeStep

LEMMA ModeRightly == ModeStep => Rightly
<1>1. ModeStep => UNCHANGED access
  BY DEF ModeStep, do_join, do_part, mode_op, mode_voice, mode_deop, mode_devoice, do_op, do_voice,
     do_deop, do_devoice, do_reset, do_clear, do_suspend, suspende_con_creg,
     do_unsuspend, Gain, Lose, lists
<1> QED BY <1>1, SameRightly

LEMMA SetRightly == SetStep => Rightly
<1>1. SetStep => UNCHANGED access
  BY DEF SetStep, do_set_founder, do_set_successor, do_set_flag, do_set_stay, lists
<1> QED BY <1>1, SameRightly

LEMMA AccessRightly == AccessInv /\ AccessInv' /\ AccessStep => Rightly
<1> SUFFICES ASSUME AccessInv, AccessInv', AccessStep PROVE Rightly
  OBVIOUS
<1>1. ASSUME NEW u \in Users \cup Opers, do_levels(u) PROVE Rightly
  BY <1>1, SameRightly DEF do_levels
<1> QED BY <1>1, AddRightly, DelRightly, DelaccessRightly, ClearRightly DEF AccessStep

(* Nobody gives, raises or takes a level that is not below his own.        *)
THEOREM PeersCorrect == Spec => PeersUntouched
<1>1. AccessInv /\ AccessInv' /\ [Next]_vars =>
        [\A n \in Nicks : Level(n)' # Level(n) => strays \/ Justified(n)]_vars
  BY AccessRightly, SetRightly, ModeRightly, LifeRightly DEF Next, Rightly
<1> QED BY <1>1, AccessInvariant, PTL DEF Spec, PeersUntouched
=============================================================================
