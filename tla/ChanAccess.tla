----------------------------- MODULE ChanAccess -----------------------------
(***************************************************************************)
(* What a user may do on one registered channel: the access list           *)
(* (ci->access) with its levels and its holes, the levels the channel asks *)
(* for (ci->levels), and who gets op and voice from it.                    *)
(*                                                                         *)
(* As in ChanServ a nick stands for the address of its record: a founder,  *)
(* a successor or an entry may lead to a record that has been freed.  The  *)
(* opers act here without a nick of their own.                             *)
(***************************************************************************)
EXTENDS Integers, Sequences

CONSTANTS
  Users,        \* User structures
  Opers,        \* users whom is_services_oper accepts
  Nicks,        \* addresses of NickInfo records
  NULL,
  CSAccessMax,  \* size of the access list
  Words,        \* the numbers typed in ACCESS ADD
  LevelWords,   \* the numbers typed in LEVELS SET
  Tuned,        \* bound: the levels that LEVELS changes
  Flags         \* bound: the flags of the channel that are set

ASSUME ActorsAssumption == Users \cap Opers = {} /\ NULL \notin Users \cup Opers
ASSUME NullAssumption   == NULL \notin Nicks
ASSUME SizeAssumption   == CSAccessMax \in Nat
ASSUME WordsAssumption  == Words \cup LevelWords \subseteq Int

VARIABLES
  nicks,       \* the registered nicks
  ni,          \* user->ni
  identified,  \* the users for whom nick_identified holds
  passid,      \* those with the channel in user->founder_chans
  founder,     \* ci->founder, or NULL while the channel is not registered
  successor,   \* ci->successor
  access,      \* ci->access: entries [ni, level], with ni = NULL in a hole
  levels,      \* ci->levels
  flags,       \* CI_ flags
  on,          \* the users on the channel
  marks,       \* c->chanops (o) and c->voices (v)
  spared,      \* history: the ops that CReG's SUSPEND left, while they stay ops
  by,          \* history: who did the last step, or NULL
  strays       \* history: cs_remove_nick left an entry of the nick behind

owners == <<founder, successor>>
people == <<nicks, ni, identified, passid>>
lists  == <<access, levels, flags>>
room   == <<on, marks, spared>>
vars   == <<people, owners, lists, room, by, strays>>

ACCESS_FOUNDER == 500
ACCESS_INVALID == -3
Ranks == (ACCESS_INVALID + 1)..(ACCESS_FOUNDER - 1)

Modes    == {"o", "v"}
AutoGive == [o |-> "AUTOOP", v |-> "AUTOVOICE"]
AutoDe   == [o |-> "AUTODEOP", v |-> "AUTODEVOICE"]
Secure   == [o |-> "SECUREOPS", v |-> "SECUREVOICES"]

def_levels ==
  [ACCESS_CHANGE |-> 450, SET |-> 499, CLEAR |-> ACCESS_INVALID, RESET |-> 450,
   AUTOOP |-> 300, AUTODEOP |-> -1, OPDEOP |-> 200,
   AUTOVOICE |-> 100, AUTODEVOICE |-> -1, VOICEDEVOICE |-> 50, NOJOIN |-> -1]

(* atoi into a short. *)
Short(word) == LET w == word % 65536 IN IF w < 32768 THEN w ELSE w - 65536

Hole == [ni |-> NULL, level |-> 0]
Entry(n, l) == [ni |-> n, level |-> l]

(* The first entry of n, the first hole; 0 if there is none.               *)
First(a, n) ==
  IF \E i \in DOMAIN a : a[i].ni = n
    THEN CHOOSE i \in DOMAIN a : a[i].ni = n /\ \A j \in 1..(i - 1) : a[j].ni # n
    ELSE 0
Slot(n) == First(access, n)
Listed == {access[i].ni : i \in DOMAIN access} \ {NULL}

registered == founder # NULL
Open == registered /\ "SUSPEND" \notin flags
is_services_oper(u) == u \in Opers
-----------------------------------------------------------------------------
(* CI_SECURE is set on every channel: recognition alone gives nothing.     *)
is_founder(u) ==
  \/ ni[u] # NULL /\ ni[u] = founder /\ u \in identified
  \/ u \in passid

(* Whoever has no registered nick is nobody, the founder by password too.  *)
get_access(u) ==
  IF ~registered \/ ni[u] = NULL THEN 0
  ELSE IF is_founder(u) THEN ACCESS_FOUNDER
  ELSE IF u \in identified /\ Slot(ni[u]) > 0 THEN access[Slot(ni[u])].level
  ELSE 0

(* Mutant: nobody is kept from an op for being unknown to a secure channel. *)
check_accessOpen(u, what) ==
  LET level == get_access(u)
      below == what \in {"AUTODEOP", "AUTODEVOICE", "NOJOIN"}
  IN IF level = ACCESS_FOUNDER THEN what \notin {"AUTODEOP", "NOJOIN"}
     ELSE /\ levels[what] # ACCESS_INVALID
          /\ IF below THEN level <= levels[what] ELSE level >= levels[what]

(* (A founder passes CA_AUTODEVOICE too: the test names two of the three.)  *)
check_access(u, what) ==
  LET level == get_access(u)
      below == what \in {"AUTODEOP", "AUTODEVOICE", "NOJOIN"}
  IN IF level = ACCESS_FOUNDER THEN what \notin {"AUTODEOP", "NOJOIN"}
     ELSE \/ /\ \E m \in Modes : what = AutoDe[m] /\ Secure[m] \in flags
             /\ level = 0
          \/ /\ levels[what] # ACCESS_INVALID
             /\ IF below THEN level <= levels[what] ELSE level >= levels[what]

May(u, what) == check_access(u, what) \/ is_services_oper(u)
-----------------------------------------------------------------------------
(* ACCESS.                                                                 *)

(* Mutant: the level of an entry that is there already is not looked at.   *)
do_access_addOver(u, n, word) ==
  LET level == Short(word)
      over(l) == get_access(u) > l \/ is_services_oper(u)
  IN /\ Open
     /\ May(u, "ACCESS_CHANGE")
     /\ over(level)
     /\ level \in Ranks \ {0}
     /\ n \in nicks
     /\ \/ /\ Slot(n) > 0
           /\ access[Slot(n)].level # level
           /\ access' = [access EXCEPT ![Slot(n)] = Entry(n, level)]
        \/ /\ Slot(n) = 0 /\ Slot(NULL) = 0
           /\ Len(access) < CSAccessMax
           /\ access' = Append(access, Entry(n, level))
     /\ by' = u
     /\ UNCHANGED <<people, owners, levels, flags, room, strays>>

(* An entry of the nick is changed, a hole is used, or the list grows.     *)
do_access_add(u, n, word) ==
  LET level == Short(word)
      over(l) == get_access(u) > l \/ is_services_oper(u)
  IN /\ Open
     /\ May(u, "ACCESS_CHANGE")
     /\ over(level)
     /\ level \in Ranks \ {0}
     /\ n \in nicks
     /\ \/ /\ Slot(n) > 0
           /\ over(access[Slot(n)].level)
           /\ access[Slot(n)].level # level
           /\ access' = [access EXCEPT ![Slot(n)] = Entry(n, level)]
        \/ /\ Slot(n) = 0 /\ Slot(NULL) > 0
           /\ access' = [access EXCEPT ![Slot(NULL)] = Entry(n, level)]
        \/ /\ Slot(n) = 0 /\ Slot(NULL) = 0
           /\ Len(access) < CSAccessMax
           /\ access' = Append(access, Entry(n, level))
     /\ by' = u
     /\ UNCHANGED <<people, owners, levels, flags, room, strays>>

do_access_del(u, n) ==
  /\ Open
  /\ May(u, "ACCESS_CHANGE")
  /\ n \in nicks /\ Slot(n) > 0
  /\ get_access(u) > access[Slot(n)].level \/ is_services_oper(u)
  /\ access' = [access EXCEPT ![Slot(n)] = Hole]
  /\ by' = u
  /\ UNCHANGED <<people, owners, levels, flags, room, strays>>

do_access_clear(u) ==
  /\ Open
  /\ May(u, "ACCESS_CHANGE")
  /\ is_founder(u)
  /\ access' = <<>>
  /\ by' = u /\ strays' = FALSE
  /\ UNCHANGED <<people, owners, levels, flags, room>>

(* Whoever has a level above 0 has an entry, so there is one to remove.    *)
do_delaccess(u) ==
  /\ Open
  /\ get_access(u) > 0
  /\ ~check_access(u, "NOJOIN")
  /\ ~is_founder(u)
  /\ access' = [access EXCEPT ![Slot(ni[u])] = Hole]
  /\ by' = u
  /\ UNCHANGED <<people, owners, levels, flags, room, strays>>

(* LEVELS SET, DIS and RESET.                                              *)
do_levels(u) ==
  /\ Open
  /\ is_founder(u) \/ is_services_oper(u)
  /\ \/ \E what \in Tuned, word \in LevelWords :
          /\ Short(word) \in Ranks
          /\ levels' = [levels EXCEPT ![what] = Short(word)]
     \/ \E what \in Tuned : levels' = [levels EXCEPT ![what] = ACCESS_INVALID]
     \/ levels' = def_levels
  /\ by' = u
  /\ UNCHANGED <<people, owners, access, flags, room, strays>>
-----------------------------------------------------------------------------
(* SET, which a suspension does not bar.                                   *)

do_set_founder(u, n) ==
  /\ registered /\ May(u, "SET")
  /\ n \in nicks
  /\ founder' = n
  /\ by' = u
  /\ UNCHANGED <<people, successor, lists, room, strays>>

do_set_successor(u, n) ==
  /\ registered /\ May(u, "SET")
  /\ n \in nicks \cup {NULL}
  /\ successor' = n
  /\ by' = u
  /\ UNCHANGED <<people, founder, lists, room, strays>>

(* SECUREOPS, SECUREVOICES and LEAVEOPS, ON and OFF.  SECUREVOICES ON also *)
(* ends a suspension, and so does STAY ON.                                 *)
do_set_flag(u, f) ==
  /\ registered /\ May(u, "SET")
  /\ f \in Flags \ {"SUSPEND"}
  /\ \/ flags' = flags \ {f}
     \/ flags' = (flags \cup {f}) \ (IF f = "SECUREVOICES" THEN {"SUSPEND"} ELSE {})
  /\ by' = u
  /\ UNCHANGED <<people, owners, access, levels, room, strays>>

do_set_stay(u) ==
  /\ registered /\ May(u, "SET")
  /\ flags' = flags \ {"SUSPEND"}
  /\ by' = u
  /\ UNCHANGED <<people, owners, access, levels, room, strays>>
-----------------------------------------------------------------------------
(* Op and voice.  A user who comes gets one of them, if the list says so.  *)

ShouldHave(u, m) == Open /\ u \in identified /\ check_access(u, AutoGive[m])
check_should_op(u) == ShouldHave(u, "o")
check_should_voice(u) == ShouldHave(u, "v")

do_join(u) ==
  /\ u \notin on
  /\ on' = on \cup {u}
  /\ marks' = IF check_should_op(u) THEN [marks EXCEPT !["o"] = @ \cup {u}]
              ELSE IF check_should_voice(u) THEN [marks EXCEPT !["v"] = @ \cup {u}]
              ELSE marks
  /\ by' = NULL
  /\ UNCHANGED <<people, owners, lists, spared, strays>>

do_part(u) ==
  /\ u \in on
  /\ on' = on \ {u}
  /\ marks' = [m \in Modes |-> marks[m] \ {u}]
  /\ spared' = spared \ {u}
  /\ by' = NULL
  /\ UNCHANGED <<people, owners, lists, strays>>

(* Mutant: the flags are not looked at for a suspension.                   *)
check_valid_opAny(u, serverop) ==
  /\ registered
  /\ "LEAVEOPS" \in flags => is_founder(u)
  /\ serverop => check_access(u, "AUTOOP")
  /\ ~check_access(u, "AUTODEOP")

(* What they refuse is taken back on the network, but for the ops of a     *)
(* channel with LEAVEOPS.                                                  *)
check_valid_op(u, serverop) ==
  /\ Open
  /\ "LEAVEOPS" \in flags => is_founder(u)
  /\ serverop => check_access(u, "AUTOOP")
  /\ ~check_access(u, "AUTODEOP")

check_valid_voice(u) == Open /\ ~check_access(u, "AUTODEVOICE")

Gain(u, m) ==
  /\ u \in on /\ u \notin marks[m]
  /\ marks' = [marks EXCEPT ![m] = @ \cup {u}]
  /\ UNCHANGED <<people, owners, lists, on, spared, strays>>
Lose(us, ms) ==
  /\ marks' = [m \in Modes |-> IF m \in ms THEN marks[m] \ us ELSE marks[m]]
  /\ spared' = IF "o" \in ms THEN spared \ us ELSE spared
  /\ UNCHANGED <<people, owners, lists, on, strays>>

(* +o and +v by a user or, when CSRestrictDelay is over, by a server.      *)
mode_op(u, serverop) == Gain(u, "o") /\ check_valid_op(u, serverop) /\ by' = NULL
mode_voice(u)   == Gain(u, "v") /\ check_valid_voice(u) /\ by' = NULL
mode_deop(u)    == u \in marks["o"] /\ Lose({u}, {"o"}) /\ by' = NULL
mode_devoice(u) == u \in marks["v"] /\ Lose({u}, {"v"}) /\ by' = NULL

Commands(a, what) ==
  /\ registered
  /\ is_services_oper(a) \/ "SUSPEND" \notin flags
  /\ May(a, what)
  /\ by' = a

(* The +o that services send goes through do_cmode like any other.         *)
do_op(a, u)      == Commands(a, "OPDEOP") /\ Gain(u, "o") /\ check_valid_op(u, FALSE)
do_voice(a, u)   == Commands(a, "VOICEDEVOICE") /\ Gain(u, "v") /\ check_valid_voice(u)
do_deop(a, u)    == Commands(a, "OPDEOP") /\ u \in marks["o"] /\ Lose({u}, {"o"})
do_devoice(a, u) == Commands(a, "VOICEDEVOICE") /\ u \in marks["v"] /\ Lose({u}, {"v"})

(* CLEAR OPS and CLEAR VOICES.  RESET does both, not on a suspended channel. *)
do_clear(a, m) == on # {} /\ Commands(a, "CLEAR") /\ Lose(Users, {m})
do_reset(a)    == on # {} /\ Open /\ Commands(a, "RESET") /\ Lose(Users, Modes)

(* ChanServ's SUSPEND.  Of a channel nobody is on it ends the program.     *)
do_suspend ==
  /\ Open /\ on # {} /\ "SUSPEND" \in Flags
  /\ flags' = flags \cup {"SUSPEND"}
  /\ marks' = [marks EXCEPT !["o"] = {}]
  /\ spared' = {}
  /\ by' = NULL
  /\ UNCHANGED <<people, owners, access, levels, on, strays>>

(* CReG's SUSPEND, of a channel that is suspended too.  Its loop over the   *)
(* ops returns after the first of them, so that the others stay.           *)
suspende_con_creg ==
  /\ registered /\ "SUSPEND" \in Flags
  /\ flags' = flags \cup {"SUSPEND"}
  /\ \E u \in on :
       /\ u \in marks["o"] \/ marks["o"] = {}
       /\ marks' = [marks EXCEPT !["o"] = @ \ {u}]
  /\ spared' = marks'["o"]
  /\ by' = NULL
  /\ UNCHANGED <<people, owners, access, levels, on, strays>>

(* UNSUSPEND of ChanServ and of CReG.                                      *)
do_unsuspend ==
  /\ "SUSPEND" \in flags
  /\ flags' = flags \ {"SUSPEND"}
  /\ by' = NULL
  /\ UNCHANGED <<people, owners, access, levels, room, strays>>
-----------------------------------------------------------------------------
(* The life of the channel and of the nicks.                               *)

(* Services may still hold the channel in founder_chans from another life. *)
registra_con_creg(n) ==
  /\ ~registered
  /\ n \in nicks /\ on # {}
  /\ founder' = n
  /\ successor' = NULL
  /\ passid' = passid \cup {u \in Users : ni[u] = n}
  /\ access' = <<>> /\ levels' = def_levels /\ flags' = {}
  /\ by' = NULL /\ strays' = FALSE
  /\ UNCHANGED <<nicks, ni, identified, room>>

Gone ==
  /\ founder' = NULL /\ successor' = NULL
  /\ access' = <<>> /\ levels' = def_levels /\ flags' = {}
  /\ strays' = FALSE

delchan ==
  /\ registered
  /\ Gone
  /\ by' = NULL
  /\ UNCHANGED <<people, room>>

(* IDENTIFY with the password of the channel.                              *)
do_identify(u) ==
  /\ Open
  /\ passid' = passid \cup {u}
  /\ by' = NULL
  /\ UNCHANGED <<nicks, ni, identified, owners, lists, room, strays>>

makenick(n) ==
  /\ n \notin nicks
  /\ nicks' = nicks \cup {n}
  /\ by' = NULL
  /\ UNCHANGED <<ni, identified, passid, owners, lists, room, strays>>

ChangeNick(u, n) ==
  /\ n \in nicks \cup {NULL}
  /\ n # ni[u]
  /\ \A v \in Users : n # NULL => ni[v] # n
  /\ ni' = [ni EXCEPT ![u] = n]
  /\ identified' = identified \ {u}
  /\ by' = NULL
  /\ UNCHANGED <<nicks, passid, owners, lists, room, strays>>

IdentifyNick(u) ==
  /\ ni[u] # NULL
  /\ identified' = identified \cup {u}
  /\ by' = NULL
  /\ UNCHANGED <<nicks, ni, passid, owners, lists, room, strays>>

(* Mutant: the entries of the nick stay in the list.                       *)
cs_remove_nickKeeps(n) ==
  \/ /\ founder = n
     /\ Gone
  \/ /\ founder = n /\ successor # NULL
     /\ founder' = successor /\ successor' = NULL
     /\ strays' = (strays \/ n \in Listed)
     /\ UNCHANGED lists
  \/ /\ founder # n
     /\ UNCHANGED <<owners, lists, strays>>

(* The channel goes with its founder, or to the successor; the second way  *)
(* skips the access list.  A channel that stays with its founder loses the *)
(* entries of the nick, and keeps it as a successor.                       *)
cs_remove_nick(n) ==
  \/ /\ founder = n
     /\ Gone
  \/ /\ founder = n /\ successor # NULL
     /\ founder' = successor /\ successor' = NULL
     /\ strays' = (strays \/ n \in Listed)
     /\ UNCHANGED lists
  \/ /\ founder # n
     /\ access' = [i \in DOMAIN access |-> IF access[i].ni = n THEN Hole ELSE access[i]]
     /\ UNCHANGED <<owners, levels, flags, strays>>

delnick(n) ==
  /\ n \in nicks
  /\ cs_remove_nick(n)
  /\ nicks' = nicks \ {n}
  /\ ni' = [u \in Users \cup Opers |-> IF ni[u] = n THEN NULL ELSE ni[u]]
  /\ identified' = {u \in identified : ni[u] # n}
  /\ by' = NULL
  /\ UNCHANGED <<passid, room>>

(* Save and load.  A record that was freed may have any nick in it (as),   *)
(* and a channel without a founder is not kept.                            *)
Restart ==
  \E as \in [Nicks \ nicks -> nicks \cup {NULL}] :
    LET Found(p) == IF p \in nicks \cup {NULL} THEN p ELSE as[p]
        Loaded(e) == IF Found(e.ni) = NULL THEN Hole ELSE Entry(Found(e.ni), e.level)
    IN /\ IF Found(founder) = NULL THEN Gone
          ELSE /\ founder' = Found(founder) /\ successor' = Found(successor)
               /\ access' = [i \in DOMAIN access |-> Loaded(access[i])]
               /\ UNCHANGED <<levels, flags, strays>>
       /\ ni' = [u \in Users \cup Opers |-> NULL] /\ identified' = {} /\ passid' = {}
       /\ on' = {} /\ marks' = [m \in Modes |-> {}] /\ spared' = {}
       /\ by' = NULL
       /\ UNCHANGED nicks
-----------------------------------------------------------------------------
Init ==
  /\ nicks = {} /\ ni = [u \in Users \cup Opers |-> NULL]
  /\ identified = {} /\ passid = {}
  /\ founder = NULL /\ successor = NULL
  /\ access = <<>> /\ levels = def_levels /\ flags = {}
  /\ on = {} /\ marks = [m \in Modes |-> {}] /\ spared = {}
  /\ by = NULL /\ strays = FALSE

AccessStep ==
  \E u \in Users \cup Opers :
    \/ \E n \in Nicks : do_access_del(u, n) \/ \E w \in Words : do_access_add(u, n, w)
    \/ do_access_clear(u) \/ do_delaccess(u) \/ do_levels(u)

SetStep ==
  \E u \in Users \cup Opers :
    \/ \E n \in Nicks : do_set_founder(u, n)
    \/ \E n \in Nicks \cup {NULL} : do_set_successor(u, n)
    \/ do_set_stay(u) \/ \E f \in Flags : do_set_flag(u, f)

ModeStep ==
  \/ \E u \in Users : do_join(u) \/ do_part(u)
  \/ \E u \in Users :
       \/ \E serverop \in BOOLEAN : mode_op(u, serverop)
       \/ mode_voice(u) \/ mode_deop(u) \/ mode_devoice(u)
  \/ \E a \in Users \cup Opers, u \in Users :
       do_op(a, u) \/ do_deop(a, u) \/ do_voice(a, u) \/ do_devoice(a, u)
  \/ \E a \in Users \cup Opers :
       do_reset(a) \/ \E m \in Modes : do_clear(a, m)
  \/ do_suspend \/ suspende_con_creg \/ do_unsuspend

LifeStep ==
  \/ \E n \in Nicks : registra_con_creg(n) \/ makenick(n) \/ delnick(n)
  \/ \E u \in Users : do_identify(u) \/ IdentifyNick(u)
  \/ \E u \in Users, n \in Nicks \cup {NULL} : ChangeNick(u, n)
  \/ delchan \/ Restart

Next == AccessStep \/ SetStep \/ ModeStep \/ LifeStep

Spec == Init /\ [][Next]_vars
-----------------------------------------------------------------------------
TypeOK ==
  /\ nicks \subseteq Nicks
  /\ ni \in [Users \cup Opers -> nicks \cup {NULL}]
  /\ identified \subseteq Users /\ passid \subseteq Users
  /\ founder \in Nicks \cup {NULL} /\ successor \in Nicks \cup {NULL}
  /\ access \in Seq([ni : Nicks \cup {NULL}, level : Ranks])
  /\ Len(access) <= CSAccessMax
  /\ levels \in [DOMAIN def_levels -> Int] /\ flags \subseteq Flags
  /\ on \subseteq Users /\ marks \in [Modes -> SUBSET on] /\ spared \subseteq Users
  /\ by \in Users \cup Opers \cup {NULL} /\ strays \in BOOLEAN

(* get_access takes the first entry of a nick and ACCESS DEL removes the   *)
(* first: a nick has one entry, whatever order of ADD, DEL, DELACCESS and  *)
(* nicks that go has used the holes.  The exception is a founder listed on *)
(* the channel it founded: a successor takes over with the dead entry.     *)
OneEntry ==
  ~strays => \A i, j \in DOMAIN access :
               access[i].ni = access[j].ni /\ access[i].ni # NULL => i = j

Level(n) == IF Slot(n) = 0 THEN ACCESS_INVALID ELSE access[Slot(n)].level

(* Who changed the level of n in this step had the right to.               *)
Justified(n) ==
  \/ is_services_oper(by')
  \/ /\ by' \in Users
     /\ \/ get_access(by') > Level(n) /\ get_access(by') > Level(n)'
        \/ is_founder(by') /\ access' = <<>>
        \/ ni[by'] = n /\ Slot(n)' = 0
  \/ by' = NULL /\ Slot(n)' = 0

(* A level is given, changed or taken by somebody above the old and the    *)
(* new one, by an oper, by a founder who clears the list or by the nick    *)
(* itself when it leaves; otherwise it only goes with the nick or channel. *)
(* (A dead entry may be loaded as one of anybody.)                         *)
PeersUntouched ==
  [][\A n \in Nicks : Level(n)' # Level(n) => strays \/ Justified(n)]_vars

(* With SECUREOPS (or SECUREVOICES) no way to a mark is open to whom the   *)
(* access list does not know: JOIN, MODE of a user or a server, OP, VOICE. *)
(* Only an automatic level of 0 or less lets anybody in who has identified *)
(* for a nick.                                                             *)
SecureMarks ==
  [][\A m \in Modes : Secure[m] \in flags =>
       \A u \in marks'[m] \ marks[m] :
         \/ get_access(u) # 0
         \/ u \in identified /\ levels[AutoGive[m]] # ACCESS_INVALID
            /\ get_access(u) >= levels[AutoGive[m]]]_vars

(* An op of a suspended channel is one that CReG's SUSPEND has passed by,  *)
(* and has been op ever since: ChanServ's SUSPEND leaves none, and JOIN,   *)
(* MODE of a user or a server, OP, identification for the channel and SET  *)
(* make none and bring none back who has lost it, until the suspension     *)
(* ends.  (The opers, whom check_valid_op lets pass, are not among Users.) *)
SuspendedOps == "SUSPEND" \in flags => marks["o"] \subseteq spared
=============================================================================
