------------------------------- MODULE Staff --------------------------------
(***************************************************************************)
(* The staff lists: the arrays of NickInfo pointers that OperServ and XServ*)
(* share (operserv.c, xserv.c) and those of JokuServ (jokuserv.c), the     *)
(* commands that enter and remove nicks, the ranks that are read from them,*)
(* what becomes of an entry when its nick is dropped, and the saving and   *)
(* loading of the lists beside the nicks.                                  *)
(*                                                                         *)
(* A record is an address: memory that was freed is given out again, and a *)
(* pointer to it then points to another nick.  What ADD and DEL write into *)
(* the tables o and v of the network is one mark; ni->vhost, which is only *)
(* shown, is left out.  Links of nicks are disabled, skeleton is off.      *)
(***************************************************************************)
EXTENDS Integers, FiniteSets

CONSTANTS
  Nicks, Chans,           \* names of nicks and of channels
  ServicesRoots,          \* the nicks that the configuration makes roots
  Addrs,                  \* bound: addresses of records
  None,                   \* no record, no name
  Focus,                  \* bound: the sets of lists that commands touch in one run
  MaxRounds,              \* bound: rounds of saving and restarts in one run
  MAX_SERVADMINS, MAX_SERVDEVELS, MAX_SERVOPERS, MAX_SERVPATROCINAS

ASSUME RootsAssumption == ServicesRoots \subseteq Nicks
ASSUME NoneAssumption == None \notin Nicks \cup Chans \cup Addrs
ASSUME KindsAssumption == Nicks \cap Chans = {}
ASSUME FocusAssumption == MaxRounds \in Nat
(* config.h                                                                *)
ASSUME SizeAssumption ==
  /\ MAX_SERVADMINS \in Nat \ {0} /\ MAX_SERVDEVELS \in Nat \ {0}
  /\ MAX_SERVOPERS \in Nat /\ MAX_SERVADMINS <= MAX_SERVOPERS
  /\ MAX_SERVPATROCINAS = MAX_SERVOPERS

VARIABLES
  rec,     \* the name of the record at each address, None where it is free
  bdd,     \* the records with NI_ON_BDD
  ident,   \* the records whose user is on the network and has identified
  slots,   \* the arrays, None for NULL
  mark,    \* of each nick, what the tables o and v of the network hold
  saved,   \* the files of the nicks and channels and of the lists
  lost,    \* history: nicks whose entry a restart did not find
  inUse,   \* bound: the lists of this run
  rounds   \* bound: how often services have saved or restarted
vars == <<rec, bdd, ident, slots, mark, saved, lost, inUse, rounds>>
bounds == <<inUse, rounds>>

Names == Nicks \cup Chans
ServicesLists == {"admins", "coadmins", "devels", "opers", "patrocinas"}
JokuLists == {"joku_admins", "joku_opers", "canales"}
Lists == ServicesLists \cup JokuLists

Size(l) == CASE l \in {"admins", "coadmins", "joku_admins"} -> MAX_SERVADMINS
             [] l = "devels"                     -> MAX_SERVDEVELS
             [] l = "patrocinas"                 -> MAX_SERVPATROCINAS
             [] OTHER                            -> MAX_SERVOPERS
Slots(l) == 1..Size(l)

----------------------------------------------------------------------------
(* Ranks.                                                                  *)

Holds(l, a) == \E i \in Slots(l) : slots[l][i] = a
findnick(n) == {a \in Addrs : rec[a] = n}
Live == {a \in Addrs : rec[a] # None}

is_services_root(u)      == u \in ident /\ rec[u] \in ServicesRoots
is_services_admin(u)     == is_services_root(u)     \/ (Holds("admins", u) /\ u \in ident)
is_services_cregadmin(u) == is_services_admin(u)    \/ (Holds("coadmins", u) /\ u \in ident)
is_services_devel(u)     == is_services_cregadmin(u) \/ (Holds("devels", u) /\ u \in ident)
is_services_oper(u)      == is_services_devel(u)    \/ (Holds("opers", u) /\ u \in ident)
is_joku_admin(u)         == is_services_oper(u)     \/ (Holds("joku_admins", u) /\ u \in ident)
is_joku_oper(u)          == is_joku_admin(u)        \/ (Holds("joku_opers", u) /\ u \in ident)

nick_is_services_admin(a)     == Holds("admins", a)
nick_is_services_cregadmin(a) == nick_is_services_admin(a) \/ Holds("coadmins", a)
nick_is_services_devel(a)     == nick_is_services_cregadmin(a) \/ Holds("devels", a)
nick_is_services_oper(a)      == nick_is_services_devel(a) \/ Holds("opers", a)

May(u, need) ==
  CASE need = "root"       -> is_services_root(u)
    [] need = "admin"      -> is_services_admin(u)
    [] need = "coadmin"    -> is_services_cregadmin(u)
    [] need = "devel"      -> is_services_devel(u)
    [] need = "oper"       -> is_services_oper(u)
    [] need = "joku_admin" -> is_joku_admin(u)
    [] need = "joku_oper"  -> is_joku_oper(u)

----------------------------------------------------------------------------
(* How the functions behind the commands differ: the array, the rank they  *)
(* ask for, how many slots ADD looks at, the mark ADD leaves in the tables *)
(* o and v ("" takes the flags away, "none" if it writes nothing).         *)

Row(list, need, scan, flag) ==
  [list |-> list, need |-> need, scan |-> scan, flag |-> flag]

do_admin_add     == Row("admins", "root", MAX_SERVADMINS, "10")
do_coadmin_add   == Row("coadmins", "admin", MAX_SERVADMINS, "10")
(* Mutant: a devel may enter devels.                                       *)
do_devel_addEqual == Row("devels", "devel", MAX_SERVDEVELS, "10")
do_devel_add     == Row("devels", "coadmin", MAX_SERVDEVELS, "10")
do_oper_add      == Row("opers", "devel", MAX_SERVOPERS, "5")
do_patrocina_add == Row("patrocinas", "devel", MAX_SERVPATROCINAS, "")
x_admin_add      == Row("admins", "root", MAX_SERVADMINS, "10")
x_coadmin_add    == Row("coadmins", "admin", MAX_SERVADMINS, "10")
x_devel_add      == Row("devels", "coadmin", MAX_SERVDEVELS, "10")
x_oper_add       == Row("opers", "devel", MAX_SERVOPERS, "5")
x_patrocina_add  == Row("patrocinas", "devel", MAX_SERVPATROCINAS, "")
joku_admin_add   == Row("joku_admins", "oper", MAX_SERVADMINS, "none")
joku_oper_add    == Row("joku_opers", "joku_admin", MAX_SERVADMINS, "none")
joku_canal_add   == Row("canales", "joku_oper", MAX_SERVADMINS, "none")

Adds == { do_admin_add, do_coadmin_add, do_devel_add, do_oper_add,
          do_patrocina_add, x_admin_add, x_coadmin_add, x_devel_add,
          x_oper_add, x_patrocina_add, joku_admin_add, joku_oper_add,
          joku_canal_add }

do_admin_del     == Row("admins", "root", MAX_SERVADMINS, "")
do_coadmin_del   == Row("coadmins", "admin", MAX_SERVADMINS, "")
do_devel_del     == Row("devels", "coadmin", MAX_SERVDEVELS, "")
do_oper_del      == Row("opers", "devel", MAX_SERVOPERS, "")
do_patrocina_del == Row("patrocinas", "devel", MAX_SERVPATROCINAS, "")
x_admin_del      == Row("admins", "root", MAX_SERVADMINS, "")
x_coadmin_del    == Row("coadmins", "admin", MAX_SERVADMINS, "")
x_devel_del      == Row("devels", "coadmin", MAX_SERVDEVELS, "")
x_oper_del       == Row("opers", "devel", MAX_SERVOPERS, "")
x_patrocina_del  == Row("patrocinas", "devel", MAX_SERVPATROCINAS, "")
joku_admin_del   == Row("joku_admins", "oper", MAX_SERVADMINS, "none")
joku_oper_del    == Row("joku_opers", "joku_admin", MAX_SERVOPERS, "none")
joku_canal_del   == Row("canales", "joku_oper", MAX_SERVOPERS, "none")

Dels == { do_admin_del, do_coadmin_del, do_devel_del, do_oper_del,
          do_patrocina_del, x_admin_del, x_coadmin_del, x_devel_del,
          x_oper_del, x_patrocina_del, joku_admin_del, joku_oper_del,
          joku_canal_del }

----------------------------------------------------------------------------
(* The commands.                                                           *)

(* ADD stops at the first slot that is free or holds the record, or at the *)
(* one after those it looks at.                                            *)
StopsAt(row, a, i) ==
  /\ \A j \in 1..(i - 1) : slots[row.list][j] \notin {None, a}
  /\ i = row.scan + 1 \/ slots[row.list][i] \in {None, a}

Write(n, flag) == IF flag = "none" \/ n \notin Nicks THEN UNCHANGED mark
                  ELSE mark' = [mark EXCEPT ![n] = flag]

(* When every slot is taken the code also reads the one past the array; it *)
(* then refuses with one text or another and changes nothing.              *)
Add(row, u, a) ==
  /\ row.list \in inUse
  /\ May(u, row.need)
  /\ a \in Live
  /\ IF row.list = "canales" THEN rec[a] \in Chans ELSE rec[a] \in Nicks /\ a \in bdd
  /\ \E i \in 1..(row.scan + 1) :
       /\ i \in Slots(row.list)
       /\ StopsAt(row, a, i) /\ slots[row.list][i] # a
       /\ slots' = [slots EXCEPT ![row.list][i] = a]
  /\ Write(rec[a], row.flag)
  /\ UNCHANGED <<rec, bdd, ident, saved, lost, bounds>>

(* DEL clears the first slot that holds the record, and the flags with it. *)
Del(row, u, a) ==
  /\ row.list \in inUse
  /\ May(u, row.need)
  /\ a \in Live
  /\ \E i \in 1..row.scan :
       /\ slots[row.list][i] = a
       /\ \A j \in 1..(i - 1) : slots[row.list][j] # a
       /\ slots' = [slots EXCEPT ![row.list][i] = None]
  /\ Write(rec[a], row.flag)
  /\ UNCHANGED <<rec, bdd, ident, saved, lost, bounds>>

----------------------------------------------------------------------------
(* The nicks and channels the entries stand for.                           *)

(* A record is made at an address that is free.                            *)
makenick(n, a) ==
  /\ n \in Nicks /\ findnick(n) = {} /\ rec[a] = None
  /\ rec' = [rec EXCEPT ![a] = n]
  /\ bdd' = bdd \cup {a}
  /\ UNCHANGED <<ident, slots, mark, saved, lost, bounds>>

makechan(c, a) ==
  /\ c \in Chans /\ "canales" \in inUse /\ findnick(c) = {} /\ rec[a] = None
  /\ rec' = [rec EXCEPT ![a] = c]
  /\ UNCHANGED <<bdd, ident, slots, mark, saved, lost, bounds>>

(* The user of a nick identifies, and leaves the nick.                     *)
Identify(a) ==
  /\ a \notin ident /\ rec[a] \in Nicks
  /\ ident' = ident \cup {a}
  /\ UNCHANGED <<rec, bdd, slots, mark, saved, lost, bounds>>

Leave(a) ==
  /\ a \in ident
  /\ ident' = ident \ {a}
  /\ UNCHANGED <<rec, bdd, slots, mark, saved, lost, bounds>>

(* Mutant: two of the five lists are cleared.                              *)
os_remove_nickTwo(a) ==
  slots' = [l \in Lists |-> [i \in Slots(l) |->
              IF l \in {"admins", "opers"} /\ slots[l][i] = a THEN None ELSE slots[l][i]]]

(* The record goes out of the five lists of services, of every slot; out   *)
(* of the lists of JokuServ nothing takes it, jok_remove_nick has no       *)
(* caller.                                                                 *)
os_remove_nick(a) ==
  slots' = [l \in Lists |-> [i \in Slots(l) |->
              IF l \in ServicesLists /\ slots[l][i] = a THEN None ELSE slots[l][i]]]

delnick(a) ==
  /\ rec[a] \in Nicks
  /\ os_remove_nick(a)
  /\ IF a \in bdd THEN mark' = [mark EXCEPT ![rec[a]] = ""] ELSE UNCHANGED mark
  /\ rec' = [rec EXCEPT ![a] = None]
  /\ bdd' = bdd \ {a} /\ ident' = ident \ {a}
  /\ UNCHANGED <<saved, lost, bounds>>

delchan(a) ==
  /\ rec[a] \in Chans
  /\ rec' = [rec EXCEPT ![a] = None]
  /\ UNCHANGED <<bdd, ident, slots, mark, saved, lost, bounds>>

(* Mutant: SET BDD OFF does not ask for the rank of the nick, and leaves   *)
(* its flags.                                                              *)
SetBddOffKeeps(u, a) ==
  /\ is_services_admin(u) /\ a \in bdd
  /\ bdd' = bdd \ {a}
  /\ UNCHANGED <<rec, ident, slots, mark, saved, lost, bounds>>

(* SET BDD, which is refused for a nick of the staff.                      *)
SetBddOn(u, a) ==
  /\ is_services_admin(u) /\ rec[a] \in Nicks /\ a \notin bdd
  /\ ~nick_is_services_oper(a)
  /\ bdd' = bdd \cup {a}
  /\ UNCHANGED <<rec, ident, slots, mark, saved, lost, bounds>>

SetBddOff(u, a) ==
  /\ is_services_admin(u) /\ a \in bdd
  /\ ~nick_is_services_oper(a)
  /\ bdd' = bdd \ {a}
  /\ mark' = [mark EXCEPT ![rec[a]] = ""]
  /\ UNCHANGED <<rec, ident, slots, saved, lost, bounds>>

----------------------------------------------------------------------------
(* The files.                                                              *)

(* The name that is found at an address: a record that was freed still has *)
(* its name there, or anything else.                                       *)
NameAt(a, junk) == IF a # None /\ rec[a] = None THEN junk
                   ELSE IF a = None THEN None ELSE rec[a]

(* A list is written without its holes: the i-th name of the file is that  *)
(* of the i-th slot in use.                                                *)
Upto(s, i) == Cardinality({j \in 1..i : s[j] # None})
Packed(l, junk) ==
  [i \in Slots(l) |->
     IF \E j \in Slots(l) : slots[l][j] # None /\ Upto(slots[l], j) = i
     THEN NameAt(slots[l][CHOOSE j \in Slots(l) :
                            slots[l][j] # None /\ Upto(slots[l], j) = i], junk)
     ELSE None]

(* nick.db and chan.db, then oper.db, then the file of JokuServ.           *)
save_os_dbase(k, junk) == IF k >= 2 THEN [l \in ServicesLists |-> Packed(l, junk)]
                          ELSE [l \in ServicesLists |-> saved.lists[l]]
save_jok_dbase(k, junk) == IF k >= 3 THEN [l \in JokuLists |-> Packed(l, junk)]
                           ELSE [l \in JokuLists |-> saved.lists[l]]

Files(k, junk) ==
  [rec |-> IF k >= 1 THEN rec ELSE saved.rec,
   bdd |-> IF k >= 1 THEN bdd ELSE saved.bdd,
   lists |-> [l \in Lists |-> IF l \in ServicesLists THEN save_os_dbase(k, junk)[l]
                              ELSE save_jok_dbase(k, junk)[l]]]

Save(junk) ==
  /\ rounds < MaxRounds /\ rounds' = rounds + 1
  /\ saved' = Files(3, junk)
  /\ UNCHANGED <<rec, bdd, ident, slots, mark, lost, inUse>>

(* Services end after k of the files were written, and start again: the    *)
(* names of the lists are looked up among the nicks or channels that were  *)
(* loaded before.  Addresses are as good as any others.                    *)
Found(f, n) == IF n # None /\ \E a \in Addrs : f.rec[a] = n
               THEN CHOOSE a \in Addrs : f.rec[a] = n ELSE None
KindOf(l) == IF l = "canales" THEN Chans ELSE Nicks
load_dbase(f, l) == [i \in Slots(l) |->
  IF f.lists[l][i] \in KindOf(l) THEN Found(f, f.lists[l][i]) ELSE None]

Restart(k, junk) ==
  LET f == Files(k, junk)
  IN  /\ rounds < MaxRounds /\ rounds' = rounds + 1
      /\ rec' = f.rec /\ bdd' = f.bdd /\ ident' = {}
      /\ slots' = [l \in Lists |-> load_dbase(f, l)]
      /\ saved' = f
      /\ lost' = lost \cup {n \in Nicks : mark[n] \in {"10", "5"}
                   /\ \A a \in bdd' : rec'[a] = n => ~nick_is_services_oper(a)'}
      /\ UNCHANGED <<mark, inUse>>

----------------------------------------------------------------------------
Empty == [l \in Lists |-> [i \in Slots(l) |-> None]]
Init ==
  /\ rec = [a \in Addrs |-> None] /\ bdd = {} /\ ident = {}
  /\ slots = Empty
  /\ mark = [n \in Nicks |-> ""]
  /\ saved = [rec |-> [a \in Addrs |-> None], bdd |-> {}, lists |-> Empty]
  /\ lost = {}
  /\ inUse \in Focus /\ rounds = 0

(* What may be read where a list points to memory that was freed.          *)
Junk == IF \E l \in JokuLists, a \in Addrs : Holds(l, a) /\ rec[a] = None
        THEN Names \cup {None} ELSE {None}

Next ==
  \/ \E row \in Adds, u \in ident, a \in Addrs : Add(row, u, a)
  \/ \E row \in Dels, u \in ident, a \in Addrs : Del(row, u, a)
  \/ \E n \in Nicks, a \in Addrs : makenick(n, a)
  \/ \E c \in Chans, a \in Addrs : makechan(c, a)
  \/ \E a \in Addrs : Identify(a) \/ Leave(a) \/ delnick(a) \/ delchan(a)
  \/ \E u \in ident, a \in Addrs : SetBddOn(u, a) \/ SetBddOff(u, a)
  \/ \E junk \in Junk : Save(junk)
  \/ \E k \in 0..3, junk \in Junk : Restart(k, junk)

Spec == Init /\ [][Next]_vars

----------------------------------------------------------------------------
(* Properties.                                                             *)

TypeOK ==
  /\ rec \in [Addrs -> Names \cup {None}]
  /\ \A a, b \in Addrs : rec[a] = rec[b] => a = b \/ rec[a] = None
  /\ bdd \subseteq Addrs /\ \A a \in bdd : rec[a] \in Nicks
  /\ ident \subseteq Addrs /\ \A a \in ident : rec[a] \in Nicks
  /\ DOMAIN slots = Lists
  /\ \A l \in Lists : slots[l] \in [Slots(l) -> Addrs \cup {None}]
  /\ mark \in [Nicks -> {"10", "5", ""}]
  /\ lost \subseteq Nicks

(* Nobody inherits a rank: what the five lists of services hold is         *)
(* registered, whatever was dropped, registered anew at the same address   *)
(* and loaded from older files.                                            *)
StaffRegistered ==
  \A l \in ServicesLists : \A i \in Slots(l) :
    slots[l][i] # None => rec[slots[l][i]] \in Nicks

(* The flags of table o, which make an operator of the network, are those  *)
(* of a nick that stands in a list, unless a restart from older files lost *)
(* its entry.                                                              *)
FlagsOfStaff ==
  \A n \in Nicks \ lost : mark[n] \in {"10", "5"} =>
    \E a \in bdd : rec[a] = n /\ nick_is_services_oper(a)

Rank(a) == IF Holds("admins", a) THEN 4
           ELSE IF Holds("coadmins", a) THEN 3
           ELSE IF Holds("devels", a) THEN 2
           ELSE IF Holds("opers", a) THEN 1 ELSE 0
Authority(u) == IF is_services_root(u) THEN 5 ELSE Rank(u)

(* Unless services restart, a nick rises in rank only by somebody whose    *)
(* rank is above the one it gets; never by a drop and a registration.      *)
RankFromAbove ==
  [][\A a \in Addrs : Rank(a)' > Rank(a) =>
       \/ \E u \in ident : Authority(u) > Rank(a)'
       \/ \E k \in 0..3, junk \in Junk : Restart(k, junk)]_vars

=============================================================================
