---------------------------- MODULE Staff_proofs ----------------------------
(***************************************************************************)
(* Who is staff, for any nicks, channels, addresses and sizes of the lists *)
(* and any order of commands, drops, registrations, saves and restarts.    *)
(***************************************************************************)
EXTENDS Staff, TLAPS

Distinct(r) == /\ r \in [Addrs -> Names \cup {None}]
               /\ \A a, b \in Addrs : r[a] = r[b] => a = b \/ r[a] = None

(* What the files hold can be loaded.                                      *)
SavedOK ==
  /\ Distinct(saved.rec)
  /\ saved.bdd \subseteq Addrs /\ \A a \in saved.bdd : saved.rec[a] \in Nicks

StaffInv == TypeOK /\ StaffRegistered /\ FlagsOfStaff /\ SavedOK
-----------------------------------------------------------------------------
LEMMA InitStaffInv == Init => StaffInv
<1> SUFFICES ASSUME Init PROVE StaffInv
  OBVIOUS
<1>1. \A l \in Lists : slots[l] = [i \in Slots(l) |-> None]
  BY DEF Init, Empty
<1>2. TypeOK
  <2>1. DOMAIN slots = Lists /\ \A l \in Lists : slots[l] \in [Slots(l) -> Addrs \cup {None}]
    BY <1>1 DEF Init, Empty
  <2> QED BY <2>1 DEF Init, TypeOK
<1>3. StaffRegistered
  BY <1>1 DEF StaffRegistered, Lists
<1>4. FlagsOfStaff
  BY DEF Init, FlagsOfStaff
<1>5. SavedOK
  <2>1. saved.rec = [a \in Addrs |-> None] /\ saved.bdd = {}
    BY DEF Init
  <2> QED BY <2>1 DEF SavedOK, Distinct
<1> QED BY <1>2, <1>3, <1>4, <1>5 DEF StaffInv

-----------------------------------------------------------------------------
(* The rows of the functions.                                              *)

LEMMA AddRows ==
  ASSUME NEW row \in Adds
  PROVE  /\ row.list \in Lists
         /\ row.scan \in Nat
         /\ row.list \in ServicesLists => row.scan = Size(row.list) /\ row.flag \in {"10", "5", ""}
         /\ row.list = "patrocinas" => row.flag = ""
         /\ row.list \in JokuLists => row.flag = "none"
         /\ row.list = "admins"   => row.need = "root"
         /\ row.list = "coadmins" => row.need = "admin"
         /\ row.list = "devels"   => row.need = "coadmin"
         /\ row.list = "opers"    => row.need = "devel"
<1>1. \/ row = Row("admins", "root", MAX_SERVADMINS, "10") 
      \/ row = Row("coadmins", "admin", MAX_SERVADMINS, "10") 
      \/ row = Row("devels", "coadmin", MAX_SERVDEVELS, "10") 
      \/ row = Row("opers", "devel", MAX_SERVOPERS, "5") 
      \/ row = Row("patrocinas", "devel", MAX_SERVPATROCINAS, "") 
      \/ row = Row("joku_admins", "oper", MAX_SERVADMINS, "none") 
      \/ row = Row("joku_opers", "joku_admin", MAX_SERVADMINS, "none") 
      \/ row = Row("canales", "joku_oper", MAX_SERVADMINS, "none")
  BY DEF Adds, do_admin_add, do_coadmin_add, do_devel_add, do_oper_add, do_patrocina_add, x_admin_add, x_coadmin_add,
         x_devel_add, x_oper_add, x_patrocina_add, joku_admin_add, joku_oper_add, joku_canal_add
<1>2. CASE row = Row("admins", "root", MAX_SERVADMINS, "10")
  BY <1>2, SizeAssumption DEF Row, Lists, ServicesLists, JokuLists, Size
<1>3. CASE row = Row("coadmins", "admin", MAX_SERVADMINS, "10")
  BY <1>3, SizeAssumption DEF Row, Lists, ServicesLists, JokuLists, Size
<1>4. CASE row = Row("devels", "coadmin", MAX_SERVDEVELS, "10")
  BY <1>4, SizeAssumption DEF Row, Lists, ServicesLists, JokuLists, Size
<1>5. CASE row = Row("opers", "devel", MAX_SERVOPERS, "5")
  BY <1>5, SizeAssumption DEF Row, Lists, ServicesLists, JokuLists, Size
<1>6. CASE row = Row("patrocinas", "devel", MAX_SERVPATROCINAS, "")
  BY <1>6, SizeAssumption DEF Row, Lists, ServicesLists, JokuLists, Size
<1>7. CASE row = Row("joku_admins", "oper", MAX_SERVADMINS, "none")
  BY <1>7, SizeAssumption DEF Row, Lists, ServicesLists, JokuLists, Size
<1>8. CASE row = Row("joku_opers", "joku_admin", MAX_SERVADMINS, "none")
  BY <1>8, SizeAssumption DEF Row, Lists, ServicesLists, JokuLists, Size
<1>9. CASE row = Row("canales", "joku_oper", MAX_SERVADMINS, "none")
  BY <1>9, SizeAssumption DEF Row, Lists, ServicesLists, JokuLists, Size
<1> QED BY <1>1, <1>2, <1>3, <1>4, <1>5, <1>6, <1>7, <1>8, <1>9

LEMMA DelRows ==
  ASSUME NEW row \in Dels
  PROVE  /\ row.list \in Lists
         /\ row.scan = Size(row.list)
         /\ row.list \in ServicesLists => row.flag = ""
         /\ row.list \in JokuLists => row.flag = "none"
<1>1. \/ row = Row("admins", "root", MAX_SERVADMINS, "") 
      \/ row = Row("coadmins", "admin", MAX_SERVADMINS, "") 
      \/ row = Row("devels", "coadmin", MAX_SERVDEVELS, "") 
      \/ row = Row("opers", "devel", MAX_SERVOPERS, "") 
      \/ row = Row("patrocinas", "devel", MAX_SERVPATROCINAS, "") 
      \/ row = Row("joku_admins", "oper", MAX_SERVADMINS, "none") 
      \/ row = Row("joku_opers", "joku_admin", MAX_SERVOPERS, "none") 
      \/ row = Row("canales", "joku_oper", MAX_SERVOPERS, "none")
  BY DEF Dels, do_admin_del, do_coadmin_del, do_devel_del, do_oper_del, do_patrocina_del, x_admin_del, x_coadmin_del,
         x_devel_del, x_oper_del, x_patrocina_del, joku_admin_del, joku_oper_del, joku_canal_del
<1>2. CASE row = Row("admins", "root", MAX_SERVADMINS, "")
  BY <1>2, SizeAssumption DEF Row, Lists, ServicesLists, JokuLists, Size
<1>3. CASE row = Row("coadmins", "admin", MAX_SERVADMINS, "")
  BY <1>3, SizeAssumption DEF Row, Lists, ServicesLists, JokuLists, Size
<1>4. CASE row = Row("devels", "coadmin", MAX_SERVDEVELS, "")
  BY <1>4, SizeAssumption DEF Row, Lists, ServicesLists, JokuLists, Size
<1>5. CASE row = Row("opers", "devel", MAX_SERVOPERS, "")
  BY <1>5, SizeAssumption DEF Row, Lists, ServicesLists, JokuLists, Size
<1>6. CASE row = Row("patrocinas", "devel", MAX_SERVPATROCINAS, "")
  BY <1>6, SizeAssumption DEF Row, Lists, ServicesLists, JokuLists, Size
<1>7. CASE row = Row("joku_admins", "oper", MAX_SERVADMINS, "none")
  BY <1>7, SizeAssumption DEF Row, Lists, ServicesLists, JokuLists, Size
<1>8. CASE row = Row("joku_opers", "joku_admin", MAX_SERVOPERS, "none")
  BY <1>8, SizeAssumption DEF Row, Lists, ServicesLists, JokuLists, Size
<1>9. CASE row = Row("canales", "joku_oper", MAX_SERVOPERS, "none")
  BY <1>9, SizeAssumption DEF Row, Lists, ServicesLists, JokuLists, Size
<1> QED BY <1>1, <1>2, <1>3, <1>4, <1>5, <1>6, <1>7, <1>8, <1>9

LEMMA Kinds == /\ ServicesLists \subseteq Lists /\ JokuLists \subseteq Lists
               /\ ServicesLists \cap JokuLists = {}
               /\ {"admins", "coadmins", "devels", "opers", "patrocinas"} = ServicesLists
BY DEF Lists, ServicesLists, JokuLists

LEMMA Sizes == \A l \in Lists : Size(l) \in Nat
BY SizeAssumption DEF Size, Lists, ServicesLists, JokuLists

(* One slot is written: the others, and the other lists, keep what they    *)
(* hold.                                                                   *)
LEMMA OneSlot ==
  ASSUME TypeOK, NEW l \in Lists, NEW i \in Slots(l), NEW x \in Addrs \cup {None},
         slots' = [slots EXCEPT ![l][i] = x]
  PROVE  /\ DOMAIN slots' = Lists
         /\ \A m \in Lists : slots'[m] \in [Slots(m) -> Addrs \cup {None}]
         /\ slots'[l][i] = x
         /\ \A m \in Lists : \A j \in Slots(m) : m # l \/ j # i => slots'[m][j] = slots[m][j]
<1>1. slots' = [slots EXCEPT ![l] = [slots[l] EXCEPT ![i] = x]]
  OBVIOUS
<1>2. DOMAIN slots = Lists /\ slots[l] \in [Slots(l) -> Addrs \cup {None}]
  BY DEF TypeOK
<1>3. /\ DOMAIN slots' = Lists /\ slots'[l] = [slots[l] EXCEPT ![i] = x]
      /\ \A m \in Lists \ {l} : slots'[m] = slots[m]
  BY <1>1, <1>2
<1>4. /\ slots'[l] \in [Slots(l) -> Addrs \cup {None}] /\ slots'[l][i] = x
      /\ \A j \in Slots(l) \ {i} : slots'[l][j] = slots[l][j]
  BY <1>2, <1>3
<1> QED BY <1>3, <1>4 DEF TypeOK

-----------------------------------------------------------------------------
(* ADD: a list of services never writes over an entry.                     *)
LEMMA AddEffect ==
  ASSUME TypeOK, NEW row \in Adds, NEW u, NEW a \in Addrs, Add(row, u, a)
  PROVE  /\ DOMAIN slots' = Lists
         /\ \A m \in Lists : slots'[m] \in [Slots(m) -> Addrs \cup {None}]
         /\ \A m \in Lists \ {row.list} : \A j \in Slots(m) : slots'[m][j] = slots[m][j]
         /\ \A j \in Slots(row.list) : slots'[row.list][j] \in {slots[row.list][j], a}
         /\ row.list \in ServicesLists =>
              \A j \in Slots(row.list) : slots[row.list][j] # None => slots'[row.list][j] = slots[row.list][j]
         /\ \E j \in Slots(row.list) : slots'[row.list][j] = a
<1>0. row.list \in Lists
  BY AddRows
<1>1. PICK i \in 1..(row.scan + 1) :
        /\ StopsAt(row, a, i)
        /\ i \in Slots(row.list) /\ slots[row.list][i] # a
        /\ slots' = [slots EXCEPT ![row.list][i] = a]
  BY DEF Add
<1>2. /\ DOMAIN slots' = Lists
      /\ \A m \in Lists : slots'[m] \in [Slots(m) -> Addrs \cup {None}]
      /\ slots'[row.list][i] = a
      /\ \A m \in Lists : \A j \in Slots(m) :
           m # row.list \/ j # i => slots'[m][j] = slots[m][j]
  BY ZenonT(30), <1>0, <1>1, OneSlot
<1>3. row.list \in ServicesLists => slots[row.list][i] = None
  <2>1. ASSUME row.list \in ServicesLists PROVE i # row.scan + 1
    <3>1. row.scan = Size(row.list) /\ row.scan \in Nat
      BY <2>1, AddRows
    <3> QED BY <3>1, <1>1 DEF Slots
  <2> QED BY <2>1, <1>1 DEF StopsAt
<1> QED BY <1>0, <1>1, <1>2, <1>3

LEMMA DelEffect ==
  ASSUME TypeOK, NEW row \in Dels, NEW u, NEW a \in Addrs, Del(row, u, a)
  PROVE  /\ DOMAIN slots' = Lists
         /\ \A m \in Lists : slots'[m] \in [Slots(m) -> Addrs \cup {None}]
         /\ \A m \in Lists \ {row.list} : \A j \in Slots(m) : slots'[m][j] = slots[m][j]
         /\ \A j \in Slots(row.list) :
              \/ slots'[row.list][j] = slots[row.list][j]
              \/ slots[row.list][j] = a /\ slots'[row.list][j] = None
<1>0. row.list \in Lists /\ row.scan = Size(row.list)
  BY DelRows
<1>1. PICK i \in 1..row.scan :
        /\ slots[row.list][i] = a
        /\ slots' = [slots EXCEPT ![row.list][i] = None]
  BY DEF Del
<1>2. i \in Slots(row.list)
  BY <1>0, <1>1 DEF Slots
<1>3. /\ DOMAIN slots' = Lists
      /\ \A m \in Lists : slots'[m] \in [Slots(m) -> Addrs \cup {None}]
      /\ slots'[row.list][i] = None
      /\ \A m \in Lists : \A j \in Slots(m) :
           m # row.list \/ j # i => slots'[m][j] = slots[m][j]
  BY ZenonT(30), <1>0, <1>1, <1>2, OneSlot
<1> QED BY <1>0, <1>1, <1>2, <1>3

LEMMA DropEffect ==
  ASSUME TypeOK, NEW a \in Addrs, os_remove_nick(a)
  PROVE  /\ DOMAIN slots' = Lists
         /\ \A m \in Lists : slots'[m] \in [Slots(m) -> Addrs \cup {None}]
         /\ \A m \in ServicesLists : \A j \in Slots(m) :
              slots'[m][j] = IF slots[m][j] = a THEN None ELSE slots[m][j]
<1>1. DOMAIN slots' = Lists
  BY DEF os_remove_nick
<1>2. ASSUME NEW m \in Lists
      PROVE  slots'[m] = [i \in Slots(m) |->
               IF m \in ServicesLists /\ slots[m][i] = a THEN None ELSE slots[m][i]]
  BY DEF os_remove_nick
<1>3. ASSUME NEW m \in Lists PROVE slots'[m] \in [Slots(m) -> Addrs \cup {None}]
  <2> DEFINE x(i) == IF m \in ServicesLists /\ slots[m][i] = a THEN None ELSE slots[m][i]
  <2>1. slots[m] \in [Slots(m) -> Addrs \cup {None}]
    BY DEF TypeOK
  <2>2. ASSUME NEW i \in Slots(m) PROVE x(i) \in Addrs \cup {None}
    BY <2>1
  <2>3. slots'[m] = [i \in Slots(m) |-> x(i)]
    BY <1>2
  <2> QED BY <2>2, <2>3
<1>4. ASSUME NEW m \in ServicesLists, NEW j \in Slots(m)
      PROVE  slots'[m][j] = IF slots[m][j] = a THEN None ELSE slots[m][j]
  <2>1. m \in Lists
    BY Kinds
  <2>2. slots'[m] = [i \in Slots(m) |->
               IF m \in ServicesLists /\ slots[m][i] = a THEN None ELSE slots[m][i]]
    BY <1>2, <2>1
  <2> QED BY <2>2
<1> QED BY <1>1, <1>3, <1>4

(* A loaded list holds records of the nicks that were loaded.              *)
LEMMA LoadEffect ==
  ASSUME NEW f, NEW l \in Lists, NEW i \in Slots(l)
  PROVE  /\ load_dbase(f, l)[i] \in Addrs \cup {None}
         /\ l # "canales" /\ load_dbase(f, l)[i] # None => f.rec[load_dbase(f, l)[i]] \in Nicks
<1> DEFINE n == f.lists[l][i]
<1>1. load_dbase(f, l)[i] = IF n \in KindOf(l) THEN Found(f, n) ELSE None
  BY DEF load_dbase
<1>2. Found(f, n) = None \/ (Found(f, n) \in Addrs /\ f.rec[Found(f, n)] = n)
  BY DEF Found
<1> QED BY <1>1, <1>2 DEF KindOf

LEMMA FilesOK ==
  ASSUME TypeOK, SavedOK, NEW k \in 0..3, NEW junk
  PROVE  /\ Distinct(Files(k, junk).rec)
         /\ Files(k, junk).bdd \subseteq Addrs
         /\ \A a \in Files(k, junk).bdd : Files(k, junk).rec[a] \in Nicks
<1>1. /\ Files(k, junk).rec = IF k >= 1 THEN rec ELSE saved.rec
      /\ Files(k, junk).bdd = IF k >= 1 THEN bdd ELSE saved.bdd
  BY DEF Files
<1>2. Distinct(rec)
  BY DEF TypeOK, Distinct
<1>3. CASE k >= 1
  BY <1>1, <1>2, <1>3 DEF TypeOK
<1>4. CASE ~(k >= 1)
  BY <1>1, <1>4 DEF SavedOK
<1> QED BY <1>3, <1>4

-----------------------------------------------------------------------------
(* A flagged nick keeps its place in a list if what the step touches is    *)
(* not that nick.                                                          *)
OperLists == {"admins", "coadmins", "devels", "opers"}

LEMMA OperIn ==
  \A a : nick_is_services_oper(a) <=> \E l \in OperLists : Holds(l, a)
BY DEF nick_is_services_oper, nick_is_services_devel, nick_is_services_cregadmin,
       nick_is_services_admin, OperLists

LEMMA OperInNext ==
  \A a : nick_is_services_oper(a)' <=> \E l \in OperLists : \E i \in Slots(l) : slots'[l][i] = a
BY DEF nick_is_services_oper, nick_is_services_devel, nick_is_services_cregadmin,
       nick_is_services_admin, OperLists, Holds

LEMMA FlagsKept ==
  ASSUME FlagsOfStaff, lost' = lost,
         \A n \in Nicks \ lost : mark'[n] \in {"10", "5"} => mark[n] \in {"10", "5"},
         \A b \in bdd : mark'[rec[b]] \in {"10", "5"} =>
            /\ b \in bdd' /\ rec'[b] = rec[b]
            /\ nick_is_services_oper(b) => nick_is_services_oper(b)'
  PROVE  FlagsOfStaff'
<1> SUFFICES ASSUME NEW n \in Nicks \ lost, mark'[n] \in {"10", "5"}
             PROVE  \E b \in bdd' : rec'[b] = n /\ nick_is_services_oper(b)'
  BY DEF FlagsOfStaff
<1>1. PICK b \in bdd : rec[b] = n /\ nick_is_services_oper(b)
  BY DEF FlagsOfStaff
<1> QED BY <1>1

(* What every action but those of the commands and restarts leaves.        *)
LEMMA AddInv ==
  ASSUME StaffInv, NEW row \in Adds, NEW u \in ident, NEW a \in Addrs, Add(row, u, a)
  PROVE  StaffInv'
<1> USE DEF StaffInv
<1>0. /\ row.list \in Lists /\ rec' = rec /\ bdd' = bdd /\ ident' = ident
      /\ saved' = saved /\ lost' = lost
      /\ row.list # "canales" => rec[a] \in Nicks /\ a \in bdd
  BY AddRows DEF Add, bounds
<1>1. mark' = IF row.flag = "none" \/ rec[a] \notin Nicks THEN mark
              ELSE [mark EXCEPT ![rec[a]] = row.flag]
  BY DEF Add, Write
<1>2. row.list \in ServicesLists => row.flag \in {"10", "5", ""} /\ rec[a] \in Nicks /\ a \in bdd
  BY <1>0, AddRows DEF ServicesLists
<1>3. row.list \notin ServicesLists => mark' = mark
  BY <1>0, <1>1, AddRows DEF Lists
<1>4. TypeOK'
  <2>1. mark' \in [Nicks -> {"10", "5", ""}]
    BY <1>1, <1>2, <1>3 DEF TypeOK
  <2>2. DOMAIN slots' = Lists /\ \A m \in Lists : slots'[m] \in [Slots(m) -> Addrs \cup {None}]
    BY AddEffect
  <2> QED BY <1>0, <2>1, <2>2 DEF TypeOK
<1>5. StaffRegistered'
  <2> SUFFICES ASSUME NEW l \in ServicesLists, NEW i \in Slots(l), slots'[l][i] # None
               PROVE  rec[slots'[l][i]] \in Nicks
    BY <1>0 DEF StaffRegistered
  <2>1. CASE l = row.list
    <3>1. slots'[l][i] \in {slots[l][i], a}
      BY <2>1, AddEffect
    <3> QED BY <3>1, <1>2, <2>1 DEF StaffRegistered
  <2>2. CASE l # row.list
    <3>1. slots'[l][i] = slots[l][i]
      BY <2>2, AddEffect, Kinds
    <3> QED BY <3>1 DEF StaffRegistered
  <2> QED BY <2>1, <2>2
<1>6. ASSUME NEW b \in Addrs, nick_is_services_oper(b) PROVE nick_is_services_oper(b)'
  <2>1. PICK l \in OperLists : \E i \in Slots(l) : slots[l][i] = b
    BY <1>6, OperIn DEF Holds
  <2>2. PICK i \in Slots(l) : slots[l][i] = b
    BY <2>1
  <2>3. l \in ServicesLists /\ l \in Lists
    BY DEF OperLists, ServicesLists, Lists
  <2>4. CASE l # row.list
    <3>1. slots'[l][i] = b
      BY <2>2, <2>3, <2>4, AddEffect
    <3> QED BY <3>1, OperInNext
  <2>5. CASE l = row.list
    <3>1. slots'[l][i] = b
      BY <2>2, <2>3, <2>5, AddEffect, NoneAssumption
    <3> QED BY <3>1, OperInNext
  <2> QED BY <2>4, <2>5
<1>7. FlagsOfStaff'
  <2> SUFFICES ASSUME NEW n \in Nicks \ lost, mark'[n] \in {"10", "5"}
               PROVE  \E b \in bdd : rec[b] = n /\ nick_is_services_oper(b)'
    BY <1>0 DEF FlagsOfStaff
  <2>1. CASE mark'[n] = mark[n]
    <3>1. PICK b \in bdd : rec[b] = n /\ nick_is_services_oper(b)
      BY <2>1 DEF FlagsOfStaff
    <3> QED BY <3>1, <1>6 DEF TypeOK
  <2>2. CASE mark'[n] # mark[n]
    <3>1. row.list \in ServicesLists /\ n = rec[a] /\ mark'[n] = row.flag /\ a \in bdd
      BY <2>2, <1>1, <1>2, <1>3 DEF TypeOK
    <3>2. row.list \in OperLists
      BY <3>1, AddRows DEF ServicesLists, OperLists
    <3>3. nick_is_services_oper(a)'
      BY <3>2, AddEffect, OperInNext
    <3> QED BY <3>1, <3>3
  <2> QED BY <2>1, <2>2
<1>8. SavedOK'
  BY <1>0 DEF SavedOK, Distinct
<1> QED BY <1>4, <1>5, <1>7, <1>8

LEMMA DelInv ==
  ASSUME StaffInv, NEW row \in Dels, NEW u \in ident, NEW a \in Addrs, Del(row, u, a)
  PROVE  StaffInv'
<1> USE DEF StaffInv
<1>0. /\ row.list \in Lists /\ rec' = rec /\ bdd' = bdd /\ ident' = ident
      /\ saved' = saved /\ lost' = lost
  BY DelRows DEF Del, bounds
<1>1. mark' = IF row.flag = "none" \/ rec[a] \notin Nicks THEN mark
              ELSE [mark EXCEPT ![rec[a]] = row.flag]
  BY DEF Del, Write
<1>2. mark' = mark \/ (rec[a] \in Nicks /\ mark' = [mark EXCEPT ![rec[a]] = ""])
  BY <1>0, <1>1, DelRows DEF Lists
<1>3. row.list \in ServicesLists /\ rec[a] \in Nicks => mark'[rec[a]] = ""
  <2>1. row.list \in ServicesLists => row.flag = ""
    BY DelRows
  <2> QED BY <2>1, <1>1 DEF TypeOK
<1>4. TypeOK'
  <2>1. mark' \in [Nicks -> {"10", "5", ""}]
    BY <1>2 DEF TypeOK
  <2>2. DOMAIN slots' = Lists /\ \A m \in Lists : slots'[m] \in [Slots(m) -> Addrs \cup {None}]
    BY DelEffect
  <2> QED BY <1>0, <2>1, <2>2 DEF TypeOK
<1>5. \A l \in Lists : \A i \in Slots(l) :
        slots'[l][i] = slots[l][i] \/ (l = row.list /\ slots[l][i] = a /\ slots'[l][i] = None)
  BY DelEffect
<1>6. StaffRegistered'
  <2> SUFFICES ASSUME NEW l \in ServicesLists, NEW i \in Slots(l), slots'[l][i] # None
               PROVE  rec[slots'[l][i]] \in Nicks
    BY <1>0 DEF StaffRegistered
  <2>1. slots'[l][i] = slots[l][i]
    BY <1>5, Kinds
  <2> QED BY <2>1 DEF StaffRegistered
<1>7. ASSUME NEW b \in bdd, mark'[rec[b]] \in {"10", "5"}, nick_is_services_oper(b)
      PROVE  nick_is_services_oper(b)'
  <2>1. PICK l \in OperLists : \E i \in Slots(l) : slots[l][i] = b
    BY <1>7, OperIn DEF Holds
  <2>2. PICK i \in Slots(l) : slots[l][i] = b
    BY <2>1
  <2>3. l \in ServicesLists /\ l \in Lists
    BY DEF OperLists, ServicesLists, Lists
  <2>4. slots'[l][i] = b
    <3>1. rec[b] \in Nicks
      BY DEF TypeOK
    <3>2. ~(l = row.list /\ b = a)
      BY <1>3, <1>7, <2>3, <3>1
    <3> QED BY <3>2, <2>2, <2>3, <1>5
  <2> QED BY <2>4, OperInNext
<1>8. FlagsOfStaff'
  <2>1. \A n \in Nicks \ lost : mark'[n] \in {"10", "5"} => mark[n] \in {"10", "5"}
    BY <1>2 DEF TypeOK
  <2> QED BY <1>0, <1>7, <2>1, FlagsKept
<1>9. SavedOK'
  BY <1>0 DEF SavedOK, Distinct
<1> QED BY <1>4, <1>6, <1>8, <1>9

LEMMA MakeInv ==
  ASSUME StaffInv, NEW n \in Names, NEW a \in Addrs, makenick(n, a) \/ makechan(n, a)
  PROVE  StaffInv'
<1> USE DEF StaffInv
<1>0. /\ rec[a] = None /\ findnick(n) = {} /\ rec' = [rec EXCEPT ![a] = n]
      /\ bdd' = bdd \/ (n \in Nicks /\ bdd' = bdd \cup {a})
      /\ ident' = ident /\ slots' = slots /\ mark' = mark /\ saved' = saved /\ lost' = lost
  BY DEF makenick, makechan, bounds
<1>1. /\ rec' \in [Addrs -> Names \cup {None}] /\ rec'[a] = n
      /\ \A b \in Addrs \ {a} : rec'[b] = rec[b]
  BY <1>0 DEF TypeOK
<1>2. \A b \in Addrs : rec[b] \in Nicks => b # a /\ rec'[b] = rec[b]
  BY <1>0, <1>1, NoneAssumption
<1>3. TypeOK'
  <2>1. \A b, c \in Addrs : rec'[b] = rec'[c] => b = c \/ rec'[b] = None
    <3>1. \A b \in Addrs : rec[b] # n
      BY <1>0 DEF findnick
    <3> QED BY <1>1, <3>1 DEF TypeOK
  <2>2. bdd' \subseteq Addrs /\ \A b \in bdd' : rec'[b] \in Nicks
    BY <1>0, <1>1, <1>2 DEF TypeOK
  <2>3. ident' \subseteq Addrs /\ \A b \in ident' : rec'[b] \in Nicks
    BY <1>0, <1>2 DEF TypeOK
  <2> QED BY <1>0, <1>1, <2>1, <2>2, <2>3 DEF TypeOK
<1>4. StaffRegistered'
  <2> SUFFICES ASSUME NEW l \in ServicesLists, NEW i \in Slots(l), slots[l][i] # None
               PROVE  rec'[slots[l][i]] \in Nicks
    BY <1>0 DEF StaffRegistered
  <2>1. slots[l][i] \in Addrs /\ rec[slots[l][i]] \in Nicks
    <3>1. l \in Lists
      BY Kinds
    <3>2. slots[l] \in [Slots(l) -> Addrs \cup {None}]
      BY <3>1 DEF TypeOK
    <3> QED BY <3>2 DEF StaffRegistered
  <2> QED BY <2>1, <1>2
<1>5. \A b : nick_is_services_oper(b) => nick_is_services_oper(b)'
  BY <1>0, OperIn, OperInNext DEF Holds
<1>6. \A b \in bdd : b \in bdd' /\ rec'[b] = rec[b]
  BY <1>0, <1>2 DEF TypeOK
<1>7. FlagsOfStaff'
  BY <1>0, <1>5, <1>6, FlagsKept
<1>8. SavedOK'
  BY <1>0 DEF SavedOK, Distinct
<1> QED BY <1>3, <1>4, <1>7, <1>8

LEMMA SessionInv ==
  ASSUME StaffInv, NEW a \in Addrs, Identify(a) \/ Leave(a)
  PROVE  StaffInv'
<1> USE DEF StaffInv
<1>0. /\ ident' \subseteq ident \cup {a} /\ (a \in ident' => rec[a] \in Nicks)
      /\ rec' = rec /\ bdd' = bdd /\ slots' = slots /\ mark' = mark /\ saved' = saved /\ lost' = lost
  BY DEF Identify, Leave, bounds, TypeOK
<1>1. TypeOK'
  BY <1>0 DEF TypeOK
<1>2. StaffRegistered'
  BY <1>0 DEF StaffRegistered
<1>3. \A b : nick_is_services_oper(b) => nick_is_services_oper(b)'
  BY <1>0, OperIn, OperInNext DEF Holds
<1>4. FlagsOfStaff'
  BY <1>0, <1>3, FlagsKept
<1>5. SavedOK'
  BY <1>0 DEF SavedOK, Distinct
<1> QED BY <1>1, <1>2, <1>4, <1>5

LEMMA DropInv ==
  ASSUME StaffInv, NEW a \in Addrs, delnick(a)
  PROVE  StaffInv'
<1> USE DEF StaffInv
<1>0. /\ rec[a] \in Nicks /\ rec' = [rec EXCEPT ![a] = None]
      /\ mark' = IF a \in bdd THEN [mark EXCEPT ![rec[a]] = ""] ELSE mark
      /\ bdd' = bdd \ {a} /\ ident' = ident \ {a} /\ saved' = saved /\ lost' = lost
  BY DEF delnick, bounds
<1>1. /\ rec' \in [Addrs -> Names \cup {None}] /\ rec'[a] = None
      /\ \A b \in Addrs \ {a} : rec'[b] = rec[b]
  BY <1>0 DEF TypeOK
<1>2. /\ DOMAIN slots' = Lists
      /\ \A m \in Lists : slots'[m] \in [Slots(m) -> Addrs \cup {None}]
      /\ \A m \in ServicesLists : \A j \in Slots(m) :
           slots'[m][j] = IF slots[m][j] = a THEN None ELSE slots[m][j]
  BY DropEffect DEF delnick
<1>3. TypeOK'
  <2>1. \A b, c \in Addrs : rec'[b] = rec'[c] => b = c \/ rec'[b] = None
    BY <1>1 DEF TypeOK
  <2>2. mark' \in [Nicks -> {"10", "5", ""}]
    BY <1>0 DEF TypeOK
  <2>3. bdd' \subseteq Addrs /\ \A b \in bdd' : rec'[b] \in Nicks
    BY <1>0, <1>1 DEF TypeOK
  <2>4. ident' \subseteq Addrs /\ \A b \in ident' : rec'[b] \in Nicks
    BY <1>0, <1>1 DEF TypeOK
  <2> QED BY <1>0, <1>1, <1>2, <2>1, <2>2, <2>3, <2>4 DEF TypeOK
<1>4. StaffRegistered'
  <2> SUFFICES ASSUME NEW l \in ServicesLists, NEW i \in Slots(l), slots'[l][i] # None
               PROVE  rec'[slots'[l][i]] \in Nicks
    BY DEF StaffRegistered
  <2>1. slots'[l][i] = slots[l][i] /\ slots[l][i] # a
    BY <1>2
  <2>2. slots[l][i] \in Addrs /\ rec[slots[l][i]] \in Nicks
    BY <2>1, Kinds DEF StaffRegistered, TypeOK
  <2> QED BY <2>1, <2>2, <1>1
<1>5. ASSUME NEW b \in bdd, mark'[rec[b]] \in {"10", "5"} PROVE b # a
  BY <1>0, <1>5 DEF TypeOK
<1>6. ASSUME NEW b \in Addrs \ {a}, nick_is_services_oper(b) PROVE nick_is_services_oper(b)'
  <2>1. PICK l \in OperLists : \E i \in Slots(l) : slots[l][i] = b
    BY <1>6, OperIn DEF Holds
  <2>2. PICK i \in Slots(l) : slots[l][i] = b
    BY <2>1
  <2>3. l \in ServicesLists
    BY DEF OperLists, ServicesLists
  <2>4. slots'[l][i] = b
    BY <1>2, <2>2, <2>3
  <2> QED BY <2>4, OperInNext
<1>7. FlagsOfStaff'
  <2>1. \A n \in Nicks \ lost : mark'[n] \in {"10", "5"} => mark[n] \in {"10", "5"}
    BY <1>0 DEF TypeOK
  <2>2. ASSUME NEW b \in bdd, mark'[rec[b]] \in {"10", "5"}
        PROVE  /\ b \in bdd' /\ rec'[b] = rec[b]
               /\ nick_is_services_oper(b) => nick_is_services_oper(b)'
    BY <1>0, <1>1, <1>5, <1>6, <2>2 DEF TypeOK
  <2> QED BY <1>0, <2>1, <2>2, FlagsKept
<1>8. SavedOK'
  BY <1>0 DEF SavedOK, Distinct
<1> QED BY <1>3, <1>4, <1>7, <1>8

LEMMA DelchanInv ==
  ASSUME StaffInv, NEW a \in Addrs, delchan(a)
  PROVE  StaffInv'
<1> USE DEF StaffInv
<1>0. /\ rec[a] \in Chans /\ rec' = [rec EXCEPT ![a] = None]
      /\ bdd' = bdd /\ ident' = ident /\ slots' = slots /\ mark' = mark /\ saved' = saved /\ lost' = lost
  BY DEF delchan, bounds
<1>1. /\ rec' \in [Addrs -> Names \cup {None}] /\ rec'[a] = None
      /\ \A b \in Addrs \ {a} : rec'[b] = rec[b]
  BY <1>0 DEF TypeOK
<1>2. \A b \in Addrs : rec[b] \in Nicks => rec'[b] = rec[b]
  BY <1>0, <1>1, KindsAssumption
<1>3. TypeOK'
  <2>1. \A b, c \in Addrs : rec'[b] = rec'[c] => b = c \/ rec'[b] = None
    BY <1>1 DEF TypeOK
  <2> QED BY <1>0, <1>1, <1>2, <2>1 DEF TypeOK
<1>4. StaffRegistered'
  <2> SUFFICES ASSUME NEW l \in ServicesLists, NEW i \in Slots(l), slots[l][i] # None
               PROVE  rec'[slots[l][i]] \in Nicks
    BY <1>0 DEF StaffRegistered
  <2>1. slots[l][i] \in Addrs /\ rec[slots[l][i]] \in Nicks
    <3>1. l \in Lists
      BY Kinds
    <3>2. slots[l] \in [Slots(l) -> Addrs \cup {None}]
      BY <3>1 DEF TypeOK
    <3> QED BY <3>2 DEF StaffRegistered
  <2> QED BY <2>1, <1>2
<1>5. \A b : nick_is_services_oper(b) => nick_is_services_oper(b)'
  BY <1>0, OperIn, OperInNext DEF Holds
<1>6. \A b \in bdd : b \in bdd' /\ rec'[b] = rec[b]
  BY <1>0, <1>2 DEF TypeOK
<1>7. FlagsOfStaff'
  BY <1>0, <1>5, <1>6, FlagsKept
<1>8. SavedOK'
  BY <1>0 DEF SavedOK, Distinct
<1> QED BY <1>3, <1>4, <1>7, <1>8

LEMMA BddInv ==
  ASSUME StaffInv, NEW u \in ident, NEW a \in Addrs, SetBddOn(u, a) \/ SetBddOff(u, a)
  PROVE  StaffInv'
<1> USE DEF StaffInv
<1>0. /\ rec' = rec /\ ident' = ident /\ slots' = slots /\ saved' = saved /\ lost' = lost
      /\ rec[a] \in Nicks
      /\ \/ mark' = mark /\ bdd' = bdd \cup {a}
         \/ mark' = [mark EXCEPT ![rec[a]] = ""] /\ bdd' = bdd \ {a}
  BY DEF SetBddOn, SetBddOff, bounds, TypeOK
<1>1. TypeOK'
  BY <1>0 DEF TypeOK
<1>2. StaffRegistered'
  BY <1>0 DEF StaffRegistered
<1>3. \A b : nick_is_services_oper(b) => nick_is_services_oper(b)'
  BY <1>0, OperIn, OperInNext DEF Holds
<1>4. \A n \in Nicks \ lost : mark'[n] \in {"10", "5"} => mark[n] \in {"10", "5"}
  BY <1>0 DEF TypeOK
<1>5. \A b \in bdd : mark'[rec[b]] \in {"10", "5"} => b \in bdd'
  BY <1>0 DEF TypeOK
<1>6. FlagsOfStaff'
  BY <1>0, <1>3, <1>4, <1>5, FlagsKept
<1>7. SavedOK'
  BY <1>0 DEF SavedOK, Distinct
<1> QED BY <1>1, <1>2, <1>6, <1>7

LEMMA SaveInv ==
  ASSUME StaffInv, NEW junk, Save(junk)
  PROVE  StaffInv'
<1> USE DEF StaffInv
<1>0. /\ rec' = rec /\ bdd' = bdd /\ ident' = ident /\ slots' = slots /\ mark' = mark /\ lost' = lost
      /\ saved' = Files(3, junk)
  BY DEF Save
<1>1. SavedOK'
  BY <1>0, FilesOK DEF SavedOK, Distinct
<1>2. TypeOK' /\ StaffRegistered'
  BY <1>0 DEF TypeOK, StaffRegistered
<1>3. \A b : nick_is_services_oper(b) => nick_is_services_oper(b)'
  BY <1>0, OperIn, OperInNext DEF Holds
<1> QED BY <1>0, <1>1, <1>2, <1>3, FlagsKept

LEMMA RestartInv ==
  ASSUME StaffInv, NEW k \in 0..3, NEW junk, Restart(k, junk)
  PROVE  StaffInv'
<1> USE DEF StaffInv
<1> DEFINE f == Files(k, junk)
<1>0. /\ rec' = f.rec /\ bdd' = f.bdd /\ ident' = {} /\ saved' = f /\ mark' = mark
      /\ slots' = [l \in Lists |-> load_dbase(f, l)]
      /\ lost' = lost \cup {n \in Nicks : mark[n] \in {"10", "5"}
                   /\ \A a \in bdd' : rec'[a] = n => ~nick_is_services_oper(a)'}
  BY DEF Restart
<1>1. /\ Distinct(rec') /\ bdd' \subseteq Addrs /\ \A a \in bdd' : rec'[a] \in Nicks
  BY <1>0, FilesOK
<1>2. SavedOK'
  BY <1>0, FilesOK DEF SavedOK, Distinct
<1>3. DOMAIN slots' = Lists /\ \A l \in Lists : slots'[l] = load_dbase(f, l)
  BY <1>0
<1>4. \A l \in Lists : slots'[l] \in [Slots(l) -> Addrs \cup {None}]
  <2> SUFFICES ASSUME NEW l \in Lists PROVE load_dbase(f, l) \in [Slots(l) -> Addrs \cup {None}]
    BY <1>3
  <2> HIDE DEF f
  <2>1. \A i \in Slots(l) : load_dbase(f, l)[i] \in Addrs \cup {None}
    BY LoadEffect
  <2>2. load_dbase(f, l) = [i \in Slots(l) |-> load_dbase(f, l)[i]]
    BY DEF load_dbase
  <2> QED BY <2>1, <2>2
<1>5. TypeOK'
  BY <1>0, <1>1, <1>3, <1>4 DEF TypeOK, Distinct
<1>6. StaffRegistered'
  <2> SUFFICES ASSUME NEW l \in ServicesLists, NEW i \in Slots(l), slots'[l][i] # None
               PROVE  rec'[slots'[l][i]] \in Nicks
    BY DEF StaffRegistered
  <2>1. l \in Lists /\ l # "canales"
    BY DEF ServicesLists, Lists
  <2> HIDE DEF f
  <2>2. slots'[l][i] = load_dbase(f, l)[i]
    BY <2>1, <1>3
  <2> QED BY <2>1, <2>2, <1>0, LoadEffect
<1>7. FlagsOfStaff'
  <2> SUFFICES ASSUME NEW n \in Nicks \ lost', mark[n] \in {"10", "5"}
               PROVE  \E a \in bdd' : rec'[a] = n /\ nick_is_services_oper(a)'
    BY <1>0 DEF FlagsOfStaff
  <2> QED BY <1>0
<1> QED BY <1>2, <1>5, <1>6, <1>7

-----------------------------------------------------------------------------
LEMMA NextStaffInv == StaffInv /\ [Next]_vars => StaffInv'
<1> SUFFICES ASSUME StaffInv, [Next]_vars PROVE StaffInv'
  OBVIOUS
<1>1. ASSUME NEW row \in Adds, NEW u \in ident, NEW a \in Addrs, Add(row, u, a) PROVE StaffInv'
  BY <1>1, AddInv
<1>2. ASSUME NEW row \in Dels, NEW u \in ident, NEW a \in Addrs, Del(row, u, a) PROVE StaffInv'
  BY <1>2, DelInv
<1>3. ASSUME NEW n \in Names, NEW a \in Addrs, makenick(n, a) \/ makechan(n, a) PROVE StaffInv'
  BY <1>3, MakeInv
<1>4. ASSUME NEW a \in Addrs, Identify(a) \/ Leave(a) \/ delnick(a) \/ delchan(a) PROVE StaffInv'
  BY <1>4, SessionInv, DropInv, DelchanInv
<1>5. ASSUME NEW u \in ident, NEW a \in Addrs, SetBddOn(u, a) \/ SetBddOff(u, a) PROVE StaffInv'
  BY <1>5, BddInv
<1>6. ASSUME NEW junk, Save(junk) PROVE StaffInv'
  BY <1>6, SaveInv
<1>7. ASSUME NEW k \in 0..3, NEW junk, Restart(k, junk) PROVE StaffInv'
  BY <1>7, RestartInv
<1>8. CASE UNCHANGED vars
  <2>1. TypeOK'
    BY <1>8 DEF vars, StaffInv, TypeOK
  <2>2. StaffRegistered' /\ SavedOK'
    BY <1>8 DEF vars, StaffInv, StaffRegistered, SavedOK, Distinct
  <2>3. \A b : nick_is_services_oper(b) => nick_is_services_oper(b)'
    BY <1>8, OperIn, OperInNext DEF vars, Holds
  <2>4. FlagsOfStaff'
    BY <1>8, <2>3, FlagsKept DEF vars, StaffInv
  <2> QED BY <2>1, <2>2, <2>4 DEF StaffInv
<1> QED BY <1>1, <1>2, <1>3, <1>4, <1>5, <1>6, <1>7, <1>8 DEF Next, Names

(* The structures have their types.                                        *)
THEOREM TypeCorrect == Spec => []TypeOK
<1>1. StaffInv => TypeOK
  BY DEF StaffInv
<1> QED BY <1>1, InitStaffInv, NextStaffInv, PTL DEF Spec

(* A list of services holds registered nicks only: os_remove_nick misses   *)
(* no slot, and loading enters only what findnick finds.                   *)
THEOREM NobodyInherits == Spec => []StaffRegistered
<1>1. StaffInv => StaffRegistered
  BY DEF StaffInv
<1> QED BY <1>1, InitStaffInv, NextStaffInv, PTL DEF Spec

(* The flags of the network are those of staff: DEL, SET BDD OFF and       *)
(* delnick take them away wherever they take away the entry.               *)
THEOREM FlagsAreOfStaff == Spec => []FlagsOfStaff
<1>1. StaffInv => FlagsOfStaff
  BY DEF StaffInv
<1> QED BY <1>1, InitStaffInv, NextStaffInv, PTL DEF Spec

-----------------------------------------------------------------------------
(* Ranks.                                                                  *)

LEMMA RankIs ==
  ASSUME NEW a
  PROVE  /\ Rank(a) \in 0..4
         /\ (Holds("admins", a) => Rank(a) = 4)
         /\ (Holds("coadmins", a) => Rank(a) >= 3)
         /\ (Holds("devels", a) => Rank(a) >= 2)
         /\ (Holds("opers", a) => Rank(a) >= 1)
BY DEF Rank

(* A rank that rises shows in a list that did not hold the record.         *)
LEMMA RankRises ==
  ASSUME NEW a, Rank(a)' > Rank(a)
  PROVE  \/ Holds("admins", a)' /\ ~Holds("admins", a) /\ Rank(a)' = 4
         \/ Holds("coadmins", a)' /\ ~Holds("coadmins", a) /\ Rank(a)' = 3
         \/ Holds("devels", a)' /\ ~Holds("devels", a) /\ Rank(a)' = 2
         \/ Holds("opers", a)' /\ ~Holds("opers", a) /\ Rank(a)' = 1
BY DEF Rank

(* ADD enters the record in the list of the row and nowhere else.          *)
LEMMA AddEnters ==
  ASSUME TypeOK, NEW row \in Adds, NEW u, NEW a \in Addrs, Add(row, u, a),
         NEW l \in ServicesLists, NEW b \in Addrs, Holds(l, b)', ~Holds(l, b)
  PROVE  l = row.list
<1>1. PICK i \in Slots(l) : slots'[l][i] = b
  BY DEF Holds
<1>2. slots[l][i] # b
  BY DEF Holds
<1>3. l # row.list => slots'[l][i] = slots[l][i]
  BY AddEffect, Kinds
<1> QED BY <1>1, <1>2, <1>3

(* Whoever may give a rank has one above it.                               *)
LEMMA AuthorityAbove ==
  ASSUME NEW u
  PROVE  /\ is_services_root(u) => Authority(u) = 5
         /\ is_services_admin(u) => Authority(u) >= 4
         /\ is_services_cregadmin(u) => Authority(u) >= 3
         /\ is_services_devel(u) => Authority(u) >= 2
<1>1. Authority(u) = IF is_services_root(u) THEN 5 ELSE Rank(u)
  BY DEF Authority
<1>2. is_services_admin(u) => Authority(u) >= 4
  BY <1>1, RankIs DEF is_services_admin
<1>3. is_services_cregadmin(u) => Authority(u) >= 3
  <2>1. Holds("coadmins", u) => Authority(u) >= 3
    BY <1>1, RankIs
  <2> QED BY <1>1, <1>2, <2>1, RankIs DEF is_services_cregadmin
<1>4. is_services_devel(u) => Authority(u) >= 2
  <2>1. Holds("devels", u) => Authority(u) >= 2
    BY <1>1, RankIs
  <2> QED BY <1>1, <1>3, <2>1, RankIs DEF is_services_devel
<1> QED BY <1>1, <1>2, <1>3, <1>4

LEMMA AddRank ==
  ASSUME TypeOK, NEW row \in Adds, NEW u \in ident, NEW a \in Addrs, Add(row, u, a),
         NEW b \in Addrs, Rank(b)' > Rank(b)
  PROVE  Authority(u) > Rank(b)'
<1>1. May(u, row.need)
  BY DEF Add
<1>2. {"admins", "coadmins", "devels", "opers"} \subseteq ServicesLists
  BY DEF ServicesLists
<1>3. CASE Holds("admins", b)' /\ ~Holds("admins", b) /\ Rank(b)' = 4
  <2>1. row.list = "admins"
    BY <1>2, <1>3, AddEnters
  <2>2. is_services_root(u)
    BY <1>1, <2>1, AddRows DEF May
  <2> QED BY <1>3, <2>2, AuthorityAbove
<1>4. CASE Holds("coadmins", b)' /\ ~Holds("coadmins", b) /\ Rank(b)' = 3
  <2>1. row.list = "coadmins"
    BY <1>2, <1>4, AddEnters
  <2>2. is_services_admin(u)
    BY <1>1, <2>1, AddRows DEF May
  <2> QED BY <1>4, <2>2, AuthorityAbove DEF Authority, Rank
<1>5. CASE Holds("devels", b)' /\ ~Holds("devels", b) /\ Rank(b)' = 2
  <2>1. row.list = "devels"
    BY <1>2, <1>5, AddEnters
  <2>2. is_services_cregadmin(u)
    BY <1>1, <2>1, AddRows DEF May
  <2> QED BY <1>5, <2>2, AuthorityAbove DEF Authority, Rank
<1>6. CASE Holds("opers", b)' /\ ~Holds("opers", b) /\ Rank(b)' = 1
  <2>1. row.list = "opers"
    BY <1>2, <1>6, AddEnters
  <2>2. is_services_devel(u)
    BY <1>1, <2>1, AddRows DEF May
  <2> QED BY <1>6, <2>2, AuthorityAbove DEF Authority, Rank
<1> QED BY <1>3, <1>4, <1>5, <1>6, RankRises

(* A step that enters nothing in a list of services raises nobody.         *)
LEMMA NoRise ==
  ASSUME \A l \in ServicesLists : \A i \in Slots(l) : slots'[l][i] \in {slots[l][i], None},
         NEW b \in Addrs, Rank(b)' > Rank(b)
  PROVE  FALSE
<1>1. ASSUME NEW l \in ServicesLists, Holds(l, b)' PROVE Holds(l, b)
  BY <1>1, NoneAssumption DEF Holds
<1> QED BY <1>1, RankRises DEF ServicesLists

LEMMA RankStep ==
  ASSUME StaffInv, [Next]_vars, NEW b \in Addrs, Rank(b)' > Rank(b)
  PROVE  \/ \E u \in ident : Authority(u) > Rank(b)'
         \/ \E k \in 0..3, junk \in Junk : Restart(k, junk)
<1> USE DEF StaffInv
<1>1. ASSUME NEW row \in Adds, NEW u \in ident, NEW a \in Addrs, Add(row, u, a)
      PROVE  Authority(u) > Rank(b)'
  BY <1>1, AddRank
<1>2. ASSUME NEW row \in Dels, NEW u \in ident, NEW a \in Addrs, Del(row, u, a) PROVE FALSE
  <2>1. \A l \in ServicesLists : \A i \in Slots(l) : slots'[l][i] \in {slots[l][i], None}
    BY <1>2, DelEffect, Kinds
  <2> QED BY <2>1, NoRise
<1>3. ASSUME NEW a \in Addrs, delnick(a) PROVE FALSE
  <2>1. \A l \in ServicesLists : \A i \in Slots(l) : slots'[l][i] \in {slots[l][i], None}
    BY <1>3, DropEffect DEF delnick
  <2> QED BY <2>1, NoRise
<1>4. ASSUME slots' = slots PROVE FALSE
  BY <1>4, NoRise
<1>5. ASSUME NEW n, NEW a, makenick(n, a) \/ makechan(n, a) PROVE slots' = slots
  BY <1>5 DEF makenick, makechan
<1>6. ASSUME NEW a, Identify(a) \/ Leave(a) \/ delchan(a) PROVE slots' = slots
  BY <1>6 DEF Identify, Leave, delchan
<1>7. ASSUME NEW u, NEW a, SetBddOn(u, a) \/ SetBddOff(u, a) PROVE slots' = slots
  BY <1>7 DEF SetBddOn, SetBddOff
<1>8. ASSUME NEW junk, Save(junk) PROVE slots' = slots
  BY <1>8 DEF Save
<1>9. UNCHANGED vars => slots' = slots
  BY DEF vars
<1> QED BY <1>1, <1>2, <1>3, <1>4, <1>5, <1>6, <1>7, <1>8, <1>9 DEF Next

(* Nobody rises by his own command, by that of an equal, or by a drop and  *)
(* a registration.                                                         *)
THEOREM RanksFromAbove == Spec => RankFromAbove
<1>1. StaffInv /\ [Next]_vars =>
        [\A a \in Addrs : Rank(a)' > Rank(a) =>
           \/ \E u \in ident : Authority(u) > Rank(a)'
           \/ \E k \in 0..3, junk \in Junk : Restart(k, junk)]_vars
  <2>1. ASSUME StaffInv, [Next]_vars
        PROVE  \A a \in Addrs : Rank(a)' > Rank(a) =>
                 \/ \E u \in ident : Authority(u) > Rank(a)'
                 \/ \E k \in 0..3, junk \in Junk : Restart(k, junk)
    BY <2>1, RankStep
  <2> QED BY <2>1
<1> QED BY <1>1, InitStaffInv, NextStaffInv, PTL DEF Spec, RankFromAbove
=============================================================================
