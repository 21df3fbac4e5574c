----------------------------- MODULE IpVirtual ------------------------------
(***************************************************************************)
(* Virtual hosts: the commands of ipvirtual.c, and those of NickServ and   *)
(* OperServ, that write a nick's host into the tables 2 and 4 of the       *)
(* network, the six hours a user waits for the next change, and what a     *)
(* suspension, a drop and a restart make of both.  The list of hosts behind*)
(* PONER and USAR is left out: the two are commented out of the command    *)
(* table, and nothing else fills it.                                       *)
(***************************************************************************)
EXTENDS Clock, Integers

CONSTANTS
  VNicks, Hosts, NoHost,
  SixHours                \* 360m

ASSUME IpVirtualAssumption == NoHost \notin Hosts /\ SixHours \in Nat \ {0}

VARIABLES
  regd,      \* nicks that are registered
  onbdd,     \* those with NI_ON_BDD
  susp,      \* those that are suspended
  wait,      \* ni->time_vhost
  vhost,     \* ni->vhost
  table2, table4, \* the host of each nick in the two tables of the network
  nickfile,  \* what save_ns_dbase wrote last
  given,     \* history: when the user of each nick last changed the host, or Never
  eased,     \* history: nicks whose wait a suspension, UNSUSPEND or crash undid
  stray      \* history: nicks that had a host in table 4 outside the BDD

vhostVars == <<regd, onbdd, susp, wait, vhost, table2, table4, nickfile, given, eased, stray>>
registration == <<regd, onbdd, susp, nickfile>>

Never == -1

(* do_write_bdd into table 4, or 2.                                        *)
Write4(n, h) == table4' = [table4 EXCEPT ![n] = h] /\ UNCHANGED table2
Write2(n, h) == table2' = [table2 EXCEPT ![n] = h] /\ UNCHANGED table4
Note(n, h)   == vhost' = [vhost EXCEPT ![n] = h]
StrayIf(n)   == stray' = IF n \in onbdd THEN stray ELSE stray \cup {n}

(* Mutant: the time of the last change is not looked at.                   *)
do_cambia_vhostSoon(n, h) ==
  /\ n \in regd
  /\ wait' = [wait EXCEPT ![n] = now + SixHours]
  /\ Write4(n, h) /\ Note(n, h) /\ StrayIf(n)
  /\ given' = [given EXCEPT ![n] = now] /\ eased' = eased \ {n}
  /\ UNCHANGED registration

(* CAMBIAR: whoever uses the nick sets its host, in the BDD or not.        *)
do_cambia_vhost(n, h) ==
  /\ n \in regd /\ now >= wait[n]
  /\ wait' = [wait EXCEPT ![n] = now + SixHours]
  /\ Write4(n, h) /\ Note(n, h) /\ StrayIf(n)
  /\ given' = [given EXCEPT ![n] = now] /\ eased' = eased \ {n}
  /\ UNCHANGED registration

(* ANULA, and CAMBIAR OFF: the host goes and the wait stays as it was.     *)
do_anular_vhost(n) ==
  /\ n \in regd /\ now >= wait[n]
  /\ Write4(n, NoHost) /\ Note(n, NoHost)
  /\ UNCHANGED <<registration, wait, given, eased, stray>>

(* ACTIVAR of an admin writes the other table, and BORRA clears it.        *)
do_activarhost(n, h) ==
  /\ n \in onbdd
  /\ Write2(n, h) /\ Note(n, h)
  /\ UNCHANGED <<registration, wait, given, eased, stray>>

do_borrarhost(n) == do_activarhost(n, NoHost)

(* OperServ VHOST writes that table and no note.                           *)
os_vhost(n, h) ==
  /\ n \in onbdd
  /\ Write2(n, h)
  /\ UNCHANGED <<registration, wait, vhost, given, eased, stray>>

(* SET VHOST here, which makes no note, and in NickServ, where only a host *)
(* is noted and OFF is not.                                                *)
do_set_vhost(n, h) ==
  /\ n \in onbdd
  /\ Write4(n, h)
  /\ UNCHANGED <<registration, wait, vhost, given, eased, stray>>

ns_set_vhost(n, h) ==
  /\ n \in onbdd
  /\ Write4(n, h)
  /\ IF h = NoHost THEN UNCHANGED vhost ELSE Note(n, h)
  /\ UNCHANGED <<registration, wait, given, eased, stray>>

----------------------------------------------------------------------------
(* What NickServ does to a nick.                                           *)

Register(n) ==
  /\ n \notin regd
  /\ regd' = regd \cup {n} /\ onbdd' = onbdd \cup {n}
  /\ UNCHANGED <<susp, nickfile, wait, vhost, table2, table4, given, eased, stray>>

(* Mutant: the hosts of a nick are left in the tables.                     *)
DropKeeps(n) ==
  /\ n \in regd
  /\ regd' = regd \ {n} /\ onbdd' = onbdd \ {n} /\ susp' = susp \ {n}
  /\ wait' = [wait EXCEPT ![n] = 0] /\ Note(n, NoHost)
  /\ given' = [given EXCEPT ![n] = Never] /\ eased' = eased \ {n}
  /\ UNCHANGED <<nickfile, table2, table4, stray>>

(* delnick clears the tables of a nick that is in the BDD.                 *)
Drop(n) ==
  /\ n \in regd
  /\ regd' = regd \ {n} /\ onbdd' = onbdd \ {n} /\ susp' = susp \ {n}
  /\ wait' = [wait EXCEPT ![n] = 0] /\ Note(n, NoHost)
  /\ IF n \in onbdd THEN /\ table2' = [table2 EXCEPT ![n] = NoHost]
                         /\ table4' = [table4 EXCEPT ![n] = NoHost]
                         /\ stray' = stray \ {n}
                    ELSE UNCHANGED <<table2, table4, stray>>
  /\ given' = [given EXCEPT ![n] = Never] /\ eased' = eased \ {n}
  /\ UNCHANGED nickfile

SetBdd(n) ==
  /\ n \in regd
  /\ IF n \in onbdd
     THEN /\ onbdd' = onbdd \ {n}
          /\ table2' = [table2 EXCEPT ![n] = NoHost]
          /\ table4' = [table4 EXCEPT ![n] = NoHost]
          /\ stray' = stray \ {n}
     ELSE onbdd' = onbdd \cup {n} /\ UNCHANGED <<table2, table4, stray>>
  /\ UNCHANGED <<regd, susp, nickfile, wait, vhost, given, eased>>

(* Both write time_vhost as well.                                          *)
Suspend(n) ==
  /\ n \in regd \ susp
  /\ susp' = susp \cup {n} /\ wait' = [wait EXCEPT ![n] = now]
  /\ eased' = eased \cup {n}
  /\ UNCHANGED <<regd, onbdd, nickfile, vhost, table2, table4, given, stray>>

Unsuspend(n) ==
  /\ n \in susp
  /\ susp' = susp \ {n} /\ wait' = [wait EXCEPT ![n] = 0]
  /\ eased' = eased \cup {n}
  /\ UNCHANGED <<regd, onbdd, nickfile, vhost, table2, table4, given, stray>>

----------------------------------------------------------------------------
Kept == [regd |-> regd, onbdd |-> onbdd, susp |-> susp, wait |-> wait, vhost |-> vhost]
save_nicks == nickfile' = Kept
              /\ UNCHANGED <<regd, onbdd, susp, wait, vhost, table2, table4, given, eased, stray>>

(* Services start again from the file; the tables are the network's, and   *)
(* a host of a nick that the crash lost, or whose BDD status it turned     *)
(* back, stays there.                                                      *)
load_nicks ==
  /\ regd' = nickfile.regd /\ onbdd' = nickfile.onbdd /\ susp' = nickfile.susp
  /\ wait' = nickfile.wait /\ vhost' = nickfile.vhost
  /\ eased' = eased \cup {n \in VNicks : nickfile.wait[n] # wait[n]}
  /\ given' = [n \in VNicks |-> IF n \in nickfile.regd THEN given[n] ELSE Never]
  /\ stray' = stray \cup {n \in VNicks \ nickfile.onbdd :
                            table2[n] # NoHost \/ table4[n] # NoHost}
  /\ UNCHANGED <<nickfile, table2, table4>>

None4All == [n \in VNicks |-> NoHost]
IpVirtualInit ==
  /\ regd = {} /\ onbdd = {} /\ susp = {}
  /\ wait = [n \in VNicks |-> 0] /\ vhost = None4All
  /\ table2 = None4All /\ table4 = None4All
  /\ nickfile = Kept
  /\ given = [n \in VNicks |-> Never] /\ eased = {} /\ stray = {}

IpVirtualNext ==
  \/ \E n \in VNicks, h \in Hosts : do_cambia_vhost(n, h)
  \/ \E n \in VNicks, h \in Hosts \cup {NoHost} :
       do_activarhost(n, h) \/ os_vhost(n, h) \/ do_set_vhost(n, h) \/ ns_set_vhost(n, h)
  \/ \E n \in VNicks :
       \/ do_anular_vhost(n) \/ do_borrarhost(n)
       \/ Register(n) \/ Drop(n) \/ SetBdd(n) \/ Suspend(n) \/ Unsuspend(n)

(* The host the network shows for a nick is that of the registration there *)
(* is: once the nick is dropped, or taken out of the BDD, both tables are  *)
(* empty, whichever command filled which.  CAMBIAR outside the BDD and a   *)
(* crash make exceptions.                                                  *)
HostsOfNicks == \A n \in VNicks : table2[n] # NoHost \/ table4[n] # NoHost
                                  => n \in onbdd \/ n \in stray

(* In one registration six hours pass between two changes of the user's,   *)
(* through drops, restarts, OFF and whatever the staff does to the host,   *)
(* unless the nick was suspended meanwhile or a crash lost the time.       *)
SixHoursApart ==
  [][\A n \in VNicks :
       given'[n] # given[n] /\ given[n] # Never /\ given'[n] # Never /\ n \notin eased
       => given'[n] >= given[n] + SixHours]_vhostVars
=============================================================================
