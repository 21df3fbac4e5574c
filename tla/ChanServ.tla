------------------------------ MODULE ChanServ ------------------------------
(***************************************************************************)
(* Who owns a registered channel: the ChannelInfo records of chanserv.c,   *)
(* the NickInfo records their founder, successor and access entries point  *)
(* at, the count of channels each nick owns (ni->channelcount), and the    *)
(* list of channels a user has identified for (user->founder_chans).       *)
(*                                                                         *)
(* Records are named by their address: a member of Nicks or Infos is       *)
(* memory that holds a record while it is in nicks or infos, and that a    *)
(* later registration may get again.  A pointer may thus lead to a freed   *)
(* record, or to the record of somebody else.                              *)
(***************************************************************************)
EXTENDS Naturals, FiniteSets

CONSTANTS
  Users,       \* the User structures
  Opers,       \* those of them whom is_services_oper and _devel accept
  Nicks,       \* addresses of NickInfo records
  Infos,       \* addresses of ChannelInfo records
  NULL,
  ChannelMax   \* ni->channelmax, CSMaxReg for every nick

ASSUME NullAssumption  == NULL \notin Nicks
ASSUME OperAssumption  == Opers \subseteq Users
ASSUME LimitAssumption == ChannelMax \in Nat
ASSUME FiniteAssumption == IsFiniteSet(Infos)

VARIABLES
  nicks,      \* the registered nicks
  count,      \* ni->channelcount
  infos,      \* the registered (or forbidden) channels
  founder,    \* ci->founder
  successor,  \* ci->successor
  setters,    \* the nicks in ci->access whose level reaches CA_SET
  flags,      \* CI_VERBOTEN and CI_SUSPEND in ci->flags
  ni,         \* user->ni, NULL if the user is gone or its nick is free
  identified, \* the users for whom nick_identified holds
  chans,      \* user->founder_chans
  removing,   \* the nick cs_remove_nick is run for, or NULL
  left,       \* the channels its loop has not come to yet
  inherited   \* history: the channels that went to a successor

channels == <<infos, founder, successor, setters, flags>>
people   == <<ni, identified, chans>>
sweep    == <<removing, left>>
vars     == <<nicks, count, channels, people, sweep, inherited>>
-----------------------------------------------------------------------------
Owned(n) == {ci \in infos : founder[ci] = n}
Barred(ci) == flags[ci] # {}

(* One thread: nothing else happens while cs_remove_nick runs.             *)
Idle == removing = NULL

IsIdentified(u, ci) == ci \in chans[u]

(* CI_SECURE is set on every channel, so recognition is not enough.        *)
IsFounder(u, ci) ==
  \/ ni[u] # NULL /\ ni[u] = founder[ci] /\ u \in identified
  \/ IsIdentified(u, ci)

IsSuccessor(u, ci) ==
  \/ ni[u] # NULL /\ ni[u] = successor[ci] /\ u \in identified
  \/ IsIdentified(u, ci)

(* get_access gives nobody without a registered nick more than 0.          *)
FounderLevel(u, ci) == ni[u] # NULL /\ IsFounder(u, ci)
SetLevel(u, ci) ==
  \/ FounderLevel(u, ci)
  \/ u \in identified /\ ni[u] \in setters[ci]

(* ni->channelcount--, unless it is 0 or the record is not there.          *)
Lower(c, n) ==
  IF n \in nicks /\ c[n] > 0 THEN [c EXCEPT ![n] = c[n] - 1] ELSE c
Raise(c, n) == IF n \in nicks THEN [c EXCEPT ![n] = c[n] + 1] ELSE c

(* Free the channels in gone.  What freed memory held is never read again  *)
(* (but for the name), so their fields are set back.                       *)
Freed(f, gone, empty) == [ci \in Infos |-> IF ci \in gone THEN empty ELSE f[ci]]

delchan(gone) ==
  /\ infos'     = infos \ gone
  /\ founder'   = Freed(founder, gone, NULL)
  /\ successor' = Freed(successor, gone, NULL)
  /\ setters'   = Freed(setters, gone, {})
  /\ flags'     = Freed(flags, gone, {})
  /\ inherited' = inherited \ gone

(* A new record at ci, when those in gone have been freed.                 *)
makechan(ci, gone, n, f) ==
  /\ ci \in Infos \ (infos \ gone)
  /\ infos'     = (infos \ gone) \cup {ci}
  /\ founder'   = [Freed(founder, gone, NULL) EXCEPT ![ci] = n]
  /\ successor' = Freed(successor, gone \cup {ci}, NULL)
  /\ setters'   = Freed(setters, gone \cup {ci}, {})
  /\ flags'     = [Freed(flags, gone, {}) EXCEPT ![ci] = f]
  /\ inherited' = inherited \ (gone \cup {ci})
-----------------------------------------------------------------------------
(* The world of NickServ, as far as channels depend on it.                 *)

makenick(n) ==
  /\ Idle
  /\ n \notin nicks
  /\ nicks' = nicks \cup {n}
  /\ UNCHANGED <<count, channels, people, sweep, inherited>>

(* NICK: founder_chans stays with the user.                                *)
ChangeNick(u, n) ==
  /\ Idle
  /\ n # ni[u]
  /\ \A v \in Users : n # NULL => ni[v] # n
  /\ ni' = [ni EXCEPT ![u] = n]
  /\ identified' = identified \ {u}
  /\ UNCHANGED <<nicks, count, channels, chans, sweep, inherited>>

IdentifyNick(u) ==
  /\ Idle
  /\ ni[u] # NULL
  /\ identified' = identified \cup {u}
  /\ UNCHANGED <<nicks, count, channels, ni, chans, sweep, inherited>>

DeleteUser(u) ==
  /\ Idle
  /\ ni'         = [ni EXCEPT ![u] = NULL]
  /\ identified' = identified \ {u}
  /\ chans'      = [chans EXCEPT ![u] = {}]
  /\ UNCHANGED <<nicks, count, channels, sweep, inherited>>
-----------------------------------------------------------------------------
(* cs_remove_nick, called by delnick: a loop over every channel.           *)

StartRemove(n) ==
  /\ Idle
  /\ n \in nicks
  /\ removing' = n
  /\ left' = infos
  /\ UNCHANGED <<nicks, count, channels, people, inherited>>

(* The founder goes and nobody may take over.                              *)
RemoveChannel(ci) ==
  /\ ci \in left
  /\ founder[ci] = removing
  /\ \/ successor[ci] = NULL
     \/ successor[ci] \in nicks /\ count[successor[ci]] >= ChannelMax
     \/ successor[ci] \notin nicks  \* reads a freed record
  /\ left' = left \ {ci}
  /\ delchan({ci})
  /\ count' = Lower(count, removing)
  /\ UNCHANGED <<nicks, people, removing>>

(* The successor takes over; its access entries are not looked at.         *)
TransferChannel(ci) ==
  /\ ci \in left
  /\ founder[ci] = removing
  /\ successor[ci] # NULL
  /\ successor[ci] \in nicks => count[successor[ci]] < ChannelMax
  /\ left' = left \ {ci}
  /\ founder'   = [founder EXCEPT ![ci] = successor[ci]]
  /\ successor' = [successor EXCEPT ![ci] = NULL]
  /\ count'     = Raise(count, successor[ci])
  /\ inherited' = inherited \cup {ci}
  /\ UNCHANGED <<nicks, infos, setters, flags, people, removing>>

(* Mutant: the access list is not looked through.                          *)
CleanAccessSkips(ci) ==
  /\ ci \in left
  /\ founder[ci] # removing
  /\ left' = left \ {ci}
  /\ UNCHANGED <<nicks, count, channels, people, removing, inherited>>

CleanAccess(ci) ==
  /\ ci \in left
  /\ founder[ci] # removing
  /\ left' = left \ {ci}
  /\ setters' = [setters EXCEPT ![ci] = @ \ {removing}]
  /\ UNCHANGED <<nicks, count, infos, founder, successor, flags, people, removing, inherited>>

(* delnick frees the record.  (What it means for the users of the nick is  *)
(* the subject of NickServ; here their pointers are cleared.)              *)
EndRemove ==
  /\ ~Idle
  /\ left = {}
  /\ nicks' = nicks \ {removing}
  /\ ni' = [u \in Users |-> IF ni[u] = removing THEN NULL ELSE ni[u]]
  /\ identified' = {u \in identified : ni[u] # removing}
  /\ count' = [count EXCEPT ![removing] = 0]
  /\ removing' = NULL
  /\ UNCHANGED <<channels, chans, left, inherited>>
-----------------------------------------------------------------------------
(* The end of a registration in CregServ: the user who holds the founder's *)
(* nick at this moment gets the channel into founder_chans.                *)
registra_con_creg(ci, n) ==
  /\ Idle
  /\ n \in nicks
  /\ ci \notin infos
  /\ makechan(ci, {}, n, {})
  /\ count' = Raise(count, n)
  /\ chans' = [u \in Users |-> chans[u] \cup (IF ni[u] = n THEN {ci} ELSE {})]
  /\ UNCHANGED <<nicks, ni, identified, sweep>>

(* IDENTIFY with the right password.                                       *)
do_identify(u, ci) ==
  /\ Idle
  /\ ci \in infos
  /\ ~Barred(ci)
  /\ chans' = [chans EXCEPT ![u] = @ \cup {ci}]
  /\ UNCHANGED <<nicks, count, channels, ni, identified, sweep, inherited>>

(* A command of the developers, for any channel.  The count is lowered     *)
(* here, and once more by delchan.                                         *)
do_drop(u, ci) ==
  /\ Idle
  /\ ci \in infos
  /\ u \in Opers
  /\ delchan({ci})
  /\ count' = Lower(Lower(count, founder[ci]), founder[ci])
  /\ UNCHANGED <<nicks, people, sweep>>

expire_chans(ci) ==
  /\ Idle
  /\ ci \in infos
  /\ ~Barred(ci)
  /\ delchan({ci})
  /\ count' = Lower(count, founder[ci])
  /\ UNCHANGED <<nicks, people, sweep>>

(* What SET asks for before it looks at the option.  Two more tests never  *)
(* refuse: !is_servoper & (flags & CI_SUSPEND) is 1 & 0x1000, which is 0,  *)
(* and the one for FOUNDER and SUCCESSOR compares the address of           *)
(* is_services_cregadmin with 0.                                           *)
do_set(u, ci) ==
  /\ Idle
  /\ ci \in infos
  /\ "VERBOTEN" \notin flags[ci]
  /\ u \in Opers \/ SetLevel(u, ci)

(* Mutant: the count of the old founder is not lowered.                    *)
do_set_founderKeeps(u, ci, n) ==
  /\ do_set(u, ci)
  /\ n \in nicks
  /\ count[n] < ChannelMax \/ u \in Opers
  /\ count'   = Raise(count, n)
  /\ founder' = [founder EXCEPT ![ci] = n]
  /\ UNCHANGED <<nicks, infos, successor, setters, flags, people, sweep, inherited>>

do_set_founder(u, ci, n) ==
  /\ do_set(u, ci)
  /\ n \in nicks
  /\ count[n] < ChannelMax \/ u \in Opers
  /\ count'   = Raise(Lower(count, founder[ci]), n)
  /\ founder' = [founder EXCEPT ![ci] = n]
  /\ UNCHANGED <<nicks, infos, successor, setters, flags, people, sweep, inherited>>

do_set_successor(u, ci, n) ==
  /\ do_set(u, ci)
  /\ n \in nicks \cup {NULL}
  /\ successor' = [successor EXCEPT ![ci] = n]
  /\ UNCHANGED <<nicks, count, infos, founder, setters, flags, people, sweep, inherited>>

do_delsuccessor(u, ci) ==
  /\ Idle
  /\ ci \in infos
  /\ successor[ci] # NULL
  /\ ni[u] # NULL
  /\ ~Barred(ci)
  /\ IsSuccessor(u, ci)
  /\ successor' = [successor EXCEPT ![ci] = NULL]
  /\ UNCHANGED <<nicks, count, infos, founder, setters, flags, people, sweep, inherited>>

(* ACCESS ADD and DEL with the level of CA_SET (499).                      *)
do_access(u, ci, n) ==
  /\ Idle
  /\ ci \in infos
  /\ ~Barred(ci)
  /\ u \in Opers \/ FounderLevel(u, ci)
  /\ n \in nicks
  /\ \E s \in {setters[ci] \cup {n}, setters[ci] \ {n}} :
       setters' = [setters EXCEPT ![ci] = s]
  /\ UNCHANGED <<nicks, count, infos, founder, successor, flags, people, sweep, inherited>>

do_delaccess(u, ci) ==
  /\ Idle
  /\ ci \in infos
  /\ ~Barred(ci)
  /\ SetLevel(u, ci) /\ ~IsFounder(u, ci)
  /\ setters' = [setters EXCEPT ![ci] = @ \ {ni[u]}]
  /\ UNCHANGED <<nicks, count, infos, founder, successor, flags, people, sweep, inherited>>

do_suspend(ci) ==
  /\ Idle
  /\ ci \in infos
  /\ ~Barred(ci)
  /\ flags' = [flags EXCEPT ![ci] = @ \cup {"SUSPEND"}]
  /\ UNCHANGED <<nicks, count, infos, founder, successor, setters, people, sweep, inherited>>

do_unsuspend(ci) ==
  /\ Idle
  /\ ci \in infos
  /\ "SUSPEND" \in flags[ci]
  /\ flags' = [flags EXCEPT ![ci] = @ \ {"SUSPEND"}]
  /\ UNCHANGED <<nicks, count, infos, founder, successor, setters, people, sweep, inherited>>

(* Mutant: FORBID marks the record there is in place of making a new one.  *)
do_forbidMarks(ci, gone) ==
  /\ Idle
  /\ gone = {ci} /\ ci \in infos
  /\ flags' = [flags EXCEPT ![ci] = {"VERBOTEN"}]
  /\ UNCHANGED <<nicks, count, infos, founder, successor, setters, people, sweep, inherited>>

(* FORBID of a channel that was registered (gone) or was not.              *)
do_forbid(ci, gone) ==
  /\ Idle
  /\ gone = {} \/ \E old \in infos : gone = {old}
  /\ makechan(ci, gone, NULL, {"VERBOTEN"})
  /\ count' = IF gone = {} THEN count
              ELSE Lower(count, founder[CHOOSE old \in gone : TRUE])
  /\ UNCHANGED <<nicks, people, sweep>>

do_unforbid(ci) ==
  /\ Idle
  /\ ci \in infos
  /\ "VERBOTEN" \in flags[ci]
  /\ delchan({ci})
  /\ UNCHANGED <<nicks, count, people, sweep>>
(* Save and load: pointers are written as nicks and looked up again.  What *)
(* nick is left in freed memory, and so what it leads to, is anybody's     *)
(* guess (as).  A channel that comes back without a founder is deleted.    *)
Restart ==
  /\ Idle
  /\ \E as \in [Nicks \ nicks -> nicks \cup {NULL}] :
       LET Found(p)  == IF p \in nicks \cup {NULL} THEN p ELSE as[p]
           Orphans   == {ci \in infos : /\ "VERBOTEN" \notin flags[ci]
                                       /\ Found(founder[ci]) = NULL}
       IN  /\ infos'     = infos \ Orphans
           /\ founder'   = [ci \in Infos |-> Found(founder[ci])]
           /\ successor' = Freed([ci \in Infos |-> Found(successor[ci])], Orphans, NULL)
           /\ setters'   = Freed([ci \in Infos |->
                              {Found(n) : n \in setters[ci]} \ {NULL}], Orphans, {})
           /\ flags'     = Freed(flags, Orphans, {})
           /\ inherited' = inherited \ Orphans
  /\ ni' = [u \in Users |-> NULL] /\ identified' = {}
  /\ chans' = [u \in Users |-> {}]
  /\ UNCHANGED <<nicks, count, sweep>>
-----------------------------------------------------------------------------
Init ==
  /\ nicks = {} /\ count = [n \in Nicks |-> 0]
  /\ infos = {}
  /\ founder   = [ci \in Infos |-> NULL]
  /\ successor = [ci \in Infos |-> NULL]
  /\ setters   = [ci \in Infos |-> {}]
  /\ flags     = [ci \in Infos |-> {}]
  /\ ni = [u \in Users |-> NULL] /\ identified = {}
  /\ chans = [u \in Users |-> {}]
  /\ removing = NULL /\ left = {}
  /\ inherited = {}

NickStep ==
  \/ \E n \in Nicks : makenick(n) \/ StartRemove(n)
  \/ \E u \in Users, n \in nicks \cup {NULL} : ChangeNick(u, n)
  \/ \E u \in Users : IdentifyNick(u) \/ DeleteUser(u)

RemoveStep ==
  \/ \E ci \in Infos : RemoveChannel(ci) \/ TransferChannel(ci) \/ CleanAccess(ci)
  \/ EndRemove

UserStep ==
  \E u \in Users, ci \in Infos :
    \/ do_identify(u, ci) \/ do_drop(u, ci)
    \/ do_delsuccessor(u, ci) \/ do_delaccess(u, ci)
    \/ \E n \in Nicks : do_set_founder(u, ci, n) \/ do_access(u, ci, n)
    \/ \E n \in Nicks \cup {NULL} : do_set_successor(u, ci, n)

StaffStep ==
  \E ci \in Infos :
    \/ \E n \in Nicks : registra_con_creg(ci, n)
    \/ \E gone \in SUBSET infos : do_forbid(ci, gone)
    \/ do_suspend(ci) \/ do_unsuspend(ci) \/ do_unforbid(ci) \/ expire_chans(ci)

Next == NickStep \/ RemoveStep \/ UserStep \/ StaffStep \/ Restart

Spec == Init /\ [][Next]_vars
-----------------------------------------------------------------------------
TypeOK ==
  /\ nicks \subseteq Nicks /\ count \in [Nicks -> Nat]
  /\ infos \subseteq Infos
  /\ founder \in [Infos -> Nicks \cup {NULL}]
  /\ successor \in [Infos -> Nicks \cup {NULL}]
  /\ setters \in [Infos -> SUBSET Nicks]
  /\ flags \in [Infos -> SUBSET {"VERBOTEN", "SUSPEND"}]
  /\ ni \in [Users -> nicks \cup {NULL}] /\ identified \subseteq Users
  /\ chans \in [Users -> SUBSET Infos]
  /\ removing \in nicks \cup {NULL} /\ left \subseteq infos
  /\ inherited \subseteq Infos

(* chanserv.c and expire_chans read ci->founder->nick of every channel     *)
(* that is not forbidden, without a test: it has a founder.  A forbidden   *)
(* channel has none, whatever it was before it was forbidden.              *)
FounderUnlessForbidden ==
  \A ci \in infos : founder[ci] = NULL <=> "VERBOTEN" \in flags[ci]

(* A channel leads to a nick that is gone, as founder or in its access     *)
(* list, only if a successor took it over: cs_remove_nick finds every      *)
(* other use of the nick, in whatever order it comes to the channels.      *)
DeadOnlyInherited ==
  Idle => \A ci \in infos \ inherited :
            founder[ci] \in nicks \cup {NULL} /\ setters[ci] \subseteq nicks

(* Nobody is refused a channel for channels it does not own: the count     *)
(* may fall behind the channels of a nick but does not run ahead of them.  *)
CountBound ==
  \A n \in nicks \ {removing} : count[n] <= Cardinality(Owned(n))

(* The help of SET: only the founder can change the founder.               *)
FounderOnly ==
  [][\A u \in Users, ci \in Infos, n \in Nicks :
       do_set_founder(u, ci, n) => u \in Opers \/ IsFounder(u, ci)]_vars
=============================================================================
