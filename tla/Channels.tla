------------------------------ MODULE Channels ------------------------------
(***************************************************************************)
(* Who is on which channel.  Services keep it twice: every User has the    *)
(* list user->chans, every Channel the list c->users, and beside it the    *)
(* lists c->chanops and c->voices.  A Channel lives while c->users is not  *)
(* empty, and it and the ChannelInfo of a registered channel point at each *)
(* other (c->ci and ci->c).                                                *)
(*                                                                         *)
(* The network keeps it a third time, in present: that is what its servers *)
(* would say at the point of the message stream services have read up to.  *)
(* A KICK by services takes effect there some time after it was sent, and  *)
(* nobody tells services that it did.                                      *)
(*                                                                         *)
(* Nothing in the code prevents a user from being in a list twice, so the  *)
(* lists are counts.  A user is the address of its structure: an entry of  *)
(* chanops that outlives it may later lead to somebody else.               *)
(***************************************************************************)
EXTENDS Integers

CONSTANTS
  Users,      \* addresses of User structures
  Chans,      \* channel names
  MaxEntries  \* bound: a user is at most so many times in c->users

ASSUME EntriesAssumption == MaxEntries \in Nat

Lists == {"chanops", "voices"}
Infos == {"none", "registered", "suspended", "forbidden"}

VARIABLES
  online,   \* the users in userlist[]
  chans,    \* user->chans: its entries for each channel
  users,    \* c->users: its entries for each user
  lists,    \* c->chanops and c->voices
  live,     \* the channels in chanlist[]
  info,     \* what cs_findchan finds for a name, and its CI_ flags
  chan_ci,  \* the channels with c->ci # NULL
  info_c,   \* those with ci->c # NULL
  present,  \* network: who is on which channel
  kicks,    \* network: KICKs of services that are on their way
  stale,    \* history: entries of c->users that a KICK has passed by
  strays    \* history: +o and +v taken for somebody who is not on the channel

links   == <<chan_ci, info_c>>
members == <<chans, users, lists, live, links, stale, strays>>
network == <<present, kicks>>
vars    == <<online, members, info, network>>

Lesser(a, b) == IF a < b THEN a ELSE b

(* a without b entries, or without all it has.                             *)
Minus(a, b) == IF a > b THEN a - b ELSE 0

Empty(c) == \A u \in Users : users[c][u] = 0
-----------------------------------------------------------------------------
(* An entry of users and of user->chans, and an op or voice if the access  *)
(* list says so.  Neither list is searched first.  The first user makes    *)
(* the channel.                                                            *)
chan_adduser(u, c, l) ==
  /\ chans' = [chans EXCEPT ![u][c] = @ + 1]
  /\ users' = [users EXCEPT ![c][u] = @ + 1]
  /\ lists' = IF l \in Lists THEN [lists EXCEPT ![c][l][u] = @ + 1] ELSE lists
  /\ live'  = live \cup {c}
  /\ IF c \notin live /\ info[c] # "none"
       THEN chan_ci' = chan_ci \cup {c} /\ info_c' = info_c \cup {c}
       ELSE UNCHANGED links
  /\ UNCHANGED <<stale, strays>>

(* Mutant: the voices are forgotten.                                       *)
LeftInOps(c, l, u, n) ==
  IF l = "chanops" THEN Minus(lists[c][l][u], n) ELSE lists[c][l][u]

(* Entries of u in chanops or voices when n are to go.                     *)
LeftIn(c, l, u, n) == Minus(lists[c][l][u], n)

(* c->users and the two lists lose out[c][u] entries of u, as far as they  *)
(* have them; a channel that loses its last user is freed.  What chanops   *)
(* and voices still hold is then lost.                                     *)
chan_deluser(out) ==
  LET freed == {c \in live : \A u \in Users : users'[c][u] = 0}
      took(c, u) == Lesser(out[c][u], users[c][u])
  IN /\ users' = [c \in Chans |-> [u \in Users |-> Minus(users[c][u], out[c][u])]]
     /\ lists' = [c \in Chans |-> [l \in Lists |-> [u \in Users |->
                    IF c \in freed THEN 0 ELSE LeftIn(c, l, u, took(c, u))]]]
     /\ live'    = live \ freed
     /\ chan_ci' = chan_ci \ freed
     /\ info_c'  = info_c \ (freed \cap chan_ci)
     /\ stale'   = {p \in stale : users'[p[1]][p[2]] > 0}
     /\ strays'  = {p \in strays : lists'[p[1]][p[2]][p[3]] > 0}

(* A handler looks for the channel in user->chans, calls[c][u] times, and  *)
(* calls chan_deluser for what it finds.                                   *)
Leave(calls) ==
  /\ chan_deluser([c \in Chans |-> [u \in Users |->
                     Lesser(calls[c][u], chans[u][c])]])
  /\ chans' = [u \in Users |-> [c \in Chans |->
                 Minus(chans[u][c], calls[c][u])]]

Once(u, c) ==
  [d \in Chans |-> [v \in Users |-> IF d = c /\ v = u THEN 1 ELSE 0]]
OffAll(us) ==
  [c \in Chans |-> [u \in Users |-> IF u \in us THEN chans[u][c] ELSE 0]]
AllOff(c) ==
  [d \in Chans |-> [u \in Users |-> IF d = c THEN users[c][u] ELSE 0]]
-----------------------------------------------------------------------------
(* What the network reports.                                               *)

new_user(u) ==
  /\ u \notin online
  /\ online' = online \cup {u}
  /\ UNCHANGED <<members, info, network>>

(* QUIT or KILL of one, SQUIT of a server of several.                      *)
delete_user(us) ==
  /\ us # {} /\ us \subseteq online
  /\ Leave(OffAll(us))
  /\ online'  = online \ us
  /\ present' = {p \in present : p[2] \notin us}
  /\ UNCHANGED <<info, kicks>>

Joins(u, c) ==
  /\ u \in online
  /\ <<c, u>> \notin present
  /\ present' = present \cup {<<c, u>>}

(* Ops and voices are given by the access list of a registered channel     *)
(* that is neither suspended nor forbidden.                                *)
do_join(u, c, l) ==
  /\ Joins(u, c)
  /\ users[c][u] < MaxEntries
  /\ l \in Lists => info[c] = "registered"
  /\ chan_adduser(u, c, l)
  /\ UNCHANGED <<online, info, kicks>>

(* The user is on the AKICK list or has CA_NOJOIN: it is kicked and never  *)
(* gets into the lists.  CI_VERBOTEN is not looked at.                     *)
check_akick(u, c) ==
  /\ Joins(u, c)
  /\ info[c] \in {"registered", "forbidden"}
  /\ kicks' = kicks \cup {<<c, u>>}
  /\ UNCHANGED <<online, members, info>>

(* JOIN 0                                                                  *)
part_all(u) ==
  /\ u \in online
  /\ Leave(OffAll({u}))
  /\ present' = {p \in present : p[2] # u}
  /\ UNCHANGED <<online, info, kicks>>

(* Mutant: PART is left to a KICK of services that is on its way.          *)
do_partKicked(u, c) ==
  /\ <<c, u>> \in present
  /\ IF <<c, u>> \in kicks THEN UNCHANGED members ELSE Leave(Once(u, c))
  /\ present' = present \ {<<c, u>>}
  /\ UNCHANGED <<online, info, kicks>>

(* PART, and a KICK by somebody else than services (do_kick).              *)
do_part(u, c) ==
  /\ <<c, u>> \in present
  /\ Leave(Once(u, c))
  /\ present' = present \ {<<c, u>>}
  /\ UNCHANGED <<online, info, kicks>>

(* A KICK of services gets to the server of the user.                      *)
KickArrives(c, u) ==
  /\ <<c, u>> \in kicks
  /\ kicks' \in {kicks, kicks \ {<<c, u>>}}
  /\ present' = present \ {<<c, u>>}
  /\ stale' = IF users[c][u] > 0 THEN stale \cup {<<c, u>>} ELSE stale
  /\ UNCHANGED <<online, chans, users, lists, live, links, strays, info>>

(* MODE +o or +v.  On a channel without ChannelInfo it is ignored; whether *)
(* the user is on the channel nobody asks.                                 *)
mode_add(u, c, l) ==
  /\ u \in online /\ c \in live
  /\ info[c] # "none"
  /\ lists[c][l][u] = 0
  /\ lists' = [lists EXCEPT ![c][l][u] = 1]
  /\ strays' = IF users[c][u] = 0 THEN strays \cup {<<c, l, u>>} ELSE strays
  /\ UNCHANGED <<online, chans, users, live, links, stale, info, network>>

(* What is left of the lists, with those entries of strays that still      *)
(* stand for something.                                                    *)
SetLists(new) ==
  /\ lists' = new
  /\ strays' = {p \in strays : new[p[1]][p[2]][p[3]] > 0}

mode_del(u, c, l) ==
  /\ lists[c][l][u] > 0
  /\ SetLists([lists EXCEPT ![c][l][u] = @ - 1])
  /\ UNCHANGED <<online, chans, users, live, links, stale, info, network>>
-----------------------------------------------------------------------------
(* What services do of themselves.                                         *)

(* KICK of ChanServ, OperServ and XServ.                                   *)
do_ckick(u, c) ==
  /\ u \in online
  /\ kicks' = kicks \cup {<<c, u>>}
  /\ Leave(Once(u, c))
  /\ UNCHANGED <<online, info, present>>

(* Mutant: the users are taken out of the lists and not off the channel.   *)
clear_usersQuiet(c) ==
  /\ c \in live
  /\ info[c] # "none"
  /\ Leave(AllOff(c))
  /\ UNCHANGED <<online, info, network>>

(* CLEAR USERS and LIMPIA: a KICK for every entry of c->users.             *)
clear_users(c) ==
  /\ c \in live
  /\ info[c] # "none"
  /\ kicks' = kicks \cup {<<c, u>> : u \in {v \in Users : users[c][v] > 0}}
  /\ Leave(AllOff(c))
  /\ UNCHANGED <<online, info, present>>

(* AKICK ADD and AKICK ENFORCE: a KICK for those in c->users who match,    *)
(* and nothing else.                                                       *)
do_achanakick(c, us) ==
  /\ info[c] \in {"registered", "suspended"}
  /\ us \subseteq {u \in Users : users[c][u] > 0}
  /\ kicks' = kicks \cup {<<c, u>> : u \in us}
  /\ UNCHANGED <<online, members, info, present>>

(* A word of the spam list is said on any channel.                         *)
antispamc(u, c) ==
  /\ u \in online
  /\ kicks' = kicks \cup {<<c, u>>}
  /\ UNCHANGED <<online, members, info, present>>

(* CLEAR OPS, CLEAR VOICES, CLEARMODES ALL: every entry, with a MODE.      *)
clear_modes(c, ls) ==
  /\ c \in live
  /\ SetLists([lists EXCEPT ![c] =
                 [l \in Lists |-> IF l \in ls THEN [u \in Users |-> 0] ELSE @[l]]])
  /\ UNCHANGED <<online, chans, users, live, links, stale, info, network>>
-----------------------------------------------------------------------------
(* The ChannelInfo of a channel comes and goes.                            *)

registra_con_creg(c) ==
  /\ info[c] = "none"
  /\ c \in live
  /\ info'    = [info EXCEPT ![c] = "registered"]
  /\ chan_ci' = chan_ci \cup {c}
  /\ info_c'  = info_c \cup {c}
  /\ UNCHANGED <<online, chans, users, lists, live, stale, strays, network>>

(* Mutant: the channel keeps its pointer to the freed record.              *)
UnlinkHalf(c) ==
  /\ UNCHANGED chan_ci
  /\ info_c' = info_c \ {c}

(* ci->c->ci = NULL, and the record with ci->c goes.                       *)
Unlink(c) ==
  /\ chan_ci' = chan_ci \ (info_c \cap {c})
  /\ info_c'  = info_c \ {c}

(* DROP, expiry, removal of the founder, UNFORBID.                         *)
delchan(c) ==
  /\ info[c] # "none"
  /\ info' = [info EXCEPT ![c] = "none"]
  /\ Unlink(c)
  /\ UNCHANGED <<online, chans, users, lists, live, stale, strays, network>>

(* The new record is not linked to the channel, nor the channel to it.     *)
do_forbid(c) ==
  /\ info' = [info EXCEPT ![c] = "forbidden"]
  /\ Unlink(c)
  /\ UNCHANGED <<online, chans, users, lists, live, stale, strays, network>>

(* ChanServ's SUSPEND takes off the ops; on a channel nobody is on, c is   *)
(* NULL and the program ends here.                                         *)
do_suspend(c) ==
  /\ info[c] = "registered"
  /\ c \in live
  /\ info' = [info EXCEPT ![c] = "suspended"]
  /\ SetLists([lists EXCEPT ![c]["chanops"] = [u \in Users |-> 0]])
  /\ UNCHANGED <<online, chans, users, live, links, stale, network>>

(* CReG's, of a suspended channel too, returns after the first of them.    *)
suspende_con_creg(c) ==
  /\ info[c] \in {"registered", "suspended"}
  /\ c \in live
  /\ info' = [info EXCEPT ![c] = "suspended"]
  /\ \E u \in Users :
       /\ lists[c]["chanops"][u] > 0 \/ \A v \in Users : lists[c]["chanops"][v] = 0
       /\ SetLists([lists EXCEPT ![c]["chanops"][u] = IF @ > 0 THEN @ - 1 ELSE 0])
  /\ UNCHANGED <<online, chans, users, live, links, stale, network>>

(* UNSUSPEND, and SET SECUREVOICES ON and STAY ON.                         *)
do_unsuspend(c) ==
  /\ info[c] = "suspended"
  /\ info' = [info EXCEPT ![c] = "registered"]
  /\ UNCHANGED <<online, members, network>>

(* Services start with the channels of the last save and nobody online;    *)
(* the network tells them again who is there.  KICKs of the time before    *)
(* may still be on their way.                                              *)
NoEntries == [c \in Chans |-> [u \in Users |-> 0]]
NoLists   == [c \in Chans |-> [l \in Lists |-> [u \in Users |-> 0]]]
NoChans   == [u \in Users |-> [c \in Chans |-> 0]]

Restart ==
  /\ online' = {} /\ live' = {} /\ chan_ci' = {} /\ info_c' = {}
  /\ chans' = NoChans /\ users' = NoEntries /\ lists' = NoLists
  /\ present' = {} /\ stale' = {} /\ strays' = {}
  /\ info' \in [Chans -> Infos]
  /\ UNCHANGED kicks

Init ==
  /\ online = {} /\ live = {} /\ chan_ci = {} /\ info_c = {}
  /\ chans = NoChans /\ users = NoEntries /\ lists = NoLists
  /\ present = {} /\ stale = {} /\ strays = {}
  /\ info \in [Chans -> Infos]
  /\ kicks = {}

Next ==
  \/ \E u \in Users : new_user(u) \/ part_all(u)
  \/ \E us \in SUBSET Users : delete_user(us)
  \/ \E u \in Users, c \in Chans :
       \/ \E l \in Lists \cup {"none"} : do_join(u, c, l)
       \/ check_akick(u, c) \/ do_part(u, c)
       \/ KickArrives(c, u)
       \/ \E l \in Lists : mode_add(u, c, l) \/ mode_del(u, c, l)
       \/ do_ckick(u, c) \/ antispamc(u, c)
  \/ \E c \in Chans :
       \/ clear_users(c)
       \/ \E us \in SUBSET Users : do_achanakick(c, us)
       \/ \E ls \in SUBSET Lists : clear_modes(c, ls)
       \/ registra_con_creg(c) \/ delchan(c) \/ do_forbid(c)
       \/ do_suspend(c) \/ suspende_con_creg(c) \/ do_unsuspend(c)
  \/ Restart

Spec == Init /\ [][Next]_vars
-----------------------------------------------------------------------------
TypeOK ==
  /\ online \subseteq Users
  /\ chans \in [Users -> [Chans -> Nat]]
  /\ users \in [Chans -> [Users -> Nat]]
  /\ lists \in [Chans -> [Lists -> [Users -> Nat]]]
  /\ live \subseteq Chans
  /\ info \in [Chans -> Infos]
  /\ chan_ci \subseteq Chans /\ info_c \subseteq Chans
  /\ present \subseteq Chans \X Users /\ kicks \subseteq Chans \X Users
  /\ stale \subseteq Chans \X Users
  /\ strays \subseteq Chans \X Lists \X Users

(* The two lists of who is where are the same, entry by entry, a user who  *)
(* is gone is in neither, and a channel is in chanlist[] exactly while it  *)
(* has users.  do_part and delete_user follow c->chan of every entry of    *)
(* user->chans, so the entry of a freed channel, or an entry the channel   *)
(* does not have, is a pointer into freed memory.                          *)
MembershipMirrored ==
  /\ \A u \in Users, c \in Chans : chans[u][c] = users[c][u]
  /\ \A u \in Users \ online, c \in Chans : users[c][u] = 0
  /\ \A c \in Chans : c \in live <=> ~Empty(c)

(* c->ci and ci->c lead to each other or are both NULL, never from or to   *)
(* a freed record, and a channel that is registered and in use has them:   *)
(* DEOP, KICK and CLEAR go through c->ci and take a channel without it for *)
(* an unregistered one, and MLOCK goes through ci->c.                      *)
LinksAgree ==
  /\ chan_ci = info_c
  /\ chan_ci \subseteq live
  /\ \A c \in chan_ci : info[c] # "none"
  /\ \A c \in live : info[c] \in {"registered", "suspended"} => c \in chan_ci

(* The four lists and pointers that say who and what is where agree.       *)
ListsAgree == MembershipMirrored /\ LinksAgree

(* Nobody is on a channel without services knowing, unless they have       *)
(* kicked him off it and the KICK is on its way.                           *)
NobodyUnseen ==
  \A c \in Chans, u \in Users :
    <<c, u>> \in present /\ users[c][u] = 0 => <<c, u>> \in kicks

(* Services list somebody who is not on the channel, or list him twice,    *)
(* only if a KICK of theirs has passed the entry by: it was sent before a  *)
(* PART and a JOIN of the user and carried out after them, or it was one   *)
(* of those that services send without taking the entry out.               *)
GhostsFromKicks ==
  \A c \in Chans, u \in Users :
    <<c, u>> \notin stale =>
      users[c][u] = 0 \/ (users[c][u] = 1 /\ <<c, u>> \in present)

(* Ops and voices are users of the channel, one entry for one entry, but   *)
(* for those that a MODE named who were not on it.  Other entries would    *)
(* point at freed users: delete_user looks only at user->chans.            *)
OpsAreUsers ==
  \A c \in Chans, l \in Lists, u \in Users :
    lists[c][l][u] <= users[c][u] \/ <<c, l, u>> \in strays

=============================================================================
