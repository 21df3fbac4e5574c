------------------------------ MODULE Pending -------------------------------
(***************************************************************************)
(* The two lists of things to do at the next expiry: the user limits of    *)
(* autolimit.c, which ChanServ sets behind the joins of a channel, and the *)
(* newcomers of registrate.c, whom NickServ greets two minutes after they  *)
(* took a nick that nobody has registered.  Both files are written and     *)
(* never read: a restart fills the lists from the burst of the network.    *)
(*                                                                         *)
(* A channel has one name here: PART looks for the spelling of the         *)
(* registration and JOIN for that of the network.                          *)
(***************************************************************************)
EXTENDS Clock, Lists

CONSTANTS
  LChans, LNicks,
  Greeting,               \* the 2m before a newcomer is greeted
  Tramo1, Tramo2, Tramo3, Incr1, Incr2, Incr3,  \* the configuration
  MaxUsers,               \* bound: users of a channel
  MaxWaiting              \* bound: entries for newcomers

ASSUME TramosAssumption ==   \* example.conf asks for it
  /\ {Tramo1, Tramo2, Tramo3, Incr1, Incr2, Incr3} \subseteq Nat \ {0}
  /\ Tramo1 < Tramo2 /\ Tramo2 < Tramo3
ASSUME PendingAssumption == {Greeting, MaxUsers, MaxWaiting} \subseteq Nat

VARIABLES
  alimits,     \* the array: channel and limit; all are due at once
  aregistras,  \* the array: nick and when it is greeted
  erab,        \* how many users each channel has
  auto,        \* channels with CI_AUTOLIMIT
  limit,       \* the +l each channel has on the network, 0 for none
  stale,       \* history: channels whose limit was not looked at since SET AUTOLIMIT
  online,      \* nicks in use
  owned,       \* nicks that are registered
  newcomers    \* history: nicks whose user still waits for the greeting

limitVars == <<alimits, erab, auto, limit, stale>>
greetVars == <<aregistras, online, owned, newcomers>>
pendingVars == <<limitVars, greetVars>>

----------------------------------------------------------------------------
(* Limits.                                                                 *)

del_alimit(list, c) == RemoveFirstMatch(list, LAMBDA e : e.chan = c)
add_alimit(list, c, n) == Append(list, [chan |-> c, numero |-> n])

Gap(n) == n >= Tramo2 /\ n < Tramo3

(* The limit after a join, and what the join leaves in the list; between   *)
(* Tramo2 and Tramo3 nothing.                                              *)
LimitOnJoin(n) == n + (IF n < Tramo1 THEN Incr1 ELSE IF n < Tramo2 THEN Incr2 ELSE Incr3)
canal_autolimit(list, c, n) ==
  IF c \notin auto \/ Gap(n) THEN list
  ELSE add_alimit(del_alimit(list, c), c, LimitOnJoin(n))

chan_adduser(c) ==
  /\ erab[c] < MaxUsers
  /\ erab' = [erab EXCEPT ![c] = @ + 1]
  /\ alimits' = canal_autolimit(alimits, c, erab[c] + 1)
  /\ stale' = IF c \in auto /\ ~Gap(erab[c] + 1) THEN stale \ {c} ELSE stale
  /\ UNCHANGED <<auto, limit, greetVars>>

(* PART sets the limit itself, from the users before the one who leaves is *)
(* taken out.  The network forgets the limit of an empty channel.          *)
SetOnPart(c) == erab[c] - 1 +
  (IF erab[c] < Tramo1 THEN Incr1 ELSE IF erab[c] < Tramo3 THEN Incr2 ELSE Incr3)

(* Mutant: the users are counted as if the one who leaves were out already.*)
sale_autolimitTwice(c) ==
  /\ alimits' = IF c \in auto THEN del_alimit(alimits, c) ELSE alimits
  /\ limit' = [limit EXCEPT ![c] = IF erab[c] = 1 THEN 0
                                   ELSE IF c \in auto THEN SetOnPart(c) - 1 ELSE @]

sale_autolimit(c) ==
  /\ alimits' = IF c \in auto THEN del_alimit(alimits, c) ELSE alimits
  /\ limit' = [limit EXCEPT ![c] = IF erab[c] = 1 THEN 0
                                   ELSE IF c \in auto THEN SetOnPart(c) ELSE @]

do_part(c) ==
  /\ erab[c] > 0
  /\ sale_autolimit(c)
  /\ erab' = [erab EXCEPT ![c] = @ - 1]
  /\ stale' = IF c \in auto THEN stale \ {c} ELSE stale
  /\ UNCHANGED <<auto, greetVars>>

(* KICK, QUIT and KILL do not look at the limit.                           *)
chan_deluser(c) ==
  /\ erab[c] > 0
  /\ erab' = [erab EXCEPT ![c] = @ - 1]
  /\ limit' = IF erab[c] = 1 THEN [limit EXCEPT ![c] = 0] ELSE limit
  /\ UNCHANGED <<alimits, auto, stale, greetVars>>

(* SET AUTOLIMIT, which leaves the entry and the limit there are.          *)
do_set_autolimit(c) ==
  /\ auto' = IF c \in auto THEN auto \ {c} ELSE auto \cup {c}
  /\ stale' = stale \cup {c}
  /\ UNCHANGED <<alimits, erab, limit, greetVars>>

(* Every entry is due: the last of a channel decides.                      *)
expire_alimits ==
  LET Last4(c) == SelectLastInSeq(alimits, LAMBDA e : e.chan = c)
  IN  /\ alimits' = <<>>
      /\ limit' = [c \in LChans |-> IF Last4(c) # 0 /\ erab[c] > 0
                                    THEN alimits[Last4(c)].numero ELSE limit[c]]
      /\ UNCHANGED <<erab, auto, stale, greetVars>>

----------------------------------------------------------------------------
(* Newcomers.                                                              *)

add_aregistra(list, n) == Append(list, [nick |-> n, expires |-> now + Greeting])
del_aregistra(list, n) == RemoveFirstMatch(list, LAMBDA e : e.nick = n)

do_nick_new(n) ==
  /\ n \notin online /\ Len(aregistras) < MaxWaiting
  /\ online' = online \cup {n}
  /\ IF n \in owned THEN UNCHANGED <<aregistras, newcomers>>
     ELSE aregistras' = add_aregistra(aregistras, n) /\ newcomers' = newcomers \cup {n}
  /\ UNCHANGED <<owned, limitVars>>

(* Mutant: the new entry is made first, and the entry of the nick the user *)
(* has by then is the one that is taken out.                               *)
do_nick_changeAfter(n, m) ==
  /\ n \in online /\ m \notin online /\ Len(aregistras) < MaxWaiting
  /\ online' = (online \ {n}) \cup {m}
  /\ aregistras' = del_aregistra(IF m \in owned THEN aregistras
                                 ELSE add_aregistra(aregistras, m), m)
  /\ newcomers' = (newcomers \ {n}) \cup ({m} \ owned)
  /\ UNCHANGED <<owned, limitVars>>

do_nick_change(n, m) ==
  /\ n \in online /\ m \notin online /\ Len(aregistras) < MaxWaiting
  /\ online' = (online \ {n}) \cup {m}
  /\ aregistras' = LET rest == del_aregistra(aregistras, n)
                   IN IF m \in owned THEN rest ELSE add_aregistra(rest, m)
  /\ newcomers' = (newcomers \ {n}) \cup ({m} \ owned)
  /\ UNCHANGED <<owned, limitVars>>

do_quit(n) ==
  /\ n \in online
  /\ online' = online \ {n} /\ newcomers' = newcomers \ {n}
  /\ aregistras' = del_aregistra(aregistras, n)
  /\ UNCHANGED <<owned, limitVars>>

(* KILL and SQUIT leave the entry.                                         *)
delete_user(n) ==
  /\ n \in online
  /\ online' = online \ {n} /\ newcomers' = newcomers \ {n}
  /\ UNCHANGED <<aregistras, owned, limitVars>>

(* REGISTER and DROP, which leave the entry too.                           *)
Registered(n) ==
  /\ owned' = IF n \in owned THEN owned \ {n} ELSE owned \cup {n}
  /\ UNCHANGED <<aregistras, online, newcomers, limitVars>>

(* The greeting goes to whoever has the nick.                              *)
expire_aregistras ==
  LET due == {i \in DOMAIN aregistras : aregistras[i].expires <= now}
  IN  /\ aregistras' = Remaining(aregistras, DOMAIN aregistras \ due)
      /\ newcomers' = newcomers \ {aregistras[i].nick : i \in due}
      /\ UNCHANGED <<online, owned, limitVars>>

----------------------------------------------------------------------------
(* Services start again: the network sends the users and then the members  *)
(* of the channels one by one, in some order.  The last join of a channel  *)
(* that counts leaves its entry.                                           *)
Rejoined(c) == IF Gap(erab[c]) THEN Tramo2 - 1 ELSE erab[c]
Burst ==
  /\ \E order \in SetToSeqs(auto \cap {c \in LChans : erab[c] > 0}) :
       alimits' = [i \in DOMAIN order |->
         [chan |-> order[i], numero |-> LimitOnJoin(Rejoined(order[i]))]]
  /\ \E order \in SetToSeqs(online \ owned) :
       aregistras' = [i \in DOMAIN order |->
         [nick |-> order[i], expires |-> now + Greeting]]
  /\ newcomers' = online \ owned
  /\ stale' = {c \in stale : c \notin auto \/ erab[c] = 0}
  /\ UNCHANGED <<erab, auto, limit, online, owned>>

PendingInit ==
  /\ alimits = <<>> /\ erab = [c \in LChans |-> 0] /\ auto = {} /\ stale = {}
  /\ limit = [c \in LChans |-> 0]
  /\ aregistras = <<>> /\ online = {} /\ owned = {} /\ newcomers = {}

LimitsNext ==
  \/ \E c \in LChans : chan_adduser(c) \/ do_part(c) \/ chan_deluser(c) \/ do_set_autolimit(c)
  \/ expire_alimits
  \/ Burst
NewcomersNext ==
  \/ \E n \in LNicks : do_nick_new(n) \/ do_quit(n) \/ delete_user(n) \/ Registered(n)
  \/ \E n, m \in LNicks : do_nick_change(n, m)
  \/ expire_aregistras
  \/ Burst

(* Joins, parts and the timer between them never leave a channel with      *)
(* AUTOLIMIT full below Tramo2: once no change is pending the limit is     *)
(* above the number of users.  From Tramo2 to Tramo3 joins change nothing, *)
(* and a channel may fill up.                                              *)
LimitLeavesRoom == \A c \in auto \ stale :
  /\ erab[c] \in 1..(Tramo2 - 1)
  /\ \A i \in DOMAIN alimits : alimits[i].chan # c
  => limit[c] = 0 \/ limit[c] > erab[c]

(* A channel has one change pending.                                       *)
OneLimitPerChan == \A i, j \in DOMAIN alimits : alimits[i].chan = alimits[j].chan => i = j

(* A newcomer who stays is greeted: whoever leaves, is killed, comes back  *)
(* or changes nicks, the entry a waiting user's nick has is not taken away *)
(* with another's.                                                         *)
NewcomersWait == \A n \in newcomers : \E i \in DOMAIN aregistras : aregistras[i].nick = n
=============================================================================
