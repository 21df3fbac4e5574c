----------------------------- MODULE NickExpiry -----------------------------
(***************************************************************************)
(* How registered nicks grow old: expire_nicks of nickserv.c, which main   *)
(* runs every ExpireTimeout, and the commands that change what it reads.   *)
(*                                                                         *)
(* Times are kept as ages, in units of the reader's choice: idle is        *)
(* now - last_seen, age is now - time_registered.  Both stop growing once  *)
(* every limit lies behind them.                                           *)
(***************************************************************************)
EXTENDS Integers

CONSTANTS
  Nicks,
  NSExpire,       \* a nick expires when it was not seen for so long
  NSRegMail,      \* a registration must be confirmed within this time
  Margen,         \* from NSExpire - Margen on a nick is marked for a reminder
  Aviso,          \* from NSExpire - Aviso on the reminder is sent
  ExpireTimeout,  \* main runs expire_nicks at least this often
  Outage,         \* bound: the longest time services are down
  MaxRestarts     \* bound: how often they go down

ASSUME LimitAssumption ==
  /\ NSExpire \in Nat /\ NSRegMail \in Nat /\ Margen \in Nat /\ Aviso \in Nat
  /\ Aviso < Margen /\ Margen < NSExpire
ASSUME PeriodAssumption == ExpireTimeout \in Nat \ {0}
ASSUME BoundAssumption == Outage \in Nat /\ MaxRestarts \in Nat

VARIABLES
  reg,        \* the nicks that have a NickInfo
  flags,      \* the bits of ni->status that expire_nicks reads
  confirmed,  \* ni->active has ACTIV_CONFIRM or ACTIV_FORZADO
  rec,        \* ni->env_mail has MAIL_REC
  idle,       \* now - ni->last_seen
  age,        \* now - ni->time_registered
  stay,       \* "off" with no user of this real_ni; "on", "identified", or "recognized",
              \* which NS_RECOGNIZED hides "identified" behind until the user goes
  since,      \* now - last_expire of main
  restarts,   \* how often services were stopped and started
  warned,     \* history: the idle time at which the reminder was sent, or -1
  excused     \* history: protected or services down during this absence

record     == <<flags, confirmed, rec, idle, age, stay>>
history    == <<warned, excused>>
expiryVars == <<reg, record, since, restarts, history>>
-----------------------------------------------------------------------------
Exempting == {"VERBOTEN", "NO_EXPIRE", "SUSPENDED"}
Exempt(n) == flags[n] \cap Exempting # {}
Barred(n) == flags[n] \cap {"VERBOTEN", "SUSPENDED"} # {}

(* Beyond these ages nothing changes any more.                             *)
MaxIdle == NSExpire + ExpireTimeout
MaxAge  == NSRegMail
(* Bound: how far SET TIMEREG puts a registration into the future.         *)
MinAge  == -NSRegMail
Upto(x, max) == IF x < max THEN x ELSE max

Fresh(f, n, x) == [f EXCEPT ![n] = x]

(* last_seen of the nicks in S is set to now: the absence is over.         *)
Seen(S) ==
  /\ idle'    = [n \in Nicks |-> IF n \in S THEN 0 ELSE idle[n]]
  /\ warned'  = [n \in Nicks |-> IF n \in S THEN -1 ELSE warned[n]]
  /\ excused' = [n \in Nicks |-> IF n \in S THEN Exempt(n) ELSE excused[n]]
-----------------------------------------------------------------------------
(* REGISTER by a user who has taken the nick: makenick zeroes the record.  *)
Register(n) ==
  /\ n \notin reg
  /\ reg'       = reg \cup {n}
  /\ flags'     = Fresh(flags, n, {})
  /\ confirmed' = Fresh(confirmed, n, NSRegMail = 0)
  /\ rec'       = Fresh(rec, n, FALSE)
  /\ idle'      = Fresh(idle, n, 0)
  /\ age'       = Fresh(age, n, 0)
  /\ stay'      = Fresh(stay, n, "on")
  /\ warned'    = Fresh(warned, n, -1)
  /\ excused'   = Fresh(excused, n, FALSE)
  /\ UNCHANGED <<since, restarts>>

(* A user takes a registered nick.  Only validate_user's access list test  *)
(* sets last_seen; a nick in the network's table (ON_BDD) skips it.        *)
Connect(n) ==
  /\ n \in reg /\ stay[n] = "off"
  /\ \/ /\ stay' = Fresh(stay, n, "on")
        /\ UNCHANGED <<idle, history>>
     \/ /\ ~Barred(n)
        /\ stay' = Fresh(stay, n, "recognized")
        /\ Seen({n})
  /\ UNCHANGED <<reg, flags, confirmed, rec, age, since, restarts>>

(* QUIT and KILL set last_seen for a user who has proved who it is.        *)
Quit(n) ==
  /\ stay[n] # "off"
  /\ stay' = Fresh(stay, n, "off")
  /\ IF stay[n] \in {"identified", "recognized"} /\ ~Barred(n)
       THEN Seen({n}) ELSE UNCHANGED <<idle, history>>
  /\ UNCHANGED <<reg, flags, confirmed, rec, age, since, restarts>>

(* Another nick, SQUIT, GHOST or a kill by services: last_seen is left.    *)
LeaveNick(n) ==
  /\ stay[n] # "off"
  /\ stay' = Fresh(stay, n, "off")
  /\ UNCHANGED <<reg, flags, confirmed, rec, idle, age, since, restarts, history>>

(* The proof of identity is also a visit, unless the access list had it.   *)
Proved(n) ==
  /\ stay' = Fresh(stay, n, IF stay[n] = "on" THEN "identified" ELSE stay[n])
  /\ IF stay[n] = "recognized" THEN UNCHANGED <<idle, history>> ELSE Seen({n})
  /\ UNCHANGED <<reg, flags, confirmed, rec, age, since, restarts>>

Identify(n) ==
  /\ n \in reg /\ stay[n] # "off"
  /\ "SUSPENDED" \notin flags[n]
  /\ Proved(n)

(* MODE +r or +S from the network.                                         *)
UmodeRegistered(n) ==
  /\ n \in reg /\ stay[n] # "off"
  /\ ~Barred(n)
  /\ Proved(n)

(* CONFIRM by the user, VALIDAR by a services admin.                       *)
Confirm(n) ==
  /\ n \in reg /\ stay[n] # "off" /\ ~confirmed[n]
  /\ confirmed' = Fresh(confirmed, n, TRUE)
  /\ UNCHANGED <<reg, flags, rec, idle, age, stay, since, restarts, history>>

Validar(n) ==
  /\ n \in reg /\ ~confirmed[n]
  /\ confirmed' = Fresh(confirmed, n, TRUE)
  /\ UNCHANGED <<reg, flags, rec, idle, age, stay, since, restarts, history>>

(* SUSPEND and FORBID, which take the identification away.                *)
Bar(n, flag) ==
  /\ n \in reg /\ ~Barred(n)
  /\ flags'   = Fresh(flags, n, flags[n] \cup {flag})
  /\ stay'    = Fresh(stay, n, IF stay[n] = "identified" THEN "on" ELSE stay[n])
  /\ excused' = Fresh(excused, n, TRUE)
  /\ UNCHANGED <<reg, confirmed, rec, idle, age, since, restarts, warned>>

(* SET NOEXPIRE ON; like a ban it excuses the absence.                     *)
SetNoexpire(n) ==
  /\ n \in reg
  /\ flags'   = Fresh(flags, n, flags[n] \cup {"NO_EXPIRE"})
  /\ excused' = Fresh(excused, n, TRUE)
  /\ UNCHANGED <<reg, confirmed, rec, idle, age, stay, since, restarts, warned>>

(* SET TIMEREG by a services root moves time_registered either way.        *)
SetTimereg(n) ==
  /\ n \in reg
  /\ \E x \in MinAge .. MaxAge : age' = Fresh(age, n, x)
  /\ UNCHANGED <<reg, flags, confirmed, rec, idle, stay, since, restarts, history>>

(* UNSUSPEND, UNFORBID and SET NOEXPIRE OFF.                               *)
ClearFlag(n, flag) ==
  /\ n \in reg /\ flag \in flags[n]
  /\ flags' = Fresh(flags, n, flags[n] \ {flag})
  /\ UNCHANGED <<reg, confirmed, rec, idle, age, stay, since, restarts, history>>

(* delnick: the records of S are freed, and with them what they said.      *)
delnick(S) ==
  /\ reg'       = reg \ S
  /\ flags'     = [n \in Nicks |-> IF n \in S THEN {} ELSE flags[n]]
  /\ confirmed' = [n \in Nicks |-> n \notin S /\ confirmed[n]]
  /\ age'       = [n \in Nicks |-> IF n \in S THEN 0 ELSE age[n]]
  /\ stay'      = [n \in Nicks |-> IF n \in S THEN "off" ELSE stay[n]]

Drop(n) ==
  /\ n \in reg /\ "VERBOTEN" \notin flags[n]
  /\ delnick({n})
  /\ rec' = Fresh(rec, n, FALSE)
  /\ Seen({n})
  /\ UNCHANGED <<since, restarts>>
-----------------------------------------------------------------------------
(* The chain of conditions of expire_nicks, for the idle time i that the   *)
(* loop over the connected users has left.                                 *)
Marks(n, i)   == /\ NSExpire - Margen < i /\ i < NSExpire - Aviso
                 /\ ~Exempt(n) /\ ~rec[n]
Reminds(n, i) == i >= NSExpire - Aviso /\ ~Exempt(n) /\ rec[n]
Expires(n, i) == i >= NSExpire /\ ~Exempt(n) /\ ~rec[n]
Overdue(n)    == age[n] >= NSRegMail /\ ~confirmed[n]

(* Mutant of Idle: the users are not looked at.                            *)
IdleForgets(n) == idle[n]
Idle(n) == IF stay[n] # "off" THEN 0 ELSE idle[n]

Fate(n) ==
  IF Marks(n, Idle(n))        THEN "mark"
  ELSE IF Reminds(n, Idle(n)) THEN "remind"
  ELSE IF Expires(n, Idle(n)) THEN "expire"
  ELSE IF Overdue(n)          THEN "unconfirmed"
  ELSE "keep"
Fated(fates) == {n \in reg : Fate(n) \in fates}

(* Mutant of NewMark: the mark stays when the reminder is sent.            *)
NewMarkStays(n) == rec[n] \/ Fate(n) = "mark"
(* Mutant of NewMark: only a run in the window can mark or unmark.         *)
NewMarkSkips(n) == Fate(n) = "mark"
NewMark(n) == \/ Fate(n) = "mark"
              \/ rec[n] /\ Fate(n) \notin {"remind", "expire", "unconfirmed"}

expire_nicks ==
  LET gone == Fated({"expire", "unconfirmed"})
  IN /\ delnick(gone)
     /\ rec'     = [n \in Nicks |-> n \in reg /\ NewMark(n)]
     /\ idle'    = [n \in Nicks |-> IF n \in gone THEN 0 ELSE Idle(n)]
     /\ warned'  = [n \in Nicks |->
                      IF n \in gone \/ stay[n] # "off" THEN -1
                      ELSE IF n \in Fated({"remind"}) THEN idle[n] ELSE warned[n]]
     /\ excused' = [n \in Nicks |->
                      IF n \in gone THEN FALSE
                      ELSE IF stay[n] # "off" THEN Exempt(n) ELSE excused[n]]

(* The main loop: expire routines run when ExpireTimeout has passed, or    *)
(* earlier when an operator asks for an update (save_data).                *)
ExpireNicks ==
  /\ expire_nicks
  /\ since' = 0
  /\ UNCHANGED restarts

Older(d) ==
  /\ idle' = [n \in Nicks |-> IF n \in reg THEN Upto(idle[n] + d, MaxIdle) ELSE 0]
  /\ age'  = [n \in Nicks |-> IF n \in reg THEN Upto(age[n] + d, MaxAge) ELSE 0]

TickExpiry ==
  /\ since < ExpireTimeout
  /\ since' = since + 1
  /\ Older(1)
  /\ UNCHANGED <<reg, flags, confirmed, rec, stay, restarts, history>>

(* Services stop and start again: the database says what it said, the users*)
(* have to come back, and last_expire is the time of the start.            *)
Restart ==
  /\ restarts < MaxRestarts
  /\ restarts' = restarts + 1
  /\ \E d \in 1 .. Outage : Older(d)
  /\ stay'    = [n \in Nicks |-> "off"]
  /\ since'   = 0
  /\ excused' = [n \in Nicks |-> n \in reg]
  /\ UNCHANGED <<reg, flags, confirmed, rec, warned>>
-----------------------------------------------------------------------------
ExpiryInit ==
  /\ reg       = {}
  /\ flags     = [n \in Nicks |-> {}]
  /\ confirmed = [n \in Nicks |-> FALSE]
  /\ rec       = [n \in Nicks |-> FALSE]
  /\ idle      = [n \in Nicks |-> 0]
  /\ age       = [n \in Nicks |-> 0]
  /\ stay      = [n \in Nicks |-> "off"]
  /\ since     = 0
  /\ restarts  = 0
  /\ warned    = [n \in Nicks |-> -1]
  /\ excused   = [n \in Nicks |-> FALSE]

NickCommand(n) ==
  \/ Register(n) \/ Connect(n) \/ Quit(n) \/ LeaveNick(n)
  \/ Identify(n) \/ UmodeRegistered(n) \/ Confirm(n) \/ Validar(n) \/ Drop(n)
  \/ Bar(n, "SUSPENDED") \/ Bar(n, "VERBOTEN") \/ SetNoexpire(n)
  \/ SetTimereg(n)
  \/ \E flag \in Exempting : ClearFlag(n, flag)

ExpiryNext ==
  \/ \E n \in Nicks : NickCommand(n)
  \/ ExpireNicks
  \/ TickExpiry
  \/ Restart

ExpirySpec == ExpiryInit /\ [][ExpiryNext]_expiryVars

(* The main loop goes on: time passes and the expire routines are run.     *)
FairExpirySpec == ExpirySpec /\ WF_expiryVars(TickExpiry) /\ WF_expiryVars(ExpireNicks /\ since = ExpireTimeout)
-----------------------------------------------------------------------------

(* expire_nicks takes no confirmed nick from a connected user, however long*)
(* ago the user came and whatever was not updated since.                   *)
ConnectedKeep ==
  [][ExpireNicks => \A n \in reg \ reg' : confirmed[n] => stay[n] = "off"]_expiryVars

(* A nick that expires was sent its reminder during the same absence, and  *)
(* had nearly all the time the reminder promises (Aviso less one round of  *)
(* the loop) to come back - unless the absence was excused: the nick was   *)
(* protected for a while, or services were down.                           *)
Grace == Aviso + 1 - ExpireTimeout
WarnedInTime ==
  [][ExpireNicks => \A n \in Fated({"expire"}) :
       \/ excused[n]
       \/ warned[n] >= 0 /\ idle[n] - warned[n] >= Grace]_expiryVars

(* An abandoned nick that nothing protects does expire.                    *)
Abandoned(n) == n \in reg /\ stay[n] = "off" /\ ~Exempt(n)
AbandonedExpires == \A n \in Nicks : Abandoned(n) ~> ~Abandoned(n)

=============================================================================
