------------------------------ MODULE NickServ ------------------------------
(***************************************************************************)
(* The protection of registered nicks: the NickInfo records of nickserv.c, *)
(* the User structures of users.c that point at them (user->real_ni), and  *)
(* the collide/release timeouts that nickserv.c keeps both in the list of  *)
(* timeout.c and in its private list my_timeouts.                          *)
(*                                                                         *)
(* A NickInfo is named by its nick.  A record that is deleted is freed by  *)
(* the C program at once; a pointer that still leads to it is kept in the  *)
(* model with the mark "stale" (users) or "freed" (timeouts).  Using such  *)
(* a pointer is undefined: the model lets the code act on what the memory  *)
(* last held, or do nothing.                                               *)
(***************************************************************************)
EXTENDS Naturals, FiniteSets

CONSTANTS
  Users,            \* the User structures services may hold at one time
  Nicks,            \* the nicknames in play
  Registrable,      \* bound: those of them that users register
  NULL,             \* no nick (the user is not connected), no record
  KillModes,        \* what SET KILL makes of NI_KILLPROTECT, NI_KILL_QUICK, NI_KILL_IMMED
  Secure,           \* NI_SECURE
  NSForceNickChange,
  NSRegMail,        \* registrations must be confirmed by mail
  CollideQuick,     \* the 20 seconds of NI_KILL_QUICK
  CollideSlow,      \* the 60 seconds of plain NI_KILLPROTECT
  NSReleaseTimeout,
  TimeoutCheck,     \* main runs check_timeouts at least this often
  MaxTime,          \* bound: no user starts a timeout later than this
  MaxTimeouts       \* bound: nick timeouts that users start, pending at once

ASSUME NullAssumption == NULL \notin Nicks
ASSUME RegistrableAssumption == Registrable \subseteq Nicks
ASSUME KillModeAssumption == KillModes \subseteq {"off", "slow", "quick", "immed"}
ASSUME SwitchAssumption ==
  Secure \in BOOLEAN /\ NSForceNickChange \in BOOLEAN /\ NSRegMail \in BOOLEAN
ASSUME DelayAssumption ==
  /\ CollideQuick \in Nat /\ CollideSlow \in Nat /\ NSReleaseTimeout \in Nat
  /\ TimeoutCheck \in Nat /\ MaxTime \in Nat /\ MaxTimeouts \in Nat

VARIABLES
  now,       \* time(NULL)
  reg,       \* the nicks that have a NickInfo
  status,    \* ni->status
  active,    \* ni->active
  nick,      \* user->nick, NULL when the user is not connected
  real_ni,   \* user->real_ni
  stale,     \* the users whose real_ni leads to freed memory
  signon,    \* user->my_signon
  timeouts,  \* the nick timeouts pending in the list of timeout.c
  cursor     \* check_timeouts has still to visit the slots up to this one

users == <<nick, real_ni, stale, signon>>
vars  == <<now, reg, status, active, nick, real_ni, stale, signon,
           timeouts, cursor>>
-----------------------------------------------------------------------------
(* The bits of ni->status the protection reads.                            *)
Temporary == {"IDENTIFIED", "RECOGNIZED", "KILL_HELD"}
Permanent == {"VERBOTEN", "SUSPENDED", "ON_BDD"}
Activity  == {"PROCESO", "CONFIRM", "FORZADO"}

(* struct my_timeout and the Timeout it points to.  Both lists grow at the *)
(* head, so one number, the slot, gives the position in both: the higher,  *)
(* the nearer to the head.  "listed" tells whether a walk of my_timeouts   *)
(* still reaches the entry.                                                *)
(* A collide that runs out starts a release, hence the second half.        *)
Slots   == 1 .. 2 * MaxTimeouts
Timeout == [slot : Slots, ni : Nicks, freed : BOOLEAN,
            type : {"COLLIDE", "RELEASE"}, settime : Nat, due : Nat,
            listed : BOOLEAN]

Online(n)   == \E u \in Users : nick[u] = n
Matches(T, n, freed, type) ==
  {t \in T : t.listed /\ t.ni = n /\ t.freed = freed /\ t.type = type}

(* add_ns_timeout inserts an entry without setting the prev pointer of the *)
(* entry that was first, so every prev is null and taking an entry out     *)
(* makes the one after it the first: all the newer ones are lost.          *)
Unlink(T, M) ==
  {[t EXCEPT !.listed = t.listed /\ \A m \in M : t.slot < m.slot] : t \in T}

rem_ns_timeout(T, n, freed, type) == Unlink(T, Matches(T, n, freed, type))

del_ns_timeout(T, n, freed, type) ==
  LET M == Matches(T, n, freed, type) IN Unlink(T \ M, M)

FreeSlot(T, s) ==
  /\ \A t \in T : t.slot < s
  /\ s = 1 \/ \E t \in T : t.slot = s - 1
Room(T) == now <= MaxTime /\ \E s \in 1 .. MaxTimeouts : FreeSlot(T, s)

add_ns_timeout(T, n, freed, type, delay) ==
  T \cup {[slot |-> CHOOSE s \in Slots : FreeSlot(T, s),
           ni |-> n, freed |-> freed, type |-> type,
           settime |-> now, due |-> now + delay, listed |-> TRUE]}

(* Mutant of CancelStatus: the flags stay when the user goes.              *)
CancelStatusForgets(u) == status

(* cancel_user: the nick's temporary flags go, and the collide timeouts    *)
(* that my_timeouts still shows.                                           *)
CancelStatus(u) ==
  [n \in Nicks |-> IF n = real_ni[u] /\ u \notin stale
                     THEN status[n] \ Temporary ELSE status[n]]
CancelTimeouts(T, u) == del_ns_timeout(T, real_ni[u], u \in stale, "COLLIDE")

(* new_user and change_user_nick: findnick gives real_ni.                  *)
findnick(n) == IF n \in reg THEN n ELSE NULL
-----------------------------------------------------------------------------
(* What validate_user decides about a user who has just taken nick n, whose*)
(* status is s; onAccess tells whether the access list shows the address,  *)
(* mode what SET KILL was last told.                                       *)
Verdict(n, s, onAccess, mode) ==
  IF n \notin reg                              THEN "unregistered"
  ELSE IF "IDENTIFIED" \in s \/ "ON_BDD" \in s THEN "valid"
  ELSE IF "VERBOTEN" \in s                     THEN "forbidden"
  ELSE IF "SUSPENDED" \in s                    THEN "suspended"
  ELSE IF onAccess /\ ~Secure                  THEN "recognized"
  ELSE IF ~onAccess                            THEN mode
  ELSE "off"

CollideDelay(verdict) == IF verdict = "quick" THEN CollideQuick ELSE CollideSlow

(* collide without NSForceNickChange: kill_user deletes the User, the nick *)
(* is held by an enforcer, and its release is scheduled.  Status s and     *)
(* timeouts T are those that cancel_user leaves.                           *)
HoldStatus(s, n)  == [s EXCEPT ![n] = @ \cup {"KILL_HELD"}]
HoldTimeouts(T, n, freed) ==
  add_ns_timeout(T, n, freed, "RELEASE", NSReleaseTimeout)

RemoveUser(u) ==
  /\ nick'    = [nick EXCEPT ![u] = NULL]
  /\ real_ni' = [real_ni EXCEPT ![u] = NULL]
  /\ stale'   = stale \ {u}
  /\ signon'  = [signon EXCEPT ![u] = 0]

(* u becomes n, with statuses s and timeouts T on entry to validate_user.  *)
TakeNick(u, n, s, T) ==
  \E onAccess \in BOOLEAN, mode \in KillModes :
    LET v == Verdict(n, s[n], onAccess, mode)
        T1 == del_ns_timeout(T, n, FALSE, "COLLIDE")
    IN \/ /\ v = "immed" /\ ~NSForceNickChange
          /\ Room(T1)
          /\ timeouts' = HoldTimeouts(T1, n, FALSE)
          /\ status' = HoldStatus([s EXCEPT ![n] = @ \ Temporary], n)
          /\ RemoveUser(u)
       \/ /\ v # "immed" \/ NSForceNickChange
          /\ nick'    = [nick EXCEPT ![u] = n]
          /\ real_ni' = [real_ni EXCEPT ![u] = findnick(n)]
          /\ stale'   = stale \ {u}
          /\ signon'  = [signon EXCEPT ![u] = now]
          /\ status'  = IF v = "recognized"
                          THEN [s EXCEPT ![n] = @ \cup {"RECOGNIZED"}] ELSE s
          /\ IF v \in {"forbidden", "slow", "quick"}
               THEN /\ Room(T)
                    /\ timeouts' =
                         add_ns_timeout(T, n, FALSE, "COLLIDE", CollideDelay(v))
               ELSE timeouts' = IF v = "immed" THEN T1 ELSE T
-----------------------------------------------------------------------------
Idle == cursor = 0      \* check_timeouts is not running

(* NICK from the network for a user services do not know yet.              *)
NewUser(u, n) ==
  /\ Idle
  /\ nick[u] = NULL
  /\ ~Online(n)
  /\ TakeNick(u, n, status, timeouts)
  /\ UNCHANGED <<now, reg, active, cursor>>

(* NICK from the network for a known user.                                 *)
ChangeNick(u, n) ==
  /\ Idle
  /\ nick[u] # NULL
  /\ ~Online(n)
  /\ IF findnick(n) = NULL /\ real_ni[u] = NULL
       THEN TakeNick(u, n, status, timeouts)
       ELSE TakeNick(u, n, CancelStatus(u), CancelTimeouts(timeouts, u))
  /\ UNCHANGED <<now, reg, active, cursor>>

(* delete_user, which QUIT, KILL, GHOST and a bad password all end in.     *)
DeleteUser(u) ==
  /\ Idle
  /\ nick[u] # NULL
  /\ status' = CancelStatus(u)
  /\ timeouts' = CancelTimeouts(timeouts, u)
  /\ RemoveUser(u)
  /\ UNCHANGED <<now, reg, active, cursor>>

(* MODE +r or +S: the server has checked the password in its own table.    *)
UmodeRegistered(u) ==
  /\ Idle
  /\ nick[u] \in reg
  /\ status[nick[u]] \cap {"SUSPENDED", "VERBOTEN"} = {}
  /\ status' = [status EXCEPT ![nick[u]] = @ \cup {"IDENTIFIED"}]
  /\ UNCHANGED <<now, reg, active, users, timeouts, cursor>>

(* Mutant of Identify: the suspension is not looked at.                    *)
IdentifyUnchecked(u) ==
  /\ Idle
  /\ real_ni[u] # NULL /\ u \notin stale
  /\ status' = [status EXCEPT ![real_ni[u]] = @ \cup {"IDENTIFIED"}]
  /\ UNCHANGED <<now, reg, active, users, timeouts, cursor>>

(* IDENTIFY with the right password.                                       *)
Identify(u) ==
  /\ Idle
  /\ real_ni[u] # NULL /\ u \notin stale
  /\ "SUSPENDED" \notin status[real_ni[u]]
  /\ status' = [status EXCEPT ![real_ni[u]] = @ \cup {"IDENTIFIED"}]
  /\ UNCHANGED <<now, reg, active, users, timeouts, cursor>>

(* Mutant of Register: the user does not get the new record.               *)
RegisterUnlinked(u) ==
  /\ Idle
  /\ nick[u] # NULL /\ nick[u] \in Registrable
  /\ real_ni[u] = NULL
  /\ reg'     = reg \cup {nick[u]}
  /\ status'  = [status EXCEPT ![nick[u]] = {"ON_BDD"}]
  /\ active'  = [active EXCEPT ![nick[u]] = "PROCESO"]
  /\ UNCHANGED <<now, users, timeouts, cursor>>

(* REGISTER: makenick, and the new record becomes the user's.              *)
Register(u) ==
  /\ Idle
  /\ nick[u] # NULL /\ nick[u] \in Registrable
  /\ real_ni[u] = NULL
  /\ reg'     = reg \cup {nick[u]}
  /\ status'  = [status EXCEPT ![nick[u]] = {"ON_BDD"}]
  /\ active'  = [active EXCEPT ![nick[u]] =
                   IF NSRegMail THEN "PROCESO" ELSE "CONFIRM"]
  /\ real_ni' = [real_ni EXCEPT ![u] = nick[u]]
  /\ UNCHANGED <<now, nick, stale, signon, timeouts, cursor>>

(* CONFIRM with the key that was mailed.                                   *)
Confirm(u) ==
  /\ Idle
  /\ nick[u] \in reg
  /\ active[nick[u]] = "PROCESO"
  /\ active' = [active EXCEPT ![nick[u]] = "CONFIRM"]
  /\ UNCHANGED <<now, reg, status, users, timeouts, cursor>>

(* VALIDAR by a services admin.                                            *)
Validar(n) ==
  /\ Idle
  /\ n \in reg
  /\ active[n] = "PROCESO"
  /\ active' = [active EXCEPT ![n] = "FORZADO"]
  /\ UNCHANGED <<now, reg, status, users, timeouts, cursor>>

(* delnick frees the records of S.  Neither the users that point at them   *)
(* nor the pending timeouts are looked for.                                *)
delnick(S) ==
  /\ reg'      = reg \ S
  /\ status'   = [n \in Nicks |-> IF n \in S THEN {} ELSE status[n]]
  /\ active'   = [n \in Nicks |-> IF n \in S THEN "PROCESO" ELSE active[n]]
  /\ timeouts' = {[t EXCEPT !.freed = @ \/ t.ni \in S] : t \in timeouts}

(* DROP without a nick: the user drops the nick in use.                    *)
DropOwn(u) ==
  /\ Idle
  /\ real_ni[u] # NULL /\ u \notin stale
  /\ "IDENTIFIED" \in status[real_ni[u]]
  /\ "VERBOTEN" \notin status[real_ni[u]]
  /\ delnick({real_ni[u]})
  /\ real_ni' = [real_ni EXCEPT ![u] = NULL]
  /\ stale'   = stale \cup {v \in Users \ {u} : real_ni[v] = real_ni[u]}
  /\ UNCHANGED <<now, nick, signon, cursor>>

(* DROP nick by a services coadmin: the user of that nick, if there is one,*)
(* loses the pointer.                                                      *)
DropNick(n) ==
  /\ Idle
  /\ n \in reg
  /\ "VERBOTEN" \notin status[n]
  /\ delnick({n})
  /\ real_ni' = [u \in Users |-> IF nick[u] = n THEN NULL ELSE real_ni[u]]
  /\ stale'   = {u \in Users : nick[u] # n /\ (u \in stale \/ real_ni[u] = n)}
  /\ UNCHANGED <<now, nick, signon, cursor>>

(* Mutant of Suspend: a user who has identified stays identified.          *)
SuspendKeeps(n) ==
  /\ Idle
  /\ n \in reg
  /\ status[n] \cap {"VERBOTEN", "SUSPENDED"} = {}
  /\ status' = [status EXCEPT ![n] = @ \cup {"SUSPENDED"}]
  /\ UNCHANGED <<now, reg, active, users, timeouts, cursor>>

Suspend(n) ==
  /\ Idle
  /\ n \in reg
  /\ status[n] \cap {"VERBOTEN", "SUSPENDED"} = {}
  /\ status' = [status EXCEPT ![n] = (@ \cup {"SUSPENDED"}) \ {"IDENTIFIED"}]
  /\ UNCHANGED <<now, reg, active, users, timeouts, cursor>>

Unsuspend(n) ==
  /\ Idle
  /\ n \in reg
  /\ "SUSPENDED" \in status[n]
  /\ status' = [status EXCEPT ![n] = @ \ {"SUSPENDED"}]
  /\ UNCHANGED <<now, reg, active, users, timeouts, cursor>>

Forbid(n) ==
  /\ Idle
  /\ n \in reg
  /\ status[n] \cap {"VERBOTEN", "SUSPENDED"} = {}
  /\ status' = [status EXCEPT ![n] = (@ \cup {"VERBOTEN"}) \ {"IDENTIFIED"}]
  /\ UNCHANGED <<now, reg, active, users, timeouts, cursor>>

Unforbid(n) ==
  /\ Idle
  /\ n \in reg
  /\ "VERBOTEN" \in status[n]
  /\ status' = [status EXCEPT ![n] = @ \ {"VERBOTEN"}]
  /\ UNCHANGED <<now, reg, active, users, timeouts, cursor>>

(* SET BDD ON and OFF by a services admin.                                 *)
SetBdd(n, on) ==
  /\ Idle
  /\ n \in reg
  /\ status' = [status EXCEPT ![n] = IF on THEN @ \cup {"ON_BDD"}
                                           ELSE @ \ {"ON_BDD"}]
  /\ UNCHANGED <<now, reg, active, users, timeouts, cursor>>

(* expire_nicks deletes the records that were not seen for NSExpire (a     *)
(* connected user's nick has just been seen) and those not confirmed       *)
(* within NSRegMail.  The ages are not kept here: module NickExpiry does.  *)
Idled(n)       == ~\E u \in Users : real_ni[u] = n /\ u \notin stale
MayExpire(n)   == \/ Idled(n) /\ status[n] \cap {"VERBOTEN", "SUSPENDED"} = {}
                  \/ active[n] = "PROCESO"
ExpireNicks ==
  /\ Idle
  /\ \E S \in (SUBSET reg) \ {{}} :
       /\ \A n \in S : MayExpire(n)
       /\ delnick(S)
       /\ stale' = stale \cup {u \in Users : real_ni[u] \in S}
  /\ UNCHANGED <<now, nick, real_ni, signon, cursor>>

(* The main loop calls check_timeouts every TimeoutCheck seconds, so no    *)
(* timeout is overdue by more.                                             *)
Tick ==
  /\ Idle
  /\ now < MaxTime \/ timeouts # {}
  /\ \A t \in timeouts : now < t.due + TimeoutCheck
  /\ now' = now + 1
  /\ UNCHANGED <<reg, status, active, users, timeouts, cursor>>
-----------------------------------------------------------------------------
(* check_timeouts: from the head of the list to its end, the entries that  *)
(* are due are called and then taken out.                                  *)
Due(t) == t.due <= now /\ t.slot <= cursor
Visited(t) == Due(t) /\ \A o \in timeouts : Due(o) => o.slot <= t.slot

StartTimeouts ==
  /\ Idle
  /\ \E t \in timeouts : t.due <= now
  /\ cursor' = 2 * MaxTimeouts
  /\ UNCHANGED <<now, reg, status, active, users, timeouts>>

EndTimeouts ==
  /\ ~Idle
  /\ ~\E t \in timeouts : Due(t)
  /\ cursor' = 0
  /\ UNCHANGED <<now, reg, status, active, users, timeouts>>

(* The entry t, as it is while my_timeouts shows it and afterwards.        *)
Entry(t) == {t, [t EXCEPT !.listed = FALSE]}

(* timeout_collide gives up.                                               *)
CollideSpared(t) ==
  \/ "IDENTIFIED" \in status[t.ni]
  \/ ~Online(t.ni)
  \/ \E u \in Users : nick[u] = t.ni /\ signon[u] > t.settime

SpareCollide(t) ==
  /\ timeouts' = rem_ns_timeout(timeouts, t.ni, t.freed, "COLLIDE") \ Entry(t)
  /\ UNCHANGED <<status, users>>

(* timeout_collide goes on to collide.  Of a freed record only the user it *)
(* kills is left in the model.                                             *)
CarryCollide(t) ==
  LET T1 == rem_ns_timeout(timeouts, t.ni, t.freed, "COLLIDE")
  IN IF NSForceNickChange
       THEN /\ timeouts' = T1 \ Entry(t)
            /\ UNCHANGED <<status, users>>
       ELSE \E u \in Users :
              /\ nick[u] = t.ni
              /\ LET T2 == CancelTimeouts(T1, u)
                 IN /\ \E s \in Slots : FreeSlot(T2, s)
                    /\ timeouts' = HoldTimeouts(T2, t.ni, t.freed) \ Entry(t)
              /\ status' = IF t.freed THEN CancelStatus(u)
                                      ELSE HoldStatus(CancelStatus(u), t.ni)
              /\ RemoveUser(u)

TimeoutCollide(t) ==
  /\ t.type = "COLLIDE"
  /\ \/ /\ t.freed \/ CollideSpared(t)
        /\ SpareCollide(t)
     \/ /\ t.freed \/ ~CollideSpared(t)
        /\ Online(t.ni)
        /\ CarryCollide(t)

(* Mutant of TimeoutRelease: the flag of the hold is not cleared.          *)
TimeoutReleaseKeeps(t) ==
  /\ t.type = "RELEASE"
  /\ timeouts' = rem_ns_timeout(timeouts, t.ni, t.freed, "RELEASE") \ Entry(t)
  /\ UNCHANGED <<status, users>>

(* timeout_release: the enforcer leaves and the hold ends.                 *)
TimeoutRelease(t) ==
  /\ t.type = "RELEASE"
  /\ timeouts' = rem_ns_timeout(timeouts, t.ni, t.freed, "RELEASE") \ Entry(t)
  /\ status' = IF t.freed THEN status
                          ELSE [status EXCEPT ![t.ni] = @ \ {"KILL_HELD"}]
  /\ UNCHANGED users

RunTimeout ==
  /\ ~Idle
  /\ \E t \in timeouts :
       /\ Visited(t)
       /\ TimeoutCollide(t) \/ TimeoutRelease(t)
       /\ cursor' = t.slot - 1
  /\ UNCHANGED <<now, reg, active>>
-----------------------------------------------------------------------------
(* The start: the database has been read (load_ns_dbase drops the          *)
(* temporary flags) and nobody is connected yet.                           *)
Init ==
  /\ now = 0
  /\ reg \in SUBSET Registrable
  /\ status \in [Nicks -> SUBSET Permanent]
  /\ \A n \in Nicks : /\ ~({"VERBOTEN", "SUSPENDED"} \subseteq status[n])
                      /\ n \notin reg => status[n] = {}
  /\ active \in [Nicks -> Activity]
  /\ \A n \in Nicks \ reg : active[n] = "PROCESO"
  /\ nick = [u \in Users |-> NULL]
  /\ real_ni = [u \in Users |-> NULL]
  /\ stale = {}
  /\ signon = [u \in Users |-> 0]
  /\ timeouts = {}
  /\ cursor = 0

UserStep(u) ==
  \/ \E n \in Nicks : NewUser(u, n) \/ ChangeNick(u, n)
  \/ DeleteUser(u)
  \/ UmodeRegistered(u)
  \/ Identify(u)
  \/ Register(u)
  \/ Confirm(u)
  \/ DropOwn(u)

StaffStep(n) ==
  \/ DropNick(n)
  \/ Validar(n)
  \/ Suspend(n)
  \/ Unsuspend(n)
  \/ Forbid(n)
  \/ Unforbid(n)
  \/ \E on \in BOOLEAN : SetBdd(n, on)

LoopStep == ExpireNicks \/ Tick \/ StartTimeouts \/ RunTimeout \/ EndTimeouts

Next ==
  \/ \E u \in Users : UserStep(u)
  \/ \E n \in Nicks : StaffStep(n)
  \/ LoopStep

Spec == Init /\ [][Next]_vars

(* The main loop never stops going round: time passes and check_timeouts   *)
(* is called and finishes.                                                 *)
Fairness == /\ WF_vars(Tick)
            /\ WF_vars(StartTimeouts)
            /\ WF_vars(RunTimeout)
            /\ WF_vars(EndTimeouts)
FairSpec == Spec /\ Fairness
-----------------------------------------------------------------------------
TypeOK ==
  /\ now \in Nat
  /\ reg \in SUBSET Nicks
  /\ status \in [Nicks -> SUBSET (Permanent \cup Temporary)]
  /\ active \in [Nicks -> Activity]
  /\ nick \in [Users -> Nicks \cup {NULL}]
  /\ real_ni \in [Users -> Nicks \cup {NULL}]
  /\ stale \in SUBSET Users
  /\ signon \in [Users -> Nat]
  /\ timeouts \in SUBSET Timeout
  /\ cursor \in Nat

(* A connected user's real_ni is the record of the nick in use whenever    *)
(* there is one, and never the record of another nick: new_user,           *)
(* change_user_nick, do_register, do_drop and delnick keep it so together. *)
(* Only a record that expire_nicks took from under the user may leave it   *)
(* stale, and then the nick has no record.                                 *)
RealNiFollowsNick ==
  \A u \in Users :
    /\ nick[u] \in reg => real_ni[u] = nick[u] /\ u \notin stale
    /\ nick[u] \notin reg => real_ni[u] = NULL \/ u \in stale
    /\ u \in stale => nick[u] # NULL /\ real_ni[u] = nick[u]

(* The proof of identity given for a nick (IDENTIFY, MODE +r) or taken from*)
(* its access list never outlives the stay of the user who gave it:        *)
(* cancel_user clears it on every way out.                                 *)
TemporaryNeedsUser ==
  \A n \in Nicks : status[n] \cap {"IDENTIFIED", "RECOGNIZED"} # {} => Online(n)

(* Nobody is identified for a suspended nick, whichever of SUSPEND,        *)
(* IDENTIFY and MODE +r comes first.                                       *)
SuspendedNotIdentified ==
  \A n \in Nicks : "SUSPENDED" \in status[n] => "IDENTIFIED" \notin status[n]

(* Every hold comes to its end: release() runs, or the user of the nick or *)
(* the record itself goes first.                                           *)
HoldEnds ==
  \A n \in Nicks : "KILL_HELD" \in status[n] ~> "KILL_HELD" \notin status[n]

(* The records, pointers and timeouts keep the promise of NickSession: the *)
(* seat is user->nick, proved is NS_IDENTIFIED, barred is NS_SUSPENDED.    *)
Flagged(flag) == {n \in Nicks : flag \in status[n]}
Session == INSTANCE NickSession WITH
  seat   <- nick,
  proved <- Flagged("IDENTIFIED"),
  barred <- Flagged("SUSPENDED")
ImplementsSession == Session!SessionSpec

(* nickserv.c:1547 says in timeout_collide "If they identified or don't    *)
(* exist anymore, don't kill them."                                        *)
IdentifiedNotCollided ==
  [][\A u \in Users :
       /\ RunTimeout
       /\ nick[u] \in reg /\ "IDENTIFIED" \in status[nick[u]]
       => nick'[u] = nick[u]]_vars
=============================================================================
