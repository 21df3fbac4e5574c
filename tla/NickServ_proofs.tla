--------------------------- MODULE NickServ_proofs ---------------------------
(***************************************************************************)
(* Proofs about NickServ, for every number of users and nicks and for every*)
(* value of the delays and of the configuration switches.                  *)
(***************************************************************************)
EXTENDS NickServ, TLAPS

(* Walking and cutting the private list changes no entry but its mark.     *)
LEMMA UnlinkType ==
  ASSUME NEW T \in SUBSET Timeout, NEW M
  PROVE  Unlink(T, M) \in SUBSET Timeout
<1>1. SUFFICES ASSUME NEW t \in T
               PROVE  [t EXCEPT !.listed =
                         t.listed /\ \A m \in M : t.slot < m.slot] \in Timeout
  BY DEF Unlink
<1>2. t \in Timeout
  OBVIOUS
<1>3. (t.listed /\ \A m \in M : t.slot < m.slot) \in BOOLEAN
  OBVIOUS
<1> QED
  BY <1>2, <1>3 DEF Timeout

LEMMA RemType ==
  ASSUME NEW T \in SUBSET Timeout, NEW n, NEW freed, NEW type
  PROVE  rem_ns_timeout(T, n, freed, type) \in SUBSET Timeout
BY UnlinkType DEF rem_ns_timeout

LEMMA DelType ==
  ASSUME NEW T \in SUBSET Timeout, NEW n, NEW freed, NEW type
  PROVE  del_ns_timeout(T, n, freed, type) \in SUBSET Timeout
<1>1. T \ Matches(T, n, freed, type) \in SUBSET Timeout
  OBVIOUS
<1> QED
  BY <1>1, UnlinkType DEF del_ns_timeout

(* A free slot is taken when there is one.                                 *)
LEMMA AddType ==
  ASSUME NEW T \in SUBSET Timeout, NEW n \in Nicks, NEW freed \in BOOLEAN,
         NEW type \in {"COLLIDE", "RELEASE"}, NEW delay \in Nat, now \in Nat,
         \E s \in Slots : FreeSlot(T, s)
  PROVE  add_ns_timeout(T, n, freed, type, delay) \in SUBSET Timeout
<1> DEFINE s == CHOOSE s \in Slots : FreeSlot(T, s)
<1>1. s \in Slots
  OBVIOUS
<1> HIDE DEF s
<1>2. [slot |-> s, ni |-> n, freed |-> freed, type |-> type,
       settime |-> now, due |-> now + delay, listed |-> TRUE] \in Timeout
  BY <1>1 DEF Timeout
<1> QED
  BY <1>2 DEF add_ns_timeout, s

LEMMA RoomGivesSlot ==
  ASSUME NEW T, Room(T)
  PROVE  \E s \in Slots : FreeSlot(T, s)
<1>1. 1 .. MaxTimeouts \subseteq Slots
  BY DelayAssumption DEF Slots
<1> QED
  BY <1>1 DEF Room

LEMMA CancelType ==
  ASSUME TypeOK, NEW u \in Users, NEW T \in SUBSET Timeout
  PROVE  /\ CancelStatus(u) \in [Nicks -> SUBSET (Permanent \cup Temporary)]
         /\ CancelTimeouts(T, u) \in SUBSET Timeout
BY DelType DEF TypeOK, CancelStatus, CancelTimeouts

LEMMA HoldType ==
  ASSUME now \in Nat, NEW T \in SUBSET Timeout,
         NEW s \in [Nicks -> SUBSET (Permanent \cup Temporary)],
         NEW n \in Nicks, NEW freed \in BOOLEAN,
         \E k \in Slots : FreeSlot(T, k)
  PROVE  /\ HoldStatus(s, n) \in [Nicks -> SUBSET (Permanent \cup Temporary)]
         /\ HoldTimeouts(T, n, freed) \in SUBSET Timeout
<1>1. HoldTimeouts(T, n, freed) \in SUBSET Timeout
  BY AddType, DelayAssumption DEF HoldTimeouts
<1>2. "KILL_HELD" \in Temporary
  BY DEF Temporary
<1> QED
  BY <1>1, <1>2 DEF HoldStatus

(* Whatever a user takes, the statuses and timeouts keep their types.      *)
LEMMA TakeNickType ==
  ASSUME TypeOK, NEW u \in Users, NEW n \in Nicks,
         NEW s \in [Nicks -> SUBSET (Permanent \cup Temporary)],
         NEW T \in SUBSET Timeout,
         TakeNick(u, n, s, T)
  PROVE  /\ status' \in [Nicks -> SUBSET (Permanent \cup Temporary)]
         /\ timeouts' \in SUBSET Timeout
         /\ nick' \in [Users -> Nicks \cup {NULL}]
         /\ real_ni' \in [Users -> Nicks \cup {NULL}]
         /\ stale' \in SUBSET Users
         /\ signon' \in [Users -> Nat]
<1> DEFINE T1 == del_ns_timeout(T, n, FALSE, "COLLIDE")
<1>1. T1 \in SUBSET Timeout
  BY DelType
<1> HIDE DEF T1
<1>2. PICK onAccess \in BOOLEAN, mode \in KillModes :
        LET v == Verdict(n, s[n], onAccess, mode)
        IN \/ /\ v = "immed" /\ ~NSForceNickChange
              /\ Room(T1)
              /\ timeouts' = HoldTimeouts(T1, n, FALSE)
              /\ status' = HoldStatus([s EXCEPT ![n] = @ \ Temporary], n)
              /\ RemoveUser(u)
           \/ /\ v # "immed" \/ NSForceNickChange
              /\ nick'    = [nick EXCEPT ![u] = n]
              /\ real_ni' = [real_ni EXCEPT ![u] = findnick(n)]
              /\ stale'   = stale \ {u}
              /\ signon'  = [signon EXCEPT ![u] = now]
              /\ status'  = IF v = "recognized"
                              THEN [s EXCEPT ![n] = @ \cup {"RECOGNIZED"}]
                              ELSE s
              /\ IF v \in {"forbidden", "slow", "quick"}
                   THEN /\ Room(T)
                        /\ timeouts' =
                             add_ns_timeout(T, n, FALSE, "COLLIDE",
                                            CollideDelay(v))
                   ELSE timeouts' = IF v = "immed" THEN T1 ELSE T
  BY DEF TakeNick, T1
<1> DEFINE v == Verdict(n, s[n], onAccess, mode)
<1> HIDE DEF v
<1>3. CASE Room(T1) /\ timeouts' = HoldTimeouts(T1, n, FALSE)
           /\ status' = HoldStatus([s EXCEPT ![n] = @ \ Temporary], n)
           /\ RemoveUser(u)
  <2>1. [s EXCEPT ![n] = @ \ Temporary] \in
          [Nicks -> SUBSET (Permanent \cup Temporary)]
    OBVIOUS
  <2> DEFINE s1 == [s EXCEPT ![n] = @ \ Temporary]
  <2>a. now \in Nat
    BY DEF TypeOK
  <2>b. \E k \in Slots : FreeSlot(T1, k)
    BY <1>3, RoomGivesSlot
  <2>2. /\ status' \in [Nicks -> SUBSET (Permanent \cup Temporary)]
        /\ timeouts' \in SUBSET Timeout
    <3> HIDE DEF s1
    <3>1. s1 \in [Nicks -> SUBSET (Permanent \cup Temporary)]
      BY <2>1 DEF s1
    <3>2. /\ HoldStatus(s1, n) \in [Nicks -> SUBSET (Permanent \cup Temporary)]
          /\ HoldTimeouts(T1, n, FALSE) \in SUBSET Timeout
      BY <1>1, <2>a, <2>b, <3>1, HoldType
    <3> QED
      BY <1>3, <3>2 DEF s1
  <2> QED
    BY <1>3, <2>2 DEF RemoveUser, TypeOK
<1>4. CASE /\ nick'    = [nick EXCEPT ![u] = n]
           /\ real_ni' = [real_ni EXCEPT ![u] = findnick(n)]
           /\ stale'   = stale \ {u}
           /\ signon'  = [signon EXCEPT ![u] = now]
           /\ status'  = IF v = "recognized"
                           THEN [s EXCEPT ![n] = @ \cup {"RECOGNIZED"}] ELSE s
           /\ IF v \in {"forbidden", "slow", "quick"}
                THEN /\ Room(T)
                     /\ timeouts' =
                          add_ns_timeout(T, n, FALSE, "COLLIDE", CollideDelay(v))
                ELSE timeouts' = IF v = "immed" THEN T1 ELSE T
  <2>1. CollideDelay(v) \in Nat
    BY DelayAssumption DEF CollideDelay
  <2>2. timeouts' \in SUBSET Timeout
    <3>1. CASE v \in {"forbidden", "slow", "quick"}
      <4>1. \E k \in Slots : FreeSlot(T, k)
        BY <1>4, <3>1, RoomGivesSlot
      <4>2. now \in Nat
        BY DEF TypeOK
      <4>3. add_ns_timeout(T, n, FALSE, "COLLIDE", CollideDelay(v))
              \in SUBSET Timeout
        BY <2>1, <4>1, <4>2, AddType
      <4> QED
        BY <1>4, <3>1, <4>3
    <3>2. CASE v \notin {"forbidden", "slow", "quick"}
      BY <1>1, <1>4, <3>2
    <3> QED
      BY <3>1, <3>2
  <2>3. status' \in [Nicks -> SUBSET (Permanent \cup Temporary)]
    BY <1>4 DEF Temporary
  <2> QED
    BY <1>4, <2>2, <2>3 DEF TypeOK, findnick
<1> QED
  BY <1>2, <1>3, <1>4 DEF v

(* delnick keeps the types of the records and of the timeouts it marks.    *)
LEMMA DelnickType ==
  ASSUME TypeOK, NEW S \in SUBSET Nicks, delnick(S)
  PROVE  /\ reg' \in SUBSET Nicks
         /\ status' \in [Nicks -> SUBSET (Permanent \cup Temporary)]
         /\ active' \in [Nicks -> Activity]
         /\ timeouts' \in SUBSET Timeout
<1>1. ASSUME NEW t \in timeouts
      PROVE  [t EXCEPT !.freed = @ \/ t.ni \in S] \in Timeout
  <2>1. t \in Timeout /\ (t.freed \/ t.ni \in S) \in BOOLEAN
    BY DEF TypeOK
  <2> QED
    BY <2>1 DEF Timeout
<1> QED
  BY <1>1 DEF TypeOK, delnick, Activity

(* A timeout that fires keeps the types.                                   *)
LEMMA FireType ==
  ASSUME TypeOK, NEW t \in timeouts, TimeoutCollide(t) \/ TimeoutRelease(t)
  PROVE  /\ status' \in [Nicks -> SUBSET (Permanent \cup Temporary)]
         /\ timeouts' \in SUBSET Timeout
         /\ nick' \in [Users -> Nicks \cup {NULL}]
         /\ real_ni' \in [Users -> Nicks \cup {NULL}]
         /\ stale' \in SUBSET Users
         /\ signon' \in [Users -> Nat]
<1> DEFINE T1 == rem_ns_timeout(timeouts, t.ni, t.freed, "COLLIDE")
<1>1. t.ni \in Nicks /\ t.freed \in BOOLEAN /\ now \in Nat
  BY DEF TypeOK, Timeout
<1>2. T1 \in SUBSET Timeout
  BY RemType DEF TypeOK
<1>3. CASE TimeoutRelease(t)
  <2>1. rem_ns_timeout(timeouts, t.ni, t.freed, "RELEASE") \in SUBSET Timeout
    BY RemType DEF TypeOK
  <2> QED
    BY <1>1, <1>3, <2>1 DEF TimeoutRelease, TypeOK, users
<1>4. CASE SpareCollide(t)
  BY <1>2, <1>4 DEF SpareCollide, TypeOK, users
<1>5. CASE CarryCollide(t) /\ NSForceNickChange
  BY <1>2, <1>5 DEF CarryCollide, TypeOK, users
<1>6. CASE CarryCollide(t) /\ ~NSForceNickChange
  <2> HIDE DEF T1
  <2>1. PICK u \in Users :
          /\ \E k \in Slots : FreeSlot(CancelTimeouts(T1, u), k)
          /\ timeouts' = HoldTimeouts(CancelTimeouts(T1, u), t.ni, t.freed)
                           \ Entry(t)
          /\ status' = IF t.freed THEN CancelStatus(u)
                                  ELSE HoldStatus(CancelStatus(u), t.ni)
          /\ RemoveUser(u)
    BY <1>6 DEF CarryCollide, T1
  <2>2. /\ CancelStatus(u) \in [Nicks -> SUBSET (Permanent \cup Temporary)]
        /\ CancelTimeouts(T1, u) \in SUBSET Timeout
    BY <1>2, CancelType
  <2> DEFINE T2 == CancelTimeouts(T1, u)
             s2 == CancelStatus(u)
  <2>3. T2 \in SUBSET Timeout /\ \E k \in Slots : FreeSlot(T2, k)
    BY <2>1, <2>2
  <2>4. s2 \in [Nicks -> SUBSET (Permanent \cup Temporary)]
    BY <2>2
  <2> HIDE DEF T2, s2
  <2>5. /\ HoldStatus(s2, t.ni) \in [Nicks -> SUBSET (Permanent \cup Temporary)]
        /\ HoldTimeouts(T2, t.ni, t.freed) \in SUBSET Timeout
    BY <1>1, <2>3, <2>4, HoldType
  <2>6. RemoveUser(u)
    BY <2>1
  <2>7. /\ status' \in [Nicks -> SUBSET (Permanent \cup Temporary)]
        /\ timeouts' \in SUBSET Timeout
    BY <2>1, <2>4, <2>5 DEF T2, s2
  <2> QED
    BY <2>6, <2>7 DEF RemoveUser, TypeOK
<1> QED
  BY <1>3, <1>4, <1>5, <1>6 DEF TimeoutCollide

(* Every step keeps the types.                                             *)
LEMMA TypeStep ==
  ASSUME TypeOK, [Next]_vars
  PROVE  TypeOK'
<1>1. ASSUME NEW u \in Users, NEW n \in Nicks, NewUser(u, n)
      PROVE  TypeOK'
  <2>1. /\ status \in [Nicks -> SUBSET (Permanent \cup Temporary)]
        /\ timeouts \in SUBSET Timeout
    BY DEF TypeOK
  <2>2. TakeNick(u, n, status, timeouts)
    BY <1>1 DEF NewUser
  <2> QED
    BY <1>1, <2>1, <2>2, TakeNickType DEF NewUser, TypeOK
<1>2. ASSUME NEW u \in Users, NEW n \in Nicks, ChangeNick(u, n)
      PROVE  TypeOK'
  <2>1. /\ status \in [Nicks -> SUBSET (Permanent \cup Temporary)]
        /\ timeouts \in SUBSET Timeout
    BY DEF TypeOK
  <2>2. /\ CancelStatus(u) \in [Nicks -> SUBSET (Permanent \cup Temporary)]
        /\ CancelTimeouts(timeouts, u) \in SUBSET Timeout
    BY <2>1, CancelType
  <2>3. /\ status' \in [Nicks -> SUBSET (Permanent \cup Temporary)]
        /\ timeouts' \in SUBSET Timeout
        /\ nick' \in [Users -> Nicks \cup {NULL}]
        /\ real_ni' \in [Users -> Nicks \cup {NULL}]
        /\ stale' \in SUBSET Users
        /\ signon' \in [Users -> Nat]
    <3>1. CASE TakeNick(u, n, status, timeouts)
      BY <2>1, <3>1, TakeNickType
    <3>2. CASE TakeNick(u, n, CancelStatus(u), CancelTimeouts(timeouts, u))
      BY <2>2, <3>2, TakeNickType
    <3> QED
      BY <1>2, <3>1, <3>2 DEF ChangeNick
  <2> QED
    BY <1>2, <2>3 DEF ChangeNick, TypeOK
<1>3. ASSUME NEW u \in Users, DeleteUser(u)
      PROVE  TypeOK'
  <2>1. /\ CancelStatus(u) \in [Nicks -> SUBSET (Permanent \cup Temporary)]
        /\ CancelTimeouts(timeouts, u) \in SUBSET Timeout
    BY CancelType DEF TypeOK
  <2> QED
    BY <1>3, <2>1 DEF DeleteUser, RemoveUser, TypeOK
<1>4. ASSUME NEW u \in Users, UmodeRegistered(u) \/ Identify(u)
      PROVE  TypeOK'
  BY <1>4 DEF UmodeRegistered, Identify, TypeOK, Temporary, users
<1>5. ASSUME NEW u \in Users, Register(u) \/ Confirm(u)
      PROVE  TypeOK'
  BY <1>5, NullAssumption
  DEF Register, Confirm, TypeOK, Permanent, Activity, users
<1>6. ASSUME NEW u \in Users, DropOwn(u)
      PROVE  TypeOK'
  <2>1. {real_ni[u]} \in SUBSET Nicks
    BY <1>6 DEF DropOwn, TypeOK
  <2>2. delnick({real_ni[u]})
    BY <1>6 DEF DropOwn
  <2>3. /\ reg' \in SUBSET Nicks
        /\ status' \in [Nicks -> SUBSET (Permanent \cup Temporary)]
        /\ active' \in [Nicks -> Activity]
        /\ timeouts' \in SUBSET Timeout
    BY <2>1, <2>2, DelnickType
  <2> QED
    BY <1>6, <2>3 DEF DropOwn, TypeOK
<1>7. ASSUME NEW n \in Nicks, DropNick(n)
      PROVE  TypeOK'
  <2>1. {n} \in SUBSET Nicks /\ delnick({n})
    BY <1>7 DEF DropNick
  <2>2. /\ reg' \in SUBSET Nicks
        /\ status' \in [Nicks -> SUBSET (Permanent \cup Temporary)]
        /\ active' \in [Nicks -> Activity]
        /\ timeouts' \in SUBSET Timeout
    BY <2>1, DelnickType
  <2> QED
    BY <1>7, <2>2 DEF DropNick, TypeOK
<1>8. ASSUME NEW n \in Nicks,
             Suspend(n) \/ Unsuspend(n) \/ Forbid(n) \/ Unforbid(n)
      PROVE  TypeOK'
  BY <1>8
  DEF Suspend, Unsuspend, Forbid, Unforbid, TypeOK, Permanent, users
<1>9. ASSUME NEW n \in Nicks, Validar(n) \/ \E on \in BOOLEAN : SetBdd(n, on)
      PROVE  TypeOK'
  BY <1>9 DEF Validar, SetBdd, TypeOK, Permanent, Activity, users
<1>10. ASSUME ExpireNicks
       PROVE  TypeOK'
  <2>1. PICK S \in SUBSET reg : /\ delnick(S)
                                /\ stale' = stale \cup {u \in Users : real_ni[u] \in S}
    BY <1>10 DEF ExpireNicks
  <2>2. S \in SUBSET Nicks
    BY DEF TypeOK
  <2>3. /\ reg' \in SUBSET Nicks
        /\ status' \in [Nicks -> SUBSET (Permanent \cup Temporary)]
        /\ active' \in [Nicks -> Activity]
        /\ timeouts' \in SUBSET Timeout
    BY <2>1, <2>2, DelnickType
  <2> QED
    BY <1>10, <2>1, <2>3 DEF ExpireNicks, TypeOK
<1>11. ASSUME Tick \/ StartTimeouts \/ EndTimeouts
       PROVE  TypeOK'
  BY <1>11, DelayAssumption
  DEF Tick, StartTimeouts, EndTimeouts, TypeOK, users
<1>12. ASSUME RunTimeout
       PROVE  TypeOK'
  <2>1. PICK t \in timeouts : /\ TimeoutCollide(t) \/ TimeoutRelease(t)
                              /\ cursor' = t.slot - 1
    BY <1>12 DEF RunTimeout
  <2>2. cursor' \in Nat
    BY <2>1, DelayAssumption DEF TypeOK, Timeout, Slots
  <2> QED
    BY <1>12, <2>1, <2>2, FireType DEF RunTimeout, TypeOK
<1>13. CASE UNCHANGED vars
  BY <1>13 DEF vars, TypeOK
<1> QED
  BY <1>1, <1>2, <1>3, <1>4, <1>5, <1>6, <1>7, <1>8, <1>9, <1>10, <1>11,
     <1>12, <1>13
  DEF Next, UserStep, StaffStep, LoopStep

(* The type invariant: the variables keep their types in every run.        *)
THEOREM TypeCorrect == Spec => []TypeOK
<1>1. Init => TypeOK
  BY RegistrableAssumption DEF Init, TypeOK, Temporary
<1>2. TypeOK /\ [Next]_vars => TypeOK'
  BY TypeStep
<1> QED
  BY <1>1, <1>2, PTL DEF Spec
-----------------------------------------------------------------------------
(* The inductive invariant.  To see that cancel_user always finds what it  *)
(* has to clear, real_ni must follow the nick, and a nick without a record *)
(* must have no flags; a pending timeout that is not marked as freed leads *)
(* to a record, so firing it gives no flag to a nick without one.          *)
NoRecordNoStatus == \A n \in Nicks \ reg : status[n] = {}
Live(T) == \A t \in T : t.freed \/ t.ni \in reg
OneSeat == \A u, v \in Users : nick[u] # NULL /\ nick[u] = nick[v] => u = v
NickInv == /\ TypeOK
           /\ OneSeat
           /\ Live(timeouts)
           /\ RealNiFollowsNick
           /\ NoRecordNoStatus
           /\ TemporaryNeedsUser
           /\ SuspendedNotIdentified

(* The two ways a user who takes a nick may end: seated, or collided.      *)
Seated(u, n, s) ==
  /\ nick'    = [nick EXCEPT ![u] = n]
  /\ real_ni' = [real_ni EXCEPT ![u] = findnick(n)]
  /\ stale'   = stale \ {u}
  /\ \/ status' = s
     \/ n \in reg /\ status' = [s EXCEPT ![n] = @ \cup {"RECOGNIZED"}]
Collided(u, n, s) ==
  /\ n \in reg
  /\ RemoveUser(u)
  /\ status' = [s EXCEPT ![n] = (@ \ Temporary) \cup {"KILL_HELD"}]

LEMMA TakeNickEffect ==
  ASSUME NEW u \in Users, NEW n \in Nicks,
         NEW s \in [Nicks -> SUBSET (Permanent \cup Temporary)], NEW T,
         TakeNick(u, n, s, T)
  PROVE  Seated(u, n, s) \/ Collided(u, n, s)
<1>1. PICK onAccess \in BOOLEAN, mode \in KillModes :
        LET v == Verdict(n, s[n], onAccess, mode)
        IN \/ /\ v = "immed"
              /\ status' = HoldStatus([s EXCEPT ![n] = @ \ Temporary], n)
              /\ RemoveUser(u)
           \/ /\ nick'    = [nick EXCEPT ![u] = n]
              /\ real_ni' = [real_ni EXCEPT ![u] = findnick(n)]
              /\ stale'   = stale \ {u}
              /\ status'  = IF v = "recognized"
                              THEN [s EXCEPT ![n] = @ \cup {"RECOGNIZED"}]
                              ELSE s
  BY DEF TakeNick
<1>2. CASE n \notin reg
  BY <1>1, <1>2 DEF Verdict, Seated
<1>3. CASE n \in reg
  <2>1. HoldStatus([s EXCEPT ![n] = @ \ Temporary], n)
          = [s EXCEPT ![n] = (@ \ Temporary) \cup {"KILL_HELD"}]
    BY DEF HoldStatus
  <2> QED
    BY <1>1, <1>3, <2>1 DEF Seated, Collided
<1> QED
  BY <1>2, <1>3

(* A timeout that fires kills one user, ends a hold, or does neither.      *)
Fired == \/ UNCHANGED <<status, users>>
         \/ /\ UNCHANGED users
            /\ \E n \in Nicks :
                 status' = [status EXCEPT ![n] = @ \ {"KILL_HELD"}]
         \/ \E u \in Users :
              /\ nick[u] \in Nicks
              /\ RemoveUser(u)
              /\ \/ status' = CancelStatus(u)
                 \/ nick[u] \in reg /\ status' = HoldStatus(CancelStatus(u), nick[u])

LEMMA FireEffect ==
  ASSUME NickInv, NEW t \in timeouts, TimeoutCollide(t) \/ TimeoutRelease(t)
  PROVE  Fired
<1>1. t.ni \in Nicks /\ (t.freed \/ t.ni \in reg)
  BY DEF NickInv, Live, TypeOK, Timeout
<1>2. CASE TimeoutRelease(t)
  BY <1>1, <1>2 DEF TimeoutRelease, Fired, users
<1>3. CASE SpareCollide(t)
  BY <1>3 DEF SpareCollide, Fired
<1>4. CASE CarryCollide(t)
  BY <1>1, <1>4 DEF CarryCollide, Fired
<1> QED
  BY <1>2, <1>3, <1>4 DEF TimeoutCollide

(* cancel_user leaves no temporary flag on the nick the user had, and      *)
(* changes no other nick.                                                  *)
LEMMA CancelClears ==
  ASSUME NickInv, NEW u \in Users, NEW n \in Nicks
  PROVE  CancelStatus(u)[n] = IF n = nick[u] THEN status[n] \ Temporary
                                             ELSE status[n]
<1>1. CancelStatus(u)[n] = IF n = real_ni[u] /\ u \notin stale
                             THEN status[n] \ Temporary ELSE status[n]
  BY DEF CancelStatus
<1>2. CASE nick[u] \in reg
  BY <1>1, <1>2 DEF NickInv, RealNiFollowsNick
<1>3. CASE nick[u] \notin reg
  <2>1. n = nick[u] => status[n] = {}
    BY <1>3 DEF NickInv, NoRecordNoStatus
  <2>2. real_ni[u] = NULL \/ u \in stale
    BY <1>3 DEF NickInv, RealNiFollowsNick
  <2> QED
    BY <1>1, <2>1, <2>2, NullAssumption
<1> QED
  BY <1>2, <1>3

(* The statuses a user who takes n finds: what cancel_user left, which is  *)
(* the same when cancel_user is not called.                                *)
LEMMA ChangeNickStatus ==
  ASSUME NickInv, NEW u \in Users, NEW n \in Nicks, ChangeNick(u, n)
  PROVE  Seated(u, n, CancelStatus(u)) \/ Collided(u, n, CancelStatus(u))
<1>1. CancelStatus(u) \in [Nicks -> SUBSET (Permanent \cup Temporary)]
  BY CancelType DEF NickInv, TypeOK
<1>2. CASE real_ni[u] = NULL
  <2>1. CancelStatus(u) = status
    BY <1>2, NullAssumption DEF CancelStatus, NickInv, TypeOK
  <2> QED
    BY <1>1, <2>1, TakeNickEffect DEF ChangeNick
<1>3. CASE real_ni[u] # NULL
  BY <1>1, <1>3, TakeNickEffect DEF ChangeNick
<1> QED
  BY <1>2, <1>3

LEMMA NewUserStatus ==
  ASSUME NickInv, NEW u \in Users, NEW n \in Nicks, NewUser(u, n)
  PROVE  Seated(u, n, CancelStatus(u)) \/ Collided(u, n, CancelStatus(u))
<1>1. real_ni[u] = NULL
  BY NullAssumption DEF NewUser, NickInv, RealNiFollowsNick, TypeOK
<1>2. CancelStatus(u) = status
  BY <1>1, NullAssumption DEF CancelStatus, NickInv, TypeOK
<1>3. status \in [Nicks -> SUBSET (Permanent \cup Temporary)]
  BY DEF NickInv, TypeOK
<1> QED
  BY <1>2, <1>3, TakeNickEffect DEF NewUser

(* What the invariant asks of flags, users and records, beyond their types.*)
FlagInv == /\ RealNiFollowsNick
           /\ NoRecordNoStatus
           /\ TemporaryNeedsUser
           /\ SuspendedNotIdentified

LEMMA SeatedKeeps ==
  ASSUME NickInv, TypeOK', NEW u \in Users, NEW n \in Nicks, ~Online(n),
         Seated(u, n, CancelStatus(u)), UNCHANGED reg
  PROVE  FlagInv'
<1> DEFINE s == CancelStatus(u)
<1>1. \A m \in Nicks : s[m] = IF m = nick[u] THEN status[m] \ Temporary
                                            ELSE status[m]
  BY CancelClears
<1>2. s \in [Nicks -> SUBSET (Permanent \cup Temporary)]
  BY CancelType DEF NickInv, TypeOK
<1> HIDE DEF s
<1>3. \A m \in Nicks : /\ status'[m] \subseteq s[m] \cup {"RECOGNIZED"}
                       /\ m # n \/ n \notin reg => status'[m] = s[m]
  BY <1>2 DEF Seated, s
<1>4. nick' = [nick EXCEPT ![u] = n] /\ nick \in [Users -> Nicks \cup {NULL}]
  BY DEF Seated, NickInv, TypeOK
<1>5. RealNiFollowsNick'
  <2>1. ASSUME NEW v \in Users, v # u
        PROVE  nick'[v] = nick[v] /\ real_ni'[v] = real_ni[v]
               /\ (v \in stale' <=> v \in stale)
    BY <2>1 DEF Seated, NickInv, TypeOK
  <2>2. nick'[u] = n /\ real_ni'[u] = findnick(n) /\ u \notin stale'
    BY DEF Seated, NickInv, TypeOK
  <2> QED
    BY <2>1, <2>2, NullAssumption
    DEF RealNiFollowsNick, NickInv, TypeOK, findnick
<1>6. NoRecordNoStatus'
  BY <1>1, <1>3 DEF NoRecordNoStatus, NickInv
<1>7. TemporaryNeedsUser'
  <2>1. SUFFICES ASSUME NEW m \in Nicks,
                        status'[m] \cap {"IDENTIFIED", "RECOGNIZED"} # {}
                 PROVE  \E v \in Users : nick'[v] = m
    BY DEF TemporaryNeedsUser, Online
  <2>2. CASE m = n
    BY <1>4, <2>2
  <2>3. CASE m # n
    <3>1. s[m] \cap {"IDENTIFIED", "RECOGNIZED"} # {}
      BY <1>3, <2>1, <2>3
    <3>2. m # nick[u] /\ status[m] \cap {"IDENTIFIED", "RECOGNIZED"} # {}
      BY <1>1, <3>1 DEF Temporary
    <3>3. PICK v \in Users : nick[v] = m
      BY <3>2 DEF NickInv, TemporaryNeedsUser, Online
    <3> QED
      BY <1>4, <3>2, <3>3
  <2> QED
    BY <2>2, <2>3
<1>8. SuspendedNotIdentified'
  <2>1. ASSUME NEW m \in Nicks
        PROVE  status'[m] \subseteq status[m] \cup {"RECOGNIZED"}
    BY <1>1, <1>3
  <2> QED
    BY <2>1 DEF SuspendedNotIdentified, NickInv
<1> QED
  BY <1>5, <1>6, <1>7, <1>8 DEF FlagInv

(* A user who is removed, by leaving or by being collided.                 *)
LEMMA RemovedKeeps ==
  ASSUME NickInv, TypeOK', NEW u \in Users, RemoveUser(u), UNCHANGED reg,
         \A m \in Nicks :
           /\ status'[m] \subseteq CancelStatus(u)[m] \cup {"KILL_HELD"}
           /\ m \notin reg => status'[m] = {}
  PROVE  FlagInv'
<1>1. \A m \in Nicks : CancelStatus(u)[m] =
         IF m = nick[u] THEN status[m] \ Temporary ELSE status[m]
  BY CancelClears
<1>2. /\ nick' = [nick EXCEPT ![u] = NULL]
      /\ nick \in [Users -> Nicks \cup {NULL}]
  BY DEF RemoveUser, NickInv, TypeOK
<1>3. RealNiFollowsNick'
  <2>1. ASSUME NEW v \in Users, v # u
        PROVE  nick'[v] = nick[v] /\ real_ni'[v] = real_ni[v]
               /\ (v \in stale' <=> v \in stale)
    BY <2>1 DEF RemoveUser, NickInv, TypeOK
  <2>2. nick'[u] = NULL /\ real_ni'[u] = NULL /\ u \notin stale'
    BY DEF RemoveUser, NickInv, TypeOK
  <2> QED
    BY <2>1, <2>2, NullAssumption DEF RealNiFollowsNick, NickInv, TypeOK
<1>4. NoRecordNoStatus'
  BY DEF NoRecordNoStatus
<1>5. TemporaryNeedsUser'
  <2>1. SUFFICES ASSUME NEW m \in Nicks,
                        status'[m] \cap {"IDENTIFIED", "RECOGNIZED"} # {}
                 PROVE  \E v \in Users : nick'[v] = m
    BY DEF TemporaryNeedsUser, Online
  <2>2. m # nick[u] /\ status[m] \cap {"IDENTIFIED", "RECOGNIZED"} # {}
    BY <1>1, <2>1 DEF Temporary
  <2>3. PICK v \in Users : nick[v] = m
    BY <2>2 DEF NickInv, TemporaryNeedsUser, Online
  <2> QED
    BY <1>2, <2>2, <2>3
<1>6. SuspendedNotIdentified'
  <2>1. ASSUME NEW m \in Nicks
        PROVE  status'[m] \subseteq status[m] \cup {"KILL_HELD"}
    BY <1>1
  <2> QED
    BY <2>1 DEF SuspendedNotIdentified, NickInv
<1> QED
  BY <1>3, <1>4, <1>5, <1>6 DEF FlagInv

LEMMA CollidedKeeps ==
  ASSUME NickInv, TypeOK', NEW u \in Users, NEW n \in Nicks,
         Collided(u, n, CancelStatus(u)), UNCHANGED reg
  PROVE  FlagInv'
<1> DEFINE s == CancelStatus(u)
<1>1. s \in [Nicks -> SUBSET (Permanent \cup Temporary)]
  BY CancelType DEF NickInv, TypeOK
<1>2. \A m \in Nicks \ reg : s[m] = {}
  BY CancelClears DEF NickInv, NoRecordNoStatus
<1> HIDE DEF s
<1>3. n \in reg /\ status' = [s EXCEPT ![n] = (@ \ Temporary) \cup {"KILL_HELD"}]
  BY DEF Collided, s
<1>4. \A m \in Nicks : /\ status'[m] \subseteq s[m] \cup {"KILL_HELD"}
                       /\ m \notin reg => status'[m] = {}
  BY <1>1, <1>2, <1>3
<1>5. RemoveUser(u)
  BY DEF Collided
<1>6. \A m \in Nicks :
        /\ status'[m] \subseteq CancelStatus(u)[m] \cup {"KILL_HELD"}
        /\ m \notin reg => status'[m] = {}
  BY <1>4 DEF s
<1> QED
  BY <1>5, <1>6, RemovedKeeps

(* The records in S are deleted; their users are left stale or reset.      *)
LEMMA DelnickKeeps ==
  ASSUME NickInv, TypeOK', NEW S \in SUBSET Nicks, delnick(S), UNCHANGED nick,
         \A v \in Users :
           \/ /\ real_ni'[v] = real_ni[v]
              /\ v \in stale' <=> v \in stale \/ real_ni[v] \in S
           \/ /\ real_ni'[v] = NULL /\ v \notin stale'
              /\ nick[v] \in S \cup {NULL}
  PROVE  FlagInv'
<1>1. /\ reg' = reg \ S
      /\ \A m \in Nicks : status'[m] = IF m \in S THEN {} ELSE status[m]
  BY DEF delnick
<1>2. RealNiFollowsNick'
  <2>1. SUFFICES ASSUME NEW v \in Users
                 PROVE  /\ nick[v] \in reg \ S =>
                             real_ni'[v] = nick[v] /\ v \notin stale'
                        /\ nick[v] \notin reg \ S =>
                             real_ni'[v] = NULL \/ v \in stale'
                        /\ v \in stale' => nick[v] # NULL /\ real_ni'[v] = nick[v]
    BY <1>1 DEF RealNiFollowsNick
  <2>2. /\ nick[v] \in reg => real_ni[v] = nick[v] /\ v \notin stale
        /\ nick[v] \notin reg => real_ni[v] = NULL \/ v \in stale
        /\ v \in stale => nick[v] # NULL /\ real_ni[v] = nick[v]
        /\ NULL \notin reg /\ NULL \notin S
    BY NullAssumption DEF NickInv, RealNiFollowsNick, TypeOK
  <2>3. CASE /\ real_ni'[v] = real_ni[v]
             /\ v \in stale' <=> v \in stale \/ real_ni[v] \in S
    BY <2>2, <2>3
  <2>4. CASE /\ real_ni'[v] = NULL /\ v \notin stale'
             /\ nick[v] \in S \cup {NULL}
    BY <2>2, <2>4
  <2> QED
    BY <2>3, <2>4
<1>3. NoRecordNoStatus'
  BY <1>1 DEF NoRecordNoStatus, NickInv
<1>4. TemporaryNeedsUser'
  BY <1>1 DEF TemporaryNeedsUser, Online, NickInv
<1>5. SuspendedNotIdentified'
  BY <1>1 DEF SuspendedNotIdentified, NickInv
<1> QED
  BY <1>2, <1>3, <1>4, <1>5 DEF FlagInv

(* A step that only rewrites the flags of one nick n: what it adds must not*)
(* break the two properties of flags.                                      *)
LEMMA FlagsKeep ==
  ASSUME NickInv, TypeOK', UNCHANGED <<reg, users>>, NEW n \in Nicks,
         \A m \in Nicks : m # n \/ n \notin reg => status'[m] = status[m],
         status'[n] \cap {"IDENTIFIED", "RECOGNIZED"} # {} => Online(n),
         "SUSPENDED" \in status'[n] => "IDENTIFIED" \notin status'[n]
  PROVE  FlagInv'
<1>1. RealNiFollowsNick' /\ NoRecordNoStatus'
  BY DEF RealNiFollowsNick, NoRecordNoStatus, NickInv, users
<1>2. TemporaryNeedsUser'
  BY DEF TemporaryNeedsUser, Online, NickInv, users
<1>3. SuspendedNotIdentified'
  BY DEF SuspendedNotIdentified, NickInv
<1> QED
  BY <1>1, <1>2, <1>3 DEF FlagInv

LEMMA FiredKeeps ==
  ASSUME NickInv, TypeOK', Fired, UNCHANGED reg
  PROVE  FlagInv'
<1>1. CASE UNCHANGED <<status, users>>
  BY <1>1 DEF FlagInv, NickInv, RealNiFollowsNick, NoRecordNoStatus,
              TemporaryNeedsUser, Online, SuspendedNotIdentified, users
<1>2. ASSUME UNCHANGED users, NEW n \in Nicks,
             status' = [status EXCEPT ![n] = @ \ {"KILL_HELD"}]
      PROVE  FlagInv'
  <2>1. status'[n] = status[n] \ {"KILL_HELD"}
    BY <1>2 DEF NickInv, TypeOK
  <2>2. \A m \in Nicks : m # n \/ n \notin reg => status'[m] = status[m]
    BY <1>2, <2>1 DEF NickInv, TypeOK, NoRecordNoStatus
  <2>3. status'[n] \cap {"IDENTIFIED", "RECOGNIZED"} # {} => Online(n)
    BY <2>1 DEF NickInv, TemporaryNeedsUser
  <2>4. "SUSPENDED" \in status'[n] => "IDENTIFIED" \notin status'[n]
    BY <2>1 DEF NickInv, SuspendedNotIdentified
  <2> QED
    BY <1>2, <2>2, <2>3, <2>4, FlagsKeep
<1>3. ASSUME NEW u \in Users, nick[u] \in Nicks, RemoveUser(u),
             \/ status' = CancelStatus(u)
             \/ nick[u] \in reg /\ status' = HoldStatus(CancelStatus(u), nick[u])
      PROVE  FlagInv'
  <2> DEFINE s == CancelStatus(u)
  <2>1. s \in [Nicks -> SUBSET (Permanent \cup Temporary)]
    BY CancelType DEF NickInv, TypeOK
  <2>2. \A m \in Nicks \ reg : s[m] = {}
    BY CancelClears DEF NickInv, NoRecordNoStatus
  <2> HIDE DEF s
  <2>3. \/ status' = s
        \/ /\ nick[u] \in reg
           /\ status' = [s EXCEPT ![nick[u]] = @ \cup {"KILL_HELD"}]
    BY <1>3 DEF HoldStatus, s
  <2>4. CASE status' = s
    BY <1>3, <2>2, <2>4, RemovedKeeps DEF s
  <2>5. CASE /\ nick[u] \in reg
             /\ status' = [s EXCEPT ![nick[u]] = @ \cup {"KILL_HELD"}]
    <3>1. \A m \in Nicks : /\ status'[m] \subseteq s[m] \cup {"KILL_HELD"}
                           /\ m \notin reg => status'[m] = {}
      BY <2>1, <2>2, <2>5
    <3> QED
      BY <1>3, <3>1, RemovedKeeps DEF s
  <2> QED
    BY <2>3, <2>4, <2>5
<1> QED
  BY <1>1, <1>2, <1>3 DEF Fired

(* Timeouts stay live through the operations on the lists ...              *)
LEMMA LiveUnlink ==
  ASSUME NEW T, T \in SUBSET Timeout, NEW M, Live(T)
  PROVE  Live(Unlink(T, M))
<1>1. ASSUME NEW t \in T
      PROVE  LET o == [t EXCEPT !.listed =
                         t.listed /\ \A m \in M : t.slot < m.slot]
             IN o.freed \/ o.ni \in reg
  <2>1. t \in Timeout /\ (t.freed \/ t.ni \in reg)
    BY DEF Live
  <2> QED
    BY <2>1 DEF Timeout
<1> QED
  BY <1>1 DEF Live, Unlink

LEMMA LiveRemoved ==
  ASSUME NEW T, T \in SUBSET Timeout, NEW n, NEW freed, NEW type, Live(T)
  PROVE  /\ Live(rem_ns_timeout(T, n, freed, type))
         /\ Live(del_ns_timeout(T, n, freed, type))
<1>1. Live(rem_ns_timeout(T, n, freed, type))
  BY LiveUnlink DEF rem_ns_timeout
<1>2. Live(T \ Matches(T, n, freed, type))
  BY DEF Live
<1>3. T \ Matches(T, n, freed, type) \in SUBSET Timeout
  OBVIOUS
<1> QED
  BY <1>1, <1>2, <1>3, LiveUnlink DEF del_ns_timeout

LEMMA LiveAdded ==
  ASSUME NEW T, Live(T), NEW n, NEW freed, freed \/ n \in reg, NEW type,
         NEW delay
  PROVE  /\ Live(add_ns_timeout(T, n, freed, type, delay))
         /\ Live(HoldTimeouts(T, n, freed))
<1>1. ASSUME NEW d, NEW ty
      PROVE  Live(add_ns_timeout(T, n, freed, ty, d))
  BY DEF Live, add_ns_timeout
<1> QED
  BY <1>1 DEF HoldTimeouts

(* ... and through every step.                                             *)
LEMMA LiveTakeNick ==
  ASSUME NEW u \in Users, NEW n \in Nicks, NEW s, NEW T, T \in SUBSET Timeout,
         Live(T), TakeNick(u, n, s, T), UNCHANGED reg
  PROVE  Live(timeouts)'
<1> DEFINE T1 == del_ns_timeout(T, n, FALSE, "COLLIDE")
<1>1. Live(T1)
  BY LiveRemoved
<1> HIDE DEF T1
<1>2. PICK onAccess \in BOOLEAN, mode \in KillModes :
        LET v == Verdict(n, s[n], onAccess, mode)
        IN \/ v = "immed" /\ timeouts' = HoldTimeouts(T1, n, FALSE)
           \/ IF v \in {"forbidden", "slow", "quick"}
                THEN timeouts' = add_ns_timeout(T, n, FALSE, "COLLIDE",
                                                CollideDelay(v))
                ELSE timeouts' = IF v = "immed" THEN T1 ELSE T
  BY DEF TakeNick, T1
<1> DEFINE v == Verdict(n, s[n], onAccess, mode)
<1>3. v \in {"immed", "forbidden", "slow", "quick"} => n \in reg
  BY DEF Verdict
<1> HIDE DEF v
<1>4. \/ v = "immed" /\ timeouts' = HoldTimeouts(T1, n, FALSE)
      \/ /\ v \in {"forbidden", "slow", "quick"}
         /\ timeouts' = add_ns_timeout(T, n, FALSE, "COLLIDE", CollideDelay(v))
      \/ timeouts' \in {T1, T}
  BY <1>2 DEF v
<1>5. \A t \in timeouts' : t.freed \/ t.ni \in reg
  BY <1>1, <1>3, <1>4, LiveAdded DEF Live
<1> QED
  BY <1>5 DEF Live

LEMMA LiveFire ==
  ASSUME NickInv, NEW t \in timeouts, TimeoutCollide(t) \/ TimeoutRelease(t),
         UNCHANGED reg
  PROVE  Live(timeouts)'
<1> DEFINE T1 == rem_ns_timeout(timeouts, t.ni, t.freed, "COLLIDE")
<1>1. timeouts \in SUBSET Timeout /\ Live(timeouts)
  BY DEF NickInv, TypeOK
<1>2. T1 \in SUBSET Timeout /\ Live(T1)
  BY <1>1, RemType, LiveRemoved
<1>3. CASE TimeoutRelease(t)
  <2>1. Live(rem_ns_timeout(timeouts, t.ni, t.freed, "RELEASE"))
    BY <1>1, LiveRemoved
  <2> QED
    BY <1>3, <2>1 DEF TimeoutRelease, Live
<1>4. CASE SpareCollide(t)
  BY <1>2, <1>4 DEF SpareCollide, Live
<1>5. CASE CarryCollide(t)
  <2> HIDE DEF T1
  <2>1. CASE timeouts' = T1 \ Entry(t)
    BY <1>2, <2>1 DEF Live
  <2>2. ASSUME NEW u \in Users,
               timeouts' = HoldTimeouts(CancelTimeouts(T1, u), t.ni, t.freed)
                             \ Entry(t)
        PROVE  Live(timeouts)'
    <3>1. Live(CancelTimeouts(T1, u))
      BY <1>2, LiveRemoved DEF CancelTimeouts
    <3>2. Live(HoldTimeouts(CancelTimeouts(T1, u), t.ni, t.freed))
      BY <1>1, <3>1, LiveAdded DEF Live
    <3> QED
      BY <2>2, <3>2 DEF Live
  <2> QED
    BY <1>5, <2>1, <2>2 DEF CarryCollide, T1
<1> QED
  BY <1>3, <1>4, <1>5 DEF TimeoutCollide

LEMMA LiveDelnick ==
  ASSUME NickInv, NEW S, delnick(S)
  PROVE  Live(timeouts)'
<1>1. ASSUME NEW t \in timeouts
      PROVE  LET o == [t EXCEPT !.freed = @ \/ t.ni \in S]
             IN o.freed \/ o.ni \in reg \ S
  <2>1. t \in Timeout /\ (t.freed \/ t.ni \in reg)
    BY DEF NickInv, Live, TypeOK
  <2> QED
    BY <2>1 DEF Timeout
<1> QED
  BY <1>1 DEF Live, delnick

(* No step seats a user at a nick that is taken.                           *)
LEMMA SeatStep ==
  ASSUME NickInv, [Next]_vars
  PROVE  OneSeat'
<1>1. nick \in [Users -> Nicks \cup {NULL}] /\ OneSeat
  BY DEF NickInv, TypeOK
<1>2. CASE UNCHANGED nick
  BY <1>1, <1>2 DEF OneSeat
<1>3. ASSUME NEW u \in Users, NEW n \in Nicks \cup {NULL},
             n = NULL \/ ~Online(n), nick' = [nick EXCEPT ![u] = n]
      PROVE  OneSeat'
  BY <1>1, <1>3 DEF OneSeat, Online
<1>4. ASSUME NEW u \in Users, NEW n \in Nicks, NewUser(u, n) \/ ChangeNick(u, n)
      PROVE  OneSeat'
  <2>1. ~Online(n)
    BY <1>4 DEF NewUser, ChangeNick
  <2>2. \E k \in {n, NULL} : nick' = [nick EXCEPT ![u] = k]
    BY <1>4, NewUserStatus, ChangeNickStatus DEF Seated, Collided, RemoveUser
  <2> QED
    BY <1>3, <2>1, <2>2
<1>5. ASSUME NEW u \in Users, DeleteUser(u)
      PROVE  OneSeat'
  BY <1>3, <1>5 DEF DeleteUser, RemoveUser
<1>6. CASE RunTimeout
  <2>1. Fired
    BY <1>6, FireEffect DEF RunTimeout
  <2> QED
    BY <1>2, <1>3, <2>1 DEF Fired, RemoveUser, users
<1>7. ASSUME NEW u \in Users,
             \/ UmodeRegistered(u) \/ Identify(u) \/ Register(u) \/ Confirm(u)
             \/ DropOwn(u)
      PROVE  UNCHANGED nick
  BY <1>7 DEF UmodeRegistered, Identify, Register, Confirm, DropOwn, users
<1>8. ASSUME NEW n \in Nicks, StaffStep(n)
      PROVE  UNCHANGED nick
  BY <1>8 DEF StaffStep, DropNick, Validar, Suspend, Unsuspend, Forbid,
              Unforbid, SetBdd, users
<1>9. ASSUME ExpireNicks \/ Tick \/ StartTimeouts \/ EndTimeouts \/ UNCHANGED vars
      PROVE  UNCHANGED nick
  BY <1>9 DEF ExpireNicks, Tick, StartTimeouts, EndTimeouts, users, vars
<1> QED
  BY <1>2, <1>4, <1>5, <1>6, <1>7, <1>8, <1>9 DEF Next, UserStep, LoopStep

LEMMA LiveStep ==
  ASSUME NickInv, [Next]_vars
  PROVE  Live(timeouts)'
<1> USE DEF Live
<1>1. ASSUME NEW u \in Users, NEW n \in Nicks, NewUser(u, n) \/ ChangeNick(u, n)
      PROVE  Live(timeouts)'
  <2>1. timeouts \in SUBSET Timeout /\ Live(timeouts)
    BY DEF NickInv, TypeOK
  <2>2. CancelTimeouts(timeouts, u) \in SUBSET Timeout
        /\ Live(CancelTimeouts(timeouts, u))
    BY <2>1, DelType, LiveRemoved DEF CancelTimeouts
  <2>3. /\ UNCHANGED reg
        /\ \E s : \E T \in {timeouts, CancelTimeouts(timeouts, u)} :
             TakeNick(u, n, s, T)
    BY <1>1 DEF NewUser, ChangeNick
  <2> QED
    BY <2>1, <2>2, <2>3, LiveTakeNick
<1>2. ASSUME NEW u \in Users, DeleteUser(u)
      PROVE  Live(timeouts)'
  <2>1. Live(CancelTimeouts(timeouts, u))
    BY LiveRemoved DEF NickInv, TypeOK, CancelTimeouts
  <2> QED
    BY <1>2, <2>1 DEF DeleteUser
<1>3. ASSUME NEW u \in Users, UmodeRegistered(u) \/ Identify(u) \/ Confirm(u)
      PROVE  Live(timeouts)'
  BY <1>3 DEF UmodeRegistered, Identify, Confirm, NickInv
<1>4. ASSUME NEW u \in Users, Register(u)
      PROVE  Live(timeouts)'
  BY <1>4 DEF Register, NickInv
<1>5. ASSUME NEW u \in Users, DropOwn(u)
      PROVE  Live(timeouts)'
  BY <1>5, LiveDelnick DEF DropOwn
<1>6. ASSUME NEW n \in Nicks, StaffStep(n)
      PROVE  Live(timeouts)'
  <2>1. CASE DropNick(n)
    BY <2>1, LiveDelnick DEF DropNick
  <2>2. CASE ~DropNick(n)
    BY <1>6, <2>2
    DEF StaffStep, Validar, Suspend, Unsuspend, Forbid, Unforbid, SetBdd, NickInv
  <2> QED
    BY <2>1, <2>2
<1>7. CASE ExpireNicks
  BY <1>7, LiveDelnick DEF ExpireNicks
<1>8. CASE Tick \/ StartTimeouts \/ EndTimeouts
  BY <1>8 DEF Tick, StartTimeouts, EndTimeouts, NickInv
<1>9. CASE RunTimeout
  BY <1>9, LiveFire DEF RunTimeout
<1>10. CASE UNCHANGED vars
  BY <1>10 DEF vars, NickInv
<1> QED
  BY <1>1, <1>2, <1>3, <1>4, <1>5, <1>6, <1>7, <1>8, <1>9, <1>10
  DEF Next, UserStep, LoopStep

LEMMA FlagStep ==
  ASSUME NickInv, TypeOK', [Next]_vars
  PROVE  FlagInv'
<1>1. ASSUME NEW u \in Users, NEW n \in Nicks, NewUser(u, n) \/ ChangeNick(u, n)
      PROVE  FlagInv'
  <2>1. Seated(u, n, CancelStatus(u)) \/ Collided(u, n, CancelStatus(u))
    BY <1>1, NewUserStatus, ChangeNickStatus
  <2>2. ~Online(n) /\ UNCHANGED reg
    BY <1>1 DEF NewUser, ChangeNick
  <2> QED
    BY <2>1, <2>2, SeatedKeeps, CollidedKeeps
<1>2. ASSUME NEW u \in Users, DeleteUser(u)
      PROVE  FlagInv'
  <2>1. \A m \in Nicks \ reg : CancelStatus(u)[m] = {}
    BY CancelClears DEF NickInv, NoRecordNoStatus
  <2> QED
    BY <1>2, <2>1, RemovedKeeps DEF DeleteUser
<1>3. ASSUME NEW u \in Users, UmodeRegistered(u) \/ Identify(u)
      PROVE  FlagInv'
  <2>1. /\ nick[u] \in reg
        /\ "SUSPENDED" \notin status[nick[u]]
        /\ status' = [status EXCEPT ![nick[u]] = @ \cup {"IDENTIFIED"}]
        /\ UNCHANGED <<reg, users>>
    <3>1. CASE UmodeRegistered(u)
      BY <3>1 DEF UmodeRegistered
    <3>2. CASE Identify(u)
      BY <3>2 DEF Identify, NickInv, RealNiFollowsNick
    <3> QED
      BY <1>3, <3>1, <3>2
  <2>2. nick[u] \in Nicks /\ Online(nick[u])
    BY <2>1 DEF NickInv, TypeOK, Online
  <2>3. /\ status'[nick[u]] = status[nick[u]] \cup {"IDENTIFIED"}
        /\ \A m \in Nicks : m # nick[u] => status'[m] = status[m]
    BY <2>1, <2>2 DEF NickInv, TypeOK
  <2> QED
    BY <2>1, <2>2, <2>3, FlagsKeep
<1>4. ASSUME NEW u \in Users, Register(u)
      PROVE  FlagInv'
  <2>1. nick[u] \in Nicks \ reg
    BY <1>4, NullAssumption
    DEF Register, NickInv, RealNiFollowsNick, TypeOK
  <2>2. /\ reg' = reg \cup {nick[u]} /\ UNCHANGED <<nick, stale>>
        /\ real_ni' = [real_ni EXCEPT ![u] = nick[u]]
        /\ \A m \in Nicks : status'[m] = IF m = nick[u] THEN {"ON_BDD"}
                                                        ELSE status[m]
    BY <1>4 DEF Register, NickInv, TypeOK
  <2>3. u \notin stale
    BY <1>4 DEF Register, NickInv, RealNiFollowsNick
  <2>4. ASSUME NEW v \in Users, v # u
        PROVE  nick[v] # nick[u]
    BY <1>4, <2>4 DEF Register, NickInv, OneSeat
  <2>5. RealNiFollowsNick'
    BY <2>1, <2>2, <2>3, <2>4, NullAssumption
    DEF RealNiFollowsNick, NickInv, TypeOK
  <2>6. NoRecordNoStatus' /\ TemporaryNeedsUser' /\ SuspendedNotIdentified'
    BY <2>2 DEF NoRecordNoStatus, TemporaryNeedsUser, Online,
                SuspendedNotIdentified, NickInv
  <2> QED
    BY <2>5, <2>6 DEF FlagInv
<1>5. ASSUME NEW u \in Users, Confirm(u)
      PROVE  FlagInv'
  BY <1>5 DEF Confirm, FlagInv, NickInv, RealNiFollowsNick, NoRecordNoStatus,
              TemporaryNeedsUser, Online, SuspendedNotIdentified, users
<1>6. ASSUME NEW u \in Users, DropOwn(u)
      PROVE  FlagInv'
  <2> DEFINE n == real_ni[u]
  <2>1. /\ n \in Nicks /\ delnick({n}) /\ UNCHANGED nick
        /\ nick[u] = n
    BY <1>6 DEF DropOwn, NickInv, RealNiFollowsNick, TypeOK
  <2>2. ASSUME NEW v \in Users
        PROVE  \/ /\ real_ni'[v] = real_ni[v]
                  /\ v \in stale' <=> v \in stale \/ real_ni[v] \in {n}
               \/ /\ real_ni'[v] = NULL
                  /\ v \notin stale'
                  /\ nick[v] \in {n} \cup {NULL}
    BY <1>6, <2>1 DEF DropOwn, NickInv, TypeOK
  <2> HIDE DEF n
  <2>3. {n} \in SUBSET Nicks
    BY <2>1
  <2> QED
    BY <2>1, <2>2, <2>3, DelnickKeeps
<1>7. ASSUME NEW n \in Nicks, DropNick(n)
      PROVE  FlagInv'
  <2>1. delnick({n}) /\ UNCHANGED nick /\ {n} \in SUBSET Nicks
    BY <1>7 DEF DropNick
  <2>2. ASSUME NEW v \in Users
        PROVE  \/ /\ real_ni'[v] = real_ni[v]
                  /\ v \in stale' <=> v \in stale \/ real_ni[v] \in {n}
               \/ /\ real_ni'[v] = NULL
                  /\ v \notin stale'
                  /\ nick[v] \in {n} \cup {NULL}
    BY <1>7 DEF DropNick
  <2> QED
    BY <2>1, <2>2, DelnickKeeps
<1>8. ASSUME NEW n \in Nicks,
             \/ Suspend(n) \/ Unsuspend(n) \/ Forbid(n)
             \/ Unforbid(n)
             \/ \E on \in BOOLEAN : SetBdd(n, on)
      PROVE  FlagInv'
  <2>1. /\ n \in reg /\ UNCHANGED <<reg, users>>
        /\ \A m \in Nicks : m # n => status'[m] = status[m]
        /\ status'[n] \subseteq status[n] \cup {"SUSPENDED", "VERBOTEN", "ON_BDD"}
        /\ "SUSPENDED" \in status'[n] => \/ "SUSPENDED" \in status[n]
                                         \/ "IDENTIFIED" \notin status'[n]
    BY <1>8 DEF Suspend, Unsuspend, Forbid, Unforbid, SetBdd, NickInv, TypeOK
  <2>2. status'[n] \cap {"IDENTIFIED", "RECOGNIZED"} # {} => Online(n)
    BY <2>1 DEF NickInv, TemporaryNeedsUser
  <2>3. "SUSPENDED" \in status'[n] => "IDENTIFIED" \notin status'[n]
    BY <2>1 DEF NickInv, SuspendedNotIdentified
  <2> QED
    BY <2>1, <2>2, <2>3, FlagsKeep
<1>9. CASE \/ \E n \in Nicks : Validar(n)
           \/ Tick \/ StartTimeouts \/ EndTimeouts \/ UNCHANGED vars
  BY <1>9 DEF Validar, Tick, StartTimeouts, EndTimeouts, FlagInv, NickInv,
              RealNiFollowsNick, NoRecordNoStatus, TemporaryNeedsUser, Online,
              SuspendedNotIdentified, users, vars
<1>10. CASE ExpireNicks
  <2>1. PICK S \in SUBSET reg :
          delnick(S) /\ stale' = stale \cup {u \in Users : real_ni[u] \in S}
    BY <1>10 DEF ExpireNicks
  <2>2. S \in SUBSET Nicks /\ UNCHANGED <<nick, real_ni>>
    BY <1>10 DEF ExpireNicks, NickInv, TypeOK
  <2>3. ASSUME NEW v \in Users
        PROVE  /\ real_ni'[v] = real_ni[v]
               /\ v \in stale' <=> v \in stale \/ real_ni[v] \in S
    BY <2>1, <2>2
  <2> QED
    BY <2>1, <2>2, <2>3, DelnickKeeps
<1>11. CASE RunTimeout
  BY <1>11, FireEffect, FiredKeeps DEF RunTimeout
<1> QED
  BY <1>1, <1>2, <1>3, <1>4, <1>5, <1>6, <1>7, <1>8, <1>9, <1>10, <1>11
  DEF Next, UserStep, StaffStep, LoopStep

LEMMA NickStep ==
  ASSUME NickInv, [Next]_vars
  PROVE  NickInv'
<1>1. TypeOK'
  BY TypeStep DEF NickInv
<1> QED
  BY <1>1, SeatStep, LiveStep, FlagStep DEF NickInv, FlagInv, Live

LEMMA NickInit ==
  ASSUME Init
  PROVE  NickInv
<1>1. TypeOK
  BY RegistrableAssumption DEF Init, TypeOK, Temporary
<1>2. OneSeat /\ RealNiFollowsNick
  BY NullAssumption DEF Init, OneSeat, RealNiFollowsNick
<1>3. \A n \in Nicks : status[n] \cap Temporary = {}
  BY DEF Init, Temporary, Permanent
<1>4. Live(timeouts) /\ NoRecordNoStatus
  BY DEF Init, Live, NoRecordNoStatus
<1>5. TemporaryNeedsUser /\ SuspendedNotIdentified
  BY <1>3 DEF TemporaryNeedsUser, SuspendedNotIdentified, Temporary
<1> QED
  BY <1>1, <1>2, <1>4, <1>5 DEF NickInv

(* The inductive invariant holds in every run.                             *)
THEOREM NickInvariant == Spec => []NickInv
<1>1. Init => NickInv
  BY NickInit
<1>2. NickInv /\ [Next]_vars => NickInv'
  BY NickStep
<1> QED
  BY <1>1, <1>2, PTL DEF Spec

(* A user's real_ni is the record of the nick in use whenever the nick has *)
(* one, whatever is registered, dropped or expired meanwhile.              *)
THEOREM RealNiCorrect == Spec => []RealNiFollowsNick
<1>1. NickInv => RealNiFollowsNick
  BY DEF NickInv
<1> QED
  BY <1>1, NickInvariant, PTL

(* Nobody inherits the proof of identity that another user gave.           *)
THEOREM TemporaryCorrect == Spec => []TemporaryNeedsUser
<1>1. NickInv => TemporaryNeedsUser
  BY DEF NickInv
<1> QED
  BY <1>1, NickInvariant, PTL

(* No order of SUSPEND, IDENTIFY and MODE +r identifies a suspended nick.  *)
THEOREM SuspensionCorrect == Spec => []SuspendedNotIdentified
<1>1. NickInv => SuspendedNotIdentified
  BY DEF NickInv
<1> QED
  BY <1>1, NickInvariant, PTL
-----------------------------------------------------------------------------
(* The refinement of NickSession.                                          *)
MyStep == [Session!SessionNext]_(Session!sessionVars)

(* A user who leaves or changes nick: cancel_user withdraws the proof of   *)
(* the nick that is left, and of no other.                                 *)
LEMMA ReseatStep ==
  ASSUME NickInv, NEW u \in Users, NEW n \in Nicks \cup {NULL},
         n = NULL \/ ~Online(n), nick' = [nick EXCEPT ![u] = n],
         \A m \in Nicks :
           /\ "IDENTIFIED" \in status'[m] <=> "IDENTIFIED" \in CancelStatus(u)[m]
           /\ "SUSPENDED" \in status'[m] <=> "SUSPENDED" \in CancelStatus(u)[m]
  PROVE  MyStep
<1>1. ASSUME NEW m \in Nicks
      PROVE  /\ "IDENTIFIED" \in status'[m] <=>
                  m # nick[u] /\ "IDENTIFIED" \in status[m]
             /\ "SUSPENDED" \in status'[m] <=> "SUSPENDED" \in status[m]
  <2>1. CancelStatus(u)[m] = IF m = nick[u] THEN status[m] \ Temporary
                                            ELSE status[m]
    BY CancelClears
  <2>2. "IDENTIFIED" \in Temporary /\ "SUSPENDED" \notin Temporary
    BY DEF Temporary
  <2> QED BY <2>1, <2>2
<1>2. /\ Flagged("IDENTIFIED")' = Flagged("IDENTIFIED") \ {nick[u]}
      /\ Flagged("SUSPENDED")' = Flagged("SUSPENDED")
  <2>1. Flagged("IDENTIFIED")' = Flagged("IDENTIFIED") \ {nick[u]}
    BY <1>1 DEF Flagged
  <2>2. Flagged("SUSPENDED")' = Flagged("SUSPENDED")
    BY <1>1 DEF Flagged
  <2> QED BY <2>1, <2>2
<1>3. n = NULL \/ \A v \in Users : nick[v] # n
  BY DEF Online
<1>4. Session!Reseat(u, n)
  BY <1>2, <1>3 DEF Session!Reseat
<1> QED
  BY <1>4 DEF MyStep, Session!SessionNext

(* A step that moves nobody and changes neither flag is a stutter.         *)
LEMMA StutterStep ==
  ASSUME UNCHANGED nick,
         \A m \in Nicks :
           /\ "IDENTIFIED" \in status'[m] <=> "IDENTIFIED" \in status[m]
           /\ "SUSPENDED" \in status'[m] <=> "SUSPENDED" \in status[m]
  PROVE  MyStep
<1>1. /\ Flagged("IDENTIFIED")' = Flagged("IDENTIFIED")
      /\ Flagged("SUSPENDED")' = Flagged("SUSPENDED")
  BY DEF Flagged
<1> QED
  BY <1>1 DEF MyStep, Session!sessionVars

(* Deleting records withdraws proofs, and bars with them.                  *)
LEMMA ForgetStep ==
  ASSUME NEW S \in SUBSET Nicks, delnick(S), UNCHANGED nick
  PROVE  MyStep
<1>1. \A m \in Nicks : status'[m] = IF m \in S THEN {} ELSE status[m]
  BY DEF delnick
<1>2. /\ Flagged("IDENTIFIED")' = Flagged("IDENTIFIED") \ S
      /\ Flagged("SUSPENDED")' = Flagged("SUSPENDED") \ S
  BY <1>1 DEF Flagged
<1>3. Session!Forget(S)
  BY <1>2 DEF Session!Forget
<1> QED
  BY <1>3 DEF MyStep, Session!SessionNext

LEMMA SessionStep ==
  ASSUME NickInv, TypeOK', [Next]_vars
  PROVE  MyStep
<1>1. ASSUME NEW u \in Users, NEW n \in Nicks, NewUser(u, n) \/ ChangeNick(u, n)
      PROVE  MyStep
  <2> DEFINE s == CancelStatus(u)
  <2>1. ~Online(n) /\ s \in [Nicks -> SUBSET (Permanent \cup Temporary)]
    BY <1>1, CancelType DEF NewUser, ChangeNick, NickInv, TypeOK
  <2>2. Seated(u, n, s) \/ Collided(u, n, s)
    BY <1>1, NewUserStatus, ChangeNickStatus
  <2>3. CASE Seated(u, n, s)
    <3> HIDE DEF s
    <3>1. \A m \in Nicks : \/ status'[m] = s[m]
                           \/ status'[m] = s[m] \cup {"RECOGNIZED"}
      BY <2>1, <2>3 DEF Seated
    <3>2. \A m \in Nicks :
            /\ "IDENTIFIED" \in status'[m] <=> "IDENTIFIED" \in s[m]
            /\ "SUSPENDED" \in status'[m] <=> "SUSPENDED" \in s[m]
      BY <3>1
    <3> QED
      BY <2>1, <2>3, <3>2, ReseatStep DEF Seated, s
  <2>4. CASE Collided(u, n, s)
    <3>1. "IDENTIFIED" \notin s[n]
      BY <1>1, <2>1, CancelClears
      DEF NickInv, TemporaryNeedsUser, Temporary
    <3> HIDE DEF s
    <3>2. \A m \in Nicks : status'[m] = IF m = n
                              THEN (s[n] \ Temporary) \cup {"KILL_HELD"}
                              ELSE s[m]
      BY <2>1, <2>4 DEF Collided
    <3>3. \A m \in Nicks :
            /\ "IDENTIFIED" \in status'[m] <=> "IDENTIFIED" \in s[m]
            /\ "SUSPENDED" \in status'[m] <=> "SUSPENDED" \in s[m]
      BY <3>1, <3>2 DEF Temporary
    <3>4. nick' = [nick EXCEPT ![u] = NULL]
      BY <2>4 DEF Collided, RemoveUser
    <3> QED
      BY <3>3, <3>4, ReseatStep DEF s
  <2> QED
    BY <2>2, <2>3, <2>4
<1>2. ASSUME NEW u \in Users, DeleteUser(u)
      PROVE  MyStep
  BY <1>2, ReseatStep DEF DeleteUser, RemoveUser
<1>3. ASSUME NEW u \in Users, UmodeRegistered(u) \/ Identify(u)
      PROVE  MyStep
  <2>1. /\ nick[u] \in reg
        /\ "SUSPENDED" \notin status[nick[u]]
        /\ status' = [status EXCEPT ![nick[u]] = @ \cup {"IDENTIFIED"}]
        /\ UNCHANGED nick
    <3>1. CASE UmodeRegistered(u)
      BY <3>1 DEF UmodeRegistered, users
    <3>2. CASE Identify(u)
      BY <3>2 DEF Identify, NickInv, RealNiFollowsNick, users
    <3> QED
      BY <1>3, <3>1, <3>2
  <2>2. nick[u] \in Nicks
    BY <2>1 DEF NickInv, TypeOK
  <2>3. \A m \in Nicks : status'[m] = IF m = nick[u]
                            THEN status[m] \cup {"IDENTIFIED"} ELSE status[m]
    BY <2>1, <2>2 DEF NickInv, TypeOK
  <2>4. /\ Flagged("IDENTIFIED")' = Flagged("IDENTIFIED") \cup {nick[u]}
        /\ Flagged("SUSPENDED")' = Flagged("SUSPENDED")
        /\ nick[u] \in Nicks \ Flagged("SUSPENDED")
    BY <2>1, <2>2, <2>3 DEF Flagged
  <2>5. Session!Prove(u)
    BY <2>1, <2>4 DEF Session!Prove
  <2> QED
    BY <2>5 DEF MyStep, Session!SessionNext
<1>4. ASSUME NEW u \in Users, Register(u)
      PROVE  MyStep
  <2>1. nick[u] \in Nicks \ reg
    BY <1>4, NullAssumption DEF Register, NickInv, RealNiFollowsNick, TypeOK
  <2>2. /\ status[nick[u]] = {} /\ UNCHANGED nick
        /\ \A m \in Nicks : status'[m] = IF m = nick[u] THEN {"ON_BDD"}
                                                        ELSE status[m]
    BY <1>4, <2>1 DEF Register, NickInv, NoRecordNoStatus, TypeOK
  <2> QED
    BY <2>2, StutterStep
<1>5. ASSUME NEW u \in Users, DropOwn(u)
      PROVE  MyStep
  BY <1>5, ForgetStep DEF DropOwn, NickInv, TypeOK
<1>6. ASSUME NEW n \in Nicks, DropNick(n)
      PROVE  MyStep
  BY <1>6, ForgetStep DEF DropNick
<1>7. ASSUME NEW n \in Nicks, Suspend(n)
      PROVE  MyStep
  <2>1. \A m \in Nicks : status'[m] = IF m = n
          THEN (status[m] \cup {"SUSPENDED"}) \ {"IDENTIFIED"} ELSE status[m]
    BY <1>7 DEF Suspend, NickInv, TypeOK
  <2>2. /\ Flagged("IDENTIFIED")' = Flagged("IDENTIFIED") \ {n}
        /\ Flagged("SUSPENDED")' = Flagged("SUSPENDED") \cup {n}
    BY <2>1 DEF Flagged
  <2>3. Session!Bar(n)
    BY <1>7, <2>2 DEF Suspend, Session!Bar, users
  <2> QED
    BY <2>3 DEF MyStep, Session!SessionNext
<1>8. ASSUME NEW n \in Nicks, Unsuspend(n)
      PROVE  MyStep
  <2>1. \A m \in Nicks : status'[m] = IF m = n
          THEN status[m] \ {"SUSPENDED"} ELSE status[m]
    BY <1>8 DEF Unsuspend, NickInv, TypeOK
  <2>2. /\ Flagged("IDENTIFIED")' = Flagged("IDENTIFIED")
        /\ Flagged("SUSPENDED")' = Flagged("SUSPENDED") \ {n}
    BY <2>1 DEF Flagged
  <2>3. Session!Unbar(n)
    BY <1>8, <2>2 DEF Unsuspend, Session!Unbar, users
  <2> QED
    BY <2>3 DEF MyStep, Session!SessionNext
<1>9. ASSUME NEW n \in Nicks, Forbid(n)
      PROVE  MyStep
  <2>1. \A m \in Nicks : status'[m] = IF m = n
          THEN (status[m] \cup {"VERBOTEN"}) \ {"IDENTIFIED"} ELSE status[m]
    BY <1>9 DEF Forbid, NickInv, TypeOK
  <2>2. ASSUME NEW m \in Nicks
        PROVE  /\ "IDENTIFIED" \in status'[m] <=> m # n /\ "IDENTIFIED" \in status[m]
               /\ "SUSPENDED" \in status'[m] <=> "SUSPENDED" \in status[m]
    <3>1. CASE m = n
      <4>1. status'[m] = (status[m] \cup {"VERBOTEN"}) \ {"IDENTIFIED"}
        BY <2>1, <3>1
      <4>2. "IDENTIFIED" \notin status'[m]
        BY <4>1
      <4>3. "SUSPENDED" \in status'[m] <=> "SUSPENDED" \in status[m]
        BY <4>1
      <4> QED
        BY <3>1, <4>2, <4>3
    <3>2. CASE m # n
      BY <2>1, <3>2
    <3> QED
      BY <3>1, <3>2
  <2>4. /\ Flagged("IDENTIFIED")' = Flagged("IDENTIFIED") \ {n}
        /\ Flagged("SUSPENDED")' = Flagged("SUSPENDED")
    BY <2>2 DEF Flagged
  <2>3. Session!Forget({n})
    BY <1>9, <2>4 DEF Forbid, Session!Forget, users
  <2> QED
    BY <2>3 DEF MyStep, Session!SessionNext
<1>10. ASSUME NEW n \in Nicks, Unforbid(n) \/ \E on \in BOOLEAN : SetBdd(n, on)
       PROVE  MyStep
  <2>1. UNCHANGED nick /\ status \in [Nicks -> SUBSET (Permanent \cup Temporary)]
    BY <1>10 DEF Unforbid, SetBdd, users, NickInv, TypeOK
  <2>2. \A m \in Nicks : status'[m] \in {status[m], status[m] \ {"VERBOTEN"},
                                         status[m] \cup {"ON_BDD"},
                                         status[m] \ {"ON_BDD"}}
    BY <1>10, <2>1 DEF Unforbid, SetBdd
  <2> QED
    BY <2>1, <2>2, StutterStep
<1>11. CASE ExpireNicks
  <2>1. PICK S \in SUBSET reg : delnick(S)
    BY <1>11 DEF ExpireNicks
  <2>2. S \in SUBSET Nicks /\ UNCHANGED nick
    BY <1>11 DEF ExpireNicks, NickInv, TypeOK
  <2> QED
    BY <2>1, <2>2, ForgetStep
<1>12. CASE RunTimeout
  <2>1. Fired
    BY <1>12, FireEffect DEF RunTimeout
  <2>2. CASE UNCHANGED <<status, users>>
    BY <2>2, StutterStep DEF users
  <2>3. ASSUME UNCHANGED users, NEW n \in Nicks,
               status' = [status EXCEPT ![n] = @ \ {"KILL_HELD"}]
        PROVE  MyStep
    <3>1. \A m \in Nicks : \/ status'[m] = status[m]
                           \/ status'[m] = status[m] \ {"KILL_HELD"}
      BY <2>3 DEF NickInv, TypeOK
    <3> QED
      BY <2>3, <3>1, StutterStep DEF users
  <2>4. ASSUME NEW u \in Users, RemoveUser(u),
               \/ status' = CancelStatus(u)
               \/ status' = HoldStatus(CancelStatus(u), nick[u])
        PROVE  MyStep
    <3> DEFINE s == CancelStatus(u)
    <3>1. s \in [Nicks -> SUBSET (Permanent \cup Temporary)]
      BY CancelType DEF NickInv, TypeOK
    <3> HIDE DEF s
    <3>2. \A m \in Nicks : \/ status'[m] = s[m]
                           \/ status'[m] = s[m] \cup {"KILL_HELD"}
      BY <2>4, <3>1 DEF s, HoldStatus
    <3>3. \A m \in Nicks :
            /\ "IDENTIFIED" \in status'[m] <=> "IDENTIFIED" \in s[m]
            /\ "SUSPENDED" \in status'[m] <=> "SUSPENDED" \in s[m]
      BY <3>2
    <3>4. nick' = [nick EXCEPT ![u] = NULL]
      BY <2>4 DEF RemoveUser
    <3> QED
      BY <3>3, <3>4, ReseatStep DEF s
  <2> QED
    BY <2>1, <2>2, <2>3, <2>4 DEF Fired
<1>13. ASSUME \/ \E u \in Users : Confirm(u)
              \/ \E n \in Nicks : Validar(n)
              \/ Tick \/ StartTimeouts \/ EndTimeouts \/ UNCHANGED vars
       PROVE  MyStep
  BY <1>13, StutterStep
  DEF Confirm, Validar, Tick, StartTimeouts, EndTimeouts, users, vars
<1> QED
  BY <1>1, <1>2, <1>3, <1>4, <1>5, <1>6, <1>7, <1>8, <1>9, <1>10, <1>11,
     <1>12, <1>13
  DEF Next, UserStep, StaffStep, LoopStep

LEMMA SessionInit ==
  ASSUME Init
  PROVE  Session!Start
<1>1. \A n \in Nicks : "IDENTIFIED" \notin status[n]
  BY DEF Init, Permanent
<1> QED
  BY <1>1 DEF Init, Session!Start, Flagged

(* The records, pointers and timeouts implement NickSession: a nick has one*)
(* user, proof is given by that user and ends with the stay, and a         *)
(* suspended nick takes none.                                              *)
THEOREM SessionCorrect == Spec => ImplementsSession
<1>1. Init => Session!Start
  BY SessionInit
<1>2. NickInv /\ NickInv' /\ [Next]_vars
        => [Session!SessionNext]_(Session!sessionVars)
  BY SessionStep DEF MyStep, NickInv
<1> QED
  BY <1>1, <1>2, NickInvariant, PTL
  DEF Spec, ImplementsSession, Session!SessionSpec
=============================================================================
