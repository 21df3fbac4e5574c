-------------------------- MODULE MainLoop_proofs ---------------------------
(***************************************************************************)
(* Proofs about what the loop of main.c runs in turn: the timers it has    *)
(* called, the expiry of nicks, and the saving of the databases.  The three*)
(* share no state; each theorem is about one of the specifications.        *)
(*                                                                         *)
(* The list of timeout.c stays linked both ways, and the walk never stands *)
(* on a freed cell, for any number of timers, delays and bounds; and it    *)
(* does what a set of timers would do.                                     *)
(*                                                                         *)
(* No nick expires whose user was not warned in time, for any durations    *)
(* whose windows the loop cannot pass by.                                  *)
(*                                                                         *)
(* What a database has stored survives any single failure, and calls that  *)
(* fail never spoil what the next start loads, for any databases and any   *)
(* failures.                                                               *)
(***************************************************************************)
EXTENDS DataFiles, NickExpiry, Timeouts, WellFoundedInduction, TLAPS

-----------------------------------------------------------------------------
(* Timers (timeout.c).                                                     *)

(* What the walk needs between its steps: the timer being called is there. *)
CalledLive == run = "call" => to \in live

(* The links lead nowhere twice: some numbering up to top falls along next.*)
(* A new cell, put in front, gets a number above all those behind it.      *)
Falls(rank) == \A c \in live : next[c] # NULL => rank[next[c]] < rank[c]
Acyclic     == \E top \in Nat : \E rank \in [Cells -> 0..top] : Falls(rank)

ListInv == TimeoutsTypeOK /\ DoublyLinked /\ Acyclic /\ CursorLive /\ CalledLive

-----------------------------------------------------------------------------
(* The links after a cell was taken out, for each cell that stays.         *)
LEMMA UnlinkLinks ==
  ASSUME TimeoutsTypeOK, NEW c \in live, UnlinkCell(c)
  PROVE  /\ next' \in [Cells -> Link] /\ prev' \in [Cells -> Link]
         /\ timeouts' \in Link /\ live' = live \ {c}
         /\ \A d \in Cells : next'[d] = IF d = prev[c] THEN next[c] ELSE next[d]
         /\ \A d \in Cells : prev'[d] = IF d = next[c] THEN prev[c] ELSE prev[d]
<1>1. c \in Cells /\ next[c] \in Link /\ prev[c] \in Link
  BY DEF TimeoutsTypeOK
<1>2. next' = Put(next, prev[c], next[c]) /\ prev' = Put(prev, next[c], prev[c])
  BY DEF UnlinkCell, NextWithout, PrevWithout
<1>3. timeouts' \in Link /\ live' = live \ {c}
  BY <1>1 DEF TimeoutsTypeOK, UnlinkCell, HeadWithout
<1>4. next \in [Cells -> Link] /\ prev \in [Cells -> Link]
  BY DEF TimeoutsTypeOK
<1>5. /\ next' \in [Cells -> Link]
      /\ \A d \in Cells : next'[d] = IF d = prev[c] THEN next[c] ELSE next[d]
  BY <1>1, <1>2, <1>4, NullAssumption DEF Put, Link
<1>6. /\ prev' \in [Cells -> Link]
      /\ \A d \in Cells : prev'[d] = IF d = next[c] THEN prev[c] ELSE prev[d]
  BY <1>1, <1>2, <1>4, NullAssumption DEF Put, Link
<1> QED
  BY <1>3, <1>5, <1>6

(* Taking a cell out leaves the rest of the list linked both ways, without *)
(* a cycle, and the cell after it in place.                                *)
LEMMA UnlinkKeeps ==
  ASSUME TimeoutsTypeOK, DoublyLinked, Acyclic, NEW c \in live, UnlinkCell(c)
  PROVE  DoublyLinked' /\ Acyclic' /\ (next[c] # NULL => next[c] \in live')
<1>1. c \in Cells /\ next[c] \in Link /\ prev[c] \in Link
  BY DEF TimeoutsTypeOK
<1>2. timeouts' = IF prev[c] = NULL THEN next[c] ELSE timeouts
  BY DEF UnlinkCell, HeadWithout
<1>3. timeouts' # NULL => timeouts' \in live' /\ prev'[timeouts'] = NULL
  <2>1. CASE prev[c] = NULL
    BY <1>1, <1>2, <2>1, UnlinkLinks, NullAssumption DEF DoublyLinked, Link, TimeoutsTypeOK
  <2>2. CASE prev[c] # NULL
    BY <1>1, <1>2, <2>2, UnlinkLinks, NullAssumption DEF DoublyLinked, Link, TimeoutsTypeOK
  <2> QED BY <2>1, <2>2
<1>4. ASSUME NEW d \in live'
      PROVE  /\ next'[d] # NULL => next'[d] \in live' /\ prev'[next'[d]] = d
             /\ prev'[d] # NULL => prev'[d] \in live' /\ next'[prev'[d]] = d
             /\ prev'[d] = NULL => timeouts' = d
  <2>1. d \in live /\ d # c /\ d \in Cells
    BY UnlinkLinks DEF TimeoutsTypeOK
  <2>2. next'[d] # NULL => next'[d] \in live' /\ prev'[next'[d]] = d
    BY <1>1, <2>1, UnlinkLinks, NullAssumption DEF DoublyLinked, TimeoutsTypeOK, Link
  <2>3. prev'[d] # NULL => prev'[d] \in live' /\ next'[prev'[d]] = d
    BY <1>1, <2>1, UnlinkLinks, NullAssumption DEF DoublyLinked, TimeoutsTypeOK, Link
  <2>4. prev'[d] = NULL => timeouts' = d
    BY <1>1, <1>2, <2>1, UnlinkLinks, NullAssumption DEF DoublyLinked, TimeoutsTypeOK, Link
  <2> QED BY <2>2, <2>3, <2>4
<1>5. PICK top \in Nat : \E r \in [Cells -> 0..top] : Falls(r)
  BY DEF Acyclic
<1>9. PICK rank \in [Cells -> 0..top] : Falls(rank)
  BY <1>5
<1>6. next[c] # NULL => next[c] \in live'
  BY <1>1, <1>9, UnlinkLinks DEF DoublyLinked, Falls
<1>7. ASSUME NEW d \in live', next'[d] # NULL
      PROVE  rank[next'[d]] < rank[d]
  <2>1. d \in live /\ d \in Cells
    BY UnlinkLinks DEF TimeoutsTypeOK
  <2>2. CASE d = prev[c]
    <3>1. next[d] = c /\ next'[d] = next[c] /\ next[c] \in Cells
      BY <1>1, <1>7, <2>1, <2>2, UnlinkLinks, NullAssumption DEF DoublyLinked, Link
    <3>2. rank[c] < rank[d] /\ rank[next[c]] < rank[c]
      BY <1>1, <1>9, <1>7, <2>1, <3>1, NullAssumption DEF Falls
    <3> QED BY <1>1, <1>9, <2>1, <3>1, <3>2
  <2>3. CASE d # prev[c]
    BY <1>9, <1>7, <2>1, <2>3, UnlinkLinks DEF Falls
  <2> QED BY <2>2, <2>3
<1>8. Acyclic'
  BY <1>5, <1>9, <1>7 DEF Acyclic, Falls
<1> QED
  BY <1>3, <1>4, <1>6, <1>8 DEF DoublyLinked

-----------------------------------------------------------------------------
(* add_timeout keeps the list.                                             *)
LEMMA AddStep ==
  ASSUME ListInv, NEW c \in Cells, NEW d \in Delays, add_timeout(c, d)
  PROVE  ListInv'
<1>1. TimeoutsTypeOK /\ c \notin live /\ live' = live \cup {c} /\ timeouts' = c
  BY DEF ListInv, add_timeout, PushFront
<1>2. [prev EXCEPT ![c] = NULL] \in [Cells -> Link]
  BY <1>1 DEF TimeoutsTypeOK, Link
<1>3. prev' = Put([prev EXCEPT ![c] = NULL], timeouts, c)
  BY DEF add_timeout, PushFront
<1>4. /\ prev' \in [Cells -> Link]
      /\ \A x \in Cells : prev'[x] = IF x = timeouts THEN c
                                     ELSE IF x = c THEN NULL ELSE prev[x]
  BY <1>1, <1>2, <1>3, NullAssumption DEF TimeoutsTypeOK, Link, Put
<1>5. /\ next' \in [Cells -> Link]
      /\ \A x \in Cells : next'[x] = IF x = c THEN timeouts ELSE next[x]
  BY <1>1 DEF TimeoutsTypeOK, add_timeout, PushFront
<1>6. TimeoutsTypeOK'
  BY <1>1, <1>4, <1>5, DelayAssumption DEF TimeoutsTypeOK, add_timeout, Link
<1>7. DoublyLinked'
  <2>1. timeouts # c /\ c # NULL
    BY <1>1, NullAssumption DEF ListInv, DoublyLinked
  <2>2. c \in live' /\ prev'[c] = NULL
    BY <1>1, <1>4, <2>1
  <2>3. ASSUME NEW x \in live'
        PROVE  /\ next'[x] # NULL => next'[x] \in live' /\ prev'[next'[x]] = x
               /\ prev'[x] # NULL => prev'[x] \in live' /\ next'[prev'[x]] = x
               /\ prev'[x] = NULL => timeouts' = x
    <3>1. CASE x = c
      BY <1>1, <1>4, <1>5, <2>1, <2>2, <3>1 DEF ListInv, DoublyLinked, TimeoutsTypeOK, Link
    <3>2. CASE x # c
      BY <1>1, <1>4, <1>5, <2>1, <3>2, NullAssumption
         DEF ListInv, DoublyLinked, TimeoutsTypeOK, Link
    <3> QED BY <3>1, <3>2
  <2> QED BY <1>1, <2>2, <2>3 DEF DoublyLinked
<1>8. Acyclic'
  <2>0. PICK top \in Nat : \E r \in [Cells -> 0..top] : Falls(r)
    BY DEF ListInv, Acyclic
  <2>1. PICK rank \in [Cells -> 0..top] : Falls(rank)
    BY <2>0
  <2> DEFINE above == IF timeouts = NULL THEN 0 ELSE rank[timeouts] + 1
             rank1 == [rank EXCEPT ![c] = above]
  <2>2. rank1 \in [Cells -> 0..(top + 1)]
    BY <1>1, <2>1 DEF TimeoutsTypeOK, Link
  <2>3. ASSUME NEW x \in live', next'[x] # NULL
        PROVE  rank1[next'[x]] < rank1[x]
    <3>1. CASE x = c
      <4>1. next'[x] = timeouts /\ timeouts \in Cells /\ timeouts # c
        BY <1>1, <1>5, <2>3, <3>1 DEF TimeoutsTypeOK, Link, ListInv, DoublyLinked
      <4>2. timeouts # NULL
        BY <4>1, NullAssumption
      <4> QED BY <2>1, <3>1, <4>1, <4>2
    <3>2. CASE x # c
      <4>1. x \in live /\ x \in Cells /\ next'[x] = next[x]
        BY <1>1, <1>5, <3>2 DEF TimeoutsTypeOK
      <4>2. next[x] \in live /\ next[x] \in Cells /\ next[x] # c
        BY <1>1, <2>3, <4>1 DEF ListInv, DoublyLinked, TimeoutsTypeOK
      <4> QED BY <2>1, <2>3, <3>2, <4>1, <4>2 DEF Falls
    <3> QED BY <3>1, <3>2
  <2>4. top + 1 \in Nat
    OBVIOUS
  <2> QED BY <2>2, <2>3, <2>4 DEF Acyclic, Falls
<1>9. CursorLive' /\ CalledLive'
  BY <1>1 DEF ListInv, CursorLive, CalledLive, add_timeout
<1> QED BY <1>6, <1>7, <1>8, <1>9 DEF ListInv

(* del_timeout keeps the list, in the middle of a walk as well.            *)
LEMMA DelStep ==
  ASSUME ListInv, NEW c \in Cells, del_timeout(c)
  PROVE  ListInv'
<1>1. TimeoutsTypeOK /\ DoublyLinked /\ Acyclic /\ c \in live /\ UnlinkCell(c)
  BY DEF ListInv, del_timeout
<1>2. TimeoutsTypeOK'
  BY <1>1, UnlinkLinks DEF TimeoutsTypeOK, del_timeout
<1>3. DoublyLinked' /\ Acyclic'
  BY <1>1, UnlinkKeeps
<1>4. CursorLive' /\ CalledLive'
  BY <1>1, UnlinkLinks DEF ListInv, CursorLive, CalledLive, del_timeout, Outside, TimeoutsTypeOK
<1> QED BY <1>2, <1>3, <1>4 DEF ListInv

(* The end of a call: the cell after the one called is still there.        *)
LEMMA ReturnStep ==
  ASSUME ListInv, Return
  PROVE  ListInv'
<1>1. TimeoutsTypeOK /\ DoublyLinked /\ Acyclic /\ to \in live /\ UnlinkCell(to) /\ to \in Cells
  BY DEF ListInv, Return, CalledLive, TimeoutsTypeOK
<1>2. TimeoutsTypeOK'
  BY <1>1, UnlinkLinks DEF TimeoutsTypeOK, Return
<1>3. DoublyLinked' /\ Acyclic'
  BY <1>1, UnlinkKeeps
<1>4. CursorLive'
  BY <1>1, UnlinkKeeps DEF CursorLive, Return
<1>5. CalledLive'
  BY DEF CalledLive, Return
<1> QED BY <1>2, <1>3, <1>4, <1>5 DEF ListInv

-----------------------------------------------------------------------------
(* Every step keeps the list.                                              *)
LEMMA ListStep == ListInv /\ [TimeoutsNext]_timeoutVars => ListInv'
<1> SUFFICES ASSUME ListInv, [TimeoutsNext]_timeoutVars PROVE ListInv'
  OBVIOUS
<1>1. CASE UNCHANGED timeoutVars
  BY <1>1 DEF ListInv, timeoutVars, links, TimeoutsTypeOK, DoublyLinked, Acyclic, Falls, CursorLive, CalledLive
<1>2. CASE Client
  BY <1>2, AddStep, DelStep DEF Client
<1>3. CASE Return
  BY <1>3, ReturnStep
<1>4. CASE StartCheck \/ Skip \/ Call \/ Finish
  BY <1>4, NullAssumption
     DEF ListInv, links, TimeoutsTypeOK, DoublyLinked, Acyclic, Falls, CursorLive, CalledLive,
         StartCheck, Skip, Call, Finish, Link
<1>5. CASE Tick
  BY <1>5 DEF ListInv, links, TimeoutsTypeOK, DoublyLinked, Acyclic, Falls, CursorLive, CalledLive, Tick
<1> QED BY <1>1, <1>2, <1>3, <1>4, <1>5 DEF TimeoutsNext, CheckStep

(* There is no timer at first.                                             *)
LEMMA InitList == TimeoutsInit => ListInv
<1> SUFFICES ASSUME TimeoutsInit PROVE ListInv
  OBVIOUS
<1>1. [c \in Cells |-> 0] \in [Cells -> 0..0] /\ Falls([c \in Cells |-> 0])
  BY DEF TimeoutsInit, Falls
<1> QED
  BY <1>1, NullAssumption
     DEF TimeoutsInit, ListInv, TimeoutsTypeOK, DoublyLinked, Acyclic, CursorLive,
         CalledLive, Link

(* The list is linked both ways at all times and the walk stands on a cell *)
(* that is allocated: check_timeouts with any routines that set and delete *)
(* other timers.                                                           *)
THEOREM ListCorrect == TimeoutsSpec => []ListSound
<1>1. ListInv => ListSound
  BY DEF ListInv, ListSound
<1> QED BY <1>1, InitList, ListStep, PTL DEF TimeoutsSpec

-----------------------------------------------------------------------------
(* A walk from no cell reaches none.                                       *)
LEMMA FromNone == From(NULL) = {}
<1>1. Closed({}) /\ {} \in SUBSET Cells
  BY DEF Closed
<1> QED BY <1>1 DEF From

(* A walk from a cell reaches it, and what is reached from the next one.   *)
LEMMA FromCell ==
  ASSUME TimeoutsTypeOK, NEW c \in Cells
  PROVE  From(c) = {c} \cup From(next[c])
<1>1. ASSUME NEW d \in From(next[c]) PROVE d \in From(c)
  BY NullAssumption DEF From, Closed
<1>2. ASSUME NEW d \in From(c), d # c PROVE d \in From(next[c])
  <2> SUFFICES ASSUME NEW S \in SUBSET Cells, Closed(S), next[c] \in S \cup {NULL}
               PROVE  d \in S
    BY <1>2 DEF From
  <2>1. Closed(S \cup {c}) /\ S \cup {c} \in SUBSET Cells
    BY DEF Closed
  <2> QED BY <1>2, <2>1 DEF From
<1>3. c \in From(c)
  BY NullAssumption DEF From
<1> QED BY <1>1, <1>2, <1>3

(* Links lead from live cells to live cells.                               *)
LEMMA LiveClosed ==
  ASSUME TimeoutsTypeOK, DoublyLinked
  PROVE  /\ live \in SUBSET Cells /\ Closed(live)
         /\ \A x \in live \cup {NULL} : From(x) \subseteq live
<1>1. live \in SUBSET Cells /\ Closed(live)
  BY DEF TimeoutsTypeOK, DoublyLinked, Closed
<1> QED BY <1>1 DEF From

(* No walk comes back to a cell it has left.                               *)
LEMMA NotBehind ==
  ASSUME ListInv, NEW c \in live
  PROVE  c \notin From(next[c])
<1>1. TimeoutsTypeOK /\ DoublyLinked /\ c \in Cells
  BY DEF ListInv, TimeoutsTypeOK
<1>2. PICK top \in Nat : \E r \in [Cells -> 0..top] : Falls(r)
  BY DEF ListInv, Acyclic
<1>3. PICK rank \in [Cells -> 0..top] : Falls(rank)
  BY <1>2
<1> DEFINE S == {d \in live : rank[d] < rank[c]}
<1>4. S \in SUBSET Cells /\ c \notin S
  BY <1>1, <1>3 DEF TimeoutsTypeOK
<1>5. next[c] \in S \cup {NULL}
  BY <1>1, <1>3 DEF Falls, DoublyLinked
<1>6. Closed(S)
  <2> SUFFICES ASSUME NEW d \in S, next[d] # NULL PROVE next[d] \in S
    BY DEF Closed
  <2>1. d \in live /\ next[d] \in live /\ d \in Cells /\ next[d] \in Cells
    BY <1>1 DEF DoublyLinked, TimeoutsTypeOK
  <2>2. rank[next[d]] < rank[d] /\ rank[d] < rank[c]
    BY <1>3, <2>1 DEF Falls
  <2> QED BY <1>1, <1>3, <2>1, <2>2
<1> HIDE DEF S
<1> QED BY <1>4, <1>5, <1>6 DEF From

(* A walk from the head reaches every cell there is: the one with the      *)
(* highest number among those it missed would be the head.                 *)
LEMMA AllFromHead ==
  ASSUME ListInv
  PROVE  From(timeouts) = live
<1>1. TimeoutsTypeOK /\ DoublyLinked /\ timeouts \in live \cup {NULL}
  BY DEF ListInv, TimeoutsTypeOK, DoublyLinked
<1>2. PICK top \in Nat : \E r \in [Cells -> 0..top] : Falls(r)
  BY DEF ListInv, Acyclic
<1>3. PICK rank \in [Cells -> 0..top] : Falls(rank)
  BY <1>2
<1>4. ASSUME NEW S \in SUBSET Cells, Closed(S), timeouts \in S \cup {NULL},
             NEW d \in live, d \notin S
      PROVE  FALSE
  <2> DEFINE W == {top - rank[c] : c \in live \ S}
             R == OpToRel(<, Nat)
  <2>1. W \subseteq Nat /\ W # {}
    BY <1>1, <1>3, <1>4 DEF TimeoutsTypeOK
  <2>2. IsWellFoundedOn(R, Nat)
    BY NatLessThanWellFounded, Zenon
  <2>3. \A x, y \in Nat : x < y => <<x, y>> \in R
    BY Zenon DEF OpToRel
  <2>4. PICK least \in W : \A w \in W : <<w, least>> \notin R
    <3> HIDE DEF W, R
    <3> QED BY <2>1, <2>2, WFMin
  <2>5. PICK c \in live \ S : least = top - rank[c]
    OBVIOUS
  <2>6. c \in Cells /\ prev[c] # NULL
    BY <1>1, <1>4, <2>5, NullAssumption DEF DoublyLinked, TimeoutsTypeOK
  <2>7. prev[c] \in live /\ next[prev[c]] = c
    BY <1>1, <2>5, <2>6 DEF DoublyLinked
  <2>8. prev[c] \in Cells /\ prev[c] \notin S /\ c # NULL
    BY <1>1, <1>4, <2>5, <2>6, <2>7, NullAssumption DEF Closed, TimeoutsTypeOK
  <2>9. rank[c] < rank[prev[c]]
    BY <1>3, <2>7, <2>8 DEF Falls
  <2>10. top - rank[prev[c]] \in W /\ top - rank[prev[c]] < least
    BY <1>3, <2>5, <2>6, <2>7, <2>8, <2>9
  <2> HIDE DEF W, R
  <2> QED BY <2>1, <2>3, <2>4, <2>10
<1>5. live \subseteq From(timeouts)
  BY <1>1, <1>4 DEF From, TimeoutsTypeOK
<1> QED BY <1>1, <1>5, LiveClosed

(* The walks of a step's end, for a cell that the step does not change.    *)
ClosedIn(links1, S) == \A d \in S : links1[d] \in S \cup {NULL}
LEMMA FromPrimed ==
  ASSUME NEW x
  PROVE  /\ \A c : c \in From(x) <=>
                 c \in Cells /\ \A S \in SUBSET Cells :
                   ClosedIn(next, S) /\ x \in S \cup {NULL} => c \in S
         /\ \A c : c \in From(x)' <=>
                 c \in Cells /\ \A S \in SUBSET Cells :
                   ClosedIn(next', S) /\ x \in S \cup {NULL} => c \in S
BY DEF From, Closed, ClosedIn

(* A cell that is taken out is missing from every walk, and nothing else.  *)
LEMMA FromUnlink ==
  ASSUME TimeoutsTypeOK, DoublyLinked, DoublyLinked', TimeoutsTypeOK',
         NEW c \in live, UnlinkCell(c),
         NEW x \in (live \ {c}) \cup {NULL}
  PROVE  From(x)' = From(x) \ {c}
<1>1. /\ c \in Cells /\ c # NULL
      /\ live \in SUBSET Cells /\ live' = live \ {c}
      /\ \A d \in Cells : next'[d] = IF d = prev[c] THEN next[c] ELSE next[d]
  BY UnlinkLinks, NullAssumption DEF TimeoutsTypeOK
<1>2. \A d \in live : next[d] = c <=> d = prev[c]
  BY <1>1, NullAssumption DEF DoublyLinked
<1>3. /\ \A d \in live : next[d] \in live \cup {NULL}
      /\ \A d \in live' : next'[d] \in live' \cup {NULL}
  BY DEF DoublyLinked
<1>4. ASSUME NEW y \in Cells, NEW S \in SUBSET Cells, ClosedIn(next, S), x \in S \cup {NULL},
             \A U \in SUBSET Cells : ClosedIn(next', U) /\ x \in U \cup {NULL} => y \in U
      PROVE  y \in S \ {c}
  <2> DEFINE U == (S \cap live) \ {c}
  <2>1. U \in SUBSET Cells /\ x \in U \cup {NULL}
    BY <1>4
  <2>2. ASSUME NEW d \in U PROVE next'[d] \in U \cup {NULL}
    <3>1. d \in S /\ d \in live /\ d \in live' /\ d \in Cells /\ d # c
      BY <1>1
    <3>2. CASE d = prev[c]
      BY <1>1, <1>2, <1>3, <1>4, <3>1, <3>2 DEF ClosedIn
    <3>3. CASE d # prev[c]
      BY <1>1, <1>2, <1>3, <1>4, <3>1, <3>3 DEF ClosedIn
    <3> QED BY <3>2, <3>3
  <2>3. ClosedIn(next', U)
    BY <2>2 DEF ClosedIn
  <2> QED BY <1>4, <2>1, <2>3
<1>5. ASSUME NEW y \in Cells, y # c, NEW S \in SUBSET Cells, ClosedIn(next', S), x \in S \cup {NULL},
             \A U \in SUBSET Cells : ClosedIn(next, U) /\ x \in U \cup {NULL} => y \in U
      PROVE  y \in S
  <2> DEFINE S1 == S \cap live'
             U == S1 \cup {d \in {c} : prev[c] \in S1}
  <2>1. U \in SUBSET Cells /\ x \in U \cup {NULL}
    BY <1>1, <1>5
  <2>2. ASSUME NEW d \in U PROVE next[d] \in U \cup {NULL}
    <3>1. CASE d = c
      <4>1. prev[c] \in S1 /\ prev[c] \in Cells /\ prev[c] \in live'
        BY <1>1, <2>2, <3>1
      <4> QED BY <1>1, <1>3, <1>5, <3>1, <4>1 DEF ClosedIn
    <3>2. CASE d # c
      <4>1. d \in S /\ d \in live /\ d \in live' /\ d \in Cells
        BY <1>1, <2>2, <3>2
      <4>2. CASE d = prev[c]
        BY <1>2, <4>1, <4>2
      <4>3. CASE d # prev[c]
        BY <1>1, <1>3, <1>5, <4>1, <4>3 DEF ClosedIn
      <4> QED BY <4>2, <4>3
    <3> QED BY <3>1, <3>2
  <2>3. ClosedIn(next, U)
    BY <2>2 DEF ClosedIn
  <2>4. y \in U
    BY <1>5, <2>1, <2>3
  <2> QED BY <1>5, <2>4
<1>6. \A y \in Cells : y \in From(x)' <=> y \in From(x) \ {c}
  <2>1. ClosedIn(next, Cells) /\ Cells \in SUBSET Cells /\ x \in Cells \cup {NULL}
    BY <1>1 DEF ClosedIn, TimeoutsTypeOK, Link
  <2>2. ASSUME NEW y \in Cells, y \in From(x)' PROVE y \in From(x) \ {c}
    BY <1>4, <2>1, <2>2, FromPrimed
  <2>3. ASSUME NEW y \in Cells, y \in From(x) \ {c} PROVE y \in From(x)'
    BY <1>5, <2>3, FromPrimed
  <2> QED BY <2>2, <2>3
<1>7. From(x)' \subseteq Cells /\ From(x) \subseteq Cells
  BY FromPrimed
<1> QED BY <1>6, <1>7

(* A new cell in front is in no walk that is under way.                    *)
LEMMA FromPush ==
  ASSUME TimeoutsTypeOK, DoublyLinked, NEW c \in Cells \ live, PushFront(c),
         NEW x \in live \cup {NULL}
  PROVE  From(x)' = From(x)
<1>1. /\ live \in SUBSET Cells
      /\ \A d \in live : next'[d] = next[d] /\ next[d] \in live \cup {NULL}
  BY DEF TimeoutsTypeOK, DoublyLinked, PushFront
<1>2. \A S \in SUBSET Cells : ClosedIn(next, S) \/ ClosedIn(next', S) => ClosedIn(next, S \cap live) /\ ClosedIn(next', S \cap live)
  BY <1>1 DEF ClosedIn
<1>3. ASSUME NEW y \in Cells, NEW S \in SUBSET Cells, ClosedIn(next, S), x \in S \cup {NULL},
             \A U \in SUBSET Cells : ClosedIn(next', U) /\ x \in U \cup {NULL} => y \in U
      PROVE  y \in S
  <2>1. y \in S \cap live
    BY <1>1, <1>2, <1>3
  <2> QED BY <2>1
<1>4. ASSUME NEW y \in Cells, NEW S \in SUBSET Cells, ClosedIn(next', S), x \in S \cup {NULL},
             \A U \in SUBSET Cells : ClosedIn(next, U) /\ x \in U \cup {NULL} => y \in U
      PROVE  y \in S
  <2>1. y \in S \cap live
    BY <1>1, <1>2, <1>4
  <2> QED BY <2>1
<1> QED BY <1>3, <1>4, FromPrimed

-----------------------------------------------------------------------------
(* The state of TimerSet that a state of the list stands for.              *)
Batch  == {c \in From(Ahead) : timeout[c] <= t}
Called == IF run = "call" THEN to ELSE NULL

(* Where the walk goes on is a live cell, or nowhere.                      *)
LEMMA AheadLive == ListInv => Ahead \in live \cup {NULL} /\ From(Ahead) \subseteq live
<1> SUFFICES ASSUME ListInv PROVE Ahead \in live \cup {NULL} /\ From(Ahead) \subseteq live
  OBVIOUS
<1>1. TimeoutsTypeOK /\ DoublyLinked
  BY DEF ListInv
<1>2. Ahead \in live \cup {NULL}
  BY DEF Ahead, ListInv, DoublyLinked, CalledLive, CursorLive
<1> QED BY <1>1, <1>2, LiveClosed

(* A step that leaves the list and the walk alone leaves the batch alone.  *)
LEMMA SameBatch ==
  ASSUME UNCHANGED <<links, timeout, to, t, run>>
  PROVE  Batch' = Batch /\ Called' = Called
BY DEF Batch, Called, Ahead, From, Closed, links

(* A timer that is set while a check is under way is not in its batch.     *)
LEMMA AddTimers ==
  ASSUME ListInv, NEW c \in Cells, NEW d \in Delays, add_timeout(c, d)
  PROVE  Promise!SetTimer(c, d)
<1>1. TimeoutsTypeOK /\ DoublyLinked /\ c \in Cells \ live /\ PushFront(c)
  BY DEF ListInv, add_timeout
<1>2. Ahead' = Ahead
  <2>1. run = "call" => to \in live /\ next'[to] = next[to]
    BY <1>1 DEF ListInv, CalledLive, PushFront, TimeoutsTypeOK
  <2> QED BY <2>1 DEF add_timeout, Outside, Ahead
<1>3. PICK x : x = Ahead
  OBVIOUS
<1>4. From(x)' = From(x) /\ x \in live \cup {NULL}
  BY <1>1, <1>3, AheadLive, FromPush
<1>5. From(Ahead) = From(x) /\ From(Ahead)' = From(x)'
  BY <1>2, <1>3 DEF From
<1>6. \A y \in live : timeout'[y] = timeout[y]
  BY <1>1 DEF add_timeout, TimeoutsTypeOK
<1>7. Batch' = Batch
  BY <1>4, <1>5, <1>6, AheadLive DEF Batch, add_timeout
<1>8. Called' = Called
  BY DEF Called, add_timeout
<1> QED BY <1>7, <1>8 DEF add_timeout, Promise!SetTimer, Batch, Called

(* A timer that is deleted leaves the batch.                               *)
LEMMA DelTimers ==
  ASSUME ListInv, ListInv', NEW c \in Cells, del_timeout(c)
  PROVE  Promise!CancelTimer(c)
<1>1. /\ TimeoutsTypeOK /\ DoublyLinked /\ TimeoutsTypeOK' /\ DoublyLinked'
      /\ c \in live /\ UnlinkCell(c) /\ live' = live \ {c}
  BY DEF ListInv, del_timeout, UnlinkCell
<1>2. c # NULL
  BY NullAssumption
<1>3. From(Ahead)' = From(Ahead) \ {c}
  <2>1. CASE run # "call"
    <3>1. Ahead = NULL /\ Ahead' = NULL
      BY <2>1 DEF del_timeout, Outside, Ahead
    <3>2. PICK x : x = NULL
      OBVIOUS
    <3>3. From(x)' = From(x) \ {c}
      BY <1>1, <3>2, FromUnlink
    <3>4. From(Ahead) = From(x) /\ From(Ahead)' = From(x)'
      BY <3>1, <3>2 DEF From
    <3> QED BY <3>3, <3>4
  <2>2. CASE run = "call"
    <3>1. to \in live /\ to \in Cells /\ to # c /\ run' = run /\ to' = to
      BY <2>2 DEF ListInv, CalledLive, del_timeout, TimeoutsTypeOK
    <3>2. /\ Ahead = next[to]
          /\ Ahead' = IF to = prev[c] THEN next[c] ELSE next[to]
      BY <1>1, <2>2, <3>1, UnlinkLinks DEF Ahead
    <3>3. next[to] = c <=> to = prev[c]
      BY <1>1, <1>2, <3>1, NullAssumption DEF DoublyLinked, TimeoutsTypeOK
    <3>4. PICK x : x = Ahead'
      OBVIOUS
    <3>5. x \in (live \ {c}) \cup {NULL}
      BY <1>1, <3>1, <3>2, <3>3, <3>4 DEF DoublyLinked
    <3>6. From(x)' = From(x) \ {c}
      BY <1>1, <3>5, FromUnlink
    <3>7. From(Ahead)' = From(x)'
      BY <3>4 DEF From
    <3>8. CASE to = prev[c]
      <4>1. Ahead = c /\ x = next[c]
        BY <3>2, <3>3, <3>4, <3>8
      <4>2. From(Ahead) = {c} \cup From(x)
        BY <1>1, <4>1, FromCell
      <4> QED BY <3>6, <3>7, <4>2
    <3>9. CASE to # prev[c]
      <4>1. x = Ahead
        BY <3>2, <3>4, <3>9
      <4> QED BY <3>6, <3>7, <4>1
    <3> QED BY <3>8, <3>9
  <2> QED BY <2>1, <2>2
<1>4. Batch' = Batch \ {c}
  BY <1>3 DEF Batch, del_timeout
<1>5. Called' = Called /\ c # Called
  BY <1>2 DEF Called, del_timeout
<1> QED BY <1>1, <1>4, <1>5 DEF del_timeout, Promise!CancelTimer, Batch, Called

(* check_timeouts: a walk starts with every timer that is due, passes those*)
(* that are not, calls the next one and forgets it.                        *)
LEMMA CheckTimers ==
  ASSUME ListInv, ListInv', CheckStep
  PROVE  [Promise!TimersNext]_(Promise!timers)
<1>1. TimeoutsTypeOK /\ DoublyLinked /\ TimeoutsTypeOK' /\ DoublyLinked'
  BY DEF ListInv
<1>2. CASE StartCheck
  <2>1. Ahead = NULL /\ Ahead' = timeouts /\ Called = NULL /\ Called' = NULL
    BY <1>2 DEF StartCheck, Ahead, Called
  <2>2. Batch = {}
    BY <2>1, FromNone DEF Batch
  <2>3. From(Ahead)' = From(timeouts)
    BY <1>2, <2>1 DEF From, Closed, StartCheck, links
  <2>4. Batch' = {c \in live : timeout[c] <= now}
    BY <1>2, <2>3, AllFromHead DEF Batch, StartCheck
  <2>5. Promise!Check
    BY <1>2, <2>1, <2>2, <2>4 DEF StartCheck, Promise!Check, Batch, Called
  <2> QED BY <2>5 DEF Promise!TimersNext
<1>3. CASE Skip
  <2>1. to \in Cells /\ Ahead = to /\ Ahead' = next[to] /\ Called = NULL /\ Called' = NULL
    BY <1>1, <1>3 DEF Skip, Ahead, Called, TimeoutsTypeOK, Link
  <2>2. From(to) = {to} \cup From(next[to])
    BY <1>1, <2>1, FromCell
  <2>3. From(Ahead)' = From(next[to])
    BY <1>3, <2>1 DEF From, Closed, Skip, links
  <2>4. ~ (timeout[to] <= t)
    BY <1>1, <1>3, <2>1 DEF Skip, TimeoutsTypeOK
  <2>5. Batch' = Batch
    BY <1>3, <2>1, <2>2, <2>3, <2>4 DEF Batch, Skip
  <2> QED BY <1>3, <2>1, <2>5 DEF Skip, Promise!timers, Batch, Called
<1>4. CASE Call
  <2>1. to \in live /\ to \in Cells /\ to # NULL
    BY <1>4, NullAssumption DEF ListInv, CursorLive, Call, TimeoutsTypeOK
  <2>2. Ahead = to /\ Ahead' = next[to] /\ Called = NULL /\ Called' = to
    BY <1>4, <2>1 DEF Call, Ahead, Called, links
  <2>3. From(to) = {to} \cup From(next[to]) /\ to \notin From(next[to])
    BY <1>1, <2>1, FromCell, NotBehind
  <2>4. From(Ahead)' = From(next[to])
    BY <1>4, <2>2 DEF From, Closed, Call, links
  <2>5. timeout[to] <= t
    BY <1>1, <1>4, <2>1 DEF Call, TimeoutsTypeOK
  <2>6. Batch' = Batch \ {to} /\ to \in Batch
    BY <1>4, <2>2, <2>3, <2>4, <2>5 DEF Batch, Call
  <2>7. PICK c \in Cells : c = to
    BY <2>1
  <2>8. Promise!CallTimer(c)
    BY <1>4, <2>2, <2>6, <2>7 DEF Call, Promise!CallTimer, Batch, Called
  <2> QED BY <2>8 DEF Promise!TimersNext
<1>5. CASE Return
  <2>1. to \in live /\ to \in Cells /\ to # NULL /\ UnlinkCell(to) /\ live' = live \ {to}
    BY <1>5, NullAssumption DEF ListInv, CalledLive, Return, TimeoutsTypeOK, UnlinkCell
  <2>2. Ahead = next[to] /\ Ahead' = next[to] /\ Called = to /\ Called' = NULL
    BY <1>5 DEF Return, Ahead, Called
  <2>3. PICK x : x = next[to]
    OBVIOUS
  <2>4. to \notin From(x)
    BY <2>1, <2>3, NotBehind
  <2>5. x \in (live \ {to}) \cup {NULL}
    <3>1. CASE x = NULL
      BY <3>1
    <3>2. CASE x # NULL
      BY <1>1, <2>1, <2>3, <2>4, <3>2, FromCell DEF DoublyLinked, TimeoutsTypeOK
    <3> QED BY <3>1, <3>2
  <2>6. From(x)' = From(x)
    BY <1>1, <2>1, <2>4, <2>5, FromUnlink
  <2>7. From(Ahead) = From(x) /\ From(Ahead)' = From(x)'
    BY <2>2, <2>3 DEF From
  <2>8. Batch' = Batch
    BY <1>5, <2>6, <2>7 DEF Batch, Return
  <2>9. Promise!TimerDone
    BY <1>5, <2>1, <2>2, <2>8 DEF Return, Promise!TimerDone, Batch, Called
  <2> QED BY <2>9 DEF Promise!TimersNext
<1>6. CASE Finish
  <2>1. Ahead = NULL /\ Ahead' = NULL /\ Called = NULL /\ Called' = NULL
    BY <1>6 DEF Finish, Ahead, Called
  <2>2. From(Ahead)' = From(Ahead)
    BY <1>6, <2>1 DEF From, Closed, Finish, links
  <2>3. Batch' = Batch
    BY <1>6, <2>2 DEF Batch, Finish
  <2> QED BY <1>6, <2>1, <2>3 DEF Finish, Promise!timers, Batch, Called
<1> QED BY <1>2, <1>3, <1>4, <1>5, <1>6 DEF CheckStep

(* Every step of the list is a step of TimerSet or none.                   *)
LEMMA StepTimers ==
  ListInv /\ ListInv' /\ [TimeoutsNext]_timeoutVars => [Promise!TimersNext]_(Promise!timers)
<1> SUFFICES ASSUME ListInv, ListInv', [TimeoutsNext]_timeoutVars
             PROVE  [Promise!TimersNext]_(Promise!timers)
  OBVIOUS
<1>1. ASSUME NEW c \in Cells, NEW d \in Delays, add_timeout(c, d)
      PROVE  [Promise!TimersNext]_(Promise!timers)
  BY <1>1, AddTimers DEF Promise!TimersNext
<1>2. ASSUME NEW c \in Cells, del_timeout(c)
      PROVE  [Promise!TimersNext]_(Promise!timers)
  BY <1>2, DelTimers DEF Promise!TimersNext
<1>3. CASE CheckStep
  BY <1>3, CheckTimers
<1>4. CASE Tick
  <2>1. Batch' = Batch /\ Called' = Called
    BY <1>4, SameBatch DEF Tick
  <2>2. Promise!Pass
    BY <1>4, <2>1 DEF Tick, Promise!Pass, Batch, Called
  <2> QED BY <2>2 DEF Promise!TimersNext
<1>5. CASE UNCHANGED timeoutVars
  <2>1. Batch' = Batch /\ Called' = Called
    BY <1>5, SameBatch DEF timeoutVars, links
  <2> QED BY <1>5, <2>1 DEF timeoutVars, Promise!timers, Batch, Called
<1> QED BY <1>1, <1>2, <1>3, <1>4, <1>5 DEF TimeoutsNext, Client

(* The list of timeout.c does what TimerSet promises: a check calls every  *)
(* timer that is due when it starts, once each, unless it is deleted first,*)
(* and none that is set meanwhile, for any number of timers.               *)
THEOREM TimersCorrect == TimeoutsSpec => ImplementsTimers
<1>1. TimeoutsInit => Promise!TimersInit
  <2> SUFFICES ASSUME TimeoutsInit PROVE Promise!TimersInit
    OBVIOUS
  <2>1. Ahead = NULL
    BY DEF TimeoutsInit, Ahead
  <2>2. Batch = {} /\ Called = NULL
    BY <2>1, FromNone DEF TimeoutsInit, Batch, Called
  <2> QED BY <2>2 DEF TimeoutsInit, Promise!TimersInit, Batch, Called
<1>2. TimeoutsSpec => []ListInv
  BY InitList, ListStep, PTL DEF TimeoutsSpec
<1> QED BY <1>1, <1>2, StepTimers, PTL DEF TimeoutsSpec, ImplementsTimers, Promise!TimersSpec

(* What TimerSet keeps: the timers of a check, and the one it calls, are   *)
(* set and due, and the one it calls is not called again.                  *)
Due(c) == c \in live /\ timeout[c] <= now
DueInv ==
  /\ Called # NULL => Due(Called)
  /\ \A c \in Batch : Due(c)
  /\ Called \notin Batch

(* They stay so until they are called or cancelled.                        *)
LEMMA DueStep ==
  ASSUME now \in Nat, timeout \in [Cells -> Nat], live \subseteq Cells, Batch \subseteq Cells,
         DueInv, [Promise!TimersNext]_(Promise!timers)
  PROVE  DueInv'
<1>1. ASSUME NEW c \in Cells, NEW d \in Delays, Promise!SetTimer(c, d) PROVE DueInv'
  <2>1. /\ c \notin live /\ live' = live \cup {c} /\ timeout' = [timeout EXCEPT ![c] = now + d]
        /\ now' = now /\ Batch' = Batch /\ Called' = Called
    BY <1>1 DEF Promise!SetTimer, Batch, Called
  <2>2. \A x \in live : Due(x) => Due(x)'
    BY <2>1 DEF Due
  <2> QED BY <2>1, <2>2 DEF DueInv, Due
<1>2. ASSUME NEW c \in Cells, Promise!CancelTimer(c) PROVE DueInv'
  <2>1. /\ c # Called /\ live' = live \ {c} /\ Batch' = Batch \ {c}
        /\ now' = now /\ timeout' = timeout /\ Called' = Called
    BY <1>2 DEF Promise!CancelTimer, Batch, Called
  <2> QED BY <2>1 DEF DueInv, Due
<1>3. ASSUME NEW c \in Cells, Promise!CallTimer(c) PROVE DueInv'
  <2>1. /\ c \in Batch /\ Called' = c /\ Batch' = Batch \ {c}
        /\ now' = now /\ timeout' = timeout /\ live' = live
    BY <1>3 DEF Promise!CallTimer, Batch, Called
  <2> QED BY <2>1 DEF DueInv, Due
<1>4. CASE Promise!Check
  <2>1. /\ Batch' = {c \in live : timeout[c] <= now} /\ Called' = Called /\ Called = NULL
        /\ now' = now /\ timeout' = timeout /\ live' = live
    BY <1>4 DEF Promise!Check, Batch, Called
  <2> QED BY <2>1, NullAssumption DEF DueInv, Due
<1>5. CASE Promise!TimerDone
  <2>1. /\ live' = live \ {Called} /\ Called' = NULL /\ Batch' = Batch
        /\ now' = now /\ timeout' = timeout
    BY <1>5 DEF Promise!TimerDone, Batch, Called
  <2> QED BY <2>1, NullAssumption DEF DueInv, Due
<1>6. CASE Promise!Pass
  <2>1. /\ now' = now + 1 /\ Called' = Called /\ Batch' = Batch
        /\ live' = live /\ timeout' = timeout
    BY <1>6 DEF Promise!Pass, Batch, Called
  <2>2. \A x \in Cells : Due(x) => Due(x)'
    BY <2>1 DEF Due
  <2> QED BY <2>1, <2>2 DEF DueInv, Due
<1>7. CASE UNCHANGED Promise!timers
  BY <1>7 DEF Promise!timers, DueInv, Due, Batch, Called
<1> QED BY <1>1, <1>2, <1>3, <1>4, <1>5, <1>6, <1>7 DEF Promise!TimersNext

(* No routine is called before its time or for a timer that was deleted:   *)
(* TimerSet promises it, and the list does what TimerSet does.             *)
THEOREM DueCorrect == TimeoutsSpec => []Promise!CalledDue
<1> DEFINE Inv == ListInv /\ DueInv
<1>1. TimeoutsInit => Inv
  <2> SUFFICES ASSUME TimeoutsInit PROVE DueInv
    BY InitList
  <2>1. Ahead = NULL
    BY DEF TimeoutsInit, Ahead
  <2>2. Batch = {} /\ Called = NULL
    BY <2>1, FromNone DEF TimeoutsInit, Batch, Called
  <2> QED BY <2>2 DEF DueInv
<1>2. Inv /\ [TimeoutsNext]_timeoutVars => Inv'
  <2> SUFFICES ASSUME Inv, [TimeoutsNext]_timeoutVars PROVE Inv'
    OBVIOUS
  <2>1. ListInv'
    BY ListStep
  <2>2. [Promise!TimersNext]_(Promise!timers)
    BY <2>1, StepTimers
  <2>3. /\ now \in Nat /\ timeout \in [Cells -> Nat]
        /\ live \subseteq Cells /\ Batch \subseteq Cells
    BY DEF ListInv, TimeoutsTypeOK, Batch, From
  <2>4. DueInv'
    BY <2>2, <2>3, DueStep
  <2> QED BY <2>1, <2>4
<1>3. Inv => Promise!CalledDue
  BY DEF DueInv, Due, Called, Promise!CalledDue
<1> QED BY <1>1, <1>2, <1>3, PTL DEF TimeoutsSpec

-----------------------------------------------------------------------------
(* The expiry of nicks (expire_nicks).                                     *)

(* The types of what expire_nicks reads and writes.                        *)
ExpiryTypeOK ==
  /\ reg \subseteq Nicks /\ flags \in [Nicks -> SUBSET Exempting]
  /\ confirmed \in [Nicks -> BOOLEAN] /\ rec \in [Nicks -> BOOLEAN]
  /\ idle \in [Nicks -> Nat] /\ age \in [Nicks -> Int]
  /\ stay \in [Nicks -> {"off", "on", "identified", "recognized"}]
  /\ since \in 0..ExpireTimeout /\ restarts \in Nat
  /\ warned \in [Nicks -> Nat \cup {-1}] /\ excused \in [Nicks -> BOOLEAN]

(* A nick as expire_nicks finds it: nothing protects it that did not excuse*)
(* its absence; unless it was marked, it was not in the window of marks at *)
(* the last run; while it is marked it was not in that of reminders; and   *)
(* the reminder went out at the first run after that window began.         *)
Absence(n) ==
  /\ Exempt(n) => excused[n]
  /\ excused[n] \/ warned[n] # -1 \/ rec[n] \/ idle[n] - since <= NSExpire - Margen
  /\ excused[n] \/ ~rec[n] \/ idle[n] - since < NSExpire - Aviso
  /\ excused[n] \/ warned[n] < NSExpire - Aviso + ExpireTimeout
AbsenceInv == ExpiryTypeOK /\ \A n \in reg : Absence(n)

(* The window of marks is longer than one round of the main loop, so that  *)
(* some run of expire_nicks falls into it.  In nickserv.c it lasts from    *)
(* dotime's ten days before the expiry to five, and ExpireTimeout is a     *)
(* matter of minutes.                                                      *)
Windows == ExpireTimeout < Margen - Aviso
-----------------------------------------------------------------------------
(* What a command on one nick leaves of the others.                        *)
Untouched(n) ==
  /\ reg' \ {n} = reg \ {n} /\ since' = since
  /\ \A m \in Nicks \ {n} :
       /\ flags'[m] = flags[m] /\ rec'[m] = rec[m] /\ idle'[m] = idle[m]
       /\ warned'[m] = warned[m] /\ excused'[m] = excused[m]

(* A nick that a command does not touch is as well off as before.          *)
LEMMA OthersKept ==
  ASSUME AbsenceInv, NEW n \in Nicks, Untouched(n), NEW m \in reg', m # n
  PROVE  Absence(m)'
BY DEF AbsenceInv, ExpiryTypeOK, Untouched, Absence, Exempt

(* The visit of a nick, and a stay that begins or ends without one.        *)
LEMMA SeenStep ==
  ASSUME AbsenceInv, NEW n \in Nicks, Seen({n}) \/ UNCHANGED <<idle, history>>,
         NEW state \in {"off", "on", "identified", "recognized"}, stay' = Fresh(stay, n, state),
         UNCHANGED <<reg, flags, confirmed, rec, age, since, restarts>>
  PROVE  ExpiryTypeOK' /\ Untouched(n) /\ (n \in reg' => Absence(n)')
<1>0. /\ NSExpire \in Nat /\ Margen \in Nat /\ Aviso \in Nat /\ ExpireTimeout \in Nat
      /\ Aviso < Margen /\ Margen < NSExpire
  BY LimitAssumption, PeriodAssumption
<1>1. stay' \in [Nicks -> {"off", "on", "identified", "recognized"}]
  BY DEF AbsenceInv, ExpiryTypeOK, Fresh
<1>2. CASE Seen({n})
  <2>1. /\ idle' \in [Nicks -> Nat] /\ warned' \in [Nicks -> Nat \cup {-1}]
        /\ excused' \in [Nicks -> BOOLEAN]
        /\ idle'[n] = 0 /\ warned'[n] = -1 /\ excused'[n] = Exempt(n)
        /\ \A m \in Nicks \ {n} : /\ idle'[m] = idle[m] /\ warned'[m] = warned[m]
                                  /\ excused'[m] = excused[m]
    <3>1. \A m \in Nicks : Exempt(m) \in BOOLEAN
      BY DEF Exempt
    <3> QED BY <1>2, <3>1 DEF Seen, AbsenceInv, ExpiryTypeOK
  <2> QED BY <1>0, <1>1, <2>1 DEF AbsenceInv, ExpiryTypeOK, Untouched, Absence, Exempt
<1>3. CASE UNCHANGED <<idle, history>>
  BY <1>1, <1>3 DEF AbsenceInv, ExpiryTypeOK, Untouched, Absence, Exempt, history
<1> QED BY <1>2, <1>3

(* No command disturbs the absence of its own nick: it ends it, excuses it *)
(* or leaves its times alone.                                              *)
LEMMA CommandStep ==
  ASSUME AbsenceInv, NEW n \in Nicks, NickCommand(n)
  PROVE  ExpiryTypeOK' /\ Untouched(n) /\ (n \in reg' => Absence(n)')
<1>0. /\ NSExpire \in Nat /\ Margen \in Nat /\ Aviso \in Nat /\ ExpireTimeout \in Nat
      /\ Aviso < Margen /\ Margen < NSExpire
  BY LimitAssumption, PeriodAssumption
<1>11. stay[n] \in {"off", "on", "identified", "recognized"}
  BY DEF AbsenceInv, ExpiryTypeOK
<1>2. CASE Connect(n)
  BY <1>2, SeenStep DEF Connect
<1>3. CASE Quit(n)
  BY <1>3, SeenStep DEF Quit
<1>4. CASE LeaveNick(n)
  BY <1>4, SeenStep DEF LeaveNick
<1>5. CASE Identify(n) \/ UmodeRegistered(n)
  BY <1>5, <1>11, SeenStep DEF Identify, UmodeRegistered, Proved
<1> USE <1>0 DEF AbsenceInv, ExpiryTypeOK, Untouched, Absence, Fresh, Seen, Exempt, history
<1>1. CASE Register(n)
  <2>1. ExpiryTypeOK'
    BY <1>1 DEF Register
  <2>2. Untouched(n) /\ Absence(n)'
    BY <1>1 DEF Register
  <2> QED BY <2>1, <2>2
<1>6. CASE Confirm(n) \/ Validar(n)
  BY <1>6 DEF Confirm, Validar
<1>7. CASE Drop(n)
  <2>1. ExpiryTypeOK'
    <3>1. /\ confirmed' \in [Nicks -> BOOLEAN] /\ rec' \in [Nicks -> BOOLEAN]
          /\ excused' \in [Nicks -> BOOLEAN]
      BY <1>7 DEF Drop, delnick
    <3>2. /\ idle' \in [Nicks -> Nat] /\ age' \in [Nicks -> Int]
          /\ warned' \in [Nicks -> Nat \cup {-1}]
      BY <1>7 DEF Drop, delnick
    <3> QED BY <1>7, <3>1, <3>2 DEF Drop, delnick
  <2>2. Untouched(n) /\ n \notin reg'
    BY <1>7 DEF Drop, delnick
  <2> QED BY <2>1, <2>2
<1>8. ASSUME NEW flag \in {"SUSPENDED", "VERBOTEN"}, Bar(n, flag)
      PROVE  ExpiryTypeOK' /\ Untouched(n) /\ (n \in reg' => Absence(n)')
  BY <1>8 DEF Bar, Exempting
<1>9. CASE SetNoexpire(n)
  BY <1>9 DEF SetNoexpire, Exempting
<1>10. ASSUME NEW flag \in Exempting, ClearFlag(n, flag)
       PROVE  ExpiryTypeOK' /\ Untouched(n) /\ (n \in reg' => Absence(n)')
  BY <1>10 DEF ClearFlag
<1>12. CASE SetTimereg(n)
  <2>1. age' \in [Nicks -> Int]
    BY <1>12 DEF SetTimereg, MinAge, MaxAge
  <2> QED BY <1>12, <2>1 DEF SetTimereg
<1> QED
  BY <1>1, <1>2, <1>3, <1>4, <1>5, <1>6, <1>7, <1>8, <1>9, <1>10, <1>12
  DEF NickCommand

(* A run of expire_nicks marks who is in the first window and warns who is *)
(* in the second; since its last run nobody can have passed the first.     *)
LEMMA ExpireStep ==
  ASSUME Windows, AbsenceInv, ExpireNicks
  PROVE  AbsenceInv'
<1>0. /\ NSExpire \in Nat /\ Margen \in Nat /\ Aviso \in Nat /\ ExpireTimeout \in Nat
      /\ Aviso < Margen /\ Margen < NSExpire
  BY LimitAssumption, PeriodAssumption
<1> DEFINE gone == Fated({"expire", "unconfirmed"})
           asked == Fated({"remind"})
<1>1. /\ reg' = reg \ gone /\ since' = 0 /\ restarts' = restarts
      /\ flags' = [n \in Nicks |-> IF n \in gone THEN {} ELSE flags[n]]
      /\ confirmed' = [n \in Nicks |-> n \notin gone /\ confirmed[n]]
      /\ age' = [n \in Nicks |-> IF n \in gone THEN 0 ELSE age[n]]
      /\ stay' = [n \in Nicks |-> IF n \in gone THEN "off" ELSE stay[n]]
      /\ idle' = [n \in Nicks |-> IF n \in gone THEN 0 ELSE Idle(n)]
      /\ rec' = [n \in Nicks |-> n \in reg /\ NewMark(n)]
      /\ warned' = [n \in Nicks |-> IF n \in gone \/ stay[n] # "off" THEN -1
                                    ELSE IF n \in asked THEN idle[n] ELSE warned[n]]
      /\ excused' = [n \in Nicks |-> IF n \in gone THEN FALSE
                                     ELSE IF stay[n] # "off" THEN Exempt(n) ELSE excused[n]]
  BY DEF ExpireNicks, expire_nicks, delnick
<1>2. /\ \A n : n \in gone <=> n \in reg /\ Fate(n) \in {"expire", "unconfirmed"}
      /\ \A n : n \in asked <=> n \in reg /\ Fate(n) = "remind"
  BY DEF Fated
<1> HIDE DEF gone, asked
<1>3. ExpiryTypeOK'
  <2>1. /\ reg' \subseteq Nicks /\ since' \in 0..ExpireTimeout /\ restarts' \in Nat
        /\ flags' \in [Nicks -> SUBSET Exempting]
        /\ age' \in [Nicks -> Int]
        /\ stay' \in [Nicks -> {"off", "on", "identified", "recognized"}]
    BY <1>0, <1>1 DEF AbsenceInv, ExpiryTypeOK
  <2>2. confirmed' \in [Nicks -> BOOLEAN] /\ rec' \in [Nicks -> BOOLEAN]
    BY <1>1, Zenon
  <2>3. excused' \in [Nicks -> BOOLEAN]
    <3>1. \A n \in Nicks : Exempt(n) \in BOOLEAN /\ excused[n] \in BOOLEAN
      BY DEF Exempt, AbsenceInv, ExpiryTypeOK
    <3> QED BY <1>1, <3>1
  <2>4. idle' \in [Nicks -> Nat]
    BY <1>1 DEF Idle, AbsenceInv, ExpiryTypeOK
  <2>5. warned' \in [Nicks -> Nat \cup {-1}]
    BY <1>1 DEF AbsenceInv, ExpiryTypeOK
  <2> QED BY <2>1, <2>2, <2>3, <2>4, <2>5 DEF ExpiryTypeOK
<1>4. ASSUME NEW n \in reg' PROVE Absence(n)'
  <2>1. /\ n \in reg /\ n \in Nicks /\ n \notin gone
        /\ Fate(n) # "expire" /\ Fate(n) # "unconfirmed"
    BY <1>1, <1>2, <1>4 DEF AbsenceInv, ExpiryTypeOK
  <2>2. /\ since' = 0 /\ flags'[n] = flags[n] /\ idle'[n] = Idle(n)
        /\ rec'[n] <=> NewMark(n)
        /\ warned'[n] = IF stay[n] # "off" THEN -1
                        ELSE IF Fate(n) = "remind" THEN idle[n] ELSE warned[n]
        /\ excused'[n] = IF stay[n] # "off" THEN Exempt(n) ELSE excused[n]
    BY <1>1, <1>2, <2>1
  <2>3. Exempt(n)' = Exempt(n)
    BY <2>2 DEF Exempt
  <2>4. /\ Absence(n) /\ idle[n] \in Nat /\ since \in 0..ExpireTimeout
        /\ rec[n] \in BOOLEAN /\ warned[n] \in Nat \cup {-1}
    BY <2>1 DEF AbsenceInv, ExpiryTypeOK
  <2>5. CASE stay[n] # "off"
    <3>1. Idle(n) = 0 /\ idle'[n] = 0 /\ warned'[n] = -1 /\ excused'[n] = Exempt(n)
      BY <2>2, <2>5 DEF Idle
    <3> QED BY <1>0, <2>2, <2>3, <3>1 DEF Absence
  <2>6. CASE stay[n] = "off"
    <3>1. Idle(n) = idle[n] /\ excused'[n] = excused[n]
      BY <2>2, <2>6 DEF Idle
    <3>2. CASE excused[n]
      BY <2>3, <2>4, <3>1, <3>2 DEF Absence
    <3>3. CASE ~excused[n]
      <4>1. ~Exempt(n)
        BY <2>4, <3>3 DEF Absence
      <4>2. CASE Fate(n) = "mark"
        <5>1. rec'[n] /\ warned'[n] = warned[n] /\ idle[n] < NSExpire - Aviso
          BY <2>2, <2>6, <3>1, <4>2 DEF NewMark, Fate, Marks
        <5> QED BY <1>0, <2>2, <2>3, <2>4, <3>1, <3>3, <4>1, <5>1 DEF Absence
      <4>3. CASE Fate(n) = "remind"
        <5>1. ~rec'[n] /\ warned'[n] = idle[n] /\ rec[n]
          BY <2>2, <2>6, <3>1, <4>3 DEF NewMark, Fate, Reminds
        <5> QED BY <1>0, <2>2, <2>3, <2>4, <3>1, <3>3, <4>1, <5>1 DEF Absence
      <4>4. CASE Fate(n) = "keep"
        <5>1. (rec'[n] <=> rec[n]) /\ warned'[n] = warned[n]
          BY <2>2, <2>4, <2>6, <4>4 DEF NewMark
        <5>2. ~Marks(n, idle[n]) /\ ~Reminds(n, idle[n])
          BY <3>1, <4>4 DEF Fate
        <5> QED BY <1>0, <2>2, <2>3, <2>4, <3>1, <3>3, <4>1, <5>1, <5>2
               DEF Absence, Marks, Reminds, Windows
      <4> QED BY <2>1, <4>2, <4>3, <4>4 DEF Fate
    <3> QED BY <3>2, <3>3
  <2> QED BY <2>5, <2>6
<1> QED BY <1>3, <1>4 DEF AbsenceInv

(* Time that passes ages the nicks and the last run alike, and a stop of   *)
(* services excuses every absence.                                         *)
LEMMA TimeStep ==
  ASSUME AbsenceInv, TickExpiry \/ Restart
  PROVE  AbsenceInv'
<1>0. /\ NSExpire \in Nat /\ ExpireTimeout \in Nat /\ NSRegMail \in Nat /\ Outage \in Nat
  BY LimitAssumption, PeriodAssumption, BoundAssumption
<1>1. ASSUME NEW d \in Nat, Older(d)
      PROVE  /\ idle' \in [Nicks -> Nat] /\ age' \in [Nicks -> Int]
             /\ \A n \in reg : idle'[n] <= idle[n] + d
  BY <1>0, <1>1 DEF Older, Upto, MaxIdle, MaxAge, AbsenceInv, ExpiryTypeOK
<1>2. CASE TickExpiry
  <2>1. /\ idle' \in [Nicks -> Nat] /\ age' \in [Nicks -> Int]
        /\ \A n \in reg : idle'[n] <= idle[n] + 1
    BY <1>1, <1>2 DEF TickExpiry
  <2>2. ExpiryTypeOK'
    BY <1>0, <1>2, <2>1 DEF TickExpiry, AbsenceInv, ExpiryTypeOK, record, history
  <2>3. ASSUME NEW n \in reg PROVE Absence(n)'
    BY <1>0, <1>2, <2>1, LimitAssumption
       DEF TickExpiry, Absence, Exempt, AbsenceInv, ExpiryTypeOK, history
  <2> QED BY <1>2, <2>2, <2>3 DEF AbsenceInv, TickExpiry
<1>3. CASE Restart
  <2>1. idle' \in [Nicks -> Nat] /\ age' \in [Nicks -> Int]
    BY <1>0, <1>1, <1>3 DEF Restart
  <2>2. ExpiryTypeOK'
    BY <1>0, <1>3, <2>1 DEF Restart, AbsenceInv, ExpiryTypeOK
  <2>3. ASSUME NEW n \in reg PROVE Absence(n)'
    BY <1>3, <2>1 DEF Restart, Absence, AbsenceInv, ExpiryTypeOK
  <2> QED BY <1>3, <2>2, <2>3 DEF AbsenceInv, Restart
<1> QED BY <1>2, <1>3

(* Every step of the expiry keeps the invariant.                           *)
LEMMA AbsenceStep ==
  ASSUME Windows
  PROVE  AbsenceInv /\ [ExpiryNext]_expiryVars => AbsenceInv'
<1> SUFFICES ASSUME AbsenceInv, [ExpiryNext]_expiryVars PROVE AbsenceInv'
  OBVIOUS
<1>1. ASSUME NEW n \in Nicks, NickCommand(n) PROVE AbsenceInv'
  BY <1>1, CommandStep, OthersKept DEF AbsenceInv
<1>2. CASE UNCHANGED expiryVars
  BY <1>2 DEF expiryVars, record, history, AbsenceInv, ExpiryTypeOK, Absence, Exempt
<1> QED BY <1>1, <1>2, ExpireStep, TimeStep DEF ExpiryNext

(* There is no nick at first.                                              *)
LEMMA InitAbsence == ExpiryInit => AbsenceInv
BY LimitAssumption, PeriodAssumption DEF ExpiryInit, AbsenceInv, ExpiryTypeOK

(* expire_nicks takes a nick for its owner's absence only when it has sent *)
(* the reminder in the same absence, and the owner had the time that the   *)
(* reminder promises, less a round of the loop; unless services were down  *)
(* or the nick was protected in between.                                   *)
THEOREM WarnedCorrect ==
  ASSUME Windows
  PROVE  ExpirySpec => WarnedInTime
<1>1. ASSUME AbsenceInv, ExpireNicks, NEW n \in Fated({"expire"})
      PROVE  excused[n] \/ (warned[n] >= 0 /\ idle[n] - warned[n] >= Grace)
  <2>0. /\ NSExpire \in Nat /\ Margen \in Nat /\ Aviso \in Nat /\ ExpireTimeout \in Nat
        /\ Aviso < Margen /\ Margen < NSExpire
    BY LimitAssumption, PeriodAssumption
  <2>1. n \in reg /\ n \in Nicks /\ Fate(n) = "expire"
    BY <1>1 DEF Fated, AbsenceInv, ExpiryTypeOK
  <2>4. Expires(n, Idle(n))
    BY <2>1 DEF Fate
  <2>2. stay[n] = "off" /\ idle[n] >= NSExpire /\ ~rec[n]
    BY <2>0, <2>4 DEF Expires, Idle
  <2>3. /\ Absence(n) /\ idle[n] \in Nat /\ since \in 0..ExpireTimeout
        /\ warned[n] \in Nat \cup {-1}
    BY <1>1, <2>1 DEF AbsenceInv, ExpiryTypeOK
  <2> QED BY <2>0, <2>2, <2>3 DEF Absence, Windows, Grace
<1>2. AbsenceInv /\ [ExpiryNext]_expiryVars =>
        [ExpireNicks => \A n \in Fated({"expire"}) :
           \/ excused[n]
           \/ warned[n] >= 0 /\ idle[n] - warned[n] >= Grace]_expiryVars
  BY <1>1
<1> QED BY <1>2, InitAbsence, AbsenceStep, PTL DEF ExpirySpec, WarnedInTime

(* expire_nicks never takes a confirmed nick from a user who is connected, *)
(* whatever its times are and whether or not the loop runs in time.        *)
THEOREM ConnectedCorrect == ExpirySpec => ConnectedKeep
<1>1. ASSUME ExpireNicks, NEW n \in reg \ reg', confirmed[n], stay[n] # "off" PROVE FALSE
  <2>1. Fate(n) \in {"expire", "unconfirmed"}
    BY <1>1 DEF ExpireNicks, expire_nicks, delnick, Fated
  <2>2. Expires(n, 0)
    BY <1>1, <2>1 DEF Fate, Overdue, Idle
  <2> QED BY <2>2, LimitAssumption DEF Expires
<1>2. [ExpiryNext]_expiryVars =>
        [ExpireNicks => \A n \in reg \ reg' : confirmed[n] => stay[n] = "off"]_expiryVars
  BY <1>1
<1> QED BY <1>2, PTL DEF ExpirySpec, ConnectedKeep

-----------------------------------------------------------------------------
(* Databases (main.c, datafiles.c).                                        *)

(* Only calls of a save have failed.                                       *)
Calm == faults \subseteq {"rename", "create", "write"}
Full(f, d) == best[d] = {} \/ f.part = "full"
Replacing == stage \in {"create", "write", "close", "fclose"}

(* What is in a file that is whole is what was stored, or more.            *)
Contents == \A d \in DBs \ short :
  /\ stage # "down" => best[d] \subseteq mem[d]
  /\ file[d].part \in {"full", "held"} => best[d] \subseteq file[d].has
  /\ save[d].part \in {"full", "held"} => best[d] \subseteq save[d].has

(* The file that is being written.                                         *)
Writing ==
  /\ stage \in {"write", "close", "fclose"} => file[db].has = mem[db]
  /\ stage = "fclose" => save[db] = Absent
  /\ stage \in {"close", "fclose"} /\ "blind" \notin faults => file[db].part = "held"

(* While only calls have failed, the file or its .save is whole.           *)
CalmDisk == Calm => \A d \in DBs \ short :
  /\ ~ (Replacing /\ d = db) => Full(file[d], d)
  /\ stage \in {"create", "write", "close"} /\ d = db => Full(save[d], d)

(* After any bearable failure one of them is, unless it is being replaced. *)
BearableDisk == Bearable => \A d \in DBs \ short :
  ~ (Midway /\ d = db) => Full(file[d], d) \/ Full(save[d], d)

BackFollows == "back" \in faults => faults \cap {"create", "write"} # {}

(* The files of this round are written.                                    *)
Done(d) == file[d] = [has |-> mem[d], part |-> "full"]
RoundSaved == faults \subseteq {"signal", "late"} =>
  /\ stage \in {"unlink", "rename", "create", "write", "close", "fclose"} =>
       \A i \in 1..Len(Order) : i < k => Done(Order[i])
  /\ stage = "saved" => \A d \in DBs : Done(d)
QuitSaves == stage # "down" /\ delayed_quit => save_data # 0

-----------------------------------------------------------------------------
(* The database being saved is one of DBs.                                 *)
LEMMA DbType == TypeOK => db \in DBs
BY OrderAssumption DEF TypeOK, db

(* The contents of files stay what they are when services end.             *)
LEMMA CopyKept ==
  ASSUME NEW f \in Copies
  PROVE  Flushed(f) \in Copies /\ Dropped(f) \in Copies /\ AtExit(f) \in Copies
BY DEF Copies, As, Flushed, Dropped, AtExit

(* A file that is not there is a copy of nothing.                          *)
LEMMA AbsentType == Absent \in Copies
BY DEF Absent, Copies

(* Every variable keeps its type, step by step.                            *)
LEMMA TypeStep == TypeOK /\ [Next]_vars => TypeOK'
<1> SUFFICES ASSUME TypeOK, [Next]_vars PROVE TypeOK'
  OBVIOUS
<1> USE DbType, AbsentType DEF TypeOK, orders, disk, past
<1>1. k \in Nat /\ Len(Order) \in Nat /\ Len(Order) > 0
  BY OrderAssumption
<1>2. NextFile => k' \in 1..Len(Order) /\ stage' \in {"unlink", "saved"}
  BY <1>1 DEF NextFile
<1>3. GiveUp => /\ k' \in 1..Len(Order) /\ stage' \in {"unlink", "saved", "top"}
                /\ quitting' \in BOOLEAN
                /\ UNCHANGED <<save_data, delayed_quit>>
  <2>1. 1 \in 1..Len(Order)
    BY <1>1
  <2>2. GiveUp => \/ NextFile /\ UNCHANGED orders
                  \/ /\ stage' = "top" /\ k' = 1 /\ quitting' = TRUE
                     /\ UNCHANGED <<save_data, delayed_quit>>
    BY DEF GiveUp
  <2> QED BY <1>2, <2>1, <2>2
<1>4. Change => mem' \in [DBs -> SUBSET Changes]
  BY WrittenAssumption DEF Change
<1>5. ASSUME NEW f, Fail(f) PROVE faults' \subseteq FaultKinds
  BY <1>5, FaultAssumption DEF Fail
<1>6. ASSUME NEW how \in {"ordered", "cut"}, Leave(how)
      PROVE  /\ file' \in [DBs -> Copies] /\ save' \in [DBs -> Copies]
             /\ stage' = "down" /\ ended' \in {"ordered", "cut"}
  BY <1>6, CopyKept DEF Leave
<1>7. ASSUME NEW how \in {"ordered", "cut"}, Continue(how)
      PROVE  /\ file' \in [DBs -> Copies] /\ save' \in [DBs -> Copies]
             /\ stage' \in {"down", "read"} /\ ended' \in {"ordered", "cut"}
  BY <1>6, <1>7 DEF Continue
<1>8. BackAgain => file' \in [DBs -> Copies] /\ save' \in [DBs -> Copies]
  BY DEF BackAgain
<1>9. CASE Top
  <2>1. CASE TopQuits
    BY <1>6, <1>9, <2>1 DEF Top, TopQuits, NoFail
  <2>2. CASE TopSaves
    BY <1>1, <1>4, <1>9, <2>2 DEF Top, TopSaves, NoFail
  <2>3. CASE TopRests
    BY <1>4, <1>7, <1>9, <2>3 DEF Top, TopRests, NoFail
  <2> QED BY <1>9, <2>1, <2>2, <2>3 DEF Top
<1>10. CASE EndRound
  BY <1>6, <1>7, <1>10 DEF EndRound, NoFail
<1>11. CASE Unlink
  BY <1>11 DEF Unlink, NoFail
<1>12. CASE Rename
  BY <1>3, <1>5, <1>12 DEF Rename, NoFail
<1>13. CASE Create
  <2>1. [has |-> mem[db], part |-> "part"] \in Copies
    BY DEF Copies
  <2>2. CASE CreateFails /\ GiveUp
    BY <1>3, <1>5, <1>8, <1>13, <2>2 DEF Create, CreateFails
  <2> QED BY <1>13, <2>1, <2>2 DEF Create, NoFail
<1>14. CASE Write
  <2>1. [file EXCEPT ![db] = As(@, "held")] \in [DBs -> Copies]
    BY DEF Copies, As
  <2>2. CASE restore_db /\ NextFile
    BY <1>2, <1>5, <1>8, <1>14, <2>2 DEF Write, restore_db
  <2> QED BY <1>5, <1>14, <2>1, <2>2 DEF Write, NoFail
<1>15. CASE Close
  BY <1>15 DEF Close, NoFail
<1>16. CASE FClose
  BY <1>2, <1>5, <1>16, CopyKept DEF FClose, NoFail
<1>17. CASE Process
  BY <1>4, <1>17 DEF Process, NoFail, Command, do_update, do_shutdown,
     do_restart, do_os_quit, SetReadonly, LinkLost
<1>18. CASE sighandler
  <2>1. k' \in 1..Len(Order)
    BY <1>1, <1>18 DEF sighandler
  <2> QED BY <1>5, <1>18, <2>1 DEF sighandler, NoFail, SigHup, SigTerm, SigInt
<1>19. CASE Crash
  <2>1. mem' \in [DBs -> SUBSET Changes] /\ k' \in 1..Len(Order)
    BY <1>1, <1>19 DEF Crash
  <2> QED BY <1>5, <1>19, <2>1, CopyKept DEF Crash
<1>20. CASE Start
  <2>1. PICK forceload \in BOOLEAN, cut \in SUBSET Changes :
          mem' = [d \in DBs |-> Load(d, cut)]
    BY <1>20 DEF Start
  <2>2. \A d \in DBs : Load(d, cut) \in SUBSET Changes
    BY DEF Load, Copies
  <2> QED BY <1>20, <2>1, <2>2 DEF Start, NoFail
<1>21. CASE UNCHANGED vars
  BY <1>21 DEF vars
<1> QED
  BY <1>9, <1>10, <1>11, <1>12, <1>13, <1>14, <1>15, <1>16, <1>17, <1>18,
     <1>19, <1>20, <1>21 DEF Next, Loop

(* They have them at the start.                                            *)
LEMMA InitType == Init => TypeOK
<1>1. 1 \in 1..Len(Order)
  BY OrderAssumption
<1> SUFFICES ASSUME Init PROVE TypeOK
  OBVIOUS
<1>2. mem \in [DBs -> SUBSET Changes] /\ best \in [DBs -> SUBSET Changes]
  BY DEF Init
<1>3. file \in [DBs -> Copies] /\ save \in [DBs -> Copies]
  BY AbsentType DEF Init
<1> QED
  BY <1>1, <1>2, <1>3 DEF Init, TypeOK

(* The variables keep their types in every run.                            *)
THEOREM TypeCorrect == Spec => []TypeOK
BY InitType, TypeStep, PTL DEF Spec
-----------------------------------------------------------------------------
(* What leaving the process does to a file.                                *)
LEMMA CopyLeft ==
  ASSUME NEW f \in Copies, NEW g \in {Flushed(f), Dropped(f), AtExit(f)}
  PROVE  /\ g.has = f.has
         /\ f.part = "full" => g = f
         /\ g.part \in {"full", "held"} => f.part \in {"full", "held"}
BY DEF Copies, As, Flushed, Dropped, AtExit

(* A file is left as it was, but for the end that is still in the buffer.  *)
LeftAs(g, f) == /\ g.has = f.has
                /\ f.part = "full" => g = f
                /\ g.part \in {"full", "held"} => f.part \in {"full", "held"}

(* Leaving does no more than that to any file.                             *)
LEMMA LeaveKeeps ==
  ASSUME TypeOK, NEW how, Leave(how)
  PROVE  /\ stage' = "down" /\ ended' = how
         /\ \A d \in DBs : LeftAs(file'[d], file[d]) /\ LeftAs(save'[d], save[d])
<1>1. ASSUME NEW d \in DBs
      PROVE  LeftAs(file'[d], file[d]) /\ LeftAs(save'[d], save[d])
  <2>1. file[d] \in Copies /\ save[d] \in Copies
    BY DEF TypeOK
  <2>2. file'[d] = AtExit(file[d]) /\ save'[d] = AtExit(save[d])
    BY DEF Leave
  <2> QED BY <2>1, <2>2, CopyLeft DEF LeftAs
<1> QED
  BY <1>1 DEF Leave

(* A failure that is bearable, unless it is that of a rename back alone,   *)
(* is the first.                                                           *)
LEMMA FirstFault ==
  ASSUME NEW f, Fail(f), Bearable', BackFollows, f # {}, f # {"back"}
  PROVE  faults = {}
<1>1. f \cap faults = {} /\ faults' = faults \cup f
  BY DEF Fail
<1>2. PICK a \in f : TRUE
  OBVIOUS
<1>3. CASE OneFault'
  <2>1. \A b \in faults : b = a
    BY <1>1, <1>2, <1>3 DEF OneFault
  <2> QED BY <1>1, <1>2, <2>1
<1>4. CASE faults' = {"write", "back"}
  <2>1. ASSUME "back" \in faults PROVE FALSE
    BY <1>1, <1>2, <1>4, <2>1 DEF BackFollows
  <2>2. "back" \in f
    BY <1>1, <1>4, <2>1
  <2>3. "write" \in f
    BY <1>1, <1>4, <2>2
  <2> QED BY <1>1, <1>4, <2>2, <2>3
<1> QED BY <1>3, <1>4 DEF Bearable

(* The contents of whole files, the memory and the file being written.     *)
DataInv == Contents /\ Writing

(* It is kept by every step.                                               *)
LEMMA DataStep ==
  ASSUME TypeOK, TypeOK', DataInv, [Next]_vars
  PROVE  DataInv'
<1> USE DbType DEF orders, disk, past
<1>1. k' = k => db' = db
  BY DEF db
<1>2. NextFile => stage' \in {"unlink", "saved"}
  BY DEF NextFile
<1>3. GiveUp => stage' \in {"unlink", "saved", "top"}
  BY <1>2 DEF GiveUp
<1>4. ASSUME NEW how, Leave(how), UNCHANGED <<best, short>> PROVE DataInv'
  BY <1>4, LeaveKeeps DEF DataInv, Contents, Writing, LeftAs
<1>5. ASSUME NEW how, Continue(how)
      PROVE  \/ Leave(how)
             \/ stage' = "read" /\ UNCHANGED disk
  BY <1>5 DEF Continue
<1>7. CASE Top
  <2>1. UNCHANGED <<best, short>>
    BY <1>7 DEF Top
  <2>3. CASE TopQuits
    BY <1>4, <2>1, <2>3 DEF TopQuits
  <2>4. CASE TopSaves
    <3>1. \A d \in DBs : mem[d] \subseteq mem'[d]
      BY <2>4, WrittenAssumption DEF TopSaves, Change, TypeOK
    <3> QED BY <1>7, <2>1, <2>4, <3>1 DEF TopSaves, Top, DataInv, Contents, Writing
  <2>5. CASE TopRests
    <3>1. \A d \in DBs : mem[d] \subseteq mem'[d]
      BY <2>5, WrittenAssumption DEF TopRests, Change, TypeOK
    <3> QED BY <1>4, <1>5, <1>7, <2>1, <2>5, <3>1 DEF TopRests, Top, DataInv,
      Contents, Writing
  <2> QED BY <1>7, <2>3, <2>4, <2>5 DEF Top
<1>8. CASE EndRound
  BY <1>4, <1>5, <1>8 DEF EndRound, DataInv, Contents, Writing
<1>9. CASE Unlink
  BY <1>1, <1>9 DEF Unlink, NoFail, DataInv, Contents, Writing, TypeOK, Absent
<1>10. CASE Rename
  BY <1>1, <1>3, <1>10 DEF Rename, DataInv, Contents, Writing, TypeOK, Absent
<1>11. CASE Create
  BY <1>1, <1>3, <1>11 DEF Create, CreateFails, BackAgain, DataInv, Contents,
     Writing, TypeOK, Absent
<1>12. CASE Write
  BY <1>1, <1>2, <1>12 DEF Write, restore_db, BackAgain, As, Fail, NoFail,
     DataInv, Contents, Writing, TypeOK, Absent
<1>13. CASE Close
  BY <1>1, <1>13 DEF Close, NoFail, DataInv, Contents, Writing, TypeOK, Absent
<1>14. CASE FClose
  <2>1. /\ stage = "fclose" /\ stage' \in {"unlink", "saved"}
        /\ UNCHANGED <<mem, save, short>>
    BY <1>2, <1>14 DEF FClose
  <2>2. \A d \in DBs : LeftAs(file'[d], file[d])
    <3>1. file' \in {[file EXCEPT ![db] = Flushed(@)], [file EXCEPT ![db] = Dropped(@)]}
      BY <1>14 DEF FClose
    <3>2. LeftAs(Flushed(file[db]), file[db]) /\ LeftAs(Dropped(file[db]), file[db])
      BY CopyLeft DEF TypeOK, LeftAs
    <3>3. \A d \in DBs : LeftAs(file[d], file[d])
      BY DEF LeftAs
    <3> QED BY <3>1, <3>2, <3>3 DEF TypeOK
  <2>3. \A d \in DBs : best'[d] = best[d] \/ (d = db /\ best'[d] = mem[d])
    <3>1. best' \in {best, [best EXCEPT ![db] = mem[db]]}
      BY <1>14 DEF FClose
    <3>2. best \in [DBs -> SUBSET Changes]
      BY DEF TypeOK
    <3> QED BY <3>1, <3>2
  <2>4. file[db].has = mem[db] /\ save[db].part = "none"
    BY <2>1 DEF DataInv, Writing, Absent
  <2> QED
    BY <2>1, <2>2, <2>3, <2>4 DEF DataInv, Contents, Writing, LeftAs
<1>15. CASE Process
  <2>1. \A d \in DBs : mem[d] \subseteq mem'[d]
    BY <1>15, WrittenAssumption DEF Process, Command, Change, do_update, do_shutdown,
       do_restart, do_os_quit, SetReadonly, LinkLost, TypeOK
  <2> QED BY <1>15, <2>1 DEF Process, DataInv, Contents, Writing
<1>16. CASE sighandler
  BY <1>16 DEF sighandler, DataInv, Contents, Writing
<1>17. CASE Crash
  <2>1. \A d \in DBs : LeftAs(file'[d], file[d]) /\ LeftAs(save'[d], save[d])
    <3>1. \A d \in DBs : /\ file'[d] = Dropped(file[d]) /\ file[d] \in Copies
                          /\ save'[d] = Dropped(save[d]) /\ save[d] \in Copies
      BY <1>17 DEF Crash, TypeOK
    <3> QED BY <3>1, CopyLeft DEF LeftAs
  <2>2. stage' = "down" /\ UNCHANGED <<best, short>>
    BY <1>17 DEF Crash
  <2> QED BY <2>1, <2>2 DEF DataInv, Contents, Writing, LeftAs
<1>18. CASE Start
  BY <1>18 DEF Start, DataInv, Contents, Writing
<1>19. CASE UNCHANGED vars
  BY <1>1, <1>19 DEF vars, DataInv, Contents, Writing, Absent
<1> QED
  BY <1>7, <1>8, <1>9, <1>10, <1>11, <1>12, <1>13, <1>14, <1>15, <1>16, <1>17,
     <1>18, <1>19 DEF Next, Loop

-----------------------------------------------------------------------------
(* What the disk holds.                                                    *)
DiskInv == CalmDisk /\ BearableDisk /\ BackFollows

(* A rename back fails only after the call that made it necessary.         *)
LEMMA BackStep == BackFollows /\ [Next]_vars => BackFollows'
<1> SUFFICES ASSUME BackFollows, [Next]_vars PROVE BackFollows'
  OBVIOUS
<1> USE DEF BackFollows, Fail, NoFail
<1>1. CASE Top
  BY <1>1 DEF Top
<1>2. CASE EndRound
  BY <1>2 DEF EndRound
<1>3. CASE Unlink
  BY <1>3 DEF Unlink
<1>4. CASE Rename
  BY <1>4 DEF Rename
<1>5. CASE Create
  BY <1>5 DEF Create, CreateFails
<1>6. CASE Write
  BY <1>6 DEF Write, restore_db
<1>7. CASE Close
  BY <1>7 DEF Close
<1>8. CASE FClose
  BY <1>8 DEF FClose
<1>9. CASE Process
  BY <1>9 DEF Process
<1>10. CASE sighandler
  BY <1>10 DEF sighandler
<1>11. CASE Crash
  BY <1>11 DEF Crash
<1>12. CASE Start
  BY <1>12 DEF Start
<1>13. CASE UNCHANGED vars
  BY <1>13 DEF vars
<1> QED
  BY <1>1, <1>2, <1>3, <1>4, <1>5, <1>6, <1>7, <1>8, <1>9, <1>10, <1>11, <1>12,
     <1>13 DEF Next, Loop

(* The disk stays good while only calls fail, and after one failure.       *)
LEMMA DiskStep ==
  ASSUME TypeOK, DataInv, DiskInv, [Next]_vars
  PROVE  CalmDisk' /\ BearableDisk'
<1> USE DbType DEF orders, disk, past
<1>1. k' = k => db' = db
  BY DEF db
<1>2. NextFile => stage' \in {"unlink", "saved"}
  BY DEF NextFile
<1>3. GiveUp => stage' \in {"unlink", "saved", "top"}
  BY <1>2 DEF GiveUp
<1>4. ASSUME ~ Midway, UNCHANGED <<best, short, faults>>, stage' = "down",
             \A d \in DBs : LeftAs(file'[d], file[d]) /\ LeftAs(save'[d], save[d])
      PROVE  CalmDisk' /\ BearableDisk'
  BY <1>4 DEF DiskInv, CalmDisk, BearableDisk, Calm, Bearable, OneFault, Midway,
     Replacing, Full, LeftAs
<1>5. ASSUME ~ Midway, UNCHANGED <<best, faults, file, save>>, short \subseteq short',
             stage' \in {"unlink", "read", "top"}
      PROVE  CalmDisk' /\ BearableDisk'
  BY <1>5 DEF DiskInv, CalmDisk, BearableDisk, Calm, Bearable, OneFault, Midway,
     Replacing, Full
<1>6. ASSUME NEW how, Continue(how)
      PROVE  \/ Leave(how)
             \/ stage' = "read" /\ UNCHANGED disk
  BY <1>6 DEF Continue
<1>7. CASE Top
  <2>1. ~ Midway /\ UNCHANGED <<best, short, faults>>
    BY <1>7 DEF Top, Midway, NoFail
  <2> QED
    BY <1>4, <1>5, <1>6, <1>7, <2>1, LeaveKeeps DEF Top, TopQuits, TopSaves, TopRests
<1>8. CASE EndRound
  <2>1. ~ Midway /\ UNCHANGED <<best, short, faults>>
    BY <1>8 DEF EndRound, Midway, NoFail
  <2> QED
    BY <1>4, <1>5, <1>6, <1>8, <2>1, LeaveKeeps DEF EndRound
<1>9. CASE Unlink
  BY <1>1, <1>9 DEF Unlink, NoFail, TypeOK, DiskInv, CalmDisk, BearableDisk, Calm,
     Bearable, OneFault, Midway, Replacing, Full
<1>17. CASE Process
  BY <1>5, <1>17 DEF Process, NoFail, Midway
<1>18. CASE Start
  BY <1>5, <1>18 DEF Start, NoFail, Midway
<1>19. CASE UNCHANGED vars
  BY <1>1, <1>19 DEF vars, DiskInv, CalmDisk, BearableDisk, Calm, Bearable, OneFault,
     Midway, Replacing, Full
<1>10. CASE Rename
  <2>1. CASE NoFail
    BY <1>1, <1>10, <2>1 DEF Rename, NoFail, TypeOK, DiskInv, CalmDisk, BearableDisk,
       Calm, Bearable, OneFault, Midway, Replacing, Full, Fail
  <2>2. CASE Fail({"rename"}) /\ GiveUp /\ UNCHANGED disk
    <3>1. UNCHANGED <<best, short>>
      BY <1>10 DEF Rename
    <3>2. Bearable' => faults = {}
      BY <2>2, FirstFault DEF DiskInv
    <3>3. faults \subseteq faults'
      BY <2>2 DEF Fail
    <3> QED BY <1>3, <1>10, <2>2, <3>1, <3>2, <3>3 DEF Rename, TypeOK, DiskInv, CalmDisk,
       BearableDisk, Calm, Midway, Replacing, Full
  <2> QED BY <1>10, <2>1, <2>2 DEF Rename
<1>11. CASE Create
  <2>1. CASE NoFail
    BY <1>1, <1>11, <2>1 DEF Create, CreateFails, NoFail, TypeOK, DiskInv, CalmDisk, BearableDisk,
       Calm, Bearable, OneFault, Midway, Replacing, Full, Fail
  <2>2. CASE Fail({"create"}) /\ BackAgain /\ GiveUp
    <3>1. UNCHANGED <<best, short>>
      BY <1>11 DEF Create
    <3>2. Bearable' => faults = {}
      BY <2>2, FirstFault DEF DiskInv
    <3>3. faults \subseteq faults'
      BY <2>2 DEF Fail
    <3> QED BY <1>3, <1>11, <2>2, <3>1, <3>2, <3>3 DEF Create, BackAgain, TypeOK, DiskInv, CalmDisk,
       BearableDisk, Calm, Midway, Replacing, Full
  <2>3. CASE Fail({"create", "back"})
    <3>1. ~ Calm' /\ ~ Bearable'
      BY <2>3 DEF Fail, Calm, Bearable, OneFault
    <3> QED BY <3>1 DEF CalmDisk, BearableDisk
  <2> QED BY <1>11, <2>1, <2>2, <2>3 DEF Create, CreateFails
<1>12. CASE Write
  <2>1. CASE NoFail
    BY <1>1, <1>12, <2>1 DEF Write, restore_db, NoFail, TypeOK, DiskInv, CalmDisk, BearableDisk,
       Calm, Bearable, OneFault, Midway, Replacing, Full, Fail, As
  <2>2. CASE Fail({"blind"})
    <3>1. ~ Calm' /\ ~ Bearable'
      BY <2>2 DEF Fail, Calm, Bearable, OneFault
    <3> QED BY <3>1 DEF CalmDisk, BearableDisk
  <2>3. CASE Fail({"write", "back", "copy"})
    <3>1. ~ Calm' /\ ~ Bearable'
      BY <2>3 DEF Fail, Calm, Bearable, OneFault
    <3> QED BY <3>1 DEF CalmDisk, BearableDisk
  <2>4. CASE NextFile /\ (Fail({"write"}) \/ Fail({"write", "back"})) /\
             (BackAgain \/ (save[db].part = "none" /\ UNCHANGED file /\ save' = [save EXCEPT ![db] = Absent]))
    <3>1. UNCHANGED <<best, short>>
      BY <1>12 DEF Write
    <3>2. Bearable' => faults = {}
      BY <2>4, FirstFault DEF DiskInv
    <3>3. faults \subseteq faults'
      BY <2>4 DEF Fail
    <3> QED BY <1>2, <1>12, <2>4, <3>1, <3>2, <3>3 DEF Write, BackAgain, TypeOK, DiskInv, CalmDisk,
       BearableDisk, Calm, Midway, Replacing, Full
  <2> QED BY <1>12, <2>1, <2>2, <2>3, <2>4 DEF Write, restore_db
<1>13. CASE Close
  BY <1>1, <1>13 DEF Close, NoFail, TypeOK, DiskInv, CalmDisk, BearableDisk, Calm,
     Bearable, OneFault, Midway, Replacing, Full
<1>14. CASE FClose
  <2>1. CASE Fail({"flush"})
    <3>1. ~ Calm' /\ ~ Bearable'
      BY <2>1 DEF Fail, Calm, Bearable, OneFault
    <3> QED BY <3>1 DEF CalmDisk, BearableDisk
  <2>2. CASE NoFail /\ file' = [file EXCEPT ![db] = Flushed(@)] /\ (Calm \/ Bearable)
    <3>1. file[db].part = "held"
      BY <1>14, <2>2 DEF FClose, DataInv, Writing, Calm, Bearable, OneFault
    <3>2. file'[db].part = "full" /\ \A d \in DBs : d # db => file'[d] = file[d]
      BY <2>2, <3>1 DEF Flushed, As, TypeOK
    <3>3. \A d \in DBs : d # db => best'[d] = best[d]
      BY <1>14, <2>2, <3>1 DEF FClose, Fail, TypeOK
    <3> QED BY <1>2, <1>14, <2>2, <3>2, <3>3 DEF FClose, NoFail, DiskInv, CalmDisk,
       BearableDisk, Calm, Bearable, OneFault, Midway, Replacing, Full
  <2>3. CASE NoFail /\ ~ Calm /\ ~ Bearable
    BY <2>3 DEF NoFail, Calm, Bearable, OneFault, CalmDisk, BearableDisk
  <2> QED BY <1>14, <2>1, <2>2, <2>3 DEF FClose
<1>15. CASE sighandler
  <2>1. CASE ~ Midway
    BY <1>5, <1>15, <2>1 DEF sighandler, NoFail
  <2>2. CASE Midway
    <3>1. PICK f \in {"signal", "late"} : Fail({f}) /\ (f = "signal" => stage # "fclose")
      BY <1>15, <2>2 DEF sighandler
    <3>2. f = "late" => ~ Bearable'
      BY <3>1 DEF Fail, Bearable, OneFault
    <3>3. ~ Calm' /\ (Bearable' => faults = {})
      <4>1. ~ Calm'
        BY <3>1 DEF Fail, Calm
      <4>2. {f} # {} /\ {f} # {"back"}
        BY <3>1
      <4> QED BY <3>1, <4>1, <4>2, FirstFault DEF DiskInv
    <3>4. UNCHANGED <<best, short, file, save>> /\ stage' = "top"
      BY <1>15 DEF sighandler
    <3> QED BY <2>2, <3>1, <3>2, <3>3, <3>4 DEF DiskInv, CalmDisk, BearableDisk, Calm,
       Midway, Replacing, Full
  <2> QED BY <2>1, <2>2
<1>16. CASE Crash
  <2>1. PICK f \in {"crash", "late"} : Fail({f}) /\ (f = "crash" => stage # "fclose")
    BY <1>16 DEF Crash
  <2>2. f = "late" => ~ Bearable'
    BY <2>1 DEF Fail, Bearable, OneFault
  <2>3. ~ Calm' /\ (Bearable' => faults = {})
    <3>1. ~ Calm'
      BY <2>1 DEF Fail, Calm
    <3>2. {f} # {} /\ {f} # {"back"}
      BY <2>1
    <3> QED BY <2>1, <3>1, <3>2, FirstFault DEF DiskInv
  <2>4. \A d \in DBs : LeftAs(file'[d], file[d]) /\ LeftAs(save'[d], save[d])
    BY <1>16, CopyLeft DEF Crash, LeftAs, TypeOK
  <2> QED BY <1>16, <2>1, <2>2, <2>3, <2>4 DEF Crash, DiskInv, CalmDisk, BearableDisk, Calm,
     Midway, Replacing, Full, LeftAs
<1> QED
  BY <1>7, <1>8, <1>9, <1>10, <1>11, <1>12, <1>13, <1>14, <1>15, <1>16, <1>17,
     <1>18, <1>19 DEF Next, Loop

-----------------------------------------------------------------------------
(* Loading after calls have failed finds a whole file, or nothing stored.  *)
LEMMA RestoredStep ==
  ASSUME TypeOK, DataInv, DiskInv, RestoredWhole, [Next]_vars
  PROVE  RestoredWhole'
<1>1. faults \subseteq faults'
  BY DEF Next, Loop, Top, EndRound, Unlink, Rename, Create, CreateFails, Write,
     restore_db, Close, FClose, Process, sighandler, Crash, Start, Fail, NoFail, vars
<1>2. CASE short' = short
  BY <1>1, <1>2 DEF RestoredWhole
<1>3. CASE Start
  <2>1. ASSUME Calm', NEW d \in DBs \ short, Loader[d].called
        PROVE  best[d] \subseteq mem'[d]
    <3>1. Full(file[d], d)
      BY <1>1, <1>3, <2>1 DEF DiskInv, CalmDisk, Calm, Start, Replacing
    <3>2. PICK forceload \in BOOLEAN, cut \in SUBSET Changes :
            mem' = [e \in DBs |-> Load(e, cut)]
      BY <1>3 DEF Start
    <3>3. file[d].part = "full" => mem'[d] = file[d].has
      BY <2>1, <3>2 DEF Load, CutOff
    <3>4. file[d].part = "full" => best[d] \subseteq file[d].has
      BY DEF DataInv, Contents
    <3> QED BY <3>1, <3>3, <3>4 DEF Full
  <2> QED BY <1>1, <1>3, <2>1 DEF Start, RestoredWhole, Calm
<1> QED
  BY <1>2, <1>3 DEF Next, Loop, Top, EndRound, Unlink, Rename, Create, Write, Close,
     FClose, Process, sighandler, Crash, vars, past

(* An order to quit goes with an order to save.                            *)
RoundInv == RoundSaved /\ QuitSaves /\ ExitSaved

InRound == stage \in {"unlink", "rename", "create", "write", "close", "fclose"}
Before  == \A i \in 1..Len(Order) : i < k => Done(Order[i])

(* No step takes back the order to save and leaves the order to quit.      *)
LEMMA QuitStep ==
  ASSUME QuitSaves, [Next]_vars
  PROVE  QuitSaves'
<1> USE DEF QuitSaves, orders
<1>1. CASE Top
  BY <1>1 DEF Top
<1>2. CASE EndRound
  BY <1>2 DEF EndRound, Continue, Leave
<1>3. CASE Unlink
  BY <1>3 DEF Unlink
<1>4. CASE Rename
  BY <1>4 DEF Rename, GiveUp
<1>5. CASE Create
  BY <1>5 DEF Create, GiveUp
<1>6. CASE Write
  BY <1>6 DEF Write
<1>7. CASE Close
  BY <1>7 DEF Close
<1>8. CASE FClose
  BY <1>8 DEF FClose
<1>9. CASE Process
  <2>1. stage # "down"
    BY <1>9 DEF Process
  <2>2. save_data' \in {1, -2} \/ UNCHANGED <<save_data, delayed_quit>>
    BY <1>9 DEF Process, Command, do_update, do_shutdown, do_restart,
       do_os_quit, SetReadonly, LinkLost
  <2>3. save_data' # 0 \/ UNCHANGED <<save_data, delayed_quit>>
    BY <2>2
  <2> QED BY <2>1, <2>3
<1>10. CASE sighandler
  <2>1. stage # "down"
    BY <1>10 DEF sighandler
  <2>2. save_data' \in {1, -2} \/ UNCHANGED <<save_data, delayed_quit>>
    BY <1>10 DEF sighandler, SigHup, SigTerm, SigInt
  <2>3. save_data' # 0 \/ UNCHANGED <<save_data, delayed_quit>>
    BY <2>2
  <2> QED BY <2>1, <2>3
<1>11. CASE Crash
  BY <1>11 DEF Crash
<1>12. CASE Start
  BY <1>12 DEF Start
<1>13. CASE UNCHANGED vars
  BY <1>13 DEF vars
<1> QED
  BY <1>1, <1>2, <1>3, <1>4, <1>5, <1>6, <1>7, <1>8, <1>9, <1>10, <1>11, <1>12,
     <1>13 DEF Next, Loop

(* Files that are done stay done while the next ones are written, and when *)
(* services end.                                                           *)
LEMMA RoundStep ==
  ASSUME TypeOK, TypeOK', DataInv, RoundInv, [Next]_vars
  PROVE  RoundSaved' /\ ExitSaved'
<1> SUFFICES ASSUME faults' \subseteq {"signal", "late"}
             PROVE  /\ InRound' => Before'
                    /\ stage' = "saved" => \A d \in DBs : Done(d)'
                    /\ stage' = "down" /\ ended' = "ordered" => \A d \in DBs : Done(d)'
  BY DEF RoundSaved, ExitSaved, InRound, Before, Done
<1> USE DbType DEF orders, disk, past
<1>1. /\ Len(Order) \in Nat /\ k \in 1..Len(Order) /\ k \in Nat
      /\ \A i \in 1..Len(Order) : Order[i] \in DBs
  <2>1. Len(Order) \in Nat /\ \A i \in 1..Len(Order) : Order[i] \in DBs
    BY OrderAssumption
  <2>2. k \in 1..Len(Order)
    BY DEF TypeOK
  <2> QED BY <2>1, <2>2
<1>2. ASSUME NEW i \in 1..Len(Order), i < k PROVE Order[i] # db
  <2>1. Order[i] = Order[k] => i = k
    BY <1>1, OrderAssumption
  <2> QED BY <1>1, <1>2, <2>1 DEF db
<1>3. ASSUME Fail({"rename"}) \/ Fail({"create"}) \/ Fail({"create", "back"})
             \/ Fail({"blind"}) \/ Fail({"flush"}) \/ Fail({"write"})
             \/ Fail({"write", "back"}) \/ Fail({"write", "back", "copy"})
      PROVE  FALSE
  BY <1>3 DEF Fail
<1>4. faults \subseteq {"signal", "late"}
  BY DEF Next, Loop, Top, EndRound, Unlink, Rename, Create, CreateFails, Write,
     restore_db, Close, FClose, Process, sighandler, Crash, Start, Fail, NoFail, vars
<1>5. InRound => Before
  BY <1>4 DEF RoundInv, RoundSaved, InRound, Before
<1>6. stage = "saved" => \A d \in DBs : Done(d)
  BY <1>4 DEF RoundInv, RoundSaved
<1>7. ASSUME InRound, UNCHANGED <<mem, k>>,
             \A d \in DBs : d # db => file'[d] = file[d]
      PROVE  Before'
  BY <1>1, <1>2, <1>5, <1>7 DEF Before, Done
<1>8. ASSUME NEW how, Leave(how), stage = "saved", UNCHANGED mem
      PROVE  stage' = "down" /\ \A d \in DBs : Done(d)'
  BY <1>6, <1>8, LeaveKeeps DEF LeftAs, Done
<1>9. CASE Top
  <2>1. CASE TopQuits
    BY <2>1, LeaveKeeps DEF TopQuits, InRound
  <2>2. CASE TopSaves
    BY <1>1, <2>2 DEF TopSaves, Before, InRound
  <2>3. CASE TopRests
    <3>1. delayed_quit => readonly
      BY <1>9, <2>3 DEF Top, TopRests, RoundInv, QuitSaves
    <3> QED BY <2>3, <3>1, LeaveKeeps DEF TopRests, Continue, InRound
  <2> QED BY <1>9, <2>1, <2>2, <2>3 DEF Top
<1>10. CASE EndRound
  BY <1>8, <1>10, LeaveKeeps DEF EndRound, Continue, InRound
<1>11. CASE Unlink
  BY <1>7, <1>11 DEF Unlink, InRound, TypeOK
<1>12. CASE Rename
  <2>1. \A d \in DBs : d # db => file'[d] = file[d]
    BY <1>3, <1>12 DEF Rename, TypeOK
  <2> QED BY <1>3, <1>7, <1>12, <2>1 DEF Rename, InRound
<1>13. CASE Create
  <2>1. \A d \in DBs : d # db => file'[d] = file[d]
    BY <1>3, <1>13 DEF Create, CreateFails, TypeOK
  <2> QED BY <1>3, <1>7, <1>13, <2>1 DEF Create, CreateFails, InRound
<1>14. CASE Write
  <2>1. \A d \in DBs : d # db => file'[d] = file[d]
    BY <1>3, <1>14 DEF Write, restore_db, TypeOK
  <2> QED BY <1>3, <1>7, <1>14, <2>1 DEF Write, restore_db, InRound
<1>15. CASE Close
  BY <1>7, <1>15 DEF Close, InRound
<1>16. CASE FClose
  <2>1. file[db].has = mem[db] /\ file[db].part = "held"
    BY <1>4, <1>16 DEF FClose, DataInv, Writing
  <2>2. file' = [file EXCEPT ![db] = Flushed(@)] /\ UNCHANGED mem
    BY <1>3, <1>16 DEF FClose
  <2>3. \A d \in DBs : d # db => file'[d] = file[d]
    BY <2>2 DEF TypeOK
  <2>4. file'[db] = [has |-> mem'[db], part |-> "full"]
    BY <2>1, <2>2 DEF Flushed, As, TypeOK
  <2>5. \A i \in 1..Len(Order) : i =< k => Done(Order[i])'
    BY <1>1, <1>2, <1>5, <1>16, <2>2, <2>3, <2>4 DEF FClose, InRound, Before, Done, db
  <2>6. k = Len(Order) => \A d \in DBs : Done(d)'
    BY <1>1, <2>5, OrderAssumption
  <2> QED BY <1>1, <1>16, <2>5, <2>6 DEF FClose, NextFile, InRound, Before
<1>17. CASE Process
  BY <1>17 DEF Process, InRound
<1>18. CASE sighandler
  BY <1>18 DEF sighandler, InRound
<1>19. CASE Crash
  BY <1>19 DEF Crash, InRound
<1>20. CASE Start
  BY <1>20 DEF Start, InRound
<1>21. CASE UNCHANGED vars
  <2>1. ended = "ordered" /\ stage = "down" => \A d \in DBs : Done(d)
    BY <1>4 DEF RoundInv, ExitSaved, Done
  <2> QED BY <1>5, <1>6, <1>21, <2>1 DEF vars, InRound, Before, Done
<1> QED
  BY <1>9, <1>10, <1>11, <1>12, <1>13, <1>14, <1>15, <1>16, <1>17, <1>18,
     <1>19, <1>20, <1>21 DEF Next, Loop
-----------------------------------------------------------------------------
(* The inductive invariant.                                                *)
DInv == TypeOK /\ DataInv /\ DiskInv /\ RestoredWhole /\ RoundInv

(* The invariant holds at the start and is kept.                           *)
LEMMA DInvInit == Init => DInv
<1> SUFFICES ASSUME Init PROVE DInv
  OBVIOUS
<1>1. TypeOK
  BY InitType
<1>2. db \in DBs
  BY <1>1, DbType
<1>3. DataInv
  BY <1>2 DEF Init, DataInv, Contents, Writing, Absent
<1>4. DiskInv
  BY DEF Init, DiskInv, CalmDisk, BearableDisk, BackFollows, Full
<1>5. RestoredWhole /\ RoundInv
  BY DEF Init, RestoredWhole, RoundInv, RoundSaved, QuitSaves, ExitSaved
<1> QED
  BY <1>1, <1>3, <1>4, <1>5 DEF DInv

(* Each conjunct is kept by the lemma above about it.                      *)
LEMMA DInvStep == DInv /\ [Next]_vars => DInv'
BY TypeStep, DataStep, BackStep, DiskStep, RestoredStep, QuitStep, RoundStep
   DEF DInv, DiskInv, RoundInv

(* The inductive invariant of DataFiles.                                   *)
THEOREM DataInvariant == Spec => []DInv
BY DInvInit, DInvStep, PTL DEF Spec

(* No single failure, and no signal, loses what a save has stored.         *)
THEOREM SavedCorrect == Spec => []SavedKept
<1>1. DInv => SavedKept
  <2> SUFFICES ASSUME DInv, Bearable, NEW d \in DBs \ short, best[d] # {},
                      stage = "down" \/ ~ best[d] \subseteq mem[d]
               PROVE  Holds(file[d], d) \/ Holds(save[d], d)
    BY DEF SavedKept
  <2>1. stage = "down"
    BY DEF DInv, DataInv, Contents
  <2>2. Full(file[d], d) \/ Full(save[d], d)
    BY <2>1 DEF DInv, DiskInv, BearableDisk, Midway
  <2> QED BY <2>2 DEF Full, Holds, DInv, DataInv, Contents
<1> QED
  BY <1>1, DataInvariant, PTL

(* Calls that fail while saving never make the next start load less.       *)
THEOREM RestoredCorrect == Spec => []RestoredWhole
<1>1. DInv => RestoredWhole
  BY DEF DInv
<1> QED
  BY <1>1, DataInvariant, PTL

(* When services end as they were told to, every file is up to date.       *)
THEOREM ExitCorrect == Spec => []ExitSaved
<1>1. DInv => ExitSaved
  BY DEF DInv, RoundInv
<1> QED
  BY <1>1, DataInvariant, PTL
=============================================================================
