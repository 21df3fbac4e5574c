------------------------------ MODULE Timeouts ------------------------------
(***************************************************************************)
(* The list of timers of timeout.c, cell by cell: add_timeout puts a cell  *)
(* in front, del_timeout takes one out, and check_timeouts walks the list  *)
(* while the routines it calls do both.  Cells come from malloc and go     *)
(* back with free; a cell that was freed may be handed out again.          *)
(*                                                                         *)
(* Every caller passes repeat = 0, so a timer that was called goes.        *)
(***************************************************************************)
EXTENDS Naturals, FiniteSets

CONSTANTS
  Cells,     \* the Timeout structures malloc can hand out
  NULL,
  Delays,    \* the delays add_timeout is called with
  MaxTime    \* bound: nothing is due later

ASSUME NullAssumption  == NULL \notin Cells
ASSUME DelayAssumption == Delays \subseteq Nat /\ MaxTime \in Nat

VARIABLES
  now,       \* time(NULL)
  live,      \* the cells that are allocated
  next, prev, timeout,
  timeouts,  \* the head of the list
  to,        \* the cell check_timeouts looks at
  t,         \* the time at which it started
  run        \* "idle"; "walk": at to; "call": in to->code(to)

links       == <<next, prev, timeouts>>
timeoutVars == <<now, live, next, prev, timeout, timeouts, to, t, run>>

Link == Cells \cup {NULL}
-----------------------------------------------------------------------------
(* p->next = n and p->prev = n, where p may be null.                       *)
Put(f, p, n) == IF p = NULL THEN f ELSE [f EXCEPT ![p] = n]

(* Taking cell c out: check_timeouts and del_timeout do it alike.          *)
NextWithout(c) == Put(next, prev[c], next[c])
PrevWithout(c) == Put(prev, next[c], prev[c])
HeadWithout(c) == IF prev[c] = NULL THEN next[c] ELSE timeouts

UnlinkCell(c) ==
  /\ next'     = NextWithout(c)
  /\ prev'     = PrevWithout(c)
  /\ timeouts' = HeadWithout(c)
  /\ live'     = live \ {c}

(* Commands and timer routines set and cancel timers, the walk does not.   *)
Outside == run # "walk"

(* Mutant of PushFront: the cell that was first is not linked back.        *)
PushFrontForgets(c) ==
  /\ next'     = [next EXCEPT ![c] = timeouts]
  /\ prev'     = [prev EXCEPT ![c] = NULL]
  /\ timeouts' = c

(* Mutant of PushFront: the cell goes behind the one being called.         *)
PushFrontBehind(c) ==
  IF run = "call"
    THEN /\ next'     = [next EXCEPT ![c] = next[to], ![to] = c]
         /\ prev'     = Put([prev EXCEPT ![c] = to], next[to], c)
         /\ timeouts' = timeouts
    ELSE /\ next'     = [next EXCEPT ![c] = timeouts]
         /\ prev'     = Put([prev EXCEPT ![c] = NULL], timeouts, c)
         /\ timeouts' = c

PushFront(c) ==
  /\ next'     = [next EXCEPT ![c] = timeouts]
  /\ prev'     = Put([prev EXCEPT ![c] = NULL], timeouts, c)
  /\ timeouts' = c

add_timeout(c, delay) ==
  /\ Outside
  /\ c \notin live
  /\ now + delay <= MaxTime
  /\ live'    = live \cup {c}
  /\ timeout' = [timeout EXCEPT ![c] = now + delay]
  /\ PushFront(c)
  /\ UNCHANGED <<now, to, t, run>>

(* A timer routine does not delete its own timer: rem_ns_timeout has taken *)
(* it out of the list del_ns_timeout goes by, and nobody else deletes one. *)
del_timeout(c) ==
  /\ Outside
  /\ c \in live
  /\ run = "call" => c # to
  /\ UnlinkCell(c)
  /\ UNCHANGED <<now, timeout, to, t, run>>
-----------------------------------------------------------------------------
(* check_timeouts                                                          *)
StartCheck ==
  /\ run = "idle"
  /\ run' = "walk"
  /\ to'  = timeouts
  /\ t'   = now
  /\ UNCHANGED <<now, live, timeout, links>>

Skip ==
  /\ run = "walk" /\ to # NULL
  /\ t < timeout[to]
  /\ to' = next[to]
  /\ UNCHANGED <<now, live, timeout, links, t, run>>

Call ==
  /\ run = "walk" /\ to # NULL
  /\ t >= timeout[to]
  /\ run' = "call"
  /\ UNCHANGED <<now, live, timeout, links, to, t>>

(* Mutant of Return: the timer stays, as a repeating one would.            *)
ReturnKeeps ==
  /\ run = "call"
  /\ run' = "walk"
  /\ to' = next[to]
  /\ UNCHANGED <<now, live, timeout, links, t>>

(* to->next is read after the call, whatever the routine did to the list.  *)
Return ==
  /\ run = "call"
  /\ run' = "walk"
  /\ to' = next[to]
  /\ UnlinkCell(to)
  /\ UNCHANGED <<now, timeout, t>>

Finish ==
  /\ run = "walk" /\ to = NULL
  /\ run' = "idle"
  /\ UNCHANGED <<now, live, timeout, links, to, t>>

Tick ==
  /\ now < MaxTime
  /\ now' = now + 1
  /\ UNCHANGED <<live, timeout, links, to, t, run>>
-----------------------------------------------------------------------------
TimeoutsInit ==
  /\ now = 0
  /\ live = {}
  /\ next = [c \in Cells |-> NULL]
  /\ prev = [c \in Cells |-> NULL]
  /\ timeout = [c \in Cells |-> 0]
  /\ timeouts = NULL
  /\ to = NULL
  /\ t = 0
  /\ run = "idle"

Client ==
  \E c \in Cells : del_timeout(c) \/ \E d \in Delays : add_timeout(c, d)

CheckStep == StartCheck \/ Skip \/ Call \/ Return \/ Finish

TimeoutsNext == Client \/ CheckStep \/ Tick

TimeoutsSpec == TimeoutsInit /\ [][TimeoutsNext]_timeoutVars

(* The clock runs, the main loop comes back to check_timeouts, and timer   *)
(* routines return.                                                        *)
FairTimeoutsSpec == TimeoutsSpec /\ WF_timeoutVars(Tick) /\ WF_timeoutVars(CheckStep)
-----------------------------------------------------------------------------
TimeoutsTypeOK ==
  /\ now \in Nat
  /\ live \in SUBSET Cells
  /\ next \in [Cells -> Link]
  /\ prev \in [Cells -> Link]
  /\ timeout \in [Cells -> Nat]
  /\ timeouts \in Link
  /\ to \in Link
  /\ t \in Nat
  /\ run \in {"idle", "walk", "call"}

(* The list is linked both ways: what send_timeout_list looks for when it  *)
(* says "to->prev incorrect!" never happens, whatever timers the routines  *)
(* set and cancel during the walk, and no link leads to freed memory.      *)
DoublyLinked ==
  /\ timeouts # NULL => timeouts \in live /\ prev[timeouts] = NULL
  /\ \A c \in live :
       /\ next[c] # NULL => next[c] \in live /\ prev[next[c]] = c
       /\ prev[c] # NULL => prev[c] \in live /\ next[prev[c]] = c
       /\ prev[c] = NULL => timeouts = c

(* check_timeouts never reads a cell that was freed under it: the routines *)
(* it calls may delete any other timer, the next of the list included.     *)
CursorLive == run # "idle" /\ to # NULL => to \in live

(* Both, in any order of timers set, cancelled and run.                    *)
ListSound == DoublyLinked /\ CursorLive

(* The cells a walk from x reaches: those in every set that has x and, with*)
(* a cell, the one after it.                                               *)
Closed(S) == \A c \in S : next[c] \in S \cup {NULL}
From(x) == {c \in Cells : \A S \in SUBSET Cells :
                            Closed(S) /\ x \in S \cup {NULL} => c \in S}

(* timeout.c:87 and timeout.h:29 ask that a timer set by a timer routine   *)
(* is not looked at during that run: the list does what TimerSet promises. *)
Ahead == IF run = "call" THEN next[to] ELSE IF run = "walk" THEN to ELSE NULL
Promise == INSTANCE TimerSet WITH
  Timers  <- Cells,
  NONE    <- NULL,
  clock   <- now,
  pending <- live,
  when    <- timeout,
  batch   <- {c \in From(Ahead) : timeout[c] <= t},
  called  <- IF run = "call" THEN to ELSE NULL
ImplementsTimers == Promise!TimersSpec

(* Every timer is called at last, or somebody deletes it.                  *)
TimersEnd == \A c \in Cells : c \in live ~> c \notin live
=============================================================================
