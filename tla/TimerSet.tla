------------------------------ MODULE TimerSet ------------------------------
(***************************************************************************)
(* What timeout.c promises, without its list: timers are set and cancelled *)
(* at any moment; a check calls every timer that is due when it starts,    *)
(* once each, in any order, and none of those that are set meanwhile; a    *)
(* timer that was called is gone.                                          *)
(***************************************************************************)
EXTENDS Naturals

CONSTANTS Timers, Delays, NONE

VARIABLES
  clock,
  pending,   \* the timers that are set
  when,      \* the time each of them is due
  batch,     \* the timers this check has still to call
  called     \* the timer whose routine is running

timers == <<clock, pending, when, batch, called>>

TimersInit ==
  /\ clock \in Nat
  /\ pending = {}
  /\ when \in [Timers -> Nat]
  /\ batch = {}
  /\ called = NONE

SetTimer(t, d) ==
  /\ t \notin pending
  /\ pending' = pending \cup {t}
  /\ when' = [when EXCEPT ![t] = clock + d]
  /\ UNCHANGED <<clock, batch, called>>

(* A routine does not cancel its own timer.                                *)
CancelTimer(t) ==
  /\ t \in pending \ {called}
  /\ pending' = pending \ {t}
  /\ batch' = batch \ {t}
  /\ UNCHANGED <<clock, when, called>>

Check ==
  /\ batch = {} /\ called = NONE
  /\ batch' = {t \in pending : when[t] <= clock}
  /\ UNCHANGED <<clock, pending, when, called>>

CallTimer(t) ==
  /\ called = NONE
  /\ t \in batch
  /\ batch' = batch \ {t}
  /\ called' = t
  /\ UNCHANGED <<clock, pending, when>>

TimerDone ==
  /\ called # NONE
  /\ pending' = pending \ {called}
  /\ called' = NONE
  /\ UNCHANGED <<clock, when, batch>>

Pass ==
  /\ clock' = clock + 1
  /\ UNCHANGED <<pending, when, batch, called>>

TimersNext ==
  \/ \E t \in Timers : \/ CancelTimer(t)
                       \/ CallTimer(t)
                       \/ \E d \in Delays : SetTimer(t, d)
  \/ Check
  \/ TimerDone
  \/ Pass

TimersSpec == TimersInit /\ [][TimersNext]_timers

(* A routine runs for a timer that is set and due: none is called before   *)
(* its time, or after it was cancelled.                                    *)
CalledDue == called # NONE => called \in pending /\ when[called] <= clock
=============================================================================
