------------------------------- MODULE Clock --------------------------------
(* The clock the lists share: time(NULL), in steps of whatever length their *)
(* durations are given in.                                                 *)
EXTENDS Naturals

CONSTANT MaxTime          \* bound: how long a run is
ASSUME ClockAssumption == MaxTime \in Nat

VARIABLE now

Tick == now < MaxTime /\ now' = now + 1
=============================================================================
