------------------------------- MODULE Clock -------------------------------
(***************************************************************************)
(* The wall clock the components read with datetime.now() and time.time(). *)
(* Time is a number of ticks; a tick is the finest difference the models   *)
(* tell apart.  MaxTime bounds the runs of TLC and is arbitrary in the     *)
(* proofs.                                                                 *)
(***************************************************************************)
EXTENDS Integers

CONSTANT MaxTime      \* bound: the last tick of a run

ASSUME ClockAssumption == MaxTime \in Nat

VARIABLE now

ClockTypeOK == now \in Nat

ClockInit == now = 0

\* Time passes; the only step that changes the clock.
Tick ==
    /\ now < MaxTime
    /\ now' = now + 1
=============================================================================
