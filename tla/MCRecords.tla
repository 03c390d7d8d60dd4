----------------------------- MODULE MCRecords -----------------------------
(* TLC's instances of OperatedSwitch and AuditTrail, the two records kept  *)
(* in memory.  They share no variable and each property speaks of one of   *)
(* them, so that a behaviour moves one and every state of each is reached  *)
(* without their product.                                                  *)
EXTENDS OperatedSwitch, AuditTrail

VARIABLE moving

MCPayloads ==
    {[event |-> "ORDER_PLACED", order_id |-> 1], [event |-> "ORDER_CANCELLED", order_id |-> 1]}

RecordsInit == SwitchInit /\ TrailInit /\ moving \in {"switch", "trail"}

SwitchMoves == moving = "switch" /\ KSNext /\ UNCHANGED <<trailVars, moving>>

TrailMoves == moving = "trail" /\ TrailNext /\ UNCHANGED <<switchVars, moving>>

RecordsNext == SwitchMoves \/ TrailMoves

RecordsSpec == RecordsInit /\ [][RecordsNext]_<<switchVars, trailVars, moving>>
=============================================================================
