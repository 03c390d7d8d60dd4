--------------------------- MODULE AccountChecks ---------------------------
(***************************************************************************)
(* The two checks of PositionTracker.sync (src/execution/positions.py)     *)
(* that may throw the kill switch: functions from the switch before to the *)
(* switch after.                                                           *)
(***************************************************************************)
EXTENDS KillSwitch

CONSTANTS
    DailyLossLimit,
    MarginThreshold,      \* percent
    CriticalThreshold     \* percent; 95 in the code

ASSUME AccountAssumption ==
    {DailyLossLimit, MarginThreshold, CriticalThreshold} \subseteq Nat
-----------------------------------------------------------------------------
(* Fault: a plausible mistake in the checks below.                         *)

MarginCheckedAlwaysThrottles(k, m) ==
    LET total == m.available + m.used
        Exceeds(p) == total # 0 /\ IF total > 0 THEN 100 * m.used > p * total
                                               ELSE 100 * m.used < p * total
    IN  CASE Exceeds(MarginThreshold) /\ Exceeds(CriticalThreshold) -> Activated(k, "PAUSE", now)
          [] Exceeds(MarginThreshold) /\ ~Exceeds(CriticalThreshold) ->
                 Activated(k, "THROTTLE", now)
          [] OTHER -> k
-----------------------------------------------------------------------------
(* _check_daily_loss, on the total of realized and unrealized P&L.         *)
LossExceeded(pnl) == pnl < -DailyLossLimit

LossChecked(k, pnl) == IF LossExceeded(pnl) THEN Activated(k, "KILL", now) ELSE k

(* _check_margin_utilization: used / total against a percentage; a total   *)
(* of zero returns early, a negative one turns the comparison around.      *)
MarginChecked(k, m) ==
    LET total == m.available + m.used
        Exceeds(p) == total # 0 /\ IF total > 0 THEN 100 * m.used > p * total
                                               ELSE 100 * m.used < p * total
    IN  CASE Exceeds(MarginThreshold) /\ Exceeds(CriticalThreshold) -> Activated(k, "PAUSE", now)
          [] Exceeds(MarginThreshold) /\ ~Exceeds(CriticalThreshold) /\ k.level = "INACTIVE" ->
                 Activated(k, "THROTTLE", now)
          [] OTHER -> k
=============================================================================
