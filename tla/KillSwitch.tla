----------------------------- MODULE KillSwitch -----------------------------
(***************************************************************************)
(* The emergency halt (src/risk/kill_switch.py).                           *)
(*                                                                         *)
(* The state of one KillSwitch object is the record ks: its level, the     *)
(* time of the activation in force (None when inactive) and its log.  The  *)
(* path, the reason and the order count of an activation are carried into  *)
(* the log and read by nobody; they are left out.  The operations are      *)
(* functions from one record to the next, because one step of a caller     *)
(* may activate the switch twice (PositionTracker.sync does).              *)
(***************************************************************************)
EXTENDS Clock, Sequences

CONSTANTS
    None,            \* Python's None
    MaxSwitches      \* bound: operator actions are offered below this log length

ASSUME KillSwitchAssumption == None \notin Int /\ MaxSwitches \in Nat

VARIABLE ks

Levels == {"INACTIVE", "THROTTLE", "PAUSE", "KILL"}

LogEntry == [action: {"ACTIVATED", "DEACTIVATED"}, level: Levels, time: Nat]

KSType == [level: Levels, activation_time: Nat \cup {None}, log: Seq(LogEntry)]

-----------------------------------------------------------------------------
(* Faults: plausible mistakes in the operations below, each of which some  *)
(* property of the project must notice.                                    *)

ActivatedKeepsTime(k, l, t) ==
    IF l = "INACTIVE" THEN k
    ELSE [k EXCEPT !.level = l,
                   !.activation_time = IF @ = None THEN t ELSE @,
                   !.log = Append(@, [action |-> "ACTIVATED", level |-> l, time |-> t])]

ActivatedInactive(k, l, t) ==
    [level |-> l,
     activation_time |-> t,
     log |-> Append(k.log, [action |-> "ACTIVATED", level |-> l, time |-> t])]

DeactivatedUnguarded(k, t) ==
    [level |-> "INACTIVE",
     activation_time |-> None,
     log |-> Append(k.log, [action |-> "DEACTIVATED", level |-> k.level, time |-> t])]

DeactivatedForgets(k, t) ==
    IF k.level = "INACTIVE" THEN k
    ELSE [level |-> "INACTIVE",
          activation_time |-> None,
          log |-> <<[action |-> "DEACTIVATED", level |-> k.level, time |-> t]>>]

CheckOrderAllowedUnlessKill(l) == l # "KILL"
-----------------------------------------------------------------------------
(* KillSwitch.activate: activating at INACTIVE does nothing; any other     *)
(* level replaces the one in force, higher or lower.                       *)
Activated(k, l, t) ==
    IF l = "INACTIVE" THEN k
    ELSE [level |-> l,
          activation_time |-> t,
          log |-> Append(k.log, [action |-> "ACTIVATED", level |-> l, time |-> t])]

(* KillSwitch.deactivate: logged with the level left, a no-op if inactive. *)
Deactivated(k, t) ==
    IF k.level = "INACTIVE" THEN k
    ELSE [level |-> "INACTIVE",
          activation_time |-> None,
          log |-> Append(k.log, [action |-> "DEACTIVATED", level |-> k.level, time |-> t])]

(* KillSwitch.check_order_allowed; guard() raises exactly when it is FALSE. *)
CheckOrderAllowed(l) == l \in {"INACTIVE", "THROTTLE"}

-----------------------------------------------------------------------------
(* What an operator does to the switch, and what the end of its process    *)
(* does to it.                                                             *)

Fresh == [level |-> "INACTIVE", activation_time |-> None, log |-> <<>>]

KSInit == ks = Fresh

OperatorActivates(l) ==
    /\ Len(ks.log) < MaxSwitches
    /\ ks' = Activated(ks, l, now)

OperatorDeactivates ==
    /\ Len(ks.log) < MaxSwitches
    /\ ks' = Deactivated(ks, now)

(* The process dies and its container is started again: the constructor    *)
(* runs and nothing was saved.                                             *)
Restart == ks' = Fresh
=============================================================================
