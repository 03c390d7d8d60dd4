--------------------------- MODULE OperatedSwitch ---------------------------
(***************************************************************************)
(* The kill switch on its own (src/risk/kill_switch.py): an operator       *)
(* activates and deactivates it, its process dies and is started again,    *)
(* and a reader of its log writes into what it was given.                  *)
(***************************************************************************)
EXTENDS KillSwitch, SequencesExt

CONSTANT MaxLives     \* bound: processes in a run

ASSUME OperatedAssumption == MaxLives \in Nat

VARIABLES
    lives,            \* history: the number of the process
    altered           \* history: a reader wrote into the log of this process

switchVars == <<now, ks, lives, altered>>

SwitchInit == ClockInit /\ KSInit /\ lives = 1 /\ altered = FALSE

(* The container starts the process again.                                 *)
NewLife ==
    /\ lives < MaxLives
    /\ Restart
    /\ lives' = lives + 1
    /\ altered' = FALSE
    /\ UNCHANGED now

(* get_log copies the list and hands out the switch's own entries: a       *)
(* reader who writes into one, here a level, writes into the log.          *)
ReaderAlters(i, l) ==
    /\ ks' = [ks EXCEPT !.log[i].level = l]
    /\ altered' = TRUE
    /\ UNCHANGED <<now, lives>>

KSNext ==
    \/ (\E l \in Levels : OperatorActivates(l)) /\ UNCHANGED <<now, lives, altered>>
    \/ OperatorDeactivates /\ UNCHANGED <<now, lives, altered>>
    \/ NewLife
    \/ \E i \in 1..Len(ks.log), l \in Levels : ReaderAlters(i, l)
    \/ Tick /\ UNCHANGED <<ks, lives, altered>>

KSSpec == SwitchInit /\ [][KSNext]_switchVars
-----------------------------------------------------------------------------
(* An activation time is held exactly while the switch is active, and no   *)
(* log entry speaks of the inactive level, unless a reader wrote it there: *)
(* activating at INACTIVE and deactivating an inactive switch leave no     *)
(* trace.                                                                  *)
KSTypeOK ==
    /\ ClockTypeOK
    /\ ks \in KSType /\ lives \in Nat /\ altered \in BOOLEAN
    /\ ks.activation_time = None <=> ks.level = "INACTIVE"
    /\ ~altered => \A i \in 1..Len(ks.log) : ks.log[i].level # "INACTIVE"

(* The log alone rebuilds the switch: after an activation entry the time   *)
(* in force is that entry's, and so is the level unless a reader altered   *)
(* it; after a deactivation entry or on an empty log the switch is         *)
(* inactive.                                                               *)
LogReplays ==
    LET n == Len(ks.log)
    IN  IF n > 0 /\ ks.log[n].action = "ACTIVATED"
        THEN /\ ~altered => ks.level = ks.log[n].level
             /\ ks.activation_time = ks.log[n].time
        ELSE ks.level = "INACTIVE" /\ ks.activation_time = None

(* Every deactivation in the log directly follows the activation it ends   *)
(* and is not earlier: two deactivations never meet.  It names its level,  *)
(* unless a reader altered either.                                         *)
LogAlternates ==
    \A i \in 1..Len(ks.log) :
        ks.log[i].action = "DEACTIVATED" =>
            /\ i > 1
            /\ ks.log[i - 1].action = "ACTIVATED"
            /\ ~altered => ks.log[i - 1].level = ks.log[i].level
            /\ ks.log[i - 1].time <= ks.log[i].time

(* A step in which the switch leaves an active level for INACTIVE ...      *)
Resumes == ks.level # "INACTIVE" /\ ks'.level = "INACTIVE"

(* ... and logs it, after all that the log said before.                    *)
LogsDeactivation ==
    ks'.log = Append(ks.log, [action |-> "DEACTIVATED", level |-> ks.level, time |-> now])

(* Never auto-resume, within the life of a process: the switch leaves an   *)
(* active level only in a step that logs a deactivation, and no operation  *)
(* drops or changes an entry of the log.  Only the steps that begin a      *)
(* process are exempt; a resumption that loses the log is not.             *)
NeverAutoResumes ==
    [][ lives' = lives =>
            /\ Resumes => LogsDeactivation
            /\ ~altered' => IsPrefix(ks.log, ks'.log) ]_switchVars
=============================================================================
