-------------------------- MODULE KillSwitchProofs --------------------------
(***************************************************************************)
(* What holds of the kill switch for every sequence of operations, of any  *)
(* length: the bounds MaxSwitches and MaxTime are arbitrary here; and what *)
(* the two checks of a sync may do to it, for every limit, threshold, loss *)
(* and margin.                                                             *)
(***************************************************************************)
EXTENDS AccountChecks, OperatedSwitch, TLAPS

(* The strengthening: the log speaks for the switch, and the switch has    *)
(* its type.  LogReplays needs the type to know that a log grows by one,   *)
(* LogAlternates needs LogReplays to know which level a deactivation ends, *)
(* and that no entry lies in the future to know that times do not go back. *)
KSInv ==
    /\ KSTypeOK /\ LogReplays /\ LogAlternates
    /\ \A i \in 1..Len(ks.log) : ks.log[i].time <= now

(* The switch begins inactive, with an empty log.                          *)
LEMMA KSInitInv == SwitchInit => KSInv
<1> SUFFICES ASSUME ClockInit, KSInit, lives = 1, altered = FALSE PROVE KSInv
  BY DEF SwitchInit
<1>1. ks = [level |-> "INACTIVE", activation_time |-> None, log |-> <<>>]
  BY DEF KSInit, Fresh
<1>2. ks \in KSType
  BY <1>1 DEF KSType, Levels
<1>3. /\ Len(ks.log) = 0 /\ 1..Len(ks.log) = {}
      /\ ks.level = "INACTIVE" /\ ks.activation_time = None
  BY <1>1
<1>4. KSTypeOK
  BY <1>2, <1>3 DEF KSTypeOK, ClockInit, ClockTypeOK
<1>5. LogReplays /\ LogAlternates
  BY <1>3 DEF LogReplays, LogAlternates
<1> QED
  BY <1>3, <1>4, <1>5 DEF KSInv

(* Starting again is like the start, at a later time.                      *)
LEMMA RestartInv ==
    ASSUME KSInv, NewLife
    PROVE  KSInv'
<1>1. /\ ks' = [level |-> "INACTIVE", activation_time |-> None, log |-> <<>>]
      /\ now' = now /\ lives' = lives + 1 /\ altered' = FALSE
  BY DEF NewLife, Restart, Fresh
<1>2. ks' \in KSType
  BY <1>1 DEF KSType, Levels
<1>3. /\ Len(ks'.log) = 0 /\ 1..Len(ks'.log) = {}
      /\ ks'.level = "INACTIVE" /\ ks'.activation_time = None
  BY <1>1
<1>4. KSTypeOK'
  <2>0. altered' \in BOOLEAN
    BY <1>1
  <2>1. ClockTypeOK' /\ lives' \in Nat
    BY <1>1 DEF KSInv, KSTypeOK, ClockTypeOK
  <2>2. \A i \in 1..Len(ks'.log) : ks'.log[i].level # "INACTIVE"
    BY <1>3
  <2> QED
    BY <1>2, <1>3, <2>0, <2>1, <2>2 DEF KSTypeOK
<1>5. LogReplays' /\ LogAlternates'
  BY <1>3 DEF LogReplays, LogAlternates
<1> QED
  BY <1>3, <1>4, <1>5 DEF KSInv

(* A reader changes the level that one entry tells, and nothing else.      *)
LEMMA ReaderInv ==
    ASSUME KSInv, NEW i \in 1..Len(ks.log), NEW l \in Levels, ReaderAlters(i, l)
    PROVE  KSInv'
<1> USE DEF KSInv
<1>1. /\ ks \in KSType /\ ks.log \in Seq(LogEntry)
      /\ altered' = TRUE /\ now' = now /\ lives' = lives
  BY DEF KSTypeOK, KSType, ReaderAlters
<1> DEFINE e == [ks.log[i] EXCEPT !.level = l]
<1>2. ks' = [ks EXCEPT !.log = [ks.log EXCEPT ![i] = e]]
  BY DEF ReaderAlters
<1>3. ks.log[i] \in LogEntry
  BY <1>1
<1>4. e \in LogEntry /\ e.action = ks.log[i].action /\ e.time = ks.log[i].time
  BY <1>3 DEF LogEntry
<1>5. /\ ks'.log = [ks.log EXCEPT ![i] = e] /\ ks'.log \in Seq(LogEntry)
      /\ Len(ks'.log) = Len(ks.log)
  BY <1>1, <1>2, <1>4 DEF KSType
<1>6. /\ ks' \in KSType /\ ks'.level = ks.level
      /\ ks'.activation_time = ks.activation_time
  BY <1>1, <1>2, <1>5 DEF KSType
<1>7. \A j \in 1..Len(ks.log) :
          ks'.log[j].action = ks.log[j].action /\ ks'.log[j].time = ks.log[j].time
  BY <1>1, <1>4, <1>5
<1>8. KSTypeOK'
  BY <1>1, <1>6 DEF KSTypeOK, ClockTypeOK
<1>9. LogReplays'
  <2>1. CASE Len(ks.log) > 0
    <3>1. Len(ks.log) \in 1..Len(ks.log)
      BY <1>1, <2>1
    <3> QED
      BY <1>1, <1>5, <1>6, <1>7, <3>1 DEF LogReplays
  <2>2. CASE ~(Len(ks.log) > 0)
    BY <1>1, <1>5, <1>6, <2>2 DEF LogReplays
  <2> QED
    BY <2>1, <2>2
<1>10. LogAlternates'
  BY <1>1, <1>5, <1>7 DEF LogAlternates
<1> QED
  BY <1>1, <1>5, <1>7, <1>8, <1>9, <1>10

(* activate puts the entry it acts by at the end of the log.               *)
LEMMA ActivateInv ==
    ASSUME KSInv, NEW l \in Levels, OperatorActivates(l), UNCHANGED <<now, lives, altered>>
    PROVE  KSInv'
<1> USE DEF KSInv
<1>1. CASE l = "INACTIVE"
  <2>1. ks' = ks
    BY <1>1 DEF OperatorActivates, Activated
  <2> QED
    BY <2>1 DEF KSTypeOK, ClockTypeOK, LogReplays, LogAlternates
<1>2. CASE l # "INACTIVE"
  <2> DEFINE e == [action |-> "ACTIVATED", level |-> l, time |-> now]
  <2>1. /\ ks.log \in Seq(LogEntry) /\ now \in Nat
        /\ ks' = [level |-> l, activation_time |-> now, log |-> Append(ks.log, e)]
    BY <1>2 DEF OperatorActivates, Activated, KSTypeOK, KSType, ClockTypeOK
  <2>2. e \in LogEntry
    BY <2>1 DEF LogEntry
  <2>3. /\ ks'.log \in Seq(LogEntry)
        /\ Len(ks'.log) = Len(ks.log) + 1
        /\ ks'.log[Len(ks'.log)] = e
        /\ \A i \in 1..Len(ks.log) : ks'.log[i] = ks.log[i]
    BY <2>1, <2>2
  <2>4. KSTypeOK'
    <3>1. ks' \in KSType
      BY <2>1, <2>3 DEF KSType
    <3>2. now # None
      BY <2>1, KillSwitchAssumption
    <3> QED
      BY <1>2, <2>1, <2>3, <3>1, <3>2 DEF KSTypeOK, ClockTypeOK
  <2>5. LogReplays'
    BY <2>1, <2>3 DEF LogReplays
  <2>6. LogAlternates'
    BY <2>1, <2>3 DEF LogAlternates
  <2> QED
    BY <2>1, <2>3, <2>4, <2>5, <2>6
<1> QED
  BY <1>1, <1>2

(* deactivate logs the level that LogReplays says the last entry set.      *)
LEMMA DeactivateInv ==
    ASSUME KSInv, OperatorDeactivates, UNCHANGED <<now, lives, altered>>
    PROVE  KSInv'
<1> USE DEF KSInv
<1>1. CASE ks.level = "INACTIVE"
  <2>1. ks' = ks
    BY <1>1 DEF OperatorDeactivates, Deactivated
  <2> QED
    BY <2>1 DEF KSTypeOK, ClockTypeOK, LogReplays, LogAlternates
<1>2. CASE ks.level # "INACTIVE"
  <2> DEFINE e == [action |-> "DEACTIVATED", level |-> ks.level, time |-> now]
  <2>1. /\ ks.log \in Seq(LogEntry) /\ now \in Nat /\ ks.level \in Levels
        /\ ks' = [level |-> "INACTIVE", activation_time |-> None, log |-> Append(ks.log, e)]
    BY <1>2 DEF OperatorDeactivates, Deactivated, KSTypeOK, KSType, ClockTypeOK
  <2>2. e \in LogEntry
    BY <2>1 DEF LogEntry
  <2>3. /\ ks'.log \in Seq(LogEntry)
        /\ Len(ks'.log) = Len(ks.log) + 1
        /\ ks'.log[Len(ks'.log)] = e
        /\ \A i \in 1..Len(ks.log) : ks'.log[i] = ks.log[i]
    BY <2>1, <2>2
  <2>4. KSTypeOK'
    <3>1. ks' \in KSType
      BY <2>1, <2>3 DEF KSType, Levels
    <3> QED
      BY <1>2, <2>1, <2>3, <3>1 DEF KSTypeOK, ClockTypeOK
  <2>5. LogReplays'
    BY <2>1, <2>3 DEF LogReplays
  <2>6. /\ Len(ks.log) > 0
        /\ ks.log[Len(ks.log)].action = "ACTIVATED"
        /\ ~altered => ks.log[Len(ks.log)].level = ks.level
    BY <1>2, <2>1 DEF LogReplays
  <2>7. LogAlternates'
    BY <2>1, <2>3, <2>6 DEF LogAlternates
  <2> QED
    BY <2>1, <2>3, <2>4, <2>5, <2>7
<1> QED
  BY <1>1, <1>2

(* Time passes; no entry comes to lie in the future.                       *)
LEMMA TickInv ==
    ASSUME KSInv, Tick, UNCHANGED <<ks, lives, altered>>
    PROVE  KSInv'
<1>1. now \in Nat /\ now' = now + 1 /\ ks.log \in Seq(LogEntry)
  BY DEF KSInv, KSTypeOK, ClockTypeOK, KSType, Tick
<1>2. KSTypeOK' /\ LogReplays' /\ LogAlternates'
  BY <1>1 DEF KSInv, KSTypeOK, ClockTypeOK, LogReplays, LogAlternates
<1>3. \A i \in 1..Len(ks.log) : ks.log[i].time <= now'
  <2> SUFFICES ASSUME NEW i \in 1..Len(ks.log) PROVE ks.log[i].time <= now'
    OBVIOUS
  <2>0. ks.log[i] \in LogEntry
    BY <1>1
  <2>1. ks.log[i].time \in Nat
    BY <2>0 DEF LogEntry
  <2>2. ks.log[i].time <= now
    BY DEF KSInv
  <2> QED
    BY <1>1, <2>1, <2>2
<1> QED
  BY <1>2, <1>3 DEF KSInv

(* One case per disjunct of KSNext.                                        *)
LEMMA KSStepInv ==
    ASSUME KSInv, [KSNext]_switchVars
    PROVE  KSInv'
<1>1. CASE (\E l \in Levels : OperatorActivates(l)) /\ UNCHANGED <<now, lives, altered>>
  BY <1>1, ActivateInv
<1>2. CASE OperatorDeactivates /\ UNCHANGED <<now, lives, altered>>
  BY <1>2, DeactivateInv
<1>3. CASE NewLife
  BY <1>3, RestartInv
<1>4. CASE \E i \in 1..Len(ks.log), l \in Levels : ReaderAlters(i, l)
  BY <1>4, ReaderInv
<1>5. CASE Tick /\ UNCHANGED <<ks, lives, altered>>
  BY <1>5, TickInv
<1>6. CASE UNCHANGED switchVars
  BY <1>6 DEF switchVars, KSInv, KSTypeOK, ClockTypeOK, LogReplays, LogAlternates
<1> QED
  BY <1>1, <1>2, <1>3, <1>4, <1>5, <1>6 DEF KSNext

(* The invariant the theorems below are conjuncts of, or follow from.      *)
THEOREM KSInvariant == KSSpec => []KSInv
<1>1. SwitchInit => KSInv
  BY KSInitInv
<1>2. KSInv /\ [KSNext]_switchVars => KSInv'
  BY KSStepInv
<1> QED
  BY <1>1, <1>2, PTL DEF KSSpec

(* The type of the switch: it has an activation time exactly while it is   *)
(* active, whatever was activated over what.                               *)
THEOREM KSTypeCorrect == KSSpec => []KSTypeOK
<1>1. KSInv => KSTypeOK
  BY DEF KSInv
<1> QED
  BY <1>1, KSInvariant, PTL

(* The log alone rebuilds the level and the time in force.                 *)
THEOREM LogReplaysHolds == KSSpec => []LogReplays
<1>1. KSInv => LogReplays
  BY DEF KSInv
<1> QED
  BY <1>1, KSInvariant, PTL

(* Every deactivation in the log ends the activation just before it.       *)
THEOREM LogAlternatesHolds == KSSpec => []LogAlternates
<1>1. KSInv => LogAlternates
  BY DEF KSInv
<1> QED
  BY <1>1, KSInvariant, PTL

(* A sequence is a prefix of what appending to it gives.                   *)
LEMMA AppendKeeps ==
    ASSUME NEW S, NEW s \in Seq(S), NEW e
    PROVE  IsPrefix(s, Append(s, e))
<1> DEFINE t == Append(s, e)
<1>1. /\ s \in Seq(S \cup {e}) /\ t \in Seq(S \cup {e})
      /\ Len(t) = Len(s) + 1 /\ Len(s) \in Nat
      /\ \A i \in 1..Len(s) : t[i] = s[i]
  OBVIOUS
<1> HIDE DEF t
<1>2. SubSeq(s, 1, Len(s)) = SubSeq(t, 1, Len(s))
  BY <1>1
<1>3. IsPrefix(s, t)
  BY <1>1, <1>2 DEF IsPrefix
<1> QED
  BY <1>3 DEF t

(* Within the life of a process nothing but a logged deactivation resumes  *)
(* trading, and no operation drops or changes an entry of the log, which   *)
(* is told from the beginning of a process by the count of processes.      *)
THEOREM NeverAutoResumesHolds == KSSpec => NeverAutoResumes
<1> DEFINE Kept ==
      lives' = lives =>
          /\ Resumes => LogsDeactivation
          /\ ~altered' => IsPrefix(ks.log, ks'.log)
<1>1. ASSUME KSInv, [KSNext]_switchVars PROVE [Kept]_switchVars
  <2>0. ks.log \in Seq(LogEntry) /\ lives \in Nat
    BY <1>1 DEF KSInv, KSTypeOK, KSType
  <2>1. IsPrefix(ks.log, ks.log)
    BY <2>0 DEF IsPrefix
  <2>2. ASSUME NEW l \in Levels, OperatorActivates(l) PROVE Kept
    <3>1. CASE l = "INACTIVE"
      BY <2>1, <2>2, <3>1 DEF OperatorActivates, Activated, Resumes
    <3>2. CASE l # "INACTIVE"
      <4>1. ks'.level = l /\ \E e : ks'.log = Append(ks.log, e)
        BY <2>2, <3>2 DEF OperatorActivates, Activated
      <4>2. IsPrefix(ks.log, ks'.log)
        BY <2>0, <4>1, AppendKeeps
      <4> QED
        BY <3>2, <4>1, <4>2 DEF Resumes
    <3> QED
      BY <3>1, <3>2
  <2>3. CASE OperatorDeactivates
    <3>1. CASE ks.level = "INACTIVE"
      BY <2>1, <2>3, <3>1 DEF OperatorDeactivates, Deactivated, Resumes
    <3>2. CASE ks.level # "INACTIVE"
      <4>1. LogsDeactivation
        BY <2>3, <3>2 DEF OperatorDeactivates, Deactivated, LogsDeactivation
      <4>2. IsPrefix(ks.log, ks'.log)
        BY <2>0, <4>1, AppendKeeps DEF LogsDeactivation
      <4> QED
        BY <4>1, <4>2
    <3> QED
      BY <3>1, <3>2
  <2>4. CASE NewLife
    BY <2>0, <2>4 DEF NewLife
  <2>5. ASSUME NEW i \in 1..Len(ks.log), NEW l \in Levels, ReaderAlters(i, l) PROVE Kept
    <3>1. altered' = TRUE /\ ks'.level = ks.level
      BY <1>1, <2>5 DEF ReaderAlters, KSInv, KSTypeOK, KSType
    <3> QED
      BY <3>1 DEF Resumes
  <2>6. CASE UNCHANGED ks
    BY <2>1, <2>6 DEF Resumes
  <2> QED
    BY <1>1, <2>2, <2>3, <2>4, <2>5, <2>6 DEF KSNext
<1> QED
  BY <1>1, KSInvariant, PTL DEF KSSpec, NeverAutoResumes
-----------------------------------------------------------------------------
(* A loss beyond its limit halts trading (_check_daily_loss).              *)
LEMMA LossHalts ==
    ASSUME NEW k, NEW pnl, LossExceeded(pnl)
    PROVE  ~CheckOrderAllowed(LossChecked(k, pnl).level)
BY DEF LossChecked, Activated, CheckOrderAllowed

(* A loss within its limit leaves the switch alone, and so no check of the *)
(* loss resumes trading.                                                   *)
LEMMA LossKeepsHalt ==
    ASSUME NEW k, NEW pnl, ~CheckOrderAllowed(k.level)
    PROVE  ~CheckOrderAllowed(LossChecked(k, pnl).level)
BY LossHalts DEF LossChecked

(* The margin check resumes nothing: it throttles only an inactive switch  *)
(* (_check_margin_utilization), whatever the margin, overdrawn or not.     *)
LEMMA MarginKeepsHalt ==
    ASSUME NEW k, NEW m, ~CheckOrderAllowed(k.level)
    PROVE  ~CheckOrderAllowed(MarginChecked(k, m).level)
<1>1. k.level # "INACTIVE"
  BY DEF CheckOrderAllowed
<1>2. \/ MarginChecked(k, m) = k
      \/ MarginChecked(k, m) = Activated(k, "PAUSE", now)
  BY <1>1 DEF MarginChecked
<1> QED
  BY <1>2 DEF Activated, CheckOrderAllowed

(* Both checks of one sync, the margin's over the loss's: a loss beyond    *)
(* its limit, or a halt already in force, leaves trading halted.           *)
LEMMA ChecksHalt ==
    ASSUME NEW k, NEW pnl, NEW m,
           LossExceeded(pnl) \/ ~CheckOrderAllowed(k.level)
    PROVE  ~CheckOrderAllowed(MarginChecked(LossChecked(k, pnl), m).level)
BY LossHalts, LossKeepsHalt, MarginKeepsHalt
=============================================================================
