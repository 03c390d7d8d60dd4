----------------------------- MODULE AuditTrail -----------------------------
(***************************************************************************)
(* The hash chain under the audit trail (src/risk/audit.py).               *)
(*                                                                         *)
(* An entry keeps its payload (event type, data, ids and time together),   *)
(* the checksum of the entry before it and its own.  SHA-256 is taken to   *)
(* be injective: the checksum of an entry is the sequence of everything it *)
(* digests, which through prev_checksum is the payloads of all entries up  *)
(* to it.  GENESIS digests nothing.                                        *)
(*                                                                         *)
(* The list lives in the memory of one process, and get_entries hands out  *)
(* the entries' own data dictionaries, so a reader can write into the      *)
(* trail.  Besides that the trail is checked against restarts and against  *)
(* entries lost or exchanged by whatever may one day store it.             *)
(***************************************************************************)
EXTENDS Naturals, Sequences

CONSTANTS
    Payloads,
    MaxRecords,      \* bound: entries recorded in a run
    MaxFaults        \* bound: restarts and writes into the trail in a run

ASSUME TrailAssumption == MaxRecords \in Nat /\ MaxFaults \in Nat

VARIABLES
    entries,
    recorded,        \* history: the payloads given to record, in order
    faults           \* history: how often the trail was written into or lost

trailVars == <<entries, recorded, faults>>

GENESIS == <<>>

PayloadsOf(es) == [i \in 1..Len(es) |-> es[i].payload]

TrailInit == entries = <<>> /\ recorded = <<>> /\ faults = 0
-----------------------------------------------------------------------------
(* Faults: plausible mistakes in the code below.                           *)

VerifyChainLinksOnly ==
    \A i \in 1..Len(entries) :
        entries[i].prev_checksum = IF i = 1 THEN GENESIS ELSE entries[i - 1].checksum

VerifyChainLast ==
    entries # <<>> =>
        LET last == entries[Len(entries)]
        IN  /\ last.checksum = Append(last.prev_checksum, last.payload)
            /\ Len(last.prev_checksum) = Len(entries) - 1

RecordPayloadCapped(p) ==
    /\ Len(recorded) < MaxRecords
    /\ LET kept == IF Len(entries) < 3 THEN entries ELSE Tail(entries)
           prev == IF kept = <<>> THEN GENESIS ELSE kept[Len(kept)].checksum
       IN  entries' = Append(kept, [payload |-> p, prev_checksum |-> prev,
                                    checksum |-> Append(prev, p)])
    /\ recorded' = Append(recorded, p)
    /\ UNCHANGED faults
-----------------------------------------------------------------------------
(* AuditEntry._compute_checksum.                                           *)
Checksum(payload, prev) == Append(prev, payload)

(* AuditTrail.last_checksum, also read by record.                          *)
LastChecksum == IF entries = <<>> THEN GENESIS ELSE entries[Len(entries)].checksum

(* AuditTrail.verify_chain: every entry digests to its checksum and points *)
(* to the checksum before it.                                              *)
VerifyChain ==
    \A i \in 1..Len(entries) :
        /\ entries[i].checksum = Checksum(entries[i].payload, entries[i].prev_checksum)
        /\ entries[i].prev_checksum = IF i = 1 THEN GENESIS ELSE entries[i - 1].checksum

(* AuditTrail.record.                                                      *)
RecordPayload(p) ==
    /\ Len(recorded) < MaxRecords
    /\ entries' = Append(entries, [payload |-> p,
                                   prev_checksum |-> LastChecksum,
                                   checksum |-> Checksum(p, LastChecksum)])
    /\ recorded' = Append(recorded, p)
    /\ UNCHANGED faults

(* A reader of get_entries writes into the data it was given.              *)
EditAliased(i, p) ==
    /\ faults < MaxFaults
    /\ entries' = [entries EXCEPT ![i].payload = p]
    /\ faults' = faults + 1
    /\ UNCHANGED recorded

(* Storage loses an entry, the last one included, or exchanges two.        *)
Lose(i) ==
    /\ faults < MaxFaults
    /\ entries' = SubSeq(entries, 1, i - 1) \o SubSeq(entries, i + 1, Len(entries))
    /\ faults' = faults + 1
    /\ UNCHANGED recorded

Exchange(i, j) ==
    /\ faults < MaxFaults
    /\ entries' = [entries EXCEPT ![i] = entries[j], ![j] = entries[i]]
    /\ faults' = faults + 1
    /\ UNCHANGED recorded

(* The process restarts: the list was nowhere else.                        *)
TrailRestarts ==
    /\ faults < MaxFaults
    /\ entries' = <<>>
    /\ faults' = faults + 1
    /\ UNCHANGED recorded

TrailNext ==
    \/ \E p \in Payloads : RecordPayload(p)
    \/ \E i \in 1..Len(entries), p \in Payloads : EditAliased(i, p)
    \/ \E i \in 1..Len(entries) : Lose(i)
    \/ \E i, j \in 1..Len(entries) : Exchange(i, j)
    \/ TrailRestarts

TrailSpec == TrailInit /\ [][TrailNext]_trailVars
-----------------------------------------------------------------------------
(* es is ps with some elements left out.                                   *)
IsSubsequence(es, ps) ==
    \E at \in [1..Len(es) -> 1..Len(ps)] :
        /\ \A i, j \in 1..Len(es) : i < j => at[i] < at[j]
        /\ \A i \in 1..Len(es) : es[i] = ps[at[i]]

(* A trail that verifies holds only what was recorded, unaltered and in    *)
(* the order it was recorded in; one that nobody wrote into, of a process  *)
(* that did not restart, verifies and is complete.                         *)
VerifiedIsRecorded ==
    /\ VerifyChain => IsSubsequence(PayloadsOf(entries), recorded)
    /\ faults = 0 => VerifyChain /\ PayloadsOf(entries) = recorded

(* Recording never mends a broken chain: each entry takes the checksum the *)
(* one before it carries, right or wrong.                                  *)
RecordingNeverMends ==
    [][~VerifyChain /\ recorded' # recorded => ~VerifyChain']_trailVars

(* The chain implements the growing sequence the other components see,     *)
(* steps of readers, storage and restarts aside.                           *)
Log == INSTANCE AuditLog WITH audit <- PayloadsOf(entries)

ASSUME PayloadAssumption == Payloads \subseteq Log!AuditEntry

ImplementsLog == Log!AuditInit /\ [][faults' = faults => Log!LogNext]_(PayloadsOf(entries))
=============================================================================
