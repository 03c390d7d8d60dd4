------------------------------ MODULE AuditLog ------------------------------
(***************************************************************************)
(* What the audit trail (src/risk/audit.py) is to the components that      *)
(* write to it: a sequence of events that only grows.  An entry keeps the  *)
(* event type and the broker's order id, 0 standing for the empty id.  The *)
(* hash chain under it is the subject of module AuditTrail.                *)
(***************************************************************************)
EXTENDS Naturals, Sequences, FiniteSets

VARIABLE audit

EventTypes ==
    {"ORDER_PLACED", "ORDER_CONFIRMED", "ORDER_CANCELLED", "ORDER_REJECTED",
     "KILL_SWITCH_ACTIVATED", "RISK_CHECK_PASSED", "RISK_CHECK_FAILED"}

AuditEntry == [event: EventTypes, order_id: Nat]

AuditInit == audit = <<>>

(* AuditTrail.record: one entry at the end of the trail.                   *)
Record(e, id) == audit' = Append(audit, [event |-> e, order_id |-> id])

(* What the trail promises: it starts empty and every step adds one entry. *)
LogNext ==
    /\ Len(audit') = Len(audit) + 1
    /\ audit' = Append(audit, audit'[Len(audit) + 1])
    /\ audit'[Len(audit) + 1] \in AuditEntry

(* The positions of the entries with an event in E.                        *)
EntriesOf(E) == {i \in 1..Len(audit) : audit[i].event \in E}

Recorded(E) == Cardinality(EntriesOf(E))
=============================================================================
