-------------------------- MODULE MCZerodhaAdapter --------------------------
(* TLC's instance of ZerodhaAdapter.                                       *)
EXTENDS ZerodhaAdapter, TLC

\* One type that is open at once and one that waits for its trigger.
LimitAndStop == {"LIMIT", "SL"}

\* A status cancel_all_orders knows and one it does not.
JustReceived == {"PENDING", "VALIDATION PENDING"}
=============================================================================
