----------------------- MODULE DisbursementLifecycle ------------------------
(***************************************************************************)
(* What PATCH /disbursements/:id/status and DELETE /disbursements/:id      *)
(* promise together: a pending disbursement is settled (approved, rejected *)
(* or deleted) by one request, for good, and in the same instant that      *)
(* request is the one the audit trail names.                               *)
(***************************************************************************)
CONSTANTS
    Disbursement,   \* disbursement IDs a request may name
    Existing,       \* those that have a row
    Request,        \* PATCH and DELETE requests
    TargetOf        \* the ID each request names

VARIABLES
    outcome,        \* "missing", "pending", or the request that settled it
    audited         \* the requests with an audit event

LifecycleInit ==
    /\ outcome = [d \in Disbursement |-> IF d \in Existing THEN "pending" ELSE "missing"]
    /\ audited = {}

Settle(r) ==
    /\ outcome[TargetOf[r]] = "pending"
    /\ outcome' = [outcome EXCEPT ![TargetOf[r]] = r]
    /\ audited' = audited \cup {r}

LifecycleSpec == LifecycleInit /\ [][\E r \in Request : Settle(r)]_<<outcome, audited>>

=============================================================================
