--------------------------- MODULE MCFinalization ---------------------------
(* An approval (a1), a rejection (a2) and two deletions (x1, x2) of one     *)
(* disbursement.                                                            *)
EXTENDS Finalization

CONSTANTS a1, a2, x1, x2, d1

MCTargetOf == [r \in Request |-> d1]

MCOperationOf ==
    [r \in Request |-> IF r = a1 THEN "APPROVED" ELSE IF r = a2 THEN "REJECTED" ELSE "DELETE"]

=============================================================================
