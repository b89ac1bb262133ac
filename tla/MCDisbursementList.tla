------------------------- MODULE MCDisbursementList -------------------------
(* GET /disbursements for TLC: three rows on two days.                     *)
EXTENDS DisbursementList

=============================================================================
