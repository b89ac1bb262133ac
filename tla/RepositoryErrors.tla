-------------------------- MODULE RepositoryErrors --------------------------
(***************************************************************************)
(* The error vocabulary the repositories and the services share: the       *)
(* categories of repository.Error and what the disbursement service        *)
(* answers for each of them.                                               *)
(***************************************************************************)

\* repository.ErrorCategory.
ErrorCategory == {"NotFound", "Conflict", "Constraint", "OwnershipLost", "Dependency"}

\* Service.mapRepositoryError: categories it does not test for become INTERNAL.
mapRepositoryError(category) ==
    CASE category = "NotFound"   -> "DISBURSEMENT_NOT_FOUND"
      [] category = "Conflict"   -> "DISBURSEMENT_ALREADY_FINALIZED"
      [] category = "Constraint" -> "DISBURSEMENT_NOT_DELETABLE"
      [] OTHER                   -> "INTERNAL"

\* Service.mapIdempotencyError: every repository category becomes INTERNAL.
mapIdempotencyError(category) == "INTERNAL"

=============================================================================
