----------------------- MODULE MCApplicationLifecycle -----------------------
(* One API process for TLC: two requests that can take every connection.   *)
EXTENDS ApplicationLifecycle

CONSTANTS r1, r2

=============================================================================
