------------------------- MODULE MCRefreshSessions --------------------------
(* A login (l1), two refreshes (f1, f2) and a logout (o1) for TLC.         *)
EXTENDS RefreshSessions

CONSTANTS l1, f1, f2, o1

MCOperationOf ==
    [r \in Request |-> CASE r = l1 -> "login" [] r = o1 -> "logout" [] OTHER -> "refresh"]

=============================================================================
