-------------------------- MODULE MCConnectionPool --------------------------
(* The connection pool for TLC: finalizations f1 and f2 of one disbursement, *)
(* and creations or reads c1 and c2 that need one connection each.           *)
EXTENDS ConnectionPool

CONSTANTS f1, f2, c1, c2, d, e1, e2

MCRowOf == [r \in Request |-> CASE r = c1 -> e1 [] r = c2 -> e2 [] OTHER -> d]

=============================================================================
