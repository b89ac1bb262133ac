---- MODULE ProcessResources ----
(* The requests that one API process serves and the connections it may open,  *)
(* shared by ApplicationLifecycle and ConnectionPool.                         *)
EXTENDS FiniteSets, Naturals

CONSTANTS
    MaxOpen,    \* DB_MAX_OPEN_CONNS
    Request     \* the HTTP requests that may arrive

ASSUME ProcessConstants == MaxOpen \in Nat \ {0} /\ IsFiniteSet(Request)

====
