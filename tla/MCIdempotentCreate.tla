------------------------- MODULE MCIdempotentCreate -------------------------
(* Three requests for one key: two with the same payload, one with another. *)
EXTENDS IdempotentCreate, TLC

CONSTANTS r1, r2, r3, k, p1, p2

MCScopeOf == r1 :> k @@ r2 :> k @@ r3 :> k

MCPayloadOf == r1 :> p1 @@ r2 :> p1 @@ r3 :> p2

SamePayloadOf == r1 :> p1 @@ r2 :> p1 @@ r3 :> p1

=============================================================================
