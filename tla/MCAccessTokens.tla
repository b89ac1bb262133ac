--------------------------- MODULE MCAccessTokens ---------------------------
(* Two API instances for TLC.                                              *)
EXTENDS AccessTokens, TLC

CONSTANTS i1, i2

Symmetry == Permutations(Instance)

=============================================================================
