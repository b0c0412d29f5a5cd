--------------------------- MODULE MCResetTokens ---------------------------
(* A small instance of ResetTokens for TLC: two tokens of one user. *)
EXTENDS ResetTokens, TLC

CONSTANT alice
Owners == [t \in Tokens |-> alice]
Symmetry == Permutations(Requests) \cup Permutations(Tokens)
=============================================================================
