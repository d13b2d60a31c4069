--------------------------- MODULE MCRefreshTokens ---------------------------
EXTENDS RefreshTokens, TLC

(* Token identifiers and handlers are interchangeable in the safety runs. *)
Symmetry == Permutations(Jti) \cup Permutations(Req)
=============================================================================
