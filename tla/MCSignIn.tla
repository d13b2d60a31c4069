------------------------------ MODULE MCSignIn ------------------------------
EXTENDS SignIn, TLC

(* Tokens, handlers and logins are interchangeable in the safety runs. *)
Symmetry ==
    Permutations(Jti) \cup Permutations(Req) \cup Permutations(Login)
=============================================================================
