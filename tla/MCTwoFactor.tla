----------------------------- MODULE MCTwoFactor -----------------------------
EXTENDS TwoFactor, TLC

(* Secrets, batches and requests are interchangeable in the safety runs. *)
Symmetry ==
    Permutations(Secret) \cup Permutations(Batch) \cup Permutations(Req)
=============================================================================
