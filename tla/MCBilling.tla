------------------------------ MODULE MCBilling ------------------------------
EXTENDS Billing, TLC

(* Requests, organizations, subscriptions and payers are interchangeable. *)
Symmetry ==
    Permutations(Req) \cup Permutations(Org) \cup Permutations(Sub)
        \cup Permutations(Payer)
=============================================================================
