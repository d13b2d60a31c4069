---------------------------- MODULE MCMembership ----------------------------
EXTENDS Membership, TLC

(* Requests, users, invitations and organizations are interchangeable. *)
Symmetry ==
    Permutations(Req) \cup Permutations(User) \cup Permutations(Inv)
        \cup Permutations(Org)
=============================================================================
