--------------------------- MODULE MCTrialNotices ---------------------------
EXTENDS TrialNotices, TLC

(* Everybody administers every organization. *)
MCRecipients == [o \in Org |-> Person]

Symmetry == Permutations(Org) \cup Permutations(Person)
=============================================================================
