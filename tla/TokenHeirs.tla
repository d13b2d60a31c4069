----------------------------- MODULE TokenHeirs -----------------------------
(***************************************************************************)
(* RefreshTokens with a history of what each token was exchanged for.      *)
(* Reuse is not always detected (OneSuccessor): a token may have several   *)
(* successors.  This module says how many.                                 *)
(***************************************************************************)
EXTENDS RefreshTokens, Naturals, FiniteSets

VARIABLE heirs      \* history: the tokens each token was exchanged for

heirsVars == <<vars, heirs>>

(* The tokens that this step stores in the place of j. *)
Successors(j) ==
    {new[r] : r \in {q \in Req : /\ pc[q] = "rotate" /\ pc'[q] = "reply"
                                 /\ tok[q] = j}}

HeirsInit == Init /\ heirs = [j \in Jti |-> {}]

HeirsNext ==
    /\ Next
    /\ heirs' = [j \in Jti |-> heirs[j] \cup Successors(j)]

HeirsSpec == HeirsInit /\ [][HeirsNext]_heirsVars
-----------------------------------------------------------------------------
(* However often and however long after a token is presented, it is        *)
(* exchanged for no more tokens than there are requests in flight at once  *)
(* (auth.py:177-191, tokens.py:25-33): every exchange belongs to a request *)
(* that had passed EXISTS before the first of them was made.               *)
SuccessorsBounded == \A j \in Jti : Cardinality(heirs[j]) <= Cardinality(Req)

(* Handlers about to exchange j. *)
Rotating(j) == {r \in Req : pc[r] = "rotate" /\ tok[r] = j}

(* The inductive invariant (RefreshTokensProofs). *)
HeirsInv ==
    /\ heirs \in [Jti -> SUBSET Jti]
    /\ \A j \in Jti :
          /\ IsFiniteSet(heirs[j])
          /\ Cardinality(heirs[j]) + Cardinality(Rotating(j))
                <= Cardinality(Req)
          /\ j \notin gone => heirs[j] = {}
=============================================================================
