------------------------------ MODULE MCCaches ------------------------------
EXTENDS Caches, TLC

(* Requests and the two values a row may have are interchangeable in the   *)
(* runs without a liveness property.                                       *)
Symmetry == Permutations(Req) \cup Permutations(Value)
=============================================================================
