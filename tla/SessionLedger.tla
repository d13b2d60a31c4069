---------------------------- MODULE SessionLedger ----------------------------
(***************************************************************************)
(* What the refresh token store of app/core/security/tokens.py promises,   *)
(* whatever the interleaving of the request handlers that use it: a token  *)
(* becomes usable once, stops being usable once, and never comes back; and *)
(* a renewal always descends from a token that had been issued.            *)
(*                                                                         *)
(* RefreshTokens implements this module (RefreshTokens!Ledger).            *)
(***************************************************************************)
CONSTANT Jti

VARIABLE phase

Phases == {"fresh", "live", "dead"}

LedgerTypeOK == phase \in [Jti -> Phases]

LedgerInit == phase = [j \in Jti |-> "fresh"]

(* A session opens: the token is stored for the first time. *)
Open(j) ==
    /\ phase[j] = "fresh"
    /\ phase' = [phase EXCEPT ![j] = "live"]

(* A session is renewed.  The old token may have died since the handler    *)
(* looked at it; it is dead afterwards in either case.                     *)
Renew(old, j) ==
    /\ phase[old] \in {"live", "dead"}
    /\ phase[j] = "fresh"
    /\ phase' = [phase EXCEPT ![old] = "dead", ![j] = "live"]

(* Sessions end: revoked together, or one lapsing with its time to live. *)
End(ended) ==
    /\ \A j \in ended : phase[j] = "live"
    /\ phase' = [j \in Jti |-> IF j \in ended THEN "dead" ELSE phase[j]]

LedgerNext ==
    \/ \E j \in Jti : Open(j)
    \/ \E old, j \in Jti : Renew(old, j)
    \/ \E ended \in SUBSET Jti : End(ended)

LedgerSpec == LedgerInit /\ [][LedgerNext]_phase
=============================================================================
