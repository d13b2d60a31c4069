--------------------------- MODULE TwoFactorRecord ---------------------------
(***************************************************************************)
(* What the handlers of app/api/v1/auth.py 207-349 make of a user's 2FA    *)
(* columns if each of them runs at once, from the row it decides on to the *)
(* row it leaves.  They do, however many requests overlap, until one of    *)
(* them overwrites a change it has not seen: then nothing is promised.     *)
(*                                                                         *)
(* TwoFactor implements this module (TwoFactor!Record).                    *)
(***************************************************************************)
EXTENDS Naturals

CONSTANTS Secret, NoSecret, Batch, Size

VARIABLES
    row,            \* totp_enabled, totp_secret and backup_codes
    drawn,          \* batches of backup codes that were stored or dropped
    used,           \* backup codes that opened a session
    overwritten     \* an update was lost

recordVars == <<row, drawn, used, overwritten>>

RecordInit ==
    /\ row = [enabled |-> FALSE, secret |-> NoSecret, codes |-> {}]
    /\ drawn = {} /\ used = {}
    /\ overwritten = FALSE

SetUp(s) ==
    /\ row' = [row EXCEPT !.secret = s]
    /\ UNCHANGED <<drawn, used, overwritten>>

(* Only a user with a secret turns 2FA on, and gets codes nobody had. *)
TurnOn(b) ==
    /\ row.secret # NoSecret
    /\ b \notin drawn
    /\ drawn' = drawn \cup {b}
    /\ row' = [row EXCEPT !.enabled = TRUE, !.codes = {b} \X (1..Size)]
    /\ UNCHANGED <<used, overwritten>>

(* A request that drew a batch fails. *)
Drop(b) ==
    /\ b \notin drawn
    /\ drawn' = drawn \cup {b}
    /\ UNCHANGED <<row, used, overwritten>>

(* Off: neither secret nor codes are left. *)
TurnOff ==
    /\ row.enabled /\ row.secret # NoSecret
    /\ row' = [enabled |-> FALSE, secret |-> NoSecret, codes |-> {}]
    /\ UNCHANGED <<drawn, used, overwritten>>

(* A backup code is one of the row's, and then no more. *)
UseCode(c) ==
    /\ row.enabled /\ row.secret # NoSecret
    /\ c \in row.codes
    /\ row' = [row EXCEPT !.codes = @ \ {c}]
    /\ used' = used \cup {c}
    /\ UNCHANGED <<drawn, overwritten>>

LoseUpdate == overwritten' = TRUE

RecordNext ==
    \/ \E s \in Secret : SetUp(s)
    \/ \E b \in Batch : TurnOn(b) \/ Drop(b)
    \/ TurnOff
    \/ \E c \in Batch \X (1..Size) : UseCode(c)
    \/ LoseUpdate

RecordSpec == RecordInit /\ [][RecordNext]_recordVars
=============================================================================
