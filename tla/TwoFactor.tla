------------------------------ MODULE TwoFactor ------------------------------
(***************************************************************************)
(* Two-factor authentication of one user (app/api/v1/auth.py 210-349 over  *)
(* app/core/security/two_factor.py).  Every request reads the user's row   *)
(* when its session loads it, decides on what it has read, and writes the  *)
(* columns it changed when get_db commits at the end of the request        *)
(* (app/core/database.py 31-39).  Nothing is locked and no version is      *)
(* compared, so requests of the same user interleave between the read and  *)
(* the write.                                                              *)
(*                                                                         *)
(* A TOTP code is represented by the secret it was computed from, a backup *)
(* code by its batch and its place in the batch.                           *)
(***************************************************************************)
EXTENDS Naturals

CONSTANTS
    Req,        \* requests in flight at once
    Secret,     \* secrets pyotp.random_base32 may draw
    NoSecret,   \* totp_secret IS NULL
    Batch,      \* calls of generate_backup_codes
    Size        \* codes per batch (8 in the code)

ASSUME TwoFactorAssumption ==
    /\ NoSecret \notin Secret
    /\ Size \in Nat \ {0}

Code == Batch \X (1..Size)

ASSUME CodesAreNotSecrets == Code \cap (Secret \cup {NoSecret}) = {}

ASSUME BatchesAreNeither == Batch \cap (Secret \cup {NoSecret} \cup Code) = {}

CodesOf(b) == {b} \X (1..Size)

VARIABLES
    row,        \* totp_enabled, totp_secret and backup_codes in the database
    made,       \* secrets drawn so far
    printed,    \* batches drawn so far
    shown,      \* secrets and codes a response has shown to the user
    pc,         \* what request r does next
    seen,       \* the row as request r has loaded it
    arg,        \* the secret, batch or code request r works with
    fresh,      \* history: no commit has changed the row since r loaded it
    stale,      \* history: some request wrote a row changed since it loaded it
    lost,       \* history: secrets whose response was lost after its commit
    spent,      \* history: backup codes a committed challenge used
    grants      \* history: sessions answered for a backup code, up to 2

reqVars == <<pc, seen, arg, fresh>>
historyVars == <<stale, lost, spent, grants>>
vars == <<row, made, printed, shown, reqVars, historyVars>>

Places == {"idle", "setup", "verify", "disable", "store", "challenge",
           "show", "done", "granted"}

Row == [enabled : BOOLEAN, secret : Secret \cup {NoSecret},
        codes : SUBSET Code]

EmptyRow == [enabled |-> FALSE, secret |-> NoSecret, codes |-> {}]

Init ==
    /\ row = EmptyRow
    /\ made = {}
    /\ printed = {}
    /\ shown = {}
    /\ pc = [r \in Req |-> "idle"]
    /\ seen = [r \in Req |-> EmptyRow]
    /\ arg = [r \in Req |-> NoSecret]
    /\ fresh = [r \in Req |-> FALSE]
    /\ stale = FALSE
    /\ lost = {}
    /\ spent = {}
    /\ grants = [c \in Code |-> 0]
-----------------------------------------------------------------------------
(* The request loads the user and passes the checks of its handler. *)
Load(r, place, a) ==
    /\ pc[r] = "idle"
    /\ pc' = [pc EXCEPT ![r] = place]
    /\ seen' = [seen EXCEPT ![r] = row]
    /\ arg' = [arg EXCEPT ![r] = a]
    /\ fresh' = [fresh EXCEPT ![r] = TRUE]

(* verify_totp_code: a code of the secret in the row, from someone whom a  *)
(* response has shown that secret.                                         *)
TotpMatches == row.secret \in shown

(* setup_two_factor: a new secret, whatever the row holds. *)
Setup(r) ==
    /\ \E s \in Secret \ made :
          /\ made' = made \cup {s}
          /\ Load(r, "setup", s)
    /\ UNCHANGED <<row, printed, shown, historyVars>>

(* verify_two_factor: the code matches the secret of the row; new codes. *)
Verify(r) ==
    /\ TotpMatches
    /\ \E b \in Batch \ printed :
          /\ printed' = printed \cup {b}
          /\ Load(r, "verify", b)
    /\ UNCHANGED <<row, made, shown, historyVars>>

(* disable_two_factor *)
Disable(r) ==
    /\ row.enabled
    /\ TotpMatches
    /\ Load(r, "disable", row.secret)
    /\ UNCHANGED <<row, made, printed, shown, historyVars>>

(* Mutant: a challenge does not look at the codes of the row. *)
ChallengeAnyCode(r) ==
    /\ row.enabled
    /\ row.secret # NoSecret
    /\ \E a \in shown \cap (Code \cup {row.secret}) : Load(r, "store", a)
    /\ UNCHANGED <<row, made, printed, shown, historyVars>>

(* challenge_two_factor: a TOTP code of the row's secret or a backup code  *)
(* that is still among the row's.                                          *)
Challenge(r) ==
    /\ row.enabled
    /\ row.secret # NoSecret
    /\ \E a \in shown \cap (row.codes \cup {row.secret}) : Load(r, "store", a)
    /\ UNCHANGED <<row, made, printed, shown, historyVars>>

(* The challenge stores the refresh token, and only then commits. *)
StoreToken(r) ==
    /\ pc[r] = "store"
    /\ pc' = [pc EXCEPT ![r] = "challenge"]
    /\ UNCHANGED <<row, made, printed, shown, seen, arg, fresh, historyVars>>

(* The request's session commits: the UPDATE sets the columns that differ  *)
(* from what was loaded, whatever the row holds by now.                    *)
Write(r, new) ==
    /\ row' = new
    /\ stale' = (stale \/ ~fresh[r])
    /\ fresh' = [q \in Req |-> FALSE]

(* Mutant: the secret stored is not the one the response shows. *)
CommitSetupDrawsAgain(r) ==
    /\ pc[r] = "setup"
    /\ \E s \in Secret \ {arg[r]} : Write(r, [row EXCEPT !.secret = s])
    /\ pc' = [pc EXCEPT ![r] = "show"]
    /\ UNCHANGED <<made, printed, shown, seen, arg, lost, spent, grants>>

CommitSetup(r) ==
    /\ pc[r] = "setup"
    /\ Write(r, [row EXCEPT !.secret = arg[r]])
    /\ pc' = [pc EXCEPT ![r] = "show"]
    /\ UNCHANGED <<made, printed, shown, seen, arg, lost, spent, grants>>

(* Mutant: the new codes are added to the ones the user has. *)
CommitVerifyAppends(r) ==
    /\ pc[r] = "verify"
    /\ Write(r, [row EXCEPT !.enabled = @ \/ ~seen[r].enabled,
                            !.codes = @ \cup CodesOf(arg[r])])
    /\ pc' = [pc EXCEPT ![r] = "show"]
    /\ UNCHANGED <<made, printed, shown, seen, arg, lost, spent, grants>>

CommitVerify(r) ==
    /\ pc[r] = "verify"
    /\ Write(r, [row EXCEPT !.enabled = @ \/ ~seen[r].enabled,
                            !.codes = CodesOf(arg[r])])
    /\ pc' = [pc EXCEPT ![r] = "show"]
    /\ UNCHANGED <<made, printed, shown, seen, arg, lost, spent, grants>>

(* Mutant: disabling forgets the flag. *)
CommitDisableKeepsFlag(r) ==
    /\ pc[r] = "disable"
    /\ Write(r, [row EXCEPT !.secret = NoSecret, !.codes = {}])
    /\ pc' = [pc EXCEPT ![r] = "done"]
    /\ UNCHANGED <<made, printed, shown, seen, arg, lost, spent, grants>>

CommitDisable(r) ==
    /\ pc[r] = "disable"
    /\ Write(r, [row EXCEPT !.enabled = FALSE,
                            !.secret = NoSecret,
                            !.codes = IF seen[r].codes = {} THEN @ ELSE {}])
    /\ pc' = [pc EXCEPT ![r] = "done"]
    /\ UNCHANGED <<made, printed, shown, seen, arg, lost, spent, grants>>

(* Mutant: the list without the used code is computed and dropped. *)
CommitBackupForgotten(r) ==
    /\ pc[r] = "challenge"
    /\ arg[r] \in Code
    /\ Write(r, row)
    /\ spent' = spent \cup {arg[r]}
    /\ pc' = [pc EXCEPT ![r] = "granted"]
    /\ UNCHANGED <<made, printed, shown, seen, arg, lost, grants>>

(* verify_and_use_backup_code: the codes loaded without the one used. *)
CommitBackup(r) ==
    /\ pc[r] = "challenge"
    /\ arg[r] \in Code
    /\ Write(r, [row EXCEPT !.codes = seen[r].codes \ {arg[r]}])
    /\ spent' = spent \cup {arg[r]}
    /\ pc' = [pc EXCEPT ![r] = "granted"]
    /\ UNCHANGED <<made, printed, shown, seen, arg, lost, grants>>

(* A challenge answered with a TOTP code writes nothing. *)
CommitTotp(r) ==
    /\ pc[r] = "challenge"
    /\ arg[r] \notin Code
    /\ pc' = [pc EXCEPT ![r] = "granted"]
    /\ UNCHANGED <<row, made, printed, shown, seen, arg, fresh, historyVars>>

(* What the response shows: the secret set up, or the codes of the batch. *)
Shown(r) ==
    CASE pc[r] = "show" /\ arg[r] \in Secret -> {arg[r]}
      [] pc[r] = "show" /\ arg[r] \in Batch -> CodesOf(arg[r])
      [] OTHER -> {}

Leave(r) ==
    /\ pc' = [pc EXCEPT ![r] = "idle"]
    /\ seen' = [seen EXCEPT ![r] = EmptyRow]
    /\ arg' = [arg EXCEPT ![r] = NoSecret]
    /\ fresh' = [fresh EXCEPT ![r] = FALSE]

(* Mutant: the response reads the secret back from the row. *)
RespondReadsBack(r) ==
    /\ pc[r] \in {"show", "done", "granted"}
    /\ shown' = shown \cup {row.secret}
    /\ Leave(r)
    /\ UNCHANGED <<row, made, printed, historyVars>>

(* The response reaches the user. *)
Respond(r) ==
    /\ pc[r] \in {"show", "done", "granted"}
    /\ shown' = shown \cup Shown(r)
    /\ grants' =
         IF pc[r] = "granted" /\ arg[r] \in Code /\ grants[arg[r]] < 2
         THEN [grants EXCEPT ![arg[r]] = @ + 1]
         ELSE grants
    /\ Leave(r)
    /\ UNCHANGED <<row, made, printed, stale, lost, spent>>

(* The request fails before its commit (rollback), or its response is lost. *)
Fail(r) ==
    /\ pc[r] # "idle"
    /\ Leave(r)
    /\ lost' = lost \cup (Shown(r) \cap Secret)
    /\ UNCHANGED <<row, made, printed, shown, stale, spent, grants>>

Next ==
    \E r \in Req :
        \/ Setup(r) \/ Verify(r) \/ Disable(r) \/ Challenge(r)
        \/ StoreToken(r)
        \/ CommitSetup(r) \/ CommitVerify(r) \/ CommitDisable(r)
        \/ CommitBackup(r) \/ CommitTotp(r)
        \/ Respond(r) \/ Fail(r)

Spec == Init /\ [][Next]_vars
-----------------------------------------------------------------------------
TypeOK ==
    /\ row \in Row
    /\ made \subseteq Secret
    /\ printed \subseteq Batch
    /\ shown \subseteq Secret \cup Code
    /\ pc \in [Req -> Places]
    /\ seen \in [Req -> Row]
    /\ arg \in [Req -> Secret \cup {NoSecret} \cup Batch \cup Code]
    /\ fresh \in [Req -> BOOLEAN]
    /\ stale \in BOOLEAN
    /\ lost \subseteq Secret
    /\ spent \subseteq Code
    /\ grants \in [Code -> 0..2]

(* The three promises of the component.  Interleaved requests can break    *)
(* each of them (BackupCodeOnce), but only through a lost update: as       *)
(* long as no request has written a row that changed after it was loaded,  *)
(* they hold whatever fails in between.                                    *)

(* A used code does not come back (auth.py:331-336, two_factor.py:78-89).  *)
SpentUnlessStale == stale \/ spent \cap row.codes = {}

(* A code opens at most one session. *)
OnceUnlessStale == stale \/ \A c \in Code : grants[c] <= 1

(* 2FA is never on without a secret, for a user in that state could        *)
(* neither answer a challenge nor log in to repair it, and no backup code  *)
(* is left over when it is off (auth.py:278-290, 321-322).                 *)
FlagFitsUnlessStale ==
    stale \/ IF row.enabled THEN row.secret # NoSecret ELSE row.codes = {}

(* The codes of a user are always of one batch: interleaved requests may   *)
(* bring an old batch back, but never mix two.                             *)
OneBatch == \A c, d \in row.codes : c[1] = d[1]

(* Who has 2FA on can answer a challenge.  Setup replaces the secret of a  *)
(* user who has 2FA on as of one who has not, and however setups,          *)
(* verifications and disables overlap, the secret in the row is one the    *)
(* user was shown, or is in a response on its way, but for two accidents:  *)
(* the response with this very secret was lost, or an update was, when a   *)
(* verification that had loaded the row before a disable turned 2FA on     *)
(* without a secret after it (auth.py:225, 228-231, 257, 289).             *)
SecretKnown ==
    \/ row.secret \in shown \cup lost
    \/ \E r \in Req : pc[r] = "show" /\ arg[r] = row.secret
    \/ row.secret = NoSecret /\ (row.enabled => stale)

(* "8 bcrypt-hashed one-time backup codes - delete each after use"         *)
(* (models/user.py:64): one time.                                          *)
BackupCodeOnce == \A c \in Code : grants[c] <= 1
-----------------------------------------------------------------------------
(* The inductive invariant behind the safety properties, part by part      *)
(* (TwoFactorProofs).                                                      *)

(* No code of batch b has got out of the request that drew it. *)
Unseen(b) ==
    /\ CodesOf(b) \cap (shown \cup spent \cup row.codes) = {}
    /\ \A r \in Req : CodesOf(b) \cap (seen[r].codes \cup {arg[r]}) = {}

BatchInv ==
    /\ \A b \in Batch \ printed : Unseen(b) /\ \A r \in Req : arg[r] # b
    /\ \A r \in Req : pc[r] = "verify" => Unseen(arg[r])
    /\ \A q, r \in Req : arg[q] = arg[r] /\ arg[r] \in Batch => q = r

(* What a request has loaded and decided, until it commits. *)
LoadedInv ==
    \A r \in Req :
        /\ fresh[r] => seen[r] = row
        /\ pc[r] = "setup" => arg[r] \in Secret
        /\ pc[r] = "verify" => arg[r] \in Batch /\ seen[r].secret # NoSecret
        /\ pc[r] \in {"disable", "store", "challenge"} =>
              /\ seen[r].enabled /\ seen[r].secret # NoSecret
              /\ arg[r] \in Code => arg[r] \in seen[r].codes

OneBatchInv ==
    /\ OneBatch
    /\ \A r \in Req : \A c, d \in seen[r].codes : c[1] = d[1]

(* A code is spent before a session is answered for it. *)
SpentInv ==
    \/ stale
    \/ /\ spent \cap row.codes = {}
       /\ \A c \in Code : grants[c] <= 1 /\ (grants[c] > 0 => c \in spent)
       /\ \A r \in Req : pc[r] = "granted" /\ arg[r] \in Code
                            => arg[r] \in spent /\ grants[arg[r]] = 0
       /\ \A q, r \in Req :
             /\ pc[q] = "granted" /\ pc[r] = "granted"
             /\ arg[q] = arg[r] /\ arg[r] \in Code
             => q = r

SecretInv == FlagFitsUnlessStale /\ SecretKnown

IInv ==
    TypeOK /\ BatchInv /\ LoadedInv /\ OneBatchInv /\ SpentInv /\ SecretInv
-----------------------------------------------------------------------------
(* Batches whose request has yet to commit them. *)
Undecided == {arg[r] : r \in {q \in Req : pc[q] = "verify"}}

Record == INSTANCE TwoFactorRecord
              WITH drawn <- printed \ Undecided, used <- spent,
                   overwritten <- stale

(* However requests overlap, the row changes as if each of them had run at *)
(* once when it commits, on the row as it was then and with the checks of  *)
(* its handler, until one of them writes a row that has changed since it   *)
(* was loaded (auth.py:210-336, database.py:31-39).                        *)
RecordSpec == Record!RecordSpec
=============================================================================
