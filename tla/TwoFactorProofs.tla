--------------------------- MODULE TwoFactorProofs ---------------------------
(***************************************************************************)
(* The safety properties of TwoFactor, for any number of requests, secrets, *)
(* batches and codes per batch, from the inductive invariant IInv.          *)
(***************************************************************************)
EXTENDS TwoFactor, TLAPS

(* The initial state satisfies every part of the invariant. *)
LEMMA InitIInv == Init => IInv
<1> SUFFICES ASSUME Init PROVE IInv
    OBVIOUS
<1> USE TwoFactorAssumption, CodesAreNotSecrets, BatchesAreNeither DEF Init
<1>1. TypeOK
    <2>1. EmptyRow \in Row
        BY DEF EmptyRow, Row
    <2>2. grants \in [Code -> 0..2]
        OBVIOUS
    <2> QED
        BY <2>1, <2>2 DEF TypeOK, Places
<1>2. BatchInv
    BY DEF BatchInv, Unseen, EmptyRow, CodesOf, Code
<1>3. LoadedInv
    BY DEF LoadedInv
<1>4. OneBatchInv
    BY DEF OneBatchInv, OneBatch, EmptyRow
<1>5. SpentInv
    BY DEF SpentInv, EmptyRow
<1>6. SecretInv
    BY DEF SecretInv, FlagFitsUnlessStale, SecretKnown, EmptyRow
<1> QED
    BY <1>1, <1>2, <1>3, <1>4, <1>5, <1>6 DEF IInv

(* No step leaves the types. *)
LEMMA TypeStep == IInv /\ [Next]_vars => TypeOK'
<1> SUFFICES ASSUME IInv, [Next]_vars PROVE TypeOK'
    OBVIOUS
<1> USE TwoFactorAssumption, CodesAreNotSecrets, BatchesAreNeither DEF IInv,
    TypeOK, historyVars, Row, EmptyRow, Places
<1>1. ASSUME NEW r \in Req, Setup(r) PROVE TypeOK'
    BY <1>1 DEF Setup, Load
<1>2. ASSUME NEW r \in Req, Verify(r) PROVE TypeOK'
    BY <1>2 DEF Verify, Load, TotpMatches
<1>3. ASSUME NEW r \in Req, Disable(r) PROVE TypeOK'
    BY <1>3 DEF Disable, Load, TotpMatches
<1>4. ASSUME NEW r \in Req, Challenge(r) PROVE TypeOK'
    BY <1>4 DEF Challenge, Load
<1>5. ASSUME NEW r \in Req, StoreToken(r) PROVE TypeOK'
    BY <1>5 DEF StoreToken
<1>6. ASSUME NEW r \in Req, CommitSetup(r) PROVE TypeOK'
    <2>1. row' \in Row
        BY <1>6 DEF CommitSetup, Write, LoadedInv
    <2> QED
        BY <1>6, <2>1 DEF CommitSetup, Write
<1>7. ASSUME NEW r \in Req, CommitVerify(r) PROVE TypeOK'
    <2>1. CodesOf(arg[r]) \in SUBSET Code
        BY <1>7 DEF CommitVerify, LoadedInv, CodesOf, Code
    <2>2. row' \in Row
        BY <1>7, <2>1 DEF CommitVerify, Write
    <2> QED
        BY <1>7, <2>2 DEF CommitVerify, Write
<1>8. ASSUME NEW r \in Req, CommitDisable(r) PROVE TypeOK'
    BY <1>8 DEF CommitDisable, Write
<1>9. ASSUME NEW r \in Req, CommitBackup(r) PROVE TypeOK'
    BY <1>9 DEF CommitBackup, Write
<1>10. ASSUME NEW r \in Req, CommitTotp(r) PROVE TypeOK'
    BY <1>10 DEF CommitTotp
<1>11. ASSUME NEW r \in Req, Respond(r) PROVE TypeOK'
    <2>1. shown' \subseteq Secret \cup Code
        BY <1>11 DEF Respond, Shown, CodesOf, Code
    <2>2. grants' \in [Code -> 0..2]
        BY <1>11 DEF Respond
    <2> QED
        BY <1>11, <2>1, <2>2 DEF Respond, Leave
<1>12. ASSUME NEW r \in Req, Fail(r) PROVE TypeOK'
    BY <1>12 DEF Fail, Leave
<1>13. CASE UNCHANGED vars
    BY <1>13 DEF vars, reqVars
<1> QED
    BY <1>1, <1>2, <1>3, <1>4, <1>5, <1>6, <1>7, <1>8, <1>9, <1>10,
        <1>11, <1>12, <1>13 DEF Next

(* The codes of a batch that is not committed stay unknown. *)
LEMMA BatchStep == IInv /\ [Next]_vars => BatchInv'
<1> SUFFICES ASSUME IInv, [Next]_vars PROVE BatchInv'
    OBVIOUS
<1> USE TwoFactorAssumption, CodesAreNotSecrets, BatchesAreNeither DEF IInv,
    TypeOK, LoadedInv, BatchInv, Unseen, CodesOf, Code, historyVars, Row,
    EmptyRow, Places
<1>1. ASSUME NEW r \in Req, Setup(r) PROVE BatchInv'
    BY <1>1 DEF Setup, Load
<1>2. ASSUME NEW r \in Req, Verify(r) PROVE BatchInv'
    BY <1>2 DEF Verify, Load, TotpMatches
<1>3. ASSUME NEW r \in Req, Disable(r) PROVE BatchInv'
    BY <1>3 DEF Disable, Load, TotpMatches
<1>4. ASSUME NEW r \in Req, Challenge(r) PROVE BatchInv'
    BY <1>4 DEF Challenge, Load
<1>5. ASSUME NEW r \in Req, StoreToken(r) PROVE BatchInv'
    BY <1>5 DEF StoreToken
<1>6. ASSUME NEW r \in Req, CommitSetup(r) PROVE BatchInv'
    BY <1>6 DEF CommitSetup, Write
<1>7. ASSUME NEW r \in Req, CommitVerify(r) PROVE BatchInv'
    BY <1>7 DEF CommitVerify, Write
<1>8. ASSUME NEW r \in Req, CommitDisable(r) PROVE BatchInv'
    BY <1>8 DEF CommitDisable, Write
<1>9. ASSUME NEW r \in Req, CommitBackup(r) PROVE BatchInv'
    BY <1>9 DEF CommitBackup, Write
<1>10. ASSUME NEW r \in Req, CommitTotp(r) PROVE BatchInv'
    BY <1>10 DEF CommitTotp
<1>11. ASSUME NEW r \in Req, Respond(r) PROVE BatchInv'
    BY <1>11 DEF Respond, Shown, Leave
<1>12. ASSUME NEW r \in Req, Fail(r) PROVE BatchInv'
    BY <1>12 DEF Fail, Leave
<1>13. CASE UNCHANGED vars
    BY <1>13 DEF vars, reqVars
<1> QED
    BY <1>1, <1>2, <1>3, <1>4, <1>5, <1>6, <1>7, <1>8, <1>9, <1>10,
        <1>11, <1>12, <1>13 DEF Next

(* What a request has loaded stays what it decided on. *)
LEMMA LoadedStep == IInv /\ [Next]_vars => LoadedInv'
<1> SUFFICES ASSUME IInv, [Next]_vars PROVE LoadedInv'
    OBVIOUS
<1> USE TwoFactorAssumption, CodesAreNotSecrets, BatchesAreNeither DEF IInv,
    TypeOK, LoadedInv, historyVars, Row, EmptyRow, Places
<1>1. ASSUME NEW r \in Req, Setup(r) PROVE LoadedInv'
    BY <1>1 DEF Setup, Load
<1>2. ASSUME NEW r \in Req, Verify(r) PROVE LoadedInv'
    BY <1>2 DEF Verify, Load, TotpMatches
<1>3. ASSUME NEW r \in Req, Disable(r) PROVE LoadedInv'
    BY <1>3 DEF Disable, Load, TotpMatches
<1>4. ASSUME NEW r \in Req, Challenge(r) PROVE LoadedInv'
    BY <1>4 DEF Challenge, Load
<1>5. ASSUME NEW r \in Req, StoreToken(r) PROVE LoadedInv'
    BY <1>5 DEF StoreToken
<1>6. ASSUME NEW r \in Req, CommitSetup(r) PROVE LoadedInv'
    BY <1>6 DEF CommitSetup, Write
<1>7. ASSUME NEW r \in Req, CommitVerify(r) PROVE LoadedInv'
    BY <1>7 DEF CommitVerify, Write
<1>8. ASSUME NEW r \in Req, CommitDisable(r) PROVE LoadedInv'
    BY <1>8 DEF CommitDisable, Write
<1>9. ASSUME NEW r \in Req, CommitBackup(r) PROVE LoadedInv'
    BY <1>9 DEF CommitBackup, Write
<1>10. ASSUME NEW r \in Req, CommitTotp(r) PROVE LoadedInv'
    BY <1>10 DEF CommitTotp
<1>11. ASSUME NEW r \in Req, Respond(r) PROVE LoadedInv'
    BY <1>11 DEF Respond, Shown, Leave
<1>12. ASSUME NEW r \in Req, Fail(r) PROVE LoadedInv'
    BY <1>12 DEF Fail, Leave
<1>13. CASE UNCHANGED vars
    BY <1>13 DEF vars, reqVars
<1> QED
    BY <1>1, <1>2, <1>3, <1>4, <1>5, <1>6, <1>7, <1>8, <1>9, <1>10,
        <1>11, <1>12, <1>13 DEF Next

(* The codes of the row are replaced by those of another batch, or by some
   of one that was loaded. *)
LEMMA OneBatchStep == IInv /\ [Next]_vars => OneBatchInv'
<1> SUFFICES ASSUME IInv, [Next]_vars PROVE OneBatchInv'
    OBVIOUS
<1> USE TwoFactorAssumption, CodesAreNotSecrets, BatchesAreNeither DEF IInv,
    TypeOK, OneBatchInv, OneBatch, CodesOf, historyVars, Row, EmptyRow,
    Places
<1>1. ASSUME NEW r \in Req, Setup(r) PROVE OneBatchInv'
    BY <1>1 DEF Setup, Load
<1>2. ASSUME NEW r \in Req, Verify(r) PROVE OneBatchInv'
    BY <1>2 DEF Verify, Load, TotpMatches
<1>3. ASSUME NEW r \in Req, Disable(r) PROVE OneBatchInv'
    BY <1>3 DEF Disable, Load, TotpMatches
<1>4. ASSUME NEW r \in Req, Challenge(r) PROVE OneBatchInv'
    BY <1>4 DEF Challenge, Load
<1>5. ASSUME NEW r \in Req, StoreToken(r) PROVE OneBatchInv'
    BY <1>5 DEF StoreToken
<1>6. ASSUME NEW r \in Req, CommitSetup(r) PROVE OneBatchInv'
    BY <1>6 DEF CommitSetup, Write
<1>7. ASSUME NEW r \in Req, CommitVerify(r) PROVE OneBatchInv'
    BY <1>7 DEF CommitVerify, Write
<1>8. ASSUME NEW r \in Req, CommitDisable(r) PROVE OneBatchInv'
    BY <1>8 DEF CommitDisable, Write
<1>9. ASSUME NEW r \in Req, CommitBackup(r) PROVE OneBatchInv'
    BY <1>9 DEF CommitBackup, Write
<1>10. ASSUME NEW r \in Req, CommitTotp(r) PROVE OneBatchInv'
    BY <1>10 DEF CommitTotp
<1>11. ASSUME NEW r \in Req, Respond(r) PROVE OneBatchInv'
    BY <1>11 DEF Respond, Shown, Leave
<1>12. ASSUME NEW r \in Req, Fail(r) PROVE OneBatchInv'
    BY <1>12 DEF Fail, Leave
<1>13. CASE UNCHANGED vars
    BY <1>13 DEF vars, reqVars
<1> QED
    BY <1>1, <1>2, <1>3, <1>4, <1>5, <1>6, <1>7, <1>8, <1>9, <1>10,
        <1>11, <1>12, <1>13 DEF Next

(* While no update was lost, a code is used once. *)
LEMMA SpentStep == IInv /\ [Next]_vars => SpentInv'
<1> SUFFICES ASSUME IInv, [Next]_vars PROVE SpentInv'
    OBVIOUS
<1> USE TwoFactorAssumption, CodesAreNotSecrets, BatchesAreNeither DEF IInv,
    TypeOK, BatchInv, LoadedInv, SpentInv, Unseen, CodesOf, historyVars,
    Row, EmptyRow, Places
<1>1. ASSUME NEW r \in Req, Setup(r) PROVE SpentInv'
    BY <1>1 DEF Setup, Load
<1>2. ASSUME NEW r \in Req, Verify(r) PROVE SpentInv'
    BY <1>2 DEF Verify, Load, TotpMatches
<1>3. ASSUME NEW r \in Req, Disable(r) PROVE SpentInv'
    BY <1>3 DEF Disable, Load, TotpMatches
<1>4. ASSUME NEW r \in Req, Challenge(r) PROVE SpentInv'
    BY <1>4 DEF Challenge, Load
<1>5. ASSUME NEW r \in Req, StoreToken(r) PROVE SpentInv'
    BY <1>5 DEF StoreToken
<1>6. ASSUME NEW r \in Req, CommitSetup(r) PROVE SpentInv'
    BY <1>6 DEF CommitSetup, Write
<1>7. ASSUME NEW r \in Req, CommitVerify(r) PROVE SpentInv'
    BY <1>7 DEF CommitVerify, Write
<1>8. ASSUME NEW r \in Req, CommitDisable(r) PROVE SpentInv'
    BY <1>8 DEF CommitDisable, Write
<1>9. ASSUME NEW r \in Req, CommitBackup(r) PROVE SpentInv'
    BY <1>9 DEF CommitBackup, Write
<1>10. ASSUME NEW r \in Req, CommitTotp(r) PROVE SpentInv'
    BY <1>10 DEF CommitTotp
<1>11. ASSUME NEW r \in Req, Respond(r) PROVE SpentInv'
    BY <1>11 DEF Respond, Shown, Leave
<1>12. ASSUME NEW r \in Req, Fail(r) PROVE SpentInv'
    BY <1>12 DEF Fail, Leave
<1>13. CASE UNCHANGED vars
    BY <1>13 DEF vars, reqVars
<1> QED
    BY <1>1, <1>2, <1>3, <1>4, <1>5, <1>6, <1>7, <1>8, <1>9, <1>10,
        <1>11, <1>12, <1>13 DEF Next

(* While no update was lost, flag, secret and codes fit; and no secret is
   stored without being shown. *)
LEMMA SecretStep == IInv /\ [Next]_vars => SecretInv'
<1> SUFFICES ASSUME IInv, [Next]_vars PROVE SecretInv'
    OBVIOUS
<1> USE TwoFactorAssumption, CodesAreNotSecrets, BatchesAreNeither DEF IInv,
    TypeOK, LoadedInv, SecretInv, FlagFitsUnlessStale, SecretKnown, Code,
    historyVars, Row, EmptyRow, Places
<1>1. ASSUME NEW r \in Req, Setup(r) PROVE SecretInv'
    BY <1>1 DEF Setup, Load
<1>2. ASSUME NEW r \in Req, Verify(r) PROVE SecretInv'
    BY <1>2 DEF Verify, Load, TotpMatches
<1>3. ASSUME NEW r \in Req, Disable(r) PROVE SecretInv'
    BY <1>3 DEF Disable, Load, TotpMatches
<1>4. ASSUME NEW r \in Req, Challenge(r) PROVE SecretInv'
    BY <1>4 DEF Challenge, Load
<1>5. ASSUME NEW r \in Req, StoreToken(r) PROVE SecretInv'
    BY <1>5 DEF StoreToken
<1>6. ASSUME NEW r \in Req, CommitSetup(r) PROVE SecretInv'
    BY <1>6 DEF CommitSetup, Write
<1>7. ASSUME NEW r \in Req, CommitVerify(r) PROVE SecretInv'
    <2>1. stale' \/ (row = seen[r] /\ ~stale)
        BY <1>7 DEF CommitVerify, Write
    <2>2. FlagFitsUnlessStale'
        BY <1>7, <2>1 DEF CommitVerify, Write
    <2>3. SecretKnown'
        <3>1. row'.secret = row.secret /\ UNCHANGED <<lost, shown, arg>>
            BY <1>7 DEF CommitVerify, Write
        <3>2. \A q \in Req : pc[q] = "show" => pc'[q] = "show"
            BY <1>7 DEF CommitVerify
        <3>3. row'.secret = NoSecret => (row'.enabled => stale')
            BY <2>2
        <3> QED
            BY <3>1, <3>2, <3>3
    <2> QED
        BY <2>2, <2>3
<1>8. ASSUME NEW r \in Req, CommitDisable(r) PROVE SecretInv'
    BY <1>8 DEF CommitDisable, Write
<1>9. ASSUME NEW r \in Req, CommitBackup(r) PROVE SecretInv'
    BY <1>9 DEF CommitBackup, Write
<1>10. ASSUME NEW r \in Req, CommitTotp(r) PROVE SecretInv'
    BY <1>10 DEF CommitTotp
<1>11. ASSUME NEW r \in Req, Respond(r) PROVE SecretInv'
    BY <1>11 DEF Respond, Shown, Leave
<1>12. ASSUME NEW r \in Req, Fail(r) PROVE SecretInv'
    <2>1. FlagFitsUnlessStale'
        BY <1>12 DEF Fail
    <2>2. SecretKnown'
        <3>1. CASE pc[r] = "show"
            <4>1. arg[r] \in Secret => arg[r] \in lost'
                BY <1>12, <3>1 DEF Fail, Shown
            <4>2. \A q \in Req \ {r} : pc'[q] = pc[q] /\ arg'[q] = arg[q]
                BY <1>12 DEF Fail, Leave
            <4>3. lost \subseteq lost' /\ UNCHANGED <<row, shown, stale>>
                BY <1>12 DEF Fail
            <4> QED
                BY <4>1, <4>2, <4>3
        <3>2. CASE pc[r] # "show"
            BY <1>12, <3>2 DEF Fail, Leave
        <3> QED
            BY <3>1, <3>2
    <2> QED
        BY <2>1, <2>2
<1>13. CASE UNCHANGED vars
    BY <1>13 DEF vars, reqVars
<1> QED
    BY <1>1, <1>2, <1>3, <1>4, <1>5, <1>6, <1>7, <1>8, <1>9, <1>10,
        <1>11, <1>12, <1>13 DEF Next

LEMMA AlwaysIInv == Spec => []IInv
<1>1. IInv /\ [Next]_vars => IInv'
    BY TypeStep, BatchStep, LoadedStep, OneBatchStep, SpentStep, SecretStep
    DEF IInv
<1> QED
    BY <1>1, InitIInv, PTL DEF Spec

(* Every variable keeps its type. *)
THEOREM TypeCorrect == Spec => []TypeOK
<1>1. IInv => TypeOK
    BY DEF IInv
<1> QED
    BY <1>1, AlwaysIInv, PTL

(* As long as no update was lost, a used backup code does not come back. *)
THEOREM SpentStaysSpent == Spec => []SpentUnlessStale
<1>1. IInv => SpentUnlessStale
    BY DEF IInv, SpentInv, SpentUnlessStale
<1> QED
    BY <1>1, AlwaysIInv, PTL

(* As long as no update was lost, a backup code opens at most one session. *)
THEOREM UsedOnce == Spec => []OnceUnlessStale
<1>1. IInv => OnceUnlessStale
    BY DEF IInv, SpentInv, OnceUnlessStale
<1> QED
    BY <1>1, AlwaysIInv, PTL

(* As long as no update was lost, 2FA is on only with a secret, and no     *)
(* backup code survives a disable.                                         *)
THEOREM FlagFits == Spec => []FlagFitsUnlessStale
<1>1. IInv => FlagFitsUnlessStale
    BY DEF IInv, SecretInv
<1> QED
    BY <1>1, AlwaysIInv, PTL

(* However requests overlap, the codes of a user are of one batch. *)
THEOREM BatchesDoNotMix == Spec => []OneBatch
<1>1. IInv => OneBatch
    BY DEF IInv, OneBatchInv
<1> QED
    BY <1>1, AlwaysIInv, PTL

(* However setups overlap, the secret in the row is one the user was shown *)
(* or is being shown, unless the response with it was lost; and whoever    *)
(* has 2FA on has one, unless an update was lost.                          *)
THEOREM SecretsKnown == Spec => []SecretKnown
<1>1. IInv => SecretKnown
    BY DEF IInv, SecretInv
<1> QED
    BY <1>1, AlwaysIInv, PTL

(* What the record sees of the component. *)
Phase == <<row, printed \ Undecided, spent, stale>>

(* A commit that overwrites no change it has not seen finds the row as it  *)
(* was loaded.                                                             *)
LEMMA CommitsOnSeen ==
    ASSUME IInv, NEW r \in Req, NEW new, Write(r, new), ~stale'
    PROVE  seen[r] = row
    BY DEF IInv, LoadedInv, TypeOK, Write

(* A step of the record, or one that it does not see. *)
LEMMA RecordStep == IInv /\ [Next]_vars => [Record!RecordNext]_Phase
<1> SUFFICES ASSUME IInv, [Next]_vars
             PROVE  [Record!RecordNext]_Phase
    OBVIOUS
<1> USE TwoFactorAssumption, CodesAreNotSecrets, BatchesAreNeither
        DEF IInv, TypeOK, LoadedInv, Phase, historyVars
<1>1. ASSUME UNCHANGED <<row, spent, stale>>,
             printed' \ Undecided' = printed \ Undecided
      PROVE  Phase' = Phase
    BY <1>1
<1>2. ASSUME stale' PROVE Record!RecordNext
    BY <1>2 DEF Record!RecordNext, Record!LoseUpdate
<1>3. ASSUME NEW r \in Req, Verify(r) PROVE Phase' = Phase
    <2>1. PICK b \in Batch \ printed :
             /\ printed' = printed \cup {b}
             /\ Load(r, "verify", b)
        BY <1>3 DEF Verify
    <2>2. Undecided' = Undecided \cup {b}
        BY <2>1 DEF Undecided, Load
    <2> QED
        BY <1>1, <1>3, <2>1, <2>2 DEF Verify
<1>4. ASSUME Undecided' = Undecided, UNCHANGED printed,
             UNCHANGED <<row, spent, stale>>
      PROVE  Phase' = Phase
    BY <1>1, <1>4
<1>5. ASSUME NEW r \in Req, Setup(r) \/ Disable(r) \/ Challenge(r)
      PROVE  Phase' = Phase
    <2>1. Undecided' = Undecided
        BY <1>5 DEF Setup, Disable, Challenge, Load, Undecided
    <2> QED
        BY <1>4, <1>5, <2>1 DEF Setup, Disable, Challenge
<1>6. ASSUME NEW r \in Req, StoreToken(r) \/ CommitTotp(r) \/ Respond(r)
      PROVE  Phase' = Phase
    <2>1. Undecided' = Undecided
        BY <1>6 DEF StoreToken, CommitTotp, Respond, Leave, Undecided
    <2> QED
        BY <1>4, <1>6, <2>1 DEF StoreToken, CommitTotp, Respond
<1>7. ASSUME NEW r \in Req, CommitSetup(r), ~stale'
      PROVE  Record!SetUp(arg[r])
    <2>1. Undecided' = Undecided
        BY <1>7 DEF CommitSetup, Undecided
    <2> QED
        BY <1>7, <2>1 DEF CommitSetup, Write, Record!SetUp
<1>8. ASSUME NEW r \in Req, pc[r] = "verify", pc' = [pc EXCEPT ![r] = "idle"]
                \/ pc' = [pc EXCEPT ![r] = "show"],
             \A q \in Req \ {r} : arg'[q] = arg[q]
      PROVE  Undecided' = Undecided \ {arg[r]}
    <2>1. \A q \in Req : pc'[q] = "verify" <=> q # r /\ pc[q] = "verify"
        BY <1>8
    <2>2. \A q \in Req : q # r /\ pc[q] = "verify" => arg[q] # arg[r]
        BY <1>8 DEF BatchInv
    <2> QED
        BY <1>8, <2>1, <2>2 DEF Undecided
<1>9. ASSUME NEW r \in Req, pc[r] = "verify"
      PROVE  arg[r] \in Batch /\ arg[r] \in printed /\ arg[r] \in Undecided
    BY <1>9 DEF BatchInv, Undecided
<1>10. ASSUME NEW r \in Req, CommitVerify(r), ~stale'
       PROVE  Record!TurnOn(arg[r])
    <2>1. seen[r] = row
        BY <1>10, CommitsOnSeen DEF CommitVerify
    <2>2. row' = [row EXCEPT !.enabled = TRUE,
                             !.codes = {arg[r]} \X (1..Size)]
        BY <1>10, <2>1 DEF CommitVerify, Write, CodesOf, Row
    <2>3. Undecided' = Undecided \ {arg[r]}
        BY <1>8, <1>10 DEF CommitVerify
    <2>4. printed' \ Undecided' = (printed \ Undecided) \cup {arg[r]}
        BY <1>9, <1>10, <2>3 DEF CommitVerify
    <2>5. row.secret # NoSecret /\ UNCHANGED <<spent, stale>>
        BY <1>10, <2>1 DEF CommitVerify, Write
    <2>6. arg[r] \notin printed \ Undecided
        BY <1>9, <1>10 DEF CommitVerify
    <2> QED
        BY <2>2, <2>4, <2>5, <2>6 DEF Record!TurnOn
<1>11. ASSUME NEW r \in Req, CommitDisable(r), ~stale'
       PROVE  Record!TurnOff
    <2>1. seen[r] = row
        BY <1>11, CommitsOnSeen DEF CommitDisable
    <2>2. row' = [enabled |-> FALSE, secret |-> NoSecret, codes |-> {}]
        BY <1>11, <2>1 DEF CommitDisable, Write, Row
    <2>3. Undecided' = Undecided
        BY <1>11 DEF CommitDisable, Undecided
    <2> QED
        BY <1>11, <2>1, <2>2, <2>3 DEF CommitDisable, Write, Record!TurnOff
<1>12. ASSUME NEW r \in Req, CommitBackup(r), ~stale'
       PROVE  Record!UseCode(arg[r])
    <2>1. seen[r] = row
        BY <1>12, CommitsOnSeen DEF CommitBackup
    <2>2. Undecided' = Undecided
        BY <1>12 DEF CommitBackup, Undecided
    <2> QED
        BY <1>12, <2>1, <2>2 DEF CommitBackup, Write, Record!UseCode
<1>13. ASSUME NEW r \in Req, Fail(r)
       PROVE  Phase' = Phase \/ \E b \in Batch : Record!Drop(b)
    <2>1. CASE pc[r] = "verify"
        <3>1. Undecided' = Undecided \ {arg[r]}
            BY <1>8, <1>13, <2>1 DEF Fail, Leave
        <3>2. Record!Drop(arg[r])
            BY <1>9, <1>13, <2>1, <3>1 DEF Fail, Record!Drop
        <3> QED
            BY <1>9, <2>1, <3>2
    <2>2. CASE pc[r] # "verify"
        <3>1. Undecided' = Undecided
            BY <1>13, <2>2 DEF Fail, Leave, Undecided
        <3> QED
            BY <1>4, <1>13, <3>1 DEF Fail
    <2> QED
        BY <2>1, <2>2
<1>14. CASE UNCHANGED vars
    BY <1>14 DEF vars, reqVars, Undecided
<1>15. ASSUME NEW r \in Req, ~stale',
              \/ CommitSetup(r) \/ CommitVerify(r)
              \/ CommitDisable(r) \/ CommitBackup(r)
       PROVE  Record!RecordNext
    <2>1. CASE CommitSetup(r)
        BY <1>7, <1>15, <2>1 DEF CommitSetup, Record!RecordNext
    <2>2. CASE CommitVerify(r)
        BY <1>9, <1>10, <1>15, <2>2 DEF CommitVerify, Record!RecordNext
    <2>3. CASE CommitDisable(r)
        BY <1>11, <1>15, <2>3 DEF Record!RecordNext
    <2>4. CASE CommitBackup(r)
        BY <1>12, <1>15, <2>4 DEF CommitBackup, Code, Record!RecordNext
    <2> QED
        BY <1>15, <2>1, <2>2, <2>3, <2>4
<1> QED
    BY <1>2, <1>3, <1>5, <1>6, <1>13, <1>14, <1>15 DEF Next, Record!RecordNext

(* However requests overlap, the 2FA columns change as if every request    *)
(* had run at once at its commit, until an update is lost.                 *)
THEOREM RecordRefinement == Spec => RecordSpec
<1>1. Init => Record!RecordInit
    BY DEF Init, EmptyRow, Undecided, Record!RecordInit
<1> QED
    BY <1>1, RecordStep, AlwaysIInv, PTL
    DEF Spec, RecordSpec, Record!RecordSpec, Phase, Record!recordVars
=============================================================================
