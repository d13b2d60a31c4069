------------------------- MODULE RefreshTokensProofs -------------------------
(***************************************************************************)
(* The safety properties of RefreshTokens and its refinement of            *)
(* SessionLedger, for every set of tokens and every number of handlers,    *)
(* from the inductive invariant IInv; and, from HeirsInv, how many         *)
(* successors a token has.                                                 *)
(***************************************************************************)
EXTENDS TokenHeirs, FiniteSetTheorems, TLAPS

(* The direction of every step: a token leaves Redis for good. *)
OneWay ==
    /\ gone \subseteq gone'
    /\ Used \subseteq Used'
    /\ gone \cap store' = {}

(* The initial state satisfies every part of the invariant. *)
LEMMA InitIInv == Init => IInv
BY NoJtiAssumption
   DEF Init, IInv, TypeOK, KeysInv, PendingInv, PresentedInv, RevokeInv,
       Used, Pending, Places

(* No step leaves the types. *)
LEMMA TypeStep == IInv /\ [Next]_vars => TypeOK'
<1> SUFFICES ASSUME IInv, [Next]_vars PROVE TypeOK'
    OBVIOUS
<1> USE NoJtiAssumption DEF IInv, TypeOK, PendingInv, Pending, KeysInv, Used,
        redisVars, Places
<1>1. ASSUME NEW r \in Req, Issue(r) PROVE TypeOK'
    BY <1>1 DEF Issue, Begin, CreateRefreshToken, Goto
<1>2. ASSUME NEW r \in Req, StoreRefreshToken(r) PROVE TypeOK'
    BY <1>2 DEF StoreRefreshToken, Goto
<1>3. ASSUME NEW r \in Req, Refresh(r) PROVE TypeOK'
    BY <1>3 DEF Refresh, Begin, Remember, Goto
<1>4. ASSUME NEW r \in Req, RefreshTokenExists(r) PROVE TypeOK'
    BY <1>4 DEF RefreshTokenExists, CreateRefreshToken, Goto
<1>5. ASSUME NEW r \in Req, RotateRefreshToken(r) PROVE TypeOK'
    BY <1>5 DEF RotateRefreshToken, Remove, Goto
<1>6. ASSUME NEW r \in Req, LogoutAll(r) PROVE TypeOK'
    BY <1>6 DEF LogoutAll, Begin, Remember, Goto
<1>7. ASSUME NEW r \in Req, RevokeKeys(r) PROVE TypeOK'
    BY <1>7 DEF RevokeKeys, Goto
<1>8. ASSUME NEW r \in Req, RevokeDelete(r) PROVE TypeOK'
    BY <1>8 DEF RevokeDelete, Remove, Goto
<1>9. ASSUME NEW r \in Req, Reply(r) PROVE TypeOK'
    BY <1>9 DEF Reply, Clear, Goto
<1>10. ASSUME NEW r \in Req, Fail(r) PROVE TypeOK'
    BY <1>10 DEF Fail, Clear, Goto
<1>11. ASSUME NEW j \in Jti, ExpireJwt(j) PROVE TypeOK'
    BY <1>11 DEF ExpireJwt
<1>12. ASSUME NEW j \in Jti, ExpireKey(j) PROVE TypeOK'
    BY <1>12 DEF ExpireKey, Remove
<1>13. CASE UNCHANGED vars
    BY <1>13 DEF vars, redisVars
<1> QED
    BY <1>1, <1>2, <1>3, <1>4, <1>5, <1>6, <1>7, <1>8, <1>9, <1>10,
        <1>11, <1>12, <1>13 DEF Next, Start, Progress

(* A token that has left Redis stays out, and no token is forgotten. *)
LEMMA GoneStep == IInv /\ [Next]_vars => OneWay
<1> SUFFICES ASSUME IInv, [Next]_vars PROVE OneWay
    OBVIOUS
<1> USE NoJtiAssumption DEF OneWay, IInv, TypeOK, KeysInv, PendingInv,
        redisVars, Used, Pending
<1>1. ASSUME NEW r \in Req, Issue(r) PROVE OneWay
    BY <1>1 DEF Issue, Begin, CreateRefreshToken, Goto
<1>2. ASSUME NEW r \in Req, StoreRefreshToken(r) PROVE OneWay
    BY <1>2 DEF StoreRefreshToken, Goto
<1>3. ASSUME NEW r \in Req, Refresh(r) PROVE OneWay
    BY <1>3 DEF Refresh, Begin, Remember, Goto
<1>4. ASSUME NEW r \in Req, RefreshTokenExists(r) PROVE OneWay
    BY <1>4 DEF RefreshTokenExists, CreateRefreshToken, Goto
<1>5. ASSUME NEW r \in Req, RotateRefreshToken(r) PROVE OneWay
    BY <1>5 DEF RotateRefreshToken, Remove, Goto
<1>6. ASSUME NEW r \in Req, LogoutAll(r) PROVE OneWay
    BY <1>6 DEF LogoutAll, Begin, Remember, Goto
<1>7. ASSUME NEW r \in Req, RevokeKeys(r) PROVE OneWay
    BY <1>7 DEF RevokeKeys, Goto
<1>8. ASSUME NEW r \in Req, RevokeDelete(r) PROVE OneWay
    BY <1>8 DEF RevokeDelete, Remove, Goto
<1>9. ASSUME NEW r \in Req, Reply(r) PROVE OneWay
    BY <1>9 DEF Reply, Clear, Goto
<1>10. ASSUME NEW r \in Req, Fail(r) PROVE OneWay
    BY <1>10 DEF Fail, Clear, Goto
<1>11. ASSUME NEW j \in Jti, ExpireJwt(j) PROVE OneWay
    BY <1>11 DEF ExpireJwt
<1>12. ASSUME NEW j \in Jti, ExpireKey(j) PROVE OneWay
    BY <1>12 DEF ExpireKey, Remove
<1>13. CASE UNCHANGED vars
    BY <1>13 DEF vars, redisVars
<1> QED
    BY <1>1, <1>2, <1>3, <1>4, <1>5, <1>6, <1>7, <1>8, <1>9, <1>10,
        <1>11, <1>12, <1>13 DEF Next, Start, Progress

(* What is in Redis was minted, and has not left before. *)
LEMMA KeysStep == IInv /\ [Next]_vars => KeysInv'
<1> SUFFICES ASSUME IInv, [Next]_vars PROVE KeysInv'
    OBVIOUS
<1> USE NoJtiAssumption DEF IInv, TypeOK, KeysInv, PendingInv, redisVars, Used,
        Pending
<1>1. ASSUME NEW r \in Req, Issue(r) PROVE KeysInv'
    BY <1>1 DEF Issue, Begin, CreateRefreshToken, Goto
<1>2. ASSUME NEW r \in Req, StoreRefreshToken(r) PROVE KeysInv'
    BY <1>2 DEF StoreRefreshToken, Goto
<1>3. ASSUME NEW r \in Req, Refresh(r) PROVE KeysInv'
    BY <1>3 DEF Refresh, Begin, Remember, Goto
<1>4. ASSUME NEW r \in Req, RefreshTokenExists(r) PROVE KeysInv'
    BY <1>4 DEF RefreshTokenExists, CreateRefreshToken, Goto
<1>5. ASSUME NEW r \in Req, RotateRefreshToken(r) PROVE KeysInv'
    BY <1>5 DEF RotateRefreshToken, Remove, Goto
<1>6. ASSUME NEW r \in Req, LogoutAll(r) PROVE KeysInv'
    BY <1>6 DEF LogoutAll, Begin, Remember, Goto
<1>7. ASSUME NEW r \in Req, RevokeKeys(r) PROVE KeysInv'
    BY <1>7 DEF RevokeKeys, Goto
<1>8. ASSUME NEW r \in Req, RevokeDelete(r) PROVE KeysInv'
    BY <1>8 DEF RevokeDelete, Remove, Goto
<1>9. ASSUME NEW r \in Req, Reply(r) PROVE KeysInv'
    BY <1>9 DEF Reply, Clear, Goto
<1>10. ASSUME NEW r \in Req, Fail(r) PROVE KeysInv'
    BY <1>10 DEF Fail, Clear, Goto
<1>11. ASSUME NEW j \in Jti, ExpireJwt(j) PROVE KeysInv'
    BY <1>11 DEF ExpireJwt
<1>12. ASSUME NEW j \in Jti, ExpireKey(j) PROVE KeysInv'
    BY <1>12 DEF ExpireKey, Remove
<1>13. CASE UNCHANGED vars
    BY <1>13 DEF vars, redisVars
<1> QED
    BY <1>1, <1>2, <1>3, <1>4, <1>5, <1>6, <1>7, <1>8, <1>9, <1>10,
        <1>11, <1>12, <1>13 DEF Next, Start, Progress

(* A token on its way to Redis stays private to its handler. *)
LEMMA PendingStep == IInv /\ [Next]_vars => PendingInv'
<1> SUFFICES ASSUME IInv, [Next]_vars PROVE PendingInv'
    OBVIOUS
<1> USE NoJtiAssumption DEF IInv, TypeOK, KeysInv, PendingInv, redisVars, Used,
        Pending
<1>1. ASSUME NEW r \in Req, Issue(r) PROVE PendingInv'
    BY <1>1 DEF Issue, Begin, CreateRefreshToken, Goto
<1>2. ASSUME NEW r \in Req, StoreRefreshToken(r) PROVE PendingInv'
    BY <1>2 DEF StoreRefreshToken, Goto
<1>3. ASSUME NEW r \in Req, Refresh(r) PROVE PendingInv'
    BY <1>3 DEF Refresh, Begin, Remember, Goto
<1>4. ASSUME NEW r \in Req, RefreshTokenExists(r) PROVE PendingInv'
    BY <1>4 DEF RefreshTokenExists, CreateRefreshToken, Goto
<1>5. ASSUME NEW r \in Req, RotateRefreshToken(r) PROVE PendingInv'
    BY <1>5 DEF RotateRefreshToken, Remove, Goto
<1>6. ASSUME NEW r \in Req, LogoutAll(r) PROVE PendingInv'
    BY <1>6 DEF LogoutAll, Begin, Remember, Goto
<1>7. ASSUME NEW r \in Req, RevokeKeys(r) PROVE PendingInv'
    BY <1>7 DEF RevokeKeys, Goto
<1>8. ASSUME NEW r \in Req, RevokeDelete(r) PROVE PendingInv'
    BY <1>8 DEF RevokeDelete, Remove, Goto
<1>9. ASSUME NEW r \in Req, Reply(r) PROVE PendingInv'
    BY <1>9 DEF Reply, Clear, Goto
<1>10. ASSUME NEW r \in Req, Fail(r) PROVE PendingInv'
    BY <1>10 DEF Fail, Clear, Goto
<1>11. ASSUME NEW j \in Jti, ExpireJwt(j) PROVE PendingInv'
    BY <1>11 DEF ExpireJwt
<1>12. ASSUME NEW j \in Jti, ExpireKey(j) PROVE PendingInv'
    BY <1>12 DEF ExpireKey, Remove
<1>13. CASE UNCHANGED vars
    BY <1>13 DEF vars, redisVars
<1> QED
    BY <1>1, <1>2, <1>3, <1>4, <1>5, <1>6, <1>7, <1>8, <1>9, <1>10,
        <1>11, <1>12, <1>13 DEF Next, Start, Progress

(* What a handler knows of the token it was given stays true. *)
LEMMA PresentedStep == IInv /\ [Next]_vars => PresentedInv'
<1> SUFFICES ASSUME IInv, [Next]_vars PROVE PresentedInv'
    OBVIOUS
<1> USE NoJtiAssumption DEF IInv, TypeOK, KeysInv, PendingInv, PresentedInv,
        redisVars, Used, Pending
<1>1. ASSUME NEW r \in Req, Issue(r) PROVE PresentedInv'
    BY <1>1 DEF Issue, Begin, CreateRefreshToken, Goto
<1>2. ASSUME NEW r \in Req, StoreRefreshToken(r) PROVE PresentedInv'
    BY <1>2 DEF StoreRefreshToken, Goto
<1>3. ASSUME NEW r \in Req, Refresh(r) PROVE PresentedInv'
    BY <1>3 DEF Refresh, Begin, Remember, Goto
<1>4. ASSUME NEW r \in Req, RefreshTokenExists(r) PROVE PresentedInv'
    BY <1>4 DEF RefreshTokenExists, CreateRefreshToken, Goto
<1>5. ASSUME NEW r \in Req, RotateRefreshToken(r) PROVE PresentedInv'
    BY <1>5 DEF RotateRefreshToken, Remove, Goto
<1>6. ASSUME NEW r \in Req, LogoutAll(r) PROVE PresentedInv'
    BY <1>6 DEF LogoutAll, Begin, Remember, Goto
<1>7. ASSUME NEW r \in Req, RevokeKeys(r) PROVE PresentedInv'
    BY <1>7 DEF RevokeKeys, Goto
<1>8. ASSUME NEW r \in Req, RevokeDelete(r) PROVE PresentedInv'
    BY <1>8 DEF RevokeDelete, Remove, Goto
<1>9. ASSUME NEW r \in Req, Reply(r) PROVE PresentedInv'
    BY <1>9 DEF Reply, Clear, Goto
<1>10. ASSUME NEW r \in Req, Fail(r) PROVE PresentedInv'
    BY <1>10 DEF Fail, Clear, Goto
<1>11. ASSUME NEW j \in Jti, ExpireJwt(j) PROVE PresentedInv'
    BY <1>11 DEF ExpireJwt
<1>12. ASSUME NEW j \in Jti, ExpireKey(j) PROVE PresentedInv'
    BY <1>12 DEF ExpireKey, Remove
<1>13. CASE UNCHANGED vars
    BY <1>13 DEF vars, redisVars
<1> QED
    BY <1>1, <1>2, <1>3, <1>4, <1>5, <1>6, <1>7, <1>8, <1>9, <1>10,
        <1>11, <1>12, <1>13 DEF Next, Start, Progress

(* What a revocation has still to delete shrinks, and grows by nothing that
   was there when it started. *)
LEMMA RevokeStep == IInv /\ [Next]_vars => RevokeInv'
<1> SUFFICES ASSUME IInv, [Next]_vars PROVE RevokeInv'
    OBVIOUS
<1> USE NoJtiAssumption DEF IInv, TypeOK, KeysInv, PendingInv, PresentedInv,
        redisVars, Used, Pending, RevokeInv
<1>1. ASSUME NEW r \in Req, Issue(r) PROVE RevokeInv'
    BY <1>1 DEF Issue, Begin, CreateRefreshToken, Goto
<1>2. ASSUME NEW r \in Req, StoreRefreshToken(r) PROVE RevokeInv'
    BY <1>2 DEF StoreRefreshToken, Goto
<1>3. ASSUME NEW r \in Req, Refresh(r) PROVE RevokeInv'
    BY <1>3 DEF Refresh, Begin, Remember, Goto
<1>4. ASSUME NEW r \in Req, RefreshTokenExists(r) PROVE RevokeInv'
    BY <1>4 DEF RefreshTokenExists, CreateRefreshToken, Goto
<1>5. ASSUME NEW r \in Req, RotateRefreshToken(r) PROVE RevokeInv'
    BY <1>5 DEF RotateRefreshToken, Remove, Goto
<1>6. ASSUME NEW r \in Req, LogoutAll(r) PROVE RevokeInv'
    BY <1>6 DEF LogoutAll, Begin, Remember, Goto
<1>7. ASSUME NEW r \in Req, RevokeKeys(r) PROVE RevokeInv'
    BY <1>7 DEF RevokeKeys, Goto
<1>8. ASSUME NEW r \in Req, RevokeDelete(r) PROVE RevokeInv'
    BY <1>8 DEF RevokeDelete, Remove, Goto
<1>9. ASSUME NEW r \in Req, Reply(r) PROVE RevokeInv'
    BY <1>9 DEF Reply, Clear, Goto
<1>10. ASSUME NEW r \in Req, Fail(r) PROVE RevokeInv'
    BY <1>10 DEF Fail, Clear, Goto
<1>11. ASSUME NEW j \in Jti, ExpireJwt(j) PROVE RevokeInv'
    BY <1>11 DEF ExpireJwt
<1>12. ASSUME NEW j \in Jti, ExpireKey(j) PROVE RevokeInv'
    BY <1>12 DEF ExpireKey, Remove
<1>13. CASE UNCHANGED vars
    BY <1>13 DEF vars, redisVars
<1> QED
    BY <1>1, <1>2, <1>3, <1>4, <1>5, <1>6, <1>7, <1>8, <1>9, <1>10,
        <1>11, <1>12, <1>13 DEF Next, Start, Progress

(* IInv is an inductive invariant. *)
LEMMA Inductive == IInv /\ [Next]_vars => IInv'
BY TypeStep, KeysStep, PendingStep, PresentedStep, RevokeStep DEF IInv

LEMMA AlwaysIInv == Spec => []IInv
BY InitIInv, Inductive, PTL DEF Spec

(* Every variable keeps its type. *)
THEOREM TypeCorrect == Spec => []TypeOK
<1>1. IInv => TypeOK
    BY DEF IInv
<1> QED
    BY <1>1, AlwaysIInv, PTL

(* For any number of tokens and handlers: a token that was rotated, revoked *)
(* or has lapsed is never accepted again.                                  *)
THEOREM Retirement == Spec => GoneStaysGone
<1>1. IInv /\ [Next]_vars => [\A j \in gone : j \in gone' /\ j \notin
        store']_vars
    BY GoneStep DEF OneWay
<1> QED
    BY <1>1, AlwaysIInv, PTL DEF Spec, GoneStaysGone

(* A refresh that starts after its token has left Redis never rotates it. *)
THEOREM LateRefresh == Spec => []LatePresentationFails
<1>1. IInv => LatePresentationFails
    BY DEF IInv, PresentedInv, LatePresentationFails
<1> QED
    BY <1>1, AlwaysIInv, PTL

(* A revocation that has answered has ended every session that was open    *)
(* when it started, whatever ran between its two commands.                 *)
THEOREM Revocation == Spec => []RevocationComplete
<1>1. IInv => RevocationComplete
    BY DEF IInv, KeysInv, RevokeInv, RevocationComplete
<1> QED
    BY <1>1, AlwaysIInv, PTL

(* Reuse is only detected for a token that was stored and has left. *)
THEOREM ReuseDetection == Spec => []ReuseOnlyAfterRetirement
<1>1. IInv => ReuseOnlyAfterRetirement
    BY DEF IInv, PresentedInv, ReuseOnlyAfterRetirement
<1> QED
    BY <1>1, AlwaysIInv, PTL

(* No token a client holds is unknown to the store. *)
THEOREM Delivery == Spec => []DeliveredAccounted
<1>1. IInv => DeliveredAccounted
    BY DEF IInv, KeysInv, DeliveredAccounted, Used
<1> QED
    BY <1>1, AlwaysIInv, PTL

(* RefreshTokens implements SessionLedger: every command on Redis opens a  *)
(* session, renews one or ends some, and every other step is a stutter.    *)
THEOREM Refinement == Spec => LedgerSpec
<1>1. Init => Ledger!LedgerInit
    BY DEF Init, Ledger!LedgerInit, Phase
<1>2. IInv /\ [Next]_vars => [Ledger!LedgerNext]_Phase
    <2> SUFFICES ASSUME IInv, [Next]_vars PROVE [Ledger!LedgerNext]_Phase
        OBVIOUS
    <2> USE NoJtiAssumption
        DEF IInv, TypeOK, KeysInv, PendingInv, PresentedInv, Pending, Used,
            Phase
    <2>1. ASSUME store' = store, gone' = gone PROVE Phase' = Phase
        BY <2>1
    <2>2. ASSUME NEW r \in Req, StoreRefreshToken(r)
          PROVE Ledger!Open(new[r])
        BY <2>2 DEF StoreRefreshToken, Ledger!Open
    <2>3. ASSUME NEW r \in Req, RotateRefreshToken(r)
          PROVE Ledger!Renew(tok[r], new[r])
        BY <2>3 DEF RotateRefreshToken, Remove, Ledger!Renew
    <2>4. ASSUME NEW r \in Req, RevokeDelete(r)
          PROVE Ledger!End(keys[r] \cap store)
        BY <2>4 DEF RevokeDelete, Remove, Ledger!End
    <2>5. ASSUME NEW j \in Jti, ExpireKey(j)
          PROVE Ledger!End({j})
        BY <2>5 DEF ExpireKey, Remove, Ledger!End
    <2>6. ASSUME NEW r \in Req,
                 \/ Start(r) \/ RefreshTokenExists(r) \/ RevokeKeys(r)
                 \/ Reply(r) \/ Fail(r)
          PROVE Phase' = Phase
        BY <2>1, <2>6
           DEF Start, Issue, Refresh, LogoutAll, RefreshTokenExists,
               RevokeKeys, Reply, Fail, redisVars
    <2>7. ASSUME NEW j \in Jti, ExpireJwt(j) PROVE Phase' = Phase
        BY <2>1, <2>7 DEF ExpireJwt, redisVars
    <2>8. CASE UNCHANGED vars
        BY <2>1, <2>8 DEF vars
    <2>9. ASSUME NEW r \in Req, StoreRefreshToken(r) \/ RotateRefreshToken(r)
          PROVE new[r] \in Jti /\ (RotateRefreshToken(r) => tok[r] \in Jti)
        BY <2>9 DEF StoreRefreshToken, RotateRefreshToken
    <2>10. ASSUME NEW r \in Req PROVE keys[r] \cap store \in SUBSET Jti
        OBVIOUS
    <2> HIDE DEF IInv, TypeOK, KeysInv, PendingInv, PresentedInv, Pending,
                 Used, Phase
    <2>11. ASSUME NEW r \in Req,
                  \/ StoreRefreshToken(r) \/ RotateRefreshToken(r)
                  \/ RevokeDelete(r)
           PROVE Ledger!LedgerNext
        BY <2>2, <2>3, <2>4, <2>9, <2>10, <2>11 DEF Ledger!LedgerNext
    <2>12. ASSUME NEW j \in Jti, ExpireKey(j) PROVE Ledger!LedgerNext
        BY <2>5, <2>12 DEF Ledger!LedgerNext
    <2> QED
        BY <2>6, <2>7, <2>8, <2>11, <2>12 DEF Next, Progress
<1> QED
    BY <1>1, <1>2, AlwaysIInv, PTL DEF Spec, LedgerSpec, Ledger!LedgerSpec


(* The handlers about to exchange a token, when there are finitely many. *)
LEMMA RotatingFinite ==
    ASSUME IsFiniteSet(Req), NEW j \in Jti
    PROVE  /\ Cardinality(Req) \in Nat
           /\ IsFiniteSet(Rotating(j)) /\ IsFiniteSet(Rotating(j)')
           /\ Cardinality(Rotating(j)) \in Nat
           /\ Cardinality(Rotating(j)') \in 0..Cardinality(Req)
<1>1. Rotating(j) \subseteq Req /\ Rotating(j)' \subseteq Req
    BY DEF Rotating
<1> QED
    BY <1>1, FS_Subset, FS_CardinalityType

(* An exchange takes one handler from those about to exchange its token,   *)
(* and adds one successor.                                                 *)
LEMMA RotateStep ==
    ASSUME IsFiniteSet(Req), IInv, HeirsInv, NEW r \in Req,
           RotateRefreshToken(r),
           heirs' = [j \in Jti |-> heirs[j] \cup Successors(j)]
    PROVE  HeirsInv'
<1> DEFINE t == tok[r]
<1>1. /\ pc[r] = "rotate" /\ pc' = [pc EXCEPT ![r] = "reply"]
      /\ UNCHANGED <<tok, new>>
      /\ gone' = gone \cup ({t} \cap store)
    BY DEF RotateRefreshToken, Goto, Remove
<1>2. t \in Used /\ t \in Jti /\ new[r] \in Jti /\ TypeOK
    BY <1>1, NoJtiAssumption
    DEF IInv, TypeOK, PresentedInv, PendingInv, Pending, KeysInv
<1>3. \A j \in Jti : Successors(j) = IF j = t THEN {new[r]} ELSE {}
    BY <1>1, <1>2 DEF Successors, TypeOK
<1>4. \A j \in Jti : Rotating(j)' = Rotating(j) \ {r}
    BY <1>1, <1>2 DEF Rotating, TypeOK
<1>5. r \in Rotating(t) /\ \A j \in Jti \ {t} : r \notin Rotating(j)
    BY <1>1 DEF Rotating
<1>6. heirs' \in [Jti -> SUBSET Jti]
    BY <1>2, <1>3 DEF HeirsInv
<1>7. t \in gone'
    BY <1>1, <1>2 DEF Used
<1>8. ASSUME NEW j \in Jti
      PROVE  /\ IsFiniteSet(heirs'[j])
             /\ Cardinality(heirs'[j]) + Cardinality(Rotating(j)')
                   <= Cardinality(Req)
             /\ j \notin gone' => heirs'[j] = {}
    <2>1. /\ IsFiniteSet(heirs[j]) /\ Cardinality(heirs[j]) \in Nat
          /\ Cardinality(heirs[j]) + Cardinality(Rotating(j))
                <= Cardinality(Req)
          /\ j \notin gone => heirs[j] = {}
        BY FS_CardinalityType DEF HeirsInv
    <2>2. CASE j = t
        <3>1. heirs'[j] = heirs[j] \cup {new[r]}
            BY <1>3, <2>2
        <3>2. /\ IsFiniteSet(heirs'[j])
              /\ \/ Cardinality(heirs'[j]) = Cardinality(heirs[j])
                 \/ Cardinality(heirs'[j]) = Cardinality(heirs[j]) + 1
            <4>1. \A x : /\ IsFiniteSet(heirs[j] \cup {x})
                         /\ Cardinality(heirs[j] \cup {x}) =
                               IF x \in heirs[j] THEN Cardinality(heirs[j])
                               ELSE Cardinality(heirs[j]) + 1
                BY <2>1, FS_AddElement
            <4> QED
                BY <3>1, <4>1
        <3>3. Cardinality(Rotating(j)') = Cardinality(Rotating(j)) - 1
            BY <1>4, <1>5, <2>2, RotatingFinite, FS_RemoveElement
        <3> QED
            BY <1>7, <2>1, <2>2, <3>2, <3>3, RotatingFinite
    <2>3. CASE j # t
        <3>1. heirs'[j] = heirs[j]
            BY <1>3, <2>3
        <3>2. Rotating(j)' = Rotating(j)
            BY <1>4, <1>5, <2>3
        <3> QED
            BY <1>1, <2>1, <3>1, <3>2
    <2> QED
        BY <2>2, <2>3
<1> QED
    BY <1>6, <1>8 DEF HeirsInv

(* A token that passes EXISTS has no successor yet; otherwise nobody joins *)
(* the handlers about to exchange it.                                      *)
LEMMA OtherStep ==
    ASSUME IsFiniteSet(Req), IInv, HeirsInv, [Next]_vars, heirs' = heirs,
           \A q \in Req : pc'[q] = "rotate" =>
              /\ tok'[q] = tok[q]
              /\ pc[q] = "rotate" \/ tok[q] \in store
    PROVE  HeirsInv'
<1>1. gone \subseteq gone' /\ store \cap gone = {}
    BY GoneStep DEF OneWay, IInv, KeysInv
<1>2. ASSUME NEW j \in Jti
      PROVE  /\ IsFiniteSet(heirs'[j])
             /\ Cardinality(heirs'[j]) + Cardinality(Rotating(j)')
                   <= Cardinality(Req)
             /\ j \notin gone' => heirs'[j] = {}
    <2>1. /\ IsFiniteSet(heirs[j]) /\ Cardinality(heirs[j]) \in Nat
          /\ Cardinality(heirs[j]) + Cardinality(Rotating(j))
                <= Cardinality(Req)
          /\ j \notin gone => heirs[j] = {}
        BY FS_CardinalityType DEF HeirsInv
    <2>2. CASE j \in store
        <3>1. heirs[j] = {} /\ Cardinality(heirs[j]) = 0
            BY <1>1, <2>1, <2>2, FS_EmptySet
        <3> QED
            BY <1>1, <2>1, <3>1, RotatingFinite
    <2>3. CASE j \notin store
        <3>1. Rotating(j)' \subseteq Rotating(j)
            BY <2>3 DEF Rotating
        <3>2. Cardinality(Rotating(j)') <= Cardinality(Rotating(j))
            BY <3>1, RotatingFinite, FS_Subset
        <3> QED
            BY <1>1, <2>1, <3>2, RotatingFinite
    <2> QED
        BY <2>2, <2>3
<1> QED
    BY <1>2 DEF HeirsInv

LEMMA HeirsStep ==
    ASSUME IsFiniteSet(Req)
    PROVE  IInv /\ HeirsInv /\ [HeirsNext]_heirsVars => HeirsInv'
<1> SUFFICES ASSUME IInv, HeirsInv, [HeirsNext]_heirsVars PROVE HeirsInv'
    OBVIOUS
<1> USE DEF IInv, TypeOK
<1>1. [Next]_vars
    BY DEF HeirsNext, heirsVars
<1>2. CASE UNCHANGED heirsVars
    BY <1>1, <1>2, OtherStep DEF heirsVars, vars
<1>3. CASE HeirsNext
    <2>1. heirs' = [j \in Jti |-> heirs[j] \cup Successors(j)]
        BY <1>3 DEF HeirsNext
    <2>2. ASSUME NEW r \in Req, RotateRefreshToken(r) PROVE HeirsInv'
        BY <2>1, <2>2, RotateStep
    <2>3. ASSUME ~\E q \in Req : pc[q] = "rotate" /\ pc'[q] = "reply"
          PROVE  heirs' = heirs
        BY <2>1, <2>3 DEF Successors, HeirsInv
    <2>4. ASSUME NEW r \in Req,
                 \/ Start(r) \/ StoreRefreshToken(r) \/ RefreshTokenExists(r)
                 \/ RevokeKeys(r) \/ RevokeDelete(r) \/ Reply(r) \/ Fail(r)
          PROVE  HeirsInv'
        <3>1. ~\E q \in Req : pc[q] = "rotate" /\ pc'[q] = "reply"
            BY <2>4 DEF Start, Issue, Refresh, LogoutAll, Begin,
                StoreRefreshToken, RefreshTokenExists, RevokeKeys,
                RevokeDelete, Reply, Fail, Goto
        <3>2. \A q \in Req : pc'[q] = "rotate" =>
                 /\ tok'[q] = tok[q]
                 /\ pc[q] = "rotate" \/ tok[q] \in store
            BY <2>4 DEF Start, Issue, Refresh, LogoutAll, Begin,
                StoreRefreshToken, RefreshTokenExists, RevokeKeys,
                RevokeDelete, Reply, Fail, Goto, Clear
        <3> QED
            BY <1>1, <2>3, <3>1, <3>2, OtherStep
    <2>5. ASSUME NEW j \in Jti, ExpireJwt(j) \/ ExpireKey(j) PROVE HeirsInv'
        BY <1>1, <2>3, <2>5, OtherStep DEF ExpireJwt, ExpireKey
    <2> QED
        BY <1>3, <2>2, <2>4, <2>5 DEF HeirsNext, Next, Progress
<1> QED
    BY <1>2, <1>3

(* Whatever overlaps, a token is exchanged for no more tokens than there   *)
(* are requests in flight at once.                                         *)
THEOREM FewSuccessors ==
    ASSUME IsFiniteSet(Req)
    PROVE  HeirsSpec => []SuccessorsBounded
<1>1. HeirsInit => HeirsInv
    <2> SUFFICES ASSUME HeirsInit PROVE HeirsInv
        OBVIOUS
    <2>1. \A j \in Jti : Rotating(j) = {} /\ heirs[j] = {}
        BY DEF HeirsInit, Init, Rotating
    <2> QED
        BY <2>1, RotatingFinite, FS_EmptySet DEF HeirsInit, HeirsInv
<1>2. HeirsSpec => Spec
    <2>1. [HeirsNext]_heirsVars => [Next]_vars
        BY DEF HeirsNext, heirsVars
    <2> QED
        BY <2>1, PTL DEF HeirsSpec, HeirsInit, Spec
<1>3. HeirsInv => SuccessorsBounded
    <2> SUFFICES ASSUME HeirsInv, NEW j \in Jti
                 PROVE  Cardinality(heirs[j]) <= Cardinality(Req)
        BY DEF SuccessorsBounded
    <2>1. IsFiniteSet(heirs[j]) /\ Cardinality(heirs[j]) \in Nat
        BY FS_CardinalityType DEF HeirsInv
    <2> QED
        BY <2>1, RotatingFinite DEF HeirsInv
<1> QED
    BY <1>1, <1>2, <1>3, HeirsStep, AlwaysIInv, PTL DEF HeirsSpec
=============================================================================
