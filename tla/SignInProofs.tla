---------------------------- MODULE SignInProofs ----------------------------
(***************************************************************************)
(* The ledger of logins, for every set of logins and tokens and every      *)
(* number of handlers: each step either opens one login for an active      *)
(* user, or brings no login to life.                                       *)
(***************************************************************************)
EXTENDS SignIn, RefreshTokensProofs

(* No login comes to life. *)
Quiet == opened' = opened /\ AliveLogins' \subseteq AliveLogins

(* A password opens l, and nothing else changes among the logins. *)
Opens(l) ==
    /\ active
    /\ l \notin opened
    /\ opened' = opened \cup {l}
    /\ AliveLogins' = AliveLogins \cup {l}

(* The refresh tokens are those of RefreshTokens, whatever else happens. *)
LEMMA TokenStepIsNext == [SignInNext]_signInVars => [Next]_vars
<1> SUFFICES ASSUME SignInNext PROVE [Next]_vars
    BY DEF signInVars
<1>1. ASSUME NEW r \in Req,
             \/ \E l \in Login : \/ PasswordLogin(r, l) \/ ChallengeLogin(r, l)
                                 \/ TokenForAccess(r, l)
             \/ OtherLogin(r) \/ LogoutAllDevices(r) \/ RefreshSession(r)
      PROVE Start(r)
    BY <1>1 DEF PasswordLogin, ChallengeLogin, TokenForAccess, OtherLogin,
        LogoutAllDevices, RefreshSession, Start
<1>2. ASSUME NEW r \in Req, RotateWithin(r) \/ Command(r) \/ ReplyTokens(r)
      PROVE Progress(r) \/ Fail(r)
    BY <1>2 DEF RotateWithin, Command, ReplyTokens, Progress
<1>3. ASSUME NEW l \in Login,
             \/ Pre2faLogin(l) \/ DashboardLogin(l) \/ PanelLogin(l)
             \/ \E kind \in Kinds : Forget(l, kind)
      PROVE UNCHANGED vars
    BY <1>3 DEF Pre2faLogin, DashboardLogin, PanelLogin, StatelessLogin, Forget
<1>4. ASSUME NEW j \in Jti, Expiry(j) PROVE ExpireJwt(j) \/ ExpireKey(j)
    BY <1>4 DEF Expiry
<1>5. CASE SetActive
    BY <1>5 DEF SetActive
<1> QED
    BY <1>1, <1>2, <1>3, <1>4, <1>5 DEF SignInNext, Next

(* What is in Redis or on its way there either was, or is newly created. *)
Sources == store' \cup Carried' \subseteq
             store \cup Carried \cup (minted' \ minted)

LEMMA TokenSources == IInv /\ [Next]_vars => Sources
<1> SUFFICES ASSUME IInv, [Next]_vars PROVE Sources
    OBVIOUS
<1> USE DEF Sources, Carried, IInv, TypeOK, redisVars
<1>1. ASSUME NEW r \in Req, Issue(r) PROVE Sources
    BY <1>1 DEF Issue, Begin, CreateRefreshToken, Goto
<1>2. ASSUME NEW r \in Req, StoreRefreshToken(r) PROVE Sources
    BY <1>2 DEF StoreRefreshToken, Goto
<1>3. ASSUME NEW r \in Req, Refresh(r) \/ LogoutAll(r) PROVE Sources
    BY <1>3 DEF Refresh, LogoutAll, Begin, Goto
<1>4. ASSUME NEW r \in Req, RefreshTokenExists(r) PROVE Sources
    BY <1>4 DEF RefreshTokenExists, CreateRefreshToken, Goto
<1>5. ASSUME NEW r \in Req, RotateRefreshToken(r) PROVE Sources
    BY <1>5 DEF RotateRefreshToken, Goto
<1>6. ASSUME NEW r \in Req, RevokeKeys(r) PROVE Sources
    BY <1>6 DEF RevokeKeys, Goto
<1>7. ASSUME NEW r \in Req, RevokeDelete(r) PROVE Sources
    BY <1>7 DEF RevokeDelete, Goto
<1>8. ASSUME NEW r \in Req, Reply(r) \/ Fail(r) PROVE Sources
    BY <1>8 DEF Reply, Fail, Clear, Goto
<1>9. ASSUME NEW j \in Jti, ExpireJwt(j) \/ ExpireKey(j) PROVE Sources
    BY <1>9 DEF ExpireJwt, ExpireKey
<1>10. CASE UNCHANGED vars
    BY <1>10 DEF vars
<1> QED
    BY <1>1, <1>2, <1>3, <1>4, <1>5, <1>6, <1>7, <1>8, <1>9, <1>10
    DEF Next, Start, Progress

(* Every token in Redis or on its way there was created. *)
LEMMA CarriedMinted == IInv => store \cup Carried \subseteq minted
BY DEF IInv, KeysInv, PendingInv, Pending, Used, Carried

(* A step that gives the tokens it creates to l, and nobody else anything, *)
(* brings at most l to life.                                               *)
LEMMA DescendsStep ==
    ASSUME IInv, AccountTypeOK, [Next]_vars, NEW l, Descends(l),
           NEW x \in Login, Alive(x)', held'[x] # {} => Alive(x)
    PROVE  Alive(x) \/ (x = l /\ minted' # minted)
<1>1. CASE held'[x] # {}
    BY <1>1
<1>2. CASE held'[x] = {}
    <2>1. PICK j \in store' \cup Carried' : root'[j] = x
        BY <1>2 DEF Alive
    <2>2. IInv'
        BY Inductive
    <2>3. j \in minted' /\ j \in Jti
        BY <2>2, CarriedMinted, <2>1 DEF IInv, TypeOK, KeysInv, PendingInv,
            Pending, Used, Carried
    <2>4. CASE j \in minted' \ minted
        BY <2>1, <2>3, <2>4 DEF Descends
    <2>5. CASE j \in minted
        <3>1. j \in store \cup Carried
            BY TokenSources, <2>1, <2>5 DEF Sources
        <3>2. root'[j] = root[j]
            BY <2>1, <2>3, <2>5 DEF Descends
        <3> QED
            BY <3>1, <3>2, <2>1 DEF Alive
    <2> QED
        BY <2>3, <2>4, <2>5
<1> QED
    BY <1>1, <1>2

(* Issuing a token for l leaves alive what was, and brings l to life. *)
LEMMA IssueStep ==
    ASSUME IInv, AccountTypeOK, NEW r \in Req, NEW l, Issue(r), Descends(l),
           UNCHANGED held, NEW x \in Login, Alive(x) \/ x = l
    PROVE  Alive(x)'
<1>1. PICK j \in Jti \ minted : minted' = minted \cup {j} /\ new'[r] = j
    BY DEF Issue, CreateRefreshToken, IInv, TypeOK
<1>2. /\ store' = store
      /\ pc[r] = "idle"
      /\ \A q \in Req : /\ pc'[q] = IF q = r THEN "setex" ELSE pc[q]
                        /\ q # r => new'[q] = new[q]
    BY DEF Issue, Begin, Goto, CreateRefreshToken, redisVars, IInv, TypeOK
<1>3. j \in Carried' /\ Carried \subseteq Carried'
    BY <1>1, <1>2 DEF Carried
<1>4. CASE x = l
    BY <1>1, <1>3, <1>4 DEF Descends, Alive
<1>5. CASE held[x] # {}
    BY <1>5 DEF Alive
<1>6. ASSUME NEW i \in store \cup Carried, root[i] = x PROVE Alive(x)'
    <2>1. i \in minted /\ i \in Jti
        BY CarriedMinted DEF IInv, TypeOK
    <2>2. root'[i] = root[i] /\ i \in store' \cup Carried'
        BY <1>1, <1>2, <1>3, <2>1 DEF Descends
    <2> QED
        BY <1>6, <2>2 DEF Alive
<1> QED
    BY <1>4, <1>5, <1>6 DEF Alive

(* Every step opens one login, or brings none to life. *)
LEMMA StepKinds ==
    ASSUME SignInInv, [SignInNext]_signInVars
    PROVE  Quiet \/ \E l \in Login : Opens(l)
<1> DEFINE Goal == Quiet \/ \E l \in Login : Opens(l)
<1> USE DEF SignInInv
<1>a. [Next]_vars
    BY TokenStepIsNext
<1>b. ASSUME NEW l, l \in AliveLogins \/ l \notin Login \/ minted' = minted,
             Descends(l), opened' = opened,
             \A x \in Login : held'[x] # {} => Alive(x)
      PROVE  Quiet
    BY <1>a, <1>b, DescendsStep DEF Quiet, AliveLogins
<1>c. ASSUME UNCHANGED held
      PROVE  \A x \in Login : held'[x] # {} => Alive(x)
    BY <1>c DEF Alive
<1>d. ASSUME UNCHANGED <<store, pc, new, root>>, opened' = opened,
             \A x \in Login : held'[x] # {} => held[x] # {}
      PROVE  Quiet
    BY <1>d DEF Quiet, AliveLogins, Alive, Carried
<1>1. ASSUME NEW r \in Req, NEW l \in Login, PasswordLogin(r, l) PROVE Opens(l)
    <2>1. \A x \in Login : Alive(x)' => Alive(x) \/ x = l
        BY <1>1, <1>a, <1>c, DescendsStep DEF PasswordLogin
    <2>2. \A x \in Login : Alive(x) \/ x = l => Alive(x)'
        BY <1>1, IssueStep DEF PasswordLogin
    <2> QED
        BY <1>1, <2>1, <2>2 DEF PasswordLogin, OpenLogin, Opens, AliveLogins
<1>2. ASSUME NEW r \in Req, NEW l \in Login,
             ChallengeLogin(r, l) \/ TokenForAccess(r, l)
      PROVE  Quiet
    <2>1. l \in AliveLogins
        BY <1>2 DEF ChallengeLogin, TokenForAccess, AliveLogins, Alive
    <2> QED
        BY <1>2, <1>b, <1>c, <2>1 DEF ChallengeLogin, TokenForAccess
<1>3. ASSUME NEW r \in Req, OtherLogin(r) PROVE Quiet
    BY <1>3, <1>b, <1>c, NoLoginAssumption DEF OtherLogin
<1>4. ASSUME NEW r \in Req, LogoutAllDevices(r) \/ RefreshSession(r)
      PROVE  Quiet
    <2>1. /\ UNCHANGED <<root, held, opened, store, new>>
          /\ pc[r] = "idle"
          /\ \A q \in Req : pc'[q] = pc[q] \/ pc'[q] \in {"keys", "exists"}
        BY <1>4 DEF LogoutAllDevices, RefreshSession, accountVars, LogoutAll,
            Refresh, Begin, Goto, redisVars, IInv, TypeOK
    <2>2. Carried' \subseteq Carried
        BY <2>1 DEF Carried
    <2> QED
        BY <2>1, <2>2 DEF Quiet, AliveLogins, Alive
<1>5. ASSUME NEW r \in Req, RotateWithin(r) PROVE Quiet
    <2>1. root[tok[r]] \in AliveLogins \/ root[tok[r]] \notin Login
          \/ minted' = minted
        BY <1>5 DEF RotateWithin, RefreshTokenExists, AliveLogins, Alive
    <2> QED
        BY <1>5, <1>b, <1>c, <2>1 DEF RotateWithin
<1>6. ASSUME NEW r \in Req, Command(r) PROVE Quiet
    <2>1. TokensOnly
        BY <1>6 DEF Command
    <2> QED
        BY <2>1, <1>b, <1>c, NoLoginAssumption DEF TokensOnly
<1>7. ASSUME NEW r \in Req, ReplyTokens(r) PROVE Quiet
    <2>1. \A x \in Login : held'[x] # {} => Alive(x)
        BY <1>7 DEF ReplyTokens, AccountTypeOK, Alive, Carried
    <2> QED
        BY <1>7, <1>b, <2>1, NoLoginAssumption DEF ReplyTokens
<1>8. ASSUME NEW l \in Login, NEW kind, StatelessLogin(l, kind) PROVE Opens(l)
    <2>1. /\ UNCHANGED <<store, pc, new, root>>
          /\ \A x \in Login : held'[x] = IF x = l THEN {kind} ELSE held[x]
        BY <1>8 DEF StatelessLogin, vars, redisVars, AccountTypeOK
    <2> QED
        BY <1>8, <2>1
        DEF StatelessLogin, OpenLogin, Opens, AliveLogins, Alive, Carried
<1>9. ASSUME NEW l \in Login, NEW kind \in Kinds, Forget(l, kind) PROVE Quiet
    BY <1>9, <1>d DEF Forget, vars, AccountTypeOK
<1>10. CASE SetActive
    BY <1>10, <1>d DEF SetActive, vars
<1>11. ASSUME NEW j \in Jti, Expiry(j) PROVE Quiet
    BY <1>11, <1>b, <1>c, NoLoginAssumption DEF Expiry, TokensOnly
<1>12. CASE UNCHANGED signInVars
    BY <1>12, <1>d DEF signInVars, vars, accountVars
<1> QED
    BY <1>1, <1>2, <1>3, <1>4, <1>5, <1>6, <1>7, <1>8, <1>9, <1>10, <1>11,
        <1>12 DEF SignInNext, Pre2faLogin, DashboardLogin, PanelLogin

(* Descends keeps the type of root when l is a login or none. *)
LEMMA DescendsType ==
    ASSUME AccountTypeOK, NEW l \in Login \cup {NoLogin}, Descends(l)
    PROVE  root' \in [Jti -> Login \cup {NoLogin}]
BY DEF AccountTypeOK, Descends

LEMMA SignInTypeStep ==
    ASSUME SignInInv, [SignInNext]_signInVars
    PROVE  AccountTypeOK'
<1> USE DEF SignInInv, accountVars
<1>1. ASSUME NEW r \in Req, NEW l \in Login,
             \/ PasswordLogin(r, l) \/ ChallengeLogin(r, l)
             \/ TokenForAccess(r, l)
      PROVE  AccountTypeOK'
    BY <1>1, DescendsType
    DEF PasswordLogin, ChallengeLogin, TokenForAccess, OpenLogin, AccountTypeOK
<1>2. ASSUME NEW r \in Req, OtherLogin(r) PROVE AccountTypeOK'
    BY <1>2, DescendsType DEF OtherLogin, AccountTypeOK
<1>3. ASSUME NEW r \in Req, LogoutAllDevices(r) \/ RefreshSession(r)
      PROVE  AccountTypeOK'
    BY <1>3 DEF LogoutAllDevices, RefreshSession, AccountTypeOK
<1>4. ASSUME NEW r \in Req, RotateWithin(r) PROVE AccountTypeOK'
    <2>1. tok[r] \in Jti
        BY <1>4 DEF RotateWithin, RefreshTokenExists, IInv, TypeOK, KeysInv,
            PresentedInv, Used
    <2> QED
        BY <1>4, <2>1, DescendsType DEF RotateWithin, AccountTypeOK
<1>5. ASSUME TokensOnly PROVE AccountTypeOK'
    BY <1>5, DescendsType DEF TokensOnly, AccountTypeOK
<1>6. ASSUME NEW r \in Req, ReplyTokens(r) PROVE AccountTypeOK'
    BY <1>6, DescendsType DEF ReplyTokens, AccountTypeOK, Kinds
<1>7. ASSUME NEW l \in Login,
             \/ Pre2faLogin(l) \/ DashboardLogin(l) \/ PanelLogin(l)
             \/ \E kind \in Kinds : Forget(l, kind)
      PROVE  AccountTypeOK'
    BY <1>7 DEF Pre2faLogin, DashboardLogin, PanelLogin, StatelessLogin,
        OpenLogin, Forget, AccountTypeOK, Kinds
<1>8. CASE SetActive
    BY <1>8 DEF SetActive, AccountTypeOK
<1>9. CASE UNCHANGED signInVars
    BY <1>9 DEF signInVars, AccountTypeOK
<1> QED
    BY <1>1, <1>2, <1>3, <1>4, <1>5, <1>6, <1>7, <1>8, <1>9
    DEF SignInNext, Command, Expiry

LEMMA AlwaysSignInInv == SignInSpec => []SignInInv
<1>1. SignInInit => SignInInv
    BY InitIInv, NoLoginAssumption
    DEF SignInInit, SignInInv, AccountTypeOK, AliveLogins, Alive, Init, Carried
<1>2. ASSUME SignInInv, [SignInNext]_signInVars PROVE SignInInv'
    <2>1. IInv'
        BY <1>2, TokenStepIsNext, Inductive DEF SignInInv
    <2>2. AliveLogins' \subseteq opened'
        BY <1>2, StepKinds DEF SignInInv, Quiet, Opens
    <2> QED
        BY <1>2, <2>1, <2>2, SignInTypeStep DEF SignInInv
<1> QED
    BY <1>1, <1>2, PTL DEF SignInSpec

(* With everything else a client may hold, and for active and inactive     *)
(* users alike, the refresh tokens behave as RefreshTokens says: its       *)
(* theorems hold here too.                                                 *)
THEOREM TokensAsBefore == SignInSpec => Spec
<1>1. SignInInit => Init
    BY DEF SignInInit
<1> QED
    BY <1>1, TokenStepIsNext, PTL DEF SignInSpec, Spec

(* Every variable keeps its type. *)
THEOREM SignInTypeCorrect == SignInSpec => []SignInTypeOK
<1>1. SignInInv => SignInTypeOK
    BY DEF SignInInv, SignInTypeOK, IInv
<1> QED
    BY <1>1, AlwaysSignInInv, PTL

(* While the user is inactive no login comes to life, whatever tokens are  *)
(* presented and whatever handlers loaded the user before.                 *)
THEOREM NothingOpened == SignInSpec => InactiveOpensNothing
<1>1. SignInInv /\ [SignInNext]_signInVars
          => [~active => AliveLogins' \subseteq AliveLogins]_signInVars
    BY StepKinds DEF Quiet, Opens
<1> QED
    BY <1>1, AlwaysSignInInv, PTL DEF SignInSpec, InactiveOpensNothing

(* SignIn implements the ledger of logins: one opens, or some end. *)
THEOREM LoginsRefinement == SignInSpec => LoginsSpec
<1>1. SignInInit => Logins!LedgerInit
    BY NoLoginAssumption
    DEF SignInInit, Init, Logins!LedgerInit, Standing, Alive, Carried
<1>2. ASSUME SignInInv, [SignInNext]_signInVars
      PROVE  [Logins!LedgerNext]_Standing
    <2>1. AliveLogins \subseteq opened
        BY <1>2 DEF SignInInv
    <2>2. ASSUME NEW l \in Login, Opens(l) PROVE Logins!Open(l)
        <3>1. \A x \in Login : Alive(x)' <=> Alive(x) \/ x = l
            BY <2>2 DEF Opens, AliveLogins
        <3>2. \A x \in Login : Alive(x) => x \in opened
            BY <2>1 DEF AliveLogins
        <3>3. ~Alive(l) /\ l \notin opened /\ opened' = opened \cup {l}
            BY <2>2, <3>2 DEF Opens
        <3>4. Standing[l] = "fresh"
            BY <3>3 DEF Standing
        <3>5. \A x \in Login :
                 Standing'[x] = IF x = l THEN "live" ELSE Standing[x]
            BY <3>1, <3>3 DEF Standing
        <3>6. Standing' = [Standing EXCEPT ![l] = "live"]
            BY <3>5 DEF Standing
        <3> QED
            BY <3>4, <3>6 DEF Logins!Open
    <2>3. ASSUME Quiet PROVE Logins!End(AliveLogins \ AliveLogins')
        BY <2>1, <2>3 DEF Quiet, Logins!End, Standing, AliveLogins
    <2>4. AliveLogins \ AliveLogins' \in SUBSET Login
        BY DEF AliveLogins
    <2> QED
        BY <1>2, <2>2, <2>3, <2>4, StepKinds DEF Logins!LedgerNext
<1> QED
    BY <1>1, <1>2, AlwaysSignInInv, PTL
    DEF SignInSpec, LoginsSpec, Logins!LedgerSpec
=============================================================================
