------------------------------- MODULE SignIn -------------------------------
(***************************************************************************)
(* Who may act for one user: the refresh tokens of RefreshTokens together  *)
(* with everything else a client may hold, and the user's is_active.       *)
(*                                                                         *)
(* A password that was accepted opens a login.  What the client is given   *)
(* for it descends from that login: a pre_2fa token and what its challenge *)
(* is answered with, access tokens, refresh tokens and their successors,   *)
(* the cookie of the dashboard (an access token) and of the admin panel    *)
(* (a signed user id).  Only refresh tokens are stored; of the others the  *)
(* server knows nothing until they are presented.                          *)
(*                                                                         *)
(* Some logins are followed by name; NoLogin stands for all the others,    *)
(* whose requests come whenever the user is active.  Whether a challenge   *)
(* is answered rightly is TwoFactor's business, and how passwords are      *)
(* tried is Lockout's.                                                     *)
(***************************************************************************)
EXTENDS RefreshTokens

CONSTANTS
    Login,      \* the logins that are followed
    NoLogin     \* any other login

ASSUME NoLoginAssumption == NoLogin \notin Login

VARIABLES
    active,     \* users.is_active
    held,       \* what clients hold of each login that has not expired
    opened,     \* history: those that were opened
    root        \* history: the login each refresh token descends from that
                \* somebody may still act on

accountVars == <<active, held, opened, root>>
signInVars == <<vars, accountVars>>

Kinds == {"pre_2fa", "access", "panel"}

SignInInit ==
    /\ Init
    /\ active = TRUE
    /\ held = [l \in Login |-> {}]
    /\ opened = {}
    /\ root = [j \in Jti |-> NoLogin]
-----------------------------------------------------------------------------
(* The refresh tokens handlers are about to store or to return. *)
Carried ==
    {new[r] : r \in {q \in Req : pc[q] \in {"setex", "rotate", "reply"}}}

(* The refresh token created in this step descends from l. *)
Descends(l) ==
    root' = [j \in Jti |->
               IF j \in minted' \ minted THEN l
               ELSE IF j \in (store \cup Carried)' THEN root[j] ELSE NoLogin]

(* The step is about tokens only, and creates none. *)
TokensOnly == Descends(NoLogin) /\ UNCHANGED <<active, held, opened>>

(* Mutant: the password alone opens a login. *)
OpenInactive(l) ==
    /\ l \notin opened
    /\ opened' = opened \cup {l}

(* UserManager.authenticate returns a user, who is active. *)
OpenLogin(l) ==
    /\ active
    /\ l \notin opened
    /\ opened' = opened \cup {l}

(* login, 2FA off: a refresh token is created and an access token follows. *)
PasswordLogin(r, l) ==
    /\ OpenLogin(l)
    /\ Issue(r)
    /\ Descends(l)
    /\ UNCHANGED <<active, held>>

(* Another login, or a token for the access token of another login. *)
OtherLogin(r) ==
    /\ active
    /\ Issue(r)
    /\ Descends(NoLogin)
    /\ UNCHANGED <<active, held, opened>>

(* A login that is answered without touching Redis.                        *)
StatelessLogin(l, kind) ==
    /\ OpenLogin(l)
    /\ held' = [held EXCEPT ![l] = {kind}]
    /\ UNCHANGED <<vars, active, root>>

(* login, 2FA on: a pre_2fa token. *)
Pre2faLogin(l) == StatelessLogin(l, "pre_2fa")

(* login_post of the dashboard: an access token in a cookie. *)
DashboardLogin(l) == StatelessLogin(l, "access")

(* AdminAuth.login: the user's id in the session of the admin panel. *)
PanelLogin(l) == StatelessLogin(l, "panel")

(* challenge_two_factor: a pre_2fa token, for as long as it is valid.      *)
ChallengeLogin(r, l) ==
    /\ active
    /\ "pre_2fa" \in held[l]
    /\ Issue(r)
    /\ Descends(l)
    /\ UNCHANGED <<active, held, opened>>

(* login_with_refresh, for current_active_user: a valid access token of a  *)
(* user who is active.                                                     *)
TokenForAccess(r, l) ==
    /\ active
    /\ "access" \in held[l]
    /\ Issue(r)
    /\ Descends(l)
    /\ UNCHANGED <<active, held, opened>>

(* logout_all_devices, called with the access token of any login. *)
LogoutAllDevices(r) ==
    /\ active
    /\ LogoutAll(r)
    /\ UNCHANGED accountVars

(* refresh_tokens does not load the user. *)
RefreshSession(r) ==
    /\ Refresh(r)
    /\ UNCHANGED accountVars

(* Mutant: the new token is for whoever signed in, not for its predecessor. *)
RotateForAnother(r) ==
    /\ RefreshTokenExists(r)
    /\ \E l \in opened : Descends(l)
    /\ UNCHANGED <<active, held, opened>>

(* Mutant: the jti of the old token is written where its subject belongs. *)
RotateForJti(r) ==
    /\ RefreshTokenExists(r)
    /\ Descends(tok[r])
    /\ UNCHANGED <<active, held, opened>>

(* The token created for a rotation descends from what its predecessor     *)
(* descends from.                                                          *)
RotateWithin(r) ==
    /\ RefreshTokenExists(r)
    /\ Descends(root[tok[r]])
    /\ UNCHANGED <<active, held, opened>>

(* The Redis commands of the handlers. *)
Command(r) ==
    /\ \/ StoreRefreshToken(r) \/ RotateRefreshToken(r)
       \/ RevokeKeys(r) \/ RevokeDelete(r)
       \/ Fail(r)
    /\ TokensOnly

(* A new refresh token is answered together with an access token. *)
ReplyTokens(r) ==
    /\ Reply(r)
    /\ held' = [l \in Login |->
                  IF pc[r] = "reply" /\ root[new[r]] = l
                  THEN held[l] \cup {"access"} ELSE held[l]]
    /\ Descends(NoLogin)
    /\ UNCHANGED <<active, opened>>

(* What a client holds expires, or it logs out: logout and the logouts of  *)
(* dashboard and panel only make the client forget.                        *)
Forget(l, kind) ==
    /\ kind \in held[l]
    /\ held' = [held EXCEPT ![l] = @ \ {kind}]
    /\ UNCHANGED <<vars, active, opened, root>>

(* A superuser changes is_active in the admin panel. *)
SetActive ==
    /\ active' = ~active
    /\ UNCHANGED <<vars, held, opened, root>>

Expiry(j) == (ExpireJwt(j) \/ ExpireKey(j)) /\ TokensOnly

SignInNext ==
    \/ \E r \in Req :
          \/ \E l \in Login : \/ PasswordLogin(r, l) \/ ChallengeLogin(r, l)
                              \/ TokenForAccess(r, l)
          \/ OtherLogin(r) \/ LogoutAllDevices(r)
          \/ RefreshSession(r) \/ RotateWithin(r)
          \/ Command(r) \/ ReplyTokens(r)
    \/ \E l \in Login :
          \/ Pre2faLogin(l) \/ DashboardLogin(l) \/ PanelLogin(l)
          \/ \E kind \in Kinds : Forget(l, kind)
    \/ SetActive
    \/ \E j \in Jti : Expiry(j)

SignInSpec == SignInInit /\ [][SignInNext]_signInVars
-----------------------------------------------------------------------------
AccountTypeOK ==
    /\ active \in BOOLEAN
    /\ held \in [Login -> SUBSET Kinds]
    /\ opened \subseteq Login
    /\ root \in [Jti -> Login \cup {NoLogin}]

SignInTypeOK == TypeOK /\ AccountTypeOK

(* A login is alive as long as anybody can act on it, or a request is      *)
(* about to give somebody the means to.                                    *)
Alive(l) ==
    \/ held[l] # {}
    \/ \E j \in store \cup Carried : root[j] = l

AliveLogins == {l \in Login : Alive(l)}

(* The ledger of logins: a login is opened by a password, and once nothing *)
(* of it is alive it stays dead, whatever old tokens are presented and     *)
(* whatever rotations and revocations overlap (auth.py:87-204,             *)
(* dependencies.py:39-80, admin/auth.py:32-72).                            *)
Standing == [l \in Login |->
               IF Alive(l) THEN "live"
               ELSE IF l \in opened THEN "dead" ELSE "fresh"]

Logins == INSTANCE SessionLedger WITH Jti <- Login, phase <- Standing

LoginsSpec == Logins!LedgerSpec

(* An inactive user keeps refreshing, but only the logins that were alive  *)
(* when the account was deactivated: no handler that loaded the user       *)
(* before, no token and no cookie opens one (auth.py:97, 171, 318).        *)
InactiveOpensNothing ==
    [][~active => AliveLogins' \subseteq AliveLogins]_signInVars

(* The inductive invariant behind both (SignInProofs). *)
SignInInv == IInv /\ AccountTypeOK /\ AliveLogins \subseteq opened
=============================================================================
