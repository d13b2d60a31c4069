---------------------------- MODULE RefreshTokens ----------------------------
(***************************************************************************)
(* Refresh token rotation for one user (app/api/v1/auth.py over            *)
(* app/core/security/tokens.py).  Every token is a key rt:{user_id}:{jti}  *)
(* in Redis.  Request handlers are coroutines: another handler can run at  *)
(* each of their awaits, so a handler is one action per Redis command.     *)
(*                                                                         *)
(* Time is abstracted to the order of two events per token: its JWT        *)
(* expires, and afterwards its key lapses (both last                       *)
(* REFRESH_TOKEN_EXPIRE_DAYS, and the JWT is created before the key).      *)
(***************************************************************************)
CONSTANTS
    Jti,        \* the token identifiers uuid4 may draw
    Req,        \* request handlers that may be in flight at once
    NoJti       \* "no token"

ASSUME NoJtiAssumption == NoJti \notin Jti

VARIABLES
    store,      \* jtis whose key is in Redis
    minted,     \* jtis for which a signed JWT exists
    delivered,  \* jtis whose JWT a client has received
    expired,    \* jtis whose JWT is past its exp claim
    pc,         \* what handler r awaits next
    tok,        \* the token handler r was given (old_jti)
    new,        \* the token handler r has created (new_jti)
    keys,       \* the answer to the KEYS command of handler r
    gone,       \* history: jtis whose key has left Redis
    before      \* history: the keys in Redis when a handler r that refreshes
                \* or revokes started

redisVars == <<store, gone>>
vars == <<store, minted, delivered, expired, pc, tok, new, keys, gone, before>>

Places == {"idle", "setex", "exists", "rotate", "keys", "delete",
           "reply", "revoked"}

Init ==
    /\ store = {}
    /\ minted = {}
    /\ delivered = {}
    /\ expired = {}
    /\ pc = [r \in Req |-> "idle"]
    /\ tok = [r \in Req |-> NoJti]
    /\ new = [r \in Req |-> NoJti]
    /\ keys = [r \in Req |-> {}]
    /\ gone = {}
    /\ before = [r \in Req |-> {}]
-----------------------------------------------------------------------------
Goto(r, place) == pc' = [pc EXCEPT ![r] = place]

(* A handler starts and reaches its first await. *)
Begin(r, place) == pc[r] = "idle" /\ Goto(r, place)

Remember(r) == before' = [before EXCEPT ![r] = store]

(* create_refresh_token: a fresh jti, signed. *)
CreateRefreshToken(r) ==
    \E j \in Jti \ minted :
        /\ minted' = minted \cup {j}
        /\ new' = [new EXCEPT ![r] = j]

(* The keys in S leave Redis. *)
Remove(S) == gone' = gone \cup (S \cap store)

(* Mutant: the endpoint returns the token without storing it. *)
IssueWithoutStore(r) ==
    /\ Begin(r, "reply")
    /\ CreateRefreshToken(r)
    /\ UNCHANGED <<redisVars, delivered, expired, tok, keys, before>>

(* login without 2FA, and login_with_refresh: a token is created, ... *)
Issue(r) ==
    /\ Begin(r, "setex")
    /\ CreateRefreshToken(r)
    /\ UNCHANGED <<redisVars, delivered, expired, tok, keys, before>>

(* Mutant: a SETEX that fails is swallowed, and the token returned. *)
StoreSwallowsFailure(r) ==
    /\ pc[r] = "setex"
    /\ store' \in {store, store \cup {new[r]}}
    /\ Goto(r, "reply")
    /\ UNCHANGED <<minted, delivered, expired, tok, new, keys, gone, before>>

(* ... stored, and then returned (Reply). *)
StoreRefreshToken(r) ==
    /\ pc[r] = "setex"
    /\ store' = store \cup {new[r]}
    /\ Goto(r, "reply")
    /\ UNCHANGED <<minted, delivered, expired, tok, new, keys, gone, before>>

(* refresh_tokens: verify_token accepts a signed token that has not expired. *)
Refresh(r) ==
    /\ Begin(r, "exists")
    /\ Remember(r)
    /\ \E j \in delivered \ expired : tok' = [tok EXCEPT ![r] = j]
    /\ UNCHANGED <<redisVars, minted, delivered, expired, new, keys>>

(* Mutant: the answer of EXISTS is ignored. *)
RefreshTokenExistsIgnored(r) ==
    /\ pc[r] = "exists"
    /\ CreateRefreshToken(r)
    /\ Goto(r, "rotate")
    /\ UNCHANGED <<redisVars, delivered, expired, tok, keys, before>>

(* The EXISTS answer: rotate, or revoke everything the user has. *)
RefreshTokenExists(r) ==
    /\ pc[r] = "exists"
    /\ \/ /\ tok[r] \in store
          /\ CreateRefreshToken(r)
          /\ Goto(r, "rotate")
       \/ /\ tok[r] \notin store
          /\ Goto(r, "keys")
          /\ UNCHANGED <<minted, new>>
    /\ UNCHANGED <<redisVars, delivered, expired, tok, keys, before>>

(* Mutant: the transaction renews the old key instead of deleting it. *)
RotateRenewsOldKey(r) ==
    /\ pc[r] = "rotate"
    /\ store' = store \cup {tok[r], new[r]}
    /\ Goto(r, "reply")
    /\ UNCHANGED <<minted, delivered, expired, tok, new, keys, gone, before>>

(* rotate_refresh_token: DEL old, SETEX new in one MULTI/EXEC.  The        *)
(* transaction does not look at whether the old key is still there.        *)
RotateRefreshToken(r) ==
    /\ pc[r] = "rotate"
    /\ store' = (store \ {tok[r]}) \cup {new[r]}
    /\ Remove({tok[r]})
    /\ Goto(r, "reply")
    /\ before' = [before EXCEPT ![r] = {}]
    /\ UNCHANGED <<minted, delivered, expired, tok, new, keys>>

(* logout_all_devices *)
LogoutAll(r) ==
    /\ Begin(r, "keys")
    /\ Remember(r)
    /\ UNCHANGED <<redisVars, minted, delivered, expired, tok, new, keys>>

(* Mutant: the keys are read from one page of a SCAN. *)
RevokeScansOnePage(r) ==
    /\ pc[r] = "keys"
    /\ \E page \in SUBSET store :
          /\ keys' = [keys EXCEPT ![r] = page]
          /\ Goto(r, IF page = {} THEN "revoked" ELSE "delete")
    /\ UNCHANGED <<redisVars, minted, delivered, expired, tok, new, before>>

(* revoke_all_refresh_tokens, first command: KEYS rt:{user_id}:* *)
RevokeKeys(r) ==
    /\ pc[r] = "keys"
    /\ keys' = [keys EXCEPT ![r] = store]
    /\ Goto(r, IF store = {} THEN "revoked" ELSE "delete")
    /\ UNCHANGED <<redisVars, minted, delivered, expired, tok, new, before>>

(* revoke_all_refresh_tokens, second command: DEL of the keys found. *)
RevokeDelete(r) ==
    /\ pc[r] = "delete"
    /\ store' = store \ keys[r]
    /\ Remove(keys[r])
    /\ Goto(r, "revoked")
    /\ keys' = [keys EXCEPT ![r] = {}]
    /\ UNCHANGED <<minted, delivered, expired, tok, new, before>>

(* What the handler knew is gone. *)
Clear(r) ==
    /\ tok' = [tok EXCEPT ![r] = NoJti]
    /\ new' = [new EXCEPT ![r] = NoJti]
    /\ keys' = [keys EXCEPT ![r] = {}]
    /\ before' = [before EXCEPT ![r] = {}]

(* The response reaches the client: the new token, TOKEN_REUSE_DETECTED or *)
(* 204.                                                                    *)
Reply(r) ==
    /\ pc[r] \in {"reply", "revoked"}
    /\ delivered' = IF pc[r] = "reply" THEN delivered \cup {new[r]}
                                       ELSE delivered
    /\ Goto(r, "idle")
    /\ Clear(r)
    /\ UNCHANGED <<redisVars, minted, expired>>

(* A command of the handler fails, the process stops, or the response is   *)
(* lost: what it has done so far stays done, and no token is returned.     *)
Fail(r) ==
    /\ pc[r] # "idle"
    /\ Goto(r, "idle")
    /\ Clear(r)
    /\ UNCHANGED <<redisVars, minted, delivered, expired>>

(* The exp claim of a JWT passes; nobody will see one that is neither      *)
(* stored nor delivered.                                                   *)
ExpireJwt(j) ==
    /\ j \in (store \cup delivered) \ expired
    /\ expired' = expired \cup {j}
    /\ UNCHANGED <<redisVars, minted, delivered, pc, tok, new, keys, before>>

(* The time to live of a key passes. *)
ExpireKey(j) ==
    /\ j \in store \cap expired
    /\ store' = store \ {j}
    /\ Remove({j})
    /\ UNCHANGED <<minted, delivered, expired, pc, tok, new, keys, before>>

(* What a handler does once it has started. *)
Progress(r) ==
    \/ StoreRefreshToken(r)
    \/ RefreshTokenExists(r)
    \/ RotateRefreshToken(r)
    \/ RevokeKeys(r)
    \/ RevokeDelete(r)
    \/ Reply(r)

Start(r) == Issue(r) \/ Refresh(r) \/ LogoutAll(r)

Next ==
    \/ \E r \in Req : Start(r) \/ Progress(r) \/ Fail(r)
    \/ \E j \in Jti : ExpireJwt(j) \/ ExpireKey(j)

Spec == Init /\ [][Next]_vars
-----------------------------------------------------------------------------
TypeOK ==
    /\ store \subseteq Jti
    /\ minted \subseteq Jti
    /\ delivered \subseteq Jti
    /\ expired \subseteq Jti
    /\ pc \in [Req -> Places]
    /\ tok \in [Req -> Jti \cup {NoJti}]
    /\ new \in [Req -> Jti \cup {NoJti}]
    /\ keys \in [Req -> SUBSET Jti]
    /\ gone \subseteq Jti
    /\ before \in [Req -> SUBSET Jti]

(* A token that was rotated, revoked or has lapsed is never accepted again, *)
(* whatever SETEX a slower handler still has to send (tokens.py:25-44).    *)
GoneStaysGone == [][\A j \in gone : j \in gone' /\ j \notin store']_vars

(* A handler that starts after a token has left Redis never gets as far as *)
(* rotating it (auth.py:177-185): two tokens descend from one only when    *)
(* both handlers had started before either of them rotated.                *)
LatePresentationFails ==
    \A r \in Req : pc[r] = "rotate" => tok[r] \in before[r]

(* When a revocation answers, no token that was usable when its handler    *)
(* started is usable, although KEYS and DEL are two commands and tokens    *)
(* come and go between them (tokens.py:40-44).                             *)
RevocationComplete ==
    \A r \in Req : pc[r] = "revoked" => before[r] \cap store = {}

(* Reuse is only ever detected for a token that has been in Redis and has  *)
(* left it: a token is stored before the client can present it             *)
(* (auth.py:107-113, 184-191).                                             *)
ReuseOnlyAfterRetirement ==
    \A r \in Req : pc[r] = "keys" /\ tok[r] # NoJti => tok[r] \in gone

(* Every token a client holds is usable, or has been retired by a request  *)
(* or by time; no failure between two commands makes a delivered token     *)
(* unknown (auth.py:107-113, 184-191).                                     *)
DeliveredAccounted == delivered \subseteq store \cup gone

(* "Atomically deletes old token and stores new token" (tokens.py:26), "If *)
(* token not in Redis: reuse detected" (auth.py:161): no two handlers get  *)
(* a new token for the same old one.                                       *)
OneSuccessor ==
    \A q, r \in Req :
        q # r /\ pc[q] = "reply" /\ pc[r] = "reply" /\ tok[q] # NoJti
            => tok[q] # tok[r]

(* "Revokes all refresh tokens for this user - logs out every device."     *)
(* (auth.py:203): when the request answers, no device holds a usable token *)
(* that was rotated from one that was usable when the request arrived.     *)
LogoutAllEndsSessions ==
    \A q, r \in Req :
        /\ pc[r] = "revoked"
        /\ tok[r] = NoJti
        /\ pc[q] = "reply"
        /\ tok[q] \in before[r]
        => new[q] \notin store

-----------------------------------------------------------------------------
(* The inductive invariant behind the safety properties, part by part      *)
(* (RefreshTokensProofs).                                                  *)
Used == store \cup gone

KeysInv ==
    /\ Used \subseteq minted
    /\ store \cap gone = {}
    /\ delivered \subseteq Used

(* A token waiting to be stored is nobody else's and was never stored. *)
Pending(r) == pc[r] \in {"setex", "rotate"}

PendingInv ==
    \A r \in Req :
        /\ Pending(r) => new[r] \in minted \ Used
        /\ pc[r] = "reply" => new[r] \in Used
        /\ \A q \in Req : Pending(q) /\ Pending(r) /\ new[q] = new[r] => q = r

(* What a refresh handler knows of the token it was given. *)
PresentedInv ==
    \A r \in Req :
        /\ pc[r] = "idle" => tok[r] = NoJti
        /\ pc[r] \in {"exists", "rotate"} => tok[r] \in Used
        /\ pc[r] = "exists" => tok[r] \in gone \cup before[r]
        /\ pc[r] = "rotate" => tok[r] \in before[r]
        /\ pc[r] = "keys" /\ tok[r] # NoJti => tok[r] \in gone

(* What a revocation still has to delete. *)
RevokeInv ==
    \A r \in Req :
        /\ before[r] \subseteq Used
        /\ pc[r] = "delete" => before[r] \cap store \subseteq keys[r]
        /\ pc[r] = "revoked" => before[r] \subseteq gone

IInv == TypeOK /\ KeysInv /\ PendingInv /\ PresentedInv /\ RevokeInv
-----------------------------------------------------------------------------
(* The ledger: RefreshTokens implements SessionLedger under this mapping.  *)
Phase == [j \in Jti |->
            IF j \in store THEN "live"
            ELSE IF j \in gone THEN "dead" ELSE "fresh"]

Ledger == INSTANCE SessionLedger WITH phase <- Phase

LedgerSpec == Ledger!LedgerSpec
=============================================================================
