------------------------------- MODULE Lockout -------------------------------
(***************************************************************************)
(* The login lockout of UserManager.authenticate (app/core/auth.py) for    *)
(* one email address: a counter lockout:{email} in Redis that concurrent   *)
(* login requests read, increment, give a time to live and delete with one *)
(* Redis command each.  Any command may fail, in which case the request is *)
(* decided without the lockout, and the process may stop at any await.     *)
(***************************************************************************)
EXTENDS Naturals, FiniteSets

CONSTANTS
    Req,            \* login requests in flight at once
    MaxAttempts,    \* _LOCKOUT_MAX_ATTEMPTS
    MaxFailures     \* bound: how often a command fails or a request stops

ASSUME LockoutAssumption ==
    /\ IsFiniteSet(Req)
    /\ MaxAttempts \in Nat \ {0}
    /\ MaxFailures \in Nat

VARIABLES
    attempts,       \* value of lockout:{email}; 0 when there is no such key
    ttl,            \* the key has a time to live
    pc,             \* what request r awaits next
    right,          \* request r carries the right password
    wrong,          \* history: wrong passwords evaluated since the last reset
    failures        \* history: failed commands and stopped requests

vars == <<attempts, ttl, pc, right, wrong, failures>>

Places == {"idle", "get", "verify", "incr", "expire", "delete", "fallback",
           "done", "locked"}

Init ==
    /\ attempts = 0
    /\ ttl = FALSE
    /\ pc = [r \in Req |-> "idle"]
    /\ right = [r \in Req |-> FALSE]
    /\ wrong = 0
    /\ failures = 0
-----------------------------------------------------------------------------
Move(r, from, to) == pc[r] = from /\ pc' = [pc EXCEPT ![r] = to]

(* A request to log in with some password. *)
Authenticate(r) ==
    /\ Move(r, "idle", "get")
    /\ \E b \in BOOLEAN : right' = [right EXCEPT ![r] = b]
    /\ UNCHANGED <<attempts, ttl, wrong, failures>>

(* Mutant: the sixth attempt is the first to be refused. *)
GetOffByOne(r) ==
    /\ Move(r, "get", IF attempts > MaxAttempts THEN "locked" ELSE "verify")
    /\ UNCHANGED <<attempts, ttl, right, wrong, failures>>

(* GET lockout:{email}; ACCOUNT_LOCKED once it has reached the limit. *)
Get(r) ==
    /\ Move(r, "get", IF attempts >= MaxAttempts THEN "locked" ELSE "verify")
    /\ UNCHANGED <<attempts, ttl, right, wrong, failures>>

(* super().authenticate: the user is read and the password compared. *)
Verify(r) ==
    /\ Move(r, "verify", IF right[r] THEN "delete" ELSE "incr")
    /\ wrong' = IF right[r] THEN wrong ELSE wrong + 1
    /\ UNCHANGED <<attempts, ttl, right, failures>>

(* Mutant: the counter is only given a time to live when it is created. *)
IncrExpireOnce(r) ==
    /\ Move(r, "incr", IF attempts = 0 THEN "expire" ELSE "done")
    /\ attempts' = attempts + 1
    /\ UNCHANGED <<ttl, right, wrong, failures>>

(* INCR: a key it creates has no time to live, an existing one keeps its. *)
Incr(r) ==
    /\ Move(r, "incr", "expire")
    /\ attempts' = attempts + 1
    /\ UNCHANGED <<ttl, right, wrong, failures>>

(* EXPIRE: nothing to do if the key has gone meanwhile. *)
Expire(r) ==
    /\ Move(r, "expire", "done")
    /\ ttl' = (attempts > 0)
    /\ UNCHANGED <<attempts, right, wrong, failures>>

NoKey ==
    /\ attempts' = 0
    /\ ttl' = FALSE
    /\ wrong' = 0

(* Mutant: a success takes one attempt back. *)
DeleteDecrements(r) ==
    /\ Move(r, "delete", "done")
    /\ attempts' = attempts - 1
    /\ UNCHANGED <<ttl, right, wrong, failures>>

(* A login that succeeds deletes the counter. *)
Delete(r) ==
    /\ Move(r, "delete", "done")
    /\ NoKey
    /\ UNCHANGED <<right, failures>>

(* A Redis command fails, or the user cannot be read: the except branch    *)
(* decides on the password alone, which is evaluated then.                 *)
TryFails(r) ==
    /\ failures < MaxFailures
    /\ pc[r] \in {"get", "verify", "incr", "expire", "delete"}
    /\ failures' = failures + 1
    /\ wrong' = IF pc[r] \in {"get", "verify"} /\ ~right[r]
                THEN wrong + 1 ELSE wrong
    /\ pc' = [pc EXCEPT ![r] = "fallback"]
    /\ UNCHANGED <<attempts, ttl, right>>

Fallback(r) ==
    /\ Move(r, "fallback", "done")
    /\ UNCHANGED <<attempts, ttl, right, wrong, failures>>

(* The process stops, or the request's task is cancelled. *)
Stop(r) ==
    /\ failures < MaxFailures
    /\ pc[r] # "idle"
    /\ failures' = failures + 1
    /\ pc' = [pc EXCEPT ![r] = "idle"]
    /\ right' = [right EXCEPT ![r] = FALSE]
    /\ UNCHANGED <<attempts, ttl, wrong>>

(* The request is answered: the user, nobody, or ACCOUNT_LOCKED. *)
Respond(r) ==
    /\ pc[r] \in {"done", "locked"}
    /\ pc' = [pc EXCEPT ![r] = "idle"]
    /\ right' = [right EXCEPT ![r] = FALSE]
    /\ UNCHANGED <<attempts, ttl, wrong, failures>>

(* _LOCKOUT_TTL_SECONDS pass. *)
Lapse ==
    /\ ttl
    /\ NoKey
    /\ UNCHANGED <<pc, right, failures>>

Progress(r) ==
    Get(r) \/ Verify(r) \/ Incr(r) \/ Expire(r) \/ Delete(r) \/ Fallback(r)
        \/ Respond(r)

Next ==
    \/ \E r \in Req :
          Authenticate(r) \/ Progress(r) \/ TryFails(r) \/ Stop(r)
    \/ Lapse

Spec == Init /\ [][Next]_vars

(* Requests run on, and time passes. *)
FairSpec ==
    /\ Spec
    /\ \A r \in Req : WF_vars(Progress(r))
    /\ WF_vars(Lapse)
-----------------------------------------------------------------------------
TypeOK ==
    /\ attempts \in Nat
    /\ ttl \in BOOLEAN
    /\ pc \in [Req -> Places]
    /\ right \in [Req -> BOOLEAN]
    /\ wrong \in Nat
    /\ failures \in 0..MaxFailures

(* Requests that found the counter below the limit and have not counted    *)
(* themselves yet.                                                         *)
Passed == {r \in Req : pc[r] \in {"verify", "incr"}}

(* Requests that have a wrong password to count. *)
Counting == {r \in Req : pc[r] = "incr"}

(* Requests that have a time to live to set. *)
Owing == {r \in Req : pc[r] = "expire"}

(* The check and the increment are two commands (auth.py:43-48), so        *)
(* requests in flight overshoot the limit; but between two resets no more  *)
(* wrong passwords are evaluated than the limit, the requests in flight    *)
(* and the failures account for.                                           *)
WrongBounded ==
    wrong <= MaxAttempts - 1 + Cardinality(Req) + failures

(* A counter without a time to live would never go away.  Every increment  *)
(* of such a counter still has its EXPIRE to send, or something failed     *)
(* (auth.py:48-49).                                                        *)
TtlOwed == ~ttl => attempts <= failures + Cardinality(Owing)

(* "Too many failed attempts. Try again in 15 minutes."                    *)
(* (exceptions.py:84): an account does not stay locked, even if up to       *)
(* MaxAttempts - 1 commands fail, since each attempt sets the time to live *)
(* anew.                                                                   *)
LockLifts == attempts >= MaxAttempts ~> attempts < MaxAttempts
-----------------------------------------------------------------------------
(* The inductive invariant (LockoutProofs). *)
CounterInv ==
    attempts + Cardinality(Passed) <= MaxAttempts - 1 + Cardinality(Req)

WrongInv == wrong <= attempts + Cardinality(Counting) + failures

Bounds == CounterInv /\ WrongInv /\ TtlOwed

IInv == TypeOK /\ Bounds
=============================================================================
