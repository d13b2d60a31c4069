---------------------------- MODULE LockoutProofs ----------------------------
(***************************************************************************)
(* The bounds of Lockout for every number of requests, every limit and     *)
(* every number of failures.                                               *)
(***************************************************************************)
EXTENDS Lockout, FiniteSetTheorems, TLAPS

(* A request enters a set of requests, or leaves it. *)
LEMMA Enter ==
    ASSUME NEW S, IsFiniteSet(S), NEW r, r \notin S
    PROVE  Cardinality(S \cup {r}) = Cardinality(S) + 1
BY FS_AddElement

LEMMA Leave ==
    ASSUME NEW S, IsFiniteSet(S), NEW r
    PROVE  /\ Cardinality(S \ {r}) \in {Cardinality(S), Cardinality(S) - 1}
           /\ r \in S => Cardinality(S \ {r}) = Cardinality(S) - 1
           /\ Cardinality(S \ {r}) \in Nat
<1>1. Cardinality(S) \in Nat /\ IsFiniteSet(S \ {r})
    BY FS_CardinalityType, FS_RemoveElement
<1> QED
    BY <1>1, FS_RemoveElement, FS_CardinalityType

(* The sets of requests the invariant counts are finite. *)
LEMMA Counts ==
    /\ IsFiniteSet(Passed) /\ Cardinality(Passed) \in 0..Cardinality(Req)
    /\ IsFiniteSet(Counting) /\ Cardinality(Counting) \in 0..Cardinality(Req)
    /\ IsFiniteSet(Owing) /\ Cardinality(Owing) \in 0..Cardinality(Req)
    /\ Cardinality(Req) \in Nat
<1>1. Passed \subseteq Req /\ Counting \subseteq Req /\ Owing \subseteq Req
    BY DEF Passed, Counting, Owing
<1> QED
    BY <1>1, LockoutAssumption, FS_Subset, FS_CardinalityType

LEMMA CountsNext ==
    /\ Cardinality(Passed') \in 0..Cardinality(Req)
    /\ Cardinality(Counting') \in 0..Cardinality(Req)
    /\ Cardinality(Owing') \in 0..Cardinality(Req)
<1>1. Passed' \subseteq Req /\ Counting' \subseteq Req /\ Owing' \subseteq Req
    BY DEF Passed, Counting, Owing
<1> QED
    BY <1>1, LockoutAssumption, FS_Subset, FS_CardinalityType

LEMMA InitIInv == Init => IInv
<1> SUFFICES ASSUME Init PROVE IInv
    OBVIOUS
<1>1. TypeOK
    <2>1. attempts \in Nat /\ wrong \in Nat /\ failures \in 0..MaxFailures
        BY LockoutAssumption DEF Init
    <2>2. ttl \in BOOLEAN /\ right \in [Req -> BOOLEAN]
        BY Zenon DEF Init
    <2>3. pc \in [Req -> Places]
        BY DEF Init, Places
    <2> QED
        BY <2>1, <2>2, <2>3 DEF TypeOK
<1>2. Passed = {} /\ Counting = {} /\ Owing = {}
    BY DEF Init, Passed, Counting, Owing
<1> QED
    BY <1>1, <1>2, Counts, FS_EmptySet, LockoutAssumption
       DEF Init, IInv, Bounds, CounterInv, WrongInv, TtlOwed

(* The numbers, the Booleans and the places, apart. *)
LEMMA TypeStep == TypeOK /\ [Next]_vars => TypeOK'
<1> SUFFICES ASSUME TypeOK, [Next]_vars PROVE TypeOK'
    OBVIOUS
<1> USE DEF TypeOK, Move, NoKey
<1>1. /\ attempts' \in Nat
      /\ wrong' \in Nat
      /\ failures' \in 0..MaxFailures
      /\ pc' \in [Req -> Places]
    BY LockoutAssumption
       DEF Next, Progress, vars, Places, Authenticate, Get, Verify, Incr,
           Expire, Delete, TryFails, Fallback, Stop, Respond, Lapse
<1>2. right' \in [Req -> BOOLEAN]
    <2>1. ASSUME NEW r \in Req, NEW b \in BOOLEAN
          PROVE  [right EXCEPT ![r] = b] \in [Req -> BOOLEAN]
        BY Zenon
    <2>2. \/ right' = right
          \/ \E r \in Req, b \in BOOLEAN : right' = [right EXCEPT ![r] = b]
        BY DEF Next, Progress, vars, Authenticate, Get, Verify, Incr, Expire,
               Delete, TryFails, Fallback, Stop, Respond, Lapse
    <2> QED
        BY <2>1, <2>2
<1>3. ttl' \in BOOLEAN
    <2>1. ttl' = ttl \/ ttl' = FALSE \/ ttl' = (attempts > 0)
        BY DEF Next, Progress, vars, Authenticate, Get, Verify, Incr, Expire,
               Delete, TryFails, Fallback, Stop, Respond, Lapse
    <2>2. (attempts > 0) \in BOOLEAN
        BY TypeOK
    <2>3. ttl \in BOOLEAN
        BY Zenon
    <2> QED
        BY <2>1, <2>2, <2>3, Zenon
<1> QED
    BY <1>1, <1>2, <1>3

(* IInv is an inductive invariant: one step per action, each of which says *)
(* how the request moves between the sets that are counted.                *)
LEMMA Inductive == IInv /\ [Next]_vars => IInv'
<1> SUFFICES ASSUME IInv, [Next]_vars PROVE  Bounds'
    BY TypeStep DEF IInv
<1> USE LockoutAssumption, Counts, CountsNext
    DEF IInv, Bounds, TypeOK, CounterInv, WrongInv, TtlOwed
<1>0. ASSUME Passed' = Passed, Counting' = Counting, Owing' = Owing,
             UNCHANGED <<attempts, ttl, wrong, failures>>
      PROVE  Bounds'
    BY <1>0
<1>1. ASSUME NEW r \in Req, Authenticate(r) \/ Fallback(r) \/ Respond(r)
      PROVE  Bounds'
    <2>1. Passed' = Passed /\ Counting' = Counting /\ Owing' = Owing
        BY <1>1 DEF Authenticate, Fallback, Respond, Move, Passed, Counting,
                    Owing
    <2> QED
        BY <1>0, <1>1, <2>1 DEF Authenticate, Fallback, Respond
<1>2. ASSUME NEW r \in Req, Get(r)
      PROVE  Bounds'
    <2>1. Counting' = Counting /\ Owing' = Owing
        BY <1>2 DEF Get, Move, Counting, Owing
    <2>2. CASE attempts >= MaxAttempts
        <3>1. Passed' = Passed
            BY <1>2, <2>2 DEF Get, Move, Passed
        <3> QED
            BY <1>0, <1>2, <2>1, <3>1 DEF Get
    <2>3. CASE attempts < MaxAttempts
        BY <1>2, <2>1, <2>3 DEF Get
    <2> QED
        BY <2>2, <2>3
<1>3. ASSUME NEW r \in Req, Verify(r)
      PROVE  Bounds'
    <2>1. Owing' = Owing
        BY <1>3 DEF Verify, Move, Owing
    <2>2. CASE right[r]
        <3>1. Passed' = Passed \ {r} /\ Counting' = Counting
            BY <1>3, <2>2 DEF Verify, Move, Passed, Counting
        <3> QED
            BY <1>3, <2>1, <2>2, <3>1, Leave DEF Verify
    <2>3. CASE ~right[r]
        <3>1. /\ Passed' = Passed
              /\ Counting' = Counting \cup {r} /\ r \notin Counting
            BY <1>3, <2>3 DEF Verify, Move, Passed, Counting
        <3>2. Cardinality(Counting') = Cardinality(Counting) + 1
            BY <3>1, Enter
        <3> QED
            BY <1>3, <2>1, <2>3, <3>1, <3>2 DEF Verify
    <2> QED
        BY <2>2, <2>3
<1>4. ASSUME NEW r \in Req, Incr(r)
      PROVE  Bounds'
    <2>1. /\ Passed' = Passed \ {r} /\ r \in Passed
          /\ Counting' = Counting \ {r} /\ r \in Counting
          /\ Owing' = Owing \cup {r} /\ r \notin Owing
        BY <1>4 DEF Incr, Move, Passed, Counting, Owing
    <2>2. /\ Cardinality(Passed') = Cardinality(Passed) - 1
          /\ Cardinality(Counting') = Cardinality(Counting) - 1
          /\ Cardinality(Owing') = Cardinality(Owing) + 1
        BY <2>1, Enter, Leave
    <2> QED
        BY <1>4, <2>2 DEF Incr
<1>5. ASSUME NEW r \in Req, Expire(r)
      PROVE  Bounds'
    <2>1. Passed' = Passed /\ Counting' = Counting
        BY <1>5 DEF Expire, Move, Passed, Counting
    <2>2. CounterInv' /\ WrongInv'
        BY <1>5, <2>1 DEF Expire
    <2>3. CASE attempts > 0
        <3>1. ttl'
            BY <1>5, <2>3 DEF Expire
        <3> QED
            BY <2>2, <3>1
    <2>4. CASE attempts = 0
        BY <1>5, <2>2, <2>4 DEF Expire
    <2> QED
        BY <2>3, <2>4
<1>6. ASSUME NEW r \in Req, Delete(r)
      PROVE  Bounds'
    BY <1>6 DEF Delete, NoKey
<1>7. ASSUME NEW r \in Req, TryFails(r) \/ Stop(r)
      PROVE  Bounds'
    <2>1. /\ Passed' = Passed \ {r}
          /\ Counting' = Counting \ {r}
          /\ Owing' = Owing \ {r}
        BY <1>7 DEF TryFails, Stop, Passed, Counting, Owing
    <2>2. pc[r] \in {"get", "verify"} => Counting' = Counting
        BY <2>1 DEF Counting
    <2>3. /\ Cardinality(Passed') <= Cardinality(Passed)
          /\ Cardinality(Counting') >= Cardinality(Counting) - 1
          /\ Cardinality(Owing') >= Cardinality(Owing) - 1
        <3>1. /\ Cardinality(Passed')
                    \in {Cardinality(Passed), Cardinality(Passed) - 1}
              /\ Cardinality(Counting')
                    \in {Cardinality(Counting), Cardinality(Counting) - 1}
              /\ Cardinality(Owing')
                    \in {Cardinality(Owing), Cardinality(Owing) - 1}
            BY <2>1, Leave
        <3> QED
            BY <3>1
    <2> QED
        BY <1>7, <2>2, <2>3 DEF TryFails, Stop
<1>8. CASE Lapse
    BY <1>8 DEF Lapse, NoKey
<1>9. CASE UNCHANGED vars
    <2>1. Passed' = Passed /\ Counting' = Counting /\ Owing' = Owing
        BY <1>9 DEF vars, Passed, Counting, Owing
    <2> QED
        BY <1>0, <1>9, <2>1 DEF vars
<1> QED
    BY <1>1, <1>2, <1>3, <1>4, <1>5, <1>6, <1>7, <1>8, <1>9 DEF Next, Progress

LEMMA AlwaysIInv == Spec => []IInv
BY InitIInv, Inductive, PTL DEF Spec

(* Every variable keeps its type. *)
THEOREM TypeCorrect == Spec => []TypeOK
<1>1. IInv => TypeOK
    BY DEF IInv
<1> QED
    BY <1>1, AlwaysIInv, PTL

(* Whatever the limit and the number of requests in flight, check-then-    *)
(* increment overshoots the limit by at most the requests in flight.       *)
THEOREM BoundedAttempts == Spec => []WrongBounded
<1>1. IInv => WrongBounded
    <2>1. Counting \subseteq Passed
        BY DEF Counting, Passed
    <2>2. Cardinality(Counting) <= Cardinality(Passed)
        BY <2>1, Counts, FS_Subset
    <2> QED
        BY <2>2, Counts, LockoutAssumption
           DEF IInv, Bounds, TypeOK, CounterInv, WrongInv, WrongBounded
<1> QED
    BY <1>1, AlwaysIInv, PTL

(* A counter without a time to live is never higher than the EXPIREs still *)
(* to come and the failures there have been.                               *)
THEOREM TimeToLive == Spec => []TtlOwed
<1>1. IInv => TtlOwed
    BY DEF IInv, Bounds
<1> QED
    BY <1>1, AlwaysIInv, PTL

(* A locked account has a time to live, or a request is about to give it   *)
(* one (auth.py:48-49).                                                    *)
LockEnds == attempts >= MaxAttempts => ttl \/ Owing # {}

(* The safety half of LockLifts, while fewer commands fail than it takes   *)
(* wrong passwords to lock an account.                                     *)
THEOREM LocksAreTimed ==
    ASSUME MaxFailures < MaxAttempts
    PROVE  Spec => []LockEnds
<1>1. IInv => LockEnds
    <2> SUFFICES ASSUME IInv, attempts >= MaxAttempts, ~ttl PROVE Owing # {}
        BY DEF LockEnds
    <2>1. attempts <= failures + Cardinality(Owing)
        BY DEF IInv, Bounds, TtlOwed
    <2>2. Cardinality(Owing) > 0
        BY <2>1, Counts, LockoutAssumption DEF IInv, TypeOK
    <2> QED
        BY <2>2, FS_EmptySet
<1> QED
    BY <1>1, AlwaysIInv, PTL

(* An account is locked for wrong passwords only: since the last reset     *)
(* there have been as many as the limit, less those that were being        *)
(* counted when it came (auth.py:43-51).                                   *)
LockEarned == attempts >= MaxAttempts =>
                wrong >= MaxAttempts - Cardinality(Req)

(* Every count comes after a wrong password, if not after the reset. *)
EarnedInv == attempts + Cardinality(Counting) <= wrong + Cardinality(Req)

LEMMA EarnedStep == IInv /\ EarnedInv /\ [Next]_vars => EarnedInv'
<1> SUFFICES ASSUME IInv, EarnedInv, [Next]_vars PROVE EarnedInv'
    OBVIOUS
<1> USE LockoutAssumption, Counts, CountsNext DEF IInv, TypeOK, EarnedInv
<1>0. ASSUME Counting' = Counting, UNCHANGED <<attempts, wrong>>
      PROVE  EarnedInv'
    BY <1>0
<1>1. ASSUME NEW r \in Req,
             \/ Authenticate(r) \/ Get(r) \/ Expire(r) \/ Fallback(r)
             \/ Respond(r)
      PROVE  EarnedInv'
    <2>1. Counting' = Counting
        BY <1>1 DEF Authenticate, Get, Expire, Fallback, Respond, Move,
                    Counting
    <2> QED
        BY <1>0, <1>1, <2>1
        DEF Authenticate, Get, Expire, Fallback, Respond
<1>2. ASSUME NEW r \in Req, Verify(r) PROVE EarnedInv'
    <2>1. CASE right[r]
        <3>1. Counting' = Counting
            BY <1>2, <2>1 DEF Verify, Move, Counting
        <3> QED
            BY <1>0, <1>2, <2>1, <3>1 DEF Verify
    <2>2. CASE ~right[r]
        <3>1. Counting' = Counting \cup {r} /\ r \notin Counting
            BY <1>2, <2>2 DEF Verify, Move, Counting
        <3>2. Cardinality(Counting') = Cardinality(Counting) + 1
            BY <3>1, Enter
        <3> QED
            BY <1>2, <2>2, <3>2 DEF Verify
    <2> QED
        BY <2>1, <2>2
<1>3. ASSUME NEW r \in Req, Incr(r) PROVE EarnedInv'
    <2>1. Counting' = Counting \ {r} /\ r \in Counting
        BY <1>3 DEF Incr, Move, Counting
    <2>2. Cardinality(Counting') = Cardinality(Counting) - 1
        BY <2>1, Leave
    <2> QED
        BY <1>3, <2>2 DEF Incr
<1>4. ASSUME NEW r \in Req, TryFails(r) \/ Stop(r) PROVE EarnedInv'
    <2>1. Counting' = Counting \ {r}
        BY <1>4 DEF TryFails, Stop, Counting
    <2>2. Cardinality(Counting') <= Cardinality(Counting)
        BY <2>1, Leave
    <2> QED
        BY <1>4, <2>2 DEF TryFails, Stop
<1>5. ASSUME NoKey PROVE EarnedInv'
    BY <1>5 DEF NoKey
<1>6. CASE UNCHANGED vars
    BY <1>0, <1>6 DEF vars, Counting
<1> QED
    BY <1>1, <1>2, <1>3, <1>4, <1>5, <1>6 DEF Next, Progress, Delete, Lapse

(* However logins overlap and Redis fails, nobody is locked for less.      *)
THEOREM LocksAreEarned == Spec => []LockEarned
<1>1. Init => EarnedInv
    <2> SUFFICES ASSUME Init PROVE EarnedInv
        OBVIOUS
    <2>1. Counting = {}
        BY DEF Init, Counting
    <2> QED
        BY <2>1, Counts, FS_EmptySet DEF Init, EarnedInv
<1>2. IInv /\ EarnedInv => LockEarned
    BY Counts, LockoutAssumption DEF IInv, TypeOK, EarnedInv, LockEarned
<1> QED
    BY <1>1, <1>2, EarnedStep, AlwaysIInv, PTL DEF Spec
=============================================================================
