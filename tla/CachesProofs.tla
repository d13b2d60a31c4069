---------------------------- MODULE CachesProofs ----------------------------
(***************************************************************************)
(* FlagFreshUnlessRaced of Caches, for every set of requests, keys and     *)
(* values, from the inductive invariant IInv.                              *)
(***************************************************************************)
EXTENDS Caches, TLAPS

(* The initial state satisfies the invariant. *)
LEMMA InitIInv == Init => IInv
BY CachesAssumption
   DEF Init, IInv, TypeOK, KeyInv, Marked, ReadInv,
        FlagFreshUnlessRaced, Places, Key

(* A reader's steps: it changes one entry at most, and marks it. *)
LEMMA ReaderStep ==
    ASSUME IInv, NEW r \in Req,
           \/ \E k \in Key : Request(r, k)
           \/ Get(r) \/ GetFails(r) \/ Select(r)
           \/ Store(r) \/ StoreFails(r) \/ Use(r)
    PROVE  IInv'
<1> USE CachesAssumption
    DEF IInv, TypeOK, KeyInv, Marked, ReadInv,
        FlagFreshUnlessRaced, Places, Goto
<1>1. ASSUME NEW k \in Key, Request(r, k) PROVE IInv'
    BY <1>1 DEF Request, Begin
<1>2. CASE Get(r)
    BY <1>2 DEF Get
<1>3. CASE GetFails(r)
    BY <1>3 DEF GetFails
<1>4. CASE Select(r)
    BY <1>4 DEF Select
<1>5. CASE Store(r)
    BY <1>5 DEF Store
<1>6. CASE StoreFails(r)
    BY <1>6 DEF StoreFails
<1>7. CASE Use(r)
    BY <1>7 DEF Use, End
<1> QED
    BY <1>1, <1>2, <1>3, <1>4, <1>5, <1>6, <1>7

(* A save's steps: from the DEL to the commit the entry is empty or marked. *)
LEMMA SaveStep ==
    ASSUME IInv, NEW r \in Req,
           \/ \E k \in Flag, v \in Value \cup {None} : Save(r, k, v)
           \/ Invalidate(r) \/ InvalidateFails(r)
           \/ Commit(r) \/ Saved(r) \/ Fail(r)
    PROVE  IInv'
<1> USE CachesAssumption
    DEF IInv, TypeOK, KeyInv, Marked, ReadInv,
        FlagFreshUnlessRaced, Places, Goto, Key
<1>1. ASSUME NEW k \in Flag, NEW v \in Value \cup {None}, Save(r, k, v)
      PROVE IInv'
    BY <1>1 DEF Save, Begin
<1>2. CASE Invalidate(r)
    BY <1>2 DEF Invalidate, Clear
<1>3. CASE InvalidateFails(r)
    BY <1>3 DEF InvalidateFails
<1>4. CASE Commit(r)
    <2>1. key[r] \in Key /\ got[r] \in Value \cup {None}
        BY <1>4 DEF Commit
    <2>2. \A q \in Req \ {r} : pc'[q] = pc[q] /\ key'[q] = key[q] /\ got'[q] = got[q]
        BY <1>4 DEF Commit, End
    <2>3. pc'[r] \in {"saved", "idle"} /\ TypeOK'
        BY <1>4, <2>1 DEF Commit, Write, End
    <2>4. KeyInv' /\ Marked'
        BY <1>4, <2>2, <2>3 DEF Commit, End
    <2>5. ReadInv'
        BY <1>4, <2>1, <2>2, <2>3 DEF Commit, Write
    <2>6. FlagFreshUnlessRaced'
        BY <1>4, <2>1 DEF Commit, Write
    <2> QED
        BY <2>3, <2>4, <2>5, <2>6
<1>5. CASE Saved(r)
    BY <1>5 DEF Saved, End
<1>6. CASE Fail(r)
    BY <1>6 DEF Fail, End
<1> QED
    BY <1>1, <1>2, <1>3, <1>4, <1>5, <1>6

(* A change that no cache is told of, and the end of an entry. *)
LEMMA EnvironmentStep ==
    ASSUME IInv,
           \/ \E k \in Slug \cup Member, v \in Value \cup {None} : Change(k, v)
           \/ \E k \in Key : Lapse(k)
           \/ UNCHANGED vars
    PROVE  IInv'
<1> USE CachesAssumption
    DEF IInv, TypeOK, KeyInv, Marked, ReadInv,
        FlagFreshUnlessRaced, Places, Key
<1>1. ASSUME NEW k \in Slug \cup Member, NEW v \in Value \cup {None},
             Change(k, v)
      PROVE IInv'
    BY <1>1 DEF Change, Write, reqVars
<1>2. ASSUME NEW k \in Key, Lapse(k) PROVE IInv'
    BY <1>2 DEF Lapse, Clear, reqVars
<1>3. CASE UNCHANGED vars
    BY <1>3 DEF vars, reqVars
<1> QED
    BY <1>1, <1>2, <1>3

(* IInv is an invariant. *)
LEMMA AlwaysIInv == Spec => []IInv
<1>1. IInv /\ [Next]_vars => IInv'
    BY ReaderStep, SaveStep, EnvironmentStep DEF Next, Progress
<1> QED
    BY <1>1, InitIInv, PTL DEF Spec

(* The caches are type correct. *)
THEOREM TypeCorrect == Spec => []TypeOK
<1>1. IInv => TypeOK
    BY DEF IInv
<1> QED
    BY <1>1, AlwaysIInv, PTL

(* Redis has the rules of the database, unless one of the two races of a   *)
(* save, or a DEL that could not be sent, has marked the entry.            *)
THEOREM FlagFreshness == Spec => []FlagFreshUnlessRaced
<1>1. IInv => FlagFreshUnlessRaced
    BY DEF IInv
<1> QED
    BY <1>1, AlwaysIInv, PTL
=============================================================================
