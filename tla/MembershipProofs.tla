-------------------------- MODULE MembershipProofs --------------------------
(***************************************************************************)
(* The safety properties of Membership, for any number of requests (which  *)
(* must be finite), users, invitations and organizations, from the         *)
(* inductive invariant IInv.                                               *)
(***************************************************************************)
EXTENDS Membership, FiniteSetTheorems, TLAPS

LEMMA InitIInv == Init => IInv
<1> SUFFICES ASSUME Init PROVE IInv
    OBVIOUS
<1> USE DEF Init
<1>1. TypeOK
    BY DEF TypeOK, Rows, NewRow, Role, States, Places
<1>2. ArgInv /\ LoadedInv /\ HomeInv
    BY DEF ArgInv, LoadedInv, HomeInv
<1>3. EmailInv /\ UnusedInv
    BY DEF EmailInv, UnusedInv, Spelling
<1>4. \A t \in Org : PendingFor(t) = {} /\ Inserting(t) = {}
    BY DEF PendingFor, Inserting, Open
<1>5. FinitePending /\ PendingBounded
    <2> HIDE DEF Init
    <2>1. IsFiniteSet({}) /\ Cardinality({}) = 0
        BY FS_EmptySet
    <2>2. Cardinality(Req) \in Nat
        BY FS_CardinalityType, MembershipAssumption
    <2>3. ASSUME NEW t \in Org
          PROVE  /\ IsFiniteSet(PendingFor(t))
                 /\ Cardinality(PendingFor(t)) + Cardinality(Inserting(t))
                        <= Cardinality(Req)
        BY <1>4, <2>1, <2>2
    <2> QED
        BY <2>3 DEF FinitePending, PendingBounded
<1>6. \A u \in User : row[u] \in Sources(u)
    BY DEF Sources
<1>7. OnlyFoundersAndInvited /\ OneAccountUnlessMoved /\ RoleFitsUnlessMixed
    BY <1>6 DEF OnlyFoundersAndInvited, OneAccountUnlessMoved, RoleFitsUnlessMixed
<1> QED
    BY <1>1, <1>2, <1>3, <1>5, <1>7 DEF IInv

(* The locals of a request keep their types. *)
LEMMA LocalsType ==
    ASSUME TypeOK, NEW r \in Req
    PROVE  /\ End(r) =>
                /\ pc' \in [Req -> Places]
                /\ arg' \in [Req -> Inv \cup Org \cup Spelling \cup User
                                        \cup {NoArg}]
                /\ home' \in [Req -> Org \cup {NoOrg}]
                /\ loaded' \in [Req -> User \cup {NoUser}]
                /\ seen' \in [Req -> Rows]
           /\ \A u \in User : LoadUser(r, u) =>
                /\ loaded' \in [Req -> User \cup {NoUser}]
                /\ seen' \in [Req -> Rows]
           /\ \A p \in Places : Goto(r, p) => pc' \in [Req -> Places]
<1>1. NewRow \in Rows /\ "idle" \in Places
    BY DEF NewRow, Rows, Role, Places
<1> QED
    BY <1>1 DEF TypeOK, End, LoadUser, Goto

(* What a user row can become. *)
LEMMA InsertFacts ==
    ASSUME TypeOK, NEW u \in User, NEW e \in Spelling,
           NEW o \in Org \cup {NoOrg}, NEW ro \in Role,
           InsertUser(u, e, o, ro)
    PROVE  /\ email' \in [User -> Email \cup {"none"}]
           /\ row' \in [User -> Rows]
           /\ row'[u] = [org |-> o, role |-> ro] /\ email'[u] = e
           /\ \A v \in User \ {u} : row'[v] = row[v] /\ email'[v] = email[v]
BY DEF InsertUser, TypeOK, Rows, Email

LEMMA UpdateFacts ==
    ASSUME TypeOK, NEW r \in Req, loaded[r] \in User,
           NEW o \in Org \cup {NoOrg}, NEW ro \in Role,
           UpdateUser(r, o, ro)
    PROVE  /\ row' \in [User -> Rows] /\ email' = email
           /\ mixed' \subseteq User
           /\ row'[loaded[r]].org \in {o, row[loaded[r]].org}
           /\ seen[r].org # o => row'[loaded[r]].org = o
           /\ row'[loaded[r]].role \in {ro, row[loaded[r]].role}
           /\ \/ row'[loaded[r]] = [org |-> o, role |-> ro]
              \/ loaded[r] \in mixed'
           /\ \A v \in User \ {loaded[r]} : row'[v] = row[v]
<1> DEFINE u == loaded[r]
           new == [org  |-> IF seen[r].org = o THEN row[u].org ELSE o,
                   role |-> IF seen[r].role = ro THEN row[u].role ELSE ro]
<1>1. row[u] \in Rows /\ seen[r] \in Rows /\ mixed \subseteq User
    BY DEF TypeOK
<1>2. /\ row' = [row EXCEPT ![u] = new] /\ email' = email
      /\ mixed' = IF Stale(r) /\ new # [org |-> o, role |-> ro]
                  THEN mixed \cup {u} ELSE mixed \ {u}
    BY DEF UpdateUser
<1>3. new \in Rows
    BY <1>1 DEF Rows
<1>4. row' \in [User -> Rows] /\ row'[u] = new
      /\ \A v \in User \ {u} : row'[v] = row[v]
    BY <1>2, <1>3 DEF TypeOK
<1>5. ~Stale(r) => new = [org |-> o, role |-> ro]
    BY <1>1 DEF Stale, Rows
<1>6. /\ new.org \in {o, row[u].org}
      /\ seen[r].org # o => new.org = o
      /\ new.role \in {ro, row[u].role}
    BY <1>1
<1>7. /\ mixed' \subseteq User
      /\ new = [org |-> o, role |-> ro] \/ u \in mixed'
    <2> HIDE DEF new
    <2> QED
        BY <1>1, <1>2, <1>5
<1> QED
    BY <1>2, <1>4, <1>6, <1>7

LEMMA MixedKept ==
    ASSUME NEW r, NEW o, NEW ro, UpdateUser(r, o, ro), NEW v \in mixed,
           v # loaded[r]
    PROVE  v \in mixed'
BY DEF UpdateUser

(* What an acceptance, the second commit of a workspace and the insertion  *)
(* of a registered user do to the user rows.                               *)
LEMMA JoinFacts ==
    ASSUME IInv, NEW r \in Req, pc[r] = "join", NEW u \in User,
           Join(r, u, arg[r])
    PROVE  /\ email' \in [User -> Email \cup {"none"}]
           /\ row' \in [User -> Rows] /\ mixed' \subseteq User
           /\ row'[u].org \in {team[arg[r]], row[u].org}
           /\ row'[u].role \in {invRole[arg[r]], row[u].role}
           /\ \/ row'[u] = [org |-> team[arg[r]], role |-> invRole[arg[r]]]
              \/ u \in mixed'
           /\ \A v \in User \ {u} : row'[v] = row[v]
           /\ \A v \in User \ {u} : email'[v] = email[v]
           /\ \/ /\ email[u] = "none" /\ email'[u] = "lower"
                 /\ HasEmail("lower") = {}
                 /\ row'[u].org = team[arg[r]]
              \/ loaded[r] = u /\ email' = email
<1>1. arg[r] \in Inv /\ TypeOK
    BY DEF IInv, ArgInv
<1>2. /\ team[arg[r]] \in Org \cup {NoOrg}
      /\ invRole[arg[r]] \in Role /\ "lower" \in Spelling
    BY <1>1 DEF TypeOK, Spelling
<1>3. CASE /\ loaded[r] = NoUser
           /\ InsertUser(u, "lower", team[arg[r]], invRole[arg[r]])
           /\ UNCHANGED mixed
    BY <1>1, <1>2, <1>3, InsertFacts DEF InsertUser, TypeOK
<1>4. CASE loaded[r] = u /\ UpdateUser(r, team[arg[r]], invRole[arg[r]])
    <2>1. loaded[r] \in User /\ u = loaded[r]
        BY <1>4
    <2>2. email' \in [User -> Email \cup {"none"}] /\ email' = email
        BY <1>1, <1>4 DEF UpdateUser, TypeOK
    <2> QED
        BY <1>1, <1>2, <1>4, <2>1, <2>2, UpdateFacts
<1> QED
    BY <1>3, <1>4 DEF Join

LEMMA AssignFacts ==
    ASSUME IInv, NEW r \in Req, AssignHome(r)
    PROVE  /\ row' \in [User -> Rows] /\ email' = email /\ mixed' \subseteq User
           /\ loaded[r] \in User /\ home[r] \in orgs /\ home[r] \in Org
           /\ row'[loaded[r]].org = home[r]
           /\ row'[loaded[r]].role \in {"admin", row[loaded[r]].role}
           /\ \/ row'[loaded[r]] = [org |-> home[r], role |-> "admin"]
              \/ loaded[r] \in mixed'
           /\ \A v \in User \ {loaded[r]} : row'[v] = row[v]
           /\ founder[home[r]] = NoUser /\ founder'[home[r]] = loaded[r]
           /\ \A o \in Org \ {home[r]} : founder'[o] = founder[o]
           /\ orgs' = orgs
<1>1. TypeOK /\ pc[r] = "assign"
    BY DEF AssignHome, IInv
<1>2. /\ loaded[r] \in User /\ home[r] \in orgs /\ home[r] \in Org
      /\ founder[home[r]] = NoUser /\ seen[r].org = NoOrg
    BY <1>1 DEF IInv, ArgInv, LoadedInv, TypeOK
<1>3. /\ UpdateUser(r, home[r], "admin") /\ "admin" \in Role
      /\ home[r] \in Org \cup {NoOrg} /\ seen[r].org # home[r]
    BY <1>2, MembershipAssumption DEF AssignHome, Role
<1>4. /\ row' \in [User -> Rows] /\ email' = email /\ mixed' \subseteq User
      /\ row'[loaded[r]].org = home[r]
      /\ row'[loaded[r]].role \in {"admin", row[loaded[r]].role}
      /\ \/ row'[loaded[r]] = [org |-> home[r], role |-> "admin"]
         \/ loaded[r] \in mixed'
      /\ \A v \in User \ {loaded[r]} : row'[v] = row[v]
    BY <1>1, <1>2, <1>3, UpdateFacts
<1>5. /\ founder'[home[r]] = loaded[r] /\ orgs' = orgs
      /\ \A o \in Org \ {home[r]} : founder'[o] = founder[o]
    BY <1>1, <1>2 DEF AssignHome, TypeOK
<1> QED
    BY <1>2, <1>4, <1>5

LEMMA RegisterFacts ==
    ASSUME IInv, NEW r \in Req, RegisterInsert(r)
    PROVE  \/ \E u \in User :
                 /\ email' \in [User -> Email \cup {"none"}]
                 /\ row' \in [User -> Rows]
                 /\ email[u] = "none" /\ email'[u] = arg[r]
                 /\ arg[r] \in Spelling /\ HasEmail(arg[r]) = {}
                 /\ row'[u] = NewRow
                 /\ \A v \in User \ {u} :
                       row'[v] = row[v] /\ email'[v] = email[v]
                 /\ arg' = [arg EXCEPT ![r] = u]
                 /\ Goto(r, "load")
                 /\ UNCHANGED <<home, loaded, seen>>
           \/ End(r) /\ UNCHANGED userVars
<1>1. arg[r] \in Spelling /\ TypeOK
    BY DEF RegisterInsert, IInv, ArgInv
<1>2. NoOrg \in Org \cup {NoOrg} /\ "user" \in Role
    BY DEF Role
<1>3. ASSUME NEW u \in User, InsertUser(u, arg[r], NoOrg, "user")
      PROVE  /\ email' \in [User -> Email \cup {"none"}]
             /\ row' \in [User -> Rows]
             /\ email[u] = "none" /\ email'[u] = arg[r]
             /\ HasEmail(arg[r]) = {}
             /\ row'[u] = NewRow
             /\ \A v \in User \ {u} : row'[v] = row[v] /\ email'[v] = email[v]
    BY <1>1, <1>2, <1>3, InsertFacts DEF InsertUser, NewRow
<1> QED
    BY <1>1, <1>3 DEF RegisterInsert

(* Only these steps touch user rows, ... *)
LEMMA UserCases ==
    ASSUME [Next]_vars
    PROVE  \/ \E r \in Req : AcceptCommit(r) \/ AssignHome(r) \/ RegisterInsert(r)
           \/ \E u \in User, e \in Email : ProfilePost(u, e)
           \/ UNCHANGED <<userVars, mixed, admitted, moved>>
BY DEF Next, vars, history, Invite, InviteCheckPending,
    InviteInsert, InviteSend, Accept, AcceptLoadUser, Revoke, RevokeDelete,
    Register, AfterRegister, SetupOrg, CreateHome, Fail, Expire

(* ... these invitations, ... *)
LEMMA InvitationCases ==
    ASSUME [Next]_vars
    PROVE  \/ \E r \in Req : \/ InviteInsert(r) \/ InviteSend(r)
                             \/ AcceptCommit(r) \/ RevokeDelete(r)
           \/ \E i \in Inv : Expire(i)
           \/ UNCHANGED invVars
BY DEF Next, vars, Invite, InviteCheckPending,
    Accept, AcceptLoadUser, Revoke, Register, RegisterInsert, AfterRegister,
    SetupOrg, CreateHome, AssignHome, ProfilePost, Fail

(* ... and these organizations. *)
LEMMA OrgCases ==
    ASSUME [Next]_vars, ArgInv
    PROVE  \/ \E r \in Req : AssignHome(r)
           \/ \E r \in Req, u \in User :
                 /\ CreateHome(r, u) /\ row[u].org = NoOrg /\ pc[r] # "assign"
           \/ UNCHANGED orgVars
BY DEF Next, vars, orgVars, Invite, InviteCheckPending, InviteInsert, InviteSend,
    Accept, AcceptLoadUser, AcceptCommit, Revoke, RevokeDelete, Register,
    RegisterInsert, AfterRegister, SetupOrg, ProfilePost, Fail, Expire, ArgInv

(* An invitation that was inserted keeps its organization and role; an     *)
(* accepted one stays accepted, a revoked one revoked.                     *)
LifeOf(i) ==
    /\ state[i] # "unused" =>
          /\ state'[i] # "unused"
          /\ team'[i] = team[i] /\ invRole'[i] = invRole[i]
    /\ state[i] \in {"accepted", "erased"} => state'[i] \in {"accepted", "erased"}
    /\ state[i] = "revoked" => state'[i] = "revoked"

LEMMA LifeStep ==
    ASSUME TypeOK, ArgInv, [Next]_vars, NEW i \in Inv
    PROVE  LifeOf(i)
<1> USE DEF TypeOK, LifeOf
<1>1. ASSUME NEW r \in Req, InviteInsert(r) PROVE LifeOf(i)
    BY <1>1 DEF InviteInsert
<1>2. ASSUME NEW r \in Req, InviteSend(r) PROVE LifeOf(i)
    BY <1>2 DEF InviteSend, ArgInv
<1>3. ASSUME NEW r \in Req, AcceptCommit(r) PROVE LifeOf(i)
    BY <1>3 DEF AcceptCommit, ArgInv
<1>4. ASSUME NEW r \in Req, RevokeDelete(r) PROVE LifeOf(i)
    BY <1>4 DEF RevokeDelete, ArgInv
<1>5. ASSUME NEW j \in Inv, Expire(j) PROVE LifeOf(i)
    BY <1>5 DEF Expire, Open
<1> QED
    BY <1>1, <1>2, <1>3, <1>4, <1>5, InvitationCases DEF invVars

LEMMA InvitationType ==
    ASSUME IInv, [Next]_vars
    PROVE  /\ state' \in [Inv -> States]
           /\ team' \in [Inv -> Org \cup {NoOrg}]
           /\ invRole' \in [Inv -> Role]
<1> USE DEF TypeOK, States, IInv, ArgInv
<1>1. ASSUME NEW r \in Req, InviteInsert(r) \/ InviteSend(r)
      PROVE  /\ state' \in [Inv -> States]
             /\ team' \in [Inv -> Org \cup {NoOrg}]
             /\ invRole' \in [Inv -> Role]
    BY <1>1, OfferedAssumption DEF InviteInsert, InviteSend
<1>2. ASSUME NEW r \in Req, AcceptCommit(r) \/ RevokeDelete(r)
      PROVE  /\ state' \in [Inv -> States]
             /\ team' \in [Inv -> Org \cup {NoOrg}]
             /\ invRole' \in [Inv -> Role]
    BY <1>2 DEF AcceptCommit, RevokeDelete
<1> QED
    BY <1>1, <1>2, InvitationCases DEF invVars, Expire

(* TypeOK of the user rows and their history, by action. *)
UsersOK ==
    /\ email \in [User -> Email \cup {"none"}]
    /\ row \in [User -> Rows]
    /\ mixed \subseteq User
    /\ admitted \in [Inv -> SUBSET User]
    /\ moved \in BOOLEAN

LEMMA UserType == IInv /\ [Next]_vars => UsersOK'
<1> SUFFICES ASSUME IInv, [Next]_vars PROVE UsersOK'
    OBVIOUS
<1>0. TypeOK
    BY DEF IInv
<1> USE DEF UsersOK
<1>1. ASSUME NEW r \in Req, AcceptCommit(r) PROVE UsersOK'
    <2>1. PICK u \in User :
             /\ Join(r, u, arg[r])
             /\ admitted' = [admitted EXCEPT ![arg[r]] = @ \cup {u}]
        BY <1>1 DEF AcceptCommit
    <2>2. pc[r] = "join" /\ moved' = moved
        BY <1>1 DEF AcceptCommit
    <2>3. /\ email' \in [User -> Email \cup {"none"}]
          /\ row' \in [User -> Rows] /\ mixed' \subseteq User
        BY <2>1, <2>2, JoinFacts
    <2>4. admitted' \in [Inv -> SUBSET User]
        BY <1>0, <2>1 DEF TypeOK
    <2>5. moved' \in BOOLEAN
        BY <1>0, <2>2 DEF TypeOK
    <2> QED
        BY <2>3, <2>4, <2>5
<1>2. ASSUME NEW r \in Req, AssignHome(r) PROVE UsersOK'
    BY <1>0, <1>2, AssignFacts DEF AssignHome, TypeOK
<1>3. ASSUME NEW r \in Req, RegisterInsert(r) PROVE UsersOK'
    BY <1>0, <1>3, RegisterFacts
    DEF RegisterInsert, TypeOK, history, userVars
<1>4. ASSUME NEW u \in User, NEW e \in Email, ProfilePost(u, e) PROVE UsersOK'
    BY <1>0, <1>4 DEF ProfilePost, TypeOK
<1> QED
    BY <1>0, <1>1, <1>2, <1>3, <1>4, UserCases DEF TypeOK, userVars

LEMMA OrgType ==
    ASSUME IInv, [Next]_vars
    PROVE  orgs' \subseteq Org /\ founder' \in [Org -> User \cup {NoUser, Stranger}]
<1>0. TypeOK /\ ArgInv
    BY DEF IInv
<1>1. ASSUME NEW r \in Req, AssignHome(r)
      PROVE  orgs' \subseteq Org
             /\ founder' \in [Org -> User \cup {NoUser, Stranger}]
    <2>1. loaded[r] \in User
        BY <1>0, <1>1 DEF AssignHome, ArgInv
    <2> QED
        BY <1>0, <1>1, <2>1 DEF AssignHome, TypeOK
<1> QED
    BY <1>0, <1>1, OrgCases DEF CreateHome, TypeOK, orgVars

(* What a request holds: TypeOK of its locals, by action. *)
LocalsOK ==
    /\ pc \in [Req -> Places]
    /\ arg \in [Req -> Inv \cup Org \cup Spelling \cup User \cup {NoArg}]
    /\ home \in [Req -> Org \cup {NoOrg}]
    /\ loaded \in [Req -> User \cup {NoUser}]
    /\ seen \in [Req -> Rows]

LEMMA LocalsStep == IInv /\ [Next]_vars => LocalsOK'
<1> SUFFICES ASSUME IInv, [Next]_vars PROVE LocalsOK'
    OBVIOUS
<1>0. TypeOK /\ ArgInv
    BY DEF IInv
<1> USE DEF LocalsOK, TypeOK
<1>1. ASSUME NEW r \in Req,
             \/ InviteCheckPending(r) \/ InviteSend(r) \/ AcceptCommit(r)
             \/ RevokeDelete(r) \/ AssignHome(r) \/ Fail(r)
      PROVE  LocalsOK'
    <2>1. End(r) \/ Continue(r, "insert")
        BY <1>1 DEF InviteCheckPending, InviteSend, AcceptCommit,
            RevokeDelete, AssignHome, Fail
    <2>2. "insert" \in Places
        BY DEF Places
    <2> QED
        BY <1>0, <2>1, <2>2, LocalsType DEF Continue
<1>2. ASSUME NEW r \in Req,
             \/ \E t \in Org : Invite(r, t)
             \/ \E s \in Spelling : Register(r, s)
             \/ Accept(r) \/ Revoke(r)
      PROVE  LocalsOK'
    <2>1. PICK p \in {"pending", "create", "user", "delete"},
               a \in Inv \cup Org \cup Spelling : Begin(r, p, a)
        BY <1>2 DEF Invite, Register, Accept, Revoke
    <2>2. {"pending", "create", "user", "delete"} \subseteq Places
        BY DEF Places
    <2> QED
        BY <1>0, <2>1, <2>2, LocalsType DEF Begin
<1>3. ASSUME NEW r \in Req, InviteInsert(r) PROVE LocalsOK'
    <2>1. "send" \in Places
        BY DEF Places
    <2> QED
        BY <1>0, <1>3, <2>1, LocalsType DEF InviteInsert
<1>4. ASSUME NEW r \in Req, AcceptLoadUser(r) PROVE LocalsOK'
    <2>1. "join" \in Places /\ HasEmail("lower") \subseteq User
        BY DEF Places, HasEmail
    <2> QED
        BY <1>0, <1>4, <2>1, LocalsType DEF AcceptLoadUser
<1>5. ASSUME NEW r \in Req, RegisterInsert(r) PROVE LocalsOK'
    <2>1. "load" \in Places
        BY DEF Places
    <2> QED
        BY <1>0, <1>5, <2>1, LocalsType, RegisterFacts
<1>6. ASSUME NEW r \in Req, NEW u \in User, CreateHome(r, u) PROVE LocalsOK'
    <2>1. "assign" \in Places
        BY DEF Places
    <2> QED
        BY <1>0, <1>6, <2>1, LocalsType DEF CreateHome
<1>7. ASSUME NEW r \in Req, AfterRegister(r) PROVE LocalsOK'
    <2>1. CASE row[arg[r]].org = NoOrg /\ CreateHome(r, arg[r])
        BY <1>0, <1>6, <1>7, <2>1 DEF AfterRegister, ArgInv
    <2>2. CASE End(r)
        BY <1>0, <2>2, LocalsType
    <2> QED
        BY <1>7, <2>1, <2>2 DEF AfterRegister
<1>8. CASE UNCHANGED reqVars
    BY <1>0, <1>8 DEF reqVars
<1> QED
    BY <1>1, <1>2, <1>3, <1>4, <1>5, <1>6, <1>7, <1>8
    DEF Next, SetupOrg, ProfilePost, Expire, vars

LEMMA TypeStep == IInv /\ [Next]_vars => TypeOK'
BY InvitationType, UserType, OrgType, LocalsStep DEF TypeOK, LocalsOK, UsersOK

(* A row that was inserted keeps having an address. *)
LEMMA EmailKept ==
    ASSUME IInv, [Next]_vars, NEW u \in User, email[u] # "none"
    PROVE  email'[u] # "none"
<1>1. ASSUME NEW r \in Req, AcceptCommit(r) PROVE email'[u] # "none"
    BY <1>1, JoinFacts DEF AcceptCommit
<1>2. ASSUME NEW r \in Req, RegisterInsert(r) PROVE email'[u] # "none"
    BY <1>2, RegisterFacts DEF userVars
<1>3. ASSUME NEW v \in User, NEW e \in Email, ProfilePost(v, e)
      PROVE  email'[u] # "none"
    BY <1>3 DEF ProfilePost, Email, Spelling, IInv, TypeOK
<1> QED
    BY <1>1, <1>2, <1>3, AssignFacts, UserCases DEF userVars

(* A request at its next place, with what it has there. *)
Arrives(r) ==
    \/ pc'[r] = "idle" /\ loaded'[r] = NoUser
    \/ /\ pc'[r] \in {"pending", "insert"}
       /\ arg'[r] \in Org /\ loaded'[r] = NoUser
    \/ /\ pc'[r] \in {"send", "user", "delete"}
       /\ arg'[r] \in Inv /\ state'[arg'[r]] # "unused" /\ loaded'[r] = NoUser
    \/ pc'[r] = "create" /\ arg'[r] \in Spelling /\ loaded'[r] = NoUser
    \/ /\ pc'[r] = "load" /\ loaded'[r] = NoUser
       /\ arg'[r] \in User /\ email'[arg'[r]] # "none"
    \/ /\ pc'[r] = "join" /\ UNCHANGED <<userVars, moved>>
       /\ arg'[r] \in Inv /\ state'[arg'[r]] # "unused"
       /\ loaded'[r] # NoUser => email[loaded'[r]] = "lower"
    \/ /\ pc'[r] = "assign" /\ UNCHANGED <<userVars, moved>>
       /\ loaded'[r] \in User /\ email[loaded'[r]] # "none"
       /\ home'[r] \in orgs' \ orgs /\ founder'[home'[r]] = NoUser
       /\ seen'[r].org = NoOrg

(* The others stay where they are. *)
Stays(q) == UNCHANGED <<pc[q], arg[q], home[q], loaded[q], seen[q]>>

Moves(r) == Arrives(r) /\ \A q \in Req \ {r} : Stays(q)

LEMMA EndMoves ==
    ASSUME TypeOK, NEW r \in Req, End(r)
    PROVE  Moves(r)
BY DEF End, Goto, TypeOK, Moves, Arrives, Stays

LEMMA HomeMoves ==
    ASSUME TypeOK, HomeInv, NEW r \in Req, NEW u \in User, CreateHome(r, u),
           email[u] # "none", row[u].org = NoOrg
    PROVE  Moves(r)
<1>1. pc' = [pc EXCEPT ![r] = "assign"] /\ arg' = arg
    BY DEF CreateHome, Goto
<1>2. /\ loaded' = [loaded EXCEPT ![r] = u]
      /\ seen' = [seen EXCEPT ![r] = row[u]]
    BY DEF CreateHome, LoadUser
<1>3. PICK h \in Org \ orgs :
         orgs' = orgs \cup {h} /\ home' = [home EXCEPT ![r] = h]
    BY DEF CreateHome
<1>4. UNCHANGED <<userVars, moved>> /\ founder'[h] = NoUser
    BY DEF CreateHome, history, HomeInv
<1>5. Arrives(r)
    BY <1>1, <1>2, <1>3, <1>4 DEF TypeOK, Arrives
<1>6. ASSUME NEW q \in Req \ {r} PROVE Stays(q)
    BY <1>1, <1>2, <1>3 DEF TypeOK, Stays
<1> QED
    BY <1>5, <1>6 DEF Moves

(* A step of request r. *)
RequestStep(r) ==
    \/ \E t \in Org : Invite(r, t)
    \/ InviteCheckPending(r)
    \/ InviteInsert(r) \/ InviteSend(r)
    \/ Accept(r) \/ AcceptLoadUser(r) \/ AcceptCommit(r)
    \/ Revoke(r) \/ RevokeDelete(r)
    \/ \E s \in Spelling : Register(r, s)
    \/ RegisterInsert(r) \/ AfterRegister(r) \/ AssignHome(r)
    \/ \E u \in User : SetupOrg(r, u)
    \/ Fail(r)

LEMMA RequestCases ==
    ASSUME IInv, [Next]_vars
    PROVE  \/ UNCHANGED <<pc, arg, home, loaded, seen>>
           \/ \E r \in Req : RequestStep(r) /\ Moves(r)
<1>0. TypeOK /\ ArgInv /\ LoadedInv /\ HomeInv
    BY DEF IInv
<1> USE DEF TypeOK, Goto
<1>1. ASSUME NEW r \in Req,
             \/ InviteSend(r) \/ RevokeDelete(r) \/ Fail(r)
             \/ AcceptCommit(r) \/ AssignHome(r)
      PROVE  Moves(r)
    BY <1>0, <1>1, EndMoves
    DEF InviteSend, RevokeDelete, Fail, AcceptCommit, AssignHome
<1>2. ASSUME NEW r \in Req, InviteCheckPending(r)
      PROVE  Moves(r)
    <2>1. CASE Continue(r, "insert")
        <3>1. arg[r] \in Org /\ loaded[r] = NoUser
            BY <1>0, <1>2 DEF ArgInv, LoadedInv, InviteCheckPending
        <3> QED
            BY <1>0, <2>1, <3>1 DEF Continue, Moves, Arrives, Stays
    <2> QED
        BY <1>0, <1>2, <2>1, EndMoves DEF InviteCheckPending
<1>3. ASSUME NEW r \in Req, NEW t \in Org, Invite(r, t) PROVE Moves(r)
    BY <1>0, <1>3 DEF Invite, Begin, LoadedInv, Moves, Arrives, Stays
<1>4. ASSUME NEW r \in Req, NEW s \in Spelling, Register(r, s) PROVE Moves(r)
    BY <1>0, <1>4 DEF Register, Begin, LoadedInv, Moves, Arrives, Stays
<1>5. ASSUME NEW r \in Req, Accept(r) \/ Revoke(r) PROVE Moves(r)
    BY <1>0, <1>5
    DEF Accept, Revoke, Begin, LoadedInv, Moves, Arrives, Stays, invVars
<1>6. ASSUME NEW r \in Req, InviteInsert(r) PROVE Moves(r)
    BY <1>0, <1>6 DEF InviteInsert, LoadedInv, Moves, Arrives, Stays
<1>7. ASSUME NEW r \in Req, AcceptLoadUser(r) PROVE Moves(r)
    <2>1. arg[r] \in Inv /\ state[arg[r]] # "unused" /\ loaded[r] = NoUser
        BY <1>0, <1>7 DEF AcceptLoadUser, ArgInv, LoadedInv
    <2> QED
        BY <1>0, <1>7, <2>1
        DEF AcceptLoadUser, LoadUser, HasEmail, Moves, Arrives, Stays,
            invVars, history
<1>8. ASSUME NEW r \in Req, RegisterInsert(r) PROVE Moves(r)
    <2>1. loaded[r] = NoUser
        BY <1>0, <1>8 DEF RegisterInsert, LoadedInv
    <2>2. CASE End(r)
        BY <1>0, <2>2, EndMoves
    <2>3. ASSUME NEW u \in User, email'[u] = arg[r], arg[r] \in Spelling,
                 arg' = [arg EXCEPT ![r] = u], Goto(r, "load"),
                 UNCHANGED <<home, loaded, seen>>
          PROVE  Moves(r)
        BY <1>0, <2>1, <2>3 DEF Moves, Arrives, Stays, Spelling
    <2> QED
        BY <1>8, <2>2, <2>3, RegisterFacts
<1>9. ASSUME NEW r \in Req, AfterRegister(r) PROVE Moves(r)
    BY <1>0, <1>9, EndMoves, HomeMoves DEF AfterRegister, ArgInv
<1>10. ASSUME NEW r \in Req, NEW u \in User, SetupOrg(r, u) PROVE Moves(r)
    BY <1>0, <1>10, HomeMoves DEF SetupOrg
<1>11. ASSUME NEW r \in Req, RequestStep(r) PROVE Moves(r)
    BY <1>1, <1>2, <1>3, <1>4, <1>5, <1>6, <1>7, <1>8, <1>9, <1>10, <1>11
    DEF RequestStep
<1>12. CASE UNCHANGED reqVars
    BY <1>12 DEF reqVars
<1> QED
    BY <1>11, <1>12 DEF Next, RequestStep, ProfilePost, Expire, vars

(* What a request has created for somebody it still has to assign. *)
LEMMA HomeKept ==
    ASSUME IInv, [Next]_vars, NEW q \in Req, pc[q] = "assign", Stays(q)
    PROVE  home'[q] \in orgs' /\ founder'[home'[q]] = NoUser
<1>0. /\ TypeOK /\ HomeInv /\ ArgInv
      /\ home[q] \in orgs /\ founder[home[q]] = NoUser
      /\ pc'[q] = "assign" /\ home'[q] = home[q]
    BY DEF IInv, ArgInv, Stays
<1>1. ASSUME NEW r \in Req, AssignHome(r)
      PROVE  home[q] \in orgs' /\ founder'[home[q]] = NoUser
    <2>1. r # q /\ pc[r] = "assign"
        BY <1>0, <1>1 DEF AssignHome, End, Goto, TypeOK
    <2>2. home[r] # home[q]
        BY <1>0, <2>1 DEF HomeInv
    <2> QED
        BY <1>0, <1>1, <2>2, AssignFacts DEF TypeOK
<1> QED
    BY <1>0, <1>1, OrgCases DEF CreateHome, orgVars

LEMMA ArgStep == IInv /\ [Next]_vars => ArgInv'
<1> SUFFICES ASSUME IInv, [Next]_vars, NEW q \in Req
             PROVE  /\ pc'[q] \in {"pending", "insert"} => arg'[q] \in Org
                    /\ pc'[q] \in {"send", "user", "join", "delete"} =>
                          arg'[q] \in Inv /\ state'[arg'[q]] # "unused"
                    /\ pc'[q] = "create" => arg'[q] \in Spelling
                    /\ pc'[q] = "load" =>
                          arg'[q] \in User /\ email'[arg'[q]] # "none"
                    /\ pc'[q] = "assign" =>
                          /\ loaded'[q] \in User
                          /\ home'[q] \in orgs' /\ founder'[home'[q]] = NoUser
    BY DEF ArgInv
<1>1. CASE Stays(q)
    <2>1. \A i \in Inv : state[i] # "unused" => state'[i] # "unused"
        BY LifeStep DEF LifeOf, IInv
    <2> QED
        BY <1>1, <2>1, EmailKept, HomeKept DEF Stays, IInv, ArgInv
<1>2. CASE Arrives(q)
    BY <1>2 DEF Arrives
<1> QED
    BY <1>1, <1>2, RequestCases DEF Moves, Stays

(* An organization that a request creates is new. *)
LEMMA HomeStep == IInv /\ [Next]_vars => HomeInv'
<1> SUFFICES ASSUME IInv, [Next]_vars PROVE HomeInv'
    OBVIOUS
<1>0. TypeOK /\ ArgInv /\ HomeInv
    BY DEF IInv
<1>1. ASSUME NEW o \in Org \ orgs' PROVE founder'[o] = NoUser
    <2>1. ASSUME NEW r \in Req, AssignHome(r) PROVE founder'[o] = NoUser
        <3>1. o # home[r] /\ o \notin orgs
            BY <2>1, <1>1, AssignFacts
        <3> QED
            BY <1>0, <2>1, <1>1, <3>1, AssignFacts DEF HomeInv
    <2> QED
        BY <1>0, <1>1, <2>1, OrgCases DEF CreateHome, orgVars, HomeInv
<1>2. ASSUME NEW q \in Req, NEW r \in Req, pc'[q] = "assign", pc'[r] = "assign",
             home'[q] = home'[r]
      PROVE  q = r
    <2>1. ASSUME NEW p \in Req, NEW s \in Req, p # s, Moves(p),
                 pc'[p] = "assign", pc'[s] = "assign", home'[p] = home'[s]
          PROVE  FALSE
        <3>1. home'[p] \notin orgs
            BY <2>1 DEF Moves, Arrives
        <3>2. home'[s] \in orgs
            BY <1>0, <2>1 DEF Moves, Stays, ArgInv
        <3> QED
            BY <2>1, <3>1, <3>2
    <2>2. CASE Stays(q) /\ Stays(r)
        BY <1>0, <1>2, <2>2 DEF Stays, HomeInv
    <2>3. CASE \E p \in Req : Moves(p)
        <3>1. PICK p \in Req : Moves(p)
            BY <2>3
        <3> QED
            BY <1>2, <2>1, <2>2, <3>1 DEF Moves
    <2> QED
        BY <2>2, <2>3, RequestCases DEF Stays
<1> QED
    BY <1>1, <1>2 DEF HomeInv

LEMMA LoadedStep == IInv /\ [Next]_vars => LoadedInv'
<1> SUFFICES ASSUME IInv, [Next]_vars, NEW q \in Req
             PROVE  /\ pc'[q] \notin {"join", "assign"} => loaded'[q] = NoUser
                    /\ pc'[q] = "assign" => seen'[q].org = NoOrg
                    /\ loaded'[q] # NoUser => email'[loaded'[q]] # "none"
    BY DEF LoadedInv
<1>0. LoadedInv /\ TypeOK
    BY DEF IInv
<1>1. CASE Stays(q)
    <2>1. loaded[q] # NoUser => loaded[q] \in User
        BY <1>0 DEF TypeOK
    <2> QED
        BY <1>0, <1>1, <2>1, EmailKept DEF Stays, LoadedInv
<1>2. CASE Arrives(q)
    BY <1>2 DEF Arrives, userVars
<1> QED
    BY <1>1, <1>2, RequestCases DEF Moves, Stays

(* An address still names one account. *)
LEMMA EmailStep == IInv /\ [Next]_vars => EmailInv'
<1> SUFFICES ASSUME IInv, [Next]_vars PROVE EmailInv'
    OBVIOUS
<1>0. TypeOK /\ EmailInv /\ LoadedInv /\ ArgInv
    BY DEF IInv
<1>1. \A u, v \in User : email'[u] = email'[v] /\ email'[u] \in Spelling => u = v
    <2>1. ASSUME NEW u \in User, NEW e \in Email,
                 \A v \in User \ {u} : email'[v] = email[v],
                 email'[u] = e, e \in Spelling => HasEmail(e) = {}
          PROVE  \A w, v \in User :
                    email'[w] = email'[v] /\ email'[w] \in Spelling => w = v
        BY <1>0, <2>1 DEF EmailInv, HasEmail
    <2>2. ASSUME NEW r \in Req, AcceptCommit(r)
          PROVE  \A w, v \in User :
                    email'[w] = email'[v] /\ email'[w] \in Spelling => w = v
        <3>1. PICK u \in User : Join(r, u, arg[r])
            BY <2>2 DEF AcceptCommit
        <3>2. pc[r] = "join" /\ "lower" \in Email
            BY <2>2 DEF AcceptCommit, Email, Spelling
        <3>3. CASE email' = email
            BY <1>0, <3>3 DEF EmailInv
        <3>4. CASE email'[u] = "lower" /\ HasEmail("lower") = {}
            <4>1. \A v \in User \ {u} : email'[v] = email[v]
                BY <3>1, <3>2, JoinFacts
            <4> QED
                BY <2>1, <3>2, <3>4, <4>1
        <3> QED
            BY <3>1, <3>2, <3>3, <3>4, JoinFacts
    <2>3. ASSUME NEW r \in Req, RegisterInsert(r)
          PROVE  \A w, v \in User :
                    email'[w] = email'[v] /\ email'[w] \in Spelling => w = v
        <3>1. CASE UNCHANGED userVars
            BY <1>0, <3>1 DEF EmailInv, userVars
        <3>2. Spelling \subseteq Email
            BY DEF Email
        <3> QED
            BY <2>1, <2>3, <3>1, <3>2, RegisterFacts
    <2>4. ASSUME NEW u \in User, NEW e \in Email, ProfilePost(u, e)
          PROVE  \A w, v \in User :
                    email'[w] = email'[v] /\ email'[w] \in Spelling => w = v
        BY <1>0, <2>1, <2>4 DEF ProfilePost, TypeOK
    <2>5. CASE email' = email
        BY <1>0, <2>5 DEF EmailInv
    <2> QED
        BY <2>2, <2>3, <2>4, <2>5, AssignFacts, UserCases DEF userVars
<1>2. ASSUME ~moved', NEW u \in User, email[u] = "lower" PROVE email'[u] = "lower"
    <2>1. ASSUME NEW r \in Req, AcceptCommit(r) PROVE email'[u] = "lower"
        BY <1>2, <2>1, JoinFacts DEF AcceptCommit
    <2>2. ASSUME NEW r \in Req, RegisterInsert(r) PROVE email'[u] = "lower"
        BY <1>2, <2>2, RegisterFacts DEF userVars
    <2>3. ASSUME NEW v \in User, NEW e \in Email, ProfilePost(v, e)
          PROVE  email'[u] = "lower"
        BY <1>0, <1>2, <2>3 DEF ProfilePost, TypeOK
    <2> QED
        BY <1>2, <2>1, <2>2, <2>3, AssignFacts, UserCases DEF userVars
<1>3. ~moved' => ~moved
    BY UserCases DEF AcceptCommit, AssignHome, RegisterInsert, ProfilePost, history
<1>4. ASSUME ~moved', NEW i \in Inv, NEW u \in admitted'[i]
      PROVE  email'[u] = "lower"
    <2>1. CASE u \in admitted[i]
        BY <1>0, <1>2, <1>3, <1>4, <2>1 DEF EmailInv, TypeOK
    <2>2. ASSUME NEW r \in Req, AcceptCommit(r), u \notin admitted[i]
          PROVE  email'[u] = "lower"
        <3>1. PICK v \in User :
                 /\ Join(r, v, arg[r])
                 /\ admitted' = [admitted EXCEPT ![arg[r]] = @ \cup {v}]
            BY <2>2 DEF AcceptCommit
        <3>2. u = v /\ pc[r] = "join"
            BY <1>0, <1>4, <2>2, <3>1 DEF AcceptCommit, TypeOK
        <3>3. CASE loaded[r] = u
            BY <1>0, <1>2, <1>3, <1>4, <3>2, <3>3, MembershipAssumption
            DEF EmailInv
        <3> QED
            BY <3>1, <3>2, <3>3, JoinFacts
    <2> QED
        BY <1>4, <2>1, <2>2, UserCases
        DEF AssignHome, RegisterInsert, ProfilePost, history
<1>5. ASSUME ~moved', NEW q \in Req, pc'[q] = "join", loaded'[q] # NoUser
      PROVE  email'[loaded'[q]] = "lower"
    <2>1. CASE Stays(q)
        BY <1>0, <1>2, <1>3, <1>5, <2>1 DEF Stays, EmailInv, TypeOK
    <2>2. CASE Arrives(q)
        BY <1>5, <2>2 DEF Arrives, userVars
    <2> QED
        BY <1>0, <2>1, <2>2, RequestCases DEF Moves, Stays
<1> QED
    BY <1>1, <1>4, <1>5 DEF EmailInv

LEMMA UnusedStep == IInv /\ [Next]_vars => UnusedInv'
<1> SUFFICES ASSUME IInv, [Next]_vars PROVE UnusedInv'
    OBVIOUS
<1>1. ASSUME NEW i \in Inv, state'[i] = "unused" PROVE admitted'[i] = {}
    <2>1. state[i] = "unused" /\ TypeOK
        BY <1>1, LifeStep DEF LifeOf, IInv
    <2>2. ASSUME NEW r \in Req, AcceptCommit(r) PROVE arg[r] # i
        BY <1>1, <2>1, <2>2 DEF AcceptCommit, TypeOK
    <2> QED
        BY <2>1, <2>2, UserCases
        DEF IInv, UnusedInv, TypeOK, AcceptCommit, AssignHome, RegisterInsert,
            ProfilePost, history
<1>2. ASSUME NEW u \in User, email'[u] = "none" PROVE row'[u] = NewRow
    <2>1. email[u] = "none" /\ row[u] = NewRow
        BY <1>2, EmailKept DEF IInv, UnusedInv
    <2>2. ASSUME NEW r \in Req, AcceptCommit(r) PROVE row'[u] = row[u]
        <3>1. PICK v \in User : Join(r, v, arg[r])
            BY <2>2 DEF AcceptCommit
        <3>2. u # v
            <4>1. pc[r] = "join" /\ LoadedInv
                BY <2>2 DEF AcceptCommit, IInv
            <4>2. email'[v] = "lower" \/ loaded[r] = v
                BY <3>1, <4>1, JoinFacts
            <4> QED
                BY <1>2, <2>1, <4>1, <4>2, MembershipAssumption DEF LoadedInv
        <3>3. \A w \in User \ {v} : row'[w] = row[w]
            BY <2>2, <3>1, JoinFacts DEF AcceptCommit
        <3> QED
            BY <3>2, <3>3
    <2>3. ASSUME NEW r \in Req, AssignHome(r) PROVE row'[u] = row[u]
        <3>1. /\ loaded[r] \in User
              /\ \A w \in User \ {loaded[r]} : row'[w] = row[w]
            BY <2>3, AssignFacts
        <3>2. u # loaded[r]
            BY <2>1, <3>1, MembershipAssumption DEF IInv, LoadedInv
        <3> QED
            BY <3>1, <3>2
    <2>4. ASSUME NEW r \in Req, RegisterInsert(r) PROVE row'[u] = NewRow
        BY <2>1, <2>4, RegisterFacts DEF userVars
    <2> QED
        BY <2>1, <2>2, <2>3, <2>4, UserCases DEF ProfilePost, userVars
<1>3. ASSUME NEW i \in Inv, team'[i] = NoOrg PROVE state'[i] = "unused"
    <2>0. TypeOK /\ ArgInv
        BY DEF IInv
    <2>1. ASSUME NEW r \in Req, InviteInsert(r), team[i] # NoOrg PROVE FALSE
        <3>1. arg[r] \in Org
            BY <2>0, <2>1 DEF InviteInsert, ArgInv
        <3> QED
            BY <1>3, <2>0, <2>1, <3>1, MembershipAssumption
            DEF InviteInsert, TypeOK
    <2>2. CASE team[i] # NoOrg
        BY <1>3, <2>1, <2>2, InvitationCases
        DEF InviteSend, AcceptCommit, RevokeDelete, Expire, invVars
    <2>3. CASE team[i] = NoOrg
        <3>1. state[i] = "unused"
            BY <2>3 DEF IInv, UnusedInv
        <3>2. ASSUME NEW r \in Req, InviteInsert(r), state'[i] # "unused"
              PROVE  FALSE
            <4>1. arg[r] \in Org
                BY <2>0, <3>2 DEF InviteInsert, ArgInv
            <4> QED
                BY <1>3, <2>0, <3>1, <3>2, <4>1, MembershipAssumption
                DEF InviteInsert, TypeOK
        <3>3. ASSUME NEW r \in Req,
                     InviteSend(r) \/ AcceptCommit(r) \/ RevokeDelete(r)
              PROVE  state'[i] = "unused"
            BY <2>0, <3>1, <3>3
            DEF InviteSend, AcceptCommit, RevokeDelete, ArgInv, TypeOK
        <3>4. ASSUME NEW j \in Inv, Expire(j) PROVE state'[i] = "unused"
            BY <2>0, <3>1, <3>4 DEF Expire, Open, TypeOK
        <3> QED
            BY <3>1, <3>2, <3>3, <3>4, InvitationCases DEF invVars
    <2> QED
        BY <2>2, <2>3
<1> QED
    BY <1>1, <1>2, <1>3 DEF UnusedInv

(* Nobody leaves the list of those an invitation let in. *)
LEMMA AdmittedGrows ==
    ASSUME TypeOK, [Next]_vars, NEW i \in Inv
    PROVE  admitted[i] \subseteq admitted'[i]
BY UserCases DEF TypeOK, AcceptCommit, AssignHome, RegisterInsert, ProfilePost,
    history

(* The row that an acceptance writes, and what it was let in by. *)
LEMMA CommitFacts ==
    ASSUME IInv, [Next]_vars, NEW r \in Req, AcceptCommit(r)
    PROVE  \E u \in User :
              /\ Join(r, u, arg[r]) /\ pc[r] = "join" /\ arg[r] \in Inv
              /\ u \in admitted'[arg[r]] /\ state'[arg[r]] = "accepted"
              /\ \A i \in Inv : admitted'[i] \subseteq admitted[i] \cup {u}
              /\ \A i \in Inv \ {arg[r]} : admitted'[i] = admitted[i]
              /\ UNCHANGED <<team, invRole>>
<1>1. TypeOK /\ arg[r] \in Inv
    BY DEF IInv, ArgInv, AcceptCommit
<1> QED
    BY <1>1 DEF AcceptCommit, TypeOK

(* An organization has one founder, whose row says so from then on. *)
LEMMA FounderKept ==
    ASSUME IInv, [Next]_vars, NEW o \in Org, NEW u \in User, founder[o] = u
    PROVE  founder'[o] = u
<1>1. ASSUME NEW r \in Req, AssignHome(r) PROVE founder'[o] = u
    <2>1. founder[home[r]] = NoUser
        BY <1>1, AssignFacts
    <2>2. o # home[r]
        BY <2>1, MembershipAssumption
    <2> QED
        BY <1>1, <2>2, AssignFacts
<1> QED
    BY <1>1, OrgCases DEF IInv, CreateHome, orgVars

(* What an account has come by, it has come by for good. *)
LEMMA SourcesGrow ==
    ASSUME IInv, [Next]_vars, NEW u \in User, NEW s \in Sources(u)
    PROVE  s \in Sources(u)'
<1>1. CASE s = NewRow
    BY <1>1 DEF Sources
<1>2. ASSUME NEW o \in Org, founder[o] = u, s = [org |-> o, role |-> "admin"]
      PROVE  s \in Sources(u)'
    BY <1>2, FounderKept DEF Sources
<1>3. ASSUME NEW i \in Inv, u \in admitted[i],
             state[i] \in {"accepted", "erased"},
             s = [org |-> team[i], role |-> invRole[i]]
      PROVE  s \in Sources(u)'
    <2>1. /\ state'[i] \in {"accepted", "erased"}
          /\ team'[i] = team[i] /\ invRole'[i] = invRole[i]
        BY <1>3, LifeStep DEF LifeOf, IInv
    <2>2. u \in admitted'[i]
        BY <1>3, AdmittedGrows DEF IInv
    <2> QED
        BY <1>3, <2>1, <2>2 DEF Sources
<1> QED
    BY <1>1, <1>2, <1>3 DEF Sources

(* What a step makes of a user row comes from what the account has come by *)
(* or was there before.                                                    *)
RowFrom(v) ==
    \/ row'[v] \in Sources(v)'
    \/ row'[v] = row[v] /\ (v \in mixed => v \in mixed')
    \/ /\ v \in mixed'
       /\ \E s \in Sources(v)' :
             /\ row'[v].org \in {s.org, row[v].org}
             /\ row'[v].role \in {s.role, row[v].role}

LEMMA RowStep ==
    ASSUME IInv, [Next]_vars, NEW v \in User
    PROVE  RowFrom(v)
<1>1. ASSUME NEW r \in Req, AcceptCommit(r) PROVE RowFrom(v)
    <2>1. PICK u \in User :
             /\ Join(r, u, arg[r]) /\ pc[r] = "join" /\ arg[r] \in Inv
             /\ u \in admitted'[arg[r]] /\ state'[arg[r]] = "accepted"
             /\ UNCHANGED <<team, invRole>>
        BY <1>1, CommitFacts
    <2>2. [org |-> team[arg[r]], role |-> invRole[arg[r]]] \in Sources(u)'
        BY <2>1 DEF Sources
    <2>3. CASE v # u
        <3>1. \A w \in User \ {u} : row'[w] = row[w]
            BY <2>1, JoinFacts
        <3>2. v \in mixed => v \in mixed'
            BY <2>1, <2>3, MixedKept DEF Join
        <3> QED
            BY <2>3, <3>1, <3>2 DEF RowFrom
    <2>4. CASE v = u
        <3>1. /\ row'[u].org \in {team[arg[r]], row[u].org}
              /\ row'[u].role \in {invRole[arg[r]], row[u].role}
              /\ \/ row'[u] = [org |-> team[arg[r]], role |-> invRole[arg[r]]]
                 \/ u \in mixed'
            BY <2>1, JoinFacts
        <3> QED
            BY <2>2, <2>4, <3>1 DEF RowFrom
    <2> QED
        BY <2>3, <2>4 DEF RowFrom
<1>2. ASSUME NEW r \in Req, AssignHome(r) PROVE RowFrom(v)
    <2>1. v # loaded[r] => row'[v] = row[v] /\ (v \in mixed => v \in mixed')
        BY <1>2, AssignFacts, MixedKept DEF AssignHome
    <2>2. CASE v = loaded[r]
        <3>1. home[r] \in Org /\ founder'[home[r]] = v
            BY <1>2, <2>2, AssignFacts
        <3>2. [org |-> home[r], role |-> "admin"] \in Sources(v)'
            BY <3>1 DEF Sources
        <3>3. /\ row'[v].org \in {home[r], row[v].org}
              /\ row'[v].role \in {"admin", row[v].role}
              /\ \/ row'[v] = [org |-> home[r], role |-> "admin"]
                 \/ v \in mixed'
            BY <1>2, <2>2, AssignFacts
        <3> QED
            BY <3>2, <3>3 DEF RowFrom
    <2> QED
        BY <2>1, <2>2 DEF RowFrom
<1>3. ASSUME NEW r \in Req, RegisterInsert(r) PROVE RowFrom(v)
    <2>1. mixed' = mixed
        BY <1>3 DEF RegisterInsert, history
    <2>2. row'[v] = NewRow \/ row'[v] = row[v]
        BY <1>3, RegisterFacts DEF userVars
    <2> QED
        BY <2>1, <2>2 DEF RowFrom, Sources
<1> QED
    BY <1>1, <1>2, <1>3, UserCases DEF RowFrom, ProfilePost, userVars

LEMMA MemberStep == IInv /\ [Next]_vars => OnlyFoundersAndInvited'
<1> SUFFICES ASSUME IInv, [Next]_vars, NEW v \in User
             PROVE  \E s \in Sources(v)' : row'[v].org = s.org
    BY DEF OnlyFoundersAndInvited
<1>1. \E s \in Sources(v)' : row[v].org = s.org
    BY SourcesGrow DEF IInv, OnlyFoundersAndInvited
<1> QED
    BY <1>1, RowStep DEF RowFrom

(* Only a commit that keeps what it has not seen sets organization and     *)
(* role apart.                                                             *)
LEMMA RoleStep == IInv /\ [Next]_vars => RoleFitsUnlessMixed'
<1> SUFFICES ASSUME IInv, [Next]_vars, NEW v \in User
             PROVE  \/ row'[v] \in Sources(v)'
                    \/ v \in mixed' /\ \E s \in Sources(v)' : row'[v].role = s.role
    BY DEF RoleFitsUnlessMixed
<1>1. \/ row[v] \in Sources(v)'
      \/ v \in mixed /\ \E s \in Sources(v)' : row[v].role = s.role
    BY SourcesGrow DEF IInv, RoleFitsUnlessMixed
<1> QED
    BY <1>1, RowStep DEF RowFrom

(* An invitation that has let somebody in finds that account again. *)
LEMMA OneAccountStep == IInv /\ [Next]_vars => OneAccountUnlessMoved'
<1> SUFFICES ASSUME IInv, [Next]_vars, ~moved', NEW i \in Inv,
                    NEW u \in admitted'[i], NEW v \in admitted'[i]
             PROVE  u = v
    BY DEF OneAccountUnlessMoved
<1>1. EmailInv' /\ TypeOK'
    BY EmailStep, TypeStep
<1>2. u \in User /\ v \in User
    BY <1>1 DEF TypeOK
<1>3. email'[u] = "lower" /\ email'[v] = "lower"
    BY <1>1 DEF EmailInv
<1> QED
    BY <1>1, <1>2, <1>3 DEF EmailInv, Spelling

(* Only InviteCheckPending brings a request to the insertion, ... *)
LEMMA InsertingCases ==
    ASSUME TypeOK, [Next]_vars, NEW t
    PROVE  (\E r \in Req : InviteCheckPending(r)) \/ Inserting(t)' \subseteq Inserting(t)
<1> SUFFICES ASSUME NEW q \in Req, pc'[q] = "insert", arg'[q] = t,
                    \A r \in Req : ~InviteCheckPending(r)
             PROVE  pc[q] = "insert" /\ arg[q] = t
    BY DEF Inserting
<1> USE DEF TypeOK, Goto
<1>1. ASSUME NEW r \in Req, NEW p, p # "insert", Goto(r, p),
             \A s \in Req \ {r} : arg'[s] = arg[s]
      PROVE  pc[q] = "insert" /\ arg[q] = t
    BY <1>1
<1>2. ASSUME NEW r \in Req, End(r) PROVE pc[q] = "insert" /\ arg[q] = t
    BY <1>1, <1>2 DEF End
<1>4. ASSUME NEW r \in Req,
             \/ \E x \in Org : Invite(r, x)
             \/ \E s \in Spelling : Register(r, s)
             \/ Accept(r) \/ Revoke(r)
      PROVE  pc[q] = "insert" /\ arg[q] = t
    <2>1. PICK p \in {"pending", "create", "user", "delete"} :
             \E a : Begin(r, p, a)
        BY <1>4 DEF Invite, Register, Accept, Revoke
    <2> QED
        BY <1>1, <2>1 DEF Begin
<1>5. ASSUME NEW r \in Req, InviteInsert(r)
      PROVE  pc[q] = "insert" /\ arg[q] = t
    BY <1>1, <1>5 DEF InviteInsert
<1>6. ASSUME NEW r \in Req, AcceptLoadUser(r)
      PROVE  pc[q] = "insert" /\ arg[q] = t
    BY <1>1, <1>6 DEF AcceptLoadUser
<1>7. ASSUME NEW r \in Req, RegisterInsert(r)
      PROVE  pc[q] = "insert" /\ arg[q] = t
    BY <1>1, <1>2, <1>7 DEF RegisterInsert
<1>8. ASSUME NEW r \in Req, NEW u, CreateHome(r, u)
      PROVE  pc[q] = "insert" /\ arg[q] = t
    BY <1>1, <1>8 DEF CreateHome
<1>9. CASE UNCHANGED reqVars
    BY <1>9 DEF reqVars
<1> QED
    BY <1>2, <1>4, <1>5, <1>6, <1>7, <1>8, <1>9
    DEF Next, InviteSend, AcceptCommit, RevokeDelete, AfterRegister, SetupOrg,
        AssignHome, Fail, ProfilePost, Expire, vars

(* ... and only InviteInsert opens an invitation. *)
LEMMA PendingCases ==
    ASSUME TypeOK, ArgInv, [Next]_vars, NEW t
    PROVE  (\E r \in Req : InviteInsert(r)) \/ PendingFor(t)' \subseteq PendingFor(t)
<1> SUFFICES ASSUME NEW i \in Inv, Open(i)', team'[i] = t,
                    \A r \in Req : ~InviteInsert(r)
             PROVE  Open(i) /\ team[i] = t
    BY DEF PendingFor
<1> USE DEF TypeOK, Open
<1>1. ASSUME NEW r \in Req, InviteSend(r) \/ AcceptCommit(r) \/ RevokeDelete(r)
      PROVE  Open(i) /\ team[i] = t
    BY <1>1 DEF InviteSend, AcceptCommit, RevokeDelete
<1>2. ASSUME NEW j \in Inv, Expire(j) PROVE Open(i) /\ team[i] = t
    BY <1>2 DEF Expire
<1> QED
    BY <1>1, <1>2, InvitationCases DEF invVars

(* Two finite sets within a bound, of which one takes an element from the  *)
(* other at most.                                                          *)
LEMMA Shrinks ==
    ASSUME NEW P, NEW I, NEW Q, NEW J, NEW n \in Nat,
           IsFiniteSet(P), IsFiniteSet(I), Q \subseteq P, J \subseteq I,
           Cardinality(P) + Cardinality(I) <= n
    PROVE  IsFiniteSet(Q) /\ Cardinality(Q) + Cardinality(J) <= n
<1>1. /\ Cardinality(Q) <= Cardinality(P) /\ Cardinality(J) <= Cardinality(I)
      /\ IsFiniteSet(Q) /\ IsFiniteSet(J)
    BY FS_Subset
<1>2. /\ Cardinality(P) \in Nat /\ Cardinality(Q) \in Nat
      /\ Cardinality(I) \in Nat /\ Cardinality(J) \in Nat
    BY <1>1, FS_CardinalityType
<1> QED
    BY <1>1, <1>2

LEMMA Passes ==
    ASSUME NEW P, NEW I, NEW i, NEW r, NEW n \in Nat,
           IsFiniteSet(P), IsFiniteSet(I), i \notin P, r \in I,
           Cardinality(P) + Cardinality(I) <= n
    PROVE  /\ IsFiniteSet(P \cup {i})
           /\ Cardinality(P \cup {i}) + Cardinality(I \ {r}) <= n
<1>1. /\ Cardinality(P \cup {i}) = Cardinality(P) + 1
      /\ IsFiniteSet(P \cup {i})
    BY FS_AddElement
<1>2. Cardinality(I \ {r}) = Cardinality(I) - 1
    BY FS_RemoveElement
<1>3. Cardinality(P) \in Nat /\ Cardinality(I) \in Nat
    BY FS_CardinalityType
<1> QED
    BY <1>1, <1>2, <1>3

(* The invitations pending for an organization and the requests about to insert     *)
(* another are never more than the requests.                               *)
LEMMA PendingStep ==
    ASSUME IInv, [Next]_vars, NEW t \in Org
    PROVE  /\ IsFiniteSet(PendingFor(t)')
           /\ Cardinality(PendingFor(t)') + Cardinality(Inserting(t)')
                  <= Cardinality(Req)
<1> DEFINE P == PendingFor(t)
           I == Inserting(t)
           n == Cardinality(Req)
<1>0. TypeOK /\ ArgInv
    BY DEF IInv
<1>1. /\ I \subseteq Req /\ I' \subseteq Req /\ IsFiniteSet(Req) /\ n \in Nat
      /\ IsFiniteSet(I) /\ IsFiniteSet(I')
    <2>1. I \subseteq Req /\ I' \subseteq Req
        BY DEF Inserting
    <2> QED
        BY <2>1, MembershipAssumption, FS_Subset, FS_CardinalityType
<1>2. IsFiniteSet(P) /\ Cardinality(P) + Cardinality(I) <= n
    BY DEF IInv, FinitePending, PendingBounded
<1>3. CASE P' \subseteq P /\ I' \subseteq I
    BY <1>1, <1>2, <1>3, Shrinks
<1>4. ASSUME NEW r \in Req, InviteCheckPending(r)
      PROVE  IsFiniteSet(P') /\ Cardinality(P') + Cardinality(I') <= n
    <2>1. P' = P
        BY <1>4 DEF InviteCheckPending, invVars, PendingFor, Open
    <2>2. CASE P = {}
        <3>1. Cardinality(P') = 0 /\ IsFiniteSet(P')
            BY <2>1, <2>2, FS_EmptySet
        <3>2. Cardinality(I') <= n /\ Cardinality(I') \in Nat
            BY <1>1, FS_Subset, FS_CardinalityType
        <3> QED
            BY <1>1, <3>1, <3>2
    <2>3. CASE P # {}
        <3>1. arg[r] = t => End(r)
            BY <1>4, <2>3 DEF InviteCheckPending
        <3>2. I' \subseteq I
            BY <1>0, <1>4, <3>1
            DEF InviteCheckPending, Continue, End, Goto, Inserting,
                TypeOK
        <3> QED
            BY <1>3, <2>1, <3>2
    <2> QED
        BY <2>2, <2>3
<1>5. ASSUME NEW r \in Req, InviteInsert(r)
      PROVE  IsFiniteSet(P') /\ Cardinality(P') + Cardinality(I') <= n
    <2>1. PICK i \in Inv :
             /\ state[i] = "unused"
             /\ state' = [state EXCEPT ![i] = "new"]
             /\ team' = [team EXCEPT ![i] = arg[r]]
             /\ arg' = [arg EXCEPT ![r] = i]
        BY <1>5 DEF InviteInsert
    <2>2. pc[r] = "insert" /\ pc' = [pc EXCEPT ![r] = "send"]
        BY <1>5 DEF InviteInsert, Goto
    <2>3. I' = I \ {r}
        BY <1>0, <2>1, <2>2 DEF Inserting, TypeOK
    <2>4. CASE arg[r] = t
        <3>1. P' = P \cup {i} /\ i \notin P /\ r \in I
            BY <1>0, <2>1, <2>2, <2>4 DEF PendingFor, Open, Inserting, TypeOK
        <3>2. /\ IsFiniteSet(P \cup {i})
              /\ Cardinality(P \cup {i}) + Cardinality(I \ {r}) <= n
            <4> HIDE DEF P, I, n
            <4> QED
                BY <1>1, <1>2, <3>1, Passes
        <3> QED
            BY <2>3, <3>1, <3>2
    <2>5. CASE arg[r] # t
        <3>1. P' \subseteq P
            BY <1>0, <2>1, <2>5 DEF PendingFor, Open, TypeOK
        <3> QED
            BY <1>3, <2>3, <3>1
    <2> QED
        BY <2>4, <2>5
<1> QED
    BY <1>0, <1>3, <1>4, <1>5, InsertingCases, PendingCases

(* What a step leaves half done was so before, or its request is to finish *)
(* it.                                                                     *)
LEMMA HalfDoneStep ==
    ASSUME IInv, [Next]_vars, NEW x \in HalfDone', x \notin HalfDone
    PROVE  \E r \in Req : x \in Finishing(r)'
<1>0. TypeOK /\ ArgInv /\ UnusedInv
    BY DEF IInv
<1>1. ASSUME x \in Inv, state'[x] = "new", state[x] # "new"
      PROVE  \E r \in Req : x \in Finishing(r)'
    <2>1. PICK r \in Req : InviteInsert(r)
        BY <1>0, <1>1, InvitationCases
        DEF InviteSend, AcceptCommit, RevokeDelete, Expire, invVars, ArgInv,
            TypeOK
    <2>2. arg'[r] = x /\ pc'[r] = "send"
        BY <1>0, <1>1, <2>1 DEF InviteInsert, Goto, TypeOK
    <2> QED
        BY <2>2 DEF Finishing
<1>2. ASSUME x \in User, email'[x] # "none", row'[x].org = NoOrg,
             email[x] = "none" \/ row[x].org # NoOrg
      PROVE  \E r \in Req : x \in Finishing(r)'
    <2>1. ASSUME NEW r \in Req, AcceptCommit(r) PROVE FALSE
        <3>1. PICK u \in User :
                 Join(r, u, arg[r]) /\ pc[r] = "join" /\ arg[r] \in Inv
            BY <2>1, CommitFacts
        <3>2. team[arg[r]] # NoOrg
            BY <1>0, <3>1 DEF ArgInv, UnusedInv
        <3>3. /\ \A v \in User \ {u} : row'[v] = row[v]
              /\ \A v \in User \ {u} : email'[v] = email[v]
            BY <3>1, JoinFacts
        <3>4. x = u
            BY <1>2, <3>3
        <3>5. /\ row'[u].org \in {team[arg[r]], row[u].org}
              /\ \/ email[u] = "none" /\ row'[u].org = team[arg[r]]
                 \/ email' = email
            BY <3>1, JoinFacts
        <3> QED
            BY <1>2, <3>2, <3>4, <3>5
    <2>2. ASSUME NEW r \in Req, AssignHome(r) PROVE FALSE
        <3>1. /\ email' = email /\ row'[loaded[r]].org = home[r]
              /\ home[r] \in Org
              /\ \A v \in User \ {loaded[r]} : row'[v] = row[v]
            BY <2>2, AssignFacts
        <3> QED
            BY <1>2, <3>1, MembershipAssumption
    <2>3. ASSUME NEW r \in Req, RegisterInsert(r)
          PROVE  \E q \in Req : x \in Finishing(q)'
        <3>1. PICK u \in User :
                 /\ \A v \in User \ {u} :
                       row'[v] = row[v] /\ email'[v] = email[v]
                 /\ arg' = [arg EXCEPT ![r] = u]
                 /\ Goto(r, "load")
            BY <1>2, <2>3, RegisterFacts DEF userVars
        <3>2. x = u
            BY <1>2, <3>1
        <3>3. arg'[r] = x /\ pc'[r] = "load"
            BY <1>0, <3>1, <3>2 DEF Goto, TypeOK
        <3> QED
            BY <3>3 DEF Finishing
    <2>4. ASSUME NEW u \in User, NEW e \in Email, ProfilePost(u, e) PROVE FALSE
        BY <1>0, <1>2, <2>4 DEF ProfilePost, TypeOK
    <2> QED
        BY <1>2, <2>1, <2>2, <2>3, <2>4, UserCases DEF userVars
<1>3. ASSUME x \in orgs', founder'[x] = NoUser,
             x \notin orgs \/ founder[x] # NoUser
      PROVE  \E r \in Req : x \in Finishing(r)'
    <2>1. ASSUME NEW r \in Req, AssignHome(r) PROVE FALSE
        <3>1. /\ orgs' = orgs /\ loaded[r] \in User
              /\ founder'[home[r]] = loaded[r]
              /\ \A o \in Org \ {home[r]} : founder'[o] = founder[o]
            BY <2>1, AssignFacts
        <3> QED
            BY <1>0, <1>3, <3>1, MembershipAssumption DEF TypeOK
    <2>2. ASSUME NEW r \in Req, NEW u \in User, CreateHome(r, u)
          PROVE  x \in Finishing(r)'
        <3>1. home'[r] = x /\ pc'[r] = "assign"
            BY <1>0, <1>3, <2>2 DEF CreateHome, Goto, TypeOK
        <3> QED
            BY <3>1 DEF Finishing
    <2> QED
        BY <1>0, <1>3, <2>1, <2>2, OrgCases DEF orgVars
<1> QED
    BY <1>1, <1>2, <1>3 DEF HalfDone

(* A request lets go of what it is to finish by finishing it, or by ending *)
(* with nothing written.                                                   *)
LEMMA FinishingStep ==
    ASSUME IInv, [Next]_vars, NEW r \in Req, NEW x \in Finishing(r),
           x \notin Finishing(r)', x \in HalfDone'
    PROVE  pc'[r] = "idle" /\ UNCHANGED <<userVars, invVars, orgVars>>
<1>0. TypeOK /\ ArgInv
    BY DEF IInv
<1>1. ~Stays(r) /\ pc[r] \in {"send", "load", "assign"}
    BY DEF Stays, Finishing
<1>2. RequestStep(r)
    BY <1>1, RequestCases DEF Moves, Stays
<1>3. CASE Fail(r)
    BY <1>0, <1>3 DEF Fail, End, Goto, TypeOK
<1>4. CASE InviteSend(r)
    <2>1. x = arg[r] /\ x \in Inv
        BY <1>0, <1>4 DEF InviteSend, Finishing, ArgInv
    <2>2. state'[x] # "new"
        BY <1>0, <1>4, <2>1 DEF InviteSend, TypeOK
    <2>3. x \notin User /\ x \notin orgs'
        BY <2>1, OrgType, MembershipAssumption
    <2> QED
        BY <2>2, <2>3 DEF HalfDone
<1>5. CASE AfterRegister(r)
    <2>1. x = arg[r] /\ x \in User /\ pc[r] = "load"
        BY <1>0, <1>5 DEF AfterRegister, Finishing, ArgInv
    <2>2. CASE CreateHome(r, arg[r])
        <3>1. loaded'[r] = x /\ pc'[r] = "assign"
            BY <1>0, <2>1, <2>2 DEF CreateHome, LoadUser, Goto, TypeOK
        <3> QED
            BY <3>1 DEF Finishing
    <2>3. CASE End(r) /\ UNCHANGED <<userVars, invVars, orgVars>>
        BY <1>0, <2>3 DEF End, Goto, TypeOK
    <2> QED
        BY <1>5, <2>2, <2>3 DEF AfterRegister
<1>6. CASE AssignHome(r)
    <2>1. x \in {home[r], loaded[r]}
        BY <1>6 DEF AssignHome, Finishing
    <2>2. /\ loaded[r] \in User /\ home[r] \in Org
          /\ row'[loaded[r]].org = home[r] /\ founder'[home[r]] = loaded[r]
        BY <1>6, AssignFacts
    <2>3. CASE x = home[r]
        <3>1. x \notin User /\ x \notin Inv /\ founder'[x] # NoUser
            BY <2>2, <2>3, MembershipAssumption
        <3> QED
            BY <3>1 DEF HalfDone
    <2>4. CASE x = loaded[r]
        <3>1. x \notin orgs' /\ x \notin Inv /\ row'[x].org # NoOrg
            BY <2>2, <2>4, OrgType, MembershipAssumption
        <3> QED
            BY <3>1 DEF HalfDone
    <2> QED
        BY <2>1, <2>3, <2>4
<1> QED
    BY <1>1, <1>2, <1>3, <1>4, <1>5, <1>6
    DEF RequestStep, Invite, InviteCheckPending, InviteInsert, Accept,
        AcceptLoadUser, AcceptCommit, Revoke, RevokeDelete, Register,
        RegisterInsert, SetupOrg, Begin

LEMMA AlwaysIInv == Spec => []IInv
<1>1. ASSUME IInv, [Next]_vars PROVE IInv'
    <2>1. FinitePending' /\ PendingBounded'
        BY <1>1, PendingStep DEF FinitePending, PendingBounded
    <2> QED
        BY <1>1, <2>1, TypeStep, ArgStep, HomeStep, LoadedStep, EmailStep,
            UnusedStep, MemberStep, OneAccountStep, RoleStep DEF IInv
<1> QED
    BY <1>1, InitIInv, PTL DEF Spec

(* Every variable keeps its type. *)
THEOREM TypeCorrect == Spec => []TypeOK
<1>1. IInv => TypeOK
    BY DEF IInv
<1> QED
    BY <1>1, AlwaysIInv, PTL

(* A revoked invitation stays revoked, whatever requests had loaded it. *)
THEOREM Revocation == Spec => RevokedIsFinal
<1>1. IInv /\ [Next]_vars =>
        [\A i \in Inv : state[i] = "revoked" => state'[i] = "revoked"]_vars
    BY LifeStep DEF LifeOf, IInv
<1> QED
    BY <1>1, AlwaysIInv, PTL DEF Spec, RevokedIsFinal

(* An organization is left only by accepting an invitation to another,     *)
(* unless a request overwrites a row changed since it found none in it.    *)
THEOREM StaysPut == Spec => StaysUnlessInvited
<1>1. ASSUME IInv, [Next]_vars, NEW v \in User,
             row[v].org \notin {NoOrg, row'[v].org}
      PROVE  \/ \E i \in Inv : v \in admitted'[i] /\ team[i] = row'[v].org
             \/ AssignsLate(v)
    <2>1. ASSUME NEW r \in Req, AcceptCommit(r)
          PROVE  \E i \in Inv : v \in admitted'[i] /\ team[i] = row'[v].org
        <3>1. PICK u \in User :
                 /\ Join(r, u, arg[r]) /\ pc[r] = "join" /\ arg[r] \in Inv
                 /\ u \in admitted'[arg[r]]
            BY <1>1, <2>1, CommitFacts
        <3>2. /\ row'[u].org \in {team[arg[r]], row[u].org}
              /\ \A w \in User \ {u} : row'[w] = row[w]
            BY <1>1, <3>1, JoinFacts
        <3> QED
            BY <1>1, <3>1, <3>2
    <2>2. ASSUME NEW r \in Req, AssignHome(r) PROVE AssignsLate(v)
        <3>1. pc[r] = "assign" /\ pc'[r] = "idle"
            BY <1>1, <2>2 DEF AssignHome, End, Goto, IInv, TypeOK
        <3>2. v = loaded[r]
            BY <1>1, <2>2, AssignFacts
        <3>3. seen[r].org = NoOrg
            BY <1>1, <3>1 DEF IInv, LoadedInv
        <3> QED
            BY <1>1, <3>1, <3>2, <3>3 DEF AssignsLate, Stale
    <2>3. ASSUME NEW r \in Req, RegisterInsert(r) PROVE FALSE
        BY <1>1, <2>3, RegisterFacts DEF userVars, NewRow, IInv, UnusedInv
    <2> QED
        BY <1>1, <2>1, <2>2, <2>3, UserCases DEF ProfilePost, userVars
<1>2. IInv /\ [Next]_vars =>
        [\A u \in User : row[u].org \notin {NoOrg, row'[u].org} =>
            \/ \E i \in Inv : u \in admitted'[i] /\ team[i] = row'[u].org
            \/ AssignsLate(u)]_row
    BY <1>1
<1> QED
    BY <1>2, AlwaysIInv, PTL DEF Spec, StaysUnlessInvited

(* Only a request that ends with nothing written leaves behind what it had *)
(* begun: an invitation without its mail, a user without an organization,  *)
(* an organization without an administrator.                               *)
THEOREM OrphansOfFailures == Spec => OrphansOnlyByFailure
<1>1. ASSUME IInv, [Next]_vars, NEW x \in Orphans' \ Orphans
      PROVE  \E r \in Req : /\ x \in Finishing(r) /\ pc'[r] = "idle"
                            /\ UNCHANGED <<userVars, invVars, orgVars>>
    <2>1. x \in HalfDone' /\ \A r \in Req : x \notin Finishing(r)'
        BY <1>1 DEF Orphans
    <2>2. x \in HalfDone
        BY <1>1, <2>1, HalfDoneStep
    <2>3. PICK r \in Req : x \in Finishing(r)
        BY <1>1, <2>2 DEF Orphans
    <2> QED
        BY <1>1, <2>1, <2>3, FinishingStep
<1>2. IInv /\ [Next]_vars =>
        [\A x \in Orphans' \ Orphans :
            \E r \in Req : /\ x \in Finishing(r) /\ pc'[r] = "idle"
                           /\ UNCHANGED <<userVars, invVars, orgVars>>]_vars
    BY <1>1
<1> QED
    BY <1>2, AlwaysIInv, PTL DEF Spec, OrphansOnlyByFailure

(* Whoever is in an organization is its founder or was let in by an        *)
(* accepted invitation of it.                                              *)
THEOREM OnlyInvited == Spec => []OnlyFoundersAndInvited
<1>1. IInv => OnlyFoundersAndInvited
    BY DEF IInv
<1> QED
    BY <1>1, AlwaysIInv, PTL

(* An invitation lets in one account, as long as the invited address is    *)
(* not given up.                                                           *)
THEOREM OneAccount == Spec => []OneAccountUnlessMoved
<1>1. IInv => OneAccountUnlessMoved
    BY DEF IInv
<1> QED
    BY <1>1, AlwaysIInv, PTL

(* Organization and role were given together unless two commits wrote      *)
(* them, and the role was given to this account in any case.               *)
THEOREM RolesFit == Spec => []RoleFitsUnlessMixed
<1>1. IInv => RoleFitsUnlessMixed
    BY DEF IInv
<1> QED
    BY <1>1, AlwaysIInv, PTL

(* The invitations pending for an organization are no more than the        *)
(* requests.                                                               *)
THEOREM FewPending == Spec => []PendingBounded
<1>1. IInv => PendingBounded
    BY DEF IInv
<1> QED
    BY <1>1, AlwaysIInv, PTL
=============================================================================
