----------------------------- MODULE Membership -----------------------------
(***************************************************************************)
(* How the owner of one mailbox comes to belong to an organization:        *)
(* registration and on_after_register (app/core/auth.py), the dashboard's  *)
(* forms for a workspace and for the profile (app/dashboard/routes.py) and *)
(* the invitations of app/services/invitation_service.py.  Requests run    *)
(* concurrently, each SELECT and each COMMIT is one action, and under READ *)
(* COMMITTED a commit writes the columns that differ from what its session *)
(* loaded.                                                                 *)
(*                                                                         *)
(* A mailbox can be spelled in lower case, as invitations spell it, or in  *)
(* the mixed case its owner typed when registering; users.email is unique  *)
(* per spelling, and the owner of an account may change it to any address  *)
(* that no account has.                                                    *)
(***************************************************************************)
EXTENDS Naturals, FiniteSets

CONSTANTS
    Req,        \* requests in flight at once
    User,       \* user rows that may be inserted
    Inv,        \* invitation rows that may be inserted
    Org,        \* organizations, those to be created included
    NoOrg,      \* org_id IS NULL
    NoUser,     \* no user row
    Stranger,   \* whoever has another mailbox
    NoArg,
    Offered     \* bound: roles that invitations offer

ASSUME MembershipAssumption ==
    /\ IsFiniteSet(Req)
    /\ NoOrg \notin Org
    /\ NoUser \notin User \cup {Stranger}
    /\ Stranger \notin User
    /\ User \cap Inv = {} /\ User \cap Org = {} /\ Inv \cap Org = {}

Spelling == {"lower", "mixed"}
Email == Spelling \cup {"elsewhere"}
Role == {"user", "admin", "super_admin"}

ASSUME OfferedAssumption == Offered \subseteq Role

VARIABLES
    email,      \* the address of each user row; "none" before it is inserted
    row,        \* its org_id and role
    state,      \* what has become of each invitation row
    team,       \* its org_id
    invRole,    \* its role
    orgs,       \* organizations created so far
    founder,    \* whom each was created for, once the user row says so
    pc,         \* what request r does next
    arg,        \* the invitation, organization, spelling or user it has
    home,       \* the organization it has created
    loaded,     \* the user row its session has loaded
    seen,       \* ... with these columns
    mixed,      \* history: users whose columns two commits wrote
    admitted,   \* history: the users each invitation has let in
    moved       \* history: an account has given up the invited address

userVars == <<email, row>>
invVars  == <<state, team, invRole>>
orgVars  == <<orgs, founder>>
reqVars  == <<pc, arg, home, loaded, seen>>
history  == <<mixed, admitted, moved>>
vars == <<userVars, invVars, orgVars, reqVars, history>>

Rows == [org : Org \cup {NoOrg}, role : Role]
NewRow == [org |-> NoOrg, role |-> "user"]

States == {"unused",
           "new",           \* inserted, its mail not handed over yet
           "pending",
           "lapsed",        \* past expires_at
           "accepted",
           "revoked",       \* deleted before anyone accepted it
           "erased"}        \* deleted although accepted

Places == {"idle", "pending", "insert", "send", "user", "join",
           "delete", "create", "load", "assign"}

Init ==
    /\ email = [u \in User |-> "none"]
    /\ row = [u \in User |-> NewRow]
    /\ state = [i \in Inv |-> "unused"]
    /\ team = [i \in Inv |-> NoOrg]
    /\ invRole = [i \in Inv |-> "user"]
    /\ orgs \in SUBSET Org
    /\ founder = [o \in Org |-> IF o \in orgs THEN Stranger ELSE NoUser]
    /\ pc = [r \in Req |-> "idle"]
    /\ arg = [r \in Req |-> NoArg]
    /\ home = [r \in Req |-> NoOrg]
    /\ loaded = [r \in Req |-> NoUser]
    /\ seen = [r \in Req |-> NewRow]
    /\ mixed = {}
    /\ admitted = [i \in Inv |-> {}]
    /\ moved = FALSE
-----------------------------------------------------------------------------
Goto(r, place) == pc' = [pc EXCEPT ![r] = place]

Begin(r, place, a) ==
    /\ pc[r] = "idle"
    /\ Goto(r, place)
    /\ arg' = [arg EXCEPT ![r] = a]
    /\ UNCHANGED <<home, loaded, seen>>

Continue(r, place) ==
    /\ Goto(r, place)
    /\ UNCHANGED <<arg, home, loaded, seen>>

(* The request ends, answered or not. *)
End(r) ==
    /\ Goto(r, "idle")
    /\ arg' = [arg EXCEPT ![r] = NoArg]
    /\ home' = [home EXCEPT ![r] = NoOrg]
    /\ loaded' = [loaded EXCEPT ![r] = NoUser]
    /\ seen' = [seen EXCEPT ![r] = NewRow]

(* The session loads user row u. *)
LoadUser(r, u) ==
    /\ loaded' = [loaded EXCEPT ![r] = u]
    /\ seen' = [seen EXCEPT ![r] = row[u]]

HasEmail(e) == {u \in User : email[u] = e}

(* Mutant: org_id and role are swapped. *)
InsertUserSwapped(u, e, o, ro) ==
    /\ email[u] = "none" /\ HasEmail(e) = {}
    /\ email' = [email EXCEPT ![u] = e]
    /\ row' = [row EXCEPT ![u] = [org |-> ro, role |-> o]]

(* Mutant: users.email is not unique. *)
InsertUserAgain(u, e, o, ro) ==
    /\ email[u] = "none"
    /\ email' = [email EXCEPT ![u] = e]
    /\ row' = [row EXCEPT ![u] = [org |-> o, role |-> ro]]

(* The INSERT of a user; users.email is unique. *)
InsertUser(u, e, o, ro) ==
    /\ email[u] = "none" /\ HasEmail(e) = {}
    /\ email' = [email EXCEPT ![u] = e]
    /\ row' = [row EXCEPT ![u] = [org |-> o, role |-> ro]]

(* The row has changed since request r loaded it. *)
Stale(r) == seen[r] # row[loaded[r]]

(* Mutant: the role is left as it was. *)
UpdateUserForgetsRole(r, o, ro) ==
    LET u == loaded[r]
        new == [org  |-> IF seen[r].org = o THEN row[u].org ELSE o,
                role |-> row[u].role]
    IN
    /\ row' = [row EXCEPT ![u] = new]
    /\ mixed' = IF Stale(r) /\ new # [org |-> o, role |-> ro]
                THEN mixed \cup {u} ELSE mixed \ {u}
    /\ UNCHANGED email

(* The UPDATE of the row: only columns that differ from what was loaded.   *)
(* A change that was not seen can stay in the other column.                *)
UpdateUser(r, o, ro) ==
    LET u == loaded[r]
        new == [org  |-> IF seen[r].org = o THEN row[u].org ELSE o,
                role |-> IF seen[r].role = ro THEN row[u].role ELSE ro]
    IN
    /\ row' = [row EXCEPT ![u] = new]
    /\ mixed' = IF Stale(r) /\ new # [org |-> o, role |-> ro]
                THEN mixed \cup {u} ELSE mixed \ {u}
    /\ UNCHANGED email

Open(i) == state[i] \in {"new", "pending"}

PendingFor(t) == {i \in Inv : Open(i) /\ team[i] = t}
-----------------------------------------------------------------------------
(* create_invitation, called by an administrator of organization t: whom   *)
(* it was created for, or who was invited since; the address is not that   *)
(* of a member, ...                                                        *)
Invite(r, t) ==
    /\ founder[t] # NoUser
    /\ \A u \in HasEmail("lower") : row[u].org # t
    /\ Begin(r, "pending", t)
    /\ UNCHANGED <<userVars, invVars, orgVars, history>>

(* Mutant: pending invitations do not matter. *)
InviteAlwaysInserts(r) ==
    /\ pc[r] = "pending"
    /\ Continue(r, "insert")
    /\ UNCHANGED <<userVars, invVars, orgVars, history>>

(* ... and no invitation is pending; if one is, INVITATION_ALREADY_PENDING, *)
(* if two are, scalar_one_or_none raises.                                   *)
InviteCheckPending(r) ==
    /\ pc[r] = "pending"
    /\ IF PendingFor(arg[r]) # {} THEN End(r) ELSE Continue(r, "insert")
    /\ UNCHANGED <<userVars, invVars, orgVars, history>>

(* Mutant: the mail is forgotten. *)
InviteInsertSilent(r) ==
    /\ pc[r] = "insert"
    /\ \E i \in Inv, ro \in Offered :
          /\ state[i] = "unused"
          /\ state' = [state EXCEPT ![i] = "new"]
          /\ team' = [team EXCEPT ![i] = arg[r]]
          /\ invRole' = [invRole EXCEPT ![i] = ro]
    /\ End(r)
    /\ UNCHANGED <<userVars, orgVars, history>>

InviteInsert(r) ==
    /\ pc[r] = "insert"
    /\ \E i \in Inv, ro \in Offered :
          /\ state[i] = "unused"
          /\ state' = [state EXCEPT ![i] = "new"]
          /\ team' = [team EXCEPT ![i] = arg[r]]
          /\ invRole' = [invRole EXCEPT ![i] = ro]
          /\ arg' = [arg EXCEPT ![r] = i]
    /\ Goto(r, "send")
    /\ UNCHANGED <<userVars, orgVars, home, loaded, seen, history>>

(* The mail with the token is handed over. *)
InviteSend(r) ==
    /\ pc[r] = "send"
    /\ state' = [state EXCEPT ![arg[r]] = IF @ = "new" THEN "pending" ELSE @]
    /\ End(r)
    /\ UNCHANGED <<userVars, team, invRole, orgVars, history>>

(* accept_invitation: the row is looked up by its token, ... *)
Accept(r) ==
    /\ \E i \in Inv : state[i] = "pending" /\ Begin(r, "user", i)
    /\ UNCHANGED <<userVars, invVars, orgVars, history>>

(* ... the user by the exact email of the invitation, ... *)
AcceptLoadUser(r) ==
    /\ pc[r] = "user"
    /\ \/ \E u \in HasEmail("lower") : LoadUser(r, u)
       \/ HasEmail("lower") = {} /\ UNCHANGED <<loaded, seen>>
    /\ Goto(r, "join")
    /\ UNCHANGED <<userVars, invVars, orgVars, arg, home, history>>

(* What accept_invitation makes of the user: a new one, or another         *)
(* organization and role for the one it loaded.                            *)
Join(r, u, i) ==
    \/ /\ loaded[r] = NoUser
       /\ InsertUser(u, "lower", team[i], invRole[i])
       /\ UNCHANGED mixed
    \/ /\ loaded[r] = u
       /\ UpdateUser(r, team[i], invRole[i])

(* Mutant: accepted_at is not set. *)
AcceptCommitNoStamp(r) ==
    LET i == arg[r] IN
    /\ pc[r] = "join"
    /\ state[i] \notin {"revoked", "erased"}
    /\ \E u \in User :
          /\ Join(r, u, i)
          /\ admitted' = [admitted EXCEPT ![i] = @ \cup {u}]
    /\ End(r)
    /\ UNCHANGED <<invVars, orgVars, moved>>

(* Mutant: the row is written by a statement that does not mind its absence. *)
AcceptCommitUnchecked(r) ==
    LET i == arg[r] IN
    /\ pc[r] = "join"
    /\ \E u \in User :
          /\ Join(r, u, i)
          /\ admitted' = [admitted EXCEPT ![i] = @ \cup {u}]
    /\ state' = [state EXCEPT ![i] = "accepted"]
    /\ End(r)
    /\ UNCHANGED <<team, invRole, orgVars, moved>>

(* ... and user and accepted_at are written in one commit, which fails     *)
(* when the invitation has been deleted (StaleDataError) or a user to be   *)
(* inserted exists by now (unique email).                                  *)
AcceptCommit(r) ==
    LET i == arg[r] IN
    /\ pc[r] = "join"
    /\ state[i] \notin {"revoked", "erased"}
    /\ \E u \in User :
          /\ Join(r, u, i)
          /\ admitted' = [admitted EXCEPT ![i] = @ \cup {u}]
    /\ state' = [state EXCEPT ![i] = "accepted"]
    /\ End(r)
    /\ UNCHANGED <<team, invRole, orgVars, moved>>

(* revoke_invitation: load, refuse an accepted one, delete the row. *)
Revoke(r) ==
    /\ \E i \in Inv :
          state[i] \in {"new", "pending", "lapsed"} /\ Begin(r, "delete", i)
    /\ UNCHANGED <<userVars, invVars, orgVars, history>>

RevokeDelete(r) ==
    /\ pc[r] = "delete"
    /\ state' = [state EXCEPT ![arg[r]] =
                   IF @ \in {"accepted", "erased"} THEN "erased" ELSE "revoked"]
    /\ End(r)
    /\ UNCHANGED <<userVars, team, invRole, orgVars, history>>
-----------------------------------------------------------------------------
(* POST /auth/register: nobody has this email in any spelling, ... *)
Register(r, s) ==
    /\ \A u \in User : email[u] \notin Spelling
    /\ Begin(r, "create", s)
    /\ UNCHANGED <<userVars, invVars, orgVars, history>>

(* ... the row is inserted and committed, ... *)
RegisterInsert(r) ==
    /\ pc[r] = "create"
    /\ \/ \E u \in User :
             /\ InsertUser(u, arg[r], NoOrg, "user")
             /\ arg' = [arg EXCEPT ![r] = u]
             /\ Goto(r, "load")
             /\ UNCHANGED <<home, loaded, seen>>
       \/ /\ HasEmail(arg[r]) # {}
          /\ End(r)
          /\ UNCHANGED userVars
    /\ UNCHANGED <<invVars, orgVars, history>>

(* A session that has loaded a user without an organization commits a new  *)
(* one; the user is updated in a second commit.                            *)
CreateHome(r, u) ==
    /\ \E h \in Org \ orgs :
          /\ orgs' = orgs \cup {h}
          /\ home' = [home EXCEPT ![r] = h]
    /\ LoadUser(r, u)
    /\ Goto(r, "assign")
    /\ UNCHANGED <<userVars, invVars, founder, arg, history>>

(* ... on_after_register, in a session of its own; ... *)
AfterRegister(r) ==
    /\ pc[r] = "load"
    /\ \/ row[arg[r]].org = NoOrg /\ CreateHome(r, arg[r])
       \/ /\ row[arg[r]].org # NoOrg
          /\ End(r)
          /\ UNCHANGED <<userVars, invVars, orgVars, history>>

(* Mutant: somebody who has an organization may set up another one. *)
SetupOrgAgain(r, u) ==
    /\ pc[r] = "idle"
    /\ email[u] # "none"
    /\ CreateHome(r, u)

(* setup_org_post, for a logged-in user without an organization. *)
SetupOrg(r, u) ==
    /\ pc[r] = "idle"
    /\ email[u] # "none" /\ row[u].org = NoOrg
    /\ CreateHome(r, u)

(* ... org_id and role of the user are written by the second commit. *)
AssignHome(r) ==
    /\ pc[r] = "assign"
    /\ UpdateUser(r, home[r], "admin")
    /\ founder' = [founder EXCEPT ![home[r]] = loaded[r]]
    /\ End(r)
    /\ UNCHANGED <<invVars, orgs, admitted, moved>>

(* profile_post: the email of a logged-in user becomes e, if nobody has    *)
(* it; the commit writes no other column.                                  *)
ProfilePost(u, e) ==
    /\ email[u] \notin {"none", e}
    /\ e \in Spelling => HasEmail(e) = {}
    /\ email' = [email EXCEPT ![u] = e]
    /\ moved' = (moved \/ email[u] = "lower")
    /\ UNCHANGED <<row, invVars, orgVars, reqVars, mixed, admitted>>

(* The request fails: nothing that is not committed stays. *)
Fail(r) ==
    /\ pc[r] # "idle"
    /\ End(r)
    /\ UNCHANGED <<userVars, invVars, orgVars, history>>

(* expires_at passes. *)
Expire(i) ==
    /\ Open(i)
    /\ state' = [state EXCEPT ![i] = "lapsed"]
    /\ UNCHANGED <<userVars, team, invRole, orgVars, reqVars, history>>

Next ==
    \/ \E r \in Req :
          \/ \E t \in Org : Invite(r, t)
          \/ InviteCheckPending(r)
          \/ InviteInsert(r) \/ InviteSend(r)
          \/ Accept(r) \/ AcceptLoadUser(r) \/ AcceptCommit(r)
          \/ Revoke(r) \/ RevokeDelete(r)
          \/ \E s \in Spelling : Register(r, s)
          \/ RegisterInsert(r) \/ AfterRegister(r) \/ AssignHome(r)
          \/ \E u \in User : SetupOrg(r, u)
          \/ Fail(r)
    \/ \E u \in User, e \in Email : ProfilePost(u, e)
    \/ \E i \in Inv : Expire(i)

Spec == Init /\ [][Next]_vars
-----------------------------------------------------------------------------
TypeOK ==
    /\ email \in [User -> Email \cup {"none"}]
    /\ row \in [User -> Rows]
    /\ state \in [Inv -> States]
    /\ team \in [Inv -> Org \cup {NoOrg}]
    /\ invRole \in [Inv -> Role]
    /\ orgs \subseteq Org
    /\ founder \in [Org -> User \cup {NoUser, Stranger}]
    /\ pc \in [Req -> Places]
    /\ arg \in [Req -> Inv \cup Org \cup Spelling \cup User \cup {NoArg}]
    /\ home \in [Req -> Org \cup {NoOrg}]
    /\ loaded \in [Req -> User \cup {NoUser}]
    /\ seen \in [Req -> Rows]
    /\ mixed \subseteq User
    /\ admitted \in [Inv -> SUBSET User]
    /\ moved \in BOOLEAN

(* A revoked invitation opens nothing any more, even to a request that     *)
(* loaded it before it was deleted (invitation_service.py:165-166, 194).   *)
RevokedIsFinal ==
    [][\A i \in Inv : state[i] = "revoked" => state'[i] = "revoked"]_vars

(* The rows that an account has come by: as it was registered, as the      *)
(* founder of an organization, and by accepting an invitation.             *)
Sources(u) ==
    {NewRow}
        \cup {[org |-> o, role |-> "admin"] : o \in {p \in Org : founder[p] = u}}
        \cup {[org |-> team[i], role |-> invRole[i]] :
                 i \in {j \in Inv : /\ u \in admitted[j]
                                   /\ state[j] \in {"accepted", "erased"}}}

(* An account is only ever in an organization that was created for it or   *)
(* that itself let it in by an accepted invitation: neither registration   *)
(* nor setup-org nor a change of address nor a lost race leads into        *)
(* another one (invitation_service.py:138-166, auth.py:74-90).             *)
OnlyFoundersAndInvited ==
    \A u \in User : \E s \in Sources(u) : row[u].org = s.org

(* However often and however many at once present its token, an invitation *)
(* lets in one account, unless an account of the invited address was       *)
(* renamed: then the next one to accept makes another                      *)
(* (invitation_service.py:133-163, dashboard/routes.py:260-262).           *)
OneAccountUnlessMoved ==
    moved \/ \A i \in Inv : \A u, v \in admitted[i] : u = v

(* org_id and role of a user were given to it together.  Only a commit     *)
(* that keeps what another one changed since it loaded the row can mix     *)
(* them, until the next one that does not; even then the role is one that  *)
(* the account was given once, so that an account that has never been an   *)
(* administrator anywhere does not become one by an overlap                *)
(* (invitation_service.py:138-142, auth.py:88-90, routes.py:215-218).      *)
RoleFitsUnlessMixed ==
    \A u \in User :
        \/ row[u] \in Sources(u)
        \/ u \in mixed /\ \E s \in Sources(u) : row[u].role = s.role

(* A request that found no organization in row u writes it, although it    *)
(* has changed since.                                                      *)
AssignsLate(u) ==
    \E r \in Req : /\ pc[r] = "assign" /\ pc'[r] = "idle"
                   /\ loaded[r] = u /\ Stale(r)

(* Who belongs to an organization leaves it only by an invitation to       *)
(* another: neither the hook after registration nor a setup-org form sent  *)
(* twice, or beside an acceptance, moves an account that has one, unless   *)
(* it joined after the request found no organization in its row            *)
(* (auth.py:74-90, routes.py:197-218).                                     *)
StaysUnlessInvited ==
    [][\A u \in User : row[u].org \notin {NoOrg, row'[u].org} =>
         \/ \E i \in Inv : u \in admitted'[i] /\ team[i] = row'[u].org
         \/ AssignsLate(u)]_row

(* Requests that found no pending invitation for t and are to insert one. *)
Inserting(t) == {r \in Req : pc[r] = "insert" /\ arg[r] = t}

(* The check and the insert are two statements and no constraint backs     *)
(* them, but the invitations pending for one organization never outnumber  *)
(* the requests in flight (invitation_service.py:39-66).                   *)
PendingBounded ==
    \A t \in Org :
        Cardinality(PendingFor(t)) + Cardinality(Inserting(t))
            <= Cardinality(Req)

(* What request r has committed and is to finish: an invitation that needs *)
(* its mail, a user that needs an organization, an organization that needs *)
(* an administrator.                                                       *)
Finishing(r) ==
    CASE pc[r] \in {"send", "load"} -> {arg[r]}
      [] pc[r] = "assign" -> {home[r], loaded[r]}
      [] OTHER -> {}

(* What needs finishing. *)
HalfDone ==
    {i \in Inv : state[i] = "new"}
        \cup {u \in User : email[u] # "none" /\ row[u].org = NoOrg}
        \cup {o \in orgs : founder[o] = NoUser}

(* What nobody finishes any more. *)
Orphans == HalfDone \ UNION {Finishing(r) : r \in Req}

(* What a request commits in several steps is finished by it, unless it    *)
(* ends without a further write, having failed: nothing else leaves an     *)
(* invitation that blocks another one for seven days while nobody has its  *)
(* token, a user without an organization or an organization without an     *)
(* administrator, and none of them comes back once it is settled           *)
(* (invitation_service.py:66-89, auth.py:84-90, routes.py:208-218).        *)
OrphansOnlyByFailure ==
    [][\A x \in Orphans' \ Orphans :
          \E r \in Req : /\ x \in Finishing(r) /\ pc'[r] = "idle"
                         /\ UNCHANGED <<userVars, invVars, orgVars>>]_vars
-----------------------------------------------------------------------------
(* The inductive invariant behind these properties (MembershipProofs).     *)

(* What a request is about. *)
ArgInv ==
    \A r \in Req :
        /\ pc[r] \in {"pending", "insert"} => arg[r] \in Org
        /\ pc[r] \in {"send", "user", "join", "delete"} =>
              arg[r] \in Inv /\ state[arg[r]] # "unused"
        /\ pc[r] = "create" => arg[r] \in Spelling
        /\ pc[r] = "load" => arg[r] \in User /\ email[arg[r]] # "none"
        /\ pc[r] = "assign" =>
              /\ loaded[r] \in User
              /\ home[r] \in orgs /\ founder[home[r]] = NoUser

(* An organization is created by one request for one user. *)
HomeInv ==
    /\ \A o \in Org \ orgs : founder[o] = NoUser
    /\ \A q, r \in Req :
          pc[q] = "assign" /\ pc[r] = "assign" /\ home[q] = home[r] => q = r

(* What a session knows of the row it has loaded. *)
LoadedInv ==
    \A r \in Req :
        /\ pc[r] \notin {"join", "assign"} => loaded[r] = NoUser
        /\ pc[r] = "assign" => seen[r].org = NoOrg
        /\ loaded[r] # NoUser => email[loaded[r]] # "none"

(* An address names one account, and an account that an invitation let in  *)
(* or is about to has the invited one.                                     *)
EmailInv ==
    /\ \A u, v \in User : email[u] = email[v] /\ email[u] \in Spelling => u = v
    /\ ~moved =>
          /\ \A i \in Inv : \A u \in admitted[i] : email[u] = "lower"
          /\ \A r \in Req : pc[r] = "join" /\ loaded[r] # NoUser
                               => email[loaded[r]] = "lower"

UnusedInv ==
    /\ \A i \in Inv : state[i] = "unused" => admitted[i] = {}
    /\ \A i \in Inv : team[i] = NoOrg => state[i] = "unused"
    /\ \A u \in User : email[u] = "none" => row[u] = NewRow

FinitePending == \A t \in Org : IsFiniteSet(PendingFor(t))

IInv ==
    /\ TypeOK /\ ArgInv /\ HomeInv /\ LoadedInv /\ EmailInv /\ UnusedInv
    /\ FinitePending
    /\ OnlyFoundersAndInvited /\ OneAccountUnlessMoved /\ RoleFitsUnlessMixed
    /\ PendingBounded
=============================================================================
