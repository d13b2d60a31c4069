# vorgo in TLA+

This directory specifies the parts of vorgo (a FastAPI backend for multi-tenant
SaaS products, `src/app`) whose correctness depends on the order in which
concurrent requests, Redis commands, database commits and webhooks happen. TLC
checks each specification on a small instance; TLAPS proves the safety properties
of all of them, and three refinements, for every instance.

    tlc -workers 2 -config MCSignIn.cfg MCSignIn
    tlapm SignInProofs.tla

## 1. The system

One or more `uvicorn` processes serve requests on an event loop; an `arq`
worker runs mail jobs and a daily cron job. Everything that outlives a request
is in PostgreSQL (rows) or Redis (keys with a time to live). Two facts decide
how the parts interact:

* **A handler is interrupted at every `await`.** A Redis command, a `SELECT` and
  a `COMMIT` are each atomic; what lies between two of them is not. Redis code
  opens no transaction except the `MULTI/EXEC` of `rotate_refresh_token`.
* **A session writes late, and writes what changed.** `get_db`
  (`core/database.py:31-39`) commits when the request ends, and with FastAPI
  0.115 before the response is sent; a failure rolls everything back. SQLAlchemy
  updates only the columns whose value differs from the one it loaded, under
  READ COMMITTED, and no query locks a row or compares a version.

| Component | State it keeps | Operations | Hard behaviour | What makes it correct |
|---|---|---|---|---|
| Refresh tokens (`api/v1/auth.py`, `core/security/tokens.py`, `jwt.py`) | Redis keys `rt:{user}:{jti}` | login, refresh (rotation), logout of all devices, reuse detection | check and rotation are two commands, revocation is KEYS then DEL; lost responses; failing commands | a retired token is never usable again; a token is rotated once; a revocation ends what it is to end; no delivered token is unknown |
| Access tokens and sign-in (`api/v1/auth.py`, `core/dependencies.py`, `dashboard/routes.py`, `admin/auth.py`) | `users.is_active`; signed tokens and cookies at the clients | password, challenge, exchange of one token for another, deactivation, the logouts | nothing of it is stored; tokens are exchanged for tokens of another kind, long after a password was checked | what a login has led to ends with it; an inactive user opens nothing |
| Login lockout (`core/auth.py`) | Redis counter per email, with a time to live | `UserManager.authenticate` from the API and the dashboard | GET, INCR, EXPIRE and DEL are separate, any may fail | a bound on wrong passwords; a counter that goes away |
| Two-factor authentication (`api/v1/auth.py`, `core/security/two_factor.py`) | three columns of `users` | setup, verify, disable, challenge | lost updates between load and commit; lost responses | a code is used once; 2FA on implies a secret, and one the user was shown |
| Registration, organizations, invitations (`core/auth.py`, `services/invitation_service.py`, `dashboard/routes.py`) | `users`, `organizations`, `invitations` | register and its hook, setup-org, changes of the email, invite, accept, revoke, expiry | check-then-insert, commits in two steps, overlapping commits of one row, spelling and change of an email | an account is only in organizations it founded or that let it in; an invitation lets in one account; organization and role were given together; a revoked invitation opens nothing; what is committed in steps is finished |
| Billing (`services/billing/*`, `webhooks/stripe.py`, `api/v1/billing.py`, `dashboard/routes.py`) | billing columns of `organizations` | checkout, webhooks of four gateways, the simulated Payoneer checkout | events delivered twice, late, out of order, at once; unique identifiers; four notions of who an event is for | an organization only gets its own subscription, customer and plan; columns tell what one event tells; an answered event was shown, or lost in a way that has a name |
| Feature flags (`services/feature_flag_service.py`, `admin/views.py`) | rows, and a cache of 10 minutes | read, change, invalidate | invalidation precedes the commit; a reader fills the cache late | stale only after a named race; a change counts in the end |
| Tenant middleware (`core/middleware.py`) | caches for subdomain (1 h) and plan (10 min) | resolve | never invalidated | a change counts in the end |
| Trial notices (`tasks/billing_tasks.py`, `services/email_service.py`) | the arq queue | daily cron, mail tasks | a window of a day from whenever the job starts, a loop that one failure ends, jobs that run again | every trial is warned of, at most twice; a subscriber is not |
| Rate limiting, roles and tenancy | counters of slowapi; none | | | pure decisions |
| Admin panel, pages, migrations, deployment | | generated or read-only | | |

`PROJECT.json` lists the components with their source files, and every hazard
at the line where it bites.

## 2. The modules

| Module | Specifies | Proofs |
|---|---|---|
| `SessionLedger` | abstract: each session is fresh, live, then dead | |
| `RefreshTokens` | the sessions of refresh tokens, one action per Redis command; implements `SessionLedger` | `RefreshTokensProofs` |
| `TokenHeirs` | `RefreshTokens` with what each token was exchanged for | `RefreshTokensProofs` |
| `SignIn` | composes `RefreshTokens` with all else a client may hold; its logins implement `SessionLedger` too | `SignInProofs` |
| `Lockout` | `UserManager.authenticate` | `LockoutProofs` |
| `TwoFactorRecord` | abstract: the 2FA columns if every handler ran at once | |
| `TwoFactor` | one user's 2FA row and the requests on it; implements `TwoFactorRecord` until an update is lost | `TwoFactorProofs` |
| `Membership` | one mailbox, its accounts, and the organizations that invite it or that its owner creates | `MembershipProofs` |
| `Billing` | organizations, subscriptions at four gateways, and webhooks | `BillingProofs` |
| `Caches` | the caches of flags, subdomains and plans | `CachesProofs` |
| `TrialNotices` | the daily trial job, its mail tasks, and the clock | `TrialNoticesProofs` |
| `MC...` | instances of these for TLC | |

Common conventions: `Req` is the set of handlers (requests) that may be in
flight at once, `pc[r]` is what handler `r` awaits next, and `"idle"` means that
the slot is free; any number of requests run one after another in a slot. An
action is the code from one `await` that touches shared state up to the next.
Variables marked *history* do not influence the system; they exist to state
properties. An operator introduced by `Mutant:` is a plausible mistake in the
definition that follows it; no action uses it, and putting it in that
definition's place must violate the property named with it in `PROJECT.json`.

### RefreshTokens

State: `store` is the set of keys in Redis, `minted` the signed JWTs,
`delivered` those a client got, `expired` those past `exp`; `tok`, `new` and
`keys` are locals of the handlers (`old_jti`, `new_jti`, the answer to KEYS).

| Action | Code |
|---|---|
| `Issue`, `StoreRefreshToken` | `login`, `login_with_refresh`: sign a token, SETEX |
| `Refresh`, `RefreshTokenExists`, `RotateRefreshToken` | `refresh_tokens`: verify the JWT, EXISTS, `MULTI DEL SETEX EXEC` |
| `RevokeKeys`, `RevokeDelete` | `revoke_all_refresh_tokens`, after reuse or `LogoutAll` |
| `Reply`, `Fail` | the response arrives, or is lost; a command or the process fails |
| `ExpireJwt`, `ExpireKey` | time |

The model is of one user: keys carry the user's id, and no operation touches
another's. `TokenHeirs` adds `heirs`, the tokens each token was exchanged for, to
say how many successors a token gets where the code does not keep it to one.

### SignIn

State: that of `RefreshTokens`, and `active` (`users.is_active`), `held`, what
clients hold of each login besides refresh tokens (a pre_2fa token, an access
token or the dashboard's cookie, the panel's cookie), and as history `opened` and
`root`, the login each token descends from.

| Action | Code |
|---|---|
| `PasswordLogin`, `Pre2faLogin`, `DashboardLogin`, `PanelLogin` | the four ways in that check a password, and `is_active` |
| `ChallengeLogin`, `TokenForAccess`, `RotateWithin` | a pre_2fa, access or refresh token is exchanged; only the last does not look at `is_active` |
| `LogoutAllDevices` | needs a valid access token; the other logouts only make the client forget (`Forget`) |
| `SetActive` | the switch in the admin panel |

Every other step is a command of `RefreshTokens` that creates no token. A login is
alive while a client holds anything of it, or Redis or a handler has a token that
descends from it. The server keeps no record of logins, so that they behave as a
ledger (`LoginsSpec`) is a property of the code as a whole: reuse, races and long
chains of exchanges included.

### Lockout

State: `attempts` and `ttl` are the counter and whether it has a time to live;
`wrong` counts wrong passwords evaluated since the counter was last absent,
`failures` the commands and processes that failed, at most `MaxFailures`. When
anything in the `try` raises, a Redis command or the verification itself, the code
falls back to the password alone (`TryFails`, `Fallback`).

### TwoFactor

State: `row` (the three columns) and, per request, `seen`, the row as its
session loaded it. The Commit actions write the columns the handler assigned. A
TOTP code stands for the secret it was computed from, a backup code for its
batch and place. `stale` records that a request wrote a row that had changed
since it loaded it, `shown` what responses told the user, and `lost` the secrets
whose response did not arrive after its commit.

`TwoFactorRecord` is what the handlers amount to while `stale` is FALSE: one step
each, with the checks of the handler and the columns of the row as they are at its
commit. A batch of codes counts as drawn there once its request has committed or
failed (`Undecided` are the others); after a lost update nothing is promised.

### Membership

State: user rows by id, each with its address, organization and role; the life of
each invitation; the organizations created so far, and whom each was created for
(`founder`). An organization comes into being by the registration of an account or by
setup-org, of this mailbox's owner or, in `Init`, of a `Stranger`; any that has an
administrator invites, its own founder included once the founder has left or is
spelled differently. An invitation is for the mailbox in lower case; an account may
spell it as its owner typed it, or have been moved to another address. `users.email`
is unique and compared exactly.

`InsertUser` and `UpdateUser` are the two ways a request writes a user; an acceptance
uses either (`Join`). `UpdateUser` writes the columns that differ from the loaded row,
so a change that the session has not seen (`Stale`) may stay in the other column:
`mixed` are the users whose row came about so, until a later commit rewrites it.
Registration is three commits: the user (fastapi-users), the organization, the
user's `org_id` and role; setup-org is the last two of them. `ProfilePost` changes an
address. As history, `admitted` is whom each invitation has let in, and `moved` that an
account gave up the invited address. `Sources` are the rows that an account has come
by, as a founder or through an accepted invitation.

An invitation is committed before its mail is handed over, a user before its
organization, an organization before its administrator. `HalfDone` are those that miss
the second half, `Finishing` those that a request still has in hand, and `Orphans` the
rest: an invitation that blocks the next one while nobody has its token, a user without
an organization, an organization nobody administers.

### Billing

State: `bought` and `log` are outside the program, what a subscription was
bought as, and the events of its gateway, in order. `row` holds the billing
columns of each organization, `removed` the organizations a superuser has deleted.
`Deliver` is any delivery of any event that was announced: repeated, late, out of
order, two at once.

| Action or operator | Code |
|---|---|
| `Deliver`, `LookBySubscription`, `LookByCustomer` | the SELECTs of a handler, one after another: by the id in the event (`ById`), by subscription, by customer; which ones a gateway's handler sends, `AfterId` and `AfterSubscription` say |
| `Handled` | the assignments of the four handlers |
| `Updated`, `Refused` | the UPDATE of the columns that differ from the loaded ones; it fails on a unique identifier or a deleted row, and is not sent when nothing differs |
| `Commit`, `Reject`, `Ignore`, `Fail` | 200 after the UPDATE, 500, 200 when no organization was found, and a request that ends before |
| `PayoneerComplete` | the dashboard's simulated checkout, a payment whose identifiers nobody else has; it loads and commits like a webhook |
| `Remove` | a superuser deletes an organization |

`Tells` says what the events of each gateway carry, given what its checkout sent
along: whether the organization is named (`tagged`); whether the payer is known, which
PayPal and Payoneer may leave out; and, for Stripe, the price paid now, which after a
change of plan is another one than the metadata says, may be that of the plan "free",
or one the settings do not know. The handlers treat `past_due` and `unpaid` as active,
so the model has three statuses, and the runs report two of them (`Reported`). The
`stripe_*` columns repeat two others and are left out. The Lemon Squeezy handler reads
the custom data from the wrong object (finding `billing_lemon`): whatever the checkout
sent along, its events are untagged as far as the handler sees, and one finds an
organization only by the subscription it already has.

History: `Shows` compares the columns of a row with what an event tells, never with
the handler that wrote them. `excused` are the requests whose answer may cover up a
loss: another event's commit, or a deletion, changed the organization since they
loaded it, or their event named no organization that exists and none had its
subscription. `shown` and `lost` record, at the first 200 for an event, whether the
row then showed it, or an excused request lost it. `mixed` are the organizations last
written by an excused request.

### Caches

State: `row` and `cache`, what the database and Redis say under each key; per
request, what it read (`got`) and where it is. A flag's value is its whole rule
set, a subdomain's the active organization, a user's the plan. Flags are written
by `Save`, `Invalidate`, `Commit`: sqladmin calls `on_model_change` before it
commits. The other two change behind the cache's back (`Change`). A failing
Redis command goes on to the database, except for the plan, which stays "free"
(`GetFails`). On creation the model has no name yet when `on_model_change` runs,
so nothing is cleared (`InvalidateFails`). `raced` is the history variable that
names the three ways in which an entry may come to be older than its row.

### TrialNotices

State: `clock` in ticks, `ends` and `trialing` from the organizations' rows, the
job (`due`, `running`, `lastRun`, `todo`, `to`) and the mail tasks (`queued`,
`sent`). `TrialExpiryCheck` is the SELECT, `LoadAdmins` and `SendEmail` the two
loops. In production `send_email` raises when it cannot enqueue, which ends the
job (`Abort`); arq runs a job again only if its worker was shut down or died
(`Cancel`, `SentTwice`). A job is killed after five minutes, so the clock stands
still while it runs. `excused` records the warnings that a named failure cost:
a job that failed before it came to them, a refused mail, or jobs more than a
day apart. A workspace made by setup-org has `trial_ends_at` = now (`SetupOrg`), so
it is never warned of. `left` are the organizations that stopped being in trial
since the running job looked.

## 3. The runs

| Run | Instance | States | What it shows |
|---|---|---|---|
| `refresh_tokens` | 2 handlers, 3 tokens, 1 login followed | 2,563,606 | the safety properties of refresh tokens and logins, and both refinements of `SessionLedger` |
| `lockout` | 3 requests, limit 5, 4 failures, fair | 554,780 | wrong passwords are bounded, every lock lifts |
| `two_factor` | 2 requests, 2 secrets, 2 batches of 2 codes | 866,873 | the record of 2FA is kept, and its promises hold, but for lost updates; who has 2FA on was shown the secret, but for a lost response or a lost update |
| `membership` | 2 requests, 2 users, 2 organizations, 2 invitations | 3,219,806 | entry into organizations and leaving them, one account per invitation, roles, revocations, pending invitations, and what is committed in steps |
| `billing` | 2 requests, 2 organizations (1 deleted at most), 2 subscriptions, 1 payer, 2 plans, 2 events | 4,790,585 | ownership, columns of one event each, answered events shown or lost in a named way, conflicts |
| `caches` | 2 requests, 1 flag, 1 user, 2 values, fair | 320,601 | a stale entry has a named cause, and does not last |
| `trial_notices` | 2 organizations, days of 3 ticks, 9 ticks, 1 rerun | 3,973,936 | a trial is warned of unless a named failure costs it, at most twice; subscribers are spared |

Five more runs each refute one sentence of the code's documentation
(`findings` in `PROJECT.json` quote them):

| Run | Refuted | How |
|---|---|---|
| `refresh_one_successor` | a second use of a token is detected | two refreshes pass EXISTS before either rotates |
| `refresh_logout_all` | logout-all logs out every device | a refresh past EXISTS stores its token after the DEL |
| `two_factor_code_once` | a backup code works once | two challenges load the row before either commits |
| `billing_lemon` | a Lemon Squeezy event reaches the organization in its custom data | the custom data is looked for in the wrong object; the event is answered 200 |
| `caches_invalidated_on_save` | saving a flag invalidates its cache | a reader stores the old rules between the DEL and the commit |

The passing runs say what remains true all the same: `LatePresentationFails`
(a token has two successors only if both handlers had started before either
rotated it; by `FewSuccessors`, section 4, it never has more than there are
handlers), `RevocationComplete` (what was usable when the revocation began is
not when it ends), `LoginsSpec` (a device that slips through a logout of all
devices does so within its own login), `RecordSpec` and `OnceUnlessStale` (a code is used twice only by
way of a lost update), `PendingBounded`, `StaysUnlessInvited`,
`OneEventUnlessMixed`, `AckedShownUnlessLost`,
`FlagFreshUnlessRaced`. Where a property names the race that excuses it, the race is
possible: of what the race leads to, only the rest of the property speaks.

### Bounds

* **Two handlers** are what every race in these components needs: each is
  between two requests of one user, one account, one mailbox or one
  organization. `lockout` has three, since the overshoot it bounds grows with
  the requests in flight. The proofs cover any number.
* **Three tokens** let one token have two successors, or a chain of two
  rotations overlap a revocation.
* **MaxFailures = MaxAttempts - 1** is sharp for `LockLifts`: five lost EXPIREs
  would leave a counter at the limit without a time to live, and a locked
  account sends no EXPIRE any more, so it would never be unlocked.
* **One login** followed by name, among any number of others (`NoLogin`), may be
  opened in each of the four ways and outlived by tokens of the others.
* **Two secrets, batches and codes per batch** tell an old one from a new one,
  and a used code from its neighbour. The code draws 8 codes per batch.
* **Two users** let one account give the mailbox up and another take it, or two
  spell it differently. **Two invitations** let two be pending for one organization,
  or one for each of two. **Two organizations** let an account found one and be
  invited by the other, or back into its own. `Offered` are two of the three roles: a
  role is only copied, so two tell the one offered from the one held.
* **Two events** of one or of two subscriptions reorder, repeat and overlap;
  one payer with two organizations reaches the unique constraint; two plans tell
  the one in the metadata from the one paid. `Reported` are the statuses active and
  canceled: the third one is stored like them, and every organization starts in it.
  `MaxRemoved = 1` leaves one organization to find.
* **One flag and one user** in `caches`: no step relates two keys, and the two
  have the two kinds of life. A subdomain is read like a flag and changes like a
  plan. Two values tell an old one from a new one, also when it changes back.
* **Days of three ticks and nine of them** in `trial_notices`: three jobs, each
  up to two ticks late, so that the windows of two may meet, overlap, or leave a
  tick between them; a trial of five days is longer than the four days of the
  window, as the real 14 are. Every organization has one recipient.

Handlers, tokens, codes, invitations and so on are interchangeable, so the runs
without a liveness property use symmetry. `two_factor`, its violation run and `billing`
do not check for deadlock: secrets, batches, subscriptions and events are finite
pools there, and when they are used up there may be no request left to make. The
other models never stop.

### Fairness

`Lockout!FairSpec` and `Caches!FairSpec` assume weak fairness of what a started
request does next: the event loop resumes every coroutine whose command was
answered, and a command that is not answered is a failure, which both models
have. They also assume weak fairness of `Lapse`: time passes, and Redis drops a
key at the end of its time to live. No fairness is assumed of clients or of
failures. In `ChangesCount` the premise is that the row stops changing; readers
may go on for ever.

## 4. The proofs

Each module of proofs shows that an invariant `IInv`, defined at the end of the
module it is about (`LockoutProofs` and `CachesProofs` define theirs), holds
initially and is kept by every step, with one lemma per conjunct and in it one step
per action; the theorems follow from it. The assumptions are those named in the
modules, on constants only: that the null values are none of the others, that some
sets are finite or disjoint, that limits are numbers. `FewSuccessors` and
`LocksAreTimed` state a further one each, where it is needed.

`RefreshTokensProofs`, for every set of tokens and of handlers: `TypeCorrect`,
`Retirement` (GoneStaysGone), `LateRefresh` (LatePresentationFails), `Revocation`
(RevocationComplete), `ReuseDetection` (ReuseOnlyAfterRetirement), `Delivery`
(DeliveredAccounted) and `Refinement` (LedgerSpec). None of these is inductive
alone; `IInv` adds what the handlers know:

* `PendingInv`: a token that a handler has yet to store is minted, was never in
  Redis and is no other handler's. Without it a slow SETEX could bring a retired
  token back.
* `PresentedInv`: a handler about to rotate was given a token that was in Redis
  when it started. EXISTS is answered from the present, so a token it finds had
  been there at the start, or was stored since, by a handler that had not
  answered, so no client had it.
* `RevokeInv`: what was in Redis at the start of a revocation and still is, is in
  the answer to KEYS. Tokens only leave (`GoneStep`), so DEL covers them.

The refinement maps a token to live if its key is in Redis, dead if it has left,
fresh otherwise; Retirement gives the step.

`FewSuccessors` (of `TokenHeirs`, for every finite set of handlers): a token is
exchanged for no more tokens than there are handlers, however often and however
long after it is presented. Its invariant `HeirsInv` counts the successors of a
token and the handlers about to give it another. A handler joins them only by
finding the token in Redis, and a token that is in Redis was never exchanged, so
the sum is then at most the number of handlers; an exchange moves one from the
second count to the first. The bound is reached, with two handlers, in the
counterexample of `refresh_one_successor`.

`SignInProofs`, for every set of logins besides: `TokensAsBefore` (every behaviour
of `SignIn` is one of `RefreshTokens`, so all of the above holds there),
`SignInTypeCorrect`, `NothingOpened` (InactiveOpensNothing) and `LoginsRefinement`
(LoginsSpec). The argument is one lemma, `StepKinds`: every step opens one login
for an active user, or brings none to life. It rests on `TokenSources`: a refresh
token that is in Redis or on its way there was so before, or was created in this
step, and then `Descends` says whose it is.

`LockoutProofs` proves `TypeCorrect`, `BoundedAttempts` (WrongBounded) and
`TimeToLive` (TtlOwed) for every finite set of requests, limit and number of
failures. `CounterInv` counts the requests that passed the check and have yet to
count themselves: the counter and they together stay below the limit plus the
requests. It is what makes the bound on the counter inductive; `WrongInv`
carries it over to wrong passwords. Two theorems say what a lock means.
`LocksAreTimed`, the safety half of LockLifts: while fewer commands fail than
the limit, a counter that locks the account has its time to live, or a request is
about to set it; for a counter without one is covered by failures and by requests
that owe an EXPIRE, and the failures alone do not reach the limit.
`LocksAreEarned`: a locked account has seen as many wrong passwords since the last
reset as the limit, but for one per request; `EarnedInv` counts the requests that
checked a wrong password before the reset and add to the counter after it.

`TwoFactorProofs`, for every set of requests, secrets and batches: `TypeCorrect`,
`SpentStaysSpent`, `UsedOnce` (OnceUnlessStale), `FlagFits` (FlagFitsUnlessStale),
`BatchesDoNotMix` (OneBatch), `SecretsKnown` (SecretKnown) and `RecordRefinement`
(RecordSpec). `BatchInv` says that the codes of a batch that is not committed are in
no row, loaded row, response or request; `LoadedInv` that a fresh request has seen the
row and decided by it. So a commit that is not stale changes the row it has seen
(`CommitsOnSeen`), and its handler's checks hold of the row as it is: that is the
refinement, one step of the record per commit. By `BatchInv` no two requests have the
same batch, so a commit or a failure takes exactly one batch out of `Undecided`.
SecretsKnown names the two accidents that lock a user out, a lost response and a lost
update; the second leaves 2FA on without a secret when a verification that had loaded
the row before a disable commits after it.

`MembershipProofs`, for every finite set of requests, and users, invitations and
organizations that are different things: `TypeCorrect`, `Revocation` (RevokedIsFinal),
`OnlyInvited` (OnlyFoundersAndInvited), `OneAccount` (OneAccountUnlessMoved),
`RolesFit` (RoleFitsUnlessMixed), `StaysPut` (StaysUnlessInvited), `FewPending`
(PendingBounded) and `OrphansOfFailures` (OrphansOnlyByFailure). `SourcesGrow` says that
what an account has come by stays: an invitation that let somebody in is never
unaccepted, and a founder stays one. Every write of a row (`RowStep`) is then of a row
that is a source, or, where the session had not seen the row as it is, of one column of
a source beside a column of the old row. That an account founds only what its own
request created is `HomeInv`: no two requests have the same organization in hand. In
StaysPut, whoever comes to `AssignHome` has loaded an account without organization, so
either the account still has none, or it has joined one since (`AssignsLate`).
`EmailInv` says that, as long as nobody gave the invited address up, whoever an
invitation let in or is about to has it, and that only one account can. For
PendingBounded the sum of pending invitations and requests about to insert one grows
only when a request finds none pending, and is then at most the number of requests. For
OrphansOnlyByFailure, a step that commits a first half has the second in hand; what a
request has in hand it lets go of by finishing it, or by ending without a write
(`FinishingStep`, `HalfDoneStep`).

`BillingProofs`, for any number of organizations, subscriptions, payers, plans and
events: `TypeCorrect`, `SubscriptionsOwned`, `CustomersOwned`, `PlansOwned`,
`ColumnsOfOneEvent` (OneEventUnlessMixed), `AnswersShown` (AckedShownUnlessLost) and
`Refusals`. `RequestInv` says that a request that has found an organization has the one
its subscription was bought for; that is where the three lookups of the handlers meet
(`FoundOwn`), the one by customer resting on `UniqueInv`: no two organizations have a
customer in common, as every webhook that would make them is refused. The columns are
then each of a purchase of their organization, whichever of two overlapping commits
wrote them. `SeenInv` carries the other two: of what a request without excuse has
loaded, a column was changed only by its own event, delivered twice at once, and then
to what its handler makes of it. So the UPDATE of the columns that differ leaves the
whole of `Handled` (`UpdatedFacts`), and `HandledFacts` shows, gateway by gateway, that
this is what the event tells.

`CachesProofs` proves `TypeCorrect` and `FlagFreshness` (FlagFreshUnlessRaced) for
every set of requests, keys and values, assuming that the three kinds of key are
disjoint. Two conjuncts make it inductive: `Marked` (while a save has yet to
commit, the entry is empty or marked) carries it over `Commit`, and `ReadInv`
(what a fresh request is about to store is what the row says) over `Store`.

`TrialNoticesProofs`, for any organizations, recipients, lengths of the day and of
trials, and hours of the jobs: `TypeCorrect`, `Warnings` (WarnedUnlessExcused),
`FewNotices` (NoticesBounded) and `SubscribersSpared` (OnlyTrials). `WarnInv`
extends Warnings to a job at work: a trial in or before the window of the last job was
warned of, is excused, or is in the job's hands. For FewNotices, `Told` is how
often the jobs of so many days can have had a trial in their window, which is as
long as a day and therefore begins on one day and ends on the next; `ToldStep`
(with `MidnightStep`, the arithmetic of days) says that only a job of a new day adds
to it, and `CountInv` that the notices, with the one a job or a cancelled job still
has to give, stay within it.

Only model-checked: `LockLifts` (but for its safety half, above) and
`ChangesCount`. Both are liveness under fairness, and the proofs would need the
ENABLED of their actions, which the prover does not treat.

## 5. What is not modelled

* That deactivation ends sessions: `refresh_tokens` never loads the user, so a
  deactivated user keeps refreshing until the refresh token is revoked or expires.
  `SignIn` has the step, and bounds what follows from it.
* A superuser who changes other columns of a user or organization in the admin panel.
* Events are finitely many and need not be delivered; that a gateway's retries
  get every event applied is not stated. It would not hold for events of a
  shared payer, which `RefusedOnlyIfShared` singles out.
* Password reset and email verification: they write `hashed_password` and
  `is_verified`, which no modelled step reads (`Lockout` and `SignIn` take a
  password as right or wrong).
* The deletion of users; that of organizations is in `Billing` only.
* Webhooks are taken to be the gateway's own. Those of PayPal and Payoneer carry no
  signature that the code checks, so for them this is an assumption.
* A refresh token that a challenge stored before its commit failed: `TwoFactor` counts a
  session when its response arrives.
* The evaluation of a flag's rules (`feature_flag_service.py:64-74`), a pure
  decision over what was read; request identifiers and security headers.
* In development a mail that cannot be enqueued is sent at once; `TrialNotices`
  is of production. The links of the mail tasks to SMTP are one step each.
* Rate limiting counts in slowapi; role checks and `TenantService` are pure
  decisions that no route calls yet.
* Changing the password revokes no refresh token, though `tokens.py:38` names it as
  an occasion to: no code calls the revocation then, so there is no step to model.
* Disagreements visible in the models that no run states: reuse detection is also set
  off by a token that was revoked rather than rotated; `setup` with 2FA on replaces
  the secret in use; accepting an invitation does not find an account spelled in mixed
  case; an accepted invitation can still be deleted by a revocation that had loaded
  it; the Payoneer handler leaves the end of the trial; a workspace made by setup-org
  is "trialing" with a trial that has ended; an acceptance that overlaps the
  registration of the same account may leave it in the inviting organization as
  "admin", though it was invited as "user" (`mixed`); a user has no organization when
  the hook after registration failed, where the comment of `models/user.py` knows this
  of super admins only; `dashboard/templates/dashboard/team.html:29` says that an
  invitation expires in 24 hours, the code gives it seven days.

## 6. Plan

1. Role checks (`core/rbac.py`) and `TenantService` in `SignIn`, once routes call
   them: a role is read at the start of a request and used after it.
2. `Billing`: `TrialNotices` over its webhooks instead of `Subscribed`, and a
   gateway that resends what is not answered, under fairness.
3. `Caches`: an abstract register whose reads lag, as a refinement.
4. The links of `Lockout` and `TwoFactor` to `SignIn`: a login that passed both.
