---------------------------- MODULE TrialNotices ----------------------------
(***************************************************************************)
(* The daily job that warns of trials about to expire                      *)
(* (app/tasks/billing_tasks.py, app/tasks/worker.py) and the mail queue it *)
(* feeds (app/services/email_service.py, app/tasks/email_tasks.py), in     *)
(* production.  The job looks at the trials that end three to four days    *)
(* from the moment it starts, both edges included, and enqueues one mail   *)
(* per recipient; nothing records who was warned.                          *)
(***************************************************************************)
EXTENDS Integers

CONSTANTS
    Org,
    Person,
    Recipients, \* the administrators of an organization, or else its users
    None,       \* no trial end
    PerDay,     \* ticks of the clock in a day
    TrialDays,  \* length of a trial
    Late,       \* ticks the job may start after midnight
    Extension,  \* ticks a gateway's trial may still run
    Horizon,    \* bound: the last tick
    MaxReruns   \* bound: jobs that are cancelled and run again

ASSUME TrialNoticesAssumption ==
    /\ Recipients \in [Org -> SUBSET Person]
    /\ PerDay \in Nat \ {0} /\ TrialDays \in Nat /\ TrialDays > 4
    /\ Late \in 0 .. PerDay - 1
    /\ Extension \subseteq Nat /\ Horizon \in Nat /\ MaxReruns \in Nat
    /\ None \notin Nat

VARIABLES
    clock,
    ends,       \* trial_ends_at
    trialing,   \* organizations whose status is "trialing"
    due,        \* today's job is enqueued
    running,    \* ... and runs
    lastRun,    \* when the last job started: its "now"
    todo,       \* organizations it has loaded and not come to
    left,       \* history: organizations no longer in trial since then
    to,         \* mails of the organization it is at, not yet enqueued
    queued,     \* mails in the queue
    sent,       \* history: mails sent
    touched,    \* history: trials that are not as registration made them
    excused,    \* history: warnings that a failure or a delay has cost
    reruns      \* history: jobs that were cancelled and run again

orgVars == <<ends, trialing, touched>>
jobVars == <<due, running, lastRun, todo, left, to>>
mailVars == <<queued, sent>>
vars == <<clock, orgVars, jobVars, mailVars, excused, reruns>>

Mails(S) == {m \in S \X Person : m[2] \in Recipients[m[1]]}
Mail == Mails(Org)

Init ==
    /\ clock = 0 /\ lastRun = 0
    /\ ends = [o \in Org |-> None]
    /\ trialing = {} /\ touched = {}
    /\ due = FALSE /\ running = FALSE
    /\ todo = {} /\ left = {} /\ to = {}
    /\ queued = [m \in Mail |-> 0]
    /\ sent = [m \in Mail |-> 0]
    /\ excused = {} /\ reruns = 0
-----------------------------------------------------------------------------
(* Registration starts a trial. *)
Register(o) ==
    /\ o \notin trialing \cup touched
    /\ ends' = [ends EXCEPT ![o] = clock + TrialDays * PerDay]
    /\ trialing' = trialing \cup {o}
    /\ UNCHANGED <<clock, touched, jobVars, mailVars, excused, reruns>>

(* setup-org makes an organization whose trial ends at once. *)
SetupOrg(o) ==
    /\ o \notin trialing \cup touched
    /\ ends' = [ends EXCEPT ![o] = clock]
    /\ trialing' = trialing \cup {o} /\ touched' = touched \cup {o}
    /\ UNCHANGED <<clock, jobVars, mailVars, excused, reruns>>

(* A webhook or the Payoneer callback writes the status and may clear, set *)
(* or leave the end of the trial.                                          *)
Subscribed(o, status, end) ==
    /\ o \in trialing \cup touched
    /\ trialing' = IF status = "trialing" THEN trialing \cup {o}
                                          ELSE trialing \ {o}
    /\ ends' = [ends EXCEPT ![o] = end]
    /\ touched' = touched \cup {o}
    /\ left' = IF running /\ status # "trialing" THEN left \cup {o} ELSE left
    /\ UNCHANGED <<clock, due, running, lastRun, todo, to>>
    /\ UNCHANGED <<mailVars, excused, reruns>>
-----------------------------------------------------------------------------
(* Midnight enqueues the job, if a worker is up.  A job takes no longer    *)
(* than five minutes: it does not see the clock move.                      *)
Tick(up) ==
    /\ clock < Horizon /\ ~running
    /\ due => clock % PerDay < Late
    /\ clock' = clock + 1
    /\ due' = \/ due
              \/ up /\ clock' % PerDay = 0
    /\ UNCHANGED <<orgVars, running, lastRun, todo, left, to>>
    /\ UNCHANGED <<mailVars, excused, reruns>>

(* Mutant: the edges of the window are left out. *)
ExpiringStrictly(now) ==
    {o \in trialing : /\ ends[o] # None
                      /\ ends[o] > now + 3 * PerDay
                      /\ ends[o] < now + 4 * PerDay}

(* Mutant: the window is two days wide. *)
ExpiringWide(now) ==
    {o \in trialing : /\ ends[o] # None
                      /\ ends[o] >= now + 2 * PerDay
                      /\ ends[o] <= now + 4 * PerDay}

(* Mutant: whoever has an end of a trial is warned of it. *)
ExpiringAnyStatus(now) ==
    {o \in Org : /\ ends[o] # None
                 /\ ends[o] >= now + 3 * PerDay
                 /\ ends[o] <= now + 4 * PerDay}

(* The organizations whose trial ends in the window of a job of time now.  *)
Expiring(now) ==
    {o \in trialing : /\ ends[o] # None
                      /\ ends[o] >= now + 3 * PerDay
                      /\ ends[o] <= now + 4 * PerDay}

(* Trials that end after the window of the last job and before that of a   *)
(* job of time now, which starts more than a day later.                    *)
Between(now) ==
    {o \in trialing : /\ now > lastRun + PerDay
                      /\ ends[o] # None
                      /\ ends[o] > lastRun + 4 * PerDay
                      /\ ends[o] < now + 3 * PerDay}

(* The job loads its organizations; one that was cancelled starts over.    *)
TrialExpiryCheck ==
    /\ due
    /\ due' = FALSE /\ running' = TRUE
    /\ lastRun' = clock
    /\ todo' = Expiring(clock)
    /\ excused' =
          excused \cup Mails((todo \ Expiring(clock)) \cup Between(clock))
    /\ UNCHANGED <<clock, orgVars, left, to, mailVars, reruns>>

(* Mutant: the organization takes the place of its recipients. *)
LoadOrganization(o) ==
    /\ running /\ to = {} /\ o \in todo
    /\ todo' = todo \ {o}
    /\ to' = {o}
    /\ UNCHANGED <<clock, orgVars, due, running, lastRun, left>>
    /\ UNCHANGED <<mailVars, excused, reruns>>

(* It loads the recipients of one of them. *)
LoadAdmins(o) ==
    /\ running /\ to = {} /\ o \in todo
    /\ todo' = todo \ {o}
    /\ to' = Mails({o})
    /\ UNCHANGED <<clock, orgVars, due, running, lastRun, left>>
    /\ UNCHANGED <<mailVars, excused, reruns>>

SendEmail(m) ==
    /\ running /\ m \in to
    /\ to' = to \ {m}
    /\ queued' = [queued EXCEPT ![m] = @ + 1]
    /\ UNCHANGED <<clock, orgVars, due, running, lastRun, todo, left>>
    /\ UNCHANGED <<sent, excused, reruns>>

Finish ==
    /\ running /\ todo = {} /\ to = {}
    /\ running' = FALSE /\ left' = {}
    /\ UNCHANGED <<clock, orgVars, due, lastRun, todo, to>>
    /\ UNCHANGED <<mailVars, excused, reruns>>

(* A mail cannot be enqueued, a query raises or the time is over: the job  *)
(* ends, without a retry.                                                  *)
Abort ==
    /\ running
    /\ running' = FALSE /\ todo' = {} /\ left' = {} /\ to' = {}
    /\ excused' = excused \cup to \cup Mails(todo)
    /\ UNCHANGED <<clock, orgVars, due, lastRun, mailVars, reruns>>

(* The worker is shut down or dies: the job stays in the queue.  What it   *)
(* was going to enqueue is still to be warned of.                          *)
Cancel ==
    /\ running /\ reruns < MaxReruns
    /\ running' = FALSE /\ due' = TRUE
    /\ todo' = todo \cup {m[1] : m \in to} /\ left' = {} /\ to' = {}
    /\ reruns' = reruns + 1
    /\ UNCHANGED <<clock, orgVars, lastRun, mailVars, excused>>

(* No worker comes back in time and the job expires. *)
Drop ==
    /\ due
    /\ due' = FALSE /\ todo' = {}
    /\ excused' = excused \cup Mails(todo)
    /\ UNCHANGED <<clock, orgVars, running, lastRun, left, to>>
    /\ UNCHANGED <<mailVars, reruns>>
-----------------------------------------------------------------------------
(* send_email_task: the mail is sent.  *)
SendEmailTask(m) ==
    /\ queued[m] > 0
    /\ queued' = [queued EXCEPT ![m] = @ - 1]
    /\ sent' = [sent EXCEPT ![m] = @ + 1]
    /\ UNCHANGED <<clock, orgVars, jobVars, excused, reruns>>

(* The provider refuses it: the task fails, without a retry. *)
SendFails(m) ==
    /\ queued[m] > 0
    /\ queued' = [queued EXCEPT ![m] = @ - 1]
    /\ excused' = excused \cup {m}
    /\ UNCHANGED <<clock, orgVars, jobVars, sent, reruns>>

(* The worker dies after the mail has left: the task runs again. *)
SentTwice(m) ==
    /\ queued[m] > 0 /\ reruns < MaxReruns
    /\ sent' = [sent EXCEPT ![m] = @ + 1]
    /\ reruns' = reruns + 1
    /\ UNCHANGED <<clock, orgVars, jobVars, queued, excused>>

Next ==
    \/ \E o \in Org :
          \/ Register(o) \/ SetupOrg(o) \/ LoadAdmins(o)
          \/ \E status \in {"trialing", "other"},
                end \in {None, ends[o]} \cup {clock + n : n \in Extension} :
                Subscribed(o, status, end)
    \/ \E up \in BOOLEAN : Tick(up)
    \/ TrialExpiryCheck \/ Finish \/ Abort \/ Cancel \/ Drop
    \/ \E m \in Mail :
          SendEmail(m) \/ SendEmailTask(m) \/ SendFails(m) \/ SentTwice(m)

Spec == Init /\ [][Next]_vars
-----------------------------------------------------------------------------
TypeOK ==
    /\ clock \in Nat /\ lastRun \in Nat /\ lastRun <= clock
    /\ ends \in [Org -> Nat \cup {None}]
    /\ trialing \subseteq Org /\ touched \subseteq Org
    /\ due \in BOOLEAN /\ running \in BOOLEAN /\ ~(due /\ running)
    /\ todo \subseteq Org /\ left \subseteq Org /\ to \subseteq Mail
    /\ queued \in [Mail -> Nat]
    /\ sent \in [Mail -> Nat]
    /\ excused \subseteq Mail
    /\ reruns \in Nat

Idle == ~running /\ todo = {}

(* A trial that no gateway has touched is warned of: once a job has had it *)
(* in or before its window, every recipient's mail is sent or in the       *)
(* queue, unless a job failed before it came to it, its mail was refused,  *)
(* or jobs more than a day apart left it out (billing_tasks.py:21-69).     *)
WarnedUnlessExcused ==
    \A m \in Mail :
        LET o == m[1] IN
        o \in trialing \ touched /\ Idle /\ ends[o] <= lastRun + 4 * PerDay
            => m \in excused \/ queued[m] + sent[m] > 0

(* Nobody is told of the same trial more than twice, but for jobs that     *)
(* were cancelled and run again: the windows of two jobs may meet or       *)
(* overlap, those of three never do (billing_tasks.py:20-30).              *)
NoticesBounded ==
    \A m \in Mail : m[1] \notin touched => queued[m] + sent[m] <= 2 + reruns

(* An organization that pays keeps the end of its trial when Payoneer took *)
(* the payment; it is not warned all the same: a job is at none that is no *)
(* longer in trial, but for those that left it since the job looked        *)
(* (billing_tasks.py:26-30, payoneer.py:53-60).                            *)
OnlyTrials ==
    running => todo \cup {m[1] : m \in to} \subseteq trialing \cup left
-----------------------------------------------------------------------------
(* The inductive invariant behind these properties (TrialNoticesProofs).   *)

(* What the job is at, or is to come to, is there, and it comes to each    *)
(* once; a trial that nothing has touched ends some day.                   *)
JobInv ==
    /\ ~running => to = {}
    /\ \A m \in to : m[1] \notin todo
    /\ \A o \in trialing \ touched : ends[o] \in Nat
    /\ todo \cup {m[1] : m \in to} \subseteq trialing \cup touched
    /\ \A m \in Mail :
          queued[m] + sent[m] > 0 => m[1] \in trialing \cup touched

(* A trial that came into the window, or before it, was warned of, or is   *)
(* about to be.                                                            *)
Warned(m) ==
    \/ m \in excused \/ queued[m] + sent[m] > 0
    \/ m[1] \in todo \/ m \in to

WarnInv ==
    \A m \in Mail :
        m[1] \in trialing \ touched /\ ends[m[1]] <= lastRun + 4 * PerDay
            => Warned(m)

Midnight(t) == t - (t % PerDay)

(* How often jobs up to time now may have told of a trial that ends at t:  *)
(* the window of such jobs begins during one day and ends during the next. *)
Told(now, t) == IF now + 4 * PerDay < t THEN 0
                ELSE IF Midnight(now) + 4 * PerDay <= t THEN 1 ELSE 2

(* Today's job is the one that was cancelled. *)
Again == due /\ Midnight(clock) < Midnight(lastRun) + PerDay

Counted(m) ==
    LET n == queued[m] + sent[m]
        bound == Told(lastRun, ends[m[1]]) + reruns
    IN  /\ n <= bound
        /\ Again => n < bound
        /\ running /\ (m[1] \in todo \/ m \in to) => n < bound

CountInv ==
    /\ Again => reruns > 0
    /\ \A m \in Mail : m[1] \in trialing \ touched => Counted(m)

IInv == TypeOK /\ JobInv /\ WarnInv /\ CountInv /\ OnlyTrials
=============================================================================
