------------------------- MODULE TrialNoticesProofs -------------------------
(***************************************************************************)
(* The safety properties of TrialNotices, for any organizations and        *)
(* recipients and any length of the day and of trials, from the inductive  *)
(* invariant IInv.                                                         *)
(***************************************************************************)
EXTENDS TrialNotices, TLAPS

(* Midnight is at most a day ago, and comes when the day is over. *)
LEMMA MidnightRange ==
    ASSUME NEW t \in Nat
    PROVE  /\ Midnight(t) \in Nat /\ Midnight(t) <= t
           /\ t < Midnight(t) + PerDay
BY TrialNoticesAssumption DEF Midnight

LEMMA MidnightStep ==
    ASSUME NEW s \in Nat, NEW t \in Nat, s <= t
    PROVE  /\ Midnight(s) <= Midnight(t)
           /\ s < t /\ t % PerDay = 0 => Midnight(s) + PerDay <= Midnight(t)
<1> DEFINE P == PerDay
           x == s \div P
           y == t \div P
<1>1. P \in Nat /\ P > 0 /\ x \in Int /\ y \in Int
    BY TrialNoticesAssumption
<1>2. Midnight(s) = P * x /\ Midnight(t) = P * y
    BY <1>1 DEF Midnight
<1>3. P * x <= s /\ t < P * y + P
    BY <1>1, <1>2, MidnightRange
<1> HIDE DEF P, x, y
<1>4. P * x <= P * y
    <2>1. ASSUME y + 1 <= x PROVE P * (y + 1) <= P * x
        BY <1>1, <2>1
    <2>2. P * (y + 1) = P * y + P
        BY <1>1
    <2>3. ~(y + 1 <= x)
        BY <1>1, <1>3, <2>1, <2>2
    <2> QED
        BY <1>1, <2>3
<1>5. ASSUME s < t, t % PerDay = 0 PROVE P * x + P <= P * y
    <2>1. P * y = t
        BY <1>2, <1>5 DEF Midnight
    <2>2. ASSUME y <= x PROVE P * y <= P * x
        BY <1>1, <2>2
    <2>3. x + 1 <= y
        BY <1>1, <1>3, <1>5, <2>1, <2>2
    <2>4. P * (x + 1) <= P * y
        BY <1>1, <2>3
    <2> QED
        BY <1>1, <2>4
<1> QED
    BY <1>2, <1>4, <1>5 DEF P

(* A later job may have told of a trial as often as an earlier one, and    *)
(* once more if it is of a later day and has the trial in its window.      *)
LEMMA ToldStep ==
    ASSUME NEW s \in Nat, NEW now \in Nat, NEW t \in Nat, s <= now
    PROVE  /\ Told(s, t) \in 0 .. 2
           /\ Told(s, t) <= Told(now, t)
           /\ /\ Midnight(s) + PerDay <= Midnight(now)
              /\ now + 3 * PerDay <= t /\ t <= now + 4 * PerDay
              => Told(s, t) < Told(now, t)
<1>1. PerDay \in Nat /\ PerDay > 0
    BY TrialNoticesAssumption
<1>2. /\ Midnight(s) \in Nat /\ Midnight(s) <= s /\ s < Midnight(s) + PerDay
      /\ Midnight(now) \in Nat /\ Midnight(now) <= now
      /\ now < Midnight(now) + PerDay
      /\ Midnight(s) <= Midnight(now)
    BY MidnightRange, MidnightStep
<1> QED
    BY <1>1, <1>2 DEF Told

LEMMA InitIInv == Init => IInv
<1> SUFFICES ASSUME Init PROVE IInv
    OBVIOUS
<1> USE DEF Init
<1>1. TypeOK
    <2>1. /\ due \in BOOLEAN /\ running \in BOOLEAN
          /\ (due /\ running) = FALSE
        BY Zenon
    <2> QED
        BY <2>1 DEF TypeOK
<1>2. JobInv
    BY DEF JobInv
<1>3. WarnInv
    BY DEF WarnInv
<1>4. OnlyTrials
    BY DEF OnlyTrials
<1>5. CountInv
    BY DEF CountInv, Again
<1> QED
    BY <1>1, <1>2, <1>3, <1>4, <1>5 DEF IInv

(* What an action on the mails of the queue does to their number. *)
LEMMA MailType ==
    ASSUME NEW S \in SUBSET Org
    PROVE  /\ Mails(S) \subseteq Mail
           /\ \A m \in Mail : m[1] \in Org /\ (m[1] \in S => m \in Mails(S))
           /\ \A m \in Mails(S) : m[1] \in S
BY DEF Mail, Mails

LEMMA TypeStep == IInv /\ [Next]_vars => TypeOK'
<1> SUFFICES ASSUME IInv, [Next]_vars PROVE TypeOK'
    OBVIOUS
<1> USE DEF IInv, TypeOK, orgVars, jobVars, mailVars
<1>1. ASSUME NEW o \in Org, Register(o) PROVE TypeOK'
    <2>1. TrialDays * PerDay \in Nat
        BY TrialNoticesAssumption
    <2> QED
        BY <1>1, <2>1 DEF Register
<1>2. ASSUME NEW o \in Org, SetupOrg(o) PROVE TypeOK'
    BY <1>2 DEF SetupOrg
<1>3. ASSUME NEW o \in Org, NEW status \in {"trialing", "other"},
             NEW end \in {None, ends[o]} \cup {clock + n : n \in Extension},
             Subscribed(o, status, end)
      PROVE  TypeOK'
    <2>1. end \in Nat \cup {None}
        BY TrialNoticesAssumption
    <2> QED
        BY <1>3, <2>1 DEF Subscribed
<1>4. ASSUME NEW up \in BOOLEAN, Tick(up) PROVE TypeOK'
    BY <1>4 DEF Tick
<1>5. ASSUME NEW o \in Org, LoadAdmins(o) PROVE TypeOK'
    BY <1>5, MailType DEF LoadAdmins
<1>6. CASE TrialExpiryCheck
    <2>1. Expiring(clock) \subseteq Org /\ Between(clock) \subseteq Org
        BY DEF Expiring, Between
    <2>2. Mails((todo \ Expiring(clock)) \cup Between(clock)) \subseteq Mail
        BY <2>1, MailType
    <2>3. /\ due' \in BOOLEAN /\ running' \in BOOLEAN
          /\ (due /\ running)' = FALSE
        BY <1>6, Zenon DEF TrialExpiryCheck
    <2> QED
        BY <1>6, <2>1, <2>2, <2>3 DEF TrialExpiryCheck
<1>7. CASE Finish
    BY <1>7 DEF Finish
<1>8. CASE Abort
    BY <1>8, MailType DEF Abort
<1>9. CASE Cancel
    <2>1. {m[1] : m \in to} \subseteq Org
        BY MailType
    <2>2. /\ due' \in BOOLEAN /\ running' \in BOOLEAN
          /\ (due /\ running)' = FALSE
        BY <1>9, Zenon DEF Cancel
    <2> QED
        BY <1>9, <2>1, <2>2 DEF Cancel
<1>10. CASE Drop
    BY <1>10, MailType DEF Drop
<1>11. ASSUME NEW m \in Mail,
              \/ SendEmail(m) \/ SendEmailTask(m)
              \/ SendFails(m) \/ SentTwice(m)
       PROVE  TypeOK'
    BY <1>11 DEF SendEmail, SendEmailTask, SendFails, SentTwice
<1>12. CASE UNCHANGED vars
    BY <1>12 DEF vars
<1> QED
    BY <1>1, <1>2, <1>3, <1>4, <1>5, <1>6, <1>7, <1>8, <1>9, <1>10, <1>11,
       <1>12 DEF Next

(* No mail goes out that was not there, or is not enqueued by the job.     *)
LEMMA JobStep == IInv /\ [Next]_vars => JobInv'
<1> SUFFICES ASSUME IInv, [Next]_vars PROVE JobInv'
    OBVIOUS
<1> USE DEF IInv, TypeOK, JobInv, orgVars, jobVars, mailVars
<1>1. ASSUME NEW o \in Org, Register(o) PROVE JobInv'
    <2>1. TrialDays * PerDay \in Nat
        BY TrialNoticesAssumption
    <2> QED
        BY <1>1, <2>1 DEF Register
<1>2. ASSUME NEW o \in Org, SetupOrg(o) PROVE JobInv'
    BY <1>2 DEF SetupOrg
<1>3. ASSUME NEW o \in Org, NEW status \in {"trialing", "other"},
             NEW end \in {None, ends[o]} \cup {clock + n : n \in Extension},
             Subscribed(o, status, end)
      PROVE  JobInv'
    BY <1>3 DEF Subscribed
<1>4. ASSUME NEW up \in BOOLEAN, Tick(up) PROVE JobInv'
    BY <1>4 DEF Tick
<1>5. ASSUME NEW o \in Org, LoadAdmins(o) PROVE JobInv'
    BY <1>5, MailType DEF LoadAdmins
<1>6. CASE TrialExpiryCheck
    BY <1>6 DEF TrialExpiryCheck, Expiring
<1>7. CASE Finish \/ Abort \/ Cancel \/ Drop
    BY <1>7 DEF Finish, Abort, Cancel, Drop
<1>8. ASSUME NEW m \in Mail, SendEmail(m) PROVE JobInv'
    BY <1>8 DEF SendEmail
<1>9. ASSUME NEW m \in Mail, SendEmailTask(m) \/ SendFails(m) \/ SentTwice(m)
      PROVE  JobInv'
    BY <1>9 DEF SendEmailTask, SendFails, SentTwice
<1>10. CASE UNCHANGED vars
    BY <1>10 DEF vars
<1> QED
    BY <1>1, <1>2, <1>3, <1>4, <1>5, <1>6, <1>7, <1>8, <1>9, <1>10 DEF Next

(* A trial starts beyond the window of every job so far. *)
LEMMA NewTrial == TypeOK => clock + TrialDays * PerDay > lastRun + 4 * PerDay
<1> SUFFICES ASSUME TypeOK
             PROVE  clock + TrialDays * PerDay > lastRun + 4 * PerDay
    OBVIOUS
<1>1. PerDay \in Nat /\ PerDay > 0 /\ TrialDays \in Nat /\ TrialDays - 4 > 0
    BY TrialNoticesAssumption
<1>2. PerDay * (TrialDays - 4) > 0
    BY <1>1
<1> QED
    BY <1>1, <1>2 DEF TypeOK

LEMMA WarnStep == IInv /\ [Next]_vars => WarnInv'
<1> SUFFICES ASSUME IInv, [Next]_vars, NEW m \in Mail,
                    (m[1] \in trialing \ touched)',
                    (ends[m[1]] <= lastRun + 4 * PerDay)'
             PROVE  Warned(m)'
    BY DEF WarnInv
<1> DEFINE o == m[1]
<1> USE DEF IInv, TypeOK, JobInv, WarnInv, Warned, orgVars, jobVars, mailVars
<1>m. o \in Org /\ \A S \in SUBSET Org : o \in S => m \in Mails(S)
    BY MailType
<1>1. ASSUME NEW p \in Org, Register(p) PROVE Warned(m)'
    <2>1. p # o
        <3> DEFINE end == clock + TrialDays * PerDay
                   edge == lastRun + 4 * PerDay
        <3>1. end > edge /\ end \in Int /\ edge \in Int
            BY NewTrial, TrialNoticesAssumption
        <3>2. ends'[p] = end /\ ends'[o] <= edge
            BY <1>1 DEF Register
        <3> HIDE DEF end, edge
        <3> QED
            BY <3>1, <3>2
    <2> QED
        BY <1>1, <1>m, <2>1 DEF Register
<1>2. ASSUME NEW p \in Org, SetupOrg(p) PROVE Warned(m)'
    BY <1>2, <1>m DEF SetupOrg
<1>3. ASSUME NEW p \in Org, NEW status \in {"trialing", "other"},
             NEW end \in {None, ends[p]} \cup {clock + n : n \in Extension},
             Subscribed(p, status, end)
      PROVE  Warned(m)'
    BY <1>3, <1>m DEF Subscribed
<1>4. ASSUME NEW up \in BOOLEAN, Tick(up) PROVE Warned(m)'
    BY <1>4 DEF Tick
<1>5. ASSUME NEW p \in Org, LoadAdmins(p) PROVE Warned(m)'
    <2>1. o = p => m \in Mails({p})
        BY <1>m
    <2> QED
        BY <1>5, <2>1 DEF LoadAdmins
<1>6. CASE TrialExpiryCheck
    <2>1. /\ ends[o] \in Nat /\ lastRun \in Nat /\ clock \in Nat
          /\ PerDay \in Nat /\ ends[o] # None
          /\ ends[o] <= clock + 4 * PerDay
          /\ o \in trialing \ touched /\ to = {}
        BY <1>6, <1>m, TrialNoticesAssumption DEF TrialExpiryCheck
    <2>2. CASE ends[o] >= clock + 3 * PerDay
        BY <1>6, <2>1, <2>2 DEF TrialExpiryCheck, Expiring
    <2>3. CASE ends[o] < clock + 3 * PerDay /\ ends[o] <= lastRun + 4 * PerDay
        <3>1. o \notin Expiring(clock)
            BY <2>1, <2>3 DEF Expiring
        <3>2. o \in todo =>
                 m \in Mails((todo \ Expiring(clock)) \cup Between(clock))
            BY <3>1, MailType DEF Between
        <3> QED
            BY <1>6, <2>1, <2>3, <3>2 DEF TrialExpiryCheck
    <2>4. CASE ends[o] < clock + 3 * PerDay /\ ends[o] > lastRun + 4 * PerDay
        <3>1. o \in Between(clock)
            BY <2>1, <2>4 DEF Between
        <3>2. m \in Mails((todo \ Expiring(clock)) \cup Between(clock))
            BY <3>1, MailType DEF Between
        <3> QED
            BY <1>6, <3>2 DEF TrialExpiryCheck
    <2> QED
        BY <2>1, <2>2, <2>3, <2>4
<1>7. CASE Finish
    BY <1>7 DEF Finish
<1>8. CASE Abort
    BY <1>8, <1>m DEF Abort
<1>9. CASE Cancel
    BY <1>9 DEF Cancel
<1>10. CASE Drop
    BY <1>10, <1>m DEF Drop
<1>11. ASSUME NEW n \in Mail, SendEmail(n) PROVE Warned(m)'
    BY <1>11 DEF SendEmail
<1>12. ASSUME NEW n \in Mail,
              SendEmailTask(n) \/ SendFails(n) \/ SentTwice(n)
       PROVE  Warned(m)'
    BY <1>12 DEF SendEmailTask, SendFails, SentTwice
<1>13. CASE UNCHANGED vars
    BY <1>13 DEF vars
<1> QED
    BY <1>1, <1>2, <1>3, <1>4, <1>5, <1>6, <1>7, <1>8, <1>9, <1>10, <1>11,
       <1>12, <1>13 DEF Next

(* A job that a new day has made due is not the one that was cancelled.    *)
LEMMA TickAgain ==
    ASSUME IInv, NEW up \in BOOLEAN, Tick(up), Again'
    PROVE  Again
<1>1. /\ lastRun \in Nat /\ clock \in Nat /\ PerDay \in Nat
      /\ lastRun <= clock /\ clock' = clock + 1 /\ lastRun' = lastRun
    BY TrialNoticesAssumption DEF Tick, IInv, TypeOK
<1>2. /\ Midnight(clock) <= Midnight(clock')
      /\ clock' % PerDay = 0
            => Midnight(lastRun) + PerDay <= Midnight(clock')
    BY <1>1, MidnightStep
<1>3. /\ Midnight(clock) \in Nat /\ Midnight(clock') \in Nat
      /\ Midnight(lastRun) \in Nat
    BY <1>1, MidnightRange
<1>4. due' /\ Midnight(clock') < Midnight(lastRun) + PerDay
    BY <1>1 DEF Again, Midnight
<1>5. due \/ clock' % PerDay = 0
    BY <1>4, Zenon DEF Tick
<1> QED
    BY <1>1, <1>2, <1>3, <1>4, <1>5 DEF Again

LEMMA AgainStep == IInv /\ [Next]_vars /\ Again' => reruns' > 0
<1> SUFFICES ASSUME IInv, [Next]_vars, Again' PROVE reruns' > 0
    OBVIOUS
<1> USE DEF IInv, TypeOK, CountInv, orgVars, jobVars, mailVars
<1>1. CASE /\ reruns' = reruns /\ due' = due
           /\ clock' = clock /\ lastRun' = lastRun
    BY <1>1 DEF Again, Midnight
<1>2. ASSUME NEW up \in BOOLEAN, Tick(up) PROVE reruns' > 0
    BY <1>2, TickAgain DEF Tick
<1>3. CASE Cancel
    BY <1>3 DEF Cancel
<1>4. CASE TrialExpiryCheck \/ Drop
    BY <1>4 DEF TrialExpiryCheck, Drop, Again
<1>5. ASSUME NEW m \in Mail, SentTwice(m) PROVE reruns' > 0
    BY <1>5 DEF SentTwice
<1>6. CASE UNCHANGED vars
    BY <1>1, <1>6 DEF vars
<1>7. CASE \E o \in Org : Register(o) \/ SetupOrg(o) \/ LoadAdmins(o)
    BY <1>1, <1>7 DEF Register, SetupOrg, LoadAdmins
<1>8. ASSUME NEW o \in Org, NEW status \in {"trialing", "other"},
             NEW end \in {None, ends[o]} \cup {clock + n : n \in Extension},
             Subscribed(o, status, end)
      PROVE  reruns' > 0
    BY <1>1, <1>8 DEF Subscribed
<1>9. CASE Finish \/ Abort
    BY <1>1, <1>9 DEF Finish, Abort
<1>10. ASSUME NEW m \in Mail, SendEmail(m) \/ SendEmailTask(m) \/ SendFails(m)
       PROVE  reruns' > 0
    BY <1>1, <1>10 DEF SendEmail, SendEmailTask, SendFails
<1> QED
    BY <1>2, <1>3, <1>4, <1>5, <1>6, <1>7, <1>8, <1>9, <1>10 DEF Next

LEMMA CountStep == IInv /\ [Next]_vars => CountInv'
<1> SUFFICES ASSUME IInv, [Next]_vars, NEW m \in Mail,
                    (m[1] \in trialing \ touched)'
             PROVE  Counted(m)'
    BY AgainStep DEF CountInv
<1> DEFINE o == m[1]
           n == queued[m] + sent[m]
           told == Told(lastRun, ends[o])
           ahead == o \in todo \/ m \in to
<1>t. IInv /\ o \in Org /\ n \in Nat /\ n' \in Nat /\ reruns \in Nat
      /\ reruns' \in Nat
    <2>1. TypeOK /\ TypeOK'
        BY TypeStep DEF IInv
    <2> QED
        BY <2>1, MailType DEF TypeOK
<1>1. ASSUME o \in trialing \ touched
      PROVE  /\ told \in 0 .. 2 /\ n <= told + reruns
             /\ Again \/ (running /\ ahead) => n < told + reruns
    <2>1. ends[o] \in Nat /\ lastRun \in Nat /\ Counted(m)
        BY <1>1, <1>t DEF IInv, TypeOK, JobInv, CountInv
    <2>2. told \in 0 .. 2
        BY <2>1, ToldStep
    <2> QED
        BY <2>1, <2>2 DEF Counted
(* The goal in terms of these. *)
<1>2. ASSUME /\ n' <= told' + reruns'
             /\ Again' => n' < told' + reruns'
             /\ (running /\ ahead)' => n' < told' + reruns'
      PROVE  Counted(m)'
    BY <1>2 DEF Counted
(* The organization, the job and the day stay the same. *)
<1>3. ASSUME /\ o \in trialing \ touched /\ ends'[o] = ends[o]
             /\ lastRun' = lastRun /\ reruns' = reruns /\ n' <= n
             /\ Again' => Again
             /\ (running /\ ahead)' => running /\ ahead
      PROVE  Counted(m)'
    <2>1. told' = told
        BY <1>3 DEF Told, Midnight
    <2> HIDE DEF told, n, ahead
    <2> QED
        BY <1>t, <1>1, <1>2, <1>3, <2>1
<1> USE DEF orgVars, jobVars, mailVars
<1>4. ASSUME NEW p \in Org, Register(p) PROVE Counted(m)'
    <2>1. UNCHANGED <<Again, n, running, ahead, lastRun, reruns>>
        BY <1>4 DEF Register, Again, Midnight
    <2>2. CASE p = o
        <3>1. n = 0 /\ ~ahead /\ (Again => reruns > 0)
            BY <1>4, <1>t, <2>2 DEF Register, IInv, JobInv, TypeOK, CountInv
        <3>2. told' = 0
            <4> DEFINE end == clock + TrialDays * PerDay
                       edge == lastRun + 4 * PerDay
            <4>1. end > edge
                BY <1>t, NewTrial DEF IInv
            <4>2. ends'[o] = end /\ lastRun' = lastRun
                BY <1>4, <1>t, <2>2 DEF Register, IInv, TypeOK
            <4> QED
                BY <4>1, <4>2 DEF Told
        <3> HIDE DEF told, n, ahead
        <3> QED
            BY <1>t, <1>2, <2>1, <3>1, <3>2
    <2>3. CASE p # o
        BY <1>t, <1>3, <1>4, <2>1, <2>3 DEF Register, IInv, TypeOK
    <2> QED
        BY <2>2, <2>3
<1>5. ASSUME NEW p \in Org,
             \/ SetupOrg(p)
             \/ \E status \in {"trialing", "other"},
                   end \in {None, ends[p]} \cup {clock + k : k \in Extension} :
                   Subscribed(p, status, end)
      PROVE  Counted(m)'
    <2>1. UNCHANGED <<Again, n, running, ahead, lastRun, reruns>>
        BY <1>5 DEF SetupOrg, Subscribed, Again, Midnight
    <2>2. p # o /\ o \in trialing \ touched /\ ends'[o] = ends[o]
        BY <1>5, <1>t DEF SetupOrg, Subscribed, IInv, TypeOK
    <2> HIDE DEF n, ahead
    <2> QED
        BY <1>3, <1>t, <2>1, <2>2
<1>6. ASSUME NEW up \in BOOLEAN, Tick(up) PROVE Counted(m)'
    <2>1. Again' => Again
        BY <1>6, <1>t, TickAgain
    <2> QED
        BY <1>3, <1>6, <1>t, <2>1 DEF Tick
<1>7. ASSUME NEW p \in Org, LoadAdmins(p) PROVE Counted(m)'
    <2>1. UNCHANGED <<Again, running>> /\ (ahead' => ahead)
        BY <1>7, MailType DEF LoadAdmins, Again, Midnight
    <2> QED
        BY <1>3, <1>7, <1>t, <2>1 DEF LoadAdmins
<1>8. CASE TrialExpiryCheck
    <2>1. /\ o \in trialing \ touched /\ ends[o] \in Nat /\ to = {}
          /\ lastRun \in Nat /\ clock \in Nat /\ lastRun <= clock
        BY <1>8, <1>t DEF TrialExpiryCheck, IInv, TypeOK, JobInv
    <2>2. told' = Told(clock, ends[o]) /\ n' = n /\ reruns' = reruns
        BY <1>8 DEF TrialExpiryCheck, Told, Midnight
    <2>3. ~Again'
        BY <1>8 DEF TrialExpiryCheck, Again
    <2>4. told' \in 0 .. 2 /\ told <= told'
        BY <2>1, <2>2, ToldStep
    <2>5. ASSUME ahead', ~Again PROVE told < told'
        <3>1. ends[o] >= clock + 3 * PerDay /\ ends[o] <= clock + 4 * PerDay
            BY <1>8, <2>1, <2>5 DEF TrialExpiryCheck, Expiring
        <3>2. Midnight(lastRun) + PerDay <= Midnight(clock)
            BY <1>8, <2>1, <2>5, MidnightRange, TrialNoticesAssumption
            DEF TrialExpiryCheck, Again
        <3> QED
            BY <2>1, <2>2, <3>1, <3>2, ToldStep
    <2> HIDE DEF told, n, ahead
    <2> QED
        BY <1>t, <1>1, <1>2, <2>1, <2>2, <2>3, <2>4, <2>5
<1>9. CASE Finish \/ Abort \/ Drop
    <2>1. ~running' /\ (Again' => Again)
        BY <1>9, <1>t DEF Finish, Abort, Drop, Again, Midnight, IInv, TypeOK
    <2> QED
        BY <1>3, <1>9, <1>t, <2>1 DEF Finish, Abort, Drop
<1>10. CASE Cancel
    <2>1. /\ o \in trialing \ touched /\ ~running' /\ reruns' = reruns + 1
          /\ told' = told /\ n' = n
        BY <1>10 DEF Cancel, Told, Midnight
    <2> HIDE DEF told, n, ahead
    <2> QED
        BY <1>1, <1>2, <1>t, <2>1
<1>11. ASSUME NEW k \in Mail, SendEmail(k) PROVE Counted(m)'
    <2>1. UNCHANGED <<told, running, reruns>> /\ ~Again'
          /\ o \in trialing \ touched
        BY <1>11, <1>t DEF SendEmail, Told, Midnight, Again, IInv, TypeOK
    <2>2. \/ k = m /\ n' = n + 1 /\ running /\ ahead /\ ~ahead'
          \/ n' = n /\ (ahead' => ahead)
        BY <1>11, <1>t DEF SendEmail, IInv, TypeOK, JobInv
    <2> HIDE DEF told, n, ahead
    <2> QED
        BY <1>1, <1>2, <1>t, <2>1, <2>2
<1>12. ASSUME NEW k \in Mail,
              SendEmailTask(k) \/ SendFails(k) \/ SentTwice(k)
       PROVE  Counted(m)'
    <2>1. /\ told' = told /\ o \in trialing \ touched
          /\ Again' => Again
          /\ (running /\ ahead)' => running /\ ahead
        BY <1>12 DEF SendEmailTask, SendFails, SentTwice, Told, Midnight, Again
    <2>2. \/ n' <= n /\ reruns' = reruns
          \/ n' <= n + 1 /\ reruns' = reruns + 1
        BY <1>12, <1>t
        DEF SendEmailTask, SendFails, SentTwice, IInv, TypeOK
    <2> HIDE DEF told, n, ahead
    <2>3. n' <= told' + reruns'
        BY <1>1, <1>t, <2>1, <2>2
    <2>4. ASSUME Again' \/ (running /\ ahead)' PROVE n' < told' + reruns'
        <3>1. n < told + reruns
            BY <1>1, <2>1, <2>4
        <3> QED
            BY <1>1, <1>t, <2>1, <2>2, <3>1
    <2> QED
        BY <1>2, <2>3, <2>4
<1>13. CASE UNCHANGED vars
    BY <1>3, <1>13, <1>t DEF vars, Again, Midnight
<1> QED
    BY <1>4, <1>5, <1>6, <1>7, <1>8, <1>9, <1>10, <1>11, <1>12, <1>13 DEF Next

LEMMA OnlyStep == IInv /\ [Next]_vars => OnlyTrials'
<1> SUFFICES ASSUME IInv, [Next]_vars PROVE OnlyTrials'
    OBVIOUS
<1> USE DEF IInv, JobInv, OnlyTrials, orgVars, jobVars, mailVars
<1>1. ASSUME NEW o \in Org, Register(o) \/ SetupOrg(o) PROVE OnlyTrials'
    BY <1>1 DEF Register, SetupOrg
<1>2. ASSUME NEW o \in Org, NEW status \in {"trialing", "other"},
             NEW end \in {None, ends[o]} \cup {clock + n : n \in Extension},
             Subscribed(o, status, end)
      PROVE  OnlyTrials'
    BY <1>2 DEF Subscribed
<1>3. ASSUME NEW up \in BOOLEAN, Tick(up) PROVE OnlyTrials'
    BY <1>3 DEF Tick
<1>4. ASSUME NEW o \in Org, LoadAdmins(o) PROVE OnlyTrials'
    BY <1>4, MailType DEF LoadAdmins
<1>5. CASE TrialExpiryCheck
    BY <1>5 DEF TrialExpiryCheck, Expiring, TypeOK
<1>6. CASE Finish \/ Abort \/ Cancel \/ Drop
    BY <1>6 DEF Finish, Abort, Cancel, Drop
<1>7. ASSUME NEW m \in Mail,
             \/ SendEmail(m) \/ SendEmailTask(m)
             \/ SendFails(m) \/ SentTwice(m)
      PROVE  OnlyTrials'
    BY <1>7 DEF SendEmail, SendEmailTask, SendFails, SentTwice
<1>8. CASE UNCHANGED vars
    BY <1>8 DEF vars
<1> QED
    BY <1>1, <1>2, <1>3, <1>4, <1>5, <1>6, <1>7, <1>8 DEF Next

LEMMA AlwaysIInv == Spec => []IInv
<1>1. IInv /\ [Next]_vars => IInv'
    BY TypeStep, JobStep, WarnStep, CountStep, OnlyStep DEF IInv
<1> QED
    BY InitIInv, <1>1, PTL DEF Spec

(* Type correctness.                                                       *)
THEOREM TypeCorrect == Spec => []TypeOK
<1>1. IInv => TypeOK
    BY DEF IInv
<1> QED
    BY AlwaysIInv, <1>1, PTL

(* An untouched trial is warned of, or a named failure cost the warning,   *)
(* however late or irregular the jobs are (billing_tasks.py:20-69).        *)
THEOREM Warnings == Spec => []WarnedUnlessExcused
<1>1. IInv => WarnedUnlessExcused
    BY DEF IInv, JobInv, WarnInv, Warned, WarnedUnlessExcused, Idle
<1> QED
    BY AlwaysIInv, <1>1, PTL

(* A recipient is told at most twice of one trial, but for jobs and mails  *)
(* that were run again (billing_tasks.py:20-30).                           *)
THEOREM FewNotices == Spec => []NoticesBounded
<1>1. ASSUME IInv, NEW m \in Mail, m[1] \notin touched
      PROVE  queued[m] + sent[m] <= 2 + reruns
    <2>1. TypeOK /\ JobInv /\ m[1] \in Org
        BY <1>1, MailType DEF IInv
    <2>2. reruns \in Nat /\ queued[m] + sent[m] \in Nat
        BY <2>1 DEF TypeOK
    <2>3. CASE m[1] \in trialing
        <3>1. /\ Counted(m) /\ ends[m[1]] \in Nat /\ lastRun \in Nat
            BY <1>1, <2>1, <2>3 DEF IInv, CountInv, JobInv, TypeOK
        <3>2. Told(lastRun, ends[m[1]]) \in 0 .. 2
            BY <3>1, ToldStep
        <3> QED
            BY <2>2, <3>1, <3>2 DEF Counted
    <2>4. CASE m[1] \notin trialing
        BY <1>1, <2>1, <2>2, <2>4 DEF JobInv
    <2> QED
        BY <2>3, <2>4
<1>2. IInv => NoticesBounded
    BY <1>1 DEF NoticesBounded
<1> QED
    BY AlwaysIInv, <1>2, PTL

(* Whoever subscribed before the job looked is not warned                  *)
(* (billing_tasks.py:26-30).                                               *)
THEOREM SubscribersSpared == Spec => []OnlyTrials
<1>1. IInv => OnlyTrials
    BY DEF IInv
<1> QED
    BY AlwaysIInv, <1>1, PTL
=============================================================================
