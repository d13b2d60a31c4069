---------------------------- MODULE BillingProofs ----------------------------
(***************************************************************************)
(* The safety properties of Billing, for any number of organizations,      *)
(* subscriptions, payers, requests and events, from the inductive          *)
(* invariant IInv.                                                         *)
(***************************************************************************)
EXTENDS Billing, TLAPS

Columns == {"gateway", "customer", "sub", "status", "plan", "trial"}

LEMMA NewOrgFacts == NewOrg \in Rows /\ DOMAIN NewOrg = Columns
BY DEF NewOrg, Rows, Customers, Statuses, Plans, Columns

(* What is known of an event that was sent. *)
LEMMA SentFacts ==
    ASSUME TypeOK, LogInv, NEW e \in Sent
    PROVE  /\ e \in Events /\ e.sub \in Sub /\ e # NoEvent
           /\ Says(e) \in Contents
           /\ Tells(Gateway(e.sub), Says(e))
           /\ bought[e.sub] # NotBought
           /\ bought[e.sub] \in Purchases \cup SimulatedPurchases
           /\ Customer(e.sub) \in Customers /\ Customer(e.sub) # None
<1>1. e \in Events /\ e.sub \in Sub /\ e.n \in DOMAIN log[e.sub]
    BY DEF Sent, Events
<1>2. Says(e) \in Contents
    BY <1>1 DEF Says, TypeOK
<1>3. bought[e.sub] # NotBought
    BY <1>1 DEF LogInv
<1>4. bought[e.sub] \in Purchases \cup SimulatedPurchases
    BY <1>1, <1>3 DEF TypeOK
<1>5. Customer(e.sub) \in Gateways \X (Sub \cup Payer)
    BY <1>1, <1>4 DEF Customer, Gateway, Simulated, Purchases,
        SimulatedPurchases, Gateways
<1>6. Tells(Gateway(e.sub), Says(e))
    BY DEF LogInv
<1> QED
    BY <1>1, <1>2, <1>3, <1>4, <1>5, <1>6, NoneAssumption
    DEF Customers, Events, NoEvent

(* What a subscription was bought as, and what an event says, is settled. *)
Settled ==
    /\ \A s \in Sub : bought[s] # NotBought => bought'[s] = bought[s]
    /\ \A e \in Sent : e \in Sent' /\ Says(e)' = Says(e)

LEMMA SettledStep == IInv /\ [Next]_vars => Settled
<1> SUFFICES ASSUME IInv, [Next]_vars PROVE Settled
    OBVIOUS
<1> USE DEF IInv, TypeOK, Settled, Sent, Says, LogInv
<1>1. ASSUME NEW s \in Sub, Checkout(s) PROVE Settled
    BY <1>1 DEF Checkout
<1>2. ASSUME NEW s \in Sub, Announce(s) PROVE Settled
    BY <1>2 DEF Announce
<1>3. ASSUME NEW r \in Req, NEW s \in Sub, PayoneerComplete(r, s) PROVE Settled
    BY <1>3 DEF PayoneerComplete
<1>4. CASE UNCHANGED gateVars
    BY <1>4 DEF gateVars
<1>5. CASE UNCHANGED vars
    BY <1>5 DEF vars, gateVars
<1> QED
    BY <1>1, <1>2, <1>3, <1>4, <1>5
    DEF Next, Deliver, LookBySubscription, LookByCustomer, LookFurther,
        Progress, Commit, Reject, Ignore, Fail, Remove

(* What a handler makes of a row: the columns show the event, and a column *)
(* that it changes gets a value that does not depend on the row.           *)
LEMMA HandledFacts ==
    ASSUME TypeOK, LogInv, NEW e \in Sent, NEW old \in Rows
    PROVE  /\ Handled(e, old) \in Rows
           /\ Handled(e, old).sub = e.sub
           /\ Handled(e, old).customer \in
                {Customer(e.sub), old.customer, None}
           /\ Handled(e, old).plan \in
                {bought[e.sub].plan, Says(e).price, old.plan}
           /\ Shows(Handled(e, old), e)
           /\ \A other \in Rows, c \in Columns :
                Handled(e, old)[c] \in {old[c], Handled(e, other)[c]}
<1> USE SentFacts DEF Purchases, SimulatedPurchases, Contents, Rows
<1>1. Gateway(e.sub) \in Gateways
    BY DEF Gateway, Gateways
<1>2. bought[e.sub].plan \in Plans /\ None \in Customers
    BY DEF Customers
<1>3. Subscribed(e, old) \in Rows
    <2>1. Reported \subseteq Statuses
        BY ReportedAssumption
    <2> QED
        BY <1>1, <2>1 DEF Subscribed
<1> USE <1>1, <1>2, <1>3 DEF Handled, Subscribed, Shows, Columns
<1>4. CASE Gateway(e.sub) = "stripe"
    BY <1>4 DEF Stripe, Tells, FromStripe
<1>5. CASE Gateway(e.sub) = "lemonsqueezy"
    BY <1>5 DEF LemonSqueezy, Tells, FromLemonSqueezy
<1>6. CASE Gateway(e.sub) = "paypal"
    BY <1>6 DEF PayPal, Tells, FromPayPal
<1>7. CASE Gateway(e.sub) = "payoneer"
    BY <1>7 DEF Payoneer, Tells, FromPayoneer
<1> QED
    BY <1>4, <1>5, <1>6, <1>7 DEF Gateways

(* Lookups find only the organization that the event is for, and not a     *)
(* deleted one.                                                            *)
LEMMA FoundOwn ==
    ASSUME IInv, NEW e \in Sent,
           NEW o \in ById(e) \cup BySubscription(e)
                        \cup (IF Gateway(e.sub) = "stripe" THEN ByCustomer(e)
                              ELSE {})
    PROVE  o \in Org \ removed /\ bought[e.sub].org = o
<1>1. e.sub \in Sub /\ e.sub # None
    BY SentFacts, BillingAssumption DEF IInv
<1>2. ASSUME NEW p \in removed PROVE row[p].sub = None /\ row[p].customer = None
    BY <1>2 DEF IInv, UniqueInv, NewOrg
<1>3. CASE o \in ById(e)
    BY <1>3 DEF ById
<1>4. CASE o \in BySubscription(e)
    BY <1>1, <1>2, <1>4 DEF BySubscription, IInv, OwnSubscription
<1>5. CASE o \in ByCustomer(e) /\ Gateway(e.sub) = "stripe"
    <2>1. o \in Org /\ row[o].customer = Customer(e.sub) /\ row[o].customer # None
        BY <1>5, SentFacts DEF ByCustomer, IInv
    <2>2. PICK s \in Sub : bought[s].org = o /\ row[o].customer = Customer(s)
        BY <2>1 DEF IInv, OwnCustomer
    <2>3. Gateway(s) = "stripe" /\ s = e.sub
        BY <1>5, <2>1, <2>2 DEF Customer
    <2> QED
        BY <1>2, <2>1, <2>2, <2>3
<1> QED
    BY <1>3, <1>4, <1>5

(* What an UPDATE writes, column by column; unless the request is excused, *)
(* it is what its handler made of the row.                                 *)
LEMMA UpdatedFacts ==
    ASSUME IInv, NEW r \in Req, target[r] # None
    PROVE  /\ target[r] \in Org /\ ev[r] \in Sent /\ pc[r] = "write"
           /\ Updated(r) \in Rows
           /\ Updated(r).sub \in {ev[r].sub, row[target[r]].sub}
           /\ Updated(r).customer \in
                {Customer(ev[r].sub), row[target[r]].customer, None}
           /\ Updated(r).plan \in {bought[ev[r].sub].plan, Says(ev[r]).price,
                                  row[target[r]].plan}
           /\ \A c \in Columns :
                Updated(r)[c] = IF Handled(ev[r], seen[r])[c] = seen[r][c]
                                THEN row[target[r]][c]
                                ELSE Handled(ev[r], seen[r])[c]
           /\ r \notin excused => Updated(r) = Handled(ev[r], seen[r])
<1> DEFINE new == Handled(ev[r], seen[r])
           now == row[target[r]]
<1>1. target[r] \in Org /\ seen[r] \in Rows /\ now \in Rows /\ pc[r] = "write"
    BY DEF IInv, TypeOK, RequestInv
<1>2. ev[r] \in Sent
    BY <1>1 DEF IInv, RequestInv
<1>3. /\ new \in Rows
      /\ new.sub = ev[r].sub
      /\ new.customer \in {Customer(ev[r].sub), seen[r].customer, None}
      /\ new.plan \in {bought[ev[r].sub].plan, Says(ev[r]).price, seen[r].plan}
    BY <1>1, <1>2, HandledFacts DEF IInv
<1> HIDE DEF new, now
<1>4. Updated(r) =
        [gateway |-> IF new["gateway"] = seen[r]["gateway"]
                     THEN now["gateway"] ELSE new["gateway"],
         customer |-> IF new["customer"] = seen[r]["customer"]
                      THEN now["customer"] ELSE new["customer"],
         sub |-> IF new["sub"] = seen[r]["sub"] THEN now["sub"] ELSE new["sub"],
         status |-> IF new["status"] = seen[r]["status"]
                    THEN now["status"] ELSE new["status"],
         plan |-> IF new["plan"] = seen[r]["plan"]
                  THEN now["plan"] ELSE new["plan"],
         trial |-> IF new["trial"] = seen[r]["trial"]
                   THEN now["trial"] ELSE new["trial"]]
    BY DEF Updated, new, now
<1>5. Updated(r) \in Rows
    BY <1>1, <1>3, <1>4 DEF Rows
<1>6. \A c \in Columns :
        Updated(r)[c] = IF new[c] = seen[r][c] THEN now[c] ELSE new[c]
    BY <1>4 DEF Columns
<1>7. ASSUME r \notin excused PROVE Updated(r) = new
    <2>1. \A c \in Columns : now[c] \in {seen[r][c], new[c]}
        BY <1>7, NewOrgFacts DEF IInv, SeenInv, new, now
    <2>2. \A c \in Columns : Updated(r)[c] = new[c]
        BY <1>6, <2>1
    <2> QED
        BY <1>3, <1>5, <2>2 DEF Rows, Columns
<1>8. /\ Updated(r).sub \in {ev[r].sub, now.sub}
      /\ Updated(r).customer \in {Customer(ev[r].sub), now.customer, None}
      /\ Updated(r).plan \in {bought[ev[r].sub].plan, Says(ev[r]).price, now.plan}
    BY <1>3, <1>4
<1> QED
    BY <1>1, <1>2, <1>5, <1>6, <1>7, <1>8 DEF new, now

LEMMA InitIInv == Init => IInv
<1> SUFFICES ASSUME Init PROVE IInv
    OBVIOUS
<1> USE BillingAssumption, NoneAssumption DEF Init
<1>1. TypeOK
    <2>1. log \in [Sub -> Seq(Contents)]
        OBVIOUS
    <2> QED
        BY <2>1, NewOrgFacts DEF TypeOK
<1>2. LogInv
    <2>1. Sent = {}
        BY DEF Sent, Events
    <2> QED
        BY <2>1 DEF LogInv
<1>3. UniqueInv /\ OwnSubscription /\ OwnCustomer /\ OwnPlan
    BY DEF UniqueInv, OwnSubscription, OwnCustomer, OwnPlan, NewOrg
<1>4. RequestInv /\ SeenInv
    BY DEF RequestInv, SeenInv
<1>5. OneEventUnlessMixed /\ AckedShownUnlessLost
    BY DEF OneEventUnlessMixed, AckedShownUnlessLost, NewOrg
<1> QED
    BY <1>1, <1>2, <1>3, <1>4, <1>5 DEF IInv

Places == {"idle", "subscription", "customer", "write"}

(* A SELECT and the end of a request keep the types. *)
LEMMA SelectType ==
    ASSUME TypeOK, NEW r \in Req, NEW found \in SUBSET Org,
           NEW otherwise \in Places, Select(r, found, otherwise)
    PROVE  /\ pc' \in [Req -> Places]
           /\ target' \in [Req -> Org \cup {None}]
           /\ seen' \in [Req -> Rows]
BY DEF Select, TypeOK, Places

LEMMA LeaveType ==
    ASSUME TypeOK, NEW r \in Req, Leave(r)
    PROVE  /\ pc' \in [Req -> Places]
           /\ ev' \in [Req -> Events \cup {NoEvent}]
           /\ target' \in [Req -> Org \cup {None}]
           /\ seen' \in [Req -> Rows]
BY NewOrgFacts DEF Leave, TypeOK, Places

(* No step leaves the types. *)
LEMMA TypeStep == IInv /\ [Next]_vars => TypeOK'
<1> SUFFICES ASSUME IInv, [Next]_vars PROVE TypeOK'
    OBVIOUS
<1>0. TypeOK /\ LogInv /\ RequestInv
    BY DEF IInv
<1> USE DEF Places
<1>1. ASSUME NEW s \in Sub, Checkout(s) PROVE TypeOK'
    <2>1. bought' \in [Sub -> Purchases \cup SimulatedPurchases \cup {NotBought}]
        BY <1>0, <1>1 DEF Checkout, TypeOK
    <2> QED
        BY <1>0, <1>1, <2>1 DEF Checkout, TypeOK, orgVars, reqVars, history
<1>2. ASSUME NEW s \in Sub, Announce(s) PROVE TypeOK'
    <2>1. log' \in [Sub -> Seq(Contents)]
        BY <1>0, <1>2 DEF Announce, TypeOK
    <2> QED
        BY <1>0, <1>2, <2>1 DEF Announce, TypeOK, orgVars, reqVars, history
<1>3. ASSUME NEW r \in Req, NEW e \in Events, Deliver(r, e) PROVE TypeOK'
    <2>1. PICK found \in SUBSET Org, otherwise \in Places :
             Select(r, found, otherwise)
        BY <1>3 DEF Deliver, ById, BySubscription, AfterId, AfterSubscription
    <2> QED
        BY <1>0, <1>3, <2>1, SelectType
        DEF Deliver, TypeOK, gateVars, orgVars, history
<1>4. ASSUME NEW r \in Req, NEW s \in Sub, PayoneerComplete(r, s)
      PROVE  TypeOK'
    <2>1. PICK p \in SimulatedPurchases :
             /\ bought' = [bought EXCEPT ![s] = p]
             /\ log' = [log EXCEPT ![s] = <<Payment>>]
             /\ ev' = [ev EXCEPT ![r] = [sub |-> s, n |-> 1]]
             /\ Select(r, {p.org} \ removed, "write")
        BY <1>4 DEF PayoneerComplete
    <2>2. Payment \in Contents
        BY ReportedAssumption DEF Payment, Contents
    <2>3. log' \in [Sub -> Seq(Contents)]
        BY <1>0, <2>1, <2>2 DEF TypeOK
    <2>4. 1 \in 1..MaxEvents
        BY BillingAssumption
    <2>5. ev' \in [Req -> Events \cup {NoEvent}]
        BY <1>0, <2>1, <2>4 DEF Events, TypeOK
    <2>6. {p.org} \ removed \in SUBSET Org
        BY DEF SimulatedPurchases
    <2>7. bought' \in [Sub -> Purchases \cup SimulatedPurchases \cup {NotBought}]
        BY <1>0, <2>1 DEF TypeOK
    <2>8. excused' \subseteq Req /\ UNCHANGED <<orgVars, acked, history>>
        BY <1>0, <1>4 DEF PayoneerComplete, TypeOK
    <2> QED
        BY <1>0, <2>1, <2>3, <2>5, <2>6, <2>7, <2>8, SelectType
        DEF TypeOK, orgVars, history
<1>5. ASSUME NEW r \in Req, Commit(r) PROVE TypeOK'
    <2>1. Updated(r) \in Rows /\ target[r] \in Org /\ ev[r] \in Events
        BY <1>5, UpdatedFacts, SentFacts DEF Commit, IInv
    <2>2. Leave(r) /\ Answer(r, Updated(r))
        BY <1>5 DEF Commit
    <2>3. /\ row' \in [Org -> Rows] /\ excused' \subseteq Req
          /\ mixed' \subseteq Org
        BY <1>0, <1>5, <2>1 DEF Commit, TypeOK, Others
    <2>4. acked' \subseteq Events /\ shown' \subseteq Events /\ lost' \subseteq Events
        BY <1>0, <2>1, <2>2 DEF Answer, TypeOK
    <2> QED
        BY <1>0, <1>5, <2>2, <2>3, <2>4, LeaveType DEF Commit, TypeOK, gateVars
<1>6. ASSUME NEW r \in Req, Reject(r) \/ Ignore(r) \/ Fail(r) PROVE TypeOK'
    <2>1. Leave(r)
        BY <1>6 DEF Reject, Ignore, Fail
    <2>2. /\ acked' \subseteq Events /\ shown' \subseteq Events
          /\ lost' \subseteq Events
        BY <1>0, <1>6, SentFacts
        DEF Reject, Ignore, Fail, Answer, TypeOK, RequestInv, history
    <2> QED
        BY <1>0, <1>6, <2>1, <2>2, LeaveType
        DEF Reject, Ignore, Fail, TypeOK, gateVars, orgVars, history
<1>7. ASSUME NEW r \in Req, LookBySubscription(r) \/ LookByCustomer(r)
      PROVE  TypeOK'
    <2>1. PICK found \in SUBSET Org, otherwise \in Places :
             Select(r, found, otherwise)
        BY <1>7 DEF LookBySubscription, LookByCustomer, LookFurther,
            BySubscription, ByCustomer, AfterSubscription
    <2> QED
        BY <1>0, <1>7, <2>1, SelectType
        DEF LookBySubscription, LookByCustomer, LookFurther, TypeOK,
            gateVars, orgVars, history
<1>8. ASSUME NEW o \in Org, Remove(o) PROVE TypeOK'
    BY <1>0, <1>8, NewOrgFacts DEF Remove, TypeOK, gateVars, reqVars
<1>9. CASE UNCHANGED vars
    BY <1>0, <1>9 DEF TypeOK, vars, gateVars, orgVars, reqVars, history
<1> QED
    BY <1>1, <1>2, <1>3, <1>4, <1>5, <1>6, <1>7, <1>8, <1>9 DEF Next, Progress

(* Only what was bought sends events, and only sent ones are answered. *)
LEMMA LogStep == IInv /\ [Next]_vars => LogInv'
<1> SUFFICES ASSUME IInv, [Next]_vars PROVE LogInv'
    OBVIOUS
<1>0. Settled
    BY SettledStep
<1> USE DEF IInv, TypeOK
<1>a. ASSUME \A s \in Sub : bought'[s] = NotBought => log'[s] = <<>>,
             acked' \subseteq Sent,
             \A e \in Sent' : e \in Sent \/ Tells(Gateway(e.sub)', Says(e)')
      PROVE  LogInv'
    <2>1. ASSUME NEW e \in Sent PROVE Tells(Gateway(e.sub)', Says(e)')
        <3>1. e.sub \in Sub /\ bought[e.sub] # NotBought
            BY SentFacts
        <3>2. Gateway(e.sub)' = Gateway(e.sub) /\ Says(e)' = Says(e)
            BY <1>0, <3>1 DEF Settled, Gateway
        <3> QED
            BY <3>2 DEF LogInv
    <2> QED
        BY <1>0, <1>a, <2>1 DEF LogInv, Settled
<1>1. ASSUME NEW s \in Sub, Checkout(s) PROVE LogInv'
    <2>1. Sent' = Sent
        BY <1>1 DEF Checkout, Sent
    <2> QED
        BY <1>1, <1>a, <2>1, BillingAssumption
        DEF Checkout, LogInv, NotBought, Purchases
<1>2. ASSUME NEW s \in Sub, Announce(s) PROVE LogInv'
    <2>1. PICK c \in Contents :
             Tells(Gateway(s), c) /\ log' = [log EXCEPT ![s] = Append(@, c)]
        BY <1>2 DEF Announce
    <2>2. ASSUME NEW e \in Sent'
          PROVE  e \in Sent \/ Tells(Gateway(e.sub)', Says(e)')
        <3>1. e \in Events /\ e.sub \in Sub /\ e.n \in DOMAIN log'[e.sub]
            BY DEF Sent, Events
        <3>2. CASE e.sub # s
            BY <2>1, <3>1, <3>2 DEF Sent
        <3>3. CASE e.sub = s
            BY <1>2, <2>1, <3>1, <3>3 DEF Sent, Says, Gateway, Announce
        <3> QED
            BY <3>2, <3>3
    <2> QED
        BY <1>2, <1>a, <2>2 DEF Announce, LogInv
<1>3. ASSUME NEW r \in Req, NEW s \in Sub, PayoneerComplete(r, s)
      PROVE  LogInv'
    <2>1. PICK p \in SimulatedPurchases :
             /\ bought' = [bought EXCEPT ![s] = p]
             /\ log' = [log EXCEPT ![s] = <<Payment>>]
        BY <1>3 DEF PayoneerComplete
    <2>2. p # NotBought /\ p.gateway = "payoneer"
        BY BillingAssumption DEF SimulatedPurchases, NotBought
    <2>3. ASSUME NEW e \in Sent'
          PROVE  e \in Sent \/ Tells(Gateway(e.sub)', Says(e)')
        <3>1. e \in Events /\ e.sub \in Sub /\ e.n \in DOMAIN log'[e.sub]
            BY DEF Sent, Events
        <3>2. CASE e.sub # s
            BY <2>1, <3>1, <3>2 DEF Sent
        <3>3. CASE e.sub = s
            <4>1. e.n = 1 /\ Says(e)' = Payment /\ Gateway(e.sub)' = "payoneer"
                BY <2>1, <2>2, <3>1, <3>3 DEF Says, Gateway
            <4> QED
                BY <4>1 DEF Tells, Payment, FromPayoneer
        <3> QED
            BY <3>2, <3>3
    <2> QED
        BY <1>3, <1>a, <2>1, <2>2, <2>3 DEF PayoneerComplete, LogInv
<1>4. ASSUME UNCHANGED gateVars, acked' \subseteq Sent PROVE LogInv'
    <2>1. Sent' = Sent
        BY <1>4 DEF gateVars, Sent
    <2> QED
        BY <1>4, <1>a, <2>1 DEF gateVars, LogInv
<1>5. ASSUME NEW r \in Req, Progress(r) \/ Fail(r) PROVE LogInv'
    <2>1. acked' \subseteq Sent
        BY <1>5 DEF Progress, LookBySubscription, LookByCustomer, LookFurther,
            Commit, Reject, Ignore, Fail, Answer, RequestInv, LogInv
    <2>2. UNCHANGED gateVars
        BY <1>5 DEF Progress, LookBySubscription, LookByCustomer, LookFurther,
            Commit, Reject, Ignore, Fail
    <2> QED
        BY <1>4, <2>1, <2>2
<1>6. CASE UNCHANGED vars
    BY <1>4, <1>6 DEF vars, LogInv
<1> QED
    BY <1>1, <1>2, <1>3, <1>4, <1>5, <1>6 DEF Next, Deliver, Remove, LogInv

RowInv ==
    /\ UniqueInv /\ OwnSubscription /\ OwnCustomer /\ OwnPlan
    /\ OneEventUnlessMixed

(* What is settled of an event: all that a row can show of it. *)
LEMMA SettledFacts ==
    ASSUME TypeOK, LogInv, Settled
    PROVE  /\ \A s \in Sub : bought[s] # NotBought =>
                bought'[s] = bought[s] /\ Customer(s)' = Customer(s)
           /\ \A s \in Sub, o \in Org : bought[s].org = o => bought[s] # NotBought
           /\ \A o \in Org : PlansOf(o) \subseteq PlansOf(o)'
           /\ \A e \in Sent, o \in Org :
                row'[o] = row[o] /\ Shows(row[o], e) => Shows(row[o], e)'
<1>1. \A s \in Sub : bought[s] # NotBought =>
         /\ bought'[s] = bought[s] /\ Customer(s)' = Customer(s)
         /\ Gateway(s)' = Gateway(s)
    BY DEF Settled, Customer, Gateway, Simulated
<1>2. \A s \in Sub, o \in Org : bought[s].org = o => bought[s] # NotBought
    BY BillingAssumption DEF NotBought
<1>3. ASSUME NEW o \in Org PROVE PlansOf(o) \subseteq PlansOf(o)'
    <2>1. ASSUME NEW s \in Sub, bought[s].org = o
          PROVE  bought[s].plan \in PlansOf(o)'
        BY <1>1, <1>2, <2>1 DEF PlansOf
    <2>2. ASSUME NEW e \in Sent, bought[e.sub].org = o
          PROVE  Says(e).price \in PlansOf(o)'
        <3>1. e.sub \in Sub /\ e \in Sent' /\ Says(e)' = Says(e)
            BY SentFacts DEF Settled
        <3>2. bought'[e.sub].org = o
            BY <1>1, <1>2, <2>2, <3>1
        <3> QED
            BY <3>1, <3>2 DEF PlansOf
    <2> QED
        BY <2>1, <2>2 DEF PlansOf
<1>4. ASSUME NEW e \in Sent, NEW o \in Org, row'[o] = row[o], Shows(row[o], e)
      PROVE  Shows(row[o], e)'
    <2>1. e.sub \in Sub /\ bought[e.sub] # NotBought /\ Says(e)' = Says(e)
        BY SentFacts DEF Settled
    <2>2. /\ bought'[e.sub] = bought[e.sub] /\ Customer(e.sub)' = Customer(e.sub)
          /\ Gateway(e.sub)' = Gateway(e.sub)
        BY <1>1, <2>1
    <2> QED
        BY <1>4, <2>1, <2>2 DEF Shows
<1> QED
    BY <1>1, <1>2, <1>3, <1>4

(* Rows that nobody writes keep their meaning, and rows of deleted         *)
(* organizations mean nothing.                                             *)
LEMMA RowsKept ==
    ASSUME IInv, Settled,
           \A o \in Org : row'[o] \in {row[o], NewOrg},
           \A o \in removed' : o \in Org /\ row'[o] = NewOrg,
           \A o \in mixed : o \in mixed' \/ row'[o] = NewOrg
    PROVE  RowInv'
<1>0. /\ NewOrg.customer = None /\ NewOrg.sub = None /\ NewOrg.plan = "free"
      /\ TypeOK /\ LogInv
    BY DEF NewOrg, IInv
<1>1. UniqueInv'
    BY <1>0 DEF UniqueInv, IInv
<1>2. OwnSubscription'
    <2>1. ASSUME NEW o \in Org, row'[o].sub # None
          PROVE  bought'[row'[o].sub].org = o
        <3>1. row'[o] = row[o] /\ row[o].sub \in Sub
            BY <1>0, <2>1 DEF TypeOK, Rows
        <3>2. bought[row[o].sub].org = o
            BY <2>1, <3>1 DEF OwnSubscription, IInv
        <3> QED
            BY <1>0, <3>1, <3>2, SettledFacts
    <2> QED
        BY <2>1 DEF OwnSubscription
<1>3. OwnCustomer'
    BY <1>0, SettledFacts DEF OwnCustomer, IInv
<1>4. OwnPlan'
    BY <1>0, SettledFacts DEF OwnPlan, IInv
<1>5. OneEventUnlessMixed'
    <2>1. ASSUME NEW o \in Org \ mixed', row'[o].sub # None
          PROVE  \E e \in Sent' : Shows(row[o], e)'
        <3>1. row'[o] = row[o] /\ o \notin mixed
            BY <1>0, <2>1
        <3>2. PICK e \in Sent : Shows(row[o], e)
            BY <2>1, <3>1 DEF OneEventUnlessMixed, IInv
        <3> QED
            BY <1>0, <3>1, <3>2, SettledFacts DEF Settled
    <2> QED
        BY <2>1 DEF OneEventUnlessMixed
<1> QED
    BY <1>1, <1>2, <1>3, <1>4, <1>5 DEF RowInv

(* A commit gives an organization columns of its own, and of one event     *)
(* unless the request is excused.                                          *)
LEMMA CommitRows ==
    ASSUME IInv, NEW r \in Req, Commit(r)
    PROVE  RowInv'
<1> DEFINE o == target[r]
           e == ev[r]
           new == Updated(r)
<1>1. /\ pc[r] = "write" /\ o # None /\ ~Refused(r)
      /\ row' = [row EXCEPT ![o] = new]
      /\ UNCHANGED <<bought, log, removed>>
    BY DEF Commit, gateVars
<1>2. o \in Org /\ e \in Sent /\ e.sub \in Sub /\ bought[e.sub].org = o
    BY <1>1, UpdatedFacts, SentFacts DEF IInv, RequestInv
<1>3. \A p \in Org : row'[p] = IF p = o THEN new ELSE row[p]
    BY <1>1, <1>2 DEF IInv, TypeOK
<1>4. UniqueInv'
    <2>1. ASSUME o \notin removed PROVE ~Conflict(o, new)
        BY <1>1, <2>1 DEF Refused
    <2>2. ASSUME o \in removed PROVE new = NewOrg
        <3>1. Handled(e, seen[r]) = seen[r] /\ row[o] = NewOrg
            BY <1>1, <2>2 DEF Refused, IInv, UniqueInv
        <3> QED
            BY <3>1 DEF Updated, NewOrg
    <2>3. \A p \in removed : row'[p] = NewOrg
        BY <1>3, <2>2 DEF UniqueInv, IInv, TypeOK
    <2>4. ASSUME NEW p \in Org \ {o}, new.customer # None
          PROVE  row[p].customer # new.customer
        BY <2>1, <2>2, <2>4 DEF Conflict, NewOrg
    <2> QED
        BY <1>1, <1>3, <2>3, <2>4 DEF UniqueInv, IInv
<1>5. OwnSubscription'
    BY <1>1, <1>2, <1>3, UpdatedFacts DEF OwnSubscription, IInv
<1>6. OwnCustomer'
    <2>1. \A s \in Sub : Customer(s)' = Customer(s)
        BY <1>1 DEF Customer, Gateway, Simulated
    <2> QED
        BY <1>1, <1>2, <1>3, <2>1, UpdatedFacts DEF OwnCustomer, IInv
<1>7. OwnPlan'
    <2>1. \A p \in Org : PlansOf(p)' = PlansOf(p)
        BY <1>1 DEF PlansOf, Sent, Says
    <2>2. bought[e.sub].plan \in PlansOf(o) /\ Says(e).price \in PlansOf(o)
        BY <1>2 DEF PlansOf
    <2>3. new.plan \in PlansOf(o) \cup {"free"}
        BY <1>1, <1>2, <2>2, UpdatedFacts DEF OwnPlan, IInv
    <2> QED
        BY <1>3, <2>1, <2>3 DEF OwnPlan, IInv
<1>8. OneEventUnlessMixed'
    <2>1. /\ Sent' = Sent
          /\ \A c \in Rows, f \in Sent : Shows(c, f) => Shows(c, f)'
        BY <1>1 DEF Sent, Shows, Says, Gateway, Customer, Simulated
    <2>2. mixed' = IF r \notin excused THEN mixed \ {o}
                   ELSE IF new = row[o] THEN mixed ELSE mixed \cup {o}
        BY DEF Commit
    <2>3. ASSUME NEW p \in Org \ mixed', row'[p].sub # None
          PROVE  \E f \in Sent : Shows(row'[p], f)
        <3>1. CASE row'[p] = row[p] /\ p \notin mixed
            BY <2>3, <3>1 DEF IInv, OneEventUnlessMixed
        <3>2. CASE ~(row'[p] = row[p] /\ p \notin mixed)
            <4>1. p = o /\ r \notin excused
                BY <1>3, <2>2, <2>3, <3>2
            <4>2. row'[p] = Handled(e, seen[r]) /\ seen[r] \in Rows
                BY <1>1, <1>3, <4>1, UpdatedFacts DEF IInv, TypeOK
            <4> QED
                BY <1>2, <4>2, HandledFacts DEF IInv
        <3> QED
            BY <3>1, <3>2
    <2>4. \A p \in Org, f \in Sent : Shows(row'[p], f) => Shows(row[p], f)'
        BY <1>1 DEF Shows, Says, Gateway, Customer, Simulated
    <2> QED
        BY <2>1, <2>3, <2>4 DEF OneEventUnlessMixed
<1> QED
    BY <1>4, <1>5, <1>6, <1>7, <1>8 DEF RowInv

(* RequestInv and SeenInv of one request. *)
Knows(q) ==
    /\ pc[q] # "write" => target[q] = None
    /\ pc[q] # "idle" => ev[q] \in Sent
    /\ pc[q] = "customer" => Gateway(ev[q].sub) = "stripe"
    /\ target[q] # None => bought[ev[q].sub].org = target[q]
    /\ pc[q] # "idle" /\ target[q] = None => q \in excused
    /\ target[q] # None /\ q \notin excused =>
        /\ target[q] \notin removed
        /\ \A c \in Columns :
              row[target[q]][c] \in {seen[q][c], Handled(ev[q], seen[q])[c]}

LEMMA KnowsAll == (\A q \in Req : Knows(q)) <=> RequestInv /\ SeenInv
BY NewOrgFacts DEF Knows, RequestInv, SeenInv

(* A request that does nothing knows as much as before, if its columns are *)
(* changed by its own event only or it is excused.                         *)
LEMMA KnowsKept ==
    ASSUME IInv, Settled, NEW q \in Req,
           UNCHANGED <<pc[q], ev[q], target[q], seen[q]>>,
           q \in excused => q \in excused',
           target[q] # None /\ q \notin excused' =>
              /\ target[q] \notin removed'
              /\ \A c \in Columns :
                    row'[target[q]][c] \in
                        {row[target[q]][c], Handled(ev[q], seen[q])[c]}
    PROVE  Knows(q)'
<1>0. Knows(q) /\ TypeOK /\ LogInv
    BY KnowsAll DEF IInv
<1>1. CASE pc[q] = "idle"
    BY <1>0, <1>1 DEF Knows
<1>2. CASE pc[q] # "idle"
    <2>1. /\ ev[q] \in Sent' /\ Says(ev[q])' = Says(ev[q])
          /\ bought'[ev[q].sub] = bought[ev[q].sub]
        <3>1. ev[q] \in Sent
            BY <1>0, <1>2 DEF Knows
        <3>2. ev[q].sub \in Sub /\ bought[ev[q].sub] # NotBought
            BY <1>0, <3>1, SentFacts
        <3>3. log'[ev[q].sub][ev[q].n] = log[ev[q].sub][ev[q].n]
            BY <3>1 DEF Settled, Says
        <3> QED
            BY <3>1, <3>2, <3>3 DEF Settled, Says
    <2>2. Handled(ev[q], seen[q])' = Handled(ev[q], seen[q])
        BY <2>1 DEF Handled, Stripe, LemonSqueezy, PayPal, Payoneer,
            Subscribed, Gateway, Customer, Simulated
    <2>3. Gateway(ev[q].sub)' = Gateway(ev[q].sub)
        BY <2>1 DEF Gateway
    <2> QED
        BY <1>0, <1>2, <2>1, <2>2, <2>3 DEF Knows
<1> QED
    BY <1>1, <1>2

(* A request that has sent a SELECT. *)
LEMMA KnowsFound ==
    ASSUME IInv, Settled, NEW r \in Req, NEW e \in Events,
           NEW found \in SUBSET Org, NEW otherwise \in Places \ {"idle"},
           Select(r, found, otherwise), UNCHANGED <<row, removed>>,
           target[r] = None, e \in Sent', ev'[r] = e,
           \A q \in Req \ {r} : ev'[q] = ev[q],
           \A o \in found : o \notin removed /\ bought'[e.sub].org = o,
           found = {} => r \in excused',
           otherwise = "customer" => bought'[e.sub].gateway = "stripe",
           \A q \in Req \ {r} : q \in excused <=> q \in excused'
    PROVE  \A q \in Req : Knows(q)'
<1>0. TypeOK /\ \A q \in Req : Knows(q)
    BY KnowsAll DEF IInv
<1>1. ASSUME NEW q \in Req \ {r} PROVE Knows(q)'
    <2>1. UNCHANGED <<pc[q], ev[q], target[q], seen[q]>>
        BY <1>0 DEF Select, TypeOK
    <2>2. target[q] # None /\ q \notin excused => target[q] \notin removed
        BY <1>0 DEF Knows
    <2> QED
        BY <2>1, <2>2, KnowsKept
<1>2. CASE found = {}
    <2>1. /\ target'[r] = None /\ r \in excused' /\ ev'[r] \in Sent'
          /\ pc'[r] = otherwise
        BY <1>0, <1>2 DEF Select, TypeOK
    <2> QED
        BY <1>1, <2>1 DEF Knows, Gateway
<1>3. CASE found # {}
    <2>1. PICK o \in found :
             pc'[r] = "write" /\ target'[r] = o /\ seen'[r] = row[o]
        BY <1>0, <1>3 DEF Select, TypeOK
    <2>2. o # None /\ o \notin removed' /\ bought'[ev'[r].sub].org = o
        BY BillingAssumption
    <2> QED
        BY <1>1, <2>1, <2>2 DEF Knows
<1> QED
    BY <1>2, <1>3

(* A request that ends. *)
LEMMA KnowsEnded ==
    ASSUME IInv, Settled, NEW r \in Req, Leave(r), UNCHANGED removed,
           \A q \in Req \ {r} : q \in excused => q \in excused',
           \A q \in Req \ {r} : target[q] # None /\ q \notin excused' =>
              \A c \in Columns :
                    row'[target[q]][c] \in
                        {row[target[q]][c], Handled(ev[q], seen[q])[c]}
    PROVE  \A q \in Req : Knows(q)'
<1>0. TypeOK /\ \A q \in Req : Knows(q)
    BY KnowsAll DEF IInv
<1>1. ASSUME NEW q \in Req \ {r} PROVE Knows(q)'
    <2>1. UNCHANGED <<pc[q], ev[q], target[q], seen[q]>>
        BY <1>0 DEF Leave, TypeOK
    <2>2. target[q] # None /\ q \notin excused => target[q] \notin removed
        BY <1>0 DEF Knows
    <2> QED
        BY <2>1, <2>2, KnowsKept
<1>2. Knows(r)'
    <2>1. pc'[r] = "idle" /\ target'[r] = None
        BY <1>0 DEF Leave, TypeOK
    <2> QED
        BY <2>1 DEF Knows
<1> QED
    BY <1>1, <1>2

(* Whoever finds no organization with the first SELECT has a stray event.  *)
LEMMA StrayFound ==
    ASSUME IInv, NEW e \in Sent,
           IF Says(e).tagged THEN ById(e) = {} ELSE BySubscription(e) = {}
    PROVE  Stray(e)
<1>1. e.sub \in Sub /\ e.sub # None /\ Says(e).tagged \in BOOLEAN
      /\ bought[e.sub].org \in Org
    BY SentFacts, BillingAssumption
    DEF IInv, Contents, Purchases, SimulatedPurchases
<1>2. CASE Says(e).tagged
    <2>1. bought[e.sub].org \in removed
        BY <1>1, <1>2 DEF ById
    <2>2. \A o \in Org : row[o].sub # e.sub
        BY <1>1, <2>1 DEF IInv, OwnSubscription, UniqueInv, NewOrg
    <2> QED
        BY <2>1, <2>2 DEF Stray
<1>3. CASE ~Says(e).tagged
    BY <1>3 DEF BySubscription, Stray
<1> QED
    BY <1>2, <1>3

(* What requests know stays true. *)
LEMMA KnowsStep == IInv /\ [Next]_vars => RequestInv' /\ SeenInv'
<1> SUFFICES ASSUME IInv, [Next]_vars PROVE \A q \in Req : Knows(q)'
    BY NewOrgFacts DEF Knows, RequestInv, SeenInv
<1>0. Settled /\ TypeOK /\ LogInv /\ \A q \in Req : Knows(q)
    BY SettledStep, KnowsAll DEF IInv
<1>1. ASSUME UNCHANGED <<row, removed, reqVars, excused>>
      PROVE  \A q \in Req : Knows(q)'
    <2>1. ASSUME NEW q \in Req PROVE Knows(q)'
        <3>1. UNCHANGED <<pc[q], ev[q], target[q], seen[q]>>
            BY <1>1 DEF reqVars
        <3>2. target[q] # None /\ q \notin excused => target[q] \notin removed
            BY <1>0 DEF Knows
        <3> QED
            BY <1>0, <1>1, <3>1, <3>2, KnowsKept
    <2> QED
        BY <2>1
<1>2. ASSUME NEW r \in Req, NEW e \in Events, Deliver(r, e)
      PROVE  \A q \in Req : Knows(q)'
    <2> DEFINE found == IF Says(e).tagged THEN ById(e) ELSE BySubscription(e)
               otherwise == IF Says(e).tagged THEN AfterId(e)
                            ELSE AfterSubscription(e)
    <2>1. /\ e \in Sent /\ pc[r] = "idle" /\ ev' = [ev EXCEPT ![r] = e]
          /\ Select(r, found, otherwise)
          /\ excused' = IF Stray(e) THEN excused \cup {r} ELSE excused
          /\ UNCHANGED <<gateVars, row, removed>>
        BY <1>2 DEF Deliver, orgVars
    <2>2. otherwise \in Places \ {"idle"}
        BY DEF AfterId, AfterSubscription, Places
    <2>3. /\ found \in SUBSET Org
          /\ \A o \in found : o \notin removed /\ bought'[e.sub].org = o
        <3>1. bought' = bought
            BY <2>1 DEF gateVars
        <3> QED
            BY <2>1, <3>1, FoundOwn DEF ById, BySubscription
    <2>4. target[r] = None /\ e \in Sent'
        BY <1>0, <2>1 DEF Knows, Settled
    <2>5. found = {} => r \in excused'
        BY <2>1, StrayFound
    <2>6. ev'[r] = e /\ \A q \in Req \ {r} : ev'[q] = ev[q]
        BY <1>0, <2>1 DEF TypeOK
    <2>7. \A q \in Req \ {r} : q \in excused <=> q \in excused'
        BY <2>1
    <2>8. otherwise = "customer" => bought'[e.sub].gateway = "stripe"
        BY <2>1 DEF AfterId, AfterSubscription, Gateway, gateVars
    <2> HIDE DEF found, otherwise
    <2> QED
        BY <1>0, <2>1, <2>2, <2>3, <2>4, <2>5, <2>6, <2>7, <2>8, KnowsFound
<1>3. ASSUME NEW r \in Req, NEW place \in Places \ {"idle", "write"},
             NEW found \in SUBSET Org, NEW otherwise \in Places \ {"idle"},
             LookFurther(r, place, found, otherwise),
             otherwise = "customer" => Gateway(ev[r].sub) = "stripe",
             \A o \in found : o \notin removed /\ bought[ev[r].sub].org = o
      PROVE  \A q \in Req : Knows(q)'
    <2>1. /\ pc[r] = place /\ Select(r, found, otherwise) /\ ev' = ev
          /\ excused' = (IF found = {} THEN excused ELSE excused \ {r})
          /\ UNCHANGED <<gateVars, row, removed>>
        BY <1>3 DEF LookFurther, orgVars
    <2>2. /\ target[r] = None /\ r \in excused
          /\ ev[r] \in Events /\ ev[r] \in Sent'
        BY <1>0, <2>1, SentFacts DEF Knows, Settled
    <2>3. PICK e \in Events : e = ev[r]
        BY <2>2
    <2>4. /\ \A o \in found : o \notin removed /\ bought'[e.sub].org = o
          /\ otherwise = "customer" => bought'[e.sub].gateway = "stripe"
        BY <1>3, <2>1, <2>3 DEF gateVars, Gateway
    <2> QED
        BY <1>0, <2>1, <2>2, <2>3, <2>4, KnowsFound
<1>4. ASSUME NEW r \in Req, LookBySubscription(r)
      PROVE  \A q \in Req : Knows(q)'
    <2>1. ev[r] \in Sent
        BY <1>0, <1>4 DEF LookBySubscription, LookFurther, Knows
    <2>2. \A o \in BySubscription(ev[r]) :
             o \in Org \ removed /\ bought[ev[r].sub].org = o
        BY <2>1, FoundOwn
    <2> QED
        BY <1>3, <1>4, <2>2 DEF LookBySubscription, AfterSubscription, Places
<1>5. ASSUME NEW r \in Req, LookByCustomer(r)
      PROVE  \A q \in Req : Knows(q)'
    <2>1. ev[r] \in Sent
        BY <1>0, <1>5 DEF LookByCustomer, LookFurther, Knows
    <2>2. Gateway(ev[r].sub) = "stripe"
        BY <1>0, <1>5 DEF LookByCustomer, LookFurther, Knows
    <2>3. ASSUME NEW o \in ByCustomer(ev[r])
          PROVE  o \in Org \ removed /\ bought[ev[r].sub].org = o
        BY <2>1, <2>2, FoundOwn
    <2> QED
        BY <1>3, <1>5, <2>3 DEF LookByCustomer, ByCustomer, Places
<1>6. ASSUME NEW r \in Req, NEW s \in Sub, PayoneerComplete(r, s)
      PROVE  \A q \in Req : Knows(q)'
    <2> DEFINE e == [sub |-> s, n |-> 1]
    <2>1. PICK p \in SimulatedPurchases :
             /\ bought' = [bought EXCEPT ![s] = p]
             /\ log' = [log EXCEPT ![s] = <<Payment>>]
             /\ ev' = [ev EXCEPT ![r] = e]
             /\ Select(r, {p.org} \ removed, "write")
             /\ excused' = IF p.org \in removed THEN excused \cup {r}
                           ELSE excused
        BY <1>6 DEF PayoneerComplete
    <2>2. e \in Events
        BY BillingAssumption DEF Events
    <2>3. e \in Sent'
        BY <1>0, <2>1, <2>2 DEF Sent, TypeOK
    <2>4. p.org \in Org /\ bought'[e.sub].org = p.org
        BY <1>0, <2>1 DEF SimulatedPurchases, TypeOK
    <2>5. target[r] = None /\ UNCHANGED <<row, removed>>
        BY <1>0, <1>6 DEF PayoneerComplete, Knows, orgVars
    <2>6. ev'[r] = e /\ \A q \in Req \ {r} : ev'[q] = ev[q]
        BY <1>0, <2>1 DEF TypeOK
    <2>7. \A q \in Req \ {r} : q \in excused <=> q \in excused'
        BY <2>1
    <2> HIDE DEF e
    <2> QED
        BY <1>0, <2>1, <2>2, <2>3, <2>4, <2>5, <2>6, <2>7, KnowsFound DEF Places
<1>7. ASSUME NEW r \in Req, Reject(r) \/ Ignore(r) \/ Fail(r)
      PROVE  \A q \in Req : Knows(q)'
    <2>1. /\ Leave(r) /\ UNCHANGED <<row, removed>>
          /\ excused' = excused \ {r}
        BY <1>7 DEF Reject, Ignore, Fail, orgVars
    <2> QED
        BY <1>0, <2>1, KnowsEnded
<1>8. ASSUME NEW r \in Req, Commit(r)
      PROVE  \A q \in Req : Knows(q)'
    <2>1. /\ Leave(r) /\ UNCHANGED removed /\ target[r] # None
          /\ row' = [row EXCEPT ![target[r]] = Updated(r)]
          /\ excused' = (IF Updated(r) = row[target[r]] THEN excused
                         ELSE excused \cup Others(r, target[r])) \ {r}
        BY <1>8 DEF Commit
    <2>2. target[r] \in Org /\ ev[r] \in Sent
        BY <2>1, UpdatedFacts
    <2>3. ASSUME NEW q \in Req \ {r}, target[q] # None, q \notin excused',
                 NEW c \in Columns
          PROVE  row'[target[q]][c] \in
                    {row[target[q]][c], Handled(ev[q], seen[q])[c]}
        <3>1. CASE row'[target[q]] = row[target[q]]
            BY <3>1
        <3>2. CASE row'[target[q]] # row[target[q]]
            <4>1. target[q] = target[r] /\ Updated(r) # row[target[r]]
                BY <1>0, <2>1, <2>2, <2>3, <3>2 DEF TypeOK
            <4>2. ev[q] = ev[r] /\ row'[target[q]] = Updated(r)
                BY <1>0, <2>1, <2>2, <2>3, <4>1 DEF Others, TypeOK
            <4>3. Updated(r)[c] = IF Handled(ev[r], seen[r])[c] = seen[r][c]
                                  THEN row[target[r]][c]
                                  ELSE Handled(ev[r], seen[r])[c]
                BY <2>1, UpdatedFacts
            <4>4. Handled(ev[r], seen[r])[c] \in
                    {seen[r][c], Handled(ev[r], seen[q])[c]}
                BY <1>0, <2>2, HandledFacts DEF TypeOK
            <4> QED
                BY <4>1, <4>2, <4>3, <4>4
        <3> QED
            BY <3>1, <3>2
    <2> QED
        BY <1>0, <2>1, <2>3, KnowsEnded
<1>9. ASSUME NEW o \in Org, Remove(o)
      PROVE  \A q \in Req : Knows(q)'
    <2>1. /\ removed' = removed \cup {o} /\ row' = [row EXCEPT ![o] = NewOrg]
          /\ excused' = excused \cup {q \in Req : target[q] = o}
          /\ UNCHANGED reqVars
        BY <1>9 DEF Remove
    <2>2. ASSUME NEW q \in Req PROVE Knows(q)'
        <3>1. UNCHANGED <<pc[q], ev[q], target[q], seen[q]>>
            BY <2>1 DEF reqVars
        <3>2. ASSUME target[q] # None, q \notin excused'
              PROVE  /\ target[q] \notin removed'
                     /\ row'[target[q]] = row[target[q]]
            BY <1>0, <2>1, <3>2 DEF Knows, TypeOK
        <3> QED
            BY <1>0, <2>1, <3>1, <3>2, KnowsKept
    <2> QED
        BY <2>2
<1>10. ASSUME NEW s \in Sub, Checkout(s) \/ Announce(s)
       PROVE  \A q \in Req : Knows(q)'
    BY <1>1, <1>10 DEF Checkout, Announce, orgVars
<1>11. CASE UNCHANGED vars
    BY <1>1, <1>11 DEF vars, orgVars
<1> QED
    BY <1>2, <1>4, <1>5, <1>6, <1>7, <1>8, <1>9, <1>10, <1>11 DEF Next, Progress

(* An answer without excuse leaves the columns of the event behind.        *)
LEMMA AnswerStep == IInv /\ [Next]_vars => AckedShownUnlessLost'
<1> SUFFICES ASSUME IInv, [Next]_vars PROVE AckedShownUnlessLost'
    OBVIOUS
<1>0. AckedShownUnlessLost /\ TypeOK /\ LogInv
    BY DEF IInv
<1>1. ASSUME NEW r \in Req, NEW columns, Answer(r, columns),
             r \in excused \/ Shows(columns, ev[r])
      PROVE  AckedShownUnlessLost'
    BY <1>0, <1>1 DEF Answer, AckedShownUnlessLost
<1>2. ASSUME NEW r \in Req, Commit(r) PROVE AckedShownUnlessLost'
    <2>1. target[r] # None /\ Answer(r, Updated(r))
        BY <1>2 DEF Commit
    <2>2. r \notin excused => Shows(Updated(r), ev[r])
        <3>1. ev[r] \in Sent /\ seen[r] \in Rows
            BY <1>0, <2>1, UpdatedFacts DEF TypeOK
        <3> QED
            BY <1>0, <2>1, <3>1, UpdatedFacts, HandledFacts
    <2> QED
        BY <1>1, <2>1, <2>2
<1>3. ASSUME NEW r \in Req, Ignore(r) PROVE AckedShownUnlessLost'
    <2>1. r \in excused /\ Answer(r, NewOrg)
        BY <1>3 DEF Ignore, IInv, RequestInv
    <2> QED
        BY <1>1, <2>1
<1>4. CASE UNCHANGED <<acked, shown, lost>>
    BY <1>0, <1>4 DEF AckedShownUnlessLost
<1> QED
    BY <1>2, <1>3, <1>4
    DEF Next, Progress, Checkout, Announce, Deliver, PayoneerComplete,
        LookBySubscription, LookByCustomer, LookFurther, Reject, Fail, Remove,
        history, vars

(* Rows are written by a commit, and lost by a deletion. *)
LEMMA RowStep == IInv /\ [Next]_vars => RowInv'
<1> SUFFICES ASSUME IInv, [Next]_vars PROVE RowInv'
    OBVIOUS
<1>0. Settled /\ TypeOK /\ UniqueInv
    BY SettledStep DEF IInv
<1>1. ASSUME NEW r \in Req, Commit(r) PROVE RowInv'
    BY <1>1, CommitRows
<1>2. ASSUME NEW o \in Org, Remove(o) PROVE RowInv'
    <2>1. /\ removed' = removed \cup {o} /\ mixed' = mixed \ {o}
          /\ row' = [row EXCEPT ![o] = NewOrg]
        BY <1>2 DEF Remove
    <2>2. \A p \in Org : row'[p] = IF p = o THEN NewOrg ELSE row[p]
        BY <1>0, <2>1 DEF TypeOK
    <2>3. \A p \in removed : p \in Org /\ row[p] = NewOrg
        BY <1>0 DEF TypeOK, UniqueInv
    <2>4. \A p \in mixed : p \in mixed' \/ row'[p] = NewOrg
        BY <2>1, <2>2
    <2> QED
        BY <1>0, <2>1, <2>2, <2>3, <2>4, RowsKept
<1>3. CASE UNCHANGED <<row, removed, mixed>>
    BY <1>0, <1>3, RowsKept DEF TypeOK, UniqueInv
<1> QED
    BY <1>1, <1>2, <1>3
    DEF Next, Progress, Checkout, Announce, Deliver, PayoneerComplete,
        LookBySubscription, LookByCustomer, LookFurther, Reject, Ignore, Fail,
        orgVars, history, vars

LEMMA AlwaysIInv == Spec => []IInv
<1>1. IInv /\ [Next]_vars => IInv'
    BY TypeStep, LogStep, KnowsStep, RowStep, AnswerStep DEF IInv, RowInv
<1> QED
    BY <1>1, InitIInv, PTL DEF Spec

(* Every variable keeps its type. *)
THEOREM TypeCorrect == Spec => []TypeOK
<1>1. IInv => TypeOK
    BY DEF IInv
<1> QED
    BY <1>1, AlwaysIInv, PTL

(* No organization is ever given a subscription bought for another one,    *)
(* however webhooks overlap, repeat and fail.                              *)
THEOREM SubscriptionsOwned == Spec => []OwnSubscription
<1>1. IInv => OwnSubscription
    BY DEF IInv
<1> QED
    BY <1>1, AlwaysIInv, PTL

(* Nor is it given a customer identifier of another one. *)
THEOREM CustomersOwned == Spec => []OwnCustomer
<1>1. IInv => OwnCustomer
    BY DEF IInv
<1> QED
    BY <1>1, AlwaysIInv, PTL

(* Nor a plan that was not bought for it. *)
THEOREM PlansOwned == Spec => []OwnPlan
<1>1. IInv => OwnPlan
    BY DEF IInv
<1> QED
    BY <1>1, AlwaysIInv, PTL

(* The columns of an organization are those of one event, unless a request *)
(* has overwritten what another one changed.                               *)
THEOREM ColumnsOfOneEvent == Spec => []OneEventUnlessMixed
<1>1. IInv => OneEventUnlessMixed
    BY DEF IInv
<1> QED
    BY <1>1, AlwaysIInv, PTL

(* An answered event was shown, or lost in one of the three named ways. *)
THEOREM AnswersShown == Spec => []AckedShownUnlessLost
<1>1. IInv => AckedShownUnlessLost
    BY DEF IInv
<1> QED
    BY <1>1, AlwaysIInv, PTL

(* Only a shared payer makes the database refuse a webhook of an           *)
(* organization that is still there.                                       *)
THEOREM Refusals == Spec => []RefusedOnlyIfShared
<1>1. ASSUME IInv, NEW r \in Req, target[r] \notin removed \cup {None},
             Refused(r)
      PROVE  Shared(ev[r])
    <2> DEFINE o == target[r]
    <2>1. /\ bought[ev[r].sub].org = o /\ ev[r] \in Sent
          /\ o \in Org
          /\ Updated(r).sub \in {ev[r].sub, row[o].sub}
          /\ Updated(r).customer \in {Customer(ev[r].sub), row[o].customer, None}
        BY <1>1, UpdatedFacts DEF IInv, RequestInv
    <2>2. Updated(r).sub # None => bought[Updated(r).sub].org = o
        BY <1>1, <2>1 DEF IInv, OwnSubscription
    <2>3. PICK p \in Org \ {o} :
             \/ /\ Updated(r).customer # None
                /\ row[p].customer = Updated(r).customer
             \/ Updated(r).sub # None /\ row[p].sub = Updated(r).sub
        BY <1>1 DEF Refused, Conflict
    <2>4. row[p].sub # None => bought[row[p].sub].org = p
        BY <1>1 DEF IInv, OwnSubscription
    <2>5. /\ Updated(r).customer # None
          /\ row[p].customer = Updated(r).customer
        BY <2>2, <2>3, <2>4
    <2>6. Updated(r).customer # row[o].customer
        BY <1>1, <2>1, <2>5 DEF IInv, UniqueInv
    <2> QED
        BY <2>1, <2>5, <2>6 DEF Shared
<1>2. IInv => RefusedOnlyIfShared
    BY <1>1 DEF RefusedOnlyIfShared
<1> QED
    BY <1>2, AlwaysIInv, PTL
=============================================================================
