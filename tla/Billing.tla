------------------------------- MODULE Billing -------------------------------
(***************************************************************************)
(* How the subscription of an organization follows the webhooks of four    *)
(* payment gateways (app/webhooks/stripe.py over app/services/billing/).   *)
(* A gateway sends an event whenever a subscription changes, again until   *)
(* it is answered 200, and in no particular order.  A webhook request      *)
(* looks up its organization by up to three SELECTs, and commits the       *)
(* columns that differ from what it loaded; nothing locks the row or       *)
(* compares events.                                                        *)
(*                                                                         *)
(* The gateways are outside the program: of them the model has what the    *)
(* handlers read from their events.                                        *)
(***************************************************************************)
EXTENDS Naturals, Sequences, FiniteSets

CONSTANTS
    Req,            \* webhook requests in flight at once
    Org,            \* organizations
    Sub,            \* subscriptions at the gateways
    Payer,          \* people who pay
    Paid,           \* the plans besides "free"
    None,           \* NULL
    Reported,       \* bound: statuses that events report
    MaxEvents,      \* bound: events of all subscriptions
    MaxRemoved      \* bound: organizations that are deleted

ASSUME BillingAssumption ==
    /\ None \notin Org \cup Sub \cup Payer
    /\ MaxEvents \in Nat \ {0} /\ MaxRemoved \in Nat

Gateways == {"stripe", "lemonsqueezy", "paypal", "payoneer"}

(* past_due and unpaid are treated as active is.  *)
Statuses == {"trialing", "active", "canceled"}

ASSUME ReportedAssumption == "active" \in Reported /\ Reported \subseteq Statuses

ASSUME NoneAssumption == None \notin Gateways \cup Gateways \X (Sub \cup Payer)

VARIABLES
    bought,     \* what each subscription was bought as; NotBought if it is not
    log,        \* the events of each subscription, in the gateway's order
    row,        \* the billing columns of each organization
    removed,    \* organizations that a superuser has deleted
    pc,         \* what webhook request r does next
    ev,         \* the event it carries
    target,     \* the organization it has found
    seen,       \* the row of that organization as it was loaded
    acked,      \* events answered 200
    excused,    \* history: requests whose answer may cover up a loss
    shown,      \* history: events an organization showed once answered
    lost,       \* history: events answered unshown by an excused request
    mixed       \* history: organizations last written by an excused request

gateVars == <<bought, log>>
orgVars == <<row, removed>>
reqVars == <<pc, ev, target, seen>>
history == <<shown, lost, mixed>>
vars == <<gateVars, orgVars, reqVars, acked, excused, history>>

(* Checkouts offer every plan (PlanType), at a price that may be nothing. *)
Plans == Paid \cup {"free"}

NotBought == [org |-> None, gateway |-> None, payer |-> None, plan |-> None]

Purchases == [org : Org, gateway : Gateways, payer : Payer, plan : Plans]

(* Payoneer's checkout is a page of the program that simulates a payment. *)
SimulatedPurchases ==
    [org : Org, gateway : {"payoneer"}, payer : {None}, plan : Plans]

(* An event is the nth of subscription sub. *)
Events == [sub : Sub, n : 1..MaxEvents]
NoEvent == [sub |-> None, n |-> 0]

(* The status; whether the event gives a trial end, the payer, and the     *)
(* organization and plan of the checkout where the handler looks for them; *)
(* and the plan of the price paid now, if the handler looks at it.         *)
Contents == [status : Reported, trial : BOOLEAN, payer : BOOLEAN,
             tagged : BOOLEAN, price : Plans \cup {None}]

(* Customer identifiers: Stripe makes a customer per checkout, and so does *)
(* the simulated checkout; the others know the payer.                      *)
Customers == (Gateways \X (Sub \cup Payer)) \cup {None}

(* The billing columns; those that repeat the two identifiers for Stripe   *)
(* are left out.                                                           *)
Rows == [gateway : Gateways \cup {None}, customer : Customers,
         sub : Sub \cup {None}, status : Statuses,
         plan : Plans, trial : BOOLEAN]

(* A registered organization (app/core/auth.py 76-83). *)
NewOrg == [gateway |-> None, customer |-> None, sub |-> None,
           status |-> "trialing", plan |-> "free", trial |-> TRUE]

Init ==
    /\ bought = [s \in Sub |-> NotBought]
    /\ log = [s \in Sub |-> <<>>]
    /\ row = [o \in Org |-> NewOrg]
    /\ removed = {}
    /\ pc = [r \in Req |-> "idle"]
    /\ ev = [r \in Req |-> NoEvent]
    /\ target = [r \in Req |-> None]
    /\ seen = [r \in Req |-> NewOrg]
    /\ acked = {} /\ excused = {}
    /\ shown = {} /\ lost = {} /\ mixed = {}
-----------------------------------------------------------------------------
(* What an event says. *)
Says(e) == log[e.sub][e.n]

Gateway(s) == bought[s].gateway

Simulated(s) == bought[s].payer = None

Customer(s) ==
    <<Gateway(s), IF Gateway(s) = "stripe" \/ Simulated(s)
                  THEN s ELSE bought[s].payer>>

Sent == {e \in Events : e.n \in DOMAIN log[e.sub]}

(* create_checkout_session, and the customer pays. *)
Checkout(s) ==
    /\ bought[s] = NotBought
    /\ \E p \in Purchases : bought' = [bought EXCEPT ![s] = p]
    /\ UNCHANGED <<log, orgVars, reqVars, acked, excused, history>>

(* What the events of a gateway may say.  Stripe is given organization and *)
(* plan as metadata of the checkout session, which a subscription may or   *)
(* may not carry; the price, which the customer may have changed and the   *)
(* program may not know, is looked at when it does not.                    *)
FromStripe(c) == c.payer /\ (c.tagged => c.price = None)

(* Lemon Squeezy returns the checkout's custom data in the event's meta,   *)
(* beside the data that the handler looks at.                              *)
FromLemonSqueezy(c) == c.payer /\ ~c.tagged

(* PayPal returns custom_id, may not know the payer yet, and tells of no   *)
(* trial end.                                                              *)
FromPayPal(c) == c.tagged /\ ~c.trial

(* Payoneer knows payments only, with the organization of the checkout,    *)
(* and may not know who paid.                                              *)
FromPayoneer(c) == c.tagged /\ ~c.trial /\ c.status = "active"

Tells(g, c) ==
    \/ g = "stripe" /\ FromStripe(c)
    \/ /\ c.price = None
       /\ \/ g = "lemonsqueezy" /\ FromLemonSqueezy(c)
          \/ g = "paypal" /\ FromPayPal(c)
          \/ g = "payoneer" /\ FromPayoneer(c)

(* A subscription changes at its gateway, which has an event to send.      *)
Announce(s) ==
    /\ bought[s] # NotBought
    /\ Gateway(s) = "payoneer" => log[s] = <<>>
    /\ Cardinality(Sent) < MaxEvents
    /\ \E c \in Contents :
          Tells(Gateway(s), c) /\ log' = [log EXCEPT ![s] = Append(@, c)]
    /\ UNCHANGED <<bought, orgVars, reqVars, acked, excused, history>>

(* The three SELECTs for the organization of an event: by the id that it   *)
(* carries, ...                                                            *)
ById(e) ==
    {o \in Org \ removed : Says(e).tagged /\ o = bought[e.sub].org}

(* Mutant: the organization of the same payer is taken. *)
ByPayer(e) ==
    {o \in Org : /\ row[o].sub # None
                 /\ bought[row[o].sub].payer = bought[e.sub].payer}

(* ... by billing_subscription_id, except with Payoneer, ... *)
BySubscription(e) == {o \in Org : row[o].sub = e.sub}

(* ... and with Stripe by billing_customer_id.                             *)
ByCustomer(e) == {o \in Org : row[o].customer = Customer(e.sub)}

(* A SELECT of request r finds one of these organizations and loads it, or *)
(* the request goes on to another one.                                     *)
Select(r, found, otherwise) ==
    \/ \E o \in found :
          /\ pc' = [pc EXCEPT ![r] = "write"]
          /\ target' = [target EXCEPT ![r] = o]
          /\ seen' = [seen EXCEPT ![r] = row[o]]
    \/ /\ found = {}
       /\ pc' = [pc EXCEPT ![r] = otherwise]
       /\ UNCHANGED <<target, seen>>

AfterSubscription(e) ==
    IF Gateway(e.sub) = "stripe" THEN "customer" ELSE "write"

AfterId(e) ==
    IF Gateway(e.sub) = "payoneer" THEN "write" ELSE "subscription"

(* No organization is named by e and still there, or has its subscription. *)
Stray(e) ==
    /\ Says(e).tagged => bought[e.sub].org \in removed
    /\ \A o \in Org : row[o].sub # e.sub

(* A gateway delivers an event that it does not know to be answered, or    *)
(* once more; the request sends its first SELECT, ...                      *)
Deliver(r, e) ==
    /\ pc[r] = "idle"
    /\ e \in Sent
    /\ ~Simulated(e.sub)
    /\ ev' = [ev EXCEPT ![r] = e]
    /\ IF Says(e).tagged THEN Select(r, ById(e), AfterId(e))
       ELSE Select(r, BySubscription(e), AfterSubscription(e))
    /\ excused' = IF Stray(e) THEN excused \cup {r} ELSE excused
    /\ UNCHANGED <<gateVars, orgVars, acked, history>>

(* ... and its later ones; who finds an organization has no excuse yet.    *)
LookFurther(r, place, found, otherwise) ==
    /\ pc[r] = place
    /\ Select(r, found, otherwise)
    /\ excused' = IF found = {} THEN excused ELSE excused \ {r}
    /\ UNCHANGED <<gateVars, orgVars, ev, acked, history>>

LookBySubscription(r) ==
    LookFurther(r, "subscription", BySubscription(ev[r]),
                AfterSubscription(ev[r]))

LookByCustomer(r) ==
    LookFurther(r, "customer", ByCustomer(ev[r]), "write")

Payment == [status |-> "active", trial |-> FALSE, payer |-> TRUE,
            tagged |-> TRUE, price |-> None]

(* payoneer_checkout_complete: the page reports a payment, once, with the  *)
(* organization and plan of its form and identifiers of its own.           *)
PayoneerComplete(r, s) ==
    /\ pc[r] = "idle"
    /\ bought[s] = NotBought
    /\ Cardinality(Sent) < MaxEvents
    /\ \E p \in SimulatedPurchases :
          /\ bought' = [bought EXCEPT ![s] = p]
          /\ log' = [log EXCEPT ![s] = <<Payment>>]
          /\ ev' = [ev EXCEPT ![r] = [sub |-> s, n |-> 1]]
          /\ Select(r, {p.org} \ removed, "write")
          /\ excused' = IF p.org \in removed THEN excused \cup {r} ELSE excused
    /\ UNCHANGED <<orgVars, acked, history>>

(* What every handler sets on the organization it has loaded. *)
Subscribed(e, old) ==
    [old EXCEPT !.gateway = Gateway(e.sub),
                !.sub = e.sub,
                !.status = Says(e).status]

(* Mutant: the prices of two plans are mixed up. *)
StripeMispriced(e, old) ==
    [Subscribed(e, old) EXCEPT
        !.customer = Customer(e.sub),
        !.plan = CASE Says(e).tagged -> bought[e.sub].plan
                   [] Says(e).price \in Plans ->
                        CHOOSE p \in Plans : p # Says(e).price
                   [] OTHER -> @,
        !.trial = Says(e).trial]

(* Mutant: the trial end of an earlier subscription is left. *)
StripeKeepsTrial(e, old) ==
    [Subscribed(e, old) EXCEPT
        !.customer = Customer(e.sub),
        !.plan = CASE Says(e).tagged -> bought[e.sub].plan
                   [] ~Says(e).tagged /\ Says(e).price # None ->
                        Says(e).price
                   [] OTHER -> @,
        !.trial = Says(e).trial \/ @]

(* Stripe: without metadata the plan is known by the price, if at all. *)
Stripe(e, old) ==
    [Subscribed(e, old) EXCEPT
        !.customer = Customer(e.sub),
        !.plan = CASE Says(e).tagged -> bought[e.sub].plan
                   [] ~Says(e).tagged /\ Says(e).price # None ->
                        Says(e).price
                   [] OTHER -> @,
        !.trial = Says(e).trial]

(* Lemon Squeezy: the handler finds no custom data, and without it leaves  *)
(* the plan alone.                                                         *)
LemonSqueezy(e, old) ==
    [Subscribed(e, old) EXCEPT !.customer = Customer(e.sub),
                               !.trial = Says(e).trial]

(* Mutant: an unknown payer is stored as a text like any other. *)
PayPalAsText(e, old) ==
    [Subscribed(e, old) EXCEPT
        !.customer = IF Says(e).payer THEN Customer(e.sub)
                     ELSE <<"paypal", "None">>,
        !.plan = bought[e.sub].plan,
        !.trial = FALSE]

(* PayPal: without a payer the customer is left alone; no trial end. *)
PayPal(e, old) ==
    [Subscribed(e, old) EXCEPT
        !.customer = IF Says(e).payer THEN Customer(e.sub) ELSE @,
        !.plan = bought[e.sub].plan,
        !.trial = FALSE]

(* Payoneer's webhook and its simulated checkout: a payment; the customer  *)
(* is what the event says, NULL included, and the trial end is left alone. *)
Payoneer(e, old) ==
    [Subscribed(e, old) EXCEPT
        !.customer = IF Says(e).payer THEN Customer(e.sub) ELSE None,
        !.plan = bought[e.sub].plan]

(* The organization as a handler leaves it, given how it was loaded. *)
Handled(e, old) ==
    CASE Gateway(e.sub) = "stripe" -> Stripe(e, old)
      [] Gateway(e.sub) = "lemonsqueezy" -> LemonSqueezy(e, old)
      [] Gateway(e.sub) = "paypal" -> PayPal(e, old)
      [] Gateway(e.sub) = "payoneer" -> Payoneer(e, old)

(* The UPDATE of request r: the columns that differ from what it loaded. *)
Updated(r) ==
    LET new == Handled(ev[r], seen[r])
        now == row[target[r]]
        Column(c) == IF new[c] = seen[r][c] THEN now[c] ELSE new[c]
    IN  [gateway |-> Column("gateway"), customer |-> Column("customer"),
         sub |-> Column("sub"), status |-> Column("status"),
         plan |-> Column("plan"), trial |-> Column("trial")]

(* billing_customer_id and billing_subscription_id are unique. *)
Conflict(o, new) ==
    \E p \in Org \ {o} :
        \/ new.customer # None /\ row[p].customer = new.customer
        \/ new.sub # None /\ row[p].sub = new.sub

(* An UPDATE of a deleted row, or one that violates a unique constraint;   *)
(* without a column that differs there is no UPDATE.                       *)
Refused(r) ==
    LET o == target[r] IN
    IF o \in removed THEN Handled(ev[r], seen[r]) # seen[r]
    ELSE Conflict(o, Updated(r))

Leave(r) ==
    /\ pc' = [pc EXCEPT ![r] = "idle"]
    /\ ev' = [ev EXCEPT ![r] = NoEvent]
    /\ target' = [target EXCEPT ![r] = None]
    /\ seen' = [seen EXCEPT ![r] = NewOrg]

(* The columns tell what event e tells: subscription, gateway and status   *)
(* always, payer, plan and trial end as far as the event knows them.       *)
Shows(columns, e) ==
    /\ columns.sub = e.sub
    /\ columns.gateway = Gateway(e.sub)
    /\ columns.status = Says(e).status
    /\ Says(e).payer => columns.customer = Customer(e.sub)
    /\ Says(e).tagged => columns.plan = bought[e.sub].plan
    /\ Says(e).price # None => columns.plan = Says(e).price
    /\ Gateway(e.sub) # "payoneer" => columns.trial = Says(e).trial

(* Request r is answered 200 and leaves its organization with these        *)
(* columns; the first such answer ends the gateway's retries.              *)
Answer(r, columns) ==
    LET e == ev[r] IN
    /\ acked' = acked \cup {e}
    /\ shown' = IF e \notin acked /\ Shows(columns, e)
                THEN shown \cup {e} ELSE shown
    /\ lost' = IF e \notin acked /\ ~Shows(columns, e) /\ r \in excused
               THEN lost \cup {e} ELSE lost

(* Those that have loaded organization o and not the event of request r.   *)
Others(r, o) == {q \in Req : target[q] = o /\ ev[q] # ev[r]}

(* The request commits and answers 200. *)
Commit(r) ==
    LET o == target[r]
        new == Updated(r)
    IN
    /\ pc[r] = "write"
    /\ o # None
    /\ ~Refused(r)
    /\ row' = [row EXCEPT ![o] = new]
    /\ Answer(r, new)
    /\ excused' = (IF new = row[o] THEN excused
                   ELSE excused \cup Others(r, o)) \ {r}
    /\ mixed' = IF r \notin excused THEN mixed \ {o}
                ELSE IF new = row[o] THEN mixed ELSE mixed \cup {o}
    /\ Leave(r)
    /\ UNCHANGED <<gateVars, removed>>

(* Mutant: an IntegrityError is answered 200 as well. *)
RejectAcknowledged(r) ==
    /\ pc[r] = "write"
    /\ target[r] # None
    /\ Refused(r)
    /\ Answer(r, row[target[r]])
    /\ excused' = excused \ {r}
    /\ Leave(r)
    /\ UNCHANGED <<gateVars, orgVars, mixed>>

(* The UPDATE fails: 500. *)
Reject(r) ==
    /\ pc[r] = "write"
    /\ target[r] # None
    /\ Refused(r)
    /\ excused' = excused \ {r}
    /\ Leave(r)
    /\ UNCHANGED <<gateVars, orgVars, acked, history>>

(* No organization was found: 200, and nothing is written. *)
Ignore(r) ==
    /\ pc[r] = "write"
    /\ target[r] = None
    /\ Answer(r, NewOrg)
    /\ excused' = excused \ {r}
    /\ Leave(r)
    /\ UNCHANGED <<gateVars, orgVars, mixed>>

(* The request fails and rolls back, or the process stops. *)
Fail(r) ==
    /\ pc[r] # "idle"
    /\ excused' = excused \ {r}
    /\ Leave(r)
    /\ UNCHANGED <<gateVars, orgVars, acked, history>>

(* A superuser deletes an organization in the admin panel; its row and the *)
(* identifiers in it are gone.                                             *)
Remove(o) ==
    /\ o \notin removed
    /\ Cardinality(removed) < MaxRemoved
    /\ removed' = removed \cup {o}
    /\ row' = [row EXCEPT ![o] = NewOrg]
    /\ excused' = excused \cup {q \in Req : target[q] = o}
    /\ mixed' = mixed \ {o}
    /\ UNCHANGED <<gateVars, reqVars, acked, shown, lost>>

Progress(r) ==
    LookBySubscription(r) \/ LookByCustomer(r)
        \/ Commit(r) \/ Reject(r) \/ Ignore(r)

Next ==
    \/ \E s \in Sub : Checkout(s) \/ Announce(s)
    \/ \E r \in Req, e \in Events : Deliver(r, e)
    \/ \E r \in Req, s \in Sub : PayoneerComplete(r, s)
    \/ \E r \in Req : Progress(r) \/ Fail(r)
    \/ \E o \in Org : Remove(o)

Spec == Init /\ [][Next]_vars
-----------------------------------------------------------------------------
TypeOK ==
    /\ bought \in [Sub -> Purchases \cup SimulatedPurchases \cup {NotBought}]
    /\ log \in [Sub -> Seq(Contents)]
    /\ row \in [Org -> Rows]
    /\ removed \subseteq Org
    /\ pc \in [Req -> {"idle", "subscription", "customer", "write"}]
    /\ ev \in [Req -> Events \cup {NoEvent}]
    /\ target \in [Req -> Org \cup {None}]
    /\ seen \in [Req -> Rows]
    /\ acked \subseteq Events /\ excused \subseteq Req
    /\ shown \subseteq Events /\ lost \subseteq Events
    /\ mixed \subseteq Org

(* An organization is only ever given a subscription that was bought for   *)
(* it, whichever of the three lookups found it and whatever other webhooks *)
(* did between the lookup and the commit (stripe.py:105-133).              *)
OwnSubscription ==
    \A o \in Org : row[o].sub # None => bought[row[o].sub].org = o

(* The portal is opened for billing_customer_id, at whichever gateway is   *)
(* configured (api/v1/billing.py:114-121): the identifier may be of an     *)
(* earlier gateway, but it is always one under which somebody bought a     *)
(* subscription for this organization, however webhooks overlap and        *)
(* whatever a PayPal event leaves as it was.                               *)
OwnCustomer ==
    \A o \in Org : row[o].customer # None =>
        \E s \in Sub : bought[s].org = o /\ row[o].customer = Customer(s)

(* The plans somebody has bought or changed to for organization o. *)
PlansOf(o) ==
    {bought[s].plan : s \in {t \in Sub : bought[t].org = o}}
        \cup {Says(e).price : e \in {f \in Sent : bought[f.sub].org = o}}

(* The plan of an organization is one of these, or that of registration,   *)
(* whether the metadata of a checkout or the price of a subscription says  *)
(* so, and whichever an overlap of webhooks leaves (stripe.py:80-92, 134). *)
OwnPlan == \A o \in Org : row[o].plan \in PlansOf(o) \cup {"free"}

(* The columns of an organization are those of one event, all that it      *)
(* tells, whatever events came before and however often this one was       *)
(* delivered, also twice at once.  Only a request that overwrites what     *)
(* another event changed since it loaded the row can leave columns of two, *)
(* and the next request that does not repairs them (stripe.py:128-142,     *)
(* paypal.py:153-162, database.py:31-39).                                  *)
OneEventUnlessMixed ==
    \A o \in Org \ mixed : row[o].sub # None =>
        \E e \in Sent : Shows(row[o], e)

(* A 200 means that the organization showed the event when it was          *)
(* answered, or that the event was lost in one of three ways, for good     *)
(* since it is not sent again: another event's change or a deletion came   *)
(* between load and commit, or, when it arrived, it named no organization  *)
(* (or a deleted one) and none had its subscription.  No failure, conflict *)
(* or second delivery is a fourth (webhooks/stripe.py:28-41,               *)
(* stripe.py:105-126, database.py:31-39).                                  *)
AckedShownUnlessLost == acked \subseteq shown \cup lost

(* The payer of e is the customer of another organization. *)
Shared(e) ==
    \E o \in Org : o # bought[e.sub].org /\ row[o].customer = Customer(e.sub)

(* A webhook is refused, and then refused however often it is sent again,  *)
(* only if its payer is already the customer of another organization: no   *)
(* overlap of webhooks gives two organizations the same identifiers        *)
(* (organization.py:84-93).                                                *)
RefusedOnlyIfShared ==
    \A r \in Req :
        target[r] \notin removed \cup {None} /\ Refused(r) => Shared(ev[r])

(* "In Lemon Squeezy webhooks, custom data is stored in                    *)
(* event['meta']['custom_data']" (lemon.py:114): an event answered 200 was *)
(* shown by the organization its custom data names.                        *)
LemonApplied ==
    \A e \in acked : Gateway(e.sub) = "lemonsqueezy" => e \in shown
-----------------------------------------------------------------------------
(* The inductive invariant behind the safety properties (BillingProofs).   *)
LogInv ==
    /\ \A s \in Sub : bought[s] = NotBought => log[s] = <<>>
    /\ acked \subseteq Sent
    /\ \A e \in Sent : Tells(Gateway(e.sub), Says(e))

(* No two organizations have the same customer, and a deleted one has      *)
(* nothing.                                                                *)
UniqueInv ==
    /\ \A o, p \in Org :
          o # p /\ row[o].customer = row[p].customer => row[o].customer = None
    /\ \A o \in removed : row[o] = NewOrg

(* What a request knows of its event and organization. *)
RequestInv ==
    \A r \in Req :
        /\ pc[r] # "write" => target[r] = None
        /\ pc[r] # "idle" => ev[r] \in Sent
        /\ pc[r] = "customer" => Gateway(ev[r].sub) = "stripe"
        /\ target[r] # None => bought[ev[r].sub].org = target[r]
        /\ pc[r] # "idle" /\ target[r] = None => r \in excused

(* Of what a request without excuse has loaded, only its own event has     *)
(* changed anything since.                                                 *)
SeenInv ==
    \A r \in Req : target[r] # None /\ r \notin excused =>
        /\ target[r] \notin removed
        /\ \A c \in DOMAIN NewOrg :
              row[target[r]][c] \in {seen[r][c], Handled(ev[r], seen[r])[c]}

IInv ==
    /\ TypeOK /\ LogInv /\ UniqueInv /\ RequestInv /\ SeenInv
    /\ OwnSubscription /\ OwnCustomer /\ OwnPlan
    /\ OneEventUnlessMixed /\ AckedShownUnlessLost
=============================================================================
