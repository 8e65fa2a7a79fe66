------------------------------- MODULE Billing -------------------------------
(***************************************************************************)
(* Checkout, confirmation and the seats they leave: BillingService over    *)
(* PgBillingRepository and StripeClient.  There is no webhook: the company *)
(* row changes only when a manager confirms a checkout.                    *)
(***************************************************************************)
EXTENDS Tenant, Sequences

CONSTANTS
    Foreign,        \* a customer of another company
    SeatOrders,     \* seat counts ordered in this instance
    MaxPaid         \* bound: checkouts this company's people pay

ASSUME ForeignIsNoCustomer == Foreign \notin Customers /\ Foreign # None
ASSUME OrdersAreNumbers == SeatOrders \subseteq Nat /\ MaxPaid \in Nat \ {0}

VARIABLES
    deal,           \* what a billing request has read and means to write
    customers,      \* the customers Stripe has created for this company
    session,        \* Stripe's checkout sessions
    paid,           \* the sessions paid, oldest first, each a subscription
    displaced       \* customers set aside by a request that had seen none

billingVars == <<deal, customers, session, paid, displaced>>

(* A session and, once it is paid, the subscription it created.  "new" is an *)
(* id Stripe has not given out.                                              *)
Session == [customer : Customers \cup {Foreign, None}, trial : BOOLEAN,
            seats : Nat, state : {"new", "open", "complete"},
            status : {"none", "trialing", "active", "past_due", "canceled"}]

Deal == [seats : Nat, customer : Customers \cup {Foreign, None},
         subscription : Sessions \cup {None}, trial : BOOLEAN, inUse : Nat,
         blind : BOOLEAN]

NoDeal == [seats |-> 0, customer |-> None, subscription |-> None, trial |-> FALSE,
           inUse |-> 0, blind |-> FALSE]

NoSession == [customer |-> None, trial |-> FALSE, seats |-> 0, state |-> "new",
              status |-> "none"]

(* Another company's checkout, completed before this one looks at it. *)
ForeignSession == [NoSession EXCEPT !.customer = Foreign, !.state = "complete",
                   !.status = "active", !.seats = 1]

(* No checkout yet, or one paid and confirmed; another company has one too. *)
NeverSubscribed ==
    /\ company \in {Registered, Legacy}
    /\ customers = {} /\ paid = <<>>

Subscribed ==
    \E c \in Customers, s \in Sessions, n \in SeatOrders :
        /\ n >= Cardinality(Active)
        /\ company = [Registered EXCEPT !.onboarded = TRUE, !.customer = c,
                                        !.subscription = s, !.seats = n]
        /\ customers = {c} /\ paid = <<s>>

BillingInit ==
    /\ deal = [r \in Requests |-> NoDeal]
    /\ NeverSubscribed \/ Subscribed
    /\ \E theirs \in Sessions \ {company.subscription} :
          session = [s \in Sessions |->
              IF s = theirs THEN ForeignSession
              ELSE IF s = company.subscription
              THEN [customer |-> company.customer, trial |-> TRUE, seats |-> company.seats,
                    state |-> "complete", status |-> "trialing"]
              ELSE NoSession]
    /\ displaced = {}

Paid(s) == \E i \in 1..Len(paid) : paid[i] = s

Close(r) == deal' = [deal EXCEPT ![r] = NoDeal]

-----------------------------------------------------------------------------
(* start_checkout asks for the status first: the record, ... *)
CheckoutBegin(r) ==
    /\ At(r, "checkout", "begin")
    /\ \E n \in SeatOrders :
          deal' = [deal EXCEPT ![r] = [NoDeal EXCEPT !.seats = n,
                     !.customer = company.customer, !.subscription = company.subscription]]
    /\ Goto(r, "active")
    /\ UNCHANGED <<users, company, raced, deposed, customers, session, paid, displaced>>

(* ... the active users, ... *)
CheckoutCount(r) ==
    /\ At(r, "checkout", "active")
    /\ deal' = [deal EXCEPT ![r].inUse = Cardinality(Active)]
    /\ Goto(r, "stripe")
    /\ UNCHANGED <<users, company, raced, deposed, customers, session, paid, displaced>>

(* The customer's latest subscription. *)
Latest(c) ==
    LET own == {i \in 1..Len(paid) : session[paid[i]].customer = c}
    IN IF own = {} THEN None ELSE paid[CHOOSE i \in own : \A j \in own : j <= i]

(* fetch_subscription: the recorded one; the customer's latest when Stripe   *)
(* rejects the id or there is none; and none when Stripe does not answer.    *)
Answers(record) ==
    LET recovered == IF record.customer = None THEN None ELSE Latest(record.customer)
    IN (IF record.subscription = None THEN {recovered} ELSE {record.subscription, recovered})
         \cup {None}

(* No subscription at all reads as Legacy, which like every status but       *)
(* Active may start a checkout.                                              *)
MayStartCheckout(s) == s = None \/ session[s].status # "active"

(* ... and Stripe.  Nobody orders fewer seats than were in use. *)
CheckoutStatus(r) ==
    /\ At(r, "checkout", "stripe")
    /\ \E s \in Answers(deal[r]) :
          IF MayStartCheckout(s) /\ deal[r].seats >= 1 /\ deal[r].seats >= deal[r].inUse
          THEN Goto(r, "record") /\ UNCHANGED deal
          ELSE Finish(r) /\ Close(r)
    /\ UNCHANGED <<users, company, raced, deposed, customers, session, paid, displaced>>

CheckoutRecordAlwaysCreates(r) ==
    /\ At(r, "checkout", "record")
    /\ deal' = [deal EXCEPT ![r].customer = company.customer,
                            ![r].blind = company.customer = None,
                            ![r].trial = company.subscription = None]
    /\ Goto(r, "customer")
    /\ UNCHANGED <<users, company, raced, deposed, customers, session, paid, displaced>>

(* The record is read again; the trial is for a company with no              *)
(* subscription on it.                                                       *)
CheckoutRecord(r) ==
    /\ At(r, "checkout", "record")
    /\ deal' = [deal EXCEPT ![r].customer = company.customer,
                            ![r].blind = company.customer = None,
                            ![r].trial = company.subscription = None]
    /\ Goto(r, IF company.customer = None THEN "customer" ELSE "session")
    /\ UNCHANGED <<users, company, raced, deposed, customers, session, paid, displaced>>

(* create_customer carries no idempotency key: every call makes another. *)
CreateCustomer(r) ==
    /\ At(r, "checkout", "customer")
    /\ \E c \in Customers \ customers :
          /\ customers' = customers \cup {c}
          /\ deal' = [deal EXCEPT ![r].customer = c]
    /\ Goto(r, "remember")
    /\ UNCHANGED <<users, company, raced, deposed, session, paid, displaced>>

SetCustomer(r) ==
    /\ At(r, "checkout", "remember")
    /\ company' = [company EXCEPT !.customer = deal[r].customer]
    /\ displaced' = IF deal[r].blind THEN displaced \cup ({company.customer} \ {None})
                    ELSE displaced
    /\ Goto(r, "session")
    /\ UNCHANGED <<users, raced, deposed, deal, customers, session, paid>>

CreateSession(r) ==
    /\ At(r, "checkout", "session")
    /\ \E s \in Sessions :
          /\ session[s].state = "new"
          /\ session' = [session EXCEPT ![s] =
                [customer |-> deal[r].customer, trial |-> deal[r].trial,
                 seats |-> deal[r].seats, state |-> "open", status |-> "none"]]
    /\ Finish(r) /\ Close(r)
    /\ UNCHANGED <<users, company, raced, deposed, customers, paid, displaced>>

-----------------------------------------------------------------------------
(* confirm_checkout: whatever session id the client names, if complete. *)
ConfirmSession(r) ==
    /\ At(r, "confirm", "begin")
    /\ \E s \in Sessions :
          /\ session[s].state = "complete"
          /\ deal' = [deal EXCEPT ![r] = [NoDeal EXCEPT !.subscription = s]]
    /\ Goto(r, "subscription")
    /\ UNCHANGED <<users, company, raced, deposed, customers, session, paid, displaced>>

(* The seats are those of the subscription as Stripe has it now. *)
ConfirmSubscription(r) ==
    /\ At(r, "confirm", "subscription")
    /\ LET s == session[deal[r].subscription]
       IN deal' = [deal EXCEPT ![r].seats = s.seats, ![r].customer = s.customer]
    /\ Goto(r, "owner")
    /\ UNCHANGED <<users, company, raced, deposed, customers, session, paid, displaced>>

ConfirmAnyOwner(r) ==
    /\ At(r, "confirm", "owner")
    /\ Goto(r, "commit")
    /\ UNCHANGED <<users, company, raced, deposed, deal, customers, session, paid, displaced>>

(* The subscription's customer must be the one on the company's record. *)
ConfirmOwner(r) ==
    /\ At(r, "confirm", "owner")
    /\ IF company.customer = deal[r].customer
       THEN Goto(r, "commit") /\ UNCHANGED deal
       ELSE Finish(r) /\ Close(r)
    /\ UNCHANGED <<users, company, raced, deposed, customers, session, paid, displaced>>

(* Fewer seats than the users already active: they keep their accounts. *)
SetSubscription(r) ==
    /\ At(r, "confirm", "commit")
    /\ company' = [company EXCEPT !.subscription = deal[r].subscription,
                                  !.seats = deal[r].seats, !.onboarded = TRUE]
    /\ raced' = IF deal[r].seats < Cardinality(Active) THEN raced \cup Active ELSE raced
    /\ Commit(r, users, TRUE)
    /\ Close(r)
    /\ UNCHANGED <<users, deposed, customers, session, paid, displaced>>

CompleteOnboarding(r) ==
    /\ At(r, "onboard", "begin")
    /\ company' = [company EXCEPT !.onboarded = TRUE]
    /\ Finish(r)
    /\ UNCHANGED <<users, raced, deposed, billingVars>>

-----------------------------------------------------------------------------
(* What happens at Stripe: an open session is paid; a subscription leaves    *)
(* its trial, falls behind, ends, or has its quantity changed in the portal. *)
Pay(s) ==
    /\ session[s].state = "open"
    /\ Len(paid) < MaxPaid
    /\ session' = [session EXCEPT ![s].state = "complete",
                      ![s].status = IF session[s].trial THEN "trialing" ELSE "active"]
    /\ paid' = Append(paid, s)
    /\ UNCHANGED <<users, company, call, raced, deposed, deal, customers, displaced>>

Bill(s) ==
    /\ Paid(s) /\ session[s].status # "canceled"
    /\ \E status \in {"active", "past_due", "canceled"} :
          session' = [session EXCEPT ![s].status = status]
    /\ UNCHANGED <<users, company, call, raced, deposed, deal, customers, paid, displaced>>

ChangeQuantity(s) ==
    /\ Paid(s) /\ session[s].status # "canceled"
    /\ \E n \in SeatOrders : session' = [session EXCEPT ![s].seats = n]
    /\ UNCHANGED <<users, company, call, raced, deposed, deal, customers, paid, displaced>>

BillingStep(r) ==
    \/ CheckoutBegin(r) \/ CheckoutCount(r) \/ CheckoutStatus(r) \/ CheckoutRecord(r)
    \/ CreateCustomer(r) \/ SetCustomer(r) \/ CreateSession(r)
    \/ ConfirmSession(r) \/ ConfirmSubscription(r) \/ ConfirmOwner(r) \/ SetSubscription(r)
    \/ CompleteOnboarding(r)

BillingTypeOK ==
    /\ deal \in [Requests -> Deal]
    /\ customers \subseteq Customers
    /\ session \in [Sessions -> Session]
    /\ paid \in Seq(Sessions) /\ Len(paid) <= MaxPaid
    /\ displaced \subseteq Customers

=============================================================================
