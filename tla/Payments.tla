------------------------------- MODULE Payments -------------------------------
(***************************************************************************)
(* Buying credit: createCheckout and stripeWebhook of api/stripe.go, with  *)
(* Stripe and the customer.  A checkout is a chain of three calls that may *)
(* break off anywhere.  Stripe delivers an event until an answer reaches   *)
(* it, several deliveries at a time; each is a transaction under the row   *)
(* lock of the order.  An event is one that Stripe sent about a session    *)
(* that was stored: the tests of signature, mode, amount and session       *)
(* refuse others before they change anything, and are left out.            *)
(***************************************************************************)
EXTENDS Integers, FiniteSets

CONSTANTS
    Orders,     \* the orders that may be made
    Deliveries, \* webhook requests that may be under way at a time
    MaxFaults   \* bound on failed transactions and lost answers

VARIABLES
    checkout, \* how far createCheckout has got for each order
    status,   \* billing_orders.status, "none" before the row
    payment,  \* what the customer did: "none", "waiting" (for the bank), "paid"
    events,   \* what Stripe has to tell
    request,  \* the webhook requests
    recorded, \* billing_events
    credits,  \* the rows of credit_ledger for each order
    told,     \* events whose answer has reached Stripe
    faults

vars == <<checkout, status, payment, events, request, recorded, credits, told, faults>>
selling == <<checkout, status, payment, events>>

\* An event names its order; it is about a paid session or one still unpaid.
StripeEvents == [order : Orders, type : {"completed", "async_payment_succeeded"},
                 payment_status : {"paid", "unpaid"}]
Idle == [stage |-> "idle"]
Requests ==
    {Idle} \cup [stage : {"sent", "answered"}, event : StripeEvents]
           \cup [stage : {"locked"}, event : StripeEvents, status : {"none", "pending", "paid"}]

TypeOK ==
    /\ checkout \in [Orders -> {"none", "inserted", "created", "shown", "broken"}]
    /\ status \in [Orders -> {"none", "pending", "paid"}]
    /\ payment \in [Orders -> {"none", "waiting", "paid"}]
    /\ events \subseteq StripeEvents
    /\ request \in [Deliveries -> Requests]
    /\ recorded \subseteq StripeEvents
    /\ credits \in [Orders -> Nat]
    /\ told \subseteq StripeEvents
    /\ faults \in Nat

Init ==
    /\ checkout = [o \in Orders |-> "none"]
    /\ status = [o \in Orders |-> "none"]
    /\ payment = [o \in Orders |-> "none"]
    /\ events = {}
    /\ request = [d \in Deliveries |-> Idle]
    /\ recorded = {}
    /\ credits = [o \in Orders |-> 0]
    /\ told = {}
    /\ faults = 0

Fault == faults < MaxFaults /\ faults' = faults + 1
-------------------------------------------------------------------------------
(* createCheckout.                                                          *)

Goto(o, from, to) == checkout[o] = from /\ checkout' = [checkout EXCEPT ![o] = to]

InsertOrder(o) ==
    /\ Goto(o, "none", "inserted")
    /\ status' = [status EXCEPT ![o] = "pending"]
    /\ UNCHANGED <<payment, events, request, recorded, credits, told, faults>>

\* POST /v1/checkout/sessions.
CreateSession(o) ==
    /\ Goto(o, "inserted", "created")
    /\ UNCHANGED <<status, payment, events, request, recorded, credits, told, faults>>

\* The session is stored, and the answer takes the customer to it.
StoreSession(o) ==
    /\ Goto(o, "created", "shown")
    /\ UNCHANGED <<status, payment, events, request, recorded, credits, told, faults>>

\* Stripe cannot be reached or refuses, or the server stops: the order stays
\* pending and nobody is shown where to pay.
CheckoutBreaks(o) ==
    /\ checkout[o] \in {"inserted", "created"}
    /\ checkout' = [checkout EXCEPT ![o] = "broken"]
    /\ UNCHANGED <<status, payment, events, request, recorded, credits, told, faults>>
-------------------------------------------------------------------------------
(* The customer and Stripe.                                                 *)

Pays(o, from, to, type) ==
    /\ checkout[o] = "shown"
    /\ payment[o] = from
    /\ payment' = [payment EXCEPT ![o] = to]
    /\ events' = events \cup {[order |-> o, type |-> type,
                               payment_status |-> IF to = "paid" THEN "paid" ELSE "unpaid"]}
    /\ UNCHANGED <<checkout, status, request, recorded, credits, told, faults>>

\* A card pays at once; a bank transfer completes the checkout first.
PayNow(o) == Pays(o, "none", "paid", "completed")
PayLater(o) == Pays(o, "none", "waiting", "completed")
MoneyArrives(o) == Pays(o, "waiting", "paid", "async_payment_succeeded")

Deliver(d, e) ==
    /\ e \in events \ told
    /\ request[d] = Idle
    /\ request' = [request EXCEPT ![d] = [stage |-> "sent", event |-> e]]
    /\ UNCHANGED <<selling, recorded, credits, told, faults>>
-------------------------------------------------------------------------------
(* stripeWebhook.                                                           *)

Answered(d, e) == request' = [request EXCEPT ![d] = [stage |-> "answered", event |-> e]]

\* A session that is not paid is answered and ignored.
IgnoreUnpaid(d) ==
    /\ request[d].stage = "sent"
    /\ request[d].event.payment_status # "paid"
    /\ Answered(d, request[d].event)
    /\ UNCHANGED <<selling, recorded, credits, told, faults>>

\* "select ... from billing_orders where id=$1 for update".
OrderUnlocked(o) == \A d \in Deliveries : request[d].stage = "locked" => request[d].event.order # o

LockOrder(d) ==
    /\ request[d].stage = "sent"
    /\ request[d].event.payment_status = "paid"
    /\ OrderUnlocked(request[d].event.order)
    /\ LET e == request[d].event
       IN request' = [request EXCEPT ![d] = [stage |-> "locked", event |-> e, status |-> status[e.order]]]
    /\ UNCHANGED <<selling, recorded, credits, told, faults>>

\* The event has not been recorded and the order was not paid.
\* (Crediting every paid event, a bug:)
FreshWhatever(e, read) == TRUE
Fresh(e, read) == e \notin recorded /\ read # "paid"

CommitPayment(d) ==
    /\ request[d].stage = "locked"
    /\ LET e == request[d].event
           o == e.order
       IN /\ IF Fresh(e, request[d].status)
             THEN /\ credits' = [credits EXCEPT ![o] = @ + 1]
                  /\ status' = [status EXCEPT ![o] = "paid"]
             ELSE UNCHANGED <<credits, status>>
          /\ recorded' = recorded \cup {e}
          /\ Answered(d, e)
    /\ UNCHANGED <<checkout, payment, events, told, faults>>

\* The event is recorded with the credit or not at all.
\* (Recording it in a statement of its own, a bug:)
RecordedBeforehand(e) == recorded \cup {e}
RecordedAfterFailure(e) == recorded

\* A statement fails or the server stops: the transaction is rolled back.
PaymentFails(d) ==
    /\ Fault
    /\ request[d].stage = "locked"
    /\ recorded' = RecordedAfterFailure(request[d].event)
    /\ request' = [request EXCEPT ![d] = Idle]
    /\ UNCHANGED <<selling, credits, told>>

\* The answer reaches Stripe, or does not and the event is delivered again.
AnswerArrives(d) ==
    /\ request[d].stage = "answered"
    /\ told' = told \cup {request[d].event}
    /\ request' = [request EXCEPT ![d] = Idle]
    /\ UNCHANGED <<selling, recorded, credits, faults>>

AnswerIsLost(d) ==
    /\ Fault
    /\ request[d].stage = "answered"
    /\ request' = [request EXCEPT ![d] = Idle]
    /\ UNCHANGED <<selling, recorded, credits, told>>
-------------------------------------------------------------------------------
Next ==
    \/ \E o \in Orders :
         \/ InsertOrder(o) \/ CreateSession(o) \/ StoreSession(o) \/ CheckoutBreaks(o)
         \/ PayNow(o) \/ PayLater(o) \/ MoneyArrives(o)
    \/ \E d \in Deliveries :
         \/ \E e \in events : Deliver(d, e)
         \/ IgnoreUnpaid(d) \/ LockOrder(d) \/ CommitPayment(d)
         \/ PaymentFails(d) \/ AnswerArrives(d) \/ AnswerIsLost(d)

Spec == Init /\ [][Next]_vars

\* Stripe goes on delivering what was not answered, and a request that has
\* begun goes on.  Nobody is obliged to buy or to pay.
Redelivers == \E d \in Deliveries, e \in events : Deliver(d, e)
Handles(d) == IgnoreUnpaid(d) \/ LockOrder(d) \/ CommitPayment(d) \/ AnswerArrives(d)
Fairness == WF_vars(Redelivers) /\ \A d \in Deliveries : WF_vars(Handles(d))

FairSpec == Spec /\ Fairness
-------------------------------------------------------------------------------
\* An order is credited once, when it was paid for, and it says "paid" exactly
\* then, however many deliveries of its events race, fail or are repeated.
OrderCreditedOnce ==
    \A o \in Orders :
       /\ credits[o] <= 1
       /\ status[o] = "paid" <=> credits[o] = 1
       /\ credits[o] = 1 => payment[o] = "paid"

\* Whoever has paid gets the credit, although deliveries fail half-way.
PaymentsAreCredited == \A o \in Orders : payment[o] = "paid" ~> credits[o] = 1
===============================================================================
