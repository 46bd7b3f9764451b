---------------------------- MODULE Fulfillment ----------------------------
(***************************************************************************)
(* From a checkout to a license and back: the purchase half of the         *)
(* registry (packages/server/src: index.js, store.js, payments.js).        *)
(*                                                                         *)
(* The checkout handler is split at its await: BeginCheckout captures the  *)
(* listing and opens a Stripe session, FinishCheckout persists the intent  *)
(* and sends the buyer to it.  Every webhook delivery is one transaction   *)
(* of the store (module Store shows it atomic), so it is one action here;  *)
(* a delivery whose transaction fails changes nothing and is answered 500, *)
(* a stuttering step.  Stripe, the buyer and the passing of time are the   *)
(* environment: events are delivered in any order, any number of times.    *)
(***************************************************************************)
EXTENDS Integers, FiniteSets, Functions

CONSTANTS
    Sessions,      \* Stripe Checkout sessions, each with its payment intent
    Paying,        \* bound: the sessions whose buyer pays, the rest are abandoned
    RefundIds,     \* Stripe refund ids (re_...), the finitely many of a run
    OrderIds,      \* the ids createOrder draws from
    MaxPrice,      \* bound on prices and amounts
    MaxVersion,    \* bound on the number of publications of the skill
    NoSession, NoRefund, NoOrder

ASSUME MaxPriceAssumption   == MaxPrice \in Nat
ASSUME MaxVersionAssumption == MaxVersion \in Nat
ASSUME PayingAssumption     == Paying \subseteq Sessions
ASSUME RefundIdsAssumption  == IsFiniteSet(RefundIds)

Prices   == 0..MaxPrice
Versions == 0..MaxVersion            \* 0: never published, or not recorded

Completed  == "checkout.session.completed"
AsyncPaid  == "checkout.session.async_payment_succeeded"
Created    == "refund.created"
Charge     == "charge.refunded"
RefundKinds == {Created, Charge}

ASSUME NoSessionAssumption == NoSession \notin Sessions
ASSUME NoRefundAssumption  == NoRefund \notin RefundIds

(* The terms of a sale; version 0 stands for "none". *)
Terms   == [price : Prices, version : Versions]
NoTerms == [price |-> 0, version |-> 0]

(* The shape applyRefund consumes and addPendingRefund accumulates: what   *)
(* each refund id returned (0: that id is absent), Stripe's cumulative     *)
(* total and the "fully refunded" flag.                                    *)
RefundInfo   == [byId : [RefundIds -> Prices], cumulative : Prices, full : BOOLEAN]
NothingToRefund == [byId |-> [r \in RefundIds |-> 0], cumulative |-> 0, full |-> FALSE]

Reasons == {"no", "refund", "manual"}       \* "no": not revoked
Orders  == [ref : Sessions \cup {NoSession}, amount : Prices, version : Versions,
            amountRefunded : Prices, refundIds : SUBSET RefundIds, revoked : Reasons]
ASSUME NoOrderAssumption == NoOrder \notin Orders

(* A Stripe event; `settled` is payment_status = "paid" for a session and  *)
(* "neither failed nor canceled" for a refund, `amount` the amount_total,  *)
(* the refund's amount or the charge's cumulative amount_refunded.         *)
Events == [kind : {Completed, AsyncPaid, Created, Charge}, session : Sessions,
           refund : RefundIds \cup {NoRefund}, amount : Prices,
           settled : BOOLEAN, full : BOOLEAN]

VARIABLES
    listing,      \* store.data.skills[slug]: current price and version
    calling,      \* checkout handlers awaiting Stripe: the skill each captured
    intents,      \* store.data.checkoutIntents
    orders,       \* store.data.orders
    pending,      \* store.data.pendingRefunds
    recorded,     \* store.data.webhookEvents
    stage,        \* Stripe: where each session is
    agreed,       \* Stripe: the terms the session was created with
    captured,     \* Stripe: the amount taken
    refunds,      \* Stripe: what each refund returned, of which session
    channels,     \* the refund events the webhook endpoint subscribes to
    sent,         \* Stripe: events emitted
    told,         \* history: events the handler has answered 200
    orphaned      \* history: sessions whose intent was pruned unsettled

server == <<listing, calling, intents, orders, pending, recorded>>
stripe == <<stage, agreed, captured, refunds, channels, sent>>
vars   == <<server, stripe, told, orphaned>>

Init ==
    /\ listing  = NoTerms
    /\ calling  = [s \in Sessions |-> NoTerms]
    /\ intents  = [s \in Sessions |-> NoTerms]
    /\ orders   = [o \in OrderIds |-> NoOrder]
    /\ pending  = [s \in Sessions |-> NothingToRefund]
    /\ recorded = {}
    /\ stage    = [s \in Sessions |-> "none"]
    /\ agreed   = [s \in Sessions |-> NoTerms]
    /\ captured = [s \in Sessions |-> 0]
    /\ refunds  = [r \in RefundIds |-> [session |-> NoSession, amount |-> 0]]
    /\ channels \in SUBSET RefundKinds \ {{}}
    /\ sent = {} /\ told = {} /\ orphaned = {}

-----------------------------------------------------------------------------
(* The records the handlers build *)

Larger(a, b) == IF a >= b THEN a ELSE b

NoClamp(amount, booked) == booked          \* mutant of ClampTo

(* Math.min(booked, amount): Stripe caps refunds at the charge. *)
ClampTo(amount, booked) == IF booked \in 0..amount THEN booked ELSE amount

IsOrder(id) == orders[id] # NoOrder

OrdersOf(s) == {id \in OrderIds : IsOrder(id) /\ orders[id].ref = s}

NewOrder(ref, terms) ==
    [ref |-> ref, amount |-> terms.price, version |-> 0,
     amountRefunded |-> 0, refundIds |-> {}, revoked |-> "no"]

UncountedForgets(order, info) == {r \in RefundIds : info.byId[r] > 0}   \* mutant of Uncounted

(* Which of the refunds in `info` this order has not counted yet. *)
Uncounted(order, info) == {r \in RefundIds : info.byId[r] > 0 /\ r \notin order.refundIds}

(* mutant of Raised: a late, smaller cumulative total overwrites *)
RaisedOverwrites(order, info) ==
    IF info.cumulative > 0 THEN info.cumulative
    ELSE order.amountRefunded + SumFunctionOnSet(info.byId, Uncounted(order, info))

(* What the order has refunded once `info` is applied, before the clamp.  *)
Raised(order, info) ==
    LET counted == order.amountRefunded + SumFunctionOnSet(info.byId, Uncounted(order, info))
        raised  == Larger(counted, info.cumulative)
    IN  IF info.full THEN Larger(raised, order.amount) ELSE raised

ApplyRefund(order, info) ==
    LET booked == ClampTo(order.amount, Raised(order, info))
    IN  [order EXCEPT
            !.amountRefunded = booked,
            !.refundIds = @ \cup Uncounted(order, info),
            !.revoked = IF @ = "no" /\ order.amount > 0 /\ booked >= order.amount
                        THEN "refund" ELSE @]

MergeRefund(p, info) ==
    [byId |-> [r \in RefundIds |-> IF p.byId[r] > 0 THEN p.byId[r] ELSE info.byId[r]],
     cumulative |-> Larger(p.cumulative, info.cumulative),
     full |-> p.full \/ info.full]

PurchasedAgain(order, terms) == [order EXCEPT !.version = terms.version]  \* mutant of Purchased

(* purchasedVersion ??= the settled terms' version *)
Purchased(order, terms) ==
    [order EXCEPT !.version = IF @ = 0 THEN terms.version ELSE @]

-----------------------------------------------------------------------------
(* parseWebhook: what an event says *)

Ignored(e)  == ~e.settled
IsPaid(e)   == e.settled /\ e.kind \in {Completed, AsyncPaid}
IsRefund(e) == e.settled /\ e.kind \in RefundKinds

RefundInfoOf(e) ==
    IF e.kind = Created
    THEN [byId |-> [r \in RefundIds |-> IF r = e.refund THEN e.amount ELSE 0],
          cumulative |-> 0, full |-> FALSE]
    ELSE [NothingToRefund EXCEPT !.cumulative = e.amount, !.full = e.full]

-----------------------------------------------------------------------------
(* The seller and the checkout handler *)

(* POST /api/skills reaches putSkill: a new version at any price. *)
Publish(price) ==
    /\ listing.version < MaxVersion
    /\ listing' = [price |-> price, version |-> listing.version + 1]
    /\ UNCHANGED <<calling, intents, orders, pending, recorded,
                   stripe, told, orphaned>>

(* The handler reads the listing and awaits stripe.checkout.sessions.create. *)
BeginCheckout(s) ==
    /\ listing.version > 0 /\ listing.price > 0
    /\ stage[s] = "none"
    /\ calling' = [calling EXCEPT ![s] = listing]
    /\ stage'   = [stage EXCEPT ![s] = "created"]
    /\ agreed'  = [agreed EXCEPT ![s] = listing]
    /\ UNCHANGED <<listing, intents, orders, pending, recorded,
                   captured, refunds, channels, sent, told, orphaned>>

(* After the await: createCheckoutIntent prunes the intents past their     *)
(* retention (which ones is left open), records this one, and only then is *)
(* the buyer redirected.                                                   *)
FinishCheckout(s) ==
    /\ calling[s] # NoTerms
    /\ \E dead \in SUBSET {t \in Sessions : intents[t] # NoTerms} :
          /\ intents' = [t \in Sessions |-> IF t = s THEN calling[s]
                                            ELSE IF t \in dead THEN NoTerms ELSE intents[t]]
          /\ orphaned' = orphaned \cup dead
    /\ calling' = [calling EXCEPT ![s] = NoTerms]
    /\ stage' = [stage EXCEPT ![s] = "offered"]
    /\ UNCHANGED <<listing, orders, pending, recorded, agreed, captured,
                   refunds, channels, sent, told>>

(* A $0 skill: the order is created at once, with no provider reference.   *)
(* Bound: free orders leave an order id for every session.                 *)
FreeCheckout ==
    /\ listing.version > 0 /\ listing.price = 0
    /\ Cardinality(OrdersOf(NoSession)) < Cardinality(OrderIds) - Cardinality(Sessions)
    /\ \E id \in OrderIds :
          /\ ~IsOrder(id)
          /\ orders' = [orders EXCEPT ![id] = NewOrder(NoSession, listing)]
    /\ UNCHANGED <<listing, calling, intents, pending, recorded,
                   stripe, told, orphaned>>

-----------------------------------------------------------------------------
(* POST /api/webhook/stripe: one transaction per delivery.  An event that  *)
(* is still recorded is answered "duplicate" and changes nothing.          *)

Receives(e) ==
    /\ e \in sent /\ e \notin recorded
    /\ told' = told \cup {e}
    /\ UNCHANGED <<listing, calling, stripe, orphaned>>

(* markEventProcessed prunes the records past their 30 days: none, or all  *)
(* of the earlier ones.                                                    *)
MarkProcessed(e) == recorded' \in {recorded \cup {e}, {e}}

DeliverIgnored(e) ==
    /\ Receives(e) /\ Ignored(e)
    /\ MarkProcessed(e)
    /\ UNCHANGED <<intents, orders, pending>>

SettledByListing(s) == listing                      \* mutant of SettledTerms

(* What the session is settled against: its intent, or the current listing *)
(* when the intent is gone.                                                *)
SettledTerms(s) == IF intents[s] # NoTerms THEN intents[s] ELSE listing

Accepted(e) ==
    /\ SettledTerms(e.session).version > 0
    /\ e.amount = SettledTerms(e.session).price

DeliverRejected(e) ==
    /\ Receives(e) /\ IsPaid(e) /\ ~Accepted(e)
    /\ MarkProcessed(e)
    /\ UNCHANGED <<intents, orders, pending>>

OrderAlwaysNew(s, id) == ~IsOrder(id)               \* mutant of OrderFor

(* createOrder returns the order that already carries this providerRef, or *)
(* a new one under a fresh id.                                             *)
OrderFor(s, id) ==
    IF OrdersOf(s) # {} THEN id \in OrdersOf(s) ELSE ~IsOrder(id)

PeekPending(s) == pending                           \* mutant of TakePending

TakePending(s) == [pending EXCEPT ![s] = NothingToRefund]

(* mutant of Minted: the refunds that came first are forgotten *)
MintedAnew(e, id) ==
    IF IsOrder(id) THEN orders[id]
    ELSE Purchased(NewOrder(e.session, SettledTerms(e.session)), SettledTerms(e.session))

Minted(e, id) ==
    LET terms == SettledTerms(e.session)
        order == IF IsOrder(id) THEN orders[id] ELSE NewOrder(e.session, terms)
    IN  ApplyRefund(Purchased(order, terms), pending[e.session])

DeliverPaid(e) ==
    /\ Receives(e) /\ IsPaid(e) /\ Accepted(e)
    /\ \E id \in OrderIds :
          /\ OrderFor(e.session, id)
          /\ orders' = [orders EXCEPT ![id] = Minted(e, id)]
    /\ intents' = [intents EXCEPT ![e.session] = NoTerms]
    /\ pending' = TakePending(e.session)
    /\ MarkProcessed(e)

(* A refund of a known order is booked; an earlier one waits for its order. *)
DeliverRefund(e) ==
    /\ Receives(e) /\ IsRefund(e)
    /\ \/ \E id \in OrdersOf(e.session) :
             /\ orders' = [orders EXCEPT ![id] = ApplyRefund(@, RefundInfoOf(e))]
             /\ UNCHANGED pending
       \/ /\ OrdersOf(e.session) = {}
          /\ pending' = [pending EXCEPT ![e.session] = MergeRefund(@, RefundInfoOf(e))]
          /\ UNCHANGED orders
    /\ MarkProcessed(e)
    /\ UNCHANGED intents

Deliver(e) == DeliverIgnored(e) \/ DeliverRejected(e) \/ DeliverPaid(e) \/ DeliverRefund(e)

(* POST /api/orders/:id/revoke: the seller names either reason. *)
RevokeOrder(id, reason) ==
    /\ IsOrder(id)
    /\ orders' = [orders EXCEPT ![id].revoked = reason]
    /\ UNCHANGED <<listing, calling, intents, pending, recorded,
                   stripe, told, orphaned>>

(* A crash or a restart: the handlers awaiting Stripe are gone, the store  *)
(* comes back as it was last committed.                                    *)
Restart ==
    /\ calling' = [s \in Sessions |-> NoTerms]
    /\ UNCHANGED <<listing, intents, orders, pending, recorded,
                   stripe, told, orphaned>>

-----------------------------------------------------------------------------
(* Stripe and the buyer *)

Emit(e) == sent' = sent \cup {e}

SessionEvent(kind, s, amount, settled) ==
    [kind |-> kind, session |-> s, refund |-> NoRefund, amount |-> amount,
     settled |-> settled, full |-> FALSE]

ServerIdle == UNCHANGED <<server, told, orphaned>>

(* The buyer pays by card: the session completes, paid. The amount is any, *)
(* the handler being written to refuse one that is not the agreed price.   *)
Pay(s, amount) ==
    /\ stage[s] = "offered" /\ amount > 0
    /\ stage' = [stage EXCEPT ![s] = "paid"]
    /\ captured' = [captured EXCEPT ![s] = amount]
    /\ Emit(SessionEvent(Completed, s, amount, TRUE))
    /\ UNCHANGED <<agreed, refunds, channels>> /\ ServerIdle

(* A slow method: completed but unpaid, the money follows (or does not). *)
PayLater(s) ==
    /\ stage[s] = "offered"
    /\ stage' = [stage EXCEPT ![s] = "settling"]
    /\ Emit(SessionEvent(Completed, s, agreed[s].price, FALSE))
    /\ UNCHANGED <<agreed, captured, refunds, channels>> /\ ServerIdle

Settle(s) ==
    /\ stage[s] = "settling"
    /\ stage' = [stage EXCEPT ![s] = "paid"]
    /\ captured' = [captured EXCEPT ![s] = agreed[s].price]
    /\ Emit(SessionEvent(AsyncPaid, s, agreed[s].price, TRUE))
    /\ UNCHANGED <<agreed, refunds, channels>> /\ ServerIdle

(* The same settled session under a new event id. *)
Resend(s) ==
    /\ stage[s] = "paid"
    /\ \A e \in sent : e.session = s => e.kind # AsyncPaid
    /\ Emit(SessionEvent(AsyncPaid, s, captured[s], TRUE))
    /\ UNCHANGED <<stage, agreed, captured, refunds, channels>> /\ ServerIdle

RefundedOf(s) == SumFunctionOnSet([r \in RefundIds |-> refunds[r].amount],
                                  {r \in RefundIds : refunds[r].session = s})

(* A refund of part or all of what was captured; the endpoint receives the *)
(* kinds of event it subscribes to.                                        *)
Refund(s, r, amount) ==
    LET total == RefundedOf(s) + amount
    IN  /\ stage[s] = "paid" /\ refunds[r].session = NoSession
        /\ amount > 0 /\ total \in 1..captured[s]
        /\ refunds' = [refunds EXCEPT ![r] = [session |-> s, amount |-> amount]]
        /\ sent' = sent \cup {e \in
              {[kind |-> Created, session |-> s, refund |-> r, amount |-> amount,
                settled |-> TRUE, full |-> FALSE],
               [kind |-> Charge, session |-> s, refund |-> r, amount |-> total,
                settled |-> TRUE, full |-> total = captured[s]]} : e.kind \in channels}
        /\ UNCHANGED <<stage, agreed, captured, channels>> /\ ServerIdle

(* A refund that fails returns no money, and still raises refund.created. *)
RefundFails(s, r) ==
    /\ stage[s] = "paid" /\ refunds[r].session = NoSession /\ Created \in channels
    /\ captured[s] > 0
    /\ refunds' = [refunds EXCEPT ![r] = [session |-> s, amount |-> 0]]
    /\ Emit([kind |-> Created, session |-> s, refund |-> r, amount |-> captured[s],
             settled |-> FALSE, full |-> FALSE])
    /\ UNCHANGED <<stage, agreed, captured, channels>> /\ ServerIdle

-----------------------------------------------------------------------------
Next ==
    \/ \E p \in Prices : Publish(p)
    \/ \E s \in Sessions : BeginCheckout(s) \/ FinishCheckout(s)
    \/ FreeCheckout
    \/ \E e \in sent : Deliver(e)
    \/ \E id \in OrderIds, reason \in {"manual", "refund"} : RevokeOrder(id, reason)
    \/ Restart
    \/ \E s \in Paying :
          \/ \E amount \in Prices : Pay(s, amount)
          \/ PayLater(s) \/ Settle(s) \/ Resend(s)
          \/ \E r \in RefundIds : RefundFails(s, r) \/ \E amount \in Prices : Refund(s, r, amount)

Spec == Init /\ [][Next]_vars

(* Stripe redelivers an event until it is answered 200 (for up to three    *)
(* days); the store's failures are assumed not to outlast the retries.     *)
FairSpec == Spec /\ WF_vars(\E e \in sent \ told : Deliver(e))

-----------------------------------------------------------------------------
TypeOK ==
    /\ listing  \in Terms
    /\ calling  \in [Sessions -> Terms]
    /\ intents  \in [Sessions -> Terms]
    /\ orders   \in [OrderIds -> Orders \cup {NoOrder}]
    /\ pending  \in [Sessions -> RefundInfo]
    /\ recorded \in SUBSET Events
    /\ stage    \in [Sessions -> {"none", "created", "offered", "settling", "paid"}]
    /\ agreed   \in [Sessions -> Terms]
    /\ captured \in [Sessions -> Prices]
    /\ refunds  \in [RefundIds -> [session : Sessions \cup {NoSession}, amount : Prices]]
    /\ channels \in SUBSET RefundKinds
    /\ sent \in SUBSET Events /\ told \in SUBSET sent
    /\ recorded \in SUBSET told
    /\ orphaned \in SUBSET Sessions

(* One payment, one license: whatever is replayed, under whichever event   *)
(* id and after whichever pruning, no two orders carry the same providerRef *)
(* (store.js createOrder, index.js step 4).                                *)
OneOrderPerPayment ==
    \A a, b \in OrderIds :
        (IsOrder(a) /\ IsOrder(b) /\ orders[a].ref = orders[b].ref
           /\ orders[a].ref # NoSession) => a = b

(* A license is minted for exactly the money Stripe took, and, unless the   *)
(* intent had been pruned, at the price and version the buyer agreed to,    *)
(* however often the seller republished meanwhile (index.js step 3).        *)
SettledAsAgreed ==
    \A id \in OrderIds :
        LET s == orders[id].ref
        IN  (IsOrder(id) /\ s # NoSession) =>
              /\ orders[id].amount = captured[s]
              /\ s \in orphaned \/ [price |-> orders[id].amount, version |-> orders[id].version] = agreed[s]

(* A refund that beat its order waits exactly as long as there is none:     *)
(* none is left behind once the order exists (addPendingRefund,             *)
(* takePendingRefund), so no refund is parked where nobody will look.       *)
PendingOnlyBeforeOrder ==
    \A s \in Sessions : OrdersOf(s) # {} => pending[s] = NothingToRefund

(* What the refund events answered so far said about session s. *)
ToldIds(s) == {r \in RefundIds : \E e \in told : IsRefund(e) /\ e.kind = Created
                                                /\ e.session = s /\ e.refund = r}
ToldById(s) == SumFunctionOnSet([r \in RefundIds |-> refunds[r].amount], ToldIds(s))
ToldCumulative(s) ==
    LET totals == {e.amount : e \in {x \in told : IsRefund(x) /\ x.kind = Charge /\ x.session = s}}
    IN  IF totals = {} THEN 0 ELSE CHOOSE t \in totals : \A u \in totals : t >= u

(* However refund events are reordered, duplicated or early, an order never *)
(* books less than they reported; with one kind of refund event subscribed  *)
(* it books exactly that, and a booking of the whole price has revoked the  *)
(* license (applyRefund, addPendingRefund).                                 *)
BooksWhatStripeReported ==
    \A id \in OrderIds :
        LET o == orders[id]
            reported == Larger(ToldById(o.ref), ToldCumulative(o.ref))
        IN  (IsOrder(id) /\ o.ref # NoSession) =>
              /\ o.amountRefunded >= reported
              /\ Cardinality(channels) = 1 => o.amountRefunded = reported
              /\ o.amountRefunded = o.amount => o.revoked # "no"

(* Answering again an event already answered, even one whose record was     *)
(* pruned after 30 days, changes no order and no parked refund; the one     *)
(* exception is a payment that minted nothing the first time.               *)
ReplayIsHarmless ==
    [][\A e \in told :
          (Deliver(e) /\ (IsPaid(e) => OrdersOf(e.session) # {}))
              => UNCHANGED <<orders, pending>>]_vars

(* What an order recorded stays: orders are never lost, amount, version and *)
(* reference never change, refunded money never shrinks (a late, smaller    *)
(* cumulative total included) and a revocation is never undone.             *)
OrdersOnlyMoveForward ==
    [][\A id \in OrderIds : IsOrder(id) =>
          LET before == orders[id]
              after  == orders'[id]
          IN  /\ after # NoOrder
              /\ <<after.ref, after.amount, after.version>> = <<before.ref, before.amount, before.version>>
              /\ after.amountRefunded >= before.amountRefunded
              /\ before.refundIds \subseteq after.refundIds
              /\ before.revoked # "no" => after.revoked # "no"]_vars

(* The doc comment of applyRefund: the license is revoked ONLY when the     *)
(* captured amount has been fully refunded.                                 *)
PartialRefundKeepsLicense ==
    [][\A e \in sent, id \in OrderIds :
          (Deliver(e) /\ IsOrder(id) /\ orders[id].revoked = "no" /\ orders'[id].revoked = "refund")
              => RefundedOf(orders[id].ref) = orders[id].amount]_vars

(* A buyer who paid the agreed price eventually holds an order, unless the  *)
(* settlement came so late that the intent had been pruned.                 *)
PaidIsFulfilled ==
    \A s \in Paying :
        (stage[s] = "paid" /\ captured[s] = agreed[s].price)
            ~> (OrdersOf(s) # {} \/ s \in orphaned)

(* Money returned in full eventually ends the license, whichever refund     *)
(* events are subscribed and whether they come before or after the payment. *)
FullRefundRevokes ==
    \A s \in Paying :
        (stage[s] = "paid" /\ captured[s] = agreed[s].price
           /\ RefundedOf(s) = captured[s])
            ~> ((\E id \in OrdersOf(s) : orders[id].revoked # "no") \/ s \in orphaned)
=============================================================================
