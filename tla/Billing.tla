------------------------------ MODULE Billing ------------------------------
(* One firm's subscription (services/billing_service.py, api/v1/billing):  *)
(* the row the program keeps and the Stripe subscriptions it mirrors       *)
(* through webhooks.  A webhook is one transaction; Stripe may deliver its *)
(* events late, twice or out of order.  What the plan limits is in         *)
(* PlanLimits.                                                             *)
EXTENDS Naturals, Sequences

CONSTANTS Tiers,        \* plans a checkout can buy; "starter" is one of them
          MaxSubs,      \* bound: subscriptions opened at Stripe
          MaxNotices,   \* bound: events Stripe emits
          MaxDisorder   \* bound: events handled late, overlapping subscriptions

\* A tier in a subscription's metadata that is missing or names no plan.
Unnamed == "unnamed"

BillingAssumption == /\ "starter" \in Tiers /\ Unnamed \notin Tiers
                     /\ {MaxSubs, MaxNotices, MaxDisorder} \subseteq Nat

VARIABLES row,        \* the subscriptions row, or NoRow
          held,       \* a request holds an uncommitted insert of the row
          customer,   \* firms.stripe_customer_id is set
          firmTier,   \* firms.subscription_tier
          stripe,     \* external: the subscriptions Stripe holds, oldest first
          inbox,      \* external: events Stripe has not been acknowledged for
          emitted,    \* number of events Stripe emitted
          handled,    \* the newest event handled so far
          disturbed   \* how often an event was handled late or subscriptions overlapped

vars == <<row, held, customer, firmTier, stripe, inbox, emitted, handled, disturbed>>

Status == {"trialing", "active", "past_due", "canceled", "unpaid", "incomplete", "paused"}
\* Stripe's statuses, and the one the program keeps for each.
StripeStatus == Status \cup {"incomplete_expired"}
MapStripeStatus(status) == IF status = "incomplete_expired" THEN "canceled" ELSE status
NoRow == [tier |-> "none"]
\* `grace': grace_period_end is set.
NoPrice == "none"
Row == [tier: Tiers, price: Tiers \cup {NoPrice}, status: Status, id: 0..MaxSubs,
        grace: BOOLEAN, failed: 0..MaxNotices, cancel: BOOLEAN]
DefaultRow == [tier |-> "starter", price |-> NoPrice, status |-> "active", id |-> 0,
               grace |-> FALSE, failed |-> 0, cancel |-> FALSE]
\* `tier' is what the metadata says, `price' the plan that is paid for.
StripeSub == [tier: Tiers \cup {Unnamed}, price: Tiers, status: StripeStatus,
              cancel: BOOLEAN, failing: BOOLEAN]
Notice == [type: {"created", "updated", "deleted", "paid", "failed"},
           id: 1..MaxSubs, tier: Tiers \cup {Unnamed}, price: Tiers,
           status: StripeStatus, cancel: BOOLEAN, seq: 1..MaxNotices]

Init == /\ row = NoRow /\ held = FALSE /\ customer = FALSE /\ firmTier = "starter"
        /\ stripe = <<>> /\ inbox = {} /\ emitted = 0 /\ handled = 0
        /\ disturbed = 0

\* Events were handled in an order the row may not survive.
Disturb(yes) == /\ disturbed' = IF yes THEN disturbed + 1 ELSE disturbed
                /\ disturbed' <= MaxDisorder

------------------------------------------------------------------------------
(* Stripe, as the program uses it *)

Remote == <<stripe, inbox, emitted>>
\* The events of one change at Stripe, numbered in the order it emits them.
Emit(types, id, sub) ==
  /\ emitted + Len(types) <= MaxNotices
  /\ emitted' = emitted + Len(types)
  /\ inbox' = inbox \cup
       {[type |-> types[i], id |-> id, tier |-> sub.tier, price |-> sub.price,
         status |-> sub.status, cancel |-> sub.cancel, seq |-> emitted + i]
          : i \in DOMAIN types}

Change(id, sub, types) ==
  /\ stripe' = [stripe EXCEPT ![id] = sub]
  /\ Emit(types, id, sub)

Live(id) == stripe[id].status \notin {"canceled", "incomplete_expired"}

\* A firm completes the checkout page: the subscription carries the firm and
\* the tier in its metadata.  It is paid, or on trial (an invoice of nothing is
\* paid), or the bank still has to confirm the first payment.  Nothing stops a firm with a live subscription.
Subscribe(tier) ==
  \E status \in {"active", "trialing", "incomplete"} :
    LET id == Len(stripe) + 1
        sub == [tier |-> tier, price |-> tier, status |-> status,
                cancel |-> FALSE, failing |-> FALSE]
    IN /\ id <= MaxSubs /\ customer
       /\ stripe' = Append(stripe, sub)
       /\ Emit(IF status = "incomplete" THEN <<"created">> ELSE <<"created", "paid">>, id, sub)
       /\ Disturb(\E s \in DOMAIN stripe : Live(s))
       /\ UNCHANGED <<row, held, customer, firmTier, handled>>

\* What Stripe does to a live subscription, and the events it sends about it.
RemoteChange ==
  \E id \in DOMAIN stripe :
    LET s == stripe[id]
        To(status) == [s EXCEPT !.status = status]
    IN
    /\ Live(id)
    /\ \/ /\ s.status \in {"trialing", "active", "past_due"}   \* a charge is refused
          /\ Change(id, [s EXCEPT !.status = "past_due", !.failing = TRUE],
                    <<"failed", "updated">>)
       \/ /\ s.status = "incomplete"                           \* the first one
          /\ Change(id, [s EXCEPT !.failing = TRUE], <<"failed">>)
       \/ /\ s.failing \/ s.status \in {"trialing", "incomplete", "paused"}
          /\ Change(id, [s EXCEPT !.status = "active", !.failing = FALSE],
                    <<"paid", "updated">>)                     \* the invoice is paid
       \/ s.status = "past_due" /\ Change(id, To("unpaid"), <<"updated">>)
       \/ s.status = "trialing" /\ Change(id, To("paused"), <<"updated">>)
       \/ s.status = "incomplete" /\ Change(id, To("incomplete_expired"), <<"updated">>)
       \/ \E p \in Tiers \ {s.price} :                        \* another plan in the portal
            Change(id, [s EXCEPT !.price = p], <<"updated">>)
       \/ \E t \in (Tiers \cup {Unnamed}) \ {s.tier} :         \* the metadata is edited
            Change(id, [s EXCEPT !.tier = t], <<"updated">>)
       \/ Change(id, [s EXCEPT !.cancel = ~@], <<"updated">>)  \* set to end, or not any more
       \/ Change(id, To("canceled"), <<"deleted">>)            \* it ends
    /\ UNCHANGED <<row, held, customer, firmTier, handled, disturbed>>

------------------------------------------------------------------------------
(* Webhooks *)

\* The row a handler finds through the customer, or creates for the firm.
GetOrCreate == IF row = NoRow THEN DefaultRow ELSE row
\* While a request holds an uncommitted insert of the row, another insert waits.
InsertFree == row # NoRow \/ ~held
FoundBy(n) == row # NoRow /\ row.id = n.id

\* customer.subscription.created: link the row and take Stripe's status, its
\* price and the tier of the metadata, starter when that names none.
SubscriptionCreated(n) ==
  /\ n.type = "created"
  /\ IF InsertFree
     THEN LET tier == IF n.tier \in Tiers THEN n.tier ELSE "starter" IN
          /\ row' = [GetOrCreate EXCEPT !.id = n.id, !.status = MapStripeStatus(n.status),
                                        !.tier = tier, !.price = n.price,
                                        !.cancel = n.cancel]
          /\ firmTier' = tier
     ELSE UNCHANGED <<row, firmTier>>      \* the insert fails, 200 all the same

\* customer.subscription.updated: found by its Stripe id, else dropped.  The
\* price is kept, but the tier changes only when the metadata names one.  A
\* subscription that was past due and is active again leaves dunning.
SubscriptionUpdated(n) ==
  /\ n.type = "updated"
  /\ IF FoundBy(n)
     THEN LET cured == row.status = "past_due" /\ n.status = "active" IN
          /\ row' = [row EXCEPT !.status = MapStripeStatus(n.status),
                                !.tier = IF n.tier \in Tiers THEN n.tier ELSE @,
                                !.price = n.price, !.cancel = n.cancel,
                                !.grace = @ /\ ~cured,
                                !.failed = IF cured THEN 0 ELSE @]
          /\ firmTier' = IF n.tier \in Tiers THEN n.tier ELSE firmTier
     ELSE UNCHANGED <<row, firmTier>>

\* Slip: the firm keeps its tier.
SubscriptionDeletedOnly(n) ==
  /\ n.type = "deleted"
  /\ row' = IF FoundBy(n) THEN [row EXCEPT !.status = "canceled"] ELSE row
  /\ UNCHANGED firmTier
\* customer.subscription.deleted: the firm falls back to starter.
SubscriptionDeleted(n) ==
  /\ n.type = "deleted"
  /\ IF FoundBy(n)
     THEN row' = [row EXCEPT !.status = "canceled"] /\ firmTier' = "starter"
     ELSE UNCHANGED <<row, firmTier>>

\* Slip: only the counter is reset.
InvoicePaidCounterOnly(n) ==
  /\ n.type = "paid"
  /\ row' = IF row = NoRow THEN row
            ELSE [row EXCEPT !.failed = 0, !.status = IF @ = "past_due" THEN "active" ELSE @]
  /\ UNCHANGED firmTier
\* invoice.paid, found by the customer: dunning ends.
InvoicePaid(n) ==
  /\ n.type = "paid"
  /\ row' = IF row = NoRow THEN row
            ELSE [row EXCEPT !.failed = 0, !.grace = FALSE,
                             !.status = IF @ = "past_due" THEN "active" ELSE @]
  /\ UNCHANGED firmTier

\* invoice.payment_failed, found by the customer: the first failure starts the
\* grace period.
InvoicePaymentFailed(n) ==
  /\ n.type = "failed"
  /\ row' = IF row = NoRow THEN row
            ELSE [row EXCEPT !.failed = @ + 1, !.status = "past_due", !.grace = TRUE]
  /\ UNCHANGED firmTier

\* POST /webhooks/stripe: one event through the dispatch table; Stripe may keep
\* it and deliver it again.
StripeWebhook ==
  \E n \in inbox :
    /\ n.type = "failed" /\ row # NoRow => row.failed < MaxNotices
    /\ \/ SubscriptionCreated(n)     \/ SubscriptionUpdated(n)
       \/ SubscriptionDeleted(n)     \/ InvoicePaid(n)
       \/ InvoicePaymentFailed(n)
    /\ \/ inbox' = inbox \ {n}
       \/ UNCHANGED inbox
    /\ Disturb(~InsertFree \/ n.seq < handled \/ \E o \in inbox : o.seq < n.seq)
    /\ handled' = IF n.seq > handled THEN n.seq ELSE handled
    /\ UNCHANGED <<held, customer, stripe, emitted>>

------------------------------------------------------------------------------
(* Requests *)

\* The firm gets a Stripe customer once, before the page that belongs to Stripe.
EnsureStripeCustomer ==
  /\ customer' = TRUE
  /\ UNCHANGED <<row, held, firmTier, Remote, handled, disturbed>>
CreateCheckoutSession(tier) == tier \in Tiers /\ EnsureStripeCustomer

RequireOwnerOrAdmin(role) == role \in {"owner", "admin"}
CreateCheckout(role, tier) == RequireOwnerOrAdmin(role) /\ CreateCheckoutSession(tier)
CreatePortalSession(role) == RequireOwnerOrAdmin(role) /\ EnsureStripeCustomer

\* The row is inserted if there is none, and counters on it that no decision
\* reads are refreshed.
SyncUsageCounts ==
  /\ InsertFree
  /\ row' = GetOrCreate
  /\ UNCHANGED <<held, customer, firmTier, Remote, handled, disturbed>>
GetBillingOverview == SyncUsageCounts
GetUsage == SyncUsageCounts

\* The firm's first request that creates a matter or a member inserts the row,
\* and commits it with what it created or rolls it back.
GetOrCreateSubscription ==
  /\ row = NoRow /\ ~held /\ held' = TRUE
  /\ UNCHANGED <<row, customer, firmTier, Remote, handled, disturbed>>
EndCreate ==
  /\ held /\ held' = FALSE
  /\ row' \in {row, DefaultRow}
  /\ UNCHANGED <<customer, firmTier, Remote, handled, disturbed>>

Next == \/ \E role \in {"owner", "admin", "member"} :
             \/ \E tier \in Tiers : CreateCheckout(role, tier)
             \/ CreatePortalSession(role)
        \/ \E tier \in Tiers : Subscribe(tier)
        \/ RemoteChange
        \/ StripeWebhook
        \/ GetBillingOverview \/ GetUsage
        \/ GetOrCreateSubscription \/ EndCreate

Spec == Init /\ [][Next]_vars

------------------------------------------------------------------------------
TypeOK ==
  /\ row \in Row \cup {NoRow} /\ {held, customer} \subseteq BOOLEAN /\ firmTier \in Tiers
  /\ emitted \in 0..MaxNotices /\ handled \in 0..MaxNotices
  /\ disturbed \in 0..MaxDisorder
  /\ Len(stripe) <= MaxSubs /\ \A i \in DOMAIN stripe : stripe[i] \in StripeSub
  /\ inbox \subseteq Notice

\* The five webhook handlers together keep the row in step with Stripe: when
\* every event was handled in the order it was emitted and one subscription
\* was live at a time, then with none outstanding the row carries the newest
\* subscription's status and price, the tier its metadata names, and a grace
\* period runs while an invoice is unpaid, none once it is paid.  (A first payment
\* refused shows as past due until the next update, and a grace period outlives
\* its subscription until the next one is paid for.  The tier is the metadata's,
\* not the one of the price, and late events break all of it.)
InStep ==
  disturbed = 0 /\ inbox = {} /\ stripe # <<>> =>
    LET s == stripe[Len(stripe)] IN
    /\ row # NoRow /\ row.id = Len(stripe)
    /\ \/ row.status = MapStripeStatus(s.status)
       \/ row.status = "past_due" /\ s.status = "incomplete" /\ s.failing
    /\ row.price = s.price /\ row.cancel = s.cancel
    /\ s.tier \in Tiers => row.tier = s.tier
    /\ s.failing => row.grace
    /\ s.status \in {"active", "trialing", "paused"} => ~row.grace
    /\ firmTier = IF s.status = "canceled" THEN "starter" ELSE row.tier

\* However events are ordered, repeated or lost, a grace period runs exactly
\* while failures are counted: no firm is shut out as overdue without one.
DunningConsistent == row # NoRow => (row.grace <=> row.failed > 0)
=============================================================================
