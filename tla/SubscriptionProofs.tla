-------------------------- MODULE SubscriptionProofs --------------------------
(***************************************************************************)
(* Proofs about the subscription of AroundFirm, for any plans and number   *)
(* of subscriptions and events: webhooks keep the row in step with Stripe, *)
(* and a grace period runs while failures are counted.                     *)
(*                                                                         *)
(* PlanInv is about any order of events.  That the row is in step needs    *)
(* what the state has forgotten, the events already handled: StepInv says  *)
(* that SOME story, the events Stripe emitted and the view of the row each *)
(* of them leaves when they are handled in that order, explains the inbox, *)
(* the row and Stripe.  The row is the view after the newest event         *)
(* handled, Stripe is in step with the view after the newest one emitted.  *)
(***************************************************************************)
EXTENDS AroundFirm, SequenceTheorems, TLAPS

PlanShapes ==
  /\ row \in Plan!Row \cup {Plan!NoRow} /\ held \in BOOLEAN /\ customer \in BOOLEAN
  /\ firmTier \in Tiers /\ emitted \in 0..MaxNotices /\ handled \in 0..MaxNotices
  /\ stripe \in Seq(Plan!StripeSub) /\ Len(stripe) <= MaxSubs
  /\ inbox \subseteq Plan!Notice /\ late \in 0..MaxDisorder

\* Whoever holds an uncommitted insert of the row found none.
HeldAlone == held => row = Plan!NoRow

PlanInv == PlanShapes /\ HeldAlone /\ Plan!DunningConsistent

LEMMA RowApart ==
  /\ \A s \in Plan!Row : s # Plan!NoRow
  /\ Plan!BillingAssumption => Plan!DefaultRow \in Plan!Row
<1>1. ASSUME NEW s \in Plan!Row PROVE s # Plan!NoRow
  <2>1. "status" \in DOMAIN s BY DEF Plan!Row
  <2>2. "status" \notin DOMAIN Plan!NoRow BY DEF Plan!NoRow
  <2> QED BY <2>1, <2>2
<1>2. ASSUME Plan!BillingAssumption PROVE Plan!DefaultRow \in Plan!Row
  BY <1>2 DEF Plan!DefaultRow, Plan!Row, Plan!Status, Plan!NoPrice, Plan!BillingAssumption
<1> QED BY <1>1, <1>2

LEMMA PlanNumbers ==
  ASSUME Plan!BillingAssumption
  PROVE  MaxSubs \in Nat /\ MaxNotices \in Nat /\ MaxDisorder \in Nat
  BY DEF Plan!BillingAssumption

LEMMA PlanInit == ASSUME Plan!BillingAssumption, Plan!Init PROVE PlanInv
<1>1. /\ row = Plan!NoRow /\ held = FALSE /\ customer = FALSE /\ firmTier = "starter"
      /\ stripe = <<>> /\ inbox = {} /\ emitted = 0 /\ handled = 0 /\ late = 0
  BY DEF Plan!Init
<1>2. stripe \in Seq(Plan!StripeSub) /\ Len(stripe) = 0 BY <1>1
<1>3. 0 \in 0..MaxDisorder /\ 0 \in 0..MaxNotices /\ 0 <= MaxSubs BY PlanNumbers
<1> QED BY <1>1, <1>2, <1>3
        DEF PlanInv, PlanShapes, HeldAlone, Plan!DunningConsistent, Plan!BillingAssumption

\* Counting a disturbance keeps the count in its range; none was counted if
\* none is now.
LEMMA Disturbing ==
  ASSUME Plan!BillingAssumption, late \in 0..MaxDisorder, NEW yes \in BOOLEAN, Plan!Disturb(yes)
  PROVE  late' \in 0..MaxDisorder /\ (late' = 0 => late = 0 /\ ~yes)
  BY PlanNumbers DEF Plan!Disturb

------------------------------------------------------------------------------
(* What each webhook makes of the row *)

LEMMA FoundRow ==
  ASSUME Plan!BillingAssumption, PlanShapes
  PROVE  /\ Plan!GetOrCreate \in Plan!Row
         /\ row # Plan!NoRow => row \in Plan!Row /\ Plan!GetOrCreate = row
         /\ row = Plan!NoRow => Plan!GetOrCreate = Plan!DefaultRow
  BY RowApart DEF PlanShapes, Plan!GetOrCreate

LEMMA RowFields ==
  ASSUME NEW s \in Plan!Row
  PROVE  /\ s.tier \in Tiers /\ s.price \in Tiers \cup {Plan!NoPrice} /\ s.status \in Plan!Status
         /\ s.id \in 0..MaxSubs /\ s.grace \in BOOLEAN /\ s.failed \in 0..MaxNotices
         /\ s.cancel \in BOOLEAN
  BY DEF Plan!Row

LEMMA NoticeFields ==
  ASSUME NEW n \in Plan!Notice
  PROVE  /\ n.type \in {"created", "updated", "deleted", "paid", "failed"}
         /\ n.id \in 1..MaxSubs /\ n.tier \in Tiers \cup {Plan!Unnamed} /\ n.price \in Tiers
         /\ n.status \in Plan!StripeStatus /\ n.cancel \in BOOLEAN /\ n.seq \in 1..MaxNotices
         /\ Plan!MapStripeStatus(n.status) \in Plan!Status
  BY DEF Plan!Notice, Plan!MapStripeStatus, Plan!StripeStatus, Plan!Status

\* What the rest of the system can see of the row, without the count of failures.
View(r, t) == [tier |-> r.tier, price |-> r.price, status |-> r.status, id |-> r.id,
               grace |-> r.grace, cancel |-> r.cancel, firm |-> t]

Named(n, otherwise) == IF n.tier \in Tiers THEN n.tier ELSE otherwise

\* The view an event leaves.
AfterCreated(v, n) ==
  [tier |-> Named(n, "starter"), price |-> n.price, status |-> Plan!MapStripeStatus(n.status),
   id |-> n.id, grace |-> v.grace, cancel |-> n.cancel, firm |-> Named(n, "starter")]
AfterUpdated(v, n) ==
  IF v.id # n.id THEN v
  ELSE [tier |-> Named(n, v.tier), price |-> n.price, status |-> Plan!MapStripeStatus(n.status),
        id |-> v.id, grace |-> v.grace /\ ~(v.status = "past_due" /\ n.status = "active"),
        cancel |-> n.cancel, firm |-> Named(n, v.firm)]
AfterDeleted(v, n) ==
  IF v.id # n.id THEN v
  ELSE [tier |-> v.tier, price |-> v.price, status |-> "canceled", id |-> v.id,
        grace |-> v.grace, cancel |-> v.cancel, firm |-> "starter"]
AfterPaid(v) ==
  [tier |-> v.tier, price |-> v.price,
   status |-> IF v.status = "past_due" THEN "active" ELSE v.status, id |-> v.id,
   grace |-> FALSE, cancel |-> v.cancel, firm |-> v.firm]
AfterFailed(v) ==
  [tier |-> v.tier, price |-> v.price, status |-> "past_due", id |-> v.id,
   grace |-> TRUE, cancel |-> v.cancel, firm |-> v.firm]
After(v, n) == CASE n.type = "created" -> AfterCreated(v, n)
                 [] n.type = "updated" -> AfterUpdated(v, n)
                 [] n.type = "deleted" -> AfterDeleted(v, n)
                 [] n.type = "paid"    -> AfterPaid(v)
                 [] n.type = "failed"  -> AfterFailed(v)

LEMMA AfterForms ==
  ASSUME NEW v, NEW n
  PROVE  /\ n.type = "created" => After(v, n) = AfterCreated(v, n)
         /\ n.type = "updated" => After(v, n) = AfterUpdated(v, n)
         /\ n.type = "deleted" => After(v, n) = AfterDeleted(v, n)
         /\ n.type = "paid" => After(v, n) = AfterPaid(v)
         /\ n.type = "failed" => After(v, n) = AfterFailed(v)
  BY DEF After

\* An event delivered twice in a row leaves the view it left the first time.
LEMMA AfterTwice ==
  ASSUME NEW v, NEW n \in Plan!Notice PROVE After(After(v, n), n) = After(v, n)
<1>1. CASE n.type = "created" BY <1>1, AfterForms DEF AfterCreated
<1>2. CASE n.type = "updated"
  <2>1. CASE v.id # n.id BY <1>2, <2>1, AfterForms DEF AfterUpdated
  <2>2. CASE v.id = n.id
    <3> DEFINE w == AfterUpdated(v, n)
    <3>1. /\ w = [tier |-> Named(n, v.tier), price |-> n.price,
                  status |-> Plan!MapStripeStatus(n.status), id |-> v.id,
                  grace |-> v.grace /\ ~(v.status = "past_due" /\ n.status = "active"),
                  cancel |-> n.cancel, firm |-> Named(n, v.firm)]
      BY <2>2 DEF AfterUpdated
    <3> HIDE DEF w
    <3>2. /\ w.tier = Named(n, v.tier) /\ w.price = n.price
          /\ w.status = Plan!MapStripeStatus(n.status) /\ w.id = v.id /\ w.cancel = n.cancel
          /\ w.grace = (v.grace /\ ~(v.status = "past_due" /\ n.status = "active"))
          /\ w.firm = Named(n, v.firm)
      BY Zenon, <3>1
    <3>3. /\ Named(n, w.tier) = w.tier /\ Named(n, w.firm) = w.firm
      BY <3>2 DEF Named
    <3>4. (w.grace /\ ~(w.status = "past_due" /\ n.status = "active")) = w.grace
      BY <3>2 DEF Plan!MapStripeStatus
    <3>5. AfterUpdated(w, n) = w
      BY <2>2, <3>1, <3>2, <3>3, <3>4 DEF AfterUpdated
    <3> QED BY <1>2, <3>5, AfterForms DEF w
  <2> QED BY <2>1, <2>2
<1>3. CASE n.type = "deleted" BY <1>3, AfterForms DEF AfterDeleted
<1>4. CASE n.type = "paid"
  <2>1. AfterPaid(AfterPaid(v)) = AfterPaid(v)
    <3> DEFINE status == IF v.status = "past_due" THEN "active" ELSE v.status
    <3>1. AfterPaid(v) = [tier |-> v.tier, price |-> v.price, status |-> status, id |-> v.id,
                          grace |-> FALSE, cancel |-> v.cancel, firm |-> v.firm]
      BY DEF AfterPaid
    <3>2. status # "past_due" OBVIOUS
    <3> HIDE DEF status
    <3> QED BY <3>1, <3>2 DEF AfterPaid
  <2>2. After(v, n) = AfterPaid(v) /\ After(AfterPaid(v), n) = AfterPaid(AfterPaid(v))
    BY Zenon, <1>4, AfterForms
  <2> QED BY <2>1, <2>2
<1>5. CASE n.type = "failed"
  <2>1. AfterFailed(AfterFailed(v)) = AfterFailed(v) BY SMT DEF AfterFailed
  <2>2. After(v, n) = AfterFailed(v) /\ After(AfterFailed(v), n) = AfterFailed(AfterFailed(v))
    BY Zenon, <1>5, AfterForms
  <2> QED BY <2>1, <2>2
<1> QED BY <1>1, <1>2, <1>3, <1>4, <1>5, NoticeFields

\* Each handler leaves the view of its event, and a row of the right type on
\* which a grace period runs while failures are counted.
HandledWell(n) == /\ row' \in Plan!Row /\ firmTier' \in Tiers
                  /\ row'.grace <=> row'.failed > 0
                  /\ View(row', firmTier') = After(View(Plan!GetOrCreate, firmTier), n)

LEMMA CreatedView ==
  ASSUME Plan!BillingAssumption, PlanInv, NEW n \in Plan!Notice,
         Plan!SubscriptionCreated(n), Plan!InsertFree
  PROVE  n.type = "created" /\ HandledWell(n)
<1> DEFINE old == Plan!GetOrCreate
           tier == Named(n, "starter")
<1>1. /\ n.type = "created" /\ firmTier' = tier
      /\ row' = [old EXCEPT !.id = n.id, !.status = Plan!MapStripeStatus(n.status), !.tier = tier,
                            !.price = n.price, !.cancel = n.cancel]
  BY DEF Plan!SubscriptionCreated, Named
<1>2. old \in Plan!Row /\ tier \in Tiers BY FoundRow DEF PlanInv, Named, Plan!BillingAssumption
<1>3. old.grace <=> old.failed > 0
  BY FoundRow DEF PlanInv, Plan!DunningConsistent, Plan!DefaultRow
<1>4. After(View(old, firmTier), n) = AfterCreated(View(old, firmTier), n) BY <1>1, AfterForms
<1>5. tier = Named(n, "starter") OBVIOUS
<1> HIDE DEF old, tier
<1>6. /\ row' \in Plan!Row /\ row'.id = n.id /\ row'.status = Plan!MapStripeStatus(n.status)
      /\ row'.tier = tier /\ row'.price = n.price /\ row'.cancel = n.cancel
      /\ row'.grace = old.grace /\ row'.failed = old.failed
  <2> DEFINE status == Plan!MapStripeStatus(n.status)
  <2>1. /\ n.id \in 0..MaxSubs /\ n.price \in Tiers /\ n.cancel \in BOOLEAN
        /\ status \in Plan!Status
    BY NoticeFields, PlanNumbers
  <2>2. row' = [old EXCEPT !.id = n.id, !.status = status, !.tier = tier, !.price = n.price,
                           !.cancel = n.cancel]
    BY <1>1
  <2> HIDE DEF status
  <2>3. row' \in Plan!Row BY <1>2, <2>1, <2>2 DEF Plan!Row
  <2>4. /\ row'.id = n.id /\ row'.status = status /\ row'.tier = tier /\ row'.price = n.price
        /\ row'.cancel = n.cancel /\ row'.grace = old.grace /\ row'.failed = old.failed
    BY <1>2, <2>2 DEF Plan!Row
  <2> QED BY <2>3, <2>4 DEF status
<1>7. View(old, firmTier).grace = old.grace BY DEF View
<1>8. View(row', firmTier') = AfterCreated(View(old, firmTier), n)
  BY <1>1, <1>5, <1>6, <1>7 DEF View, AfterCreated
<1> QED BY <1>1, <1>2, <1>3, <1>4, <1>6, <1>8 DEF HandledWell, old

LEMMA UpdatedView ==
  ASSUME Plan!BillingAssumption, PlanInv, NEW n \in Plan!Notice,
         Plan!SubscriptionUpdated(n), row # Plan!NoRow
  PROVE  n.type = "updated" /\ HandledWell(n)
<1>1. n.type = "updated" BY DEF Plan!SubscriptionUpdated
<1>2. /\ row \in Plan!Row /\ Plan!GetOrCreate = row /\ firmTier \in Tiers
      /\ row.grace <=> row.failed > 0
  BY FoundRow DEF PlanInv, PlanShapes, Plan!DunningConsistent
<1>3. After(View(row, firmTier), n) = AfterUpdated(View(row, firmTier), n) BY <1>1, AfterForms
<1>4. CASE row.id # n.id
  <2>1. row' = row /\ firmTier' = firmTier BY <1>4 DEF Plan!SubscriptionUpdated, Plan!FoundBy
  <2>2. AfterUpdated(View(row, firmTier), n) = View(row, firmTier) BY <1>4 DEF AfterUpdated, View
  <2> QED BY <1>1, <1>2, <1>3, <2>1, <2>2 DEF HandledWell
<1>5. CASE row.id = n.id
  <2> DEFINE cured == row.status = "past_due" /\ n.status = "active"
             tier == Named(n, row.tier)
             grace == row.grace /\ ~cured
             failed == IF cured THEN 0 ELSE row.failed
  <2>1. /\ firmTier' = Named(n, firmTier)
        /\ row' = [row EXCEPT !.status = Plan!MapStripeStatus(n.status), !.tier = tier,
                              !.price = n.price, !.cancel = n.cancel, !.grace = grace,
                              !.failed = failed]
    BY <1>5 DEF Plan!SubscriptionUpdated, Plan!FoundBy, Named
  <2>2. /\ tier \in Tiers /\ firmTier' \in Tiers /\ grace \in BOOLEAN /\ failed \in 0..MaxNotices
        /\ grace <=> failed > 0
    BY <1>2, <2>1, RowFields, PlanNumbers DEF Named
  <2>3. tier = Named(n, row.tier) /\ grace = (row.grace /\ ~cured) OBVIOUS
  <2> HIDE DEF tier, grace, failed
  <2>4. /\ row' \in Plan!Row /\ row'.id = row.id /\ row'.status = Plan!MapStripeStatus(n.status)
        /\ row'.tier = tier /\ row'.price = n.price /\ row'.cancel = n.cancel
        /\ row'.grace = grace /\ row'.failed = failed
    BY <1>2, <2>1, <2>2, NoticeFields DEF Plan!Row
  <2> DEFINE v == View(row, firmTier)
  <2>5. /\ v.id = row.id /\ v.tier = row.tier /\ v.firm = firmTier /\ v.grace = row.grace
        /\ v.status = row.status
    BY DEF View
  <2> HIDE DEF v
  <2>6. AfterUpdated(v, n) =
          [tier |-> tier, price |-> n.price, status |-> Plan!MapStripeStatus(n.status),
           id |-> row.id, grace |-> grace, cancel |-> n.cancel, firm |-> firmTier']
    BY <1>5, <2>1, <2>3, <2>5 DEF AfterUpdated
  <2>7. View(row', firmTier') = AfterUpdated(v, n) BY <2>4, <2>6 DEF View
  <2> QED BY <1>1, <1>2, <1>3, <2>2, <2>4, <2>7 DEF HandledWell, v
<1> QED BY <1>4, <1>5

LEMMA DeletedView ==
  ASSUME Plan!BillingAssumption, PlanInv, NEW n \in Plan!Notice,
         Plan!SubscriptionDeleted(n), row # Plan!NoRow
  PROVE  n.type = "deleted" /\ HandledWell(n)
<1>1. n.type = "deleted" BY DEF Plan!SubscriptionDeleted
<1>2. /\ row \in Plan!Row /\ Plan!GetOrCreate = row /\ firmTier \in Tiers
      /\ row.grace <=> row.failed > 0
  BY FoundRow DEF PlanInv, PlanShapes, Plan!DunningConsistent
<1>3. After(View(row, firmTier), n) = AfterDeleted(View(row, firmTier), n) BY <1>1, AfterForms
<1>4. CASE row.id # n.id
  <2>1. row' = row /\ firmTier' = firmTier BY <1>4 DEF Plan!SubscriptionDeleted, Plan!FoundBy
  <2>2. AfterDeleted(View(row, firmTier), n) = View(row, firmTier) BY <1>4 DEF AfterDeleted, View
  <2> QED BY <1>1, <1>2, <1>3, <2>1, <2>2 DEF HandledWell
<1>5. CASE row.id = n.id
  <2>1. firmTier' = "starter" /\ row' = [row EXCEPT !.status = "canceled"]
    BY <1>5 DEF Plan!SubscriptionDeleted, Plan!FoundBy
  <2>2. /\ row' \in Plan!Row /\ row'.id = row.id /\ row'.status = "canceled"
        /\ row'.tier = row.tier /\ row'.price = row.price /\ row'.cancel = row.cancel
        /\ row'.grace = row.grace /\ row'.failed = row.failed
    BY <1>2, <2>1 DEF Plan!Row, Plan!Status
  <2>3. View(row', firmTier') = AfterDeleted(View(row, firmTier), n)
    BY <1>5, <2>1, <2>2 DEF View, AfterDeleted
  <2> QED BY <1>1, <1>2, <1>3, <2>1, <2>2, <2>3 DEF HandledWell, Plan!BillingAssumption
<1> QED BY <1>4, <1>5

LEMMA PaidView ==
  ASSUME Plan!BillingAssumption, PlanInv, NEW n \in Plan!Notice, Plan!InvoicePaid(n),
         row # Plan!NoRow
  PROVE  n.type = "paid" /\ HandledWell(n)
<1> DEFINE status == IF row.status = "past_due" THEN "active" ELSE row.status
<1>1. row \in Plan!Row /\ Plan!GetOrCreate = row /\ firmTier \in Tiers
  BY FoundRow DEF PlanInv, PlanShapes
<1>2. /\ n.type = "paid" /\ firmTier' = firmTier
      /\ row' = [row EXCEPT !.failed = 0, !.grace = FALSE, !.status = status]
  BY DEF Plan!InvoicePaid
<1>3. status \in Plan!Status /\ 0 \in 0..MaxNotices
  BY <1>1, RowFields, PlanNumbers DEF Plan!Status
<1>4. status = (IF row.status = "past_due" THEN "active" ELSE row.status) OBVIOUS
<1> HIDE DEF status
<1>5. /\ row' \in Plan!Row /\ row'.id = row.id /\ row'.status = status /\ row'.tier = row.tier
      /\ row'.price = row.price /\ row'.cancel = row.cancel /\ row'.grace = FALSE /\ row'.failed = 0
  BY <1>1, <1>2, <1>3 DEF Plan!Row
<1>6. View(row', firmTier') = AfterPaid(View(row, firmTier)) BY <1>2, <1>4, <1>5 DEF View, AfterPaid
<1>7. After(View(row, firmTier), n) = AfterPaid(View(row, firmTier)) BY <1>2, AfterForms
<1> QED BY <1>1, <1>2, <1>5, <1>6, <1>7 DEF HandledWell

LEMMA FailedView ==
  ASSUME Plan!BillingAssumption, PlanInv, NEW n \in Plan!Notice, Plan!InvoicePaymentFailed(n),
         row # Plan!NoRow, row.failed < MaxNotices
  PROVE  n.type = "failed" /\ HandledWell(n)
<1> DEFINE failed == row.failed + 1
<1>1. row \in Plan!Row /\ Plan!GetOrCreate = row /\ firmTier \in Tiers
  BY FoundRow DEF PlanInv, PlanShapes
<1>2. /\ n.type = "failed" /\ firmTier' = firmTier
      /\ row' = [row EXCEPT !.failed = failed, !.status = "past_due", !.grace = TRUE]
  BY DEF Plan!InvoicePaymentFailed
<1>3. failed \in 0..MaxNotices /\ failed > 0 BY <1>1, RowFields, PlanNumbers
<1> HIDE DEF failed
<1>5. /\ row' \in Plan!Row /\ row'.id = row.id /\ row'.status = "past_due" /\ row'.tier = row.tier
      /\ row'.price = row.price /\ row'.cancel = row.cancel /\ row'.grace = TRUE
      /\ row'.failed = failed
  BY <1>1, <1>2, <1>3 DEF Plan!Row, Plan!Status
<1>6. View(row', firmTier') = AfterFailed(View(row, firmTier)) BY <1>2, <1>5 DEF View, AfterFailed
<1>7. After(View(row, firmTier), n) = AfterFailed(View(row, firmTier)) BY <1>2, AfterForms
<1> QED BY <1>1, <1>2, <1>3, <1>5, <1>6, <1>7 DEF HandledWell

\* One event through the dispatch table.
LEMMA WebhookForms ==
  ASSUME Plan!BillingAssumption, PlanInv, Plan!StripeWebhook
  PROVE  /\ UNCHANGED <<held, customer, stripe, emitted>>
         /\ \E n \in inbox :
              /\ n \in Plan!Notice
              /\ inbox' = inbox \ {n} \/ inbox' = inbox
              /\ Plan!Disturb(~Plan!InsertFree \/ n.seq < handled \/ \E o \in inbox : o.seq < n.seq)
              /\ handled' = IF n.seq > handled THEN n.seq ELSE handled
              /\ \/ HandledWell(n) /\ (row # Plan!NoRow \/ (n.type = "created" /\ ~held))
                 \/ /\ UNCHANGED <<row, firmTier>> /\ row = Plan!NoRow
                    /\ n.type # "created" \/ ~Plan!InsertFree
<1>1. PICK n \in inbox :
        /\ n.type = "failed" /\ row # Plan!NoRow => row.failed < MaxNotices
        /\ \/ Plan!SubscriptionCreated(n) \/ Plan!SubscriptionUpdated(n)
           \/ Plan!SubscriptionDeleted(n) \/ Plan!InvoicePaid(n)
           \/ Plan!InvoicePaymentFailed(n)
        /\ inbox' = inbox \ {n} \/ inbox' = inbox
        /\ Plan!Disturb(~Plan!InsertFree \/ n.seq < handled \/ \E o \in inbox : o.seq < n.seq)
        /\ handled' = IF n.seq > handled THEN n.seq ELSE handled
        /\ UNCHANGED <<held, customer, stripe, emitted>>
  BY Zenon DEF Plan!StripeWebhook
<1>2. n \in Plan!Notice BY DEF PlanInv, PlanShapes
<1>3. \/ HandledWell(n) /\ (row # Plan!NoRow \/ (n.type = "created" /\ ~held))
      \/ UNCHANGED <<row, firmTier>> /\ row = Plan!NoRow /\ (n.type # "created" \/ ~Plan!InsertFree)
  <2>1. CASE Plan!SubscriptionCreated(n)
    <3>1. CASE Plan!InsertFree
      <4>1. n.type = "created" /\ HandledWell(n) BY <1>2, <2>1, <3>1, CreatedView
      <4> QED BY <3>1, <4>1 DEF Plan!InsertFree
    <3>2. CASE ~Plan!InsertFree
      <4>1. row = Plan!NoRow BY <3>2 DEF Plan!InsertFree
      <4> QED BY <2>1, <3>2, <4>1 DEF Plan!SubscriptionCreated
    <3> QED BY <3>1, <3>2
  <2>2. CASE Plan!SubscriptionUpdated(n)
    <3>1. CASE row = Plan!NoRow BY <2>2, <3>1 DEF Plan!SubscriptionUpdated, Plan!FoundBy
    <3> QED BY <1>2, <2>2, <3>1, UpdatedView
  <2>3. CASE Plan!SubscriptionDeleted(n)
    <3>1. CASE row = Plan!NoRow BY <2>3, <3>1 DEF Plan!SubscriptionDeleted, Plan!FoundBy
    <3> QED BY <1>2, <2>3, <3>1, DeletedView
  <2>4. CASE Plan!InvoicePaid(n)
    <3>1. CASE row = Plan!NoRow BY <2>4, <3>1 DEF Plan!InvoicePaid
    <3> QED BY <1>2, <2>4, <3>1, PaidView
  <2>5. CASE Plan!InvoicePaymentFailed(n)
    <3>1. CASE row = Plan!NoRow BY <2>5, <3>1 DEF Plan!InvoicePaymentFailed
    <3>2. CASE row # Plan!NoRow
      <4>1. row.failed < MaxNotices BY <1>1, <2>5, <3>2 DEF Plan!InvoicePaymentFailed
      <4> QED BY <1>2, <2>5, <3>2, <4>1, FailedView
    <3> QED BY <3>1, <3>2
  <2> QED BY <1>1, <2>1, <2>2, <2>3, <2>4, <2>5
<1> QED BY <1>1, <1>2, <1>3

------------------------------------------------------------------------------
(* What Stripe does and sends *)

Told(type, id, sub2, seq) ==
  [type |-> type, id |-> id, tier |-> sub2.tier, price |-> sub2.price, status |-> sub2.status,
   cancel |-> sub2.cancel, seq |-> seq]

LEMMA EmitOne ==
  ASSUME NEW a, NEW id, NEW s, emitted \in Nat, Plan!Emit(<<a>>, id, s)
  PROVE  /\ emitted' = emitted + 1 /\ emitted' <= MaxNotices
         /\ inbox' = inbox \cup {Told(a, id, s, emitted + 1)}
<1> DEFINE types == <<a>>
<1>1. Len(types) = 1 /\ DOMAIN types = {1} /\ types[1] = a OBVIOUS
<1>2. /\ emitted + Len(types) <= MaxNotices /\ emitted' = emitted + Len(types)
      /\ inbox' = inbox \cup {Told(types[i], id, s, emitted + i) : i \in DOMAIN types}
  BY Zenon DEF Plan!Emit, Told
<1> HIDE DEF types
<1> QED BY <1>1, <1>2

LEMMA EmitTwo ==
  ASSUME NEW a, NEW b, NEW id, NEW s, emitted \in Nat, Plan!Emit(<<a, b>>, id, s)
  PROVE  /\ emitted' = emitted + 2 /\ emitted' <= MaxNotices
         /\ inbox' = inbox \cup {Told(a, id, s, emitted + 1), Told(b, id, s, emitted + 2)}
<1> DEFINE types == <<a, b>>
<1>1. Len(types) = 2 /\ DOMAIN types = {1, 2} /\ types[1] = a /\ types[2] = b OBVIOUS
<1>2. /\ emitted + Len(types) <= MaxNotices /\ emitted' = emitted + Len(types)
      /\ inbox' = inbox \cup {Told(types[i], id, s, emitted + i) : i \in DOMAIN types}
  BY Zenon DEF Plan!Emit, Told
<1> HIDE DEF types
<1> QED BY <1>1, <1>2

LEMMA ToldFields ==
  ASSUME Plan!BillingAssumption, NEW type \in {"created", "updated", "deleted", "paid", "failed"},
         NEW id \in 1..MaxSubs, NEW s \in Plan!StripeSub, NEW seq \in 1..MaxNotices
  PROVE  /\ Told(type, id, s, seq) \in Plan!Notice
         /\ Told(type, id, s, seq).type = type /\ Told(type, id, s, seq).id = id
         /\ Told(type, id, s, seq).tier = s.tier /\ Told(type, id, s, seq).price = s.price
         /\ Told(type, id, s, seq).status = s.status
         /\ Told(type, id, s, seq).cancel = s.cancel /\ Told(type, id, s, seq).seq = seq
  BY DEF Told, Plan!Notice, Plan!StripeSub

LEMMA SubFields ==
  ASSUME NEW s \in Plan!StripeSub
  PROVE  /\ s.tier \in Tiers \cup {Plan!Unnamed} /\ s.price \in Tiers
         /\ s.status \in Plan!StripeStatus /\ s.cancel \in BOOLEAN /\ s.failing \in BOOLEAN
  BY DEF Plan!StripeSub

\* What a change leaves alone: the plan, its price and whether it is set to end.
SameTerms(s, to) == to.tier = s.tier /\ to.price = s.price /\ to.cancel = s.cancel
\* The changes of a live subscription, by the events that tell of them.
Refused(s, to) == SameTerms(s, to) /\ to.status = "past_due" /\ to.failing
FirstRefused(s, to) == /\ SameTerms(s, to) /\ s.status = "incomplete" /\ to.status = "incomplete"
                       /\ to.failing
Settled(s, to) == SameTerms(s, to) /\ to.status = "active" /\ ~to.failing
Updated(s, to) == /\ to.failing = s.failing
                  /\ \/ to.status = s.status
                     \/ to.status \in {"unpaid", "incomplete_expired"}
                     \/ s.status = "trialing" /\ to.status = "paused"
Left(s, to) == SameTerms(s, to) /\ to.status = "canceled" /\ to.failing = s.failing

LEMMA RemoteForms ==
  ASSUME Plan!BillingAssumption, PlanShapes, Plan!RemoteChange
  PROVE  /\ UNCHANGED <<row, held, customer, firmTier, handled, late>>
         /\ \E id \in DOMAIN stripe, to \in Plan!StripeSub :
              /\ stripe[id] \in Plan!StripeSub /\ Plan!Live(id)
              /\ stripe' = [stripe EXCEPT ![id] = to]
              /\ \/ Refused(stripe[id], to) /\ Plan!Emit(<<"failed", "updated">>, id, to)
                 \/ FirstRefused(stripe[id], to) /\ Plan!Emit(<<"failed">>, id, to)
                 \/ Settled(stripe[id], to) /\ Plan!Emit(<<"paid", "updated">>, id, to)
                 \/ Updated(stripe[id], to) /\ Plan!Emit(<<"updated">>, id, to)
                 \/ Left(stripe[id], to) /\ Plan!Emit(<<"deleted">>, id, to)
<1>1. PICK id \in DOMAIN stripe :
        /\ Plan!Live(id) /\ UNCHANGED <<row, held, customer, firmTier, handled, late>>
        /\ \/ /\ stripe[id].status \in {"trialing", "active", "past_due"}
              /\ Plan!Change(id, [stripe[id] EXCEPT !.status = "past_due", !.failing = TRUE],
                             <<"failed", "updated">>)
           \/ /\ stripe[id].status = "incomplete"
              /\ Plan!Change(id, [stripe[id] EXCEPT !.failing = TRUE], <<"failed">>)
           \/ Plan!Change(id, [stripe[id] EXCEPT !.status = "active", !.failing = FALSE],
                          <<"paid", "updated">>)
           \/ Plan!Change(id, [stripe[id] EXCEPT !.status = "unpaid"], <<"updated">>)
           \/ /\ stripe[id].status = "trialing"
              /\ Plan!Change(id, [stripe[id] EXCEPT !.status = "paused"], <<"updated">>)
           \/ Plan!Change(id, [stripe[id] EXCEPT !.status = "incomplete_expired"], <<"updated">>)
           \/ \E p \in Tiers \ {stripe[id].price} :
                Plan!Change(id, [stripe[id] EXCEPT !.price = p], <<"updated">>)
           \/ \E t \in (Tiers \cup {Plan!Unnamed}) \ {stripe[id].tier} :
                Plan!Change(id, [stripe[id] EXCEPT !.tier = t], <<"updated">>)
           \/ Plan!Change(id, [stripe[id] EXCEPT !.cancel = ~@], <<"updated">>)
           \/ Plan!Change(id, [stripe[id] EXCEPT !.status = "canceled"], <<"deleted">>)
  BY Zenon DEF Plan!RemoteChange
<1>2. stripe[id] \in Plan!StripeSub
  BY <1>1, ElementOfSeq DEF PlanShapes
<1> DEFINE s == stripe[id]
<1> HIDE DEF s
<1>3. s \in Plan!StripeSub /\ s = stripe[id] BY <1>2 DEF s
<1> SUFFICES \E to \in Plan!StripeSub :
              /\ stripe' = [stripe EXCEPT ![id] = to]
              /\ \/ Refused(s, to) /\ Plan!Emit(<<"failed", "updated">>, id, to)
                 \/ FirstRefused(s, to) /\ Plan!Emit(<<"failed">>, id, to)
                 \/ Settled(s, to) /\ Plan!Emit(<<"paid", "updated">>, id, to)
                 \/ Updated(s, to) /\ Plan!Emit(<<"updated">>, id, to)
                 \/ Left(s, to) /\ Plan!Emit(<<"deleted">>, id, to)
  BY <1>1, <1>3
<1>4. CASE Plan!Change(id, [s EXCEPT !.status = "past_due", !.failing = TRUE], <<"failed", "updated">>)
  <2> DEFINE to == [s EXCEPT !.status = "past_due", !.failing = TRUE]
  <2>1. to \in Plan!StripeSub /\ Refused(s, to)
    BY <1>3 DEF Plan!StripeSub, Plan!StripeStatus, Plan!Status, Refused, SameTerms
  <2>2. stripe' = [stripe EXCEPT ![id] = to] /\ Plan!Emit(<<"failed", "updated">>, id, to)
    BY <1>4 DEF Plan!Change
  <2> HIDE DEF to
  <2> QED BY <2>1, <2>2
<1>5. CASE s.status = "incomplete" /\ Plan!Change(id, [s EXCEPT !.failing = TRUE], <<"failed">>)
  <2> DEFINE to == [s EXCEPT !.failing = TRUE]
  <2>1. to \in Plan!StripeSub /\ FirstRefused(s, to)
    BY <1>3, <1>5 DEF Plan!StripeSub, FirstRefused, SameTerms
  <2>2. stripe' = [stripe EXCEPT ![id] = to] /\ Plan!Emit(<<"failed">>, id, to)
    BY <1>5 DEF Plan!Change
  <2> HIDE DEF to
  <2> QED BY <2>1, <2>2
<1>6. CASE Plan!Change(id, [s EXCEPT !.status = "active", !.failing = FALSE], <<"paid", "updated">>)
  <2> DEFINE to == [s EXCEPT !.status = "active", !.failing = FALSE]
  <2>1. to \in Plan!StripeSub /\ Settled(s, to)
    BY <1>3 DEF Plan!StripeSub, Plan!StripeStatus, Plan!Status, Settled, SameTerms
  <2>2. stripe' = [stripe EXCEPT ![id] = to] /\ Plan!Emit(<<"paid", "updated">>, id, to)
    BY <1>6 DEF Plan!Change
  <2> HIDE DEF to
  <2> QED BY <2>1, <2>2
<1>7. ASSUME NEW status, Plan!Change(id, [s EXCEPT !.status = status], <<"updated">>),
             \/ status \in {"unpaid", "incomplete_expired"}
             \/ s.status = "trialing" /\ status = "paused"
      PROVE  \E to \in Plan!StripeSub : /\ stripe' = [stripe EXCEPT ![id] = to]
                                        /\ Updated(s, to) /\ Plan!Emit(<<"updated">>, id, to)
  <2> DEFINE to == [s EXCEPT !.status = status]
  <2>1. to \in Plan!StripeSub /\ Updated(s, to)
    BY <1>3, <1>7 DEF Plan!StripeSub, Plan!StripeStatus, Plan!Status, Updated
  <2>2. stripe' = [stripe EXCEPT ![id] = to] /\ Plan!Emit(<<"updated">>, id, to)
    BY <1>7 DEF Plan!Change
  <2> HIDE DEF to
  <2> QED BY <2>1, <2>2
<1>8. ASSUME NEW p \in Tiers, Plan!Change(id, [s EXCEPT !.price = p], <<"updated">>)
      PROVE  \E to \in Plan!StripeSub : /\ stripe' = [stripe EXCEPT ![id] = to]
                                        /\ Updated(s, to) /\ Plan!Emit(<<"updated">>, id, to)
  <2> DEFINE to == [s EXCEPT !.price = p]
  <2>1. to \in Plan!StripeSub /\ Updated(s, to) BY <1>3 DEF Plan!StripeSub, Updated
  <2>2. stripe' = [stripe EXCEPT ![id] = to] /\ Plan!Emit(<<"updated">>, id, to)
    BY <1>8 DEF Plan!Change
  <2> HIDE DEF to
  <2> QED BY <2>1, <2>2
<1>9. ASSUME NEW t \in Tiers \cup {Plan!Unnamed}, Plan!Change(id, [s EXCEPT !.tier = t], <<"updated">>)
      PROVE  \E to \in Plan!StripeSub : /\ stripe' = [stripe EXCEPT ![id] = to]
                                        /\ Updated(s, to) /\ Plan!Emit(<<"updated">>, id, to)
  <2> DEFINE to == [s EXCEPT !.tier = t]
  <2>1. to \in Plan!StripeSub /\ Updated(s, to) BY <1>3 DEF Plan!StripeSub, Updated
  <2>2. stripe' = [stripe EXCEPT ![id] = to] /\ Plan!Emit(<<"updated">>, id, to)
    BY <1>9 DEF Plan!Change
  <2> HIDE DEF to
  <2> QED BY <2>1, <2>2
<1>10. CASE Plan!Change(id, [s EXCEPT !.cancel = ~@], <<"updated">>)
  <2> DEFINE to == [s EXCEPT !.cancel = ~@]
  <2>1. to \in Plan!StripeSub /\ Updated(s, to) BY <1>3 DEF Plan!StripeSub, Updated
  <2>2. stripe' = [stripe EXCEPT ![id] = to] /\ Plan!Emit(<<"updated">>, id, to)
    BY <1>10 DEF Plan!Change
  <2> HIDE DEF to
  <2> QED BY <2>1, <2>2
<1>11. CASE Plan!Change(id, [s EXCEPT !.status = "canceled"], <<"deleted">>)
  <2> DEFINE to == [s EXCEPT !.status = "canceled"]
  <2>1. to \in Plan!StripeSub /\ Left(s, to)
    BY <1>3 DEF Plan!StripeSub, Plan!StripeStatus, Plan!Status, Left, SameTerms
  <2>2. stripe' = [stripe EXCEPT ![id] = to] /\ Plan!Emit(<<"deleted">>, id, to)
    BY <1>11 DEF Plan!Change
  <2> HIDE DEF to
  <2> QED BY <2>1, <2>2
<1> QED BY <1>1, <1>3, <1>4, <1>5, <1>6, <1>7, <1>8, <1>9, <1>10, <1>11

LEMMA SubscribeForms ==
  ASSUME Plan!BillingAssumption, PlanShapes, NEW tier \in Tiers, Plan!Subscribe(tier)
  PROVE  \E s \in Plan!StripeSub :
           /\ s.status \in {"active", "trialing", "incomplete"}
           /\ s.tier = tier /\ s.price = tier /\ ~s.cancel /\ ~s.failing
           /\ Len(stripe) + 1 <= MaxSubs /\ stripe' = Append(stripe, s)
           /\ IF s.status = "incomplete"
              THEN Plan!Emit(<<"created">>, Len(stripe) + 1, s)
              ELSE Plan!Emit(<<"created", "paid">>, Len(stripe) + 1, s)
           /\ Plan!Disturb(\E i \in DOMAIN stripe : Plan!Live(i))
           /\ UNCHANGED <<row, held, customer, firmTier, handled>>
<1>1. PICK status \in {"active", "trialing", "incomplete"} :
        LET id == Len(stripe) + 1
            s == [tier |-> tier, price |-> tier, status |-> status,
                  cancel |-> FALSE, failing |-> FALSE]
        IN /\ id <= MaxSubs
           /\ stripe' = Append(stripe, s)
           /\ Plan!Emit(IF status = "incomplete" THEN <<"created">> ELSE <<"created", "paid">>, id, s)
           /\ Plan!Disturb(\E i \in DOMAIN stripe : Plan!Live(i))
           /\ UNCHANGED <<row, held, customer, firmTier, handled>>
  BY Zenon DEF Plan!Subscribe
<1> DEFINE s == [tier |-> tier, price |-> tier, status |-> status, cancel |-> FALSE,
                 failing |-> FALSE]
<1>2. /\ s \in Plan!StripeSub /\ s.status = status /\ s.tier = tier /\ s.price = tier
      /\ ~s.cancel /\ ~s.failing
  BY DEF Plan!StripeSub, Plan!StripeStatus, Plan!Status
<1>3. /\ Len(stripe) + 1 <= MaxSubs /\ stripe' = Append(stripe, s)
      /\ Plan!Emit(IF status = "incomplete" THEN <<"created">> ELSE <<"created", "paid">>,
                   Len(stripe) + 1, s)
      /\ Plan!Disturb(\E i \in DOMAIN stripe : Plan!Live(i))
      /\ UNCHANGED <<row, held, customer, firmTier, handled>>
  BY <1>1
<1> HIDE DEF s
<1>4. CASE status = "incomplete" BY <1>2, <1>3, <1>4
<1>5. CASE status # "incomplete" BY <1>2, <1>3, <1>5
<1> QED BY <1>4, <1>5

------------------------------------------------------------------------------
(* PlanInv, whatever the order of events *)

\* Events told of a subscription Stripe holds are notices.
LEMMA Telling ==
  ASSUME Plan!BillingAssumption, PlanShapes, NEW id \in 1..MaxSubs, NEW s \in Plan!StripeSub,
         \/ \E a \in {"created", "updated", "deleted", "failed"} : Plan!Emit(<<a>>, id, s)
         \/ \E a \in {"created", "paid", "failed"}, b \in {"paid", "updated"} :
              Plan!Emit(<<a, b>>, id, s)
  PROVE  emitted' \in 0..MaxNotices /\ inbox' \subseteq Plan!Notice
<1>1. emitted \in Nat /\ MaxNotices \in Nat /\ inbox \subseteq Plan!Notice
  BY PlanNumbers DEF PlanShapes
<1>2. ASSUME NEW a \in {"created", "updated", "deleted", "failed"}, Plan!Emit(<<a>>, id, s)
      PROVE  emitted' \in 0..MaxNotices /\ inbox' \subseteq Plan!Notice
  <2>1. /\ emitted' = emitted + 1 /\ emitted + 1 \in 1..MaxNotices
        /\ inbox' = inbox \cup {Told(a, id, s, emitted + 1)}
    BY <1>1, <1>2, EmitOne
  <2>2. Told(a, id, s, emitted + 1) \in Plan!Notice BY <2>1, ToldFields
  <2> QED BY <1>1, <2>1, <2>2
<1>3. ASSUME NEW a \in {"created", "paid", "failed"}, NEW b \in {"paid", "updated"},
             Plan!Emit(<<a, b>>, id, s)
      PROVE  emitted' \in 0..MaxNotices /\ inbox' \subseteq Plan!Notice
  <2>1. /\ emitted' = emitted + 2 /\ emitted + 1 \in 1..MaxNotices /\ emitted + 2 \in 1..MaxNotices
        /\ inbox' = inbox \cup {Told(a, id, s, emitted + 1), Told(b, id, s, emitted + 2)}
    BY <1>1, <1>3, EmitTwo
  <2>2. Told(a, id, s, emitted + 1) \in Plan!Notice /\ Told(b, id, s, emitted + 2) \in Plan!Notice
    BY <2>1, ToldFields
  <2> QED BY <1>1, <2>1, <2>2
<1> QED BY <1>2, <1>3

LEMMA PlanNext ==
  ASSUME Plan!BillingAssumption, PlanInv, [Plan!Next]_planVars
  PROVE  PlanInv'
<1>0. PlanShapes /\ HeldAlone /\ Plan!DunningConsistent BY DEF PlanInv
<1>1. ASSUME Plan!EnsureStripeCustomer PROVE PlanInv'
  BY <1>0, <1>1 DEF Plan!EnsureStripeCustomer, Plan!Remote, PlanInv, PlanShapes, HeldAlone,
                    Plan!DunningConsistent
<1>2. ASSUME NEW tier \in Tiers, Plan!Subscribe(tier) PROVE PlanInv'
  <2>1. PICK s \in Plan!StripeSub :
           /\ Len(stripe) + 1 <= MaxSubs /\ stripe' = Append(stripe, s)
           /\ \/ Plan!Emit(<<"created">>, Len(stripe) + 1, s)
              \/ Plan!Emit(<<"created", "paid">>, Len(stripe) + 1, s)
           /\ Plan!Disturb(\E i \in DOMAIN stripe : Plan!Live(i))
           /\ UNCHANGED <<row, held, customer, firmTier, handled>>
    <3>1. PICK s \in Plan!StripeSub :
           /\ Len(stripe) + 1 <= MaxSubs /\ stripe' = Append(stripe, s)
           /\ IF s.status = "incomplete"
              THEN Plan!Emit(<<"created">>, Len(stripe) + 1, s)
              ELSE Plan!Emit(<<"created", "paid">>, Len(stripe) + 1, s)
           /\ Plan!Disturb(\E i \in DOMAIN stripe : Plan!Live(i))
           /\ UNCHANGED <<row, held, customer, firmTier, handled>>
      BY <1>0, <1>2, SubscribeForms
    <3> QED BY <3>1
  <2>2. Len(stripe) \in Nat /\ Len(stripe) + 1 \in 1..MaxSubs
    BY <1>0, <2>1, PlanNumbers DEF PlanShapes
  <2>3. emitted' \in 0..MaxNotices /\ inbox' \subseteq Plan!Notice BY <1>0, <2>1, <2>2, Telling
  <2>4. late' \in 0..MaxDisorder BY <1>0, <2>1, Disturbing DEF PlanShapes
  <2>5. stripe' \in Seq(Plan!StripeSub) /\ Len(stripe') <= MaxSubs
    BY <1>0, <2>1 DEF PlanShapes
  <2> QED BY <1>0, <2>1, <2>3, <2>4, <2>5 DEF PlanInv, PlanShapes, HeldAlone, Plan!DunningConsistent
<1>3. ASSUME Plan!RemoteChange PROVE PlanInv'
  <2>1. /\ UNCHANGED <<row, held, customer, firmTier, handled, late>>
        /\ \E id \in DOMAIN stripe, to \in Plan!StripeSub :
              /\ stripe' = [stripe EXCEPT ![id] = to]
              /\ \/ Plan!Emit(<<"failed", "updated">>, id, to) \/ Plan!Emit(<<"failed">>, id, to)
                 \/ Plan!Emit(<<"paid", "updated">>, id, to)
                 \/ Plan!Emit(<<"updated">>, id, to) \/ Plan!Emit(<<"deleted">>, id, to)
    BY <1>0, <1>3, RemoteForms
  <2>2. PICK id \in DOMAIN stripe, to \in Plan!StripeSub :
              /\ stripe' = [stripe EXCEPT ![id] = to]
              /\ \/ Plan!Emit(<<"failed", "updated">>, id, to) \/ Plan!Emit(<<"failed">>, id, to)
                 \/ Plan!Emit(<<"paid", "updated">>, id, to)
                 \/ Plan!Emit(<<"updated">>, id, to) \/ Plan!Emit(<<"deleted">>, id, to)
    BY <2>1
  <2>3. id \in 1..MaxSubs
    <3>1. DOMAIN stripe = 1..Len(stripe) /\ Len(stripe) \in Nat /\ Len(stripe) <= MaxSubs
      BY <1>0 DEF PlanShapes
    <3> QED BY <3>1, <2>2, PlanNumbers
  <2>4. emitted' \in 0..MaxNotices /\ inbox' \subseteq Plan!Notice BY <1>0, <2>2, <2>3, Telling
  <2>5. stripe' \in Seq(Plan!StripeSub) /\ Len(stripe') = Len(stripe)
    BY <1>0, <2>2 DEF PlanShapes
  <2> QED BY <1>0, <2>1, <2>4, <2>5 DEF PlanInv, PlanShapes, HeldAlone, Plan!DunningConsistent
<1>4. ASSUME Plan!StripeWebhook PROVE PlanInv'
  <2>1. UNCHANGED <<held, customer, stripe, emitted>> BY <1>4, WebhookForms
  <2>2. PICK n \in inbox :
              /\ n \in Plan!Notice
              /\ inbox' = inbox \ {n} \/ inbox' = inbox
              /\ Plan!Disturb(~Plan!InsertFree \/ n.seq < handled \/ \E o \in inbox : o.seq < n.seq)
              /\ handled' = IF n.seq > handled THEN n.seq ELSE handled
              /\ \/ HandledWell(n) /\ (row # Plan!NoRow \/ (n.type = "created" /\ ~held))
                 \/ /\ UNCHANGED <<row, firmTier>> /\ row = Plan!NoRow
    BY <1>4, WebhookForms
  <2>3. late' \in 0..MaxDisorder BY <1>0, <2>2, Disturbing DEF PlanShapes
  <2>4. handled' \in 0..MaxNotices BY <1>0, <2>2, NoticeFields, PlanNumbers DEF PlanShapes
  <2>5. /\ row' \in Plan!Row \cup {Plan!NoRow} /\ firmTier' \in Tiers
        /\ HeldAlone' /\ Plan!DunningConsistent'
    <3>1. CASE HandledWell(n) /\ (row # Plan!NoRow \/ (n.type = "created" /\ ~held))
      BY <1>0, <2>1, <3>1 DEF HandledWell, HeldAlone, Plan!DunningConsistent
    <3>2. CASE UNCHANGED <<row, firmTier>> /\ row = Plan!NoRow
      BY <1>0, <2>1, <3>2 DEF PlanShapes, HeldAlone, Plan!DunningConsistent
    <3> QED BY <2>2, <3>1, <3>2
  <2> QED BY <1>0, <2>1, <2>2, <2>3, <2>4, <2>5 DEF PlanInv, PlanShapes
<1>5. ASSUME UNCHANGED <<customer, firmTier, stripe, inbox, emitted, handled, late>>,
             row' \in {row, Plan!DefaultRow}, held' \in BOOLEAN, held' => row' = Plan!NoRow
      PROVE  PlanInv'
  <2>1. row' \in Plan!Row \cup {Plan!NoRow} BY <1>0, <1>5, RowApart DEF PlanShapes
  <2>2. Plan!DunningConsistent'
    BY <1>0, <1>5 DEF Plan!DunningConsistent, Plan!DefaultRow
  <2> QED BY <1>0, <1>5, <2>1, <2>2 DEF PlanInv, PlanShapes, HeldAlone
<1>6. ASSUME Plan!SyncUsageCounts PROVE PlanInv'
  BY <1>0, <1>5, <1>6
     DEF Plan!SyncUsageCounts, Plan!GetOrCreate, Plan!InsertFree, Plan!Remote, HeldAlone, PlanShapes
<1>7. ASSUME Plan!GetOrCreateSubscription PROVE PlanInv'
  BY <1>0, <1>5, <1>7 DEF Plan!GetOrCreateSubscription, Plan!Remote
<1>8. ASSUME Plan!EndCreate PROVE PlanInv'
  BY <1>0, <1>5, <1>8 DEF Plan!EndCreate, Plan!Remote
<1>9. CASE UNCHANGED planVars
  BY <1>0, <1>9 DEF planVars, PlanInv, PlanShapes, HeldAlone, Plan!DunningConsistent
<1> QED BY <1>1, <1>2, <1>3, <1>4, <1>6, <1>7, <1>8, <1>9
        DEF Plan!Next, Plan!CreateCheckout, Plan!CreateCheckoutSession, Plan!CreatePortalSession,
            Plan!GetBillingOverview, Plan!GetUsage
------------------------------------------------------------------------------
(* The row in step with Stripe *)

\* The events Stripe emitted, and the view each of them leaves when they are
\* handled in the order they were emitted.
Story(told, views, e) ==
  /\ \A i \in 1..e : /\ told[i] \in Plan!Notice /\ told[i].seq = i
                     /\ views[i] = After(views[i - 1], told[i])
  /\ views[0] = View(Plan!DefaultRow, "starter")
  /\ e # 0 => told[1].type = "created"

\* The events not handled yet are all in the inbox, and nothing older than the
\* newest one handled.
Outstanding(told) ==
  /\ handled <= emitted
  /\ \A n \in inbox : n.seq \in 1..emitted /\ n.seq >= handled /\ n = told[n.seq]
  /\ \A i \in 1..emitted : i > handled => told[i] \in inbox

\* The row is the view after the newest event handled.
RowIs(views) == /\ View(Plan!GetOrCreate, firmTier) = views[handled]
                /\ handled # 0 => row # Plan!NoRow

\* A view is in step with a subscription; firm is firmTier's.
Mirrors(v, id, s) ==
  /\ v.id = id
  /\ \/ v.status = Plan!MapStripeStatus(s.status)
     \/ v.status = "past_due" /\ s.status = "incomplete" /\ s.failing
  /\ v.price = s.price /\ v.cancel = s.cancel
  /\ s.tier \in Tiers => v.tier = s.tier
  /\ s.failing => v.grace
  /\ s.status \in {"active", "trialing", "paused"} => ~v.grace
  /\ v.firm = IF s.status = "canceled" THEN "starter" ELSE v.tier

Explained(told, views) ==
  /\ Story(told, views, emitted) /\ Outstanding(told) /\ RowIs(views)
  /\ stripe # <<>> => Mirrors(views[emitted], Len(stripe), stripe[Len(stripe)])

StepInv == late = 0 =>
  /\ emitted = 0 <=> stripe = <<>>
  /\ \A i \in DOMAIN stripe : Plan!Live(i) => i = Len(stripe)
  /\ \E told, views : Explained(told, views)

\* The story goes on with one event more.
LEMMA StoryGrows ==
  ASSUME NEW told, NEW views, NEW e \in Nat, Story(told, views, e), NEW o \in Plan!Notice,
         o.seq = e + 1, e = 0 => o.type = "created"
  PROVE  \E told2, views2 :
           /\ Story(told2, views2, e + 1) /\ told2[e + 1] = o /\ views2[e + 1] = After(views[e], o)
           /\ \A i \in 1..e : told2[i] = told[i]
           /\ \A i \in 0..e : views2[i] = views[i]
<1> DEFINE told2 == [i \in 1..(e + 1) |-> IF i = e + 1 THEN o ELSE told[i]]
           views2 == [i \in 0..(e + 1) |-> IF i = e + 1 THEN After(views[e], o) ELSE views[i]]
<1>1. /\ told2[e + 1] = o /\ views2[e + 1] = After(views[e], o)
      /\ \A i \in 1..e : told2[i] = told[i]
      /\ \A i \in 0..e : views2[i] = views[i]
  OBVIOUS
<1> HIDE DEF told2, views2
<1>2. ASSUME NEW i \in 1..(e + 1)
      PROVE  told2[i] \in Plan!Notice /\ told2[i].seq = i /\ views2[i] = After(views2[i - 1], told2[i])
  <2>1. CASE i = e + 1
    <3>1. e \in 0..e /\ i - 1 = e BY <2>1
    <3> QED BY <1>1, <2>1, <3>1
  <2>2. CASE i # e + 1
    <3>1. i \in 1..e /\ i \in 0..e /\ i - 1 \in 0..e BY <2>2
    <3> QED BY <1>1, <3>1 DEF Story
  <2> QED BY <2>1, <2>2
<1>3. views2[0] = View(Plan!DefaultRow, "starter") BY <1>1 DEF Story
<1>4. told2[1].type = "created"
  <2>1. CASE e = 0 BY <1>1, <2>1
  <2>2. CASE e # 0
    <3>1. 1 \in 1..e BY <2>2
    <3> QED BY <1>1, <2>2, <3>1 DEF Story
  <2> QED BY <2>1, <2>2
<1>5. Story(told2, views2, e + 1) BY <1>2, <1>3, <1>4 DEF Story
<1> QED BY <1>1, <1>5

\* Stripe emits events that continue the story and end in its new state.
LEMMA ExplainedGrows ==
  ASSUME Plan!BillingAssumption, PlanShapes, NEW told, NEW views, Explained(told, views),
         NEW told2, NEW views2, NEW e \in Nat, e > emitted, emitted' = e,
         Story(told2, views2, e),
         \A i \in 1..emitted : told2[i] = told[i],
         \A i \in 0..emitted : views2[i] = views[i],
         inbox' = inbox \cup {told2[i] : i \in (emitted + 1)..e},
         Mirrors(views2[e], Len(stripe'), stripe'[Len(stripe')]),
         UNCHANGED <<row, firmTier, handled>>
  PROVE  Explained(told2, views2)'
<1>1. emitted \in Nat /\ handled \in Nat /\ handled <= emitted BY DEF PlanShapes, Explained, Outstanding
<1>2. ASSUME NEW n \in inbox' PROVE n.seq \in 1..e /\ n.seq >= handled /\ n = told2[n.seq]
  <2>1. CASE n \in inbox
    <3>1. n.seq \in 1..emitted /\ n.seq >= handled /\ n = told[n.seq]
      BY <2>1 DEF Explained, Outstanding
    <3> QED BY <1>1, <3>1
  <2>2. CASE n \notin inbox
    <3>1. PICK i \in (emitted + 1)..e : n = told2[i] BY <2>2
    <3>2. i \in 1..e /\ i >= handled BY <1>1
    <3>3. told2[i].seq = i BY <3>2 DEF Story
    <3> QED BY <3>1, <3>2, <3>3
  <2> QED BY <2>1, <2>2
<1>3. ASSUME NEW i \in 1..e, i > handled PROVE told2[i] \in inbox'
  <2>1. CASE i \in 1..emitted BY <1>3, <2>1 DEF Explained, Outstanding
  <2>2. CASE i \notin 1..emitted
    <3>1. i \in (emitted + 1)..e BY <1>1, <2>2
    <3> QED BY <3>1
  <2> QED BY <2>1, <2>2
<1>4. Outstanding(told2)' BY <1>1, <1>2, <1>3 DEF Outstanding
<1>5. RowIs(views2)'
  <2>1. handled \in 0..emitted BY <1>1
  <2>2. Plan!GetOrCreate' = Plan!GetOrCreate BY DEF Plan!GetOrCreate
  <2> QED BY <2>1, <2>2 DEF Explained, RowIs
<1> QED BY <1>4, <1>5 DEF Explained

LEMMA StepInit == ASSUME Plan!BillingAssumption, Plan!Init PROVE StepInv
<1>1. /\ row = Plan!NoRow /\ firmTier = "starter" /\ stripe = <<>> /\ inbox = {}
      /\ emitted = 0 /\ handled = 0
  BY DEF Plan!Init
<1> DEFINE told == <<>>
           views == [i \in {0} |-> View(Plan!DefaultRow, "starter")]
<1>2. views[0] = View(Plan!DefaultRow, "starter") OBVIOUS
<1> HIDE DEF told, views
<1>3. Story(told, views, emitted) BY <1>1, <1>2 DEF Story
<1>4. Outstanding(told) BY <1>1 DEF Outstanding
<1>5. RowIs(views) BY <1>1, <1>2 DEF RowIs, Plan!GetOrCreate
<1>6. Explained(told, views) BY <1>1, <1>3, <1>4, <1>5 DEF Explained
<1> QED BY <1>1, <1>6 DEF StepInv

\* A default row where there was none, or no change at all.
LEMMA StepStands ==
  ASSUME PlanInv, StepInv, row' = row \/ (row = Plan!NoRow /\ row' = Plan!DefaultRow),
         UNCHANGED <<firmTier, stripe, inbox, emitted, handled, late>>
  PROVE  StepInv'
<1> SUFFICES ASSUME late = 0, NEW told, NEW views, Explained(told, views)
             PROVE  Explained(told, views)'
  BY DEF StepInv, Plan!Live
<1>1. Plan!GetOrCreate' = Plan!GetOrCreate BY RowApart DEF Plan!GetOrCreate
<1>2. RowIs(views)'
  BY <1>1 DEF Explained, RowIs
<1> QED BY <1>2 DEF Explained, Outstanding

\* The event handled is the next of the story, or the last one once more.
LEMMA WebhookSteps ==
  ASSUME Plan!BillingAssumption, PlanInv, StepInv, Plan!StripeWebhook
  PROVE  StepInv'
<1> SUFFICES ASSUME late' = 0 PROVE StepInv' BY DEF StepInv
<1>1. PICK n \in inbox :
        /\ n \in Plan!Notice
        /\ inbox' = inbox \ {n} \/ inbox' = inbox
        /\ Plan!Disturb(~Plan!InsertFree \/ n.seq < handled \/ \E o \in inbox : o.seq < n.seq)
        /\ handled' = IF n.seq > handled THEN n.seq ELSE handled
        /\ \/ HandledWell(n)
           \/ /\ UNCHANGED <<row, firmTier>> /\ row = Plan!NoRow
              /\ n.type # "created" \/ ~Plan!InsertFree
  BY WebhookForms
<1>2. UNCHANGED <<stripe, emitted>> BY WebhookForms
<1>3. /\ late = 0 /\ Plan!InsertFree /\ n.seq >= handled /\ \A o \in inbox : o.seq >= n.seq
  <2>1. late \in 0..MaxDisorder /\ inbox \subseteq Plan!Notice /\ handled \in Nat
    BY DEF PlanInv, PlanShapes
  <2>2. late = 0 /\ ~(~Plan!InsertFree \/ n.seq < handled \/ \E o \in inbox : o.seq < n.seq)
    BY <1>1, <2>1, Disturbing
  <2> QED BY <2>1, <2>2, NoticeFields, PlanNumbers
<1>4. PICK told, views : Explained(told, views) BY <1>3 DEF StepInv
<1>5. /\ emitted \in Nat /\ handled \in Nat /\ handled <= emitted
      /\ n.seq \in 1..emitted /\ n = told[n.seq] /\ n.seq >= handled
  BY <1>1, <1>4 DEF PlanInv, PlanShapes, Explained, Outstanding
<1>6. /\ views[n.seq] = After(views[n.seq - 1], n)
      /\ View(Plan!GetOrCreate, firmTier) = views[handled]
  BY <1>4, <1>5 DEF Explained, Story, RowIs
<1>7. handled' = n.seq /\ (n.seq = handled \/ n.seq = handled + 1)
  <2>1. ASSUME n.seq > handled + 1 PROVE FALSE
    <3>1. handled + 1 \in 1..emitted /\ handled + 1 > handled BY <1>5, <2>1
    <3>2. told[handled + 1] \in inbox BY <1>4, <3>1 DEF Explained, Outstanding
    <3>3. told[handled + 1].seq = handled + 1 BY <1>4, <3>1 DEF Explained, Story
    <3> QED BY <1>3, <1>5, <2>1, <3>2, <3>3
  <2> QED BY <1>1, <1>5, <2>1
<1>8. HandledWell(n)
  <2>1. CASE row = Plan!NoRow
    <3>1. handled = 0 BY <1>4, <2>1 DEF Explained, RowIs
    <3>2. n.seq = 1 /\ emitted # 0 BY <1>5, <1>7, <3>1
    <3>3. n.type = "created" BY <1>4, <1>5, <3>2 DEF Explained, Story
    <3> QED BY <1>1, <1>3, <3>3
  <2>2. CASE row # Plan!NoRow BY <1>1, <2>2
  <2> QED BY <2>1, <2>2
<1>9. After(views[handled], n) = views[n.seq]
  <2>1. CASE n.seq = handled + 1
    <3>1. n.seq - 1 = handled BY <1>5, <2>1
    <3> QED BY <1>6, <3>1
  <2>2. CASE n.seq = handled BY <1>1, <1>6, <2>2, AfterTwice
  <2> QED BY <1>7, <2>1, <2>2
<1>10. RowIs(views)'
  <2>1. row' # Plan!NoRow BY <1>8, RowApart DEF HandledWell
  <2>2. Plan!GetOrCreate' = row' BY <2>1 DEF Plan!GetOrCreate
  <2> QED BY <1>6, <1>7, <1>8, <1>9, <2>1, <2>2 DEF HandledWell, RowIs
<1>11. Outstanding(told)'
  <2>1. ASSUME NEW o \in inbox' PROVE o.seq \in 1..emitted /\ o.seq >= n.seq /\ o = told[o.seq]
    <3>1. o \in inbox BY <1>1, <2>1
    <3> QED BY <1>3, <1>4, <3>1 DEF Explained, Outstanding
  <2>2. ASSUME NEW i \in 1..emitted, i > n.seq PROVE told[i] \in inbox'
    <3>1. told[i] \in inbox BY <1>4, <1>5, <2>2 DEF Explained, Outstanding
    <3>2. told[i].seq = i BY <1>4, <2>2 DEF Explained, Story
    <3>3. told[i] # n BY <1>5, <2>2, <3>2
    <3> QED BY <1>1, <3>1, <3>3
  <2>3. handled' = n.seq /\ n.seq <= emitted BY <1>5, <1>7
  <2> QED BY <1>2, <2>1, <2>2, <2>3 DEF Outstanding
<1>12. Explained(told, views)'
  BY <1>2, <1>4, <1>10, <1>11 DEF Explained
<1> QED BY <1>2, <1>3, <1>12 DEF StepInv, Plan!Live

\* What an event that tells of s makes of a view that mirrors its subscription.
LEMMA UpdatedMirrors ==
  ASSUME NEW v, NEW id, NEW n, NEW s \in Plan!StripeSub, n.type = "updated", n.id = id, v.id = id,
         n.tier = s.tier, n.price = s.price, n.status = s.status, n.cancel = s.cancel,
         s.status # "canceled", v.firm = v.tier,
         s.failing => v.grace /\ s.status # "active",
         s.status \in {"active", "trialing", "paused"} => ~v.grace
  PROVE  Mirrors(After(v, n), id, s)
<1> DEFINE grace == v.grace /\ ~(v.status = "past_due" /\ n.status = "active")
           w == AfterUpdated(v, n)
<1>1. w = [tier |-> Named(n, v.tier), price |-> n.price, status |-> Plan!MapStripeStatus(n.status),
           id |-> v.id, grace |-> grace, cancel |-> n.cancel, firm |-> Named(n, v.firm)]
  BY DEF AfterUpdated
<1>2. /\ s.failing => grace
      /\ s.status \in {"active", "trialing", "paused"} => ~grace
  OBVIOUS
<1> HIDE DEF w, grace
<1>3. /\ w.tier = Named(n, v.tier) /\ w.price = n.price /\ w.id = v.id /\ w.grace = grace
      /\ w.status = Plan!MapStripeStatus(n.status) /\ w.cancel = n.cancel /\ w.firm = w.tier
  BY <1>1
<1>4. s.tier \in Tiers => w.tier = s.tier BY <1>3 DEF Named
<1>5. Mirrors(w, id, s) BY <1>2, <1>3, <1>4 DEF Mirrors
<1>6. After(v, n) = w BY AfterForms DEF w
<1> QED BY <1>5, <1>6

\* What a changed subscription tells continues the story and ends in its state.
LEMMA RemoteSteps ==
  ASSUME Plan!BillingAssumption, PlanInv, StepInv, Plan!RemoteChange
  PROVE  StepInv'
<1>0. PlanShapes BY DEF PlanInv
<1>1. UNCHANGED <<row, firmTier, handled, late>> BY <1>0, RemoteForms
<1> SUFFICES ASSUME late = 0 PROVE StepInv' BY <1>1 DEF StepInv
<1>2. PICK id \in DOMAIN stripe, to \in Plan!StripeSub :
              /\ stripe[id] \in Plan!StripeSub /\ Plan!Live(id)
              /\ stripe' = [stripe EXCEPT ![id] = to]
              /\ \/ Refused(stripe[id], to) /\ Plan!Emit(<<"failed", "updated">>, id, to)
                 \/ FirstRefused(stripe[id], to) /\ Plan!Emit(<<"failed">>, id, to)
                 \/ Settled(stripe[id], to) /\ Plan!Emit(<<"paid", "updated">>, id, to)
                 \/ Updated(stripe[id], to) /\ Plan!Emit(<<"updated">>, id, to)
                 \/ Left(stripe[id], to) /\ Plan!Emit(<<"deleted">>, id, to)
  BY <1>0, RemoteForms
<1>3. PICK told, views : Explained(told, views) BY DEF StepInv
<1>4. /\ id = Len(stripe) /\ stripe # <<>> /\ emitted # 0
  <2>1. stripe # <<>>
    <3>1. CASE stripe = <<>>
      <4>1. DOMAIN stripe = {} BY <3>1
      <4> QED BY <4>1
    <3> QED BY <3>1
  <2> QED BY <1>2, <2>1 DEF StepInv
<1>5. /\ emitted \in Nat /\ Story(told, views, emitted) /\ id \in 1..MaxSubs
      /\ Len(stripe') = Len(stripe) /\ DOMAIN stripe' = DOMAIN stripe /\ stripe'[id] = to
      /\ \A i \in DOMAIN stripe : i # id => stripe'[i] = stripe[i]
      /\ stripe' # <<>>
  <2>1. stripe \in Seq(Plan!StripeSub) /\ Len(stripe) \in Nat /\ Len(stripe) <= MaxSubs
    BY <1>0 DEF PlanShapes
  <2>2. DOMAIN stripe' = DOMAIN stripe /\ stripe'[id] = to
    BY <1>2
  <2>3. stripe' \in Seq(Plan!StripeSub) /\ Len(stripe') = Len(stripe)
    BY <1>2, <2>1
  <2>4. stripe' # <<>>
    <3>1. Len(stripe') >= 1 BY <1>2, <1>4, <2>1, <2>3
    <3> QED BY <3>1
  <2>5. id \in 1..MaxSubs BY <1>2, <2>1, PlanNumbers
  <2> QED BY <1>0, <1>2, <1>3, <2>2, <2>3, <2>4, <2>5 DEF PlanShapes, Explained
<1> DEFINE s == stripe[id]
           v == views[emitted]
<1>6. /\ s \in Plan!StripeSub /\ s.status \notin {"canceled", "incomplete_expired"}
      /\ Mirrors(v, id, s)
  BY <1>2, <1>3, <1>4 DEF Explained, Plan!Live
<1>7. v.id = id /\ v.firm = v.tier BY <1>6 DEF Mirrors
<1>8. s = stripe[id] /\ v = views[emitted] OBVIOUS
<1> HIDE DEF s, v
<1>9. \A i \in DOMAIN stripe' : Plan!Live(i)' => i = Len(stripe')
  BY <1>4, <1>5 DEF StepInv, Plan!Live
\* one event, or two of which the second is an update
<1>10. ASSUME NEW a \in {"failed", "updated", "deleted"}, Plan!Emit(<<a>>, id, to),
              \A n \in Plan!Notice : n = Told(a, id, to, n.seq) => Mirrors(After(v, n), id, to)
       PROVE  emitted' # 0 /\ \E told2, views2 : Explained(told2, views2)'
  <2>1. /\ emitted' = emitted + 1 /\ emitted + 1 \in 1..MaxNotices
        /\ inbox' = inbox \cup {Told(a, id, to, emitted + 1)}
    BY <1>5, <1>10, EmitOne, PlanNumbers
  <2> DEFINE o == Told(a, id, to, emitted + 1)
  <2>2. o \in Plan!Notice /\ o.seq = emitted + 1 BY <1>5, <2>1, ToldFields
  <2>3. o = Told(a, id, to, o.seq) BY <2>2
  <2>4. o = Told(a, id, to, emitted + 1) OBVIOUS
  <2> HIDE DEF o
  <2>5. PICK told2, views2 :
           /\ Story(told2, views2, emitted + 1) /\ told2[emitted + 1] = o
           /\ views2[emitted + 1] = After(views[emitted], o)
           /\ \A i \in 1..emitted : told2[i] = told[i]
           /\ \A i \in 0..emitted : views2[i] = views[i]
    BY <1>4, <1>5, <2>2, StoryGrows
  <2>6. inbox' = inbox \cup {told2[i] : i \in (emitted + 1)..(emitted + 1)}
    <3>1. (emitted + 1)..(emitted + 1) = {emitted + 1} BY <1>5
    <3> QED BY <2>1, <2>4, <2>5, <3>1
  <2>7. Mirrors(views2[emitted + 1], Len(stripe'), stripe'[Len(stripe')])
    BY <1>4, <1>5, <1>8, <1>10, <2>2, <2>3, <2>5
  <2>8. Explained(told2, views2)'
    BY <1>0, <1>1, <1>3, <1>5, <2>1, <2>5, <2>6, <2>7, ExplainedGrows
  <2> QED BY <1>5, <2>1, <2>8
<1>11. ASSUME NEW a \in {"failed", "paid"}, Plan!Emit(<<a, "updated">>, id, to),
              \A n, m \in Plan!Notice :
                 n = Told(a, id, to, n.seq) /\ m = Told("updated", id, to, m.seq)
                   => Mirrors(After(After(v, n), m), id, to)
       PROVE  emitted' # 0 /\ \E told2, views2 : Explained(told2, views2)'
  <2>1. /\ emitted' = emitted + 2 /\ emitted + 1 \in 1..MaxNotices /\ emitted + 2 \in 1..MaxNotices
        /\ inbox' = inbox \cup {Told(a, id, to, emitted + 1), Told("updated", id, to, emitted + 2)}
    BY <1>5, <1>11, EmitTwo, PlanNumbers
  <2> DEFINE o == Told(a, id, to, emitted + 1)
             u == Told("updated", id, to, emitted + 2)
  <2>2. /\ o \in Plan!Notice /\ o.seq = emitted + 1 /\ u \in Plan!Notice /\ u.seq = emitted + 2
    BY <1>5, <2>1, ToldFields
  <2>3. o = Told(a, id, to, o.seq) /\ u = Told("updated", id, to, u.seq) BY <2>2
  <2>4. o = Told(a, id, to, emitted + 1) /\ u = Told("updated", id, to, emitted + 2) OBVIOUS
  <2> HIDE DEF o, u
  <2>5. PICK told1, views1 :
           /\ Story(told1, views1, emitted + 1) /\ told1[emitted + 1] = o
           /\ views1[emitted + 1] = After(views[emitted], o)
           /\ \A i \in 1..emitted : told1[i] = told[i]
           /\ \A i \in 0..emitted : views1[i] = views[i]
    BY <1>4, <1>5, <2>2, StoryGrows
  <2>6. emitted + 1 \in Nat /\ emitted + 1 + 1 = emitted + 2 /\ emitted + 1 # 0 BY <1>5
  <2>7. PICK told2, views2 :
           /\ Story(told2, views2, emitted + 2) /\ told2[emitted + 2] = u
           /\ views2[emitted + 2] = After(views1[emitted + 1], u)
           /\ \A i \in 1..(emitted + 1) : told2[i] = told1[i]
           /\ \A i \in 0..(emitted + 1) : views2[i] = views1[i]
    <3>1. u.seq = emitted + 1 + 1 BY <2>2, <2>6
    <3>2. \E told2, views2 :
           /\ Story(told2, views2, emitted + 1 + 1) /\ told2[emitted + 1 + 1] = u
           /\ views2[emitted + 1 + 1] = After(views1[emitted + 1], u)
           /\ \A i \in 1..(emitted + 1) : told2[i] = told1[i]
           /\ \A i \in 0..(emitted + 1) : views2[i] = views1[i]
      BY <2>2, <2>5, <2>6, <3>1, StoryGrows
    <3> QED BY <2>6, <3>2
  <2>8. /\ \A i \in 1..emitted : told2[i] = told[i]
        /\ \A i \in 0..emitted : views2[i] = views[i]
        /\ told2[emitted + 1] = o
    BY <1>5, <2>5, <2>7
  <2>9. inbox' = inbox \cup {told2[i] : i \in (emitted + 1)..(emitted + 2)}
    <3>1. (emitted + 1)..(emitted + 2) = {emitted + 1, emitted + 2} BY <1>5
    <3> QED BY <2>1, <2>4, <2>7, <2>8, <3>1
  <2>10. Mirrors(views2[emitted + 2], Len(stripe'), stripe'[Len(stripe')])
    BY <1>4, <1>5, <1>8, <1>11, <2>2, <2>3, <2>5, <2>7
  <2>11. emitted + 2 \in Nat /\ emitted + 2 > emitted BY <1>5
  <2>12. Explained(told2, views2)'
    BY <1>0, <1>1, <1>3, <1>5, <2>1, <2>7, <2>8, <2>9, <2>10, <2>11, ExplainedGrows
  <2> QED BY <1>5, <2>1, <2>12
<1>12. ASSUME NEW a, NEW n, n = Told(a, id, to, n.seq)
       PROVE  /\ n.type = a /\ n.id = id /\ n.tier = to.tier /\ n.price = to.price
              /\ n.status = to.status /\ n.cancel = to.cancel
  BY <1>12 DEF Told
<1>13. ASSUME emitted' # 0 /\ \E told2, views2 : Explained(told2, views2)' PROVE StepInv'
  BY <1>5, <1>9, <1>13 DEF StepInv
<1>14. CASE Refused(s, to) /\ Plan!Emit(<<"failed", "updated">>, id, to)
  <2>1. ASSUME NEW n \in Plan!Notice, NEW m \in Plan!Notice,
               n = Told("failed", id, to, n.seq), m = Told("updated", id, to, m.seq)
        PROVE  Mirrors(After(After(v, n), m), id, to)
    <3>1. After(v, n) = AfterFailed(v) BY <1>12, <2>1, AfterForms
    <3>2. /\ AfterFailed(v).id = id /\ AfterFailed(v).firm = AfterFailed(v).tier
          /\ AfterFailed(v).grace
      BY <1>7 DEF AfterFailed
    <3> QED BY <1>12, <1>14, <2>1, <3>1, <3>2, UpdatedMirrors DEF Refused
  <2> QED BY <1>11, <1>13, <1>14, <2>1
<1>15. CASE FirstRefused(s, to) /\ Plan!Emit(<<"failed">>, id, to)
  <2>1. ASSUME NEW n \in Plan!Notice, n = Told("failed", id, to, n.seq)
        PROVE  Mirrors(After(v, n), id, to)
    <3>1. After(v, n) = AfterFailed(v) BY <1>12, <2>1, AfterForms
    <3>2. /\ AfterFailed(v).id = v.id /\ AfterFailed(v).firm = v.firm /\ AfterFailed(v).tier = v.tier
          /\ AfterFailed(v).grace = TRUE /\ AfterFailed(v).status = "past_due"
          /\ AfterFailed(v).price = v.price /\ AfterFailed(v).cancel = v.cancel
      BY DEF AfterFailed
    <3> QED BY <1>6, <1>15, <3>1, <3>2 DEF FirstRefused, SameTerms, Mirrors
  <2> QED BY <1>10, <1>13, <1>15, <2>1
<1>16. CASE Settled(s, to) /\ Plan!Emit(<<"paid", "updated">>, id, to)
  <2>1. ASSUME NEW n \in Plan!Notice, NEW m \in Plan!Notice,
               n = Told("paid", id, to, n.seq), m = Told("updated", id, to, m.seq)
        PROVE  Mirrors(After(After(v, n), m), id, to)
    <3>1. After(v, n) = AfterPaid(v) BY <1>12, <2>1, AfterForms
    <3>2. /\ AfterPaid(v).id = id /\ AfterPaid(v).firm = AfterPaid(v).tier
          /\ ~AfterPaid(v).grace
      BY <1>7 DEF AfterPaid
    <3> QED BY <1>12, <1>16, <2>1, <3>1, <3>2, UpdatedMirrors DEF Settled
  <2> QED BY <1>11, <1>13, <1>16, <2>1
<1>17. CASE Updated(s, to) /\ Plan!Emit(<<"updated">>, id, to)
  <2>1. ASSUME NEW n \in Plan!Notice, n = Told("updated", id, to, n.seq)
        PROVE  Mirrors(After(v, n), id, to)
    <3>1. to.status # "canceled" /\ to.failing = s.failing BY <1>6, <1>17 DEF Updated
    <3>2. to.failing => v.grace /\ to.status # "active"
      BY <1>6, <1>17, <3>1 DEF Mirrors, Updated
    <3>3. to.status \in {"active", "trialing", "paused"} => ~v.grace
      BY <1>6, <1>17 DEF Mirrors, Updated
    <3> QED BY <1>7, <1>12, <2>1, <3>1, <3>2, <3>3, UpdatedMirrors
  <2> QED BY <1>10, <1>13, <1>17, <2>1
<1>18. CASE Left(s, to) /\ Plan!Emit(<<"deleted">>, id, to)
  <2>1. ASSUME NEW n \in Plan!Notice, n = Told("deleted", id, to, n.seq)
        PROVE  Mirrors(After(v, n), id, to)
    <3>1. After(v, n) = AfterDeleted(v, n) BY <1>12, <2>1, AfterForms
    <3>2. AfterDeleted(v, n) =
            [tier |-> v.tier, price |-> v.price, status |-> "canceled", id |-> v.id,
             grace |-> v.grace, cancel |-> v.cancel, firm |-> "starter"]
      BY <1>7, <1>12, <2>1 DEF AfterDeleted
    <3> DEFINE w == AfterDeleted(v, n)
    <3> HIDE DEF w
    <3>3. /\ w.id = v.id /\ w.firm = "starter" /\ w.tier = v.tier /\ w.grace = v.grace
          /\ w.status = "canceled" /\ w.price = v.price /\ w.cancel = v.cancel
      BY <3>2 DEF w
    <3>4. Mirrors(w, id, to)
      BY <1>6, <1>18, <3>3 DEF Left, SameTerms, Mirrors, Plan!MapStripeStatus
    <3> QED BY <3>1, <3>4 DEF w
  <2> QED BY <1>10, <1>13, <1>18, <2>1
<1> QED BY <1>2, <1>8, <1>14, <1>15, <1>16, <1>17, <1>18

\* A new subscription tells of itself, and of its payment unless that is open.
LEMMA SubscribeSteps ==
  ASSUME Plan!BillingAssumption, PlanInv, StepInv, NEW tier \in Tiers, Plan!Subscribe(tier)
  PROVE  StepInv'
<1>0. PlanShapes BY DEF PlanInv
<1>1. PICK s \in Plan!StripeSub :
           /\ s.status \in {"active", "trialing", "incomplete"}
           /\ s.tier = tier /\ s.price = tier /\ ~s.cancel /\ ~s.failing
           /\ Len(stripe) + 1 <= MaxSubs /\ stripe' = Append(stripe, s)
           /\ IF s.status = "incomplete"
              THEN Plan!Emit(<<"created">>, Len(stripe) + 1, s)
              ELSE Plan!Emit(<<"created", "paid">>, Len(stripe) + 1, s)
           /\ Plan!Disturb(\E i \in DOMAIN stripe : Plan!Live(i))
           /\ UNCHANGED <<row, held, customer, firmTier, handled>>
  BY <1>0, SubscribeForms
<1> SUFFICES ASSUME late' = 0 PROVE StepInv' BY DEF StepInv
<1>2. late = 0 /\ \A i \in DOMAIN stripe : ~Plan!Live(i)
  <2>1. late \in 0..MaxDisorder /\ (\E i \in DOMAIN stripe : Plan!Live(i)) \in BOOLEAN
    BY <1>0 DEF PlanShapes
  <2> QED BY <1>1, <2>1, Disturbing
<1>3. PICK told, views : Explained(told, views) BY <1>2 DEF StepInv
<1> DEFINE id == Len(stripe) + 1
           v == views[emitted]
<1>4. /\ emitted \in Nat /\ Story(told, views, emitted) /\ id \in 1..MaxSubs
      /\ Len(stripe') = id /\ stripe'[id] = s /\ stripe' # <<>> /\ DOMAIN stripe' = 1..id
      /\ \A i \in DOMAIN stripe : stripe'[i] = stripe[i]
      /\ \A i \in 1..id : i = id \/ i \in DOMAIN stripe
  <2>1. stripe \in Seq(Plan!StripeSub) /\ Len(stripe) \in Nat BY <1>0 DEF PlanShapes
  <2>2. stripe' = Append(stripe, s) /\ Len(stripe') = Len(stripe) + 1 BY <1>1, <2>1
  <2>3. stripe' # <<>> BY <2>1, <2>2
  <2> QED BY <1>0, <1>1, <1>3, <2>1, <2>2, <2>3 DEF PlanShapes, Explained
<1>5. /\ UNCHANGED <<row, firmTier, handled>>
      /\ s.status = "incomplete" => Plan!Emit(<<"created">>, id, s)
      /\ s.status # "incomplete" => Plan!Emit(<<"created", "paid">>, id, s)
  BY <1>1
<1>6. v = views[emitted] OBVIOUS
<1> HIDE DEF id, v
<1>7. \A i \in DOMAIN stripe' : Plan!Live(i)' => i = Len(stripe')
  BY <1>2, <1>4 DEF Plan!Live
<1>8. ASSUME emitted' # 0 /\ \E told2, views2 : Explained(told2, views2)' PROVE StepInv'
  BY <1>4, <1>7, <1>8 DEF StepInv
<1>9. ASSUME NEW n, n = Told("created", id, s, n.seq)
      PROVE  LET w == After(v, n) IN
             /\ w.tier = s.tier /\ w.price = s.price /\ w.status = s.status /\ w.id = id
             /\ w.grace = v.grace /\ w.cancel = s.cancel /\ w.firm = s.tier
  <2>1. /\ n.type = "created" /\ n.id = id /\ n.tier = s.tier /\ n.price = s.price
        /\ n.status = s.status /\ n.cancel = s.cancel
    BY <1>9 DEF Told
  <2>2. After(v, n) = AfterCreated(v, n) BY <2>1, AfterForms
  <2>3. Named(n, "starter") = s.tier BY <1>1, <2>1 DEF Named
  <2>4. Plan!MapStripeStatus(n.status) = s.status BY <1>1, <2>1 DEF Plan!MapStripeStatus
  <2> QED BY <2>1, <2>2, <2>3, <2>4 DEF AfterCreated
<1>10. ASSUME NEW n, NEW m, n = Told("created", id, s, n.seq), m = Told("paid", id, s, m.seq)
       PROVE  Mirrors(After(After(v, n), m), id, s)
  <2> DEFINE w == After(v, n)
  <2>1. /\ w.tier = s.tier /\ w.price = s.price /\ w.status = s.status /\ w.id = id
        /\ w.cancel = s.cancel /\ w.firm = s.tier
    BY <1>9, <1>10
  <2>2. After(w, m) = AfterPaid(w)
    <3>1. m.type = "paid" BY <1>10 DEF Told
    <3> QED BY <3>1, AfterForms
  <2> HIDE DEF w
  <2> DEFINE x == AfterPaid(w)
  <2>3. /\ x.tier = w.tier /\ x.price = w.price /\ x.id = w.id /\ x.cancel = w.cancel
        /\ x.firm = w.firm /\ x.grace = FALSE
        /\ x.status = IF w.status = "past_due" THEN "active" ELSE w.status
    BY DEF AfterPaid
  <2> HIDE DEF x
  <2>4. x.status = Plan!MapStripeStatus(s.status)
    BY <1>1, <2>1, <2>3 DEF Plan!MapStripeStatus
  <2>5. Mirrors(x, id, s) BY <1>1, <2>1, <2>3, <2>4 DEF Mirrors
  <2> QED BY <2>2, <2>5 DEF w, x
<1>11. CASE s.status = "incomplete"
  <2>1. /\ emitted' = emitted + 1 /\ emitted + 1 \in 1..MaxNotices
        /\ inbox' = inbox \cup {Told("created", id, s, emitted + 1)}
    BY <1>4, <1>5, <1>11, EmitOne, PlanNumbers
  <2> DEFINE o == Told("created", id, s, emitted + 1)
  <2>2. o \in Plan!Notice /\ o.seq = emitted + 1 /\ o.type = "created" BY <1>4, <2>1, ToldFields
  <2>3. o = Told("created", id, s, o.seq) BY <2>2
  <2>4. o = Told("created", id, s, emitted + 1) OBVIOUS
  <2> HIDE DEF o
  <2>5. PICK told2, views2 :
           /\ Story(told2, views2, emitted + 1) /\ told2[emitted + 1] = o
           /\ views2[emitted + 1] = After(views[emitted], o)
           /\ \A i \in 1..emitted : told2[i] = told[i]
           /\ \A i \in 0..emitted : views2[i] = views[i]
    BY <1>4, <2>2, StoryGrows
  <2>6. inbox' = inbox \cup {told2[i] : i \in (emitted + 1)..(emitted + 1)}
    <3>1. (emitted + 1)..(emitted + 1) = {emitted + 1} BY <1>4
    <3> QED BY <2>1, <2>4, <2>5, <3>1
  <2>7. Mirrors(views2[emitted + 1], Len(stripe'), stripe'[Len(stripe')])
    <3> DEFINE w == After(v, o)
    <3>1. /\ w.tier = s.tier /\ w.price = s.price /\ w.status = s.status /\ w.id = id
          /\ w.cancel = s.cancel /\ w.firm = s.tier
      BY <1>9, <2>3
    <3>2. views2[emitted + 1] = w BY <1>6, <2>5
    <3> HIDE DEF w
    <3>3. Mirrors(w, id, s) BY <1>1, <1>11, <3>1 DEF Mirrors, Plan!MapStripeStatus
    <3> QED BY <1>4, <3>2, <3>3
  <2>8. Explained(told2, views2)'
    BY <1>0, <1>3, <1>4, <1>5, <2>1, <2>5, <2>6, <2>7, ExplainedGrows
  <2> QED BY <1>4, <1>8, <2>1, <2>8
<1>12. CASE s.status # "incomplete"
  <2>1. /\ emitted' = emitted + 2 /\ emitted + 1 \in 1..MaxNotices /\ emitted + 2 \in 1..MaxNotices
        /\ inbox' = inbox \cup {Told("created", id, s, emitted + 1), Told("paid", id, s, emitted + 2)}
    BY <1>4, <1>5, <1>12, EmitTwo, PlanNumbers
  <2> DEFINE o == Told("created", id, s, emitted + 1)
             u == Told("paid", id, s, emitted + 2)
  <2>2. /\ o \in Plan!Notice /\ o.seq = emitted + 1 /\ o.type = "created"
        /\ u \in Plan!Notice /\ u.seq = emitted + 2
    BY <1>4, <2>1, ToldFields
  <2>3. o = Told("created", id, s, o.seq) /\ u = Told("paid", id, s, u.seq) BY <2>2
  <2>4. o = Told("created", id, s, emitted + 1) /\ u = Told("paid", id, s, emitted + 2) OBVIOUS
  <2> HIDE DEF o, u
  <2>5. PICK told1, views1 :
           /\ Story(told1, views1, emitted + 1) /\ told1[emitted + 1] = o
           /\ views1[emitted + 1] = After(views[emitted], o)
           /\ \A i \in 1..emitted : told1[i] = told[i]
           /\ \A i \in 0..emitted : views1[i] = views[i]
    BY <1>4, <2>2, StoryGrows
  <2>6. emitted + 1 \in Nat /\ emitted + 1 + 1 = emitted + 2 /\ emitted + 1 # 0 BY <1>4
  <2>7. PICK told2, views2 :
           /\ Story(told2, views2, emitted + 2) /\ told2[emitted + 2] = u
           /\ views2[emitted + 2] = After(views1[emitted + 1], u)
           /\ \A i \in 1..(emitted + 1) : told2[i] = told1[i]
           /\ \A i \in 0..(emitted + 1) : views2[i] = views1[i]
    <3>1. u.seq = emitted + 1 + 1 BY <2>2, <2>6
    <3>2. \E told2, views2 :
           /\ Story(told2, views2, emitted + 1 + 1) /\ told2[emitted + 1 + 1] = u
           /\ views2[emitted + 1 + 1] = After(views1[emitted + 1], u)
           /\ \A i \in 1..(emitted + 1) : told2[i] = told1[i]
           /\ \A i \in 0..(emitted + 1) : views2[i] = views1[i]
      BY <2>2, <2>5, <2>6, <3>1, StoryGrows
    <3> QED BY <2>6, <3>2
  <2>8. /\ \A i \in 1..emitted : told2[i] = told[i]
        /\ \A i \in 0..emitted : views2[i] = views[i]
        /\ told2[emitted + 1] = o
    BY <1>4, <2>5, <2>7
  <2>9. inbox' = inbox \cup {told2[i] : i \in (emitted + 1)..(emitted + 2)}
    <3>1. (emitted + 1)..(emitted + 2) = {emitted + 1, emitted + 2} BY <1>4
    <3> QED BY <2>1, <2>4, <2>7, <2>8, <3>1
  <2>10. Mirrors(views2[emitted + 2], Len(stripe'), stripe'[Len(stripe')])
    BY <1>4, <1>6, <1>10, <2>3, <2>5, <2>7
  <2>11. emitted + 2 \in Nat /\ emitted + 2 > emitted BY <1>4
  <2>12. Explained(told2, views2)'
    BY <1>0, <1>3, <1>4, <1>5, <2>1, <2>7, <2>8, <2>9, <2>10, <2>11, ExplainedGrows
  <2> QED BY <1>4, <1>8, <2>1, <2>12
<1> QED BY <1>11, <1>12

LEMMA StepNext ==
  ASSUME Plan!BillingAssumption, PlanInv, StepInv, [Plan!Next]_planVars
  PROVE  StepInv'
<1>1. ASSUME Plan!SyncUsageCounts PROVE StepInv'
  BY <1>1, StepStands DEF Plan!SyncUsageCounts, Plan!GetOrCreate, Plan!Remote
<1>2. ASSUME Plan!EndCreate PROVE StepInv'
  BY <1>2, StepStands DEF Plan!EndCreate, Plan!Remote, PlanInv, HeldAlone
<1>3. ASSUME Plan!GetOrCreateSubscription \/ Plan!EnsureStripeCustomer \/ UNCHANGED planVars
      PROVE  StepInv'
  BY <1>3, StepStands
     DEF Plan!GetOrCreateSubscription, Plan!EnsureStripeCustomer, Plan!Remote, planVars
<1> QED BY <1>1, <1>2, <1>3, SubscribeSteps, RemoteSteps, WebhookSteps
        DEF Plan!Next, Plan!CreateCheckout, Plan!CreateCheckoutSession, Plan!CreatePortalSession,
            Plan!GetBillingOverview, Plan!GetUsage

LEMMA StepImplies == ASSUME PlanInv, StepInv PROVE Plan!InStep
<1> SUFFICES ASSUME late = 0, inbox = {}, stripe # <<>>
             PROVE  LET s == stripe[Len(stripe)] IN
                    /\ row # Plan!NoRow /\ row.id = Len(stripe)
                    /\ \/ row.status = Plan!MapStripeStatus(s.status)
                       \/ row.status = "past_due" /\ s.status = "incomplete" /\ s.failing
                    /\ row.price = s.price /\ row.cancel = s.cancel
                    /\ s.tier \in Tiers => row.tier = s.tier
                    /\ s.failing => row.grace
                    /\ s.status \in {"active", "trialing", "paused"} => ~row.grace
                    /\ firmTier = IF s.status = "canceled" THEN "starter" ELSE row.tier
  BY DEF Plan!InStep
<1>1. PICK told, views : Explained(told, views) BY DEF StepInv
<1>2. emitted \in Nat /\ handled \in Nat /\ emitted # 0 BY DEF PlanInv, PlanShapes, StepInv
<1>3. handled = emitted
  <2>1. handled <= emitted BY <1>1 DEF Explained, Outstanding
  <2>2. ~(handled < emitted)
    <3>1. emitted \in 1..emitted BY <1>2
    <3> QED BY <1>1, <3>1 DEF Explained, Outstanding
  <2> QED BY <1>2, <2>1, <2>2
<1>4. row # Plan!NoRow /\ View(row, firmTier) = views[emitted]
  BY <1>1, <1>2, <1>3 DEF Explained, RowIs, Plan!GetOrCreate
<1>5. Mirrors(View(row, firmTier), Len(stripe), stripe[Len(stripe)]) BY <1>1, <1>4 DEF Explained
<1> QED BY <1>4, <1>5 DEF Mirrors, View

------------------------------------------------------------------------------
(* The theorem *)

LEMMA PlanSteps ==
  /\ FirmInit => PlanInv /\ StepInv
  /\ PlanInv /\ StepInv /\ [FirmNext]_allVars => PlanInv' /\ StepInv'
<1>1. ASSUME FirmInit PROVE PlanInv /\ StepInv
  BY <1>1, PlanInit, StepInit, ComponentsAssumption DEF FirmInit
<1>2. ASSUME PlanInv, StepInv, [FirmNext]_allVars PROVE PlanInv' /\ StepInv'
  <2>1. [Plan!Next]_planVars BY <1>2 DEF FirmNext, allVars
  <2> QED BY <1>2, <2>1, PlanNext, StepNext, ComponentsAssumption
<1> QED BY <1>1, <1>2

LEMMA PlanInvariant == FirmSpec => [](PlanInv /\ StepInv)
  BY PlanSteps, PTL DEF FirmSpec

\* When every event was handled in the order Stripe emitted it and one
\* subscription was live at a time, the row is in step with Stripe as soon as
\* no event is outstanding: status, price, the tier the metadata names, the
\* grace period and the firm's tier.  A grace period never runs without a
\* counted failure, nor the other way round, in any order of events.
THEOREM PlanFollowsStripe == FirmSpec => []PlanInStep
<1>1. PlanInv /\ StepInv => PlanInStep
  <2>1. PlanInv => Plan!DunningConsistent BY DEF PlanInv
  <2> QED BY <2>1, StepImplies DEF PlanInStep
<1> QED BY <1>1, PlanInvariant, PTL
=============================================================================
