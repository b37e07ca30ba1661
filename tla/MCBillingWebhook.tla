-------------------------- MODULE MCBillingWebhook ---------------------------
(* Small instances of BillingWebhook for TLC. *)
EXTENDS BillingWebhook, TLC

CONSTANTS e1, e2, e3, e4, e5, e6, e7, w1, w2, b1

Event(kind, at, status, plan, linked) ==
    [kind |-> kind, occurredAt |-> at, subscription |-> b1, status |-> status,
     plan |-> plan, linked |-> linked]

\* A purchase, an update at a price that is not listed, a draft, and a payment
\* with its refund.
PurchaseAndPayment ==
    [e \in Events |->
        CASE e = e1 -> Event("subscription", 1, "active", "pro", TRUE)
          [] e = e2 -> Event("subscription", 2, "active", Unresolved, FALSE)
          [] e = e4 -> Event("transaction", 2, "paid", "free", TRUE)
          [] e = e5 -> Event("adjustment", 3, "refund", "free", FALSE)
          [] e = e7 -> Event("transaction", 1, "draft", "free", FALSE)]

\* A customer, a draft, a payment and its refund.
Payments ==
    e1 :> Event("transaction", 2, "paid", "free", TRUE) @@
    e2 :> Event("adjustment", 3, "refund", "free", FALSE) @@
    e6 :> Event("customer", 1, "created", "free", FALSE) @@
    e7 :> Event("transaction", 1, "draft", "free", FALSE)

\* The life of a subscription: trial, upgrade, a failed payment, and the end;
\* an event of a status nobody knows, the customer's own and a draft.
Lifecycle ==
    e1 :> Event("subscription", 1, "trialing", "pro", TRUE) @@
    e2 :> Event("subscription", 2, "active", "agency", TRUE) @@
    e3 :> Event("subscription", 3, "past_due", Unresolved, TRUE) @@
    e4 :> Event("subscription", 4, "unmapped", "agency", TRUE) @@
    e5 :> Event("subscription", 5, "paused", "agency", TRUE) @@
    e6 :> Event("customer", 1, "created", "free", FALSE) @@
    e7 :> Event("transaction", 1, "draft", "free", FALSE)

Upgrade ==
    e1 :> Event("subscription", 1, "active", "pro", TRUE) @@
    e2 :> Event("subscription", 2, "active", "agency", TRUE)

Symmetry == Permutations(Workers)
=============================================================================
