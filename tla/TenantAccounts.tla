--------------------------- MODULE TenantAccounts ---------------------------
(***************************************************************************)
(* The record of one tenant and those who change it: Stripe's webhooks     *)
(* (cmd/relay/stripe_webhook.go, pkg/billing/stripe_handlers.go), the      *)
(* reconciler (pkg/billing/reconciler.go), the checkout handler and the    *)
(* administrator.  All but the administrator read the record, decide, and  *)
(* write all of it back (UpdateTenant): each of them is a session.         *)
(* Stripe delivers an event at least once, in any order.                   *)
(***************************************************************************)
EXTENDS Naturals, Sequences

CONSTANTS
    PaidPlan,         \* plans that have a price
    MaxStripeEvents   \* bound: events Stripe sends

ASSUME AccountAssumption == MaxStripeEvents \in Nat

Billing == {"incomplete", "active", "past_due", "canceled"}
Record == [status : {"active", "suspended"}, billing : Billing,
           plan : PaidPlan \cup {"free"}, sub : BOOLEAN, customer : {"", "made", "paying"}]
StripeEvent == [type : {"checkout", "updated", "deleted", "payment_failed"},
                status : Billing, plan : PaidPlan]

Hook == 1 .. MaxStripeEvents
Reconciler == MaxStripeEvents + 1
Checkout == MaxStripeEvents + 2
Session == Hook \cup {Reconciler, Checkout}

VARIABLES
    tenant,      \* the row of the tenants table
    stripe,      \* the subscription as Stripe knows it
    sent,        \* the events Stripe has sent, in order
    processed,   \* stripe_events_processed
    session,     \* Session -> where it is, its copy of the record, what it fetched
    suspended,   \* the administrator has suspended the tenant
    stale,       \* sessions whose copy is older than the record
    overwrote,   \* a session has written a record older than the row
    disordered,  \* events were handled in another order than sent
    failed       \* an event was marked but its handler did not complete

accountVars == <<tenant, stripe, sent, processed, session, suspended, stale,
                 overwrote, disordered, failed>>
stripeSide == <<stripe, sent>>
observed == <<disordered, failed>>

NewTenant == [status |-> "active", billing |-> "active", plan |-> "free",
              sub |-> FALSE, customer |-> ""]

Away == [at |-> "out", copy |-> NewTenant, seen |-> ""]

\* A free tenant, or one that has signed up for a paid plan and not paid.
AccountInit ==
    /\ \/ tenant = NewTenant
       \/ \E p \in PaidPlan : tenant = [NewTenant EXCEPT !.billing = "incomplete", !.plan = p]
    /\ stripe = [status |-> "none", plan |-> "none"]
    /\ sent = <<>> /\ processed = {}
    /\ session = [s \in Session |-> Away]
    /\ suspended = FALSE /\ stale = {}
    /\ overwrote = FALSE /\ disordered = FALSE /\ failed = FALSE

(***************************************************************************)
(* Stripe                                                                  *)
(***************************************************************************)

Announce(status, plan, type) ==
    /\ Len(sent) < MaxStripeEvents
    /\ stripe' = [status |-> status, plan |-> plan]
    /\ sent' = Append(sent, [type |-> type, status |-> status, plan |-> plan])
    /\ UNCHANGED <<tenant, processed, session, suspended, stale, overwrote, observed>>

\* The subscription starts, changes plan, is not paid, is still not paid, is paid
\* again, or ends.
StripeMoves ==
    \/ stripe.status = "none" /\ \E p \in PaidPlan : Announce("active", p, "checkout")
    \/ /\ stripe.status = "active"
       /\ \/ \E p \in PaidPlan \ {stripe.plan} : Announce("active", p, "updated")
          \/ Announce("past_due", stripe.plan, "payment_failed")
    \/ /\ stripe.status = "past_due"
       /\ \E status \in {"past_due", "active"} : Announce(status, stripe.plan, "updated")
    \/ /\ stripe.status \in {"active", "past_due"}
       /\ Announce("canceled", stripe.plan, "deleted")

(***************************************************************************)
(* Sessions                                                                *)
(***************************************************************************)

Read(s) ==
    /\ session' = [session EXCEPT ![s].at = "read", ![s].copy = tenant]
    /\ stale' = stale \ {s}
    /\ UNCHANGED <<tenant, stripeSide, processed, suspended, overwrote, observed>>

Leave(s) ==
    /\ session' = [session EXCEPT ![s] = [Away EXCEPT !.at = IF s \in Hook THEN "done" ELSE "out"]]
    /\ stale' = stale \ {s}
    /\ UNCHANGED <<stripeSide, processed, suspended>>

\* UpdateTenant writes every column of the record.
UpdateTenant(s, record) ==
    /\ tenant' = record
    /\ session' = [session EXCEPT ![s] = [Away EXCEPT !.at = IF s \in Hook THEN "done" ELSE "out"]]
    /\ stale' = {z \in Session \ {s} : session[z].at \in {"read", "fetched"}}
    /\ overwrote' = (overwrote \/ s \in stale)
    /\ UNCHANGED <<stripeSide, processed, suspended>>

\* SuspendTenant writes the status only.
SuspendTenant ==
    /\ ~suspended /\ suspended' = TRUE
    /\ tenant' = [tenant EXCEPT !.status = "suspended"]
    /\ stale' = {z \in Session : session[z].at \in {"read", "fetched"}}
    /\ UNCHANGED <<stripeSide, processed, session, overwrote, observed>>

(***************************************************************************)
(* Webhooks                                                                *)
(***************************************************************************)

\* Events are handled one after the other, in the order they were sent.
InTurn(e) == processed = 1 .. e - 1 /\ \A d \in processed : session[d].at = "done"

\* Mutant of MarkStripeEventProcessed: an event that comes again is handled again.
MarkAgain(e) ==
    /\ session[e].at \in {"out", "done"}
    /\ processed' = processed \cup {e}
    /\ session' = [session EXCEPT ![e] = [Away EXCEPT !.at = "marked"]]
    /\ disordered' = (disordered \/ (e \notin processed /\ ~InTurn(e)))
    /\ UNCHANGED <<tenant, stripeSide, suspended, stale, overwrote, failed>>

\* MarkStripeEventProcessed: an event that is already in the table is skipped.
MarkStripeEventProcessed(e) ==
    /\ e \notin processed
    /\ processed' = processed \cup {e}
    /\ session' = [session EXCEPT ![e] = [Away EXCEPT !.at = "marked"]]
    /\ disordered' = (disordered \/ ~InTurn(e))
    /\ UNCHANGED <<tenant, stripeSide, suspended, stale, overwrote, failed>>

\* checkout finds the tenant by its ID, the others by what checkout stored.
Known(e) ==
    \/ sent[e].type = "checkout"
    \/ sent[e].type \in {"updated", "deleted"} /\ tenant.sub
    \/ sent[e].type = "payment_failed" /\ tenant.customer = "paying"

\* The handler looks the tenant up; an event of an unknown one is skipped.
FindTenant(e) ==
    /\ session[e].at = "marked"
    /\ \/ Known(e) /\ Read(e)
       \/ /\ ~Known(e) /\ Leave(e)
          /\ UNCHANGED <<tenant, overwrote, observed>>

\* What the four handlers make of a record.
handleCheckoutCompleted(r) == [r EXCEPT !.customer = "paying", !.sub = TRUE, !.billing = "active"]
handleSubscriptionUpdated(r, e) == [r EXCEPT !.plan = e.plan, !.billing = e.status]
handleSubscriptionDeleted(r) == [r EXCEPT !.plan = "free", !.billing = "canceled", !.sub = FALSE]
handleInvoicePaymentFailed(r) == [r EXCEPT !.billing = "past_due"]

HandleStripeEvent(e) ==
    /\ session[e].at = "read"
    /\ LET ev == sent[e]
           r == session[e].copy
       IN  \/ ev.type = "checkout" /\ UpdateTenant(e, handleCheckoutCompleted(r))
           \/ ev.type = "updated" /\ UpdateTenant(e, handleSubscriptionUpdated(r, ev))
           \/ ev.type = "deleted" /\ UpdateTenant(e, handleSubscriptionDeleted(r))
           \/ ev.type = "payment_failed" /\ UpdateTenant(e, handleInvoicePaymentFailed(r))
    /\ UNCHANGED observed

\* The store or Stripe fails, or the relay ends: the reconciler comes again, the
\* checkout is refused, a webhook that failed is answered with 200 and one that was
\* cut off is in the table, so that neither is repeated.
SessionFails(s) ==
    /\ session[s].at \in {"marked", "read", "fetched"} /\ Leave(s)
    /\ failed' = (failed \/ s \in Hook) /\ UNCHANGED <<tenant, overwrote, disordered>>

(***************************************************************************)
(* Reconciler and checkout                                                 *)
(***************************************************************************)

\* runReconciliation lists the tenants, asks Stripe about each subscription, and
\* with -stripe-auto-reconcile writes back the record it has listed.
ListTenants == session[Reconciler].at = "out" /\ tenant.sub /\ Read(Reconciler)

GetSubscription ==
    /\ session[Reconciler].at = "read"
    /\ session' = [session EXCEPT ![Reconciler].at = "fetched",
                                  ![Reconciler].seen = stripe.status]
    /\ UNCHANGED <<tenant, stripeSide, processed, suspended, stale, overwrote, observed>>

\* Mutant of Reconcile: divergence is reported only.
ReconcileReports ==
    /\ session[Reconciler].at = "fetched" /\ Leave(Reconciler)
    /\ UNCHANGED <<tenant, overwrote, observed>>

Reconcile ==
    LET r == session[Reconciler]
    IN  /\ r.at = "fetched"
        /\ \/ /\ r.copy.billing # r.seen
              /\ UpdateTenant(Reconciler, [r.copy EXCEPT !.billing = r.seen])
           \/ r.copy.billing = r.seen /\ Leave(Reconciler) /\ UNCHANGED <<tenant, overwrote>>
        /\ UNCHANGED observed

\* BearerMiddleware lets the tenant's requests through.
Admitted == tenant.billing \notin {"incomplete", "past_due"} /\ tenant.status = "active"

\* checkoutHandler takes the record from the middleware, has Stripe create a
\* customer, and writes the record back.  The customer is not named when the
\* checkout session is created: the one who pays is another.
CheckoutBegins ==
    /\ session[Checkout].at = "out" /\ Admitted /\ tenant.customer = "" /\ Read(Checkout)

CheckoutWrites ==
    /\ session[Checkout].at = "read"
    /\ UpdateTenant(Checkout, [session[Checkout].copy EXCEPT !.customer = "made"])
    /\ UNCHANGED observed

AccountNext ==
    \/ StripeMoves
    \/ \E e \in 1 .. Len(sent) :
          MarkStripeEventProcessed(e) \/ FindTenant(e) \/ HandleStripeEvent(e)
    \/ \E s \in Session : SessionFails(s)
    \/ ListTenants \/ GetSubscription \/ Reconcile
    \/ CheckoutBegins \/ CheckoutWrites \/ SuspendTenant

(***************************************************************************)
(* Properties                                                              *)
(***************************************************************************)

AccountTypeOK ==
    /\ tenant \in Record
    /\ stripe.status \in Billing \cup {"none"} /\ stripe.plan \in PaidPlan \cup {"none"}
    /\ sent \in Seq(StripeEvent) /\ processed \subseteq Hook
    /\ \A s \in Session : /\ session[s].at \in {"out", "marked", "read", "fetched", "done"}
                          /\ session[s].copy \in Record
    /\ stale \subseteq Session

Calm == ~overwrote /\ ~disordered /\ ~failed

\* When no two writers of the record overlap, and the events are handled in order
\* and without failures (however often they are delivered), then the record says
\* what Stripe says once every event is handled, and a suspended tenant is
\* suspended still.
AccountFollows ==
    Calm =>
        /\ suspended => tenant.status = "suspended"
        /\ sent # <<>> /\ (\A e \in 1 .. Len(sent) : session[e].at = "done") =>
              /\ tenant.billing = stripe.status
              /\ tenant.sub <=> stripe.status # "canceled"
              /\ stripe.status = "canceled" => tenant.plan = "free"

\* Once Stripe has no more to say the reconciler brings the billing status of a
\* subscribed tenant in line, whatever events were lost, reordered or overwritten.
Reconciled == <>[](tenant.sub => tenant.billing = stripe.status)
=============================================================================
