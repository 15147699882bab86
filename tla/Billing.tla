------------------------------- MODULE Billing -------------------------------
(***************************************************************************)
(* Subscriptions and their payments: apps/billing services, views,         *)
(* webhooks and daily tasks, for payments started by start_checkout (the   *)
(* ones started by start_order_checkout are in Orders).                    *)
(*                                                                         *)
(* Every HTTP request is one READ COMMITTED transaction (ATOMIC_REQUESTS), *)
(* so a handler is a read step that takes copies of the rows it needs and  *)
(* a commit step that writes the fields it names in update_fields; other   *)
(* requests, the provider and the Celery tasks run in between.  Celery     *)
(* tasks autocommit: one read of all their rows, then one write a row.     *)
(***************************************************************************)
EXTENDS Provider

CONSTANTS
    Tenants,      \* organizations and individual users
    Workers,      \* web workers, each with at most one request in flight
    Plans,
    FreePlan,
    MaxSubs,      \* bound: rows ever inserted in Subscription
    MaxDay,       \* bound on the clock
    TrialDays,    \* TRIAL_DAYS
    PeriodDays    \* period_days of _activate_period

ASSUME PlansAssumption == FreePlan \in Plans /\ "none" \notin Plans
ASSUME TenantsAssumption == "none" \notin Tenants
ASSUME ChargesAssumption == "none" \notin Charges
ASSUME BoundsAssumption == MaxSubs \in Nat /\ MaxDay \in Nat
ASSUME DaysAssumption ==
    TrialDays \in Nat /\ PeriodDays \in Nat /\ TrialDays <= PeriodDays

VARIABLES
    sub,          \* the Subscription table; row numbers follow created_at
    lastSub,      \* the newest row number handed out, committed or not
    pay,          \* the Payment table, by provider reference
    answered,     \* callbacks the webhook view has answered with 200
    notices,      \* payment notifications queued for the tenant
    req,          \* what each web worker is doing
    lapse,        \* check_subscriptions: copies of the rows it has still to save
    expired,      \* process_expired_trials: rows it has still to save
    day

vars == <<charge, sub, lastSub, pay, answered, notices, req, lapse, expired, day>>

-----------------------------------------------------------------------------
Subs == 1..MaxSubs
Days == 0..(MaxDay + TrialDays + PeriodDays)

Live == {"trialing", "active", "past_due", "paused"}
Ended == {"cancelled", "expired"}

Row == [tenant: Tenants, plan: Plans, status: Live \cup Ended,
        cancel: BOOLEAN, trialEnd: Days, periodEnd: Days]
NoRow == [tenant |-> "none", plan |-> "none", status |-> "none",
          cancel |-> FALSE, trialEnd |-> 0, periodEnd |-> 0]

Payment == [status: {"pending", "successful", "failed"}, sub: Subs, plan: Plans]
NoPayment == [status |-> "none", sub |-> 0, plan |-> "none"]

(* A request in flight.  sub: the subscription it works on; row: that row,  *)
(* if this request inserts it; plan, charge: what a checkout will save;     *)
(* seen: the status it read, of the Payment (webhook) or the Subscription   *)
(* (reactivate).  A "charged" checkout has the provider's answer.  The      *)
(* fields a handler reads and never writes back are left out of its copies. *)
Request == [op: {"view", "checkout", "charged", "cancel", "reactivate", "webhook"},
            sub: 0..MaxSubs, row: Row \cup {NoRow},
            plan: Plans \cup {"none"}, charge: Charges \cup {"none"},
            seen: Live \cup {"none", "pending", "successful", "failed"}]
Started(op, s, row, c, seen) ==
    [op |-> op, sub |-> s, row |-> row, plan |-> "none", charge |-> c, seen |-> seen]
Idle == Started("idle", 0, NoRow, "none", "none")

Exists(s) == sub[s].status # "none"

Init ==
    /\ ProviderInit
    /\ sub = [s \in Subs |-> NoRow]
    /\ lastSub = 0
    /\ pay = [c \in Charges |-> NoPayment]
    /\ answered = {}
    /\ notices = {}
    /\ req = [w \in Workers |-> Idle]
    /\ lapse = [rows |-> {}, cancels |-> {}]
    /\ expired = {}
    /\ day = 0

-----------------------------------------------------------------------------
(* The tenant's subscription.                                              *)

LiveSubs(t) == {s \in Subs : sub[s].tenant = t /\ sub[s].status \in Live}

(* MUTANT of DefaultRow: the row is created before the plan is looked up.   *)
DefaultRowNoPlan(t) ==
    [tenant |-> t, plan |-> "none", status |-> "trialing", cancel |-> FALSE,
     trialEnd |-> day + TrialDays, periodEnd |-> day + TrialDays]

DefaultRow(t) ==
    [tenant |-> t, plan |-> FreePlan, status |-> "trialing", cancel |-> FALSE,
     trialEnd |-> day + TrialDays, periodEnd |-> day + TrialDays]

(* Of the subscription's fields only reactivation saves the status it read. *)
Copied(op, status) == IF op = "reactivate" THEN status ELSE "none"

(* get_or_create_default_subscription: the newest live row as now           *)
(* committed, or a new trial that only this transaction sees.               *)
Acquire(w, t, op) ==
    /\ req[w].op = "idle"
    /\ \/ \E s \in LiveSubs(t) :
            /\ \A r \in LiveSubs(t) : r <= s
            /\ req' = [req EXCEPT ![w] =
                  Started(op, s, NoRow, "none", Copied(op, sub[s].status))]
            /\ UNCHANGED lastSub
       \/ /\ LiveSubs(t) = {}
          /\ lastSub < MaxSubs
          /\ lastSub' = lastSub + 1
          /\ req' = [req EXCEPT ![w] =
                Started(op, lastSub + 1, DefaultRow(t), "none", Copied(op, "trialing"))]
    /\ UNCHANGED <<charge, sub, pay, answered, notices, lapse, expired, day>>

(* The row a request's UPDATE changes: the committed one, not the copy.     *)
Target(w) == IF req[w].row # NoRow THEN req[w].row ELSE sub[req[w].sub]

Finish(w) == req' = [req EXCEPT ![w] = Idle]

-----------------------------------------------------------------------------
(* SubscriptionView, and every entitlement check: only the default row.     *)

ViewBegin(w) == \E t \in Tenants : Acquire(w, t, "view")

ViewCommit(w) ==
    /\ req[w].op = "view"
    /\ sub' = [sub EXCEPT ![req[w].sub] = Target(w)]
    /\ Finish(w)
    /\ UNCHANGED <<charge, lastSub, pay, answered, notices, lapse, expired, day>>

(* CheckoutView and start_checkout: the plan is switched, the provider asked *)
(* for a charge and the Payment inserted, all in one transaction.            *)
CheckoutBegin(w) == \E t \in Tenants : Acquire(w, t, "checkout")

CheckoutCharge(w) ==
    /\ req[w].op = "checkout"
    /\ \E c \in Charges, plan \in Plans :
          /\ OpenCharge(c)
          /\ req' = [req EXCEPT ![w].op = "charged", ![w].charge = c,
                                ![w].plan = plan]
    /\ UNCHANGED <<sub, lastSub, pay, answered, notices, lapse, expired, day>>

(* MUTANT of CheckoutCommit: a checkout of the free plan is booked at once.  *)
CheckoutCommitFree(w) ==
    /\ req[w].op = "charged"
    /\ sub' = [sub EXCEPT ![req[w].sub] =
                  [Target(w) EXCEPT !.plan = req[w].plan]]
    /\ pay' = [pay EXCEPT ![req[w].charge] =
                  [status |-> IF req[w].plan = FreePlan THEN "successful" ELSE "pending",
                   sub |-> req[w].sub, plan |-> req[w].plan]]
    /\ Finish(w)
    /\ UNCHANGED <<charge, lastSub, answered, notices, lapse, expired, day>>

CheckoutCommit(w) ==
    /\ req[w].op = "charged"
    /\ sub' = [sub EXCEPT ![req[w].sub] =
                  [Target(w) EXCEPT !.plan = req[w].plan]]
    /\ pay' = [pay EXCEPT ![req[w].charge] =
                  [status |-> "pending", sub |-> req[w].sub,
                   plan |-> req[w].plan]]
    /\ Finish(w)
    /\ UNCHANGED <<charge, lastSub, answered, notices, lapse, expired, day>>

CancelBegin(w) == \E t \in Tenants : Acquire(w, t, "cancel")

CancelCommit(w) ==
    /\ req[w].op = "cancel"
    /\ sub' = [sub EXCEPT ![req[w].sub] = [Target(w) EXCEPT !.cancel = TRUE]]
    /\ Finish(w)
    /\ UNCHANGED <<charge, lastSub, pay, answered, notices, lapse, expired, day>>

ReactivateBegin(w) == \E t \in Tenants : Acquire(w, t, "reactivate")

(* MUTANT of Reactivated: every reactivated subscription becomes active.    *)
ReactivatedAlways(status) == "active"

(* The status reactivation saves, from the copy it read.                    *)
Reactivated(status) == IF status = "cancelled" THEN "active" ELSE status

ReactivateCommit(w) ==
    /\ req[w].op = "reactivate"
    /\ sub' = [sub EXCEPT ![req[w].sub] =
                  [Target(w) EXCEPT !.cancel = FALSE,
                                    !.status = Reactivated(req[w].seen)]]
    /\ Finish(w)
    /\ UNCHANGED <<charge, lastSub, pay, answered, notices, lapse, expired, day>>

(* MUTANT of Abort: the plan switch is saved outside the transaction.       *)
AbortKeepsPlan(w) ==
    /\ req[w].op # "idle"
    /\ sub' = [sub EXCEPT ![req[w].sub] =
                  IF req[w].op = "charged"
                  THEN [Target(w) EXCEPT !.plan = req[w].plan] ELSE @]
    /\ Finish(w)
    /\ UNCHANGED <<charge, lastSub, pay, answered, notices, lapse, expired, day>>

(* An exception or a dead worker rolls the request back; a charge the       *)
(* provider has opened stays open.                                          *)
Abort(w) ==
    /\ req[w].op # "idle"
    /\ Finish(w)
    /\ UNCHANGED <<charge, sub, lastSub, pay, answered, notices, lapse, expired, day>>

-----------------------------------------------------------------------------
(* The webhook views and apply_provider_event.                             *)

(* The Payment a callback about c names, with its subscription; Stripe's    *)
(* failures name an invoice, and so none.                                   *)
Found(c) == IF EventOf(c).names = "charge" THEN pay[c] ELSE NoPayment

WebhookBegin(w) ==
    /\ req[w].op = "idle"
    /\ \E c \in Charges :
          /\ Settled(c)
          /\ req' = [req EXCEPT ![w] =
                        Started("webhook", Found(c).sub, NoRow, c, Found(c).status)]
    /\ UNCHANGED <<charge, sub, lastSub, pay, answered, notices, lapse, expired, day>>

(* No Payment with that reference, or one already successful: answer 200.   *)
WebhookIgnore(w) ==
    /\ req[w].op = "webhook"
    /\ \/ req[w].seen = "none"
       \/ Succeeds(req[w].charge) /\ req[w].seen = "successful"
    /\ answered' = answered \cup {req[w].charge}
    /\ Finish(w)
    /\ UNCHANGED <<charge, sub, lastSub, pay, notices, lapse, expired, day>>

(* _notify_payment: the tenant is told.                                     *)
Notify(c, type) == notices' = notices \cup {<<c, type>>}

(* Success: the Payment is settled and _activate_period starts a period now. *)
WebhookSucceed(w) ==
    /\ req[w].op = "webhook"
    /\ Succeeds(req[w].charge)
    /\ req[w].seen \notin {"none", "successful"}
    /\ pay' = [pay EXCEPT ![req[w].charge].status = "successful"]
    /\ sub' = [sub EXCEPT ![req[w].sub].status = "active",
                          ![req[w].sub].periodEnd = day + PeriodDays]
    /\ Notify(req[w].charge, "payment_successful")
    /\ answered' = answered \cup {req[w].charge}
    /\ Finish(w)
    /\ UNCHANGED <<charge, lastSub, lapse, expired, day>>

(* Failure: no test of the Payment's or the Subscription's current status.  *)
WebhookFail(w) ==
    /\ req[w].op = "webhook"
    /\ Fails(req[w].charge)
    /\ req[w].seen # "none"
    /\ pay' = [pay EXCEPT ![req[w].charge].status = "failed"]
    /\ sub' = [sub EXCEPT ![req[w].sub].status = "past_due"]
    /\ Notify(req[w].charge, "payment_failed")
    /\ answered' = answered \cup {req[w].charge}
    /\ Finish(w)
    /\ UNCHANGED <<charge, lastSub, lapse, expired, day>>

WebhookCommit(w) == WebhookIgnore(w) \/ WebhookSucceed(w) \/ WebhookFail(w)

-----------------------------------------------------------------------------
(* The daily tasks.                                                        *)

(* MUTANT of Overdue: __lte for __lt.                                       *)
OverdueEarly ==
    {s \in Subs : sub[s].status \in {"active", "past_due"} /\ sub[s].periodEnd <= day}

(* MUTANT of Overdue: past_due forgotten in the filter.                     *)
OverdueActive == {s \in Subs : sub[s].status = "active" /\ sub[s].periodEnd < day}

Overdue ==
    {s \in Subs : sub[s].status \in {"active", "past_due"} /\ sub[s].periodEnd < day}

OverTrials == {s \in Subs : sub[s].status = "trialing" /\ sub[s].trialEnd < day}

(* Rows come newest first (Subscription.Meta.ordering).                     *)
NextRow(rows, s) == s \in rows /\ \A r \in rows : r <= s

(* check_subscriptions reads the overdue rows, cancel flags with them ...   *)
LapseFetch ==
    /\ lapse.rows = {}
    /\ Overdue # {}
    /\ lapse' = [rows |-> Overdue, cancels |-> {s \in Overdue : sub[s].cancel}]
    /\ UNCHANGED <<charge, sub, lastSub, pay, answered, notices, req, expired, day>>

(* ... and ends them one by one, whatever has happened to them since.       *)
LapseSave ==
    /\ \E s \in Subs :
          /\ NextRow(lapse.rows, s)
          /\ sub' = [sub EXCEPT ![s].status =
                        IF s \in lapse.cancels THEN "cancelled" ELSE "expired"]
          /\ lapse' = [rows |-> lapse.rows \ {s}, cancels |-> lapse.cancels \ {s}]
    /\ UNCHANGED <<charge, lastSub, pay, answered, notices, req, expired, day>>

TrialFetch ==
    /\ expired = {}
    /\ OverTrials # {}
    /\ expired' = OverTrials
    /\ UNCHANGED <<charge, sub, lastSub, pay, answered, notices, req, lapse, day>>

TrialSave ==
    /\ \E s \in Subs :
          /\ NextRow(expired, s)
          /\ sub' = [sub EXCEPT ![s].status = "expired"]
          /\ expired' = expired \ {s}
    /\ UNCHANGED <<charge, lastSub, pay, answered, notices, req, lapse, day>>

(* A Celery worker dies or hits the time limit; the redelivered task        *)
(* (CELERY_TASK_ACKS_LATE) starts again from its read.                      *)
TaskKilled ==
    /\ \/ lapse.rows # {} /\ lapse' = [rows |-> {}, cancels |-> {}] /\ UNCHANGED expired
       \/ expired # {} /\ expired' = {} /\ UNCHANGED lapse
    /\ UNCHANGED <<charge, sub, lastSub, pay, answered, notices, req, day>>

-----------------------------------------------------------------------------
ProviderStep ==
    /\ \E c \in Charges : SettleCharge(c)
    /\ UNCHANGED <<sub, lastSub, pay, answered, notices, req, lapse, expired, day>>

Tick ==
    /\ day < MaxDay
    /\ day' = day + 1
    /\ UNCHANGED <<charge, sub, lastSub, pay, answered, notices, req, lapse, expired>>

RequestStep(w) ==
    \/ ViewBegin(w) \/ ViewCommit(w)
    \/ CheckoutBegin(w) \/ CheckoutCharge(w) \/ CheckoutCommit(w)
    \/ CancelBegin(w) \/ CancelCommit(w)
    \/ ReactivateBegin(w) \/ ReactivateCommit(w)
    \/ WebhookBegin(w) \/ WebhookCommit(w)
    \/ Abort(w)

TaskStep == LapseFetch \/ LapseSave \/ TrialFetch \/ TrialSave \/ TaskKilled

Next == (\E w \in Workers : RequestStep(w)) \/ TaskStep \/ ProviderStep \/ Tick

Spec == Init /\ [][Next]_vars

(* Celery beat starts each task every day, and workers are not killed in    *)
(* the middle of one for ever.                                              *)
TaskFairness ==
    /\ WF_vars(LapseFetch) /\ WF_vars(LapseSave)
    /\ WF_vars(TrialFetch) /\ WF_vars(TrialSave)
    /\ <>[][~TaskKilled]_vars

FairSpec == Spec /\ TaskFairness

-----------------------------------------------------------------------------
(* Properties.                                                             *)

(* Every table holds well-formed rows: in particular a committed            *)
(* subscription always has a tenant and a plan.                             *)
TypeOK ==
    /\ ProviderTypeOK
    /\ sub \in [Subs -> Row \cup {NoRow}]
    /\ lastSub \in 0..MaxSubs
    /\ pay \in [Charges -> Payment \cup {NoPayment}]
    /\ answered \subseteq Charges
    /\ notices \subseteq Charges \X {"payment_successful", "payment_failed"}
    /\ req \in [Workers -> Request \cup {Idle}]
    /\ lapse \in [rows: SUBSET Subs, cancels: SUBSET Subs]
    /\ expired \subseteq Subs
    /\ day \in 0..MaxDay

(* A Payment, and what the tenant was told about it, say what the provider  *)
(* says: however often and however late a callback is handled, by however   *)
(* many workers, nothing is booked as paid that was declined or the reverse *)
(* (apply_provider_event).                                                  *)
AgreesWithProvider ==
    \A c \in Charges :
        /\ pay[c].status = "successful" => charge[c] = "paid"
        /\ pay[c].status = "failed" => charge[c] = "declined"
        /\ <<c, "payment_successful">> \in notices => charge[c] = "paid"
        /\ <<c, "payment_failed">> \in notices => charge[c] = "declined"

(* Nobody holds an active subscription without a charge of that very        *)
(* subscription having been collected, and nobody is dunned (past_due)      *)
(* without one having failed, although reactivation writes back a status it *)
(* read earlier (ReactivateSubscriptionView saves status).                  *)
StatusEarned ==
    \A s \in Subs :
        /\ sub[s].status = "active" =>
              \E c \in Charges : pay[c].sub = s /\ pay[c].status = "successful"
        /\ sub[s].status = "past_due" =>
              \E c \in Charges : pay[c].sub = s /\ pay[c].status = "failed"

(* A subscription never ends before its trial window is over, whatever was  *)
(* paid, failed, cancelled or reactivated in it, although the daily tasks   *)
(* end rows from old copies.                                                *)
TrialIsGranted ==
    \A s \in Subs : sub[s].status \in Ended => sub[s].trialEnd < day

(* No subscription is on a plan other than the free one unless a charge for *)
(* that plan was recorded for it: a checkout that fails half-way leaves no  *)
(* trace (CheckoutView saves the plan before it calls the provider).        *)
PlanWasCharged ==
    \A s \in Subs :
        Exists(s) /\ sub[s].plan # FreePlan =>
            \E c \in Charges : pay[c].sub = s /\ pay[c].plan = sub[s].plan

PastEnd(s) == sub[s].status \in {"active", "past_due"} /\ sub[s].periodEnd < day
PastTrial(s) == sub[s].status = "trialing" /\ sub[s].trialEnd < day

(* An overdue subscription is ended, or renewed, eventually, and an overdue *)
(* trial does not stay a trial, although the daily tasks may be killed      *)
(* between two rows (check_subscriptions, process_expired_trials).          *)
OverdueIsEnded ==
    \A s \in Subs :
        /\ PastEnd(s) ~> ~PastEnd(s)
        /\ PastTrial(s) ~> ~PastTrial(s)

(* The Payment table implements Ledger: each charge is recorded once and     *)
(* booked once, as the provider settled it, and no later callback, however   *)
(* stale the Payment its handler read, takes a booking back                  *)
(* (start_checkout, apply_provider_event).                                  *)
Books == INSTANCE Ledger WITH
            outcome <- charge,
            book <- [c \in Charges |-> pay[c].status]

(* The refinement as a property of a run.                                   *)
KeepsTheLedger == Books!Spec

(* What services.py:125 says of a verified webhook event, and the code does *)
(* not keep when the callback overtakes the checkout: a success that was    *)
(* answered with 200 is booked.                                             *)
AnsweredIsBooked ==
    \A c \in answered :
        charge[c] = "paid" /\ pay[c].status # "none" => pay[c].status = "successful"
=============================================================================
