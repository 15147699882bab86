------------------------------- MODULE Orders -------------------------------
(***************************************************************************)
(* Orders of physical cards and the one-off payments for them: apps/orders *)
(* with start_order_checkout and the order branch of apply_provider_event. *)
(*                                                                         *)
(* Placing an order, its charge and its Payment are one transaction.  From *)
(* then on three kinds of request write the order row: the webhook, staff  *)
(* moving the order along, and a bare PATCH of the order, which accepts no *)
(* field and yet saves the whole row it read.  check_abandoned_orders      *)
(* writes notifications only and is left out.                              *)
(***************************************************************************)
EXTENDS Provider

CONSTANTS
    OrderIds,
    Workers,      \* web workers
    Fulfilment,   \* processing ... refunded: statuses no code tells apart
    MaxReceipts   \* bound: "Payment received." events counted for an order

ASSUME OrderIdsAssumption == "none" \notin OrderIds /\ "none" \notin Charges
ASSUME FulfilmentAssumption == {"none", "pending_payment", "paid"} \cap Fulfilment = {}
ASSUME OrderReceiptsAssumption == MaxReceipts \in Nat \ {0}

VARIABLES
    order,        \* the Order table
    lastEvent,    \* status of each order's newest ShippingEvent
    receipts,     \* number of ShippingEvents _mark_order_paid added
    pay,          \* the Payment table, by provider reference
    req,          \* what each web worker is doing
    undone        \* history: orders a bare PATCH has put back to an older row

orderVars == <<charge, order, lastEvent, receipts, pay, req, undone>>

-----------------------------------------------------------------------------
OrderStatus == {"pending_payment", "paid"} \cup Fulfilment

OrderRow == [status: OrderStatus, payment: {"pending", "paid"}]
NoOrder == [status |-> "none", payment |-> "none"]
NewOrder == [status |-> "pending_payment", payment |-> "pending"]

Payment == [status: {"pending", "successful", "failed"}, order: OrderIds]
NoPayment == [status |-> "none", order |-> "none"]

(* A request in flight, with what it read: row, the order; seen, the        *)
(* Payment's status.  to: the status staff ask for.                         *)
Request ==
    [op: {"place", "charged", "advance", "patch", "webhook"},
     order: OrderIds \cup {"none"}, row: OrderRow \cup {NoOrder},
     charge: Charges \cup {"none"},
     seen: {"none", "pending", "successful", "failed"},
     to: OrderStatus \cup {"none"}]
Started(op, o, row, c, seen, to) ==
    [op |-> op, order |-> o, row |-> row, charge |-> c, seen |-> seen, to |-> to]
Idle == Started("idle", "none", NoOrder, "none", "none", "none")

Placed(o) == order[o].status # "none"

(* An order number is taken as soon as a request inserts the row.           *)
Free(o) == ~Placed(o) /\ \A w \in Workers : req[w].order # o

Init ==
    /\ ProviderInit
    /\ order = [o \in OrderIds |-> NoOrder]
    /\ lastEvent = [o \in OrderIds |-> "none"]
    /\ receipts = [o \in OrderIds |-> 0]
    /\ pay = [c \in Charges |-> NoPayment]
    /\ req = [w \in Workers |-> Idle]
    /\ undone = {}

Start(w, r) == req[w].op = "idle" /\ req' = [req EXCEPT ![w] = r]
Finish(w) == req' = [req EXCEPT ![w] = Idle]

-----------------------------------------------------------------------------
(* OrderViewSet.create: create_order, then start_order_checkout.            *)
PlaceBegin(w) ==
    /\ \E o \in OrderIds :
          Free(o) /\ Start(w, Started("place", o, NewOrder, "none", "none", "none"))
    /\ UNCHANGED <<charge, order, lastEvent, receipts, pay, undone>>

PlaceCharge(w) ==
    /\ req[w].op = "place"
    /\ \E c \in Charges :
          /\ OpenCharge(c)
          /\ req' = [req EXCEPT ![w].op = "charged", ![w].charge = c]
    /\ UNCHANGED <<order, lastEvent, receipts, pay, undone>>

(* MUTANT of PlaceCommit: the Payment is created without its order.         *)
PlaceCommitNoOrder(w) ==
    /\ req[w].op = "charged"
    /\ order' = [order EXCEPT ![req[w].order] = req[w].row]
    /\ lastEvent' = [lastEvent EXCEPT ![req[w].order] = req[w].row.status]
    /\ pay' = [pay EXCEPT ![req[w].charge] = [status |-> "pending", order |-> "none"]]
    /\ Finish(w)
    /\ UNCHANGED <<charge, receipts, undone>>

PlaceCommit(w) ==
    /\ req[w].op = "charged"
    /\ order' = [order EXCEPT ![req[w].order] = req[w].row]
    /\ lastEvent' = [lastEvent EXCEPT ![req[w].order] = req[w].row.status]
    /\ pay' = [pay EXCEPT ![req[w].charge] =
                  [status |-> "pending", order |-> req[w].order]]
    /\ Finish(w)
    /\ UNCHANGED <<charge, receipts, undone>>

(* MUTANT of Abort: without ATOMIC_REQUESTS the order outlives the error.   *)
AbortKeepsOrder(w) ==
    /\ req[w].op # "idle"
    /\ order' = [o \in OrderIds |->
                    IF req[w].op = "place" /\ req[w].order = o THEN req[w].row ELSE order[o]]
    /\ Finish(w)
    /\ UNCHANGED <<charge, lastEvent, receipts, pay, undone>>

(* A validation error, a provider error or a dead worker: nothing of the    *)
(* request is committed; a charge already opened stays open.                *)
Abort(w) ==
    /\ req[w].op # "idle"
    /\ Finish(w)
    /\ UNCHANGED <<charge, order, lastEvent, receipts, pay, undone>>

-----------------------------------------------------------------------------
(* status_update by staff: any status, from any status.                     *)
AdvanceBegin(w) ==
    /\ \E o \in OrderIds, to \in OrderStatus :
          /\ Placed(o)
          /\ Start(w, Started("advance", o, NoOrder, "none", "none", to))
    /\ UNCHANGED <<charge, order, lastEvent, receipts, pay, undone>>

(* MUTANT of AdvanceCommit: save() without update_fields, from a row read   *)
(* before the payment arrived.                                              *)
AdvanceCommitWhole(w) ==
    /\ req[w].op = "advance"
    /\ order' = [order EXCEPT ![req[w].order] =
                    [status |-> req[w].to, payment |-> "pending"]]
    /\ lastEvent' = [lastEvent EXCEPT ![req[w].order] = req[w].to]
    /\ Finish(w)
    /\ UNCHANGED <<charge, receipts, pay, undone>>

(* advance_status saves the status alone and logs the event.                *)
AdvanceCommit(w) ==
    /\ req[w].op = "advance"
    /\ order' = [order EXCEPT ![req[w].order].status = req[w].to]
    /\ lastEvent' = [lastEvent EXCEPT ![req[w].order] = req[w].to]
    /\ Finish(w)
    /\ UNCHANGED <<charge, receipts, pay, undone>>

(* PATCH /orders/<id>/: every field is read-only, so the serializer saves    *)
(* the row exactly as it was read.                                          *)
PatchBegin(w) ==
    /\ \E o \in OrderIds :
          Placed(o) /\ Start(w, Started("patch", o, order[o], "none", "none", "none"))
    /\ UNCHANGED <<charge, order, lastEvent, receipts, pay, undone>>

PatchCommit(w) ==
    /\ req[w].op = "patch"
    /\ order' = [order EXCEPT ![req[w].order] = req[w].row]
    /\ undone' = IF order' = order THEN undone ELSE undone \cup {req[w].order}
    /\ Finish(w)
    /\ UNCHANGED <<charge, lastEvent, receipts, pay>>

-----------------------------------------------------------------------------
(* The Payment a callback about c names; Stripe's failures name an invoice.  *)
Found(c) == IF EventOf(c).names = "charge" THEN pay[c] ELSE NoPayment

(* apply_provider_event for the Payment of an order; the order is read in    *)
(* the same SELECT as the Payment.                                          *)
WebhookBegin(w) ==
    /\ \E c \in Charges :
          /\ Settled(c)
          /\ Start(w, IF Found(c) = NoPayment
                      THEN Started("webhook", "none", NoOrder, c, "none", "none")
                      ELSE Started("webhook", pay[c].order, order[pay[c].order],
                                   c, pay[c].status, "none"))
    /\ UNCHANGED <<charge, order, lastEvent, receipts, pay, undone>>

WebhookIgnore(w) ==
    /\ req[w].op = "webhook"
    /\ \/ req[w].seen = "none"
       \/ Succeeds(req[w].charge) /\ req[w].seen = "successful"
    /\ Finish(w)
    /\ UNCHANGED <<charge, order, lastEvent, receipts, pay, undone>>

(* MUTANT of MarkPaid: the order is paid but no event is logged.            *)
MarkPaidSilently(w) ==
    /\ order' = [order EXCEPT ![req[w].order] = [status |-> "paid", payment |-> "paid"]]
    /\ UNCHANGED <<lastEvent, receipts>>

(* _mark_order_paid, decided on the copy of the order: paid again from      *)
(* whatever status it has reached, unless the copy was paid already.        *)
MarkPaid(w) ==
    IF req[w].row.payment = "paid"
    THEN UNCHANGED <<order, lastEvent, receipts>>
    ELSE /\ order' = [order EXCEPT ![req[w].order].status = "paid",
                                   ![req[w].order].payment = "paid"]
         /\ lastEvent' = [lastEvent EXCEPT ![req[w].order] = "paid"]
         /\ receipts' = [receipts EXCEPT ![req[w].order] = @ + 1]

WebhookSucceed(w) ==
    /\ req[w].op = "webhook"
    /\ Succeeds(req[w].charge)
    /\ req[w].seen \notin {"none", "successful"}
    /\ receipts[req[w].order] < MaxReceipts
    /\ pay' = [pay EXCEPT ![req[w].charge].status = "successful"]
    /\ MarkPaid(w)
    /\ Finish(w)
    /\ UNCHANGED <<charge, undone>>

(* A failed charge is booked on the Payment; the order is not told.         *)
WebhookFail(w) ==
    /\ req[w].op = "webhook"
    /\ Fails(req[w].charge)
    /\ req[w].seen # "none"
    /\ pay' = [pay EXCEPT ![req[w].charge].status = "failed"]
    /\ Finish(w)
    /\ UNCHANGED <<charge, order, lastEvent, receipts, undone>>

-----------------------------------------------------------------------------
ProviderStep ==
    /\ \E c \in Charges : SettleCharge(c)
    /\ UNCHANGED <<order, lastEvent, receipts, pay, req, undone>>

RequestStep(w) ==
    \/ PlaceBegin(w) \/ PlaceCharge(w) \/ PlaceCommit(w) \/ Abort(w)
    \/ AdvanceBegin(w) \/ AdvanceCommit(w)
    \/ PatchBegin(w) \/ PatchCommit(w)
    \/ WebhookBegin(w) \/ WebhookIgnore(w) \/ WebhookSucceed(w) \/ WebhookFail(w)

Next == (\E w \in Workers : RequestStep(w)) \/ ProviderStep

Spec == Init /\ [][Next]_orderVars

-----------------------------------------------------------------------------
(* Properties.                                                             *)

(* Every table holds well-formed rows.                                     *)
TypeOK ==
    /\ ProviderTypeOK
    /\ order \in [OrderIds -> OrderRow \cup {NoOrder}]
    /\ lastEvent \in [OrderIds -> OrderStatus \cup {"none"}]
    /\ receipts \in [OrderIds -> 0..MaxReceipts]
    /\ pay \in [Charges -> Payment \cup {NoPayment}]
    /\ req \in [Workers -> Request \cup {Idle}]
    /\ undone \subseteq OrderIds

Collected(o) == \E c \in Charges : pay[c].order = o /\ pay[c].status = "successful"

(* Whatever order callbacks, staff updates and bare PATCHes come in, an      *)
(* order is never taken for paid, and its tracking page never says that     *)
(* money was received, unless the provider collected the charge of that     *)
(* very order (_mark_order_paid, OrderViewSet).                             *)
PaidMeansCollected ==
    \A o \in OrderIds :
        order[o].payment = "paid" \/ receipts[o] > 0 =>
            \E c \in Charges : pay[c].order = o /\ charge[c] = "paid"

(* Every order a customer can see has a Payment to pay it by, and no other  *)
(* order shares it: the order, the charge and the Payment commit together   *)
(* or not at all (OrderViewSet.create under ATOMIC_REQUESTS).               *)
PlacedIsPayable ==
    \A o \in OrderIds :
        Placed(o) <=> \E c \in Charges : pay[c].order = o /\ charge[c] # "none"

(* Money and orders agree at every moment: an order is paid exactly when its *)
(* Payment has succeeded, although staff may have moved it on between the    *)
(* webhook's read and its save, and two copies of a callback may run at once *)
(* (_mark_order_paid, advance_status).  Only a PATCH that overtook another   *)
(* request, and put its old row back, breaks this.                           *)
PaidIffCollected ==
    \A o \in OrderIds \ undone : order[o].payment = "paid" <=> Collected(o)

(* The newest event on the tracking page is the order's status, with the     *)
(* same exception: whichever of staff and webhook writes last writes both    *)
(* (advance_status, _mark_order_paid).                                       *)
TrackingAgrees ==
    \A o \in OrderIds \ undone : lastEvent[o] = order[o].status

(* The Payment table implements Ledger: two callbacks for one charge, or a   *)
(* callback that read the Payment before another booked it, book it once and *)
(* as the provider settled it (start_order_checkout, apply_provider_event).  *)
Books == INSTANCE Ledger WITH
            outcome <- charge,
            book <- [c \in Charges |-> pay[c].status]

(* The refinement as a property of a run.                                   *)
KeepsTheLedger == Books!Spec
=============================================================================
