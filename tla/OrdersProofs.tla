---------------------------- MODULE OrdersProofs ----------------------------
(***************************************************************************)
(* Proofs about Orders, for any number of orders, workers and charges,     *)
(* with bare PATCHes interleaved anywhere.                                 *)
(***************************************************************************)
EXTENDS Orders, TLAPS

-----------------------------------------------------------------------------
(* The inductive invariant: the properties, and what remains true of the    *)
(* copies that requests in flight hold while other requests commit.         *)

(* Only one request at a time inserts a given order, and only one holds a   *)
(* given charge that nobody has recorded yet.                               *)
PlacingAlone ==
    /\ \A w \in Workers : req[w].op \in {"place", "charged"} =>
          /\ req[w].order \in OrderIds
          /\ req[w].row = NewOrder
          /\ ~Placed(req[w].order)
          /\ \A v \in Workers \ {w} :
                req[v].op \in {"place", "charged"} => req[v].order # req[w].order
    /\ \A w \in Workers : req[w].op = "charged" =>
          /\ req[w].charge \in Charges
          /\ charge[req[w].charge] # "none"
          /\ pay[req[w].charge].status = "none"
          /\ \A v \in Workers \ {w} :
                req[v].op = "charged" => req[v].charge # req[w].charge

(* A Payment belongs to a charge and to a placed order, and is the order's  *)
(* only one.                                                                *)
PaymentsLinked ==
    /\ \A c \in Charges : pay[c].status # "none" =>
          charge[c] # "none" /\ Placed(pay[c].order)
    /\ \A o \in OrderIds : Placed(o) => \E c \in Charges : pay[c].order = o
    /\ \A c, d \in Charges :
          pay[c].status # "none" /\ pay[c].order = pay[d].order => c = d

(* A Payment says what the provider says.                                   *)
BookedAsSettled ==
    \A c \in Charges :
        /\ pay[c].status = "successful" => charge[c] = "paid"
        /\ pay[c].status = "failed" => charge[c] = "declined"

(* What was paid, or logged as paid, was booked.                            *)
PaidWasBooked ==
    \A o \in OrderIds : order[o].payment = "paid" \/ receipts[o] > 0 => Collected(o)

(* Requests that write an order hold a placed one; a copy that says "paid"  *)
(* says so because its Payment succeeded, and unless a PATCH undid it the   *)
(* row still says so too.                                                   *)
CopiesHold ==
    \A w \in Workers :
        /\ req[w].op \in {"advance", "patch"} =>
              req[w].order \in OrderIds /\ Placed(req[w].order)
        /\ req[w].op = "advance" => req[w].to \in OrderStatus
        /\ req[w].op = "patch" =>
              /\ req[w].row \in OrderRow
              /\ req[w].row.payment = "paid" => Collected(req[w].order)
        /\ req[w].op = "webhook" =>
              req[w].charge \in Charges /\ Settled(req[w].charge)
        /\ req[w].op = "webhook" /\ req[w].seen # "none" =>
              /\ pay[req[w].charge].status # "none"
              /\ req[w].order = pay[req[w].charge].order
              /\ req[w].row.payment = "paid" /\ req[w].order \notin undone =>
                    order[req[w].order].payment = "paid"

IInv ==
    /\ TypeOK
    /\ PlacingAlone /\ PaymentsLinked /\ BookedAsSettled /\ PaidWasBooked /\ CopiesHold
    /\ PaidIffCollected /\ TrackingAgrees

-----------------------------------------------------------------------------
(* A request that ends without writing a row keeps the invariant.           *)
LEMMA GiveUpKeeps ==
    ASSUME IInv, NEW w \in Workers, Finish(w),
           UNCHANGED <<charge, order, lastEvent, receipts, pay, undone>>
    PROVE  IInv'
<1>0. req' = [req EXCEPT ![w] = Idle]
  BY DEF Finish
<1>1. TypeOK'
  BY <1>0 DEF IInv, TypeOK, ProviderTypeOK
<1>2. PlacingAlone'
  BY <1>0 DEF IInv, TypeOK, PlacingAlone, Idle, Started, Placed
<1>3. CopiesHold'
  BY <1>0 DEF IInv, TypeOK, CopiesHold, Idle, Started, Placed, Collected, Settled
<1>4. /\ PaymentsLinked' /\ BookedAsSettled' /\ PaidWasBooked'
      /\ PaidIffCollected' /\ TrackingAgrees'
  BY DEF IInv, PaymentsLinked, BookedAsSettled, PaidWasBooked, PaidIffCollected,
     TrackingAgrees, Placed, Collected
<1> QED
  BY <1>1, <1>2, <1>3, <1>4 DEF IInv

(* A request that reads, and writes nothing, keeps the invariant if what it *)
(* now holds is what the invariant says of such requests.                   *)
LEMMA ReadKeeps ==
    ASSUME IInv, NEW w \in Workers, NEW r \in Request,
           Start(w, r),
           UNCHANGED <<charge, order, lastEvent, receipts, pay, undone>>,
           r.op # "charged",
           r.op = "place" => /\ r.order \in OrderIds
                             /\ r.row = NewOrder
                             /\ Free(r.order),
           r.op \in {"advance", "patch"} => r.order \in OrderIds /\ Placed(r.order),
           r.op = "advance" => r.to \in OrderStatus,
           r.op = "patch" => r.row = order[r.order],
           r.op = "webhook" => r.charge \in Charges /\ Settled(r.charge),
           r.op = "webhook" /\ r.seen # "none" =>
                  /\ pay[r.charge].status # "none"
                  /\ r.order = pay[r.charge].order
                  /\ r.row = order[r.order]
    PROVE  IInv'
<1>0. req' = [req EXCEPT ![w] = r] /\ req[w].op = "idle"
  BY DEF Start
<1>1. TypeOK'
  BY <1>0 DEF IInv, TypeOK, ProviderTypeOK
<1>2. PlacingAlone'
  BY <1>0 DEF IInv, TypeOK, PlacingAlone, Placed, Free
<1>3. CopiesHold'
  <2>1. r.op = "patch" => r.row \in OrderRow
    BY DEF IInv, TypeOK, Placed, NoOrder
  <2>2. r.op = "patch" /\ r.row.payment = "paid" => Collected(r.order)
    BY DEF IInv, PaidWasBooked
  <2> QED
    BY <1>0, <2>1, <2>2 DEF IInv, TypeOK, CopiesHold, Placed, Collected, Settled
<1>4. /\ PaymentsLinked' /\ BookedAsSettled' /\ PaidWasBooked'
      /\ PaidIffCollected' /\ TrackingAgrees'
  BY DEF IInv, PaymentsLinked, BookedAsSettled, PaidWasBooked, PaidIffCollected,
     TrackingAgrees, Placed, Collected
<1> QED
  BY <1>1, <1>2, <1>3, <1>4 DEF IInv

(* The four kinds of request that start, each by ReadKeeps.                 *)
LEMMA BeginKeeps ==
    ASSUME IInv, NEW w \in Workers,
           PlaceBegin(w) \/ AdvanceBegin(w) \/ PatchBegin(w) \/ WebhookBegin(w)
    PROVE  IInv'
<1>1. CASE PlaceBegin(w)
  <2>1. PICK o \in OrderIds :
           Free(o) /\ Start(w, Started("place", o, NewOrder, "none", "none", "none"))
    BY <1>1 DEF PlaceBegin
  <2>2. Started("place", o, NewOrder, "none", "none", "none") \in Request
    BY DEF Started, Request, NewOrder, OrderRow, OrderStatus
  <2> QED
    BY <1>1, <2>1, <2>2, ReadKeeps DEF PlaceBegin, Started
<1>2. CASE AdvanceBegin(w)
  <2>1. PICK o \in OrderIds, to \in OrderStatus :
           Placed(o) /\ Start(w, Started("advance", o, NoOrder, "none", "none", to))
    BY <1>2 DEF AdvanceBegin
  <2>2. Started("advance", o, NoOrder, "none", "none", to) \in Request
    BY DEF Started, Request
  <2> QED
    BY <1>2, <2>1, <2>2, ReadKeeps DEF AdvanceBegin, Started
<1>3. CASE PatchBegin(w)
  <2>1. PICK o \in OrderIds :
           Placed(o) /\ Start(w, Started("patch", o, order[o], "none", "none", "none"))
    BY <1>3 DEF PatchBegin
  <2>2. Started("patch", o, order[o], "none", "none", "none") \in Request
    BY DEF Started, Request, IInv, TypeOK
  <2> QED
    BY <1>3, <2>1, <2>2, ReadKeeps DEF PatchBegin, Started
<1>4. CASE WebhookBegin(w)
  <2>1. PICK c \in Charges :
           /\ Settled(c)
           /\ Start(w, IF Found(c) = NoPayment
                       THEN Started("webhook", "none", NoOrder, c, "none", "none")
                       ELSE Started("webhook", pay[c].order, order[pay[c].order],
                                    c, pay[c].status, "none"))
    BY <1>4 DEF WebhookBegin
  <2>2. CASE Found(c) = NoPayment
    <3>1. Started("webhook", "none", NoOrder, c, "none", "none") \in Request
      BY DEF Started, Request
    <3> QED
      BY <1>4, <2>1, <2>2, <3>1, ReadKeeps DEF WebhookBegin, Started
  <2>3. CASE Found(c) # NoPayment
    <3>1. pay[c] \in Payment
      BY <2>3 DEF IInv, TypeOK, Found
    <3>2. Started("webhook", pay[c].order, order[pay[c].order], c, pay[c].status,
                  "none") \in Request
      BY <3>1 DEF Started, Request, Payment, IInv, TypeOK
    <3> QED
      BY <1>4, <2>1, <2>3, <3>1, <3>2, ReadKeeps DEF WebhookBegin, Started
  <2> QED
    BY <2>2, <2>3
<1> QED
  BY <1>1, <1>2, <1>3, <1>4

(* The provider opens a charge for a placing request: no one has it.        *)
LEMMA PlaceChargeKeeps ==
    ASSUME IInv, NEW w \in Workers, PlaceCharge(w)
    PROVE  IInv'
<1>1. PICK c \in Charges :
         /\ charge[c] = "none"
         /\ charge' = [charge EXCEPT ![c] = "open"]
         /\ req' = [req EXCEPT ![w].op = "charged", ![w].charge = c]
  BY DEF PlaceCharge, OpenCharge, StripeSession, MpesaPush, SasaPayCheckout, Asked
<1>2. req[w].op = "place" /\ UNCHANGED <<order, lastEvent, receipts, pay, undone>>
  BY DEF PlaceCharge
<1>3. pay[c].status = "none"
  BY <1>1 DEF IInv, PaymentsLinked
<1>4. /\ req' = [req EXCEPT ![w] = req'[w]]
      /\ req'[w] \in Request
      /\ req'[w].op = "charged" /\ req'[w].charge = c
      /\ req'[w].order = req[w].order /\ req'[w].row = req[w].row
  <2>1. req[w] \in Request
    BY <1>2 DEF IInv, TypeOK, Idle, Started
  <2>2. req' = [req EXCEPT ![w] = [req[w] EXCEPT !.op = "charged", !.charge = c]]
    BY <1>1, <1>2 DEF IInv, TypeOK
  <2>3. [req[w] EXCEPT !.op = "charged", !.charge = c] \in Request
    BY <2>1 DEF Request
  <2> QED
    BY <2>1, <2>2, <2>3 DEF IInv, TypeOK, Request
<1>5. TypeOK'
  BY <1>1, <1>2, <1>4 DEF IInv, TypeOK, ProviderTypeOK, ChargeStatus
<1>6. PlacingAlone'
  BY <1>1, <1>2, <1>3, <1>4 DEF IInv, TypeOK, PlacingAlone, Placed, ProviderTypeOK
<1>7. PaymentsLinked' /\ BookedAsSettled'
  BY <1>1, <1>2 DEF IInv, PaymentsLinked, BookedAsSettled, Placed, TypeOK, ProviderTypeOK
<1>8. CopiesHold'
  BY <1>1, <1>2, <1>4 DEF IInv, TypeOK, CopiesHold, Placed, Collected, Settled,
     ProviderTypeOK
<1>9. PaidWasBooked' /\ PaidIffCollected' /\ TrackingAgrees'
  BY <1>2 DEF IInv, PaidWasBooked, PaidIffCollected, TrackingAgrees, Collected
<1> QED
  BY <1>5, <1>6, <1>7, <1>8, <1>9 DEF IInv

(* The customer settles a charge that was open: nothing was booked on it.   *)
LEMMA ProviderStepKeeps ==
    ASSUME IInv, ProviderStep
    PROVE  IInv'
<1>1. PICK c \in Charges, outcome \in {"paid", "declined"} :
         charge[c] = "open" /\ charge' = [charge EXCEPT ![c] = outcome]
  BY DEF ProviderStep, SettleCharge
<1>2. UNCHANGED <<order, lastEvent, receipts, pay, req, undone>>
  BY DEF ProviderStep
<1>3. TypeOK' /\ BookedAsSettled'
  BY <1>1, <1>2 DEF IInv, TypeOK, ProviderTypeOK, ChargeStatus, BookedAsSettled
<1>4. PlacingAlone' /\ PaymentsLinked'
  BY <1>1, <1>2 DEF IInv, TypeOK, ProviderTypeOK, PlacingAlone, PaymentsLinked, Placed
<1>5. CopiesHold'
  BY <1>1, <1>2 DEF IInv, TypeOK, ProviderTypeOK, CopiesHold, Placed, Collected, Settled
<1>6. PaidWasBooked' /\ PaidIffCollected' /\ TrackingAgrees'
  BY <1>2 DEF IInv, PaidWasBooked, PaidIffCollected, TrackingAgrees, Collected
<1> QED
  BY <1>3, <1>4, <1>5, <1>6 DEF IInv

-----------------------------------------------------------------------------
(* Order, event and Payment are committed together.                         *)
LEMMA PlaceCommitKeeps ==
    ASSUME IInv, NEW w \in Workers, PlaceCommit(w)
    PROVE  IInv'
<1>0. PICK o, c : o = req[w].order /\ c = req[w].charge
  OBVIOUS
<1>1. /\ o \in OrderIds /\ c \in Charges /\ ~Placed(o)
      /\ req[w].op = "charged" /\ req[w].row = NewOrder
      /\ pay[c].status = "none" /\ charge[c] # "none"
  BY <1>0 DEF PlaceCommit, IInv, PlacingAlone
<1>2. /\ order' = [order EXCEPT ![o] = NewOrder]
      /\ lastEvent' = [lastEvent EXCEPT ![o] = "pending_payment"]
      /\ pay' = [pay EXCEPT ![c] = [status |-> "pending", order |-> o]]
      /\ req' = [req EXCEPT ![w] = Idle]
      /\ UNCHANGED <<charge, receipts, undone>>
  BY <1>0, <1>1 DEF PlaceCommit, Finish, NewOrder
<1>3. NewOrder \in OrderRow /\ NewOrder.status = "pending_payment"
      /\ NewOrder.payment = "pending"
  BY DEF NewOrder, OrderRow, OrderStatus
<1>4. /\ \A d \in Charges : pay[d].order # o
      /\ order[o].payment # "paid" /\ receipts[o] = 0
  <2>1. \A d \in Charges : pay[d].order # o
    BY <1>1, OrderIdsAssumption DEF IInv, TypeOK, PaymentsLinked, Payment, NoPayment
  <2>2. ~Collected(o)
    BY <2>1 DEF Collected
  <2> QED
    BY <1>1, <2>1, <2>2 DEF IInv, TypeOK, PaidWasBooked
<1>5. TypeOK'
  BY <1>1, <1>2, <1>3 DEF IInv, TypeOK, ProviderTypeOK, Payment, OrderStatus
<1>r. /\ order'[o] = NewOrder /\ \A p \in OrderIds \ {o} : order'[p] = order[p]
      /\ pay'[c].status = "pending" /\ pay'[c].order = o
      /\ \A d \in Charges \ {c} : pay'[d] = pay[d]
      /\ req'[w] = Idle /\ \A v \in Workers \ {w} : req'[v] = req[v]
  BY <1>1, <1>2 DEF IInv, TypeOK
<1>6. PlacingAlone'
  BY <1>0, <1>1, <1>2, <1>3 DEF IInv, TypeOK, PlacingAlone, Placed, Idle, Started
<1>7. PaymentsLinked'
  <2>1. ASSUME NEW d \in Charges, pay'[d].status # "none"
        PROVE  charge'[d] # "none" /\ order'[pay'[d].order].status # "none"
    <3>1. CASE d = c
      BY <1>1, <1>2, <1>3, <1>r, <3>1
    <3>2. CASE d # c
      <4>1. pay'[d] = pay[d] /\ charge[d] # "none" /\ Placed(pay[d].order)
        BY <1>r, <2>1, <3>2 DEF IInv, PaymentsLinked
      <4>2. pay[d].order \in OrderIds \ {o}
        BY <1>4, <2>1, <4>1 DEF IInv, TypeOK, Payment, NoPayment
      <4> QED
        BY <1>2, <1>r, <4>1, <4>2 DEF Placed
    <3> QED
      BY <3>1, <3>2
  <2>2. ASSUME NEW p \in OrderIds, order'[p].status # "none"
        PROVE  \E d \in Charges : pay'[d].order = p
    <3>1. CASE p = o
      BY <1>1, <1>r, <3>1
    <3>2. CASE p # o
      <4>1. PICK d \in Charges : pay[d].order = p
        BY <1>r, <2>2, <3>2 DEF IInv, PaymentsLinked, Placed
      <4>2. d # c
        BY <1>1, <4>1, OrderIdsAssumption DEF IInv, TypeOK, Payment, NoPayment
      <4> QED
        BY <1>r, <4>1, <4>2
    <3> QED
      BY <3>1, <3>2
  <2>3. ASSUME NEW d \in Charges, NEW e \in Charges, pay'[d].status # "none",
               pay'[d].order = pay'[e].order
        PROVE  d = e
    BY <1>1, <1>4, <1>r, <2>3 DEF IInv, PaymentsLinked
  <2> QED
    BY <2>1, <2>2, <2>3 DEF PaymentsLinked, Placed
<1>8. \A p \in OrderIds : Collected(p) => Collected(p)'
  BY <1>1, <1>2 DEF IInv, TypeOK, Collected
<1>9. \A p \in OrderIds : Collected(p)' => p # o /\ Collected(p)
  BY <1>1, <1>2, <1>4 DEF IInv, TypeOK, Collected
<1>10. BookedAsSettled' /\ PaidWasBooked'
  BY <1>1, <1>2, <1>3, <1>4, <1>8 DEF IInv, TypeOK, BookedAsSettled, PaidWasBooked
<1>11. CopiesHold'
  <2>1. ASSUME NEW v \in Workers \ {w}, req[v].op = "webhook", req[v].seen # "none"
        PROVE  req[v].charge # c /\ req[v].order \in OrderIds \ {o}
    <3>1. /\ req[v].charge \in Charges /\ pay[req[v].charge].status # "none"
          /\ req[v].order = pay[req[v].charge].order
      BY <2>1 DEF IInv, CopiesHold
    <3> QED
      BY <1>1, <1>4, <3>1 DEF IInv, TypeOK, Payment, NoPayment
  <2>2. \A v \in Workers \ {w} :
           req[v].op \in {"advance", "patch"} => req[v].order \in OrderIds \ {o}
    BY <1>1 DEF IInv, CopiesHold
  <2> QED
    BY <1>1, <1>2, <1>8, <1>r, <2>1, <2>2 DEF IInv, CopiesHold, Placed, Idle, Started,
       Settled
<1>12. PaidIffCollected' /\ TrackingAgrees'
  BY <1>1, <1>2, <1>3, <1>8, <1>9 DEF IInv, TypeOK, PaidIffCollected, TrackingAgrees
<1> QED
  BY <1>5, <1>6, <1>7, <1>10, <1>11, <1>12 DEF IInv

(* Staff move an order along: its payment status is left alone.             *)
LEMMA AdvanceCommitKeeps ==
    ASSUME IInv, NEW w \in Workers, AdvanceCommit(w)
    PROVE  IInv'
<1> DEFINE o == req[w].order
<1>1. o \in OrderIds /\ Placed(o) /\ req[w].to \in OrderStatus
  BY DEF AdvanceCommit, IInv, CopiesHold
<1>2. /\ order' = [order EXCEPT ![o].status = req[w].to]
      /\ lastEvent' = [lastEvent EXCEPT ![o] = req[w].to]
      /\ req' = [req EXCEPT ![w] = Idle]
      /\ UNCHANGED <<charge, receipts, pay, undone>>
  BY DEF AdvanceCommit, Finish
<1>3. /\ order[o] \in OrderRow /\ req[w].to # "none"
  BY <1>1, FulfilmentAssumption DEF IInv, TypeOK, Placed, NoOrder, OrderStatus
<1>4. /\ order' = [order EXCEPT ![o] = order'[o]]
      /\ order'[o] \in OrderRow
      /\ order'[o].status = req[w].to /\ order'[o].payment = order[o].payment
  BY <1>1, <1>2, <1>3 DEF IInv, TypeOK, OrderRow
<1>5. TypeOK'
  BY <1>1, <1>2, <1>4 DEF IInv, TypeOK, ProviderTypeOK
<1>6. PlacingAlone' /\ PaymentsLinked'
  BY <1>1, <1>2, <1>3, <1>4 DEF IInv, TypeOK, PlacingAlone, PaymentsLinked, Placed, Idle,
     Started, Payment, NoPayment
<1>7. BookedAsSettled' /\ PaidWasBooked'
  BY <1>1, <1>2, <1>4 DEF IInv, TypeOK, BookedAsSettled, PaidWasBooked, Collected
<1>8. CopiesHold'
  BY <1>1, <1>2, <1>3, <1>4 DEF IInv, TypeOK, CopiesHold, Placed, Idle, Started, Settled,
     Collected
<1>9. PaidIffCollected' /\ TrackingAgrees'
  BY <1>1, <1>2, <1>4 DEF IInv, TypeOK, PaidIffCollected, TrackingAgrees, Collected
<1> QED
  BY <1>5, <1>6, <1>7, <1>8, <1>9 DEF IInv

(* A bare PATCH writes its copy back, and undoes what is newer.             *)
LEMMA PatchCommitKeeps ==
    ASSUME IInv, NEW w \in Workers, PatchCommit(w)
    PROVE  IInv'
<1> DEFINE o == req[w].order
           r == req[w].row
<1>1. /\ o \in OrderIds /\ Placed(o) /\ r \in OrderRow
      /\ r.payment = "paid" => Collected(o)
  BY DEF PatchCommit, IInv, CopiesHold
<1>2. /\ order' = [order EXCEPT ![o] = r]
      /\ undone' = IF order' = order THEN undone ELSE undone \cup {o}
      /\ req' = [req EXCEPT ![w] = Idle]
      /\ UNCHANGED <<charge, lastEvent, receipts, pay>>
  BY DEF PatchCommit, Finish
<1>3. r.status # "none"
  BY <1>1, FulfilmentAssumption DEF OrderRow, OrderStatus
<1>4. TypeOK'
  BY <1>1, <1>2 DEF IInv, TypeOK, ProviderTypeOK
<1>5. PlacingAlone' /\ PaymentsLinked'
  BY <1>1, <1>2, <1>3 DEF IInv, TypeOK, PlacingAlone, PaymentsLinked, Placed, Idle,
     Started, Payment, NoPayment
<1>6. BookedAsSettled' /\ PaidWasBooked'
  BY <1>1, <1>2 DEF IInv, TypeOK, BookedAsSettled, PaidWasBooked, Collected
<1>7. CopiesHold'
  BY <1>1, <1>2, <1>3 DEF IInv, TypeOK, CopiesHold, Placed, Idle, Started, Settled,
     Collected
<1>8. PaidIffCollected' /\ TrackingAgrees'
  BY <1>1, <1>2 DEF IInv, TypeOK, PaidIffCollected, TrackingAgrees, Collected
<1> QED
  BY <1>4, <1>5, <1>6, <1>7, <1>8 DEF IInv

(* What a callback says is what the provider says, whichever provider it    *)
(* comes from.                                                              *)
LEMMA CallbackSays ==
    ASSUME NEW c \in Charges, Settled(c)
    PROVE  /\ Succeeds(c) <=> charge[c] = "paid"
           /\ Fails(c) <=> charge[c] = "declined"
<1>1. CASE Via[c] = "stripe"
  BY <1>1 DEF Succeeds, Fails, EventOf, StripeEvent, Settled
<1>2. CASE Via[c] = "mpesa"
  BY <1>2 DEF Succeeds, Fails, EventOf, MpesaEvent, Settled
<1>3. CASE Via[c] = "sasapay"
  BY <1>3 DEF Succeeds, Fails, EventOf, SasaPayEvent, Settled
<1> QED
  BY <1>1, <1>2, <1>3, ViaAssumption

(* A success is booked and its order marked paid, unless the copy was.      *)
LEMMA WebhookSucceedKeeps ==
    ASSUME IInv, NEW w \in Workers, WebhookSucceed(w)
    PROVE  IInv'
<1>0. PICK o, c : o = req[w].order /\ c = req[w].charge
  OBVIOUS
<1>1. /\ c \in Charges /\ charge[c] = "paid" /\ pay[c] \in Payment
      /\ o = pay[c].order /\ o \in OrderIds /\ Placed(o) /\ order[o] \in OrderRow
      /\ req[w].row.payment = "paid" /\ o \notin undone => order[o].payment = "paid"
  <2>1. /\ c \in Charges /\ pay[c].status # "none" /\ o = pay[c].order
        /\ req[w].row.payment = "paid" /\ o \notin undone => order[o].payment = "paid"
    BY <1>0 DEF WebhookSucceed, IInv, CopiesHold
  <2>2. charge[c] = "paid"
    BY <1>0, CallbackSays DEF WebhookSucceed, IInv, CopiesHold
  <2>3. pay[c] \in Payment
    BY <2>1 DEF IInv, TypeOK, NoPayment
  <2>4. o \in OrderIds /\ Placed(o)
    BY <2>1, <2>3 DEF IInv, PaymentsLinked, Payment
  <2>5. order[o] \in OrderRow
    BY <2>4 DEF IInv, TypeOK, Placed, NoOrder
  <2> QED
    BY <2>1, <2>2, <2>3, <2>4, <2>5
<1>2. /\ pay' = [pay EXCEPT ![c].status = "successful"]
      /\ req' = [req EXCEPT ![w] = Idle]
      /\ UNCHANGED <<charge, undone>>
      /\ receipts[o] < MaxReceipts
  BY <1>0 DEF WebhookSucceed, Finish
<1>3. /\ pay' = [pay EXCEPT ![c] = pay'[c]]
      /\ pay'[c] \in Payment /\ pay'[c].status = "successful" /\ pay'[c].order = o
  BY <1>1, <1>2 DEF IInv, TypeOK, Payment
<1>4. /\ order' = [order EXCEPT ![o] = order'[o]]
      /\ lastEvent' = [lastEvent EXCEPT ![o] = lastEvent'[o]]
      /\ receipts' = [receipts EXCEPT ![o] = receipts'[o]]
      /\ order'[o] \in OrderRow /\ lastEvent'[o] \in OrderStatus \cup {"none"}
      /\ receipts'[o] \in 0..MaxReceipts
      /\ o \notin undone => order'[o].payment = "paid"
      /\ o \notin undone => lastEvent'[o] = order'[o].status
  <2>1. CASE req[w].row.payment = "paid"
    <3>1. UNCHANGED <<order, lastEvent, receipts>>
      BY <2>1 DEF WebhookSucceed, MarkPaid
    <3> QED
      BY <1>1, <2>1, <3>1 DEF IInv, TypeOK, TrackingAgrees
  <2>2. CASE req[w].row.payment # "paid"
    <3>1. /\ order' = [order EXCEPT ![o].status = "paid", ![o].payment = "paid"]
          /\ lastEvent' = [lastEvent EXCEPT ![o] = "paid"]
          /\ receipts' = [receipts EXCEPT ![o] = @ + 1]
      BY <1>0, <2>2 DEF WebhookSucceed, MarkPaid
    <3>2. /\ order' = [order EXCEPT ![o] = order'[o]]
          /\ order'[o] \in OrderRow
          /\ order'[o].payment = "paid" /\ order'[o].status = "paid"
      BY <1>1, <3>1 DEF IInv, TypeOK, OrderRow, OrderStatus
    <3>3. receipts'[o] \in 0..MaxReceipts
      BY <1>1, <1>2, <3>1, OrderReceiptsAssumption DEF IInv, TypeOK
    <3> QED
      BY <1>1, <3>1, <3>2, <3>3 DEF IInv, TypeOK, OrderStatus
  <2> QED
    BY <2>1, <2>2
<1>5. TypeOK'
  BY <1>1, <1>2, <1>3, <1>4 DEF IInv, TypeOK, ProviderTypeOK
<1>6. order'[o].status # "none" /\ order[o].status # "none"
  BY <1>1, <1>4, FulfilmentAssumption DEF OrderRow, OrderStatus
<1>r. /\ \A p \in OrderIds \ {o} : order'[p] = order[p]
      /\ \A d \in Charges \ {c} : pay'[d] = pay[d]
      /\ req'[w] = Idle /\ \A v \in Workers \ {w} : req'[v] = req[v]
  BY <1>1, <1>2, <1>3, <1>4 DEF IInv, TypeOK
<1>7. PlacingAlone'
  <2>1. \A p \in OrderIds : ~Placed(p) => order'[p].status = "none"
    BY <1>1, <1>r DEF Placed
  <2>2. \A d \in Charges : pay[d].status = "none" => pay'[d].status = "none"
    BY <1>1, <1>6, <1>r DEF IInv, CopiesHold, Payment
  <2> QED
    BY <1>2, <1>r, <2>1, <2>2 DEF IInv, PlacingAlone, Placed, Idle, Started
<1>8. PaymentsLinked'
  <2>1. \A d \in Charges : pay'[d].order = pay[d].order
    BY <1>1, <1>3, <1>r
  <2>2. \A d \in Charges : pay'[d].status # "none" => pay[d].status # "none"
    BY <1>1, <1>r DEF Payment
  <2>3. \A p \in OrderIds : (order'[p].status # "none") <=> Placed(p)
    BY <1>1, <1>6, <1>r DEF Placed
  <2>4. \A d \in Charges : pay[d].status # "none" => pay[d].order \in OrderIds
    BY DEF IInv, TypeOK, Payment, NoPayment
  <2> QED
    BY <1>2, <2>1, <2>2, <2>3, <2>4 DEF IInv, PaymentsLinked, Placed
<1>9. /\ Collected(o)'
      /\ \A p \in OrderIds : Collected(p) => Collected(p)'
      /\ \A p \in OrderIds : p # o /\ Collected(p)' => Collected(p)
  BY <1>1, <1>3 DEF IInv, TypeOK, Collected
<1>10. BookedAsSettled' /\ PaidWasBooked'
  BY <1>1, <1>2, <1>3, <1>4, <1>9 DEF IInv, TypeOK, BookedAsSettled, PaidWasBooked
<1>11. CopiesHold'
  <2>1. \A d \in Charges : pay[d].status # "none" =>
           /\ pay'[d].status # "none" /\ pay'[d].order = pay[d].order
           /\ pay[d].order \in OrderIds
    BY <1>1, <1>3, <1>r DEF IInv, TypeOK, Payment, NoPayment
  <2>2. \A p \in OrderIds :
           /\ Placed(p) => order'[p].status # "none"
           /\ order[p].payment = "paid" /\ p \notin undone => order'[p].payment = "paid"
    BY <1>4, <1>6, <1>r DEF Placed
  <2> QED
    BY <1>2, <1>9, <1>r, <2>1, <2>2 DEF IInv, CopiesHold, Placed, Idle, Started, Settled
<1>12. PaidIffCollected' /\ TrackingAgrees'
  BY <1>1, <1>2, <1>4, <1>9, <1>r DEF IInv, TypeOK, PaidIffCollected, TrackingAgrees
<1> QED
  BY <1>5, <1>7, <1>8, <1>10, <1>11, <1>12 DEF IInv

(* A failure is booked; the charge was declined, so it was never collected. *)
LEMMA WebhookFailKeeps ==
    ASSUME IInv, NEW w \in Workers, WebhookFail(w)
    PROVE  IInv'
<1> DEFINE c == req[w].charge
<1>1. /\ c \in Charges /\ charge[c] = "declined"
      /\ pay[c] \in Payment /\ pay[c].status # "successful"
  <2>1. c \in Charges /\ Settled(c) /\ pay[c].status # "none"
    BY DEF WebhookFail, IInv, CopiesHold
  <2>2. charge[c] = "declined"
    BY <2>1, CallbackSays DEF WebhookFail
  <2> QED
    BY <2>1, <2>2 DEF IInv, TypeOK, BookedAsSettled, NoPayment
<1>2. /\ pay' = [pay EXCEPT ![c].status = "failed"]
      /\ req' = [req EXCEPT ![w] = Idle]
      /\ UNCHANGED <<charge, order, lastEvent, receipts, undone>>
  BY DEF WebhookFail, Finish
<1>3. /\ pay' = [pay EXCEPT ![c] = pay'[c]]
      /\ pay'[c] \in Payment /\ pay'[c].status = "failed" /\ pay'[c].order = pay[c].order
  BY <1>1, <1>2 DEF IInv, TypeOK, Payment
<1>4. \A p : Collected(p)' <=> Collected(p)
  BY <1>1, <1>3 DEF IInv, TypeOK, Collected
<1>5. TypeOK'
  BY <1>1, <1>2, <1>3 DEF IInv, TypeOK, ProviderTypeOK
<1>6. PlacingAlone' /\ PaymentsLinked'
  BY <1>1, <1>2, <1>3 DEF IInv, TypeOK, PlacingAlone, PaymentsLinked, Placed, Idle,
     Started, Payment, WebhookFail
<1>7. BookedAsSettled' /\ PaidWasBooked'
  BY <1>1, <1>2, <1>3, <1>4 DEF IInv, TypeOK, BookedAsSettled, PaidWasBooked
<1>8. CopiesHold'
  BY <1>1, <1>2, <1>3, <1>4 DEF IInv, TypeOK, CopiesHold, Placed, Idle, Started, Settled
<1>9. PaidIffCollected' /\ TrackingAgrees'
  BY <1>2, <1>4 DEF IInv, PaidIffCollected, TrackingAgrees
<1> QED
  BY <1>5, <1>6, <1>7, <1>8, <1>9 DEF IInv

-----------------------------------------------------------------------------
LEMMA InitEstablishes == Init => IInv
<1> SUFFICES ASSUME Init PROVE IInv
  OBVIOUS
<1>1. TypeOK
  BY OrderReceiptsAssumption DEF Init, ProviderInit, TypeOK, ProviderTypeOK, ChargeStatus
<1>2. PlacingAlone /\ CopiesHold
  BY DEF Init, PlacingAlone, CopiesHold, Idle, Started
<1>3. PaymentsLinked /\ BookedAsSettled /\ PaidWasBooked
  BY DEF Init, PaymentsLinked, BookedAsSettled, PaidWasBooked, NoPayment, Placed, NoOrder
<1>4. PaidIffCollected /\ TrackingAgrees
  BY DEF Init, PaidIffCollected, TrackingAgrees, NoOrder, Collected, NoPayment
<1> QED
  BY <1>1, <1>2, <1>3, <1>4 DEF IInv

LEMMA StutterKeeps ==
    ASSUME IInv, UNCHANGED orderVars
    PROVE  IInv'
BY DEF IInv, orderVars, TypeOK, ProviderTypeOK, PlacingAlone, PaymentsLinked,
   BookedAsSettled, PaidWasBooked, CopiesHold, PaidIffCollected, TrackingAgrees,
   Placed, Collected, Settled

(* The invariant holds in every reachable state.                            *)
THEOREM Invariance == Spec => []IInv
<1>1. ASSUME IInv, [Next]_orderVars
      PROVE  IInv'
  <2>1. CASE ProviderStep
    BY <1>1, <2>1, ProviderStepKeeps
  <2>2. ASSUME NEW w \in Workers, RequestStep(w)
        PROVE  IInv'
    <3>1. CASE PlaceBegin(w) \/ AdvanceBegin(w) \/ PatchBegin(w) \/ WebhookBegin(w)
      BY <1>1, <3>1, BeginKeeps
    <3>2. CASE Abort(w) \/ WebhookIgnore(w)
      BY <1>1, <3>2, GiveUpKeeps DEF Abort, WebhookIgnore
    <3>3. CASE PlaceCharge(w)
      BY <1>1, <3>3, PlaceChargeKeeps
    <3>4. CASE PlaceCommit(w)
      BY <1>1, <3>4, PlaceCommitKeeps
    <3>5. CASE AdvanceCommit(w)
      BY <1>1, <3>5, AdvanceCommitKeeps
    <3>6. CASE PatchCommit(w)
      BY <1>1, <3>6, PatchCommitKeeps
    <3>7. CASE WebhookSucceed(w)
      BY <1>1, <3>7, WebhookSucceedKeeps
    <3>8. CASE WebhookFail(w)
      BY <1>1, <3>8, WebhookFailKeeps
    <3> QED
      BY <2>2, <3>1, <3>2, <3>3, <3>4, <3>5, <3>6, <3>7, <3>8 DEF RequestStep
  <2>3. CASE UNCHANGED orderVars
    BY <1>1, <2>3, StutterKeeps
  <2> QED
    BY <1>1, <2>1, <2>2, <2>3 DEF Next
<1> QED
  BY <1>1, InitEstablishes, PTL DEF Spec

(* An order paid, or logged as paid, was collected by the provider, whatever *)
(* PATCHes do (_mark_order_paid, OrderViewSet).                        *)
THEOREM PaidOnlyIfCollected == Spec => []PaidMeansCollected
<1>1. IInv => PaidMeansCollected
  BY DEF IInv, PaidWasBooked, BookedAsSettled, Collected, PaidMeansCollected
<1> QED
  BY <1>1, Invariance, PTL

(* Order, charge and Payment are created together or not at all             *)
(* (OrderViewSet.create under ATOMIC_REQUESTS).                             *)
THEOREM PlacedPayable == Spec => []PlacedIsPayable
<1>1. IInv => PlacedIsPayable
  BY OrderIdsAssumption
     DEF IInv, TypeOK, PaymentsLinked, PlacedIsPayable, Payment, NoPayment
<1> QED
  BY <1>1, Invariance, PTL

(* Unless a PATCH undid it, an order is paid exactly when its Payment succeeded      *)
(* (_mark_order_paid, advance_status).                                      *)
THEOREM PaidExactly == Spec => []PaidIffCollected
<1>1. IInv => PaidIffCollected
  BY DEF IInv
<1> QED
  BY <1>1, Invariance, PTL

(* Unless a PATCH undid it, the tracking page shows the order's status               *)
(* (advance_status, _mark_order_paid).                                      *)
THEOREM TrackingExact == Spec => []TrackingAgrees
<1>1. IInv => TrackingAgrees
  BY DEF IInv
<1> QED
  BY <1>1, Invariance, PTL

(* Orders, Payments, events and the requests in flight stay well formed     *)
(* (apps/orders, start_order_checkout).                                     *)
THEOREM TypeCorrect == Spec => []TypeOK
<1>1. IInv => TypeOK
  BY DEF IInv
<1> QED
  BY <1>1, Invariance, PTL
-----------------------------------------------------------------------------
(* The refinement of Ledger.                                                *)

(* The Payment table as the ledger's books.                                 *)
BookOf == [c \in Charges |-> pay[c].status]

LEMMA OtherStepStutters ==
    ASSUME UNCHANGED <<charge, pay>>
    PROVE  UNCHANGED Books!ledgerVars
BY DEF Books!ledgerVars

(* Whatever the handler read, writing an outcome to a Payment either books  *)
(* it or repeats what is booked.                                            *)
LEMMA OutcomeBooksOnce ==
    ASSUME IInv, NEW c \in Charges, charge[c] \in {"paid", "declined"},
           pay[c].status # "none",
           NEW st, st = IF charge[c] = "paid" THEN "successful" ELSE "failed",
           pay' = [pay EXCEPT ![c].status = st], charge' = charge
    PROVE  [Books!Next]_(Books!ledgerVars)
<1>1. /\ pay \in [Charges -> Payment \cup {NoPayment}]
      /\ pay[c] \in Payment
      /\ pay[c].status \in {"pending", "successful", "failed"}
  BY DEF IInv, TypeOK, NoPayment, Payment
<1>2. CASE pay[c].status = "pending"
  <2>1. BookOf' = [BookOf EXCEPT ![c] = st]
    <3>1. \A d \in Charges : pay'[d].status = IF d = c THEN st ELSE pay[d].status
      BY <1>1 DEF Payment
    <3> QED
      BY <3>1, Zenon DEF BookOf
  <2>2. BookOf[c] = "pending"
    BY <1>2 DEF BookOf
  <2>3. Books!Book(c)
    BY <2>1, <2>2 DEF Books!Book, Books!Verdict, BookOf
  <2> QED
    BY <2>3 DEF Books!Next
<1>3. CASE pay[c].status # "pending"
  <2>1. pay[c].status = st
    BY <1>1, <1>3 DEF IInv, BookedAsSettled
  <2>2. pay' = pay
    BY <1>1, <2>1 DEF Payment
  <2> QED
    BY <2>2, OtherStepStutters
<1> QED
  BY <1>2, <1>3

LEMMA PlacingRecords ==
    ASSUME IInv, NEW w \in Workers, PlaceCommit(w)
    PROVE  Books!Next
<1>1. PICK k \in Charges :
         /\ charge[k] # "none" /\ pay[k].status = "none" /\ charge' = charge
         /\ pay' = [pay EXCEPT ![k] = [status |-> "pending", order |-> req[w].order]]
  BY DEF PlaceCommit, IInv, PlacingAlone
<1>2. BookOf' = [BookOf EXCEPT ![k] = "pending"]
  BY <1>1 DEF BookOf, IInv, TypeOK
<1>3. BookOf[k] = "none"
  BY <1>1 DEF BookOf
<1>4. Books!Record(k)
  BY <1>1, <1>2, <1>3 DEF Books!Record, BookOf
<1> QED
  BY <1>4 DEF Books!Next

LEMMA ChargeMoves ==
    ASSUME IInv, NEW c \in Charges, OpenCharge(c) \/ SettleCharge(c), UNCHANGED pay
    PROVE  Books!Next
<1>1. Books!Ask(c) \/ Books!Settle(c)
  BY DEF OpenCharge, StripeSession, MpesaPush, SasaPayCheckout, Asked, SettleCharge,
     Books!Ask, Books!Settle
<1> QED
  BY <1>1 DEF Books!Next

LEMMA WebhookBooks ==
    ASSUME IInv, NEW w \in Workers, WebhookSucceed(w) \/ WebhookFail(w)
    PROVE  [Books!Next]_(Books!ledgerVars)
<1> DEFINE k == req[w].charge
<1>1. /\ k \in Charges /\ charge[k] \in {"paid", "declined"} /\ pay[k].status # "none"
      /\ Succeeds(k) <=> charge[k] = "paid"
      /\ Fails(k) <=> charge[k] = "declined"
  BY CallbackSays DEF WebhookSucceed, WebhookFail, IInv, CopiesHold, Settled
<1>2. /\ pay' = [pay EXCEPT ![k].status =
                    IF charge[k] = "paid" THEN "successful" ELSE "failed"]
      /\ charge' = charge
  BY <1>1 DEF WebhookSucceed, WebhookFail
<1> QED
  BY <1>1, <1>2, OutcomeBooksOnce

LEMMA StepImplements ==
    ASSUME IInv, [Next]_orderVars
    PROVE  [Books!Next]_(Books!ledgerVars)
<1>1. ASSUME NEW w \in Workers, PlaceCharge(w)
      PROVE  Books!Next
  BY <1>1, ChargeMoves DEF PlaceCharge
<1>2. CASE ProviderStep
  BY <1>2, ChargeMoves DEF ProviderStep
<1>3. ASSUME NEW w \in Workers, RequestStep(w), ~WebhookSucceed(w), ~WebhookFail(w),
             ~PlaceCommit(w), ~PlaceCharge(w)
      PROVE  UNCHANGED <<charge, pay>>
  BY <1>3 DEF RequestStep, PlaceBegin, Abort, AdvanceBegin, AdvanceCommit,
     PatchBegin, PatchCommit, WebhookBegin, WebhookIgnore
<1>4. CASE UNCHANGED orderVars
  BY <1>4, OtherStepStutters DEF orderVars
<1> QED
  BY <1>1, <1>2, <1>3, <1>4, PlacingRecords, WebhookBooks, OtherStepStutters DEF Next

(* The Payments of orders keep the ledger's promise: recorded and booked at *)
(* most once, as the provider settled the charge, however many callbacks    *)
(* run at once (start_order_checkout, apply_provider_event).                *)
THEOREM LedgerKept == Spec => KeepsTheLedger
<1>1. Init => Books!Init
  BY DEF Init, ProviderInit, Books!Init, NoPayment
<1>2. IInv /\ [Next]_orderVars => [Books!Next]_(Books!ledgerVars)
  BY StepImplements
<1> QED
  BY <1>1, <1>2, Invariance, PTL DEF Spec, KeepsTheLedger, Books!Spec

-----------------------------------------------------------------------------
(* Callbacks that found their Payment.                                     *)

(* What was booked as paid stays so: the ledger takes nothing back.         *)
LEMMA SuccessStays ==
    ASSUME IInv, [Next]_orderVars, NEW c \in Charges, pay[c].status = "successful"
    PROVE  pay'[c].status = "successful"
<1>1. [Books!Next]_(Books!ledgerVars)
  BY StepImplements
<1>2. BookOf[c] = "successful"
  BY DEF BookOf
<1>3. ASSUME NEW d \in Charges, NEW verdict, BookOf[d] \in {"none", "pending"},
             BookOf' = [BookOf EXCEPT ![d] = verdict]
      PROVE  BookOf'[c] = "successful"
  BY <1>2, <1>3 DEF BookOf
<1>4. \/ UNCHANGED BookOf
      \/ \E d \in Charges, verdict \in {"pending", "successful", "failed"} :
            BookOf[d] \in {"none", "pending"} /\ BookOf' = [BookOf EXCEPT ![d] = verdict]
  BY <1>1 DEF Books!Next, Books!Ask, Books!Settle, Books!Record, Books!Book, Books!Verdict,
     Books!ledgerVars, BookOf
<1>5. BookOf'[c] = "successful"
  BY <1>2, <1>3, <1>4
<1> QED
  BY <1>5 DEF BookOf

(* A callback that read its Payment as paid need not look again.            *)
SeenStands ==
    \A w \in Workers : req[w].op = "webhook" /\ req[w].seen = "successful" =>
        pay[req[w].charge].status = "successful"

LEMMA WebhookKeeps ==
    ASSUME IInv, SeenStands, [Next]_orderVars
    PROVE  SeenStands'
<1> SUFFICES ASSUME NEW w \in Workers, req'[w].op = "webhook", req'[w].seen = "successful"
             PROVE  pay'[req'[w].charge].status = "successful"
  BY DEF SeenStands
<1>1. req \in [Workers -> Request \cup {Idle}]
  BY DEF IInv, TypeOK
<1>2. CASE req'[w] = req[w]
  <2>1. req[w].charge \in Charges /\ pay[req[w].charge].status = "successful"
    BY <1>2 DEF SeenStands, IInv, CopiesHold
  <2> QED
    BY <1>2, <2>1, SuccessStays
<1>3. CASE req'[w] # req[w]
  <2>1. PICK v \in Workers : RequestStep(v)
    BY <1>3 DEF Next, orderVars, ProviderStep
  <2>2. CASE WebhookBegin(v)
    <3>1. PICK c \in Charges :
              req' = [req EXCEPT ![v] =
                  IF Found(c) = NoPayment
                  THEN Started("webhook", "none", NoOrder, c, "none", "none")
                  ELSE Started("webhook", pay[c].order, order[pay[c].order], c,
                               pay[c].status, "none")]
      BY <2>2 DEF WebhookBegin, Start
    <3>2. pay' = pay
      BY <2>2 DEF WebhookBegin
    <3>3. req'[w] = IF Found(c) = NoPayment
                    THEN Started("webhook", "none", NoOrder, c, "none", "none")
                    ELSE Started("webhook", pay[c].order, order[pay[c].order], c,
                                 pay[c].status, "none")
      BY <1>1, <1>3, <3>1
    <3>4. pay[c].status = "successful" /\ req'[w].charge = c
      BY <3>3 DEF Started
    <3> QED
      BY <3>2, <3>4
  <2>3. CASE PlaceCommit(v) \/ Abort(v) \/ AdvanceCommit(v) \/ PatchCommit(v)
             \/ WebhookIgnore(v) \/ WebhookSucceed(v) \/ WebhookFail(v)
    <3>1. req' = [req EXCEPT ![v] = Idle]
      BY <2>3 DEF PlaceCommit, Abort, AdvanceCommit, PatchCommit, WebhookIgnore, WebhookSucceed,
         WebhookFail, Finish
    <3> QED
      BY <1>1, <1>3, <3>1 DEF Idle, Started
  <2>4. CASE PlaceCharge(v)
    <3>1. PICK c \in Charges : req' = [req EXCEPT ![v].op = "charged", ![v].charge = c]
      BY <2>4 DEF PlaceCharge
    <3>2. req'[v].op = "charged" /\ \A u \in Workers \ {v} : req'[u] = req[u]
      BY <1>1, <2>4, <3>1 DEF PlaceCharge, Request, Idle, Started
    <3> QED
      BY <1>3, <3>2
  <2>5. CASE PlaceBegin(v) \/ AdvanceBegin(v) \/ PatchBegin(v)
    <3>1. PICK op, o, row, to :
              /\ op \in {"place", "advance", "patch"}
              /\ req' = [req EXCEPT ![v] = Started(op, o, row, "none", "none", to)]
      BY <2>5 DEF PlaceBegin, AdvanceBegin, PatchBegin, Start
    <3> QED
      BY <1>1, <1>3, <3>1 DEF Started
  <2> QED
    BY <2>1, <2>2, <2>3, <2>4, <2>5 DEF RequestStep
<1> QED
  BY <1>2, <1>3

(* A callback that found its Payment leaves it as the provider settled it,   *)
(* and a collected order paid, unless a PATCH undid it.                     *)
FoundIsBooked ==
    \A w \in Workers :
        (WebhookIgnore(w) \/ WebhookSucceed(w) \/ WebhookFail(w)) /\ req[w].seen # "none" =>
            /\ pay'[req[w].charge].status =
                  IF charge[req[w].charge] = "paid" THEN "successful" ELSE "failed"
            /\ charge[req[w].charge] = "paid" =>
                  order'[req[w].order].payment = "paid" \/ req[w].order \in undone'

LEMMA WebhookLeavesBooked ==
    ASSUME IInv, IInv', SeenStands, NEW w \in Workers, req[w].seen # "none",
           WebhookIgnore(w) \/ WebhookSucceed(w) \/ WebhookFail(w)
    PROVE  /\ pay'[req[w].charge].status =
                 IF charge[req[w].charge] = "paid" THEN "successful" ELSE "failed"
           /\ charge[req[w].charge] = "paid" =>
                 order'[req[w].order].payment = "paid" \/ req[w].order \in undone'
<1>1. req[w].op = "webhook"
  BY DEF WebhookIgnore, WebhookSucceed, WebhookFail
<1> PICK c, o : c = req[w].charge /\ o = req[w].order
  OBVIOUS
<1>2. /\ c \in Charges /\ charge[c] \in {"paid", "declined"} /\ pay[c].status # "none"
      /\ o = pay[c].order
  BY <1>1 DEF IInv, CopiesHold, Settled
<1>3. /\ pay \in [Charges -> Payment \cup {NoPayment}] /\ pay[c] \in Payment
      /\ o \in OrderIds
  BY <1>2 DEF IInv, TypeOK, NoPayment, Payment
<1>4. /\ pay'[c].status = IF charge[c] = "paid" THEN "successful" ELSE "failed"
      /\ pay'[c].order = o
  <2>1. CASE WebhookIgnore(w)
    <3>1. req[w].seen = "successful" /\ pay' = pay
      BY <2>1 DEF WebhookIgnore
    <3>2. pay[c].status = "successful"
      BY <1>1, <3>1 DEF SeenStands
    <3> QED
      BY <1>2, <3>1, <3>2 DEF IInv, BookedAsSettled
  <2>2. CASE WebhookSucceed(w)
    <3>1. charge[c] = "paid" /\ pay' = [pay EXCEPT ![c].status = "successful"]
      BY <1>2, <2>2, CallbackSays DEF WebhookSucceed, Settled
    <3> QED
      BY <1>2, <1>3, <3>1 DEF Payment
  <2>3. CASE WebhookFail(w)
    <3>1. charge[c] # "paid" /\ pay' = [pay EXCEPT ![c].status = "failed"]
      BY <1>2, <2>3, CallbackSays DEF WebhookFail, Settled
    <3> QED
      BY <1>2, <1>3, <3>1 DEF Payment
  <2> QED
    BY <2>1, <2>2, <2>3
<1>5. charge[c] = "paid" => Collected(o)'
  BY <1>2, <1>4 DEF Collected
<1> QED
  BY <1>3, <1>4, <1>5 DEF IInv, PaidIffCollected

(* A callback whose lookup found the order's Payment leaves the Payment as   *)
(* the provider settled it and a collected order paid, however staff and     *)
(* other copies of the callback interleave with it, unless a bare PATCH put  *)
(* the order's old row back (apply_provider_event, _mark_order_paid).        *)
THEOREM FoundCallbacksBook == Spec => [][FoundIsBooked]_orderVars
<1>1. Init => SeenStands
  BY DEF Init, SeenStands, Idle, Started
<1>2. IInv /\ SeenStands /\ [Next]_orderVars => SeenStands'
  BY WebhookKeeps
<1>3. IInv /\ IInv' /\ SeenStands => FoundIsBooked
  BY WebhookLeavesBooked DEF FoundIsBooked
<1> QED
  BY <1>1, <1>2, <1>3, Invariance, PTL DEF Spec
=============================================================================
