------------------------------ MODULE Provider ------------------------------
(***************************************************************************)
(* The payment providers (Stripe Checkout, M-Pesa STK push, SasaPay) as    *)
(* apps/billing/providers sees them.  A checkout asks for a charge and     *)
(* gets back its reference; the customer later pays or declines; from then *)
(* on the provider may call the webhook any number of times, with the same *)
(* outcome each time, or never.  A charge is settled as soon as it exists  *)
(* on the provider's side, which is before the request that asked for it   *)
(* has committed.                                                          *)
(***************************************************************************)
EXTENDS Integers, FiniteSets

CONSTANTS
    Charges,     \* provider references: session ids, CheckoutRequestIDs
    Via          \* the provider each reference belongs to

ASSUME ViaAssumption == Via \in [Charges -> {"stripe", "mpesa", "sasapay"}]

VARIABLE charge      \* the provider's own record of each charge

ChargeStatus == {"none", "open", "paid", "declined"}

ProviderTypeOK == charge \in [Charges -> ChargeStatus]

ProviderInit == charge = [c \in Charges |-> "none"]

-----------------------------------------------------------------------------
(* create_subscription and create_charge: the provider answers with a fresh *)
(* reference c.                                                            *)
Asked(c) ==
    /\ charge[c] = "none"
    /\ charge' = [charge EXCEPT ![c] = "open"]

(* A Checkout session, for a subscription or for one payment.               *)
StripeSession(c) == Via[c] = "stripe" /\ Asked(c)

(* A prompt on the customer's phone, for one period or one order.           *)
MpesaPush(c) == Via[c] = "mpesa" /\ Asked(c)
SasaPayCheckout(c) == Via[c] = "sasapay" /\ Asked(c)

OpenCharge(c) == StripeSession(c) \/ MpesaPush(c) \/ SasaPayCheckout(c)

(* The customer enters the PIN or completes the checkout page, or does not. *)
SettleCharge(c) ==
    /\ charge[c] = "open"
    /\ \E outcome \in {"paid", "declined"} :
          charge' = [charge EXCEPT ![c] = outcome]

Settled(c) == charge[c] \in {"paid", "declined"}

-----------------------------------------------------------------------------
(* What each handle_webhook makes of a callback about c: the event's type   *)
(* and the object its reference names.                                      *)

(* MUTANT of StripeEvent: every event about a session is its completion.    *)
StripeEventAlways(c) == [type |-> "checkout.session.completed", names |-> "charge"]

(* Stripe's own event: the session says it is completed, but a payment that *)
(* fails is told by its invoice, whose id no Payment carries.               *)
StripeEvent(c) ==
    IF charge[c] = "paid"
    THEN [type |-> "checkout.session.completed", names |-> "charge"]
    ELSE [type |-> "invoice.payment_failed", names |-> "invoice"]

(* MUTANT of MpesaEvent: the ResultCode test inverted.                      *)
MpesaEventInverted(c) ==
    [type |-> IF charge[c] = "paid" THEN "payment.failed" ELSE "payment.successful",
     names |-> "charge"]

(* The STK callback: ResultCode 0 is a success.                             *)
MpesaEvent(c) ==
    [type |-> IF charge[c] = "paid" THEN "payment.successful" ELSE "payment.failed",
     names |-> "charge"]

(* MUTANT of SasaPayEvent: the ResultCode, a string here, is compared to 0, *)
(* so that no callback is a success.                                        *)
SasaPayEventUnparsed(c) == [type |-> "payment.failed", names |-> "charge"]

(* The same, with the ResultCode as a string.                               *)
SasaPayEvent(c) ==
    [type |-> IF charge[c] = "paid" THEN "payment.successful" ELSE "payment.failed",
     names |-> "charge"]

EventOf(c) ==
    CASE Via[c] = "stripe" -> StripeEvent(c)
      [] Via[c] = "mpesa" -> MpesaEvent(c)
      [] Via[c] = "sasapay" -> SasaPayEvent(c)

(* What apply_provider_event takes a callback for.                          *)
Succeeds(c) ==
    EventOf(c).type \in {"payment.successful", "checkout.session.completed",
                         "invoice.paid", "invoice_payment.paid"}
Fails(c) == EventOf(c).type \in {"payment.failed", "invoice.payment_failed"}
=============================================================================
