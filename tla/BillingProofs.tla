---------------------------- MODULE BillingProofs ----------------------------
(***************************************************************************)
(* Proofs about Billing, for any number of tenants, workers, charges,      *)
(* subscriptions and days.                                                 *)
(***************************************************************************)
EXTENDS Billing, TLAPS

-----------------------------------------------------------------------------
(* The inductive invariant.  The properties alone are not inductive: what a *)
(* commit writes depends on what its request read, so the invariant also    *)
(* says what remains true of those copies while others run.                 *)

Editing == {"view", "checkout", "charged", "cancel", "reactivate"}

Inserts(w) == req[w].row # NoRow

ActiveEarned(s) == \E c \in Charges : pay[c].sub = s /\ pay[c].status = "successful"
DunEarned(s) == \E c \in Charges : pay[c].sub = s /\ pay[c].status = "failed"

(* Only one request at a time holds a charge nobody has recorded yet.       *)
ChargesHeld ==
    /\ \A w \in Workers : req[w].op = "charged" =>
          /\ req[w].charge \in Charges
          /\ charge[req[w].charge] # "none"
          /\ pay[req[w].charge] = NoPayment
          /\ req[w].plan \in Plans
    /\ \A w, v \in Workers :
          req[w].op = "charged" /\ req[v].op = "charged" /\ w # v
             => req[w].charge # req[v].charge

(* A recorded payment belongs to a charge and to a committed subscription.  *)
PaymentsLinked ==
    \A c \in Charges : pay[c].status # "none" =>
        charge[c] # "none" /\ Exists(pay[c].sub)

(* What a webhook request holds: an outcome, which cannot change any more,  *)
(* and the subscription of the Payment it found.                            *)
WebhooksLinked ==
    \A w \in Workers : req[w].op = "webhook" =>
        /\ req[w].charge \in Charges
        /\ charge[req[w].charge] \in {"paid", "declined"}
        /\ req[w].seen # "none" =>
              /\ pay[req[w].charge].status # "none"
              /\ req[w].sub = pay[req[w].charge].sub

(* Row numbers are handed out once.                                         *)
RowsFresh ==
    /\ \A s \in Subs : Exists(s) => s <= lastSub
    /\ \A w \in Workers : req[w].op \in Editing =>
          /\ req[w].sub \in Subs
          /\ req[w].sub <= lastSub
          /\ Inserts(w) <=> ~Exists(req[w].sub)
    /\ \A w, v \in Workers :
          (/\ req[w].op \in Editing /\ req[v].op \in Editing
           /\ Inserts(w) /\ Inserts(v) /\ w # v)
             => req[w].sub # req[v].sub

(* A row being inserted is a trial on the free plan.                        *)
InsertsAreTrials ==
    \A w \in Workers : req[w].op \in Editing /\ Inserts(w) =>
        /\ req[w].row \in Row
        /\ req[w].row.status = "trialing"
        /\ req[w].row.plan = FreePlan
        /\ req[w].row.trialEnd <= day + TrialDays
        /\ req[w].row.trialEnd <= req[w].row.periodEnd

(* The status a reactivation will write back was earned when it was read.   *)
CopiesEarned ==
    \A w \in Workers : req[w].op = "reactivate" =>
        /\ req[w].seen \in Live
        /\ req[w].seen = "active" => ActiveEarned(req[w].sub)
        /\ req[w].seen = "past_due" => DunEarned(req[w].sub)

(* A period never ends before the trial it follows.                         *)
PeriodsCoverTrials ==
    \A s \in Subs :
        /\ sub[s].trialEnd <= sub[s].periodEnd
        /\ sub[s].trialEnd <= day + TrialDays

(* The daily tasks hold only rows whose trial is over.                      *)
TaskRowsOver ==
    \A s \in lapse.rows \cup expired : Exists(s) /\ sub[s].trialEnd < day

IInv ==
    /\ TypeOK
    /\ ChargesHeld /\ PaymentsLinked /\ WebhooksLinked
    /\ RowsFresh /\ InsertsAreTrials /\ CopiesEarned
    /\ PeriodsCoverTrials /\ TaskRowsOver
    /\ AgreesWithProvider /\ StatusEarned /\ TrialIsGranted /\ PlanWasCharged

-----------------------------------------------------------------------------
(* What an editing request commits: a well-formed row, whose status and     *)
(* plan are either those of a new trial or those now in the table.          *)
LEMMA TargetRow ==
    ASSUME IInv, NEW w \in Workers, req[w].op \in Editing
    PROVE  /\ req[w] \in Request
           /\ req[w].sub \in Subs
           /\ Target(w) \in Row
           /\ Target(w).trialEnd <= Target(w).periodEnd
           /\ Target(w).trialEnd <= day + TrialDays
           /\ Exists(req[w].sub) => Target(w) = sub[req[w].sub]
           /\ ~Exists(req[w].sub) => /\ Target(w).status = "trialing"
                                     /\ Target(w).plan = FreePlan
<1>1. req[w] \in Request /\ req[w].sub \in Subs
  BY DEF IInv, TypeOK, RowsFresh, Editing, Idle, Started
<1>2. CASE Exists(req[w].sub)
  <2>1. Target(w) = sub[req[w].sub]
    BY <1>2 DEF Target, IInv, RowsFresh, Inserts
  <2>2. sub[req[w].sub] \in Row
    BY <1>1, <1>2 DEF IInv, TypeOK, Exists, NoRow
  <2> QED
    BY <1>1, <1>2, <2>1, <2>2 DEF IInv, PeriodsCoverTrials
<1>3. CASE ~Exists(req[w].sub)
  <2>1. Inserts(w) /\ Target(w) = req[w].row
    BY <1>3 DEF Target, IInv, RowsFresh, Inserts
  <2> QED
    BY <1>1, <1>3, <2>1 DEF IInv, InsertsAreTrials
<1> QED
  BY <1>2, <1>3

(* A request starts: on the newest live row, or on a number nobody has.     *)
LEMMA AcquireKeeps ==
    ASSUME IInv, NEW w \in Workers, NEW t \in Tenants,
           NEW op \in {"view", "checkout", "cancel", "reactivate"},
           Acquire(w, t, op)
    PROVE  IInv'
<1>0. /\ req[w].op = "idle"
      /\ UNCHANGED <<charge, sub, pay, answered, notices, lapse, expired, day>>
  BY DEF Acquire
<1>1. CASE \E s \in LiveSubs(t) :
             /\ req' = [req EXCEPT ![w] =
                   Started(op, s, NoRow, "none", Copied(op, sub[s].status))]
             /\ UNCHANGED lastSub
  <2>0. PICK s \in LiveSubs(t) :
             /\ req' = [req EXCEPT ![w] =
                   Started(op, s, NoRow, "none", Copied(op, sub[s].status))]
             /\ UNCHANGED lastSub
    BY <1>1
  <2>s. s \in Subs /\ Exists(s) /\ s <= lastSub /\ sub[s].status \in Live
    BY DEF LiveSubs, IInv, RowsFresh, Exists, Live
  <2>r. /\ req' = [req EXCEPT ![w] = req'[w]]
        /\ req'[w].op = op /\ req'[w].sub = s /\ req'[w].row = NoRow
        /\ req'[w].charge = "none" /\ req'[w].plan = "none"
        /\ req'[w].seen = Copied(op, sub[s].status)
        /\ req'[w] \in Request
    <3> DEFINE q == Started(op, s, NoRow, "none", Copied(op, sub[s].status))
    <3>2. req'[w] = q /\ req' = [req EXCEPT ![w] = req'[w]]
      BY <2>0 DEF IInv, TypeOK
    <3>3. q \in Request
      <4>1. Copied(op, sub[s].status) \in Live \cup {"none"}
        BY <2>s DEF Copied
      <4> QED
        BY <2>s, <4>1 DEF Request, Subs, Started
    <3> QED
      BY <3>2, <3>3 DEF Started
  <2>1. TypeOK'
    BY <1>0, <2>0, <2>r DEF IInv, TypeOK, ProviderTypeOK
  <2>2. ChargesHeld' /\ PaymentsLinked' /\ WebhooksLinked'
    BY <1>0, <2>r DEF IInv, TypeOK, ChargesHeld, PaymentsLinked, WebhooksLinked, Exists
  <2>3. RowsFresh' /\ InsertsAreTrials'
    BY <1>0, <2>0, <2>s, <2>r DEF IInv, TypeOK, RowsFresh, InsertsAreTrials, Inserts,
       Exists, Editing
  <2>4. CopiesEarned'
    BY <1>0, <2>s, <2>r DEF IInv, TypeOK, CopiesEarned, Copied, StatusEarned,
       ActiveEarned, DunEarned
  <2>5. /\ PeriodsCoverTrials' /\ TaskRowsOver' /\ AgreesWithProvider'
        /\ StatusEarned' /\ TrialIsGranted' /\ PlanWasCharged'
    BY <1>0 DEF IInv, PeriodsCoverTrials, TaskRowsOver, AgreesWithProvider,
       StatusEarned, TrialIsGranted, PlanWasCharged, Exists
  <2> QED
    BY <2>1, <2>2, <2>3, <2>4, <2>5 DEF IInv
<1>2. CASE /\ lastSub < MaxSubs
           /\ lastSub' = lastSub + 1
           /\ req' = [req EXCEPT ![w] =
                 Started(op, lastSub + 1, DefaultRow(t), "none", Copied(op, "trialing"))]
  <2>s. /\ lastSub \in Int /\ lastSub + 1 \in Subs /\ ~Exists(lastSub + 1)
    BY <1>2, BoundsAssumption DEF IInv, TypeOK, RowsFresh, Subs
  <2>d. /\ DefaultRow(t) \in Row /\ DefaultRow(t) # NoRow
        /\ DefaultRow(t).status = "trialing" /\ DefaultRow(t).plan = FreePlan
        /\ DefaultRow(t).trialEnd = day + TrialDays
        /\ DefaultRow(t).periodEnd = day + TrialDays
        /\ day + TrialDays \in Int
    BY PlansAssumption, DaysAssumption, BoundsAssumption
       DEF DefaultRow, Row, NoRow, Live, Days, IInv, TypeOK
  <2>r. /\ req' = [req EXCEPT ![w] = req'[w]]
        /\ req'[w].op = op /\ req'[w].sub = lastSub + 1
        /\ req'[w].row = DefaultRow(t)
        /\ req'[w].seen = Copied(op, "trialing")
        /\ req'[w] \in Request
    <3> DEFINE q == Started(op, lastSub + 1, DefaultRow(t), "none",
                            Copied(op, "trialing"))
    <3>2. req'[w] = q /\ req' = [req EXCEPT ![w] = req'[w]]
      BY <1>2 DEF IInv, TypeOK
    <3>3. q \in Request
      <4>1. Copied(op, "trialing") \in Live \cup {"none"}
        BY DEF Copied, Live
      <4>2. lastSub + 1 \in 0..MaxSubs
        BY <2>s DEF Subs
      <4> HIDE DEF DefaultRow
      <4> QED
        BY <2>d, <4>1, <4>2 DEF Request, Started
    <3> QED
      BY <3>2, <3>3 DEF Started
  <2>1. TypeOK'
    BY <1>0, <1>2, <2>s, <2>r DEF IInv, TypeOK, ProviderTypeOK, Subs
  <2>2. ChargesHeld' /\ PaymentsLinked' /\ WebhooksLinked'
    BY <1>0, <2>r DEF IInv, TypeOK, ChargesHeld, PaymentsLinked, WebhooksLinked, Exists
  <2>3. RowsFresh'
    <3>1. \A s \in Subs : Exists(s) => s <= lastSub + 1
      BY <2>s DEF IInv, RowsFresh, Subs
    <3>2. ASSUME NEW v \in Workers, req'[v].op \in Editing
          PROVE  /\ req'[v].sub \in Subs
                 /\ req'[v].sub <= lastSub + 1
                 /\ (req'[v].row # NoRow) <=> ~Exists(req'[v].sub)
      BY <1>0, <2>s, <2>d, <2>r, <3>2 DEF IInv, TypeOK, RowsFresh, Inserts, Subs
    <3>3. \A v \in Workers :
             v # w /\ req[v].op \in Editing => req[v].sub # lastSub + 1
      BY <2>s DEF IInv, RowsFresh, Subs
    <3> QED
      BY <1>0, <1>2, <2>r, <3>1, <3>2, <3>3 DEF IInv, TypeOK, RowsFresh, Inserts, Exists
  <2>4. InsertsAreTrials'
    BY <1>0, <2>d, <2>r DEF IInv, TypeOK, InsertsAreTrials, Inserts
  <2>5. CopiesEarned'
    BY <1>0, <2>r DEF IInv, TypeOK, CopiesEarned, Copied, ActiveEarned, DunEarned, Live
  <2>6. /\ PeriodsCoverTrials' /\ TaskRowsOver' /\ AgreesWithProvider'
        /\ StatusEarned' /\ TrialIsGranted' /\ PlanWasCharged'
    BY <1>0 DEF IInv, PeriodsCoverTrials, TaskRowsOver, AgreesWithProvider,
       StatusEarned, TrialIsGranted, PlanWasCharged, Exists
  <2> QED
    BY <2>1, <2>2, <2>3, <2>4, <2>5, <2>6 DEF IInv
<1> QED
  BY <1>1, <1>2 DEF Acquire

(* A request that edits only its subscription commits: it writes a row with *)
(* the plan and dates it found, and a status that is the one it found or    *)
(* one that was earned.                                                     *)
LEMMA EditCommitKeeps ==
    ASSUME IInv, NEW w \in Workers, req[w].op \in Editing,
           NEW r \in Row,
           r.plan = Target(w).plan,
           r.trialEnd = Target(w).trialEnd,
           r.periodEnd = Target(w).periodEnd,
           \/ r.status = Target(w).status
           \/ /\ r.status \in Live
              /\ r.status = "active" => ActiveEarned(req[w].sub)
              /\ r.status = "past_due" => DunEarned(req[w].sub),
           sub' = [sub EXCEPT ![req[w].sub] = r],
           Finish(w),
           UNCHANGED <<charge, lastSub, pay, answered, notices, lapse, expired, day>>
    PROVE  IInv'
<1> DEFINE s == req[w].sub
<1>0. req' = [req EXCEPT ![w] = Idle]
  BY DEF Finish
<1>1. TypeOK'
  BY <1>0, TargetRow DEF IInv, TypeOK, ProviderTypeOK
<1>2. ChargesHeld'
  BY <1>0 DEF IInv, ChargesHeld, TypeOK, Idle, Started
<1>3. PaymentsLinked'
  BY TargetRow DEF IInv, PaymentsLinked, TypeOK, Exists, Row, Live, Ended
<1>4. WebhooksLinked'
  BY <1>0 DEF IInv, WebhooksLinked, TypeOK, Idle, Started
<1>5. RowsFresh'
  BY <1>0, TargetRow DEF IInv, RowsFresh, TypeOK, Idle, Started, Inserts, Exists, Editing,
     Row, Live, Ended
<1>6. InsertsAreTrials'
  BY <1>0 DEF IInv, InsertsAreTrials, TypeOK, Idle, Started, Inserts, Editing
<1>7. CopiesEarned'
  BY <1>0 DEF IInv, CopiesEarned, TypeOK, Idle, Started, ActiveEarned, DunEarned
<1>8. PeriodsCoverTrials'
  BY TargetRow DEF IInv, PeriodsCoverTrials, TypeOK
<1>9. TaskRowsOver'
  <2>1. lapse.rows \cup expired \subseteq Subs
    BY DEF IInv, TypeOK
  <2> QED
    BY <2>1, TargetRow DEF IInv, TaskRowsOver, TypeOK, Exists, Row, Live, Ended
<1>10. AgreesWithProvider'
  BY DEF IInv, AgreesWithProvider
<1>11. StatusEarned'
  BY TargetRow DEF IInv, StatusEarned, TypeOK, ActiveEarned, DunEarned
<1>12. TrialIsGranted'
  BY TargetRow DEF IInv, TrialIsGranted, TypeOK, Ended, Live
<1>13. PlanWasCharged'
  BY TargetRow DEF IInv, PlanWasCharged, TypeOK, Exists
<1> QED
  BY <1>1, <1>2, <1>3, <1>4, <1>5, <1>6, <1>7, <1>8, <1>9, <1>10, <1>11, <1>12, <1>13
     DEF IInv

LEMMA ViewCommitKeeps ==
    ASSUME IInv, NEW w \in Workers, ViewCommit(w)
    PROVE  IInv'
<1>1. req[w].op \in Editing
  BY DEF ViewCommit, Editing
<1> QED
  BY <1>1, TargetRow, EditCommitKeeps DEF ViewCommit

LEMMA CancelCommitKeeps ==
    ASSUME IInv, NEW w \in Workers, CancelCommit(w)
    PROVE  IInv'
<1> DEFINE r == [Target(w) EXCEPT !.cancel = TRUE]
<1>1. req[w].op \in Editing
  BY DEF CancelCommit, Editing
<1>2. /\ r \in Row /\ r.plan = Target(w).plan /\ r.status = Target(w).status
      /\ r.trialEnd = Target(w).trialEnd /\ r.periodEnd = Target(w).periodEnd
  BY <1>1, TargetRow DEF Row
<1> QED
  BY <1>1, <1>2, EditCommitKeeps DEF CancelCommit

LEMMA ReactivateCommitKeeps ==
    ASSUME IInv, NEW w \in Workers, ReactivateCommit(w)
    PROVE  IInv'
<1> DEFINE r == [Target(w) EXCEPT !.cancel = FALSE,
                                  !.status = Reactivated(req[w].seen)]
<1>1. req[w].op \in Editing /\ req[w].op = "reactivate"
  BY DEF ReactivateCommit, Editing
<1>2. Reactivated(req[w].seen) = req[w].seen /\ req[w].seen \in Live
  BY <1>1 DEF IInv, CopiesEarned, Reactivated, Live
<1>3. /\ r \in Row /\ r.plan = Target(w).plan /\ r.status = req[w].seen
      /\ r.trialEnd = Target(w).trialEnd /\ r.periodEnd = Target(w).periodEnd
  BY <1>1, <1>2, TargetRow DEF Row
<1>4. /\ r.status = "active" => ActiveEarned(req[w].sub)
      /\ r.status = "past_due" => DunEarned(req[w].sub)
  BY <1>1, <1>3 DEF IInv, CopiesEarned
<1> QED
  BY <1>1, <1>2, <1>3, <1>4, EditCommitKeeps DEF ReactivateCommit

(* A day passes: every deadline that was over stays over.                   *)
LEMMA TickKeeps ==
    ASSUME IInv, Tick
    PROVE  IInv'
<1>0. /\ day \in Int /\ day < MaxDay /\ day' = day + 1
      /\ UNCHANGED <<charge, sub, lastSub, pay, answered, notices, req, lapse, expired>>
  BY DEF Tick, IInv, TypeOK
<1>1. TypeOK'
  BY <1>0, BoundsAssumption DEF IInv, TypeOK, ProviderTypeOK
<1>2. ChargesHeld' /\ PaymentsLinked' /\ WebhooksLinked' /\ RowsFresh' /\ CopiesEarned'
  BY <1>0 DEF IInv, ChargesHeld, PaymentsLinked, WebhooksLinked, RowsFresh,
     CopiesEarned, Inserts, Exists, ActiveEarned, DunEarned
<1>3. InsertsAreTrials'
  BY <1>0, DaysAssumption, BoundsAssumption
     DEF IInv, InsertsAreTrials, Inserts, Row, Days
<1>4. PeriodsCoverTrials'
  <2> SUFFICES ASSUME NEW s \in Subs
               PROVE  /\ sub[s].trialEnd <= sub[s].periodEnd
                      /\ sub[s].trialEnd <= day + 1 + TrialDays
    BY <1>0 DEF PeriodsCoverTrials
  <2>1. sub[s].trialEnd \in Int
    BY BoundsAssumption, DaysAssumption DEF IInv, TypeOK, Row, NoRow, Days
  <2> QED
    BY <1>0, <2>1, DaysAssumption DEF IInv, PeriodsCoverTrials
<1>5. TaskRowsOver' /\ TrialIsGranted'
  <2>1. \A s \in Subs : sub[s].trialEnd \in Int
    BY BoundsAssumption, DaysAssumption DEF IInv, TypeOK, Row, NoRow, Days
  <2>2. lapse.rows \cup expired \subseteq Subs
    BY DEF IInv, TypeOK
  <2> QED
    BY <1>0, <2>1, <2>2 DEF IInv, TaskRowsOver, TrialIsGranted, Exists
<1>6. AgreesWithProvider' /\ StatusEarned' /\ PlanWasCharged'
  BY <1>0 DEF IInv, AgreesWithProvider, StatusEarned, PlanWasCharged, Exists
<1> QED
  BY <1>1, <1>2, <1>3, <1>4, <1>5, <1>6 DEF IInv

(* The customer's decision: an open charge is nobody's outcome yet.         *)
LEMMA ProviderStepKeeps ==
    ASSUME IInv, ProviderStep
    PROVE  IInv'
<1>0. PICK c \in Charges, outcome \in {"paid", "declined"} :
        /\ charge[c] = "open"
        /\ charge' = [charge EXCEPT ![c] = outcome]
  BY DEF ProviderStep, SettleCharge
<1>u. UNCHANGED <<sub, lastSub, pay, answered, notices, req, lapse, expired, day>>
  BY DEF ProviderStep
<1>1. TypeOK'
  BY <1>0, <1>u DEF IInv, TypeOK, ProviderTypeOK, ChargeStatus
<1>2. ChargesHeld' /\ PaymentsLinked' /\ WebhooksLinked'
  BY <1>0, <1>u DEF IInv, TypeOK, ProviderTypeOK, ChargesHeld, PaymentsLinked,
     WebhooksLinked, Exists
<1>3. AgreesWithProvider'
  BY <1>0, <1>u DEF IInv, TypeOK, ProviderTypeOK, AgreesWithProvider
<1>4. /\ RowsFresh' /\ InsertsAreTrials' /\ CopiesEarned' /\ PeriodsCoverTrials'
      /\ TaskRowsOver' /\ StatusEarned' /\ TrialIsGranted' /\ PlanWasCharged'
  BY <1>u DEF IInv, RowsFresh, InsertsAreTrials, CopiesEarned, PeriodsCoverTrials,
     TaskRowsOver, StatusEarned, TrialIsGranted, PlanWasCharged, Inserts, Exists,
     ActiveEarned, DunEarned
<1> QED
  BY <1>1, <1>2, <1>3, <1>4 DEF IInv

(* The provider answers a checkout with a charge that is nobody else's.     *)
LEMMA CheckoutChargeKeeps ==
    ASSUME IInv, NEW w \in Workers, CheckoutCharge(w)
    PROVE  IInv'
<1>0. PICK c \in Charges, plan \in Plans :
        /\ charge[c] = "none"
        /\ charge' = [charge EXCEPT ![c] = "open"]
        /\ req' = [req EXCEPT ![w].op = "charged", ![w].charge = c, ![w].plan = plan]
  BY DEF CheckoutCharge, OpenCharge, StripeSession, MpesaPush, SasaPayCheckout, Asked
<1>u. /\ req[w].op = "checkout"
      /\ UNCHANGED <<sub, lastSub, pay, answered, notices, lapse, expired, day>>
  BY DEF CheckoutCharge
<1>q. /\ req[w] \in Request
      /\ req' = [req EXCEPT ![w] = req'[w]]
      /\ req'[w] \in Request
      /\ req'[w].op = "charged" /\ req'[w].charge = c /\ req'[w].plan = plan
      /\ req'[w].sub = req[w].sub /\ req'[w].row = req[w].row
  <2>1. req[w] \in Request
    BY <1>u DEF IInv, TypeOK, Idle, Started
  <2> QED
    BY <1>0, <2>1 DEF IInv, TypeOK, Request
<1>p. pay[c] = NoPayment
  BY <1>0 DEF IInv, PaymentsLinked, TypeOK, Payment
<1>1. TypeOK'
  BY <1>0, <1>u, <1>q DEF IInv, TypeOK, ProviderTypeOK, ChargeStatus
<1>2. ChargesHeld'
  BY <1>0, <1>u, <1>q, <1>p DEF IInv, TypeOK, ProviderTypeOK, ChargesHeld
<1>3. PaymentsLinked' /\ WebhooksLinked'
  BY <1>0, <1>u, <1>q DEF IInv, TypeOK, ProviderTypeOK, PaymentsLinked,
     WebhooksLinked, Exists
<1>4. RowsFresh'
  BY <1>u, <1>q DEF IInv, TypeOK, RowsFresh, Inserts, Exists, Editing
<1>5. InsertsAreTrials' /\ CopiesEarned'
  BY <1>u, <1>q DEF IInv, TypeOK, InsertsAreTrials, CopiesEarned, Inserts, Editing,
     ActiveEarned, DunEarned
<1>6. AgreesWithProvider'
  BY <1>0, <1>u DEF IInv, TypeOK, ProviderTypeOK, AgreesWithProvider
<1>7. /\ PeriodsCoverTrials' /\ TaskRowsOver' /\ StatusEarned'
      /\ TrialIsGranted' /\ PlanWasCharged'
  BY <1>u DEF IInv, PeriodsCoverTrials, TaskRowsOver, StatusEarned,
     TrialIsGranted, PlanWasCharged, Exists
<1> QED
  BY <1>1, <1>2, <1>3, <1>4, <1>5, <1>6, <1>7 DEF IInv

(* A checkout commits its plan together with the Payment that charges it.   *)
LEMMA CheckoutCommitKeeps ==
    ASSUME IInv, NEW w \in Workers, CheckoutCommit(w)
    PROVE  IInv'
<1> DEFINE s == req[w].sub
           c == req[w].charge
           r == [Target(w) EXCEPT !.plan = req[w].plan]
           p == [status |-> "pending", sub |-> s, plan |-> req[w].plan]
<1>0. /\ req[w].op = "charged" /\ req[w].op \in Editing
      /\ sub' = [sub EXCEPT ![s] = r]
      /\ pay' = [pay EXCEPT ![c] = p]
      /\ req' = [req EXCEPT ![w] = Idle]
      /\ UNCHANGED <<charge, lastSub, answered, notices, lapse, expired, day>>
  BY DEF CheckoutCommit, Finish, Editing
<1>c. /\ c \in Charges /\ charge[c] # "none" /\ pay[c] = NoPayment
      /\ req[w].plan \in Plans /\ s \in Subs
  BY <1>0, TargetRow DEF IInv, ChargesHeld
<1>r. /\ r \in Row /\ r.plan = req[w].plan /\ r.status = Target(w).status
      /\ r.trialEnd = Target(w).trialEnd /\ r.periodEnd = Target(w).periodEnd
  BY <1>0, <1>c, TargetRow DEF Row
<1>p. p \in Payment /\ p.sub = s /\ p.plan = req[w].plan /\ p.status = "pending"
  BY <1>c DEF Payment
<1> HIDE DEF r, p
<1>1. TypeOK'
  BY <1>0, <1>c, <1>r, <1>p DEF IInv, TypeOK, ProviderTypeOK
<1>2. ChargesHeld'
  BY <1>0, <1>c DEF IInv, ChargesHeld, TypeOK, Idle, Started
<1>3. PaymentsLinked'
  BY <1>0, <1>c, <1>r, <1>p DEF IInv, PaymentsLinked, TypeOK, Exists, Row, Live, Ended
<1>4. WebhooksLinked'
  BY <1>0, <1>c, <1>p DEF IInv, WebhooksLinked, TypeOK, Idle, Started, NoPayment
<1>5. RowsFresh'
  BY <1>0, <1>r, TargetRow DEF IInv, RowsFresh, TypeOK, Idle, Started, Inserts, Exists,
     Editing, Row, Live, Ended
<1>6. InsertsAreTrials'
  BY <1>0 DEF IInv, InsertsAreTrials, TypeOK, Idle, Started, Inserts, Editing
<1>7. CopiesEarned'
  BY <1>0, <1>c DEF IInv, CopiesEarned, TypeOK, Idle, Started, ActiveEarned, DunEarned, NoPayment
<1>8. PeriodsCoverTrials'
  BY <1>0, <1>r, TargetRow DEF IInv, PeriodsCoverTrials, TypeOK
<1>9. TaskRowsOver'
  <2>1. lapse.rows \cup expired \subseteq Subs
    BY DEF IInv, TypeOK
  <2> QED
    BY <1>0, <1>r, <2>1, TargetRow DEF IInv, TaskRowsOver, TypeOK, Exists, Row, Live, Ended
<1>10. AgreesWithProvider'
  BY <1>0, <1>c, <1>p DEF IInv, AgreesWithProvider, TypeOK
<1>11. StatusEarned'
  BY <1>0, <1>c, <1>r, TargetRow DEF IInv, StatusEarned, TypeOK, NoPayment
<1>12. TrialIsGranted'
  BY <1>0, <1>r, TargetRow DEF IInv, TrialIsGranted, TypeOK, Ended, Live
<1>13. PlanWasCharged'
  <2>1. \A t \in Subs : t # s => sub'[t] = sub[t]
    BY <1>0, <1>c DEF IInv, TypeOK
  <2>2. sub'[s].plan = p.plan /\ pay'[c].sub = s /\ pay'[c].plan = p.plan
    BY <1>0, <1>c, <1>r, <1>p DEF IInv, TypeOK
  <2>3. \A d \in Charges : d # c => pay'[d] = pay[d]
    BY <1>0, <1>c DEF IInv, TypeOK
  <2>4. pay[c].sub = 0
    BY <1>c DEF NoPayment
  <2> QED
    BY <1>c, <2>1, <2>2, <2>3, <2>4 DEF IInv, PlanWasCharged, Exists, Subs
<1> QED
  BY <1>1, <1>2, <1>3, <1>4, <1>5, <1>6, <1>7, <1>8, <1>9, <1>10, <1>11, <1>12, <1>13
     DEF IInv

(* A request that leaves without a trace, or that only answers 200.         *)
LEMMA FinishKeeps ==
    ASSUME IInv, NEW w \in Workers, Finish(w),
           answered' \subseteq Charges,
           UNCHANGED <<charge, sub, lastSub, pay, notices, lapse, expired, day>>
    PROVE  IInv'
<1>0. req' = [req EXCEPT ![w] = Idle]
  BY DEF Finish
<1>1. TypeOK'
  BY <1>0 DEF IInv, TypeOK, ProviderTypeOK
<1>2. ChargesHeld' /\ PaymentsLinked' /\ WebhooksLinked'
  BY <1>0 DEF IInv, TypeOK, Idle, Started, ChargesHeld, PaymentsLinked, WebhooksLinked, Exists
<1>3. RowsFresh' /\ InsertsAreTrials'
  BY <1>0 DEF IInv, TypeOK, Idle, Started, RowsFresh, InsertsAreTrials, Inserts, Exists, Editing
<1>4. CopiesEarned'
  BY <1>0 DEF IInv, TypeOK, Idle, Started, CopiesEarned, ActiveEarned, DunEarned
<1>5. /\ PeriodsCoverTrials' /\ TaskRowsOver' /\ AgreesWithProvider'
      /\ StatusEarned' /\ TrialIsGranted' /\ PlanWasCharged'
  BY DEF IInv, PeriodsCoverTrials, TaskRowsOver, AgreesWithProvider,
     StatusEarned, TrialIsGranted, PlanWasCharged, Exists
<1> QED
  BY <1>1, <1>2, <1>3, <1>4, <1>5 DEF IInv

(* What a callback says is what the provider says, whichever provider it    *)
(* comes from.                                                              *)
LEMMA CallbackSays ==
    ASSUME NEW c \in Charges, Settled(c)
    PROVE  /\ Succeeds(c) <=> charge[c] = "paid"
           /\ Fails(c) <=> charge[c] = "declined"
<1>1. CASE Via[c] = "stripe"
  BY <1>1 DEF Succeeds, Fails, EventOf, StripeEvent, Settled
<1>2. CASE Via[c] = "mpesa"
  BY <1>2 DEF Succeeds, Fails, EventOf, MpesaEvent, Settled
<1>3. CASE Via[c] = "sasapay"
  BY <1>3 DEF Succeeds, Fails, EventOf, SasaPayEvent, Settled
<1> QED
  BY <1>1, <1>2, <1>3, ViaAssumption

(* A callback arrives: its charge is settled, its Payment may not be there. *)
LEMMA WebhookBeginKeeps ==
    ASSUME IInv, NEW w \in Workers, WebhookBegin(w)
    PROVE  IInv'
<1>0. PICK c \in Charges :
        /\ charge[c] \in {"paid", "declined"}
        /\ req' = [req EXCEPT ![w] =
              Started("webhook", Found(c).sub, NoRow, c, Found(c).status)]
  BY DEF WebhookBegin, Settled
<1>u. UNCHANGED <<charge, sub, lastSub, pay, answered, notices, lapse, expired, day>>
  BY DEF WebhookBegin
<1>q. /\ req' = [req EXCEPT ![w] = req'[w]]
      /\ req'[w] \in Request
      /\ req'[w].op = "webhook" /\ req'[w].charge = c
      /\ req'[w].seen # "none" =>
            req'[w].sub = pay[c].sub /\ req'[w].seen = pay[c].status
  <2> DEFINE q == Started("webhook", Found(c).sub, NoRow, c, Found(c).status)
  <2>2. req'[w] = q /\ req' = [req EXCEPT ![w] = req'[w]]
    BY <1>0 DEF IInv, TypeOK
  <2>3. /\ Found(c).sub \in 0..MaxSubs
        /\ Found(c).status \in {"none", "pending", "successful", "failed"}
    BY BoundsAssumption DEF IInv, TypeOK, Payment, NoPayment, Subs, Found
  <2>4. q \in Request
    BY <2>3 DEF Request, Started
  <2>5. Found(c).status # "none" => Found(c) = pay[c]
    BY DEF Found, NoPayment
  <2> QED
    BY <2>2, <2>4, <2>5 DEF Started
<1>1. TypeOK'
  BY <1>u, <1>q DEF IInv, TypeOK, ProviderTypeOK
<1>2. ChargesHeld' /\ PaymentsLinked' /\ WebhooksLinked'
  BY <1>0, <1>u, <1>q DEF IInv, TypeOK, ChargesHeld, PaymentsLinked, WebhooksLinked, Exists
<1>3. RowsFresh' /\ InsertsAreTrials'
  BY <1>u, <1>q DEF IInv, TypeOK, RowsFresh, InsertsAreTrials, Inserts, Exists, Editing
<1>4. CopiesEarned'
  BY <1>u, <1>q DEF IInv, TypeOK, CopiesEarned, ActiveEarned, DunEarned
<1>5. /\ PeriodsCoverTrials' /\ TaskRowsOver' /\ AgreesWithProvider'
      /\ StatusEarned' /\ TrialIsGranted' /\ PlanWasCharged'
  BY <1>u DEF IInv, PeriodsCoverTrials, TaskRowsOver, AgreesWithProvider,
     StatusEarned, TrialIsGranted, PlanWasCharged, Exists
<1> QED
  BY <1>1, <1>2, <1>3, <1>4, <1>5 DEF IInv

(* A success books the Payment it read and starts a period.                 *)
LEMMA WebhookSucceedKeeps ==
    ASSUME IInv, NEW w \in Workers, WebhookSucceed(w)
    PROVE  IInv'
<1> DEFINE s == req[w].sub
           c == req[w].charge
           r == sub'[s]
           p == pay'[c]
<1>0. /\ req[w].op = "webhook" /\ c \in Charges /\ charge[c] = "paid"
      /\ s \in Subs /\ Exists(s) /\ sub[s] \in Row
      /\ pay[c] \in Payment /\ pay[c].sub = s
      /\ req' = [req EXCEPT ![w] = Idle]
      /\ answered' \subseteq Charges
      /\ UNCHANGED <<charge, lastSub, lapse, expired, day>>
  <2>1. /\ req[w].op = "webhook" /\ req[w].seen # "none"
        /\ req' = [req EXCEPT ![w] = Idle]
        /\ answered' = answered \cup {c}
        /\ UNCHANGED <<charge, lastSub, lapse, expired, day>>
    BY DEF WebhookSucceed, Finish, Notify
  <2>2. c \in Charges /\ charge[c] \in {"paid", "declined"}
    BY <2>1 DEF IInv, WebhooksLinked
  <2>3. charge[c] = "paid"
    BY <2>2, CallbackSays DEF WebhookSucceed, Settled
  <2>4. pay[c].status # "none" /\ pay[c].sub = s
    BY <2>1 DEF IInv, WebhooksLinked
  <2>5. pay[c] \in Payment
    BY <2>2, <2>4 DEF IInv, TypeOK, NoPayment
  <2>6. s \in Subs /\ Exists(s)
    BY <2>2, <2>4, <2>5 DEF IInv, PaymentsLinked, Payment
  <2>7. sub[s] \in Row
    BY <2>6 DEF IInv, TypeOK, Exists, NoRow
  <2> QED
    BY <2>1, <2>2, <2>3, <2>4, <2>5, <2>6, <2>7 DEF IInv, TypeOK
<1>r. /\ sub' = [sub EXCEPT ![s] = r] /\ r \in Row
      /\ r.status = "active" /\ r.plan = sub[s].plan
      /\ r.trialEnd = sub[s].trialEnd /\ r.trialEnd <= r.periodEnd
  <2>1. /\ sub[s].trialEnd <= day + TrialDays
        /\ sub[s].trialEnd <= sub[s].periodEnd
        /\ sub[s].trialEnd \in Int /\ day \in Int
    BY <1>0, DaysAssumption, BoundsAssumption
       DEF IInv, PeriodsCoverTrials, TypeOK, Row, Days
  <2>2. day + PeriodDays \in Days
    BY DaysAssumption, BoundsAssumption DEF IInv, TypeOK, Days
  <2> QED
    <3>1. /\ sub' = [sub EXCEPT ![s] = r]
          /\ r = [sub[s] EXCEPT !.status = "active", !.periodEnd = day + PeriodDays]
      BY <1>0 DEF WebhookSucceed, IInv, TypeOK
    <3> QED
      <4> HIDE DEF r
      <4>1. /\ r \in Row /\ r.status = "active" /\ r.plan = sub[s].plan
            /\ r.trialEnd = sub[s].trialEnd /\ r.periodEnd = day + PeriodDays
        BY <1>0, <2>2, <3>1 DEF Row, Live
      <4>2. sub[s].trialEnd <= day + PeriodDays
        BY <2>1, DaysAssumption
      <4> QED
        BY <3>1, <4>1, <4>2
<1>p. /\ pay' = [pay EXCEPT ![c] = p] /\ p \in Payment
      /\ p.status = "successful" /\ p.sub = s /\ p.plan = pay[c].plan
  BY <1>0 DEF WebhookSucceed, IInv, TypeOK, Payment
<1>n. notices' = notices \cup {<<c, "payment_successful">>}
  BY DEF WebhookSucceed, Notify
<1> HIDE DEF r, p
<1>1. TypeOK'
  BY <1>0, <1>r, <1>p, <1>n DEF IInv, TypeOK, ProviderTypeOK
<1>2. ChargesHeld'
  BY <1>0, <1>p DEF IInv, ChargesHeld, TypeOK, Idle, Started, Payment, NoPayment
<1>3. PaymentsLinked'
  BY <1>0, <1>r, <1>p DEF IInv, PaymentsLinked, TypeOK, Exists, Row, Live, Ended
<1>4. WebhooksLinked'
  BY <1>0, <1>p DEF IInv, WebhooksLinked, TypeOK, Idle, Started
<1>5. RowsFresh'
  BY <1>0, <1>r DEF IInv, RowsFresh, TypeOK, Idle, Started, Inserts, Exists, Editing
<1>6. InsertsAreTrials'
  BY <1>0 DEF IInv, InsertsAreTrials, TypeOK, Idle, Started, Inserts, Editing
<1>e. /\ \A t \in Subs : ActiveEarned(t) => ActiveEarned(t)'
      /\ \A t \in Subs : DunEarned(t) => DunEarned(t)'
  <2>1. \A d \in Charges : pay'[d].sub = pay[d].sub
    BY <1>0, <1>p DEF IInv, TypeOK
  <2>2. \A d \in Charges :
           /\ pay[d].status = "successful" => pay'[d].status = "successful"
           /\ pay[d].status = "failed" => pay'[d].status = "failed"
    BY <1>0, <1>p DEF IInv, AgreesWithProvider, TypeOK
  <2> QED
    BY <2>1, <2>2 DEF ActiveEarned, DunEarned
<1>7. CopiesEarned'
  BY <1>0, <1>e DEF IInv, CopiesEarned, RowsFresh, TypeOK, Idle, Started, Editing
<1>8. PeriodsCoverTrials'
  BY <1>0, <1>r DEF IInv, PeriodsCoverTrials, TypeOK
<1>9. TaskRowsOver'
  <2>1. lapse.rows \cup expired \subseteq Subs
    BY DEF IInv, TypeOK
  <2> QED
    BY <1>0, <1>r, <2>1 DEF IInv, TaskRowsOver, TypeOK, Exists
<1>10. AgreesWithProvider'
  BY <1>0, <1>p, <1>n DEF IInv, AgreesWithProvider, TypeOK
<1>11. StatusEarned'
  <2>1. pay'[c].sub = s /\ pay'[c].status = "successful"
    BY <1>0, <1>p DEF IInv, TypeOK
  <2> QED
    BY <1>0, <1>r, <1>e, <2>1 DEF IInv, StatusEarned, TypeOK, ActiveEarned, DunEarned
<1>12. TrialIsGranted'
  BY <1>0, <1>r DEF IInv, TrialIsGranted, TypeOK, Ended
<1>13. PlanWasCharged'
  BY <1>0, <1>r, <1>p DEF IInv, PlanWasCharged, TypeOK, Exists
<1> QED
  BY <1>1, <1>2, <1>3, <1>4, <1>5, <1>6, <1>7, <1>8, <1>9, <1>10, <1>11, <1>12, <1>13
     DEF IInv

(* A failure books the Payment it read and puts its subscription past due.  *)
LEMMA WebhookFailKeeps ==
    ASSUME IInv, NEW w \in Workers, WebhookFail(w)
    PROVE  IInv'
<1> DEFINE s == req[w].sub
           c == req[w].charge
           r == sub'[s]
           p == pay'[c]
<1>0. /\ req[w].op = "webhook" /\ c \in Charges /\ charge[c] = "declined"
      /\ s \in Subs /\ Exists(s) /\ sub[s] \in Row
      /\ pay[c] \in Payment /\ pay[c].sub = s
      /\ req' = [req EXCEPT ![w] = Idle]
      /\ answered' \subseteq Charges
      /\ UNCHANGED <<charge, lastSub, lapse, expired, day>>
  <2>1. /\ req[w].op = "webhook" /\ req[w].seen # "none"
        /\ req' = [req EXCEPT ![w] = Idle]
        /\ answered' = answered \cup {c}
        /\ UNCHANGED <<charge, lastSub, lapse, expired, day>>
    BY DEF WebhookFail, Finish, Notify
  <2>2. c \in Charges /\ charge[c] \in {"paid", "declined"}
    BY <2>1 DEF IInv, WebhooksLinked
  <2>3. charge[c] = "declined"
    BY <2>2, CallbackSays DEF WebhookFail, Settled
  <2>4. pay[c].status # "none" /\ pay[c].sub = s
    BY <2>1 DEF IInv, WebhooksLinked
  <2>5. pay[c] \in Payment
    BY <2>2, <2>4 DEF IInv, TypeOK, NoPayment
  <2>6. s \in Subs /\ Exists(s)
    BY <2>2, <2>4, <2>5 DEF IInv, PaymentsLinked, Payment
  <2>7. sub[s] \in Row
    BY <2>6 DEF IInv, TypeOK, Exists, NoRow
  <2> QED
    BY <2>1, <2>2, <2>3, <2>4, <2>5, <2>6, <2>7 DEF IInv, TypeOK
<1>r. /\ sub' = [sub EXCEPT ![s] = r] /\ r \in Row
      /\ r.status = "past_due" /\ r.plan = sub[s].plan
      /\ r.trialEnd = sub[s].trialEnd /\ r.trialEnd <= r.periodEnd
  <2>1. /\ sub[s].trialEnd <= day + TrialDays
        /\ sub[s].trialEnd <= sub[s].periodEnd
        /\ sub[s].trialEnd \in Int /\ day \in Int
    BY <1>0, DaysAssumption, BoundsAssumption
       DEF IInv, PeriodsCoverTrials, TypeOK, Row, Days
  <2>2. day + PeriodDays \in Days
    BY DaysAssumption, BoundsAssumption DEF IInv, TypeOK, Days
  <2> QED
    BY <1>0, <2>1, <2>2, DaysAssumption DEF WebhookFail, IInv, TypeOK, Row, Live
<1>p. /\ pay' = [pay EXCEPT ![c] = p] /\ p \in Payment
      /\ p.status = "failed" /\ p.sub = s /\ p.plan = pay[c].plan
  BY <1>0 DEF WebhookFail, IInv, TypeOK, Payment
<1>n. notices' = notices \cup {<<c, "payment_failed">>}
  BY DEF WebhookFail, Notify
<1> HIDE DEF r, p
<1>1. TypeOK'
  BY <1>0, <1>r, <1>p, <1>n DEF IInv, TypeOK, ProviderTypeOK
<1>2. ChargesHeld'
  BY <1>0, <1>p DEF IInv, ChargesHeld, TypeOK, Idle, Started, Payment, NoPayment
<1>3. PaymentsLinked'
  BY <1>0, <1>r, <1>p DEF IInv, PaymentsLinked, TypeOK, Exists, Row, Live, Ended
<1>4. WebhooksLinked'
  BY <1>0, <1>p DEF IInv, WebhooksLinked, TypeOK, Idle, Started
<1>5. RowsFresh'
  BY <1>0, <1>r DEF IInv, RowsFresh, TypeOK, Idle, Started, Inserts, Exists, Editing
<1>6. InsertsAreTrials'
  BY <1>0 DEF IInv, InsertsAreTrials, TypeOK, Idle, Started, Inserts, Editing
<1>e. /\ \A t \in Subs : ActiveEarned(t) => ActiveEarned(t)'
      /\ \A t \in Subs : DunEarned(t) => DunEarned(t)'
  <2>1. \A d \in Charges : pay'[d].sub = pay[d].sub
    BY <1>0, <1>p DEF IInv, TypeOK
  <2>2. \A d \in Charges :
           /\ pay[d].status = "successful" => pay'[d].status = "successful"
           /\ pay[d].status = "failed" => pay'[d].status = "failed"
    BY <1>0, <1>p DEF IInv, AgreesWithProvider, TypeOK
  <2> QED
    BY <2>1, <2>2 DEF ActiveEarned, DunEarned
<1>7. CopiesEarned'
  BY <1>0, <1>e DEF IInv, CopiesEarned, RowsFresh, TypeOK, Idle, Started, Editing
<1>8. PeriodsCoverTrials'
  BY <1>0, <1>r DEF IInv, PeriodsCoverTrials, TypeOK
<1>9. TaskRowsOver'
  <2>1. lapse.rows \cup expired \subseteq Subs
    BY DEF IInv, TypeOK
  <2> QED
    BY <1>0, <1>r, <2>1 DEF IInv, TaskRowsOver, TypeOK, Exists
<1>10. AgreesWithProvider'
  BY <1>0, <1>p, <1>n DEF IInv, AgreesWithProvider, TypeOK
<1>11. StatusEarned'
  <2>1. pay'[c].sub = s /\ pay'[c].status = "failed"
    BY <1>0, <1>p DEF IInv, TypeOK
  <2> QED
    BY <1>0, <1>r, <1>e, <2>1 DEF IInv, StatusEarned, TypeOK, ActiveEarned, DunEarned
<1>12. TrialIsGranted'
  BY <1>0, <1>r DEF IInv, TrialIsGranted, TypeOK, Ended
<1>13. PlanWasCharged'
  BY <1>0, <1>r, <1>p DEF IInv, PlanWasCharged, TypeOK, Exists
<1> QED
  BY <1>1, <1>2, <1>3, <1>4, <1>5, <1>6, <1>7, <1>8, <1>9, <1>10, <1>11, <1>12, <1>13
     DEF IInv

(* The daily tasks read rows that are over ...                              *)
LEMMA TaskFetchKeeps ==
    ASSUME IInv,
           lapse' \in [rows: SUBSET Subs, cancels: SUBSET Subs],
           expired' \subseteq Subs,
           lapse'.rows \cup expired' \subseteq lapse.rows \cup expired \cup Overdue \cup OverTrials,
           UNCHANGED <<charge, sub, lastSub, pay, answered, notices, req, day>>
    PROVE  IInv'
<1>1. TypeOK'
  BY DEF IInv, TypeOK, ProviderTypeOK
<1>2. TaskRowsOver'
  <2>1. \A s \in Subs : /\ sub[s].trialEnd \in Int /\ sub[s].periodEnd \in Int
                        /\ sub[s].trialEnd <= sub[s].periodEnd
    BY BoundsAssumption, DaysAssumption
       DEF IInv, TypeOK, Row, NoRow, Days, PeriodsCoverTrials
  <2>2. \A s \in Overdue \cup OverTrials : s \in Subs /\ Exists(s) /\ sub[s].trialEnd < day
    BY <2>1 DEF Overdue, OverTrials, Exists, IInv, TypeOK
  <2> QED
    BY <2>2 DEF IInv, TaskRowsOver, Exists
<1>3. /\ ChargesHeld' /\ PaymentsLinked' /\ WebhooksLinked' /\ RowsFresh'
      /\ InsertsAreTrials' /\ CopiesEarned'
  BY DEF IInv, ChargesHeld, PaymentsLinked, WebhooksLinked, RowsFresh, InsertsAreTrials,
     CopiesEarned, Inserts, Exists, ActiveEarned, DunEarned
<1>4. /\ PeriodsCoverTrials' /\ AgreesWithProvider' /\ StatusEarned'
      /\ TrialIsGranted' /\ PlanWasCharged'
  BY DEF IInv, PeriodsCoverTrials, AgreesWithProvider, StatusEarned, TrialIsGranted,
     PlanWasCharged, Exists
<1> QED
  BY <1>1, <1>2, <1>3, <1>4 DEF IInv

(* ... and end them later, when they may have been renewed meanwhile.       *)
LEMMA TaskSaveKeeps ==
    ASSUME IInv, NEW s \in lapse.rows \cup expired, NEW st \in Ended,
           sub' = [sub EXCEPT ![s].status = st],
           lapse' \in [rows: SUBSET Subs, cancels: SUBSET Subs],
           expired' \subseteq Subs,
           lapse'.rows \cup expired' \subseteq lapse.rows \cup expired,
           UNCHANGED <<charge, lastSub, pay, answered, notices, req, day>>
    PROVE  IInv'
<1> DEFINE r == sub'[s]
<1>0. s \in Subs /\ Exists(s) /\ sub[s].trialEnd < day /\ sub[s] \in Row
  <2>1. s \in Subs /\ Exists(s) /\ sub[s].trialEnd < day
    BY DEF IInv, TypeOK, TaskRowsOver
  <2> QED
    BY <2>1 DEF IInv, TypeOK, Exists, NoRow
<1>r. /\ sub' = [sub EXCEPT ![s] = r] /\ r \in Row
      /\ r.status = st /\ r.plan = sub[s].plan
      /\ r.trialEnd = sub[s].trialEnd /\ r.periodEnd = sub[s].periodEnd
  BY <1>0 DEF IInv, TypeOK, Row
<1>x. st # "none" /\ st # "active" /\ st # "past_due"
  BY DEF Ended
<1> HIDE DEF r
<1>1. TypeOK'
  BY <1>0, <1>r DEF IInv, TypeOK, ProviderTypeOK
<1>2. ChargesHeld' /\ PaymentsLinked' /\ WebhooksLinked'
  BY <1>0, <1>r, <1>x DEF IInv, TypeOK, ChargesHeld, PaymentsLinked, WebhooksLinked, Exists
<1>3. RowsFresh'
  BY <1>0, <1>r, <1>x DEF IInv, TypeOK, RowsFresh, Inserts, Exists
<1>4. InsertsAreTrials' /\ CopiesEarned'
  BY DEF IInv, InsertsAreTrials, CopiesEarned, Inserts, ActiveEarned, DunEarned
<1>5. PeriodsCoverTrials'
  BY <1>0, <1>r DEF IInv, TypeOK, PeriodsCoverTrials
<1>6. TaskRowsOver'
  <2>1. lapse.rows \cup expired \subseteq Subs
    BY DEF IInv, TypeOK
  <2> QED
    BY <1>0, <1>r, <1>x, <2>1 DEF IInv, TypeOK, TaskRowsOver, Exists
<1>7. AgreesWithProvider'
  BY DEF IInv, AgreesWithProvider
<1>8. StatusEarned'
  BY <1>0, <1>r, <1>x DEF IInv, TypeOK, StatusEarned
<1>9. TrialIsGranted'
  BY <1>0, <1>r DEF IInv, TypeOK, TrialIsGranted
<1>10. PlanWasCharged'
  BY <1>0, <1>r DEF IInv, TypeOK, PlanWasCharged, Exists
<1> QED
  BY <1>1, <1>2, <1>3, <1>4, <1>5, <1>6, <1>7, <1>8, <1>9, <1>10 DEF IInv

LEMMA TaskStepKeeps ==
    ASSUME IInv, TaskStep
    PROVE  IInv'
<1>t. lapse \in [rows: SUBSET Subs, cancels: SUBSET Subs] /\ expired \subseteq Subs
  BY DEF IInv, TypeOK
<1>1. CASE LapseFetch
  <2>1. Overdue \subseteq Subs
    BY DEF Overdue
  <2> QED
    BY <1>1, <1>t, <2>1, TaskFetchKeeps DEF LapseFetch
<1>2. CASE TrialFetch
  <2>1. OverTrials \subseteq Subs
    BY DEF OverTrials
  <2> QED
    BY <1>2, <1>t, <2>1, TaskFetchKeeps DEF TrialFetch
<1>3. CASE TaskKilled
  BY <1>3, <1>t, TaskFetchKeeps DEF TaskKilled
<1>4. CASE LapseSave
  <2>1. PICK s \in Subs : /\ NextRow(lapse.rows, s)
                          /\ sub' = [sub EXCEPT ![s].status =
                                IF s \in lapse.cancels THEN "cancelled" ELSE "expired"]
                          /\ lapse' = [rows |-> lapse.rows \ {s},
                                       cancels |-> lapse.cancels \ {s}]
    BY <1>4 DEF LapseSave
  <2> DEFINE st == IF s \in lapse.cancels THEN "cancelled" ELSE "expired"
  <2>2. st \in Ended /\ s \in lapse.rows \cup expired
    BY <2>1 DEF Ended, NextRow
  <2>3. /\ lapse' \in [rows: SUBSET Subs, cancels: SUBSET Subs]
        /\ lapse'.rows \subseteq lapse.rows
    BY <1>t, <2>1
  <2>4. UNCHANGED <<charge, lastSub, pay, answered, notices, req, expired, day>>
    BY <1>4 DEF LapseSave
  <2> HIDE DEF st
  <2>5. sub' = [sub EXCEPT ![s].status = st]
    BY <2>1 DEF st
  <2> QED
    BY <1>t, <2>2, <2>3, <2>4, <2>5, TaskSaveKeeps
<1>5. CASE TrialSave
  <2>1. PICK s \in Subs : /\ NextRow(expired, s)
                          /\ sub' = [sub EXCEPT ![s].status = "expired"]
                          /\ expired' = expired \ {s}
    BY <1>5 DEF TrialSave
  <2>2. "expired" \in Ended /\ s \in lapse.rows \cup expired
    BY <2>1 DEF Ended, NextRow
  <2>4. UNCHANGED <<charge, lastSub, pay, answered, notices, req, lapse, day>>
    BY <1>5 DEF TrialSave
  <2> QED
    BY <1>t, <2>1, <2>2, <2>4, TaskSaveKeeps
<1> QED
  BY <1>1, <1>2, <1>3, <1>4, <1>5 DEF TaskStep

LEMMA RequestStepKeeps ==
    ASSUME IInv, NEW w \in Workers, RequestStep(w)
    PROVE  IInv'
<1>1. CASE \E t \in Tenants, op \in {"view", "checkout", "cancel", "reactivate"} :
             Acquire(w, t, op)
  BY <1>1, AcquireKeeps
<1>2. CASE WebhookIgnore(w)
  <2>1. answered' \subseteq Charges
    BY <1>2 DEF WebhookIgnore, IInv, TypeOK, WebhooksLinked
  <2> QED
    BY <1>2, <2>1, FinishKeeps DEF WebhookIgnore
<1>3. CASE Abort(w)
  BY <1>3, FinishKeeps DEF Abort, IInv, TypeOK
<1> QED
  BY <1>1, <1>2, <1>3, ViewCommitKeeps, CheckoutChargeKeeps, CheckoutCommitKeeps,
     CancelCommitKeeps, ReactivateCommitKeeps, WebhookBeginKeeps,
     WebhookSucceedKeeps, WebhookFailKeeps
     DEF RequestStep, ViewBegin, CheckoutBegin, CancelBegin, ReactivateBegin, WebhookCommit

LEMMA InitEstablishes == Init => IInv
<1> SUFFICES ASSUME Init PROVE IInv
  OBVIOUS
<1>1. TypeOK
  BY BoundsAssumption DEF Init, ProviderInit, TypeOK, ProviderTypeOK, ChargeStatus
<1>2. ChargesHeld /\ PaymentsLinked /\ WebhooksLinked
  BY DEF Init, ChargesHeld, PaymentsLinked, WebhooksLinked, Idle, Started, NoPayment
<1>3. RowsFresh /\ InsertsAreTrials /\ CopiesEarned
  BY DEF Init, RowsFresh, InsertsAreTrials, CopiesEarned, Editing, Idle, Started,
     Exists, NoRow
<1>4. PeriodsCoverTrials /\ TaskRowsOver
  BY DaysAssumption DEF Init, PeriodsCoverTrials, TaskRowsOver, NoRow
<1>5. AgreesWithProvider /\ StatusEarned /\ TrialIsGranted /\ PlanWasCharged
  BY DEF Init, AgreesWithProvider, StatusEarned, TrialIsGranted, PlanWasCharged,
     NoRow, NoPayment, Exists, Ended
<1> QED
  BY <1>1, <1>2, <1>3, <1>4, <1>5 DEF IInv

LEMMA StutterKeeps ==
    ASSUME IInv, UNCHANGED vars
    PROVE  IInv'
<1>1. UNCHANGED <<charge, sub, lastSub, pay, answered, notices, req, lapse, expired, day>>
  BY DEF vars
<1>2. lapse' \in [rows: SUBSET Subs, cancels: SUBSET Subs] /\ expired' \subseteq Subs
  BY <1>1 DEF IInv, TypeOK
<1> QED
  BY <1>1, <1>2, TaskFetchKeeps

-----------------------------------------------------------------------------
(* IInv holds in every reachable state.                                     *)
THEOREM Invariance == Spec => []IInv
<1>1. Init => IInv
  BY InitEstablishes
<1>2. IInv /\ [Next]_vars => IInv'
  BY RequestStepKeeps, TaskStepKeeps, ProviderStepKeeps, TickKeeps, StutterKeeps DEF Next
<1> QED
  BY <1>1, <1>2, PTL DEF Spec

(* Type correctness: every table and every request in flight is well formed, *)
(* whatever the interleaving.                                               *)
THEOREM TypeCorrect == Spec => []TypeOK
<1>1. IInv => TypeOK
  BY DEF IInv
<1> QED
  BY <1>1, Invariance, PTL

(* apply_provider_event books, and announces, only what the provider says.  *)
THEOREM BookingsAgree == Spec => []AgreesWithProvider
<1>1. IInv => AgreesWithProvider
  BY DEF IInv
<1> QED
  BY <1>1, Invariance, PTL

(* Active means collected and past due means refused, in spite of the stale *)
(* status a reactivation writes back.                                       *)
THEOREM StatusIsEarned == Spec => []StatusEarned
<1>1. IInv => StatusEarned
  BY DEF IInv
<1> QED
  BY <1>1, Invariance, PTL

(* No subscription ends inside its trial window, as long as a paid period   *)
(* is at least as long as a trial (DaysAssumption).                         *)
THEOREM TrialGranted == Spec => []TrialIsGranted
<1>1. IInv => TrialIsGranted
  BY DEF IInv
<1> QED
  BY <1>1, Invariance, PTL

(* A paid plan is never set without a Payment for it: the checkout is one   *)
(* transaction.                                                             *)
THEOREM PlanCharged == Spec => []PlanWasCharged
<1>1. IInv => PlanWasCharged
  BY DEF IInv
<1> QED
  BY <1>1, Invariance, PTL

-----------------------------------------------------------------------------
(* The refinement of Ledger.                                                *)

(* The Payment table as the ledger's books.                                 *)
BookOf == [c \in Charges |-> pay[c].status]

(* A step that leaves charges and Payments alone leaves the ledger alone.    *)
LEMMA OtherStepStutters ==
    ASSUME UNCHANGED <<charge, pay>>
    PROVE  UNCHANGED Books!ledgerVars
BY DEF Books!ledgerVars

(* Whatever the handler read, writing an outcome to a Payment either books  *)
(* it or repeats what is booked.                                            *)
LEMMA OutcomeBooksOnce ==
    ASSUME IInv, NEW c \in Charges, charge[c] \in {"paid", "declined"},
           pay[c].status # "none",
           NEW st, st = IF charge[c] = "paid" THEN "successful" ELSE "failed",
           pay' = [pay EXCEPT ![c].status = st], charge' = charge
    PROVE  [Books!Next]_(Books!ledgerVars)
<1>1. /\ pay \in [Charges -> Payment \cup {NoPayment}]
      /\ pay[c] \in Payment
      /\ pay[c].status \in {"pending", "successful", "failed"}
  BY DEF IInv, TypeOK, NoPayment, Payment
<1>2. CASE pay[c].status = "pending"
  <2>1. BookOf' = [BookOf EXCEPT ![c] = st]
    <3>1. \A d \in Charges : pay'[d].status = IF d = c THEN st ELSE pay[d].status
      BY <1>1 DEF Payment
    <3> QED
      BY <3>1, Zenon DEF BookOf
  <2>2. BookOf[c] = "pending"
    BY <1>2 DEF BookOf
  <2>3. Books!Book(c)
    BY <2>1, <2>2 DEF Books!Book, Books!Verdict, BookOf
  <2> QED
    BY <2>3 DEF Books!Next
<1>3. CASE pay[c].status # "pending"
  <2>1. pay[c].status = st
    BY <1>1, <1>3 DEF IInv, AgreesWithProvider
  <2>2. pay' = pay
    BY <1>1, <2>1 DEF Payment
  <2> QED
    BY <2>2, OtherStepStutters
<1> QED
  BY <1>2, <1>3

LEMMA CheckoutRecords ==
    ASSUME IInv, NEW w \in Workers, CheckoutCommit(w)
    PROVE  Books!Next
<1>1. PICK k \in Charges :
         /\ charge[k] # "none" /\ pay[k] = NoPayment /\ charge' = charge
         /\ pay' = [pay EXCEPT ![k] =
               [status |-> "pending", sub |-> req[w].sub, plan |-> req[w].plan]]
  BY DEF CheckoutCommit, IInv, ChargesHeld
<1>2. BookOf' = [BookOf EXCEPT ![k] = "pending"]
  BY <1>1 DEF BookOf, IInv, TypeOK
<1>3. BookOf[k] = "none"
  BY <1>1 DEF BookOf, NoPayment
<1>4. Books!Record(k)
  BY <1>1, <1>2, <1>3 DEF Books!Record, BookOf
<1> QED
  BY <1>4 DEF Books!Next

LEMMA ChargeMoves ==
    ASSUME IInv, NEW c \in Charges, OpenCharge(c) \/ SettleCharge(c), UNCHANGED pay
    PROVE  Books!Next
<1>1. Books!Ask(c) \/ Books!Settle(c)
  BY DEF OpenCharge, StripeSession, MpesaPush, SasaPayCheckout, Asked, SettleCharge,
     Books!Ask, Books!Settle
<1> QED
  BY <1>1 DEF Books!Next

LEMMA WebhookBooks ==
    ASSUME IInv, NEW w \in Workers, WebhookCommit(w)
    PROVE  [Books!Next]_(Books!ledgerVars)
<1>1. CASE WebhookIgnore(w)
  BY <1>1, OtherStepStutters DEF WebhookIgnore
<1> DEFINE c == req[w].charge
<1>2. ASSUME req[w].op = "webhook", req[w].seen # "none"
      PROVE  c \in Charges /\ charge[c] \in {"paid", "declined"} /\ pay[c].status # "none"
  BY <1>2 DEF IInv, WebhooksLinked
<1>3. CASE WebhookSucceed(w)
  <2>1. charge[c] = "paid" /\ pay' = [pay EXCEPT ![c].status = "successful"] /\ charge' = charge
    BY <1>2, <1>3, CallbackSays DEF WebhookSucceed, Settled
  <2> QED
    BY <1>2, <1>3, <2>1, OutcomeBooksOnce DEF WebhookSucceed
<1>4. CASE WebhookFail(w)
  <2>1. charge[c] # "paid" /\ pay' = [pay EXCEPT ![c].status = "failed"] /\ charge' = charge
    BY <1>2, <1>4, CallbackSays DEF WebhookFail, Settled
  <2> QED
    BY <1>2, <1>4, <2>1, OutcomeBooksOnce DEF WebhookFail
<1> QED
  BY <1>1, <1>3, <1>4 DEF WebhookCommit

LEMMA StepImplements ==
    ASSUME IInv, [Next]_vars
    PROVE  [Books!Next]_(Books!ledgerVars)
<1>1. ASSUME NEW w \in Workers, CheckoutCharge(w)
      PROVE  Books!Next
  BY <1>1, ChargeMoves DEF CheckoutCharge
<1>2. CASE ProviderStep
  BY <1>2, ChargeMoves DEF ProviderStep
<1>3. ASSUME NEW w \in Workers, RequestStep(w), ~WebhookCommit(w),
             ~CheckoutCommit(w), ~CheckoutCharge(w)
      PROVE  UNCHANGED <<charge, pay>>
  BY <1>3 DEF RequestStep, ViewBegin, CheckoutBegin, CancelBegin, ReactivateBegin,
     Acquire, ViewCommit, CancelCommit, ReactivateCommit, WebhookBegin, Abort
<1>4. CASE TaskStep \/ Tick \/ UNCHANGED vars
  <2>1. UNCHANGED <<charge, pay>>
    BY <1>4 DEF TaskStep, LapseFetch, LapseSave, TrialFetch, TrialSave, TaskKilled,
       Tick, vars
  <2> QED
    BY <2>1, OtherStepStutters
<1> QED
  BY <1>1, <1>2, <1>3, <1>4, CheckoutRecords, WebhookBooks, OtherStepStutters DEF Next

(* The payment tables keep the ledger's promise: every charge is recorded   *)
(* and booked at most once, as the provider settled it, for any number of   *)
(* callbacks handled at the same time (start_checkout,                      *)
(* apply_provider_event).                                                   *)
THEOREM LedgerKept == Spec => KeepsTheLedger
<1>1. Init => Books!Init
  BY DEF Init, ProviderInit, Books!Init, NoPayment
<1>2. IInv /\ [Next]_vars => [Books!Next]_(Books!ledgerVars)
  BY StepImplements
<1> QED
  BY <1>1, <1>2, Invariance, PTL DEF Spec, KeepsTheLedger, Books!Spec

-----------------------------------------------------------------------------
(* Callbacks that found their Payment.                                     *)

(* What was booked as paid stays so: the ledger takes nothing back.         *)
LEMMA SuccessStays ==
    ASSUME IInv, [Next]_vars, NEW c \in Charges, pay[c].status = "successful"
    PROVE  pay'[c].status = "successful"
<1>1. [Books!Next]_(Books!ledgerVars)
  BY StepImplements
<1>2. BookOf[c] = "successful"
  BY DEF BookOf
<1>3. ASSUME NEW d \in Charges, NEW verdict, BookOf[d] \in {"none", "pending"},
             BookOf' = [BookOf EXCEPT ![d] = verdict]
      PROVE  BookOf'[c] = "successful"
  BY <1>2, <1>3 DEF BookOf
<1>4. \/ UNCHANGED BookOf
      \/ \E d \in Charges, verdict \in {"pending", "successful", "failed"} :
            BookOf[d] \in {"none", "pending"} /\ BookOf' = [BookOf EXCEPT ![d] = verdict]
  BY <1>1 DEF Books!Next, Books!Ask, Books!Settle, Books!Record, Books!Book, Books!Verdict,
     Books!ledgerVars, BookOf
<1>5. BookOf'[c] = "successful"
  BY <1>2, <1>3, <1>4
<1> QED
  BY <1>5 DEF BookOf

(* A callback that read its Payment as paid need not look again.            *)
SeenStands ==
    \A w \in Workers : req[w].op = "webhook" /\ req[w].seen = "successful" =>
        pay[req[w].charge].status = "successful"

LEMMA WebhookKeeps ==
    ASSUME IInv, SeenStands, [Next]_vars
    PROVE  SeenStands'
<1> SUFFICES ASSUME NEW w \in Workers, req'[w].op = "webhook", req'[w].seen = "successful"
             PROVE  pay'[req'[w].charge].status = "successful"
  BY DEF SeenStands
<1>1. req \in [Workers -> Request \cup {Idle}]
  BY DEF IInv, TypeOK
<1>2. CASE req'[w] = req[w]
  <2>1. req[w].charge \in Charges /\ pay[req[w].charge].status = "successful"
    BY <1>2 DEF SeenStands, IInv, WebhooksLinked
  <2> QED
    BY <1>2, <2>1, SuccessStays
<1>3. CASE req'[w] # req[w]
  <2>1. PICK v \in Workers : RequestStep(v)
    BY <1>3 DEF Next, vars, TaskStep, LapseFetch, LapseSave, TrialFetch, TrialSave, TaskKilled,
       ProviderStep, Tick
  <2>2. CASE WebhookBegin(v)
    <3>1. PICK c \in Charges :
              req' = [req EXCEPT ![v] = Started("webhook", Found(c).sub, NoRow, c, Found(c).status)]
      BY <2>2 DEF WebhookBegin
    <3>2. pay' = pay
      BY <2>2 DEF WebhookBegin
    <3>3. req'[w] = Started("webhook", Found(c).sub, NoRow, c, Found(c).status)
      BY <1>1, <1>3, <3>1
    <3>4. Found(c).status = "successful" /\ req'[w].charge = c
      BY <3>3 DEF Started
    <3>5. pay[c].status = "successful"
      BY <3>4 DEF Found, NoPayment
    <3> QED
      BY <3>2, <3>4, <3>5
  <2>3. CASE ~WebhookBegin(v)
    <3>1. CASE \/ ViewCommit(v) \/ CheckoutCommit(v) \/ CancelCommit(v) \/ ReactivateCommit(v)
               \/ WebhookCommit(v) \/ Abort(v)
      <4>1. req' = [req EXCEPT ![v] = Idle]
        BY <3>1 DEF ViewCommit, CheckoutCommit, CancelCommit, ReactivateCommit, WebhookCommit,
           WebhookIgnore, WebhookSucceed, WebhookFail, Abort, Finish
      <4> QED
        BY <1>1, <1>3, <4>1 DEF Idle, Started
    <3>2. CASE CheckoutCharge(v)
      <4>1. PICK c \in Charges, plan \in Plans :
                req' = [req EXCEPT ![v].op = "charged", ![v].charge = c, ![v].plan = plan]
        BY <3>2 DEF CheckoutCharge
      <4>2. req'[v].op = "charged" /\ \A u \in Workers \ {v} : req'[u] = req[u]
        BY <1>1, <3>2, <4>1 DEF CheckoutCharge, Request, Idle, Started
      <4> QED
        BY <1>3, <4>2
    <3>3. ASSUME NEW t \in Tenants, NEW op \in {"view", "checkout", "cancel", "reactivate"},
                 Acquire(v, t, op)
          PROVE  FALSE
      <4>1. PICK s, row, seen : req' = [req EXCEPT ![v] = Started(op, s, row, "none", seen)]
        BY <3>3 DEF Acquire
      <4> QED
        BY <1>1, <1>3, <4>1 DEF Started
    <3> QED
      BY <2>1, <2>3, <3>1, <3>2, <3>3
         DEF RequestStep, ViewBegin, CheckoutBegin, CancelBegin, ReactivateBegin
  <2> QED
    BY <2>2, <2>3
<1> QED
  BY <1>2, <1>3

(* A callback that found its Payment leaves it as the provider settled it.   *)
FoundIsBooked ==
    \A w \in Workers : WebhookCommit(w) /\ req[w].seen # "none" =>
        pay'[req[w].charge].status =
            IF charge[req[w].charge] = "paid" THEN "successful" ELSE "failed"

LEMMA WebhookLeavesBooked ==
    ASSUME IInv, SeenStands
    PROVE  FoundIsBooked
<1> SUFFICES ASSUME NEW w \in Workers, WebhookCommit(w), req[w].seen # "none"
             PROVE  pay'[req[w].charge].status =
                        IF charge[req[w].charge] = "paid" THEN "successful" ELSE "failed"
  BY DEF FoundIsBooked
<1> DEFINE c == req[w].charge
<1>1. req[w].op = "webhook"
  BY DEF WebhookCommit, WebhookIgnore, WebhookSucceed, WebhookFail
<1>2. c \in Charges /\ charge[c] \in {"paid", "declined"} /\ pay[c].status # "none"
  BY <1>1 DEF IInv, WebhooksLinked
<1>3. pay \in [Charges -> Payment \cup {NoPayment}] /\ pay[c] \in Payment
  BY <1>2 DEF IInv, TypeOK, NoPayment
<1>4. CASE WebhookIgnore(w)
  <2>1. req[w].seen = "successful" /\ pay' = pay
    BY <1>4 DEF WebhookIgnore
  <2>2. pay[c].status = "successful"
    BY <1>1, <2>1 DEF SeenStands
  <2> QED
    BY <1>2, <2>1, <2>2 DEF IInv, AgreesWithProvider
<1>5. CASE WebhookSucceed(w)
  <2>1. charge[c] = "paid" /\ pay' = [pay EXCEPT ![c].status = "successful"]
    BY <1>2, <1>5, CallbackSays DEF WebhookSucceed, Settled
  <2> QED
    BY <1>2, <1>3, <2>1 DEF Payment
<1>6. CASE WebhookFail(w)
  <2>1. charge[c] # "paid" /\ pay' = [pay EXCEPT ![c].status = "failed"]
    BY <1>2, <1>6, CallbackSays DEF WebhookFail, Settled
  <2> QED
    BY <1>2, <1>3, <2>1 DEF Payment
<1> QED
  BY <1>4, <1>5, <1>6 DEF WebhookCommit

(* The only callbacks answered and not booked are those that overtook the    *)
(* checkout: one whose lookup found the Payment leaves it as the provider    *)
(* settled the charge, also when it is a repetition that the view ignores    *)
(* on the strength of an old read (apply_provider_event).                   *)
THEOREM FoundCallbacksBook == Spec => [][FoundIsBooked]_vars
<1>1. Init => SeenStands
  BY DEF Init, SeenStands, Idle, Started
<1>2. IInv /\ SeenStands /\ [Next]_vars => SeenStands'
  BY WebhookKeeps
<1>3. IInv /\ SeenStands => FoundIsBooked
  BY WebhookLeavesBooked
<1> QED
  BY <1>1, <1>2, <1>3, Invariance, PTL DEF Spec
=============================================================================
