# DBCBackend in TLA+

This directory models the backend of a digital-business-card platform (Django,
Celery, MySQL, Redis) in TLA+: `src/apps/*` is its code, `src/backend.md` its
design. The modules are checked with TLC on small instances and proved about
with TLAPS for all of them.

## 1. The system

Web workers serve HTTP requests. `ATOMIC_REQUESTS` (`config/settings/base.py:108`)
makes every request one MySQL transaction, at Django's default isolation level
READ COMMITTED, with no row locks asked for anywhere (`select_for_update` does
not occur). A handler therefore

1. reads rows, each statement seeing what is committed at that moment,
2. decides on those copies, possibly after calling a payment provider or sending mail,
3. writes: with `update_fields` the named columns, otherwise every column as read,
4. and all of that becomes visible at the commit, or never.

Beside the workers run the Celery tasks of `config/celery.py` (which autocommit
every statement, are killed at a time limit, and are delivered again when their worker
died, `CELERY_TASK_ACKS_LATE`), the payment providers with their callbacks, Redis with
the page cache, and the clock. All hard behaviour of this program comes from what may
happen between steps 1 and 4 of one handler, or between two statements of a task.

| component | state | operations | hard behaviour | what makes it correct |
|---|---|---|---|---|
| billing (`apps/billing`) | Subscription, Payment, Plan | checkout, cancel, reactivate, default trial, three webhooks, `check_subscriptions`, `process_expired_trials` | callbacks early, twice, late or never; stale copies; tasks killed half-way; errors after the provider was called | what is booked agrees with the provider; statuses and plans are earned; trials are granted; overdue rows end |
| providers (`apps/billing/providers`) | the charges at Stripe, M-Pesa, SasaPay | open a charge, call back | outcome known before the request commits; redelivery; events that name nothing we know | each callback is parsed to what the provider decided |
| orders (`apps/orders`) | Order, ShippingEvent, Payment | create, pay, status update by staff, PATCH | webhook against staff; duplicate callbacks; whole-row saves | paid exactly when collected; tracking agrees; order and Payment together |
| appointments (`apps/appointments`) | AvailabilityRule, AppointmentService, Appointment | slots, book, status PATCH, delete; edits of rules and services | check then insert; settings changed in between | no double booking by checks that did not overlap; inside opening hours; no orphans |
| reminders (`appointments/tasks.py`) | `reminder_sent_at`, the mails | a run every quarter of an hour | runs that overlap, are late or killed; a PATCH that saves an old row | nobody skipped, each reminded once, in time |
| cards (`apps/cards`) | VCard, the cached page | create, PATCH, publish, unpublish, assign, delete, public page; the listing PATCH of `apps/directory` | bust before commit; torn reads; a count that is old at the insert | the cached page is current, or soon will be; plan limits |
| profile blocks (`apps/profile_blocks`) | six content tables | edits, reorder | no signal from `bulk_update` | see cards |
| NFC (`apps/nfc_qr`) | NfcCard, and the chip in the customer's hands | register, assign, activate, suspend, reassign, retire, write instructions | transitions on a stale copy; a card deleted under its tag; slugs that are free again; deleted cards that a PATCH puts back; memberships that change | tags in use are linked; a chip opens its tag's card; nobody moves a tag away from a card that is not theirs, unless they bought it or are staff |
| organizations (`apps/organizations`) | Organization, OrganizationMember | create, invite, PATCH and remove members | limit counted then inserted; stale PATCH | always one active owner; the team limit kept by fresh counts |
| analytics (`apps/analytics`), enquiries (`apps/enquiries`) | event tables, DailyCardStat | record events, delete enquiries, appointments and cards, hourly rollup, dashboard | runs that overlap or cross midnight; rows deleted while they are counted; only some cards are visited; redelivery | the dashboard shows no more than was ever recorded, and differs from the tables only by what came or went late |
| accounts (`apps/accounts`) | User, mailed links | register, invite, log in, profile, password change, reset, verification | links used twice at once; whole-row saves of a stale user | links work once; passwords and verifications are not lost |
| notifications, templates, core, configuration | mail, in-app rows, settings | | no state of their own that a handler decides on | |

`PROJECT.json` lists every component with what is modelled of it, and every hazard
found in this code at its line.

## 2. The modules

| module | what it models | uses |
|---|---|---|
| `Provider` | the three payment providers (external) and how each `handle_webhook` reads a callback | |
| `Ledger` | abstract: each charge is settled, recorded and booked at most once | |
| `Billing` | subscriptions and their Payments | `Provider`; implements `Ledger` |
| `Orders` | orders and their Payments | `Provider`; implements `Ledger` |
| `Booking` | one day of one card's calendar | |
| `Reminders` | the reminder task, owners' PATCHes, mails | |
| `PublicPage` | one card, its content and its cached page | |
| `VCards` | the VCard table: creation, PATCH, deletion, slugs, the plan's limit, and who may use a card | |
| `NfcCards` | tags and chips | composes with `VCards` |
| `Rollup` | visitors, raw events and their deletion, the hourly rollup, the dashboard | |
| `Team` | one organization's members and its team limit | |
| `Accounts` | users, passwords, links | |
| `BillingProofs`, `OrdersProofs`, `BookingProofs`, `RemindersProofs`, `PublicCardProofs` (of `PublicPage` and `Rollup`), `NfcCardsProofs`, `TeamProofs`, `AccountsProofs` | inductive invariants and theorems | |
| `MC...` | instances for TLC | |

All follow one pattern. `req[w]` is what web worker `w` is doing: `Idle`, or a
record with the operation and exactly those copies of rows the handler will still use.
A handler is a `...Begin` action (its reads and early returns) and one or more later
actions, the last one being the commit; `Abort` ends any request with nothing written.
A write with `update_fields` changes those fields of the *committed* row; a bare
`save()` replaces the row by the copy. One-step actions are handlers whose copies are
not used across a step, or Celery statements. Names are those of the source. History
variables (marked so) record which rows an overlap has touched: the properties say
what holds of all others, and name the overlaps the code leaves open.

**Provider.** `Via` says whose reference a charge is. A charge may be settled before the
request that asked for it commits, and called back any number of times, or never.
`StripeEvent`, `MpesaEvent` and `SasaPayEvent` are what each `handle_webhook` returns: a
decline at Stripe is told by its invoice, whose id no Payment carries, so `Found` finds
none and the event is ignored.

**Billing.** `sub` is the Subscription table; rows are numbered in order of
`created_at`, so "newest live row" (`get_active_subscription`) is the largest number.
A number is handed out when a request inserts the row and the row is seen by others
only at the commit, so two first requests of a tenant do insert two rows. `Acquire` is
`get_or_create_default_subscription`. A checkout has three steps: the subscription,
the provider's answer (`CheckoutCharge`, in whose transaction the charge is already
real at the provider), and the commit of plan switch and Payment. A callback is
`WebhookBegin` (lookup of Payment and subscription) followed by exactly one of
`WebhookIgnore`, `WebhookSucceed`, `WebhookFail`. `check_subscriptions` and
`process_expired_trials` read all their rows (`LapseFetch`, `TrialFetch`), then save them one
by one, newest first; `TaskKilled` loses the rest. The beat starts one instance of each.
Notices are a set, since duplicates are not told apart.

**Orders.** `PlaceBegin`, `PlaceCharge` and `PlaceCommit` are the three parts of
`OrderViewSet.create`. Staff's `status_update` reads nothing it writes back; the bare
`PATCH` of an order accepts no field and saves the whole row it read, so `undone`
remembers the orders whose row such a save has changed. `Fulfilment` stands for the six
statuses no code distinguishes.

**Ledger.** `Billing` and `Orders` instantiate it with the provider's `outcome` of each
charge and `book`, the status of the Payment with that reference. A second copy of a
callback, a PATCH, a task are all stutters: that is `KeepsTheLedger`.

**Booking.** Times are small numbers. `Grid` is the slot loop of one rule,
`Busy` the pending and confirmed rows, `Open` what `get_available_slots` returns.
Reads of rules, service and appointments are one step. `late` and `loose` are history:
a worker is late once another booking committed after its check, and a row is loose if
a late worker inserted it or if a closed row was set live again. Deleted rows keep their
times, because a late PATCH inserts them again.

**Reminders.** A run fetches `Due` (confirmed, in the window, not yet reminded), then for
each row `Send` (which may fail, unnoticed) and `Record`. A run that meets a deleted row
ends there; `Tick` lets no run outlive its time limit. The appointments are as in `Booking`,
reduced to status, start and `reminder_sent_at`. `again` names the excuses for a second
mail.

**PublicPage.** `Bust` is the signal handler; it is part of each save, and the commit is
a later step. A visit reads the card, then the content, then writes the cache. The
content of six tables is one value, since the page shows all of it. `RowLocked` is
InnoDB's lock on an updated row. `ListingBegin` is the directory's PATCH, `AssignSave` the
assignment to a member: columns the page does not show, busted all the same.

**VCards, NfcCards.** A card counts against its organization or, without one, its owner (`TenantOf`);
its owner and every active member of its organization may use it (`Party`). An actor is a user, who
sees the tags of all of those cards and orders at once, their own and those of each of their organizations
(`CanSee`, `Buyers`), and may link a tag to any of those cards, whichever made them see it. A
transition is `TransitionBegin` (visibility, `From`), for assign and reassign `FindCard`, and
`TransitionCommit` (`To`, `LinkAfter`). Memberships change in between (`RoleStep`): a query of a user's
memberships and the query that uses them are one step. `HandOut` is `write_instructions`: the payload
is fixed there, and `WriteChip` puts it on the chip at any later time, once. Deleting a card sets
`vcard` of its tags to null and frees its slug; a PATCH that had read the card (`PatchBegin`) inserts it again
when it saves (`PatchCommit`), with its key, slug and owner, unless the slug was taken meanwhile. No PATCH changes an owner,
an organization or a slug: those fields are read-only. `SubscriptionChange` is whatever Billing does to
a tenant's limit. History: `stale` are the workers whose tag was saved or unlinked since they read
it, `lapsed` those whose user's role changed.

**Rollup.** Views, clicks and downloads wait in `pending` for their `record_*` task. A row is stamped when
it is made and seen when its transaction commits, possibly after midnight: that is the day `\E d` in `RecordEvent` and
`EnquireOrBook`. Enquiries and appointments are deleted one by one or, by the cascade of
a service, many at once (`DeleteRows`), and everything of a card goes with it (`DeleteCard`); a late PATCH
brings the card back without its rows (`ReinsertCard`). The raw tables are kept as what was ever made and what is gone
of it, so that "before" and "after" can be told of tables that also shrink; queries see only the difference (`Raw`). A run
fixes the day and the cards with a view that day, then makes one count per column (`CountColumn`) and an upsert
(`SaveStat`). `Summary` and `Period` are the dashboard's. `due` remembers, for each row, how far the tables were
when the newest run that saved it began; `overlapped`, the days on which two runs
worked at once. The page cache is left to `PublicPage`: a visit served from it records nothing, and
`Visit` is one that was not. Names start with `Rollup` where `PublicPage`, proved about beside it, has the same.

**Team.** `member` is the OrganizationMember table of one organization, `limit` the seats
`can_add_team_member` compares with (0 while the subscription is not usable). `invite_member`
counts (`InviteBegin`), looks the membership up (`InviteLookUp`) and inserts or revives it
(`InviteAdd`, `InviteAgain`); `unique_org_member` sends an insert that lost a race back to the
lookup, as Django's `get_or_create` does. `member_detail` checks the row it reads
(`Editable`); a PATCH then saves that whole row, a DELETE the status only. `ChangePlan` is
whatever billing does to the plan or the status.

**Accounts.** A password is its number in the order of setting; a reset link is the row's
password and last login, as `default_token_generator` hashes them, a verification link the address.
A mail is sent inside its request; one whose request rolls back names a key no row gets.

## 3. The runs

| run | question | instance | states |
|---|---|---|---|
| `billing_safety` | do bookings agree with the provider and implement `Ledger`; are statuses, plans and trials earned? | 1 tenant, 2 workers, a Stripe and an M-Pesa charge, 2 plans, 1 row, 3 days | 1.9 million |
| `billing_live` | do overdue rows and trials end although tasks are killed? | 1 worker, 2 charges, 2 rows | 534 thousand |
| `orders_money` | do orders, Payments and tracking agree; do Payments implement `Ledger`? | 2 orders, 2 workers, a Stripe and a SasaPay charge | 1.7 million |
| `booking` | can anything but overlap and revival double-book? | 2 workers, 2 rows, durations 1 and 2, two overlapping rules | 2.7 million |
| `public_page` | is a clean page current, and does the page settle? | 3 workers, 2 texts, 2 contents, TTL 1 | 1.3 million |
| `team` | does the owner stay, and what can exceed the team limit? | 2 managers' workers, 3 users, limits 0, 2, 3 | 196 thousand |
| `nfc` | are tags linked, do chips open their card, who can move a tag, is the card limit held? | 2 users, one of them staff and manager of 1 organization that bought the tag, the other a member or not; 2 cards, 2 slugs, 1 tag, 2 workers, limits 0 and 1 | 1.9 million |
| `rollup` | does the dashboard overstate, how can it differ from the tables, does it catch up? | 1 card, 2 runners, 3 columns (a view, a click, an enquiry), 2 days, 2 events, 1 crash | 1.5 million |
| `reminders` | is everybody reminded, once, in time? | 1 appointment, 2 runners, 2 owners, starts at every edge of the window | 583 thousand |
| `accounts` | do links work once, are changes kept, who opens an invited account? | 1 address, 2 workers, 3 passwords, 1 login | 1.2 million |

Two more runs show what the repository says of itself and the code does not keep; each
ends in a counterexample.

| run | what is said | what happens |
|---|---|---|
| `billing_early_callback` | services.py:125, events are reconciled | a callback that overtakes the checkout's commit finds no Payment, gets 200 and is lost |
| `rollup_lost` | analytics/tasks.py:80, folds today's raw events | a card with clicks or enquiries but no view recorded that day gets no row, though the run was alone |

**Why the bounds are enough.** Every hazard here takes two actors that overlap, and the
state they share is one row and one charge: two workers show every race of two
requests; a third worker is needed in `public_page` only, for a visit that overlaps two
edits. A second charge or order is there so that money of one could be booked on the other.
Days: a trial of one day, a period of one day and three days of clock let a row be
granted, end, be renewed and end again; `MaxSubs` is 1 where two workers run and 2 where
one does, so a tenant that lost its row gets a second. `MaxReceipts`
bounds a counter that only duplicate callbacks raise. In `booking` the two rules overlap
with different grids and the durations differ, so neighbouring, overlapping and equal
slots all occur; `Closed` is one status, as the code treats the closed ones alike.
In `team`, three users are the owner, a member and one who is invited, removed and invited again;
limits 2 and 3 let a downgrade leave a team above the limit in force. In `nfc`, two cards let a
slug be freed and taken again, a card come back beside a new one, and a tag move; the limits let the organization and the second
user have one of them each. That user sees the tag only while they are a member or it opens their own card, so
moves between an organization's and a personal card, of a member and of one who just left, all occur. A second tag
would only repeat the first, as no action looks at two. In `reminders`, a lead of 4, a width of 2 and a limit of 1 over 4 minutes leave room for
runs that overlap, follow on, and come late, and starts lie inside, at both ends of and
outside the window; `MaxMails` is 2, one more than is promised; two owners let one PATCH
undo another. `MaxEvents`, `MaxCrashes`, `MaxDay` of `rollup`: an event, or its deletion, on either side of a count or of
midnight, one redelivery; deletions need no bound of their own. A derived column, `unique_visitors`, is in the proofs and in `rollup_lost`. `MaxPasswords` 3 in `accounts`: first, reset, and a change the
reset races with. Symmetry is used in runs without liveness, over values that no
definition compares with a constant. Deadlock checking is off where the bounded model may
stop because charges, days, mails, passwords or rows are used up; it is on in `team`.

**Fairness.** `TaskFairness` of Billing gives weak fairness to each step of the two
daily tasks (the beat starts a run every day, a run that has begun goes on) and says
that from some moment on no run is killed: it may be killed any finite number of times
before. Nothing is assumed of customers, requests or callbacks. `Fairness` of
PublicPage says that a visit that has begun ends or its worker is killed, and that
Redis' clock moves; edits need not ever finish. `RollupFairSpec` says that the beat starts
runs, that they proceed and that queued events are recorded: workers are up; no
visitor, deletion, midnight or crash is assumed.

## 4. The proofs

Every theorem holds for all constants that satisfy the named assumptions
(distinct null values; natural bounds; `TrialDays <= PeriodDays`, that is 14 and 30;
durations above 0; finite sets where something is counted; any assignment of charges to providers). Each
`...Proofs` module defines an inductive invariant (`IInv`; `RollupIInv` for Rollup), whose parts are
named; the proof has one lemma or step per action. The type invariant of each of the nine specifications
is a theorem, too, and so is every safety and every action property the passing runs check.

* **Billing.** The properties are not inductive because a commit writes what its
  request read earlier. `IInv` adds what stays true of those copies while others run: a charge
  nobody has recorded is held by one checkout (`ChargesHeld`); a recorded Payment has a
  charge and a committed subscription (`PaymentsLinked`); a webhook holds a settled outcome and
  its Payment's subscription (`WebhooksLinked`); a row number is handed out once, and a row
  still to be inserted is a fresh trial on the free plan (`RowsFresh`, `InsertsAreTrials`); the
  status a reactivation will write back was earned when read, and what earned it is never
  taken back (`CopiesEarned`); a period covers its trial, and the tasks hold only rows
  whose trial is over (`PeriodsCoverTrials`, `TaskRowsOver`). From these follow
  `AgreesWithProvider`, `StatusEarned`, `TrialIsGranted` and `PlanWasCharged`. Lemma
  `CallbackSays` is all that is used of the providers: an event that finds its Payment tells its outcome.
  `FoundCallbacksBook`, in `BillingProofs` and in `OrdersProofs`, is the complement of the counterexample
  `billing_early_callback`: a callback whose lookup found its Payment leaves it as the provider settled it (`FoundIsBooked`).
  It needs that a Payment once seen stays (`SeenStands`) and that a booked success stays, which the refinement gives.
* **Refinement.** `LedgerKept`, in `BillingProofs` and in `OrdersProofs`: the initial state maps to
  Ledger's, and under `IInv` every step maps to a step of it or a stutter. The hard case is a second copy of a
  callback whose request read the Payment as pending: it writes the same verdict again.
* **Orders.** One request inserts a given order and one holds a given unrecorded charge
  (`PlacingAlone`); a Payment is its order's only one (`PaymentsLinked`), says what the provider
  says (`BookedAsSettled`), and whatever is or was marked paid was booked (`PaidWasBooked`).
  `CopiesHold` ties the copies of webhooks and PATCHes to the tables: a copy that says paid
  was paid for, and unless a PATCH undid it the row still says so.
* **Booking.** A booking whose check is fresh overlaps no live appointment but loose ones
  (`FreshIsFree`), and lies within the hours its slot was computed from
  (`FlightWithinHours`), which lemma `GridWithin` shows of `Grid` for every duration. `SlotsAreApart`:
  no two slots of one rule overlap, so booking one takes no other of that rule away.
* **Reminders.** An appointment without an excuse is on the list of one run only, and once mailed it
  is recorded, gone, or in that run's hands (`OneRunEach`); a recorded one was tried, in the table
  and in every PATCH's copy (`SentWasTried`); a run's rows are in its window and it is no older than
  its limit (`RunsInWindow`), which gives `InGoodTime`; what a run is done with was tried (`DoneWasTried`).
  Two theorems about the windows alone say that schedule and query fit together: runs that follow one another within
  `Width` reach every start beyond the first run's window (`EveryStartHasARun`), runs at least `Width` apart
  none twice (`NoStartHasTwoRuns`). The schedule is given as a sequence of starting times; the least run that reaches far enough is the one.
* **PublicPage.** A clean visit has read what is still true (`CleanVisitsAreCurrent`), and
  while an edit is between its bust and its commit nothing is clean
  (`NothingCleanInEdits`), so a commit can make no clean page stale.
* **Rollup.** Since rows are deleted, a count bounds nothing by itself, and a later run may rightly save less. What only grows is
  what was made and what is gone: a look at both (`Found`) is ordered in time (`NotAfter`), and a count made between two looks
  lies between what is certain to have been there throughout and what can have been there at any time (`CountedBetween`). So does
  each count of a run between its beginning and now (`RunsAreOfTables`: `BaseNotAfter`, `CountsInBetween`), and no row exceeds what was
  ever made (`RowsAreOfTables`). On a day no two runs shared there is one run at most (`OneRunADay`), and the rows it
  has still to save were counted before it began (`RowsBeforeRun`): that makes `DiffersOnlyByLate` inductive. From it
  `QuietDaysAreExact` (a row is the counts of the tables if nothing came or went since its newest run began) and the action property
  `RowsFollowTables` of `DashboardFollowsTables`: on such a day a step lowers a number by at most what was deleted, and raises
  it by at most what was made, since the row's run began. `NeverOverstated` is about sums and what was ever recorded, as
  a row may exceed the tables after a deletion:
  `SumMonotone` says that pointwise smaller numbers have a smaller sum over any finite set. The library defines
  that sum by a fold, a CHOOSE of a recursive function on finite sets; `SumsExist` shows that there
  is one, by induction on cardinality, and induction is taken from the least element of a set of numbers
  (`WFMin`), since the library's induction rules take an operator.
* **NfcCards.** Slugs are unique and links point to cards that exist (`SlugsUnique`, `LinksExist`); handed
  instructions and chips stay right until the tag is linked elsewhere (`InstructionsHold`). A card that comes
  back is the one that was deleted, whichever PATCH puts it back (`OneRow`). A request that is neither stale nor
  lapsed acts for a user who still sees its tag and may still use its card (`CopiesHold`), which gives
  `TagMovesWithinReach` and `RetiredIsFinal`; TLC shows that neither exception can be dropped. `OverrunBounded` has an induction of its own, by
  cardinalities: the cards a tenant has, those a PATCH could still put back (`Kept`) and the creations under way stay
  below some limit plus the number of workers, because a worker holds one of those at a time.
* **Team.** A fresh invitation still finds a seat below the peak (`FreshHasSeat`), because any
  other seat taken makes it late. No request ever holds the owner's membership, or a row
  with the owner's role (`OwnerUntouched`): a membership once not the owner's never becomes it.
* **Accounts.** No row, copy or link is ahead of the passwords set, and a spent link holds an old one
  (`RowsBehind`, `CopiesBehind`, `LinksBehind`): a link that fits again needs an old row put back.

Only model-checked: the three liveness properties (`OverdueIsEnded`, `SettlesCurrent`,
`CatchesUp`), because the prover does not treat fairness and ENABLED, and the two counterexamples.
Only proved, as they are no property of a run: `FoundIsBooked`, `QuietRowsAreExact`, `RowsFollowTables`, `RetiredIsFinal` and the theorems about slots
and windows. TLC checked the first four on the instances of their runs before they were proved.

## 5. What the models permit

These are behaviours of the code the models contain, met while writing them. Where a text of the
repository says otherwise it is quoted; the properties above bound what each can do.

* Two visitors whose slot checks overlap book the same slot (`appointments/services.py:41`; lines 12-13 say "minus
  already-booked (pending/confirmed) appointments"), and a closed appointment may be set live over a newer one.
* A failure callback delivered again duns a subscription that was renewed since (`billing/services.py:152`;
  `backend.md:690` asks for idempotent callbacks). A row renewed after `check_subscriptions` read it is
  ended in its new period (`billing/tasks.py:25`).
* Two copies of a callback at once mark an order paid twice and log two receipts (`billing/services.py:163`).
* A plan is activated by a payment for another plan (`billing/services.py:144`).
* Stripe's declines and renewals name invoices and match no Payment (`providers/stripe.py:76`): a decline is
  never booked, and a renewal extends nothing.
* A visit between a bust and its commit caches the old page until the TTL (`cards/signals.py:14`;
  `public_views.py:17` says "busted immediately"); a reorder does not bust at all.
* A PATCH of `/me` saves the user as read and takes back a reset or a verification (`accounts/views.py:79`).
* A reminder is mailed again after a kill between mail and save (`appointments/tasks.py:57`), and one that
  could not be sent counts as sent.
* A tag's instructions carry the URL of its card at that moment; relinking a tag (`nfc.py:40-43`) leaves a
  locked chip on the old card, where `nfc_qr/models.py:24-25` says re-pointing "never requires rewriting".
* The dashboard: views of a cached page are not counted; events after the last run of a day reach no
  row; "7d" covers eight days; a deleted card ends the run that meets it. After an enquiry or appointment is deleted the dashboard shows
  it until the next run, and for a past day, which no run visits, for ever.
* A plain member of an organization can move its tag to a personal card: whoever sees a tag may link it to any card
  of theirs (`nfc_qr/views.py:34-40`, `54-57`), whatever their role. Somebody who could see the tag when a request began
  can move it although they lost that right, or the tag was moved elsewhere, meanwhile.
* A PATCH that read a card before it was deleted puts it back with its slug and past the limit (`cards/views.py:72`).
* `max_vcards` and team limits are overrun by requests that count together.

## 6. Not modelled

* **Within the modelled components:** expiry reminders, the paused status, permissions other than those a
  property is about, tenant resolution, the audit log, amounts and currencies, organizations' own fields,
  admin pages, JWTs and throttling, visitor attributes, the JSON and vCard views of a card, and
  whether an assignee is a member. `check_abandoned_orders` only notifies. The code has no "payment
  reconciliation" task (`backend.md:896`) and no renewal prompt (`mpesa.py:20-22`), so there is none here.
* **Not reachable by these properties:** the slot loop with a service of duration 0 does not end
  (`appointments/services.py:28`): the models assume durations above 0. A SasaPay reference that fell back to
  `MerchantRequestID` (`sasapay.py:70`) matches no callback: `Provider` takes references to be those called back.
* **Components without a module:** QR codes and vCards (rendering), templates (a read-only list), core (support
  code whose effects are part of the actions), deployment settings. Serializers, migrations, admin and URL
  modules declare data and have no behaviour.
* The owner's status PATCH of an enquiry has the shape of the one in `Reminders` and decides nothing.
