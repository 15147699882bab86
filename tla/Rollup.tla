------------------------------- MODULE Rollup -------------------------------
(***************************************************************************)
(* What visitors do on a public card, the raw events recorded of it, and   *)
(* the hourly rollup into DailyCardStat that the dashboard reads           *)
(* (apps/analytics, cards/public_views.py, enquiries/views.py).            *)
(*                                                                         *)
(* Views, clicks and downloads are recorded by Celery tasks; enquiries and *)
(* appointments are inserted, and deleted, by web requests.  A row is      *)
(* stamped when it is made and appears when its transaction commits, so it *)
(* may appear on a later day than its own.  aggregate_analytics runs on    *)
(* autocommit: each count is a query of its own.  Runs may overlap, and a  *)
(* killed task is delivered again (CELERY_TASK_ACKS_LATE).                 *)
(*                                                                         *)
(* The raw tables are two counters that only grow, the rows made and those *)
(* gone; what a query counts is their difference.                          *)
(***************************************************************************)
EXTENDS Integers, Sequences, FiniteSets, Functions

CONSTANTS
    Cards,        \* cards with a public page
    Columns,      \* the columns of DailyCardStat, in the order they are counted
    Runners,      \* Celery workers that may be running aggregate_analytics
    MaxDay,       \* bound: days 1..MaxDay
    MaxEvents,    \* bound: visits, clicks and enquiries ever made
    MaxCrashes    \* bound: tasks killed

AllColumns == {"views", "unique_visitors", "link_clicks", "contact_downloads",
               "enquiries", "appointments"}
Column == {Columns[i] : i \in DOMAIN Columns}

ASSUME ColumnsAssumption ==
    Columns \in Seq(AllColumns) /\ Columns # <<>> /\ Columns[1] = "views"
ASSUME BoundsAssumption == MaxDay \in Nat \ {0} /\ {MaxEvents, MaxCrashes} \subseteq Nat

VARIABLES
    day,          \* timezone.localdate()
    exists,       \* cards in the table
    pending,      \* record_* messages on the broker, by card, day sent and kind
    made,         \* raw rows ever inserted, by card, day and column
    gone,         \* those deleted again
    stat,         \* the DailyCardStat table, by card and day
    run,          \* what each runner is doing
    events, crashes,    \* how often the bounded things happened
    due,          \* history: the rows as the newest run that saved them found them
    overlapped    \* history: days two runs worked on at the same time

visitVars == <<exists, pending, made, gone, events>>
historyVars == <<due, overlapped>>
rollupVars == <<day, visitVars, stat, run, crashes, historyVars>>

Days == 1..MaxDay
Zero == [k \in Column |-> 0]
NoRow == [k \in {} |-> 0]

(* What count() of a day's rows returns.                                    *)
Raw(c, d) == [k \in Column |-> made[c][d][k] - gone[c][d][k]]

(* How far the tables of a card and a day have come.                        *)
Found(c, d) == [made |-> made[c][d], gone |-> gone[c][d]]

(* A run: its day, the cards it has still to do, what it has counted of the *)
(* one whose turn it is, and (for the history) what there was when it began.*)
Run(d, todo, counts, base) ==
    [day |-> d, todo |-> todo, counts |-> counts, base |-> base]
NoRun == Run(0, {}, <<>>, NoRow)

(* Kinds of event a Celery task records, and those a request inserts.       *)
Queued == {"views", "link_clicks", "contact_downloads"} \cap Column
Direct == {"enquiries", "appointments"} \cap Column

RollupInit ==
    /\ day = 1
    /\ exists = Cards
    /\ pending = [c \in Cards |-> [d \in Days |-> [k \in Queued |-> 0]]]
    /\ made = [c \in Cards |-> [d \in Days |-> Zero]]
    /\ gone = [c \in Cards |-> [d \in Days |-> Zero]]
    /\ stat = [c \in Cards |-> [d \in Days |-> NoRow]]
    /\ run = [r \in Runners |-> NoRun]
    /\ events = 0 /\ crashes = 0
    /\ due = [c \in Cards |-> [d \in Days |-> NoRow]]
    /\ overlapped = {}

-----------------------------------------------------------------------------
(* Visitors.                                                               *)

(* render_public_card on a miss, track_link_click, public_vcf_download.  A   *)
(* page served from the cache records nothing.                              *)
Visit ==
    /\ events < MaxEvents
    /\ \E c \in exists, k \in Queued : pending' = [pending EXCEPT ![c][day][k] = @ + 1]
    /\ events' = events + 1
    /\ UNCHANGED <<day, exists, made, gone, stat, run, crashes, historyVars>>

(* PublicEnquirySubmitView and the booking view: the row was stamped while    *)
(* the request ran, today or before midnight, and appears as it commits.     *)
(* (So does a late PATCH that inserts a deleted row again, as of now.)        *)
EnquireOrBook ==
    /\ events < MaxEvents
    /\ \E c \in exists, k \in Direct, d \in 1..day :
          made' = [made EXCEPT ![c][d][k] = @ + 1]
    /\ events' = events + 1
    /\ UNCHANGED <<day, exists, pending, gone, stat, run, crashes, historyVars>>

-----------------------------------------------------------------------------
(* Owners.                                                                 *)

(* MUTANT of Deletable: rows that are gone are counted as deleted again.     *)
DeletableTwice(c, k) ==
    {lost \in [Days -> 0..MaxEvents] : \A d \in Days : lost[d] <= made[c][d][k]}

(* How many rows of each day one deletion can take: those that are there.   *)
Deletable(c, k) ==
    {lost \in [Days -> 0..MaxEvents] : \A d \in Days : lost[d] <= Raw(c, d)[k]}

(* DELETE of an enquiry or an appointment, or of a service with all that was *)
(* booked of it (CASCADE).                                                  *)
DeleteRows ==
    /\ \E c \in exists, k \in Direct : \E lost \in Deletable(c, k) :
          gone' = [gone EXCEPT ![c] =
              [d \in Days |-> [gone[c][d] EXCEPT ![k] = @ + lost[d]]]]
    /\ UNCHANGED <<day, exists, pending, made, stat, run, events, crashes, historyVars>>

(* The card is deleted: every row of it goes (CASCADE).                     *)
DeleteCard ==
    /\ \E c \in exists :
          /\ exists' = exists \ {c}
          /\ gone' = [gone EXCEPT ![c] = made[c]]
          /\ stat' = [stat EXCEPT ![c] = [d \in Days |-> NoRow]]
          /\ due' = [due EXCEPT ![c] = [d \in Days |-> NoRow]]
    /\ UNCHANGED <<day, pending, made, run, events, crashes, overlapped>>

(* A late PATCH saves its copy of a deleted card: the card is back with its  *)
(* key, but none of its rows.                                               *)
ReinsertCard ==
    /\ \E c \in Cards \ exists : exists' = exists \cup {c}
    /\ UNCHANGED <<day, pending, made, gone, stat, run, events, crashes, historyVars>>

Midnight ==
    /\ day < MaxDay
    /\ day' = day + 1
    /\ UNCHANGED <<visitVars, stat, run, crashes, historyVars>>

-----------------------------------------------------------------------------
(* The record_* tasks.                                                     *)

(* The row a task inserts; the hash of a view is new that day or known.     *)
Insert(c, d, k) ==
    \E isNew \in {TRUE, FALSE} :
        /\ isNew \/ Raw(c, d)["views"] > 0
        /\ made' = [made EXCEPT ![c][d] =
              [j \in Column |-> IF j = k \/ (k = "views" /\ j = "unique_visitors" /\ isNew)
                                THEN @[j] + 1 ELSE @[j]]]

Ack(c, s, k) == pending' = [pending EXCEPT ![c][s][k] = @ - 1]

(* A message sent on day s makes a row of a day since: the task's, which may *)
(* be over when the row appears.  The row of a deleted card, or the click of *)
(* a deleted link, is refused, and the message is gone all the same.         *)
RecordEvent ==
    /\ \E c \in Cards, s \in 1..day, k \in Queued :
          /\ pending[c][s][k] > 0
          /\ Ack(c, s, k)
          /\ \/ c \in exists /\ \E d \in s..day : Insert(c, d, k)
             \/ (c \notin exists \/ k = "link_clicks") /\ UNCHANGED made
    /\ UNCHANGED <<day, exists, gone, stat, run, events, crashes, historyVars>>

(* The worker dies between the insert and the acknowledgement.              *)
RecordAndCrash ==
    /\ crashes < MaxCrashes
    /\ \E c \in exists, s \in 1..day, k \in Queued :
          pending[c][s][k] > 0 /\ \E d \in s..day : Insert(c, d, k)
    /\ crashes' = crashes + 1
    /\ UNCHANGED <<day, exists, pending, gone, stat, run, events, historyVars>>

-----------------------------------------------------------------------------
(* aggregate_analytics.                                                    *)

Running(r) == run[r].day # 0

(* MUTANT of Viewed: a card that has its row is not rolled up again.         *)
ViewedOnce(d) ==
    {c \in exists : Raw(c, d)["views"] > 0 /\ stat[c][d] = NoRow}

(* vcard_ids: the cards with a view on the day; no other card is rolled up. *)
Viewed(d) == {c \in exists : Raw(c, d)["views"] > 0}

(* Beat, or a redelivery.  base: how far the tables are now, for due.       *)
StartRun(r) ==
    /\ ~Running(r)
    /\ run' = [run EXCEPT ![r] =
          Run(day, Viewed(day), <<>>, [c \in Cards |-> Found(c, day)])]
    /\ overlapped' = IF \E q \in Runners : Running(q) /\ run[q].day = day
                     THEN overlapped \cup {day} ELSE overlapped
    /\ UNCHANGED <<day, visitVars, stat, crashes, due>>

(* The card whose turn it is: the set is walked in one order per run.       *)
Turn(r) == CHOOSE c \in run[r].todo : TRUE

(* MUTANT of CountOn: the day is taken again for every query.               *)
CountOnToday(c, d, k) == Raw(c, day)[k]

(* One count() query, on the day the run started.                           *)
CountOn(c, d, k) == Raw(c, d)[k]

CountColumn(r) ==
    /\ run[r].todo # {}
    /\ Len(run[r].counts) < Len(Columns)
    /\ LET k == Columns[Len(run[r].counts) + 1]
           n == CountOn(Turn(r), run[r].day, k)
       IN  run' = [run EXCEPT ![r] =
              Run(run[r].day, run[r].todo, Append(run[r].counts, n), run[r].base)]
    /\ UNCHANGED <<day, visitVars, stat, crashes, historyVars>>

Counted(r) == [k \in Column |->
    run[r].counts[CHOOSE i \in DOMAIN Columns : Columns[i] = k]]

(* MUTANT of RowAfter: the counts are added to the row that is there.       *)
RowAfterAdded(row, counts) ==
    IF row = NoRow THEN counts ELSE [k \in Column |-> row[k] + counts[k]]

(* update_or_create replaces the row that is there.                         *)
RowAfter(row, counts) == counts

(* Both counters only grow: of two looks at them the later is ahead in each. *)
NotAfter(seen, later) ==
    \A k \in Column : seen.made[k] <= later.made[k] /\ seen.gone[k] <= later.gone[k]

Newest(seen, base) == IF seen # NoRow /\ NotAfter(base, seen) THEN seen ELSE base

(* The upsert.  The foreign key of a deleted card ends the whole run.       *)
SaveStat(r) ==
    /\ run[r].todo # {}
    /\ Len(run[r].counts) = Len(Columns)
    /\ LET c == Turn(r)
           d == run[r].day
       IN  IF c \in exists
           THEN /\ stat' = [stat EXCEPT ![c][d] = RowAfter(@, Counted(r))]
                /\ due' = [due EXCEPT ![c][d] = Newest(@, run[r].base[c])]
                /\ run' = [run EXCEPT ![r] = Run(d, run[r].todo \ {c}, <<>>, run[r].base)]
           ELSE run' = [run EXCEPT ![r] = NoRun] /\ UNCHANGED <<stat, due>>
    /\ UNCHANGED <<day, visitVars, crashes, overlapped>>

FinishRun(r) ==
    /\ Running(r)
    /\ run[r].todo = {}
    /\ run' = [run EXCEPT ![r] = NoRun]
    /\ UNCHANGED <<day, visitVars, stat, crashes, historyVars>>

(* The time limit of 300 s, or a crash: what was saved stays.               *)
KillRun(r) ==
    /\ crashes < MaxCrashes
    /\ Running(r)
    /\ crashes' = crashes + 1
    /\ run' = [run EXCEPT ![r] = NoRun]
    /\ UNCHANGED <<day, visitVars, stat, historyVars>>

RunStep(r) == StartRun(r) \/ CountColumn(r) \/ SaveStat(r) \/ FinishRun(r)

-----------------------------------------------------------------------------
RollupNext ==
    \/ Visit \/ EnquireOrBook
    \/ DeleteRows \/ DeleteCard \/ ReinsertCard \/ Midnight
    \/ RecordEvent \/ RecordAndCrash
    \/ \E r \in Runners : RunStep(r) \/ KillRun(r)

RollupSpec == RollupInit /\ [][RollupNext]_rollupVars

(* Beat sends the task every hour and the workers are up; nothing makes a   *)
(* visitor come, an owner delete, a day end or a task die.                  *)
RollupFairSpec ==
    /\ RollupSpec
    /\ WF_rollupVars(RecordEvent)
    /\ \A r \in Runners : WF_rollupVars(RunStep(r))

-----------------------------------------------------------------------------
(* The dashboard.                                                          *)

(* resolve_period: n days back and today.                                   *)
Period(n) == {d \in Days : d >= day - n /\ d <= day}

(* get_summary: a day without a row counts nothing.                         *)
Shown(c, k) == [d \in Days |-> IF stat[c][d] = NoRow THEN 0 ELSE stat[c][d][k]]
EverMade(c, k) == [d \in Days |-> made[c][d][k]]

Summary(c, n, k) == SumFunctionOnSet(Shown(c, k), Period(n))

-----------------------------------------------------------------------------
(* Properties.                                                             *)

Counters == [Column -> Nat]

StatRow == Counters \cup {NoRow}

Looks == [made: Counters, gone: Counters]

Runs == [day: Days, todo: SUBSET Cards, counts: Seq(Nat), base: [Cards -> Looks]]

(* Tables, rows and runs are well formed: no row is deleted that was not     *)
(* made, and a run works on no day to come.                                 *)
RollupTypeOK ==
    /\ day \in Days
    /\ exists \subseteq Cards
    /\ pending \in [Cards -> [Days -> [Queued -> Nat]]]
    /\ made \in [Cards -> [Days -> Counters]]
    /\ gone \in [Cards -> [Days -> Counters]]
    /\ \A c \in Cards, d \in Days, k \in Column : gone[c][d][k] <= made[c][d][k]
    /\ stat \in [Cards -> [Days -> StatRow]]
    /\ due \in [Cards -> [Days -> Looks \cup {NoRow}]]
    /\ overlapped \subseteq Days
    /\ run \in [Runners -> Runs \cup {NoRun}]
    /\ \A r \in Runners : run[r].day <= day /\ Len(run[r].counts) <= Len(Columns)
    /\ events \in Nat /\ crashes \in Nat

(* The dashboard never shows more than was ever recorded, over any period,   *)
(* however often the rollup ran, was killed, ran twice at once or across     *)
(* midnight, and whatever was deleted meanwhile (aggregate_analytics,        *)
(* get_summary).                                                            *)
NeverOverstated ==
    \A c \in Cards, n \in 0..(MaxDay - 1), k \in Column :
        Summary(c, n, k) <= SumFunctionOnSet(EverMade(c, k), Period(n))

(* A number of rows that differs from what either look shows only by what   *)
(* was made or gone between the two.                                        *)
CountedBetween(n, seen, later, k) ==
    /\ seen.made[k] - later.gone[k] <= n
    /\ n <= later.made[k] - seen.gone[k]

(* A row differs from the tables only by what came or went after the newest  *)
(* run that saved it had started, unless two runs of a day overlapped: no    *)
(* run, however late, killed or delivered again, puts back older counts or   *)
(* a deleted enquiry, and the loss at the end of a day is what came after    *)
(* its last run.                                                            *)
DiffersOnlyByLate ==
    \A c \in Cards, d \in Days \ overlapped : due[c][d] # NoRow =>
        /\ stat[c][d] # NoRow
        /\ \A k \in Column : CountedBetween(stat[c][d][k], due[c][d], Found(c, d), k)

(* Once visitors and owners pause, the dashboard's numbers of today for a    *)
(* card that was viewed today become those of the raw tables and stay so,    *)
(* through overlapping, killed and failed runs (beat's hourly schedule).     *)
CatchesUp ==
    <>[](\A c \in exists : Raw(c, day)["views"] > 0 => stat[c][day] = Raw(c, day))

(* What the docstring of aggregate_analytics says, and the code does not     *)
(* keep: a rollup that ran alone and undisturbed leaves today's raw events   *)
(* in DailyCardStat.                                                         *)
FoldsTodaysEvents ==
    [][\A r \in Runners :
          FinishRun(r) /\ run[r].day = day /\ day \notin overlapped
          /\ (\A c \in exists : run[r].base[c] = Found(c, day)) =>
              \A c \in exists, k \in Column : Summary(c, 0, k) = Raw(c, day)[k]]_rollupVars
=============================================================================
