----------------------------- MODULE Reminders -----------------------------
(***************************************************************************)
(* The reminders of confirmed appointments: send_appointment_reminders,    *)
(* the owner's PATCHes of the same rows, and the mail they end in.         *)
(*                                                                         *)
(* The task runs on autocommit: it fetches its rows in one query, then     *)
(* mails and records them one by one.  Beat sends it every quarter of an   *)
(* hour; a run may be late, overlap another, be killed by the time limit   *)
(* and be delivered again (CELERY_TASK_ACKS_LATE).  A PATCH saves the      *)
(* whole row it read, reminder_sent_at too.                                *)
(***************************************************************************)
EXTENDS Integers

CONSTANTS
    Appts,        \* appointment rows
    Runners,      \* Celery workers
    Owners,       \* web workers with a PATCH of an owner
    Starts,       \* minutes an appointment may start at
    Lead,         \* REMINDER_WINDOW_HOURS, in minutes of the model
    Width,        \* the quarter of an hour between two runs
    Limit,        \* CELERY_TASK_TIME_LIMIT: no run lasts longer
    MaxTime,      \* bound: the last minute looked at
    MaxMails      \* bound: mails sent for one appointment

ASSUME TimesAssumption == Starts \cup {Lead, Width, Limit, MaxTime, MaxMails} \subseteq Nat
ASSUME ApptsAssumption == "none" \notin Appts

VARIABLES
    now,
    appt,         \* the Appointment table
    patch,        \* the PATCH each owner has under way
    run,          \* what each runner is doing
    mails,        \* reminders received for each appointment
    failed,       \* history: appointments whose mail could not be sent
    again,        \* history: appointments a second reminder is excused for
    served        \* history: appointments a finished run was to remind of

vars == <<now, appt, patch, run, mails, failed, again, served>>

-----------------------------------------------------------------------------
Status == {"pending", "confirmed", "cancelled"}

Row(status, start, sent) == [status |-> status, start |-> start, sent |-> sent]
NoRow == Row("none", 0, FALSE)
Rows == [status: Status \cup {"deleted"}, start: Nat, sent: BOOLEAN]

(* A PATCH in flight: the appointment and the row it will save.             *)
Patch(a, row) == [appt |-> a, row |-> row]
NoPatch == Patch("none", NoRow)

(* A run in flight: when it started, the rows it fetched and has not done,  *)
(* the one it mailed last and has not recorded, and all it should see to.   *)
Run(n, todo, mailed, reach) ==
    [on |-> TRUE, since |-> n, todo |-> todo, mailed |-> mailed, reach |-> reach]
NoRun == [on |-> FALSE, since |-> 0, todo |-> {}, mailed |-> "none", reach |-> {}]

Init ==
    /\ now = 0
    /\ appt = [a \in Appts |-> NoRow]
    /\ patch = [o \in Owners |-> NoPatch]
    /\ run = [r \in Runners |-> NoRun]
    /\ mails = [a \in Appts |-> 0]
    /\ failed = {}
    /\ again = {}
    /\ served = {}

-----------------------------------------------------------------------------
(* Visitors and owners.                                                    *)

Exists(a) == appt[a].status \in Status

(* book_appointment inserts a pending row.                                  *)
Book ==
    /\ \E a \in Appts, s \in Starts :
          /\ appt[a] = NoRow
          /\ appt' = [appt EXCEPT ![a] = Row("pending", s, FALSE)]
    /\ UNCHANGED <<now, patch, run, mails, failed, again, served>>

(* AppointmentViewSet.partial_update: get_object, then a new status.        *)
PatchBegin(o) ==
    /\ patch[o] = NoPatch
    /\ \E a \in Appts, status \in Status :
          /\ Exists(a)
          /\ patch' = [patch EXCEPT ![o] =
                Patch(a, Row(status, appt[a].start, appt[a].sent))]
    /\ UNCHANGED <<now, appt, run, mails, failed, again, served>>

(* serializer.save writes every column, or inserts a row deleted meanwhile. *)
PatchCommit(o) ==
    /\ patch[o] # NoPatch
    /\ LET a == patch[o].appt
           row == patch[o].row
       IN  /\ appt' = [appt EXCEPT ![a] = row]
           /\ again' = IF ~row.sent /\ (appt[a].sent \/ ~Exists(a))
                       THEN again \cup {a} ELSE again
    /\ patch' = [patch EXCEPT ![o] = NoPatch]
    /\ UNCHANGED <<now, run, mails, failed, served>>

DeleteAppt ==
    /\ \E a \in Appts :
          /\ Exists(a)
          /\ appt' = [appt EXCEPT ![a] = Row("deleted", appt[a].start, appt[a].sent)]
    /\ UNCHANGED <<now, patch, run, mails, failed, again, served>>

(* A minute passes; a run that reached the time limit is killed first.      *)
Tick ==
    /\ now < MaxTime
    /\ \A r \in Runners : run[r].on => now < run[r].since + Limit
    /\ now' = now + 1
    /\ UNCHANGED <<appt, patch, run, mails, failed, again, served>>

-----------------------------------------------------------------------------
(* The task.                                                               *)

(* window_start <= starts_at <= window_end: starts are whole minutes and    *)
(* the task runs some moment into a minute, so one end is open.             *)
InWindow(start, n) == n + Lead - Width < start /\ start <= n + Lead

(* MUTANT of Upcoming: reminder_sent_at is not looked at.                   *)
UpcomingAgain == {a \in Appts : appt[a].status = "confirmed"}

(* The query: confirmed, and no reminder sent.                              *)
Upcoming == {a \in Appts : appt[a].status = "confirmed" /\ ~appt[a].sent}

(* MUTANT of Due: a window that opens one quarter late.                     *)
DueNarrow(n) == {a \in Upcoming : n + Lead - 1 < appt[a].start /\ appt[a].start <= n + Lead}

(* MUTANT of Due: no lower end, as for a run that makes up for missed ones. *)
DueLate(n) == {a \in Upcoming : appt[a].start <= n + Lead}

(* What a run started at n mails.                                           *)
Due(n) == {a \in Upcoming : InWindow(appt[a].start, n)}

Reach(n) == {a \in Appts : appt[a].status = "confirmed" /\ InWindow(appt[a].start, n)}

(* Beat, a late start or a redelivery.                                      *)
StartRun(r) ==
    /\ ~run[r].on
    /\ run' = [run EXCEPT ![r] = Run(now, Due(now), "none", Reach(now))]
    /\ again' = again \cup {a \in Due(now) : \E q \in Runners : a \in run[q].todo}
    /\ UNCHANGED <<now, appt, patch, mails, failed, served>>

(* send_email, whose result the task does not look at.                      *)
Send(r) ==
    /\ run[r].mailed = "none"
    /\ \E a \in run[r].todo :
          /\ mails[a] < MaxMails
          /\ run' = [run EXCEPT ![r] = Run(run[r].since, run[r].todo, a, run[r].reach)]
          /\ \/ mails' = [mails EXCEPT ![a] = @ + 1] /\ UNCHANGED failed
             \/ failed' = failed \cup {a} /\ UNCHANGED mails
    /\ UNCHANGED <<now, appt, patch, again, served>>

(* The save of reminder_sent_at, which fails when the row is gone and ends  *)
(* the run with what is left of it.                                         *)
Record(r) ==
    /\ run[r].mailed # "none"
    /\ LET a == run[r].mailed
       IN  IF Exists(a)
           THEN /\ appt' = [appt EXCEPT ![a] = Row(appt[a].status, appt[a].start, TRUE)]
                /\ run' = [run EXCEPT ![r] =
                      Run(run[r].since, run[r].todo \ {a}, "none", run[r].reach)]
           ELSE /\ run' = [run EXCEPT ![r] = NoRun]
                /\ UNCHANGED appt
    /\ UNCHANGED <<now, patch, mails, failed, again, served>>

(* MUTANT of FinishRun: the run ends without letting go of its rows.        *)
FinishRunHolding(r) ==
    /\ run[r].on /\ run[r].todo = {}
    /\ run' = [run EXCEPT ![r].on = FALSE]
    /\ served' = served \cup run[r].reach
    /\ UNCHANGED <<now, appt, patch, mails, failed, again>>

FinishRun(r) ==
    /\ run[r].on /\ run[r].todo = {}
    /\ run' = [run EXCEPT ![r] = NoRun]
    /\ served' = served \cup run[r].reach
    /\ UNCHANGED <<now, appt, patch, mails, failed, again>>

(* The time limit or a crash.                                               *)
KillRun(r) ==
    /\ run[r].on
    /\ run' = [run EXCEPT ![r] = NoRun]
    /\ again' = again \cup ({run[r].mailed} \ {"none"})
    /\ UNCHANGED <<now, appt, patch, mails, failed, served>>

Next ==
    \/ Book \/ DeleteAppt \/ Tick
    \/ \E o \in Owners : PatchBegin(o) \/ PatchCommit(o)
    \/ \E r \in Runners : StartRun(r) \/ Send(r) \/ Record(r) \/ FinishRun(r) \/ KillRun(r)

Spec == Init /\ [][Next]_vars

-----------------------------------------------------------------------------
(* Properties.                                                             *)

Runs == [on: BOOLEAN, since: Nat, todo: SUBSET Appts, mailed: Appts \cup {"none"},
         reach: SUBSET Appts]

(* Rows, PATCHes and runs are well formed; only a run that is on has work.  *)
TypeOK ==
    /\ now \in Nat
    /\ appt \in [Appts -> Rows \cup {NoRow}]
    /\ patch \in [Owners -> [appt: Appts, row: Rows] \cup {NoPatch}]
    /\ run \in [Runners -> Runs]
    /\ mails \in [Appts -> Nat]
    /\ failed \subseteq Appts /\ again \subseteq Appts /\ served \subseteq Appts
    /\ \A r \in Runners :
          /\ run[r].on \/ run[r] = NoRun
          /\ run[r].mailed \in run[r].todo \cup {"none"}

(* A customer is reminded once, however late runs and their windows overlap, *)
(* except after a run that was killed between the mail and the save, two     *)
(* runs that fetched the row together, or a PATCH that put back a row older  *)
(* than the reminder.                                                       *)
OnceUnlessExcused == \A a \in Appts \ again : mails[a] <= 1

(* A run that finishes leaves out nobody: each appointment that was          *)
(* confirmed and in its window when it started was mailed by some run, or    *)
(* its mail failed, whatever was patched or deleted meanwhile.               *)
NobodySkipped == \A a \in served : mails[a] > 0 \/ a \in failed

(* A reminder comes about a day ahead and never in the last Lead - Width -   *)
(* Limit minutes, even from a run that took its whole time limit.            *)
InGoodTime ==
    [][\A a \in Appts : mails'[a] # mails[a] =>
          /\ appt[a].start <= now + Lead
          /\ appt[a].start > now + Lead - Width - Limit]_vars
=============================================================================
