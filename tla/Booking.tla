------------------------------- MODULE Booking -------------------------------
(***************************************************************************)
(* Appointments on one day of one card's calendar: apps/appointments       *)
(* services and views (the reminder task is not part of this module).      *)
(*                                                                         *)
(* A visitor's booking computes the open slots from the availability rules *)
(* and the pending and confirmed appointments, and inserts a row if the    *)
(* wanted start is among them.  No lock and no constraint guards the slot: *)
(* the check and the insert are a read step and a commit step.             *)
(***************************************************************************)
EXTENDS Integers, FiniteSets

CONSTANTS
    Workers,      \* web workers
    Appts,        \* appointment rows: bounds the bookings of the day
    Services,     \* appointment services of the card
    Durations,    \* duration_minutes a service may be given
    Closed,       \* statuses that free the slot, of those AppointmentStatus has
    Hours         \* availability rules the owner may set for the weekday

ASSUME DurationsAssumption == Durations \subseteq Nat \ {0}
ASSUME HoursAssumption == Hours \subseteq [from: Nat, to: Nat]
ASSUME ClosedAssumption == Closed \subseteq {"cancelled", "completed", "no_show"}
ASSUME ApptsAssumption == "none" \notin Appts /\ "none" \notin Services

VARIABLES
    rules,        \* the AvailabilityRule table
    service,      \* the AppointmentService table
    appt,         \* the Appointment table
    req,          \* what each web worker is doing
    late,         \* history: workers whose check is older than another booking
    loose         \* history: appointments that are live without a fresh check

vars == <<rules, service, appt, req, late, loose>>

-----------------------------------------------------------------------------
Live == {"pending", "confirmed"}
Status == Live \cup Closed

Service == [state: {"active", "inactive", "deleted"}, length: Durations]

Row == [service: Services, start: Nat, end: Nat, status: Status \cup {"deleted"}]
NoRow == [service |-> "none", start |-> 0, end |-> 0, status |-> "none"]

(* A request in flight: the booking it is about to insert, or the           *)
(* appointment the owner is patching and the status the owner chose.        *)
Request ==
    [op: {"book"}, service: Services, start: Nat, end: Nat]
        \cup [op: {"patch"}, appt: Appts, to: Status]
Idle == [op |-> "idle"]

Init ==
    /\ rules \in SUBSET Hours
    /\ service \in [Services -> [state: {"active"}, length: Durations]]
    /\ appt = [a \in Appts |-> NoRow]
    /\ req = [w \in Workers |-> Idle]
    /\ late = {}
    /\ loose = {}

-----------------------------------------------------------------------------
(* get_available_slots.                                                    *)

Overlaps(start, end, row) == start < row.end /\ end > row.start

(* MUTANT of Busy: pending appointments are not counted as booked.          *)
BusyConfirmed == {a \in Appts : appt[a].status = "confirmed"}

Busy == {a \in Appts : appt[a].status \in Live}

(* MUTANT of Grid: the loop runs while the slot starts before closing time. *)
GridPastEnd(rule, d) ==
    {rule.from + k * d : k \in {k \in 0..rule.to : rule.from + k * d < rule.to}}

(* MUTANT of Grid: the first slot begins one duration before opening time.  *)
GridEarly(rule, d) ==
    {rule.from + k * d : k \in {k \in -1..rule.to : rule.from + k * d + d <= rule.to}}

(* The starts a rule offers: every d from opening time, while a whole slot  *)
(* fits before closing time.                                                *)
Grid(rule, d) ==
    {rule.from + k * d : k \in {k \in 0..rule.to : rule.from + k * d + d <= rule.to}}

Open(d) ==
    {t \in UNION {Grid(rule, d) : rule \in rules} :
        \A a \in Busy : ~Overlaps(t, t + d, appt[a])}

-----------------------------------------------------------------------------
Start(w, r) == req[w].op = "idle" /\ req' = [req EXCEPT ![w] = r]
Finish(w) == req' = [req EXCEPT ![w] = Idle]

(* PublicBookingView and book_appointment, up to the check.                 *)
BookBegin(w) ==
    /\ \E s \in Services :
          /\ service[s].state = "active"
          /\ \E t \in Open(service[s].length) :
                Start(w, [op |-> "book", service |-> s, start |-> t,
                          end |-> t + service[s].length])
    /\ UNCHANGED <<rules, service, appt, late, loose>>

Booking(w) == req[w].op = "book"

(* MUTANT of BookCommit: the row outlives a service deleted meanwhile.      *)
BookCommitNoKey(w) ==
    /\ Booking(w)
    /\ \E a \in Appts :
          /\ appt[a].status = "none"
          /\ appt' = [appt EXCEPT ![a] =
                [service |-> req[w].service, start |-> req[w].start,
                 end |-> req[w].end, status |-> "pending"]]
          /\ loose' = IF w \in late THEN loose \cup {a} ELSE loose
    /\ late' = {v \in Workers \ {w} : Booking(v)}
    /\ Finish(w)
    /\ UNCHANGED <<rules, service>>

(* The insert; the foreign key fails if the service is gone.                *)
BookCommit(w) ==
    /\ Booking(w)
    /\ service[req[w].service].state # "deleted"
    /\ \E a \in Appts :
          /\ appt[a].status = "none"
          /\ appt' = [appt EXCEPT ![a] =
                [service |-> req[w].service, start |-> req[w].start,
                 end |-> req[w].end, status |-> "pending"]]
          /\ loose' = IF w \in late THEN loose \cup {a} ELSE loose
    /\ late' = {v \in Workers \ {w} : Booking(v)}
    /\ Finish(w)
    /\ UNCHANGED <<rules, service>>

(* AppointmentViewSet.partial_update: any status may follow any other.      *)
PatchBegin(w) ==
    /\ \E a \in Appts, to \in Status :
          /\ appt[a].status \in Status
          /\ Start(w, [op |-> "patch", appt |-> a, to |-> to])
    /\ UNCHANGED <<rules, service, appt, late, loose>>

(* The whole row is saved, inserted again if it was deleted meanwhile; times *)
(* and service of an appointment never change.                              *)
PatchCommit(w) ==
    /\ req[w].op = "patch"
    /\ LET a == req[w].appt IN
          /\ service[appt[a].service].state # "deleted"
          /\ appt' = [appt EXCEPT ![a].status = req[w].to]
          /\ loose' = IF req[w].to \in Live /\ appt[a].status \notin Live
                      THEN loose \cup {a} ELSE loose
    /\ Finish(w)
    /\ UNCHANGED <<rules, service, late>>

(* An error or a dead worker: nothing is saved.                             *)
Abort(w) ==
    /\ req[w].op # "idle"
    /\ Finish(w)
    /\ late' = late \ {w}
    /\ UNCHANGED <<rules, service, appt, loose>>

(* AppointmentViewSet.destroy.                                              *)
DeleteAppt ==
    /\ \E a \in Appts :
          /\ appt[a].status \in Status
          /\ appt' = [appt EXCEPT ![a].status = "deleted"]
    /\ UNCHANGED <<rules, service, req, late, loose>>

(* The owner's availability endpoints: a rule is added, removed or, with    *)
(* a PATCH, replaced.  Appointments already made are not looked at.         *)
EditRules ==
    /\ \E gone, new \in SUBSET Hours :
          /\ Cardinality(gone) <= 1 /\ Cardinality(new) <= 1
          /\ rules' = (rules \ gone) \cup new
    /\ UNCHANGED <<service, appt, req, late, loose>>

(* The owner's service endpoints: a service is patched.  The whole row is    *)
(* saved, so a PATCH that read it before a deletion inserts it again.       *)
EditService ==
    /\ \E s \in Services, new \in [state: {"active", "inactive"}, length: Durations] :
          service' = [service EXCEPT ![s] = new]
    /\ UNCHANGED <<rules, appt, req, late, loose>>

(* ... or deleted, with all its appointments (on_delete CASCADE).           *)
DeleteService ==
    /\ \E s \in Services :
          /\ service[s].state # "deleted"
          /\ service' = [service EXCEPT ![s].state = "deleted"]
          /\ appt' = [a \in Appts |->
                IF appt[a].service = s THEN [appt[a] EXCEPT !.status = "deleted"]
                ELSE appt[a]]
    /\ UNCHANGED <<rules, req, late, loose>>

RequestStep(w) ==
    \/ BookBegin(w) \/ BookCommit(w)
    \/ PatchBegin(w) \/ PatchCommit(w)
    \/ Abort(w)

Next ==
    \/ \E w \in Workers : RequestStep(w)
    \/ DeleteAppt \/ EditRules \/ EditService \/ DeleteService

Spec == Init /\ [][Next]_vars

-----------------------------------------------------------------------------
(* Properties.                                                             *)

(* Every table holds well-formed rows.                                     *)
TypeOK ==
    /\ rules \subseteq Hours
    /\ service \in [Services -> Service]
    /\ appt \in [Appts -> Row \cup {NoRow}]
    /\ req \in [Workers -> Request \cup {Idle}]
    /\ late \subseteq Workers
    /\ loose \subseteq Appts

Clash(a, b) ==
    /\ a # b /\ appt[a].status \in Live /\ appt[b].status \in Live
    /\ Overlaps(appt[a].start, appt[a].end, appt[b])

(* Two live appointments overlap only if one of them came in without a      *)
(* fresh look at the calendar: its booking was checked before another one   *)
(* committed, or the owner set a closed appointment live again.  Neither    *)
(* changing rules and durations, nor cancelling and deleting, nor services  *)
(* of different lengths make a double booking (book_appointment).           *)
ClashIsLoose == \A a, b \in Appts : Clash(a, b) => a \in loose \/ b \in loose

(* No appointment runs past the opening hours it was booked in: it lies on  *)
(* the grid of one rule, from start to end (get_available_slots), however   *)
(* rules and durations change between the check and the insert.             *)
WithinHours ==
    \A a \in Appts : appt[a].status # "none" =>
        \E rule \in Hours :
            /\ rule.from <= appt[a].start
            /\ appt[a].start < appt[a].end
            /\ appt[a].end <= rule.to

(* A live appointment belongs to a service that still exists, whatever is   *)
(* deleted while it is being booked or patched (on_delete CASCADE, and the  *)
(* row a late PATCH puts back).                                             *)
LiveHasService ==
    \A a \in Appts : appt[a].status \in Status =>
        service[appt[a].service].state # "deleted"
=============================================================================
