---------------------------- MODULE BookingProofs ----------------------------
(***************************************************************************)
(* Proofs about Booking, for any set of opening hours, durations, workers  *)
(* and appointments.  The double booking rule is not inductive: it needs   *)
(* what a booking in flight still knows of the calendar.                   *)
(***************************************************************************)
EXTENDS Booking, TLAPS

(* A booking whose check is still fresh overlaps no appointment but loose    *)
(* ones.                                                                    *)
FreshIsFree ==
    \A w \in Workers, a \in Appts :
        Booking(w) /\ w \notin late /\ appt[a].status \in Live =>
            a \in loose \/ ~Overlaps(req[w].start, req[w].end, appt[a])

(* A booking in flight lies within the hours its slot was computed from.    *)
FlightWithinHours ==
    \A w \in Workers : Booking(w) =>
        \E rule \in Hours :
            /\ rule.from <= req[w].start
            /\ req[w].start < req[w].end
            /\ req[w].end <= rule.to

(* A PATCH in flight is of an appointment that was made.                    *)
FlightExists ==
    \A w \in Workers : req[w].op = "patch" => appt[req[w].appt].status # "none"

IInv ==
    /\ TypeOK
    /\ FreshIsFree
    /\ ClashIsLoose
    /\ FlightWithinHours
    /\ WithinHours
    /\ FlightExists
    /\ LiveHasService

-----------------------------------------------------------------------------
(* The shape of rows and requests.                                         *)

LEMMA RowShape ==
    ASSUME TypeOK, NEW a \in Appts, appt[a].status # "none"
    PROVE  /\ appt[a] \in Row
           /\ appt[a].service \in Services
           /\ appt[a].start \in Nat /\ appt[a].end \in Nat
BY DEF TypeOK, Row, NoRow

LEMMA BookShape ==
    ASSUME TypeOK, NEW w \in Workers, Booking(w)
    PROVE  /\ req[w].service \in Services
           /\ req[w].start \in Nat /\ req[w].end \in Nat
BY DEF TypeOK, Booking, Request, Idle

LEMMA PatchShape ==
    ASSUME TypeOK, NEW w \in Workers, req[w].op = "patch"
    PROVE  req[w].appt \in Appts /\ req[w].to \in Status
BY DEF TypeOK, Request, Idle

(* get_available_slots: every slot of the grid lies within its rule.        *)
LEMMA GridWithin ==
    ASSUME NEW rule \in Hours, NEW d \in Durations, NEW t \in Grid(rule, d)
    PROVE  /\ t \in Nat /\ t + d \in Nat
           /\ rule.from <= t /\ t < t + d /\ t + d <= rule.to
<1>1. rule.from \in Nat /\ rule.to \in Nat /\ d \in Nat /\ d > 0
  BY HoursAssumption, DurationsAssumption
<1>2. PICK k \in 0..rule.to : t = rule.from + k * d /\ rule.from + k * d + d <= rule.to
  BY DEF Grid
<1>3. k * d \in Nat
  BY <1>1, <1>2
<1>4. QED
  BY <1>1, <1>2, <1>3

(* ... and overlaps no appointment that is booked.                          *)
LEMMA OpenIsFree ==
    ASSUME NEW d \in Durations, NEW t \in Open(d), rules \subseteq Hours
    PROVE  /\ \E rule \in Hours : t \in Grid(rule, d)
           /\ \A a \in Appts : appt[a].status \in Live => ~Overlaps(t, t + d, appt[a])
BY DEF Open, Busy

(* Two slots of one rule are at least a duration apart ...                  *)
LEMMA GridApart ==
    ASSUME NEW from \in Nat, NEW d \in Nat \ {0}, NEW j \in Nat, NEW k \in Nat, j < k
    PROVE  from + j * d + d <= from + k * d
<1>1. k - j - 1 \in Nat
  OBVIOUS
<1>2. (k - j - 1) * d >= 0
  BY <1>1
<1>3. k * d = j * d + (k - j - 1) * d + d
  OBVIOUS
<1> QED
  BY <1>2, <1>3

(* ... so no two of the slots get_available_slots lists for a rule overlap, *)
(* and booking one of them takes no other away.                             *)
THEOREM SlotsAreApart ==
    ASSUME NEW rule \in Hours, NEW d \in Durations,
           NEW t \in Grid(rule, d), NEW u \in Grid(rule, d), t # u
    PROVE  ~Overlaps(t, t + d, [start |-> u, end |-> u + d])
<1>1. rule.from \in Nat /\ rule.to \in Nat /\ d \in Nat \ {0}
  BY HoursAssumption, DurationsAssumption
<1>2. PICK j \in 0..rule.to : t = rule.from + j * d
  BY DEF Grid
<1>3. PICK k \in 0..rule.to : u = rule.from + k * d
  BY DEF Grid
<1>4. j \in Nat /\ k \in Nat /\ j # k
  BY <1>1, <1>2, <1>3
<1>5. t \in Nat /\ u \in Nat
  BY GridWithin
<1>6. CASE j < k
  <2>1. t + d <= u
    BY <1>1, <1>2, <1>3, <1>4, <1>6, GridApart
  <2> QED
    BY <1>1, <1>5, <2>1 DEF Overlaps
<1>7. CASE k < j
  <2>1. u + d <= t
    BY <1>1, <1>2, <1>3, <1>4, <1>7, GridApart
  <2> QED
    BY <1>1, <1>5, <2>1 DEF Overlaps
<1> QED
  BY <1>4, <1>6, <1>7

LEMMA Initially == Init => IInv
<1> SUFFICES ASSUME Init PROVE IInv
  OBVIOUS
<1>1. \A s \in Services : service[s] \in [state: {"active"}, length: Durations]
  BY DEF Init
<1>2. TypeOK
  BY <1>1 DEF Init, TypeOK, Service
<1>3. \A w \in Workers : req[w].op = "idle"
  BY DEF Init, Idle
<1>4. \A a \in Appts : appt[a].status = "none"
  BY DEF Init, NoRow
<1>5. FreshIsFree /\ FlightWithinHours /\ FlightExists
  BY <1>3 DEF FreshIsFree, FlightWithinHours, FlightExists, Booking
<1>6. ClashIsLoose /\ WithinHours
  BY <1>4 DEF ClashIsLoose, Clash, Live, WithinHours
<1>7. LiveHasService
  BY <1>4, ClosedAssumption DEF LiveHasService, Status, Live
<1>8. QED
  BY <1>2, <1>5, <1>6, <1>7 DEF IInv

-----------------------------------------------------------------------------
(* One lemma per action.                                                   *)

LEMMA BookBeginKeeps ==
    ASSUME IInv, NEW w \in Workers, BookBegin(w)
    PROVE  IInv'
<1>1. PICK s \in Services : \E t \in Open(service[s].length) :
          Start(w, [op |-> "book", service |-> s, start |-> t,
                    end |-> t + service[s].length])
  BY DEF BookBegin
<1>2. PICK t \in Open(service[s].length) :
          Start(w, [op |-> "book", service |-> s, start |-> t,
                    end |-> t + service[s].length])
  BY <1>1
<1>3. service[s].length \in Durations /\ rules \subseteq Hours
  BY DEF IInv, TypeOK, Service
<1>4. PICK rule \in Hours : t \in Grid(rule, service[s].length)
  BY <1>3, OpenIsFree
<1>5. /\ t \in Nat /\ t + service[s].length \in Nat
      /\ rule.from <= t /\ t < t + service[s].length
      /\ t + service[s].length <= rule.to
  BY <1>3, <1>4, GridWithin
<1> DEFINE r == [op |-> "book", service |-> s, start |-> t, end |-> t + service[s].length]
<1>6. /\ r \in Request /\ r.op = "book" /\ r.start = t
      /\ r.end = t + service[s].length
  BY <1>5 DEF Request
<1>7. req' = [req EXCEPT ![w] = r]
  BY <1>2 DEF Start
<1>8. UNCHANGED <<rules, service, appt, late, loose>>
  BY DEF BookBegin
<1>9. \A a \in Appts : appt[a].status \in Live => ~Overlaps(r.start, r.end, appt[a])
  BY <1>3, <1>6, OpenIsFree
<1> HIDE DEF r
<1>10. TypeOK'
  BY <1>6, <1>7, <1>8 DEF IInv, TypeOK
<1>11. req'[w] = r /\ \A v \in Workers \ {w} : req'[v] = req[v]
  BY <1>7 DEF IInv, TypeOK
<1>12. FreshIsFree'
  BY <1>8, <1>9, <1>11 DEF IInv, FreshIsFree, Booking, Overlaps
<1>13. FlightWithinHours'
  BY <1>5, <1>6, <1>11 DEF IInv, FlightWithinHours, Booking
<1>14. FlightExists'
  BY <1>6, <1>8, <1>11 DEF IInv, FlightExists
<1>15. (ClashIsLoose /\ WithinHours /\ LiveHasService)'
  BY <1>8 DEF IInv, ClashIsLoose, Clash, Overlaps, WithinHours, LiveHasService
<1>16. QED
  BY <1>10, <1>12, <1>13, <1>14, <1>15 DEF IInv

LEMMA BookCommitKeeps ==
    ASSUME IInv, NEW w \in Workers, BookCommit(w)
    PROVE  IInv'
<1> DEFINE r == req[w]
           n == [service |-> r.service, start |-> r.start, end |-> r.end,
                 status |-> "pending"]
<1>1. PICK a \in Appts :
          /\ appt[a].status = "none"
          /\ appt' = [appt EXCEPT ![a] = n]
          /\ loose' = IF w \in late THEN loose \cup {a} ELSE loose
  BY DEF BookCommit
<1>2. /\ Booking(w) /\ service[r.service].state # "deleted"
      /\ late' = {v \in Workers \ {w} : Booking(v)}
      /\ req' = [req EXCEPT ![w] = Idle]
      /\ UNCHANGED <<rules, service>>
  BY DEF BookCommit, Finish
<1>3. r.service \in Services /\ r.start \in Nat /\ r.end \in Nat
  BY <1>2, BookShape DEF IInv
<1>4. /\ n \in Row /\ n.status = "pending" /\ n.service = r.service
      /\ n.start = r.start /\ n.end = r.end
  BY <1>3 DEF Row, Status, Live
<1>5. appt'[a] = n /\ \A b \in Appts \ {a} : appt'[b] = appt[b]
  BY <1>1 DEF IInv, TypeOK
<1>6. /\ req'[w].op = "idle" /\ \A v \in Workers \ {w} : req'[v] = req[v]
  BY <1>2 DEF IInv, TypeOK, Idle
<1> HIDE DEF n
<1>7. TypeOK'
  BY <1>1, <1>2, <1>4 DEF IInv, TypeOK
<1>8. FreshIsFree'
  BY <1>2, <1>6 DEF FreshIsFree, Booking
<1>9. \A b \in Appts \ {a} :
        (appt[b].status \in Live /\ w \notin late) =>
            b \in loose \/ ~(r.start < appt[b].end /\ r.end > appt[b].start)
  BY <1>2 DEF IInv, FreshIsFree, Overlaps
<1>10. ClashIsLoose'
  <2> SUFFICES ASSUME NEW x \in Appts, NEW y \in Appts, Clash(x, y)'
               PROVE  x \in loose' \/ y \in loose'
    BY DEF ClashIsLoose
  <2>1. /\ x # y /\ appt'[x].status \in Live /\ appt'[y].status \in Live
        /\ appt'[x].start < appt'[y].end /\ appt'[x].end > appt'[y].start
    BY DEF Clash, Overlaps
  <2>2. loose \subseteq loose' /\ (w \in late => a \in loose')
    BY <1>1
  <2>3. CASE x # a /\ y # a
    BY <1>5, <2>1, <2>2, <2>3 DEF IInv, ClashIsLoose, Clash, Overlaps
  <2>4. CASE x = a
    BY <1>4, <1>5, <1>9, <2>1, <2>2, <2>4
  <2>5. CASE y = a
    <3>1. x \in Appts \ {a} /\ appt'[x] = appt[x] /\ appt'[y] = n
      BY <1>5, <2>1, <2>5
    <3>2. appt[x].start \in Nat /\ appt[x].end \in Nat
      BY <2>1, <3>1, RowShape DEF IInv, Live
    <3>3. QED
      BY <1>3, <1>4, <1>9, <2>1, <2>2, <2>5, <3>1, <3>2
  <2>6. QED
    BY <2>3, <2>4, <2>5
<1>11. FlightWithinHours'
  BY <1>6 DEF IInv, FlightWithinHours, Booking
<1>12. WithinHours'
  <2>1. \E rule \in Hours : rule.from <= n.start /\ n.start < n.end /\ n.end <= rule.to
    BY <1>2, <1>4 DEF IInv, FlightWithinHours
  <2>2. QED
    BY <1>5, <2>1 DEF IInv, WithinHours
<1>13. FlightExists'
  <2> SUFFICES ASSUME NEW v \in Workers, req'[v].op = "patch"
               PROVE  appt'[req'[v].appt].status # "none"
    BY DEF FlightExists
  <2>1. req'[v] = req[v]
    BY <1>6
  <2>2. req[v].appt \in Appts /\ appt[req[v].appt].status # "none"
    BY <2>1, PatchShape DEF IInv, FlightExists
  <2>3. QED
    BY <1>4, <1>5, <2>1, <2>2
<1>14. LiveHasService'
  BY <1>2, <1>4, <1>5 DEF IInv, LiveHasService
<1>15. QED
  BY <1>7, <1>8, <1>10, <1>11, <1>12, <1>13, <1>14 DEF IInv

LEMMA PatchBeginKeeps ==
    ASSUME IInv, NEW w \in Workers, PatchBegin(w)
    PROVE  IInv'
<1>1. PICK a \in Appts, to \in Status :
          /\ appt[a].status \in Status
          /\ Start(w, [op |-> "patch", appt |-> a, to |-> to])
  BY DEF PatchBegin
<1> DEFINE r == [op |-> "patch", appt |-> a, to |-> to]
<1>2. r \in Request /\ r.op = "patch" /\ r.appt = a
  BY DEF Request
<1>3. req' = [req EXCEPT ![w] = r]
  BY <1>1 DEF Start
<1> HIDE DEF r
<1>4. UNCHANGED <<rules, service, appt, late, loose>>
  BY DEF PatchBegin
<1>5. req'[w] = r /\ \A v \in Workers \ {w} : req'[v] = req[v]
  BY <1>3 DEF IInv, TypeOK
<1>6. TypeOK'
  BY <1>2, <1>3, <1>4 DEF IInv, TypeOK
<1>7. (FreshIsFree /\ FlightWithinHours)'
  BY <1>2, <1>4, <1>5 DEF IInv, FreshIsFree, FlightWithinHours, Booking, Overlaps
<1>8. appt[a].status # "none"
  BY <1>1, ClosedAssumption DEF Status, Live
<1>9. FlightExists'
  BY <1>2, <1>4, <1>5, <1>8 DEF IInv, FlightExists
<1>10. (ClashIsLoose /\ WithinHours /\ LiveHasService)'
  BY <1>4 DEF IInv, ClashIsLoose, Clash, Overlaps, WithinHours, LiveHasService
<1>11. QED
  BY <1>6, <1>7, <1>9, <1>10 DEF IInv

LEMMA PatchCommitKeeps ==
    ASSUME IInv, NEW w \in Workers, PatchCommit(w)
    PROVE  IInv'
<1>1. PICK a, to : a = req[w].appt /\ to = req[w].to
  OBVIOUS
<1>2. /\ req[w].op = "patch"
      /\ service[appt[a].service].state # "deleted"
      /\ appt' = [appt EXCEPT ![a].status = to]
      /\ loose' = IF to \in Live /\ appt[a].status \notin Live
                  THEN loose \cup {a} ELSE loose
      /\ req' = [req EXCEPT ![w] = Idle]
      /\ UNCHANGED <<rules, service, late>>
  BY <1>1 DEF PatchCommit, Finish
<1>3. a \in Appts /\ to \in Status /\ appt[a].status # "none"
  BY <1>1, <1>2, PatchShape DEF IInv, FlightExists
<1>4. appt[a] \in Row
  BY <1>3, RowShape DEF IInv
<1>5. /\ appt'[a] \in Row /\ appt'[a].status = to
      /\ appt'[a].start = appt[a].start /\ appt'[a].end = appt[a].end
      /\ appt'[a].service = appt[a].service
  BY <1>2, <1>3, <1>4 DEF IInv, TypeOK, Row
<1>6. \A b \in Appts \ {a} : appt'[b] = appt[b]
  BY <1>2 DEF IInv, TypeOK
<1>7. /\ req'[w].op = "idle" /\ \A v \in Workers \ {w} : req'[v] = req[v]
  BY <1>2 DEF IInv, TypeOK, Idle
<1>8. /\ loose \subseteq loose' /\ loose' \subseteq Appts
      /\ to \in Live /\ appt[a].status \notin Live => a \in loose'
  BY <1>2, <1>3 DEF IInv, TypeOK
<1>9. to # "none"
  BY <1>3, ClosedAssumption DEF Status, Live
<1>10. \A b \in Appts :
          /\ appt'[b].start = appt[b].start /\ appt'[b].end = appt[b].end
          /\ appt'[b].status \in Live => appt[b].status \in Live \/ b \in loose'
          /\ appt'[b].status # "none" <=> appt[b].status # "none"
  BY <1>3, <1>5, <1>6, <1>8, <1>9
<1>11. TypeOK'
  <2>1. appt' \in [Appts -> Row \cup {NoRow}]
    <3>1. appt' = [b \in Appts |-> appt'[b]]
      BY <1>2 DEF IInv, TypeOK
    <3>2. \A b \in Appts : appt'[b] \in Row \cup {NoRow}
      BY <1>5, <1>6 DEF IInv, TypeOK
    <3>3. QED
      BY <3>1, <3>2
  <2>2. QED
    BY <1>2, <1>8, <2>1 DEF IInv, TypeOK
<1>12. FreshIsFree'
  BY <1>2, <1>7, <1>8, <1>10 DEF IInv, FreshIsFree, Booking, Overlaps
<1>13. ClashIsLoose'
  BY <1>8, <1>10 DEF IInv, ClashIsLoose, Clash, Overlaps
<1>14. FlightWithinHours'
  BY <1>7 DEF IInv, FlightWithinHours, Booking
<1>15. WithinHours'
  BY <1>10 DEF IInv, WithinHours
<1>16. FlightExists'
  <2> SUFFICES ASSUME NEW v \in Workers, req'[v].op = "patch"
               PROVE  appt'[req'[v].appt].status # "none"
    BY DEF FlightExists
  <2>1. req'[v] = req[v]
    BY <1>7
  <2>2. req[v].appt \in Appts /\ appt[req[v].appt].status # "none"
    BY <2>1, PatchShape DEF IInv, FlightExists
  <2>3. QED
    BY <1>10, <2>1, <2>2
<1>17. LiveHasService'
  <2>1. \A b \in Appts : appt'[b].status \in Status =>
            service[appt'[b].service].state # "deleted"
    BY <1>2, <1>5, <1>6 DEF IInv, LiveHasService
  <2>2. QED
    BY <1>2, <2>1 DEF LiveHasService
<1>18. QED
  BY <1>11, <1>12, <1>13, <1>14, <1>15, <1>16, <1>17 DEF IInv

LEMMA AbortKeeps ==
    ASSUME IInv, NEW w \in Workers, Abort(w)
    PROVE  IInv'
<1>1. /\ req' = [req EXCEPT ![w] = Idle] /\ late' = late \ {w}
      /\ UNCHANGED <<rules, service, appt, loose>>
  BY DEF Abort, Finish
<1>2. req'[w].op = "idle" /\ \A v \in Workers \ {w} : req'[v] = req[v]
  BY <1>1 DEF IInv, TypeOK, Idle
<1>3. TypeOK'
  BY <1>1 DEF IInv, TypeOK
<1>4. FreshIsFree'
  BY <1>1, <1>2 DEF IInv, FreshIsFree, Booking, Overlaps
<1>5. (FlightWithinHours /\ FlightExists)'
  BY <1>1, <1>2 DEF IInv, FlightWithinHours, FlightExists, Booking
<1>6. (ClashIsLoose /\ WithinHours /\ LiveHasService)'
  BY <1>1 DEF IInv, ClashIsLoose, Clash, Overlaps, WithinHours, LiveHasService
<1>7. QED
  BY <1>3, <1>4, <1>5, <1>6 DEF IInv

(* Deleting appointments disturbs none of the rules about the others.       *)
LEMMA DeletingKeeps ==
    ASSUME IInv, UNCHANGED <<req, late, loose>>,
           \A a \in Appts :
              /\ appt'[a].start = appt[a].start /\ appt'[a].end = appt[a].end
              /\ \/ appt'[a].status = appt[a].status
                 \/ appt'[a].status = "deleted" /\ appt[a].status # "none"
    PROVE  (FreshIsFree /\ ClashIsLoose /\ FlightWithinHours /\ WithinHours
                /\ FlightExists)'
<1>1. \A a \in Appts : appt'[a].status \in Live => appt[a].status \in Live
  BY DEF Live
<1>2. \A a \in Appts : appt'[a].status # "none" <=> appt[a].status # "none"
  OBVIOUS
<1>3. FreshIsFree'
  BY <1>1 DEF IInv, FreshIsFree, Booking, Overlaps
<1>4. ClashIsLoose'
  BY <1>1 DEF IInv, ClashIsLoose, Clash, Overlaps
<1>5. FlightWithinHours'
  BY DEF IInv, FlightWithinHours, Booking
<1>6. WithinHours'
  BY <1>2 DEF IInv, WithinHours
<1>7. FlightExists'
  <2> SUFFICES ASSUME NEW w \in Workers, req[w].op = "patch"
               PROVE  appt'[req[w].appt].status # "none"
    BY DEF FlightExists
  <2>1. req[w].appt \in Appts /\ appt[req[w].appt].status # "none"
    BY PatchShape DEF IInv, FlightExists
  <2>2. QED
    BY <1>2, <2>1
<1>8. QED
  BY <1>3, <1>4, <1>5, <1>6, <1>7

LEMMA DeleteApptKeeps == ASSUME IInv, DeleteAppt PROVE IInv'
<1>1. PICK a \in Appts :
          /\ appt[a].status \in Status
          /\ appt' = [appt EXCEPT ![a].status = "deleted"]
  BY DEF DeleteAppt
<1>2. UNCHANGED <<rules, service, req, late, loose>>
  BY DEF DeleteAppt
<1>3. appt[a].status # "none" /\ "deleted" \notin Status
  BY <1>1, ClosedAssumption DEF Status, Live
<1>4. appt[a] \in Row
  BY <1>3, RowShape DEF IInv
<1>5. /\ appt'[a] \in Row /\ appt'[a].status = "deleted"
      /\ appt'[a].start = appt[a].start /\ appt'[a].end = appt[a].end
  BY <1>1, <1>4 DEF IInv, TypeOK, Row
<1>6. \A b \in Appts \ {a} : appt'[b] = appt[b]
  BY <1>1 DEF IInv, TypeOK
<1>7. TypeOK'
  <2>1. appt' = [b \in Appts |-> appt'[b]]
    BY <1>1 DEF IInv, TypeOK
  <2>2. \A b \in Appts : appt'[b] \in Row \cup {NoRow}
    BY <1>5, <1>6 DEF IInv, TypeOK
  <2>3. QED
    BY <1>2, <2>1, <2>2 DEF IInv, TypeOK
<1>8. LiveHasService'
  BY <1>2, <1>3, <1>5, <1>6 DEF IInv, LiveHasService
<1>9. QED
  BY <1>2, <1>3, <1>5, <1>6, <1>7, <1>8, DeletingKeeps DEF IInv

LEMMA EditRulesKeeps == ASSUME IInv, EditRules PROVE IInv'
<1>1. UNCHANGED <<service, appt, req, late, loose>>
  BY DEF EditRules
<1>2. TypeOK'
  BY <1>1 DEF IInv, TypeOK, EditRules
<1>3. LiveHasService'
  BY <1>1 DEF IInv, LiveHasService
<1>4. QED
  BY <1>1, <1>2, <1>3, DeletingKeeps DEF IInv

LEMMA EditServiceKeeps == ASSUME IInv, EditService PROVE IInv'
<1>1. PICK s \in Services, new \in [state: {"active", "inactive"}, length: Durations] :
          service' = [service EXCEPT ![s] = new]
  BY DEF EditService
<1>2. UNCHANGED <<rules, appt, req, late, loose>>
  BY DEF EditService
<1>3. new \in Service /\ new.state # "deleted"
  BY DEF Service
<1>4. service'[s] = new /\ \A t \in Services \ {s} : service'[t] = service[t]
  BY <1>1 DEF IInv, TypeOK
<1>5. TypeOK'
  BY <1>1, <1>2, <1>3 DEF IInv, TypeOK
<1>6. LiveHasService'
  <2> SUFFICES ASSUME NEW a \in Appts, appt[a].status \in Status
               PROVE  service'[appt[a].service].state # "deleted"
    BY <1>2 DEF LiveHasService
  <2>1. appt[a].service \in Services
    BY RowShape, ClosedAssumption DEF IInv, Status, Live
  <2>2. QED
    BY <1>3, <1>4, <2>1 DEF IInv, LiveHasService
<1>7. QED
  BY <1>2, <1>5, <1>6, DeletingKeeps DEF IInv

LEMMA DeleteServiceKeeps == ASSUME IInv, DeleteService PROVE IInv'
<1>1. PICK s \in Services :
          /\ service' = [service EXCEPT ![s].state = "deleted"]
          /\ appt' = [a \in Appts |->
                IF appt[a].service = s THEN [appt[a] EXCEPT !.status = "deleted"]
                ELSE appt[a]]
  BY DEF DeleteService
<1>2. UNCHANGED <<rules, req, late, loose>>
  BY DEF DeleteService
<1>3. service'[s] \in Service /\ \A t \in Services \ {s} : service'[t] = service[t]
  BY <1>1 DEF IInv, TypeOK, Service
<1>4. \A a \in Appts : appt[a].service = s =>
          /\ appt[a] \in Row /\ appt[a].status # "none"
  BY ApptsAssumption, ClosedAssumption DEF IInv, TypeOK, NoRow, Row, Status, Live
<1>5. \A a \in Appts : appt[a].service = s =>
          /\ appt'[a] \in Row /\ appt'[a].status = "deleted"
          /\ appt'[a].start = appt[a].start /\ appt'[a].end = appt[a].end
  BY <1>1, <1>4 DEF Row
<1>6. \A a \in Appts : appt[a].service # s => appt'[a] = appt[a]
  BY <1>1
<1>7. TypeOK'
  <2>1. appt' = [a \in Appts |-> appt'[a]]
    BY <1>1
  <2>2. \A a \in Appts : appt'[a] \in Row \cup {NoRow}
    BY <1>5, <1>6 DEF IInv, TypeOK
  <2>3. service' \in [Services -> Service]
    BY <1>1, <1>3 DEF IInv, TypeOK
  <2>4. QED
    BY <1>2, <2>1, <2>2, <2>3 DEF IInv, TypeOK
<1>8. LiveHasService'
  <2> SUFFICES ASSUME NEW a \in Appts, appt'[a].status \in Status
               PROVE  service'[appt'[a].service].state # "deleted"
    BY DEF LiveHasService
  <2>1. "deleted" \notin Status /\ "none" \notin Status
    BY ClosedAssumption DEF Status, Live
  <2>2. appt[a].service # s /\ appt'[a] = appt[a]
    BY <1>5, <1>6, <2>1
  <2>3. appt[a].service \in Services
    BY <2>1, <2>2, RowShape DEF IInv
  <2>4. QED
    BY <1>3, <2>2, <2>3 DEF IInv, LiveHasService
<1>9. QED
  BY <1>2, <1>4, <1>5, <1>6, <1>7, <1>8, DeletingKeeps DEF IInv

LEMMA StutterKeeps == ASSUME IInv, UNCHANGED vars PROVE IInv'
<1>1. UNCHANGED <<rules, service, appt, req, late, loose>>
  BY DEF vars
<1>2. (TypeOK /\ LiveHasService)'
  BY <1>1 DEF IInv, TypeOK, LiveHasService
<1>3. QED
  BY <1>1, <1>2, DeletingKeeps DEF IInv

-----------------------------------------------------------------------------
(* The invariant holds of every state of the calendar.                      *)
THEOREM Invariance == Spec => []IInv
<1>1. Init => IInv
  BY Initially
<1>2. IInv /\ [Next]_vars => IInv'
  <2> SUFFICES ASSUME IInv, [Next]_vars PROVE IInv'
    OBVIOUS
  <2>1. ASSUME NEW w \in Workers, RequestStep(w) PROVE IInv'
    BY <2>1, BookBeginKeeps, BookCommitKeeps, PatchBeginKeeps, PatchCommitKeeps,
       AbortKeeps DEF RequestStep
  <2>2. CASE DeleteAppt
    BY <2>2, DeleteApptKeeps
  <2>3. CASE EditRules
    BY <2>3, EditRulesKeeps
  <2>4. CASE EditService
    BY <2>4, EditServiceKeeps
  <2>5. CASE DeleteService
    BY <2>5, DeleteServiceKeeps
  <2>6. CASE UNCHANGED vars
    BY <2>6, StutterKeeps
  <2>7. QED
    BY <2>1, <2>2, <2>3, <2>4, <2>5, <2>6 DEF Next
<1>3. QED
  BY <1>1, <1>2, PTL DEF Spec

(* Two live appointments overlap only if one came in without a fresh look   *)
(* at the calendar: for any opening hours, durations and number of visitors *)
(* (book_appointment).                                                      *)
THEOREM DoubleBookingIsLoose == Spec => []ClashIsLoose
<1>1. IInv => ClashIsLoose
  BY DEF IInv
<1>2. QED
  BY <1>1, Invariance, PTL

(* Every appointment was made inside the opening hours (get_available_slots).*)
THEOREM MadeWithinHours == Spec => []WithinHours
<1>1. IInv => WithinHours
  BY DEF IInv
<1>2. QED
  BY <1>1, Invariance, PTL

(* No appointment outlives its service (on_delete CASCADE).                 *)
THEOREM NeverOrphaned == Spec => []LiveHasService
<1>1. IInv => LiveHasService
  BY DEF IInv
<1>2. QED
  BY <1>1, Invariance, PTL

(* The calendar and the requests in flight stay well formed                 *)
(* (apps/appointments).                                                     *)
THEOREM TypeCorrect == Spec => []TypeOK
<1>1. IInv => TypeOK
  BY DEF IInv
<1> QED
  BY <1>1, Invariance, PTL
=============================================================================
