-------------------------- MODULE RemindersProofs --------------------------
(***************************************************************************)
(* Proofs about Reminders, for any number of appointments, workers and     *)
(* runs, and any lengths of the window and the time limit.                 *)
(***************************************************************************)
EXTENDS Reminders, WellFoundedInduction, TLAPS

-----------------------------------------------------------------------------
(* The inductive invariant.                                                *)

(* A recorded reminder was tried, in the table and in the copies PATCHes    *)
(* hold; no PATCH changes when an appointment starts.                       *)
SentWasTried ==
    /\ \A a \in Appts : appt[a].sent => mails[a] > 0 \/ a \in failed
    /\ \A a \in Appts : appt[a] = NoRow => mails[a] = 0
    /\ \A o \in Owners : patch[o] # NoPatch =>
          /\ patch[o].row.start = appt[patch[o].appt].start
          /\ appt[patch[o].appt] # NoRow
          /\ patch[o].row.status \in Status
          /\ patch[o].row.sent => mails[patch[o].appt] > 0 \/ patch[o].appt \in failed

(* No run is older than the time limit, and its rows are in its window.     *)
RunsInWindow ==
    \A r \in Runners :
        /\ run[r].on => run[r].since <= now /\ now <= run[r].since + Limit
        /\ \A a \in run[r].todo : appt[a] # NoRow /\ InWindow(appt[a].start, run[r].since)

(* What a run has dealt with was tried.                                     *)
DoneWasTried ==
    \A r \in Runners :
        /\ \A a \in run[r].reach \ run[r].todo : mails[a] > 0 \/ a \in failed
        /\ run[r].mailed # "none" =>
              mails[run[r].mailed] > 0 \/ run[r].mailed \in failed

(* An appointment without an excuse is on the list of one run, and was not  *)
(* mailed before; once mailed, it is recorded, or gone, or about to be.     *)
OneRunEach ==
    \A a \in Appts \ again :
        /\ mails[a] <= 1
        /\ mails[a] # 0 =>
              appt[a].sent \/ ~Exists(a) \/ \E r \in Runners : run[r].mailed = a
        /\ \A r, q \in Runners : a \in run[r].todo /\ a \in run[q].todo => r = q
        /\ \A r \in Runners : a \in run[r].todo /\ run[r].mailed # a => mails[a] = 0

IInv ==
    /\ TypeOK
    /\ SentWasTried /\ RunsInWindow /\ DoneWasTried /\ OneRunEach
    /\ NobodySkipped

-----------------------------------------------------------------------------
LEMMA Initially == Init => IInv
<1> SUFFICES ASSUME Init PROVE IInv
  OBVIOUS
<1>1. TypeOK
  BY DEF Init, TypeOK, Runs, NoRun, NoPatch, Patch, NoRow, Row
<1>2. SentWasTried /\ RunsInWindow /\ DoneWasTried /\ OneRunEach /\ NobodySkipped
  BY DEF Init, SentWasTried, RunsInWindow, DoneWasTried, OneRunEach, NobodySkipped,
     NoRun, NoPatch, NoRow, Row
<1> QED
  BY <1>1, <1>2 DEF IInv

(* Rows change, and no start does.                                          *)
LEMMA StartsKept ==
    ASSUME IInv, UNCHANGED <<now, run>>,
           \A b \in Appts : appt'[b].start = appt[b].start,
           \A b \in Appts : appt[b] # NoRow => appt'[b] # NoRow
    PROVE  RunsInWindow'
<1> SUFFICES ASSUME NEW r \in Runners,
                    NEW a \in run[r].todo
             PROVE  appt'[a] # NoRow /\ InWindow(appt'[a].start, run[r].since)
  BY DEF IInv, RunsInWindow
<1>1. a \in Appts
  BY DEF IInv, TypeOK, Runs
<1>2. appt[a] # NoRow /\ InWindow(appt[a].start, run[r].since)
  BY DEF IInv, RunsInWindow
<1> QED
  BY <1>1, <1>2

(* The same for the copies of PATCHes.                                      *)
LEMMA CopiesKept ==
    ASSUME IInv, UNCHANGED <<mails, failed>>, NEW o \in Owners, patch[o] # NoPatch,
           \A b \in Appts : appt'[b].start = appt[b].start,
           \A b \in Appts : appt[b] # NoRow => appt'[b] # NoRow
    PROVE  /\ patch[o].row.start = appt'[patch[o].appt].start
           /\ appt'[patch[o].appt] # NoRow
           /\ patch[o].row.status \in Status
           /\ patch[o].row.sent => mails'[patch[o].appt] > 0 \/ patch[o].appt \in failed'
<1>1. PICK k \in Appts : k = patch[o].appt
  BY DEF IInv, TypeOK
<1>2. /\ patch[o].row.start = appt[k].start
      /\ appt[k] # NoRow
      /\ patch[o].row.status \in Status
      /\ patch[o].row.sent => mails[k] > 0 \/ k \in failed
  BY <1>1 DEF IInv, SentWasTried
<1>3. appt'[k].start = appt[k].start /\ appt'[k] # NoRow
  BY <1>2
<1> QED
  BY <1>1, <1>2, <1>3

LEMMA BookKeeps == ASSUME IInv, Book PROVE IInv'
<1>1. PICK a \in Appts, s \in Starts :
        appt[a] = NoRow /\ appt' = [appt EXCEPT ![a] = Row("pending", s, FALSE)]
  BY DEF Book
<1>2. UNCHANGED <<now, patch, run, mails, failed, again, served>>
  BY DEF Book
<1>3. \A b \in Appts : appt'[b] = IF b = a THEN Row("pending", s, FALSE) ELSE appt[b]
  BY <1>1 DEF IInv, TypeOK
<1>4. s \in Nat /\ Row("pending", s, FALSE) \in Rows
  BY TimesAssumption DEF Row, Rows, Status
<1>5. TypeOK'
  BY <1>1, <1>2, <1>3, <1>4 DEF IInv, TypeOK
<1>6. SentWasTried'
  BY <1>1, <1>2, <1>3 DEF IInv, SentWasTried, TypeOK, Row, NoPatch, Patch
<1>7. RunsInWindow'
  BY <1>1, <1>2, <1>3 DEF IInv, RunsInWindow, TypeOK, Runs
<1>8. DoneWasTried' /\ NobodySkipped'
  BY <1>2 DEF IInv, DoneWasTried, NobodySkipped
<1>9. OneRunEach'
  <2>1. \A b \in Appts : appt[b].sent \/ ~Exists(b) => appt'[b].sent \/ ~Exists(b)' \/ b = a
    BY <1>3 DEF Exists
  <2>2. mails[a] = 0
    BY <1>1 DEF IInv, SentWasTried
  <2> QED
    BY <1>1, <1>2, <1>3, <2>1, <2>2 DEF IInv, OneRunEach, TypeOK
<1> QED
  BY <1>5, <1>6, <1>7, <1>8, <1>9 DEF IInv

LEMMA DeleteKeeps == ASSUME IInv, DeleteAppt PROVE IInv'
<1>1. PICK a \in Appts :
        Exists(a) /\ appt' = [appt EXCEPT ![a] = Row("deleted", appt[a].start, appt[a].sent)]
  BY DEF DeleteAppt
<1>2. UNCHANGED <<now, patch, run, mails, failed, again, served>>
  BY DEF DeleteAppt
<1>3. \A b \in Appts : appt'[b] =
        IF b = a THEN Row("deleted", appt[a].start, appt[a].sent) ELSE appt[b]
  BY <1>1 DEF IInv, TypeOK
<1>4. appt[a] \in Rows /\ Row("deleted", appt[a].start, appt[a].sent) \in Rows
  BY <1>1 DEF IInv, TypeOK, Row, Rows, NoRow, Exists, Status
<1>5. Row("deleted", appt[a].start, appt[a].sent) # NoRow
  BY DEF Row, NoRow
<1>6. \A b \in Appts : /\ appt'[b].start = appt[b].start /\ appt'[b].sent = appt[b].sent
                       /\ appt[b] # NoRow => appt'[b] # NoRow
                       /\ appt'[b] = NoRow => appt[b] = NoRow
                       /\ ~Exists(b) => ~Exists(b)'
  <2> SUFFICES ASSUME NEW b \in Appts
               PROVE  /\ appt'[b].start = appt[b].start /\ appt'[b].sent = appt[b].sent
                      /\ appt[b] # NoRow => appt'[b] # NoRow
                      /\ appt'[b] = NoRow => appt[b] = NoRow
                      /\ ~Exists(b) => ~Exists(b)'
    OBVIOUS
  <2>1. CASE b = a
    BY <2>1, <1>1, <1>3, <1>5 DEF Row
  <2>2. CASE b # a
    BY <2>2, <1>3 DEF Exists
  <2> QED
    BY <2>1, <2>2
<1>7. TypeOK'
  BY <1>1, <1>2, <1>3, <1>4 DEF IInv, TypeOK
<1>8. SentWasTried'
  <2>1. \A b \in Appts : appt'[b].sent => mails'[b] > 0 \/ b \in failed'
    BY <1>2, <1>6 DEF IInv, SentWasTried
  <2>2. \A o \in Owners : patch'[o] # NoPatch =>
          /\ patch'[o].row.start = appt'[patch'[o].appt].start
          /\ appt'[patch'[o].appt] # NoRow
          /\ patch'[o].row.status \in Status
          /\ patch'[o].row.sent => mails'[patch'[o].appt] > 0 \/ patch'[o].appt \in failed'
    BY <1>2, <1>6, CopiesKept
  <2>3. \A b \in Appts : appt'[b] = NoRow => mails'[b] = 0
    BY <1>2, <1>6 DEF IInv, SentWasTried
  <2> QED
    BY <2>1, <2>2, <2>3 DEF SentWasTried
<1>9. RunsInWindow'
  BY <1>2, <1>6, StartsKept
<1>10. DoneWasTried' /\ NobodySkipped'
  BY <1>2 DEF IInv, DoneWasTried, NobodySkipped
<1>11. OneRunEach'
  <2>1. \A b \in Appts : appt[b].sent \/ ~Exists(b) => appt'[b].sent \/ ~Exists(b)'
    BY <1>6
  <2> QED
    BY <1>2, <2>1 DEF IInv, OneRunEach
<1> QED
  BY <1>7, <1>8, <1>9, <1>10, <1>11 DEF IInv

LEMMA TickKeeps == ASSUME IInv, Tick PROVE IInv'
<1>1. UNCHANGED <<appt, patch, run, mails, failed, again, served>> /\ now' = now + 1
  BY DEF Tick
<1>2. TypeOK'
  BY <1>1 DEF IInv, TypeOK
<1>3. RunsInWindow'
  BY <1>1, TimesAssumption DEF IInv, RunsInWindow, TypeOK, Runs, Tick
<1>4. SentWasTried' /\ DoneWasTried' /\ OneRunEach' /\ NobodySkipped'
  BY <1>1 DEF IInv, SentWasTried, DoneWasTried, OneRunEach, NobodySkipped, Exists
<1> QED
  BY <1>2, <1>3, <1>4 DEF IInv

LEMMA PatchBeginKeeps == ASSUME IInv, NEW o \in Owners, PatchBegin(o) PROVE IInv'
<1>1. PICK a \in Appts, status \in Status :
        /\ Exists(a)
        /\ patch' = [patch EXCEPT ![o] = Patch(a, Row(status, appt[a].start, appt[a].sent))]
  BY DEF PatchBegin
<1> DEFINE p == Patch(a, Row(status, appt[a].start, appt[a].sent))
<1>2. UNCHANGED <<now, appt, run, mails, failed, again, served>>
  BY DEF PatchBegin
<1>3. appt[a] \in Rows /\ appt[a] # NoRow
  BY <1>1 DEF IInv, TypeOK, Exists, Status, NoRow, Row
<1>4. /\ p \in [appt: Appts, row: Rows]
      /\ p.appt = a /\ p.row.start = appt[a].start /\ p.row.sent = appt[a].sent
      /\ p.row.status \in Status
  BY <1>3 DEF Patch, Row, Rows
<1> HIDE DEF p
<1>5. \A v \in Owners : patch'[v] = IF v = o THEN p ELSE patch[v]
  BY <1>1 DEF IInv, TypeOK, p
<1>6. TypeOK'
  BY <1>1, <1>2, <1>4, <1>5 DEF IInv, TypeOK, p
<1>7. SentWasTried'
  BY <1>2, <1>3, <1>4, <1>5 DEF IInv, SentWasTried
<1>8. RunsInWindow' /\ DoneWasTried' /\ OneRunEach' /\ NobodySkipped'
  BY <1>2 DEF IInv, RunsInWindow, DoneWasTried, OneRunEach, NobodySkipped, Exists
<1> QED
  BY <1>6, <1>7, <1>8 DEF IInv

LEMMA PatchCommitKeeps == ASSUME IInv, NEW o \in Owners, PatchCommit(o) PROVE IInv'
<1> DEFINE a == patch[o].appt
           row == patch[o].row
<1>1. /\ patch[o] # NoPatch
      /\ appt' = [appt EXCEPT ![a] = row]
      /\ again' = IF ~row.sent /\ (appt[a].sent \/ ~Exists(a))
                  THEN again \cup {a} ELSE again
      /\ patch' = [patch EXCEPT ![o] = NoPatch]
      /\ UNCHANGED <<now, run, mails, failed, served>>
  BY DEF PatchCommit
<1>2. /\ a \in Appts /\ row \in Rows /\ row.status \in Status
      /\ row.start = appt[a].start /\ appt[a] # NoRow
      /\ row.sent => mails[a] > 0 \/ a \in failed
  BY <1>1 DEF IInv, TypeOK, SentWasTried
<1>3. row # NoRow
  BY <1>2 DEF NoRow, Row, Status
<1> HIDE DEF a, row
<1>4. \A b \in Appts : appt'[b] = IF b = a THEN row ELSE appt[b]
  BY <1>1, <1>2 DEF IInv, TypeOK
<1>5. \A v \in Owners : patch'[v] = IF v = o THEN NoPatch ELSE patch[v]
  BY <1>1 DEF IInv, TypeOK
<1>6. \A b \in Appts : /\ appt'[b].start = appt[b].start
                       /\ appt[b] # NoRow => appt'[b] # NoRow
                       /\ appt'[b] = NoRow => appt[b] = NoRow
  BY <1>2, <1>3, <1>4
<1>7. TypeOK'
  <2>1. appt' \in [Appts -> Rows \cup {NoRow}]
    BY <1>1, <1>2 DEF IInv, TypeOK
  <2>2. patch' \in [Owners -> [appt: Appts, row: Rows] \cup {NoPatch}]
    BY <1>1 DEF IInv, TypeOK
  <2>3. again' \subseteq Appts
    BY <1>1, <1>2 DEF IInv, TypeOK
  <2> QED
    BY <1>1, <2>1, <2>2, <2>3 DEF IInv, TypeOK
<1>8. SentWasTried'
  <2>1. \A b \in Appts : appt'[b].sent => mails'[b] > 0 \/ b \in failed'
    BY <1>1, <1>2, <1>4 DEF IInv, SentWasTried
  <2>2. \A b \in Appts : appt'[b] = NoRow => mails'[b] = 0
    BY <1>1, <1>6 DEF IInv, SentWasTried
  <2>3. \A v \in Owners : patch'[v] # NoPatch =>
          /\ patch'[v].row.start = appt'[patch'[v].appt].start
          /\ appt'[patch'[v].appt] # NoRow
          /\ patch'[v].row.status \in Status
          /\ patch'[v].row.sent => mails'[patch'[v].appt] > 0 \/ patch'[v].appt \in failed'
    BY <1>1, <1>5, <1>6, CopiesKept
  <2> QED
    BY <2>1, <2>2, <2>3 DEF SentWasTried
<1>9. RunsInWindow'
  BY <1>1, <1>6, StartsKept
<1>10. DoneWasTried' /\ NobodySkipped'
  BY <1>1 DEF IInv, DoneWasTried, NobodySkipped
<1>11. OneRunEach'
  <2> SUFFICES ASSUME NEW b \in Appts, b \notin again',
                      mails[b] # 0
               PROVE  appt'[b].sent \/ ~Exists(b)' \/ \E r \in Runners : run[r].mailed = b
    BY <1>1 DEF IInv, OneRunEach
  <2>1. b \notin again
    BY <1>1
  <2>2. appt[b].sent \/ ~Exists(b) \/ \E r \in Runners : run[r].mailed = b
    BY <2>1 DEF IInv, OneRunEach
  <2>3. CASE b = a
    BY <2>2, <2>3, <1>1, <1>4
  <2>4. CASE b # a
    BY <2>2, <2>4, <1>4 DEF Exists
  <2> QED
    BY <2>3, <2>4
<1> QED
  BY <1>7, <1>8, <1>9, <1>10, <1>11 DEF IInv

-----------------------------------------------------------------------------
(* The task.                                                               *)

(* A run is replaced by another.                                            *)
LEMMA RunsReplaced ==
    ASSUME IInv, NEW r \in Runners, NEW x \in Runs, run' = [run EXCEPT ![r] = x],
           x.on \/ x = NoRun, x.mailed \in x.todo \cup {"none"}
    PROVE  /\ run' \in [Runners -> Runs]
           /\ \A q \in Runners : run'[q] = IF q = r THEN x ELSE run[q]
           /\ \A q \in Runners : run'[q].on \/ run'[q] = NoRun
           /\ \A q \in Runners : run'[q].mailed \in run'[q].todo \cup {"none"}
<1>1. run \in [Runners -> Runs]
  BY DEF IInv, TypeOK
<1>2. \A q \in Runners : run'[q] = IF q = r THEN x ELSE run[q]
  BY <1>1
<1>3. \A q \in Runners : /\ run[q].on \/ run[q] = NoRun
                         /\ run[q].mailed \in run[q].todo \cup {"none"}
  BY DEF IInv, TypeOK
<1> QED
  BY <1>1, <1>2, <1>3

LEMMA NoRunIsRun == NoRun \in Runs /\ ~NoRun.on /\ NoRun.todo = {} /\ NoRun.mailed = "none"
                    /\ NoRun.reach = {}
BY DEF NoRun, Runs

(* Rows and PATCHes that stay, while more is mailed or given up.            *)
LEMMA TableKept ==
    ASSUME IInv, UNCHANGED <<appt, patch>>,
           \A a \in Appts : mails[a] > 0 => mails'[a] > 0,
           \A a \in Appts : appt[a] = NoRow => mails'[a] = mails[a],
           failed \subseteq failed'
    PROVE  SentWasTried'
<1>1. \A o \in Owners : patch[o] # NoPatch => patch[o].appt \in Appts
  BY DEF IInv, TypeOK
<1>2. \A a \in Appts : mails[a] > 0 \/ a \in failed => mails'[a] > 0 \/ a \in failed'
  OBVIOUS
<1> QED
  BY <1>1, <1>2 DEF IInv, SentWasTried

LEMMA StartRunKeeps == ASSUME IInv, NEW r \in Runners, StartRun(r) PROVE IInv'
<1> DEFINE x == Run(now, Due(now), "none", Reach(now))
<1>1. /\ run' = [run EXCEPT ![r] = x]
      /\ again' = again \cup {a \in Due(now) : \E q \in Runners : a \in run[q].todo}
      /\ UNCHANGED <<now, appt, patch, mails, failed, served>>
  BY DEF StartRun
<1>2. Due(now) \subseteq Reach(now) /\ Reach(now) \subseteq Appts
  BY DEF Due, Upcoming, Reach
<1>3. /\ x \in Runs /\ x.on /\ x.since = now /\ x.mailed = "none"
      /\ x.todo = Due(now) /\ x.reach = Reach(now)
  BY <1>2 DEF Run, Runs, IInv, TypeOK
<1> HIDE DEF x
<1>4. /\ run' \in [Runners -> Runs]
      /\ \A q \in Runners : run'[q] = IF q = r THEN x ELSE run[q]
      /\ \A q \in Runners : run'[q].on \/ run'[q] = NoRun
      /\ \A q \in Runners : run'[q].mailed \in run'[q].todo \cup {"none"}
  BY <1>1, <1>3, RunsReplaced
<1>5. TypeOK'
  BY <1>1, <1>2, <1>4 DEF IInv, TypeOK
<1>6. SentWasTried'
  BY <1>1, TableKept
<1>7. RunsInWindow'
  <2>1. \A a \in Due(now) : appt[a] # NoRow /\ InWindow(appt[a].start, now)
    BY DEF Due, Upcoming, NoRow, Row
  <2>2. now <= now + Limit /\ now <= now
    BY TimesAssumption DEF IInv, TypeOK
  <2> QED
    BY <1>1, <1>3, <1>4, <2>1, <2>2 DEF IInv, RunsInWindow
<1>8. DoneWasTried'
  <2>1. \A a \in Reach(now) \ Due(now) : mails[a] > 0 \/ a \in failed
    BY DEF IInv, SentWasTried, Reach, Due, Upcoming
  <2> QED
    BY <1>1, <1>3, <1>4, <2>1 DEF IInv, DoneWasTried
<1>9. OneRunEach'
  <2> SUFFICES ASSUME NEW a \in Appts, a \notin again'
               PROVE  /\ mails[a] <= 1
                      /\ mails[a] # 0 =>
                            appt[a].sent \/ ~Exists(a) \/ \E q \in Runners : run'[q].mailed = a
                      /\ \A p, q \in Runners : a \in run'[p].todo /\ a \in run'[q].todo => p = q
                      /\ \A q \in Runners : a \in run'[q].todo /\ run'[q].mailed # a => mails[a] = 0
    BY <1>1 DEF OneRunEach, Exists
  <2>1. a \notin again /\ (a \in Due(now) => \A q \in Runners : a \notin run[q].todo)
    BY <1>1
  <2>2. /\ mails[a] <= 1
        /\ mails[a] # 0 => appt[a].sent \/ ~Exists(a) \/ \E q \in Runners : run[q].mailed = a
        /\ \A p, q \in Runners : a \in run[p].todo /\ a \in run[q].todo => p = q
        /\ \A q \in Runners : a \in run[q].todo /\ run[q].mailed # a => mails[a] = 0
    BY <2>1 DEF IInv, OneRunEach
  <2>3. run[r].mailed = "none" /\ a # "none"
    BY ApptsAssumption, NoRunIsRun DEF StartRun, IInv, TypeOK
  <2>4. \A q \in Runners : run[q].mailed = a => a \in run[q].todo
    BY <2>3 DEF IInv, TypeOK
  <2>5. a \in Due(now) => mails[a] = 0
    BY <2>1, <2>2, <2>4 DEF Due, Upcoming, Exists, Status
  <2> QED
    BY <1>3, <1>4, <2>1, <2>2, <2>3, <2>5
<1>10. NobodySkipped'
  BY <1>1 DEF IInv, NobodySkipped
<1> QED
  BY <1>5, <1>6, <1>7, <1>8, <1>9, <1>10 DEF IInv

LEMMA SendKeeps == ASSUME IInv, NEW r \in Runners, Send(r) PROVE IInv'
<1>1. PICK a \in run[r].todo :
        /\ run' = [run EXCEPT ![r] = Run(run[r].since, run[r].todo, a, run[r].reach)]
        /\ \/ mails' = [mails EXCEPT ![a] = @ + 1] /\ UNCHANGED failed
           \/ failed' = failed \cup {a} /\ UNCHANGED mails
  BY DEF Send
<1>2. run[r].mailed = "none" /\ UNCHANGED <<now, appt, patch, again, served>>
  BY DEF Send
<1>3. run[r] \in Runs /\ run[r].on /\ a \in Appts
  BY DEF IInv, TypeOK, Runs, NoRun
<1> DEFINE x == Run(run[r].since, run[r].todo, a, run[r].reach)
<1>4. /\ x \in Runs /\ x.on /\ x.since = run[r].since /\ x.mailed = a
      /\ x.todo = run[r].todo /\ x.reach = run[r].reach
  BY <1>3 DEF Run, Runs
<1>5. run' = [run EXCEPT ![r] = x]
  BY <1>1
<1> HIDE DEF x
<1>6. /\ run' \in [Runners -> Runs]
      /\ \A q \in Runners : run'[q] = IF q = r THEN x ELSE run[q]
      /\ \A q \in Runners : run'[q].on \/ run'[q] = NoRun
      /\ \A q \in Runners : run'[q].mailed \in run'[q].todo \cup {"none"}
  BY <1>1, <1>4, <1>5, RunsReplaced
<1>7. /\ mails' \in [Appts -> Nat]
      /\ \A b \in Appts : mails'[b] = mails[b] \/ (b = a /\ mails'[b] = mails[b] + 1)
      /\ failed \subseteq failed' /\ failed' \subseteq Appts
      /\ mails'[a] > 0 \/ a \in failed'
  BY <1>1, <1>3 DEF IInv, TypeOK
<1>8. \A b \in Appts : mails[b] > 0 => mails'[b] > 0
  BY <1>7 DEF IInv, TypeOK
<1>9. TypeOK'
  BY <1>2, <1>6, <1>7 DEF IInv, TypeOK
<1>10. SentWasTried'
  <2>1. appt[a] # NoRow
    BY DEF IInv, RunsInWindow
  <2> QED
    BY <1>2, <1>7, <1>8, <2>1, TableKept
<1>11. RunsInWindow'
  BY <1>2, <1>3, <1>4, <1>6 DEF IInv, RunsInWindow
<1>12. DoneWasTried'
  <2>1. \A q \in Runners : run[q].mailed \in Appts \cup {"none"} /\ run[q].reach \subseteq Appts
    BY DEF IInv, TypeOK, Runs
  <2> SUFFICES ASSUME NEW q \in Runners
               PROVE  /\ \A b \in run'[q].reach \ run'[q].todo : mails'[b] > 0 \/ b \in failed'
                      /\ run'[q].mailed # "none" =>
                            mails'[run'[q].mailed] > 0 \/ run'[q].mailed \in failed'
    BY DEF DoneWasTried
  <2>2. \A b \in run[q].reach \ run[q].todo : mails'[b] > 0 \/ b \in failed'
    BY <1>7, <1>8, <2>1 DEF IInv, DoneWasTried
  <2>3. run[q].mailed # "none" => mails'[run[q].mailed] > 0 \/ run[q].mailed \in failed'
    BY <1>7, <1>8, <2>1 DEF IInv, DoneWasTried
  <2> QED
    BY <1>4, <1>6, <1>7, <2>2, <2>3
<1>13. OneRunEach'
  <2> SUFFICES ASSUME NEW b \in Appts, b \notin again
               PROVE  /\ mails'[b] <= 1
                      /\ mails'[b] # 0 =>
                            appt[b].sent \/ ~Exists(b) \/ \E q \in Runners : run'[q].mailed = b
                      /\ \A p, q \in Runners : b \in run'[p].todo /\ b \in run'[q].todo => p = q
                      /\ \A q \in Runners : b \in run'[q].todo /\ run'[q].mailed # b => mails'[b] = 0
    BY <1>2 DEF OneRunEach, Exists
  <2>1. /\ mails[b] <= 1
        /\ mails[b] # 0 => appt[b].sent \/ ~Exists(b) \/ \E q \in Runners : run[q].mailed = b
        /\ \A p, q \in Runners : b \in run[p].todo /\ b \in run[q].todo => p = q
        /\ \A q \in Runners : b \in run[q].todo /\ run[q].mailed # b => mails[b] = 0
    BY DEF IInv, OneRunEach
  <2>2. a # "none" /\ b # "none"
    BY <1>3, ApptsAssumption
  <2>3. CASE b = a
    <3>1. mails[a] = 0
      BY <1>2, <2>1, <2>2, <2>3
    <3>2. mails'[a] <= 1
      BY <1>3, <1>7, <3>1
    <3> QED
      BY <1>4, <1>6, <2>1, <2>3, <3>2
  <2>4. CASE b # a
    BY <1>2, <1>4, <1>6, <1>7, <2>1, <2>2, <2>4
  <2> QED
    BY <2>3, <2>4
<1>14. NobodySkipped'
  BY <1>2, <1>7, <1>8 DEF IInv, NobodySkipped, TypeOK
<1> QED
  BY <1>9, <1>10, <1>11, <1>12, <1>13, <1>14 DEF IInv

(* A run ends; whatever it mailed last and did not record is recorded, gone  *)
(* or excused.                                                              *)
LEMMA RunEnds ==
    ASSUME IInv, NEW r \in Runners, run' = [run EXCEPT ![r] = NoRun],
           UNCHANGED <<now, appt, patch, mails, failed>>,
           again \subseteq again', again' \subseteq Appts,
           run[r].mailed = "none" \/ run[r].mailed \in again' \/ ~Exists(run[r].mailed),
           served' \subseteq Appts, \A a \in served' : mails[a] > 0 \/ a \in failed
    PROVE  IInv'
<1>1. /\ run' \in [Runners -> Runs]
      /\ \A q \in Runners : run'[q] = IF q = r THEN NoRun ELSE run[q]
      /\ \A q \in Runners : run'[q].on \/ run'[q] = NoRun
      /\ \A q \in Runners : run'[q].mailed \in run'[q].todo \cup {"none"}
  BY NoRunIsRun, RunsReplaced
<1>2. TypeOK'
  BY <1>1 DEF IInv, TypeOK
<1>3. SentWasTried'
  BY TableKept
<1>4. RunsInWindow' /\ DoneWasTried'
  BY <1>1, NoRunIsRun DEF IInv, RunsInWindow, DoneWasTried
<1>5. OneRunEach'
  BY <1>1, NoRunIsRun, ApptsAssumption DEF IInv, OneRunEach, Exists
<1>6. NobodySkipped'
  BY DEF NobodySkipped
<1> QED
  BY <1>2, <1>3, <1>4, <1>5, <1>6 DEF IInv

LEMMA FinishRunKeeps == ASSUME IInv, NEW r \in Runners, FinishRun(r) PROVE IInv'
<1>1. run[r].mailed = "none" /\ run[r].reach \subseteq Appts
  BY DEF FinishRun, IInv, TypeOK, Runs
<1>2. \A a \in run[r].reach : mails[a] > 0 \/ a \in failed
  BY DEF FinishRun, IInv, DoneWasTried
<1>3. /\ served' = served \cup run[r].reach
      /\ served' \subseteq Appts /\ \A a \in served' : mails[a] > 0 \/ a \in failed
  BY <1>1, <1>2 DEF FinishRun, IInv, NobodySkipped, TypeOK
<1> QED
  BY <1>1, <1>3, RunEnds DEF FinishRun, IInv, TypeOK

LEMMA KillRunKeeps == ASSUME IInv, NEW r \in Runners, KillRun(r) PROVE IInv'
<1>1. run[r].mailed \in Appts \cup {"none"} /\ again \subseteq Appts /\ served \subseteq Appts
  BY DEF IInv, TypeOK, Runs
<1>2. /\ again \subseteq again' /\ again' \subseteq Appts
      /\ run[r].mailed = "none" \/ run[r].mailed \in again'
  BY <1>1 DEF KillRun
<1>3. \A a \in served' : mails[a] > 0 \/ a \in failed
  BY DEF KillRun, IInv, NobodySkipped
<1> QED
  BY <1>1, <1>2, <1>3, RunEnds DEF KillRun

LEMMA RecordKeeps == ASSUME IInv, NEW r \in Runners, Record(r) PROVE IInv'
<1>1. PICK a : a = run[r].mailed
  OBVIOUS
<1>2. a \in Appts /\ a \in run[r].todo /\ a # "none" /\ run[r] \in Runs /\ run[r].on
  BY <1>1, NoRunIsRun DEF Record, IInv, TypeOK, Runs
<1>3. UNCHANGED <<now, patch, mails, failed, again, served>>
  BY DEF Record
<1>4. CASE ~Exists(a)
  <2>1. run' = [run EXCEPT ![r] = NoRun] /\ UNCHANGED appt
    BY <1>1, <1>4 DEF Record
  <2>2. again \subseteq again' /\ again' \subseteq Appts /\ served' \subseteq Appts
    BY <1>3 DEF IInv, TypeOK
  <2>3. \A b \in served' : mails[b] > 0 \/ b \in failed
    BY <1>3 DEF IInv, NobodySkipped
  <2> QED
    BY <1>1, <1>3, <1>4, <2>1, <2>2, <2>3, RunEnds
<1>5. CASE Exists(a)
  <2> DEFINE x == Run(run[r].since, run[r].todo \ {a}, "none", run[r].reach)
             row == Row(appt[a].status, appt[a].start, TRUE)
  <2>1. run' = [run EXCEPT ![r] = x] /\ appt' = [appt EXCEPT ![a] = row]
    BY <1>1, <1>5 DEF Record
  <2>2. /\ x \in Runs /\ x.on /\ x.since = run[r].since /\ x.mailed = "none"
        /\ x.todo = run[r].todo \ {a} /\ x.reach = run[r].reach
    BY <1>2 DEF Run, Runs
  <2>3. /\ row \in Rows /\ row.sent /\ row.start = appt[a].start
        /\ row.status = appt[a].status /\ appt[a] # NoRow /\ row # NoRow
    <3>1. appt[a] \in Rows /\ appt[a].status \in Status
      BY <1>2, <1>5 DEF IInv, TypeOK, Exists, Status, NoRow, Row
    <3> QED
      BY <3>1 DEF Row, Rows, NoRow, Status
  <2> HIDE DEF x, row
  <2>4. /\ run' \in [Runners -> Runs]
        /\ \A q \in Runners : run'[q] = IF q = r THEN x ELSE run[q]
        /\ \A q \in Runners : run'[q].on \/ run'[q] = NoRun
        /\ \A q \in Runners : run'[q].mailed \in run'[q].todo \cup {"none"}
    BY <2>1, <2>2, RunsReplaced
  <2>5. \A b \in Appts : appt'[b] = IF b = a THEN row ELSE appt[b]
    BY <1>2, <2>1 DEF IInv, TypeOK
  <2>6. /\ \A b \in Appts : appt'[b].start = appt[b].start
        /\ \A b \in Appts : appt[b] # NoRow => appt'[b] # NoRow
        /\ \A b \in Appts : appt'[b] = NoRow => appt[b] = NoRow
    BY <2>3, <2>5
  <2>7. TypeOK'
    BY <1>2, <1>3, <2>1, <2>3, <2>4 DEF IInv, TypeOK
  <2>8. mails[a] > 0 \/ a \in failed
    BY <1>1, <1>2 DEF IInv, DoneWasTried
  <2>9. SentWasTried'
    <3>1. \A b \in Appts : appt'[b].sent => mails'[b] > 0 \/ b \in failed'
      BY <1>3, <2>5, <2>8 DEF IInv, SentWasTried
    <3>2. \A b \in Appts : appt'[b] = NoRow => mails'[b] = 0
      BY <1>3, <2>6 DEF IInv, SentWasTried
    <3>3. \A v \in Owners : patch'[v] # NoPatch =>
            /\ patch'[v].row.start = appt'[patch'[v].appt].start
            /\ appt'[patch'[v].appt] # NoRow
            /\ patch'[v].row.status \in Status
            /\ patch'[v].row.sent => mails'[patch'[v].appt] > 0 \/ patch'[v].appt \in failed'
      BY <1>3, <2>6, CopiesKept
    <3> QED
      BY <3>1, <3>2, <3>3 DEF SentWasTried
  <2>10. RunsInWindow'
    <3> SUFFICES ASSUME NEW q \in Runners
                 PROVE  /\ run'[q].on => run'[q].since <= now /\ now <= run'[q].since + Limit
                        /\ \A b \in run'[q].todo :
                              appt'[b] # NoRow /\ InWindow(appt'[b].start, run'[q].since)
      BY <1>3 DEF RunsInWindow
    <3>1. run'[q].since = run[q].since /\ run'[q].todo \subseteq run[q].todo
          /\ (run'[q].on => run[q].on) /\ run[q].todo \subseteq Appts
      BY <1>2, <2>2, <2>4 DEF IInv, TypeOK, Runs
    <3>2. /\ run[q].on => run[q].since <= now /\ now <= run[q].since + Limit
          /\ \A b \in run[q].todo : appt[b] # NoRow /\ InWindow(appt[b].start, run[q].since)
      BY DEF IInv, RunsInWindow
    <3> QED
      BY <2>6, <3>1, <3>2
  <2>11. DoneWasTried'
    BY <1>3, <2>2, <2>4, <2>8 DEF IInv, DoneWasTried
  <2>12. OneRunEach'
    <3> SUFFICES ASSUME NEW b \in Appts, b \notin again
                 PROVE  /\ mails[b] <= 1
                        /\ mails[b] # 0 => appt'[b].sent \/ ~Exists(b)'
                                           \/ \E q \in Runners : run'[q].mailed = b
                        /\ \A p, q \in Runners : b \in run'[p].todo /\ b \in run'[q].todo => p = q
                        /\ \A q \in Runners : b \in run'[q].todo /\ run'[q].mailed # b => mails[b] = 0
      BY <1>3 DEF OneRunEach
    <3>1. /\ mails[b] <= 1
          /\ mails[b] # 0 => appt[b].sent \/ ~Exists(b) \/ \E q \in Runners : run[q].mailed = b
          /\ \A p, q \in Runners : b \in run[p].todo /\ b \in run[q].todo => p = q
          /\ \A q \in Runners : b \in run[q].todo /\ run[q].mailed # b => mails[b] = 0
      BY DEF IInv, OneRunEach
    <3>2. \A q \in Runners : run'[q].todo \subseteq run[q].todo
      BY <2>2, <2>4
    <3>3. CASE b = a
      BY <1>2, <2>2, <2>3, <2>4, <2>5, <3>1, <3>2, <3>3
    <3>4. CASE b # a
      <4>1. appt'[b] = appt[b] /\ (~Exists(b) => ~Exists(b)')
        BY <2>5, <3>4 DEF Exists
      <4> QED
        BY <1>1, <2>2, <2>4, <3>1, <3>2, <3>4, <4>1
    <3> QED
      BY <3>3, <3>4
  <2>13. NobodySkipped'
    BY <1>3 DEF IInv, NobodySkipped
  <2> QED
    BY <2>7, <2>9, <2>10, <2>11, <2>12, <2>13 DEF IInv
<1> QED
  BY <1>4, <1>5

LEMMA Step == IInv /\ [Next]_vars => IInv'
<1> SUFFICES ASSUME IInv, [Next]_vars PROVE IInv'
  OBVIOUS
<1>1. CASE Book
  BY <1>1, BookKeeps
<1>2. CASE DeleteAppt
  BY <1>2, DeleteKeeps
<1>3. CASE Tick
  BY <1>3, TickKeeps
<1>4. CASE \E o \in Owners : PatchBegin(o) \/ PatchCommit(o)
  BY <1>4, PatchBeginKeeps, PatchCommitKeeps
<1>5. CASE \E r \in Runners : StartRun(r) \/ Send(r) \/ Record(r) \/ FinishRun(r) \/ KillRun(r)
  BY <1>5, StartRunKeeps, SendKeeps, RecordKeeps, FinishRunKeeps, KillRunKeeps
<1>6. CASE UNCHANGED vars
  BY <1>6 DEF vars, IInv, TypeOK, SentWasTried, RunsInWindow, DoneWasTried, OneRunEach,
     NobodySkipped, Exists
<1> QED
  BY <1>1, <1>2, <1>3, <1>4, <1>5, <1>6 DEF Next

(* Only a run mails, and only what was in its window when it started.       *)
LEMMA MailsInTime ==
    ASSUME IInv, [Next]_vars, NEW a \in Appts, mails'[a] # mails[a]
    PROVE  appt[a].start <= now + Lead /\ appt[a].start > now + Lead - Width - Limit
<1>1. PICK r \in Runners : Send(r)
  BY DEF Next, vars, Book, DeleteAppt, Tick, PatchBegin, PatchCommit, StartRun, Record,
     FinishRun, KillRun
<1>2. PICK b \in run[r].todo : \/ mails' = [mails EXCEPT ![b] = @ + 1]
                               \/ UNCHANGED mails
  BY <1>1 DEF Send
<1>3. a = b
  BY <1>2 DEF IInv, TypeOK
<1>4. /\ InWindow(appt[a].start, run[r].since) /\ appt[a] # NoRow
      /\ run[r].since <= now /\ now <= run[r].since + Limit
      /\ run[r].since \in Nat /\ appt[a].start \in Nat
  BY <1>3, NoRunIsRun DEF IInv, RunsInWindow, TypeOK, Runs, Rows
<1>5. now \in Nat /\ Lead \in Nat /\ Width \in Nat /\ Limit \in Nat
  BY TimesAssumption DEF IInv, TypeOK
<1>6. /\ run[r].since + Lead - Width < appt[a].start
      /\ appt[a].start <= run[r].since + Lead
  BY <1>4 DEF InWindow
<1> HIDE DEF IInv
<1> QED
  BY <1>4, <1>5, <1>6

-----------------------------------------------------------------------------
(* The invariant holds in every reachable state.                            *)
THEOREM Invariance == Spec => []IInv
<1> QED
  BY Initially, Step, PTL DEF Spec

(* Rows, PATCHes and runs stay well formed.                                 *)
THEOREM TypeCorrect == Spec => []TypeOK
<1>1. IInv => TypeOK
  BY DEF IInv
<1> QED
  BY <1>1, Invariance, PTL

(* No appointment is reminded of twice without one of the three excuses.    *)
THEOREM RemindedOnceOrExcused == Spec => []OnceUnlessExcused
<1>1. IInv => OnceUnlessExcused
  BY DEF IInv, OneRunEach, OnceUnlessExcused
<1> QED
  BY <1>1, Invariance, PTL

(* A run that finishes has tried everyone it was to remind.                 *)
THEOREM NobodyIsSkipped == Spec => []NobodySkipped
<1>1. IInv => NobodySkipped
  BY DEF IInv
<1> QED
  BY <1>1, Invariance, PTL

(* Reminders come between Lead - Width - Limit and Lead ahead.              *)
THEOREM MailedInGoodTime == Spec => InGoodTime
<1>1. IInv /\ [Next]_vars =>
        [\A a \in Appts : mails'[a] # mails[a] =>
            /\ appt[a].start <= now + Lead
            /\ appt[a].start > now + Lead - Width - Limit]_vars
  BY MailsInTime
<1> QED
  BY <1>1, Invariance, PTL DEF Spec, InGoodTime

-----------------------------------------------------------------------------
(* The windows of a sequence of runs: run k starts at minute beat[k].        *)

(* A least number.                                                          *)
LEMMA LeastOf ==
    ASSUME NEW T, T \subseteq Nat, T # {}
    PROVE  \E m \in T : \A n \in T : m <= n
<1>1. PICK m \in T : \A n \in T : ~(<<n, m>> \in OpToRel(<, Nat))
  BY NatLessThanWellFounded, WFMin
<1>2. \A n \in T : m <= n
  <2> SUFFICES ASSUME NEW n \in T, n < m PROVE FALSE
    OBVIOUS
  <2>1. <<n, m>> \in OpToRel(<, Nat)
    BY DEF OpToRel
  <2> QED
    BY <1>1, <2>1
<1> QED
  BY <1>2

(* Runs that do not stand still get past every moment.                      *)
LEMMA RunsGoOn ==
    ASSUME NEW beat \in [Nat -> Nat], \A k \in Nat : beat[k] < beat[k + 1], NEW s \in Nat
    PROVE  \E k \in Nat : s <= beat[k]
<1> SUFFICES ASSUME \A k \in Nat : beat[k] < s PROVE FALSE
  OBVIOUS
<1> DEFINE T == {s - beat[k] : k \in Nat}
<1>1. T \subseteq Nat /\ s - beat[0] \in T
  OBVIOUS
<1> HIDE DEF T
<1>2. PICK m \in T : \A n \in T : m <= n
  BY <1>1, LeastOf
<1>3. PICK k \in Nat : m = s - beat[k]
  BY DEF T
<1>4. k + 1 \in Nat /\ s - beat[k + 1] \in T
  BY DEF T
<1>5. beat[k] \in Nat /\ beat[k + 1] \in Nat /\ beat[k] < beat[k + 1]
  OBVIOUS
<1> QED
  BY <1>2, <1>3, <1>4, <1>5

(* The beat schedule and the window of the query fit together: if each run  *)
(* starts after the one before it, and no later than a quarter of an hour   *)
(* after, every appointment beyond the reach of the first is in the window  *)
(* of some run.                                                             *)
THEOREM EveryStartHasARun ==
    ASSUME NEW beat \in [Nat -> Nat],
           \A k \in Nat : beat[k] < beat[k + 1] /\ beat[k + 1] <= beat[k] + Width,
           NEW s \in Nat, beat[0] + Lead - Width < s
    PROVE  \E k \in Nat : InWindow(s, beat[k])
<1>0. Lead \in Nat /\ Width \in Nat
  BY TimesAssumption
<1> DEFINE T == {k \in Nat : s <= beat[k] + Lead}
<1>1. T # {}
  <2>1. PICK k \in Nat : s <= beat[k]
    BY RunsGoOn
  <2> QED
    BY <1>0, <2>1
<1>2. PICK m \in T : \A n \in T : m <= n
  <2> HIDE DEF T
  <2>1. T \subseteq Nat
    BY DEF T
  <2> QED
    BY <1>1, <2>1, LeastOf
<1>3. m \in Nat /\ beat[m] \in Nat /\ s <= beat[m] + Lead
  OBVIOUS
<1>4. CASE m = 0
  BY <1>3, <1>4 DEF InWindow
<1>5. CASE m # 0
  <2>1. m - 1 \in Nat /\ m - 1 \notin T
    BY <1>2, <1>3, <1>5
  <2>2. beat[m - 1] \in Nat /\ beat[m - 1] + Lead < s
    BY <1>0, <2>1
  <2>3. (m - 1) + 1 = m
    BY <1>3
  <2>4. beat[m] <= beat[m - 1] + Width
    BY <2>1, <2>3
  <2> HIDE DEF T
  <2>5. beat[m] + Lead - Width < s
    BY <1>0, <1>3, <2>2, <2>4
  <2> QED
    BY <1>3, <2>5 DEF InWindow
<1> QED
  BY <1>4, <1>5

(* ... and if they start at least a quarter of an hour apart, none is in    *)
(* the windows of two, so reminder_sent_at matters only for late runs.      *)
THEOREM NoStartHasTwoRuns ==
    ASSUME NEW beat \in [Nat -> Nat], \A k \in Nat : beat[k] + Width <= beat[k + 1],
           NEW s \in Nat, NEW i \in Nat, NEW j \in Nat, i < j, InWindow(s, beat[i])
    PROVE  ~InWindow(s, beat[j])
<1>0. Lead \in Nat /\ Width \in Nat
  BY TimesAssumption
<1>1. beat[i] + Width <= beat[j]
  <2> SUFFICES ASSUME beat[j] < beat[i] + Width PROVE FALSE
    <3>1. beat[i] \in Nat /\ beat[j] \in Nat
      OBVIOUS
    <3> QED
      BY <1>0, <3>1
  <2> DEFINE T == {n \in Nat : i < n /\ beat[n] < beat[i] + Width}
  <2>1. j \in T /\ T \subseteq Nat
    OBVIOUS
  <2>2. PICK m \in T : \A n \in T : m <= n
    <3> HIDE DEF T
    <3> QED
      BY <2>1, LeastOf
  <2>3. m \in Nat /\ i < m /\ beat[m] < beat[i] + Width /\ m - 1 \in Nat
    OBVIOUS
  <2>4. m - 1 \notin T
    BY <2>2, <2>3
  <2>5. i = m - 1 \/ beat[i] + Width <= beat[m - 1]
    <3>1. beat[i] \in Nat /\ beat[m - 1] \in Nat
      BY <2>3
    <3> QED
      BY <1>0, <2>3, <2>4, <3>1
  <2>6. beat[m - 1] + Width <= beat[m]
    <3>1. (m - 1) + 1 = m
      BY <2>3
    <3> QED
      BY <2>3, <3>1
  <2>7. beat[i] \in Nat /\ beat[m] \in Nat /\ beat[m - 1] \in Nat
    BY <2>3
  <2> HIDE DEF T
  <2> QED
    BY <1>0, <2>3, <2>5, <2>6, <2>7
<1>2. beat[i] \in Nat /\ beat[j] \in Nat /\ s <= beat[i] + Lead
  BY DEF InWindow
<1> QED
  BY <1>0, <1>1, <1>2 DEF InWindow
=============================================================================
