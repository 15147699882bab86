------------------------------ MODULE TeamProofs ------------------------------
(***************************************************************************)
(* Proofs about Team, for any number of users, workers and limits.         *)
(***************************************************************************)
EXTENDS Team, FiniteSetTheorems, TLAPS

(* An invitation whose count is fresh still finds a free seat.              *)
FreshHasSeat ==
    \A w \in Inviting : w \notin late => Cardinality(Seats) < peak

(* Requests work on an organization that exists, and write memberships that *)
(* exist (other than those they insert) and are not the owner's.            *)
OwnerUntouched ==
    \A w \in Workers :
        /\ req[w].op # "idle" => Founded
        /\ req[w].op \in {"again", "patch", "remove"} =>
              Joined(req[w].user) /\ member[req[w].user].role # "owner"
        /\ req[w].op \in {"invite", "add", "again", "patch"} => req[w].row.role # "owner"
        /\ req[w].op \in {"invite", "add", "again"} => req[w].row.status = "invited"

LimitBelowPeak == limit <= peak /\ peak >= 1

IInv ==
    /\ TypeOK
    /\ OneOwner
    /\ SeatsBounded
    /\ FreshHasSeat
    /\ OwnerUntouched
    /\ LimitBelowPeak

-----------------------------------------------------------------------------
LEMMA SeatsFinite ==
    /\ IsFiniteSet(Seats) /\ Cardinality(Seats) \in Nat
    /\ IsFiniteSet(Seats \ loose) /\ Cardinality(Seats \ loose) \in Nat
    /\ Cardinality(Seats \ loose) <= Cardinality(Seats)
<1>1. IsFiniteSet(Users)
  BY TeamUsersAssumption
<1>2. IsFiniteSet(Seats)
  BY <1>1, FS_Subset DEF Seats
<1>3. IsFiniteSet(Seats \ loose) /\ Cardinality(Seats \ loose) <= Cardinality(Seats)
  BY <1>2, FS_Subset
<1>4. QED
  BY <1>2, <1>3, FS_CardinalityType

(* The same, one step later.                                                *)
LEMMA SeatsFiniteNext ==
    /\ IsFiniteSet(Seats') /\ Cardinality(Seats') \in Nat
    /\ IsFiniteSet((Seats \ loose)') /\ Cardinality((Seats \ loose)') \in Nat
    /\ Cardinality((Seats \ loose)') <= Cardinality(Seats')
<1>1. IsFiniteSet(Users)
  BY TeamUsersAssumption
<1>2. IsFiniteSet(Seats')
  BY <1>1, FS_Subset DEF Seats
<1>3. /\ IsFiniteSet((Seats \ loose)')
      /\ Cardinality((Seats \ loose)') <= Cardinality(Seats')
  BY <1>2, FS_Subset
<1>4. QED
  BY <1>2, <1>3, FS_CardinalityType

LEMMA Initially == Init => IInv
<1> SUFFICES ASSUME Init PROVE IInv
  OBVIOUS
<1>1. TypeOK
  BY LimitsAssumption DEF Init, TypeOK
<1>2. Seats = {} /\ Inviting = {} /\ ~Founded
  BY DEF Init, Seats, Inviting, Seated, Founded, Joined, NoRow, Idle
<1>3. SeatsBounded
  <2>1. Seats \ loose = {}
    BY <1>2
  <2>2. Cardinality(Seats \ loose) = 0
    BY <2>1, FS_EmptySet
  <2>3. QED
    BY <2>2, <1>1 DEF SeatsBounded, TypeOK
<1>4. OwnerUntouched
  BY DEF Init, OwnerUntouched, Idle
<1>5. LimitBelowPeak
  BY LimitsAssumption DEF Init, LimitBelowPeak
<1>6. QED
  BY <1>1, <1>2, <1>3, <1>4, <1>5 DEF IInv, OneOwner, FreshHasSeat

-----------------------------------------------------------------------------
(* Steps that change no membership: only the requests in flight and, when   *)
(* one ends, its entry in late.                                             *)
LEMMA TableUnchangedKeeps ==
    ASSUME IInv, NEW w \in Workers, NEW r,
           req' = [req EXCEPT ![w] = r],
           UNCHANGED <<member, limit, peak, loose>>,
           r \in Request \cup {Idle},
           late' \subseteq Workers,
           \A v \in Workers \ {w} : v \in late' <=> v \in late,
           r.op \in {"invite", "add", "again"} =>
              /\ w \notin late' => Cardinality(Seats) < peak
              /\ r.row.role # "owner" /\ r.row.status = "invited",
           r.op \in {"again", "patch", "remove"} =>
              Joined(r.user) /\ member[r.user].role # "owner",
           r.op = "patch" => r.row.role # "owner",
           r.op # "idle" => Founded
    PROVE  IInv'
<1>1. req'[w] = r /\ \A v \in Workers \ {w} : req'[v] = req[v]
  BY DEF IInv, TypeOK
<1>2. TypeOK'
  BY DEF IInv, TypeOK
<1>3. Seats' = Seats /\ (Founded' <=> Founded) /\ \A u \in Users : Joined(u)' <=> Joined(u)
  BY DEF Seats, Founded, Joined
<1>4. OneOwner' /\ SeatsBounded' /\ LimitBelowPeak'
  BY <1>3 DEF IInv, OneOwner, SeatsBounded, LimitBelowPeak, IsOwner
<1>5. FreshHasSeat'
  <2> SUFFICES ASSUME NEW v \in Inviting', v \notin late'
               PROVE  Cardinality(Seats) < peak
    BY <1>3 DEF FreshHasSeat
  <2>1. CASE v = w
    BY <2>1, <1>1 DEF Inviting
  <2>2. CASE v # w
    <3>1. v \in Inviting /\ v \notin late
      BY <2>2, <1>1 DEF Inviting
    <3>2. QED
      BY <3>1 DEF IInv, FreshHasSeat
  <2>3. QED
    BY <2>1, <2>2
<1>6. OwnerUntouched'
  <2> SUFFICES ASSUME NEW v \in Workers
               PROVE  /\ req'[v].op # "idle" => Founded
                      /\ req'[v].op \in {"again", "patch", "remove"} =>
                            /\ member[req'[v].user].status # "none"
                            /\ member[req'[v].user].role # "owner"
                      /\ req'[v].op \in {"invite", "add", "again", "patch"} =>
                            req'[v].row.role # "owner"
                      /\ req'[v].op \in {"invite", "add", "again"} =>
                            req'[v].row.status = "invited"
    BY <1>3 DEF OwnerUntouched, Joined
  <2>1. CASE v = w
    BY <2>1, <1>1 DEF Joined
  <2>2. CASE v # w
    BY <2>2, <1>1 DEF IInv, OwnerUntouched, Joined
  <2>3. QED
    BY <2>1, <2>2
<1>7. QED
  BY <1>2, <1>4, <1>5, <1>6 DEF IInv

-----------------------------------------------------------------------------
(* What Write does to the seats.                                            *)
LEMMA WriteSeats ==
    ASSUME TypeOK, NEW w \in Workers, NEW u \in Users, NEW row \in Row,
           NEW fresh \in BOOLEAN, Write(w, u, row, fresh)
    PROVE  /\ member'[u] = row /\ \A v \in Users \ {u} : member'[v] = member[v]
           /\ row.status \in Seated => Seats' = Seats \cup {u}
           /\ row.status \notin Seated => Seats' = Seats \ {u}
<1>1. member'[u] = row /\ \A v \in Users \ {u} : member'[v] = member[v]
  BY DEF TypeOK, Write
<1>2. QED
  BY <1>1 DEF Seats

(* A commit of a membership keeps the account of seats.                     *)
LEMMA WriteKeepsSeats ==
    ASSUME IInv, NEW w \in Workers, NEW u \in Users, NEW row \in Row,
           NEW fresh \in BOOLEAN, Write(w, u, row, fresh),
           fresh => w \in Inviting /\ w \notin late, UNCHANGED <<limit, peak>>
    PROVE  SeatsBounded' /\ FreshHasSeat'
<1> DEFINE taken == u \notin Seats /\ row.status \in Seated
<1>1. /\ row.status \in Seated => Seats' = Seats \cup {u}
      /\ row.status \notin Seated => Seats' = Seats \ {u}
  BY WriteSeats DEF IInv
<1>2. /\ late' = IF taken THEN Inviting \ {w} ELSE late \ {w}
      /\ loose' = IF row.status \notin Seated \/ (taken /\ fresh) THEN loose \ {u}
                  ELSE IF taken THEN loose \cup {u} ELSE loose
  BY DEF Write
<1>3. req'[w] = Idle /\ \A v \in Workers \ {w} : req'[v] = req[v]
  BY DEF IInv, TypeOK, Write, Finish
<1>4. Inviting' = Inviting \ {w}
  BY <1>3 DEF Inviting, Idle
<1>5. peak \in Nat
  BY DEF IInv, TypeOK
<1>6. CASE taken /\ fresh
  <2>1. Cardinality(Seats) < peak
    BY <1>6 DEF IInv, FreshHasSeat
  <2>2. Cardinality(Seats') = Cardinality(Seats) + 1
    BY <1>6, <1>1, SeatsFinite, FS_AddElement
  <2>3. SeatsBounded'
    BY <2>1, <2>2, <1>5, SeatsFinite, SeatsFiniteNext DEF SeatsBounded
  <2>4. FreshHasSeat'
    BY <1>6, <1>2, <1>4 DEF FreshHasSeat
  <2>5. QED
    BY <2>3, <2>4
<1>7. CASE taken /\ ~fresh
  <2>1. (Seats \ loose)' = Seats \ (loose \cup {u})
    BY <1>7, <1>1, <1>2
  <2>2. (Seats \ loose)' = Seats \ loose
    BY <2>1, <1>7
  <2>3. QED
    BY <2>2, <1>7, <1>2, <1>4 DEF IInv, SeatsBounded, FreshHasSeat
<1>8. CASE ~taken
  <2>1. Seats' \subseteq Seats /\ (Seats \ loose)' \subseteq Seats \ loose
    BY <1>8, <1>1, <1>2
  <2>2. /\ Cardinality(Seats') <= Cardinality(Seats)
        /\ Cardinality((Seats \ loose)') <= Cardinality(Seats \ loose)
    BY <2>1, SeatsFinite, FS_Subset
  <2>3. SeatsBounded'
    BY <2>2, <1>5, SeatsFinite, SeatsFiniteNext DEF IInv, SeatsBounded
  <2>4. FreshHasSeat'
    <3> SUFFICES ASSUME NEW v \in Inviting', v \notin late'
                 PROVE  Cardinality(Seats') < peak'
      BY DEF FreshHasSeat
    <3>1. v \in Inviting /\ v \notin late
      BY <1>8, <1>2, <1>4
    <3>2. Cardinality(Seats) < peak
      BY <3>1 DEF IInv, FreshHasSeat
    <3>3. QED
      BY <3>2, <2>2, <1>5, SeatsFinite, SeatsFiniteNext
  <2>5. QED
    BY <2>3, <2>4
<1>9. QED
  BY <1>6, <1>7, <1>8

(* A commit of a membership that is not the owner's, with a role that is    *)
(* not owner's, keeps the invariant.                                        *)
LEMMA WriteKeeps ==
    ASSUME IInv, NEW w \in Workers, NEW u \in Users, NEW row \in Row,
           NEW fresh \in BOOLEAN, Write(w, u, row, fresh),
           fresh => w \in Inviting /\ w \notin late, UNCHANGED <<limit, peak>>,
           req[w].op # "idle", row.role # "owner", member[u].role # "owner"
    PROVE  IInv'
<1>1. SeatsBounded' /\ FreshHasSeat'
  BY WriteKeepsSeats
<1>2. member'[u] = row /\ \A v \in Users \ {u} : member'[v] = member[v]
  BY WriteSeats DEF IInv
<1>3. req'[w] = Idle /\ \A v \in Workers \ {w} : req'[v] = req[v]
  BY DEF IInv, TypeOK, Write, Finish
<1>4. TypeOK'
  <2>1. member' \in [Users -> Row \cup {NoRow}]
    BY DEF IInv, TypeOK, Write
  <2>2. req' \in [Workers -> Request \cup {Idle}]
    BY DEF IInv, TypeOK, Write, Finish
  <2>3. late' \subseteq Workers /\ loose' \subseteq Users
    BY DEF IInv, TypeOK, Write, Inviting
  <2>4. QED
    BY <2>1, <2>2, <2>3 DEF IInv, TypeOK
<1>5. row.status # "none"
  BY DEF Row, Status, Seated
<1>6. Founded /\ Founded'
  <2>1. Founded
    BY DEF IInv, OwnerUntouched
  <2>2. Joined(u)'
    BY <1>2, <1>5 DEF Joined
  <2>3. QED
    BY <2>1, <2>2 DEF Founded
<1>7. OneOwner'
  <2>1. PICK o \in Users : IsOwner(o) /\ \A v \in Users \ {o} : member[v].role # "owner"
    BY <1>6 DEF IInv, OneOwner
  <2>2. o # u
    BY <2>1 DEF IsOwner
  <2>3. IsOwner(o)' /\ \A v \in Users \ {o} : member'[v].role # "owner"
    BY <2>1, <2>2, <1>2 DEF IsOwner
  <2>4. QED
    BY <2>3 DEF OneOwner
<1>8. OwnerUntouched'
  <2> SUFFICES ASSUME NEW v \in Workers
               PROVE  /\ req'[v].op \in {"again", "patch", "remove"} =>
                            /\ member'[req'[v].user].status # "none"
                            /\ member'[req'[v].user].role # "owner"
                      /\ req'[v].op \in {"invite", "add", "again", "patch"} =>
                            req'[v].row.role # "owner"
                      /\ req'[v].op \in {"invite", "add", "again"} =>
                            req'[v].row.status = "invited"
    BY <1>6 DEF OwnerUntouched, Joined
  <2>1. CASE v = w
    BY <2>1, <1>3 DEF Idle
  <2>2. CASE v # w
    <3>1. req'[v] = req[v] /\ req[v] \in Request \cup {Idle}
      BY <2>2, <1>3 DEF IInv, TypeOK
    <3>2. req[v].op \in {"again", "patch", "remove"} =>
             /\ req[v].user \in Users
             /\ member[req[v].user].status # "none"
             /\ member[req[v].user].role # "owner"
      BY <3>1 DEF IInv, OwnerUntouched, Joined, Request, Idle
    <3>3. QED
      BY <3>1, <3>2, <1>2, <1>5 DEF IInv, OwnerUntouched
  <2>3. QED
    BY <2>1, <2>2
<1>9. LimitBelowPeak'
  BY DEF IInv, LimitBelowPeak
<1>10. QED
  BY <1>1, <1>4, <1>7, <1>8, <1>9 DEF IInv

-----------------------------------------------------------------------------
LEMMA StartKeeps ==
    ASSUME IInv, NEW w \in Workers, NEW r \in Request, Start(w, r),
           UNCHANGED <<member, limit, peak, late, loose>>,
           r.op \in {"invite", "add", "again"} =>
              /\ Cardinality(Seats) < peak
              /\ r.row.role # "owner" /\ r.row.status = "invited",
           r.op \in {"again", "patch", "remove"} =>
              Joined(r.user) /\ member[r.user].role # "owner",
           r.op = "patch" => r.row.role # "owner"
    PROVE  IInv'
<1>1. Founded
  BY DEF Start, Managed, Founded, Joined
<1>2. late' \subseteq Workers
  BY DEF IInv, TypeOK
<1>3. QED
  BY <1>1, <1>2, TableUnchangedKeeps DEF Start

LEMMA FinishKeeps ==
    ASSUME IInv, NEW w \in Workers, Finish(w), late' = late \ {w},
           UNCHANGED <<member, limit, peak, loose>>
    PROVE  IInv'
<1>1. late' \subseteq Workers
  BY DEF IInv, TypeOK
<1>2. Idle.op = "idle"
  BY DEF Idle
<1>3. QED
  BY <1>1, <1>2, TableUnchangedKeeps DEF Finish

(* What is in flight is well formed.                                        *)
LEMMA InFlight ==
    ASSUME TypeOK, NEW w \in Workers, req[w].op # "idle"
    PROVE  /\ req[w] \in Request /\ req[w].user \in Users
           /\ req[w].op # "remove" => req[w].row \in Row
BY DEF TypeOK, Request, Idle

(* A request in flight that goes on with another operation on its row.      *)
LEMMA GoesOn ==
    ASSUME IInv, NEW w \in Workers, req[w].op \in {"invite", "add"},
           NEW op \in {"invite", "add", "again"},
           req' = [req EXCEPT ![w].op = op],
           op = "again" =>
              Joined(req[w].user) /\ member[req[w].user].role # "owner",
           UNCHANGED <<member, limit, peak, late, loose>>
    PROVE  IInv'
<1> DEFINE r == [req[w] EXCEPT !.op = op]
<1>1. req[w] \in [op: {"invite", "add", "again", "patch"}, user: Users, row: Row]
  BY DEF IInv, TypeOK, Request, Idle
<1>2. r \in Request /\ r.op = op /\ r.user = req[w].user /\ r.row = req[w].row
  BY <1>1 DEF Request
<1>3. req' = [req EXCEPT ![w] = r]
  BY DEF IInv, TypeOK
<1>4. late' \subseteq Workers
  BY DEF IInv, TypeOK
<1>5. r.row.role # "owner" /\ r.row.status = "invited" /\ Founded
  BY <1>2 DEF IInv, OwnerUntouched
<1>6. w \notin late => Cardinality(Seats) < peak
  BY DEF IInv, FreshHasSeat, Inviting
<1> HIDE DEF r
<1>7. QED
  BY <1>2, <1>3, <1>4, <1>5, <1>6, TableUnchangedKeeps

(* A membership that is joined has a row.                                   *)
LEMMA JoinedRow ==
    ASSUME TypeOK, NEW u \in Users, Joined(u)
    PROVE  member[u] \in Row
BY DEF TypeOK, Joined, NoRow

LEMMA StepKeeps == IInv /\ [Next]_vars => IInv'
<1> SUFFICES ASSUME IInv, [Next]_vars PROVE IInv'
  OBVIOUS
<1> USE DEF IInv
<1>1. ASSUME NEW w \in Workers, InviteBegin(w) PROVE IInv'
  <2>1. PICK u \in Users, role \in {"admin", "member"} :
           Start(w, [op |-> "invite", user |-> u,
                     row |-> [role |-> role, status |-> "invited"]])
    BY <1>1 DEF InviteBegin
  <2>2. [op |-> "invite", user |-> u, row |-> [role |-> role, status |-> "invited"]]
           \in Request
    BY DEF Request, Row, Role, Status, Seated
  <2>3. Cardinality(Seats) < peak
    BY <1>1, SeatsFinite, LimitsAssumption DEF InviteBegin, LimitBelowPeak, TypeOK
  <2>4. UNCHANGED <<member, limit, peak, late, loose>>
    BY <1>1 DEF InviteBegin
  <2>5. QED
    BY <2>1, <2>2, <2>3, <2>4, StartKeeps
<1>2. ASSUME NEW w \in Workers, InviteLookUp(w) PROVE IInv'
  <2> DEFINE status == member[req[w].user].status
  <2>1. req[w].op = "invite" /\ req[w].user \in Users
    BY <1>2, InFlight DEF InviteLookUp
  <2>2. CASE status = "none" /\ req' = [req EXCEPT ![w].op = "add"] /\ UNCHANGED late
    BY <1>2, <2>1, <2>2, GoesOn DEF InviteLookUp
  <2>3. CASE status = "removed" /\ req' = [req EXCEPT ![w].op = "again"] /\ UNCHANGED late
    <3>1. Founded /\ Joined(req[w].user)
      BY <2>1, <2>3 DEF Founded, Joined
    <3>2. member[req[w].user].role # "owner"
      BY <2>1, <2>3, <3>1 DEF OneOwner, IsOwner
    <3>3. QED
      BY <1>2, <2>1, <2>3, <3>1, <3>2, GoesOn DEF InviteLookUp
  <2>4. CASE status \notin {"none", "removed"} /\ Finish(w) /\ late' = late \ {w}
    BY <1>2, <2>4, FinishKeeps DEF InviteLookUp
  <2>5. QED
    BY <1>2, <2>2, <2>3, <2>4 DEF InviteLookUp
<1>3. ASSUME NEW w \in Workers, InviteAdd(w) PROVE IInv'
  <2>1. req[w].op = "add" /\ req[w].user \in Users /\ req[w].row \in Row
    BY <1>3, InFlight DEF InviteAdd
  <2>2. CASE ~Joined(req[w].user) /\ Write(w, req[w].user, req[w].row, w \notin late)
    <3>1. member[req[w].user].role # "owner"
      BY <2>1, <2>2 DEF TypeOK, Joined, Row, Status, Seated, NoRow
    <3>2. w \in Inviting /\ req[w].row.role # "owner"
      BY <2>1 DEF Inviting, OwnerUntouched
    <3>3. UNCHANGED <<limit, peak>>
      BY <1>3 DEF InviteAdd
    <3>4. (w \notin late) \in BOOLEAN
      OBVIOUS
    <3>5. QED
      BY <2>1, <2>2, <3>1, <3>2, <3>3, <3>4, WriteKeeps
  <2>3. CASE /\ req' = [req EXCEPT ![w].op = "invite"]
             /\ UNCHANGED <<member, late, loose>>
    BY <1>3, <2>1, <2>3, GoesOn DEF InviteAdd
  <2>4. QED
    BY <1>3, <2>2, <2>3 DEF InviteAdd
<1>4. ASSUME NEW w \in Workers, InviteAgain(w) PROVE IInv'
  <2>1. req[w].op = "again" /\ req[w].user \in Users /\ req[w].row \in Row
    BY <1>4, InFlight DEF InviteAgain
  <2>2. /\ w \in Inviting /\ req[w].row.role # "owner"
        /\ member[req[w].user].role # "owner"
    BY <2>1 DEF Inviting, OwnerUntouched
  <2>3. Write(w, req[w].user, req[w].row, w \notin late) /\ UNCHANGED <<limit, peak>>
    BY <1>4 DEF InviteAgain
  <2>4. (w \notin late) \in BOOLEAN
    OBVIOUS
  <2>5. QED
    BY <2>1, <2>2, <2>3, <2>4, WriteKeeps
<1>5. ASSUME NEW w \in Workers, PatchBegin(w) PROVE IInv'
  <2>1. PICK u \in Users, row \in [role: {"admin", "member"}, status: Status] :
           Editable(u) /\ Start(w, [op |-> "patch", user |-> u, row |-> row])
    BY <1>5 DEF PatchBegin
  <2>2. row \in Row /\ row.role # "owner"
    BY DEF Row, Role
  <2>3. [op |-> "patch", user |-> u, row |-> row] \in Request
    BY <2>2 DEF Request
  <2>4. Joined(u) /\ member[u].role # "owner"
    BY <2>1 DEF Editable, Joined
  <2>5. UNCHANGED <<member, limit, peak, late, loose>>
    BY <1>5 DEF PatchBegin
  <2>6. QED
    BY <2>1, <2>2, <2>3, <2>4, <2>5, StartKeeps
<1>6. ASSUME NEW w \in Workers, PatchCommit(w) PROVE IInv'
  <2>1. req[w].op = "patch" /\ req[w].user \in Users /\ req[w].row \in Row
    BY <1>6, InFlight DEF PatchCommit
  <2>2. req[w].row.role # "owner" /\ member[req[w].user].role # "owner"
    BY <2>1 DEF OwnerUntouched
  <2>3. Write(w, req[w].user, req[w].row, FALSE) /\ UNCHANGED <<limit, peak>>
    BY <1>6 DEF PatchCommit
  <2>4. QED
    BY <2>1, <2>2, <2>3, WriteKeeps
<1>7. ASSUME NEW w \in Workers, RemoveBegin(w) PROVE IInv'
  <2>1. PICK u \in Users : Editable(u) /\ Start(w, [op |-> "remove", user |-> u])
    BY <1>7 DEF RemoveBegin
  <2>2. [op |-> "remove", user |-> u] \in Request
    BY DEF Request
  <2>3. Joined(u) /\ member[u].role # "owner"
    BY <2>1 DEF Editable, Joined
  <2>4. UNCHANGED <<member, limit, peak, late, loose>>
    BY <1>7 DEF RemoveBegin
  <2>5. QED
    BY <2>1, <2>2, <2>3, <2>4, StartKeeps
<1>8. ASSUME NEW w \in Workers, RemoveCommit(w) PROVE IInv'
  <2> DEFINE u == req[w].user
             row == [member[u] EXCEPT !.status = "removed"]
  <2>1. req[w].op = "remove" /\ u \in Users
    BY <1>8, InFlight DEF RemoveCommit
  <2>2. Joined(u) /\ member[u].role # "owner"
    BY <2>1 DEF OwnerUntouched
  <2>3. row \in Row /\ row.role # "owner"
    BY <2>1, <2>2, JoinedRow DEF Row, Status
  <2>4. Write(w, u, row, FALSE) /\ UNCHANGED <<limit, peak>>
    BY <1>8 DEF RemoveCommit
  <2> HIDE DEF u, row
  <2>5. QED
    BY <2>1, <2>2, <2>3, <2>4, WriteKeeps
<1>9. ASSUME NEW w \in Workers, Abort(w) PROVE IInv'
  BY <1>9, FinishKeeps DEF Abort
<1>10. CASE Create
  <2>1. ~Founded /\ UNCHANGED <<limit, req, peak, late, loose>>
    BY <1>10 DEF Create
  <2>2. PICK u \in Users :
           member' = [member EXCEPT ![u] = [role |-> "owner", status |-> "active"]]
    BY <1>10 DEF Create
  <2>3. \A w \in Workers : req[w].op = "idle"
    BY <2>1 DEF OwnerUntouched
  <2>4. \A v \in Users : member[v] = NoRow
    BY <2>1 DEF Founded, Joined, TypeOK, Row, Status, Seated
  <2>5. /\ member'[u] = [role |-> "owner", status |-> "active"]
        /\ \A v \in Users \ {u} : member'[v] = NoRow
    BY <2>2, <2>4 DEF TypeOK
  <2>6. TypeOK'
    BY <2>1, <2>2 DEF TypeOK, Row, Role, Status, Seated
  <2>7. OneOwner'
    BY <2>5 DEF OneOwner, IsOwner, NoRow
  <2>8. SeatsBounded'
    <3>1. Seats' \subseteq {u}
      BY <2>5 DEF Seats, Seated, NoRow
    <3>2. IsFiniteSet({u}) /\ Cardinality({u}) = 1
      BY FS_Singleton
    <3>3. Cardinality((Seats \ loose)') <= 1
      BY <3>1, <3>2, FS_Subset
    <3>4. QED
      BY <2>1, <3>3, SeatsFiniteNext DEF SeatsBounded, LimitBelowPeak, TypeOK
  <2>9. FreshHasSeat' /\ OwnerUntouched'
    BY <2>1, <2>3 DEF FreshHasSeat, OwnerUntouched, Inviting
  <2>10. LimitBelowPeak'
    BY <2>1 DEF LimitBelowPeak
  <2>11. QED
    BY <2>6, <2>7, <2>8, <2>9, <2>10
<1>11. CASE ChangePlan
  <2>1. limit \in Nat /\ limit' \in Nat /\ limit' \in Limits /\ peak \in Nat
    BY <1>11, LimitsAssumption DEF ChangePlan, TypeOK
  <2>2. peak' \in Nat /\ peak <= peak' /\ limit' <= peak'
    BY <1>11, <2>1 DEF ChangePlan
  <2>3. UNCHANGED <<member, req, late, loose>>
    BY <1>11 DEF ChangePlan
  <2>4. Seats' = Seats /\ Inviting' = Inviting /\ (Founded' <=> Founded)
    BY <2>3 DEF Seats, Inviting, Founded, Joined
  <2>5. TypeOK'
    BY <2>1, <2>2, <2>3 DEF TypeOK
  <2>6. OneOwner' /\ OwnerUntouched'
    BY <2>3, <2>4 DEF OneOwner, IsOwner, OwnerUntouched, Joined
  <2>7. SeatsBounded' /\ FreshHasSeat'
    BY <2>1, <2>2, <2>3, <2>4, SeatsFinite DEF SeatsBounded, FreshHasSeat
  <2>8. LimitBelowPeak'
    BY <2>1, <2>2 DEF LimitBelowPeak
  <2>9. QED
    BY <2>5, <2>6, <2>7, <2>8
<1>12. CASE UNCHANGED vars
  <2>1. Seats' = Seats /\ Inviting' = Inviting /\ (Founded' <=> Founded)
    BY <1>12 DEF vars, Seats, Inviting, Founded, Joined
  <2>2. QED
    BY <1>12, <2>1 DEF vars, TypeOK, OneOwner, IsOwner, SeatsBounded, FreshHasSeat,
                       OwnerUntouched, Joined, LimitBelowPeak
<1>13. QED
  BY <1>1, <1>2, <1>3, <1>4, <1>5, <1>6, <1>7, <1>8, <1>9, <1>10, <1>11, <1>12
     DEF Next, RequestStep

-----------------------------------------------------------------------------
(* Every reachable state satisfies the inductive invariant: what the        *)
(* organization views do keeps the tables and the requests in flight        *)
(* well formed.                                                             *)
THEOREM Invariance == Spec => []IInv
<1>1. Init => IInv
  BY Initially
<1>2. IInv /\ [Next]_vars => IInv'
  BY StepKeeps
<1>3. QED
  BY <1>1, <1>2, PTL DEF Spec

(* For any number of users and of concurrent managers, an organization      *)
(* keeps one active owner and never gets another (member_detail).           *)
THEOREM OwnerStays == Spec => []OneOwner
<1>1. IInv => OneOwner
  BY DEF IInv
<1>2. QED
  BY <1>1, Invariance, PTL

(* For any number of users, of concurrent managers and of plans, the        *)
(* members seated by a fresh count are never more than the largest limit    *)
(* allowed (can_add_team_member, invite_member).                            *)
THEOREM TeamBounded == Spec => []SeatsBounded
<1>1. IInv => SeatsBounded
  BY DEF IInv
<1>2. QED
  BY <1>1, Invariance, PTL

(* Memberships and the requests in flight stay well formed                  *)
(* (apps/organizations).                                                    *)
THEOREM TypeCorrect == Spec => []TypeOK
<1>1. IInv => TypeOK
  BY DEF IInv
<1> QED
  BY <1>1, Invariance, PTL
=============================================================================
