-------------------------------- MODULE Team --------------------------------
(***************************************************************************)
(* One organization and its members: apps/organizations views, with the    *)
(* team limit of EntitlementService.                                       *)
(*                                                                         *)
(* Managers invite, patch and remove members at the same time.  An         *)
(* invitation counts the seats in use, looks the membership up and writes  *)
(* it in three steps; a PATCH saves the whole row it read, a removal saves *)
(* the status only.  The plan, and with it the limit, may change any time. *)
(***************************************************************************)
EXTENDS Integers, FiniteSets

CONSTANTS
    Workers,      \* web workers
    Users,        \* people who may become members
    Limits        \* max_team_members of the plans; 0 stands for an unusable subscription

ASSUME TeamUsersAssumption == IsFiniteSet(Users) /\ "none" \notin Users
ASSUME LimitsAssumption == Limits \subseteq Nat

VARIABLES
    member,       \* the OrganizationMember table, by user
    limit,        \* the seats the plan in force allows
    req,          \* what each web worker is doing
    peak,         \* history: the largest limit there has been
    late,         \* history: invitations that counted before another seat was taken
    loose         \* history: members seated without a fresh count

vars == <<member, limit, req, peak, late, loose>>

-----------------------------------------------------------------------------
Role == {"owner", "admin", "member"}
Seated == {"invited", "active"}
Status == Seated \cup {"suspended", "removed"}

Row == [role: Role, status: Status]
NoRow == [role |-> "none", status |-> "none"]

(* A request in flight: an invitation before and after it has looked the    *)
(* membership up (row: what it will write), a PATCH and the row it will     *)
(* save, a removal.                                                         *)
Request ==
    [op: {"invite", "add", "again", "patch"}, user: Users, row: Row]
        \cup [op: {"remove"}, user: Users]
Idle == [op |-> "idle"]

Joined(u) == member[u].status # "none"
Founded == \E u \in Users : Joined(u)
Seats == {u \in Users : member[u].status \in Seated}
Inviting == {w \in Workers : req[w].op \in {"invite", "add", "again"}}

(* A new organization is on a trial of the free plan, which has a seat.     *)
Init ==
    /\ member = [u \in Users |-> NoRow]
    /\ limit \in Limits \ {0}
    /\ req = [w \in Workers |-> Idle]
    /\ peak = limit
    /\ late = {}
    /\ loose = {}

-----------------------------------------------------------------------------
(* OrganizationViewSet.perform_create: the organization and its owner       *)
(* commit together; nobody else can find the organization before.           *)
Create ==
    /\ ~Founded
    /\ \E u \in Users :
          member' = [member EXCEPT ![u] = [role |-> "owner", status |-> "active"]]
    /\ UNCHANGED <<limit, req, peak, late, loose>>

(* IsOrganizationAdminOrOwnerObj: somebody may manage the team now.         *)
Managed ==
    \E u \in Users : member[u].status = "active" /\ member[u].role \in {"owner", "admin"}

Start(w, r) == req[w].op = "idle" /\ Managed /\ req' = [req EXCEPT ![w] = r]
Finish(w) == req' = [req EXCEPT ![w] = Idle]

(* Write a member's row, and keep the account of seats: a seat newly taken  *)
(* outdates every other count, and is loose unless its own count is fresh.  *)
Write(w, u, row, fresh) ==
    LET taken == u \notin Seats /\ row.status \in Seated IN
    /\ member' = [member EXCEPT ![u] = row]
    /\ late' = IF taken THEN Inviting \ {w} ELSE late \ {w}
    /\ loose' = IF row.status \notin Seated \/ (taken /\ fresh) THEN loose \ {u}
                ELSE IF taken THEN loose \cup {u} ELSE loose
    /\ Finish(w)

-----------------------------------------------------------------------------
(* invite_member.                                                          *)

(* MUTANT of InviteBegin: <= in can_add_team_member.                        *)
InviteBeginAtLimit(w) ==
    /\ Cardinality(Seats) <= limit
    /\ \E u \in Users, role \in {"admin", "member"} :
          Start(w, [op |-> "invite", user |-> u,
                    row |-> [role |-> role, status |-> "invited"]])
    /\ UNCHANGED <<member, limit, peak, late, loose>>

(* The seats in use are counted (can_add_team_member); a role other than    *)
(* owner is asked for.                                                      *)
InviteBegin(w) ==
    /\ Cardinality(Seats) < limit
    /\ \E u \in Users, role \in {"admin", "member"} :
          Start(w, [op |-> "invite", user |-> u,
                    row |-> [role |-> role, status |-> "invited"]])
    /\ UNCHANGED <<member, limit, peak, late, loose>>

(* get_or_create finds no membership, or a removed one; anybody else is a   *)
(* member or has a pending invitation, and is refused.                      *)
InviteLookUp(w) ==
    /\ req[w].op = "invite"
    /\ LET status == member[req[w].user].status IN
          \/ status = "none" /\ req' = [req EXCEPT ![w].op = "add"] /\ UNCHANGED late
          \/ status = "removed" /\ req' = [req EXCEPT ![w].op = "again"] /\ UNCHANGED late
          \/ status \notin {"none", "removed"} /\ Finish(w) /\ late' = late \ {w}
    /\ UNCHANGED <<member, limit, peak, loose>>

(* MUTANT of InviteAdd: the role is missing from the defaults.              *)
InviteAddNoRole(w) ==
    /\ req[w].op = "add"
    /\ \/ /\ ~Joined(req[w].user)
          /\ Write(w, req[w].user, [NoRow EXCEPT !.status = "invited"], w \notin late)
       \/ /\ Joined(req[w].user)
          /\ req' = [req EXCEPT ![w].op = "invite"]
          /\ UNCHANGED <<member, late, loose>>
    /\ UNCHANGED <<limit, peak>>

(* The row is inserted; if another invitation was faster, unique_org_member *)
(* makes get_or_create look again.                                          *)
InviteAdd(w) ==
    /\ req[w].op = "add"
    /\ \/ /\ ~Joined(req[w].user)
          /\ Write(w, req[w].user, req[w].row, w \notin late)
       \/ /\ Joined(req[w].user)
          /\ req' = [req EXCEPT ![w].op = "invite"]
          /\ UNCHANGED <<member, late, loose>>
    /\ UNCHANGED <<limit, peak>>

(* A removed member is invited again: role and status are saved.            *)
InviteAgain(w) ==
    /\ req[w].op = "again"
    /\ Write(w, req[w].user, req[w].row, w \notin late)
    /\ UNCHANGED <<limit, peak>>

-----------------------------------------------------------------------------
(* member_detail.                                                          *)

(* MUTANT of Editable: the owner's membership is like any other.            *)
EditableAll(u) == member[u].status \notin {"none", "removed"}

(* A membership a manager may touch: not removed, and not the owner's.      *)
Editable(u) ==
    /\ member[u].status \notin {"none", "removed"}
    /\ member[u].role # "owner"

(* PATCH: any status, any role but owner; the seats are not counted.        *)
PatchBegin(w) ==
    /\ \E u \in Users, row \in [role: {"admin", "member"}, status: Status] :
          Editable(u) /\ Start(w, [op |-> "patch", user |-> u, row |-> row])
    /\ UNCHANGED <<member, limit, peak, late, loose>>

PatchCommit(w) ==
    /\ req[w].op = "patch"
    /\ Write(w, req[w].user, req[w].row, FALSE)
    /\ UNCHANGED <<limit, peak>>

RemoveBegin(w) ==
    /\ \E u \in Users : Editable(u) /\ Start(w, [op |-> "remove", user |-> u])
    /\ UNCHANGED <<member, limit, peak, late, loose>>

RemoveCommit(w) ==
    /\ req[w].op = "remove"
    /\ LET u == req[w].user IN
          Write(w, u, [member[u] EXCEPT !.status = "removed"], FALSE)
    /\ UNCHANGED <<limit, peak>>

(* An error, a mail that cannot be sent, a dead worker: nothing is saved.   *)
Abort(w) ==
    /\ req[w].op # "idle"
    /\ Finish(w)
    /\ late' = late \ {w}
    /\ UNCHANGED <<member, limit, peak, loose>>

(* CheckoutView, or the end of a subscription: another limit holds.         *)
ChangePlan ==
    /\ limit' \in Limits
    /\ peak' = IF limit' > peak THEN limit' ELSE peak
    /\ UNCHANGED <<member, req, late, loose>>

RequestStep(w) ==
    \/ InviteBegin(w) \/ InviteLookUp(w) \/ InviteAdd(w) \/ InviteAgain(w)
    \/ PatchBegin(w) \/ PatchCommit(w)
    \/ RemoveBegin(w) \/ RemoveCommit(w)
    \/ Abort(w)

Next == (\E w \in Workers : RequestStep(w)) \/ Create \/ ChangePlan

Spec == Init /\ [][Next]_vars

-----------------------------------------------------------------------------
(* Properties.                                                             *)

(* Every row and request is well formed.                                   *)
TypeOK ==
    /\ member \in [Users -> Row \cup {NoRow}]
    /\ limit \in Limits
    /\ req \in [Workers -> Request \cup {Idle}]
    /\ peak \in Nat
    /\ late \subseteq Workers
    /\ loose \subseteq Users

IsOwner(u) == member[u] = [role |-> "owner", status |-> "active"]

(* However managers invite, patch and remove one another at the same time,  *)
(* and from however old copies, an organization keeps one active owner and  *)
(* never gets a second (member_detail refuses on the row it read, and saves *)
(* later).                                                                  *)
OneOwner ==
    Founded => \E u \in Users :
        IsOwner(u) /\ \A v \in Users \ {u} : member[v].role # "owner"

(* The team is never larger than the largest limit its plans have had, but  *)
(* for those seated by an invitation that counted before another seat was   *)
(* taken or by a PATCH, which counts nothing (can_add_team_member,          *)
(* invite_member).                                                          *)
SeatsBounded == Cardinality(Seats \ loose) <= peak
=============================================================================
