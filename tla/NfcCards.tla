------------------------------ MODULE NfcCards ------------------------------
(***************************************************************************)
(* Cards and the NFC tags that open them: creating and deleting cards      *)
(* (VCardViewSet), the life of a tag (NfcCardViewSet and nfc.py), and the  *)
(* chip in the customer's hands.                                           *)
(*                                                                         *)
(* A request reads the rows it decides on one by one and commits in        *)
(* another step (READ COMMITTED, ATOMIC_REQUESTS); nfc.py saves with       *)
(* update_fields.  A chip is written with the URL of the instructions last *)
(* handed out for it, some time later, and locked (lock_after_write).      *)
(***************************************************************************)
EXTENDS VCards

CONSTANTS
    Tags,         \* physical tags, by chip UID
    Workers,      \* web workers
    Staff,        \* users who are platform staff
    Order         \* customer and organization of the order a tag was printed for

ASSUME StaffAssumption == Staff \subseteq Users
ASSUME WorkersAssumption == IsFiniteSet(Workers) /\ Workers # {}
ASSUME FiniteAssumption == IsFiniteSet(VCardIds)
ASSUME OrderAssumption ==
    Order \in [Tags -> [customer: Users \cup {"none"}, org: Orgs \cup {"none"}]]

VARIABLES
    tag,          \* the NfcCard table
    handed,       \* payload of the newest write instructions for each tag
    chip,         \* what is on the chip
    req,          \* what each web worker is doing
    relinked,     \* history: tags linked elsewhere since those instructions
    orphaned,     \* history: tags whose card was deleted
    overlapped,   \* history: tags saved by a request that had read an older row
    stale,        \* history: workers whose tag was saved or unlinked under way
    lapsed        \* history: workers whose user's role changed under way

tagVars == <<tag, handed, chip, relinked, orphaned, overlapped>>
vars == <<vcardVars, tagVars, req, stale, lapsed>>

-----------------------------------------------------------------------------
Linkable == {"assigned", "active", "blocked"}
TagStatus == {"inventory", "reserved", "retired"} \cup Linkable

Tag == [status: TagStatus, vcard: VCardIds \cup {"none"}]
Unregistered == [status |-> "none", vcard |-> "none"]

Payload == Slugs \cup {"blank"}

Linking == {"assign", "reassign"}
Transitions == Linking \cup {"activate", "suspend", "retire"}

(* A request in flight: a card to insert, a PATCH and the card it read, or  *)
(* a user's transition of a tag and, once found, the card to link.          *)
Request ==
    [op: {"create"}, row: VCard]
        \cup [op: {"patch"}, card: VCardIds, row: VCard]
        \cup [op: Transitions, user: Users, tag: Tags, card: VCardIds \cup {"none"}]
Idle == [op |-> "idle"]

Init ==
    /\ VCardsInit
    /\ tag = [n \in Tags |-> Unregistered]
    /\ handed = [n \in Tags |-> "none"]
    /\ chip = [n \in Tags |-> "none"]
    /\ req = [w \in Workers |-> Idle]
    /\ relinked = {}
    /\ orphaned = {}
    /\ overlapped = {}
    /\ stale = {}
    /\ lapsed = {}

(* The requests under way on a tag, and for a user.                         *)
Handling(n) == {w \in Workers : req[w].op \in Transitions /\ req[w].tag = n}
Acting(u) == {w \in Workers : req[w].op \in Transitions /\ req[w].user = u}

Start(w, r) ==
    /\ req[w] = Idle
    /\ req' = [req EXCEPT ![w] = r]
    /\ UNCHANGED <<stale, lapsed>>
Finish(w, outdated) ==
    /\ req' = [req EXCEPT ![w] = Idle]
    /\ stale' = (stale \cup outdated) \ {w}
    /\ lapsed' = lapsed \ {w}

-----------------------------------------------------------------------------
(* Cards.                                                                   *)

(* perform_create: for oneself, or for an organization one manages; the     *)
(* cards of that tenant are counted and a slug is generated.                *)
CreateBegin(w) ==
    /\ \E row \in VCard :
          /\ row.org # "none" => role[row.owner][row.org] = "manager"
          /\ CanCreate(TenantOf(row))
          /\ row.slug \in FreeSlugs
          /\ Start(w, [op |-> "create", row |-> row])
    /\ UNCHANGED <<vcardVars, tagVars>>

CreateCommit(w) ==
    /\ req[w].op = "create"
    /\ InsertVCard(req[w].row)
    /\ Finish(w, {})
    /\ UNCHANGED <<limit, role, tagVars>>

(* perform_update, by whoever manages the card: its owner always does.      *)
PatchBegin(w) ==
    /\ \E c \in VCardIds :
          Exists(c) /\ Start(w, [op |-> "patch", card |-> c, row |-> vcard[c]])
    /\ UNCHANGED <<vcardVars, tagVars>>

PatchCommit(w) ==
    /\ req[w].op = "patch"
    /\ SaveVCard(req[w].card, req[w].row)
    /\ Finish(w, {})
    /\ UNCHANGED <<limit, role, tagVars>>

(* on_delete SET_NULL: the tags of a deleted card keep their status.        *)
Unlinked(c) ==
    [n \in Tags |-> IF tag[n].vcard = c THEN [tag[n] EXCEPT !.vcard = "none"] ELSE tag[n]]

DeleteVCard ==
    /\ \E c \in VCardIds :
          /\ DropVCard(c)
          /\ tag' = Unlinked(c)
          /\ orphaned' = orphaned \cup {n \in Tags : tag[n].vcard = c}
          /\ relinked' = relinked \cup {n \in Tags : tag[n].vcard = c /\ handed[n] # "none"}
          /\ stale' = stale \cup UNION {Handling(n) : n \in {k \in Tags : tag[k].vcard = c}}
    /\ UNCHANGED <<limit, role, handed, chip, overlapped, req, lapsed>>

PlanStep ==
    /\ \E t \in Tenants : SubscriptionChange(t)
    /\ UNCHANGED <<vcard, role, tagVars, req, stale, lapsed>>

RoleStep ==
    /\ \E u \in Users, o \in Orgs :
          /\ RoleChange(u, o)
          /\ lapsed' = lapsed \cup Acting(u)
    /\ UNCHANGED <<vcard, limit, tagVars, req, stale>>

(* A refused insert, a validation error or a dead worker: rolled back.      *)
Abort(w) ==
    /\ req[w] # Idle
    /\ Finish(w, {})
    /\ UNCHANGED <<vcardVars, tagVars>>

-----------------------------------------------------------------------------
(* Tags.                                                                   *)

(* NfcCardViewSet.create, by staff.                                         *)
Register ==
    /\ \E n \in Tags :
          /\ tag[n] = Unregistered
          /\ tag' = [tag EXCEPT ![n] = [status |-> "inventory", vcard |-> "none"]]
    /\ UNCHANGED <<vcardVars, handed, chip, relinked, orphaned, overlapped, req, stale, lapsed>>

(* Who placed the order the tag was printed for.                            *)
Buyers(n) ==
    {u \in Users : \/ u = Order[n].customer
                   \/ Order[n].org # "none" /\ role[u][Order[n].org] # "none"}

(* MUTANT of CanSee: every user finds every tag.                            *)
CanSeeAll(u, n) == tag[n] # Unregistered

(* NfcCardViewSet.get_queryset: staff see every tag, everybody else those   *)
(* of the cards and the orders of their own and of their organizations.     *)
CanSee(u, n) ==
    /\ tag[n] # Unregistered
    /\ \/ u \in Staff \cup Buyers(n)
       \/ tag[n].vcard # "none" /\ u \in Party(vcard[tag[n].vcard])

(* The statuses nfc.py lets each transition start from ...                  *)
From(op) ==
    CASE op = "assign" -> {"inventory", "reserved"}
      [] op = "activate" -> {"assigned"}
      [] op = "suspend" -> {"active", "assigned"}
      [] op = "reassign" -> Linkable
      [] op = "retire" -> TagStatus

(* MUTANT of To: the name backend.md has for it, which is no choice.        *)
ToSuspended(op) ==
    CASE op \in Linking -> "assigned"
      [] op = "activate" -> "active"
      [] op = "suspend" -> "suspended"
      [] op = "retire" -> "retired"

(* ... and the status it saves.                                             *)
To(op) ==
    CASE op \in Linking -> "assigned"
      [] op = "activate" -> "active"
      [] op = "suspend" -> "blocked"
      [] op = "retire" -> "retired"

(* get_object finds the tag for the user; nfc.py will test this status.     *)
TransitionBegin(w) ==
    /\ \E u \in Users, n \in Tags, op \in Transitions :
          /\ CanSee(u, n)
          /\ tag[n].status \in From(op)
          /\ Start(w, [op |-> op, user |-> u, tag |-> n, card |-> "none"])
    /\ UNCHANGED <<vcardVars, tagVars>>

(* _get_owned_vcard: the card to link is the user's own or of one of their  *)
(* organizations, whatever made them see the tag.                           *)
FindCard(w) ==
    /\ req[w].op \in Linking
    /\ req[w].card = "none"
    /\ \E c \in VCardIds :
          /\ Exists(c)
          /\ req[w].user \in Party(vcard[c])
          /\ req' = [req EXCEPT ![w].card = c]
    /\ UNCHANGED <<vcardVars, tagVars, stale, lapsed>>

(* MUTANT of LinkAfter: retire_card forgets the card.                       *)
LinkAfterKept(r) ==
    IF r.op \in Linking THEN r.card ELSE tag[r.tag].vcard

(* The vcard column after the save; activate and suspend leave it alone.    *)
LinkAfter(r) ==
    CASE r.op \in Linking -> r.card
      [] r.op = "retire" -> "none"
      [] OTHER -> tag[r.tag].vcard

(* The save, whatever has become of the tag since it was read; the foreign  *)
(* key refuses a card that was deleted meanwhile.                           *)
TransitionCommit(w) ==
    /\ req[w].op \in Transitions
    /\ req[w].op \in Linking => req[w].card # "none" /\ Exists(req[w].card)
    /\ LET n == req[w].tag
           link == LinkAfter(req[w])
       IN  /\ tag' = [tag EXCEPT ![n] = [status |-> To(req[w].op), vcard |-> link]]
           /\ relinked' = IF link = tag[n].vcard \/ handed[n] = "none"
                          THEN relinked ELSE relinked \cup {n}
           /\ orphaned' = IF req[w].op \in {"activate", "suspend"}
                          THEN orphaned ELSE orphaned \ {n}
           /\ overlapped' = IF w \in stale THEN overlapped \cup {n} ELSE overlapped
           /\ Finish(w, Handling(n))
    /\ UNCHANGED <<vcardVars, handed, chip>>

-----------------------------------------------------------------------------
(* The chip.                                                               *)

(* NfcCard.write_payload: the public URL, or nothing.                       *)
WritePayload(n) == IF tag[n].vcard = "none" THEN "blank" ELSE vcard[tag[n].vcard].slug

(* write_instructions_view; instructions for a locked chip write nothing.   *)
HandOut ==
    /\ \E n \in Tags :
          /\ chip[n] = "none"
          /\ \E u \in Users : CanSee(u, n)
          /\ handed' = [handed EXCEPT ![n] = WritePayload(n)]
          /\ relinked' = relinked \ {n}
    /\ UNCHANGED <<vcardVars, tag, chip, orphaned, overlapped, req, stale, lapsed>>

(* Whoever holds the tag writes and locks it.                               *)
WriteChip ==
    /\ \E n \in Tags :
          /\ chip[n] = "none"
          /\ handed[n] # "none"
          /\ chip' = [chip EXCEPT ![n] = handed[n]]
    /\ UNCHANGED <<vcardVars, tag, handed, relinked, orphaned, overlapped, req, stale, lapsed>>

-----------------------------------------------------------------------------
RequestStep(w) ==
    \/ CreateBegin(w) \/ CreateCommit(w)
    \/ PatchBegin(w) \/ PatchCommit(w)
    \/ TransitionBegin(w) \/ FindCard(w) \/ TransitionCommit(w)
    \/ Abort(w)

Next ==
    \/ \E w \in Workers : RequestStep(w)
    \/ DeleteVCard \/ PlanStep \/ RoleStep
    \/ Register \/ HandOut \/ WriteChip

Spec == Init /\ [][Next]_vars

-----------------------------------------------------------------------------
(* Properties.                                                             *)

(* Cards, tags, roles and requests are well formed, and only a request that *)
(* works on a tag is ever outdated.                                         *)
TypeOK ==
    /\ VCardsTypeOK
    /\ tag \in [Tags -> Tag \cup {Unregistered}]
    /\ handed \in [Tags -> Payload \cup {"none"}]
    /\ chip \in [Tags -> Payload \cup {"none"}]
    /\ req \in [Workers -> Request \cup {Idle}]
    /\ relinked \subseteq Tags /\ orphaned \subseteq Tags /\ overlapped \subseteq Tags
    /\ \A w \in stale \cup lapsed : w \in Workers /\ req[w].op \in Transitions

(* A tag in use has a card, and a tag out of use has none, however its       *)
(* transitions interleave; the exceptions for a tag in use are a card that   *)
(* was deleted under it and two requests that worked on it at once (nfc.py). *)
InUseIsLinked ==
    \A n \in Tags :
        /\ tag[n].status \in Linkable /\ n \notin orphaned \cup overlapped
              => tag[n].vcard # "none"
        /\ tag[n].vcard # "none" => tag[n].status \in Linkable

(* A chip opens the card its tag is linked to, after deletions, new cards    *)
(* that may reuse a slug and cards that a PATCH puts back, as long as the    *)
(* tag was not linked elsewhere after its instructions were handed out       *)
(* (write_instructions, NfcCard).                                           *)
ChipOpensItsCard ==
    \A n \in Tags \ relinked : chip[n] # "none" /\ tag[n].vcard # "none" =>
        \A c \in VCardIds : vcard[c].slug = chip[n] <=> c = tag[n].vcard

(* A tag that opens one card is moved to another only if some user of that   *)
(* other card is staff, bought the tag or is a user of the card it leaves,   *)
(* unless requests overlapped or the mover's role changed under way: nobody *)
(* takes a tag away from a card that is not also theirs (get_queryset,      *)
(* _get_owned_vcard).                                                       *)
TagMovesWithinReach ==
    [][\A n \in Tags :
          \/ tag[n].vcard = "none"
          \/ tag'[n].vcard \in {"none", tag[n].vcard}
          \/ \E w \in stale \cup lapsed : req[w].op \in Linking /\ req[w].tag = n
          \/ \E u \in Party(vcard[tag'[n].vcard]) :
                u \in Staff \cup Buyers(n) \cup Party(vcard[tag[n].vcard])]_vars

(* Retiring is final, except for a request that had read the tag before     *)
(* (retire_card).                                                           *)
RetiredIsFinal ==
    [][\A n \in Tags :
          tag[n].status = "retired" /\ n \notin overlapped' =>
              tag'[n].status = "retired"]_vars

Creating(t) == {w \in Workers : req[w].op = "create" /\ TenantOf(req[w].row) = t}

(* The limit of a plan is overrun by at most the requests that were under    *)
(* way together: counting what is still to be inserted, never by more than  *)
(* the other workers; the cards that PATCHes put back uncounted are among   *)
(* those (VCardViewSet.perform_create, perform_update, can_create_vcard).   *)
OverrunIsBounded ==
    \A t \in Tenants : \E l \in Limits[t] :
        Cardinality(OwnedBy(t)) + Cardinality(Creating(t)) < l + Cardinality(Workers)
=============================================================================
