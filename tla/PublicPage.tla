----------------------------- MODULE PublicPage -----------------------------
(***************************************************************************)
(* One card and its public page: apps/cards public_views, views, services  *)
(* and signals, with the content apps/profile_blocks hangs off the card.   *)
(*                                                                         *)
(* The page is rendered from two reads and kept in the cache for TTL.      *)
(* Edits delete the cached page from a post_save signal, which runs inside *)
(* their transaction: the bust and the commit are two steps.               *)
(***************************************************************************)
EXTENDS Integers

CONSTANTS
    Workers,      \* web workers
    Texts,        \* what the card's own columns may say
    Contents,     \* what its links, services, blocks ... may say
    TTL           \* PUBLIC_CACHE_TTL, in steps of the clock

ASSUME TTLAssumption == TTL \in Nat \ {0}
ASSUME ContentsAssumption == "empty" \notin Contents
ASSUME WorkersAssumption == "page" \notin Workers

VARIABLES
    card,         \* the VCard row
    content,      \* the rows of the six content tables
    cache,        \* the cached page, and how long it is still kept
    req,          \* what each web worker is doing
    loose         \* history: visits, or the page, that overlapped an edit

vars == <<card, content, cache, req, loose>>

-----------------------------------------------------------------------------
Row == [status: {"draft", "published", "deleted"}, private: BOOLEAN, text: Texts]
Content == Contents \cup {"empty"}

Page == [text: Texts, content: Content, left: 1..TTL]
NoPage == [left |-> 0]

(* A request in flight: a visit that has read the row, then the content; a  *)
(* PATCH and the row it will save; an edit that is saved but not committed. *)
Request ==
    [op: {"visit"}, text: Texts]
        \cup [op: {"render"}, text: Texts, content: Content]
        \cup [op: {"patch", "row"}, row: Row]
        \cup [op: {"content"}, content: Contents]
Idle == [op |-> "idle"]

(* VCard.is_publicly_viewable; get_object_or_404 finds no deleted row.      *)
Viewable(row) == row.status = "published" /\ ~row.private

Init ==
    /\ card \in [status: {"draft"}, private: {FALSE}, text: Texts]
    /\ content = "empty"
    /\ cache = NoPage
    /\ req = [w \in Workers |-> Idle]
    /\ loose = {}

-----------------------------------------------------------------------------
Start(w, r) == req[w].op = "idle" /\ req' = [req EXCEPT ![w] = r]
Advance(w, r) == req' = [req EXCEPT ![w] = r]
Finish(w) == req' = [req EXCEPT ![w] = Idle]

Visits == {w \in Workers : req[w].op \in {"visit", "render"}}
Open == {w \in Workers : req[w].op \in {"row", "content"}}

(* The row lock an UPDATE or DELETE takes and keeps to the end of its       *)
(* transaction.                                                             *)
RowLocked == \E w \in Workers : req[w].op = "row"

-----------------------------------------------------------------------------
(* render_public_card, on a cache miss.                                    *)

VisitBegin(w) ==
    /\ cache = NoPage
    /\ Viewable(card)
    /\ Start(w, [op |-> "visit", text |-> card.text])
    /\ loose' = IF Open = {} THEN loose ELSE loose \cup {w}
    /\ UNCHANGED <<card, content, cache>>

VisitRender(w) ==
    /\ req[w].op = "visit"
    /\ Advance(w, [op |-> "render", text |-> req[w].text, content |-> content])
    /\ UNCHANGED <<card, content, cache, loose>>

Kept(w) == [text |-> req[w].text, content |-> req[w].content, left |-> TTL]

VisitCache(w) ==
    /\ req[w].op = "render"
    /\ cache' = Kept(w)
    /\ loose' = (loose \ {w, "page"}) \cup (IF w \in loose THEN {"page"} ELSE {})
    /\ Finish(w)
    /\ UNCHANGED <<card, content>>

-----------------------------------------------------------------------------
(* The owner's edits.                                                      *)

(* bust_public_card_cache; every visit in flight now overlaps an edit.      *)
Bust ==
    /\ cache' = NoPage
    /\ loose' = Visits

(* VCardViewSet.partial_update reads the whole row and changes columns.     *)
PatchBegin(w) ==
    /\ card.status # "deleted"
    /\ \E t \in Texts, p \in BOOLEAN :
          Start(w, [op |-> "patch",
                    row |-> [card EXCEPT !.text = t, !.private = p]])
    /\ UNCHANGED <<card, content, cache, loose>>

(* DirectoryVisibilityView: the same, for columns the page does not show.   *)
ListingBegin(w) ==
    /\ card.status # "deleted"
    /\ Start(w, [op |-> "patch", row |-> card])
    /\ UNCHANGED <<card, content, cache, loose>>

(* Both save every column as read; if the row is gone, save() inserts it.    *)
PatchSave(w) ==
    /\ req[w].op = "patch" /\ ~RowLocked
    /\ Advance(w, [op |-> "row", row |-> req[w].row])
    /\ Bust
    /\ UNCHANGED <<card, content>>

(* MUTANT of StatusSave: a save with update_fields does not bust the cache. *)
StatusSaveSilent(w) ==
    /\ card.status # "deleted" /\ ~RowLocked
    /\ \E st \in {"draft", "published"} :
          Start(w, [op |-> "row", row |-> [card EXCEPT !.status = st]])
    /\ loose' = loose \cup Visits
    /\ UNCHANGED <<card, content, cache>>

(* publish_vcard and unpublish_vcard save the status only, and fail if the  *)
(* row is gone.                                                             *)
StatusSave(w) ==
    /\ card.status # "deleted" /\ ~RowLocked
    /\ \E st \in {"draft", "published"} :
          Start(w, [op |-> "row", row |-> [card EXCEPT !.status = st]])
    /\ Bust
    /\ UNCHANGED <<card, content>>

(* assign_vcard and unassign_vcard save the assignee only.                  *)
AssignSave(w) ==
    /\ card.status # "deleted" /\ ~RowLocked
    /\ Start(w, [op |-> "row", row |-> card])
    /\ Bust
    /\ UNCHANGED <<card, content>>

(* VCardViewSet.perform_destroy.                                            *)
DeleteSave(w) ==
    /\ card.status # "deleted" /\ ~RowLocked
    /\ Start(w, [op |-> "row", row |-> [card EXCEPT !.status = "deleted"]])
    /\ Bust
    /\ UNCHANGED <<card, content>>

(* The list and detail views of the content: a row is added, changed or     *)
(* deleted.                                                                 *)
ContentSave(w) ==
    /\ card.status # "deleted"
    /\ \E c \in Contents : Start(w, [op |-> "content", content |-> c])
    /\ Bust
    /\ UNCHANGED <<card, content>>

(* ATOMIC_REQUESTS: the transaction commits when the view has returned.     *)
(* Deleting the card deletes its content.                                   *)
RowCommit(w) ==
    /\ req[w].op = "row"
    /\ card' = req[w].row
    /\ content' = IF req[w].row.status = "deleted" THEN "empty" ELSE content
    /\ Finish(w)
    /\ UNCHANGED <<cache, loose>>

ContentCommit(w) ==
    /\ req[w].op = "content"
    /\ card.status # "deleted"
    /\ content' = req[w].content
    /\ Finish(w)
    /\ UNCHANGED <<card, cache, loose>>

(* ProfileBlockReorderView: bulk_update sends no signal.                    *)
Reorder ==
    /\ card.status # "deleted" /\ content # "empty"
    /\ \E c \in Contents : content' = c
    /\ loose' = loose \cup Visits \cup (IF cache = NoPage THEN {} ELSE {"page"})
    /\ UNCHANGED <<card, cache, req>>

(* An error or a dead worker: the transaction is rolled back, the bust is   *)
(* not.                                                                     *)
Abort(w) ==
    /\ req[w].op # "idle"
    /\ Finish(w)
    /\ loose' = loose \ {w}
    /\ UNCHANGED <<card, content, cache>>

(* MUTANT of Tick: cache.set without a timeout.                             *)
TickKept ==
    /\ cache.left > 1
    /\ cache' = [cache EXCEPT !.left = @ - 1]
    /\ UNCHANGED <<card, content, req, loose>>

(* MUTANT of Tick: the page outlives its TTL by one step.                    *)
TickLate ==
    /\ cache # NoPage
    /\ cache' = IF cache.left = 0 THEN NoPage ELSE [cache EXCEPT !.left = @ - 1]
    /\ loose' = IF cache.left = 0 THEN loose \ {"page"} ELSE loose
    /\ UNCHANGED <<card, content, req>>

(* Time passes for the cached page, which is dropped at the end of its TTL. *)
Tick ==
    /\ cache # NoPage
    /\ cache' = IF cache.left = 1 THEN NoPage ELSE [cache EXCEPT !.left = @ - 1]
    /\ loose' = IF cache.left = 1 THEN loose \ {"page"} ELSE loose
    /\ UNCHANGED <<card, content, req>>

VisitStep(w) == VisitRender(w) \/ VisitCache(w)

EditStep(w) ==
    \/ PatchBegin(w) \/ ListingBegin(w) \/ PatchSave(w)
    \/ StatusSave(w) \/ AssignSave(w) \/ DeleteSave(w)
    \/ ContentSave(w) \/ RowCommit(w) \/ ContentCommit(w)

Next ==
    \/ \E w \in Workers : VisitBegin(w) \/ VisitStep(w) \/ EditStep(w) \/ Abort(w)
    \/ Reorder
    \/ Tick

Spec == Init /\ [][Next]_vars

(* A visit that has begun ends, or its worker is killed; time passes.       *)
Fairness ==
    /\ \A w \in Workers : WF_vars(VisitStep(w) \/ (w \in Visits /\ Abort(w)))
    /\ WF_vars(Tick)

FairSpec == Spec /\ Fairness

-----------------------------------------------------------------------------
(* Properties.                                                             *)

(* Every row, page and request is well formed.                             *)
TypeOK ==
    /\ card \in Row
    /\ content \in Content
    /\ cache \in Page \cup {NoPage}
    /\ req \in [Workers -> Request \cup {Idle}]
    /\ loose \subseteq Workers \cup {"page"}

ShowsRow == Viewable(card) /\ cache.text = card.text
Current == cache # NoPage => ShowsRow /\ cache.content = content

(* A page that was rendered while no edit was between its bust and its      *)
(* commit, and that no reorder has overtaken, shows the card as it is: each *)
(* kind of edit busts the page before its change can be seen (cards and     *)
(* profile_blocks signals).                                                 *)
CleanPageIsCurrent == "page" \notin loose => Current

(* Once the card and its content stop changing, the page comes to show them *)
(* and stays so: what a race or a reorder left in the cache is not served   *)
(* for ever (PUBLIC_CACHE_TTL).                                             *)
SettlesCurrent == (<>[][FALSE]_<<card, content>>) => <>[]Current
=============================================================================
