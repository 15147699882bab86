-------------------------- MODULE PublicCardProofs --------------------------
(***************************************************************************)
(* Proofs about the two models of what goes on at a public card: its cached *)
(* page (PublicPage), for any number of visits and edits under way, and     *)
(* what visitors do there and the dashboard shows (Rollup), for any number  *)
(* of cards, days, columns, events, workers and killed tasks.               *)
(***************************************************************************)
EXTENDS PublicPage, Rollup, FiniteSetTheorems, WellFoundedInduction, TLAPS

-----------------------------------------------------------------------------
(* The page.  The inductive invariant: that a clean page is current holds    *)
(* because a clean visit has read what is still true, and because as long   *)
(* as an edit is between its bust and its commit nothing is clean.          *)

CleanVisit(w) == w \in Visits /\ w \notin loose

CleanVisitsAreCurrent ==
    \A w \in Workers : CleanVisit(w) =>
        /\ Viewable(card) /\ req[w].text = card.text
        /\ req[w].op = "render" => req[w].content = content

NothingCleanInEdits ==
    Open # {} =>
        /\ \A w \in Workers : ~CleanVisit(w)
        /\ cache # NoPage => "page" \in loose

IInv ==
    /\ TypeOK
    /\ CleanVisitsAreCurrent
    /\ NothingCleanInEdits
    /\ CleanPageIsCurrent

-----------------------------------------------------------------------------
(* What a step of one worker leaves alone.                                  *)
LEMMA OneMoves ==
    ASSUME TypeOK, NEW w \in Workers, NEW r, req' = [req EXCEPT ![w] = r]
    PROVE  req'[w] = r /\ \A v \in Workers \ {w} : req'[v] = req[v]
BY DEF TypeOK

(* A page dropped, or never there, cannot be stale.                         *)
LEMMA NoPageIsCurrent == cache = NoPage => Current
BY DEF Current

LEMMA NoPageIsCurrentNext == cache' = NoPage => Current'
BY DEF Current, NoPage

LEMMA Initially == Init => IInv
<1> SUFFICES ASSUME Init PROVE IInv
  OBVIOUS
<1>1. TypeOK
  BY DEF Init, TypeOK, Row, Content
<1>2. Visits = {} /\ Open = {}
  BY DEF Init, Visits, Open, Idle
<1>3. Current
  BY NoPageIsCurrent DEF Init
<1>4. QED
  BY <1>1, <1>2, <1>3
     DEF IInv, CleanVisitsAreCurrent, NothingCleanInEdits, CleanPageIsCurrent, CleanVisit

-----------------------------------------------------------------------------
(* Visits.                                                                 *)

LEMMA VisitBeginKeeps ==
    ASSUME IInv, NEW w \in Workers, VisitBegin(w)
    PROVE  IInv'
<1> DEFINE r == [op |-> "visit", text |-> card.text]
<1>1. /\ cache = NoPage /\ Viewable(card) /\ req[w].op = "idle"
      /\ req' = [req EXCEPT ![w] = r]
      /\ loose' = IF Open = {} THEN loose ELSE loose \cup {w}
      /\ UNCHANGED <<card, content, cache>>
  BY DEF VisitBegin, Start
<1>2. r \in Request
  BY DEF IInv, TypeOK, Row, Request
<1>3. r.op = "visit" /\ r.text = card.text
  OBVIOUS
<1> HIDE DEF r
<1>4. TypeOK'
  BY <1>1, <1>2 DEF IInv, TypeOK
<1>5. req'[w] = r /\ \A v \in Workers \ {w} : req'[v] = req[v]
  BY <1>1, OneMoves DEF IInv
<1>6. Open' = Open
  BY <1>1, <1>3, <1>5 DEF Open
<1>7. \A v \in Workers \ {w} : CleanVisit(v)' <=> CleanVisit(v)
  BY <1>1, <1>5 DEF CleanVisit, Visits
<1>8. CleanVisitsAreCurrent'
  BY <1>1, <1>3, <1>5, <1>7 DEF IInv, CleanVisitsAreCurrent
<1>9. NothingCleanInEdits'
  BY <1>1, <1>6, <1>7 DEF IInv, NothingCleanInEdits, CleanVisit
<1>10. CleanPageIsCurrent'
  BY <1>1, NoPageIsCurrentNext DEF CleanPageIsCurrent, NoPage
<1>11. QED
  BY <1>4, <1>8, <1>9, <1>10 DEF IInv

LEMMA VisitRenderKeeps ==
    ASSUME IInv, NEW w \in Workers, VisitRender(w)
    PROVE  IInv'
<1> DEFINE r == [op |-> "render", text |-> req[w].text, content |-> content]
<1>1. /\ req[w].op = "visit" /\ req' = [req EXCEPT ![w] = r]
      /\ UNCHANGED <<card, content, cache, loose>>
  BY DEF VisitRender, Advance
<1>2. r \in Request
  BY <1>1 DEF IInv, TypeOK, Request, Idle
<1>3. r.op = "render" /\ r.text = req[w].text /\ r.content = content
  OBVIOUS
<1> HIDE DEF r
<1>4. TypeOK'
  BY <1>1, <1>2 DEF IInv, TypeOK
<1>5. req'[w] = r /\ \A v \in Workers \ {w} : req'[v] = req[v]
  BY <1>1, OneMoves DEF IInv
<1>6. Open' = Open /\ Visits' = Visits
  BY <1>1, <1>3, <1>5 DEF Open, Visits
<1>7. CleanVisitsAreCurrent'
  BY <1>1, <1>3, <1>5, <1>6 DEF IInv, CleanVisitsAreCurrent, CleanVisit
<1>8. (NothingCleanInEdits /\ CleanPageIsCurrent)'
  BY <1>1, <1>6
     DEF IInv, NothingCleanInEdits, CleanVisit, CleanPageIsCurrent, Current, ShowsRow,
         Viewable, NoPage
<1>9. QED
  BY <1>4, <1>7, <1>8 DEF IInv

LEMMA VisitCacheKeeps ==
    ASSUME IInv, NEW w \in Workers, VisitCache(w)
    PROVE  IInv'
<1>1. /\ req[w].op = "render" /\ cache' = Kept(w)
      /\ loose' = (loose \ {w, "page"}) \cup (IF w \in loose THEN {"page"} ELSE {})
      /\ req' = [req EXCEPT ![w] = Idle]
      /\ UNCHANGED <<card, content>>
  BY DEF VisitCache, Finish
<1>2. /\ Kept(w) \in Page /\ Kept(w).text = req[w].text
      /\ Kept(w).content = req[w].content
  BY <1>1, TTLAssumption DEF IInv, TypeOK, Request, Idle, Page, Kept
<1>3. TypeOK'
  BY <1>1, <1>2 DEF IInv, TypeOK
<1>4. req'[w] = Idle /\ \A v \in Workers \ {w} : req'[v] = req[v]
  BY <1>1, OneMoves DEF IInv
<1>5. Open' = Open /\ Visits' = Visits \ {w} /\ w \in Visits
  BY <1>1, <1>4 DEF Open, Visits, Idle
<1>6. \A v \in Workers : CleanVisit(v)' => CleanVisit(v) /\ v # w
  BY <1>1, <1>5, WorkersAssumption DEF CleanVisit
<1>7. CleanVisitsAreCurrent'
  BY <1>1, <1>4, <1>6 DEF IInv, CleanVisitsAreCurrent
<1>8. "page" \notin loose' => CleanVisit(w)
  BY <1>1, <1>5 DEF CleanVisit
<1>9. NothingCleanInEdits'
  BY <1>5, <1>6, <1>8 DEF IInv, NothingCleanInEdits
<1>10. CleanPageIsCurrent'
  BY <1>1, <1>2, <1>8
     DEF IInv, CleanVisitsAreCurrent, CleanPageIsCurrent, Current, ShowsRow, Viewable
<1>11. QED
  BY <1>3, <1>7, <1>9, <1>10 DEF IInv

-----------------------------------------------------------------------------
(* Edits.                                                                  *)

(* A PATCH that has only read the row disturbs nothing.                     *)
LEMMA ReadingKeeps ==
    ASSUME IInv, NEW w \in Workers, NEW r \in Request, r.op = "patch",
           req[w].op = "idle", req' = [req EXCEPT ![w] = r],
           UNCHANGED <<card, content, cache, loose>>
    PROVE  IInv'
<1>2. /\ req[w].op = "idle" /\ req' = [req EXCEPT ![w] = r]
      /\ UNCHANGED <<card, content, cache, loose>>
  OBVIOUS
<1>3. r \in Request /\ r.op = "patch"
  OBVIOUS
<1>4. TypeOK'
  BY <1>2, <1>3 DEF IInv, TypeOK
<1>5. req'[w] = r /\ \A v \in Workers \ {w} : req'[v] = req[v]
  BY <1>2, OneMoves DEF IInv
<1>6. Open' = Open /\ Visits' = Visits /\ w \notin Visits
  BY <1>2, <1>3, <1>5 DEF Open, Visits
<1>7. CleanVisitsAreCurrent'
  BY <1>2, <1>5, <1>6 DEF IInv, CleanVisitsAreCurrent, CleanVisit
<1>8. (NothingCleanInEdits /\ CleanPageIsCurrent)'
  BY <1>2, <1>6
     DEF IInv, NothingCleanInEdits, CleanVisit, CleanPageIsCurrent, Current, ShowsRow,
         Viewable, NoPage
<1>9. QED
  BY <1>4, <1>7, <1>8 DEF IInv

LEMMA PatchBeginKeeps ==
    ASSUME IInv, NEW w \in Workers, PatchBegin(w) \/ ListingBegin(w)
    PROVE  IInv'
<1>1. CASE PatchBegin(w)
  <2>1. PICK t \in Texts, p \in BOOLEAN :
            Start(w, [op |-> "patch", row |-> [card EXCEPT !.text = t, !.private = p]])
    BY <1>1 DEF PatchBegin
  <2> DEFINE r == [op |-> "patch", row |-> [card EXCEPT !.text = t, !.private = p]]
  <2>2. /\ card.status # "deleted" /\ req[w].op = "idle"
        /\ req' = [req EXCEPT ![w] = r] /\ UNCHANGED <<card, content, cache, loose>>
    BY <1>1, <2>1 DEF PatchBegin, Start
  <2>3. r \in Request /\ r.op = "patch"
    BY <2>2 DEF IInv, TypeOK, Row, Request
  <2> HIDE DEF r
  <2> QED
    BY <2>2, <2>3, ReadingKeeps
<1>2. CASE ListingBegin(w)
  <2> DEFINE r == [op |-> "patch", row |-> card]
  <2>2. /\ card.status # "deleted" /\ req[w].op = "idle"
        /\ req' = [req EXCEPT ![w] = r] /\ UNCHANGED <<card, content, cache, loose>>
    BY <1>2 DEF ListingBegin, Start
  <2>3. r \in Request /\ r.op = "patch"
    BY <2>2 DEF IInv, TypeOK, Row, Request
  <2> HIDE DEF r
  <2> QED
    BY <2>2, <2>3, ReadingKeeps
<1> QED
  BY <1>1, <1>2

(* Every edit that sends a signal busts the page and taints every visit.    *)
LEMMA SavingKeeps ==
    ASSUME IInv, NEW w \in Workers, NEW r \in Request,
           r.op \in {"row", "content"}, req[w].op \in {"idle", "patch"},
           req' = [req EXCEPT ![w] = r], Bust, UNCHANGED <<card, content>>
    PROVE  IInv'
<1>1. cache' = NoPage /\ loose' = Visits
  BY DEF Bust
<1>2. TypeOK'
  BY <1>1 DEF IInv, TypeOK, Visits
<1>3. req'[w] = r /\ \A v \in Workers \ {w} : req'[v] = req[v]
  BY OneMoves DEF IInv
<1>4. Visits' = Visits
  BY <1>3 DEF Visits
<1>5. \A v \in Workers : ~CleanVisit(v)'
  BY <1>1, <1>4 DEF CleanVisit
<1>6. (CleanVisitsAreCurrent /\ NothingCleanInEdits)'
  BY <1>1, <1>5 DEF CleanVisitsAreCurrent, NothingCleanInEdits, NoPage
<1>7. CleanPageIsCurrent'
  BY <1>1, NoPageIsCurrentNext DEF CleanPageIsCurrent, NoPage
<1>8. QED
  BY <1>2, <1>6, <1>7 DEF IInv

LEMMA PatchSaveKeeps ==
    ASSUME IInv, NEW w \in Workers, PatchSave(w)
    PROVE  IInv'
<1> DEFINE r == [op |-> "row", row |-> req[w].row]
<1>1. req[w].op = "patch" /\ Bust /\ UNCHANGED <<card, content>>
  BY DEF PatchSave
<1>2. req' = [req EXCEPT ![w] = r]
  BY DEF PatchSave, Advance
<1>3. r \in Request /\ r.op = "row"
  BY <1>1 DEF IInv, TypeOK, Request, Idle
<1> HIDE DEF r
<1>4. QED
  BY <1>1, <1>2, <1>3, SavingKeeps

LEMMA StatusSaveKeeps ==
    ASSUME IInv, NEW w \in Workers, StatusSave(w)
    PROVE  IInv'
<1>1. PICK st \in {"draft", "published"} :
          Start(w, [op |-> "row", row |-> [card EXCEPT !.status = st]])
  BY DEF StatusSave
<1> DEFINE r == [op |-> "row", row |-> [card EXCEPT !.status = st]]
<1>2. /\ req[w].op = "idle" /\ req' = [req EXCEPT ![w] = r]
      /\ Bust /\ UNCHANGED <<card, content>>
  BY <1>1 DEF StatusSave, Start
<1>3. r \in Request /\ r.op = "row"
  BY DEF IInv, TypeOK, Row, Request
<1> HIDE DEF r
<1>4. QED
  BY <1>2, <1>3, SavingKeeps

LEMMA AssignSaveKeeps ==
    ASSUME IInv, NEW w \in Workers, AssignSave(w)
    PROVE  IInv'
<1> DEFINE r == [op |-> "row", row |-> card]
<1>1. /\ req[w].op = "idle" /\ req' = [req EXCEPT ![w] = r]
      /\ Bust /\ UNCHANGED <<card, content>>
  BY DEF AssignSave, Start
<1>2. r \in Request /\ r.op = "row"
  BY DEF IInv, TypeOK, Row, Request
<1> HIDE DEF r
<1>3. QED
  BY <1>1, <1>2, SavingKeeps

LEMMA DeleteSaveKeeps ==
    ASSUME IInv, NEW w \in Workers, DeleteSave(w)
    PROVE  IInv'
<1> DEFINE r == [op |-> "row", row |-> [card EXCEPT !.status = "deleted"]]
<1>1. /\ req[w].op = "idle" /\ req' = [req EXCEPT ![w] = r]
      /\ Bust /\ UNCHANGED <<card, content>>
  BY DEF DeleteSave, Start
<1>2. r \in Request /\ r.op = "row"
  BY DEF IInv, TypeOK, Row, Request
<1> HIDE DEF r
<1>3. QED
  BY <1>1, <1>2, SavingKeeps

LEMMA ContentSaveKeeps ==
    ASSUME IInv, NEW w \in Workers, ContentSave(w)
    PROVE  IInv'
<1>1. PICK c \in Contents : Start(w, [op |-> "content", content |-> c])
  BY DEF ContentSave
<1> DEFINE r == [op |-> "content", content |-> c]
<1>2. /\ req[w].op = "idle" /\ req' = [req EXCEPT ![w] = r]
      /\ Bust /\ UNCHANGED <<card, content>>
  BY <1>1 DEF ContentSave, Start
<1>3. r \in Request /\ r.op = "content"
  BY DEF Request
<1> HIDE DEF r
<1>4. QED
  BY <1>2, <1>3, SavingKeeps

(* A commit changes what is seen, but nothing clean is left to see it.      *)
LEMMA CommittingKeeps ==
    ASSUME IInv, NEW w \in Open, req' = [req EXCEPT ![w] = Idle],
           card' \in Row, content' \in Content, UNCHANGED <<cache, loose>>
    PROVE  IInv'
<1>1. w \in Workers /\ Open # {}
  BY DEF Open
<1>2. TypeOK'
  BY <1>1 DEF IInv, TypeOK
<1>3. req'[w] = Idle /\ \A v \in Workers \ {w} : req'[v] = req[v]
  BY <1>1, OneMoves DEF IInv
<1>4. \A v \in Workers : CleanVisit(v)' => CleanVisit(v)
  BY <1>3 DEF CleanVisit, Visits, Idle
<1>5. \A v \in Workers : ~CleanVisit(v)'
  BY <1>1, <1>4 DEF IInv, NothingCleanInEdits
<1>6. cache # NoPage => "page" \in loose
  BY <1>1 DEF IInv, NothingCleanInEdits
<1>7. (CleanVisitsAreCurrent /\ NothingCleanInEdits)'
  BY <1>5, <1>6 DEF CleanVisitsAreCurrent, NothingCleanInEdits, NoPage
<1>8. CleanPageIsCurrent'
  BY <1>6, NoPageIsCurrentNext DEF CleanPageIsCurrent, NoPage
<1>9. QED
  BY <1>2, <1>7, <1>8 DEF IInv

LEMMA RowCommitKeeps ==
    ASSUME IInv, NEW w \in Workers, RowCommit(w)
    PROVE  IInv'
<1>1. /\ req[w].op = "row" /\ card' = req[w].row
      /\ content' = IF req[w].row.status = "deleted" THEN "empty" ELSE content
      /\ req' = [req EXCEPT ![w] = Idle] /\ UNCHANGED <<cache, loose>>
  BY DEF RowCommit, Finish
<1>2. w \in Open
  BY <1>1 DEF Open
<1>3. card' \in Row
  BY <1>1 DEF IInv, TypeOK, Request, Idle
<1>4. content' \in Content
  BY <1>1 DEF IInv, TypeOK, Content
<1>5. QED
  BY <1>1, <1>2, <1>3, <1>4, CommittingKeeps

LEMMA ContentCommitKeeps ==
    ASSUME IInv, NEW w \in Workers, ContentCommit(w)
    PROVE  IInv'
<1>1. /\ req[w].op = "content" /\ content' = req[w].content
      /\ req' = [req EXCEPT ![w] = Idle] /\ UNCHANGED <<card, cache, loose>>
  BY DEF ContentCommit, Finish
<1>2. w \in Open
  BY <1>1 DEF Open
<1>3. card' \in Row
  BY <1>1 DEF IInv, TypeOK
<1>4. content' \in Content
  BY <1>1 DEF IInv, TypeOK, Request, Idle, Content
<1>5. QED
  BY <1>1, <1>2, <1>3, <1>4, CommittingKeeps

LEMMA ReorderKeeps == ASSUME IInv, Reorder PROVE IInv'
<1>1. /\ content' \in Contents
      /\ loose' = loose \cup Visits \cup (IF cache = NoPage THEN {} ELSE {"page"})
      /\ UNCHANGED <<card, cache, req>>
  BY DEF Reorder
<1>2. TypeOK'
  BY <1>1 DEF IInv, TypeOK, Visits, Content
<1>3. \A w \in Workers : ~CleanVisit(w)'
  BY <1>1 DEF CleanVisit, Visits
<1>4. cache # NoPage => "page" \in loose'
  BY <1>1
<1>5. (CleanVisitsAreCurrent /\ NothingCleanInEdits)'
  BY <1>1, <1>3, <1>4 DEF CleanVisitsAreCurrent, NothingCleanInEdits, NoPage
<1>6. CleanPageIsCurrent'
  BY <1>1, <1>4, NoPageIsCurrentNext DEF CleanPageIsCurrent, NoPage
<1>7. QED
  BY <1>2, <1>5, <1>6 DEF IInv

LEMMA AbortKeeps ==
    ASSUME IInv, NEW w \in Workers, Abort(w)
    PROVE  IInv'
<1>1. /\ req' = [req EXCEPT ![w] = Idle] /\ loose' = loose \ {w}
      /\ UNCHANGED <<card, content, cache>>
  BY DEF Abort, Finish
<1>2. TypeOK'
  BY <1>1 DEF IInv, TypeOK
<1>3. req'[w] = Idle /\ \A v \in Workers \ {w} : req'[v] = req[v]
  BY <1>1, OneMoves DEF IInv
<1>4. Open' = Open \ {w} /\ Visits' = Visits \ {w}
  BY <1>3 DEF Open, Visits, Idle
<1>5. \A v \in Workers : CleanVisit(v)' => CleanVisit(v) /\ v # w
  BY <1>1, <1>4 DEF CleanVisit
<1>6. "page" \in loose <=> "page" \in loose'
  BY <1>1, WorkersAssumption
<1>7. CleanVisitsAreCurrent'
  BY <1>1, <1>3, <1>5 DEF IInv, CleanVisitsAreCurrent
<1>8. NothingCleanInEdits'
  BY <1>1, <1>4, <1>5, <1>6 DEF IInv, NothingCleanInEdits, NoPage
<1>9. CleanPageIsCurrent'
  BY <1>1, <1>6 DEF IInv, CleanPageIsCurrent, Current, ShowsRow, Viewable, NoPage
<1>10. QED
  BY <1>2, <1>7, <1>8, <1>9 DEF IInv

LEMMA TickKeeps == ASSUME IInv, Tick PROVE IInv'
<1>1. /\ cache # NoPage
      /\ cache' = IF cache.left = 1 THEN NoPage ELSE [cache EXCEPT !.left = @ - 1]
      /\ loose' = IF cache.left = 1 THEN loose \ {"page"} ELSE loose
      /\ UNCHANGED <<card, content, req>>
  BY DEF Tick
<1>2. cache \in Page
  BY <1>1 DEF IInv, TypeOK
<1>3. cache.left # 1 =>
          /\ cache' \in Page /\ cache'.text = cache.text
          /\ cache'.content = cache.content
  BY <1>1, <1>2, TTLAssumption DEF Page
<1>4. TypeOK'
  BY <1>1, <1>3 DEF IInv, TypeOK
<1>5. \A w \in Workers : CleanVisit(w)' <=> CleanVisit(w)
  BY <1>1, WorkersAssumption DEF CleanVisit, Visits
<1>6. Open' = Open
  BY <1>1 DEF Open
<1>7. CleanVisitsAreCurrent'
  BY <1>1, <1>5 DEF IInv, CleanVisitsAreCurrent
<1>8. NothingCleanInEdits'
  BY <1>1, <1>5, <1>6 DEF IInv, NothingCleanInEdits, NoPage
<1>9. CleanPageIsCurrent'
  BY <1>1, <1>3 DEF IInv, CleanPageIsCurrent, Current, ShowsRow, Viewable, NoPage
<1>10. QED
  BY <1>4, <1>7, <1>8, <1>9 DEF IInv

LEMMA StutterKeeps == ASSUME IInv, UNCHANGED vars PROVE IInv'
BY DEF vars, IInv, TypeOK, CleanVisitsAreCurrent, NothingCleanInEdits, CleanVisit, Visits,
       Open, CleanPageIsCurrent, Current, ShowsRow, Viewable, NoPage

-----------------------------------------------------------------------------
(* The invariant holds of every state of the card and its page.             *)
THEOREM Invariance == Spec => []IInv
<1>1. Init => IInv
  BY Initially
<1>2. IInv /\ [Next]_vars => IInv'
  <2> SUFFICES ASSUME IInv, [Next]_vars PROVE IInv'
    OBVIOUS
  <2>1. ASSUME NEW w \in Workers, VisitBegin(w) \/ VisitStep(w) \/ Abort(w) PROVE IInv'
    BY <2>1, VisitBeginKeeps, VisitRenderKeeps, VisitCacheKeeps, AbortKeeps DEF VisitStep
  <2>2. ASSUME NEW w \in Workers, EditStep(w) PROVE IInv'
    BY <2>2, PatchBeginKeeps, PatchSaveKeeps, StatusSaveKeeps, AssignSaveKeeps, DeleteSaveKeeps,
       ContentSaveKeeps, RowCommitKeeps, ContentCommitKeeps DEF EditStep
  <2>3. CASE Reorder
    BY <2>3, ReorderKeeps
  <2>4. CASE Tick
    BY <2>4, TickKeeps
  <2>5. CASE UNCHANGED vars
    BY <2>5, StutterKeeps
  <2>6. QED
    BY <2>1, <2>2, <2>3, <2>4, <2>5 DEF Next
<1>3. QED
  BY <1>1, <1>2, PTL DEF Spec

(* A page no edit overlapped shows the card as it is, however many visits   *)
(* and edits are under way (cards and profile_blocks signals).              *)
THEOREM CleanPages == Spec => []CleanPageIsCurrent
<1>1. IInv => CleanPageIsCurrent
  BY DEF IInv
<1>2. QED
  BY <1>1, Invariance, PTL

(* The card, its content and the cached page stay well formed               *)
(* (apps/cards).                                                            *)
THEOREM TypeCorrect == Spec => []TypeOK
<1>1. IInv => TypeOK
  BY DEF IInv
<1> QED
  BY <1>1, Invariance, PTL

-----------------------------------------------------------------------------
(* Sums.                                                                   *)

(* A sum over a finite set, as SumFunctionOnSet of the community modules     *)
(* defines it: an element is taken away at a time, and what is chosen is     *)
(* the function that does so on every subset.                               *)
First(s) == CHOOSE x \in s : TRUE

Sums(f, T, it) ==
    it = [s \in T |-> IF s = {} THEN 0 ELSE f[First(s)] + it[s \ {First(s)}]]

(* The library's fold is that function's value at the whole set.            *)
LEMMA FoldIsSum ==
    ASSUME NEW f, NEW S
    PROVE  SumFunctionOnSet(f, S) = (CHOOSE it : Sums(f, SUBSET S, it))[S]
BY DEF SumFunctionOnSet, FoldFunctionOnSet, MapThenFoldSet, Sums, First

(* Induction on a set of numbers, from a least number outside it.           *)
LEMMA NatByInduction ==
    ASSUME NEW T, T \subseteq Nat, 0 \in T, \A n \in T : n + 1 \in T
    PROVE  T = Nat
<1> SUFFICES ASSUME T # Nat PROVE FALSE
  OBVIOUS
<1>1. Nat \ T \subseteq Nat /\ Nat \ T # {}
  OBVIOUS
<1>2. PICK m \in Nat \ T : \A n \in Nat \ T : ~(<<n, m>> \in OpToRel(<, Nat))
  BY <1>1, NatLessThanWellFounded, WFMin
<1>3. m # 0 /\ m - 1 \in Nat /\ m - 1 < m
  OBVIOUS
<1>4. <<m - 1, m>> \in OpToRel(<, Nat)
  BY <1>3 DEF OpToRel
<1>5. m - 1 \in T
  BY <1>2, <1>3, <1>4
<1> QED
  BY <1>5

Small(S, n) == {s \in SUBSET S : Cardinality(s) <= n}

(* There is such a function: on sets of at most n elements, for every n.    *)
LEMMA SumsExist ==
    ASSUME NEW S, IsFiniteSet(S), NEW f
    PROVE  \E it : Sums(f, SUBSET S, it)
<1> DEFINE T == {n \in Nat : \E it : Sums(f, Small(S, n), it)}
<1>1. \A s \in SUBSET S : IsFiniteSet(s) /\ Cardinality(s) \in Nat
  BY FS_Subset, FS_CardinalityType
<1>2. 0 \in T
  <2> DEFINE it == [s \in Small(S, 0) |-> 0]
  <2>1. \A s \in Small(S, 0) : s = {}
    BY <1>1, FS_EmptySet DEF Small
  <2>2. Sums(f, Small(S, 0), it)
    BY <2>1 DEF Sums
  <2> QED
    BY <2>2
<1>3. ASSUME NEW n \in T PROVE n + 1 \in T
  <2>1. PICK it : Sums(f, Small(S, n), it)
    OBVIOUS
  <2> DEFINE jt == [s \in Small(S, n + 1) |->
                       IF s = {} THEN 0 ELSE f[First(s)] + it[s \ {First(s)}]]
  <2>2. ASSUME NEW s \in Small(S, n + 1), s # {}
        PROVE  s \ {First(s)} \in Small(S, n) /\ s \ {First(s)} \in Small(S, n + 1)
    <3>1. First(s) \in s
      BY <2>2 DEF First
    <3>2. s \in SUBSET S /\ Cardinality(s) <= n + 1
      BY DEF Small
    <3>3. Cardinality(s \ {First(s)}) = Cardinality(s) - 1
      BY <1>1, <3>1, <3>2, FS_RemoveElement
    <3> QED
      BY <1>1, <3>2, <3>3 DEF Small
  <2>3. ASSUME NEW s \in Small(S, n) PROVE jt[s] = it[s]
    <3>1. s \in Small(S, n + 1)
      BY <1>1 DEF Small
    <3>2. it[s] = IF s = {} THEN 0 ELSE f[First(s)] + it[s \ {First(s)}]
      BY <2>1 DEF Sums
    <3> QED
      BY <3>1, <3>2
  <2>4. Sums(f, Small(S, n + 1), jt)
    BY <2>2, <2>3 DEF Sums
  <2> QED
    BY <2>4
<1>4. Cardinality(S) \in T
  <2> HIDE DEF T
  <2>1. T \subseteq Nat
    BY DEF T
  <2> QED
    BY <1>1, <1>2, <1>3, <2>1, NatByInduction
<1>5. Small(S, Cardinality(S)) = SUBSET S
  BY <1>1, FS_Subset DEF Small
<1> QED
  BY <1>4, <1>5

LEMMA SumSteps ==
    ASSUME NEW S, IsFiniteSet(S), NEW f
    PROVE  \E it : /\ it[S] = SumFunctionOnSet(f, S)
                   /\ Sums(f, SUBSET S, it)
<1>1. Sums(f, SUBSET S, CHOOSE it : Sums(f, SUBSET S, it))
  BY SumsExist
<1> QED
  BY <1>1, FoldIsSum

(* A sum of smaller terms is smaller.                                       *)
LEMMA SumMonotone ==
    ASSUME NEW S, IsFiniteSet(S), NEW f, NEW g,
           \A x \in S : f[x] \in Nat /\ g[x] \in Nat /\ f[x] <= g[x]
    PROVE  SumFunctionOnSet(f, S) <= SumFunctionOnSet(g, S)
<1>1. PICK it : it[S] = SumFunctionOnSet(f, S) /\ Sums(f, SUBSET S, it)
  BY SumSteps
<1>2. PICK jt : jt[S] = SumFunctionOnSet(g, S) /\ Sums(g, SUBSET S, jt)
  BY SumSteps
<1> DEFINE T == {n \in Nat : \A s \in SUBSET S : Cardinality(s) = n =>
                                it[s] \in Nat /\ jt[s] \in Nat /\ it[s] <= jt[s]}
<1>3. \A s \in SUBSET S : IsFiniteSet(s) /\ Cardinality(s) \in Nat
  BY FS_Subset, FS_CardinalityType
<1>4. 0 \in T
  <2>1. {} \in SUBSET S => it[{}] = 0 /\ jt[{}] = 0
    BY <1>1, <1>2 DEF Sums
  <2> QED
    BY <2>1, <1>3, FS_EmptySet
<1>5. ASSUME NEW n \in T PROVE n + 1 \in T
  <2> SUFFICES ASSUME NEW s \in SUBSET S, Cardinality(s) = n + 1
               PROVE  it[s] \in Nat /\ jt[s] \in Nat /\ it[s] <= jt[s]
    OBVIOUS
  <2>0. n \in Nat
    OBVIOUS
  <2>1. s # {} /\ First(s) \in s
    BY <2>0, FS_EmptySet DEF First
  <2> DEFINE u == s \ {First(s)}
  <2>2. u \in SUBSET S /\ Cardinality(u) = n
    <3>1. Cardinality(s \ {First(s)}) = Cardinality(s) - 1
      BY <1>3, <2>1, FS_RemoveElement
    <3> QED
      BY <2>0, <3>1
  <2>3. it[s] = f[First(s)] + it[u] /\ jt[s] = g[First(s)] + jt[u]
    BY <1>1, <1>2, <2>1 DEF Sums
  <2>4. it[u] \in Nat /\ jt[u] \in Nat /\ it[u] <= jt[u]
    BY <2>2
  <2>5. f[First(s)] \in Nat /\ g[First(s)] \in Nat /\ f[First(s)] <= g[First(s)]
    BY <2>1
  <2> QED
    BY <2>3, <2>4, <2>5
<1>6. Cardinality(S) \in T
  <2> HIDE DEF T
  <2>1. T \subseteq Nat
    BY DEF T
  <2> QED
    BY <1>3, <1>4, <1>5, <2>1, NatByInduction
<1> QED
  BY <1>1, <1>2, <1>6
-----------------------------------------------------------------------------
(* The rollup.  The tables only move on: rows are made, rows go.  What a run *)
(* knows of a card it knew at some point of that movement, and that no       *)
(* number it counted lies outside of what the tables went through since it   *)
(* began is what bounds every row it saves, whatever comes or goes.         *)

RowsAreOfTables ==
    \A c \in Cards, d \in Days :
        /\ stat[c][d] # NoRow <=> due[c][d] # NoRow
        /\ stat[c][d] # NoRow => \A k \in Column : stat[c][d][k] <= made[c][d][k]
        /\ due[c][d] # NoRow => NotAfter(due[c][d], Found(c, d))

BaseNotAfter(r) ==
    \A c \in Cards : NotAfter(run[r].base[c], Found(c, run[r].day))

(* What a run has counted of the card whose turn it is.                     *)
CountsInBetween(r) ==
    run[r].todo # {} =>
        \A i \in 1..Len(run[r].counts) :
            CountedBetween(run[r].counts[i], run[r].base[Turn(r)],
                           Found(Turn(r), run[r].day), Columns[i])

RunsAreOfTables ==
    \A r \in Runners : Running(r) => BaseNotAfter(r) /\ CountsInBetween(r)

OneRunADay ==
    \A r, q \in Runners :
        Running(r) /\ Running(q) /\ r # q /\ run[r].day = run[q].day =>
            run[r].day \in overlapped

(* A run that has its day to itself began after those that saved its rows,  *)
(* and the rows it has still to save are of before it began.                *)
RowsBeforeRun ==
    \A r \in Runners : Running(r) /\ run[r].day \notin overlapped =>
        \A c \in Cards : due[c][run[r].day] # NoRow =>
            /\ NotAfter(due[c][run[r].day], run[r].base[c])
            /\ c \in run[r].todo => \A k \in Column :
                  CountedBetween(stat[c][run[r].day][k], due[c][run[r].day],
                                 run[r].base[c], k)

RollupFacts ==
    /\ RowsAreOfTables
    /\ RunsAreOfTables
    /\ OneRunADay
    /\ RowsBeforeRun
    /\ DiffersOnlyByLate

RollupIInv == RollupTypeOK /\ RollupFacts

-----------------------------------------------------------------------------
(* The columns in their order, and as a set.                                *)
LEMMA ColumnsAreColumn ==
    /\ "views" \in Column
    /\ \A i \in 1..Len(Columns) : Columns[i] \in Column
    /\ \A k \in Column : \E i \in 1..Len(Columns) : Columns[i] = k
    /\ Len(Columns) \in Nat /\ DOMAIN Columns = 1..Len(Columns)
BY ColumnsAssumption DEF Column

(* A row with counts is not the absent row, nor is a look at the tables.    *)
LEMMA NoRowIsNoRow ==
    /\ \A row \in Counters : row # NoRow
    /\ \A look \in Looks : look # NoRow
<1>1. DOMAIN NoRow = {}
  BY DEF NoRow
<1>2. ASSUME NEW row \in Counters PROVE row # NoRow
  <2>1. "views" \in DOMAIN row
    BY ColumnsAreColumn DEF Counters
  <2> QED
    BY <1>1, <2>1
<1>3. ASSUME NEW look \in Looks PROVE look # NoRow
  <2>1. "made" \in DOMAIN look
    BY DEF Looks
  <2> QED
    BY <1>1, <2>1
<1> QED
  BY <1>2, <1>3

(* The tables, row by row.                                                  *)
LEMMA TablesTyped ==
    ASSUME RollupTypeOK, NEW c \in Cards, NEW d \in Days
    PROVE  /\ made[c][d] \in Counters /\ gone[c][d] \in Counters
           /\ Found(c, d) \in Looks
           /\ Found(c, d).made = made[c][d] /\ Found(c, d).gone = gone[c][d]
           /\ \A k \in Column : /\ made[c][d][k] \in Nat /\ gone[c][d][k] \in Nat
                               /\ gone[c][d][k] <= made[c][d][k]
                               /\ Raw(c, d)[k] = made[c][d][k] - gone[c][d][k]
                               /\ Raw(c, d)[k] \in Nat
           /\ stat[c][d] # NoRow => stat[c][d] \in Counters
           /\ due[c][d] # NoRow => due[c][d] \in Looks
BY DEF RollupTypeOK, Counters, Looks, Found, Raw, StatRow

(* A runner's record, field by field.                                      *)
LEMMA RunFields ==
    ASSUME RollupTypeOK, NEW r \in Runners
    PROVE  /\ run[r].day <= day /\ Len(run[r].counts) <= Len(Columns)
           /\ run[r].counts \in Seq(Nat) /\ Len(run[r].counts) \in Nat
           /\ Running(r) => /\ run[r].day \in Days /\ run[r].todo \in SUBSET Cards
                            /\ run[r].base \in [Cards -> Looks]
                            /\ run[r] \in Runs
           /\ run[r].todo # {} => Running(r)
<1>1. CASE run[r] = NoRun
  BY <1>1 DEF RollupTypeOK, NoRun, Run, Running
<1>2. CASE run[r] \in Runs
  BY <1>2 DEF RollupTypeOK, Runs, Running, Days
<1> QED
  BY <1>1, <1>2 DEF RollupTypeOK

(* A step of one runner, and what it leaves of the others.                  *)
LEMMA OneRuns ==
    ASSUME RollupTypeOK, NEW r \in Runners, NEW x, run' = [run EXCEPT ![r] = x]
    PROVE  run'[r] = x /\ \A q \in Runners \ {r} : run'[q] = run[q]
BY DEF RollupTypeOK

LEMMA RunTyped ==
    ASSUME RollupTypeOK, NEW r \in Runners, NEW x \in Runs \cup {NoRun},
           run' = [run EXCEPT ![r] = x], day' = day, x.day <= day,
           Len(x.counts) <= Len(Columns)
    PROVE  /\ run' \in [Runners -> Runs \cup {NoRun}]
           /\ \A q \in Runners : run'[q].day <= day' /\ Len(run'[q].counts) <= Len(Columns)
BY DEF RollupTypeOK

LEMMA TurnStays ==
    ASSUME NEW r, run'[r].todo = run[r].todo
    PROVE  Turn(r)' = Turn(r)
BY DEF Turn

LEMMA TurnIsTodo ==
    ASSUME RollupTypeOK, NEW r \in Runners, run[r].todo # {}
    PROVE  Turn(r) \in run[r].todo /\ Turn(r) \in Cards
<1>1. Turn(r) \in run[r].todo
  BY DEF Turn
<1> QED
  BY <1>1, RunFields

LEMMA NoRunIsIdle ==
    ASSUME RollupTypeOK
    PROVE  /\ NoRun.day = 0 /\ NoRun.day <= day
           /\ Len(NoRun.counts) = 0 /\ NoRun.todo = {}
           /\ Len(NoRun.counts) <= Len(Columns)
BY ColumnsAreColumn DEF NoRun, Run, RollupTypeOK, Days

-----------------------------------------------------------------------------
(* Looks at the tables, one after the other.                                *)

LEMMA LaterIsWider ==
    ASSUME NEW n \in Nat, NEW seen \in Looks, NEW a \in Looks, NEW b \in Looks,
           NotAfter(a, b), NEW k \in Column, CountedBetween(n, seen, a, k)
    PROVE  CountedBetween(n, seen, b, k)
BY DEF CountedBetween, NotAfter, Looks, Counters

LEMMA EarlierIsWider ==
    ASSUME NEW n \in Nat, NEW a \in Looks, NEW b \in Looks, NEW later \in Looks,
           NotAfter(a, b), NEW k \in Column, CountedBetween(n, b, later, k)
    PROVE  CountedBetween(n, a, later, k)
BY DEF CountedBetween, NotAfter, Looks, Counters

LEMMA NotAfterChain ==
    ASSUME NEW a \in Looks, NEW b \in Looks, NEW c \in Looks,
           NotAfter(a, b), NotAfter(b, c)
    PROVE  NotAfter(a, c)
BY DEF NotAfter, Looks, Counters

(* What is there now came and went since any earlier look.                  *)
LEMMA NowIsBetween ==
    ASSUME RollupTypeOK, NEW c \in Cards, NEW d \in Days, NEW k \in Column,
           NEW seen \in Looks, NotAfter(seen, Found(c, d))
    PROVE  CountedBetween(Raw(c, d)[k], seen, Found(c, d), k)
<1>1. PICK m \in Nat, g \in Nat :
          /\ Found(c, d).made[k] = m /\ Found(c, d).gone[k] = g
          /\ Raw(c, d)[k] = m - g
  BY TablesTyped
<1>2. PICK i \in Nat, j \in Nat : seen.made[k] = i /\ seen.gone[k] = j
  BY DEF Looks, Counters
<1>3. i <= m /\ j <= g
  BY <1>1, <1>2 DEF NotAfter
<1>4. i - g <= m - g /\ m - g <= m - j
  BY <1>3
<1> QED
  BY <1>1, <1>2, <1>4 DEF CountedBetween

LEMMA NewestIsEither ==
    ASSUME NEW seen, NEW base \in Looks, seen # NoRow => seen \in Looks
    PROVE  /\ Newest(seen, base) \in Looks
           /\ \/ Newest(seen, base) = base
              \/ seen # NoRow /\ Newest(seen, base) = seen
BY DEF Newest

LEMMA RollupInitially == RollupInit => RollupIInv
<1> SUFFICES ASSUME RollupInit PROVE RollupIInv
  OBVIOUS
<1>1. \A r \in Runners : run[r] = NoRun
  BY DEF RollupInit
<1>2. NoRun.day = 0 /\ Len(NoRun.counts) = 0
  BY DEF NoRun, Run
<1>3. RollupTypeOK
  <2>1. day \in Days
    BY BoundsAssumption DEF RollupInit, Days
  <2>2. /\ made \in [Cards -> [Days -> Counters]] /\ gone \in [Cards -> [Days -> Counters]]
        /\ \A c \in Cards, d \in Days, k \in Column : gone[c][d][k] <= made[c][d][k]
        /\ pending \in [Cards -> [Days -> [Queued -> Nat]]]
    BY DEF RollupInit, Zero, Counters
  <2>3. stat \in [Cards -> [Days -> StatRow]] /\ due \in [Cards -> [Days -> Looks \cup {NoRow}]]
    BY DEF RollupInit, StatRow
  <2>4. run \in [Runners -> Runs \cup {NoRun}]
    BY DEF RollupInit
  <2>5. \A r \in Runners : run[r].day <= day /\ Len(run[r].counts) <= Len(Columns)
    BY <1>1, <1>2, ColumnsAreColumn DEF RollupInit
  <2> QED
    BY <2>1, <2>2, <2>3, <2>4, <2>5 DEF RollupTypeOK, RollupInit
<1>4. \A r \in Runners : ~Running(r)
  BY <1>1, <1>2 DEF Running
<1>5. \A c \in Cards, d \in Days : stat[c][d] = NoRow /\ due[c][d] = NoRow
  BY DEF RollupInit
<1>6. RollupFacts
  BY <1>4, <1>5
     DEF RollupFacts, RowsAreOfTables, RunsAreOfTables, OneRunADay, RowsBeforeRun,
         DiffersOnlyByLate
<1> QED
  BY <1>3, <1>6 DEF RollupIInv

-----------------------------------------------------------------------------
(* Visitors, owners and the tasks that record visits: the tables move on.   *)

TablesMoveOn ==
    /\ made' \in [Cards -> [Days -> Counters]]
    /\ gone' \in [Cards -> [Days -> Counters]]
    /\ \A c \in Cards, d \in Days, k \in Column :
          /\ made[c][d][k] <= made'[c][d][k]
          /\ gone[c][d][k] <= gone'[c][d][k]
          /\ gone'[c][d][k] <= made'[c][d][k]

LEMMA UnchangedMovesOn == ASSUME RollupTypeOK, UNCHANGED <<made, gone>> PROVE TablesMoveOn
<1>1. \A c \in Cards, d \in Days, k \in Column :
          made[c][d][k] \in Nat /\ gone[c][d][k] \in Nat /\ gone[c][d][k] <= made[c][d][k]
  BY TablesTyped
<1>2. made \in [Cards -> [Days -> Counters]] /\ gone \in [Cards -> [Days -> Counters]]
  BY DEF RollupTypeOK
<1> QED
  BY <1>1, <1>2 DEF TablesMoveOn

LEMMA LaterLook ==
    ASSUME RollupTypeOK, TablesMoveOn, NEW c \in Cards, NEW d \in Days
    PROVE  /\ Found(c, d)' \in Looks
           /\ NotAfter(Found(c, d), Found(c, d)')
<1>1. /\ made'[c][d] \in Counters /\ gone'[c][d] \in Counters
      /\ Found(c, d)' = [made |-> made'[c][d], gone |-> gone'[c][d]]
  BY DEF TablesMoveOn, Found
<1>2. Found(c, d) = [made |-> made[c][d], gone |-> gone[c][d]]
  BY DEF Found
<1> QED
  BY <1>1, <1>2 DEF TablesMoveOn, NotAfter, Looks

(* The rollup's facts do not mind that the tables move on, nor that rows of  *)
(* the dashboard go with their card.                                        *)
LEMMA MovingOnKeeps ==
    ASSUME RollupIInv, TablesMoveOn, UNCHANGED <<run, overlapped>>,
           \A c \in Cards, d \in Days :
               \/ stat'[c][d] = stat[c][d] /\ due'[c][d] = due[c][d]
               \/ stat'[c][d] = NoRow /\ due'[c][d] = NoRow
    PROVE  RollupFacts'
<1>0. RollupTypeOK /\ RollupFacts
  BY DEF RollupIInv
<1>1. \A c \in Cards, d \in Days :
          /\ Found(c, d) \in Looks /\ Found(c, d)' \in Looks
          /\ NotAfter(Found(c, d), Found(c, d)')
  BY <1>0, TablesTyped, LaterLook
<1>2. ASSUME NEW c \in Cards, NEW d \in Days,
             stat'[c][d] # NoRow \/ due'[c][d] # NoRow
      PROVE  /\ stat'[c][d] = stat[c][d] /\ due'[c][d] = due[c][d]
             /\ stat[c][d] # NoRow /\ due[c][d] # NoRow
             /\ stat[c][d] \in Counters /\ due[c][d] \in Looks
             /\ \A k \in Column : stat[c][d][k] \in Nat
  <2>1. /\ stat'[c][d] = stat[c][d] /\ due'[c][d] = due[c][d]
        /\ stat[c][d] # NoRow /\ due[c][d] # NoRow
    BY <1>0, <1>2 DEF RollupFacts, RowsAreOfTables
  <2> QED
    BY <1>0, <2>1, TablesTyped DEF Counters
<1>3. RowsAreOfTables'
  <2> SUFFICES ASSUME NEW c \in Cards, NEW d \in Days
               PROVE  /\ stat'[c][d] # NoRow <=> due'[c][d] # NoRow
                      /\ stat'[c][d] # NoRow =>
                            \A k \in Column : stat'[c][d][k] <= made'[c][d][k]
                      /\ due'[c][d] # NoRow => NotAfter(due'[c][d], Found(c, d)')
    BY DEF RowsAreOfTables
  <2>1. stat'[c][d] # NoRow <=> due'[c][d] # NoRow
    BY <1>0, <1>2 DEF RollupFacts, RowsAreOfTables
  <2>2. ASSUME stat'[c][d] # NoRow, NEW k \in Column PROVE stat'[c][d][k] <= made'[c][d][k]
    <3>1. stat[c][d][k] <= made[c][d][k] /\ stat[c][d][k] \in Nat
      BY <1>0, <1>2, <2>2 DEF RollupFacts, RowsAreOfTables
    <3>2. made[c][d][k] \in Nat /\ made'[c][d][k] \in Nat /\ made[c][d][k] <= made'[c][d][k]
      BY <1>0, TablesTyped DEF TablesMoveOn, Counters
    <3> QED
      BY <1>2, <2>2, <3>1, <3>2
  <2>3. ASSUME due'[c][d] # NoRow PROVE NotAfter(due'[c][d], Found(c, d)')
    <3>1. NotAfter(due[c][d], Found(c, d))
      BY <1>0, <1>2, <2>3 DEF RollupFacts, RowsAreOfTables
    <3> QED
      BY <1>1, <1>2, <2>3, <3>1, NotAfterChain
  <2> QED
    BY <2>1, <2>2, <2>3
<1>4. RunsAreOfTables'
  <2> SUFFICES ASSUME NEW r \in Runners, Running(r)
               PROVE  BaseNotAfter(r)' /\ CountsInBetween(r)'
    BY DEF RunsAreOfTables, Running
  <2>1. /\ run[r].day \in Days /\ run[r].base \in [Cards -> Looks]
        /\ run[r].counts \in Seq(Nat) /\ Len(run[r].counts) <= Len(Columns)
        /\ Len(run[r].counts) \in Nat
    BY <1>0, RunFields
  <2>2. BaseNotAfter(r) /\ CountsInBetween(r)
    BY <1>0 DEF RollupFacts, RunsAreOfTables
  <2>3. ASSUME NEW c \in Cards
        PROVE  NotAfter(run[r].base[c],
                        [made |-> made'[c][run[r].day], gone |-> gone'[c][run[r].day]])
    <3>1. NotAfter(run[r].base[c], Found(c, run[r].day)) /\ run[r].base[c] \in Looks
      BY <2>1, <2>2 DEF BaseNotAfter
    <3>2. \A d \in Days : \E later \in Looks :
              /\ later = [made |-> made'[c][d], gone |-> gone'[c][d]]
              /\ NotAfter(Found(c, d), later)
      BY <1>1 DEF Found
    <3>3. PICK later \in Looks :
              /\ later = [made |-> made'[c][run[r].day], gone |-> gone'[c][run[r].day]]
              /\ NotAfter(Found(c, run[r].day), later)
      BY <2>1, <3>2
    <3>4. Found(c, run[r].day) \in Looks
      BY <1>1, <2>1
    <3>5. NotAfter(run[r].base[c], later)
      BY <3>1, <3>3, <3>4, NotAfterChain
    <3> QED
      BY <3>3, <3>5
  <2>4. BaseNotAfter(r)'
    BY <2>3 DEF BaseNotAfter, Found
  <2>5. ASSUME run[r].todo # {}, NEW i \in 1..Len(run[r].counts)
        PROVE  CountedBetween(run[r].counts[i], run[r].base[Turn(r)],
                              [made |-> made'[Turn(r)][run[r].day],
                               gone |-> gone'[Turn(r)][run[r].day]], Columns[i])
    <3>1. Turn(r) \in Cards
      BY <1>0, <2>5, TurnIsTodo
    <3>2. CountedBetween(run[r].counts[i], run[r].base[Turn(r)],
                         Found(Turn(r), run[r].day), Columns[i])
      BY <2>2, <2>5 DEF CountsInBetween
    <3>3. run[r].counts[i] \in Nat /\ Columns[i] \in Column /\ run[r].base[Turn(r)] \in Looks
      BY <2>1, <3>1, ColumnsAreColumn
    <3>4. \A c \in Cards, d \in Days : \E later \in Looks :
              /\ later = [made |-> made'[c][d], gone |-> gone'[c][d]]
              /\ NotAfter(Found(c, d), later)
      BY <1>1 DEF Found
    <3>5. PICK later \in Looks :
              /\ later = [made |-> made'[Turn(r)][run[r].day],
                          gone |-> gone'[Turn(r)][run[r].day]]
              /\ NotAfter(Found(Turn(r), run[r].day), later)
      BY <2>1, <3>1, <3>4
    <3>6. Found(Turn(r), run[r].day) \in Looks
      BY <1>1, <2>1, <3>1
    <3>7. CountedBetween(run[r].counts[i], run[r].base[Turn(r)], later, Columns[i])
      BY <3>2, <3>3, <3>5, <3>6, LaterIsWider
    <3> QED
      BY <3>5, <3>7
  <2>6. CountsInBetween(r)'
    <3>1. Turn(r)' = Turn(r) /\ run'[r] = run[r]
      BY TurnStays
    <3> QED
      BY <2>5, <3>1, Zenon DEF CountsInBetween, Found
  <2> QED
    BY <2>4, <2>6
<1>5. OneRunADay'
  BY <1>0 DEF RollupFacts, OneRunADay, Running
<1>6. RowsBeforeRun'
  BY <1>0, <1>2, RunFields DEF RollupFacts, RowsBeforeRun, Running
<1>7. DiffersOnlyByLate'
  <2> SUFFICES ASSUME NEW c \in Cards, NEW d \in Days \ overlapped, due'[c][d] # NoRow
               PROVE  /\ stat'[c][d] # NoRow
                      /\ \A k \in Column :
                            CountedBetween(stat'[c][d][k], due'[c][d], Found(c, d)', k)
    BY DEF DiffersOnlyByLate
  <2>1. \A k \in Column : CountedBetween(stat[c][d][k], due[c][d], Found(c, d), k)
    BY <1>0, <1>2 DEF RollupFacts, DiffersOnlyByLate
  <2> QED
    BY <1>1, <1>2, <2>1, LaterIsWider
<1> QED
  BY <1>3, <1>4, <1>5, <1>6, <1>7 DEF RollupFacts

(* A step of visitors, owners and tasks.                                    *)
LEMMA TablesStepKeeps ==
    ASSUME RollupIInv, TablesMoveOn, UNCHANGED <<day, run, stat, historyVars>>,
           exists' \subseteq Cards, pending' \in [Cards -> [Days -> [Queued -> Nat]]],
           events' \in Nat, crashes' \in Nat
    PROVE  RollupIInv'
<1>1. RollupFacts'
  BY MovingOnKeeps DEF historyVars
<1>2. \A c \in Cards, d \in Days, k \in Column : gone'[c][d][k] <= made'[c][d][k]
  BY DEF TablesMoveOn
<1>3. RollupTypeOK'
  BY <1>2 DEF RollupIInv, RollupTypeOK, TablesMoveOn, historyVars, Days
<1> QED
  BY <1>1, <1>3 DEF RollupIInv

LEMMA PendingTyped ==
    ASSUME RollupTypeOK, NEW c \in Cards, NEW s \in Days, NEW k \in Queued, NEW n \in Nat,
           pending' = [pending EXCEPT ![c][s][k] = n]
    PROVE  pending' \in [Cards -> [Days -> [Queued -> Nat]]]
<1>1. pending' = [pending EXCEPT ![c] = [pending[c] EXCEPT ![s] = [pending[c][s] EXCEPT ![k] = n]]]
  OBVIOUS
<1>2. pending \in [Cards -> [Days -> [Queued -> Nat]]]
  BY DEF RollupTypeOK
<1>3. pending[c] \in [Days -> [Queued -> Nat]] /\ pending[c][s] \in [Queued -> Nat]
  BY <1>2
<1>4. [pending[c][s] EXCEPT ![k] = n] \in [Queued -> Nat]
  BY <1>3
<1>5. [pending[c] EXCEPT ![s] = [pending[c][s] EXCEPT ![k] = n]] \in [Days -> [Queued -> Nat]]
  BY <1>3, <1>4
<1> QED
  BY <1>1, <1>2, <1>5

(* Rows of one card and day are added.                                      *)
LEMMA MoreRows ==
    ASSUME RollupTypeOK, NEW c \in Cards, NEW d \in Days, NEW row \in Counters,
           \A k \in Column : made[c][d][k] <= row[k],
           made' = [made EXCEPT ![c] = [made[c] EXCEPT ![d] = row]],
           UNCHANGED gone
    PROVE  TablesMoveOn
<1>1. made \in [Cards -> [Days -> Counters]] /\ gone \in [Cards -> [Days -> Counters]]
  BY DEF RollupTypeOK
<1>2. made' \in [Cards -> [Days -> Counters]]
  BY <1>1
<1>3. ASSUME NEW b \in Cards, NEW e \in Days, NEW k \in Column
      PROVE  /\ made[b][e][k] <= made'[b][e][k]
             /\ gone[b][e][k] <= gone'[b][e][k]
             /\ gone'[b][e][k] <= made'[b][e][k]
  <2>1. made'[b][e] = IF b = c /\ e = d THEN row ELSE made[b][e]
    BY <1>1
  <2>2. /\ made[b][e][k] \in Nat /\ gone[b][e][k] \in Nat /\ gone[b][e][k] <= made[b][e][k]
        /\ row[k] \in Nat
    BY TablesTyped DEF Counters
  <2> QED
    BY <2>1, <2>2
<1> QED
  BY <1>1, <1>2, <1>3 DEF TablesMoveOn

(* Rows of one card go.                                                     *)
LEMMA FewerRows ==
    ASSUME RollupTypeOK, NEW c \in Cards, NEW rows \in [Days -> Counters],
           \A d \in Days, k \in Column :
               gone[c][d][k] <= rows[d][k] /\ rows[d][k] <= made[c][d][k],
           gone' = [gone EXCEPT ![c] = rows],
           UNCHANGED made
    PROVE  TablesMoveOn
<1>1. made \in [Cards -> [Days -> Counters]] /\ gone \in [Cards -> [Days -> Counters]]
  BY DEF RollupTypeOK
<1>2. gone' \in [Cards -> [Days -> Counters]]
  BY <1>1
<1>3. ASSUME NEW b \in Cards, NEW e \in Days, NEW k \in Column
      PROVE  /\ made[b][e][k] <= made'[b][e][k]
             /\ gone[b][e][k] <= gone'[b][e][k]
             /\ gone'[b][e][k] <= made'[b][e][k]
  <2>1. gone'[b][e] = IF b = c THEN rows[e] ELSE gone[b][e]
    BY <1>1
  <2>2. /\ made[b][e][k] \in Nat /\ gone[b][e][k] \in Nat /\ gone[b][e][k] <= made[b][e][k]
    BY TablesTyped
  <2> QED
    BY <2>1, <2>2
<1> QED
  BY <1>1, <1>2, <1>3 DEF TablesMoveOn

LEMMA RollupBounds ==
    ASSUME RollupTypeOK
    PROVE  /\ day \in Days /\ exists \subseteq Cards /\ events \in Nat /\ crashes \in Nat
           /\ pending \in [Cards -> [Days -> [Queued -> Nat]]]
           /\ \A d \in 1..day : d \in Days
           /\ \A s \in 1..day : \A d \in s..day : d \in Days
<1>1. day \in Days
  BY DEF RollupTypeOK
<1> QED
  BY <1>1, BoundsAssumption DEF RollupTypeOK, Days

LEMMA VisitKeeps == ASSUME RollupIInv, Visit PROVE RollupIInv'
<1>0. RollupTypeOK
  BY DEF RollupIInv
<1>1. PICK c \in exists, k \in Queued : pending' = [pending EXCEPT ![c][day][k] = @ + 1]
  BY DEF Visit
<1>2. c \in Cards /\ pending[c][day][k] + 1 \in Nat
  BY <1>0, RollupBounds
<1>3. pending' \in [Cards -> [Days -> [Queued -> Nat]]]
  BY <1>0, <1>1, <1>2, PendingTyped, RollupBounds
<1>4. TablesMoveOn
  BY <1>0, UnchangedMovesOn DEF Visit
<1> QED
  BY <1>0, <1>3, <1>4, TablesStepKeeps, RollupBounds DEF Visit

LEMMA EnquireOrBookKeeps == ASSUME RollupIInv, EnquireOrBook PROVE RollupIInv'
<1>0. RollupTypeOK
  BY DEF RollupIInv
<1>1. PICK c \in exists, k \in Direct, d \in 1..day :
          made' = [made EXCEPT ![c][d][k] = @ + 1]
  BY DEF EnquireOrBook
<1>2. c \in Cards /\ d \in Days /\ k \in Column
  BY <1>0, RollupBounds DEF Direct
<1> DEFINE row == [made[c][d] EXCEPT ![k] = made[c][d][k] + 1]
<1>3. row \in Counters /\ \A j \in Column : made[c][d][j] <= row[j]
  BY <1>0, <1>2, TablesTyped DEF Counters
<1>4. made' = [made EXCEPT ![c] = [made[c] EXCEPT ![d] = row]]
  BY <1>1
<1> HIDE DEF row
<1>5. TablesMoveOn
  BY <1>0, <1>2, <1>3, <1>4, MoreRows DEF EnquireOrBook
<1> QED
  BY <1>0, <1>5, TablesStepKeeps, RollupBounds DEF EnquireOrBook

LEMMA DeleteRowsKeeps == ASSUME RollupIInv, DeleteRows PROVE RollupIInv'
<1>0. RollupTypeOK
  BY DEF RollupIInv
<1>1. PICK c \in exists, k \in Direct : \E lost \in Deletable(c, k) :
          gone' = [gone EXCEPT ![c] =
              [d \in Days |-> [gone[c][d] EXCEPT ![k] = @ + lost[d]]]]
  BY DEF DeleteRows
<1>2. PICK lost \in Deletable(c, k) :
          gone' = [gone EXCEPT ![c] =
              [d \in Days |-> [gone[c][d] EXCEPT ![k] = @ + lost[d]]]]
  BY <1>1
<1>3. c \in Cards /\ k \in Column
  BY <1>0, RollupBounds DEF Direct
<1>4. \A d \in Days : lost[d] \in Nat /\ lost[d] <= Raw(c, d)[k]
  BY BoundsAssumption DEF Deletable
<1> DEFINE rows == [d \in Days |-> [gone[c][d] EXCEPT ![k] = gone[c][d][k] + lost[d]]]
<1>5. ASSUME NEW d \in Days
      PROVE  /\ rows[d] \in Counters
             /\ \A j \in Column : gone[c][d][j] <= rows[d][j] /\ rows[d][j] <= made[c][d][j]
  <2>1. /\ gone[c][d] \in Counters
        /\ \A j \in Column : /\ made[c][d][j] \in Nat /\ gone[c][d][j] \in Nat
                            /\ gone[c][d][j] <= made[c][d][j]
        /\ Raw(c, d)[k] = made[c][d][k] - gone[c][d][k]
    BY <1>0, <1>3, TablesTyped
  <2>2. gone[c][d][k] + lost[d] \in Nat /\ gone[c][d][k] + lost[d] <= made[c][d][k]
    BY <1>3, <1>4, <2>1
  <2>3. rows[d] = [gone[c][d] EXCEPT ![k] = gone[c][d][k] + lost[d]]
    OBVIOUS
  <2> QED
    BY <1>3, <1>4, <2>1, <2>2, <2>3 DEF Counters
<1>6. rows \in [Days -> Counters]
  BY <1>5
<1>7. gone' = [gone EXCEPT ![c] = rows]
  BY <1>2
<1> HIDE DEF rows
<1>8. TablesMoveOn
  BY <1>0, <1>3, <1>5, <1>6, <1>7, FewerRows DEF DeleteRows
<1> QED
  BY <1>0, <1>8, TablesStepKeeps, RollupBounds DEF DeleteRows

(* The rows of a deleted card go with it, the dashboard's too.              *)
LEMMA DeleteCardKeeps == ASSUME RollupIInv, DeleteCard PROVE RollupIInv'
<1>0. RollupTypeOK
  BY DEF RollupIInv
<1>1. PICK c \in exists :
          /\ exists' = exists \ {c}
          /\ gone' = [gone EXCEPT ![c] = made[c]]
          /\ stat' = [stat EXCEPT ![c] = [d \in Days |-> NoRow]]
          /\ due' = [due EXCEPT ![c] = [d \in Days |-> NoRow]]
  BY DEF DeleteCard
<1>2. UNCHANGED <<day, pending, made, run, events, crashes, overlapped>>
  BY DEF DeleteCard
<1>3. /\ c \in Cards /\ exists \subseteq Cards
      /\ stat \in [Cards -> [Days -> StatRow]]
      /\ due \in [Cards -> [Days -> Looks \cup {NoRow}]]
      /\ made \in [Cards -> [Days -> Counters]]
  BY <1>0 DEF RollupTypeOK
<1>4. TablesMoveOn
  <2>1. \A d \in Days, k \in Column : gone[c][d][k] <= made[c][d][k] /\ made[c][d][k] \in Nat
    BY <1>0, <1>3, TablesTyped
  <2>2. \A d \in Days, k \in Column : made[c][d][k] <= made[c][d][k]
    BY <2>1
  <2> QED
    BY <1>0, <1>1, <1>2, <1>3, <2>1, <2>2, FewerRows
<1>5. \A b \in Cards, d \in Days :
          \/ stat'[b][d] = stat[b][d] /\ due'[b][d] = due[b][d]
          \/ stat'[b][d] = NoRow /\ due'[b][d] = NoRow
  BY <1>1, <1>3
<1>6. RollupFacts'
  BY <1>2, <1>4, <1>5, MovingOnKeeps
<1>7. stat' \in [Cards -> [Days -> StatRow]] /\ due' \in [Cards -> [Days -> Looks \cup {NoRow}]]
  <2>1. /\ [d \in Days |-> NoRow] \in [Days -> StatRow]
        /\ [d \in Days |-> NoRow] \in [Days -> Looks \cup {NoRow}]
    BY DEF StatRow
  <2> QED
    BY <1>1, <1>3, <2>1
<1>8. RollupTypeOK'
  <2>1. \A b \in Cards, d \in Days, k \in Column : gone'[b][d][k] <= made'[b][d][k]
    BY <1>4 DEF TablesMoveOn
  <2> QED
    BY <1>0, <1>1, <1>2, <1>3, <1>4, <1>7, <2>1 DEF RollupTypeOK, TablesMoveOn, Days
<1> QED
  BY <1>6, <1>8 DEF RollupIInv

LEMMA ReinsertCardKeeps == ASSUME RollupIInv, ReinsertCard PROVE RollupIInv'
<1>0. RollupTypeOK
  BY DEF RollupIInv
<1>1. exists' \subseteq Cards
  BY <1>0, RollupBounds DEF ReinsertCard
<1>2. TablesMoveOn
  BY <1>0, UnchangedMovesOn DEF ReinsertCard
<1> QED
  BY <1>0, <1>1, <1>2, TablesStepKeeps, RollupBounds DEF ReinsertCard

(* The row of a task.                                                       *)
LEMMA InsertMovesOn ==
    ASSUME RollupTypeOK, NEW c \in Cards, NEW d \in Days, NEW k \in Queued,
           Insert(c, d, k), UNCHANGED gone
    PROVE  TablesMoveOn
<1>1. PICK isNew \in {TRUE, FALSE} :
          made' = [made EXCEPT ![c][d] =
              [j \in Column |-> IF j = k \/ (k = "views" /\ j = "unique_visitors" /\ isNew)
                                THEN @[j] + 1 ELSE @[j]]]
  BY DEF Insert
<1> DEFINE row ==
        [j \in Column |-> IF j = k \/ (k = "views" /\ j = "unique_visitors" /\ isNew)
                          THEN made[c][d][j] + 1 ELSE made[c][d][j]]
<1>2. \A j \in Column : made[c][d][j] \in Nat
  BY TablesTyped
<1>3. row \in Counters /\ \A j \in Column : made[c][d][j] <= row[j]
  BY <1>2 DEF Counters
<1>4. made' = [made EXCEPT ![c] = [made[c] EXCEPT ![d] = row]]
  BY <1>1
<1> HIDE DEF row
<1> QED
  BY <1>3, <1>4, MoreRows

LEMMA RecordEventKeeps == ASSUME RollupIInv, RecordEvent PROVE RollupIInv'
<1>0. RollupTypeOK
  BY DEF RollupIInv
<1>1. PICK c \in Cards, s \in 1..day, k \in Queued :
          /\ pending[c][s][k] > 0
          /\ pending' = [pending EXCEPT ![c][s][k] = @ - 1]
          /\ (\E d \in s..day : Insert(c, d, k)) \/ UNCHANGED made
  BY DEF RecordEvent, Ack
<1>2. UNCHANGED <<day, exists, gone, stat, run, events, crashes, historyVars>>
  BY DEF RecordEvent
<1>3. s \in Days /\ pending[c][s][k] - 1 \in Nat
  BY <1>0, <1>1, RollupBounds
<1>4. pending' \in [Cards -> [Days -> [Queued -> Nat]]]
  BY <1>0, <1>1, <1>3, PendingTyped
<1>5. TablesMoveOn
  <2>1. CASE UNCHANGED made
    BY <1>0, <1>2, <2>1, UnchangedMovesOn
  <2>2. ASSUME NEW d \in s..day, Insert(c, d, k) PROVE TablesMoveOn
    BY <1>0, <1>2, <2>2, InsertMovesOn, RollupBounds
  <2> QED
    BY <1>1, <2>1, <2>2
<1> QED
  BY <1>0, <1>2, <1>4, <1>5, TablesStepKeeps, RollupBounds

LEMMA RecordAndCrashKeeps == ASSUME RollupIInv, RecordAndCrash PROVE RollupIInv'
<1>0. RollupTypeOK
  BY DEF RollupIInv
<1>1. PICK c \in exists, s \in 1..day, k \in Queued : \E d \in s..day : Insert(c, d, k)
  BY DEF RecordAndCrash
<1>2. UNCHANGED <<day, exists, pending, gone, stat, run, events, historyVars>>
  BY DEF RecordAndCrash
<1>3. c \in Cards /\ crashes' \in Nat
  BY <1>0, RollupBounds DEF RecordAndCrash
<1>4. TablesMoveOn
  BY <1>0, <1>1, <1>2, <1>3, InsertMovesOn, RollupBounds
<1> QED
  BY <1>0, <1>2, <1>3, <1>4, TablesStepKeeps, RollupBounds

(* Midnight only begins another day.                                       *)
LEMMA MidnightKeeps == ASSUME RollupIInv, Midnight PROVE RollupIInv'
<1>0. RollupTypeOK
  BY DEF RollupIInv
<1>1. /\ day' = day + 1 /\ day < MaxDay
      /\ UNCHANGED <<exists, pending, made, gone, events, stat, run, crashes, historyVars>>
  BY DEF Midnight, visitVars
<1>2. TablesMoveOn
  BY <1>0, <1>1, UnchangedMovesOn
<1>3. RollupFacts'
  BY <1>1, <1>2, MovingOnKeeps DEF historyVars
<1>4. day \in Nat /\ day' \in Days /\ day <= day'
  BY <1>0, <1>1, BoundsAssumption DEF RollupTypeOK, Days
<1>5. \A r \in Runners : run[r].day <= day' /\ Len(run[r].counts) <= Len(Columns)
  <2>1. \A r \in Runners : run[r].day \in Int /\ run[r].day <= day
    BY <1>0, RunFields DEF Running, Days
  <2> QED
    BY <1>0, <1>4, <2>1 DEF RollupTypeOK
<1>6. RollupTypeOK'
  BY <1>0, <1>1, <1>4, <1>5 DEF RollupTypeOK, historyVars, Days
<1> QED
  BY <1>3, <1>6 DEF RollupIInv

LEMMA RollupStutterKeeps == ASSUME RollupIInv, UNCHANGED rollupVars PROVE RollupIInv'
<1>0. RollupTypeOK
  BY DEF RollupIInv
<1>1. UNCHANGED <<day, exists, pending, made, gone, events, stat, run, crashes, historyVars>>
  BY DEF rollupVars, visitVars
<1>2. TablesMoveOn
  BY <1>0, <1>1, UnchangedMovesOn
<1> QED
  BY <1>0, <1>1, <1>2, TablesStepKeeps, RollupBounds

-----------------------------------------------------------------------------
(* aggregate_analytics.                                                    *)

(* A runner that does not move keeps what it knows.                         *)
LEMMA OthersKeep ==
    ASSUME RollupFacts, NEW q \in Runners, Running(q), run'[q] = run[q],
           UNCHANGED <<made, gone>>
    PROVE  BaseNotAfter(q)' /\ CountsInBetween(q)'
<1>1. BaseNotAfter(q) /\ CountsInBetween(q)
  BY DEF RollupFacts, RunsAreOfTables
<1>2. Turn(q)' = Turn(q)
  BY TurnStays
<1> QED
  BY <1>1, <1>2 DEF BaseNotAfter, CountsInBetween, Found

(* A run that ends, done, failed or killed, takes no row with it.           *)
LEMMA EndKeeps ==
    ASSUME RollupIInv, NEW r \in Runners, run' = [run EXCEPT ![r] = NoRun],
           crashes' \in Nat, UNCHANGED <<day, visitVars, stat, historyVars>>
    PROVE  RollupIInv'
<1>0. RollupTypeOK /\ RollupFacts
  BY DEF RollupIInv
<1>1. UNCHANGED <<day, exists, pending, made, gone, events, stat, due, overlapped>>
  BY DEF visitVars, historyVars
<1>2. run'[r] = NoRun /\ \A q \in Runners \ {r} : run'[q] = run[q]
  BY <1>0, OneRuns
<1>3. \A q \in Runners : Running(q)' => q # r /\ Running(q) /\ run'[q] = run[q]
  BY <1>0, <1>2, NoRunIsIdle DEF Running
<1>4. RollupTypeOK'
  BY <1>0, <1>1, NoRunIsIdle, RunTyped DEF RollupTypeOK, Days
<1>5. RowsAreOfTables' /\ DiffersOnlyByLate'
  BY <1>0, <1>1 DEF RollupFacts, RowsAreOfTables, DiffersOnlyByLate, Found
<1>6. RunsAreOfTables'
  BY <1>0, <1>1, <1>3, OthersKeep DEF RunsAreOfTables
<1>7. OneRunADay'
  BY <1>0, <1>1, <1>3 DEF RollupFacts, OneRunADay
<1>8. RowsBeforeRun'
  BY <1>0, <1>1, <1>3 DEF RollupFacts, RowsBeforeRun
<1> QED
  BY <1>4, <1>5, <1>6, <1>7, <1>8 DEF RollupIInv, RollupFacts

LEMMA FinishRunKeeps ==
    ASSUME RollupIInv, NEW r \in Runners, FinishRun(r) \/ KillRun(r)
    PROVE  RollupIInv'
<1>1. /\ run' = [run EXCEPT ![r] = NoRun] /\ crashes' \in {crashes, crashes + 1}
      /\ UNCHANGED <<day, visitVars, stat, historyVars>>
  BY DEF FinishRun, KillRun
<1>2. crashes' \in Nat
  BY <1>1 DEF RollupIInv, RollupTypeOK
<1> QED
  BY <1>1, <1>2, EndKeeps

LEMMA StartRunKeeps ==
    ASSUME RollupIInv, NEW r \in Runners, StartRun(r)
    PROVE  RollupIInv'
<1> DEFINE base == [c \in Cards |-> Found(c, day)]
<1> DEFINE x == Run(day, Viewed(day), <<>>, base)
<1>0. RollupTypeOK /\ RollupFacts
  BY DEF RollupIInv
<1>1. /\ run' = [run EXCEPT ![r] = x] /\ ~Running(r)
      /\ overlapped' = IF \E q \in Runners : Running(q) /\ run[q].day = day
                       THEN overlapped \cup {day} ELSE overlapped
      /\ UNCHANGED <<day, exists, pending, made, gone, events, stat, crashes, due>>
  BY DEF StartRun, visitVars
<1>2. day \in Days /\ day # 0 /\ day <= day
  BY <1>0 DEF RollupTypeOK, Days
<1>3. base \in [Cards -> Looks] /\ \A c \in Cards : base[c] = Found(c, day)
  BY <1>0, <1>2, TablesTyped
<1>4. /\ x.day = day /\ x.counts = <<>> /\ x.base = base /\ x.todo \in SUBSET Cards
      /\ x \in Runs
  BY <1>0, <1>2, <1>3 DEF Run, Runs, Viewed, RollupTypeOK
<1> HIDE DEF x, base
<1>5. run'[r] = x /\ \A q \in Runners \ {r} : run'[q] = run[q]
  BY <1>0, <1>1, OneRuns
<1>6. RollupTypeOK'
  <2>1. Len(x.counts) <= Len(Columns)
    BY <1>4, ColumnsAreColumn
  <2>2. overlapped' \subseteq Days
    BY <1>0, <1>1, <1>2 DEF RollupTypeOK
  <2> QED
    BY <1>0, <1>1, <1>2, <1>4, <2>1, <2>2, RunTyped DEF RollupTypeOK, Days
<1>7. overlapped \subseteq overlapped' /\ overlapped' \subseteq overlapped \cup {day}
  BY <1>1
<1>8. RowsAreOfTables'
  BY <1>0, <1>1 DEF RollupFacts, RowsAreOfTables, Found
<1>9. DiffersOnlyByLate'
  BY <1>0, <1>1, <1>7 DEF RollupFacts, DiffersOnlyByLate, Found
<1>10. \A q \in Runners : q # r => (Running(q)' <=> Running(q))
  BY <1>5 DEF Running
<1>11. RunsAreOfTables'
  <2> SUFFICES ASSUME NEW q \in Runners, Running(q)'
               PROVE  BaseNotAfter(q)' /\ CountsInBetween(q)'
    BY DEF RunsAreOfTables
  <2>1. CASE q # r
    BY <1>0, <1>1, <1>5, <1>10, <2>1, OthersKeep
  <2>2. CASE q = r
    <3>1. \A c \in Cards : NotAfter(base[c], Found(c, day))
      BY <1>0, <1>2, <1>3, TablesTyped DEF NotAfter, Looks, Counters
    <3>2. BaseNotAfter(r)'
      BY <1>1, <1>4, <1>5, <3>1 DEF BaseNotAfter, Found
    <3>3. CountsInBetween(r)'
      BY <1>4, <1>5 DEF CountsInBetween
    <3> QED
      BY <2>2, <3>2, <3>3
  <2> QED
    BY <2>1, <2>2
<1>12. OneRunADay'
  <2> SUFFICES ASSUME NEW p \in Runners, NEW q \in Runners, Running(p)', Running(q)', p # q,
                      run'[p].day = run'[q].day
               PROVE  run'[p].day \in overlapped'
    BY DEF OneRunADay
  <2>1. CASE p # r /\ q # r
    BY <1>0, <1>5, <1>7, <1>10, <2>1 DEF RollupFacts, OneRunADay
  <2>2. CASE p = r \/ q = r
    <3>1. PICK s \in Runners : s # r /\ Running(s) /\ run[s].day = day /\ run'[p].day = day
      BY <1>4, <1>5, <1>10, <2>2
    <3> QED
      BY <1>1, <3>1
  <2> QED
    BY <2>1, <2>2
<1>13. RowsBeforeRun'
  <2> SUFFICES ASSUME NEW q \in Runners, Running(q)', run'[q].day \notin overlapped',
                      NEW c \in Cards, due[c][run'[q].day] # NoRow
               PROVE  /\ NotAfter(due[c][run'[q].day], run'[q].base[c])
                      /\ c \in run'[q].todo => \A k \in Column :
                            CountedBetween(stat[c][run'[q].day][k], due[c][run'[q].day],
                                           run'[q].base[c], k)
    BY <1>1 DEF RowsBeforeRun
  <2>1. CASE q # r
    BY <1>0, <1>5, <1>7, <1>10, <2>1 DEF RollupFacts, RowsBeforeRun
  <2>2. CASE q = r
    <3>1. run'[q].day = day /\ run'[q].base[c] = Found(c, day) /\ day \notin overlapped
      BY <1>3, <1>4, <1>5, <1>7, <2>2
    <3>2. NotAfter(due[c][day], Found(c, day))
      BY <1>0, <1>2, <3>1 DEF RollupFacts, RowsAreOfTables
    <3>3. \A k \in Column : CountedBetween(stat[c][day][k], due[c][day], Found(c, day), k)
      BY <1>0, <1>2, <3>1 DEF RollupFacts, DiffersOnlyByLate
    <3> QED
      BY <3>1, <3>2, <3>3
  <2> QED
    BY <2>1, <2>2
<1> QED
  BY <1>6, <1>8, <1>9, <1>11, <1>12, <1>13 DEF RollupIInv, RollupFacts

LEMMA CountColumnKeeps ==
    ASSUME RollupIInv, NEW r \in Runners, CountColumn(r)
    PROVE  RollupIInv'
<1> DEFINE k == Columns[Len(run[r].counts) + 1]
<1> DEFINE n == Raw(Turn(r), run[r].day)[k]
<1> DEFINE x == Run(run[r].day, run[r].todo, Append(run[r].counts, n), run[r].base)
<1>0. RollupTypeOK /\ RollupFacts
  BY DEF RollupIInv
<1>1. /\ run[r].todo # {} /\ Len(run[r].counts) < Len(Columns)
      /\ run' = [run EXCEPT ![r] = x]
      /\ UNCHANGED <<day, exists, pending, made, gone, events, stat, crashes, due, overlapped>>
  BY DEF CountColumn, CountOn, visitVars, historyVars
<1>2. /\ Running(r) /\ run[r].day \in Days /\ run[r].day <= day /\ run[r].todo \in SUBSET Cards
      /\ run[r].counts \in Seq(Nat) /\ Len(run[r].counts) \in Nat
      /\ run[r].base \in [Cards -> Looks]
  BY <1>0, <1>1, RunFields
<1>3. k \in Column /\ Turn(r) \in Cards /\ Turn(r) \in run[r].todo
  <2>1. Len(run[r].counts) + 1 \in 1..Len(Columns)
    <3>1. Len(run[r].counts) < Len(Columns)
      BY <1>1
    <3>2. Len(run[r].counts) \in Nat /\ Len(Columns) \in Nat
      BY <1>2, ColumnsAreColumn
    <3> QED
      BY <3>1, <3>2
  <2> QED
    BY <1>0, <1>1, <2>1, ColumnsAreColumn, TurnIsTodo
<1>4. n \in Nat
  BY <1>0, <1>2, <1>3, TablesTyped
<1>5. /\ x.day = run[r].day /\ x.todo = run[r].todo /\ x.base = run[r].base
      /\ x.counts = Append(run[r].counts, n)
  BY DEF Run
<1> HIDE DEF x, n, k
<1>6. /\ x.counts \in Seq(Nat) /\ Len(x.counts) = Len(run[r].counts) + 1
      /\ \A i \in 1..Len(run[r].counts) : x.counts[i] = run[r].counts[i]
      /\ x.counts[Len(run[r].counts) + 1] = n
  BY <1>2, <1>4, <1>5
<1>7. x \in Runs
  <2>1. x = Run(x.day, x.todo, x.counts, x.base)
    BY DEF Run, x
  <2> QED
    BY <1>2, <1>5, <1>6, <2>1 DEF Run, Runs
<1>8. run'[r] = x /\ \A q \in Runners \ {r} : run'[q] = run[q]
  BY <1>0, <1>1, OneRuns
<1>9. RollupTypeOK'
  <2>1. Len(x.counts) <= Len(Columns) /\ x.day <= day
    BY <1>1, <1>2, <1>5, <1>6, ColumnsAreColumn
  <2> QED
    BY <1>0, <1>1, <1>7, <2>1, RunTyped DEF RollupTypeOK, Days
<1>10. \A q \in Runners : /\ Running(q)' <=> Running(q)
                         /\ run'[q].day = run[q].day /\ run'[q].base = run[q].base
                         /\ run'[q].todo = run[q].todo
  BY <1>5, <1>8 DEF Running
<1>11. (RowsAreOfTables /\ DiffersOnlyByLate)'
  BY <1>0, <1>1 DEF RollupFacts, RowsAreOfTables, DiffersOnlyByLate, Found
<1>12. (OneRunADay /\ RowsBeforeRun)'
  BY <1>0, <1>1, <1>10 DEF RollupFacts, OneRunADay, RowsBeforeRun
<1>13. RunsAreOfTables'
  <2> SUFFICES ASSUME NEW q \in Runners, Running(q)
               PROVE  BaseNotAfter(q)' /\ CountsInBetween(q)'
    BY <1>10 DEF RunsAreOfTables
  <2>1. CASE q # r
    BY <1>0, <1>1, <1>8, <2>1, OthersKeep
  <2>2. CASE q = r
    <3>1. BaseNotAfter(r) /\ CountsInBetween(r)
      BY <1>0, <1>2 DEF RollupFacts, RunsAreOfTables
    <3>2. BaseNotAfter(r)'
      BY <1>1, <1>5, <1>8, <3>1 DEF BaseNotAfter, Found
    <3>3. Turn(r)' = Turn(r)
      BY <1>5, <1>8, TurnStays
    <3>4. CountsInBetween(r)'
      <4> SUFFICES ASSUME NEW i \in 1..Len(x.counts)
                   PROVE  CountedBetween(x.counts[i], run[r].base[Turn(r)],
                                         Found(Turn(r), run[r].day), Columns[i])
        BY <1>1, <1>5, <1>8, <3>3 DEF CountsInBetween, Found
      <4>1. CASE i \in 1..Len(run[r].counts)
        BY <1>1, <1>6, <3>1, <4>1 DEF CountsInBetween
      <4>2. CASE i = Len(run[r].counts) + 1
        <5>1. Columns[i] = k /\ x.counts[i] = n
          BY <1>6, <4>2 DEF k
        <5>2. NotAfter(run[r].base[Turn(r)], Found(Turn(r), run[r].day))
          BY <1>3, <3>1 DEF BaseNotAfter
        <5>3. run[r].base[Turn(r)] \in Looks
          BY <1>2, <1>3
        <5>4. n = Raw(Turn(r), run[r].day)[k]
          BY DEF n
        <5>5. CountedBetween(n, run[r].base[Turn(r)], Found(Turn(r), run[r].day), k)
          BY <1>0, <1>2, <1>3, <5>2, <5>3, <5>4, NowIsBetween
        <5> QED
          BY <5>1, <5>5
      <4>3. i \in 1..Len(run[r].counts) \/ i = Len(run[r].counts) + 1
        BY <1>2, <1>6
      <4> QED
        BY <4>1, <4>2, <4>3
    <3> QED
      BY <2>2, <3>2, <3>4
  <2> QED
    BY <2>1, <2>2
<1> QED
  BY <1>9, <1>11, <1>12, <1>13 DEF RollupIInv, RollupFacts

(* What a finished count says of the card: a number the table went through   *)
(* since the run began, and no more than was ever made.                     *)
LEMMA CountedIsBetween ==
    ASSUME RollupIInv, NEW r \in Runners, run[r].todo # {},
           Len(run[r].counts) = Len(Columns)
    PROVE  /\ Counted(r) \in Counters
           /\ \A k \in Column :
                 /\ CountedBetween(Counted(r)[k], run[r].base[Turn(r)],
                                   Found(Turn(r), run[r].day), k)
                 /\ Counted(r)[k] <= made[Turn(r)][run[r].day][k]
<1>0. RollupTypeOK
  BY DEF RollupIInv
<1>1. /\ Running(r) /\ run[r].counts \in Seq(Nat) /\ Turn(r) \in Cards
      /\ run[r].day \in Days /\ run[r].base[Turn(r)] \in Looks
  BY <1>0, RunFields, TurnIsTodo
<1>2. CountsInBetween(r)
  BY <1>1 DEF RollupIInv, RollupFacts, RunsAreOfTables
<1>3. ASSUME NEW k \in Column
      PROVE  /\ Counted(r)[k] \in Nat
             /\ CountedBetween(Counted(r)[k], run[r].base[Turn(r)],
                               Found(Turn(r), run[r].day), k)
             /\ Counted(r)[k] <= made[Turn(r)][run[r].day][k]
  <2> DEFINE i == CHOOSE j \in DOMAIN Columns : Columns[j] = k
  <2>1. i \in 1..Len(run[r].counts) /\ Columns[i] = k
    BY ColumnsAreColumn
  <2>2. Counted(r)[k] = run[r].counts[i]
    BY DEF Counted
  <2> HIDE DEF i
  <2>3. Counted(r)[k] \in Nat
    BY <1>1, <2>1, <2>2
  <2>4. CountedBetween(Counted(r)[k], run[r].base[Turn(r)], Found(Turn(r), run[r].day), k)
    BY <1>2, <2>1, <2>2 DEF CountsInBetween
  <2>5. /\ run[r].base[Turn(r)].gone[k] \in Nat
        /\ Found(Turn(r), run[r].day).made[k] = made[Turn(r)][run[r].day][k]
        /\ made[Turn(r)][run[r].day][k] \in Nat
    BY <1>0, <1>1, TablesTyped DEF Looks, Counters
  <2> QED
    BY <2>3, <2>4, <2>5 DEF CountedBetween
<1> QED
  BY <1>3 DEF Counted, Counters

LEMMA SaveStatKeeps ==
    ASSUME RollupIInv, NEW r \in Runners, SaveStat(r)
    PROVE  RollupIInv'
<1>0. RollupTypeOK /\ RollupFacts
  BY DEF RollupIInv
<1>1. CASE Turn(r) \notin exists
  <2>1. /\ run' = [run EXCEPT ![r] = NoRun]
        /\ UNCHANGED <<day, visitVars, crashes, stat, due, overlapped>>
    BY <1>1 DEF SaveStat
  <2>2. crashes' \in Nat
    BY <1>0, <2>1 DEF RollupTypeOK
  <2> QED
    BY <2>1, <2>2, EndKeeps DEF historyVars
<1>2. CASE Turn(r) \in exists
  <2> DEFINE c == Turn(r)
  <2> DEFINE d == run[r].day
  <2> DEFINE new == Counted(r)
  <2> DEFINE base == run[r].base[c]
  <2> DEFINE newest == Newest(due[c][d], base)
  <2> DEFINE x == Run(d, run[r].todo \ {c}, <<>>, run[r].base)
  <2>1. /\ run[r].todo # {} /\ Len(run[r].counts) = Len(Columns)
        /\ stat' = [stat EXCEPT ![c] = [stat[c] EXCEPT ![d] = new]]
        /\ due' = [due EXCEPT ![c] = [due[c] EXCEPT ![d] = newest]]
        /\ run' = [run EXCEPT ![r] = x]
        /\ UNCHANGED <<day, exists, pending, made, gone, events, crashes, overlapped>>
    BY <1>2 DEF SaveStat, RowAfter, visitVars
  <2>2. /\ Running(r) /\ d \in Days /\ d <= day /\ run[r].todo \in SUBSET Cards
        /\ run[r].base \in [Cards -> Looks]
    BY <1>0, <2>1, RunFields
  <2>3. c \in Cards /\ base \in Looks
    BY <1>0, <2>1, <2>2, TurnIsTodo
  <2>4. /\ new \in Counters
        /\ \A k \in Column : /\ CountedBetween(new[k], base, Found(c, d), k)
                            /\ new[k] <= made[c][d][k] /\ new[k] \in Nat
    BY <2>1, CountedIsBetween DEF Counters
  <2>5. /\ stat \in [Cards -> [Days -> StatRow]]
        /\ due \in [Cards -> [Days -> Looks \cup {NoRow}]]
    BY <1>0 DEF RollupTypeOK
  <2>6. /\ due[c][d] # NoRow => due[c][d] \in Looks
        /\ Found(c, d) \in Looks /\ NotAfter(base, Found(c, d))
        /\ due[c][d] # NoRow => NotAfter(due[c][d], Found(c, d))
    <3>1. BaseNotAfter(r)
      BY <1>0, <2>2 DEF RollupFacts, RunsAreOfTables
    <3> QED
      BY <1>0, <2>2, <2>3, <3>1, TablesTyped DEF BaseNotAfter, RollupFacts, RowsAreOfTables
  <2>7. /\ newest \in Looks
        /\ newest = base \/ (due[c][d] # NoRow /\ newest = due[c][d])
    BY <2>3, <2>6, NewestIsEither
  <2>8. /\ x.day = d /\ x.counts = <<>> /\ x.base = run[r].base /\ x \in Runs
        /\ x.todo = run[r].todo \ {c} /\ Len(x.counts) <= Len(Columns)
    BY <2>2, ColumnsAreColumn DEF Run, Runs
  <2> HIDE DEF c, d, new, base, newest, x
  <2>9. /\ stat'[c][d] = new /\ due'[c][d] = newest
        /\ \A b \in Cards, e \in Days : b # c \/ e # d =>
              stat'[b][e] = stat[b][e] /\ due'[b][e] = due[b][e]
    BY <2>1, <2>2, <2>3, <2>5
  <2>10. run'[r] = x /\ \A q \in Runners \ {r} : run'[q] = run[q]
    BY <1>0, <2>1, OneRuns
  <2>11. \A q \in Runners : /\ Running(q)' <=> Running(q)
                           /\ run'[q].day = run[q].day /\ run'[q].base = run[q].base
                           /\ run'[q].todo \subseteq run[q].todo
    BY <2>8, <2>10 DEF Running, d
  <2>12. new # NoRow /\ newest # NoRow
    BY <2>4, <2>7, NoRowIsNoRow
  <2>13. RollupTypeOK'
    <3>1. new \in StatRow
      BY <2>4 DEF StatRow
    <3>2. /\ stat' \in [Cards -> [Days -> StatRow]]
          /\ due' \in [Cards -> [Days -> Looks \cup {NoRow}]]
      BY <2>1, <2>2, <2>3, <2>5, <2>7, <3>1
    <3> QED
      BY <1>0, <2>1, <2>2, <2>8, <3>2, RunTyped DEF RollupTypeOK, Days
  <2>14. RowsAreOfTables'
    <3> SUFFICES ASSUME NEW b \in Cards, NEW e \in Days
                 PROVE  /\ stat'[b][e] # NoRow <=> due'[b][e] # NoRow
                        /\ stat'[b][e] # NoRow =>
                              \A k \in Column : stat'[b][e][k] <= made[b][e][k]
                        /\ due'[b][e] # NoRow => NotAfter(due'[b][e], Found(b, e))
      BY <2>1 DEF RowsAreOfTables, Found
    <3>1. CASE b = c /\ e = d
      <4>1. NotAfter(newest, Found(c, d))
        BY <2>6, <2>7
      <4> QED
        BY <2>4, <2>9, <2>12, <3>1, <4>1
    <3>2. CASE b # c \/ e # d
      BY <1>0, <2>9, <3>2 DEF RollupFacts, RowsAreOfTables
    <3> QED
      BY <3>1, <3>2
  <2>15. RunsAreOfTables'
    <3> SUFFICES ASSUME NEW q \in Runners, Running(q)
                 PROVE  BaseNotAfter(q)' /\ CountsInBetween(q)'
      BY <2>11 DEF RunsAreOfTables
    <3>1. CASE q # r
      BY <1>0, <2>1, <2>10, <3>1, OthersKeep
    <3>2. CASE q = r
      <4>1. BaseNotAfter(r)
        BY <1>0, <2>2 DEF RollupFacts, RunsAreOfTables
      <4>2. BaseNotAfter(r)'
        BY <2>1, <2>11, <4>1 DEF BaseNotAfter, Found
      <4>3. CountsInBetween(r)'
        BY <2>8, <2>10 DEF CountsInBetween
      <4> QED
        BY <3>2, <4>2, <4>3
    <3> QED
      BY <3>1, <3>2
  <2>16. OneRunADay'
    BY <1>0, <2>1, <2>11 DEF RollupFacts, OneRunADay
  <2>17. d \notin overlapped => NotAfter(newest, base)
    <3> SUFFICES ASSUME d \notin overlapped PROVE NotAfter(newest, base)
      OBVIOUS
    <3>1. NotAfter(base, base)
      BY <2>3 DEF NotAfter, Looks, Counters
    <3>2. due[c][d] # NoRow => NotAfter(due[c][d], base)
      BY <1>0, <2>2, <2>3 DEF RollupFacts, RowsBeforeRun, d, base
    <3> QED
      BY <2>7, <3>1, <3>2
  <2>18. RowsBeforeRun'
    <3> SUFFICES ASSUME NEW q \in Runners, Running(q), run[q].day \notin overlapped,
                        NEW b \in Cards, due'[b][run[q].day] # NoRow
                 PROVE  /\ NotAfter(due'[b][run[q].day], run[q].base[b])
                        /\ b \in run'[q].todo => \A k \in Column :
                              CountedBetween(stat'[b][run[q].day][k], due'[b][run[q].day],
                                             run[q].base[b], k)
      BY <2>1, <2>11 DEF RowsBeforeRun
    <3>1. run[q].day \in Days
      BY <1>0, RunFields
    <3>2. CASE b # c \/ run[q].day # d
      BY <1>0, <2>9, <2>11, <3>1, <3>2 DEF RollupFacts, RowsBeforeRun
    <3>3. CASE b = c /\ run[q].day = d
      <4>1. q = r
        BY <1>0, <2>2, <3>3 DEF RollupFacts, OneRunADay, d
      <4>2. run[q].base[b] = base /\ b \notin run'[q].todo
        BY <2>8, <2>10, <3>3, <4>1 DEF base
      <4> QED
        BY <2>9, <2>17, <3>3, <4>2
    <3> QED
      BY <3>2, <3>3
  <2>19. DiffersOnlyByLate'
    <3> SUFFICES ASSUME NEW b \in Cards, NEW e \in Days \ overlapped, due'[b][e] # NoRow
                 PROVE  /\ stat'[b][e] # NoRow
                        /\ \A k \in Column :
                              CountedBetween(stat'[b][e][k], due'[b][e], Found(b, e), k)
      BY <2>1 DEF DiffersOnlyByLate, Found
    <3>1. CASE b # c \/ e # d
      BY <1>0, <2>9, <3>1 DEF RollupFacts, DiffersOnlyByLate
    <3>2. CASE b = c /\ e = d
      <4>1. \A k \in Column : CountedBetween(new[k], newest, Found(c, d), k)
        BY <2>3, <2>4, <2>6, <2>7, <2>17, <3>2, EarlierIsWider
      <4> QED
        BY <2>9, <2>12, <3>2, <4>1
    <3> QED
      BY <3>1, <3>2
  <2> QED
    BY <2>13, <2>14, <2>15, <2>16, <2>18, <2>19 DEF RollupIInv, RollupFacts
<1> QED
  BY <1>1, <1>2

-----------------------------------------------------------------------------
(* The invariant holds of every state of the events and their rollup.       *)
THEOREM RollupInvariance == RollupSpec => []RollupIInv
<1>1. RollupInit => RollupIInv
  BY RollupInitially
<1>2. RollupIInv /\ [RollupNext]_rollupVars => RollupIInv'
  <2> SUFFICES ASSUME RollupIInv, [RollupNext]_rollupVars PROVE RollupIInv'
    OBVIOUS
  <2>1. CASE Visit
    BY <2>1, VisitKeeps
  <2>2. CASE EnquireOrBook
    BY <2>2, EnquireOrBookKeeps
  <2>3. CASE DeleteRows
    BY <2>3, DeleteRowsKeeps
  <2>4. CASE DeleteCard
    BY <2>4, DeleteCardKeeps
  <2>5. CASE ReinsertCard
    BY <2>5, ReinsertCardKeeps
  <2>6. CASE Midnight
    BY <2>6, MidnightKeeps
  <2>7. CASE RecordEvent
    BY <2>7, RecordEventKeeps
  <2>8. CASE RecordAndCrash
    BY <2>8, RecordAndCrashKeeps
  <2>9. ASSUME NEW r \in Runners, RunStep(r) \/ KillRun(r) PROVE RollupIInv'
    BY <2>9, StartRunKeeps, CountColumnKeeps, SaveStatKeeps, FinishRunKeeps DEF RunStep
  <2>10. CASE UNCHANGED rollupVars
    BY <2>10, RollupStutterKeeps
  <2> QED
    BY <2>1, <2>2, <2>3, <2>4, <2>5, <2>6, <2>7, <2>8, <2>9, <2>10 DEF RollupNext
<1> QED
  BY <1>1, <1>2, PTL DEF RollupSpec

(* Tables, rows and runs stay well formed: no row is deleted that was not    *)
(* made, and no run works on a day to come (apps/analytics).                *)
THEOREM RollupTypeCorrect == RollupSpec => []RollupTypeOK
<1>1. RollupIInv => RollupTypeOK
  BY DEF RollupIInv
<1> QED
  BY <1>1, RollupInvariance, PTL

(* A row differs from the tables only by what came or went after the newest  *)
(* run that saved it had started: for any number of workers running          *)
(* aggregate_analytics, killed, delivered again, or late across midnight, on *)
(* every day no two of them shared, whatever is deleted meanwhile.          *)
THEOREM RowsDifferOnlyByLate == RollupSpec => []DiffersOnlyByLate
<1>1. RollupIInv => DiffersOnlyByLate
  BY DEF RollupIInv, RollupFacts
<1> QED
  BY <1>1, RollupInvariance, PTL

-----------------------------------------------------------------------------
(* What a reader of the dashboard sees of these rows.                      *)

QuietRowsAreExact ==
    \A c \in Cards, d \in Days \ overlapped :
        due[c][d] = Found(c, d) => stat[c][d] = Raw(c, d)

(* A row is exact if nothing was made or deleted since the newest run that   *)
(* saved it began: on a day no two runs of aggregate_analytics shared, one   *)
(* run begun after the last event and the last deletion repairs whatever     *)
(* earlier runs missed or counted too much.                                 *)
THEOREM QuietDaysAreExact == RollupSpec => []QuietRowsAreExact
<1>1. RollupIInv => QuietRowsAreExact
  <2> SUFFICES ASSUME RollupIInv, NEW c \in Cards, NEW d \in Days \ overlapped,
                      due[c][d] = Found(c, d)
               PROVE  stat[c][d] = Raw(c, d)
    BY DEF QuietRowsAreExact
  <2>0. RollupTypeOK
    BY DEF RollupIInv
  <2>1. Found(c, d) \in Looks
    BY <2>0, TablesTyped
  <2>2. due[c][d] # NoRow
    BY <2>1, NoRowIsNoRow
  <2>3. /\ stat[c][d] # NoRow
        /\ \A k \in Column : CountedBetween(stat[c][d][k], Found(c, d), Found(c, d), k)
    BY <2>2 DEF RollupIInv, RollupFacts, DiffersOnlyByLate
  <2>4. stat[c][d] \in Counters
    BY <2>0, <2>3, TablesTyped
  <2>5. ASSUME NEW k \in Column PROVE stat[c][d][k] = Raw(c, d)[k]
    <3>1. /\ Found(c, d).made[k] = made[c][d][k] /\ Found(c, d).gone[k] = gone[c][d][k]
          /\ made[c][d][k] \in Nat /\ gone[c][d][k] \in Nat
          /\ Raw(c, d)[k] = made[c][d][k] - gone[c][d][k]
      BY <2>0, TablesTyped
    <3>2. stat[c][d][k] \in Nat
      BY <2>4 DEF Counters
    <3> QED
      BY <2>3, <3>1, <3>2 DEF CountedBetween
  <2> QED
    BY <2>4, <2>5 DEF Counters, Raw
<1> QED
  BY <1>1, RollupInvariance, PTL

(* A period of the dashboard has finitely many days.                        *)
LEMMA PeriodIsFinite ==
    ASSUME NEW n, day \in Days
    PROVE  IsFiniteSet(Period(n)) /\ Period(n) \subseteq Days
<1>1. IsFiniteSet(Days)
  BY BoundsAssumption, FS_Interval DEF Days
<1>2. Period(n) \subseteq Days
  BY DEF Period
<1> QED
  BY <1>1, <1>2, FS_Subset

(* The dashboard never shows more than was ever recorded, over a period of   *)
(* any length, for any number of cards, events, workers, killed tasks and    *)
(* deletions (aggregate_analytics, get_summary).                            *)
THEOREM DashboardNeverOverstates == RollupSpec => []NeverOverstated
<1>1. RollupIInv => NeverOverstated
  <2> SUFFICES ASSUME RollupIInv, NEW c \in Cards, NEW n \in 0..(MaxDay - 1), NEW k \in Column
               PROVE  Summary(c, n, k) <= SumFunctionOnSet(EverMade(c, k), Period(n))
    BY DEF NeverOverstated
  <2>1. RollupTypeOK /\ day \in Days
    BY DEF RollupIInv, RollupTypeOK
  <2>2. IsFiniteSet(Period(n)) /\ Period(n) \subseteq Days
    BY <2>1, PeriodIsFinite
  <2>3. ASSUME NEW d \in Days
        PROVE  /\ Shown(c, k)[d] \in Nat /\ EverMade(c, k)[d] \in Nat
               /\ Shown(c, k)[d] <= EverMade(c, k)[d]
    <3>1. EverMade(c, k)[d] = made[c][d][k] /\ made[c][d][k] \in Nat
      BY <2>1, TablesTyped DEF EverMade
    <3>2. CASE stat[c][d] = NoRow
      BY <3>1, <3>2 DEF Shown
    <3>3. CASE stat[c][d] # NoRow
      <4>1. stat[c][d][k] \in Nat
        BY <2>1, <3>3, TablesTyped DEF Counters
      <4>2. stat[c][d][k] <= made[c][d][k]
        BY <3>3 DEF RollupIInv, RollupFacts, RowsAreOfTables
      <4> QED
        BY <3>1, <3>3, <4>1, <4>2 DEF Shown
    <3> QED
      BY <3>2, <3>3
  <2> QED
    BY <2>2, <2>3, SumMonotone DEF Summary
<1> QED
  BY <1>1, RollupInvariance, PTL

(* A step leaves the row of a day no two runs shared, for a card still there, *)
(* and takes no more from a number than rows were deleted, and adds no more   *)
(* than were made, since the newest run that had saved it began.            *)
RowsFollowTables ==
    \A c \in exists', d \in Days \ overlapped' : stat[c][d] # NoRow =>
        /\ stat'[c][d] # NoRow
        /\ \A k \in Column :
              /\ stat[c][d][k] - stat'[c][d][k] <= gone[c][d][k] - due[c][d].gone[k]
              /\ stat'[c][d][k] - stat[c][d][k] <= made[c][d][k] - due[c][d].made[k]

(* A row that a step leaves alone.                                          *)
LEMMA RowStays ==
    ASSUME RollupIInv, NEW c \in Cards, NEW d \in Days, stat[c][d] # NoRow,
           stat'[c][d] = stat[c][d], NEW k \in Column
    PROVE  /\ stat[c][d][k] - stat'[c][d][k] <= gone[c][d][k] - due[c][d].gone[k]
           /\ stat'[c][d][k] - stat[c][d][k] <= made[c][d][k] - due[c][d].made[k]
<1>1. RollupTypeOK /\ due[c][d] # NoRow /\ NotAfter(due[c][d], Found(c, d))
  BY DEF RollupIInv, RollupFacts, RowsAreOfTables
<1>2. /\ stat[c][d] \in Counters /\ due[c][d] \in Looks
      /\ Found(c, d).made = made[c][d] /\ Found(c, d).gone = gone[c][d]
      /\ made[c][d][k] \in Nat /\ gone[c][d][k] \in Nat
  BY <1>1, TablesTyped
<1>3. /\ stat[c][d][k] \in Nat
      /\ due[c][d].made[k] \in Nat /\ due[c][d].gone[k] \in Nat
  BY <1>2 DEF Counters, Looks
<1>4. due[c][d].made[k] <= made[c][d][k] /\ due[c][d].gone[k] <= gone[c][d][k]
  BY <1>1, <1>2 DEF NotAfter
<1> QED
  BY <1>2, <1>3, <1>4

LEMMA UnsavedRows ==
    ASSUME RollupIInv, UNCHANGED stat, exists' \subseteq Cards
    PROVE  RowsFollowTables
BY RowStays DEF RowsFollowTables

LEMMA DeleteCardFollows == ASSUME RollupIInv, DeleteCard PROVE RowsFollowTables
<1>1. PICK c \in exists :
          /\ exists' = exists \ {c}
          /\ stat' = [stat EXCEPT ![c] = [d \in Days |-> NoRow]]
  BY DEF DeleteCard
<1>2. exists \subseteq Cards /\ stat \in [Cards -> [Days -> StatRow]]
  BY DEF RollupIInv, RollupTypeOK
<1>3. \A b \in exists' : b \in Cards /\ stat'[b] = stat[b]
  BY <1>1, <1>2
<1> QED
  BY <1>3, RowStays DEF RowsFollowTables

LEMMA SaveStatFollows ==
    ASSUME RollupIInv, NEW r \in Runners, SaveStat(r)
    PROVE  RowsFollowTables
<1>0. RollupTypeOK /\ RollupFacts /\ exists \subseteq Cards
  BY DEF RollupIInv, RollupTypeOK
<1>1. CASE Turn(r) \notin exists
  BY <1>0, <1>1, UnsavedRows DEF SaveStat, visitVars
<1>2. CASE Turn(r) \in exists
  <2> DEFINE c == Turn(r)
  <2> DEFINE d == run[r].day
  <2> DEFINE new == Counted(r)
  <2> DEFINE base == run[r].base[c]
  <2>1. /\ run[r].todo # {} /\ Len(run[r].counts) = Len(Columns)
        /\ stat' = [stat EXCEPT ![c] = [stat[c] EXCEPT ![d] = new]]
        /\ UNCHANGED <<exists, overlapped, made, gone>>
    BY <1>2 DEF SaveStat, RowAfter, visitVars
  <2>2. /\ Running(r) /\ d \in Days /\ c \in run[r].todo /\ c \in Cards
        /\ base \in Looks
    BY <1>0, <2>1, RunFields, TurnIsTodo
  <2>3. /\ new \in Counters
        /\ \A k \in Column : CountedBetween(new[k], base, Found(c, d), k)
    BY <2>1, CountedIsBetween
  <2>4. stat \in [Cards -> [Days -> StatRow]]
    BY <1>0 DEF RollupTypeOK
  <2> HIDE DEF c, new, base, d
  <2>5. /\ stat'[c][d] = new
        /\ \A b \in Cards, e \in Days : b # c \/ e # d => stat'[b][e] = stat[b][e]
    BY <2>1, <2>2, <2>4
  <2> SUFFICES ASSUME NEW b \in Cards, NEW e \in Days \ overlapped, stat[b][e] # NoRow
               PROVE  /\ stat'[b][e] # NoRow
                      /\ \A k \in Column :
                            /\ stat[b][e][k] - stat'[b][e][k] <= gone[b][e][k] - due[b][e].gone[k]
                            /\ stat'[b][e][k] - stat[b][e][k] <= made[b][e][k] - due[b][e].made[k]
    BY <1>0, <2>1 DEF RowsFollowTables
  <2>6. CASE b # c \/ e # d
    BY <2>5, <2>6, RowStays
  <2>7. CASE b = c /\ e = d
    <3>1. due[c][d] # NoRow
      BY <1>0, <2>7 DEF RollupFacts, RowsAreOfTables
    <3>2. \A k \in Column : CountedBetween(stat[c][d][k], due[c][d], base, k)
      BY <1>0, <2>2, <2>7, <3>1 DEF RollupFacts, RowsBeforeRun, d, base
    <3>3. new # NoRow
      BY <2>3, NoRowIsNoRow
    <3>4. ASSUME NEW k \in Column
          PROVE  /\ stat[c][d][k] - new[k] <= gone[c][d][k] - due[c][d].gone[k]
                 /\ new[k] - stat[c][d][k] <= made[c][d][k] - due[c][d].made[k]
      <4>1. /\ stat[c][d][k] \in Nat /\ new[k] \in Nat
            /\ made[c][d][k] \in Nat /\ gone[c][d][k] \in Nat
            /\ due[c][d].made[k] \in Nat /\ due[c][d].gone[k] \in Nat
            /\ base.made[k] \in Nat /\ base.gone[k] \in Nat
            /\ Found(c, d).made[k] = made[c][d][k] /\ Found(c, d).gone[k] = gone[c][d][k]
        BY <1>0, <2>2, <2>3, <2>7, <3>1, TablesTyped DEF Counters, Looks
      <4>2. /\ due[c][d].made[k] - base.gone[k] <= stat[c][d][k]
            /\ stat[c][d][k] <= base.made[k] - due[c][d].gone[k]
        BY <3>2 DEF CountedBetween
      <4>3. /\ base.made[k] - gone[c][d][k] <= new[k]
            /\ new[k] <= made[c][d][k] - base.gone[k]
        BY <2>3, <4>1 DEF CountedBetween
      <4> QED
        BY <4>1, <4>2, <4>3
    <3> QED
      BY <2>5, <2>7, <3>3, <3>4
  <2> QED
    BY <2>6, <2>7
<1> QED
  BY <1>1, <1>2

(* From one hour to the next the dashboard's numbers of a card only follow    *)
(* the tables: a late, killed or redelivered run takes none back but those    *)
(* of deleted rows, on every day no two runs shared (aggregate_analytics).   *)
THEOREM DashboardFollowsTables == RollupSpec => [][RowsFollowTables]_rollupVars
<1>1. RollupIInv /\ RollupIInv' /\ [RollupNext]_rollupVars => [RowsFollowTables]_rollupVars
  <2> SUFFICES ASSUME RollupIInv, RollupIInv', RollupNext PROVE RowsFollowTables
    OBVIOUS
  <2>1. exists' \subseteq Cards
    BY DEF RollupIInv, RollupTypeOK
  <2>2. CASE Visit \/ EnquireOrBook \/ DeleteRows \/ ReinsertCard \/ Midnight
    BY <2>1, <2>2, UnsavedRows DEF Visit, EnquireOrBook, DeleteRows, ReinsertCard, Midnight
  <2>3. CASE DeleteCard
    BY <2>3, DeleteCardFollows
  <2>4. CASE RecordEvent \/ RecordAndCrash
    BY <2>1, <2>4, UnsavedRows DEF RecordEvent, RecordAndCrash
  <2>5. ASSUME NEW r \in Runners, RunStep(r) \/ KillRun(r) PROVE RowsFollowTables
    <3>1. CASE SaveStat(r)
      BY <3>1, SaveStatFollows
    <3>2. CASE StartRun(r) \/ CountColumn(r) \/ FinishRun(r) \/ KillRun(r)
      BY <2>1, <3>2, UnsavedRows DEF StartRun, CountColumn, FinishRun, KillRun
    <3> QED
      BY <2>5, <3>1, <3>2 DEF RunStep
  <2> QED
    BY <2>2, <2>3, <2>4, <2>5 DEF RollupNext
<1> QED
  BY <1>1, RollupInvariance, PTL DEF RollupSpec
=============================================================================
