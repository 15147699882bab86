--------------------------- MODULE NfcCardsProofs ---------------------------
(***************************************************************************)
(* Proofs about NfcCards, for any number of cards, tags, users,            *)
(* organizations, workers and limits.                                      *)
(***************************************************************************)
EXTENDS NfcCards, FiniteSetTheorems, TLAPS

-----------------------------------------------------------------------------
(* The inductive invariant: the properties, and what remains true of the    *)
(* requests under way while cards come, go and come back and tags move.     *)

(* The unique slug column.                                                  *)
SlugsUnique ==
    \A c, d \in VCardIds : Exists(c) /\ Exists(d) /\ vcard[c].slug = vcard[d].slug => c = d

(* No tag points to a card that is gone (the foreign key).                  *)
LinksExist ==
    \A n \in Tags : tag[n].vcard # "none" => tag[n].vcard \in VCardIds /\ Exists(tag[n].vcard)

(* Instructions stay right until the tag is linked elsewhere.               *)
InstructionsHold ==
    \A n \in Tags :
        /\ n \notin relinked /\ handed[n] # "none" => handed[n] = WritePayload(n)
        /\ chip[n] # "none" => chip[n] = handed[n]

(* A row a card has, or may come back with because a PATCH still holds it.  *)
RowOf(c, row) ==
    \/ Exists(c) /\ vcard[c] = row
    \/ \E v \in Workers : req[v].op = "patch" /\ req[v].card = c /\ req[v].row = row

(* ... and there is only one: a card comes back as it was.                  *)
OneRow ==
    \A c \in VCardIds, r, s \in VCard : RowOf(c, r) /\ RowOf(c, s) => r = s

Created(c) == vcard[c] # NotYet

(* What a request that links a tag to a card has read about it.             *)
CardHolds(w) ==
    req[w].card # "none" =>
        /\ Created(req[w].card)
        /\ w \notin lapsed =>
              \A row \in VCard : RowOf(req[w].card, row) => req[w].user \in Party(row)

(* What a request under way has read, and may still rely on.                *)
CopyHolds(w) ==
    /\ req[w].op = "patch" => Created(req[w].card)
    /\ req[w].op \in Transitions =>
          /\ tag[req[w].tag] \in Tag
          /\ req[w].op \notin Linking => req[w].card = "none"
          /\ w \notin stale => tag[req[w].tag].status \in From(req[w].op)
          /\ w \notin stale \cup lapsed => CanSee(req[w].user, req[w].tag)
          /\ CardHolds(w)

CopiesHold == \A w \in Workers : CopyHolds(w)

IInv ==
    /\ TypeOK
    /\ SlugsUnique /\ LinksExist /\ InstructionsHold /\ OneRow /\ CopiesHold
    /\ InUseIsLinked

-----------------------------------------------------------------------------
LEMMA Initially == Init => IInv
<1> SUFFICES ASSUME Init PROVE IInv
  OBVIOUS
<1>1. limit \in [Tenants -> Nat] /\ \A t \in Tenants : limit[t] \in Limits[t]
  BY LimitsAssumption DEF Init, VCardsInit
<1>2. VCardsTypeOK
  BY <1>1 DEF Init, VCardsInit, VCardsTypeOK
<1>3. TypeOK
  BY <1>2 DEF Init, TypeOK
<1>4. SlugsUnique /\ LinksExist /\ InstructionsHold /\ OneRow /\ CopiesHold /\ InUseIsLinked
  BY OwnersAssumption, SlugsAssumption
     DEF Init, VCardsInit, SlugsUnique, LinksExist, InstructionsHold, OneRow, RowOf, CopiesHold,
         CopyHolds, InUseIsLinked, Exists, Tenants, Idle, Unregistered, NotYet, Transitions, Linking,
         Linkable
<1> QED
  BY <1>3, <1>4 DEF IInv

(* The fields of a request under way.                                       *)
LEMMA RequestFields ==
    ASSUME TypeOK, NEW w \in Workers
    PROVE  /\ req[w].op = "create" => req[w].row \in VCard
           /\ req[w].op = "patch" => req[w].card \in VCardIds /\ req[w].row \in VCard
           /\ req[w].op \in Transitions =>
                 /\ req[w].user \in Users /\ req[w].tag \in Tags
                 /\ req[w].card \in VCardIds \cup {"none"}
<1>1. req[w] \in Request \cup {Idle}
  BY DEF TypeOK
<1>2. CASE req[w] \in [op: {"create"}, row: VCard]
  BY <1>2 DEF Transitions, Linking
<1>3. CASE req[w] \in [op: {"patch"}, card: VCardIds, row: VCard]
  BY <1>3 DEF Transitions, Linking
<1>4. CASE req[w] \in [op: Transitions, user: Users, tag: Tags, card: VCardIds \cup {"none"}]
  BY <1>4 DEF Transitions, Linking
<1>5. CASE req[w] = Idle
  BY <1>5 DEF Idle, Transitions, Linking
<1> QED
  BY <1>1, <1>2, <1>3, <1>4, <1>5 DEF Request

(* A worker that is done holds nothing.                                     *)
LEMMA IdleHolds == ASSUME NEW w \in Workers, req'[w] = Idle PROVE CopyHolds(w)'
BY DEF CopyHolds, Idle, Transitions, Linking

(* No card of S gets a row that it did not have.                            *)
RowsStay(S) == \A c \in S, row \in VCard : RowOf(c, row)' => RowOf(c, row)
CreatedCards == {c \in VCardIds : Created(c)}
KeysStay == \A c \in VCardIds : Created(c) => Created(c)'

(* The card of a tag changes only together with the tag.                    *)
LinkStays(n) ==
    tag'[n] = tag[n] /\ (tag[n].vcard # "none" => vcard'[tag[n].vcard] = vcard[tag[n].vcard])

RoleStays(u) == role'[u] = role[u]

(* What a request relies on survives a step of others that marks it when it *)
(* outdates it.                                                             *)
LEMMA CopySurvives ==
    ASSUME IInv, NEW v \in Workers, req'[v] = req[v], RowsStay(CreatedCards), KeysStay,
           req[v].op \in Transitions =>
              /\ tag'[req[v].tag] \in Tag
              /\ v \notin stale' => v \notin stale /\ LinkStays(req[v].tag)
              /\ v \notin lapsed' => v \notin lapsed /\ RoleStays(req[v].user)
    PROVE  CopyHolds(v)'
<1>0. CopyHolds(v) /\ TypeOK
  BY DEF IInv, CopiesHold
<1>1. req[v].op = "patch" => Created(req[v].card)'
  BY <1>0, RequestFields DEF CopyHolds, KeysStay
<1> SUFFICES ASSUME req[v].op \in Transitions
             PROVE  /\ tag'[req[v].tag] \in Tag
                    /\ req[v].op \notin Linking => req[v].card = "none"
                    /\ v \notin stale' => tag'[req[v].tag].status \in From(req[v].op)
                    /\ v \notin stale' \cup lapsed' => CanSee(req[v].user, req[v].tag)'
                    /\ CardHolds(v)'
  BY <1>1 DEF CopyHolds, Transitions, Linking
<1>2. /\ req[v].user \in Users /\ req[v].tag \in Tags /\ tag[req[v].tag] \in Tag
      /\ req[v].card \in VCardIds \cup {"none"}
  BY <1>0, RequestFields DEF CopyHolds
<1>3. ASSUME v \notin stale', v \notin lapsed'
      PROVE  CanSee(req[v].user, req[v].tag)'
  <2> DEFINE u == req[v].user
             n == req[v].tag
  <2>1. CanSee(u, n) /\ LinkStays(n) /\ role'[u] = role[u]
    BY <1>0, <1>3 DEF CopyHolds, RoleStays
  <2>2. tag'[n] # Unregistered
    BY <2>1 DEF CanSee, LinkStays
  <2>3. CASE u \in Staff \cup Buyers(n)
    BY <1>2, <2>1, <2>2, <2>3 DEF CanSee, Buyers
  <2>4. CASE tag[n].vcard # "none" /\ u \in Party(vcard[tag[n].vcard])
    <3>1. tag'[n].vcard # "none" /\ vcard'[tag'[n].vcard] = vcard[tag[n].vcard]
      BY <2>1, <2>4 DEF LinkStays
    <3>2. u \in Party(vcard[tag[n].vcard])'
      BY <1>2, <2>1, <2>4, <3>1 DEF Party, LinkStays
    <3> QED
      BY <2>2, <3>1, <3>2 DEF CanSee
  <2> QED
    BY <2>1, <2>3, <2>4 DEF CanSee
<1>4. CardHolds(v)'
  <2> SUFFICES ASSUME req[v].card # "none"
               PROVE  /\ Created(req[v].card)'
                      /\ v \notin lapsed' =>
                            \A row \in VCard : RowOf(req[v].card, row)' => req[v].user \in Party(row)'
    BY DEF CardHolds
  <2>1. Created(req[v].card) /\ req[v].card \in VCardIds
    BY <1>0, <1>2 DEF CopyHolds, CardHolds
  <2>2. Created(req[v].card)'
    BY <2>1 DEF KeysStay
  <2>3. ASSUME v \notin lapsed', NEW row \in VCard, RowOf(req[v].card, row)'
        PROVE  req[v].user \in Party(row)'
    <3>1. RowOf(req[v].card, row)
      BY <2>1, <2>3 DEF RowsStay, CreatedCards
    <3>2. req[v].user \in Party(row) /\ role'[req[v].user] = role[req[v].user]
      BY <1>0, <2>3, <3>1 DEF CopyHolds, CardHolds, RoleStays
    <3> QED
      BY <1>2, <3>2 DEF Party
  <2> QED
    BY <2>2, <2>3
<1> QED
  BY <1>0, <1>2, <1>3, <1>4 DEF CopyHolds, LinkStays

LEMMA OneRowKeeps == ASSUME IInv, RowsStay(VCardIds) PROVE OneRow'
BY DEF IInv, OneRow, RowsStay

(* A step that changes only requests and roles leaves the rest alone.       *)
LEMMA TablesKeep ==
    ASSUME IInv, UNCHANGED <<vcard, tagVars>>
    PROVE  SlugsUnique' /\ LinksExist' /\ InstructionsHold' /\ InUseIsLinked'
BY DEF IInv, SlugsUnique, LinksExist, InstructionsHold, InUseIsLinked, Exists, WritePayload,
   tagVars

-----------------------------------------------------------------------------
(* Requests that begin, give up or end without changing a tag.              *)

LEMMA BeginKeeps ==
    ASSUME IInv, NEW w \in Workers, NEW r \in Request, req[w] = Idle,
           req' = [req EXCEPT ![w] = r],
           UNCHANGED <<vcardVars, tagVars, stale, lapsed>>, RowsStay(VCardIds), CopyHolds(w)'
    PROVE  IInv'
<1>0. UNCHANGED <<vcard, limit, role, tag, handed, chip, relinked, orphaned, overlapped>>
  BY DEF vcardVars, tagVars
<1>1. req'[w] = r /\ \A v \in Workers \ {w} : req'[v] = req[v]
  BY DEF IInv, TypeOK
<1>2. w \notin stale \cup lapsed
  BY DEF IInv, TypeOK, Idle, Transitions, Linking
<1>3. TypeOK'
  BY <1>0, <1>1, <1>2 DEF IInv, TypeOK, VCardsTypeOK
<1>4. CopiesHold'
  <2> SUFFICES ASSUME NEW v \in Workers \ {w} PROVE CopyHolds(v)'
    BY DEF CopiesHold
  <2>1. KeysStay
    BY <1>0 DEF KeysStay, Created
  <2>2. req[v].op \in Transitions => tag[req[v].tag] \in Tag
    BY DEF IInv, CopiesHold, CopyHolds
  <2> QED
    BY <1>0, <1>1, <2>1, <2>2, CopySurvives DEF LinkStays, RoleStays, RowsStay, CreatedCards
<1> QED
  BY <1>3, <1>4, TablesKeep, OneRowKeeps DEF IInv, vcardVars

LEMMA CreateBeginKeeps == ASSUME IInv, NEW w \in Workers, CreateBegin(w) PROVE IInv'
<1>1. PICK row \in VCard :
        req[w] = Idle /\ req' = [req EXCEPT ![w] = [op |-> "create", row |-> row]]
  BY DEF CreateBegin, Start
<1>2. PICK r : r = [op |-> "create", row |-> row]
  OBVIOUS
<1>3. r \in Request /\ r.op = "create"
  BY <1>2 DEF Request
<1>4. req'[w] = r /\ \A v \in Workers \ {w} : req'[v] = req[v]
  BY <1>1, <1>2 DEF IInv, TypeOK
<1>5. CopyHolds(w)'
  BY <1>3, <1>4 DEF CopyHolds, Transitions, Linking
<1>6. RowsStay(VCardIds)
  BY <1>3, <1>4 DEF RowsStay, RowOf, Exists, CreateBegin, vcardVars
<1> QED
  BY <1>1, <1>2, <1>3, <1>5, <1>6, BeginKeeps DEF CreateBegin, Start

LEMMA PatchBeginKeeps == ASSUME IInv, NEW w \in Workers, PatchBegin(w) PROVE IInv'
<1>1. PICK c \in VCardIds :
        /\ Exists(c) /\ req[w] = Idle
        /\ req' = [req EXCEPT ![w] = [op |-> "patch", card |-> c, row |-> vcard[c]]]
  BY DEF PatchBegin, Start
<1>2. PICK r : r = [op |-> "patch", card |-> c, row |-> vcard[c]]
  OBVIOUS
<1>3. vcard[c] \in VCard /\ Created(c) /\ UNCHANGED vcard
  BY <1>1, OwnersAssumption
     DEF IInv, TypeOK, VCardsTypeOK, Exists, Created, NotYet, Deleted, Tenants, PatchBegin, vcardVars
<1>4. r \in Request /\ r.op = "patch" /\ r.card = c /\ r.row = vcard[c]
  BY <1>2, <1>3 DEF Request
<1>5. req'[w] = r /\ \A v \in Workers \ {w} : req'[v] = req[v]
  BY <1>1, <1>2 DEF IInv, TypeOK
<1>6. CopyHolds(w)'
  BY <1>3, <1>4, <1>5 DEF CopyHolds, Created, Transitions, Linking
<1>7. RowsStay(VCardIds)
  BY <1>1, <1>3, <1>4, <1>5 DEF RowsStay, RowOf, Exists
<1> QED
  BY <1>1, <1>2, <1>4, <1>6, <1>7, BeginKeeps DEF PatchBegin, Start

LEMMA TransitionBeginKeeps == ASSUME IInv, NEW w \in Workers, TransitionBegin(w) PROVE IInv'
<1>1. PICK u \in Users, n \in Tags, op \in Transitions :
        /\ CanSee(u, n)
        /\ tag[n].status \in From(op)
        /\ req[w] = Idle
        /\ req' = [req EXCEPT ![w] = [op |-> op, user |-> u, tag |-> n, card |-> "none"]]
  BY DEF TransitionBegin, Start
<1>2. PICK r : r = [op |-> op, user |-> u, tag |-> n, card |-> "none"]
  OBVIOUS
<1>3. r \in Request /\ r.op = op /\ r.user = u /\ r.tag = n /\ r.card = "none"
  BY <1>2 DEF Request
<1>4. req'[w] = r /\ \A v \in Workers \ {w} : req'[v] = req[v]
  BY <1>1, <1>2 DEF IInv, TypeOK
<1>5. op # "patch" /\ tag[n] \in Tag
  BY <1>1 DEF Transitions, Linking, CanSee, IInv, TypeOK
<1>6. UNCHANGED <<vcard, tag, role>>
  BY DEF TransitionBegin, vcardVars, tagVars
<1>7. CanSee(u, n)'
  BY <1>1, <1>6 DEF CanSee, Buyers, Party
<1>8. CopyHolds(w)'
  BY <1>1, <1>3, <1>4, <1>5, <1>6, <1>7 DEF CopyHolds, CardHolds
<1>9. RowsStay(VCardIds)
  BY <1>3, <1>4, <1>5, <1>6 DEF RowsStay, RowOf, Exists
<1> QED
  BY <1>1, <1>2, <1>3, <1>8, <1>9, BeginKeeps DEF TransitionBegin, Start

LEMMA FindCardKeeps == ASSUME IInv, NEW w \in Workers, FindCard(w) PROVE IInv'
<1>0. /\ req[w].op \in Linking /\ req[w].op \in Transitions /\ req[w].op # "patch"
      /\ req[w].tag \in Tags /\ CopyHolds(w)
      /\ UNCHANGED <<vcard, limit, role, tag, handed, chip, relinked, orphaned, overlapped,
                     stale, lapsed>>
  BY RequestFields DEF FindCard, Transitions, Linking, vcardVars, tagVars, IInv, CopiesHold
<1>1. PICK c \in VCardIds :
        /\ Exists(c) /\ req[w].user \in Party(vcard[c])
        /\ req' = [req EXCEPT ![w].card = c]
  BY DEF FindCard
<1>2. req[w] \in [op: Transitions, user: Users, tag: Tags, card: VCardIds \cup {"none"}]
  BY <1>0 DEF IInv, TypeOK, Request, Idle, Transitions, Linking
<1>3. /\ req'[w] = [req[w] EXCEPT !.card = c]
      /\ \A v \in Workers \ {w} : req'[v] = req[v]
  BY <1>1 DEF IInv, TypeOK
<1>4. /\ req'[w] \in Request /\ req'[w].card = c
      /\ req'[w].op = req[w].op /\ req'[w].user = req[w].user /\ req'[w].tag = req[w].tag
  BY <1>2, <1>3 DEF Request
<1>5. TypeOK'
  <2>1. req' \in [Workers -> Request \cup {Idle}]
    BY <1>1, <1>3, <1>4 DEF IInv, TypeOK
  <2>2. \A v \in stale \cup lapsed : v \in Workers /\ req'[v].op \in Transitions
    BY <1>3, <1>4 DEF IInv, TypeOK
  <2> QED
    BY <1>0, <2>1, <2>2 DEF IInv, TypeOK, VCardsTypeOK
<1>6. RowsStay(VCardIds)
  BY <1>0, <1>3, <1>4 DEF RowsStay, RowOf, Exists
<1>7. KeysStay
  BY <1>0 DEF KeysStay, Created
<1>8. ASSUME NEW v \in Workers \ {w} PROVE CopyHolds(v)'
  <2>1. req[v].op \in Transitions => tag[req[v].tag] \in Tag
    BY DEF IInv, CopiesHold, CopyHolds
  <2> QED
    BY <1>0, <1>3, <1>6, <1>7, <2>1, CopySurvives DEF LinkStays, RoleStays, RowsStay, CreatedCards
<1>9. CopyHolds(w)'
  <2>1. \A u, n : CanSee(u, n)' <=> CanSee(u, n)
    BY <1>0 DEF CanSee, Buyers, Party
  <2>2. Created(c)'
    BY <1>0, <1>1, OwnersAssumption DEF Created, Exists, NotYet, Tenants
  <2>3. \A row : Party(row)' = Party(row)
    BY <1>0 DEF Party
  <2>4. ASSUME NEW row \in VCard, RowOf(c, row)', w \notin lapsed
        PROVE  req[w].user \in Party(row)
    <3>1. RowOf(c, row)
      BY <1>6, <2>4 DEF RowsStay
    <3>2. RowOf(c, vcard[c]) /\ vcard[c] \in VCard
      BY <1>1, OwnersAssumption
         DEF RowOf, IInv, TypeOK, VCardsTypeOK, Exists, NotYet, Deleted, Tenants
    <3> QED
      BY <1>1, <3>1, <3>2 DEF IInv, OneRow
  <2> QED
    BY <1>0, <1>4, <2>1, <2>2, <2>3, <2>4 DEF CopyHolds, CardHolds
<1>10. CopiesHold'
  BY <1>8, <1>9 DEF CopiesHold
<1> QED
  BY <1>0, <1>5, <1>6, <1>10, TablesKeep, OneRowKeeps DEF IInv, tagVars

(* A request that ends marks nobody's copy but of the tag it saved.         *)
LEMMA EndKeepsOthers ==
    ASSUME IInv, NEW w \in Workers, req' = [req EXCEPT ![w] = Idle],
           stale' = stale \ {w}, lapsed' = lapsed \ {w}, UNCHANGED <<tag, role>>,
           \A c \in VCardIds : Exists(c) => vcard'[c] = vcard[c],
           RowsStay(CreatedCards), KeysStay
    PROVE  CopiesHold'
<1> SUFFICES ASSUME NEW v \in Workers PROVE CopyHolds(v)'
  BY DEF CopiesHold
<1>1. req'[w] = Idle /\ \A k \in Workers \ {w} : req'[k] = req[k]
  BY DEF IInv, TypeOK
<1>2. CASE v = w
  BY <1>1, <1>2, IdleHolds
<1>3. CASE v # w
  <2>1. ASSUME req[v].op \in Transitions
        PROVE  tag[req[v].tag] \in Tag /\ LinkStays(req[v].tag)
    <3>1. req[v].tag \in Tags /\ tag[req[v].tag] \in Tag
      BY <2>1, RequestFields DEF IInv, CopiesHold, CopyHolds
    <3> QED
      BY <3>1 DEF LinkStays, IInv, LinksExist
  <2> QED
    BY <1>1, <1>3, <2>1, CopySurvives DEF RoleStays
<1> QED
  BY <1>2, <1>3

(* The types of what a request that ends leaves behind.                     *)
LEMMA EndIsTyped ==
    ASSUME IInv, NEW w \in Workers, NEW outdated, Finish(w, outdated),
           \A v \in outdated : v \in Workers /\ req[v].op \in Transitions
    PROVE  /\ req' \in [Workers -> Request \cup {Idle}]
           /\ \A v \in stale' \cup lapsed' : v \in Workers /\ req'[v].op \in Transitions
           /\ req'[w] = Idle /\ \A v \in Workers \ {w} : req'[v] = req[v]
BY DEF IInv, TypeOK, Finish

LEMMA EndIsPlain ==
    ASSUME IInv, NEW w \in Workers, Finish(w, {})
    PROVE  /\ req' = [req EXCEPT ![w] = Idle] /\ stale' = stale \ {w} /\ lapsed' = lapsed \ {w}
           /\ req'[w] = Idle /\ \A v \in Workers \ {w} : req'[v] = req[v]
           /\ req' \in [Workers -> Request \cup {Idle}]
           /\ \A v \in stale' \cup lapsed' : v \in Workers /\ req'[v].op \in Transitions
<1>1. stale \cup {} = stale
  OBVIOUS
<1>2. req' = [req EXCEPT ![w] = Idle] /\ stale' = stale \ {w} /\ lapsed' = lapsed \ {w}
  BY <1>1 DEF Finish
<1> QED
  BY <1>2 DEF IInv, TypeOK

(* Steps that touch neither cards, tags, roles nor requests.                *)
LEMMA NothingReadChanges ==
    ASSUME IInv, UNCHANGED <<vcard, role, tag, req, stale, lapsed>>
    PROVE  CopiesHold' /\ OneRow'
<1>1. RowsStay(VCardIds) /\ KeysStay
  BY DEF RowsStay, RowOf, Exists, KeysStay, Created
<1>2. ASSUME NEW v \in Workers PROVE CopyHolds(v)'
  <2>1. req[v].op \in Transitions => tag[req[v].tag] \in Tag
    BY DEF IInv, CopiesHold, CopyHolds
  <2> QED
    BY <1>1, <2>1, CopySurvives DEF LinkStays, RoleStays, RowsStay, CreatedCards
<1> QED
  BY <1>1, <1>2, OneRowKeeps DEF CopiesHold

LEMMA AbortKeeps == ASSUME IInv, NEW w \in Workers, Abort(w) PROVE IInv'
<1>0. /\ UNCHANGED <<vcard, limit, role, tag, handed, chip, relinked, orphaned, overlapped>>
      /\ Finish(w, {})
  BY DEF Abort, vcardVars, tagVars
<1>1. /\ req' = [req EXCEPT ![w] = Idle] /\ stale' = stale \ {w} /\ lapsed' = lapsed \ {w}
      /\ req'[w] = Idle /\ \A v \in Workers \ {w} : req'[v] = req[v]
  BY <1>0, EndIsPlain
<1>2. TypeOK'
  BY <1>0, EndIsPlain DEF IInv, TypeOK, VCardsTypeOK
<1>3. RowsStay(VCardIds) /\ KeysStay
  BY <1>0, <1>1 DEF RowsStay, RowOf, Exists, KeysStay, Created, Idle
<1>4. CopiesHold'
  BY <1>0, <1>1, <1>3, EndKeepsOthers DEF RowsStay, CreatedCards
<1> QED
  BY <1>0, <1>2, <1>3, <1>4, TablesKeep, OneRowKeeps DEF IInv, tagVars

(* A card that comes, or comes back, touches no tag and no other card.      *)
LEMMA PutKeeps ==
    ASSUME IInv, NEW c \in VCardIds, NEW row \in VCard, ~Exists(c), PutVCard(c, row),
           UNCHANGED tagVars
    PROVE  /\ \A d \in VCardIds \ {c} : vcard'[d] = vcard[d]
           /\ vcard'[c] = row /\ Exists(c)'
           /\ vcard' \in [VCardIds -> VCard \cup {NotYet, Deleted}]
           /\ SlugsUnique' /\ LinksExist' /\ InstructionsHold' /\ InUseIsLinked'
<1>0. vcard' = [vcard EXCEPT ![c] = row] /\ row.slug \in FreeSlugs
  BY DEF PutVCard
<1>1. /\ \A d \in VCardIds \ {c} : vcard'[d] = vcard[d]
      /\ vcard'[c] = row /\ row.owner \in Users
      /\ vcard' \in [VCardIds -> VCard \cup {NotYet, Deleted}]
  BY <1>0 DEF VCard, IInv, TypeOK, VCardsTypeOK
<1>2. Exists(c)'
  BY <1>1 DEF Exists
<1>3. SlugsUnique'
  BY <1>0, <1>1 DEF IInv, SlugsUnique, Exists, FreeSlugs
<1>4. LinksExist' /\ InUseIsLinked'
  BY <1>1, <1>2 DEF IInv, LinksExist, InUseIsLinked, Exists, tagVars
<1>5. \A n \in Tags : WritePayload(n)' = WritePayload(n)
  BY <1>1 DEF IInv, LinksExist, WritePayload, tagVars
<1>6. InstructionsHold'
  BY <1>5 DEF IInv, InstructionsHold, tagVars
<1> QED
  BY <1>1, <1>2, <1>3, <1>4, <1>6

LEMMA CreateCommitKeeps == ASSUME IInv, NEW w \in Workers, CreateCommit(w) PROVE IInv'
<1>1. /\ req[w].op = "create" /\ req[w].row \in VCard
      /\ InsertVCard(req[w].row) /\ Finish(w, {})
      /\ UNCHANGED <<limit, role, tag, handed, chip, relinked, orphaned, overlapped>>
      /\ UNCHANGED tagVars
  BY RequestFields DEF CreateCommit, tagVars, IInv
<1>2. PICK k \in VCardIds : vcard[k] = NotYet /\ PutVCard(k, req[w].row)
  BY <1>1 DEF InsertVCard
<1>3. ~Exists(k) /\ ~Created(k)
  BY <1>2, OwnersAssumption DEF Exists, NotYet, Tenants, Created
<1>4. /\ \A d \in VCardIds \ {k} : vcard'[d] = vcard[d]
      /\ vcard'[k] = req[w].row /\ Exists(k)'
      /\ vcard' \in [VCardIds -> VCard \cup {NotYet, Deleted}]
      /\ SlugsUnique' /\ LinksExist' /\ InstructionsHold' /\ InUseIsLinked'
  BY <1>1, <1>2, <1>3, PutKeeps
<1>5. /\ req' = [req EXCEPT ![w] = Idle] /\ stale' = stale \ {w} /\ lapsed' = lapsed \ {w}
      /\ req'[w] = Idle /\ \A v \in Workers \ {w} : req'[v] = req[v]
  BY <1>1, EndIsPlain
<1>6. TypeOK'
  BY <1>1, <1>4, EndIsPlain DEF IInv, TypeOK, VCardsTypeOK
<1>7. \A c \in VCardIds \ {k}, row \in VCard : RowOf(c, row)' => RowOf(c, row)
  BY <1>4, <1>5 DEF RowOf, Exists, Idle
<1>8. KeysStay
  BY <1>4, OwnersAssumption DEF KeysStay, Created, Exists, NotYet, Tenants
<1>9. CopiesHold'
  BY <1>1, <1>3, <1>4, <1>5, <1>7, <1>8, EndKeepsOthers DEF RowsStay, CreatedCards
<1>10. OneRow'
  <2>1. ASSUME NEW row, RowOf(k, row)' PROVE row = req[w].row
    <3>1. \A v \in Workers : ~(req[v].op = "patch" /\ req[v].card = k)
      BY <1>3 DEF IInv, CopiesHold, CopyHolds
    <3>2. \A v \in Workers : ~(req'[v].op = "patch" /\ req'[v].card = k)
      BY <1>5, <3>1 DEF Idle
    <3> QED
      BY <1>4, <2>1, <3>2 DEF RowOf
  <2> QED
    BY <1>7, <2>1 DEF IInv, OneRow
<1> QED
  BY <1>4, <1>6, <1>9, <1>10 DEF IInv

LEMMA PatchCommitKeeps == ASSUME IInv, NEW w \in Workers, PatchCommit(w) PROVE IInv'
<1>1. /\ req[w].op = "patch" /\ req[w].card \in VCardIds /\ req[w].row \in VCard
      /\ Created(req[w].card)
      /\ SaveVCard(req[w].card, req[w].row) /\ Finish(w, {})
      /\ UNCHANGED <<limit, role, tag, handed, chip, relinked, orphaned, overlapped>>
      /\ UNCHANGED tagVars
  BY RequestFields DEF PatchCommit, tagVars, IInv, CopiesHold, CopyHolds
<1>2. PICK c \in VCardIds : c = req[w].card
  BY <1>1
<1>3. /\ req' = [req EXCEPT ![w] = Idle] /\ stale' = stale \ {w} /\ lapsed' = lapsed \ {w}
      /\ req'[w] = Idle /\ \A v \in Workers \ {w} : req'[v] = req[v]
  BY <1>1, EndIsPlain
<1>4. /\ \A d \in VCardIds \ {c} : vcard'[d] = vcard[d]
      /\ Exists(c) => vcard'[c] = vcard[c]
      /\ ~Exists(c) => vcard'[c] = req[w].row
      /\ Exists(c)'
      /\ vcard' \in [VCardIds -> VCard \cup {NotYet, Deleted}]
      /\ SlugsUnique' /\ LinksExist' /\ InstructionsHold' /\ InUseIsLinked'
  <2>1. CASE Exists(c) /\ UNCHANGED vcard
    BY <1>1, <2>1, TablesKeep DEF Exists, IInv, TypeOK, VCardsTypeOK
  <2>2. CASE ~Exists(c) /\ PutVCard(c, req[w].row)
    BY <1>1, <1>2, <2>2, PutKeeps
  <2> QED
    BY <1>1, <1>2, <2>1, <2>2 DEF SaveVCard
<1>5. TypeOK'
  BY <1>1, <1>4, EndIsPlain DEF IInv, TypeOK, VCardsTypeOK
<1>6. RowsStay(VCardIds)
  <2> SUFFICES ASSUME NEW d \in VCardIds, NEW row \in VCard, RowOf(d, row)'
               PROVE  RowOf(d, row)
    BY DEF RowsStay
  <2>1. CASE \E v \in Workers : req'[v].op = "patch" /\ req'[v].card = d /\ req'[v].row = row
    BY <1>3, <2>1 DEF RowOf, Idle
  <2>2. CASE vcard'[d] = row /\ Exists(d)'
    BY <1>1, <1>2, <1>4, <2>2 DEF RowOf, Exists
  <2> QED
    BY <2>1, <2>2 DEF RowOf
<1>7. KeysStay
  BY <1>4, OwnersAssumption DEF KeysStay, Created, Exists, NotYet, Tenants
<1>8. CopiesHold'
  BY <1>1, <1>3, <1>4, <1>6, <1>7, EndKeepsOthers DEF RowsStay, CreatedCards
<1> QED
  BY <1>4, <1>5, <1>6, <1>8, OneRowKeeps DEF IInv

-----------------------------------------------------------------------------
(* Deletions, plans and roles.                                              *)

LEMMA DeleteVCardKeeps == ASSUME IInv, DeleteVCard PROVE IInv'
<1>1. PICK c \in VCardIds :
        /\ Exists(c)
        /\ vcard' = [vcard EXCEPT ![c] = Deleted]
        /\ tag' = Unlinked(c)
        /\ orphaned' = orphaned \cup {n \in Tags : tag[n].vcard = c}
        /\ relinked' = relinked \cup {n \in Tags : tag[n].vcard = c /\ handed[n] # "none"}
        /\ stale' = stale \cup UNION {Handling(n) : n \in {k \in Tags : tag[k].vcard = c}}
        /\ UNCHANGED <<limit, role, handed, chip, overlapped, req, lapsed>>
  BY DEF DeleteVCard, DropVCard
<1>2. /\ \A n \in Tags : tag'[n] =
            IF tag[n].vcard = c THEN [tag[n] EXCEPT !.vcard = "none"] ELSE tag[n]
      /\ tag' \in [Tags -> Tag \cup {Unregistered}]
      /\ \A n \in Tags : tag'[n].status = tag[n].status
      /\ \A n \in Tags : tag[n] \in Tag => tag'[n] \in Tag
  BY <1>1, VCardIdsAssumption DEF Unlinked, IInv, TypeOK, Tag, Unregistered
<1>3. /\ \A n \in Tags : tag[n].vcard = c =>
            /\ tag'[n].vcard = "none" /\ n \in orphaned'
            /\ (handed[n] # "none" => n \in relinked')
            /\ Handling(n) \subseteq stale'
      /\ \A n \in Tags : tag[n].vcard # c => tag'[n] = tag[n]
      /\ stale \subseteq stale'
  BY <1>1, <1>2 DEF IInv, TypeOK, Tag, Unregistered
<1>4. /\ ~Exists(c)' /\ vcard'[c] = Deleted
      /\ \A d \in VCardIds \ {c} : vcard'[d] = vcard[d]
  BY <1>1, OwnersAssumption DEF Exists, Deleted, IInv, TypeOK, VCardsTypeOK, Tenants
<1>5. TypeOK'
  <2>1. vcard' \in [VCardIds -> VCard \cup {NotYet, Deleted}]
    BY <1>1 DEF IInv, TypeOK, VCardsTypeOK
  <2>2. orphaned' \subseteq Tags /\ relinked' \subseteq Tags
    BY <1>1 DEF IInv, TypeOK
  <2>3. \A v \in stale' \cup lapsed' : v \in Workers /\ req'[v].op \in Transitions
    BY <1>1 DEF IInv, TypeOK, Handling
  <2> QED
    BY <1>1, <1>2, <2>1, <2>2, <2>3 DEF IInv, TypeOK, VCardsTypeOK
<1>6. SlugsUnique'
  BY <1>4 DEF IInv, SlugsUnique, Exists
<1>7. LinksExist'
  BY <1>3, <1>4 DEF IInv, LinksExist, Exists
<1>8. InUseIsLinked'
  BY <1>1, <1>2, <1>3 DEF IInv, InUseIsLinked
<1>9. InstructionsHold'
  BY <1>1, <1>3, <1>4 DEF IInv, InstructionsHold, LinksExist, WritePayload
<1>10. RowsStay(VCardIds)
  BY <1>1, <1>4 DEF RowsStay, RowOf, Exists
<1>11. KeysStay
  BY <1>4, OwnersAssumption DEF KeysStay, Created, Deleted, NotYet
<1>12. ASSUME NEW v \in Workers PROVE CopyHolds(v)'
  <2>1. ASSUME req[v].op \in Transitions
        PROVE  /\ tag'[req[v].tag] \in Tag
               /\ v \notin stale' => v \notin stale /\ LinkStays(req[v].tag)
    <3>1. req[v].tag \in Tags /\ tag[req[v].tag] \in Tag
      BY <2>1, RequestFields DEF IInv, CopiesHold, CopyHolds
    <3>2. v \in Handling(req[v].tag)
      BY <2>1 DEF Handling
    <3> QED
      BY <1>2, <1>3, <1>4, <3>1, <3>2 DEF LinkStays, IInv, LinksExist
  <2> QED
    BY <1>1, <1>10, <1>11, <2>1, CopySurvives DEF RowsStay, CreatedCards, RoleStays
<1>13. CopiesHold'
  BY <1>12 DEF CopiesHold
<1> QED
  BY <1>5, <1>6, <1>7, <1>8, <1>9, <1>10, <1>13, OneRowKeeps DEF IInv

(* Nothing else depends on the limit.                                       *)
LEMMA PlanStepKeeps == ASSUME IInv, PlanStep PROVE IInv'
<1>1. UNCHANGED <<vcard, role, tag, handed, chip, relinked, orphaned, overlapped, req, stale, lapsed>>
  BY DEF PlanStep, tagVars
<1>2. VCardsTypeOK'
  <2>0. PICK t \in Tenants : \E l \in Limits[t] : limit' = [limit EXCEPT ![t] = l]
    BY DEF PlanStep, SubscriptionChange
  <2>1. PICK l \in Limits[t] : limit' = [limit EXCEPT ![t] = l]
    BY <2>0
  <2>2. l \in Nat
    BY LimitsAssumption
  <2> QED
    BY <1>1, <2>1, <2>2 DEF IInv, TypeOK, VCardsTypeOK
<1>3. CopiesHold' /\ OneRow'
  BY <1>1, NothingReadChanges
<1> QED
  BY <1>1, <1>2, <1>3 DEF IInv, TypeOK, SlugsUnique, LinksExist, InstructionsHold,
     InUseIsLinked, Exists, WritePayload

(* A user whose role changes may find other tags and cards from now on, and *)
(* the requests of others see no difference.                                *)
LEMMA RoleStepKeeps == ASSUME IInv, RoleStep PROVE IInv'
<1>1. PICK u \in Users, o \in Orgs :
        /\ \E r \in Roles[u][o] : role' = [role EXCEPT ![u][o] = r]
        /\ lapsed' = lapsed \cup Acting(u)
  BY DEF RoleStep, RoleChange
<1>2. PICK r \in Roles[u][o] : role' = [role EXCEPT ![u][o] = r]
  BY <1>1
<1>3. UNCHANGED <<vcard, limit, tag, handed, chip, relinked, orphaned, overlapped, req, stale>>
  BY DEF RoleStep, tagVars
<1>4. /\ role' \in [Users -> [Orgs -> Role]]
      /\ \A k \in Users \ {u} : role'[k] = role[k]
  <2>1. r \in Role /\ role \in [Users -> [Orgs -> Role]]
    BY RolesAssumption DEF IInv, TypeOK, VCardsTypeOK
  <2> QED
    BY <1>2, <2>1
<1>5. TypeOK'
  BY <1>1, <1>3, <1>4 DEF IInv, TypeOK, VCardsTypeOK, Acting
<1>6. RowsStay(VCardIds) /\ KeysStay
  BY <1>3 DEF RowsStay, RowOf, Exists, KeysStay, Created
<1>7. ASSUME NEW v \in Workers PROVE CopyHolds(v)'
  <2>1. ASSUME req[v].op \in Transitions
        PROVE  /\ tag[req[v].tag] \in Tag
               /\ v \notin lapsed' => v \notin lapsed /\ RoleStays(req[v].user)
    <3>1. req[v].user \in Users /\ tag[req[v].tag] \in Tag
      BY <2>1, RequestFields DEF IInv, CopiesHold, CopyHolds
    <3> QED
      BY <1>1, <1>4, <2>1, <3>1 DEF Acting, RoleStays
  <2> QED
    BY <1>3, <1>6, <2>1, CopySurvives DEF RowsStay, CreatedCards, LinkStays
<1>8. CopiesHold'
  BY <1>7 DEF CopiesHold
<1> QED
  BY <1>3, <1>5, <1>6, <1>8, TablesKeep, OneRowKeeps DEF IInv, tagVars

-----------------------------------------------------------------------------
(* Tags and chips.                                                          *)

LEMMA RegisterKeeps == ASSUME IInv, Register PROVE IInv'
<1>1. PICK n \in Tags :
        /\ tag[n] = Unregistered
        /\ tag' = [tag EXCEPT ![n] = [status |-> "inventory", vcard |-> "none"]]
        /\ UNCHANGED <<vcardVars, handed, chip, relinked, orphaned, overlapped, req, stale, lapsed>>
  BY DEF Register
<1>2. UNCHANGED <<vcard, limit, role>>
  BY <1>1 DEF vcardVars
<1>3. /\ tag' \in [Tags -> Tag \cup {Unregistered}]
      /\ \A k \in Tags \ {n} : tag'[k] = tag[k]
      /\ tag'[n].status = "inventory" /\ tag'[n].vcard = "none" /\ tag[n].vcard = "none"
      /\ tag[n] \notin Tag
  BY <1>1 DEF IInv, TypeOK, Tag, TagStatus, Linkable, Unregistered
<1>4. TypeOK'
  BY <1>1, <1>2, <1>3 DEF IInv, TypeOK, VCardsTypeOK
<1>5. SlugsUnique' /\ LinksExist'
  BY <1>2, <1>3 DEF IInv, SlugsUnique, LinksExist, Exists
<1>6. InUseIsLinked'
  BY <1>1, <1>3 DEF IInv, InUseIsLinked, Linkable
<1>7. InstructionsHold'
  BY <1>1, <1>2, <1>3 DEF IInv, InstructionsHold, WritePayload
<1>8. RowsStay(VCardIds) /\ KeysStay
  BY <1>1, <1>2 DEF RowsStay, RowOf, Exists, KeysStay, Created
<1>9. ASSUME NEW v \in Workers PROVE CopyHolds(v)'
  <2>1. ASSUME req[v].op \in Transitions
        PROVE  tag'[req[v].tag] \in Tag /\ LinkStays(req[v].tag)
    <3>1. req[v].tag \in Tags /\ tag[req[v].tag] \in Tag
      BY <2>1, RequestFields DEF IInv, CopiesHold, CopyHolds
    <3> QED
      BY <1>2, <1>3, <3>1 DEF LinkStays
  <2> QED
    BY <1>1, <1>2, <1>8, <2>1, CopySurvives DEF RowsStay, CreatedCards, RoleStays
<1>10. CopiesHold'
  BY <1>9 DEF CopiesHold
<1> QED
  BY <1>4, <1>5, <1>6, <1>7, <1>8, <1>10, OneRowKeeps DEF IInv

LEMMA TransitionCommitKeeps == ASSUME IInv, NEW w \in Workers, TransitionCommit(w) PROVE IInv'
<1> DEFINE op == req[w].op
           n == req[w].tag
           r == [status |-> To(op), vcard |-> LinkAfter(req[w])]
<1>1. /\ op \in Transitions
      /\ op \in Linking => req[w].card # "none" /\ Exists(req[w].card)
      /\ tag' = [tag EXCEPT ![n] = r]
      /\ relinked' = IF r.vcard = tag[n].vcard \/ handed[n] = "none"
                     THEN relinked ELSE relinked \cup {n}
      /\ orphaned' = IF op \in {"activate", "suspend"} THEN orphaned ELSE orphaned \ {n}
      /\ overlapped' = IF w \in stale THEN overlapped \cup {n} ELSE overlapped
      /\ Finish(w, Handling(n))
      /\ UNCHANGED <<vcard, limit, role, handed, chip>>
  BY DEF TransitionCommit, vcardVars
<1>2. /\ n \in Tags /\ tag[n] \in Tag
      /\ w \notin stale => tag[n].status \in From(op)
      /\ req[w].card \in VCardIds \cup {"none"}
      /\ op \notin Linking => req[w].card = "none"
  BY <1>1, RequestFields DEF IInv, CopiesHold, CopyHolds
<1>3. /\ r.status \in TagStatus \ {"inventory", "reserved"}
      /\ r.status = "retired" <=> op = "retire"
      /\ op \in Linking => r.vcard = req[w].card
      /\ op = "retire" => r.vcard = "none"
      /\ op \in {"activate", "suspend"} => r.vcard = tag[n].vcard
  BY <1>1 DEF Transitions, Linking, To, LinkAfter, TagStatus, Linkable
<1>5. r.vcard # "none" => r.vcard \in VCardIds /\ Exists(r.vcard)
  BY <1>1, <1>2, <1>3 DEF IInv, LinksExist, Transitions
<1>6. r \in Tag
  BY <1>3, <1>5 DEF Tag
<1>7. /\ tag'[n] = r /\ \A k \in Tags \ {n} : tag'[k] = tag[k]
      /\ tag' \in [Tags -> Tag \cup {Unregistered}]
  BY <1>1, <1>2, <1>6 DEF IInv, TypeOK
<1>8. ASSUME r.status \in Linkable, n \notin orphaned' \cup overlapped'
      PROVE  r.vcard # "none"
  <2>1. CASE op \in Linking
    BY <2>1, <1>1, <1>3
  <2>2. CASE op \in {"activate", "suspend"}
    <3>1. n \notin orphaned \cup overlapped /\ w \notin stale
      BY <1>1, <1>2, <1>8, <2>2
    <3>2. tag[n].status \in Linkable
      BY <3>1, <1>2, <2>2 DEF From, Linkable
    <3> QED
      BY <1>2, <1>3, <2>2, <3>1, <3>2 DEF IInv, InUseIsLinked
  <2> QED
    BY <1>1, <1>3, <1>8, <2>1, <2>2 DEF Transitions, Linkable
<1>9. r.vcard # "none" => r.status \in Linkable
  BY <1>3 DEF TagStatus
<1>10. /\ req' \in [Workers -> Request \cup {Idle}]
       /\ \A v \in stale' \cup lapsed' : v \in Workers /\ req'[v].op \in Transitions
       /\ req'[w] = Idle /\ \A v \in Workers \ {w} : req'[v] = req[v]
  <2>1. \A v \in Handling(n) : v \in Workers /\ req[v].op \in Transitions
    BY DEF Handling
  <2> QED
    BY <1>1, <2>1, EndIsTyped
<1>11. TypeOK'
  <2>1. orphaned' \subseteq Tags /\ relinked' \subseteq Tags /\ overlapped' \subseteq Tags
    BY <1>1, <1>2 DEF IInv, TypeOK
  <2> QED
    BY <1>1, <1>7, <1>10, <2>1 DEF IInv, TypeOK, VCardsTypeOK
<1>12. SlugsUnique' /\ LinksExist'
  BY <1>1, <1>5, <1>7 DEF IInv, SlugsUnique, LinksExist, Exists
<1>13. InUseIsLinked'
  BY <1>1, <1>7, <1>8, <1>9 DEF IInv, InUseIsLinked
<1>14. InstructionsHold'
  BY <1>1, <1>2, <1>7 DEF IInv, InstructionsHold, WritePayload
<1>15. RowsStay(VCardIds) /\ KeysStay
  BY <1>1, <1>10 DEF RowsStay, RowOf, Exists, KeysStay, Created, Idle
<1>16. ASSUME NEW v \in Workers PROVE CopyHolds(v)'
  <2>1. CASE v = w
    BY <1>10, <2>1, IdleHolds
  <2>2. CASE v # w
    <3>1. ASSUME req[v].op \in Transitions
          PROVE  /\ tag'[req[v].tag] \in Tag
                 /\ v \notin stale' => v \notin stale /\ LinkStays(req[v].tag)
                 /\ v \notin lapsed' => v \notin lapsed
      <4>1. req[v].tag \in Tags /\ tag[req[v].tag] \in Tag
        BY <3>1, RequestFields DEF IInv, CopiesHold, CopyHolds
      <4>2. /\ stale' = (stale \cup Handling(n)) \ {w} /\ lapsed' = lapsed \ {w}
            /\ req[v].tag = n => v \in Handling(n)
        BY <1>1, <3>1 DEF Handling, Finish
      <4> QED
        BY <1>1, <1>6, <1>7, <2>2, <4>1, <4>2 DEF LinkStays
    <3> QED
      BY <1>1, <1>10, <1>15, <2>2, <3>1, CopySurvives DEF RowsStay, CreatedCards, RoleStays
  <2> QED
    BY <2>1, <2>2
<1>17. CopiesHold'
  BY <1>16 DEF CopiesHold
<1> QED
  BY <1>11, <1>12, <1>13, <1>14, <1>15, <1>17, OneRowKeeps DEF IInv

LEMMA ChipKeeps == ASSUME IInv, HandOut \/ WriteChip PROVE IInv'
<1>1. /\ UNCHANGED <<vcard, limit, role, tag, orphaned, overlapped, req, stale, lapsed>>
      /\ relinked' \subseteq Tags
      /\ handed' \in [Tags -> Payload \cup {"none"}]
      /\ chip' \in [Tags -> Payload \cup {"none"}]
  <2>1. \A n \in Tags : WritePayload(n) \in Payload
    BY OwnersAssumption DEF IInv, LinksExist, WritePayload, Payload, TypeOK, VCardsTypeOK,
       VCard, Exists, NotYet, Deleted, Tenants
  <2> QED
    BY <2>1 DEF HandOut, WriteChip, vcardVars, IInv, TypeOK
<1>2. TypeOK'
  BY <1>1 DEF IInv, TypeOK, VCardsTypeOK
<1>3. SlugsUnique' /\ LinksExist' /\ InUseIsLinked'
  BY <1>1 DEF IInv, SlugsUnique, LinksExist, InUseIsLinked, Exists
<1>4. InstructionsHold'
  <2>1. \A n \in Tags : WritePayload(n)' = WritePayload(n)
    BY <1>1 DEF WritePayload
  <2> QED
    BY <2>1 DEF HandOut, WriteChip, IInv, InstructionsHold, TypeOK
<1>5. CopiesHold' /\ OneRow'
  BY <1>1, NothingReadChanges
<1> QED
  BY <1>2, <1>3, <1>4, <1>5 DEF IInv

LEMMA StutterKeeps == ASSUME IInv, UNCHANGED vars PROVE IInv'
<1>1. UNCHANGED <<vcard, limit, role, tag, handed, chip, relinked, orphaned, overlapped, req,
                  stale, lapsed>>
  BY DEF vars, vcardVars, tagVars
<1>2. CopiesHold' /\ OneRow'
  BY <1>1, NothingReadChanges
<1> QED
  BY <1>1, <1>2 DEF IInv, TypeOK, VCardsTypeOK, SlugsUnique, LinksExist, InstructionsHold,
     InUseIsLinked, Exists, WritePayload

LEMMA StepKeeps == ASSUME IInv, [Next]_vars PROVE IInv'
BY CreateBeginKeeps, CreateCommitKeeps, PatchBeginKeeps, PatchCommitKeeps,
   TransitionBeginKeeps, FindCardKeeps, TransitionCommitKeeps, AbortKeeps, DeleteVCardKeeps,
   PlanStepKeeps, RoleStepKeeps, RegisterKeeps, ChipKeeps, StutterKeeps
   DEF Next, RequestStep

-----------------------------------------------------------------------------
(* The invariant holds of every state of the cards and their tags.          *)
THEOREM Invariance == Spec => []IInv
<1>1. Init => IInv
  BY Initially
<1>2. IInv /\ [Next]_vars => IInv'
  BY StepKeeps
<1>3. QED
  BY <1>1, <1>2, PTL DEF Spec

(* Cards, tags, chips, roles and requests stay well formed, and only         *)
(* requests on tags are ever outdated (VCardViewSet, NfcCardViewSet).       *)
THEOREM TypeCorrect == Spec => []TypeOK
<1>1. IInv => TypeOK
  BY DEF IInv
<1>2. QED
  BY <1>1, Invariance, PTL

(* A tag in use has a card unless the card was deleted or two requests       *)
(* overlapped; one out of use has none, always (nfc.py).                    *)
THEOREM TagsLinked == Spec => []InUseIsLinked
<1>1. IInv => InUseIsLinked
  BY DEF IInv
<1>2. QED
  BY <1>1, Invariance, PTL

(* A locked chip opens the card its tag is linked to, and no other, until   *)
(* the tag is linked elsewhere: slugs never change, are unique, and a       *)
(* deleted card takes its links along, also when a PATCH puts it back       *)
(* (write_payload, generate_unique_slug).                                   *)
THEOREM ChipsOpenTheirCard == Spec => []ChipOpensItsCard
<1>1. ASSUME IInv PROVE ChipOpensItsCard
  <2> SUFFICES ASSUME NEW n \in Tags, n \notin relinked, chip[n] # "none",
                      tag[n].vcard # "none", NEW c \in VCardIds
               PROVE  vcard[c].slug = chip[n] <=> c = tag[n].vcard
    BY DEF ChipOpensItsCard
  <2>1. chip[n] = handed[n] /\ handed[n] = WritePayload(n)
    BY <1>1 DEF IInv, InstructionsHold
  <2>2. /\ tag[n].vcard \in VCardIds /\ Exists(tag[n].vcard)
        /\ vcard[tag[n].vcard] \in VCard
    BY <1>1, OwnersAssumption
       DEF IInv, LinksExist, TypeOK, VCardsTypeOK, Exists, NotYet, Deleted, Tenants
  <2>3. chip[n] = vcard[tag[n].vcard].slug /\ chip[n] \in Slugs
    BY <2>1, <2>2 DEF WritePayload, VCard
  <2>4. vcard[c].slug \in Slugs => Exists(c)
    BY <1>1, SlugsAssumption DEF IInv, TypeOK, VCardsTypeOK, VCard, NotYet, Deleted, Exists
  <2> QED
    BY <1>1, <2>2, <2>3, <2>4 DEF IInv, SlugsUnique
<1>2. QED
  BY <1>1, Invariance, PTL

(* What a step may do to a tag's row: register it, unlink it together with  *)
(* its card, or save a transition that is not outdated, unless the tag      *)
(* counts as overlapped from then on.                                       *)
LEMMA TagStep ==
    ASSUME IInv, [Next]_vars, NEW n \in Tags, tag'[n] # tag[n]
    PROVE  \/ tag[n] = Unregistered
           \/ tag'[n].vcard = "none" /\ tag'[n].status = tag[n].status
           \/ \E w \in Workers :
                 /\ req[w].op \in Transitions /\ req[w].tag = n
                 /\ tag'[n] = [status |-> To(req[w].op), vcard |-> LinkAfter(req[w])]
                 /\ req[w].op \in Linking => req[w].card # "none" /\ Exists(req[w].card)
                 /\ w \in stale => n \in overlapped'
                 /\ UNCHANGED <<vcard, role>>
<1>1. CASE Register
  BY <1>1 DEF Register, IInv, TypeOK
<1>2. CASE DeleteVCard
  <2>1. PICK c \in VCardIds : tag' = Unlinked(c)
    BY <1>2 DEF DeleteVCard
  <2> QED
    BY <2>1, VCardIdsAssumption DEF Unlinked, IInv, TypeOK, Tag, Unregistered
<1>3. ASSUME NEW w \in Workers, TransitionCommit(w)
      PROVE  /\ req[w].op \in Transitions /\ req[w].tag = n
             /\ tag'[n] = [status |-> To(req[w].op), vcard |-> LinkAfter(req[w])]
             /\ req[w].op \in Linking => req[w].card # "none" /\ Exists(req[w].card)
             /\ w \in stale => n \in overlapped'
             /\ UNCHANGED <<vcard, role>>
  <2>1. /\ req[w].op \in Transitions /\ req[w].tag \in Tags
        /\ tag' = [tag EXCEPT ![req[w].tag] =
              [status |-> To(req[w].op), vcard |-> LinkAfter(req[w])]]
        /\ req[w].op \in Linking => req[w].card # "none" /\ Exists(req[w].card)
        /\ overlapped' = IF w \in stale THEN overlapped \cup {req[w].tag} ELSE overlapped
        /\ UNCHANGED <<vcard, role>>
    BY <1>3, RequestFields DEF TransitionCommit, IInv, vcardVars
  <2>2. req[w].tag = n
    BY <2>1 DEF IInv, TypeOK
  <2> QED
    BY <2>1, <2>2 DEF IInv, TypeOK
<1>4. CASE HandOut \/ WriteChip \/ PlanStep \/ RoleStep \/ UNCHANGED vars
  BY <1>4 DEF HandOut, WriteChip, PlanStep, RoleStep, vars, tagVars
<1>5. ASSUME NEW w \in Workers,
             \/ CreateBegin(w) \/ CreateCommit(w) \/ PatchBegin(w) \/ PatchCommit(w)
             \/ TransitionBegin(w) \/ FindCard(w) \/ Abort(w)
      PROVE  FALSE
  BY <1>5 DEF CreateBegin, CreateCommit, PatchBegin, PatchCommit, TransitionBegin, FindCard,
     Abort, tagVars
<1> QED
  BY <1>1, <1>2, <1>3, <1>4, <1>5 DEF Next, RequestStep

(* Retiring a tag is final unless requests overlapped (retire_card).        *)
THEOREM RetirementIsFinal == Spec => RetiredIsFinal
<1>1. ASSUME IInv, [Next]_vars, NEW n \in Tags, tag[n].status = "retired", n \notin overlapped'
      PROVE  tag'[n].status = "retired"
  <2> SUFFICES ASSUME tag'[n] # tag[n], tag'[n].status # tag[n].status
               PROVE  FALSE
    BY <1>1
  <2>1. tag[n] # Unregistered
    BY <1>1 DEF Unregistered
  <2>2. PICK w \in Workers :
           /\ req[w].op \in Transitions /\ req[w].tag = n /\ w \notin stale
           /\ tag'[n] = [status |-> To(req[w].op), vcard |-> LinkAfter(req[w])]
    BY <1>1, <2>1, TagStep
  <2>3. "retired" \in From(req[w].op)
    BY <1>1, <2>2 DEF IInv, CopiesHold, CopyHolds
  <2>4. req[w].op = "retire"
    BY <2>2, <2>3 DEF Transitions, Linking, From, Linkable
  <2> QED
    BY <1>1, <2>2, <2>4 DEF To, Linking
<1>2. IInv /\ [Next]_vars =>
        [\A n \in Tags : tag[n].status = "retired" /\ n \notin overlapped' =>
            tag'[n].status = "retired"]_vars
  BY <1>1
<1>3. QED
  BY <1>2, Invariance, PTL DEF Spec, RetiredIsFinal

(* A tag is moved from one card to another only for a user of both, for     *)
(* staff or for its buyers, unless requests overlapped or a role changed    *)
(* under way, whatever cards were deleted or came back since the request    *)
(* found them (get_queryset, _get_owned_vcard, perform_update).             *)
THEOREM TagsMoveWithinReach == Spec => TagMovesWithinReach
<1>1. ASSUME IInv, [Next]_vars, NEW n \in Tags,
             tag[n].vcard # "none", tag'[n].vcard \notin {"none", tag[n].vcard},
             \A w \in stale \cup lapsed : ~(req[w].op \in Linking /\ req[w].tag = n)
      PROVE  \E u \in Party(vcard[tag'[n].vcard]) :
                u \in Staff \cup Buyers(n) \cup Party(vcard[tag[n].vcard])
  <2>1. tag[n] # Unregistered
    BY <1>1 DEF Unregistered
  <2>2. PICK w \in Workers :
           /\ req[w].op \in Transitions /\ req[w].tag = n
           /\ tag'[n] = [status |-> To(req[w].op), vcard |-> LinkAfter(req[w])]
           /\ req[w].op \in Linking => req[w].card # "none" /\ Exists(req[w].card)
    BY <1>1, <2>1, TagStep
  <2>3. req[w].op \in Linking /\ tag'[n].vcard = req[w].card
    BY <1>1, <2>2 DEF LinkAfter
  <2>4. w \notin stale \cup lapsed
    BY <1>1, <2>2, <2>3
  <2>5. CanSee(req[w].user, n) /\ CardHolds(w) /\ req[w].card \in VCardIds
    BY <1>1, <2>2, <2>3, <2>4, RequestFields DEF IInv, CopiesHold, CopyHolds
  <2>6. RowOf(req[w].card, vcard[req[w].card]) /\ vcard[req[w].card] \in VCard
    BY <1>1, <2>2, <2>3, <2>5, OwnersAssumption
       DEF RowOf, IInv, TypeOK, VCardsTypeOK, Exists, NotYet, Deleted, Tenants
  <2>7. req[w].user \in Party(vcard[tag'[n].vcard])
    BY <2>2, <2>3, <2>4, <2>5, <2>6 DEF CardHolds
  <2>8. req[w].user \in Staff \cup Buyers(n) \cup Party(vcard[tag[n].vcard])
    BY <2>5 DEF CanSee
  <2> QED
    BY <2>7, <2>8
<1>2. IInv /\ [Next]_vars =>
        [\A n \in Tags :
          \/ tag[n].vcard = "none"
          \/ tag'[n].vcard \in {"none", tag[n].vcard}
          \/ \E w \in stale \cup lapsed : req[w].op \in Linking /\ req[w].tag = n
          \/ \E u \in Party(vcard[tag'[n].vcard]) :
                u \in Staff \cup Buyers(n) \cup Party(vcard[tag[n].vcard])]_vars
  BY <1>1
<1>3. QED
  BY <1>2, Invariance, PTL DEF Spec, TagMovesWithinReach

-----------------------------------------------------------------------------
(* The limit of cards.                                                      *)

(* The cards of a tenant, and those that a PATCH may still put back.        *)
Kept(t) == {c \in VCardIds : \E row \in VCard : RowOf(c, row) /\ TenantOf(row) = t}

Patching == {w \in Workers : req[w].op = "patch"}

Under(t, p) == Cardinality(Kept(t)) + Cardinality(Creating(t)) < p + Cardinality(Workers)

LEMMA Finite ==
    ASSUME NEW t
    PROVE  /\ IsFiniteSet(Kept(t)) /\ Cardinality(Kept(t)) \in Nat
           /\ IsFiniteSet(OwnedBy(t)) /\ Cardinality(OwnedBy(t)) \in Nat
           /\ IsFiniteSet(Creating(t)) /\ Cardinality(Creating(t)) \in Nat
           /\ Cardinality(Workers) \in Nat /\ Cardinality(Workers) > 0
<1>1. Kept(t) \subseteq VCardIds /\ OwnedBy(t) \subseteq VCardIds /\ Creating(t) \subseteq Workers
  BY DEF Kept, OwnedBy, Creating
<1>2. IsFiniteSet(Kept(t)) /\ IsFiniteSet(OwnedBy(t)) /\ IsFiniteSet(Creating(t))
  BY <1>1, FiniteAssumption, WorkersAssumption, FS_Subset
<1>3. Cardinality(Workers) # 0
  BY WorkersAssumption, FS_EmptySet
<1> QED
  BY <1>2, <1>3, WorkersAssumption, FS_CardinalityType

LEMMA FiniteNext ==
    ASSUME NEW t
    PROVE  /\ IsFiniteSet(Kept(t)') /\ Cardinality(Kept(t)') \in Nat
           /\ IsFiniteSet(Creating(t)') /\ Cardinality(Creating(t)') \in Nat
<1>1. Kept(t)' \subseteq VCardIds /\ Creating(t)' \subseteq Workers
  BY DEF Kept, Creating
<1>2. IsFiniteSet(Kept(t)') /\ IsFiniteSet(Creating(t)')
  BY <1>1, FiniteAssumption, WorkersAssumption, FS_Subset
<1> QED
  BY <1>2, FS_CardinalityType

(* A card that only a PATCH keeps occupies a worker.                        *)
LEMMA KeptIsFew ==
    ASSUME TypeOK, NEW t
    PROVE  Cardinality(Kept(t)) <= Cardinality(OwnedBy(t)) + Cardinality(Patching)
<1> DEFINE card == [w \in Patching |-> req[w].card]
           held == {card[w] : w \in Patching}
<1>1. IsFiniteSet(Patching) /\ Cardinality(Patching) \in Nat
  BY WorkersAssumption, FS_Subset, FS_CardinalityType DEF Patching
<1>2. card \in Surjection(Patching, held)
  BY DEF Surjection
<1>3. IsFiniteSet(held) /\ Cardinality(held) <= Cardinality(Patching)
  BY <1>1, <1>2, FS_Surjection
<1>4. Kept(t) \subseteq OwnedBy(t) \cup held
  <2> SUFFICES ASSUME NEW c \in VCardIds, NEW row \in VCard, RowOf(c, row), TenantOf(row) = t,
                      c \notin OwnedBy(t)
               PROVE  c \in held
    BY DEF Kept
  <2>1. PICK w \in Workers : req[w].op = "patch" /\ req[w].card = c
    BY DEF RowOf, OwnedBy
  <2> QED
    BY <2>1 DEF Patching
<1> HIDE DEF held
<1>5. /\ IsFiniteSet(OwnedBy(t) \cup held)
      /\ Cardinality(OwnedBy(t) \cup held) <= Cardinality(OwnedBy(t)) + Cardinality(held)
  <2>1. IsFiniteSet(OwnedBy(t) \cap held)
    BY <1>3, FS_Subset
  <2>2. Cardinality(OwnedBy(t) \cap held) \in Nat /\ Cardinality(held) \in Nat
    BY <1>3, <2>1, FS_CardinalityType
  <2>3. /\ IsFiniteSet(OwnedBy(t) \cup held)
        /\ Cardinality(OwnedBy(t) \cup held) =
              Cardinality(OwnedBy(t)) + Cardinality(held) - Cardinality(OwnedBy(t) \cap held)
    BY <1>3, Finite, FS_Union
  <2> QED
    BY <2>2, <2>3, Finite
<1>6. /\ Cardinality(Kept(t)) <= Cardinality(OwnedBy(t) \cup held)
      /\ Cardinality(OwnedBy(t) \cup held) \in Nat /\ Cardinality(held) \in Nat
  BY <1>3, <1>4, <1>5, FS_Subset, FS_CardinalityType
<1> QED
  BY <1>1, <1>3, <1>5, <1>6, Finite

(* No worker does both, and one that is idle does neither.                  *)
LEMMA WorkersAreShared ==
    ASSUME NEW t, NEW w \in Workers, req[w] = Idle
    PROVE  /\ Cardinality(Patching) + Cardinality(Creating(t)) < Cardinality(Workers)
           /\ Cardinality(Patching) \in Nat
<1>1. /\ Patching \cup Creating(t) \subseteq Workers \ {w}
      /\ Patching \cap Creating(t) = {}
  BY DEF Patching, Creating, Idle
<1>2. /\ IsFiniteSet(Patching) /\ IsFiniteSet(Creating(t)) /\ IsFiniteSet(Workers \ {w})
      /\ Cardinality(Workers \ {w}) = Cardinality(Workers) - 1
  BY <1>1, WorkersAssumption, FS_Subset, FS_RemoveElement
<1>3. Cardinality(Patching \cap Creating(t)) = 0
  BY <1>1, FS_EmptySet
<1>4. Cardinality(Patching \cup Creating(t)) <= Cardinality(Workers \ {w})
  BY <1>1, <1>2, FS_Subset
<1>5. Cardinality(Patching \cup Creating(t)) =
         Cardinality(Patching) + Cardinality(Creating(t)) - Cardinality(Patching \cap Creating(t))
  BY <1>2, FS_Union
<1>6. /\ Cardinality(Patching) \in Nat /\ Cardinality(Creating(t)) \in Nat
      /\ Cardinality(Workers) \in Nat
  BY <1>2, WorkersAssumption, FS_CardinalityType
<1> QED
  BY <1>2, <1>3, <1>4, <1>5, <1>6

(* Fewer cards and fewer requests stay under the limit.                     *)
LEMMA ShrinkingKeeps ==
    ASSUME NEW t \in Tenants, NEW p \in Limits[t], Under(t, p),
           Kept(t)' \subseteq Kept(t), Creating(t)' \subseteq Creating(t)
    PROVE  Under(t, p)'
<1>1. /\ Cardinality(Kept(t)') <= Cardinality(Kept(t))
      /\ Cardinality(Creating(t)') <= Cardinality(Creating(t))
  BY Finite, FS_Subset
<1>2. p \in Nat
  BY LimitsAssumption
<1> QED
  BY <1>1, <1>2, Finite, FiniteNext DEF Under

(* Rows that do not spread keep no more cards.                              *)
LEMMA KeptShrinks == ASSUME RowsStay(VCardIds), NEW t PROVE Kept(t)' \subseteq Kept(t)
BY DEF Kept, RowsStay, TenantOf

LEMMA BeginStaysUnder ==
    ASSUME IInv, NEW w \in Workers, CreateBegin(w), NEW t \in Tenants,
           NEW p \in Limits[t], Under(t, p)
    PROVE  \E q \in Limits[t] : Under(t, q)'
<1>1. PICK row \in VCard :
         /\ CanCreate(TenantOf(row))
         /\ req[w] = Idle /\ req' = [req EXCEPT ![w] = [op |-> "create", row |-> row]]
         /\ UNCHANGED <<vcard, limit>>
  BY DEF CreateBegin, Start, vcardVars
<1>2. /\ req'[w] = [op |-> "create", row |-> row]
      /\ \A v \in Workers \ {w} : req'[v] = req[v]
  BY <1>1 DEF IInv, TypeOK
<1>3. RowsStay(VCardIds)
  BY <1>1, <1>2 DEF RowsStay, RowOf, Exists
<1>4. Kept(t)' \subseteq Kept(t)
  BY <1>3, KeptShrinks
<1>5. CASE TenantOf(row) = t
  <2>1. PICK q \in Limits[t] : q = limit[t] /\ q \in Nat
    BY LimitsAssumption DEF IInv, TypeOK, VCardsTypeOK
  <2>2. OwnedBy(t)' = OwnedBy(t) /\ Cardinality(OwnedBy(t)) < q
    BY <1>1, <1>5, <2>1 DEF CanCreate, OwnedBy, Exists
  <2>3. Cardinality(Kept(t)) <= Cardinality(OwnedBy(t)) + Cardinality(Patching)
    BY KeptIsFew DEF IInv
  <2>4. Cardinality(Kept(t)') <= Cardinality(Kept(t))
    BY <1>4, Finite, FS_Subset
  <2>5. Cardinality(Creating(t)') <= Cardinality(Creating(t)) + 1
    <3>1. Creating(t)' \subseteq Creating(t) \cup {w} /\ w \notin Creating(t)
      BY <1>1, <1>2 DEF Creating, TenantOf, Idle
    <3>2. /\ Cardinality(Creating(t) \cup {w}) = Cardinality(Creating(t)) + 1
          /\ IsFiniteSet(Creating(t) \cup {w})
      BY <3>1, Finite, FS_AddElement
    <3> QED
      BY <3>1, <3>2, FS_Subset
  <2>6. /\ Cardinality(Patching) + Cardinality(Creating(t)) < Cardinality(Workers)
        /\ Cardinality(Patching) \in Nat
    BY <1>1, WorkersAreShared
  <2>7. Under(t, q)'
    BY <2>1, <2>2, <2>3, <2>4, <2>5, <2>6, Finite, FiniteNext DEF Under
  <2> QED
    BY <2>7
<1>6. CASE TenantOf(row) # t
  <2>1. Creating(t)' \subseteq Creating(t)
    BY <1>2, <1>6 DEF Creating, TenantOf
  <2> QED
    BY <1>4, <2>1, ShrinkingKeeps
<1> QED
  BY <1>5, <1>6

LEMMA CommitStaysUnder ==
    ASSUME IInv, NEW w \in Workers, CreateCommit(w), NEW t \in Tenants,
           NEW p \in Limits[t], Under(t, p)
    PROVE  Under(t, p)'
<1>1. PICK k \in VCardIds :
         /\ req[w].op = "create" /\ req[w].row \in VCard
         /\ vcard[k] = NotYet
         /\ vcard' = [vcard EXCEPT ![k] = req[w].row]
         /\ req' = [req EXCEPT ![w] = Idle]
  BY RequestFields DEF CreateCommit, InsertVCard, PutVCard, Finish, IInv
<1>2. /\ \A c \in VCardIds \ {k} : vcard'[c] = vcard[c]
      /\ vcard'[k] = req[w].row /\ ~Exists(k)
      /\ \A v \in Workers \ {w} : req'[v] = req[v]
      /\ req'[w] = Idle
  BY <1>1, OwnersAssumption DEF IInv, TypeOK, VCardsTypeOK, Exists, NotYet, Tenants
<1>3. \A v \in Workers : ~(req[v].op = "patch" /\ req[v].card = k)
  BY <1>1 DEF IInv, CopiesHold, CopyHolds, Created
<1>4. k \notin Kept(t)
  BY <1>2, <1>3 DEF Kept, RowOf
<1>5. \A row : RowOf(k, row)' => row = req[w].row
  BY <1>2, <1>3 DEF RowOf, Idle
<1>6. \A c \in VCardIds \ {k}, row \in VCard : RowOf(c, row)' => RowOf(c, row)
  BY <1>2 DEF RowOf, Exists, Idle
<1>7. Kept(t)' \subseteq Kept(t) \cup {k}
  BY <1>6 DEF Kept, TenantOf
<1>8. Creating(t)' \subseteq Creating(t)
  BY <1>2 DEF Creating, Idle, TenantOf
<1>9. CASE TenantOf(req[w].row) # t
  <2>1. k \notin Kept(t)'
    BY <1>5, <1>9 DEF Kept, TenantOf
  <2> QED
    BY <1>7, <1>8, <2>1, ShrinkingKeeps
<1>10. CASE TenantOf(req[w].row) = t
  <2>1. Creating(t)' = Creating(t) \ {w} /\ w \in Creating(t)
    BY <1>1, <1>2, <1>10 DEF Creating, Idle, TenantOf
  <2>2. Cardinality(Kept(t) \cup {k}) = Cardinality(Kept(t)) + 1 /\ IsFiniteSet(Kept(t) \cup {k})
    BY <1>4, Finite, FS_AddElement
  <2>3. Cardinality(Kept(t)') <= Cardinality(Kept(t)) + 1
    BY <1>7, <2>2, FS_Subset
  <2>4. Cardinality(Creating(t)') = Cardinality(Creating(t)) - 1
    BY <2>1, Finite, FS_RemoveElement
  <2>5. p \in Nat
    BY LimitsAssumption
  <2> QED
    BY <2>3, <2>4, <2>5, Finite, FiniteNext DEF Under
<1> QED
  BY <1>9, <1>10

(* A PATCH that puts a card back puts back one that was kept.               *)
LEMMA PatchesAndDeletions ==
    ASSUME IInv, [Next]_vars, \A w \in Workers : ~CreateCommit(w)
    PROVE  RowsStay(VCardIds)
<1>1. ASSUME NEW w \in Workers, PatchBegin(w) PROVE RowsStay(VCardIds)
  <2>1. PICK c \in VCardIds :
          /\ Exists(c) /\ UNCHANGED vcard
          /\ req' = [req EXCEPT ![w] = [op |-> "patch", card |-> c, row |-> vcard[c]]]
    BY <1>1 DEF PatchBegin, Start, vcardVars
  <2>2. /\ req'[w].op = "patch" /\ req'[w].card = c /\ req'[w].row = vcard[c]
        /\ \A v \in Workers \ {w} : req'[v] = req[v]
    BY <2>1 DEF IInv, TypeOK
  <2> QED
    BY <2>1, <2>2 DEF RowsStay, RowOf, Exists
<1>2. ASSUME NEW w \in Workers, PatchCommit(w) PROVE RowsStay(VCardIds)
  <2>1. /\ req[w].op = "patch" /\ req[w].card \in VCardIds
        /\ SaveVCard(req[w].card, req[w].row) /\ req' = [req EXCEPT ![w] = Idle]
    BY <1>2, RequestFields DEF PatchCommit, Finish, IInv
  <2>2. req'[w] = Idle /\ \A v \in Workers \ {w} : req'[v] = req[v]
    BY <2>1 DEF IInv, TypeOK
  <2>3. /\ \A d \in VCardIds \ {req[w].card} : vcard'[d] = vcard[d]
        /\ vcard'[req[w].card] \in {vcard[req[w].card], req[w].row}
        /\ vcard'[req[w].card] = vcard[req[w].card] \/ ~Exists(req[w].card)
    BY <2>1 DEF SaveVCard, PutVCard, IInv, TypeOK, VCardsTypeOK
  <2> SUFFICES ASSUME NEW d \in VCardIds, NEW row \in VCard, RowOf(d, row)'
               PROVE  RowOf(d, row)
    BY DEF RowsStay
  <2>4. CASE \E v \in Workers : req'[v].op = "patch" /\ req'[v].card = d /\ req'[v].row = row
    BY <2>2, <2>4 DEF RowOf, Idle
  <2>5. CASE vcard'[d] = row /\ Exists(d)'
    BY <2>1, <2>3, <2>5 DEF RowOf, Exists
  <2> QED
    BY <2>4, <2>5 DEF RowOf
<1>3. CASE DeleteVCard
  <2>1. PICK c \in VCardIds : vcard' = [vcard EXCEPT ![c] = Deleted] /\ UNCHANGED req
    BY <1>3 DEF DeleteVCard, DropVCard
  <2>2. ~Exists(c)' /\ \A d \in VCardIds \ {c} : vcard'[d] = vcard[d]
    BY <2>1, OwnersAssumption DEF Exists, Deleted, IInv, TypeOK, VCardsTypeOK, Tenants
  <2> QED
    BY <2>1, <2>2 DEF RowsStay, RowOf, Exists
<1>4. CASE UNCHANGED <<vcard, req>>
  BY <1>4 DEF RowsStay, RowOf, Exists
<1>5. ASSUME NEW w \in Workers,
             CreateBegin(w) \/ TransitionBegin(w) \/ TransitionCommit(w) \/ Abort(w)
      PROVE  RowsStay(VCardIds)
  <2>1. /\ UNCHANGED vcard
        /\ \E r : r.op # "patch" /\ req' = [req EXCEPT ![w] = r]
    BY <1>5 DEF CreateBegin, TransitionBegin, TransitionCommit, Abort, Start, Finish, vcardVars,
       Idle, Transitions, Linking
  <2>2. req'[w].op # "patch" /\ \A v \in Workers \ {w} : req'[v] = req[v]
    BY <2>1 DEF IInv, TypeOK
  <2> QED
    BY <2>1, <2>2 DEF RowsStay, RowOf, Exists
<1>6. ASSUME NEW w \in Workers, FindCard(w) PROVE RowsStay(VCardIds)
  <2>1. PICK c \in VCardIds : req' = [req EXCEPT ![w].card = c]
    BY <1>6 DEF FindCard
  <2>2. /\ req'[w] = [req[w] EXCEPT !.card = c] /\ UNCHANGED vcard
        /\ \A v \in Workers \ {w} : req'[v] = req[v]
        /\ req[w].op \in Linking
    BY <1>6, <2>1 DEF FindCard, vcardVars, IInv, TypeOK
  <2>3. req'[w].op # "patch"
    BY <2>2 DEF Linking, IInv, TypeOK, Request, Idle, Transitions
  <2> QED
    BY <2>2, <2>3 DEF RowsStay, RowOf, Exists
<1> QED
  BY <1>1, <1>2, <1>3, <1>4, <1>5, <1>6
     DEF Next, RequestStep, PlanStep, RoleStep, Register, HandOut, WriteChip, vars, vcardVars

LEMMA OthersStayUnder ==
    ASSUME IInv, [Next]_vars,
           \A w \in Workers : ~CreateBegin(w) /\ ~CreateCommit(w),
           NEW t \in Tenants, NEW p \in Limits[t], Under(t, p)
    PROVE  Under(t, p)'
<1>1. Kept(t)' \subseteq Kept(t)
  BY PatchesAndDeletions, KeptShrinks
<1>2. Creating(t)' \subseteq Creating(t)
  <2>1. CASE UNCHANGED req
    BY <2>1 DEF Creating, TenantOf
  <2>2. ASSUME NEW w \in Workers,
               \/ PatchBegin(w) \/ PatchCommit(w)
               \/ TransitionBegin(w) \/ TransitionCommit(w) \/ Abort(w)
        PROVE  Creating(t)' \subseteq Creating(t)
    <3>1. \E r : r.op # "create" /\ req' = [req EXCEPT ![w] = r]
      BY <2>2 DEF PatchBegin, PatchCommit, TransitionBegin, TransitionCommit, Abort, Start,
         Finish, Idle, Transitions, Linking
    <3>2. req'[w].op # "create" /\ \A v \in Workers \ {w} : req'[v] = req[v]
      BY <3>1 DEF IInv, TypeOK
    <3> QED
      BY <3>2 DEF Creating, TenantOf
  <2>3. ASSUME NEW w \in Workers, FindCard(w) PROVE Creating(t)' \subseteq Creating(t)
    <3>1. PICK c \in VCardIds : req' = [req EXCEPT ![w].card = c]
      BY <2>3 DEF FindCard
    <3>2. /\ req'[w] = [req[w] EXCEPT !.card = c] /\ req[w].op \in Linking
          /\ \A v \in Workers \ {w} : req'[v] = req[v]
      BY <2>3, <3>1 DEF FindCard, IInv, TypeOK
    <3>3. req'[w].op # "create"
      BY <3>2 DEF Linking, IInv, TypeOK, Request, Idle, Transitions
    <3> QED
      BY <3>2, <3>3 DEF Creating, TenantOf
  <2> QED
    BY <2>1, <2>2, <2>3 DEF Next, RequestStep, DeleteVCard, PlanStep, RoleStep, Register,
       HandOut, WriteChip, vars
<1> QED
  BY <1>1, <1>2, ShrinkingKeeps

(* For any number of workers, tenants and limits: a limit of cards is       *)
(* never overrun by more than the other workers, the cards included that    *)
(* PATCHes put back without counting (perform_create, perform_update,       *)
(* can_create_vcard).                                                       *)
THEOREM OverrunBounded == Spec => []OverrunIsBounded
<1> DEFINE Bounded == \A t \in Tenants : \E p \in Limits[t] : Under(t, p)
<1>1. Init => Bounded
  <2> SUFFICES ASSUME Init, NEW t \in Tenants PROVE \E p \in Limits[t] : Under(t, p)
    OBVIOUS
  <2>1. Kept(t) = {} /\ Creating(t) = {}
    BY OwnersAssumption
       DEF Init, VCardsInit, Kept, RowOf, Exists, Creating, NotYet, Idle, Tenants
  <2>2. limit[t] \in Limits[t] /\ limit[t] \in Nat
    BY LimitsAssumption DEF Init, VCardsInit
  <2>3. Cardinality(Kept(t)) = 0 /\ Cardinality(Creating(t)) = 0
    BY <2>1, FS_EmptySet
  <2>4. Under(t, limit[t])
    BY <2>2, <2>3, Finite DEF Under
  <2> QED
    BY <2>2, <2>4
<1>2. IInv /\ Bounded /\ [Next]_vars => Bounded'
  <2> SUFFICES ASSUME IInv, Bounded, [Next]_vars, NEW t \in Tenants
               PROVE  \E p \in Limits[t] : Under(t, p)'
    OBVIOUS
  <2>1. PICK p \in Limits[t] : Under(t, p)
    OBVIOUS
  <2> QED
    BY <2>1, BeginStaysUnder, CommitStaysUnder, OthersStayUnder
<1>3. IInv /\ Bounded => OverrunIsBounded
  <2> SUFFICES ASSUME IInv, NEW t \in Tenants, NEW p \in Limits[t], Under(t, p)
               PROVE  Cardinality(OwnedBy(t)) + Cardinality(Creating(t)) < p + Cardinality(Workers)
    BY DEF OverrunIsBounded
  <2>1. OwnedBy(t) \subseteq Kept(t)
    BY OwnersAssumption DEF OwnedBy, Kept, RowOf, IInv, TypeOK, VCardsTypeOK, Exists, NotYet,
       Deleted, Tenants
  <2>2. Cardinality(OwnedBy(t)) <= Cardinality(Kept(t))
    BY <2>1, Finite, FS_Subset
  <2>3. p \in Nat
    BY LimitsAssumption
  <2> QED
    BY <2>2, <2>3, Finite DEF Under
<1> HIDE DEF Bounded
<1>4. QED
  BY <1>1, <1>2, <1>3, Invariance, PTL DEF Spec
=============================================================================
