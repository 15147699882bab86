--------------------------- MODULE AccountsProofs ---------------------------
(***************************************************************************)
(* Proofs about Accounts, for any number of addresses, workers, passwords  *)
(* and logins.                                                             *)
(***************************************************************************)
EXTENDS Accounts, TLAPS

-----------------------------------------------------------------------------
(* The inductive invariant.                                                *)

(* No row is ahead of the passwords set, and none loses its password.       *)
RowsBehind ==
    \A e \in Emails :
        /\ account[e].password <= newest[e]
        /\ newest[e] > 0 => account[e].password > 0

(* What a request holds: a row that was there, and a password some time     *)
(* set; a link that was mailed, made for the row.                           *)
CopiesBehind ==
    \A w \in Workers : req[w] # Idle =>
        /\ req[w].op # "register" => req[w].row.there /\ account[req[w].email].there
        /\ req[w].row.password <= newest[req[w].email]
        /\ req[w].op \in {"profile", "change"} => req[w].row.password > 0
        /\ req[w].op = "reset" =>
              /\ req[w].link \in resets
              /\ req[w].link.email = req[w].email
              /\ req[w].link.password = req[w].row.password

(* A link never holds a password to come, and a spent one only an old one.  *)
LinksBehind ==
    /\ \A l \in resets : l.password <= newest[l.email]
    /\ \A l \in spent : l.password < newest[l.email]

IInv ==
    /\ TypeOK
    /\ RowsBehind /\ CopiesBehind /\ LinksBehind
    /\ LinkWorksOnce /\ ChangesStick

-----------------------------------------------------------------------------
LEMMA IdleIsNone == Idle.op \notin Ops /\ Idle \notin Request
BY EmailsAssumption DEF Idle, Started, Ops, Request

LEMMA RowFacts ==
    ASSUME NEW r \in Rows \cup {NoRow}
    PROVE  /\ r.password \in Nat /\ r.login \in Nat /\ r.verified \in BOOLEAN
           /\ r.there \in BOOLEAN /\ (r.there => r \in Rows)
           /\ (r.password > 0 => r.there)
<1>1. CASE r \in Rows
  BY <1>1 DEF Rows
<1>2. CASE r = NoRow
  BY <1>2 DEF NoRow
<1> QED
  BY <1>1, <1>2

LEMMA RowIsRow ==
    ASSUME NEW p \in Nat, NEW v \in BOOLEAN, NEW n \in Nat
    PROVE  /\ Row(p, v, n) \in Rows /\ Row(p, v, n).there /\ Row(p, v, n).password = p
           /\ Row(p, v, n).verified = v /\ Row(p, v, n).login = n
BY DEF Row, Rows

LEMMA Initially == Init => IInv
<1> SUFFICES ASSUME Init PROVE IInv
  OBVIOUS
<1>1. TypeOK
  BY DEF Init, TypeOK
<1>2. RowsBehind /\ CopiesBehind /\ LinksBehind /\ LinkWorksOnce /\ ChangesStick
  BY DEF Init, RowsBehind, CopiesBehind, LinksBehind, LinkWorksOnce, ChangesStick, NoRow
<1> QED
  BY <1>1, <1>2 DEF IInv

(* A request begins with the row as it is.                                  *)
LEMMA BeginKeeps ==
    ASSUME IInv, NEW w \in Workers, NEW op \in Ops, NEW e \in Emails,
           NEW l \in Link \cup {NoLink}, Begin(w, op, e, l),
           op # "register" => account[e].there,
           op \in {"profile", "change"} => account[e].password > 0,
           op = "reset" => l \in resets /\ Fits(l) /\ l.email = e
    PROVE  IInv'
<1> DEFINE r == Started(op, e, account[e], l)
<1>1. /\ req' = [req EXCEPT ![w] = r]
      /\ UNCHANGED <<account, resets, verifies, newest, logins, proven, undone, spent,
                     twice, crossed>>
  BY DEF Begin, tables, history
<1>2. /\ r \in Request /\ r.op = op /\ r.email = e /\ r.row = account[e] /\ r.link = l
  BY DEF Request, Started, IInv, TypeOK
<1> HIDE DEF r
<1>3. \A v \in Workers : req'[v] = IF v = w THEN r ELSE req[v]
  BY <1>1 DEF IInv, TypeOK
<1>4. TypeOK'
  BY <1>1, <1>2 DEF IInv, TypeOK
<1>5. CopiesBehind'
  <2>1. op = "reset" => l.password = account[e].password
    BY DEF Fits, LinkFor
  <2>2. account[e].password <= newest[e]
    BY DEF IInv, RowsBehind
  <2> QED
    BY <1>1, <1>2, <1>3, <2>1, <2>2 DEF IInv, CopiesBehind
<1>6. RowsBehind' /\ LinksBehind' /\ LinkWorksOnce' /\ ChangesStick'
  BY <1>1 DEF IInv, RowsBehind, LinksBehind, LinkWorksOnce, ChangesStick
<1> QED
  BY <1>4, <1>5, <1>6 DEF IInv

(* A request is answered, or given up, or there is none; accounts stay and  *)
(* the passwords set only become more.                                      *)
LEMMA CopiesKept ==
    ASSUME IInv,
           \/ UNCHANGED req
           \/ \E w \in Workers : Finish(w),
           \A e \in Emails : account[e].there => account'[e].there,
           newest' \in [Emails -> Nat],
           \A e \in Emails : newest'[e] >= newest[e],
           resets \subseteq resets'
    PROVE  CopiesBehind' /\ req' \in [Workers -> Request \cup {Idle}]
<1>1. \A v \in Workers : req'[v] = Idle \/ req'[v] = req[v]
  BY DEF Finish, IInv, TypeOK
<1>2. req' \in [Workers -> Request \cup {Idle}]
  BY DEF Finish, IInv, TypeOK
<1>3. CopiesBehind'
  <2> SUFFICES ASSUME NEW v \in Workers, req[v] # Idle, req'[v] = req[v]
               PROVE  /\ req[v].op # "register" => req[v].row.there /\ account'[req[v].email].there
                      /\ req[v].row.password <= newest'[req[v].email]
                      /\ req[v].op \in {"profile", "change"} => req[v].row.password > 0
                      /\ req[v].op = "reset" =>
                            /\ req[v].link \in resets'
                            /\ req[v].link.email = req[v].email
                            /\ req[v].link.password = req[v].row.password
    BY <1>1 DEF CopiesBehind
  <2>1. PICK e \in Emails : e = req[v].email
    BY DEF IInv, TypeOK, Request
  <2>2. /\ req[v].op # "register" => req[v].row.there /\ account[e].there
        /\ req[v].row.password <= newest[e]
        /\ req[v].op \in {"profile", "change"} => req[v].row.password > 0
        /\ req[v].op = "reset" =>
              /\ req[v].link \in resets
              /\ req[v].link.email = e
              /\ req[v].link.password = req[v].row.password
    BY <2>1 DEF IInv, CopiesBehind
  <2>3. req[v].row \in Rows \cup {NoRow}
    BY DEF IInv, TypeOK, Request
  <2>4. req[v].row.password \in Nat /\ newest[e] \in Nat /\ newest'[e] \in Nat
    BY <2>3, RowFacts DEF IInv, TypeOK
  <2> QED
    BY <2>1, <2>2, <2>4
<1> QED
  BY <1>2, <1>3

LEMMA AbortKeeps == ASSUME IInv, NEW w \in Workers, Abort(w) PROVE IInv'
<1>1. Finish(w) /\ UNCHANGED <<account, resets, verifies, newest, logins, proven, undone, spent,
                               twice, crossed>>
  BY DEF Abort, tables, history
<1>2. CopiesBehind' /\ req' \in [Workers -> Request \cup {Idle}]
  <2>1. newest' \in [Emails -> Nat] /\ \A e \in Emails : newest'[e] >= newest[e]
    BY <1>1 DEF IInv, TypeOK
  <2> QED
    BY <1>1, <2>1, CopiesKept
<1> QED
  BY <1>1, <1>2 DEF IInv, TypeOK, RowsBehind, LinksBehind, LinkWorksOnce, ChangesStick

(* Links are mailed; no account changes.                                    *)
LEMMA ForgotKeeps == ASSUME IInv, Forgot PROVE IInv'
<1>1. PICK e \in Emails : account[e].there /\ resets' = resets \cup {LinkFor(e)}
  BY DEF Forgot, SendReset
<1>2. UNCHANGED <<account, verifies, req, newest, logins, proven, undone, spent, twice, crossed>>
  BY DEF Forgot, history
<1>3. LinkFor(e) \in Link /\ LinkFor(e).email = e /\ LinkFor(e).password = account[e].password
  <2>1. account[e].password \in Nat /\ account[e].login \in Nat
    BY RowFacts DEF IInv, TypeOK
  <2> QED
    BY <2>1 DEF LinkFor, Link
<1>4. TypeOK'
  BY <1>1, <1>2, <1>3 DEF IInv, TypeOK
<1>5. LinksBehind'
  BY <1>1, <1>2, <1>3 DEF IInv, LinksBehind, RowsBehind
<1>6. CopiesBehind'
  BY <1>1, <1>2 DEF IInv, CopiesBehind
<1>7. RowsBehind' /\ LinkWorksOnce' /\ ChangesStick'
  BY <1>2 DEF IInv, RowsBehind, LinkWorksOnce, ChangesStick
<1> QED
  BY <1>4, <1>5, <1>6, <1>7 DEF IInv

LEMMA ResendKeeps == ASSUME IInv, Resend PROVE IInv'
<1>1. PICK e \in Emails : account[e].password > 0 /\ verifies' = verifies \cup {e}
  BY DEF Resend, SendVerification
<1>2. UNCHANGED <<account, resets, req, newest, logins, proven, undone, spent, twice, crossed>>
  BY DEF Resend, history
<1>3. account[e].there
  BY <1>1, RowFacts DEF IInv, TypeOK
<1>4. TypeOK'
  BY <1>1, <1>2, <1>3 DEF IInv, TypeOK
<1>5. CopiesBehind' /\ RowsBehind' /\ LinksBehind' /\ LinkWorksOnce' /\ ChangesStick'
  BY <1>2 DEF IInv, CopiesBehind, RowsBehind, LinksBehind, LinkWorksOnce, ChangesStick
<1> QED
  BY <1>4, <1>5 DEF IInv

LEMMA InviteKeeps == ASSUME IInv, Invite PROVE IInv'
<1>1. PICK e \in Emails : ~account[e].there /\ account' = [account EXCEPT ![e] = Row(0, FALSE, 0)]
  BY DEF Invite
<1>2. UNCHANGED <<resets, verifies, req, newest, logins, proven, undone, spent, twice, crossed>>
  BY DEF Invite, history
<1>3. /\ Row(0, FALSE, 0) \in Rows /\ Row(0, FALSE, 0).there
      /\ Row(0, FALSE, 0).password = 0 /\ Row(0, FALSE, 0).verified = FALSE
  BY DEF Row, Rows
<1>4. \A d \in Emails : account'[d] = IF d = e THEN Row(0, FALSE, 0) ELSE account[d]
  BY <1>1 DEF IInv, TypeOK
<1>5. account[e] = NoRow /\ account[e].password = 0 /\ account[e].verified = FALSE
  <2>1. account[e] \in Rows \cup {NoRow}
    BY DEF IInv, TypeOK
  <2>2. CASE account[e] \in Rows
    BY <1>1, <2>2 DEF Rows
  <2>3. CASE account[e] = NoRow
    BY <2>3 DEF NoRow
  <2> QED
    BY <2>1, <2>2, <2>3
<1>6. TypeOK'
  <2>1. account' \in [Emails -> Rows \cup {NoRow}]
    BY <1>1, <1>3 DEF IInv, TypeOK
  <2>2. \A l \in resets : account'[l.email].there
    BY <1>3, <1>4 DEF IInv, TypeOK, Link
  <2>3. \A d \in verifies : account'[d].there
    BY <1>3, <1>4 DEF IInv, TypeOK
  <2> QED
    BY <1>2, <2>1, <2>2, <2>3 DEF IInv, TypeOK
<1>7. RowsBehind' /\ ChangesStick'
  BY <1>2, <1>3, <1>4, <1>5 DEF IInv, RowsBehind, ChangesStick
<1>8. CopiesBehind'
  <2>1. newest' \in [Emails -> Nat] /\ \A d \in Emails : newest'[d] >= newest[d]
    BY <1>2 DEF IInv, TypeOK
  <2> QED
    BY <1>2, <1>3, <1>4, <2>1, CopiesKept
<1>9. LinksBehind' /\ LinkWorksOnce'
  BY <1>2 DEF IInv, LinksBehind, LinkWorksOnce
<1> QED
  BY <1>6, <1>7, <1>8, <1>9 DEF IInv

(* A new password: the row holds it, and everything else is older.          *)
LEMMA PasswordSaved ==
    ASSUME IInv, NEW e \in Emails, SavePassword(e)
    PROVE  /\ account' \in [Emails -> Rows \cup {NoRow}] /\ newest' \in [Emails -> Nat]
           /\ account'[e].there /\ account'[e].password = newest'[e]
           /\ account'[e].verified = account[e].verified
           /\ newest'[e] = newest[e] + 1
           /\ \A d \in Emails : d # e => account'[d] = account[d] /\ newest'[d] = newest[d]
           /\ \A d \in Emails : newest'[d] >= newest[d]
           /\ \A d \in Emails : account[d].there => account'[d].there
           /\ RowsBehind'
<1>1. newest[e] \in Nat /\ account[e] \in Rows \cup {NoRow}
  BY DEF IInv, TypeOK
<1>2. account[e].verified \in BOOLEAN /\ account[e].login \in Nat
  BY <1>1, RowFacts
<1> DEFINE row == Row(newest[e] + 1, account[e].verified, account[e].login)
<1>3. /\ row \in Rows /\ row.there /\ row.password = newest[e] + 1
      /\ row.verified = account[e].verified
  BY <1>1, <1>2, RowIsRow
<1> HIDE DEF row
<1>4. account' = [account EXCEPT ![e] = row] /\ newest' = [newest EXCEPT ![e] = newest[e] + 1]
  BY DEF SavePassword, row
<1>5. /\ account' \in [Emails -> Rows \cup {NoRow}] /\ newest' \in [Emails -> Nat]
      /\ \A d \in Emails : account'[d] = IF d = e THEN row ELSE account[d]
      /\ \A d \in Emails : newest'[d] = IF d = e THEN newest[e] + 1 ELSE newest[d]
  BY <1>1, <1>3, <1>4 DEF IInv, TypeOK
<1>6. \A d \in Emails : newest[d] \in Nat
  BY DEF IInv, TypeOK
<1>7. RowsBehind'
  BY <1>1, <1>3, <1>5 DEF IInv, RowsBehind
<1> QED
  BY <1>1, <1>3, <1>5, <1>6, <1>7

LEMMA RegisterKeeps == ASSUME IInv, NEW w \in Workers, RegisterCommit(w) PROVE IInv'
<1>1. PICK e : e = req[w].email
  OBVIOUS
<1>2. /\ ~account[e].there /\ SavePassword(e) /\ verifies' = verifies \cup {e} /\ Finish(w)
      /\ UNCHANGED <<resets, logins, proven, undone, spent, twice, crossed>>
  BY <1>1 DEF RegisterCommit, Refused, SendVerification
<1>3. e \in Emails
  BY <1>1 DEF RegisterCommit, IInv, TypeOK, Request, Idle, Started
<1>4. /\ account' \in [Emails -> Rows \cup {NoRow}] /\ newest' \in [Emails -> Nat]
      /\ account'[e].there /\ account'[e].password = newest'[e]
      /\ account'[e].verified = account[e].verified
      /\ newest'[e] = newest[e] + 1
      /\ \A d \in Emails : d # e => account'[d] = account[d] /\ newest'[d] = newest[d]
      /\ \A d \in Emails : newest'[d] >= newest[d]
      /\ \A d \in Emails : account[d].there => account'[d].there
      /\ RowsBehind'
  BY <1>2, <1>3, PasswordSaved
<1>5. CopiesBehind' /\ req' \in [Workers -> Request \cup {Idle}]
  BY <1>2, <1>4, CopiesKept
<1>6. TypeOK'
  BY <1>2, <1>3, <1>4, <1>5 DEF IInv, TypeOK, Link
<1>7. LinksBehind'
  BY <1>2, <1>4 DEF IInv, LinksBehind, TypeOK, Link
<1>8. ChangesStick' /\ LinkWorksOnce'
  BY <1>2, <1>3, <1>4 DEF IInv, ChangesStick, LinkWorksOnce
<1> QED
  BY <1>4, <1>5, <1>6, <1>7, <1>8 DEF IInv

LEMMA ChangeKeeps == ASSUME IInv, NEW w \in Workers, ChangeCommit(w) PROVE IInv'
<1>1. PICK e : e = req[w].email
  OBVIOUS
<1>2. /\ SavePassword(e) /\ Finish(w)
      /\ UNCHANGED <<resets, verifies, logins, proven, undone, spent, twice, crossed>>
  BY <1>1 DEF ChangeCommit
<1>3. e \in Emails
  BY <1>1 DEF ChangeCommit, IInv, TypeOK, Request, Idle, Started
<1>4. /\ account' \in [Emails -> Rows \cup {NoRow}] /\ newest' \in [Emails -> Nat]
      /\ account'[e].there /\ account'[e].password = newest'[e]
      /\ account'[e].verified = account[e].verified
      /\ newest'[e] = newest[e] + 1
      /\ \A d \in Emails : d # e => account'[d] = account[d] /\ newest'[d] = newest[d]
      /\ \A d \in Emails : newest'[d] >= newest[d]
      /\ \A d \in Emails : account[d].there => account'[d].there
      /\ RowsBehind'
  BY <1>2, <1>3, PasswordSaved
<1>5. CopiesBehind' /\ req' \in [Workers -> Request \cup {Idle}]
  BY <1>2, <1>4, CopiesKept
<1>6. TypeOK'
  BY <1>2, <1>4, <1>5 DEF IInv, TypeOK, Link
<1>7. LinksBehind'
  BY <1>2, <1>4 DEF IInv, LinksBehind, TypeOK, Link
<1>8. ChangesStick' /\ LinkWorksOnce'
  BY <1>2, <1>3, <1>4 DEF IInv, ChangesStick, LinkWorksOnce
<1> QED
  BY <1>4, <1>5, <1>6, <1>7, <1>8 DEF IInv

LEMMA ResetKeeps == ASSUME IInv, NEW w \in Workers, ResetCommit(w) PROVE IInv'
<1>1. PICK l : l = req[w].link
  OBVIOUS
<1>2. PICK e : e = l.email
  OBVIOUS
<1>3. /\ SavePassword(e) /\ Finish(w)
      /\ spent' = spent \cup {l}
      /\ twice' = IF l \in spent THEN twice \cup {l} ELSE twice
      /\ crossed' = IF account[e].password = req[w].row.password
                    THEN crossed ELSE crossed \cup {l}
      /\ UNCHANGED <<resets, verifies, logins, proven, undone>>
  BY <1>1, <1>2 DEF ResetCommit
<1>4. l \in resets /\ l \in Link /\ e \in Emails /\ l.password = req[w].row.password
  <2>1. req[w] # Idle
    BY IdleIsNone DEF ResetCommit, Ops
  <2> QED
    BY <1>1, <1>2, <2>1 DEF ResetCommit, IInv, CopiesBehind, TypeOK, Link
<1>5. /\ account' \in [Emails -> Rows \cup {NoRow}] /\ newest' \in [Emails -> Nat]
      /\ account'[e].there /\ account'[e].password = newest'[e]
      /\ account'[e].verified = account[e].verified
      /\ newest'[e] = newest[e] + 1
      /\ \A d \in Emails : d # e => account'[d] = account[d] /\ newest'[d] = newest[d]
      /\ \A d \in Emails : newest'[d] >= newest[d]
      /\ \A d \in Emails : account[d].there => account'[d].there
      /\ RowsBehind'
  BY <1>3, <1>4, PasswordSaved
<1>6. CopiesBehind' /\ req' \in [Workers -> Request \cup {Idle}]
  BY <1>3, <1>5, CopiesKept
<1>7. TypeOK'
  <2>1. spent' \subseteq resets' /\ twice' \subseteq spent' /\ crossed' \subseteq spent'
    BY <1>3, <1>4 DEF IInv, TypeOK
  <2> QED
    BY <1>3, <1>5, <1>6, <2>1 DEF IInv, TypeOK, Link
<1>8. LinksBehind'
  <2>1. l.password <= newest[e] /\ l.password \in Nat /\ newest[e] \in Nat
    BY <1>2, <1>4 DEF IInv, LinksBehind, TypeOK, Link
  <2>2. l.password < newest'[e]
    BY <1>5, <2>1
  <2>3. \A k \in resets : k.email \in Emails /\ k.password \in Nat /\ spent \subseteq resets
    BY DEF IInv, TypeOK, Link
  <2>4. \A k \in resets : newest[k.email] \in Nat /\ newest'[k.email] \in Nat
                           /\ newest'[k.email] >= newest[k.email]
    BY <1>5, <2>3 DEF IInv, TypeOK
  <2>5. \A k \in resets : k.password <= newest'[k.email]
    BY <2>3, <2>4 DEF IInv, LinksBehind
  <2>6. \A k \in spent : k.password < newest'[k.email]
    <3> SUFFICES ASSUME NEW k \in spent PROVE k.password < newest'[k.email]
      OBVIOUS
    <3>1. k \in resets
      BY DEF IInv, TypeOK
    <3>2. k.password < newest[k.email]
      BY DEF IInv, LinksBehind
    <3> QED
      BY <2>3, <2>4, <3>1, <3>2
  <2> QED
    BY <1>2, <1>3, <2>2, <2>5, <2>6 DEF LinksBehind
<1>9. LinkWorksOnce'
  <2>1. ASSUME l \in spent, e \notin undone PROVE l \in crossed'
    <3>1. l.password < newest[e]
      BY <1>2, <2>1 DEF IInv, LinksBehind
    <3>2. account[e].password = newest[e]
      BY <1>4, <2>1 DEF IInv, ChangesStick
    <3>3. account[e].password # l.password
      BY <1>4, <3>1, <3>2 DEF IInv, TypeOK, Link
    <3> QED
      BY <1>3, <1>4, <3>3
  <2>2. crossed \subseteq crossed'
    BY <1>3
  <2> QED
    BY <1>2, <1>3, <2>1, <2>2 DEF IInv, LinkWorksOnce
<1>10. ChangesStick'
  BY <1>3, <1>4, <1>5 DEF IInv, ChangesStick
<1> QED
  BY <1>5, <1>6, <1>7, <1>8, <1>9, <1>10 DEF IInv

(* A request that saves a row and sets no password.                         *)
LEMMA RowSaved ==
    ASSUME IInv, NEW e \in Emails, NEW row \in Rows, row.there,
           account' = [account EXCEPT ![e] = row],
           UNCHANGED newest,
           row.password <= newest[e],
           newest[e] > 0 => row.password > 0,
           NEW w \in Workers, Finish(w),
           UNCHANGED <<resets, verifies, spent, twice, crossed>>,
           logins' \in [Emails -> Nat],
           proven' \subseteq Emails, undone' \subseteq Emails, undone \subseteq undone',
           e \notin undone' => /\ row.password = newest[e]
                               /\ e \in proven' => row.verified,
           \A d \in Emails : d # e /\ d \in proven' => d \in proven
    PROVE  IInv'
<1>1. \A d \in Emails : account'[d] = IF d = e THEN row ELSE account[d]
  BY DEF IInv, TypeOK
<1>2. CopiesBehind' /\ req' \in [Workers -> Request \cup {Idle}]
  <2>1. newest' \in [Emails -> Nat] /\ \A d \in Emails : newest'[d] >= newest[d]
    BY DEF IInv, TypeOK
  <2> QED
    BY <1>1, <2>1, CopiesKept
<1>3. TypeOK'
  <2>1. account' \in [Emails -> Rows \cup {NoRow}]
    BY DEF IInv, TypeOK
  <2>2. \A l \in resets : account'[l.email].there
    BY <1>1 DEF IInv, TypeOK, Link
  <2>3. \A d \in verifies : account'[d].there
    BY <1>1 DEF IInv, TypeOK
  <2> QED
    BY <1>2, <2>1, <2>2, <2>3 DEF IInv, TypeOK
<1>4. RowsBehind' /\ LinksBehind'
  BY <1>1 DEF IInv, RowsBehind, LinksBehind
<1>5. LinkWorksOnce'
  BY DEF IInv, LinkWorksOnce
<1>6. ChangesStick'
  BY <1>1 DEF IInv, ChangesStick
<1> QED
  BY <1>2, <1>3, <1>4, <1>5, <1>6 DEF IInv

(* An account that has requests other than its registration is there.       *)
LEMMA InFlight ==
    ASSUME IInv, NEW w \in Workers, req[w].op \in {"login", "profile", "verify"}
    PROVE  /\ req[w].email \in Emails /\ account[req[w].email] \in Rows
           /\ req[w].row \in Rows /\ req[w].row.there
           /\ req[w].row.password <= newest[req[w].email]
           /\ req[w].op = "profile" => req[w].row.password > 0
<1>1. req[w] # Idle
  BY DEF Idle, Started
<1>2. req[w] \in Request
  BY <1>1 DEF IInv, TypeOK
<1>3. req[w].email \in Emails /\ req[w].row \in Rows \cup {NoRow}
  BY <1>2 DEF Request
<1>4. /\ req[w].row.there /\ account[req[w].email].there
      /\ req[w].row.password <= newest[req[w].email]
      /\ req[w].op = "profile" => req[w].row.password > 0
  BY <1>1 DEF IInv, CopiesBehind
<1>5. account[req[w].email] \in Rows \cup {NoRow}
  BY <1>3 DEF IInv, TypeOK
<1> QED
  BY <1>3, <1>4, <1>5, RowFacts

LEMMA LoginKeeps == ASSUME IInv, NEW w \in Workers, LoginCommit(w) PROVE IInv'
<1>1. PICK e : e = req[w].email
  OBVIOUS
<1>2. /\ logins' = [logins EXCEPT ![e] = logins[e] + 1]
      /\ account' = [account EXCEPT ![e] =
            Row(account[e].password, account[e].verified, logins[e] + 1)]
      /\ Finish(w)
      /\ UNCHANGED <<resets, verifies, newest, proven, undone, spent, twice, crossed>>
  BY <1>1 DEF LoginCommit
<1>3. e \in Emails /\ account[e] \in Rows
  BY <1>1, InFlight DEF LoginCommit
<1>4. logins[e] \in Nat /\ logins' \in [Emails -> Nat]
  BY <1>2, <1>3 DEF IInv, TypeOK
<1> DEFINE row == Row(account[e].password, account[e].verified, logins[e] + 1)
<1>5. /\ row \in Rows /\ row.there /\ row.password = account[e].password
      /\ row.verified = account[e].verified
  <2>1. account[e].password \in Nat /\ account[e].verified \in BOOLEAN /\ logins[e] + 1 \in Nat
    BY <1>3, <1>4, RowFacts
  <2> QED
    BY <2>1, RowIsRow
<1>6. account' = [account EXCEPT ![e] = row]
  BY <1>2
<1> HIDE DEF row
<1>7. /\ row.password <= newest[e] /\ (newest[e] > 0 => row.password > 0)
      /\ proven \subseteq Emails /\ undone \subseteq Emails
      /\ e \notin undone => /\ row.password = newest[e]
                            /\ e \in proven => row.verified
  BY <1>3, <1>5 DEF IInv, TypeOK, RowsBehind, ChangesStick
<1> QED
  BY <1>2, <1>3, <1>4, <1>5, <1>6, <1>7, RowSaved

LEMMA ProfileKeeps == ASSUME IInv, NEW w \in Workers, ProfileCommit(w) PROVE IInv'
<1>1. PICK e : e = req[w].email
  OBVIOUS
<1>2. PICK row : row = req[w].row
  OBVIOUS
<1>3. /\ account' = [account EXCEPT ![e] = row]
      /\ undone' = IF account[e] = row THEN undone ELSE undone \cup {e}
      /\ Finish(w)
      /\ UNCHANGED <<resets, verifies, newest, logins, proven, spent, twice, crossed>>
  BY <1>1, <1>2 DEF ProfileCommit
<1>4. /\ e \in Emails /\ row \in Rows /\ row.there
      /\ row.password <= newest[e] /\ row.password > 0
  BY <1>1, <1>2, InFlight DEF ProfileCommit
<1>5. /\ proven' \subseteq Emails /\ undone' \subseteq Emails /\ undone \subseteq undone'
      /\ logins' \in [Emails -> Nat]
  BY <1>3, <1>4 DEF IInv, TypeOK
<1>6. e \notin undone' => /\ row.password = newest[e]
                          /\ e \in proven' => row.verified
  BY <1>3, <1>4 DEF IInv, ChangesStick
<1> QED
  BY <1>3, <1>4, <1>5, <1>6, RowSaved

LEMMA VerifyKeeps == ASSUME IInv, NEW w \in Workers, VerifyCommit(w) PROVE IInv'
<1>1. PICK e : e = req[w].email
  OBVIOUS
<1> DEFINE row == Row(account[e].password, TRUE, account[e].login)
<1>2. /\ account' = [account EXCEPT ![e] = row]
      /\ proven' = proven \cup {e}
      /\ Finish(w)
      /\ UNCHANGED <<resets, verifies, newest, logins, undone, spent, twice, crossed>>
  BY <1>1 DEF VerifyCommit, Verified
<1>3. e \in Emails /\ account[e] \in Rows
  BY <1>1, InFlight DEF VerifyCommit
<1>4. row \in Rows /\ row.there /\ row.password = account[e].password /\ row.verified
  <2>1. account[e].password \in Nat /\ account[e].login \in Nat
    BY <1>3 DEF Rows
  <2> QED
    BY <2>1, RowIsRow
<1> HIDE DEF row
<1>5. /\ row.password <= newest[e] /\ (newest[e] > 0 => row.password > 0)
      /\ proven' \subseteq Emails /\ undone' \subseteq Emails /\ undone \subseteq undone'
      /\ logins' \in [Emails -> Nat]
      /\ e \notin undone' => row.password = newest[e]
  BY <1>2, <1>3, <1>4 DEF IInv, TypeOK, RowsBehind, ChangesStick
<1>6. \A d \in Emails : d # e /\ d \in proven' => d \in proven
  BY <1>2
<1> QED
  BY <1>2, <1>3, <1>4, <1>5, <1>6, RowSaved

LEMMA BeginsKeep ==
    ASSUME IInv, NEW w \in Workers,
           \/ RegisterBegin(w) \/ LoginBegin(w) \/ ProfileBegin(w)
           \/ ChangeBegin(w) \/ ResetBegin(w) \/ VerifyBegin(w)
    PROVE  IInv'
<1>1. \A e \in Emails : account[e].password > 0 => account[e].there
  BY RowFacts DEF IInv, TypeOK
<1>2. NoLink \in Link \cup {NoLink}
  OBVIOUS
<1>3. CASE RegisterBegin(w)
  <2>1. PICK e \in Emails : Begin(w, "register", e, NoLink)
    BY <1>3 DEF RegisterBegin
  <2>2. "register" \in Ops
    BY DEF Ops
  <2> QED
    BY <1>2, <2>1, <2>2, BeginKeeps
<1>4. CASE LoginBegin(w)
  <2>1. PICK e \in Emails : account[e].password > 0 /\ Begin(w, "login", e, NoLink)
    BY <1>4 DEF LoginBegin
  <2>2. "login" \in Ops
    BY DEF Ops
  <2> QED
    BY <1>1, <1>2, <2>1, <2>2, BeginKeeps
<1>5. CASE ProfileBegin(w)
  <2>1. PICK e \in Emails : account[e].password > 0 /\ Begin(w, "profile", e, NoLink)
    BY <1>5 DEF ProfileBegin
  <2>2. "profile" \in Ops
    BY DEF Ops
  <2> QED
    BY <1>1, <1>2, <2>1, <2>2, BeginKeeps
<1>6. CASE ChangeBegin(w)
  <2>1. PICK e \in Emails : account[e].password > 0 /\ Begin(w, "change", e, NoLink)
    BY <1>6 DEF ChangeBegin
  <2>2. "change" \in Ops
    BY DEF Ops
  <2> QED
    BY <1>1, <1>2, <2>1, <2>2, BeginKeeps
<1>7. CASE ResetBegin(w)
  <2>1. PICK l \in resets : Fits(l) /\ Begin(w, "reset", l.email, l)
    BY <1>7 DEF ResetBegin
  <2>2. "reset" \in Ops
    BY DEF Ops
  <2>3. l \in Link /\ l.email \in Emails /\ account[l.email].there
    BY DEF IInv, TypeOK, Link
  <2> QED
    BY <2>1, <2>2, <2>3, BeginKeeps
<1>8. CASE VerifyBegin(w)
  <2>1. PICK e \in verifies : Begin(w, "verify", e, NoLink)
    BY <1>8 DEF VerifyBegin
  <2>2. "verify" \in Ops
    BY DEF Ops
  <2>3. e \in Emails /\ account[e].there
    BY DEF IInv, TypeOK
  <2> QED
    BY <1>2, <2>1, <2>2, <2>3, BeginKeeps
<1> QED
  BY <1>3, <1>4, <1>5, <1>6, <1>7, <1>8

LEMMA Step == IInv /\ [Next]_vars => IInv'
<1> SUFFICES ASSUME IInv, [Next]_vars PROVE IInv'
  OBVIOUS
<1>1. CASE UNCHANGED vars
  BY <1>1 DEF vars, tables, history, IInv, TypeOK, RowsBehind, CopiesBehind, LinksBehind,
              LinkWorksOnce, ChangesStick
<1>2. ASSUME NEW w \in Workers, RequestStep(w) PROVE IInv'
  BY <1>2, BeginsKeep, RegisterKeeps, LoginKeeps, ProfileKeeps, ChangeKeeps, ResetKeeps,
     VerifyKeeps, AbortKeeps DEF RequestStep
<1> QED
  BY <1>1, <1>2, InviteKeeps, ForgotKeeps, ResendKeeps DEF Next

-----------------------------------------------------------------------------
(* The theorems.                                                           *)

(* The inductive invariant holds in every behaviour.                        *)
THEOREM Invariance == Spec => []IInv
BY Initially, Step, PTL DEF Spec

(* Rows, links and requests are well formed (models.User, the views).       *)
THEOREM TypeCorrect == Spec => []TypeOK
<1>1. IInv => TypeOK
  BY DEF IInv
<1> QED
  BY <1>1, Invariance, PTL

(* A reset link sets one password, unless requests crossed or a stale PATCH *)
(* put its row back (ResetPasswordView).                                    *)
THEOREM LinksWorkOnce == Spec => []LinkWorksOnce
<1>1. IInv => LinkWorksOnce
  BY DEF IInv
<1> QED
  BY <1>1, Invariance, PTL

(* Passwords and proven addresses are only lost to a stale PATCH (the       *)
(* update_fields of the other views).                                       *)
THEOREM ChangesAreKept == Spec => []ChangesStick
<1>1. IInv => ChangesStick
  BY DEF IInv
<1> QED
  BY <1>1, Invariance, PTL

(* Which step gives an invited user a password.                             *)
LEMMA InvitedStep ==
    ASSUME IInv, Next, NEW e \in Emails, account[e].there, account[e].password = 0,
           account'[e].password # 0
    PROVE  \E l \in resets : l.email = e /\ l.password = 0
<1>1. newest[e] = 0
  BY DEF IInv, RowsBehind, TypeOK
<1>2. account # account'
  OBVIOUS
<1>3. ASSUME NEW w \in Workers, RequestStep(w)
      PROVE  \E l \in resets : l.email = e /\ l.password = 0
  <2>1. PICK d : d = req[w].email
    OBVIOUS
  <2>2. CASE RegisterCommit(w)
    <3>1. d \in Emails
      BY <2>1, <2>2 DEF RegisterCommit, IInv, TypeOK, Request, Idle, Started
    <3>2. ~account[d].there /\ SavePassword(d)
      BY <2>1, <2>2 DEF RegisterCommit, Refused
    <3>3. d # e => account'[e] = account[e]
      BY <3>1, <3>2, PasswordSaved
    <3> QED
      BY <3>2, <3>3
  <2>3. CASE LoginCommit(w)
    <3>1. d \in Emails /\ account[d] \in Rows
      BY <2>1, <2>3, InFlight DEF LoginCommit
    <3>2. account' = [account EXCEPT ![d] =
              Row(account[d].password, account[d].verified, logins[d] + 1)]
      BY <2>1, <2>3 DEF LoginCommit
    <3>3. account'[e].password = account[e].password
      BY <3>1, <3>2 DEF IInv, TypeOK, Row
    <3> QED
      BY <3>3
  <2>4. CASE ProfileCommit(w)
    <3>1. /\ d \in Emails /\ req[w].row \in Rows /\ req[w].row.password <= newest[d]
          /\ req[w].row.password > 0
      BY <2>1, <2>4, InFlight DEF ProfileCommit
    <3>2. account' = [account EXCEPT ![d] = req[w].row]
      BY <2>1, <2>4 DEF ProfileCommit
    <3>3. d # e
      BY <1>1, <3>1, RowFacts
    <3> QED
      BY <3>2, <3>3 DEF IInv, TypeOK
  <2>5. CASE ChangeCommit(w)
    <3>1. d \in Emails
      BY <2>1, <2>5 DEF ChangeCommit, IInv, TypeOK, Request, Idle, Started
    <3>2. req[w] # Idle /\ req[w].op = "change"
      BY <2>5 DEF ChangeCommit, Idle, Started
    <3>3. req[w].row.password > 0 /\ req[w].row.password <= newest[d]
      BY <2>1, <3>2 DEF IInv, CopiesBehind
    <3>4. req[w].row \in Rows \cup {NoRow}
      BY <3>2 DEF IInv, TypeOK, Request
    <3>5. d # e
      BY <1>1, <3>3, <3>4, RowFacts
    <3>6. account'[e] = account[e]
      BY <2>1, <2>5, <3>1, <3>5, PasswordSaved DEF ChangeCommit
    <3> QED
      BY <3>6
  <2>6. CASE ResetCommit(w)
    <3>1. PICK l : l = req[w].link
      OBVIOUS
    <3>2. req[w] # Idle
      BY <2>6 DEF ResetCommit, Idle, Started
    <3>3. l \in resets /\ l \in Link
      BY <2>6, <3>1, <3>2 DEF ResetCommit, IInv, CopiesBehind, TypeOK
    <3>4. SavePassword(l.email) /\ l.email \in Emails
      BY <2>6, <3>1, <3>3 DEF ResetCommit, Link
    <3>5. l.email = e
      BY <3>4, PasswordSaved
    <3>6. l.password <= newest[l.email] /\ l.password \in Nat
      BY <3>3 DEF IInv, LinksBehind, Link
    <3>7. l.password = 0
      BY <1>1, <3>5, <3>6
    <3> QED
      BY <3>3, <3>5, <3>7
  <2>7. CASE VerifyCommit(w)
    <3>1. d \in Emails /\ account[d] \in Rows
      BY <2>1, <2>7, InFlight DEF VerifyCommit
    <3>2. account' = [account EXCEPT ![d] = Row(account[d].password, TRUE, account[d].login)]
      BY <2>1, <2>7 DEF VerifyCommit, Verified
    <3>3. account'[e].password = account[e].password
      BY <3>1, <3>2 DEF IInv, TypeOK, Row
    <3> QED
      BY <3>3
  <2>8. CASE Abort(w)
    BY <1>2, <2>8 DEF Abort, tables
  <2>9. CASE \/ RegisterBegin(w) \/ LoginBegin(w) \/ ProfileBegin(w)
             \/ ChangeBegin(w) \/ ResetBegin(w) \/ VerifyBegin(w)
    BY <1>2, <2>9 DEF RegisterBegin, LoginBegin, ProfileBegin, ChangeBegin, ResetBegin,
                      VerifyBegin, Begin, tables
  <2> QED
    BY <1>3, <2>2, <2>3, <2>4, <2>5, <2>6, <2>7, <2>8, <2>9 DEF RequestStep
<1>4. CASE Invite
  <2>1. PICK d \in Emails : ~account[d].there /\ account' = [account EXCEPT ![d] = Row(0, FALSE, 0)]
    BY <1>4 DEF Invite
  <2> QED
    BY <2>1 DEF IInv, TypeOK
<1>5. CASE Forgot \/ Resend
  BY <1>2, <1>5 DEF Forgot, Resend
<1> QED
  BY <1>3, <1>4, <1>5 DEF Next

(* An invited user's first password comes from a link mailed to the address *)
(* (RegisterView, invite_member).                                           *)
THEOREM InvitedOpenByLink == Spec => InvitedOpensByLink
<1>1. IInv /\ [Next]_vars =>
          [\A e \in Emails :
             account[e].there /\ account[e].password = 0 /\ account'[e].password # 0 =>
                 \E l \in resets : l.email = e /\ l.password = 0]_vars
  BY InvitedStep
<1> QED
  BY <1>1, Invariance, PTL DEF Spec, InvitedOpensByLink
=============================================================================
