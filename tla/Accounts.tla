------------------------------ MODULE Accounts ------------------------------
(***************************************************************************)
(* User accounts: registration, invitation, login, passwords and the links *)
(* mailed for resetting them and for verifying an address (apps/accounts). *)
(*                                                                         *)
(* A request reads the user in one step and saves in another (READ         *)
(* COMMITTED, ATOMIC_REQUESTS).  Views save the columns they change, but a *)
(* PATCH of the profile (MeView) saves the whole row it read.              *)
(*                                                                         *)
(* Passwords are numbered in the order they are set; hashes are salted, so *)
(* no two are alike.  Links are told apart by what their token is made of. *)
(***************************************************************************)
EXTENDS Integers

CONSTANTS
    Emails,       \* the unique, lower-cased addresses: one account each
    Workers,      \* web workers
    MaxPasswords, \* bound: passwords set for an account
    MaxLogins     \* bound: logins of an account

ASSUME BoundsAssumption == {MaxPasswords, MaxLogins} \subseteq Nat
ASSUME EmailsAssumption == "none" \notin Emails

VARIABLES
    account,      \* the User table
    resets,       \* reset links mailed
    verifies,     \* addresses a verification link was mailed to
    req,          \* what each web worker is doing
    newest,       \* history: the last password set for each account
    logins,       \* history: how often each account logged in
    proven,       \* history: addresses a link proved
    undone,       \* history: accounts whose row a stale PATCH replaced
    spent, twice, \* history: links that set a password, and again
    crossed       \* history: links whose request overlapped another change

tables == <<account, resets, verifies>>
history == <<newest, logins, proven, undone, spent, twice, crossed>>
vars == <<tables, req, history>>

-----------------------------------------------------------------------------
(* password 0: none that can be checked (an invited user).                  *)
Row(password, verified, login) ==
    [there |-> TRUE, password |-> password, verified |-> verified, login |-> login]
NoRow == [there |-> FALSE, password |-> 0, verified |-> FALSE, login |-> 0]
Rows == [there: {TRUE}, password: Nat, verified: BOOLEAN, login: Nat]

Link == [email: Emails, password: Nat, login: Nat]
NoLink == [email |-> "none", password |-> 0, login |-> 0]

Ops == {"register", "login", "profile", "change", "reset", "verify"}

(* A request in flight: the row it read and the link it was given.          *)
Started(op, e, row, link) == [op |-> op, email |-> e, row |-> row, link |-> link]
Request == [op: Ops, email: Emails, row: Rows \cup {NoRow}, link: Link \cup {NoLink}]
Idle == Started("idle", "none", NoRow, NoLink)

Init ==
    /\ account = [e \in Emails |-> NoRow]
    /\ resets = {} /\ verifies = {}
    /\ req = [w \in Workers |-> Idle]
    /\ newest = [e \in Emails |-> 0]
    /\ logins = [e \in Emails |-> 0]
    /\ proven = {} /\ undone = {} /\ spent = {} /\ twice = {} /\ crossed = {}

-----------------------------------------------------------------------------
Begin(w, op, e, link) ==
    /\ req[w] = Idle
    /\ req' = [req EXCEPT ![w] = Started(op, e, account[e], link)]
    /\ UNCHANGED <<tables, history>>

Finish(w) == req' = [req EXCEPT ![w] = Idle]

SavePassword(e) ==
    /\ newest[e] < MaxPasswords
    /\ newest' = [newest EXCEPT ![e] = @ + 1]
    /\ account' = [account EXCEPT ![e] = Row(newest[e] + 1, account[e].verified, account[e].login)]

(* The mails, sent within the request; one whose request is rolled back     *)
(* names a key no row will ever have, and is left out.                      *)
SendVerification(e) == verifies' = verifies \cup {e}

(* RegisterSerializer.validate_email.                                       *)
RegisterBegin(w) == \E e \in Emails : ~account[e].there /\ Begin(w, "register", e, NoLink)

(* MUTANT of Refused: the address is only checked by validate_email.        *)
RefusedNever(e) == FALSE

(* The unique constraint, for an address taken since.                       *)
Refused(e) == account[e].there

(* The insert, with the first password, and the verification mail.          *)
RegisterCommit(w) ==
    /\ req[w].op = "register"
    /\ LET e == req[w].email
       IN  /\ ~Refused(e)
           /\ SavePassword(e)
           /\ SendVerification(e)
    /\ Finish(w)
    /\ UNCHANGED <<resets, logins, proven, undone, spent, twice, crossed>>

(* invite_member: get_or_create of a user who has no password.              *)
Invite ==
    /\ \E e \in Emails :
          /\ ~account[e].there
          /\ account' = [account EXCEPT ![e] = Row(0, FALSE, 0)]
    /\ UNCHANGED <<resets, verifies, req, history>>

(* LoginView finds the user by email and password ...                       *)
LoginBegin(w) == \E e \in Emails : account[e].password > 0 /\ Begin(w, "login", e, NoLink)

(* ... and saves last_login alone (UPDATE_LAST_LOGIN).                      *)
LoginCommit(w) ==
    /\ req[w].op = "login"
    /\ LET e == req[w].email
       IN  /\ logins[e] < MaxLogins
           /\ logins' = [logins EXCEPT ![e] = @ + 1]
           /\ account' = [account EXCEPT ![e] =
                 Row(account[e].password, account[e].verified, logins[e] + 1)]
    /\ Finish(w)
    /\ UNCHANGED <<resets, verifies, newest, proven, undone, spent, twice, crossed>>

(* MeView: the user, as authenticated ...                                   *)
ProfileBegin(w) == \E e \in Emails : account[e].password > 0 /\ Begin(w, "profile", e, NoLink)

(* ... and serializer.save(), every column as it was read.                  *)
ProfileCommit(w) ==
    /\ req[w].op = "profile"
    /\ LET e == req[w].email
       IN  /\ account' = [account EXCEPT ![e] = req[w].row]
           /\ undone' = IF account[e] = req[w].row THEN undone ELSE undone \cup {e}
    /\ Finish(w)
    /\ UNCHANGED <<resets, verifies, newest, logins, proven, spent, twice, crossed>>

(* validate_old_password, on the user as authenticated.                     *)
ChangeBegin(w) == \E e \in Emails : account[e].password > 0 /\ Begin(w, "change", e, NoLink)

ChangeCommit(w) ==
    /\ req[w].op = "change"
    /\ SavePassword(req[w].email)
    /\ Finish(w)
    /\ UNCHANGED <<resets, verifies, logins, proven, undone, spent, twice, crossed>>

-----------------------------------------------------------------------------
(* Links.                                                                  *)

(* default_token_generator: the token holds the password hash and the last  *)
(* login of the row.                                                        *)
LinkFor(e) == [email |-> e, password |-> account[e].password, login |-> account[e].login]

SendReset(e) == resets' = resets \cup {LinkFor(e)}

(* MUTANT of Forgot: an address that has no account gets a mail, too.       *)
ForgotAnyone ==
    /\ \E e \in Emails : SendReset(e)
    /\ UNCHANGED <<account, verifies, req, history>>

(* ForgotPasswordView mails it, to an invited user as well.                 *)
Forgot ==
    /\ \E e \in Emails : account[e].there /\ SendReset(e)
    /\ UNCHANGED <<account, verifies, req, history>>

(* MUTANT of Fits: a token of the key and the login alone.                  *)
FitsAnyPassword(l) == account[l.email].there /\ l.login = account[l.email].login

(* check_token, on the row as it is.                                        *)
Fits(l) == l = LinkFor(l.email)

ResetBegin(w) == \E l \in resets : Fits(l) /\ Begin(w, "reset", l.email, l)

(* ResetPasswordView saves the password alone.                              *)
ResetCommit(w) ==
    /\ req[w].op = "reset"
    /\ LET l == req[w].link
       IN  /\ SavePassword(l.email)
           /\ spent' = spent \cup {l}
           /\ twice' = IF l \in spent THEN twice \cup {l} ELSE twice
           /\ crossed' = IF account[l.email].password = req[w].row.password
                         THEN crossed ELSE crossed \cup {l}
    /\ Finish(w)
    /\ UNCHANGED <<resets, verifies, logins, proven, undone>>

(* ResendVerificationEmailView.                                             *)
Resend ==
    /\ \E e \in Emails :
          /\ account[e].password > 0 /\ ~account[e].verified
          /\ SendVerification(e)
    /\ UNCHANGED <<account, resets, req, history>>

(* The token of a verification link holds email_verified.                   *)
VerifyBegin(w) ==
    \E e \in verifies : ~account[e].verified /\ Begin(w, "verify", e, NoLink)

(* MUTANT of Verified: the whole user is saved.                             *)
VerifiedWhole(e, row) == Row(row.password, TRUE, row.login)

(* VerifyEmailView saves email_verified alone.                              *)
Verified(e, row) == Row(account[e].password, TRUE, account[e].login)

VerifyCommit(w) ==
    /\ req[w].op = "verify"
    /\ LET e == req[w].email
       IN  /\ account' = [account EXCEPT ![e] = Verified(e, req[w].row)]
           /\ proven' = proven \cup {e}
    /\ Finish(w)
    /\ UNCHANGED <<resets, verifies, newest, logins, undone, spent, twice, crossed>>

(* A refused insert, an error or a dead worker: rolled back.                *)
Abort(w) == req[w] # Idle /\ Finish(w) /\ UNCHANGED <<tables, history>>

RequestStep(w) ==
    \/ RegisterBegin(w) \/ RegisterCommit(w)
    \/ LoginBegin(w) \/ LoginCommit(w)
    \/ ProfileBegin(w) \/ ProfileCommit(w)
    \/ ChangeBegin(w) \/ ChangeCommit(w)
    \/ ResetBegin(w) \/ ResetCommit(w)
    \/ VerifyBegin(w) \/ VerifyCommit(w)
    \/ Abort(w)

Next ==
    \/ \E w \in Workers : RequestStep(w)
    \/ Invite \/ Forgot \/ Resend

Spec == Init /\ [][Next]_vars

-----------------------------------------------------------------------------
(* Properties.                                                             *)

(* Rows, links and requests are well formed, and only existing accounts     *)
(* have links.                                                              *)
TypeOK ==
    /\ account \in [Emails -> Rows \cup {NoRow}]
    /\ resets \subseteq Link /\ verifies \subseteq Emails
    /\ req \in [Workers -> Request \cup {Idle}]
    /\ newest \in [Emails -> Nat] /\ logins \in [Emails -> Nat]
    /\ proven \subseteq Emails /\ undone \subseteq Emails
    /\ spent \subseteq resets /\ twice \subseteq spent /\ crossed \subseteq spent
    /\ \A l \in resets : account[l.email].there
    /\ \A e \in verifies : account[e].there

(* A reset link sets a password once: used again it is refused, unless two   *)
(* requests had both checked it, or another change of the password came      *)
(* between its check and its save, or a stale PATCH of the profile put back  *)
(* the row it was made for (ResetPasswordView, default_token_generator).    *)
LinkWorksOnce == \A l \in twice : l \in crossed \/ l.email \in undone

(* The password is the last one set and a proven address stays verified,     *)
(* whatever requests overlap, except after a stale PATCH of the profile      *)
(* (update_fields of the password, login and verification views).           *)
ChangesStick ==
    \A e \in Emails \ undone :
        /\ account[e].password = newest[e]
        /\ e \in proven => account[e].verified

(* An invited user's account gets its first password from a link mailed to   *)
(* the address, and not by a registration that was under way when the        *)
(* invitation was made (RegisterView, invite_member).                       *)
InvitedOpensByLink ==
    [][\A e \in Emails :
          account[e].there /\ account[e].password = 0 /\ account'[e].password # 0 =>
              \E l \in resets : l.email = e /\ l.password = 0]_vars
=============================================================================
