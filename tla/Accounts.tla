------------------------------- MODULE Accounts -------------------------------
(***************************************************************************)
(* Accounts and forgotten passwords:                                         *)
(*   backend/src/users/users.service.ts, user.entity.ts, users.controller.ts   *)
(*   backend/src/auth/auth.service.ts (forgotPassword, resetPassword)           *)
(*   backend/src/mail/mail.service.ts                                         *)
(*   frontend/src/pages/ConnexionPage, MotDePasseOubliePage,                    *)
(*   ReinitialiserMotDePassePage, lib/auth.ts                                  *)
(*                                                                         *)
(* Each page has one request under way at most, each request several reads and     *)
(* writes of the database with a password hashed or a token generated in between,   *)
(* and the requests of the pages interleave.  Sessions are not here              *)
(* (RefreshTokens, BrowserSession).                                          *)
(***************************************************************************)
EXTENDS Integers, Sequences, FiniteSets

CONSTANTS
  Emails,
  Passwords,   \* those the forms and the server accept
  Pages,       \* bound: forms open at once
  MaxAccounts, \* bound: accounts ever created
  MaxLinks,    \* bound: reset links ever made
  None

ASSUME AccountsAssumption ==
  /\ MaxAccounts \in Nat /\ MaxLinks \in Nat
  /\ None \notin Nat

VARIABLES
  users,    \* the accounts in the order of their creation, None once deleted
  links,    \* links[l]: the account a reset token was made for
  stored,   \* the links whose hash was written, and so are mailed
  inbox,    \* the links that arrived
  page      \* page[p]: the form of a page and the request it has sent, or None

vars == <<users, links, stored, inbox, page>>

Accounts == {a \in DOMAIN users : users[a] # None}
WithEmail(e) == {a \in Accounts : users[a].email = e}

\* reset: the link whose hash the row holds; fresh: it has not expired.
User == [email : Emails, password : Passwords, reset : 1 .. MaxLinks \cup {None}, fresh : BOOLEAN]

\* stage: sent, then hashing or storing or removing, then answered with a status.
Forms == {"register", "forgot", "reset", "delete"}
Stages == {"sent", "hashing", "storing", "removing", "answered"}
Request == [form : Forms, email : Emails \cup {None}, password : Passwords \cup {None},
            account : Nat \cup {None}, link : Nat \cup {None}, stage : Stages, status : Nat \cup {None}]
Blank == [form |-> "register", email |-> None, password |-> None, account |-> None, link |-> None,
          stage |-> "sent", status |-> None]

ASSUME NullAssumption == None \notin User /\ None \notin Request

TypeOK ==
  /\ users \in Seq(User \cup {None}) /\ Len(users) <= MaxAccounts
  /\ links \in Seq(DOMAIN users) /\ Len(links) <= MaxLinks
  /\ inbox \subseteq stored /\ stored \subseteq DOMAIN links
  /\ page \in [Pages -> Request \cup {None}]
  /\ \A p \in Pages : page[p] # None => (page[p].stage = "answered" <=> page[p].status # None)

Init ==
  /\ users = <<>> /\ links = <<>> /\ stored = {} /\ inbox = {}
  /\ page = [p \in Pages |-> None]

-----------------------------------------------------------------------------
(* The forms.                                                                *)

Submit(p, request) ==
  /\ page[p] = None
  /\ page' = [page EXCEPT ![p] = request]
  /\ UNCHANGED <<users, links, stored, inbox>>

SubmitRegister(p) == \E e \in Emails, w \in Passwords :
  Submit(p, [Blank EXCEPT !.email = e, !.password = w])

SubmitForgot(p) == \E e \in Emails :
  Submit(p, [Blank EXCEPT !.form = "forgot", !.email = e])

\* The page the link of a mail opens, as often as it is clicked.
SubmitReset(p) == \E l \in inbox, w \in Passwords :
  Submit(p, [Blank EXCEPT !.form = "reset", !.link = l, !.password = w])

\* The owner of a session confirms with a password.
SubmitDelete(p) == \E a \in Accounts, w \in Passwords :
  Submit(p, [Blank EXCEPT !.form = "delete", !.account = a, !.password = w])

\* isSubmitting is over: another attempt, or another page.
Leave(p) ==
  /\ page[p] # None /\ page[p].stage = "answered"
  /\ page' = [page EXCEPT ![p] = None]
  /\ UNCHANGED <<users, links, stored, inbox>>

-----------------------------------------------------------------------------
At(p, form, stage) == page[p] # None /\ page[p].form = form /\ page[p].stage = stage

Answer(p, status) == [page EXCEPT ![p].stage = "answered", ![p].status = status]

\* The database fails, or the request is lost: nothing more is written.
Fails(p) ==
  /\ page[p] # None /\ page[p].stage # "answered"
  /\ page' = Answer(p, 500)
  /\ UNCHANGED <<users, links, stored, inbox>>

(* create *)
FindTaken(p) ==
  /\ At(p, "register", "sent")
  /\ page' = IF WithEmail(page[p].email) # {} THEN Answer(p, 409)
             ELSE [page EXCEPT ![p].stage = "hashing"]
  /\ UNCHANGED <<users, links, stored, inbox>>

NewUser(p) == [email |-> page[p].email, password |-> page[p].password, reset |-> None, fresh |-> FALSE]

\* Slip: the column is not UNIQUE, the check before the hash is the only one.
CreateChecked(p) ==
  /\ At(p, "register", "hashing") /\ Len(users) < MaxAccounts
  /\ users' = Append(users, NewUser(p)) /\ page' = Answer(p, 201)
  /\ UNCHANGED <<links, stored, inbox>>

\* The unique index refuses an address taken while the password was hashed.
Create(p) ==
  /\ At(p, "register", "hashing")
  /\ IF WithEmail(page[p].email) # {} THEN page' = Answer(p, 409) /\ UNCHANGED users
     ELSE /\ Len(users) < MaxAccounts
          /\ users' = Append(users, NewUser(p)) /\ page' = Answer(p, 201)
  /\ UNCHANGED <<links, stored, inbox>>

(* forgotPassword *)

Making(p, a, l) == [page EXCEPT ![p] =
  [@ EXCEPT !.stage = "storing", !.account = a, !.password = users[a].password, !.link = l]]

\* Slip: the link of the request before is sent again while it has not expired.
FindReusing(p) ==
  /\ At(p, "forgot", "sent")
  /\ IF WithEmail(page[p].email) = {} THEN page' = Answer(p, 200) /\ UNCHANGED links
     ELSE \E a \in WithEmail(page[p].email) :
            IF users[a].fresh THEN page' = Making(p, a, users[a].reset) /\ UNCHANGED links
            ELSE /\ Len(links) < MaxLinks
                 /\ links' = Append(links, a) /\ page' = Making(p, a, Len(links) + 1)
  /\ UNCHANGED <<users, stored, inbox>>

FindForgetful(p) ==
  /\ At(p, "forgot", "sent")
  /\ IF WithEmail(page[p].email) = {} THEN page' = Answer(p, 200) /\ UNCHANGED links
     ELSE \E a \in WithEmail(page[p].email) :
            /\ Len(links) < MaxLinks
            /\ links' = Append(links, a) /\ page' = Making(p, a, Len(links) + 1)
  /\ UNCHANGED <<users, stored, inbox>>

\* Slip: the row that was read is saved, and not the two columns updated.
SaveWholeRow(p) ==
  IF page[p].account \in Accounts
  THEN [users EXCEPT ![page[p].account] =
         [@ EXCEPT !.reset = page[p].link, !.fresh = TRUE, !.password = page[p].password]]
  ELSE users

\* setResetToken: the link before is overwritten; no row, no error.
SetResetToken(p) ==
  IF page[p].account \in Accounts
  THEN [users EXCEPT ![page[p].account] = [@ EXCEPT !.reset = page[p].link, !.fresh = TRUE]]
  ELSE users

\* The mail is sent and not waited for: the answer is the one for an unknown address.
StoreLink(p) ==
  /\ At(p, "forgot", "storing")
  /\ users' = SetResetToken(p)
  /\ stored' = stored \cup {page[p].link}
  /\ page' = Answer(p, 200)
  /\ UNCHANGED <<links, inbox>>

\* It may never arrive, or after the mails of later requests.
MailArrives ==
  /\ \E l \in stored \ inbox : inbox' = inbox \cup {l}
  /\ UNCHANGED <<users, links, stored, page>>

Expire ==
  /\ \E a \in Accounts : users[a].fresh /\ users' = [users EXCEPT ![a].fresh = FALSE]
  /\ UNCHANGED <<links, stored, inbox, page>>

(* resetPassword *)
FindLink(p) ==
  /\ At(p, "reset", "sent")
  /\ LET found == {a \in Accounts : users[a].reset = page[p].link /\ users[a].fresh} IN
       IF found = {} THEN page' = Answer(p, 400)
       ELSE \E a \in found : page' = [page EXCEPT ![p].stage = "hashing", ![p].account = a]
  /\ UNCHANGED <<users, links, stored, inbox>>

\* The password and the link go in one write, whatever the row holds by now; no row,
\* no error.
ApplyReset(p) ==
  /\ At(p, "reset", "hashing")
  /\ users' = IF page[p].account \notin Accounts THEN users
              ELSE [users EXCEPT ![page[p].account] =
                     [@ EXCEPT !.password = page[p].password, !.reset = None, !.fresh = FALSE]]
  /\ page' = Answer(p, 200)
  /\ UNCHANGED <<links, stored, inbox>>

(* remove *)
CheckPassword(p) ==
  /\ At(p, "delete", "sent")
  /\ LET a == page[p].account IN
       page' = IF a \in Accounts /\ users[a].password = page[p].password
               THEN [page EXCEPT ![p].stage = "removing"] ELSE Answer(p, 403)
  /\ UNCHANGED <<users, links, stored, inbox>>

Remove(p) ==
  /\ At(p, "delete", "removing")
  /\ users' = [users EXCEPT ![page[p].account] = None]
  /\ page' = Answer(p, 204)
  /\ UNCHANGED <<links, stored, inbox>>

-----------------------------------------------------------------------------
Serve(p) ==
  \/ FindTaken(p) \/ Create(p) \/ FindForgetful(p) \/ StoreLink(p)
  \/ FindLink(p) \/ ApplyReset(p) \/ CheckPassword(p) \/ Remove(p)

Next ==
  \/ \E p \in Pages :
       \/ SubmitRegister(p) \/ SubmitForgot(p) \/ SubmitReset(p) \/ SubmitDelete(p)
       \/ Serve(p) \/ Fails(p) \/ Leave(p)
  \/ MailArrives \/ Expire

Spec == Init /\ [][Next]_vars

-----------------------------------------------------------------------------
(* What the accounts promise.                                                *)

Answered(p, form) ==
  /\ page[p] # None /\ page[p].form = form /\ page[p].stage # "answered"
  /\ At(p, form, "answered")'

\* "Double protection contre les emails en doublon": however registrations with the
\* same address interleave, and whatever is deleted meanwhile, an address has one
\* account, a registration that is answered 201 got its own, with its password, and one
\* that is answered 409 was refused for an account that was there.
OneAccountPerEmail ==
  [][/\ \A a, b \in Accounts' : (users[a].email = users[b].email)' => a = b
     /\ \A p \in Pages : Answered(p, "register") =>
          /\ page'[p].status = 409 => WithEmail(page[p].email) # {}
          /\ page'[p].status = 201 =>
               \E a \in Accounts' \ Accounts : users'[a] = NewUser(p)]_vars

\* The password of an account is the one its owner chose: once registered, it
\* changes only to what a page sent with a link made for this account and mailed, as
\* that page is answered, and the account holds no link then; no other request
\* that read the row before brings an earlier password back.
PasswordsByLink ==
  [][\A a \in Accounts \cap Accounts' : users'[a].password # users[a].password =>
       \E p \in Pages :
         /\ Answered(p, "reset") /\ page'[p].status = 200
         /\ page[p].password = users'[a].password
         /\ page[p].link \in inbox /\ links[page[p].link] = a
         /\ users'[a].reset = None]_vars

\* A link that was written and is not the one its account holds: a later request
\* overwrote it, a reset consumed it, or the account is gone.
Dead(l) == l \in stored /\ \A a \in Accounts : users[a].reset # l

\* "Ecrase une demande precedente": a link that is dead stays so, even when requests
\* that read the account before are answered after, and a page it opens then is refused.
DeadLinksStayDead ==
  [][/\ \A l \in stored : Dead(l) => Dead(l)'
     /\ \A p \in Pages : At(p, "reset", "sent") /\ Dead(page[p].link) => ~At(p, "reset", "hashing")']_vars
=============================================================================
