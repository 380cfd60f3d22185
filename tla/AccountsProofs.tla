---------------------------- MODULE AccountsProofs ----------------------------
(***************************************************************************)
(* Theorems about Accounts, for any addresses, passwords, pages and bounds.      *)
(***************************************************************************)
EXTENDS Accounts, SequenceTheorems, TLAPS

Pending(r) == r # None /\ r.stage # "answered"

\* What a request under way has read or was given.
Knows(r) ==
  Pending(r) =>
    /\ r.form \in {"register", "reset"} => r.password \in Passwords
    /\ r.form \in {"register", "forgot"} => r.email \in Emails
    /\ r.form = "delete" => r.account \in DOMAIN users
    /\ r.form = "reset" => r.link \in inbox
    /\ r.form = "reset" /\ r.stage = "hashing" => r.account \in DOMAIN users /\ links[r.link] = r.account

RequestsKnow == \A p \in Pages : Knows(page[p])

\* A link that is not stored yet is made by one request, for the account it read.
Owns(r) ==
  r # None /\ r.stage = "storing" =>
    /\ r.account \in DOMAIN users
    /\ r.link \in DOMAIN links \ stored
    /\ links[r.link] = r.account

MakingOwned ==
  /\ \A p \in Pages : Owns(page[p])
  /\ \A p, q \in Pages :
       /\ page[p] # None /\ page[p].stage = "storing"
       /\ page[q] # None /\ page[q].stage = "storing"
       /\ page[p].link = page[q].link
       => p = q

\* The link an account holds was written, and made for it.
HeldOwned ==
  \A a \in Accounts : users[a].reset # None =>
    users[a].reset \in stored /\ links[users[a].reset] = a

OneAccount == \A a, b \in Accounts : users[a].email = users[b].email => a = b

IInv == TypeOK /\ RequestsKnow /\ MakingOwned /\ HeldOwned /\ OneAccount

-----------------------------------------------------------------------------
USE AccountsAssumption, NullAssumption

\* What a step that changes one page does to "page".
LEMMA OnePage ==
  ASSUME page \in [Pages -> Request \cup {None}],
         NEW p \in Pages, NEW r \in Request \cup {None},
         page' = [page EXCEPT ![p] = r]
  PROVE  /\ page' \in [Pages -> Request \cup {None}]
         /\ page'[p] = r
         /\ \A q \in Pages : q # p => page'[q] = page[q]
  OBVIOUS

\* What answering does to "page".
LEMMA Answers ==
  ASSUME page \in [Pages -> Request \cup {None}],
         NEW p \in Pages, page[p] # None, NEW status \in Nat,
         page' = Answer(p, status)
  PROVE  /\ page' \in [Pages -> Request \cup {None}]
         /\ page'[p] # None /\ page'[p].stage = "answered" /\ page'[p].status = status
         /\ page'[p].form = page[p].form
         /\ \A q \in Pages : q # p => page'[q] = page[q]
<1>1. page[p] \in Request
  OBVIOUS
<1> DEFINE r == [page[p] EXCEPT !.stage = "answered", !.status = status]
<1>2. r \in Request /\ r.stage = "answered" /\ r.status = status /\ r.form = page[p].form
  BY <1>1 DEF Request, Stages
<1>3. page' = [page EXCEPT ![p] = r]
  BY DEF Answer
<1> QED
  BY <1>2, <1>3, OnePage

LEMMA Rows ==
  ASSUME users \in Seq(User \cup {None})
  PROVE  /\ Accounts \subseteq DOMAIN users
         /\ \A a \in Accounts : users[a] \in User
         /\ DOMAIN users = 1 .. Len(users) /\ Len(users) \in Nat
  BY DEF Accounts

\* What changing one row does to "users".
LEMMA OneRow ==
  ASSUME users \in Seq(User \cup {None}), NEW a \in DOMAIN users, NEW u \in User \cup {None},
         users' = [users EXCEPT ![a] = u]
  PROVE  /\ users' \in Seq(User \cup {None})
         /\ Len(users') = Len(users) /\ DOMAIN users' = DOMAIN users
         /\ users'[a] = u
         /\ \A b \in DOMAIN users : b # a => users'[b] = users[b]
         /\ u # None => Accounts' = Accounts \cup {a}
         /\ u = None => Accounts' = Accounts \ {a}
<1>1. users' \in Seq(User \cup {None}) /\ Len(users') = Len(users) /\ DOMAIN users' = DOMAIN users
  BY ExceptSeq
<1>2. users'[a] = u /\ \A b \in DOMAIN users : b # a => users'[b] = users[b]
  OBVIOUS
<1> QED
  BY <1>1, <1>2 DEF Accounts

\* What adding an account does to "users".
LEMMA NewRow ==
  ASSUME users \in Seq(User \cup {None}), NEW u \in User,
         users' = Append(users, u)
  PROVE  /\ users' \in Seq(User \cup {None})
         /\ Len(users') = Len(users) + 1 /\ DOMAIN users' = DOMAIN users \cup {Len(users) + 1}
         /\ users'[Len(users) + 1] = u
         /\ \A b \in DOMAIN users : users'[b] = users[b]
         /\ Accounts' = Accounts \cup {Len(users) + 1}
<1>1. /\ users' \in Seq(User \cup {None})
      /\ Len(users') = Len(users) + 1 /\ users'[Len(users) + 1] = u
      /\ \A b \in 1 .. Len(users) : users'[b] = users[b]
  BY AppendProperties
<1>2. DOMAIN users = 1 .. Len(users) /\ DOMAIN users' = 1 .. Len(users) + 1 /\ Len(users) \in Nat
  BY <1>1
<1>3. DOMAIN users' = DOMAIN users \cup {Len(users) + 1}
  BY <1>2
<1> QED
  BY <1>1, <1>2, <1>3 DEF Accounts

-----------------------------------------------------------------------------
(* The steps.                                                                *)

\* A step that only changes one page, or lets mails arrive.
LEMMA PageStep ==
  ASSUME IInv, UNCHANGED <<users, links, stored>>, inbox \subseteq inbox', inbox' \subseteq stored,
         NEW p \in Pages, NEW r \in Request \cup {None},
         page' \in [Pages -> Request \cup {None}], page'[p] = r,
         \A q \in Pages : q # p => page'[q] = page[q],
         r # None => (r.stage = "answered" <=> r.status # None),
         Knows(r), r # None => r.stage # "storing"
  PROVE  IInv'
<1>1. TypeOK'
  BY DEF IInv, TypeOK
<1>2. RequestsKnow'
  BY DEF IInv, RequestsKnow, Knows, Pending
<1>3. MakingOwned'
  BY DEF IInv, MakingOwned, Owns
<1>4. HeldOwned' /\ OneAccount'
  BY DEF IInv, HeldOwned, OneAccount, Accounts
<1> QED
  BY <1>1, <1>2, <1>3, <1>4 DEF IInv

LEMMA AnswerStep ==
  ASSUME IInv, UNCHANGED <<users, links, stored, inbox>>,
         NEW p \in Pages, page[p] # None, NEW status \in Nat, page' = Answer(p, status)
  PROVE  IInv'
<1>1. inbox \subseteq stored
  BY DEF IInv, TypeOK
<1>2. Knows(page'[p])
  BY Answers DEF IInv, TypeOK, Knows, Pending
<1> QED
  BY <1>1, <1>2, Answers, PageStep DEF IInv, TypeOK

LEMMA SubmitSteps ==
  ASSUME IInv, NEW p \in Pages,
         SubmitRegister(p) \/ SubmitForgot(p) \/ SubmitReset(p) \/ SubmitDelete(p)
  PROVE  IInv'
<1>1. inbox \subseteq stored /\ stored \subseteq Nat
  BY DEF IInv, TypeOK
<1>2. Accounts \subseteq DOMAIN users /\ DOMAIN users \subseteq Nat
  BY Rows DEF IInv, TypeOK
<1>3. PICK r \in Request : /\ Submit(p, r) /\ Knows(r)
                           /\ r.stage = "sent" /\ r.status = None
  <2>1. CASE SubmitRegister(p)
    <3>1. PICK e \in Emails, w \in Passwords : Submit(p, [Blank EXCEPT !.email = e, !.password = w])
      BY <2>1 DEF SubmitRegister
    <3> DEFINE r == [Blank EXCEPT !.email = e, !.password = w]
    <3>2. r \in Request /\ Knows(r) /\ r.stage = "sent" /\ r.status = None
      BY DEF Blank, Request, Forms, Stages, Knows
    <3> QED
      BY <3>1, <3>2
  <2>2. CASE SubmitForgot(p)
    <3>1. PICK e \in Emails : Submit(p, [Blank EXCEPT !.form = "forgot", !.email = e])
      BY <2>2 DEF SubmitForgot
    <3> DEFINE r == [Blank EXCEPT !.form = "forgot", !.email = e]
    <3>2. r \in Request /\ Knows(r) /\ r.stage = "sent" /\ r.status = None
      BY DEF Blank, Request, Forms, Stages, Knows
    <3> QED
      BY <3>1, <3>2
  <2>3. CASE SubmitReset(p)
    <3>1. PICK l \in inbox, w \in Passwords :
            Submit(p, [Blank EXCEPT !.form = "reset", !.link = l, !.password = w])
      BY <2>3 DEF SubmitReset
    <3> DEFINE r == [Blank EXCEPT !.form = "reset", !.link = l, !.password = w]
    <3>2. r \in Request /\ Knows(r) /\ r.stage = "sent" /\ r.status = None
      BY <1>1 DEF Blank, Request, Forms, Stages, Knows
    <3> QED
      BY <3>1, <3>2
  <2>4. CASE SubmitDelete(p)
    <3>1. PICK a \in Accounts, w \in Passwords :
            Submit(p, [Blank EXCEPT !.form = "delete", !.account = a, !.password = w])
      BY <2>4 DEF SubmitDelete
    <3> DEFINE r == [Blank EXCEPT !.form = "delete", !.account = a, !.password = w]
    <3>2. r \in Request /\ Knows(r) /\ r.stage = "sent" /\ r.status = None
      BY <1>2 DEF Blank, Request, Forms, Stages, Knows
    <3> QED
      BY <3>1, <3>2
  <2> QED
    BY <2>1, <2>2, <2>3, <2>4
<1>4. page' = [page EXCEPT ![p] = r] /\ UNCHANGED <<users, links, stored, inbox>>
  BY <1>3 DEF Submit
<1> QED
  BY <1>1, <1>3, <1>4, OnePage, PageStep DEF IInv, TypeOK

\* A handler that answers, or goes to its next stage and has only read.
LEMMA ReadSteps ==
  ASSUME IInv, NEW p \in Pages,
         Leave(p) \/ Fails(p) \/ FindTaken(p) \/ FindLink(p) \/ CheckPassword(p)
  PROVE  IInv'
<1>1. page \in [Pages -> Request \cup {None}] /\ inbox \subseteq stored /\ Knows(page[p])
  BY DEF IInv, TypeOK, RequestsKnow
<1>2. CASE Leave(p)
  <2>1. Knows(None)
    BY DEF Knows, Pending
  <2> QED
    BY <1>1, <1>2, <2>1, OnePage, PageStep DEF Leave
<1>3. CASE Fails(p)
  BY <1>3, AnswerStep DEF Fails
<1>4. ASSUME page[p] # None, page[p].stage = "sent",
             NEW r \in Request, Knows(r), r.stage \in {"hashing", "removing"}, r.status = None,
             page' = [page EXCEPT ![p] = r], UNCHANGED <<users, links, stored, inbox>>
      PROVE  IInv'
  BY <1>1, <1>4, OnePage, PageStep
<1>5. CASE FindTaken(p)
  <2>1. CASE page' = Answer(p, 409)
    BY <1>5, <2>1, AnswerStep DEF FindTaken, At
  <2>2. CASE page' = [page EXCEPT ![p].stage = "hashing"]
    <3> DEFINE r == [page[p] EXCEPT !.stage = "hashing"]
    <3>1. page[p] \in Request /\ page[p].status = None /\ page[p].form = "register"
      BY <1>5 DEF IInv, TypeOK, FindTaken, At
    <3>2. r \in Request /\ r.stage = "hashing" /\ r.status = None
      BY <3>1 DEF Request, Stages
    <3>3. Knows(r)
      BY <1>1, <1>5, <3>1 DEF Knows, Pending, FindTaken, At, Request
    <3> QED
      BY <1>4, <1>5, <2>2, <3>2, <3>3 DEF FindTaken, At
  <2> QED
    BY <1>5, <2>1, <2>2 DEF FindTaken
<1>6. CASE FindLink(p)
  <2>1. CASE page' = Answer(p, 400)
    BY <1>6, <2>1, AnswerStep DEF FindLink, At
  <2>2. CASE \E a \in Accounts : /\ users[a].reset = page[p].link
                                /\ page' = [page EXCEPT ![p].stage = "hashing", ![p].account = a]
    <3>1. PICK a \in Accounts : /\ users[a].reset = page[p].link
                               /\ page' = [page EXCEPT ![p].stage = "hashing", ![p].account = a]
      BY <2>2
    <3> DEFINE r == [page[p] EXCEPT !.stage = "hashing", !.account = a]
    <3>2. page[p] \in Request /\ page[p].status = None /\ page[p].form = "reset"
      BY <1>6 DEF IInv, TypeOK, FindLink, At
    <3>3. a \in DOMAIN users /\ a \in Nat
      BY Rows DEF IInv, TypeOK
    <3>4. r \in Request /\ r.stage = "hashing" /\ r.status = None
      BY <3>2, <3>3 DEF Request, Stages
    <3>5. page[p].link \in inbox /\ page[p].link # None
      BY <1>1, <1>6, <3>2 DEF Knows, Pending, FindLink, At, IInv, TypeOK
    <3>6. links[page[p].link] = a
      BY <3>1, <3>5 DEF IInv, HeldOwned
    <3>7. Knows(r)
      BY <1>1, <1>6, <3>2, <3>3, <3>6 DEF Knows, Pending, FindLink, At, Request
    <3>8. page' = [page EXCEPT ![p] = r]
      BY <3>1
    <3> QED
      BY <1>4, <1>6, <3>4, <3>7, <3>8 DEF FindLink, At
  <2> QED
    BY <1>6, <2>1, <2>2 DEF FindLink
<1>7. CASE CheckPassword(p)
  <2>1. CASE page' = Answer(p, 403)
    BY <1>7, <2>1, AnswerStep DEF CheckPassword, At
  <2>2. CASE page' = [page EXCEPT ![p].stage = "removing"]
    <3> DEFINE r == [page[p] EXCEPT !.stage = "removing"]
    <3>1. page[p] \in Request /\ page[p].status = None /\ page[p].form = "delete"
      BY <1>7 DEF IInv, TypeOK, CheckPassword, At
    <3>2. r \in Request /\ r.stage = "removing" /\ r.status = None
      BY <3>1 DEF Request, Stages
    <3>3. Knows(r)
      BY <1>1, <1>7, <3>1 DEF Knows, Pending, CheckPassword, At, Request
    <3> QED
      BY <1>4, <1>7, <2>2, <3>2, <3>3 DEF CheckPassword, At
  <2> QED
    BY <1>7, <2>1, <2>2 DEF CheckPassword
<1> QED
  BY <1>2, <1>3, <1>5, <1>6, <1>7

\* Pages stay as they are or are answered.
Answering ==
  /\ page' \in [Pages -> Request \cup {None}]
  /\ \A q \in Pages : \/ page'[q] = page[q]
                      \/ page'[q] # None /\ page'[q].stage = "answered" /\ page'[q].status # None

LEMMA AnswerIsAnswering ==
  ASSUME page \in [Pages -> Request \cup {None}],
         NEW p \in Pages, page[p] # None, NEW status \in Nat, page' = Answer(p, status)
  PROVE  Answering
  BY Answers DEF Answering

\* A step that changes one row, and gives it no new link.
LEMMA RowStep ==
  ASSUME IInv, UNCHANGED <<links, stored, inbox>>, Answering,
         NEW a \in DOMAIN users, NEW u \in User \cup {None},
         u # None => a \in Accounts /\ u.email = users[a].email /\ u.reset \in {users[a].reset, None},
         users' = [users EXCEPT ![a] = u]
  PROVE  IInv'
<1>1. /\ users' \in Seq(User \cup {None}) /\ Len(users') = Len(users) /\ DOMAIN users' = DOMAIN users
      /\ users'[a] = u /\ \A b \in DOMAIN users : b # a => users'[b] = users[b]
      /\ Accounts' \subseteq Accounts
      /\ u = None => a \notin Accounts'
  BY OneRow DEF IInv, TypeOK
<1>2. TypeOK'
  BY <1>1 DEF IInv, TypeOK, Answering
<1>3. RequestsKnow'
  BY <1>1 DEF IInv, RequestsKnow, Knows, Pending, Answering
<1>4. MakingOwned'
  BY <1>1 DEF IInv, MakingOwned, Owns, Answering
<1>5. Accounts' \subseteq DOMAIN users
  BY <1>1, Rows DEF IInv, TypeOK
<1>6. HeldOwned'
  BY <1>1, <1>5 DEF IInv, HeldOwned
<1>7. OneAccount'
  BY <1>1, <1>5 DEF IInv, OneAccount
<1> QED
  BY <1>2, <1>3, <1>4, <1>6, <1>7 DEF IInv

LEMMA RowSteps ==
  ASSUME IInv, Expire \/ \E p \in Pages : ApplyReset(p) \/ Remove(p)
  PROVE  IInv'
<1>1. users \in Seq(User \cup {None}) /\ page \in [Pages -> Request \cup {None}]
  BY DEF IInv, TypeOK
<1>2. CASE Expire
  <2>1. PICK a \in Accounts : users' = [users EXCEPT ![a].fresh = FALSE]
    BY <1>2 DEF Expire
  <2> DEFINE u == [users[a] EXCEPT !.fresh = FALSE]
  <2>2. a \in DOMAIN users /\ users[a] \in User
    BY <1>1, Rows
  <2>3. u \in User /\ u.email = users[a].email /\ u.reset = users[a].reset
    BY <2>2 DEF User
  <2>4. users' = [users EXCEPT ![a] = u]
    BY <2>1
  <2>5. Answering /\ UNCHANGED <<links, stored, inbox>>
    BY <1>1, <1>2 DEF Expire, Answering
  <2> QED
    BY <2>2, <2>3, <2>4, <2>5, RowStep
<1>3. ASSUME NEW p \in Pages, ApplyReset(p) PROVE IInv'
  <2>1. Answering /\ UNCHANGED <<links, stored, inbox>>
    BY <1>1, <1>3, AnswerIsAnswering DEF ApplyReset, At
  <2>2. CASE page[p].account \notin Accounts
    <3>1. users' = users
      BY <1>3, <2>2 DEF ApplyReset
    <3> QED
      BY <2>1, <3>1 DEF IInv, TypeOK, RequestsKnow, Knows, Pending, MakingOwned, Owns, Answering,
                        HeldOwned, OneAccount, Accounts
  <2>3. CASE page[p].account \in Accounts
    <3> DEFINE a == page[p].account
               u == [users[a] EXCEPT !.password = page[p].password, !.reset = None, !.fresh = FALSE]
    <3>1. a \in DOMAIN users /\ users[a] \in User
      BY <1>1, <2>3, Rows
    <3>2. page[p].password \in Passwords
      BY <1>3 DEF IInv, RequestsKnow, Knows, Pending, ApplyReset, At
    <3>3. u \in User /\ u.email = users[a].email /\ u.reset = None
      BY <3>1, <3>2 DEF User
    <3>4. users' = [users EXCEPT ![a] = u]
      BY <1>3, <2>3 DEF ApplyReset
    <3> QED
      BY <2>1, <2>3, <3>1, <3>3, <3>4, RowStep
  <2> QED
    BY <2>2, <2>3
<1>4. ASSUME NEW p \in Pages, Remove(p) PROVE IInv'
  <2>1. Answering /\ UNCHANGED <<links, stored, inbox>>
    BY <1>1, <1>4, AnswerIsAnswering DEF Remove, At
  <2>2. page[p].account \in DOMAIN users
    BY <1>4 DEF IInv, RequestsKnow, Knows, Pending, Remove, At
  <2>3. users' = [users EXCEPT ![page[p].account] = None]
    BY <1>4 DEF Remove
  <2> QED
    BY <2>1, <2>2, <2>3, RowStep
<1> QED
  BY <1>2, <1>3, <1>4

LEMMA CreateStep ==
  ASSUME IInv, NEW p \in Pages, Create(p)
  PROVE  IInv'
<1>1. users \in Seq(User \cup {None}) /\ page \in [Pages -> Request \cup {None}]
  BY DEF IInv, TypeOK
<1>2. page[p] # None /\ UNCHANGED <<links, stored, inbox>>
  BY DEF Create, At
<1>3. CASE WithEmail(page[p].email) # {}
  BY <1>2, <1>3, AnswerStep DEF Create
<1>4. CASE WithEmail(page[p].email) = {}
  <2>1. Len(users) < MaxAccounts /\ users' = Append(users, NewUser(p)) /\ page' = Answer(p, 201)
    BY <1>4 DEF Create
  <2>2. Answering
    BY <1>1, <1>2, <2>1, AnswerIsAnswering
  <2>3. page[p].email \in Emails /\ page[p].password \in Passwords
    BY DEF IInv, RequestsKnow, Knows, Pending, Create, At
  <2>4. NewUser(p) \in User /\ NewUser(p).reset = None /\ NewUser(p).email = page[p].email
    BY <2>3 DEF NewUser, User
  <2> DEFINE n == Len(users) + 1
  <2>5. /\ users' \in Seq(User \cup {None}) /\ Len(users') = n
        /\ DOMAIN users' = DOMAIN users \cup {n} /\ users'[n] = NewUser(p)
        /\ \A b \in DOMAIN users : users'[b] = users[b]
        /\ Accounts' = Accounts \cup {n}
    BY <1>1, <2>1, <2>4, NewRow
  <2>6. Accounts \subseteq DOMAIN users /\ Len(users) \in Nat /\ n \notin DOMAIN users
    BY <1>1, Rows
  <2>7. TypeOK'
    <3>1. Len(users') <= MaxAccounts
      BY <2>1, <2>5, <2>6
    <3>2. links \in Seq(DOMAIN users')
      BY <2>5 DEF IInv, TypeOK
    <3> QED
      BY <1>2, <2>2, <2>5, <3>1, <3>2 DEF IInv, TypeOK, Answering
  <2>8. RequestsKnow'
    BY <1>2, <2>2, <2>5 DEF IInv, RequestsKnow, Knows, Pending, Answering
  <2>9. MakingOwned'
    BY <1>2, <2>2, <2>5 DEF IInv, MakingOwned, Owns, Answering
  <2>10. HeldOwned'
    BY <1>2, <2>4, <2>5, <2>6 DEF IInv, HeldOwned
  <2>11. OneAccount'
    BY <1>4, <2>4, <2>5, <2>6 DEF IInv, OneAccount, WithEmail
  <2> QED
    BY <2>7, <2>8, <2>9, <2>10, <2>11 DEF IInv
<1> QED
  BY <1>3, <1>4

LEMMA FindForgetfulStep ==
  ASSUME IInv, NEW p \in Pages, FindForgetful(p)
  PROVE  IInv'
<1>1. page[p] # None /\ UNCHANGED <<users, stored, inbox>>
  BY DEF FindForgetful, At
<1>2. CASE WithEmail(page[p].email) = {}
  BY <1>1, <1>2, AnswerStep DEF FindForgetful
<1>3. CASE WithEmail(page[p].email) # {}
  <2>1. PICK a \in WithEmail(page[p].email) :
          Len(links) < MaxLinks /\ links' = Append(links, a) /\ page' = Making(p, a, Len(links) + 1)
    BY <1>3 DEF FindForgetful
  <2>2. a \in Accounts /\ a \in DOMAIN users /\ a \in Nat /\ users[a] \in User
    BY Rows DEF WithEmail, IInv, TypeOK
  <2>3. links \in Seq(DOMAIN users)
    BY DEF IInv, TypeOK
  <2> DEFINE n == Len(links) + 1
  <2>4. /\ links' \in Seq(DOMAIN users) /\ Len(links') = n /\ links'[n] = a
        /\ \A l \in 1 .. Len(links) : links'[l] = links[l]
    BY <2>1, <2>2, <2>3, AppendProperties
  <2>5. /\ DOMAIN links = 1 .. Len(links) /\ Len(links) \in Nat
        /\ DOMAIN links' = DOMAIN links \cup {n} /\ n \notin DOMAIN links
    BY <2>3, <2>4
  <2> DEFINE r == [page[p] EXCEPT !.stage = "storing", !.account = a,
                                  !.password = users[a].password, !.link = n]
  <2>6. page[p] \in Request /\ page[p].form = "forgot" /\ page[p].stage = "sent" /\ page[p].status = None
    BY DEF IInv, TypeOK, FindForgetful, At
  <2>7. /\ r \in Request /\ r.form = "forgot" /\ r.stage = "storing" /\ r.status = None
        /\ r.account = a /\ r.link = n /\ r.email = page[p].email
    <3>1. users[a].password \in Passwords /\ n \in Nat
      BY <2>2, <2>5 DEF User
    <3>2. r \in Request
      BY <2>2, <2>6, <3>1 DEF Request, Stages
    <3>3. /\ r.form = page[p].form /\ r.stage = "storing" /\ r.status = page[p].status
          /\ r.account = a /\ r.link = n /\ r.email = page[p].email
      BY <2>6 DEF Request
    <3> QED
      BY <2>6, <3>2, <3>3
  <2>8. /\ page' \in [Pages -> Request \cup {None}] /\ page'[p] = r
        /\ \A q \in Pages : q # p => page'[q] = page[q]
    <3>1. page' = [page EXCEPT ![p] = r]
      BY <2>1 DEF Making
    <3> QED
      BY <2>7, <3>1, OnePage DEF IInv, TypeOK
  <2>9. TypeOK'
    <3>1. Len(links') <= MaxLinks
      BY <2>1, <2>4, <2>5
    <3>2. links' \in Seq(DOMAIN users') /\ stored' \subseteq DOMAIN links'
      BY <1>1, <2>4, <2>5 DEF IInv, TypeOK
    <3>3. \A q \in Pages : page'[q] # None => (page'[q].stage = "answered" <=> page'[q].status # None)
      BY <2>7, <2>8 DEF IInv, TypeOK
    <3> QED
      BY <1>1, <2>8, <3>1, <3>2, <3>3 DEF IInv, TypeOK
  <2>10. page[p].email \in Emails
    BY <2>6, <1>1 DEF IInv, RequestsKnow, Knows, Pending
  <2>11. inbox \subseteq DOMAIN links
    BY DEF IInv, TypeOK
  <2>12. RequestsKnow'
    <3>1. ASSUME NEW q \in Pages, q # p PROVE Knows(page[q])'
      BY <1>1, <2>4, <2>5, <2>8, <2>11, <3>1 DEF IInv, RequestsKnow, Knows, Pending
    <3>2. Knows(page[p])'
      BY <1>1, <2>7, <2>8, <2>10 DEF Knows, Pending
    <3> QED
      BY <3>1, <3>2 DEF RequestsKnow
  <2>13. MakingOwned'
    <3>1. stored \subseteq DOMAIN links
      BY DEF IInv, TypeOK
    <3>2. ASSUME NEW q \in Pages, q # p PROVE Owns(page[q])'
      BY <1>1, <2>4, <2>5, <2>8, <3>2 DEF IInv, MakingOwned, Owns
    <3>3. Owns(page[p])'
      BY <1>1, <2>2, <2>4, <2>5, <2>7, <2>8, <3>1 DEF Owns
    <3>4. ASSUME NEW q \in Pages, q # p, page[q] # None, page[q].stage = "storing" PROVE page[q].link # n
      BY <2>5, <3>4 DEF IInv, MakingOwned, Owns
    <3>5. (\A q \in Pages : Owns(page[q]))'
      BY <3>2, <3>3
    <3>6. ASSUME NEW q \in Pages, NEW t \in Pages, q # t,
                 page'[q] # None, page'[q].stage = "storing",
                 page'[t] # None, page'[t].stage = "storing",
                 page'[q].link = page'[t].link
          PROVE  FALSE
      <4>1. CASE q = p
        BY <2>7, <2>8, <3>4, <3>6, <4>1
      <4>2. CASE t = p
        BY <2>7, <2>8, <3>4, <3>6, <4>2
      <4>3. CASE q # p /\ t # p
        BY <2>8, <3>6, <4>3 DEF IInv, MakingOwned
      <4> QED
        BY <4>1, <4>2, <4>3
    <3> QED
      BY <3>5, <3>6 DEF MakingOwned
  <2>14. HeldOwned' /\ OneAccount'
    BY <1>1, <2>4, <2>5 DEF IInv, HeldOwned, OneAccount, Accounts, TypeOK
  <2> QED
    BY <2>9, <2>12, <2>13, <2>14 DEF IInv
<1> QED
  BY <1>2, <1>3

LEMMA StoreLinkStep ==
  ASSUME IInv, NEW p \in Pages, StoreLink(p)
  PROVE  IInv'
<1>1. /\ page[p] # None /\ page[p].stage = "storing" /\ UNCHANGED <<links, inbox>>
      /\ users' = SetResetToken(p) /\ stored' = stored \cup {page[p].link} /\ page' = Answer(p, 200)
  BY DEF StoreLink, At
<1>2. users \in Seq(User \cup {None}) /\ page \in [Pages -> Request \cup {None}]
  BY DEF IInv, TypeOK
<1> DEFINE a == page[p].account
           l == page[p].link
<1>3. a \in DOMAIN users /\ l \in DOMAIN links \ stored /\ links[l] = a
  BY <1>1 DEF IInv, MakingOwned, Owns
<1>4. Answering /\ page'[p].stage = "answered"
  BY <1>1, <1>2, AnswerIsAnswering, Answers
<1>5. \A q \in Pages : q # p => page'[q] = page[q]
  BY <1>1, <1>2, Answers
<1>6. /\ users' \in Seq(User \cup {None}) /\ Len(users') = Len(users) /\ DOMAIN users' = DOMAIN users
      /\ Accounts' = Accounts /\ Accounts \subseteq DOMAIN users
      /\ \A b \in Accounts :
           /\ users'[b].email = users[b].email
           /\ b # a => users'[b].reset = users[b].reset
           /\ b = a => users'[b].reset = l
  <2>1. CASE a \in Accounts
    <3> DEFINE u == [users[a] EXCEPT !.reset = l, !.fresh = TRUE]
    <3>1. users' = [users EXCEPT ![a] = u]
      BY <1>1, <2>1 DEF SetResetToken
    <3>2. users[a] \in User /\ Accounts \subseteq DOMAIN users
      BY <1>2, <2>1, Rows
    <3>3. l \in 1 .. MaxLinks
      BY <1>3 DEF IInv, TypeOK
    <3>4. u \in User /\ u.reset = l /\ u.email = users[a].email
      BY <3>2, <3>3 DEF User
    <3>5. u # None /\ a \in DOMAIN users
      BY <1>3, <3>4
    <3>6. /\ users' \in Seq(User \cup {None}) /\ Len(users') = Len(users) /\ DOMAIN users' = DOMAIN users
          /\ users'[a] = u /\ \A b \in DOMAIN users : b # a => users'[b] = users[b]
          /\ Accounts' = Accounts \cup {a}
      BY <1>2, <3>1, <3>4, <3>5, OneRow
    <3> QED
      BY <2>1, <3>2, <3>4, <3>6
  <2>2. CASE a \notin Accounts
    BY <1>1, <1>2, <2>2, Rows DEF SetResetToken, Accounts
  <2> QED
    BY <2>1, <2>2
<1>7. TypeOK'
  BY <1>1, <1>3, <1>4, <1>6 DEF IInv, TypeOK, Answering
<1>8. RequestsKnow'
  BY <1>1, <1>4, <1>6 DEF IInv, RequestsKnow, Knows, Pending, Answering
<1>9. MakingOwned'
  BY <1>1, <1>4, <1>5, <1>6 DEF IInv, MakingOwned, Owns
<1>10. HeldOwned' /\ OneAccount'
  BY <1>1, <1>3, <1>6 DEF IInv, HeldOwned, OneAccount
<1> QED
  BY <1>7, <1>8, <1>9, <1>10 DEF IInv

LEMMA MailStep ==
  ASSUME IInv, MailArrives
  PROVE  IInv'
  BY DEF IInv, MailArrives, TypeOK, RequestsKnow, Knows, Pending, MakingOwned, Owns, HeldOwned, OneAccount, Accounts

LEMMA Inductive == IInv /\ [Next]_vars => IInv'
<1> SUFFICES ASSUME IInv, [Next]_vars PROVE IInv'
  OBVIOUS
<1>1. CASE UNCHANGED vars
  BY <1>1 DEF IInv, vars, TypeOK, RequestsKnow, Knows, Pending, MakingOwned, Owns, HeldOwned, OneAccount, Accounts
<1>2. CASE Next
  BY <1>2, SubmitSteps, ReadSteps, RowSteps, CreateStep, FindForgetfulStep, StoreLinkStep, MailStep
     DEF Next, Serve
<1> QED
  BY <1>1, <1>2

LEMMA Initial == Init => IInv
  BY DEF Init, IInv, TypeOK, RequestsKnow, Knows, Pending, MakingOwned, Owns, HeldOwned, OneAccount,
         Accounts, AccountsAssumption

\* What holds of every state: the types, and what requests know (IInv).
THEOREM Invariance == Spec => []IInv
  BY Initial, Inductive, PTL DEF Spec

\* The accounts, the links and the requests keep their types.
THEOREM Typing == Spec => []TypeOK
<1>1. IInv => TypeOK
  BY DEF IInv
<1> QED
  BY <1>1, Invariance, PTL

-----------------------------------------------------------------------------
(* The properties.                                                           *)

\* A step of one page leaves the others as they are.
Step(p) ==
  \/ SubmitRegister(p) \/ SubmitForgot(p) \/ SubmitReset(p) \/ SubmitDelete(p)
  \/ Serve(p) \/ Fails(p) \/ Leave(p)

LEMMA OwnPage ==
  ASSUME IInv, NEW q \in Pages, Step(q), NEW p \in Pages, p # q
  PROVE  page'[p] = page[p]
<1>1. page \in [Pages -> Request \cup {None}]
  BY DEF IInv, TypeOK
<1>2. CASE SubmitRegister(q) \/ SubmitForgot(q) \/ SubmitReset(q) \/ SubmitDelete(q) \/ Leave(q) \/ Fails(q)
  BY <1>1, <1>2 DEF SubmitRegister, SubmitForgot, SubmitReset, SubmitDelete, Submit, Leave, Fails, Answer
<1>3. CASE FindTaken(q) \/ Create(q) \/ StoreLink(q)
  BY <1>1, <1>3 DEF FindTaken, Create, StoreLink, Answer
<1>4. CASE FindForgetful(q)
  BY <1>1, <1>4 DEF FindForgetful, Answer, Making
<1>5. CASE FindLink(q) \/ ApplyReset(q)
  BY <1>1, <1>5 DEF FindLink, ApplyReset, Answer
<1>6. CASE CheckPassword(q) \/ Remove(q)
  BY <1>1, <1>6 DEF CheckPassword, Remove, Answer
<1> QED
  BY <1>2, <1>3, <1>4, <1>5, <1>6 DEF Step, Serve

LEMMA StepsOf ==
  ASSUME IInv, [Next]_vars, NEW p \in Pages, page'[p] # page[p]
  PROVE  Step(p)
<1>1. ~UNCHANGED vars
  BY DEF vars
<1>2. ~MailArrives /\ ~Expire
  BY DEF MailArrives, Expire
<1>3. PICK q \in Pages : Step(q)
  BY <1>1, <1>2 DEF Next, Step
<1> QED
  BY <1>3, OwnPage

\* What an account holds after a step.
LEMMA Held ==
  ASSUME IInv, [Next]_vars, NEW a \in Accounts \cap Accounts'
  PROVE  \/ users'[a].password = users[a].password /\ users'[a].reset = users[a].reset
         \/ /\ users'[a].password = users[a].password
            /\ users'[a].reset \notin stored
         \/ \E p \in Pages : /\ ApplyReset(p) /\ page[p].account = a
                              /\ users'[a].password = page[p].password /\ users'[a].reset = None
<1>1. users \in Seq(User \cup {None}) /\ a \in DOMAIN users /\ users[a] \in User
  BY Rows DEF IInv, TypeOK
<1>2. CASE users' = users
  BY <1>2
<1>3. CASE Expire
  BY <1>1, <1>3 DEF Expire, User
<1>4. ASSUME NEW p \in Pages, Create(p), users' # users PROVE users'[a] = users[a]
  <2>1. users' = Append(users, NewUser(p))
    BY <1>4 DEF Create
  <2> QED
    BY <1>1, <2>1
<1>5. ASSUME NEW p \in Pages, StoreLink(p), users' # users
      PROVE  /\ users'[a].password = users[a].password
             /\ users'[a].reset = users[a].reset \/ users'[a].reset \notin stored
  <2>1. users' = SetResetToken(p) /\ page[p].link \notin stored
    BY <1>5 DEF StoreLink, At, IInv, MakingOwned, Owns
  <2>2. users' = [users EXCEPT ![page[p].account] = [@ EXCEPT !.reset = page[p].link, !.fresh = TRUE]]
    BY <1>5, <2>1 DEF SetResetToken
  <2> QED
    BY <1>1, <2>1, <2>2 DEF User
<1>6. ASSUME NEW p \in Pages, ApplyReset(p), users' # users
      PROVE  \/ users'[a] = users[a]
             \/ page[p].account = a /\ users'[a].password = page[p].password /\ users'[a].reset = None
  <2>1. users' = [users EXCEPT ![page[p].account] =
                   [@ EXCEPT !.password = page[p].password, !.reset = None, !.fresh = FALSE]]
    BY <1>6 DEF ApplyReset
  <2> QED
    BY <1>1, <2>1 DEF User
<1>7. ASSUME NEW p \in Pages, Remove(p) PROVE users'[a] = users[a]
  BY <1>1, <1>7 DEF Remove, Accounts
<1>8. \/ users' = users \/ Expire
      \/ \E p \in Pages : Create(p) \/ StoreLink(p) \/ ApplyReset(p) \/ Remove(p)
  BY DEF Next, Serve, vars, SubmitRegister, SubmitForgot, SubmitReset, SubmitDelete, Submit, Leave, Fails,
         FindTaken, FindForgetful, FindLink, CheckPassword, MailArrives
<1> QED
  BY <1>2, <1>3, <1>4, <1>5, <1>6, <1>7, <1>8

\* An account that was not there holds no link.
LEMMA NewAccount ==
  ASSUME IInv, [Next]_vars, NEW a \in Accounts', a \notin Accounts
  PROVE  users'[a].reset = None
<1>1. users \in Seq(User \cup {None}) /\ page \in [Pages -> Request \cup {None}]
  BY DEF IInv, TypeOK
<1>2. users' # users
  BY DEF Accounts
<1>3. CASE Expire
  BY <1>1, <1>3 DEF Expire, Accounts
<1>4. ASSUME NEW p \in Pages, Create(p) PROVE users'[a].reset = None
  <2>1. users' = Append(users, NewUser(p))
    BY <1>2, <1>4 DEF Create
  <2>2. a \notin DOMAIN users
    BY <1>1, <2>1 DEF Accounts
  <2>3. a = Len(users) + 1
    BY <1>1, <2>1, <2>2 DEF Accounts
  <2> QED
    BY <1>1, <2>1, <2>3 DEF NewUser
<1>5. ASSUME NEW p \in Pages, StoreLink(p) \/ ApplyReset(p) \/ Remove(p) PROVE FALSE
  <2>1. CASE StoreLink(p)
    BY <1>1, <1>2, <2>1 DEF StoreLink, SetResetToken, Accounts
  <2>2. CASE ApplyReset(p)
    BY <1>1, <1>2, <2>2 DEF ApplyReset, Accounts
  <2>3. CASE Remove(p)
    BY <1>1, <1>2, <2>3 DEF Remove, Accounts
  <2> QED
    BY <1>5, <2>1, <2>2, <2>3
<1>6. Expire \/ \E p \in Pages : Create(p) \/ StoreLink(p) \/ ApplyReset(p) \/ Remove(p)
  BY <1>2 DEF Next, Serve, vars, SubmitRegister, SubmitForgot, SubmitReset, SubmitDelete, Submit, Leave, Fails,
         FindTaken, FindForgetful, FindLink, CheckPassword, MailArrives
<1> QED
  BY <1>3, <1>4, <1>5, <1>6

\* The password of an account only changes to what a page sent with a link that was
\* mailed and made for this account, which holds no link then.
THEOREM PasswordsChangeByLink == Spec => PasswordsByLink
<1>1. ASSUME IInv, [Next]_vars, NEW a \in Accounts \cap Accounts', users'[a].password # users[a].password
      PROVE  \E p \in Pages :
               /\ Answered(p, "reset") /\ page'[p].status = 200
               /\ page[p].password = users'[a].password
               /\ page[p].link \in inbox /\ links[page[p].link] = a
               /\ users'[a].reset = None
  <2>1. PICK p \in Pages : /\ ApplyReset(p) /\ page[p].account = a
                          /\ users'[a].password = page[p].password /\ users'[a].reset = None
    BY <1>1, Held
  <2>2. page[p] # None /\ page[p].form = "reset" /\ page[p].stage = "hashing" /\ page' = Answer(p, 200)
    BY <2>1 DEF ApplyReset, At
  <2>3. /\ page'[p] # None /\ page'[p].stage = "answered" /\ page'[p].status = 200
        /\ page'[p].form = "reset"
    BY <1>1, <2>2, Answers DEF IInv, TypeOK
  <2>4. page[p].link \in inbox /\ links[page[p].link] = a
    BY <1>1, <2>1, <2>2 DEF IInv, RequestsKnow, Knows, Pending
  <2> QED
    BY <2>1, <2>2, <2>3, <2>4 DEF Answered, At
<1>2. IInv /\ [Next]_vars =>
        [\A a \in Accounts \cap Accounts' : users'[a].password # users[a].password =>
           \E p \in Pages :
             /\ Answered(p, "reset") /\ page'[p].status = 200
             /\ page[p].password = users'[a].password
             /\ page[p].link \in inbox /\ links[page[p].link] = a
             /\ users'[a].reset = None]_vars
  BY <1>1
<1> QED
  BY <1>2, Invariance, PTL DEF Spec, PasswordsByLink

\* A link that was overwritten or consumed never serves again.
THEOREM DeadLinksAreOver == Spec => DeadLinksStayDead
<1>1. ASSUME IInv, [Next]_vars, NEW l \in stored, Dead(l) PROVE Dead(l)'
  <2>1. l \in stored' /\ l # None
    <3>1. l # None
      BY <1>1 DEF IInv, TypeOK
    <3>2. stored' = stored \/ \E p \in Pages : stored' = stored \cup {page[p].link}
      BY <1>1 DEF Next, Serve, vars, SubmitRegister, SubmitForgot, SubmitReset, SubmitDelete, Submit, Leave, Fails,
                  FindTaken, Create, FindForgetful, StoreLink, FindLink, ApplyReset, CheckPassword, Remove,
                  MailArrives, Expire
    <3> QED
      BY <3>1, <3>2
  <2>2. ASSUME NEW a \in Accounts', a \in Accounts PROVE users'[a].reset # l
    BY <1>1, <2>1, <2>2, Held DEF Dead
  <2>3. ASSUME NEW a \in Accounts', a \notin Accounts PROVE users'[a].reset # l
    BY <1>1, <2>1, <2>3, NewAccount
  <2> QED
    BY <2>1, <2>2, <2>3 DEF Dead
<1>2. ASSUME IInv, [Next]_vars, NEW p \in Pages, At(p, "reset", "sent"), Dead(page[p].link),
             At(p, "reset", "hashing")'
      PROVE  FALSE
  <2>1. page'[p] # page[p] /\ page[p] # None /\ page'[p] # None
        /\ page[p].stage = "sent" /\ page[p].form = "reset" /\ page'[p].stage = "hashing"
    BY <1>2 DEF At
  <2>2. Step(p)
    BY <1>2, <2>1, StepsOf
  <2>3. ASSUME NEW status \in Nat, page' = Answer(p, status) PROVE FALSE
    BY <1>2, <2>1, <2>3, Answers DEF IInv, TypeOK
  <2>4. ~Fails(p) /\ ~Leave(p)
    <3>1. ~Leave(p)
      BY <2>1 DEF Leave
    <3>2. ~Fails(p)
      BY <2>3 DEF Fails
    <3> QED
      BY <3>1, <3>2
  <2>5. FindLink(p)
    BY <2>1, <2>2, <2>4 DEF Step, Serve, SubmitRegister, SubmitForgot, SubmitReset, SubmitDelete, Submit, FindTaken,
                      Create, FindForgetful, StoreLink, ApplyReset, CheckPassword, Remove, At
  <2>6. {a \in Accounts : users[a].reset = page[p].link /\ users[a].fresh} = {}
    BY <1>2 DEF Dead
  <2>7. page' = Answer(p, 400)
    BY <2>5, <2>6 DEF FindLink
  <2> QED
    BY <2>3, <2>7
<1>3. IInv /\ [Next]_vars =>
        [/\ \A l \in stored : Dead(l) => Dead(l)'
         /\ \A p \in Pages : At(p, "reset", "sent") /\ Dead(page[p].link) => ~At(p, "reset", "hashing")']_vars
  BY <1>1, <1>2
<1> QED
  BY <1>3, Invariance, PTL DEF Spec, DeadLinksStayDead

\* However registrations interleave, an address has one account; one that is answered 201
\* got its own, and one that is answered 409 was refused for an account that was there.
THEOREM OneAccountEach == Spec => OneAccountPerEmail
<1>1. ASSUME IInv, [Next]_vars, NEW p \in Pages, Answered(p, "register")
      PROVE  /\ page'[p].status = 409 => WithEmail(page[p].email) # {}
             /\ page'[p].status = 201 => \E a \in Accounts' \ Accounts : users'[a] = NewUser(p)
  <2>1. /\ page[p] # None /\ page[p].form = "register" /\ page[p].stage # "answered"
        /\ page'[p] # None /\ page'[p].stage = "answered" /\ page'[p].form = "register"
    BY <1>1 DEF Answered, At
  <2>2. Step(p)
    BY <1>1, <2>1, StepsOf
  <2>3. ASSUME NEW status \in Nat, page' = Answer(p, status) PROVE page'[p].status = status
    BY <1>1, <2>1, <2>3, Answers DEF IInv, TypeOK
  <2>4. FindTaken(p) \/ Create(p) \/ Fails(p)
    BY <2>1, <2>2 DEF Step, Serve, SubmitRegister, SubmitForgot, SubmitReset, SubmitDelete, Submit, Leave,
                      FindForgetful, StoreLink, FindLink, ApplyReset, CheckPassword, Remove, At
  <2>5. CASE FindTaken(p)
    <3>1. CASE WithEmail(page[p].email) # {}
      BY <2>3, <2>5, <3>1 DEF FindTaken
    <3>2. CASE WithEmail(page[p].email) = {}
      <4>1. page' = [page EXCEPT ![p].stage = "hashing"]
        BY <2>5, <3>2 DEF FindTaken
      <4>2. page'[p].stage = "hashing"
        BY <1>1, <2>1, <4>1 DEF IInv, TypeOK, Request
      <4> QED
        BY <2>1, <4>2
    <3> QED
      BY <3>1, <3>2
  <2>6. CASE Create(p)
    <3>1. CASE WithEmail(page[p].email) # {}
      BY <2>3, <2>6, <3>1 DEF Create
    <3>2. CASE WithEmail(page[p].email) = {}
      <4>1. users' = Append(users, NewUser(p)) /\ page'[p].status = 201
        BY <2>3, <2>6, <3>2 DEF Create
      <4>2. NewUser(p) \in User
        BY <1>1, <2>1 DEF IInv, RequestsKnow, Knows, Pending, NewUser, User
      <4>3. users'[Len(users) + 1] = NewUser(p) /\ Len(users) + 1 \in Accounts'
        BY <1>1, <4>1, <4>2, NewRow DEF IInv, TypeOK
      <4>4. Len(users) + 1 \notin Accounts
        BY <1>1, Rows DEF IInv, TypeOK
      <4> QED
        BY <4>1, <4>3, <4>4
    <3> QED
      BY <3>1, <3>2
  <2>7. CASE Fails(p)
    BY <2>3, <2>7 DEF Fails
  <2> QED
    BY <2>4, <2>5, <2>6, <2>7
<1>2. ASSUME IInv, [Next]_vars PROVE \A a, b \in Accounts' : (users[a].email = users[b].email)' => a = b
  BY <1>2, Inductive DEF IInv, OneAccount
<1>3. IInv /\ [Next]_vars =>
        [/\ \A a, b \in Accounts' : (users[a].email = users[b].email)' => a = b
         /\ \A p \in Pages : Answered(p, "register") =>
              /\ page'[p].status = 409 => WithEmail(page[p].email) # {}
              /\ page'[p].status = 201 => \E a \in Accounts' \ Accounts : users'[a] = NewUser(p)]_vars
  BY <1>1, <1>2
<1> QED
  BY <1>3, Invariance, PTL DEF Spec, OneAccountPerEmail
=============================================================================
