----------------------------- MODULE RefreshTokens -----------------------------
(***************************************************************************)
(* The rotation of refresh tokens in the backend:                           *)
(*   backend/src/auth/auth.service.ts      login, refresh, revokeFamily,     *)
(*                                         purgeExpiredRefreshTokens,        *)
(*                                         issueTokenPair                    *)
(*   backend/src/auth/refresh-token.entity.ts   the table                    *)
(*   backend/src/users/users.service.ts    findByEmail, findById, remove     *)
(*                                                                         *)
(* The handlers are asynchronous: between two awaited database calls of one  *)
(* request, the calls of others, the daily purge, the removal of the account *)
(* and the clock may all move.  One action stands for one database statement *)
(* together with the synchronous code that follows it, up to the next await.  *)
(* The field pc of a request names the call it is awaiting.                   *)
(*                                                                         *)
(* Time counts from 1, so that 0 can stand for a NULL date; a token is a      *)
(* number in order of issue (randomUUID never repeats), 0 standing for NULL.  *)
(*                                                                         *)
(* Definitions introduced by "Slip:" are not part of the specification: they  *)
(* are plausible mistakes, substituted for the definition that follows them  *)
(* to show which property would notice.                                      *)
(***************************************************************************)
EXTENDS Naturals, FiniteSets

CONSTANTS
  Users,        \* accounts
  Families,     \* values randomUUID may give a session family at login
  Requests,     \* POST /auth/login and /auth/refresh calls in progress at once
  None,         \* absence of a row, of claims, of a family, of an account
  Grace,        \* REFRESH_REUSE_GRACE_MS
  Ttl,          \* JWT_REFRESH_EXPIRATION
  MaxTokens,    \* bound: refresh tokens issued
  MaxTime       \* bound: the clock

ASSUME ConstantsAssumption ==
  /\ None \notin Users \cup Families
  /\ Grace \in Nat /\ Ttl \in Nat /\ MaxTokens \in Nat /\ MaxTime \in Nat \ {0}

Jti == 1 .. MaxTokens
Claims == [fam : Families, sub : Users, exp : Nat]
Row == [fam : Families, sub : Users, exp : Nat,
        consumedAt : Nat, revoked : BOOLEAN, replacedBy : Nat]
Request == [pc : {"idle", "password", "lookup", "revoke", "user", "save",
                  "consume", "answer"},
            jti : Nat, fam : Families \cup {None}, sub : Users \cup {None},
            reuse : BOOLEAN, new : Nat]

ASSUME NoneIsNoRecord == None \notin Claims \cup Row

VARIABLES
  accounts,     \* the users table: existing accounts
  row,          \* the refresh_tokens table: row[j], or None
  claims,       \* claims[j]: what the JWT of token j says once signed, or None
  issued,       \* number of refresh tokens signed so far
  opened,       \* families some login has drawn
  delivered,    \* tokens some client has received
  req,          \* the requests in progress
  now           \* the clock

vars == <<accounts, row, claims, issued, opened, delivered, req, now>>

Stored == {j \in Jti : row[j] # None}

TypeOK ==
  /\ accounts \subseteq Users
  /\ row \in [Jti -> Row \cup {None}]
  /\ claims \in [Jti -> Claims \cup {None}]
  /\ issued \in 0 .. MaxTokens
  /\ opened \subseteq Families
  /\ delivered \subseteq Jti
  /\ req \in [Requests -> Request]
  /\ now \in 1 .. MaxTime

Idle == [pc |-> "idle", jti |-> 0, fam |-> None, sub |-> None,
         reuse |-> FALSE, new |-> 0]

Init ==
  /\ accounts = Users
  /\ row = [j \in Jti |-> None]
  /\ claims = [j \in Jti |-> None]
  /\ issued = 0 /\ opened = {} /\ delivered = {}
  /\ req = [r \in Requests |-> Idle]
  /\ now = 1

\* Every request that may still issue a token has one left to issue.
MayStart(r) ==
  /\ req[r].pc = "idle"
  /\ issued + Cardinality({q \in Requests : req[q].pc # "idle"
                                             /\ req[q].new = 0}) < MaxTokens

Goto(r, pc) == req' = [req EXCEPT ![r].pc = pc]
Reply(r) == req' = [req EXCEPT ![r] = Idle]

\* Slip: a rotation that never awaits its save.
IssueTokenPairUnsaved(r, f) ==
  /\ issued < MaxTokens
  /\ issued' = issued + 1
  /\ claims' = [claims EXCEPT ![issued + 1] =
                  [fam |-> f, sub |-> req[r].sub, exp |-> now + Ttl]]
  /\ req' = [req EXCEPT ![r] =
               [@ EXCEPT !.pc = IF req[r].jti = 0 THEN "save" ELSE "consume",
                         !.fam = f, !.new = issued + 1]]

(***************************************************************************)
(* issueTokenPair up to its save: draw the jti, sign, read the expiry back   *)
(* from the JWT.  The row is not in the table yet.                            *)
(***************************************************************************)
IssueTokenPair(r, f) ==
  /\ issued < MaxTokens
  /\ issued' = issued + 1
  /\ claims' = [claims EXCEPT ![issued + 1] =
                  [fam |-> f, sub |-> req[r].sub, exp |-> now + Ttl]]
  /\ req' = [req EXCEPT ![r] = [@ EXCEPT !.pc = "save", !.fam = f,
                                         !.new = issued + 1]]

\* login: the account is found, bcrypt.compare is under way.
Login(r, u) ==
  /\ MayStart(r)
  /\ u \in accounts
  /\ req' = [req EXCEPT ![r] = [Idle EXCEPT !.pc = "password", !.sub = u]]
  /\ UNCHANGED <<accounts, row, claims, issued, opened, delivered, now>>

\* login: the password matches; a new session is a new family.
OpenFamily(r, f) ==
  /\ req[r].pc = "password"
  /\ f \notin opened
  /\ opened' = opened \cup {f}
  /\ IssueTokenPair(r, f)
  /\ UNCHANGED <<accounts, row, delivered, now>>

\* login: the password does not match, 401.
WrongPassword(r) ==
  /\ req[r].pc = "password"
  /\ Reply(r)
  /\ UNCHANGED <<accounts, row, claims, issued, opened, delivered, now>>

\* refresh: the JWT verifies (signature, exp); an expired one is a 401 that
\* changes nothing.
PresentToken(r, j) ==
  /\ MayStart(r)
  /\ j \in delivered
  /\ now < claims[j].exp
  /\ req' = [req EXCEPT ![r] =
               [pc |-> "lookup", jti |-> j, fam |-> claims[j].fam,
                sub |-> claims[j].sub, reuse |-> FALSE, new |-> 0]]
  /\ UNCHANGED <<accounts, row, claims, issued, opened, delivered, now>>

Known(r) ==
  LET j == req[r].jti IN
  row[j] # None /\ row[j].fam = req[r].fam /\ row[j].sub = req[r].sub

Consumed(j) == row[j].consumedAt # 0
BeyondGrace(j) == Consumed(j) /\ now - row[j].consumedAt > Grace

\* The branches of refresh on the row it read.
TokenUnknown(r) ==
  /\ req[r].pc = "lookup"
  /\ ~Known(r)
  /\ Goto(r, "revoke")
  /\ UNCHANGED <<accounts, row, claims, issued, opened, delivered, now>>

TokenRevoked(r) ==
  /\ req[r].pc = "lookup"
  /\ Known(r) /\ row[req[r].jti].revoked
  /\ Reply(r)
  /\ UNCHANGED <<accounts, row, claims, issued, opened, delivered, now>>

TokenReplayed(r) ==
  /\ req[r].pc = "lookup"
  /\ Known(r) /\ ~row[req[r].jti].revoked /\ BeyondGrace(req[r].jti)
  /\ Goto(r, "revoke")
  /\ UNCHANGED <<accounts, row, claims, issued, opened, delivered, now>>

\* Slip: revokedAt is not looked at.
TokenAcceptedRevoked(r) ==
  /\ req[r].pc = "lookup"
  /\ Known(r) /\ ~BeyondGrace(req[r].jti)
  /\ req' = [req EXCEPT ![r] = [@ EXCEPT !.pc = "user",
                                         !.reuse = Consumed(req[r].jti)]]
  /\ UNCHANGED <<accounts, row, claims, issued, opened, delivered, now>>

TokenAccepted(r) ==
  /\ req[r].pc = "lookup"
  /\ Known(r) /\ ~row[req[r].jti].revoked /\ ~BeyondGrace(req[r].jti)
  /\ req' = [req EXCEPT ![r] = [@ EXCEPT !.pc = "user",
                                         !.reuse = Consumed(req[r].jti)]]
  /\ UNCHANGED <<accounts, row, claims, issued, opened, delivered, now>>

\* usersService.findById: the account still exists, the successor is signed.
UserFound(r) ==
  /\ req[r].pc = "user"
  /\ req[r].sub \in accounts
  /\ IssueTokenPair(r, req[r].fam)
  /\ UNCHANGED <<accounts, row, opened, delivered, now>>

\* Slip: the missing account is not handled, the request never settles.
UserGoneIgnored(r) ==
  /\ req[r].pc = "user"
  /\ req[r].sub \notin accounts
  /\ UNCHANGED vars

UserGone(r) ==
  /\ req[r].pc = "user"
  /\ req[r].sub \notin accounts
  /\ Goto(r, "revoke")
  /\ UNCHANGED <<accounts, row, claims, issued, opened, delivered, now>>

\* revokeFamily, then 401.
RevokeFamily(r) ==
  /\ req[r].pc = "revoke"
  /\ row' = [j \in Jti |-> IF row[j] # None /\ row[j].fam = req[r].fam
                            THEN [row[j] EXCEPT !.revoked = TRUE]
                            ELSE row[j]]
  /\ Reply(r)
  /\ UNCHANGED <<accounts, claims, issued, opened, delivered, now>>

\* Slip: a table without its foreign key on users.
SaveTokenNoForeignKey(r) ==
  LET k == req[r].new IN
  /\ req[r].pc = "save"
  /\ row' = [row EXCEPT ![k] =
               [fam |-> claims[k].fam, sub |-> claims[k].sub,
                exp |-> claims[k].exp,
                consumedAt |-> 0, revoked |-> FALSE, replacedBy |-> 0]]
  /\ Goto(r, IF req[r].jti = 0 \/ req[r].reuse THEN "answer" ELSE "consume")
  /\ UNCHANGED <<accounts, claims, issued, opened, delivered, now>>

\* The INSERT of issueTokenPair.  Only a first use marks the presented token
\* afterwards: neither a login nor a use within the grace window does.
SaveToken(r) ==
  LET k == req[r].new IN
  /\ req[r].pc = "save"
  /\ req[r].sub \in accounts
  /\ row' = [row EXCEPT ![k] =
               [fam |-> claims[k].fam, sub |-> claims[k].sub,
                exp |-> claims[k].exp,
                consumedAt |-> 0, revoked |-> FALSE, replacedBy |-> 0]]
  /\ Goto(r, IF req[r].jti = 0 \/ req[r].reuse THEN "answer" ELSE "consume")
  /\ UNCHANGED <<accounts, claims, issued, opened, delivered, now>>

\* The INSERT breaks the foreign key on users: the request ends in a 500.
SaveRejected(r) ==
  /\ req[r].pc = "save"
  /\ req[r].sub \notin accounts
  /\ Reply(r)
  /\ UNCHANGED <<accounts, row, claims, issued, opened, delivered, now>>

\* Slip: the update goes by family instead of going by token.
ConsumeTokenFamily(r) ==
  /\ req[r].pc = "consume"
  /\ row' = [j \in Jti |-> IF row[j] # None /\ row[j].fam = req[r].fam
                            THEN [row[j] EXCEPT !.consumedAt = now,
                                                !.replacedBy = req[r].new]
                            ELSE row[j]]
  /\ Goto(r, "answer")
  /\ UNCHANGED <<accounts, claims, issued, opened, delivered, now>>

\* The UPDATE that consumes the presented token (no row, no effect).
ConsumeToken(r) ==
  LET j == req[r].jti IN
  /\ req[r].pc = "consume"
  /\ row' = IF row[j] = None THEN row
            ELSE [row EXCEPT ![j] = [@ EXCEPT !.consumedAt = now,
                                              !.replacedBy = req[r].new]]
  /\ Goto(r, "answer")
  /\ UNCHANGED <<accounts, claims, issued, opened, delivered, now>>

\* The pair reaches the client.
Deliver(r) ==
  /\ req[r].pc = "answer"
  /\ delivered' = delivered \cup {req[r].new}
  /\ Reply(r)
  /\ UNCHANGED <<accounts, row, claims, issued, opened, now>>

\* A failed database call (500), a restart of the server or a lost answer: the
\* request is over wherever it stood, and nothing it wrote is undone.
Abort(r) ==
  /\ req[r].pc # "idle"
  /\ Reply(r)
  /\ UNCHANGED <<accounts, row, claims, issued, opened, delivered, now>>

\* Slip: the purge keeps the consumed tokens.
PurgeUnconsumed ==
  /\ row' = [j \in Jti |-> IF row[j] # None /\ row[j].exp < now /\ ~Consumed(j)
                            THEN None ELSE row[j]]
  /\ UNCHANGED <<accounts, claims, issued, opened, delivered, req, now>>

\* purgeExpiredRefreshTokens.
Purge ==
  /\ row' = [j \in Jti |-> IF row[j] # None /\ row[j].exp < now
                            THEN None ELSE row[j]]
  /\ UNCHANGED <<accounts, claims, issued, opened, delivered, req, now>>

\* UsersService.remove; ON DELETE CASCADE takes the rows of the account.
RemoveAccount(u) ==
  /\ u \in accounts
  /\ accounts' = accounts \ {u}
  /\ row' = [j \in Jti |-> IF row[j] # None /\ row[j].sub = u
                            THEN None ELSE row[j]]
  /\ UNCHANGED <<claims, issued, opened, delivered, req, now>>

Tick ==
  /\ now < MaxTime
  /\ now' = now + 1
  /\ UNCHANGED <<accounts, row, claims, issued, opened, delivered, req>>

\* What the handler of request r does next, once started.
Step(r) ==
  \/ \E f \in Families : OpenFamily(r, f)
  \/ WrongPassword(r)
  \/ TokenUnknown(r) \/ TokenRevoked(r) \/ TokenReplayed(r) \/ TokenAccepted(r)
  \/ UserFound(r) \/ UserGone(r)
  \/ RevokeFamily(r)
  \/ SaveToken(r) \/ SaveRejected(r)
  \/ ConsumeToken(r)
  \/ Deliver(r)

Next ==
  \/ \E r \in Requests, u \in Users : Login(r, u)
  \/ \E r \in Requests, j \in Jti : PresentToken(r, j)
  \/ \E r \in Requests : Step(r)
  \/ \E r \in Requests : Abort(r)
  \/ Purge
  \/ \E u \in Users : RemoveAccount(u)
  \/ Tick

Spec == Init /\ [][Next]_vars

\* Node runs every handler whose awaited call has settled, and the cron job
\* fires every day; nothing forces a client, a clock tick or a failure.
FairSpec ==
  /\ Spec
  /\ \A r \in Requests : WF_vars(Step(r))
  /\ WF_vars(Purge)

-------------------------------------------------------------------------------
(***************************************************************************)
(* Safety.                                                                  *)
(***************************************************************************)

\* A consumed token has a successor in the table: a younger row of the same
\* session.  It rests on the order save-then-update of refresh, on the purge
\* going by expiry (a successor never expires first) and on the cascade taking
\* whole accounts.
SuccessorStored ==
  \A j \in Stored : Consumed(j) =>
    /\ row[j].replacedBy \in Stored
    /\ row[j].replacedBy > j
    /\ row[row[j].replacedBy].fam = row[j].fam

\* Rotation never strands a session: whatever requests fail half-way, a family
\* that still has a row has one that was never consumed.
SessionHasFreshToken ==
  \A j \in Stored : \E k \in Stored : row[k].fam = row[j].fam /\ ~Consumed(k)

\* No refresh token outlives its account, even when the account is removed while
\* one of its logins or rotations is between two database calls.
TokensHaveAccount == \A j \in Stored : row[j].sub \in accounts

\* A request in progress on family f that has passed the checks on its token.
InFlight(f) == \E r \in Requests : req[r].fam = f /\ req[r].pc \in {"user", "save"}

\* A stored token that still opens the door: not revoked, and either unexpired
\* or verified before it expired by a request that is about to read its row.
Usable(j) ==
  /\ row[j] # None /\ ~row[j].revoked
  /\ \/ now < row[j].exp
     \/ \E r \in Requests : req[r].pc = "lookup" /\ req[r].jti = j

Alive(f) == InFlight(f) \/ \E j \in Jti : Usable(j) /\ row[j].fam = f

SessionStatus(f) == IF f \notin opened THEN "new"
                    ELSE IF Alive(f) THEN "open" ELSE "closed"

\* The rotation implements SessionLifecycle: a session that has neither a usable
\* token nor a request past its checks never comes back to life.
Lifecycle == INSTANCE SessionLifecycle
               WITH status <- [f \in Families |-> SessionStatus(f)]
SessionsRefined == Lifecycle!Spec

(***************************************************************************)
(* Liveness, under FairSpec.                                                *)
(***************************************************************************)

\* Every login or refresh gets its answer: no branch leaves a handler waiting.
RequestsEnd == \A r \in Requests : req[r].pc # "idle" ~> req[r].pc = "idle"

\* The table does not keep expired tokens.
ExpiredTokensPurged ==
  \A j \in Jti : (row[j] # None /\ row[j].exp < now) ~> row[j] = None

(***************************************************************************)
(* What two comments of refresh-token.entity.ts say and the code does not    *)
(* keep (see the README).                                                    *)
(***************************************************************************)

\* revokedAt: "Renseignee pour TOUTES les lignes d'une famille des qu'un rejeu
\* est detecte sur l'une d'elles."
RevocationCoversFamily ==
  \A j, k \in Stored : row[j].fam = row[k].fam => (row[j].revoked <=> row[k].revoked)

\* consumedAt: "Date de premiere utilisation (rotation)."
ConsumedAtIsFirstUse ==
  [][\A j \in Jti : (row[j] # None /\ Consumed(j)) =>
       (row'[j] = None \/ row'[j].consumedAt = row[j].consumedAt)]_vars

=============================================================================
