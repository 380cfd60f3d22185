--------------------------- MODULE SessionLifecycle ---------------------------
(***************************************************************************)
(* What the refresh token machinery of the backend promises about a         *)
(* session: a "family" of refresh tokens (refresh-token.entity.ts) is opened *)
(* once by a login, may be closed (revocation, expiry, removal of the        *)
(* account, failed login), and is never opened again.                        *)
(*                                                                         *)
(* RefreshTokens implements this specification: see SessionsRefined there.  *)
(***************************************************************************)

CONSTANT Families       \* the session families a login may draw

VARIABLE status         \* status[f]: the life of family f so far

Status == {"new", "open", "closed"}

TypeOK == status \in [Families -> Status]

Init == status = [f \in Families |-> "new"]

\* AuthService.login draws a family nobody used before.
Open(f) ==
  /\ status[f] = "new"
  /\ status' = [status EXCEPT ![f] = "open"]

\* Several families may close at once: the passing of time, or the removal of
\* the account that owns them.
Close(S) ==
  /\ S # {} /\ \A f \in S : status[f] = "open"
  /\ status' = [f \in Families |-> IF f \in S THEN "closed" ELSE status[f]]

Next ==
  \/ \E f \in Families : Open(f)
  \/ \E S \in SUBSET Families : Close(S)

Spec == Init /\ [][Next]_status

=============================================================================
