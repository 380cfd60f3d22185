------------------------------ MODULE ProfilPage ------------------------------
(***************************************************************************)
(* The mobility profile of one account, from the screen to the row:           *)
(*   frontend/src/pages/ProfilPage/ProfilPage.tsx                             *)
(*   frontend/src/lib/profile.ts                                              *)
(*   backend/src/profiles/profiles.service.ts                                 *)
(*   backend/src/users/users.service.ts (remove)                              *)
(*                                                                         *)
(* Each tab, of any device of the account, shows the onboarding when there is  *)
(* no profile yet and the edit form when there is one.  A request is served in  *)
(* two steps, the SELECT and the write that follows it, and answered in a third, *)
(* so requests of two tabs interleave and a tab may be gone when its answer       *)
(* arrives.  The account may be deleted from any tab at any moment.             *)
(*                                                                         *)
(* Data.  modes stands for the preferences every save sends (transport modes,   *)
(* accessibility); home for an address, sent only when it was chosen in the list *)
(* (work is kept in the same way).  Display settings and messages are left out.   *)
(***************************************************************************)
EXTENDS Naturals

CONSTANTS
  Tabs,
  Places,   \* places of the geocoder
  Empty,    \* an address field without text
  Typed,    \* an address field whose text was not chosen in the list
  None      \* no profile, no address, no request

ASSUME ConstantsAssumption == Empty # Typed /\ {Empty, Typed, None} \cap Places = {}

VARIABLES
  account, \* the row of the account exists
  row,     \* its row of mobility_profiles, or None
  tab,     \* tab[t]: the states of the page in the tab
  call     \* call[t]: its profile request under way, or None

vars == <<account, row, tab, call>>

Profile == [modes : BOOLEAN, home : Places \cup {None}]

\* "away" is any other page.
Views == {"away", "loading", "onboarding", "edit"}

Tab == [view : Views, step : 1 .. 3, modes : BOOLEAN, home : Places \cup {Empty, Typed},
        saving : BOOLEAN, panel : {"closed", "confirm", "deleting", "deleted"}]

\* live: the page that waits for the answer is still mounted.
Call == [kind : {"load", "create", "update"}, modes : BOOLEAN, home : Places \cup {None},
         at : {"sent", "found", "done", "refused"}, copy : Profile \cup {None}, live : BOOLEAN]

ASSUME NullAssumption == None \notin Profile /\ None \notin Call

TypeOK ==
  /\ account \in BOOLEAN
  /\ row \in Profile \cup {None}
  /\ tab \in [Tabs -> Tab]
  /\ call \in [Tabs -> Call \cup {None}]

Fresh(view) == [view |-> view, step |-> 1, modes |-> FALSE, home |-> Empty,
                saving |-> FALSE, panel |-> "closed"]

Init ==
  /\ account = TRUE
  /\ row \in {None, [modes |-> FALSE, home |-> None]}
  /\ tab = [t \in Tabs |-> Fresh("away")]
  /\ call = [t \in Tabs |-> None]

Request(kind, modes, home) ==
  [kind |-> kind, modes |-> modes, home |-> home, at |-> "sent", copy |-> None, live |-> TRUE]

Become(t, page) == tab' = [tab EXCEPT ![t] = page]

-----------------------------------------------------------------------------
(* The screen.                                                               *)

Mounted(t) == tab[t].view \in {"loading", "onboarding", "edit"}

\* The page mounts and asks for the profile.
Open(t) ==
  /\ ~Mounted(t) /\ call[t] = None
  /\ Become(t, Fresh("loading"))
  /\ call' = [call EXCEPT ![t] = Request("load", FALSE, None)]
  /\ UNCHANGED <<account, row>>

Abandoned(t) == IF call[t] = None THEN None ELSE [call[t] EXCEPT !.live = FALSE]

\* Another route, or handleLogout: what was asked goes on without the page.  A deletion under
\* way is waited for (bound).
Leave(t) ==
  /\ Mounted(t) /\ tab[t].panel \notin {"deleting", "deleted"}
  /\ Become(t, Fresh("away"))
  /\ call' = [call EXCEPT ![t] = Abandoned(t)]
  /\ UNCHANGED <<account, row>>

OnPage(t, page) == Become(t, page) /\ UNCHANGED <<account, row, call>>

\* The chips, on the first step of the onboarding or in the form, even while it
\* is being saved.
ToggleMode(t) ==
  /\ tab[t].view = "edit" \/ (tab[t].view = "onboarding" /\ tab[t].step = 1)
  /\ OnPage(t, [tab[t] EXCEPT !.modes = ~@])

EditHome(t, field) ==
  /\ tab[t].view = "edit" \/ (tab[t].view = "onboarding" /\ tab[t].step = 3)
  /\ OnPage(t, [tab[t] EXCEPT !.home = field])

\* "Continuer", "Passer" (which forgets what the step had) and "Precedent".
Steps(t) ==
  /\ tab[t].view = "onboarding" /\ ~tab[t].saving
  /\ \/ tab[t].step < 3 /\ OnPage(t, [tab[t] EXCEPT !.step = @ + 1])
     \/ tab[t].step = 1 /\ OnPage(t, [tab[t] EXCEPT !.step = 2, !.modes = FALSE])
     \/ tab[t].step > 1 /\ OnPage(t, [tab[t] EXCEPT !.step = @ - 1])

\* A typed address is refused and an empty one is not sent.
Resolved(field) == IF field \in Places THEN field ELSE None

Send(t, kind, home) ==
  /\ ~tab[t].saving /\ call[t] = None
  /\ Become(t, [tab[t] EXCEPT !.saving = TRUE])
  /\ call' = [call EXCEPT ![t] = Request(kind, tab[t].modes, home)]
  /\ UNCHANGED <<account, row>>

\* "Terminer" of the third step.
FinishWithAddresses(t) ==
  /\ tab[t].view = "onboarding" /\ tab[t].step = 3 /\ tab[t].home # Typed
  /\ Send(t, "create", Resolved(tab[t].home))

\* "Passer" of the third step: no address, even when one was chosen.
FinishWithoutAddress(t) ==
  /\ tab[t].view = "onboarding" /\ tab[t].step = 3
  /\ Send(t, "create", None)

HandleSubmit(t) ==
  /\ tab[t].view = "edit" /\ tab[t].home # Typed
  /\ Send(t, "update", Resolved(tab[t].home))

-----------------------------------------------------------------------------
(* The server.                                                               *)

\* The request of t goes from one point of its handler to the next.
Advance(t, at, copy) == call' = [call EXCEPT ![t].at = at, ![t].copy = copy]

\* The handler ends: only what it answers still matters.
Finish(t, at) ==
  call' = [call EXCEPT ![t] = [Request(@.kind, FALSE, None) EXCEPT !.at = at, !.live = call[t].live]]

Refuse(t) == Finish(t, "refused") /\ UNCHANGED <<account, row, tab>>

\* JwtStrategy finds the account, then the service its profile.  A load is
\* answered with what was found; a creation goes on without one, an update with
\* one only (409, 404).
FindProfile(t) ==
  /\ call[t] # None /\ call[t].at = "sent" /\ account
  /\ IF (call[t].kind = "create") = (row = None)
     THEN /\ Advance(t, IF call[t].kind = "load" THEN "done" ELSE "found", row)
          /\ UNCHANGED <<account, row, tab>>
     ELSE Refuse(t)

\* Slip: an address that was never sent is stored as the empty field.
MergedField(input, copy) ==
  [modes |-> input.modes,
   home  |-> IF input.home # None THEN input.home ELSE IF copy = None THEN Empty ELSE copy.home]

\* Object.assign of what the body holds (omitUndefined) over the row that was
\* read; a new profile has no address but those sent.
Merged(input, copy) ==
  [modes |-> input.modes,
   home  |-> IF input.home # None \/ copy = None THEN input.home ELSE copy.home]

\* Slip: a creation replaces the row it finds.
StoreUpsert(input) ==
  IF account THEN row' = Merged(input, input.copy) ELSE UNCHANGED row

\* Slip: the row does not depend on the account's.
StoreOrphan(input) ==
  IF input.kind = "create" /\ row # None THEN UNCHANGED row ELSE row' = Merged(input, input.copy)

\* What the database accepts: no second row of the account (unique user_id), no
\* row without its account (foreign key).  save() of a row that was read writes
\* the whole copy, and inserts it again if it was deleted meanwhile.
Storable(input) == account /\ (input.kind = "create" => row = None)

Store(input) ==
  IF Storable(input) THEN row' = Merged(input, input.copy) ELSE UNCHANGED row

SaveProfile(t) ==
  /\ call[t] # None /\ call[t].at = "found"
  /\ Store(call[t])
  /\ Finish(t, IF Storable(call[t]) THEN "done" ELSE "refused")
  /\ UNCHANGED <<account, tab>>

\* DELETE /profiles/me: no screen calls it.
RemoveProfile ==
  /\ account /\ row # None
  /\ row' = None
  /\ UNCHANGED <<account, tab, call>>

-----------------------------------------------------------------------------
(* The answers.                                                              *)

Answered(t) == call' = [call EXCEPT ![t] = None] /\ UNCHANGED <<account, row>>

\* The profile fills in the form.
Loaded(t) ==
  /\ call[t] # None /\ call[t].kind = "load" /\ call[t].at = "done"
  /\ LET p == call[t].copy IN
       tab' = IF ~call[t].live THEN tab
              ELSE [tab EXCEPT ![t] =
                     [Fresh("edit") EXCEPT !.modes = p.modes,
                                           !.home = IF p.home = None THEN Empty ELSE p.home]]
  /\ Answered(t)

\* Any failure of the load, a missing profile (404) or not, ends on the
\* onboarding: profileExists was never set.
LoadFails(t) ==
  /\ call[t] # None /\ call[t].kind = "load"
  /\ tab' = IF call[t].live THEN [tab EXCEPT ![t] = Fresh("onboarding")] ELSE tab
  /\ Answered(t)

\* 401 on the load: the session is over, RequireAuth's page follows.
SessionOver(t) ==
  /\ call[t] # None /\ call[t].kind = "load" /\ call[t].at = "sent"
  /\ tab' = IF call[t].live THEN [tab EXCEPT ![t] = Fresh("away")] ELSE tab
  /\ Answered(t)

\* The creation succeeds: onComplete leads to the search, from whatever page the
\* user is on by then.
Created(t) ==
  /\ call[t] # None /\ call[t].kind = "create" /\ call[t].at = "done"
  /\ tab[t].panel \notin {"deleting", "deleted"}
  /\ Become(t, Fresh("away"))
  /\ Answered(t)

\* Slip: only a success gives the button back.
SettleKeepsSaving(t) ==
  tab' = IF call[t].at = "done" THEN [tab EXCEPT ![t].saving = FALSE] ELSE tab

\* finally { setIsSaving(false) }, if the page is still there.
Settle(t) == tab' = IF call[t].live THEN [tab EXCEPT ![t].saving = FALSE] ELSE tab

Updated(t) ==
  /\ call[t] # None /\ call[t].kind = "update" /\ call[t].at = "done"
  /\ Settle(t)
  /\ Answered(t)

\* A save refused by the server, whose account is gone (401), or whose answer
\* never came, whatever the server made of it.
SaveFails(t) ==
  /\ call[t] # None /\ call[t].kind # "load" /\ call[t].at # "found"
  /\ Settle(t)
  /\ Answered(t)

-----------------------------------------------------------------------------
(* AccountActions.                                                           *)

Panel(t, from, to) ==
  /\ tab[t].view \in {"onboarding", "edit"} /\ tab[t].panel = from
  /\ OnPage(t, [tab[t] EXCEPT !.panel = to])

AskDeletion(t) == Panel(t, "closed", "confirm")

Cancel(t) == Panel(t, "confirm", "closed")

ConfirmDelete(t) == Panel(t, "confirm", "deleting")

\* A wrong password (403), or an answer that is lost: the confirmation stays, for
\* another attempt.
DeletionFails(t) == Panel(t, "deleting", "confirm") \/ Panel(t, "deleted", "confirm")

\* UsersService.remove: the rows of the account go with it (ON DELETE CASCADE).
RemoveAccount(t) ==
  /\ tab[t].panel = "deleting" /\ account
  /\ account' = FALSE /\ row' = None
  /\ Become(t, [tab[t] EXCEPT !.panel = "deleted"])
  /\ UNCHANGED call

HandleAccountDeleted(t) ==
  /\ tab[t].panel = "deleted"
  /\ Become(t, Fresh("away"))
  /\ call' = [call EXCEPT ![t] = Abandoned(t)]
  /\ UNCHANGED <<account, row>>

-----------------------------------------------------------------------------
Serve(t) == FindProfile(t) \/ SaveProfile(t)

Answer(t) ==
  Loaded(t) \/ LoadFails(t) \/ SessionOver(t) \/ Created(t) \/ Updated(t) \/ SaveFails(t)

DeletionSettles(t) == DeletionFails(t) \/ HandleAccountDeleted(t)

Next ==
  \/ \E t \in Tabs :
       \/ Open(t) \/ Leave(t)
       \/ ToggleMode(t) \/ Steps(t)
       \/ \E field \in Places \cup {Empty, Typed} : EditHome(t, field)
       \/ FinishWithAddresses(t) \/ FinishWithoutAddress(t) \/ HandleSubmit(t)
       \/ Serve(t) \/ Answer(t)
       \/ AskDeletion(t) \/ Cancel(t) \/ ConfirmDelete(t) \/ RemoveAccount(t) \/ DeletionSettles(t)
  \/ RemoveProfile

Spec == Init /\ [][Next]_vars

-----------------------------------------------------------------------------
(* What the profile promises.                                                *)

\* "un utilisateur ne peut creer que SON PROPRE profil", and only one: two
\* onboardings at once both find no profile, and the later one must be refused
\* instead of replacing the preferences the first one stored.
CreateNeverOverwrites ==
  [][(row # None /\ row' # row /\ row' # None)
       => \E t \in Tabs : call[t] # None /\ call[t].kind = "update" /\ call[t].at = "found"]_vars

\* The deletion of the account leaves no profile behind (RGPD article 17), not
\* even one that a save under way was about to write.
NoProfileWithoutAccount == row # None => account

\* Nobody waits for nothing: while the skeleton shows or the buttons of a save
\* are disabled, the request they wait for is under way, whatever was refused,
\* lost or left before.
WaitsAreAwaited ==
  \A t \in Tabs :
    /\ tab[t].view = "loading" => call[t] # None /\ call[t].live /\ call[t].kind = "load"
    /\ tab[t].saving => call[t] # None /\ call[t].live /\ call[t].kind # "load"

\* "un champ vide laisse donc l'adresse deja enregistree intacte": a stored
\* address is replaced or goes with its profile, it is never cleared.
AddressNeverErased ==
  [][(row # None /\ row.home # None /\ row' # None) => row'.home # None]_vars
=============================================================================
