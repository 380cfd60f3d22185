---------------------------- MODULE ProfilPageProofs ----------------------------
(***************************************************************************)
(* Theorems about ProfilPage, for any number of tabs and any places.             *)
(***************************************************************************)
EXTENDS ProfilPage, TLAPS

\* A page and the request its tab has under way.  Only a save is ever between its SELECT
\* and its write, and a load is only answered with the profile it found.
Fits(p, c) ==
  /\ p \in Tab /\ c \in Call \cup {None}
  /\ p.view = "loading" => c # None /\ c.live /\ c.kind = "load"
  /\ p.saving => c # None /\ c.live /\ c.kind # "load"
  /\ c # None /\ c.kind = "load" => c.at # "found" /\ (c.at = "done" => c.copy # None)

PagesFit ==
  /\ tab \in [Tabs -> Tab] /\ call \in [Tabs -> Call \cup {None}]
  /\ \A t \in Tabs : Fits(tab[t], call[t])

IInv ==
  /\ account \in BOOLEAN /\ row \in Profile \cup {None}
  /\ NoProfileWithoutAccount
  /\ PagesFit

-----------------------------------------------------------------------------
USE ConstantsAssumption, NullAssumption

Fields == Places \cup {Empty, Typed}

LEMMA PageTypes ==
  ASSUME NEW p \in Tab
  PROVE  /\ p.view \in Views /\ p.step \in 1 .. 3 /\ p.modes \in BOOLEAN
         /\ p.home \in Fields /\ p.saving \in BOOLEAN
         /\ p.panel \in {"closed", "confirm", "deleting", "deleted"}
  BY DEF Tab, Fields

LEMMA CallTypes ==
  ASSUME NEW c \in Call
  PROVE  /\ c.kind \in {"load", "create", "update"} /\ c.modes \in BOOLEAN
         /\ c.home \in Places \cup {None} /\ c.at \in {"sent", "found", "done", "refused"}
         /\ c.copy \in Profile \cup {None} /\ c.live \in BOOLEAN
  BY DEF Call

LEMMA FreshPage ==
  ASSUME NEW view \in Views
  PROVE  Fresh(view) \in Tab /\ Fresh(view).view = view /\ Fresh(view).saving = FALSE
  BY DEF Fresh, Tab

\* The form with what the profile holds.
LEMMA FilledForm ==
  ASSUME NEW modes \in BOOLEAN, NEW home \in Fields
  PROVE  LET p == [Fresh("edit") EXCEPT !.modes = modes, !.home = home]
         IN p \in Tab /\ p.view = "edit" /\ p.saving = FALSE
<1>1. Fresh("edit") \in Tab /\ Fresh("edit").view = "edit" /\ Fresh("edit").saving = FALSE
  BY FreshPage DEF Views
<1> DEFINE r == Fresh("edit")
<1> HIDE DEF r
<1> SUFFICES LET p == [r EXCEPT !.modes = modes, !.home = home]
             IN p \in Tab /\ p.view = "edit" /\ p.saving = FALSE
  BY DEF r
<1>2. r \in Tab /\ r.view = "edit" /\ r.saving = FALSE
  BY <1>1 DEF r
<1> QED
  BY <1>2 DEF Tab, Fields

\* A step of one tab.
LEMMA OneTab ==
  ASSUME PagesFit, NEW t \in Tabs, NEW p, NEW c, Fits(p, c),
         tab' = [tab EXCEPT ![t] = p], call' = [call EXCEPT ![t] = c]
  PROVE  PagesFit'
<1>1. p \in Tab /\ c \in Call \cup {None}
  BY DEF Fits
<1>2. tab' \in [Tabs -> Tab] /\ call' \in [Tabs -> Call \cup {None}]
  BY <1>1 DEF PagesFit
<1>3. ASSUME NEW u \in Tabs PROVE Fits(tab'[u], call'[u])
  <2>1. CASE u = t
    BY <2>1 DEF PagesFit
  <2>2. CASE u # t
    BY <2>2 DEF PagesFit
  <2> QED
    BY <2>1, <2>2
<1> QED
  BY <1>2, <1>3 DEF PagesFit

\* The same when the request is left alone.
LEMMA OnePage ==
  ASSUME PagesFit, NEW t \in Tabs, NEW p, Fits(p, call[t]),
         tab' = [tab EXCEPT ![t] = p], UNCHANGED call
  PROVE  PagesFit'
<1>1. call' = [call EXCEPT ![t] = call[t]]
  BY DEF PagesFit
<1> QED
  BY <1>1, OneTab

\* The same when the page is left alone.
LEMMA OneCall ==
  ASSUME PagesFit, NEW t \in Tabs, NEW c, Fits(tab[t], c),
         UNCHANGED tab, call' = [call EXCEPT ![t] = c]
  PROVE  PagesFit'
<1>1. tab' = [tab EXCEPT ![t] = tab[t]]
  BY DEF PagesFit
<1> QED
  BY <1>1, OneTab

LEMMA NewRequest ==
  ASSUME NEW kind \in {"load", "create", "update"}, NEW modes \in BOOLEAN,
         NEW home \in Places \cup {None}
  PROVE  /\ Request(kind, modes, home) \in Call /\ Request(kind, modes, home) # None
         /\ Request(kind, modes, home).kind = kind /\ Request(kind, modes, home).at = "sent"
         /\ Request(kind, modes, home).live = TRUE
<1>1. Request(kind, modes, home) \in Call
  BY DEF Request, Call
<1> QED
  BY <1>1 DEF Request

\* What a page that changes keeps: its view and whether it waits for a save, or less.
LEMMA Keeps ==
  ASSUME PagesFit, NEW t \in Tabs, NEW p \in Tab,
         p.view = tab[t].view \/ p.view # "loading", p.saving = tab[t].saving \/ p.saving = FALSE
  PROVE  Fits(p, call[t])
<1>1. Fits(tab[t], call[t])
  BY DEF PagesFit
<1> QED
  BY <1>1 DEF Fits

\* A request that ends leaves a page that does not wait for it.
LEMMA Idle ==
  ASSUME NEW p \in Tab, p.view # "loading", p.saving = FALSE
  PROVE  Fits(p, None)
BY DEF Fits

\* A page that is left does not wait either; what it asked goes on.
LEMMA AbandonedFits ==
  ASSUME PagesFit, NEW t \in Tabs
  PROVE  Fits(Fresh("away"), Abandoned(t))
<1>1. Fits(tab[t], call[t])
  BY DEF PagesFit
<1>2. Fresh("away") \in Tab /\ Fresh("away").view = "away" /\ Fresh("away").saving = FALSE
  BY FreshPage DEF Views
<1>3. CASE call[t] = None
  BY <1>2, <1>3, Idle DEF Abandoned
<1>4. CASE call[t] # None
  <2>1. call[t] \in Call
    BY <1>1, <1>4 DEF Fits
  <2> DEFINE c == [call[t] EXCEPT !.live = FALSE]
  <2>2. c \in Call /\ c.kind = call[t].kind /\ c.at = call[t].at /\ c.copy = call[t].copy
    BY <2>1 DEF Call
  <2>3. Abandoned(t) = c
    BY <1>4 DEF Abandoned
  <2>4. c # None
    BY <2>2
  <2> HIDE DEF c
  <2> QED
    BY <1>1, <1>2, <1>4, <2>2, <2>3, <2>4 DEF Fits
<1> QED
  BY <1>3, <1>4

-----------------------------------------------------------------------------
(* The screen.                                                               *)

LEMMA OpenFits ==
  ASSUME PagesFit, NEW t \in Tabs, Open(t)
  PROVE  PagesFit'
<1> DEFINE c == Request("load", FALSE, None)
<1>1. c \in Call /\ c # None /\ c.kind = "load" /\ c.at = "sent" /\ c.live = TRUE
  BY NewRequest
<1>2. Fresh("loading") \in Tab /\ Fresh("loading").view = "loading" /\ Fresh("loading").saving = FALSE
  BY FreshPage DEF Views
<1>3. Fits(Fresh("loading"), c)
  <2> HIDE DEF c
  <2> QED
    BY <1>1, <1>2 DEF Fits
<1>4. tab' = [tab EXCEPT ![t] = Fresh("loading")] /\ call' = [call EXCEPT ![t] = c]
  BY DEF Open, Become
<1> QED
  BY <1>3, <1>4, OneTab

LEMMA LeaveFits ==
  ASSUME PagesFit, NEW t \in Tabs, Leave(t) \/ HandleAccountDeleted(t)
  PROVE  PagesFit'
<1>1. tab' = [tab EXCEPT ![t] = Fresh("away")] /\ call' = [call EXCEPT ![t] = Abandoned(t)]
  BY DEF Leave, HandleAccountDeleted, Become
<1> QED
  BY <1>1, AbandonedFits, OneTab

\* The page alone changes.
LEMMA OnPageFits ==
  ASSUME PagesFit, NEW t \in Tabs, NEW p \in Tab, OnPage(t, p),
         p.view = tab[t].view, p.saving = tab[t].saving
  PROVE  PagesFit'
<1>1. Fits(p, call[t])
  BY Keeps
<1> QED
  BY <1>1, OnePage DEF OnPage, Become

LEMMA FormFits ==
  ASSUME PagesFit, NEW t \in Tabs,
         ToggleMode(t) \/ Steps(t) \/ \E field \in Places \cup {Empty, Typed} : EditHome(t, field)
  PROVE  PagesFit'
<1>1. tab[t] \in Tab
  BY DEF PagesFit
<1>2. CASE ToggleMode(t)
  <2> DEFINE p == [tab[t] EXCEPT !.modes = ~@]
  <2>1. p \in Tab /\ p.view = tab[t].view /\ p.saving = tab[t].saving
    BY <1>1 DEF Tab
  <2>2. OnPage(t, p)
    BY <1>2 DEF ToggleMode
  <2> HIDE DEF p
  <2> QED
    BY <2>1, <2>2, OnPageFits
<1>3. ASSUME NEW step \in 1 .. 3, NEW modes \in {tab[t].modes, FALSE},
             OnPage(t, [tab[t] EXCEPT !.step = step, !.modes = modes])
      PROVE  PagesFit'
  <2> DEFINE p == [tab[t] EXCEPT !.step = step, !.modes = modes]
  <2>1. p \in Tab /\ p.view = tab[t].view /\ p.saving = tab[t].saving
    BY <1>1 DEF Tab
  <2> HIDE DEF p
  <2> QED
    BY <1>3, <2>1, OnPageFits DEF p
<1>4. CASE Steps(t)
  <2>1. tab[t].step \in 1 .. 3 /\ tab[t].modes \in BOOLEAN
    BY <1>1, PageTypes
  <2>2. CASE tab[t].step < 3 /\ OnPage(t, [tab[t] EXCEPT !.step = @ + 1])
    <3>1. [tab[t] EXCEPT !.step = @ + 1] = [tab[t] EXCEPT !.step = tab[t].step + 1, !.modes = tab[t].modes]
      BY <1>1 DEF Tab
    <3>2. tab[t].step + 1 \in 1 .. 3
      BY <2>1, <2>2
    <3> QED
      BY <1>3, <2>2, <3>1, <3>2, Zenon
  <2>3. CASE OnPage(t, [tab[t] EXCEPT !.step = 2, !.modes = FALSE])
    BY <1>3, <2>3
  <2>4. CASE tab[t].step > 1 /\ OnPage(t, [tab[t] EXCEPT !.step = @ - 1])
    <3>1. [tab[t] EXCEPT !.step = @ - 1] = [tab[t] EXCEPT !.step = tab[t].step - 1, !.modes = tab[t].modes]
      BY <1>1 DEF Tab
    <3>2. tab[t].step - 1 \in 1 .. 3
      BY <2>1, <2>4
    <3> QED
      BY <1>3, <2>4, <3>1, <3>2, Zenon
  <2> QED
    BY <1>4, <2>2, <2>3, <2>4 DEF Steps
<1>5. ASSUME NEW field \in Places \cup {Empty, Typed}, EditHome(t, field)
      PROVE  PagesFit'
  <2> DEFINE p == [tab[t] EXCEPT !.home = field]
  <2>1. p \in Tab /\ p.view = tab[t].view /\ p.saving = tab[t].saving
    BY <1>1 DEF Tab
  <2>2. OnPage(t, p)
    BY <1>5 DEF EditHome
  <2> HIDE DEF p
  <2> QED
    BY <2>1, <2>2, OnPageFits
<1> QED
  BY <1>2, <1>4, <1>5

LEMMA PanelFits ==
  ASSUME PagesFit, NEW t \in Tabs, NEW from, NEW to \in {"closed", "confirm", "deleting", "deleted"},
         Panel(t, from, to)
  PROVE  PagesFit'
<1> DEFINE p == [tab[t] EXCEPT !.panel = to]
<1>1. p \in Tab /\ p.view = tab[t].view /\ p.saving = tab[t].saving
  BY DEF PagesFit, Tab
<1>2. OnPage(t, p)
  BY DEF Panel
<1> HIDE DEF p
<1> QED
  BY <1>1, <1>2, OnPageFits

\* A save is sent: the page waits for it, and no other is under way.
LEMMA SendFits ==
  ASSUME PagesFit, NEW t \in Tabs,
         FinishWithAddresses(t) \/ FinishWithoutAddress(t) \/ HandleSubmit(t)
  PROVE  PagesFit'
<1>1. tab[t] \in Tab
  BY DEF PagesFit
<1>2. PICK kind \in {"create", "update"}, home \in Places \cup {None} :
        Send(t, kind, home) /\ tab[t].view \in {"onboarding", "edit"}
  BY DEF FinishWithAddresses, FinishWithoutAddress, HandleSubmit, Resolved
<1> DEFINE p == [tab[t] EXCEPT !.saving = TRUE]
<1> DEFINE c == Request(kind, tab[t].modes, home)
<1>3. p \in Tab /\ p.view = tab[t].view
  BY <1>1 DEF Tab
<1>4. c \in Call /\ c # None /\ c.kind = kind /\ c.at = "sent" /\ c.live = TRUE
  <2>1. c \in Call
    BY <1>1, <1>2, PageTypes DEF Request, Call
  <2> QED
    BY <2>1 DEF Request
<1>5. tab' = [tab EXCEPT ![t] = p] /\ call' = [call EXCEPT ![t] = c]
  BY <1>2 DEF Send, Become
<1> HIDE DEF p, c
<1>6. Fits(p, c)
  BY <1>2, <1>3, <1>4 DEF Fits
<1> QED
  BY <1>5, <1>6, OneTab

-----------------------------------------------------------------------------
(* The server.                                                               *)

\* A request that goes on is awaited as before.
LEMMA SameWait ==
  ASSUME PagesFit, NEW t \in Tabs, call[t] # None, NEW c \in Call,
         c.kind = call[t].kind, c.live = call[t].live,
         c.kind = "load" => c.at # "found" /\ (c.at = "done" => c.copy # None)
  PROVE  Fits(tab[t], c)
<1>1. Fits(tab[t], call[t])
  BY DEF PagesFit
<1> QED
  BY <1>1 DEF Fits

LEMMA FinishFits ==
  ASSUME PagesFit, NEW t \in Tabs, call[t] # None, NEW at \in {"done", "refused"}, Finish(t, at),
         at = "done" => call[t].kind # "load", UNCHANGED tab
  PROVE  PagesFit'
<1>1. call[t] \in Call
  BY DEF PagesFit
<1> DEFINE r == Request(call[t].kind, FALSE, None)
<1> DEFINE c == [r EXCEPT !.at = at, !.live = call[t].live]
<1>2. r \in Call /\ r.kind = call[t].kind
  <2>1. call[t].kind \in {"load", "create", "update"} /\ None \in Places \cup {None} /\ FALSE \in BOOLEAN
    BY <1>1, CallTypes
  <2> QED
    BY <2>1, NewRequest, Zenon
<1>3. c \in Call /\ c.kind = call[t].kind /\ c.live = call[t].live /\ c.at = at
  <2> HIDE DEF r
  <2> QED
    BY <1>1, <1>2, CallTypes DEF Call
<1>4. call' = [call EXCEPT ![t] = c]
  BY DEF Finish, PagesFit
<1> HIDE DEF c
<1>5. Fits(tab[t], c)
  BY <1>3, SameWait
<1> QED
  BY <1>4, <1>5, OneCall

LEMMA FindProfileFits ==
  ASSUME PagesFit, NEW t \in Tabs, row \in Profile \cup {None}, FindProfile(t)
  PROVE  PagesFit' /\ UNCHANGED <<account, row>>
<1>1. call[t] \in Call /\ call[t] # None
  BY DEF PagesFit, FindProfile
<1>2. CASE (call[t].kind = "create") = (row = None)
  <2> DEFINE at == IF call[t].kind = "load" THEN "done" ELSE "found"
  <2> DEFINE c == [call[t] EXCEPT !.at = at, !.copy = row]
  <2>1. at \in {"sent", "found", "done", "refused"}
    OBVIOUS
  <2>2. c \in Call /\ c.kind = call[t].kind /\ c.live = call[t].live /\ c.at = at /\ c.copy = row
    <3> HIDE DEF at
    <3> QED
      BY <1>1, <2>1 DEF Call
  <2>3. c.kind = "load" => c.at # "found" /\ (c.at = "done" => c.copy # None)
    <3> HIDE DEF c
    <3> QED
      BY <1>2, <2>2
  <2>4. call' = [call EXCEPT ![t] = c] /\ UNCHANGED <<account, row, tab>>
    BY <1>2 DEF FindProfile, Advance, PagesFit
  <2> HIDE DEF c
  <2>5. Fits(tab[t], c)
    BY <1>1, <2>2, <2>3, SameWait
  <2> QED
    BY <2>4, <2>5, OneCall
<1>3. CASE ~((call[t].kind = "create") = (row = None))
  <2>1. Finish(t, "refused") /\ UNCHANGED <<account, row, tab>>
    BY <1>3 DEF FindProfile, Refuse
  <2> QED
    BY <1>1, <2>1, FinishFits
<1> QED
  BY <1>2, <1>3

\* What a save under way writes, if anything.
LEMMA StoreTypes ==
  ASSUME NEW c \in Call, row \in Profile \cup {None}, Store(c)
  PROVE  row' \in Profile \cup {None} /\ (row' # row => Storable(c))
<1>1. Merged(c, c.copy) \in Profile
  <2>1. c.modes \in BOOLEAN /\ c.home \in Places \cup {None} /\ c.copy \in Profile \cup {None}
    BY CallTypes
  <2>2. c.copy # None => c.copy.home \in Places \cup {None}
    BY <2>1 DEF Profile
  <2> QED
    BY <2>1, <2>2 DEF Merged, Profile
<1> QED
  BY <1>1 DEF Store

LEMMA SaveProfileFits ==
  ASSUME PagesFit, NEW t \in Tabs, row \in Profile \cup {None}, SaveProfile(t)
  PROVE  /\ PagesFit' /\ row' \in Profile \cup {None} /\ UNCHANGED account
         /\ call[t] # None /\ call[t].at = "found" /\ call[t].kind \in {"create", "update"}
         /\ row' # row => Storable(call[t])
<1>1. call[t] \in Call /\ call[t] # None /\ call[t].at = "found"
  BY DEF PagesFit, SaveProfile
<1>2. call[t].kind \in {"create", "update"}
  BY <1>1, CallTypes DEF PagesFit, Fits
<1>3. row' \in Profile \cup {None} /\ (row' # row => Storable(call[t])) /\ UNCHANGED account
  BY <1>1, StoreTypes DEF SaveProfile
<1>4. PagesFit'
  <2> DEFINE at == IF Storable(call[t]) THEN "done" ELSE "refused"
  <2>1. Finish(t, at) /\ UNCHANGED tab /\ at \in {"done", "refused"}
    BY DEF SaveProfile
  <2> HIDE DEF at
  <2> QED
    BY <1>1, <1>2, <2>1, FinishFits
<1> QED
  BY <1>1, <1>2, <1>3, <1>4

-----------------------------------------------------------------------------
(* The answers.                                                              *)

\* The answer to a page that is there leaves p, one that waits for nothing; a page that
\* is gone is left as it is, and what it was left for waits for nothing either.
LEMMA AnswerFits ==
  ASSUME PagesFit, NEW t \in Tabs, call[t] # None,
         NEW p \in Tab, p.view # "loading", p.saving = FALSE,
         tab' = (IF call[t].live THEN [tab EXCEPT ![t] = p] ELSE tab) \/ tab' = [tab EXCEPT ![t] = p],
         call' = [call EXCEPT ![t] = None]
  PROVE  PagesFit'
<1>1. CASE tab' = [tab EXCEPT ![t] = p]
  <2>1. Fits(p, None)
    BY Idle
  <2> QED
    BY <1>1, <2>1, OneTab
<1>2. CASE ~call[t].live /\ tab' = tab
  <2>1. Fits(tab[t], call[t])
    BY DEF PagesFit
  <2>2. Fits(tab[t], None)
    BY <1>2, <2>1 DEF Fits
  <2> QED
    BY <1>2, <2>2, OneCall
<1> QED
  BY <1>1, <1>2

LEMMA LoadedFits ==
  ASSUME PagesFit, NEW t \in Tabs, Loaded(t)
  PROVE  PagesFit'
<1>1. call[t] \in Call /\ call[t] # None /\ call[t].kind = "load" /\ call[t].at = "done"
  BY DEF PagesFit, Loaded
<1>2. call[t].copy \in Profile
  BY <1>1, CallTypes DEF PagesFit, Fits
<1> DEFINE home == IF call[t].copy.home = None THEN Empty ELSE call[t].copy.home
<1> DEFINE p == [Fresh("edit") EXCEPT !.modes = call[t].copy.modes, !.home = home]
<1>3. home \in Fields /\ call[t].copy.modes \in BOOLEAN
  BY <1>2 DEF Profile, Fields
<1>4. p \in Tab /\ p.view = "edit" /\ p.saving = FALSE
  <2> HIDE DEF home
  <2> QED
    BY <1>3, FilledForm
<1>5. tab' = (IF call[t].live THEN [tab EXCEPT ![t] = p] ELSE tab)
  BY DEF Loaded
<1>6. call' = [call EXCEPT ![t] = None]
  BY DEF Loaded, Answered
<1> HIDE DEF p
<1> QED
  BY <1>1, <1>4, <1>5, <1>6, AnswerFits

\* The load ends otherwise, or the creation leads elsewhere: a fresh page.
LEMMA AnewFits ==
  ASSUME PagesFit, NEW t \in Tabs, LoadFails(t) \/ SessionOver(t) \/ Created(t)
  PROVE  PagesFit'
<1>1. call[t] # None /\ call' = [call EXCEPT ![t] = None]
  BY DEF LoadFails, SessionOver, Created, Answered
<1>2. PICK view \in {"onboarding", "away"} :
        \/ tab' = (IF call[t].live THEN [tab EXCEPT ![t] = Fresh(view)] ELSE tab)
        \/ tab' = [tab EXCEPT ![t] = Fresh(view)]
  BY DEF LoadFails, SessionOver, Created, Become
<1>3. Fresh(view) \in Tab /\ Fresh(view).view # "loading" /\ Fresh(view).saving = FALSE
  BY <1>2, FreshPage DEF Views
<1> QED
  BY <1>1, <1>2, <1>3, AnswerFits

\* The save is over: the buttons are given back.
LEMMA SettledFits ==
  ASSUME PagesFit, NEW t \in Tabs, Updated(t) \/ SaveFails(t)
  PROVE  PagesFit'
<1>1. call[t] # None /\ call[t].kind # "load" /\ call' = [call EXCEPT ![t] = None] /\ Settle(t)
  BY DEF Updated, SaveFails, Answered
<1>2. tab[t] \in Tab /\ tab[t].view # "loading"
  BY <1>1 DEF PagesFit, Fits
<1> DEFINE p == [tab[t] EXCEPT !.saving = FALSE]
<1>3. p \in Tab /\ p.view = tab[t].view /\ p.saving = FALSE
  BY <1>2 DEF Tab
<1>4. tab' = (IF call[t].live THEN [tab EXCEPT ![t] = p] ELSE tab)
  BY <1>1 DEF Settle
<1> HIDE DEF p
<1> QED
  BY <1>1, <1>2, <1>3, <1>4, AnswerFits

-----------------------------------------------------------------------------
(* The theorems.                                                             *)

LEMMA InitIInv == Init => IInv
<1> SUFFICES ASSUME Init PROVE IInv
  OBVIOUS
<1>1. Fresh("away") \in Tab /\ Fresh("away").view = "away" /\ Fresh("away").saving = FALSE
  BY FreshPage DEF Views
<1>2. Fits(Fresh("away"), None)
  BY <1>1, Idle
<1>3. PagesFit
  BY <1>1, <1>2 DEF Init, PagesFit
<1>4. [modes |-> FALSE, home |-> None] \in Profile
  BY DEF Profile
<1>5. row \in Profile \cup {None}
  BY <1>4 DEF Init
<1>6. account = TRUE
  BY DEF Init
<1> QED
  BY <1>3, <1>5, <1>6 DEF IInv, NoProfileWithoutAccount

\* The pages and their requests still fit after any step.
LEMMA NextPagesFit ==
  ASSUME IInv, Next
  PROVE  PagesFit'
<1>0. PagesFit /\ row \in Profile \cup {None}
  BY DEF IInv
<1>1. ASSUME NEW t \in Tabs, Open(t) PROVE PagesFit'
  BY <1>0, <1>1, OpenFits
<1>2. ASSUME NEW t \in Tabs, Leave(t) \/ HandleAccountDeleted(t) PROVE PagesFit'
  BY <1>0, <1>2, LeaveFits
<1>3. ASSUME NEW t \in Tabs,
             ToggleMode(t) \/ Steps(t) \/ \E field \in Places \cup {Empty, Typed} : EditHome(t, field)
      PROVE  PagesFit'
  BY <1>0, <1>3, FormFits
<1>4. ASSUME NEW t \in Tabs, FinishWithAddresses(t) \/ FinishWithoutAddress(t) \/ HandleSubmit(t)
      PROVE  PagesFit'
  BY <1>0, <1>4, SendFits
<1>5. ASSUME NEW t \in Tabs, Serve(t) PROVE PagesFit'
  BY <1>0, <1>5, FindProfileFits, SaveProfileFits DEF Serve
<1>6. ASSUME NEW t \in Tabs, Answer(t) PROVE PagesFit'
  BY <1>0, <1>6, LoadedFits, AnewFits, SettledFits DEF Answer
<1>7. ASSUME NEW t \in Tabs, AskDeletion(t) \/ Cancel(t) \/ ConfirmDelete(t) \/ DeletionFails(t)
      PROVE  PagesFit'
  BY <1>0, <1>7, PanelFits DEF AskDeletion, Cancel, ConfirmDelete, DeletionFails
<1>8. ASSUME NEW t \in Tabs, RemoveAccount(t) PROVE PagesFit'
  <2> DEFINE p == [tab[t] EXCEPT !.panel = "deleted"]
  <2>1. p \in Tab /\ p.view = tab[t].view /\ p.saving = tab[t].saving
    BY <1>0 DEF PagesFit, Tab
  <2>2. tab' = [tab EXCEPT ![t] = p] /\ UNCHANGED call
    BY <1>8 DEF RemoveAccount, Become
  <2> HIDE DEF p
  <2>3. Fits(p, call[t])
    BY <1>0, <2>1, Keeps
  <2> QED
    BY <1>0, <2>2, <2>3, OnePage
<1>9. CASE RemoveProfile
  BY <1>0, <1>9 DEF RemoveProfile, PagesFit
<1> QED
  BY <1>1, <1>2, <1>3, <1>4, <1>5, <1>6, <1>7, <1>8, <1>9 DEF Next, DeletionSettles

\* Who writes the account and its profile, and how: the deletion of the account removes both,
\* that of the profile the row, and a save writes the row only while the account is there.
LEMMA NextRows ==
  ASSUME IInv, Next
  PROVE  \/ account' = FALSE /\ row' = None
         \/ account /\ row' = None /\ UNCHANGED account
         \/ /\ row' \in Profile \cup {None} /\ UNCHANGED account
            /\ \E t \in Tabs : /\ SaveProfile(t) /\ call[t] # None /\ call[t].at = "found"
                               /\ call[t].kind \in {"create", "update"}
                               /\ row' # row => Storable(call[t])
         \/ UNCHANGED <<account, row>>
<1>0. PagesFit /\ row \in Profile \cup {None}
  BY DEF IInv
<1>1. ASSUME NEW t \in Tabs, RemoveAccount(t) PROVE account' = FALSE /\ row' = None
  BY <1>1 DEF RemoveAccount
<1>2. CASE RemoveProfile
  BY <1>2 DEF RemoveProfile
<1>3. ASSUME NEW t \in Tabs, SaveProfile(t)
      PROVE  /\ row' \in Profile \cup {None} /\ UNCHANGED account
             /\ call[t] # None /\ call[t].at = "found" /\ call[t].kind \in {"create", "update"}
             /\ row' # row => Storable(call[t])
  BY <1>0, <1>3, SaveProfileFits
<1>4. ASSUME NEW t \in Tabs, FindProfile(t) PROVE UNCHANGED <<account, row>>
  BY <1>0, <1>4, FindProfileFits
<1>5. ASSUME NEW t \in Tabs, Open(t) \/ Leave(t) \/ HandleAccountDeleted(t) PROVE UNCHANGED <<account, row>>
  BY <1>5 DEF Open, Leave, HandleAccountDeleted
<1>6. ASSUME NEW t \in Tabs,
             ToggleMode(t) \/ Steps(t) \/ \E field \in Places \cup {Empty, Typed} : EditHome(t, field)
      PROVE  UNCHANGED <<account, row>>
  BY <1>6 DEF ToggleMode, Steps, EditHome, OnPage
<1>7. ASSUME NEW t \in Tabs, FinishWithAddresses(t) \/ FinishWithoutAddress(t) \/ HandleSubmit(t)
      PROVE  UNCHANGED <<account, row>>
  BY <1>7 DEF FinishWithAddresses, FinishWithoutAddress, HandleSubmit, Send
<1>8. ASSUME NEW t \in Tabs, Answer(t) PROVE UNCHANGED <<account, row>>
  BY <1>8 DEF Answer, Loaded, LoadFails, SessionOver, Created, Updated, SaveFails, Answered
<1>9. ASSUME NEW t \in Tabs, AskDeletion(t) \/ Cancel(t) \/ ConfirmDelete(t) \/ DeletionFails(t)
      PROVE  UNCHANGED <<account, row>>
  BY <1>9 DEF AskDeletion, Cancel, ConfirmDelete, DeletionFails, Panel, OnPage
<1>10. CASE \E t \in Tabs : SaveProfile(t) \/ RemoveAccount(t)
  BY <1>1, <1>3, <1>10
<1>11. CASE RemoveProfile \/ \E t \in Tabs : SaveProfile(t) \/ RemoveAccount(t)
  BY <1>2, <1>10, <1>11 DEF RemoveProfile
<1>12. CASE ~RemoveProfile /\ ~\E t \in Tabs : SaveProfile(t) \/ RemoveAccount(t)
  <2>1. UNCHANGED <<account, row>>
    BY <1>4, <1>5, <1>6, <1>7, <1>8, <1>9, <1>12 DEF Next, Serve, DeletionSettles
  <2> QED
    BY <2>1
<1> QED
  BY <1>11, <1>12

LEMMA Inductive == IInv /\ [Next]_vars => IInv'
<1> SUFFICES ASSUME IInv, [Next]_vars PROVE IInv'
  OBVIOUS
<1>0. account \in BOOLEAN /\ row \in Profile \cup {None} /\ (row # None => account)
  BY DEF IInv, NoProfileWithoutAccount
<1>1. CASE Next
  <2>1. PagesFit'
    BY <1>1, NextPagesFit
  <2>2. account' \in BOOLEAN /\ row' \in Profile \cup {None} /\ (row' # None => account')
    BY <1>0, <1>1, NextRows DEF Storable
  <2> QED
    BY <2>1, <2>2 DEF IInv, NoProfileWithoutAccount
<1>2. CASE UNCHANGED vars
  BY <1>2 DEF vars, IInv, NoProfileWithoutAccount, PagesFit
<1> QED
  BY <1>1, <1>2

\* The account and its row, and every page with its request, hold together at all times,
\* whatever the order in which the tabs, the server and the answers move.
THEOREM Invariance == Spec => []IInv
<1>1. Init => IInv
  BY InitIInv
<1>2. IInv /\ [Next]_vars => IInv'
  BY Inductive
<1> QED
  BY <1>1, <1>2, PTL DEF Spec

\* The account, its profile, the pages and their requests keep their types.
THEOREM Typing == Spec => []TypeOK
<1>1. IInv => TypeOK
  BY DEF IInv, PagesFit, TypeOK
<1> QED
  BY <1>1, Invariance, PTL

\* The deletion of the account leaves no profile behind: the foreign key refuses the save
\* that another tab has under way (UsersService.remove against ProfilesService).
THEOREM NoProfileOutlives == Spec => []NoProfileWithoutAccount
<1>1. IInv => NoProfileWithoutAccount
  BY DEF IInv
<1> QED
  BY <1>1, Invariance, PTL

\* Whatever is refused, lost or left, a page that shows the skeleton or has its buttons
\* disabled has the request it waits for under way (ProfilPage.tsx, isLoading and isSaving).
THEOREM NothingWaitsInVain == Spec => []WaitsAreAwaited
<1>1. IInv => WaitsAreAwaited
  BY DEF IInv, PagesFit, Fits, WaitsAreAwaited
<1> QED
  BY <1>1, Invariance, PTL

\* Of two onboardings that both found no profile, the later creation never replaces what the
\* first one stored: only an update that read a row writes over one (unique user_id).
THEOREM CreationsNeverOverwrite == Spec => CreateNeverOverwrites
<1> DEFINE ByAnUpdate == \E t \in Tabs : call[t] # None /\ call[t].kind = "update" /\ call[t].at = "found"
<1>1. IInv /\ [Next]_vars => (row # None /\ row' # row /\ row' # None => ByAnUpdate)
  <2> SUFFICES ASSUME IInv, [Next]_vars, row # None, row' # row, row' # None PROVE ByAnUpdate
    OBVIOUS
  <2>1. Next
    BY DEF vars
  <2>2. PICK t \in Tabs : /\ call[t] # None /\ call[t].at = "found"
                          /\ call[t].kind \in {"create", "update"} /\ Storable(call[t])
    BY <2>1, NextRows
  <2>3. call[t].kind # "create"
    BY <2>2 DEF Storable
  <2> QED
    BY <2>2, <2>3
<1>2. IInv /\ [Next]_vars => [row # None /\ row' # row /\ row' # None => ByAnUpdate]_vars
  BY <1>1
<1> QED
  BY <1>2, Invariance, PTL DEF Spec, CreateNeverOverwrites

-----------------------------------------------------------------------------
(* Saves that do not overlap.                                                *)

\* No two saves of the account are between their SELECT and their write at once.
SavesApart ==
  \A t, u \in Tabs :
    call[t] # None /\ call[t].at = "found" /\ call[u] # None /\ call[u].at = "found" => t = u

\* What a save read is still there, unless it was removed; an update read something.
CopyIsRow ==
  \A t \in Tabs : call[t] # None /\ call[t].at = "found" =>
    row \in {call[t].copy, None} /\ (call[t].kind = "update" => call[t].copy # None)

\* A request between its SELECT and its write has just made the SELECT, or was there before.
LEMMA WhoFinds ==
  ASSUME IInv, [Next]_vars, NEW t \in Tabs, call'[t] # None, call'[t].at = "found"
  PROVE  \/ FindProfile(t)
         \/ /\ call[t] # None /\ call[t].at = "found"
            /\ call'[t].copy = call[t].copy /\ call'[t].kind = call[t].kind
<1> DEFINE Same == /\ call[t] # None /\ call[t].at = "found"
                   /\ call'[t].copy = call[t].copy /\ call'[t].kind = call[t].kind
<1>0. PagesFit /\ call \in [Tabs -> Call \cup {None}]
  BY DEF IInv, PagesFit
<1>1. ASSUME UNCHANGED call PROVE Same
  BY <1>1
<1>2. ASSUME NEW u \in Tabs, NEW x, call' = [call EXCEPT ![u] = x], x = None \/ x.at # "found"
      PROVE  Same
  <2>1. u # t
    BY <1>0, <1>2
  <2> QED
    BY <1>0, <1>2, <2>1
<1>3. ASSUME NEW u \in Tabs, NEW kind, NEW modes, NEW home,
             call' = [call EXCEPT ![u] = Request(kind, modes, home)]
      PROVE  Same
  BY <1>2, <1>3 DEF Request
<1>4. ASSUME NEW u \in Tabs,
             \/ Open(u) \/ FinishWithAddresses(u) \/ FinishWithoutAddress(u) \/ HandleSubmit(u)
      PROVE  Same
  <2> HIDE DEF Same
  <2>1. CASE Open(u)
    <3>1. call' = [call EXCEPT ![u] = Request("load", FALSE, None)]
      BY <2>1 DEF Open
    <3> QED
      BY <1>3, <3>1
  <2>2. ASSUME NEW kind, NEW home, Send(u, kind, home) PROVE Same
    <3>1. call' = [call EXCEPT ![u] = Request(kind, tab[u].modes, home)]
      BY <2>2 DEF Send
    <3> QED
      BY <1>3, <3>1
  <2>3. CASE FinishWithAddresses(u) \/ FinishWithoutAddress(u) \/ HandleSubmit(u)
    BY <2>2, <2>3 DEF FinishWithAddresses, FinishWithoutAddress, HandleSubmit
  <2> QED
    BY <1>4, <2>1, <2>3
<1>5. ASSUME NEW u \in Tabs, Answer(u) PROVE Same
  <2>1. call' = [call EXCEPT ![u] = None]
    BY <1>5 DEF Answer, Loaded, LoadFails, SessionOver, Created, Updated, SaveFails, Answered
  <2> QED
    BY <1>2, <2>1
<1>6. ASSUME NEW u \in Tabs, NEW at \in {"done", "refused"}, Finish(u, at) PROVE Same
  <2> DEFINE x == [Request(call[u].kind, FALSE, None) EXCEPT !.at = at, !.live = call[u].live]
  <2>1. x.at = at
    BY DEF Request
  <2>2. call' = [call EXCEPT ![u] = x]
    BY <1>0, <1>6 DEF Finish
  <2> HIDE DEF x
  <2> QED
    BY <1>2, <2>1, <2>2
<1>7. ASSUME NEW u \in Tabs, FindProfile(u) PROVE Same \/ FindProfile(t)
  <2>1. CASE u = t
    BY <1>7, <2>1
  <2>2. CASE u # t /\ (call[u].kind = "create") = (row = None)
    BY <1>0, <1>7, <2>2 DEF FindProfile, Advance
  <2>3. CASE ~((call[u].kind = "create") = (row = None))
    BY <1>6, <1>7, <2>3 DEF FindProfile, Refuse
  <2> QED
    BY <2>1, <2>2, <2>3
<1>8. ASSUME NEW u \in Tabs, SaveProfile(u) PROVE Same
  BY <1>6, <1>8 DEF SaveProfile
<1>9. ASSUME NEW u \in Tabs, Leave(u) \/ HandleAccountDeleted(u) PROVE Same
  <2>1. call' = [call EXCEPT ![u] = Abandoned(u)]
    BY <1>9 DEF Leave, HandleAccountDeleted
  <2>2. CASE call[u] = None
    BY <1>2, <2>1, <2>2 DEF Abandoned
  <2>3. CASE call[u] # None /\ u # t
    BY <1>0, <2>1, <2>3
  <2>4. CASE call[u] # None /\ u = t
    <3>1. call[t] \in Call /\ call'[t] = [call[t] EXCEPT !.live = FALSE]
      BY <1>0, <2>1, <2>4 DEF Abandoned
    <3> QED
      BY <2>4, <3>1 DEF Call
  <2> QED
    BY <2>2, <2>3, <2>4
<1>10. ASSUME NEW u \in Tabs,
              \/ ToggleMode(u) \/ Steps(u) \/ \E field \in Places \cup {Empty, Typed} : EditHome(u, field)
              \/ AskDeletion(u) \/ Cancel(u) \/ ConfirmDelete(u) \/ DeletionFails(u) \/ RemoveAccount(u)
       PROVE  Same
  BY <1>1, <1>10 DEF ToggleMode, Steps, EditHome, OnPage, AskDeletion, Cancel, ConfirmDelete,
                     DeletionFails, Panel, RemoveAccount
<1>11. ASSUME RemoveProfile \/ UNCHANGED vars PROVE Same
  BY <1>1, <1>11 DEF RemoveProfile, vars
<1> HIDE DEF Same
<1>12. ASSUME NEW u \in Tabs,
              \/ Open(u) \/ Leave(u) \/ ToggleMode(u) \/ Steps(u)
              \/ \E field \in Places \cup {Empty, Typed} : EditHome(u, field)
              \/ FinishWithAddresses(u) \/ FinishWithoutAddress(u) \/ HandleSubmit(u)
              \/ Serve(u) \/ Answer(u) \/ AskDeletion(u) \/ Cancel(u) \/ ConfirmDelete(u)
              \/ RemoveAccount(u) \/ DeletionSettles(u)
       PROVE  Same \/ FindProfile(t)
  BY <1>4, <1>5, <1>7, <1>8, <1>9, <1>10, <1>12, Zenon DEF Serve, DeletionSettles
<1>13. Same \/ FindProfile(t)
  <2>1. CASE Next /\ ~RemoveProfile
    <3>1. PICK u \in Tabs :
              \/ Open(u) \/ Leave(u) \/ ToggleMode(u) \/ Steps(u)
              \/ \E field \in Places \cup {Empty, Typed} : EditHome(u, field)
              \/ FinishWithAddresses(u) \/ FinishWithoutAddress(u) \/ HandleSubmit(u)
              \/ Serve(u) \/ Answer(u) \/ AskDeletion(u) \/ Cancel(u) \/ ConfirmDelete(u)
              \/ RemoveAccount(u) \/ DeletionSettles(u)
      BY <2>1, Zenon DEF Next
    <3> QED
      BY <1>12, <3>1, Zenon
  <2>2. CASE RemoveProfile \/ UNCHANGED vars
    BY <1>11, <2>2
  <2> QED
    BY <2>1, <2>2
<1> QED
  BY <1>13 DEF Same

\* The profile that a save found, once no other save is under way.
LEMMA NextCopies == IInv /\ SavesApart /\ CopyIsRow /\ [Next]_vars => CopyIsRow'
<1> SUFFICES ASSUME IInv, SavesApart, CopyIsRow, [Next]_vars,
                    NEW t \in Tabs, call'[t] # None, call'[t].at = "found"
             PROVE  row' \in {call'[t].copy, None} /\ (call'[t].kind = "update" => call'[t].copy # None)
  BY DEF CopyIsRow
<1>0. PagesFit /\ call \in [Tabs -> Call \cup {None}] /\ row \in Profile \cup {None}
  BY DEF IInv, PagesFit
<1>1. CASE FindProfile(t)
  <2>1. UNCHANGED row
    BY <1>0, <1>1, FindProfileFits
  <2>2. (call[t].kind = "create") = (row = None)
    <3> SUFFICES ASSUME ~((call[t].kind = "create") = (row = None)) PROVE FALSE
      OBVIOUS
    <3>1. Finish(t, "refused")
      BY <1>1 DEF FindProfile, Refuse
    <3> DEFINE x == [Request(call[t].kind, FALSE, None) EXCEPT !.at = "refused", !.live = call[t].live]
    <3>2. x.at = "refused"
      BY DEF Request
    <3>3. call'[t] = x
      BY <1>0, <3>1 DEF Finish
    <3> HIDE DEF x
    <3> QED
      BY <3>2, <3>3
  <2>3. call[t] \in Call
    BY <1>0, <1>1 DEF FindProfile
  <2> DEFINE at == IF call[t].kind = "load" THEN "done" ELSE "found"
  <2> DEFINE x == [call[t] EXCEPT !.at = at, !.copy = row]
  <2>4. x.copy = row /\ x.kind = call[t].kind
    BY <2>3 DEF Call
  <2>5. call'[t] = x
    BY <1>0, <1>1, <2>2 DEF FindProfile, Advance
  <2> HIDE DEF x
  <2> QED
    BY <2>1, <2>2, <2>4, <2>5
<1>2. CASE /\ call[t] # None /\ call[t].at = "found"
           /\ call'[t].copy = call[t].copy /\ call'[t].kind = call[t].kind
  <2>1. row \in {call[t].copy, None} /\ (call[t].kind = "update" => call[t].copy # None)
    BY <1>2 DEF CopyIsRow
  <2>2. row' \in {row, None}
    <3>1. ASSUME NEW u \in Tabs, SaveProfile(u) PROVE FALSE
      <4>1. u = t
        BY <1>2, <3>1 DEF SaveProfile, SavesApart
      <4> DEFINE at == IF Storable(call[u]) THEN "done" ELSE "refused"
      <4> DEFINE x == [Request(call[u].kind, FALSE, None) EXCEPT !.at = at, !.live = call[u].live]
      <4>2. x.at = at /\ at # "found"
        BY DEF Request
      <4>3. call'[u] = x
        BY <1>0, <3>1 DEF SaveProfile, Finish
      <4> HIDE DEF x
      <4> QED
        BY <4>1, <4>2, <4>3
    <3>2. CASE UNCHANGED vars
      BY <3>2 DEF vars
    <3>3. CASE Next
      BY <3>1, <3>3, NextRows
    <3> QED
      BY <3>2, <3>3
  <2> QED
    BY <1>2, <2>1, <2>2
<1> QED
  BY <1>1, <1>2, WhoFinds

\* As long as no two saves of the account overlap, "un champ vide laisse donc l'adresse deja
\* enregistree intacte", whatever is loaded, left, refused or deleted meanwhile: the copy that
\* another save has overtaken is all that can erase an address.
THEOREM AddressesKeptApart == Spec /\ []SavesApart => AddressNeverErased
<1> DEFINE Kept == row # None /\ row.home # None /\ row' # None => row'.home # None
<1>1. Init => CopyIsRow
  BY DEF Init, CopyIsRow
<1>2. Spec /\ []SavesApart => []CopyIsRow
  BY <1>1, NextCopies, Invariance, PTL DEF Spec
<1>3. IInv /\ CopyIsRow /\ [Next]_vars => Kept
  <2> SUFFICES ASSUME IInv, CopyIsRow, Next, row # None, row.home # None, row' # None, row' # row
               PROVE  row'.home # None
    BY DEF vars
  <2>1. PICK t \in Tabs : /\ SaveProfile(t) /\ call[t] # None /\ call[t].at = "found"
                          /\ call[t].kind \in {"create", "update"} /\ Storable(call[t])
    BY NextRows
  <2>2. row' = Merged(call[t], call[t].copy)
    BY <2>1 DEF SaveProfile, Store
  <2>3. call[t].copy = row
    BY <2>1 DEF CopyIsRow
  <2> QED
    BY <2>2, <2>3 DEF Merged
<1>4. IInv /\ CopyIsRow /\ [Next]_vars => [Kept]_vars
  BY <1>3
<1> QED
  BY <1>2, <1>4, Invariance, PTL DEF Spec, AddressNeverErased
==============================================================================
