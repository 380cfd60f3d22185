------------------------------ MODULE SearchPage ------------------------------
(***************************************************************************)
(* The search screen of the browser, and what it keeps in the browser:       *)
(*   frontend/src/pages/RecherchePage/RecherchePage.tsx                       *)
(*   frontend/src/pages/RecherchePage/RecherchePageResults.tsx                *)
(*   frontend/src/lib/rechercheSessionState.ts   sessionStorage               *)
(*   frontend/src/lib/tripCache.ts               localStorage                 *)
(*                                                                         *)
(* One action is one event handler, effect or settled promise, with the       *)
(* synchronous code it runs.  A search, the profile and the followed trip are  *)
(* requested by one page and may answer after the user typed, launched other   *)
(* searches, left the page or logged out.                                     *)
(*                                                                         *)
(* Data.  The two address fields are the trip they would search, or Unready:   *)
(* empty, not chosen in the list, or the same place twice.  A result is its    *)
(* number of itineraries.  selectedModes is one mode, ticked or not            *)
(* (departureTime is kept in the same way).  Messages and the folding of the   *)
(* cards are layout.                                                          *)
(***************************************************************************)
EXTENDS Naturals, Sequences, FiniteSets

CONSTANTS
  Places,         \* places of the geocoder
  Unready,        \* the fields hold no trip that can be searched
  None,           \* no session, no search, no place
  Slots,          \* bound: searches in flight at once
  MaxItineraries, \* bound: itineraries of one result
  MaxEntries,     \* MAX_ENTRIES of the trip cache
  Retention       \* RETENTION_MS

ASSUME ConstantsAssumption ==
  /\ Unready \notin Places \X Places /\ None \notin Places \X Places
  /\ MaxItineraries \in Nat /\ MaxEntries \in Nat \ {0} /\ Retention \in Nat

VARIABLES
  signedIn, \* isAuthenticated
  page,     \* RecherchePage on screen, its states and those of its results
  flight,   \* flight[s]: a search in flight, or None
  session,  \* sessionStorage: the search to come back to, or None
  cache,    \* localStorage: the trip cache, newest first
  latest    \* history: the last result of each trip since the last logout

vars == <<signedIn, page, flight, session, cache, latest>>

Trips == {t \in Places \X Places : t[1] # t[2]}
Fields == Trips \cup {Unready}
Counts == 0 .. MaxItineraries

Form == [kind |-> "formulaire", trip |-> None, count |-> 0, fromCache |-> FALSE]
Loading(t) == [kind |-> "recherche", trip |-> t, count |-> 0, fromCache |-> FALSE]
Results(t, n, cached) ==
  [kind |-> "resultats", trip |-> t, count |-> n, fromCache |-> cached]

Screens == {Form} \cup {Loading(t) : t \in Trips}
           \cup {Results(t, n, b) : t \in Trips, n \in Counts, b \in BOOLEAN}

Pages ==
  [mounted       : BOOLEAN,
   screen        : Screens,
   fields        : Fields,                            \* origin, destination
   modes         : BOOLEAN,                           \* selectedModes
   restored      : BOOLEAN,                           \* initialSession # null
   filtersOpen   : BOOLEAN,                           \* SearchFiltersModal
   selectedIndex : Counts,                            \* results
   detailOpen    : BOOLEAN,                           \* results: mobileDetailOpen
   asked         : SUBSET {"profile", "followed"}]    \* answers awaited

NoPage ==
  [mounted |-> FALSE, screen |-> Form, fields |-> Unready, modes |-> FALSE,
   restored |-> FALSE, filtersOpen |-> FALSE, selectedIndex |-> 0, detailOpen |-> FALSE, asked |-> {}]

Flights == [trip : Trips, live : BOOLEAN]
Entries == [trip : Trips, count : Counts, age : 0 .. Retention + 1]

ASSUME NullAssumption == None \notin Flights

TypeOK ==
  /\ signedIn \in BOOLEAN
  /\ page \in Pages
  /\ flight \in [Slots -> Flights \cup {None}]
  /\ session \in {None} \cup [screen : Screens, fields : Fields, modes : BOOLEAN]
  /\ cache \in Seq(Entries)
  /\ Len(cache) <= MaxEntries
  /\ latest \in [Trips -> Counts \cup {None}]

Init ==
  /\ signedIn \in BOOLEAN
  /\ page = NoPage
  /\ flight = [s \in Slots |-> None]
  /\ session = None /\ cache = <<>>
  /\ latest = [t \in Trips |-> None]

-----------------------------------------------------------------------------
(* What the page keeps in the browser.                                       *)

Kept(p) == [screen |-> p.screen, fields |-> p.fields, modes |-> p.modes]

\* Slip: a search in flight is saved as well.
PersistAlways(p) == session' = IF p.mounted THEN Kept(p) ELSE session

\* The effect that saves the page after each change: not a search in flight.
Persist(p) ==
  session' = IF p.mounted /\ p.screen.kind # "recherche" THEN Kept(p) ELSE session

Become(p) == page' = p /\ Persist(p)

Expired(entry) == entry.age > Retention

Valid == {i \in DOMAIN cache : ~Expired(cache[i])}

\* filter: the positions in K, in the order of the cache (there is one such list).
Filters(K) == {f \in [1 .. Cardinality(K) -> K] : \A i, j \in DOMAIN f : i < j => f[i] < f[j]}

\* Slip: the result is put in front, and nothing is replaced or dropped.
SaveTripTwice(t, n) ==
  cache' = <<[trip |-> t, count |-> n, age |-> 0]>> \o cache

\* saveTripToCache: the entry of the trip is replaced, the expired ones are
\* dropped, and the oldest gives way.
SaveTripToCache(t, n) ==
  \E f \in Filters({i \in Valid : cache[i].trip # t}) :
    LET all == <<[trip |-> t, count |-> n, age |-> 0]>> \o [i \in DOMAIN f |-> cache[f[i]]]
    IN cache' = SubSeq(all, 1, IF Len(all) < MaxEntries THEN Len(all) ELSE MaxEntries)

\* getCachedTrip drops the expired entries as it reads.
PurgeCache == \E f \in Filters(Valid) : cache' = [i \in DOMAIN f |-> cache[f[i]]]

\* Slip: the expiry is not looked at when reading.
CachedTripAnyAge(t) == {i \in DOMAIN cache : cache[i].trip = t}

\* The entries of the trip that may be served, one at most.
CachedTrip(t) == {i \in Valid : cache[i].trip = t}

-----------------------------------------------------------------------------
(* The page.                                                                 *)

\* Leaving the form mounts RecherchePageResults; from results to results it
\* stays mounted and keeps its own states.
Show(p, scr) ==
  IF p.screen.kind = "formulaire"
  THEN [p EXCEPT !.screen = scr, !.selectedIndex = 0, !.detailOpen = FALSE]
  ELSE [p EXCEPT !.screen = scr]

\* handleQuickSearch: the fields take the trip, which is searched.
HandleQuickSearch(p, t) == [Show(p, Loading(t)) EXCEPT !.fields = t]

\* performSearch up to its await.
Launch(s, t) ==
  /\ flight[s] = None
  /\ flight' = [flight EXCEPT ![s] = [trip |-> t, live |-> TRUE]]

\* The page as it mounts: the search of the session, the requests of its effects.
MountedPage ==
  [NoPage EXCEPT
     !.mounted = TRUE,
     !.screen = IF session = None THEN Form ELSE session.screen,
     !.fields = IF session = None THEN @ ELSE session.fields,
     !.modes = session # None /\ session.modes,
     !.restored = session # None,
     !.asked = IF signedIn THEN {"profile", "followed"} ELSE {}]

Mount ==
  /\ ~page.mounted
  /\ Become(MountedPage)
  /\ UNCHANGED <<signedIn, flight, cache, latest>>

\* HistoriquePage's "Relancer cette recherche": the page mounts with a search in
\* its navigation state, saves what it restored and launches that search.
Relaunch(s, t) ==
  /\ ~page.mounted
  /\ Launch(s, t)
  /\ page' = HandleQuickSearch(MountedPage, t)
  /\ Persist(MountedPage)
  /\ UNCHANGED <<signedIn, cache, latest>>

\* Another route: the page unmounts, its searches go on without it.
Leave ==
  /\ page.mounted
  /\ page' = NoPage
  /\ flight' = [s \in Slots |-> IF flight[s] = None THEN None
                                ELSE [flight[s] EXCEPT !.live = FALSE]]
  /\ UNCHANGED <<signedIn, session, cache, latest>>

\* The tab is reloaded, or closed and opened again: nothing is in flight any
\* more, and sessionStorage survives a reload only.
Reload ==
  /\ page' = NoPage
  /\ flight' = [s \in Slots |-> None]
  /\ session' \in {session, None}
  /\ UNCHANGED <<signedIn, cache, latest>>

\* ProfilPage's logout, or the deletion of the account.
Logout ==
  /\ signedIn /\ ~page.mounted
  /\ signedIn' = FALSE
  /\ session' = None /\ cache' = <<>>
  /\ latest' = [t \in Trips |-> None]
  /\ UNCHANGED <<page, flight>>

Login ==
  /\ ~signedIn /\ ~page.mounted
  /\ signedIn' = TRUE
  /\ UNCHANGED <<page, flight, session, cache, latest>>

\* The form is within reach: neither behind the filters nor behind the detail.
FormInReach ==
  /\ page.mounted /\ ~page.filtersOpen
  /\ page.screen.kind # "formulaire" => ~page.detailOpen

OnPage(p) == Become(p) /\ UNCHANGED <<signedIn, flight, cache, latest>>

\* AddressField's onChange and onSelect, and the quick entries.
EditFields(f) ==
  /\ FormInReach /\ page.fields # f
  /\ OnPage([page EXCEPT !.fields = f])

HandleSwap ==
  /\ FormInReach /\ page.fields # Unready
  /\ OnPage([page EXCEPT !.fields = <<page.fields[2], page.fields[1]>>])

\* The filters dialog opens and closes; what is ticked applies at once.
OpenFilters == FormInReach /\ OnPage([page EXCEPT !.filtersOpen = TRUE])

CloseFilters == page.filtersOpen /\ OnPage([page EXCEPT !.filtersOpen = FALSE])

ToggleMode == page.filtersOpen /\ OnPage([page EXCEPT !.modes = ~@])

\* handleSubmit: fields that hold no trip only get a message.
HandleSubmit(s) ==
  /\ FormInReach /\ page.fields # Unready
  /\ Launch(s, page.fields)
  /\ Become(Show(page, Loading(page.fields)))
  /\ UNCHANGED <<signedIn, cache, latest>>

Answered(what) == [page EXCEPT !.asked = @ \ {what}]

\* getMyProfile: the preferred modes, unless a search was restored.
ProfileArrives(m) ==
  /\ "profile" \in page.asked
  /\ OnPage([Answered("profile") EXCEPT !.modes = IF page.restored THEN @ ELSE m])

\* No profile, no followed trip, or a failure: silence.
NothingArrives(what) == what \in page.asked /\ OnPage(Answered(what))

\* getCurrentFollowedTrip, then handleQuickSearch: the followed trip replaces
\* what is in the fields and is searched.
FollowedArrives(s, t) ==
  /\ "followed" \in page.asked
  /\ Launch(s, t)
  /\ Become(HandleQuickSearch(Answered("followed"), t))
  /\ UNCHANGED <<signedIn, cache, latest>>

-----------------------------------------------------------------------------
(* The search settles: performSearch after its await.                        *)

\* The page becomes p if it is still the one that launched the search.
BecomeIfLive(s, p) ==
  IF flight[s].live THEN Become(p) ELSE UNCHANGED <<page, session>>

Land(s) == flight' = [flight EXCEPT ![s] = None]

\* Results: shown, then kept for a search without connection.
SearchAnswers(s, n) ==
  /\ flight[s] # None
  /\ LET t == flight[s].trip IN
       /\ BecomeIfLive(s, Show(page, Results(t, n, FALSE)))
       /\ SaveTripToCache(t, n)
       /\ latest' = [latest EXCEPT ![t] = n]
  /\ Land(s)
  /\ UNCHANGED signedIn

\* Slip: the message is shown and the screen left as it is.
BackToFormLoading(s) == UNCHANGED <<page, session>>

\* setScreen({ kind: 'formulaire' }) and showError.
BackToForm(s) == BecomeIfLive(s, [page EXCEPT !.screen = Form])

\* The API answered with an error.
SearchRefused(s) ==
  /\ flight[s] # None
  /\ BackToForm(s)
  /\ Land(s)
  /\ UNCHANGED <<signedIn, cache, latest>>

\* The API could not be reached: the cache, or the form.
SearchUnreachable(s) ==
  /\ flight[s] # None
  /\ LET t == flight[s].trip
         hits == CachedTrip(t)
     IN IF hits # {}
        THEN \E i \in hits : /\ \A j \in hits : i <= j
                             /\ BecomeIfLive(s, Show(page, Results(t, cache[i].count, TRUE)))
        ELSE BackToForm(s)
  /\ PurgeCache
  /\ Land(s)
  /\ UNCHANGED <<signedIn, latest>>

-----------------------------------------------------------------------------
(* RecherchePageResults.                                                     *)

\* The results are listed, the itinerary at selectedIndex beside or above them.
Listed == page.mounted /\ page.screen.kind = "resultats" /\ page.screen.count > 0

\* On a small screen the detail covers the list until it is closed.
SelectItinerary(i) ==
  /\ Listed /\ FormInReach /\ i < page.screen.count
  /\ OnPage([page EXCEPT !.selectedIndex = i, !.detailOpen = TRUE])

\* The overlay that bears "Retour a la liste" has an itinerary to show.
HasDetail == Listed /\ page.selectedIndex < page.screen.count

CloseMobileDetail ==
  /\ HasDetail /\ page.detailOpen /\ ~page.filtersOpen
  /\ OnPage([page EXCEPT !.detailOpen = FALSE])

\* An entry ages; past the retention it only counts as expired.
Tick ==
  /\ cache' = [i \in DOMAIN cache |->
                [cache[i] EXCEPT !.age = IF @ > Retention THEN @ ELSE @ + 1]]
  /\ UNCHANGED <<signedIn, page, flight, session, latest>>

Settles(s) ==
  (\E n \in Counts : SearchAnswers(s, n)) \/ SearchRefused(s) \/ SearchUnreachable(s)

Next ==
  \/ Mount \/ Leave \/ Reload \/ Login \/ Logout
  \/ \E s \in Slots, t \in Trips : Relaunch(s, t) \/ FollowedArrives(s, t)
  \/ \E f \in Fields : EditFields(f)
  \/ HandleSwap \/ OpenFilters \/ CloseFilters \/ ToggleMode
  \/ \E s \in Slots : HandleSubmit(s)
  \/ \E m \in BOOLEAN : ProfileArrives(m)
  \/ \E what \in {"profile", "followed"} : NothingArrives(what)
  \/ \E s \in Slots : Settles(s)
  \/ \E i \in Counts : SelectItinerary(i)
  \/ CloseMobileDetail
  \/ Tick

Spec == Init /\ [][Next]_vars

-----------------------------------------------------------------------------
(* What the screen promises.                                                 *)

\* Whoever comes back to the page finds the fields, the modes and the results he
\* left, and never a search that loads for ever (rechercheSessionState.ts): the
\* saved search follows the page at every change but a search in flight.
SessionFollowsPage ==
  /\ session # None => session.screen.kind # "recherche"
  /\ page.mounted /\ page.screen.kind # "recherche" => session = Kept(page)

\* The trip cache holds each trip once, with the last result any search of it
\* has had since the last logout, newest first (saveTripToCache).
CacheHoldsLatest ==
  \A i \in DOMAIN cache :
    /\ cache[i].count = latest[cache[i].trip]
    /\ \A j \in DOMAIN cache :
         i < j => cache[i].trip # cache[j].trip /\ cache[i].age <= cache[j].age

\* Results "hors ligne" are never older than the retention, and are those of the
\* last search of the very trip that could not be searched.
OfflineResultsUsable ==
  [][\A s \in Slots :
       (flight[s] # None /\ flight'[s] = None /\ page'.screen # page.screen
          /\ page'.screen.fromCache)
       => \E i \in DOMAIN cache :
            /\ cache[i].trip = page'.screen.trip /\ cache[i].age <= Retention
            /\ page'.screen.count = latest[page'.screen.trip]]_vars

\* The page never stays in loading: while it loads, a search it launched is in
\* flight, whatever answered, failed or was launched in between.
LoadingIsAwaited ==
  page.screen.kind = "recherche" => \E s \in Slots : flight[s] # None /\ flight[s].live

\* On a small screen the detail hides the form and the list, and "un bouton
\* Retour a la liste explicite sur la carte de detail la referme": once every
\* request has settled, an open detail has that button.
DetailCanBeClosed ==
  (page.screen.kind = "resultats" /\ page.detailOpen
     /\ page.asked = {} /\ \A s \in Slots : flight[s] = None) => HasDetail
=============================================================================
