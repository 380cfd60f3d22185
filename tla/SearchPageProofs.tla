---------------------------- MODULE SearchPageProofs ----------------------------
(***************************************************************************)
(* Theorems about SearchPage, for any places, any number of searches in flight   *)
(* and any limits of the trip cache.                                            *)
(***************************************************************************)
EXTENDS SearchPage, FiniteSetTheorems, SequenceTheorems, TLAPS

\* What the trip cache owes the history.
CacheFits ==
  /\ cache \in Seq(Entries) /\ Len(cache) <= MaxEntries
  /\ latest \in [Trips -> Counts \cup {None}]
  /\ CacheHoldsLatest

USE ConstantsAssumption, NullAssumption

-----------------------------------------------------------------------------
(* The trip cache.                                                           *)

LEMMA CacheTypes ==
  ASSUME CacheFits
  PROVE  /\ Len(cache) \in Nat /\ DOMAIN cache = 1 .. Len(cache)
         /\ \A i \in DOMAIN cache : cache[i] \in Entries
BY DEF CacheFits

LEMMA EntryTypes ==
  ASSUME NEW e \in Entries
  PROVE  e.trip \in Trips /\ e.count \in Counts /\ e.age \in Nat /\ e.age <= Retention + 1
BY DEF Entries

\* A filter lists positions of the cache in their order.
LEMMA FilterFacts ==
  ASSUME CacheFits, NEW K \in SUBSET DOMAIN cache, NEW f \in Filters(K)
  PROVE  \E m \in Nat : /\ m <= Len(cache) /\ f \in [1 .. m -> K]
                        /\ \A i, j \in 1 .. m : i < j => f[i] < f[j]
<1>1. IsFiniteSet(1 .. Len(cache)) /\ Cardinality(1 .. Len(cache)) = Len(cache)
  BY CacheTypes, FS_Interval
<1>2. IsFiniteSet(K) /\ Cardinality(K) <= Len(cache)
  BY <1>1, CacheTypes, FS_Subset
<1>3. Cardinality(K) \in Nat
  BY <1>2, FS_CardinalityType
<1>4. f \in [1 .. Cardinality(K) -> K] /\ \A i, j \in 1 .. Cardinality(K) : i < j => f[i] < f[j]
  BY DEF Filters
<1> QED
  BY <1>2, <1>3, <1>4

\* What the entries of the cache have in common, entry by entry.
LEMMA EntryByEntry ==
  ASSUME CacheFits, NEW i \in DOMAIN cache
  PROVE  /\ cache[i].count = latest[cache[i].trip]
         /\ \A j \in DOMAIN cache : i < j => cache[i].trip # cache[j].trip /\ cache[i].age <= cache[j].age
BY DEF CacheFits, CacheHoldsLatest

\* The new result goes in front, what stays keeps its order, and the oldest give way.
LEMMA SaveFits ==
  ASSUME CacheFits, NEW t \in Trips, NEW n \in Counts, SaveTripToCache(t, n),
         latest' = [latest EXCEPT ![t] = n]
  PROVE  CacheFits'
<1> DEFINE K == {i \in Valid : cache[i].trip # t}
<1> DEFINE e == [trip |-> t, count |-> n, age |-> 0]
<1>1. K \in SUBSET DOMAIN cache /\ \A k \in K : cache[k].trip # t
  BY DEF Valid
<1>2. PICK f \in Filters(K) :
        LET all == <<e>> \o [i \in DOMAIN f |-> cache[f[i]]]
        IN cache' = SubSeq(all, 1, IF Len(all) < MaxEntries THEN Len(all) ELSE MaxEntries)
  BY DEF SaveTripToCache
<1>3. e \in Entries /\ e.trip = t /\ e.count = n /\ e.age = 0
  BY DEF Entries
<1> HIDE DEF K, e
<1>4. PICK m \in Nat : f \in [1 .. m -> K] /\ \A i, j \in 1 .. m : i < j => f[i] < f[j]
  BY <1>1, <1>2, FilterFacts
<1> DEFINE kept == [i \in DOMAIN f |-> cache[f[i]]]
<1>5. kept \in Seq(Entries) /\ Len(kept) = m /\ \A i \in 1 .. m : kept[i] = cache[f[i]]
  <2>1. kept \in [1 .. m -> Entries] /\ \A i \in 1 .. m : kept[i] = cache[f[i]]
    BY <1>1, <1>4, CacheTypes
  <2> HIDE DEF kept
  <2> QED
    BY <1>4, <2>1
<1> HIDE DEF kept
<1> DEFINE all == <<e>> \o kept
<1> DEFINE l == IF Len(all) < MaxEntries THEN Len(all) ELSE MaxEntries
<1>6. /\ all \in Seq(Entries) /\ Len(all) = m + 1 /\ all[1] = e
      /\ \A i \in 2 .. m + 1 : all[i] = kept[i - 1]
  BY <1>3, <1>4, <1>5
<1>7. cache' = SubSeq(all, 1, l)
  BY <1>2 DEF kept
<1>8. l \in 1 .. m + 1 /\ l <= MaxEntries
  BY <1>4, <1>6
<1> HIDE DEF all, l
<1>9. cache' \in Seq(Entries) /\ Len(cache') = l /\ \A i \in 1 .. l : cache'[i] = all[i]
  BY <1>4, <1>6, <1>7, <1>8, SubSeqProperties
<1>10. latest' \in [Trips -> Counts \cup {None}] /\ latest'[t] = n
       /\ \A u \in Trips \ {t} : latest'[u] = latest[u]
  BY DEF CacheFits
<1>11. ASSUME NEW i \in 1 .. l, i # 1
       PROVE  /\ i - 1 \in 1 .. m /\ f[i - 1] \in DOMAIN cache /\ cache'[i] = cache[f[i - 1]]
              /\ cache'[i] \in Entries /\ cache'[i].trip # t
  BY <1>1, <1>4, <1>5, <1>6, <1>8, <1>9, <1>11, CacheTypes
<1>12. CacheHoldsLatest'
  <2> SUFFICES ASSUME NEW i \in 1 .. l
               PROVE  /\ cache'[i].count = latest'[cache'[i].trip]
                      /\ \A j \in 1 .. l :
                           i < j => cache'[i].trip # cache'[j].trip /\ cache'[i].age <= cache'[j].age
    BY <1>8, <1>9 DEF CacheHoldsLatest
  <2>1. CASE i = 1
    <3>1. cache'[i] = e
      BY <1>6, <1>9, <2>1
    <3>2. ASSUME NEW j \in 1 .. l, i < j
          PROVE  cache'[i].trip # cache'[j].trip /\ cache'[i].age <= cache'[j].age
      BY <1>3, <1>11, <2>1, <3>1, <3>2, EntryTypes
    <3> QED
      BY <1>3, <1>10, <3>1, <3>2
  <2>2. CASE i # 1
    <3>1. cache'[i].count = latest'[cache'[i].trip]
      BY <1>10, <1>11, <2>2, EntryByEntry, EntryTypes
    <3>2. ASSUME NEW j \in 1 .. l, i < j
          PROVE  cache'[i].trip # cache'[j].trip /\ cache'[i].age <= cache'[j].age
      <4>1. j # 1 /\ i - 1 < j - 1
        BY <3>2
      <4>2. f[i - 1] < f[j - 1]
        BY <1>4, <1>11, <2>2, <4>1
      <4> QED
        BY <1>11, <2>2, <4>1, <4>2, EntryByEntry
    <3> QED
      BY <3>1, <3>2
  <2> QED
    BY <2>1, <2>2
<1> QED
  BY <1>8, <1>9, <1>10, <1>12 DEF CacheFits

\* Entries that are kept in their order hold the latest results of their trips as before.
LEMMA PurgeFits ==
  ASSUME CacheFits, PurgeCache, UNCHANGED latest
  PROVE  CacheFits'
<1>1. Valid \in SUBSET DOMAIN cache
  BY DEF Valid
<1>2. PICK f \in Filters(Valid) : cache' = [i \in DOMAIN f |-> cache[f[i]]]
  BY DEF PurgeCache
<1>3. PICK m \in Nat : /\ m <= Len(cache) /\ f \in [1 .. m -> Valid]
                       /\ \A i, j \in 1 .. m : i < j => f[i] < f[j]
  BY <1>1, <1>2, FilterFacts
<1>4. \A i \in 1 .. m : f[i] \in DOMAIN cache /\ cache'[i] = cache[f[i]] /\ cache'[i] \in Entries
  BY <1>1, <1>2, <1>3, CacheTypes
<1>5. cache' \in [1 .. m -> Entries]
  BY <1>2, <1>3, <1>4
<1>6. cache' \in Seq(Entries) /\ Len(cache') = m /\ DOMAIN cache' = 1 .. m
  BY <1>3, <1>5
<1>7. CacheHoldsLatest'
  <2> SUFFICES ASSUME NEW i \in 1 .. m
               PROVE  /\ cache'[i].count = latest'[cache'[i].trip]
                      /\ \A j \in 1 .. m :
                           i < j => cache'[i].trip # cache'[j].trip /\ cache'[i].age <= cache'[j].age
    BY <1>6 DEF CacheHoldsLatest
  <2> QED
    BY <1>3, <1>4, EntryByEntry
<1>8. m <= MaxEntries
  BY <1>3, CacheTypes DEF CacheFits
<1> QED
  BY <1>6, <1>7, <1>8 DEF CacheFits

\* All entries age alike: the order of the ages stays.
LEMMA TickFits ==
  ASSUME CacheFits, Tick
  PROVE  CacheFits'
<1> DEFINE Older(a) == IF a > Retention THEN a ELSE a + 1
<1>1. cache' = [i \in DOMAIN cache |-> [cache[i] EXCEPT !.age = Older(cache[i].age)]] /\ UNCHANGED latest
  BY DEF Tick
<1>2. ASSUME NEW i \in DOMAIN cache
      PROVE  /\ cache'[i] \in Entries /\ cache'[i].trip = cache[i].trip
             /\ cache'[i].count = cache[i].count /\ cache'[i].age = Older(cache[i].age)
  <2>1. cache[i] \in Entries /\ cache[i].age \in 0 .. Retention + 1
    BY CacheTypes DEF Entries
  <2>2. Older(cache[i].age) \in 0 .. Retention + 1
    BY <2>1
  <2>3. cache'[i] = [cache[i] EXCEPT !.age = Older(cache[i].age)]
    BY <1>1
  <2> HIDE DEF Older
  <2> QED
    BY <2>1, <2>2, <2>3 DEF Entries
<1>3. cache' \in [1 .. Len(cache) -> Entries]
  BY <1>1, <1>2, CacheTypes
<1>4. cache' \in Seq(Entries) /\ Len(cache') = Len(cache) /\ DOMAIN cache' = DOMAIN cache
  BY <1>3, CacheTypes
<1>5. CacheHoldsLatest'
  <2> SUFFICES ASSUME NEW i \in DOMAIN cache
               PROVE  /\ cache'[i].count = latest'[cache'[i].trip]
                      /\ \A j \in DOMAIN cache :
                           i < j => cache'[i].trip # cache'[j].trip /\ cache'[i].age <= cache'[j].age
    BY <1>4 DEF CacheHoldsLatest
  <2>1. cache'[i].count = latest'[cache'[i].trip]
    BY <1>1, <1>2, EntryByEntry
  <2>2. ASSUME NEW j \in DOMAIN cache, i < j
        PROVE  cache'[i].trip # cache'[j].trip /\ cache'[i].age <= cache'[j].age
    <3>1. cache[i].trip # cache[j].trip /\ cache[i].age <= cache[j].age
      BY <2>2, EntryByEntry
    <3>2. cache[i].age \in Nat /\ cache[j].age \in Nat /\ cache[j].age <= Retention + 1
      BY CacheTypes, EntryTypes
    <3>3. Older(cache[i].age) <= Older(cache[j].age)
      BY <3>1, <3>2
    <3> HIDE DEF Older
    <3> QED
      BY <1>2, <3>1, <3>3
  <2> QED
    BY <2>1, <2>2
<1> QED
  BY <1>1, <1>4, <1>5 DEF CacheFits

LEMMA EmptyCacheFits ==
  ASSUME cache' = <<>>, latest' = [t \in Trips |-> None]
  PROVE  CacheFits'
BY DEF CacheFits, CacheHoldsLatest

-----------------------------------------------------------------------------
(* Screens and pages.                                                        *)

LEMMA ScreenTypes ==
  /\ Form \in Screens /\ Form.kind = "formulaire" /\ Form.fromCache = FALSE
  /\ \A t \in Trips : /\ Loading(t) \in Screens /\ Loading(t).kind = "recherche"
                      /\ Loading(t).fromCache = FALSE
  /\ \A t \in Trips, n \in Counts, b \in BOOLEAN :
       /\ Results(t, n, b) \in Screens /\ Results(t, n, b).kind = "resultats"
       /\ Results(t, n, b).trip = t /\ Results(t, n, b).count = n /\ Results(t, n, b).fromCache = b
<1>1. Form \in Screens /\ Form.kind = "formulaire" /\ Form.fromCache = FALSE
  BY DEF Screens, Form
<1>2. ASSUME NEW t \in Trips
      PROVE  Loading(t) \in Screens /\ Loading(t).kind = "recherche" /\ Loading(t).fromCache = FALSE
  <2>1. Loading(t) \in Screens
    BY DEF Screens
  <2> QED
    BY <2>1 DEF Loading
<1>3. ASSUME NEW t \in Trips, NEW n \in Counts, NEW b \in BOOLEAN
      PROVE  /\ Results(t, n, b) \in Screens /\ Results(t, n, b).kind = "resultats"
             /\ Results(t, n, b).trip = t /\ Results(t, n, b).count = n /\ Results(t, n, b).fromCache = b
  <2>1. Results(t, n, b) \in Screens
    BY DEF Screens
  <2> QED
    BY <2>1 DEF Results
<1> QED
  BY <1>1, <1>2, <1>3

LEMMA PageTypes ==
  ASSUME NEW p \in Pages
  PROVE  /\ p.screen \in Screens /\ p.fields \in Fields /\ p.selectedIndex \in Counts
         /\ p.mounted \in BOOLEAN /\ p.modes \in BOOLEAN /\ p.restored \in BOOLEAN
         /\ p.filtersOpen \in BOOLEAN /\ p.detailOpen \in BOOLEAN
         /\ p.asked \in SUBSET {"profile", "followed"}
BY DEF Pages

LEMMA CountZero == 0 \in Counts
BY DEF Counts

\* Another screen of the same page.
LEMMA ShowFits ==
  ASSUME NEW p \in Pages, NEW scr \in Screens
  PROVE  /\ Show(p, scr) \in Pages /\ Show(p, scr).screen = scr
         /\ Show(p, scr).mounted = p.mounted /\ Show(p, scr).asked = p.asked
<1>1. CASE p.screen.kind = "formulaire"
  <2> DEFINE q == [p EXCEPT !.screen = scr, !.selectedIndex = 0, !.detailOpen = FALSE]
  <2>1. q \in Pages /\ q.screen = scr /\ q.mounted = p.mounted /\ q.asked = p.asked
    BY CountZero DEF Pages
  <2>2. Show(p, scr) = q
    BY <1>1 DEF Show
  <2> HIDE DEF q
  <2> QED
    BY <2>1, <2>2
<1>2. CASE p.screen.kind # "formulaire"
  <2> DEFINE q == [p EXCEPT !.screen = scr]
  <2>1. q \in Pages /\ q.screen = scr /\ q.mounted = p.mounted /\ q.asked = p.asked
    BY DEF Pages
  <2>2. Show(p, scr) = q
    BY <1>2 DEF Show
  <2> HIDE DEF q
  <2> QED
    BY <2>1, <2>2
<1> QED
  BY <1>1, <1>2

\* A search of t from wherever the page is.
LEMMA QuickFits ==
  ASSUME NEW p \in Pages, NEW t \in Trips
  PROVE  LET q == HandleQuickSearch(p, t)
         IN  q \in Pages /\ q.screen = Loading(t) /\ q.mounted = p.mounted /\ q.asked = p.asked
<1> DEFINE r == Show(p, Loading(t))
<1>1. r \in Pages /\ r.screen = Loading(t) /\ r.mounted = p.mounted /\ r.asked = p.asked
  BY ShowFits, ScreenTypes
<1> HIDE DEF r
<1> DEFINE q == [r EXCEPT !.fields = t]
<1>2. q \in Pages /\ q.screen = Loading(t) /\ q.mounted = p.mounted /\ q.asked = p.asked
  BY <1>1 DEF Pages, Fields
<1>3. HandleQuickSearch(p, t) = q
  BY DEF HandleQuickSearch, r
<1> HIDE DEF q
<1> QED
  BY <1>2, <1>3

-----------------------------------------------------------------------------
(* The page, its searches in flight and the session.                         *)

Saved == [screen : Screens, fields : Fields, modes : BOOLEAN]

\* A page that is gone shows nothing and awaits nothing.
PageFits == page \in Pages /\ (~page.mounted => page.screen = Form /\ page.asked = {})

\* Only the page on screen is told of a search, and it loads only while it will be.
FlightsFit ==
  /\ flight \in [Slots -> Flights \cup {None}]
  /\ \A s \in Slots : flight[s] # None /\ flight[s].live => page.mounted
  /\ LoadingIsAwaited

SessionFits == session \in {None} \cup Saved /\ SessionFollowsPage

ScreenFits == PageFits /\ FlightsFit /\ SessionFits

IInv == signedIn \in BOOLEAN /\ ScreenFits /\ CacheFits

LEMMA NoPageFits == NoPage \in Pages /\ NoPage.mounted = FALSE /\ NoPage.screen = Form /\ NoPage.asked = {}
<1>1. NoPage \in Pages
  BY ScreenTypes, CountZero DEF NoPage, Pages, Fields
<1> QED
  BY <1>1 DEF NoPage

\* Whatever is saved is not a search in flight, and is what the page shows.
LEMMA PersistFits ==
  ASSUME SessionFits, NEW p \in Pages, Persist(p),
         page' = p \/ ~page'.mounted \/ page'.screen.kind = "recherche"
  PROVE  SessionFits'
<1>1. CASE p.mounted /\ p.screen.kind # "recherche"
  <2>1. session' = Kept(p)
    BY <1>1 DEF Persist
  <2>2. Kept(p) \in Saved /\ Kept(p).screen = p.screen
    BY PageTypes DEF Kept, Saved
  <2>3. page'.mounted /\ page'.screen.kind # "recherche" => Kept(page') = Kept(p)
    OBVIOUS
  <2> QED
    BY <1>1, <2>1, <2>2, <2>3 DEF SessionFits, SessionFollowsPage, Kept
<1>2. CASE ~(p.mounted /\ p.screen.kind # "recherche")
  <2>1. session' = session
    BY <1>2 DEF Persist
  <2> QED
    BY <1>2, <2>1 DEF SessionFits, SessionFollowsPage
<1> QED
  BY <1>1, <1>2

\* A page that changes neither its screen nor what it is, and awaits no more than before.
LEMMA OnPageFits ==
  ASSUME ScreenFits, NEW p \in Pages, Become(p), UNCHANGED flight,
         p.screen = page.screen, p.mounted = page.mounted, p.asked \subseteq page.asked
  PROVE  ScreenFits'
<1>1. page' = p /\ PageFits'
  BY DEF Become, ScreenFits, PageFits
<1>2. FlightsFit'
  BY <1>1 DEF ScreenFits, FlightsFit, LoadingIsAwaited
<1>3. SessionFits'
  BY <1>1, PersistFits DEF Become, ScreenFits
<1> QED
  BY <1>1, <1>2, <1>3 DEF ScreenFits

\* A search is launched by a page that is there and waits for it.
LEMMA LaunchFits ==
  ASSUME ScreenFits, NEW s \in Slots, NEW t \in Trips, Launch(s, t),
         NEW p \in Pages, p.mounted, page' = p, SessionFits'
  PROVE  ScreenFits'
<1> DEFINE c == [trip |-> t, live |-> TRUE]
<1>1. c \in Flights /\ c # None
  <2>1. c \in Flights
    BY DEF Flights
  <2> QED
    BY <2>1
<1>2. c.live
  OBVIOUS
<1>3. flight' = [flight EXCEPT ![s] = c]
  BY DEF Launch
<1> HIDE DEF c
<1>4. flight' \in [Slots -> Flights \cup {None}] /\ flight'[s] = c
  BY <1>1, <1>3 DEF ScreenFits, FlightsFit
<1>5. FlightsFit'
  BY <1>1, <1>2, <1>4 DEF FlightsFit, LoadingIsAwaited
<1>6. PageFits'
  BY DEF PageFits
<1> QED
  BY <1>5, <1>6 DEF ScreenFits

\* A search lands: the page it was launched by, if it is there, stops loading.
LEMMA LandFits ==
  ASSUME ScreenFits, NEW s \in Slots, flight[s] # None, Land(s),
         NEW p \in Pages, p.screen.kind # "recherche", p.mounted = page.mounted,
         BecomeIfLive(s, p)
  PROVE  ScreenFits'
<1>1. flight' \in [Slots -> Flights \cup {None}] /\ flight'[s] = None
      /\ \A u \in Slots : u # s => flight'[u] = flight[u]
  BY DEF Land, ScreenFits, FlightsFit
<1>2. CASE flight[s].live
  <2>1. page.mounted
    BY <1>2 DEF ScreenFits, FlightsFit
  <2>2. page' = p /\ Persist(p)
    BY <1>2 DEF BecomeIfLive, Become
  <2>3. SessionFits'
    BY <2>2, PersistFits DEF ScreenFits
  <2>4. FlightsFit'
    BY <1>1, <2>1, <2>2 DEF FlightsFit, LoadingIsAwaited
  <2>5. PageFits'
    BY <2>1, <2>2 DEF PageFits
  <2> QED
    BY <2>3, <2>4, <2>5 DEF ScreenFits
<1>3. CASE ~flight[s].live
  <2>1. UNCHANGED <<page, session>>
    BY <1>3 DEF BecomeIfLive
  <2>2. SessionFits' /\ PageFits'
    BY <2>1 DEF ScreenFits, SessionFits, SessionFollowsPage, PageFits, Kept
  <2>3. LoadingIsAwaited'
    <3> SUFFICES ASSUME page.screen.kind = "recherche"
                 PROVE  \E u \in Slots : flight'[u] # None /\ flight'[u].live
      BY <2>1 DEF LoadingIsAwaited
    <3>1. PICK u \in Slots : flight[u] # None /\ flight[u].live
      BY DEF ScreenFits, FlightsFit, LoadingIsAwaited
    <3> QED
      BY <1>1, <1>3, <3>1
  <2>4. FlightsFit'
    BY <1>1, <2>1, <2>3 DEF ScreenFits, FlightsFit
  <2> QED
    BY <2>2, <2>4 DEF ScreenFits
<1> QED
  BY <1>2, <1>3

LEMMA MountedFits ==
  ASSUME ScreenFits
  PROVE  /\ MountedPage \in Pages /\ MountedPage.mounted = TRUE
         /\ MountedPage.screen.kind # "recherche"
<1> DEFINE scr == IF session = None THEN Form ELSE session.screen
<1> DEFINE fields == IF session = None THEN Unready ELSE session.fields
<1> DEFINE modes == session # None /\ session.modes
<1> DEFINE restored == session # None
<1> DEFINE asked == IF signedIn THEN {"profile", "followed"} ELSE {}
<1>1. scr \in Screens /\ scr.kind # "recherche"
  BY ScreenTypes DEF ScreenFits, SessionFits, SessionFollowsPage, Saved
<1>2. fields \in Fields
  BY DEF ScreenFits, SessionFits, Saved, Fields
<1>3. modes \in BOOLEAN /\ restored \in BOOLEAN /\ asked \in SUBSET {"profile", "followed"}
  OBVIOUS
<1>4. MountedPage = [NoPage EXCEPT !.mounted = TRUE, !.screen = scr, !.fields = fields,
                                   !.modes = modes, !.restored = restored, !.asked = asked]
  BY DEF MountedPage, NoPage
<1> HIDE DEF scr, fields, modes, restored, asked
<1>5. /\ MountedPage \in Pages /\ MountedPage.mounted = TRUE /\ MountedPage.screen = scr
  BY <1>1, <1>2, <1>3, <1>4, NoPageFits DEF Pages
<1> QED
  BY <1>1, <1>5

-----------------------------------------------------------------------------
(* The actions on the screen.                                                *)

LEMMA MountFits ==
  ASSUME ScreenFits, Mount \/ \E s \in Slots, t \in Trips : Relaunch(s, t)
  PROVE  ScreenFits'
<1>1. MountedPage \in Pages /\ MountedPage.mounted = TRUE /\ MountedPage.screen.kind # "recherche"
  BY MountedFits
<1>2. CASE Mount
  <2>1. page' = MountedPage /\ Persist(MountedPage) /\ UNCHANGED flight
    BY <1>2 DEF Mount, Become
  <2>2. SessionFits'
    BY <1>1, <2>1, PersistFits DEF ScreenFits
  <2>3. FlightsFit'
    BY <1>1, <2>1 DEF ScreenFits, FlightsFit, LoadingIsAwaited
  <2>4. PageFits'
    BY <1>1, <2>1 DEF PageFits
  <2> QED
    BY <2>2, <2>3, <2>4 DEF ScreenFits
<1>3. ASSUME NEW s \in Slots, NEW t \in Trips, Relaunch(s, t)
      PROVE  ScreenFits'
  <2> DEFINE q == HandleQuickSearch(MountedPage, t)
  <2>1. q \in Pages /\ q.screen = Loading(t) /\ q.mounted = TRUE
    BY <1>1, QuickFits
  <2>2. page' = q /\ Persist(MountedPage) /\ Launch(s, t)
    BY <1>3 DEF Relaunch
  <2>3. SessionFits'
    BY <1>1, <2>1, <2>2, PersistFits, ScreenTypes DEF ScreenFits
  <2> HIDE DEF q
  <2> QED
    BY <2>1, <2>2, <2>3, LaunchFits
<1> QED
  BY <1>2, <1>3

\* The page goes: what it asked goes on without it, or is gone as well.
LEMMA GoneFits ==
  ASSUME ScreenFits, Leave \/ Reload
  PROVE  ScreenFits'
<1>1. page' = NoPage /\ session' \in {session, None}
  BY DEF Leave, Reload
<1>2. PageFits' /\ ~page'.mounted /\ page'.screen.kind # "recherche"
  BY <1>1, NoPageFits, ScreenTypes DEF PageFits
<1>3. SessionFits'
  BY <1>1, <1>2 DEF ScreenFits, SessionFits, SessionFollowsPage
<1>4. \A s \in Slots : flight'[s] \in Flights \cup {None} /\ (flight'[s] # None => ~flight'[s].live)
  <2> SUFFICES ASSUME NEW s \in Slots
               PROVE  flight'[s] \in Flights \cup {None} /\ (flight'[s] # None => ~flight'[s].live)
    OBVIOUS
  <2>1. CASE flight'[s] = None
    BY <2>1
  <2>2. CASE flight'[s] # None
    <3>1. flight[s] \in Flights /\ flight'[s] = [flight[s] EXCEPT !.live = FALSE]
      BY <2>2 DEF Leave, Reload, ScreenFits, FlightsFit
    <3> QED
      BY <3>1 DEF Flights
  <2> QED
    BY <2>1, <2>2
<1>5. flight' \in [Slots -> Flights \cup {None}]
  <2>1. DOMAIN flight' = Slots /\ flight' = [s \in Slots |-> flight'[s]]
    BY DEF Leave, Reload
  <2> QED
    BY <1>4, <2>1
<1>6. FlightsFit'
  BY <1>2, <1>4, <1>5 DEF FlightsFit, LoadingIsAwaited
<1> QED
  BY <1>2, <1>3, <1>6 DEF ScreenFits

\* ProfilPage's pages: the search page is not there.
LEMMA AccountFits ==
  ASSUME ScreenFits, Login \/ Logout
  PROVE  ScreenFits' /\ signedIn' \in BOOLEAN
<1>1. ~page.mounted /\ UNCHANGED <<page, flight>> /\ session' \in {session, None} /\ signedIn' \in BOOLEAN
  BY DEF Login, Logout
<1>2. PageFits' /\ FlightsFit'
  BY <1>1 DEF ScreenFits, PageFits, FlightsFit, LoadingIsAwaited
<1>3. SessionFits'
  BY <1>1 DEF ScreenFits, SessionFits, SessionFollowsPage
<1> QED
  BY <1>1, <1>2, <1>3 DEF ScreenFits

\* The fields, the filters, the modes, the itinerary shown, an answer without a search.
LEMMA EditFits ==
  ASSUME ScreenFits,
         \/ \E f \in Fields : EditFields(f)
         \/ HandleSwap \/ OpenFilters \/ CloseFilters \/ ToggleMode \/ CloseMobileDetail
         \/ \E i \in Counts : SelectItinerary(i)
  PROVE  ScreenFits'
<1>1. page \in Pages
  BY DEF ScreenFits, PageFits
<1>2. ASSUME NEW p \in Pages, OnPage(p), p.screen = page.screen, p.mounted = page.mounted,
             p.asked = page.asked
      PROVE  ScreenFits'
  BY <1>2, OnPageFits DEF OnPage
<1>3. ASSUME NEW f \in Fields, OnPage([page EXCEPT !.fields = f])
      PROVE  ScreenFits'
  <2> DEFINE p == [page EXCEPT !.fields = f]
  <2>1. p \in Pages /\ p.screen = page.screen /\ p.mounted = page.mounted /\ p.asked = page.asked
    BY <1>1 DEF Pages
  <2>2. OnPage(p)
    BY <1>3
  <2> HIDE DEF p
  <2> QED
    BY <1>2, <2>1, <2>2
<1>4. ASSUME NEW f \in Fields, EditFields(f) PROVE ScreenFits'
  BY <1>3, <1>4 DEF EditFields
<1>5. CASE HandleSwap
  <2>1. page.fields \in Trips
    BY <1>1, <1>5, PageTypes DEF HandleSwap, Fields
  <2>2. <<page.fields[2], page.fields[1]>> \in Fields
    BY <2>1 DEF Trips, Fields
  <2> QED
    BY <1>3, <1>5, <2>2 DEF HandleSwap
<1>6. ASSUME NEW b \in BOOLEAN, OnPage([page EXCEPT !.filtersOpen = b]) PROVE ScreenFits'
  <2> DEFINE p == [page EXCEPT !.filtersOpen = b]
  <2>1. p \in Pages /\ p.screen = page.screen /\ p.mounted = page.mounted /\ p.asked = page.asked
    BY <1>1 DEF Pages
  <2>2. OnPage(p)
    BY <1>6
  <2> HIDE DEF p
  <2> QED
    BY <1>2, <2>1, <2>2
<1>7. CASE OpenFilters \/ CloseFilters
  BY <1>6, <1>7 DEF OpenFilters, CloseFilters
<1>8. CASE ToggleMode
  <2> DEFINE p == [page EXCEPT !.modes = ~@]
  <2>1. p \in Pages /\ p.screen = page.screen /\ p.mounted = page.mounted /\ p.asked = page.asked
    BY <1>1 DEF Pages
  <2>2. OnPage(p)
    BY <1>8 DEF ToggleMode
  <2> HIDE DEF p
  <2> QED
    BY <1>2, <2>1, <2>2
<1>9. CASE CloseMobileDetail
  <2> DEFINE p == [page EXCEPT !.detailOpen = FALSE]
  <2>1. p \in Pages /\ p.screen = page.screen /\ p.mounted = page.mounted /\ p.asked = page.asked
    BY <1>1 DEF Pages
  <2>2. OnPage(p)
    BY <1>9 DEF CloseMobileDetail
  <2> HIDE DEF p
  <2> QED
    BY <1>2, <2>1, <2>2
<1>10. ASSUME NEW i \in Counts, SelectItinerary(i) PROVE ScreenFits'
  <2> DEFINE p == [page EXCEPT !.selectedIndex = i, !.detailOpen = TRUE]
  <2>1. p \in Pages /\ p.screen = page.screen /\ p.mounted = page.mounted /\ p.asked = page.asked
    BY <1>1 DEF Pages
  <2>2. OnPage(p)
    BY <1>10 DEF SelectItinerary
  <2> HIDE DEF p
  <2> QED
    BY <1>2, <2>1, <2>2
<1> QED
  BY <1>4, <1>5, <1>7, <1>8, <1>9, <1>10

LEMMA AnsweredFits ==
  ASSUME page \in Pages, NEW what
  PROVE  /\ Answered(what) \in Pages /\ Answered(what).screen = page.screen
         /\ Answered(what).mounted = page.mounted /\ Answered(what).asked \subseteq page.asked
         /\ Answered(what).modes \in BOOLEAN
<1>1. Answered(what) \in Pages
  BY DEF Answered, Pages
<1>2. Answered(what).screen = page.screen /\ Answered(what).asked \subseteq page.asked
  BY DEF Answered, Pages
<1>3. Answered(what).mounted = page.mounted
  BY DEF Answered, Pages
<1> QED
  BY <1>1, <1>2, <1>3, PageTypes

\* The profile and the followed trip, or nothing, are told to the page that asked.
LEMMA ArrivalFits ==
  ASSUME ScreenFits,
         \/ \E m \in BOOLEAN : ProfileArrives(m)
         \/ \E what \in {"profile", "followed"} : NothingArrives(what)
  PROVE  ScreenFits'
<1>1. page \in Pages
  BY DEF ScreenFits, PageFits
<1>2. ASSUME NEW m \in BOOLEAN, ProfileArrives(m) PROVE ScreenFits'
  <2> DEFINE a == Answered("profile")
  <2>1. /\ a \in Pages /\ a.screen = page.screen /\ a.mounted = page.mounted
        /\ a.asked \subseteq page.asked /\ a.modes \in BOOLEAN
    BY <1>1, AnsweredFits
  <2>2. PICK b \in BOOLEAN : OnPage([a EXCEPT !.modes = b])
    <3>1. OnPage([a EXCEPT !.modes = IF page.restored THEN a.modes ELSE m])
      BY <1>2 DEF ProfileArrives
    <3>2. CASE page.restored
      BY <2>1, <3>1, <3>2
    <3>3. CASE ~page.restored
      BY <3>1, <3>3
    <3> QED
      BY <3>2, <3>3
  <2> HIDE DEF a
  <2> DEFINE p == [a EXCEPT !.modes = b]
  <2>3. /\ p \in Pages /\ p.screen = page.screen /\ p.mounted = page.mounted
        /\ p.asked \subseteq page.asked
    BY <2>1, <2>2 DEF Pages
  <2>4. OnPage(p)
    BY <2>2
  <2> HIDE DEF p
  <2> QED
    BY <2>3, <2>4, OnPageFits DEF OnPage
<1>3. ASSUME NEW what \in {"profile", "followed"}, NothingArrives(what) PROVE ScreenFits'
  BY <1>1, <1>3, AnsweredFits, OnPageFits DEF NothingArrives, OnPage
<1> QED
  BY <1>2, <1>3

\* A search is submitted, or follows from the followed trip.
LEMMA SearchFits ==
  ASSUME ScreenFits, NEW s \in Slots,
         HandleSubmit(s) \/ \E t \in Trips : FollowedArrives(s, t)
  PROVE  ScreenFits'
<1>1. page \in Pages
  BY DEF ScreenFits, PageFits
<1>2. ASSUME NEW t \in Trips, NEW p \in Pages, p.mounted, Launch(s, t), Become(p)
      PROVE  ScreenFits'
  BY <1>2, PersistFits, LaunchFits DEF Become, ScreenFits
<1>3. CASE HandleSubmit(s)
  <2>1. page.fields \in Trips /\ page.mounted
    BY <1>1, <1>3, PageTypes DEF HandleSubmit, FormInReach, Fields
  <2> DEFINE p == Show(page, Loading(page.fields))
  <2>2. p \in Pages /\ p.mounted
    BY <1>1, <2>1, ShowFits, ScreenTypes
  <2>3. Launch(s, page.fields) /\ Become(p)
    BY <1>3 DEF HandleSubmit
  <2> HIDE DEF p
  <2> QED
    BY <1>2, <2>1, <2>2, <2>3
<1>4. ASSUME NEW t \in Trips, FollowedArrives(s, t) PROVE ScreenFits'
  <2>1. page.mounted
    BY <1>4 DEF FollowedArrives, ScreenFits, PageFits
  <2> DEFINE p == HandleQuickSearch(Answered("followed"), t)
  <2>2. p \in Pages /\ p.mounted
    BY <1>1, <2>1, AnsweredFits, QuickFits
  <2>3. Launch(s, t) /\ Become(p)
    BY <1>4 DEF FollowedArrives
  <2> HIDE DEF p
  <2> QED
    BY <1>2, <2>2, <2>3
<1> QED
  BY <1>3, <1>4

\* A search that settles, whatever its outcome: the page is not left loading.
LEMMA SettlesFits ==
  ASSUME ScreenFits, CacheFits, NEW s \in Slots, Settles(s)
  PROVE  ScreenFits'
<1>1. page \in Pages /\ flight[s] # None /\ flight[s] \in Flights /\ Land(s)
  BY DEF ScreenFits, PageFits, FlightsFit, Settles, SearchAnswers, SearchRefused, SearchUnreachable
<1>2. flight[s].trip \in Trips
  BY <1>1 DEF Flights
<1>3. ASSUME NEW n \in Counts, NEW b \in BOOLEAN,
             BecomeIfLive(s, Show(page, Results(flight[s].trip, n, b)))
      PROVE  ScreenFits'
  <2> DEFINE p == Show(page, Results(flight[s].trip, n, b))
  <2>1. p \in Pages /\ p.mounted = page.mounted /\ p.screen.kind # "recherche"
    BY <1>1, <1>2, ShowFits, ScreenTypes
  <2>2. BecomeIfLive(s, p)
    BY <1>3
  <2> HIDE DEF p
  <2> QED
    BY <1>1, <2>1, <2>2, LandFits
<1>4. CASE BackToForm(s)
  <2> DEFINE p == [page EXCEPT !.screen = Form]
  <2>1. p \in Pages /\ p.mounted = page.mounted /\ p.screen = Form
    BY <1>1, ScreenTypes DEF Pages
  <2>2. BecomeIfLive(s, p)
    BY <1>4 DEF BackToForm
  <2> HIDE DEF p
  <2> QED
    BY <1>1, <2>1, <2>2, LandFits, ScreenTypes
<1>5. ASSUME NEW n \in Counts, SearchAnswers(s, n) PROVE ScreenFits'
  BY <1>3, <1>5 DEF SearchAnswers
<1>6. CASE SearchUnreachable(s) /\ CachedTrip(flight[s].trip) # {}
  <2>1. PICK i \in CachedTrip(flight[s].trip) :
          BecomeIfLive(s, Show(page, Results(flight[s].trip, cache[i].count, TRUE)))
    BY <1>6 DEF SearchUnreachable
  <2>2. cache[i].count \in Counts
    BY <2>1, CacheTypes, EntryTypes DEF CachedTrip, Valid
  <2> QED
    BY <1>3, <2>1, <2>2
<1>7. CASE SearchRefused(s) \/ (SearchUnreachable(s) /\ CachedTrip(flight[s].trip) = {})
  BY <1>4, <1>7 DEF SearchRefused, SearchUnreachable
<1> QED
  BY <1>5, <1>6, <1>7 DEF Settles

-----------------------------------------------------------------------------
(* The theorems.                                                             *)

LEMMA InitIInv == Init => IInv
<1> SUFFICES ASSUME Init PROVE IInv
  OBVIOUS
<1>1. signedIn \in BOOLEAN /\ page = NoPage /\ session = None
      /\ flight = [s \in Slots |-> None] /\ cache = <<>> /\ latest = [t \in Trips |-> None]
  BY DEF Init
<1>2. PageFits /\ page.screen.kind # "recherche" /\ ~page.mounted
  BY <1>1, NoPageFits, ScreenTypes DEF PageFits
<1>3. FlightsFit
  BY <1>1, <1>2 DEF FlightsFit, LoadingIsAwaited
<1>4. SessionFits
  BY <1>1, <1>2 DEF SessionFits, SessionFollowsPage
<1>5. CacheFits
  BY <1>1 DEF CacheFits, CacheHoldsLatest
<1> QED
  BY <1>1, <1>2, <1>3, <1>4, <1>5 DEF IInv, ScreenFits

LEMMA NextScreenFits ==
  ASSUME IInv, Next
  PROVE  ScreenFits' /\ signedIn' \in BOOLEAN
<1>0. ScreenFits /\ CacheFits /\ signedIn \in BOOLEAN
  BY DEF IInv
<1>1. CASE Mount \/ \E s \in Slots, t \in Trips : Relaunch(s, t)
  BY <1>0, <1>1, MountFits DEF Mount, Relaunch
<1>2. CASE Leave \/ Reload
  BY <1>0, <1>2, GoneFits DEF Leave, Reload
<1>3. CASE Login \/ Logout
  BY <1>0, <1>3, AccountFits
<1>4. CASE (\E f \in Fields : EditFields(f)) \/ HandleSwap \/ OpenFilters \/ CloseFilters \/ ToggleMode
           \/ CloseMobileDetail \/ (\E i \in Counts : SelectItinerary(i))
  <2>1. ScreenFits'
    BY <1>0, <1>4, EditFits
  <2>2. UNCHANGED signedIn
    BY <1>4 DEF EditFields, HandleSwap, OpenFilters, CloseFilters, ToggleMode, CloseMobileDetail,
                SelectItinerary, OnPage
  <2> QED
    BY <1>0, <2>1, <2>2
<1>5. CASE (\E m \in BOOLEAN : ProfileArrives(m)) \/ (\E what \in {"profile", "followed"} : NothingArrives(what))
  <2>1. ScreenFits'
    BY <1>0, <1>5, ArrivalFits
  <2>2. UNCHANGED signedIn
    BY <1>5 DEF ProfileArrives, NothingArrives, OnPage
  <2> QED
    BY <1>0, <2>1, <2>2
<1>6. ASSUME NEW s \in Slots, HandleSubmit(s) \/ \E t \in Trips : FollowedArrives(s, t)
      PROVE  ScreenFits' /\ signedIn' \in BOOLEAN
  BY <1>0, <1>6, SearchFits DEF HandleSubmit, FollowedArrives
<1>7. ASSUME NEW s \in Slots, Settles(s)
      PROVE  ScreenFits' /\ signedIn' \in BOOLEAN
  BY <1>0, <1>7, SettlesFits DEF Settles, SearchAnswers, SearchRefused, SearchUnreachable
<1>8. CASE Tick
  <2>1. UNCHANGED <<signedIn, page, flight, session>>
    BY <1>8 DEF Tick
  <2> QED
    BY <1>0, <2>1 DEF ScreenFits, PageFits, FlightsFit, LoadingIsAwaited, SessionFits, SessionFollowsPage, Kept
<1> QED
  BY <1>1, <1>2, <1>3, <1>4, <1>5, <1>6, <1>7, <1>8 DEF Next

\* Who writes the trip cache and its history: a search that settles, the logout, and time.
LEMMA NextCacheFits ==
  ASSUME IInv, Next
  PROVE  CacheFits'
<1>0. ScreenFits /\ CacheFits
  BY DEF IInv
<1>1. ASSUME UNCHANGED <<cache, latest>> PROVE CacheFits'
  BY <1>0, <1>1 DEF CacheFits, CacheHoldsLatest
<1>2. ASSUME NEW s \in Slots, Settles(s) PROVE CacheFits'
  <2>1. flight[s] # None /\ flight[s] \in Flights
    BY <1>0, <1>2 DEF ScreenFits, FlightsFit, Settles, SearchAnswers, SearchRefused, SearchUnreachable
  <2>2. flight[s].trip \in Trips
    BY <2>1 DEF Flights
  <2>3. ASSUME NEW n \in Counts, SearchAnswers(s, n) PROVE CacheFits'
    BY <1>0, <2>2, <2>3, SaveFits DEF SearchAnswers
  <2>4. CASE SearchUnreachable(s)
    BY <1>0, <2>4, PurgeFits DEF SearchUnreachable
  <2>5. CASE SearchRefused(s)
    BY <1>1, <2>5 DEF SearchRefused
  <2> QED
    BY <1>2, <2>3, <2>4, <2>5 DEF Settles
<1>3. CASE Logout
  BY <1>3, EmptyCacheFits DEF Logout
<1>4. CASE Tick
  BY <1>0, <1>4, TickFits
<1>5. CASE Mount \/ Leave \/ Reload \/ Login
  BY <1>1, <1>5 DEF Mount, Leave, Reload, Login
<1>6. ASSUME NEW s \in Slots, NEW t \in Trips, Relaunch(s, t) \/ FollowedArrives(s, t) PROVE CacheFits'
  BY <1>1, <1>6 DEF Relaunch, FollowedArrives
<1>7. ASSUME NEW s \in Slots, HandleSubmit(s) PROVE CacheFits'
  BY <1>1, <1>7 DEF HandleSubmit
<1>8. CASE (\E f \in Fields : EditFields(f)) \/ HandleSwap \/ OpenFilters \/ CloseFilters \/ ToggleMode
           \/ CloseMobileDetail \/ (\E i \in Counts : SelectItinerary(i))
  BY <1>1, <1>8 DEF EditFields, HandleSwap, OpenFilters, CloseFilters, ToggleMode, CloseMobileDetail,
                    SelectItinerary, OnPage
<1>9. CASE (\E m \in BOOLEAN : ProfileArrives(m)) \/ (\E what \in {"profile", "followed"} : NothingArrives(what))
  BY <1>1, <1>9 DEF ProfileArrives, NothingArrives, OnPage
<1> QED
  BY <1>2, <1>3, <1>4, <1>5, <1>6, <1>7, <1>8, <1>9 DEF Next

LEMMA Inductive == IInv /\ [Next]_vars => IInv'
<1> SUFFICES ASSUME IInv, [Next]_vars PROVE IInv'
  OBVIOUS
<1>1. CASE Next
  BY <1>1, NextScreenFits, NextCacheFits DEF IInv
<1>2. CASE UNCHANGED vars
  BY <1>2 DEF vars, IInv, ScreenFits, PageFits, FlightsFit, LoadingIsAwaited, SessionFits,
              SessionFollowsPage, Kept, CacheFits, CacheHoldsLatest
<1> QED
  BY <1>1, <1>2

\* The page with its searches in flight, the session and the trip cache hold together at all
\* times, in whatever order the answers arrive.
THEOREM Invariance == Spec => []IInv
<1>1. Init => IInv
  BY InitIInv
<1>2. IInv /\ [Next]_vars => IInv'
  BY Inductive
<1> QED
  BY <1>1, <1>2, PTL DEF Spec

\* The state keeps its types, and the trip cache never holds more than MAX_ENTRIES.
THEOREM Typing == Spec => []TypeOK
<1>1. IInv => TypeOK
  BY DEF IInv, ScreenFits, PageFits, FlightsFit, SessionFits, Saved, CacheFits, TypeOK
<1> QED
  BY <1>1, Invariance, PTL

\* Whoever comes back finds the page he left, and never a search that was in flight
\* (rechercheSessionState.ts and the effect that saves the page).
THEOREM SessionFollows == Spec => []SessionFollowsPage
<1>1. IInv => SessionFollowsPage
  BY DEF IInv, ScreenFits, SessionFits
<1> QED
  BY <1>1, Invariance, PTL

\* Whatever answers late, the trip cache holds each trip once, with its last result, newest
\* first (saveTripToCache).
THEOREM CacheIsLatest == Spec => []CacheHoldsLatest
<1>1. IInv => CacheHoldsLatest
  BY DEF IInv, CacheFits
<1> QED
  BY <1>1, Invariance, PTL

\* The page never stays in loading without a search of its own in flight (performSearch).
THEOREM LoadingEnds == Spec => []LoadingIsAwaited
<1>1. IInv => LoadingIsAwaited
  BY DEF IInv, ScreenFits, FlightsFit
<1> QED
  BY <1>1, Invariance, PTL

\* A search leaves its slot when it settles, or with the page.
LEMMA WhoEnds ==
  ASSUME IInv, Next, NEW s \in Slots, flight[s] # None, flight'[s] = None
  PROVE  Settles(s) \/ page' = NoPage
<1>1. flight \in [Slots -> Flights \cup {None}]
  BY DEF IInv, ScreenFits, FlightsFit
<1>2. ASSUME UNCHANGED flight PROVE FALSE
  BY <1>2
<1>3. ASSUME NEW u \in Slots, NEW t \in Trips, Launch(u, t) PROVE FALSE
  BY <1>1, <1>3 DEF Launch
<1>4. ASSUME NEW u \in Slots, Settles(u) PROVE u = s
  BY <1>1, <1>4 DEF Settles, SearchAnswers, SearchRefused, SearchUnreachable, Land
<1>5. ASSUME NEW u \in Slots, HandleSubmit(u) PROVE FALSE
  <2>1. page.fields \in Trips
    BY <1>5, PageTypes DEF HandleSubmit, Fields, IInv, ScreenFits, PageFits
  <2> QED
    BY <1>3, <1>5, <2>1 DEF HandleSubmit
<1>6. ASSUME NEW u \in Slots, NEW t \in Trips, Relaunch(u, t) \/ FollowedArrives(u, t) PROVE FALSE
  BY <1>3, <1>6 DEF Relaunch, FollowedArrives
<1>7. ASSUME Mount \/ Login \/ Logout \/ Tick PROVE FALSE
  BY <1>2, <1>7 DEF Mount, Login, Logout, Tick
<1>8. ASSUME (\E f \in Fields : EditFields(f)) \/ HandleSwap \/ OpenFilters \/ CloseFilters \/ ToggleMode
             \/ CloseMobileDetail \/ (\E i \in Counts : SelectItinerary(i))
      PROVE  FALSE
  BY <1>2, <1>8 DEF EditFields, HandleSwap, OpenFilters, CloseFilters, ToggleMode, CloseMobileDetail,
                    SelectItinerary, OnPage
<1>9. ASSUME (\E m \in BOOLEAN : ProfileArrives(m)) \/ (\E what \in {"profile", "followed"} : NothingArrives(what))
      PROVE  FALSE
  BY <1>2, <1>9 DEF ProfileArrives, NothingArrives, OnPage
<1>10. CASE Leave \/ Reload
  BY <1>10 DEF Leave, Reload
<1> QED
  BY <1>4, <1>5, <1>6, <1>7, <1>8, <1>9, <1>10 DEF Next

\* What a search that settles may bring to the screen from the cache.
LEMMA OfflineStep ==
  ASSUME IInv, Next, NEW s \in Slots, flight[s] # None, flight'[s] = None,
         page'.screen # page.screen, page'.screen.fromCache
  PROVE  \E i \in DOMAIN cache :
           /\ cache[i].trip = page'.screen.trip /\ cache[i].age <= Retention
           /\ page'.screen.count = latest[page'.screen.trip]
<1>0. page \in Pages /\ CacheFits /\ flight[s] \in Flights
  BY DEF IInv, ScreenFits, PageFits, FlightsFit
<1>1. flight[s].trip \in Trips
  BY <1>0 DEF Flights
<1>2. Settles(s)
  BY WhoEnds, NoPageFits, ScreenTypes
<1>3. ASSUME NEW n \in Counts, NEW b \in BOOLEAN,
             BecomeIfLive(s, Show(page, Results(flight[s].trip, n, b)))
      PROVE  page'.screen = Results(flight[s].trip, n, b)
  BY <1>0, <1>1, <1>3, ShowFits, ScreenTypes DEF BecomeIfLive, Become
<1>4. ASSUME BackToForm(s) PROVE FALSE
  <2> DEFINE p == [page EXCEPT !.screen = Form]
  <2>1. p.screen = Form
    BY <1>0 DEF Pages
  <2>2. page' = p \/ page' = page
    BY <1>4 DEF BackToForm, BecomeIfLive, Become
  <2> QED
    BY <2>1, <2>2, ScreenTypes
<1>5. ASSUME NEW n \in Counts, SearchAnswers(s, n) PROVE FALSE
  <2>1. page'.screen = Results(flight[s].trip, n, FALSE)
    BY <1>3, <1>5 DEF SearchAnswers
  <2>2. Results(flight[s].trip, n, FALSE).fromCache = FALSE
    BY <1>1, ScreenTypes
  <2> QED
    BY <2>1, <2>2
<1>6. SearchUnreachable(s) /\ CachedTrip(flight[s].trip) # {}
  BY <1>2, <1>4, <1>5 DEF Settles, SearchRefused, SearchUnreachable
<1>7. PICK i \in CachedTrip(flight[s].trip) :
        BecomeIfLive(s, Show(page, Results(flight[s].trip, cache[i].count, TRUE)))
  BY <1>6 DEF SearchUnreachable
<1>8. i \in DOMAIN cache /\ cache[i].trip = flight[s].trip /\ ~(cache[i].age > Retention)
  BY <1>7 DEF CachedTrip, Valid, Expired
<1>9. cache[i].count \in Counts /\ cache[i].age \in Nat /\ cache[i].count = latest[cache[i].trip]
  BY <1>0, <1>8, CacheTypes, EntryTypes, EntryByEntry
<1>10. page'.screen = Results(flight[s].trip, cache[i].count, TRUE)
  BY <1>3, <1>7, <1>9
<1>11. page'.screen.trip = flight[s].trip /\ page'.screen.count = cache[i].count
  <2>1. ASSUME NEW n \in Counts
        PROVE  Results(flight[s].trip, n, TRUE).trip = flight[s].trip /\ Results(flight[s].trip, n, TRUE).count = n
    BY DEF Results
  <2> QED
    BY <1>9, <1>10, <2>1
<1> QED
  BY <1>8, <1>9, <1>11

\* Results shown without connection are of the trip that was searched, no older than the
\* retention, and those of its last search (getCachedTrip).
THEOREM OfflineIsUsable == Spec => OfflineResultsUsable
<1> DEFINE Usable ==
      \A s \in Slots :
        (flight[s] # None /\ flight'[s] = None /\ page'.screen # page.screen /\ page'.screen.fromCache)
        => \E i \in DOMAIN cache :
             /\ cache[i].trip = page'.screen.trip /\ cache[i].age <= Retention
             /\ page'.screen.count = latest[page'.screen.trip]
<1>1. IInv /\ [Next]_vars => Usable
  <2> SUFFICES ASSUME IInv, [Next]_vars PROVE Usable
    OBVIOUS
  <2>1. CASE Next
    BY <2>1, OfflineStep
  <2>2. CASE UNCHANGED vars
    BY <2>2 DEF vars
  <2> QED
    BY <2>1, <2>2
<1>2. IInv /\ [Next]_vars => [Usable]_vars
  BY <1>1
<1> QED
  BY <1>2, Invariance, PTL DEF Spec, OfflineResultsUsable
==============================================================================
