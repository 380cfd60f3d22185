------------------------------ MODULE TripSearch ------------------------------
(***************************************************************************)
(* GET /trips on the server:                                                 *)
(*   backend/src/trips/trips.service.ts, trips.controller.ts                  *)
(*   backend/src/otp/otp-client.service.ts                                    *)
(*   backend/src/weather/weather.service.ts                                   *)
(*   backend/src/trips/history/trip-history.service.ts (record)               *)
(*                                                                         *)
(* Searches are under way together.  Each asks OpenTripPlanner up to three times,  *)
(* reads a profile and records itself meanwhile, and is ranked with the weather,   *)
(* whose request is shared by all the searches that wait for it, and with the      *)
(* disruptions of the moment (RealtimeCache).                                   *)
(***************************************************************************)
EXTENDS Scoring

CONSTANTS
  Searches,  \* bound: searches under way at once
  Disruptable, \* bound: the departures a disruption may strike, none on foot
  Plans,     \* what OTP may find, in its order: sequences of [route, start]
  ModeSets,  \* the filters of modes searched with
  Profiles,  \* the preferences of accounts
  WalkOnly,  \* the route on foot from end to end
  None

Itinerary == [route : DOMAIN Routes, start : Nat]

Result == [route : DOMAIN Routes, start : Nat, disrupted : BOOLEAN, next : Seq(Nat)]

Stages == {"planning", "later", "walk", "ranking", "answered", "failed"}

Request ==
  [stage : Stages, account : BOOLEAN, recorded : BOOLEAN, modes : ModeSets, profile : Profiles,
   plan : Seq(Itinerary), listed : Seq(Result), fallback : {None, "later-departure", "walk-only"}]

ASSUME PlansAssumption ==
  /\ WalkOnly \in DOMAIN Routes
  /\ Disruptable \subseteq {d \in Itinerary : d.route # WalkOnly}
  /\ <<>> \in Plans
  /\ Plans \subseteq Seq(Itinerary)
  /\ NoPreference \in Profiles
  /\ None \notin Request \cup {"later-departure", "walk-only"}

VARIABLES
  search,    \* search[s]: a request under way, or None
  sky,       \* the cached weather, None when there is none or it is too old
  pending,   \* a request to the weather service is under way
  disrupted  \* departures with a disruption in the realtime cache

vars == <<search, sky, pending, disrupted>>

TypeOK ==
  /\ search \in [Searches -> Request \cup {None}]
  /\ sky \in {None, "rain", "dry"}
  /\ pending \in BOOLEAN
  /\ disrupted \subseteq Disruptable

Init ==
  /\ search = [s \in Searches |-> None]
  /\ sky = None /\ pending = FALSE
  /\ disrupted = {}

-----------------------------------------------------------------------------
At(s, stage) == search[s] # None /\ search[s].stage = stage

\* Slip: a search starts with no profile instead of no preference.
AskWithoutProfile(s, account, modes) ==
  /\ search[s] = None
  /\ search' = [search EXCEPT ![s] =
       [stage |-> "planning", account |-> account, recorded |-> ~account, modes |-> modes,
        profile |-> None, plan |-> <<>>, listed |-> <<>>, fallback |-> None]]
  /\ UNCHANGED <<sky, pending, disrupted>>

\* A search without an account has neither a profile nor a record.
Ask(s, account, modes) ==
  /\ search[s] = None
  /\ search' = [search EXCEPT ![s] =
       [stage |-> "planning", account |-> account, recorded |-> ~account, modes |-> modes,
        profile |-> NoPreference, plan |-> <<>>, listed |-> <<>>, fallback |-> None]]
  /\ UNCHANGED <<sky, pending, disrupted>>

\* TripHistoryService.record ends, with a row or with an error it swallows; even when
\* the search has failed meanwhile.
Record(s) ==
  /\ search[s] # None /\ ~search[s].recorded
  /\ search' = [search EXCEPT ![s].recorded = TRUE]
  /\ UNCHANGED <<sky, pending, disrupted>>

Answer(t, listed) == [t EXCEPT !.stage = "answered", !.listed = listed]

Ranked(t, weather) == Answer(t, Rank(GroupByRoute(t.plan), t.profile, weather, disrupted))

\* getCurrentConditions: the cached weather, or the request under way, or a new one.
Enrich(s, t) ==
  IF sky # None
  THEN search' = [search EXCEPT ![s] = Ranked(t, sky)] /\ UNCHANGED pending
  ELSE search' = [search EXCEPT ![s] = [t EXCEPT !.stage = "ranking"]] /\ pending' = TRUE

\* planTrip finds what fits the modes; nothing, for an error that is not the
\* client's.
Finds(plan, modes) == Kept(plan, {i \in DOMAIN plan : RouteFits(plan[i].route, modes)})

\* Slip: the search for a later departure leaves the modes out.
FindsLaterAnyMode(s, plan) == plan

\* The search over 24 hours.
FindsLater(s, plan) == Finds(plan, search[s].modes)

\* Promise.all: the itineraries, the profile and the record are all there.
Planned(s, plan, profile) ==
  /\ At(s, "planning") /\ search[s].recorded
  /\ ~search[s].account => profile = NoPreference
  /\ LET found == Finds(plan, search[s].modes)
         t == [search[s] EXCEPT !.profile = profile, !.plan = found]
     IN IF found # <<>> THEN Enrich(s, t)
        ELSE search' = [search EXCEPT ![s] = [t EXCEPT !.stage = "later"]] /\ UNCHANGED pending
  /\ UNCHANGED <<sky, disrupted>>

PlannedLater(s, plan) ==
  /\ At(s, "later")
  /\ LET found == FindsLater(s, plan) IN
       IF found # <<>>
       THEN Enrich(s, [search[s] EXCEPT !.plan = found, !.fallback = "later-departure"])
       ELSE search' = [search EXCEPT ![s].stage = "walk"] /\ UNCHANGED pending
  /\ UNCHANGED <<sky, disrupted>>

\* The walk is answered without being ranked.
PlannedWalk(s, found) ==
  /\ At(s, "walk")
  /\ LET plan == IF found THEN <<[route |-> WalkOnly, start |-> 0]>> ELSE <<>> IN
       search' = [search EXCEPT ![s] =
         Answer([@ EXCEPT !.plan = plan, !.fallback = IF found THEN "walk-only" ELSE None],
                GroupByRoute(plan))]
  /\ UNCHANGED <<sky, pending, disrupted>>

Fail(S) == [s \in Searches |-> IF s \in S THEN [search[s] EXCEPT !.stage = "failed"] ELSE search[s]]

\* OTP is unreachable, refuses the places, or answers something unreadable; or the
\* row of the profile cannot be read.
PlanFails(s) ==
  /\ At(s, "planning") \/ At(s, "later") \/ At(s, "walk")
  /\ search' = Fail({s})
  /\ UNCHANGED <<sky, pending, disrupted>>

Deliver(s) ==
  /\ At(s, "answered") \/ At(s, "failed")
  /\ search[s].recorded
  /\ search' = [search EXCEPT ![s] = None]
  /\ UNCHANGED <<sky, pending, disrupted>>

-----------------------------------------------------------------------------
(* The weather and the disruptions.                                          *)

Waiting == {s \in Searches : At(s, "ranking")}

\* Slip: only one of the searches that wait is told.
RankOne(weather) ==
  \E s \in Waiting : search' = [search EXCEPT ![s] = Ranked(@, weather)]

RankWaiting(weather) ==
  search' = [s \in Searches |->
              IF s \in Waiting THEN Ranked(search[s], weather) ELSE search[s]]

\* An answer is cached; a failure, a refusal or an answer without conditions is not,
\* and the searches go without.
WeatherAnswers(weather) ==
  /\ pending
  /\ RankWaiting(weather)
  /\ pending' = FALSE /\ sky' = weather
  /\ UNCHANGED disrupted

\* A body that is not JSON is thrown, to every search that waits.
WeatherUnreadable ==
  /\ pending
  /\ search' = Fail(Waiting)
  /\ pending' = FALSE
  /\ UNCHANGED <<sky, disrupted>>

WeatherExpires ==
  /\ sky # None /\ sky' = None
  /\ UNCHANGED <<search, pending, disrupted>>

\* A cycle of the realtime cache: a disruption strikes the departures of a line (by
\* routeId), or one of them (by tripId).
Disruptions(struck) ==
  /\ disrupted' = struck
  /\ UNCHANGED <<search, sky, pending>>

-----------------------------------------------------------------------------
Handle(s) ==
  \/ Record(s) \/ PlanFails(s) \/ Deliver(s)
  \/ \E plan \in Plans : PlannedLater(s, plan) \/ \E profile \in Profiles : Planned(s, plan, profile)
  \/ \E found \in BOOLEAN : PlannedWalk(s, found)

WeatherEnds ==
  \/ WeatherUnreadable
  \/ \E weather \in {None, "rain", "dry"} : WeatherAnswers(weather)

Next ==
  \/ \E s \in Searches :
       Handle(s) \/ \E account \in BOOLEAN, modes \in ModeSets : Ask(s, account, modes)
  \/ WeatherEnds \/ WeatherExpires
  \/ \E struck \in SUBSET Disruptable : Disruptions(struck)

Spec == Init /\ [][Next]_vars

\* Every call out ends: OTP's with the limits of the HTTP client, the weather's
\* after 3 seconds, the database's with an answer or an error.
FairSpec == Spec /\ WF_vars(WeatherEnds) /\ \A s \in Searches : WF_vars(Handle(s))

-----------------------------------------------------------------------------
(* What a search promises.                                                   *)

\* One result is at least as good as another on every criterion of the dossier,
\* whatever the weights; and better on one that counts: a walk does when the profile
\* limits walks, or when it rains.
NoWorse(a, b, profile) ==
  LET x == Routes[a.route] y == Routes[b.route] IN
    /\ x.minutes <= y.minutes /\ x.transfers <= y.transfers /\ x.walk <= y.walk
    /\ PreferredSegments(a.route, profile) >= PreferredSegments(b.route, profile)
    /\ a.disrupted => b.disrupted

Better(a, b, profile, weather) ==
  LET x == Routes[a.route] y == Routes[b.route] IN
    /\ NoWorse(a, b, profile)
    /\ \/ x.minutes < y.minutes \/ x.transfers < y.transfers
       \/ PreferredSegments(a.route, profile) > PreferredSegments(b.route, profile)
       \/ b.disrupted /\ ~a.disrupted
       \/ x.walk < y.walk /\ ("walking" \in profile.limits \/ weather = "rain")

\* The list shows each route that OTP found once, at its next departure and with
\* the others after it, marked when that departure is disrupted at that moment.
ShowsPlan(list, plan, marked) ==
  /\ Len(list) = Cardinality({plan[i].route : i \in DOMAIN plan})
  /\ \A i \in DOMAIN plan : \E k \in DOMAIN list :
       /\ list[k].route = plan[i].route
       /\ list[k].start <= plan[i].start
       /\ list[k].next = <<>> \/ plan[i].start \in ToSet(list[k].next)
       /\ Departure(list[k]) \in ToSet(plan)
       /\ list[k].disrupted = (Departure(list[k]) \in marked)

\* "classe le resultat par score pondere", "un seul resultat" par trajet: however
\* the answers of OTP, of the weather and of the realtime cache interleave with
\* other searches, an answer shows all that OTP found in the modes asked for, no
\* result comes after one that is worse in every way, and at most two results bear a
\* badge, which is true of them.
AnswersFit ==
  [][\A s \in Searches :
       LET t == search'[s] IN
       (search[s] # None /\ ~At(s, "answered") /\ At(s, "answered")') =>
         /\ ShowsPlan(t.listed, t.plan, IF t.fallback = "walk-only" THEN {} ELSE disrupted)
         /\ \A i \in DOMAIN t.listed :
              /\ t.fallback = "walk-only" \/ RouteFits(t.listed[i].route, t.modes)
              /\ \A j \in 1 .. i - 1 : ~Better(t.listed[i], t.listed[j], t.profile, sky')
         /\ LET badges == Badges(t.listed, t.profile.limits) IN
              /\ Cardinality(DOMAIN badges) <= 2
              /\ \A k \in DOMAIN badges : badges[k] = "fastest" =>
                   \A i \in DOMAIN t.listed : Minutes(t.listed)[k] <= Minutes(t.listed)[i]]_vars

\* A search that is asked is answered or refused in the end, whichever of the
\* searches that share a request to the weather service had it sent, and whatever
\* comes of it.
SearchesEnd == \A s \in Searches : (search[s] # None) ~> (search[s] = None)
=============================================================================
