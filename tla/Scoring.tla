------------------------------- MODULE Scoring -------------------------------
(***************************************************************************)
(* From the itineraries OpenTripPlanner finds to the list a search answers     *)
(* with, and what the results say of it:                                      *)
(*   backend/src/trips/trips.service.ts (groupByRoute)                         *)
(*   backend/src/scoring/scoring.service.ts, scoring-weights.const.ts           *)
(*   backend/src/otp/otp-modes.ts                                             *)
(*   frontend/src/pages/RecherchePage/itineraryBadges.ts                       *)
(*                                                                         *)
(* A route is the succession of segments that routeKey tells apart: it settles   *)
(* everything of an itinerary but its time.  Durations count in minutes and        *)
(* walks in hundreds of metres, so that every weight is an integer.              *)
(***************************************************************************)
EXTENDS Ordering, SequencesExt

CONSTANT Routes \* Routes[r]: the duration, the transfers, the walk and the modes of a route

ASSUME RoutesAssumption ==
  \A r \in DOMAIN Routes :
    /\ Routes[r].minutes \in Nat /\ Routes[r].transfers \in Nat /\ Routes[r].walk \in Nat
    /\ Routes[r].modes \in Seq({"walking", "bus", "tram", "metro", "train"})

\* What a search without an account, or with an account without a profile, prefers.
NoPreference == [limits |-> {}, preferred |-> {}]

-----------------------------------------------------------------------------
(* The modes asked for.                                                      *)

Routable == {"bus", "tram", "metro", "train"}

\* toOtpModeParam: modes that OTP does not know are ignored, and a filter that
\* leaves none is no filter.
OtpModes(modes) == IF modes \cap Routable = {} THEN Routable ELSE modes \cap Routable

RouteFits(r, modes) == ToSet(Routes[r].modes) \subseteq OtpModes(modes) \cup {"walking"}

\* A run of a route, by when it leaves: its segments are trips of that time.
Departure(x) == [route |-> x.route, start |-> x.start]

-----------------------------------------------------------------------------
(* groupByRoute: one result per route, at its next departure.                  *)

Starts(group) ==
  LET start == [i \in DOMAIN group |-> group[i].start]
  IN Taken(start, StableOrder(start))

\* Slip: the group is shown at the departure OTP lists first.
GroupAsListed(group) ==
  [route |-> group[1].route, start |-> group[1].start, disrupted |-> FALSE,
   next |-> IF Len(group) = 1 THEN <<>> ELSE Starts(group)]

Group(group) ==
  [route |-> group[1].route, start |-> Starts(group)[1], disrupted |-> FALSE,
   next |-> IF Len(group) = 1 THEN <<>> ELSE Starts(group)]

GroupByRoute(plan) ==
  LET first == {i \in DOMAIN plan : \A j \in 1 .. i - 1 : plan[j].route # plan[i].route}
      group(r) == Kept(plan, {i \in DOMAIN plan : plan[i].route = r})
      heads == Kept(plan, first)
  IN [k \in DOMAIN heads |-> Group(group(heads[k].route))]

-----------------------------------------------------------------------------
(* rank.                                                                     *)

PreferredSegments(r, profile) ==
  Cardinality({i \in DOMAIN Routes[r].modes : Routes[r].modes[i] \in profile.preferred})

\* computeScore, SCORING_WEIGHTS: the lower the better.
Score(listed, profile, sky) ==
  LET r == Routes[listed.route] IN
    r.minutes
    + r.transfers * (IF "transfers" \in profile.limits THEN 12 ELSE 2)
    + r.walk * ((IF "walking" \in profile.limits THEN 5 ELSE 0) + (IF sky = "rain" THEN 8 ELSE 0))
    - 3 * PreferredSegments(listed.route, profile)
    + (IF listed.disrupted THEN 15 ELSE 0)

\* The disruptions under way are looked up as the list is ranked, for the departure that
\* stands for its route (findItineraryDisruptions); the sort is stable.
Rank(grouped, profile, sky, disrupted) ==
  LET marked == [k \in DOMAIN grouped |->
                  [grouped[k] EXCEPT !.disrupted = (Departure(grouped[k]) \in disrupted)]]
      score == [k \in DOMAIN marked |-> Score(marked[k], profile, sky)]
  IN Taken(marked, StableOrder(score))

-----------------------------------------------------------------------------
(* computeItineraryBadges.                                                   *)

\* The first of the results at which a measure is the least.
FirstBest(measure) ==
  CHOOSE i \in DOMAIN measure :
    /\ \A j \in DOMAIN measure : measure[i] <= measure[j]
    /\ \A j \in 1 .. i - 1 : measure[i] < measure[j]

Minutes(list) == [i \in DOMAIN list |-> Routes[list[i].route].minutes]
Transfers(list) == [i \in DOMAIN list |-> Routes[list[i].route].transfers]
Walk(list) == [i \in DOMAIN list |-> Routes[list[i].route].walk]

\* The badges by index: none, or one or two of them.
Badges(list, limits) ==
  IF list = <<>> THEN <<>>
  ELSE IF limits = {} THEN [i \in {FirstBest(Minutes(list))} |-> "fastest"]
  ELSE LET target == IF "transfers" \in limits THEN FirstBest(Transfers(list))
                     ELSE IF "walking" \in limits THEN FirstBest(Walk(list)) ELSE 1
       IN [i \in {1, target} |->
             IF i = 1 THEN "suits" ELSE IF "transfers" \in limits THEN "fewest" ELSE "least walk"]
=============================================================================
