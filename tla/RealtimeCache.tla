----------------------------- MODULE RealtimeCache -----------------------------
(***************************************************************************)
(* The in-memory cache of GTFS-Realtime disruptions:                         *)
(*   backend/src/gtfs-realtime/gtfs-realtime-cache.service.ts                *)
(*   backend/src/gtfs-realtime/gtfs-realtime-client.service.ts               *)
(*                                                                         *)
(* The operators publish successive versions of two feeds; a version number  *)
(* stands for the list of disruptions it decodes to (0: an empty list).  The  *)
(* cron job starts a refresh cycle every minute whether or not the previous   *)
(* one is over (fetch has no timeout), so several cycles may be under way.    *)
(***************************************************************************)
EXTENDS Naturals

CONSTANTS
  Operators,      \* operatorsService.getOperators()
  Publishes,      \* Publishes[o]: the feeds operator o has a URL for
  Unreachable,    \* <<o, f>>: feeds whose every fetch fails cleanly
  Truncated,      \* <<o, f>>: feeds whose every answer breaks off in its body
  Cycles,         \* refresh cycles that may be under way at once
  MaxVersion,     \* bound: versions published of one feed
  MaxFailures     \* bound: passing failures of the other feeds

Feeds == {"tripUpdates", "alerts"}

ASSUME CacheAssumption ==
  /\ Publishes \in [Operators -> SUBSET Feeds]
  /\ Unreachable \subseteq Operators \X Feeds
  /\ Truncated \subseteq Operators \X Feeds
  /\ MaxVersion \in Nat /\ MaxFailures \in Nat

VARIABLES
  published,      \* the version of each feed now online
  perOperator,    \* the cache: the version held of each feed
  refresh,        \* refresh[c][o]: what cycle c is doing for operator o
  failures        \* passing failures so far

cacheVars == <<published, perOperator, refresh, failures>>

Version == 0 .. MaxVersion

\* What a fetch may have come to: still under way, null, or a version.
Pending == MaxVersion + 1
Failed == MaxVersion + 2
Outcome == Version \cup {Pending, Failed}

Refresh == [busy : BOOLEAN, existing : [Feeds -> Version], got : [Feeds -> Outcome]]

Done == [busy |-> FALSE, existing |-> [f \in Feeds |-> 0], got |-> [f \in Feeds |-> 0]]

CacheTypeOK ==
  /\ published \in [Operators -> [Feeds -> Version]]
  /\ perOperator \in [Operators -> [Feeds -> Version]]
  /\ refresh \in [Cycles -> [Operators -> Refresh]]
  /\ failures \in 0 .. MaxFailures

\* The server may start, or restart, when any version is online.
CacheInit ==
  /\ published \in [Operators -> [Feeds -> Version]]
  /\ \A o \in Operators, f \in Feeds : f \notin Publishes[o] => published[o][f] = 0
  /\ perOperator = [o \in Operators |-> [f \in Feeds |-> 0]]
  /\ refresh = [c \in Cycles |-> [o \in Operators |-> Done]]
  /\ failures = 0

\* The operator publishes the next version of a feed.
Publish(o, f) ==
  /\ f \in Publishes[o] /\ published[o][f] < MaxVersion
  /\ published' = [published EXCEPT ![o][f] = @ + 1]
  /\ UNCHANGED <<perOperator, refresh, failures>>

\* refresh: every operator at once; "existing" is read before the fetches, and
\* a feed without URL is an empty list from the start.
StartCycle(c) ==
  /\ \A o \in Operators : ~refresh[c][o].busy
  /\ refresh' = [refresh EXCEPT ![c] =
       [o \in Operators |->
         [busy |-> TRUE, existing |-> perOperator[o],
          got |-> [f \in Feeds |-> IF f \in Publishes[o] THEN Pending ELSE 0]]]]
  /\ UNCHANGED <<published, perOperator, failures>>

Fetching(c, o, f) == refresh[c][o].busy /\ refresh[c][o].got[f] = Pending

Healthy(o, f) == <<o, f>> \notin Unreachable \cup Truncated

\* A fetch fails: always on a feed of "outage", now and then on any other.
Failing(o, f, outage) ==
  \/ <<o, f>> \in outage /\ UNCHANGED failures
  \/ Healthy(o, f) /\ failures < MaxFailures /\ failures' = failures + 1

\* The refresh r once the fetch of feed f has come to "outcome".
Settled(r, f, outcome) ==
  [busy |-> r.busy, existing |-> r.existing, got |-> [r.got EXCEPT ![f] = outcome]]

\* The operator's server answers with the version it then has.
Fetch(c, o, f) ==
  /\ Fetching(c, o, f) /\ Healthy(o, f)
  /\ refresh' = [refresh EXCEPT ![c][o] = Settled(@, f, published[o][f])]
  /\ UNCHANGED <<published, perOperator, failures>>

\* Network error, HTTP error or unreadable protobuf: null.
FetchFails(c, o, f) ==
  /\ Fetching(c, o, f) /\ Failing(o, f, Unreachable)
  /\ refresh' = [refresh EXCEPT ![c][o] = Settled(@, f, Failed)]
  /\ UNCHANGED <<published, perOperator>>

\* The body breaks off: response.arrayBuffer() rejects outside the try, and the
\* refresh of this operator ends without storing anything.
FetchThrows(c, o, f) ==
  /\ Fetching(c, o, f) /\ Failing(o, f, Truncated)
  /\ refresh' = [refresh EXCEPT ![c][o] = Done]
  /\ UNCHANGED <<published, perOperator>>

\* Slip: a failed feed counts as an empty one.
MergeEmpty(r) == [f \in Feeds |-> IF r.got[f] = Failed THEN 0 ELSE r.got[f]]

\* Slip: one failed feed keeps the cycle from storing the other.
MergeAllOrNothing(r) == IF \E f \in Feeds : r.got[f] = Failed THEN r.existing ELSE r.got

\* "tripUpdates ?? existing.tripUpdates": what failed stays as the cycle found it.
Merge(r) == [f \in Feeds |-> IF r.got[f] = Failed THEN r.existing[f] ELSE r.got[f]]

\* Both fetches have settled: the operator's entry is replaced.
Store(c, o) ==
  LET r == refresh[c][o] IN
  /\ r.busy /\ \A f \in Feeds : r.got[f] # Pending
  /\ perOperator' = [perOperator EXCEPT ![o] = Merge(r)]
  /\ refresh' = [refresh EXCEPT ![c][o] = Done]
  /\ UNCHANGED <<published, failures>>

CacheNext ==
  \/ \E o \in Operators, f \in Feeds : Publish(o, f)
  \/ \E c \in Cycles : StartCycle(c)
  \/ \E c \in Cycles, o \in Operators, f \in Feeds :
        Fetch(c, o, f) \/ FetchFails(c, o, f) \/ FetchThrows(c, o, f)
  \/ \E c \in Cycles, o \in Operators : Store(c, o)

CacheSpec == CacheInit /\ [][CacheNext]_cacheVars

\* The cron job fires every minute, and a fetch settles (the HTTP client gives
\* up on a silent server): with an answer when the feed is healthy.
CacheFairSpec ==
  /\ CacheSpec
  /\ \A c \in Cycles : WF_cacheVars(StartCycle(c))
  /\ \A c \in Cycles, o \in Operators :
       /\ WF_cacheVars(Store(c, o))
       /\ \A f \in Feeds :
            /\ WF_cacheVars(Fetch(c, o, f))
            /\ WF_cacheVars(<<o, f>> \in Unreachable /\ FetchFails(c, o, f))
            /\ WF_cacheVars(<<o, f>> \in Truncated /\ FetchThrows(c, o, f))

-----------------------------------------------------------------------------
(* What the cache promises.                                                  *)

\* Cycle c ends its work on operator o in this step.
Ends(c, o) == refresh[c][o].busy /\ ~refresh'[c][o].busy

\* However fetches fail and cycles overlap, no cycle leaves a feed with an older
\* version than the cache held when the cycle began (refreshOperator merges what
\* it fetched with "existing").
RefreshLosesNoGround ==
  [][\A c \in Cycles, o \in Operators, f \in Feeds :
       Ends(c, o) => perOperator'[o][f] >= refresh[c][o].existing[f]
                     \/ perOperator' = perOperator]_cacheVars

\* A feed that could not be fetched keeps the latest version known, "conservation
\* des dernieres perturbations connues" (refreshOperator's warnings).  Two
\* overlapping cycles break it: "existing" was read before the fetch.
FailureKeepsLatest ==
  [][\A c \in Cycles, o \in Operators, f \in Feeds :
       Ends(c, o) /\ refresh[c][o].got[f] = Failed
         => perOperator'[o][f] = perOperator[o][f]]_cacheVars

\* The outage of one feed does not keep the others, of the same operator or of
\* another, from showing what is online ("une source en panne ne prive pas
\* l'autre"); and a cache left behind by a slow cycle catches up.
HealthyFeedsCurrent ==
  <>[](\A o \in Operators : \A f \in Publishes[o] :
         Healthy(o, f) => perOperator[o][f] = published[o][f])
=============================================================================
