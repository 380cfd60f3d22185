------------------------------ MODULE TripMonitor ------------------------------
(***************************************************************************)
(* The trip a user follows and the monitor that warns of its disruptions:    *)
(*   backend/src/trips/following/followed-trip.service.ts                    *)
(*   backend/src/perturbations/trip-disruption-monitor.service.ts            *)
(*   backend/src/push/push-notification.service.ts                           *)
(*                                                                         *)
(* One action per database call or await: what was read before an await may   *)
(* be stale when the handler goes on.  The cron job starts a cycle every      *)
(* minute, whether or not the previous one is over.  A disruption is known by *)
(* its signature, and numbered in the order of the realtime cache.            *)
(***************************************************************************)
EXTENDS Naturals, Sequences

CONSTANTS
  Users,
  Trips,          \* itineraries a user may follow
  Segments,       \* Segments[t]: for each segment of t, the disruptions matching it
  Disruptions,    \* signatures, positive numbers
  Cycles,         \* monitor cycles that may be under way at once
  Calls,          \* requests to follow that may be under way at once
  MaxFollows,     \* bound: requests to follow
  MaxChanges,     \* bound: changes of the realtime cache
  MaxFailures,    \* bound: searches, or reads of the subscriptions, that fail
  MaxLost         \* bound: records lost to a restart or a database error

ASSUME ConstantsAssumption ==
  /\ Disruptions \subseteq Nat \ {0}
  /\ Segments \in [Trips -> Seq(SUBSET Disruptions)]
  /\ MaxFollows \in Nat /\ MaxChanges \in Nat
  /\ MaxFailures \in Nat /\ MaxLost \in Nat

VARIABLES
  known,          \* the disruptions now in the realtime cache
  followed,       \* followed_trips, by primary key
  call,           \* call[k]: what request k is doing in startFollowing
  check,          \* check[c][i]: what cycle c is doing for row i
  sent,           \* history: the notifications sent
  latest,         \* history: the latest disruption notified to each follow
  follows, changes, failures, lost  \* counters, for the bounds

counters == <<follows, changes, failures, lost>>
vars == <<known, followed, call, check, sent, latest, counters>>

\* Requests to follow are numbered; a row's key is the request that inserted it.
Follow == 1 .. MaxFollows
None == 0
Signature == Disruptions \cup {None}

Row == [user : Users, trip : Trips, follow : Follow, active : BOOLEAN, last : Signature]
NoRow == [follow |-> None]
Stored(i) == followed[i] # NoRow

NoCall == [busy |-> FALSE]
Call == [busy : {TRUE}, user : Users, trip : Trips, follow : Follow, id : Follow \cup {None}]

Idle == [pc |-> "idle"]
Check == [pc : {"listed", "search", "record"}, row : Row, sig : Signature]

TypeOK ==
  /\ known \subseteq Disruptions
  /\ followed \in [Follow -> Row \cup {NoRow}]
  /\ call \in [Calls -> Call \cup {NoCall}]
  /\ check \in [Cycles -> [Follow -> Check \cup {Idle}]]
  /\ sent \subseteq [user : Users, follow : Follow, sig : Disruptions]
  /\ latest \in [Follow -> Signature]
  /\ follows \in 0 .. MaxFollows /\ changes \in 0 .. MaxChanges
  /\ failures \in 0 .. MaxFailures /\ lost \in 0 .. MaxLost

Init ==
  /\ known = {}
  /\ followed = [i \in Follow |-> NoRow]
  /\ call = [k \in Calls |-> NoCall]
  /\ check = [c \in Cycles |-> [i \in Follow |-> Idle]]
  /\ sent = {}
  /\ latest = [i \in Follow |-> None]
  /\ follows = 0 /\ changes = 0 /\ failures = 0 /\ lost = 0

RowOf(u) == {i \in Follow : Stored(i) /\ followed[i].user = u}

-----------------------------------------------------------------------------
(* The realtime cache, refreshed on its own schedule.                        *)

CacheChange ==
  /\ changes < MaxChanges
  /\ changes' = changes + 1
  /\ known' \in SUBSET Disruptions
  /\ UNCHANGED <<followed, call, check, sent, latest, follows, failures, lost>>

-----------------------------------------------------------------------------
(* The user's side.                                                          *)

\* startFollowing, findOneBy({ userId }).
BeginFollow(k, u, t) ==
  /\ call[k] = NoCall
  /\ follows < MaxFollows
  /\ follows' = follows + 1
  /\ \E i \in RowOf(u) \cup {None} :
       /\ i = None => RowOf(u) = {}
       /\ call' = [call EXCEPT ![k] = [busy |-> TRUE, user |-> u, trip |-> t,
                                       follow |-> follows', id |-> i]]
  /\ UNCHANGED <<known, followed, check, sent, latest, changes, failures, lost>>

\* The key the entity is saved under: the row found, or a new one.
Key(k) == IF call[k].id = None THEN call[k].follow ELSE call[k].id

\* UNIQUE(user_id): another row of this user appeared since findOneBy.
Conflict(k) == RowOf(call[k].user) \ {Key(k)} # {}

\* Slip: no constraint on user_id.
SaveFollowUnconstrained(k) ==
  /\ call[k] # NoCall
  /\ followed' = [followed EXCEPT ![Key(k)] =
       [user |-> call[k].user, trip |-> call[k].trip, follow |-> call[k].follow,
        active |-> TRUE, last |-> None]]
  /\ call' = [call EXCEPT ![k] = NoCall]
  /\ UNCHANGED <<known, check, sent, latest, counters>>

\* save: UPDATE of the row found, INSERT otherwise (also when it is gone).
SaveFollow(k) ==
  /\ call[k] # NoCall /\ ~Conflict(k)
  /\ followed' = [followed EXCEPT ![Key(k)] =
       [user |-> call[k].user, trip |-> call[k].trip, follow |-> call[k].follow,
        active |-> TRUE, last |-> None]]
  /\ call' = [call EXCEPT ![k] = NoCall]
  /\ UNCHANGED <<known, check, sent, latest, counters>>

FollowRejected(k) ==
  /\ call[k] # NoCall /\ Conflict(k)
  /\ call' = [call EXCEPT ![k] = NoCall]
  /\ UNCHANGED <<known, followed, check, sent, latest, counters>>

Delete(rows) ==
  /\ rows # {}
  /\ followed' = [i \in Follow |-> IF i \in rows THEN NoRow ELSE followed[i]]
  /\ UNCHANGED <<known, call, check, sent, latest, counters>>

StopFollowing(u) == Delete(RowOf(u))

\* endTime goes by.
TripEnds(i) ==
  /\ Stored(i) /\ followed[i].active
  /\ followed' = [followed EXCEPT ![i].active = FALSE]
  /\ UNCHANGED <<known, call, check, sent, latest, counters>>

PurgeExpired == Delete({i \in Follow : Stored(i) /\ ~followed[i].active})

-----------------------------------------------------------------------------
(* The monitor.                                                              *)

Active(i) == Stored(i) /\ followed[i].active

\* findAllActive; with no active follow the cycle is over at once.
ListActive(c) ==
  /\ \A i \in Follow : check[c][i] = Idle
  /\ check' = [check EXCEPT ![c] = [i \in Follow |->
       IF Active(i) THEN [pc |-> "listed", row |-> followed[i], sig |-> None]
       ELSE Idle]]
  /\ UNCHANGED <<known, followed, call, sent, latest, counters>>

\* findFirstDisruption: the first segment hit, and of its disruptions the one
\* the cache lists first.
FirstDisruption(t) ==
  LET hit == {n \in DOMAIN Segments[t] : Segments[t][n] \cap known # {}}
      first == CHOOSE n \in hit : \A m \in hit : n <= m
      found == Segments[t][first] \cap known
  IN IF hit = {} THEN None ELSE CHOOSE d \in found : \A e \in found : d <= e

\* Slip: one warning per follow, whatever comes next.
WorthTellingOnce(row) == row.last = None /\ FirstDisruption(row.trip) # None

\* checkOne's early returns.
WorthTelling(row) == FirstDisruption(row.trip) \notin {None, row.last}

\* checkOne up to its first await, for every row listed: they run in one turn.
CheckListed(c) ==
  /\ \E i \in Follow : check[c][i].pc = "listed"
  /\ check' = [check EXCEPT ![c] = [i \in Follow |->
       IF check[c][i].pc = "listed" /\ WorthTelling(check[c][i].row)
       THEN [check[c][i] EXCEPT !.pc = "search",
                                !.sig = FirstDisruption(check[c][i].row.trip)]
       ELSE Idle]]
  /\ UNCHANGED <<known, followed, call, sent, latest, counters>>

\* tripsService.search is over, notifyUser has read the subscriptions and sends;
\* a device that cannot be reached is not an error.
NotifyUser(c, i) ==
  LET k == check[c][i] IN
  /\ k.pc = "search"
  /\ sent' = sent \cup {[user |-> k.row.user, follow |-> k.row.follow, sig |-> k.sig]}
  /\ latest' = [latest EXCEPT ![k.row.follow] = k.sig]
  /\ check' = [check EXCEPT ![c][i].pc = "record"]
  /\ UNCHANGED <<known, followed, call, counters>>

\* The search, or the read of the subscriptions, rejects: the next cycle retries.
CheckFails(c, i) ==
  /\ check[c][i].pc = "search"
  /\ failures < MaxFailures
  /\ failures' = failures + 1
  /\ check' = [check EXCEPT ![c][i] = Idle]
  /\ UNCHANGED <<known, followed, call, sent, latest, follows, changes, lost>>

\* Slip: the signature is recorded before anything is sent.
RecordFirst(c, i) ==
  /\ check[c][i].pc \in {"search", "record"} /\ Stored(i)
  /\ followed' = [followed EXCEPT ![i].last = check[c][i].sig]
  /\ check' = [check EXCEPT ![c][i] = Idle]
  /\ UNCHANGED <<known, call, sent, latest, counters>>

\* Slip: an upsert, which inserts what it knows of a row that is gone.
RecordUpsert(c, i) ==
  /\ check[c][i].pc = "record"
  /\ followed' = [followed EXCEPT ![i] =
       IF Stored(i) THEN [followed[i] EXCEPT !.last = check[c][i].sig]
       ELSE [follow |-> i, last |-> check[c][i].sig]]
  /\ check' = [check EXCEPT ![c][i] = Idle]
  /\ UNCHANGED <<known, call, sent, latest, counters>>

\* Slip: save(row), which inserts again, as it was listed, a row that is gone.
RecordReinserts(c, i) ==
  /\ check[c][i].pc = "record"
  /\ followed' = [followed EXCEPT ![i] =
       [(IF Stored(i) THEN followed[i] ELSE check[c][i].row) EXCEPT !.last = check[c][i].sig]]
  /\ check' = [check EXCEPT ![c][i] = Idle]
  /\ UNCHANGED <<known, call, sent, latest, counters>>

\* recordNotifiedDisruption: UPDATE of the signature alone, of no row if it is gone.
Record(c, i) ==
  /\ check[c][i].pc = "record"
  /\ followed' = [followed EXCEPT ![i] =
       IF Stored(i) THEN [followed[i] EXCEPT !.last = check[c][i].sig] ELSE NoRow]
  /\ check' = [check EXCEPT ![c][i] = Idle]
  /\ UNCHANGED <<known, call, sent, latest, counters>>

Losing == lost < MaxLost /\ lost' = lost + 1

RecordFails(c, i) ==
  /\ check[c][i].pc = "record"
  /\ Losing
  /\ check' = [check EXCEPT ![c][i] = Idle]
  /\ UNCHANGED <<known, followed, call, sent, latest, follows, changes, failures>>

\* The server restarts: requests and cycles under way are lost.
Restart ==
  /\ Losing
  /\ call' = [k \in Calls |-> NoCall]
  /\ check' = [c \in Cycles |-> [i \in Follow |-> Idle]]
  /\ UNCHANGED <<known, followed, sent, latest, follows, changes, failures>>

-----------------------------------------------------------------------------
Next ==
  \/ CacheChange
  \/ \E k \in Calls, u \in Users, t \in Trips : BeginFollow(k, u, t)
  \/ \E k \in Calls : SaveFollow(k) \/ FollowRejected(k)
  \/ \E u \in Users : StopFollowing(u)
  \/ \E i \in Follow : TripEnds(i)
  \/ PurgeExpired
  \/ \E c \in Cycles : ListActive(c) \/ CheckListed(c)
  \/ \E c \in Cycles, i \in Follow :
        NotifyUser(c, i) \/ CheckFails(c, i) \/ Record(c, i) \/ RecordFails(c, i)
  \/ Restart

Spec == Init /\ [][Next]_vars

\* The cron job fires every minute and what a cycle awaits settles.
FairSpec ==
  /\ Spec
  /\ \A c \in Cycles : WF_vars(ListActive(c)) /\ WF_vars(CheckListed(c))
  /\ \A c \in Cycles, i \in Follow : WF_vars(NotifyUser(c, i)) /\ WF_vars(Record(c, i))

-----------------------------------------------------------------------------
(* What a user may rely on.                                                  *)

\* "Un seul trajet suivi a la fois": two tabs that start to follow at once, or
\* one that starts while another stops, never leave a user with two rows.
OneFollowPerUser == \A u \in Users : \A i, j \in RowOf(u) : i = j

\* A row says a disruption was notified only when its owner was sent it: whatever
\* fails between the check and the record, a warning may repeat but is not lost.
Told(u, d) == \E m \in sent : m.user = u /\ m.sig = d

RecordedWasSent ==
  \A i \in Follow : Stored(i) /\ followed[i].last # None
    => Told(followed[i].user, followed[i].last)

\* What a row says of its follow.
Described(row) == <<row.user, row.trip, row.follow>>

\* Row i is of the follow it was of, over if that one was.
SameFollow(i) ==
  /\ Stored(i) /\ Described(followed'[i]) = Described(followed[i])
  /\ followed'[i].active => followed[i].active

\* A follow that was replaced, stopped, over or purged stays so, whatever checks of it go
\* on: a row appears, becomes that of another follow or active again only as a request
\* to follow ends, and then as that request asked.
FollowNeverReverts ==
  [][\A i \in Follow : Stored(i)' => SameFollow(i) \/ \E k \in Calls :
       call[k] # NoCall /\ call'[k] = NoCall /\ Described(followed'[i]) = Described(call[k])]_vars

\* In the end the owner of an active follow was told of the disruption its
\* monitor sees, whatever failed, restarted or overlapped on the way.
DisruptionReachesUser ==
  <>[](\A i \in Follow :
         Active(i) /\ FirstDisruption(followed[i].trip) # None
           => Told(followed[i].user, FirstDisruption(followed[i].trip)))

\* "Une meme perturbation qui persiste ne renotifie jamais deux fois": two
\* notifications in a row for one follow differ.  It holds while cycles do not
\* overlap and no record is lost.
NoEcho ==
  [][\A c \in Cycles, i \in Follow :
       check[c][i].pc = "search" /\ check'[c][i].pc = "record"
         => latest[check[c][i].row.follow] # check[c][i].sig]_vars

\* "Jamais celle du suivi precedent": the signature a row holds was notified for
\* the follow it now describes.
LastIsOfThisFollow ==
  \A i \in Follow : Stored(i) /\ followed[i].last # None
    => \E m \in sent : m.follow = followed[i].follow /\ m.sig = followed[i].last
=============================================================================
