------------------------------ MODULE TripHistory ------------------------------
(***************************************************************************)
(* The trips an account searched for:                                         *)
(*   backend/src/trips/history/trip-history.service.ts, trip-history-entry.entity.ts *)
(*   backend/src/common/encryption/encrypted-column.transformer.ts             *)
(*   backend/src/trips/trips.controller.ts (GET /trips/history)                 *)
(*                                                                         *)
(* Searches append rows, encrypted with the key of the moment; the key may change  *)
(* with a restart, and the rows written before can then not be read.  A read loads   *)
(* all the rows at once and, when that fails, once more row by row; searches, the   *)
(* nightly purge and other reads go on meanwhile.                                *)
(***************************************************************************)
EXTENDS Ordering, SequencesExt

CONSTANTS
  Trips,     \* origin and destination, rounded to 4 decimals
  Reads,     \* bound: reads under way at once
  Window,    \* TRIP_HISTORY_RETENTION_DAYS
  MaxEntries, \* MAX_RECENT_ENTRIES
  MaxRows,   \* bound: rows ever written
  MaxDay,    \* bound: days
  MaxKey,    \* bound: keys
  Absent

ASSUME HistoryAssumption ==
  /\ {Window, MaxEntries, MaxKey} \subseteq Nat \ {0}
  /\ {MaxRows, MaxDay} \subseteq Nat

VARIABLES
  rows,  \* the rows of an account in the order of searched_at, Absent once deleted
  key,   \* GEOLOCATION_ENCRYPTION_KEY
  today,
  read   \* read[k]: a GET /trips/history under way, or Absent

historyVars == <<rows, key, today, read>>

Row == [trip : Trips, day : 0 .. MaxDay, key : 1 .. MaxKey]

\* since: the limit of the window, computed first; before: how many rows there were
\* then (history).
Read == [since : Int, before : 0 .. MaxRows, stage : {"loading", "tolerant", "answered"},
         shown : Seq(1 .. MaxRows)]

HistoryTypeOK ==
  /\ rows \in Seq(Row \cup {Absent}) /\ Len(rows) <= MaxRows
  /\ key \in 1 .. MaxKey /\ today \in 0 .. MaxDay
  /\ read \in [Reads -> Read \cup {Absent}]

HistoryInit ==
  /\ rows = <<>> /\ key = 1 /\ today = 0
  /\ read = [k \in Reads |-> Absent]

-----------------------------------------------------------------------------
Present == {i \in DOMAIN rows : rows[i] # Absent}

\* from(): decrypt throws when the row was written with another key.
Readable == {i \in Present : rows[i].key = key}

RetentionCutoff == today - Window

\* Slip: a column without the transformer is written in clear.
RecordInClear(trip) ==
  /\ Len(rows) < MaxRows
  /\ rows' = Append(rows, [trip |-> trip, day |-> today, key |-> Absent])
  /\ UNCHANGED <<key, today, read>>

\* record, with to(): the coordinates are encrypted with the key of the moment.
RecordTrip(trip) ==
  /\ Len(rows) < MaxRows
  /\ rows' = Append(rows, [trip |-> trip, day |-> today, key |-> key])
  /\ UNCHANGED <<key, today, read>>

NextDay ==
  /\ today < MaxDay /\ today' = today + 1
  /\ UNCHANGED <<rows, key, read>>

\* LessThan(retentionCutoff()).
Expired(i) == rows[i].day < RetentionCutoff

\* handleDailyPurge.
Purge ==
  /\ \E i \in Present : rows[i].day < RetentionCutoff
  /\ rows' = [i \in DOMAIN rows |-> IF i \in Present /\ Expired(i) THEN Absent ELSE rows[i]]
  /\ UNCHANGED <<key, today, read>>

\* The server restarts with another key; its reads are lost.
RotateKey ==
  /\ key < MaxKey /\ key' = key + 1
  /\ read' = [k \in Reads |-> Absent]
  /\ UNCHANGED <<rows, today>>

-----------------------------------------------------------------------------
(* findRecent.                                                               *)

AskHistory(k) ==
  /\ read[k] = Absent
  /\ read' = [read EXCEPT ![k] = [since |-> RetentionCutoff, before |-> Len(rows),
                                  stage |-> "loading", shown |-> <<>>]]
  /\ UNCHANGED <<rows, key, today>>

\* The latest row of each trip.
Distinct(list) ==
  LET first == {j \in DOMAIN list : \A h \in 1 .. j - 1 : rows[list[h]].trip # rows[list[j]].trip}
  IN Kept(list, first)

\* Slip: the query is limited, before the trips are told apart.
RecentLimited(entries, since) ==
  Distinct(FirstOnes(Descending({i \in entries : rows[i].day >= since}), MaxEntries))

\* The distinct trips of the window, latest first.
Recent(entries, since) ==
  FirstOnes(Distinct(Descending({i \in entries : rows[i].day >= since})), MaxEntries)

Show(k, entries) ==
  read' = [read EXCEPT ![k].stage = "answered", ![k].shown = Recent(entries, read[k].since)]

\* One row that cannot be read fails the whole query.
Load(k) ==
  /\ read[k] # Absent /\ read[k].stage = "loading"
  /\ Readable = Present
  /\ Show(k, Present)
  /\ UNCHANGED <<rows, key, today>>

LoadFails(k) ==
  /\ read[k] # Absent /\ read[k].stage = "loading"
  /\ read' = [read EXCEPT ![k].stage = "tolerant"]
  /\ UNCHANGED <<rows, key, today>>

\* findRecentTolerant: the rows that can be read.
LoadTolerant(k) ==
  /\ read[k] # Absent /\ read[k].stage = "tolerant"
  /\ Show(k, Readable)
  /\ UNCHANGED <<rows, key, today>>

\* The answer leaves, or an error: the raw query fails too.
Leave(k) ==
  /\ read[k] # Absent /\ read[k].stage # "loading"
  /\ read' = [read EXCEPT ![k] = Absent]
  /\ UNCHANGED <<rows, key, today>>

HistoryNext ==
  \/ \E trip \in Trips : RecordTrip(trip)
  \/ NextDay \/ Purge \/ RotateKey
  \/ \E k \in Reads : AskHistory(k) \/ Load(k) \/ LoadFails(k) \/ LoadTolerant(k) \/ Leave(k)

HistorySpec == HistoryInit /\ [][HistoryNext]_historyVars

-----------------------------------------------------------------------------
(* What the history promises.                                                *)

\* "les trajets recents distincts de l'utilisateur, les plus recents d'abord": a row
\* that was there when the history was asked for, and still is when it is answered, is
\* shown, unless it is out of the window or cannot be read, a later search of the same
\* trip is shown, or the list is full of later ones; whatever rows cannot be read, and
\* whatever is searched for and purged meanwhile.
HistoryComplete ==
  [][\A k \in Reads :
       (read[k] # Absent /\ read'[k] # Absent /\ read[k].stage # "answered" /\ read'[k].stage = "answered") =>
       LET shown == read'[k].shown IN
         /\ \A m, n \in DOMAIN shown : m < n =>
              shown[m] > shown[n] /\ rows[shown[m]].trip # rows[shown[n]].trip
         /\ \A i \in Readable : i <= read[k].before /\ rows[i].day >= RetentionCutoff =>
              \/ i \in ToSet(shown)
              \/ \E j \in ToSet(shown) : j > i /\ rows[j].trip = rows[i].trip
              \/ Len(shown) = MaxEntries /\ \A j \in ToSet(shown) : j > i]_historyVars
=============================================================================
