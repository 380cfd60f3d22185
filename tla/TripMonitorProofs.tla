--------------------------- MODULE TripMonitorProofs ---------------------------
(***************************************************************************)
(* Theorems about TripMonitor, for any users, trips, disruptions, requests,  *)
(* cycles and bounds.                                                        *)
(***************************************************************************)
EXTENDS TripMonitor, WellFoundedInduction, TLAPS

Busy(k) == call[k] # NoCall
Checking(c, i) == check[c][i] # Idle

\* Key i of followed_trips is, was or will be the row of user u's follow f.
Claim(i, u, f) ==
  \/ Stored(i) /\ followed[i].user = u /\ followed[i].follow = f
  \/ \E c \in Cycles : Checking(c, i) /\ check[c][i].row.user = u /\ check[c][i].row.follow = f
  \/ \E k \in Calls : Busy(k) /\ Key(k) = i /\ call[k].user = u /\ call[k].follow = f

ClaimsNumbered ==
  \A i, f \in Follow, u \in Users : Claim(i, u, f) => i <= follows /\ f <= follows

KeysHaveOneOwner ==
  \A i, f, g \in Follow, u, v \in Users : Claim(i, u, f) /\ Claim(i, v, g) => u = v

FollowsHaveOneKey ==
  \A i, j, f \in Follow, u, v \in Users : Claim(i, u, f) /\ Claim(j, v, f) => i = j

\* What is recorded, and what is about to be, was sent.
PendingWasSent ==
  \A c \in Cycles, i \in Follow :
    /\ check[c][i].pc = "search" => check[c][i].sig # None
    /\ check[c][i].pc = "record" => Told(check[c][i].row.user, check[c][i].sig)

IInv ==
  /\ TypeOK
  /\ ClaimsNumbered /\ KeysHaveOneOwner /\ FollowsHaveOneKey
  /\ OneFollowPerUser
  /\ RecordedWasSent /\ PendingWasSent

-----------------------------------------------------------------------------
USE ConstantsAssumption

LEMMA LeastMember ==
  ASSUME NEW S, S \subseteq Nat, S # {}
  PROVE  \E d \in S : \A e \in S : d <= e
<1>1. PICK d \in S : \A e \in S : ~ (<<e, d>> \in OpToRel(<, Nat))
  BY NatLessThanWellFounded, WFMin
<1>2. \A e \in Nat : <<e, d>> \in OpToRel(<, Nat) <=> e < d
  BY DEF OpToRel
<1>3. \A e \in S : ~(e < d) /\ e \in Nat /\ d \in Nat
  BY <1>1, <1>2
<1> QED
  BY <1>3

\* findFirstDisruption answers null or a disruption of the cache.
LEMMA FirstIsASignature ==
  ASSUME NEW t \in Trips, known \subseteq Disruptions
  PROVE  FirstDisruption(t) \in Signature
<1> DEFINE hit == {n \in DOMAIN Segments[t] : Segments[t][n] \cap known # {}}
           first == CHOOSE n \in hit : \A m \in hit : n <= m
           found == Segments[t][first] \cap known
<1>1. CASE hit = {}
  BY <1>1 DEF FirstDisruption, Signature
<1>2. CASE hit # {}
  <2>1. hit \subseteq Nat
    OBVIOUS
  <2>2. \E n \in hit : \A m \in hit : n <= m
    <3> HIDE DEF hit
    <3> QED
      BY <1>2, <2>1, LeastMember
  <2>3. first \in hit
    <3> HIDE DEF hit
    <3> QED
      BY <2>2
  <2>4. found # {} /\ found \subseteq Disruptions /\ found \subseteq Nat
    BY <2>3
  <2>5. \E d \in found : \A e \in found : d <= e
    <3> HIDE DEF found
    <3> QED
      BY <2>4, LeastMember
  <2>6. (CHOOSE d \in found : \A e \in found : d <= e) \in found
    <3> HIDE DEF found
    <3> QED
      BY <2>5
  <2>7. FirstDisruption(t) = CHOOSE d \in found : \A e \in found : d <= e
    BY <1>2 DEF FirstDisruption
  <2> QED
    BY <2>4, <2>6, <2>7 DEF Signature
<1> QED
  BY <1>1, <1>2

\* What a step about one row does to "check".
LEMMA OneCheck ==
  ASSUME check \in [Cycles -> [Follow -> Check \cup {Idle}]],
         NEW c \in Cycles, NEW i \in Follow, NEW k \in Check \cup {Idle},
         check' = [check EXCEPT ![c][i] = k]
  PROVE  /\ check' \in [Cycles -> [Follow -> Check \cup {Idle}]]
         /\ check'[c][i] = k
         /\ \A d \in Cycles, j \in Follow : d # c \/ j # i => check'[d][j] = check[d][j]
  OBVIOUS

\* A check that is not idle is a record of what was listed.
LEMMA CheckType ==
  ASSUME TypeOK, NEW c \in Cycles, NEW i \in Follow
  PROVE  /\ check[c][i] \in Check \cup {Idle}
         /\ check[c][i].pc \in {"listed", "search", "record"} <=> Checking(c, i)
         /\ Checking(c, i) => /\ check[c][i] \in Check
                              /\ check[c][i].row \in Row /\ check[c][i].sig \in Signature
                              /\ check[c][i].row.user \in Users
                              /\ check[c][i].row.follow \in Follow
                              /\ check[c][i].row.last \in Signature
<1>1. check[c][i] \in Check \cup {Idle}
  BY DEF TypeOK
<1>2. Idle \notin Check /\ Idle.pc = "idle"
  BY DEF Idle, Check
<1> QED
  BY <1>1, <1>2 DEF Checking, Check, Row

LEMMA RowType ==
  ASSUME TypeOK, NEW i \in Follow
  PROVE  /\ followed[i] \in Row \cup {NoRow}
         /\ Stored(i) => /\ followed[i] \in Row
                         /\ followed[i].user \in Users /\ followed[i].follow \in Follow
                         /\ followed[i].last \in Signature /\ followed[i].trip \in Trips
  BY DEF TypeOK, Stored, Row

LEMMA CallType ==
  ASSUME TypeOK, NEW k \in Calls, Busy(k)
  PROVE  /\ call[k] \in Call
         /\ call[k].user \in Users /\ call[k].trip \in Trips /\ call[k].follow \in Follow
         /\ call[k].id \in Follow \cup {None}
         /\ Key(k) \in Follow
<1>1. call[k] \in Call
  BY DEF TypeOK, Busy
<1> QED
  BY <1>1 DEF Call, Key

\* NoRow is not a row.
LEMMA NoRowIsNoRow == NoRow \notin Row /\ \A r \in Row : r # NoRow
<1>1. NoRow \notin Row
  <2>1. ASSUME NoRow \in Row PROVE FALSE
    <3>1. NoRow.follow \in Follow
      BY <2>1 DEF Row
    <3> QED
      BY <3>1 DEF NoRow, Follow, None
  <2> QED
    BY <2>1
<1> QED
  BY <1>1

-----------------------------------------------------------------------------
(* Each kind of step: its types, and what it does row by row.                *)

LEMMA InitTypes == Init => TypeOK
  BY DEF Init, TypeOK, Signature

LEMMA BeginFollowTypes ==
  ASSUME TypeOK, NEW k \in Calls, NEW u \in Users, NEW t \in Trips, BeginFollow(k, u, t)
  PROVE  /\ TypeOK'
         /\ follows' = follows + 1 /\ follows' \in Follow
         /\ call[k] = NoCall /\ Busy(k)'
         /\ call'[k].user = u /\ call'[k].follow = follows'
         /\ \/ call'[k].id = None /\ RowOf(u) = {}
            \/ call'[k].id \in RowOf(u)
         /\ \A l \in Calls : l # k => call'[l] = call[l]
         /\ UNCHANGED <<known, followed, check, sent, latest>>
<1>1. follows' = follows + 1 /\ follows' \in 0 .. MaxFollows /\ follows' \in Follow
  BY DEF TypeOK, BeginFollow, Follow
<1>2. PICK i \in RowOf(u) \cup {None} :
        /\ i = None => RowOf(u) = {}
        /\ call' = [call EXCEPT ![k] = [busy |-> TRUE, user |-> u, trip |-> t,
                                       follow |-> follows', id |-> i]]
  BY DEF BeginFollow
<1>3. [busy |-> TRUE, user |-> u, trip |-> t, follow |-> follows', id |-> i] \in Call
  BY <1>1 DEF Call, RowOf
<1>4. /\ call' \in [Calls -> Call \cup {NoCall}]
      /\ call'[k] = [busy |-> TRUE, user |-> u, trip |-> t, follow |-> follows', id |-> i]
      /\ \A l \in Calls : l # k => call'[l] = call[l]
  BY <1>2, <1>3 DEF TypeOK
<1>5. call'[k] # NoCall
  BY <1>4 DEF NoCall
<1>6. TypeOK'
  BY <1>1, <1>4 DEF TypeOK, BeginFollow
<1> QED
  BY <1>1, <1>2, <1>4, <1>5, <1>6 DEF BeginFollow, Busy

LEMMA SaveFollowTypes ==
  ASSUME TypeOK, NEW k \in Calls, SaveFollow(k)
  PROVE  /\ TypeOK' /\ Busy(k) /\ ~Conflict(k)
         /\ Key(k) \in Follow
         /\ followed'[Key(k)] # NoRow
         /\ followed'[Key(k)].user = call[k].user
         /\ followed'[Key(k)].follow = call[k].follow
         /\ followed'[Key(k)].last = None
         /\ \A i \in Follow : i # Key(k) => followed'[i] = followed[i]
         /\ call'[k] = NoCall
         /\ \A l \in Calls : l # k => call'[l] = call[l]
         /\ UNCHANGED <<known, check, sent, latest, counters>>
<1> DEFINE row == [user |-> call[k].user, trip |-> call[k].trip, follow |-> call[k].follow,
                   active |-> TRUE, last |-> None]
<1>1. Busy(k)
  BY DEF SaveFollow, Busy
<1>2. row \in Row /\ Key(k) \in Follow
  BY <1>1, CallType DEF Row, Signature
<1>3. followed' = [followed EXCEPT ![Key(k)] = row] /\ call' = [call EXCEPT ![k] = NoCall]
  BY DEF SaveFollow
<1>4. /\ followed' \in [Follow -> Row \cup {NoRow}]
      /\ followed'[Key(k)] = row
      /\ \A i \in Follow : i # Key(k) => followed'[i] = followed[i]
  BY <1>2, <1>3 DEF TypeOK
<1>5. row # NoRow
  BY <1>2, NoRowIsNoRow
<1>6. /\ call' \in [Calls -> Call \cup {NoCall}]
      /\ call'[k] = NoCall
      /\ \A l \in Calls : l # k => call'[l] = call[l]
  BY <1>3 DEF TypeOK
<1>7. TypeOK'
  BY <1>4, <1>6 DEF TypeOK, SaveFollow, counters
<1>8. followed'[Key(k)] # NoRow
  BY <1>4, <1>5
<1> QED
  BY <1>1, <1>2, <1>4, <1>6, <1>7, <1>8 DEF SaveFollow, Stored

LEMMA FollowRejectedTypes ==
  ASSUME TypeOK, NEW k \in Calls, FollowRejected(k)
  PROVE  /\ TypeOK'
         /\ call'[k] = NoCall
         /\ \A l \in Calls : l # k => call'[l] = call[l]
         /\ UNCHANGED <<known, followed, check, sent, latest, counters>>
  BY DEF TypeOK, FollowRejected, counters

LEMMA DeleteTypes ==
  ASSUME TypeOK, NEW rows, Delete(rows)
  PROVE  /\ TypeOK'
         /\ \A i \in Follow : followed'[i] = followed[i] \/ ~Stored(i)'
         /\ UNCHANGED <<known, call, check, sent, latest, counters>>
<1>1. followed' \in [Follow -> Row \cup {NoRow}]
  BY DEF TypeOK, Delete
<1>2. \A i \in Follow : followed'[i] = followed[i] \/ followed'[i] = NoRow
  BY DEF Delete
<1> QED
  BY <1>1, <1>2 DEF TypeOK, Delete, counters, Stored

LEMMA TripEndsTypes ==
  ASSUME TypeOK, NEW i \in Follow, TripEnds(i)
  PROVE  /\ TypeOK'
         /\ \A j \in Follow :
              /\ Stored(j)' <=> Stored(j)
              /\ Stored(j) => /\ followed'[j].user = followed[j].user
                              /\ followed'[j].follow = followed[j].follow
                              /\ followed'[j].last = followed[j].last
         /\ UNCHANGED <<known, call, check, sent, latest, counters>>
<1> DEFINE row == [followed[i] EXCEPT !.active = FALSE]
<1>1. followed[i] \in Row
  BY RowType DEF TripEnds
<1>2. /\ row \in Row
      /\ row.user = followed[i].user /\ row.follow = followed[i].follow
      /\ row.last = followed[i].last
  BY <1>1 DEF Row
<1>3. followed' = [followed EXCEPT ![i] = row]
  BY DEF TripEnds
<1>4. /\ followed' \in [Follow -> Row \cup {NoRow}]
      /\ followed'[i] = row
      /\ \A j \in Follow : j # i => followed'[j] = followed[j]
  BY <1>2, <1>3 DEF TypeOK
<1>5. row # NoRow
  BY <1>2, NoRowIsNoRow
<1>6. TypeOK'
  BY <1>4 DEF TypeOK, TripEnds, counters
<1>7. \A j \in Follow :
              /\ Stored(j)' <=> Stored(j)
              /\ Stored(j) => /\ followed'[j].user = followed[j].user
                              /\ followed'[j].follow = followed[j].follow
                              /\ followed'[j].last = followed[j].last
  <2> SUFFICES ASSUME NEW j \in Follow
               PROVE  /\ Stored(j)' <=> Stored(j)
                      /\ Stored(j) => /\ followed'[j].user = followed[j].user
                                      /\ followed'[j].follow = followed[j].follow
                                      /\ followed'[j].last = followed[j].last
    OBVIOUS
  <2>1. CASE j = i
    BY <1>2, <1>4, <1>5, <2>1 DEF Stored, TripEnds
  <2>2. CASE j # i
    BY <1>4, <2>2 DEF Stored
  <2> QED
    BY <2>1, <2>2
<1> QED
  BY <1>6, <1>7 DEF TripEnds

\* A cycle takes up the rows it lists, as they are.
LEMMA ListActiveTypes ==
  ASSUME TypeOK, NEW c \in Cycles, ListActive(c)
  PROVE  /\ TypeOK'
         /\ \A i \in Follow : ~Checking(c, i)
         /\ \A d \in Cycles, i \in Follow : d # c => check'[d][i] = check[d][i]
         /\ \A i \in Follow :
              \/ check'[c][i] = Idle
              \/ /\ Stored(i) /\ check'[c][i].pc = "listed" /\ check'[c][i].row = followed[i]
                 /\ Checking(c, i)'
         /\ UNCHANGED <<known, followed, call, sent, latest, counters>>
<1> DEFINE new(i) == IF Active(i) THEN [pc |-> "listed", row |-> followed[i], sig |-> None]
                     ELSE Idle
<1>1. \A i \in Follow : new(i) \in Check \cup {Idle}
  BY RowType DEF Active, Check, Signature
<1>2. check' = [check EXCEPT ![c] = [i \in Follow |-> new(i)]]
  BY DEF ListActive
<1>3. /\ check' \in [Cycles -> [Follow -> Check \cup {Idle}]]
      /\ \A i \in Follow : check'[c][i] = new(i)
      /\ \A d \in Cycles : d # c => check'[d] = check[d]
  <2> HIDE DEF new
  <2> QED
    BY <1>1, <1>2 DEF TypeOK
<1>4. TypeOK'
  BY <1>3 DEF TypeOK, ListActive, counters
<1>5. ASSUME NEW i \in Follow
      PROVE  \/ check'[c][i] = Idle
             \/ /\ Stored(i) /\ check'[c][i].pc = "listed" /\ check'[c][i].row = followed[i]
                /\ Checking(c, i)'
  <2>1. check'[c][i] = new(i)
    BY <1>3
  <2>2. CASE Active(i)
    BY <2>1, <2>2 DEF Active, Checking, Idle
  <2> QED
    BY <2>1, <2>2
<1> QED
  BY <1>3, <1>4, <1>5 DEF ListActive, Checking

\* The rows listed are dropped, or searched for a disruption other than the last notified.
LEMMA CheckListedTypes ==
  ASSUME TypeOK, NEW c \in Cycles, CheckListed(c)
  PROVE  /\ TypeOK'
         /\ \A d \in Cycles, i \in Follow : d # c => check'[d][i] = check[d][i]
         /\ \A i \in Follow :
              \/ check'[c][i] = Idle
              \/ /\ check[c][i].pc = "listed" /\ check'[c][i].pc = "search"
                 /\ Checking(c, i) /\ Checking(c, i)'
                 /\ check'[c][i].row = check[c][i].row
                 /\ check'[c][i].sig \notin {None, check[c][i].row.last}
         /\ UNCHANGED <<known, followed, call, sent, latest, counters>>
<1> DEFINE found(i) == [check[c][i] EXCEPT !.pc = "search",
                                  !.sig = FirstDisruption(check[c][i].row.trip)]
           told(i) == check[c][i].pc = "listed" /\ WorthTelling(check[c][i].row)
           new(i) == IF told(i) THEN found(i) ELSE Idle
<1>1. ASSUME NEW i \in Follow, told(i)
      PROVE  /\ check[c][i].pc = "listed"
             /\ found(i) \in Check /\ found(i).pc = "search" /\ found(i) # Idle
             /\ found(i).row = check[c][i].row
             /\ found(i).sig \notin {None, check[c][i].row.last}
  <2>1. check[c][i] \in Check /\ check[c][i].row \in Row /\ Checking(c, i)
    BY <1>1, CheckType
  <2>2. FirstDisruption(check[c][i].row.trip) \in Signature
    BY <2>1, FirstIsASignature DEF Row, TypeOK
  <2>3. /\ found(i) \in Check /\ found(i).pc = "search" /\ found(i).row = check[c][i].row
        /\ found(i).sig = FirstDisruption(check[c][i].row.trip)
    BY <2>1, <2>2 DEF Check
  <2>4. found(i) # Idle
    BY <2>3 DEF Idle
  <2> QED
    BY <1>1, <2>3, <2>4 DEF WorthTelling
<1>2. check' = [check EXCEPT ![c] = [i \in Follow |-> new(i)]]
  BY DEF CheckListed
<1>3. \A i \in Follow : new(i) \in Check \cup {Idle}
  BY <1>1
<1>4. /\ check' \in [Cycles -> [Follow -> Check \cup {Idle}]]
      /\ \A i \in Follow : check'[c][i] = new(i)
      /\ \A d \in Cycles : d # c => check'[d] = check[d]
  <2> HIDE DEF new
  <2> QED
    BY <1>2, <1>3 DEF TypeOK
<1>5. TypeOK'
  BY <1>4 DEF TypeOK, CheckListed, counters
<1>6. ASSUME NEW i \in Follow
      PROVE  \/ check'[c][i] = Idle
             \/ /\ check[c][i].pc = "listed" /\ check'[c][i].pc = "search"
                /\ Checking(c, i) /\ Checking(c, i)'
                /\ check'[c][i].row = check[c][i].row
                /\ check'[c][i].sig \notin {None, check[c][i].row.last}
  <2>1. CASE told(i)
    <3>1. check'[c][i] = found(i)
      BY <1>4, <2>1
    <3>2. Checking(c, i)
      BY <1>1, <2>1, CheckType
    <3> QED
      BY <1>1, <2>1, <3>1, <3>2 DEF Checking
  <2>2. CASE ~told(i)
    BY <1>4, <2>2
  <2> QED
    BY <2>1, <2>2
<1> QED
  BY <1>4, <1>5, <1>6 DEF CheckListed

LEMMA NotifyUserTypes ==
  ASSUME TypeOK, NEW c \in Cycles, NEW i \in Follow, NotifyUser(c, i),
         check[c][i].sig # None
  PROVE  /\ TypeOK'
         /\ check[c][i].pc = "search" /\ check'[c][i].pc = "record"
         /\ Checking(c, i) /\ Checking(c, i)'
         /\ check'[c][i].row = check[c][i].row /\ check'[c][i].sig = check[c][i].sig
         /\ \A d \in Cycles, j \in Follow : d # c \/ j # i => check'[d][j] = check[d][j]
         /\ latest'[check[c][i].row.follow] = check[c][i].sig
         /\ \A f \in Follow : f # check[c][i].row.follow => latest'[f] = latest[f]
         /\ sent \subseteq sent'
         /\ \E m \in sent' : m.user = check[c][i].row.user /\ m.sig = check[c][i].sig
         /\ UNCHANGED <<known, followed, call, counters>>
<1> DEFINE k == check[c][i]
           new == [k EXCEPT !.pc = "record"]
           mail == [user |-> k.row.user, follow |-> k.row.follow, sig |-> k.sig]
<1>1. /\ k \in Check /\ k.row \in Row /\ k.sig \in Signature /\ k.pc = "search"
      /\ k.row.user \in Users /\ k.row.follow \in Follow
      /\ Checking(c, i)
  BY CheckType DEF NotifyUser
<1>2. new \in Check /\ new.pc = "record" /\ new.row = k.row /\ new.sig = k.sig /\ new # Idle
  BY <1>1 DEF Check, Idle
<1>3. check' = [check EXCEPT ![c][i] = new]
  BY DEF NotifyUser, TypeOK
<1>4. /\ check' \in [Cycles -> [Follow -> Check \cup {Idle}]]
      /\ check'[c][i] = new
      /\ \A d \in Cycles, j \in Follow : d # c \/ j # i => check'[d][j] = check[d][j]
  <2> HIDE DEF new
  <2> QED
    BY <1>2, <1>3, OneCheck DEF TypeOK
<1>5. /\ latest' \in [Follow -> Signature]
      /\ latest'[k.row.follow] = k.sig
      /\ \A f \in Follow : f # k.row.follow => latest'[f] = latest[f]
  BY <1>1 DEF NotifyUser, TypeOK
<1>6. sent' = sent \cup {mail}
  BY DEF NotifyUser
<1>7. mail \in [user : Users, follow : Follow, sig : Disruptions]
  BY <1>1 DEF Signature
<1>8. TypeOK'
  <2> HIDE DEF mail
  <2> QED
    BY <1>4, <1>5, <1>6, <1>7 DEF TypeOK, NotifyUser, counters
<1>9. mail.user = k.row.user /\ mail.sig = k.sig /\ mail \in sent'
  BY <1>6
<1> QED
  BY <1>1, <1>2, <1>4, <1>5, <1>6, <1>8, <1>9 DEF NotifyUser, Checking

\* The signature goes to whatever row is now under that key, and to nothing else.
LEMMA RecordTypes ==
  ASSUME TypeOK, NEW c \in Cycles, NEW i \in Follow, Record(c, i)
  PROVE  /\ TypeOK'
         /\ check[c][i].pc = "record" /\ Checking(c, i)
         /\ check'[c][i] = Idle
         /\ \A d \in Cycles, j \in Follow : d # c \/ j # i => check'[d][j] = check[d][j]
         /\ \A j \in Follow : j # i => followed'[j] = followed[j]
         /\ Stored(i)' <=> Stored(i)
         /\ Stored(i) => /\ followed'[i].user = followed[i].user
                         /\ followed'[i].follow = followed[i].follow
                         /\ followed'[i].last = check[c][i].sig
         /\ UNCHANGED <<known, call, sent, latest, counters>>
<1> DEFINE new == IF Stored(i) THEN [followed[i] EXCEPT !.last = check[c][i].sig] ELSE NoRow
<1>1. check[c][i].pc = "record" /\ Checking(c, i) /\ check[c][i].sig \in Signature
  BY CheckType DEF Record
<1>2. ASSUME Stored(i)
      PROVE  /\ new \in Row /\ new # NoRow
             /\ new.user = followed[i].user /\ new.follow = followed[i].follow
             /\ new.last = check[c][i].sig
  BY <1>1, <1>2, RowType, NoRowIsNoRow DEF Row
<1>3. new \in Row \cup {NoRow}
  BY <1>2
<1>4. followed' = [followed EXCEPT ![i] = new] /\ check' = [check EXCEPT ![c][i] = Idle]
  BY DEF Record
<1>5. /\ check' \in [Cycles -> [Follow -> Check \cup {Idle}]]
      /\ check'[c][i] = Idle
      /\ \A d \in Cycles, j \in Follow : d # c \/ j # i => check'[d][j] = check[d][j]
  BY <1>4, OneCheck DEF TypeOK
<1>6. /\ followed' \in [Follow -> Row \cup {NoRow}]
      /\ followed'[i] = new
      /\ \A j \in Follow : j # i => followed'[j] = followed[j]
  <2> HIDE DEF new
  <2> QED
    BY <1>3, <1>4 DEF TypeOK
<1>7. TypeOK'
  BY <1>5, <1>6 DEF TypeOK, Record, counters
<1>8. Stored(i)' <=> Stored(i)
  BY <1>2, <1>6 DEF Stored
<1> QED
  BY <1>1, <1>2, <1>5, <1>6, <1>7, <1>8 DEF Record

\* The steps that only give up checks or requests.
Drops ==
  /\ \A c \in Cycles, i \in Follow : check'[c][i] \in {check[c][i], Idle}
  /\ \A k \in Calls : call'[k] \in {call[k], NoCall}
  /\ UNCHANGED <<followed, sent, latest, follows>>

LEMMA CheckFailsTypes ==
  ASSUME TypeOK, NEW c \in Cycles, NEW i \in Follow, CheckFails(c, i) \/ RecordFails(c, i)
  PROVE  TypeOK' /\ Drops
<1>1. check' = [check EXCEPT ![c][i] = Idle]
  BY DEF CheckFails, RecordFails
<1>2. /\ check' \in [Cycles -> [Follow -> Check \cup {Idle}]]
      /\ check'[c][i] = Idle
      /\ \A d \in Cycles, j \in Follow : d # c \/ j # i => check'[d][j] = check[d][j]
  BY <1>1, OneCheck DEF TypeOK
<1>3. failures' \in 0 .. MaxFailures /\ lost' \in 0 .. MaxLost
  BY DEF TypeOK, CheckFails, RecordFails, Losing
<1> QED
  BY <1>2, <1>3 DEF TypeOK, CheckFails, RecordFails, Losing, Drops

LEMMA RestartTypes ==
  ASSUME TypeOK, Restart
  PROVE  TypeOK' /\ Drops
<1>1. lost' \in 0 .. MaxLost
  BY DEF TypeOK, Restart, Losing
<1> QED
  BY <1>1 DEF TypeOK, Restart, Losing, Drops

LEMMA CacheChangeTypes ==
  ASSUME TypeOK, CacheChange
  PROVE  TypeOK' /\ Drops
  BY DEF TypeOK, CacheChange, Drops

-----------------------------------------------------------------------------
(* Who may use a key, and which follow it may describe.                      *)

Claims == ClaimsNumbered /\ KeysHaveOneOwner /\ FollowsHaveOneKey

\* A step that makes no claim disturbs none.
LEMMA NoNewClaim ==
  ASSUME TypeOK, Claims, follows' = follows,
         \A i, f \in Follow, u \in Users : Claim(i, u, f)' => Claim(i, u, f)
  PROVE  Claims'
  BY DEF Claims, ClaimsNumbered, KeysHaveOneOwner, FollowsHaveOneKey

LEMMA BeginFollowClaims ==
  ASSUME TypeOK, Claims, NEW k \in Calls, NEW u \in Users, NEW t \in Trips, BeginFollow(k, u, t)
  PROVE  Claims'
<1> DEFINE n == follows'
           key == IF call'[k].id = None THEN n ELSE call'[k].id
<1>1. /\ n = follows + 1 /\ n \in Follow /\ follows \in Nat
      /\ call[k] = NoCall /\ call'[k].user = u /\ call'[k].follow = n
      /\ \/ call'[k].id = None
         \/ call'[k].id \in Follow /\ Stored(call'[k].id) /\ followed[call'[k].id].user = u
      /\ \A l \in Calls : l # k => call'[l] = call[l]
      /\ UNCHANGED <<followed, check>>
  BY BeginFollowTypes DEF RowOf, TypeOK
<1>2. ASSUME NEW i \in Follow, NEW f \in Follow, NEW v \in Users, Claim(i, v, f)'
      PROVE  Claim(i, v, f) \/ (i = key /\ v = u /\ f = n)
  <2>1. CASE (Stored(i) /\ followed[i].user = v /\ followed[i].follow = f)'
    BY <1>1, <2>1 DEF Claim, Stored
  <2>2. CASE (\E c \in Cycles : Checking(c, i) /\ check[c][i].row.user = v /\ check[c][i].row.follow = f)'
    BY <1>1, <2>2 DEF Claim, Checking
  <2>3. CASE (\E l \in Calls : Busy(l) /\ Key(l) = i /\ call[l].user = v /\ call[l].follow = f)'
    <3>1. PICK l \in Calls : (Busy(l) /\ Key(l) = i /\ call[l].user = v /\ call[l].follow = f)'
      BY <2>3
    <3>2. CASE l = k
      BY <1>1, <3>1, <3>2 DEF Key
    <3>3. CASE l # k
      BY <1>1, <3>1, <3>3 DEF Claim, Busy, Key
    <3> QED
      BY <3>2, <3>3
  <2> QED
    BY <1>2, <2>1, <2>2, <2>3 DEF Claim
<1>3. ASSUME NEW i \in Follow, NEW f \in Follow, NEW v \in Users, Claim(i, v, f)
      PROVE  i <= follows /\ f <= follows /\ i # n /\ f # n
  BY <1>1, <1>3 DEF Claims, ClaimsNumbered, Follow
\* The key was free, or is that of a row of the same user.
<1>4. key \in Follow /\ key <= n /\ \A f \in Follow, v \in Users : Claim(key, v, f) => v = u
  <2>1. CASE call'[k].id = None
    BY <1>1, <1>3, <2>1 DEF Follow
  <2>2. CASE call'[k].id # None
    <3>1. key \in Follow /\ Stored(key) /\ followed[key].user = u
      BY <1>1, <2>2
    <3>2. Claim(key, u, followed[key].follow) /\ followed[key].follow \in Follow
      BY <3>1, RowType DEF Claim
    <3>3. key <= n
      BY <1>1, <1>3, <3>1, <3>2 DEF Follow
    <3> QED
      BY <3>1, <3>2, <3>3 DEF Claims, KeysHaveOneOwner
  <2> QED
    BY <2>1, <2>2
<1>5. ClaimsNumbered'
  <2> SUFFICES ASSUME NEW i \in Follow, NEW f \in Follow, NEW v \in Users, Claim(i, v, f)'
               PROVE  i <= n /\ f <= n
    BY DEF ClaimsNumbered
  <2> QED
    BY <1>1, <1>2, <1>3, <1>4 DEF Follow
<1>6. KeysHaveOneOwner'
  <2> SUFFICES ASSUME NEW i \in Follow, NEW f \in Follow, NEW g \in Follow, NEW v \in Users,
                      NEW w \in Users, Claim(i, v, f)', Claim(i, w, g)'
               PROVE  v = w
    BY DEF KeysHaveOneOwner
  <2> QED
    BY <1>2, <1>4 DEF Claims, KeysHaveOneOwner
<1>7. FollowsHaveOneKey'
  <2> SUFFICES ASSUME NEW i \in Follow, NEW j \in Follow, NEW f \in Follow, NEW v \in Users,
                      NEW w \in Users, Claim(i, v, f)', Claim(j, w, f)'
               PROVE  i = j
    BY DEF FollowsHaveOneKey
  <2> QED
    BY <1>2, <1>3 DEF Claims, FollowsHaveOneKey
<1> QED
  BY <1>5, <1>6, <1>7 DEF Claims

\* Every other step only hands claims on: from a request to a row, from a row to a check.
LEMMA OtherClaims ==
  ASSUME TypeOK, Claims,
         \/ \E k \in Calls : SaveFollow(k) \/ FollowRejected(k)
         \/ \E rows : Delete(rows)
         \/ \E i \in Follow : TripEnds(i)
         \/ \E c \in Cycles : ListActive(c) \/ CheckListed(c)
         \/ \E c \in Cycles, i \in Follow :
              (NotifyUser(c, i) /\ check[c][i].sig # None) \/ Record(c, i)
         \/ Drops
  PROVE  Claims'
<1>1. ASSUME NEW k \in Calls, SaveFollow(k) PROVE Claims'
  <2>1. ASSUME NEW i \in Follow, NEW f \in Follow, NEW u \in Users, Claim(i, u, f)'
        PROVE  Claim(i, u, f)
    <3>1. CASE (Stored(i) /\ followed[i].user = u /\ followed[i].follow = f)'
      BY <1>1, <3>1, SaveFollowTypes DEF Claim, Stored
    <3>2. CASE (\E c \in Cycles : Checking(c, i) /\ check[c][i].row.user = u /\ check[c][i].row.follow = f)'
      BY <1>1, <3>2, SaveFollowTypes DEF Claim, Checking
    <3>3. CASE (\E l \in Calls : Busy(l) /\ Key(l) = i /\ call[l].user = u /\ call[l].follow = f)'
      BY <1>1, <3>3, SaveFollowTypes DEF Claim, Busy, Key
    <3> QED
      BY <2>1, <3>1, <3>2, <3>3 DEF Claim
  <2>2. follows' = follows
    BY <1>1 DEF SaveFollow, counters
  <2> QED
    BY <2>1, <2>2, NoNewClaim
<1>2. ASSUME NEW k \in Calls, FollowRejected(k) PROVE Claims'
  <2>1. ASSUME NEW i \in Follow, NEW f \in Follow, NEW u \in Users, Claim(i, u, f)'
        PROVE  Claim(i, u, f)
    <3>1. CASE (\E l \in Calls : Busy(l) /\ Key(l) = i /\ call[l].user = u /\ call[l].follow = f)'
      BY <1>2, <3>1, FollowRejectedTypes DEF Claim, Busy, Key
    <3> QED
      BY <1>2, <2>1, <3>1, FollowRejectedTypes DEF Claim, Stored, Checking
  <2>2. follows' = follows
    BY <1>2 DEF FollowRejected, counters
  <2> QED
    BY <2>1, <2>2, NoNewClaim
<1>3. ASSUME NEW rows, Delete(rows) PROVE Claims'
  <2>1. ASSUME NEW i \in Follow, NEW f \in Follow, NEW u \in Users, Claim(i, u, f)'
        PROVE  Claim(i, u, f)
    BY <1>3, <2>1, DeleteTypes DEF Claim, Stored, Checking, Busy, Key
  <2>2. follows' = follows
    BY <1>3 DEF Delete, counters
  <2> QED
    BY <2>1, <2>2, NoNewClaim
<1>4. ASSUME NEW j \in Follow, TripEnds(j) PROVE Claims'
  <2>1. ASSUME NEW i \in Follow, NEW f \in Follow, NEW u \in Users, Claim(i, u, f)'
        PROVE  Claim(i, u, f)
    BY <1>4, <2>1, TripEndsTypes DEF Claim, Checking, Busy, Key
  <2>2. follows' = follows
    BY <1>4 DEF TripEnds, counters
  <2> QED
    BY <2>1, <2>2, NoNewClaim
<1>5. ASSUME NEW c \in Cycles, ListActive(c) PROVE Claims'
  <2>1. ASSUME NEW i \in Follow, NEW f \in Follow, NEW u \in Users, Claim(i, u, f)'
        PROVE  Claim(i, u, f)
    <3>1. CASE (\E d \in Cycles : Checking(d, i) /\ check[d][i].row.user = u /\ check[d][i].row.follow = f)'
      <4>1. PICK d \in Cycles : (Checking(d, i) /\ check[d][i].row.user = u /\ check[d][i].row.follow = f)'
        BY <3>1
      <4>2. CASE d = c
        BY <1>5, <4>1, <4>2, ListActiveTypes DEF Claim, Checking
      <4>3. CASE d # c
        BY <1>5, <4>1, <4>3, ListActiveTypes DEF Claim, Checking
      <4> QED
        BY <4>2, <4>3
    <3> QED
      BY <1>5, <2>1, <3>1, ListActiveTypes DEF Claim, Stored, Busy, Key
  <2>2. follows' = follows
    BY <1>5 DEF ListActive, counters
  <2> QED
    BY <2>1, <2>2, NoNewClaim
<1>6. ASSUME NEW c \in Cycles, CheckListed(c) PROVE Claims'
  <2>1. ASSUME NEW i \in Follow, NEW f \in Follow, NEW u \in Users, Claim(i, u, f)'
        PROVE  Claim(i, u, f)
    <3>1. CASE (\E d \in Cycles : Checking(d, i) /\ check[d][i].row.user = u /\ check[d][i].row.follow = f)'
      <4>1. PICK d \in Cycles : (Checking(d, i) /\ check[d][i].row.user = u /\ check[d][i].row.follow = f)'
        BY <3>1
      <4>2. CASE d = c
        BY <1>6, <4>1, <4>2, CheckListedTypes DEF Claim, Checking
      <4>3. CASE d # c
        BY <1>6, <4>1, <4>3, CheckListedTypes DEF Claim, Checking
      <4> QED
        BY <4>2, <4>3
    <3> QED
      BY <1>6, <2>1, <3>1, CheckListedTypes DEF Claim, Stored, Busy, Key
  <2>2. follows' = follows
    BY <1>6 DEF CheckListed, counters
  <2> QED
    BY <2>1, <2>2, NoNewClaim
<1>7. ASSUME NEW c \in Cycles, NEW j \in Follow, NotifyUser(c, j), check[c][j].sig # None
      PROVE  Claims'
  <2>1. ASSUME NEW i \in Follow, NEW f \in Follow, NEW u \in Users, Claim(i, u, f)'
        PROVE  Claim(i, u, f)
    <3>1. CASE (\E d \in Cycles : Checking(d, i) /\ check[d][i].row.user = u /\ check[d][i].row.follow = f)'
      BY <1>7, <3>1, NotifyUserTypes DEF Claim, Checking
    <3> QED
      BY <1>7, <2>1, <3>1, NotifyUserTypes DEF Claim, Stored, Busy, Key
  <2>2. follows' = follows
    BY <1>7 DEF NotifyUser, counters
  <2> QED
    BY <2>1, <2>2, NoNewClaim
<1>8. ASSUME NEW c \in Cycles, NEW j \in Follow, Record(c, j) PROVE Claims'
  <2>1. ASSUME NEW i \in Follow, NEW f \in Follow, NEW u \in Users, Claim(i, u, f)'
        PROVE  Claim(i, u, f)
    <3>1. CASE (\E d \in Cycles : Checking(d, i) /\ check[d][i].row.user = u /\ check[d][i].row.follow = f)'
      BY <1>8, <3>1, RecordTypes DEF Claim, Checking
    <3>2. CASE (Stored(i) /\ followed[i].user = u /\ followed[i].follow = f)'
      BY <1>8, <3>2, RecordTypes DEF Claim, Stored
    <3> QED
      BY <1>8, <2>1, <3>1, <3>2, RecordTypes DEF Claim, Busy, Key
  <2>2. follows' = follows
    BY <1>8 DEF Record, counters
  <2> QED
    BY <2>1, <2>2, NoNewClaim
<1>9. CASE Drops
  <2>1. ASSUME NEW i \in Follow, NEW f \in Follow, NEW u \in Users, Claim(i, u, f)'
        PROVE  Claim(i, u, f)
    <3>1. CASE (\E d \in Cycles : Checking(d, i) /\ check[d][i].row.user = u /\ check[d][i].row.follow = f)'
      BY <1>9, <3>1 DEF Claim, Checking, Drops
    <3>2. CASE (\E l \in Calls : Busy(l) /\ Key(l) = i /\ call[l].user = u /\ call[l].follow = f)'
      BY <1>9, <3>2 DEF Claim, Busy, Key, Drops
    <3> QED
      BY <1>9, <2>1, <3>1, <3>2 DEF Claim, Stored, Drops
  <2> QED
    BY <1>9, <2>1, NoNewClaim DEF Drops
<1> QED
  BY <1>1, <1>2, <1>3, <1>4, <1>5, <1>6, <1>7, <1>8, <1>9

-----------------------------------------------------------------------------
(* The inductive invariant.                                                  *)

LEMMA InitIInv == Init => IInv
<1> SUFFICES ASSUME Init PROVE IInv
  OBVIOUS
<1>1. TypeOK
  BY InitTypes
<1>2. \A i, f \in Follow, u \in Users : ~Claim(i, u, f)
  BY DEF Init, Claim, Stored, Checking, Busy
<1>3. OneFollowPerUser /\ RecordedWasSent /\ PendingWasSent
  BY DEF Init, OneFollowPerUser, RowOf, RecordedWasSent, PendingWasSent, Stored, Idle
<1> QED
  BY <1>1, <1>2, <1>3 DEF IInv, ClaimsNumbered, KeysHaveOneOwner, FollowsHaveOneKey

\* What is left to show of a step, once its types and its claims are settled.
Facts == OneFollowPerUser /\ RecordedWasSent /\ PendingWasSent

LEMMA NextTypes ==
  ASSUME IInv, [Next]_vars
  PROVE  TypeOK'
<1> USE DEF IInv
<1>1. ASSUME NEW k \in Calls, NEW u \in Users, NEW t \in Trips, BeginFollow(k, u, t) PROVE TypeOK'
  BY <1>1, BeginFollowTypes
<1>2. ASSUME NEW k \in Calls, SaveFollow(k) \/ FollowRejected(k) PROVE TypeOK'
  BY <1>2, SaveFollowTypes, FollowRejectedTypes
<1>3. ASSUME NEW rows, Delete(rows) PROVE TypeOK'
  BY <1>3, DeleteTypes
<1>4. ASSUME NEW i \in Follow, TripEnds(i) PROVE TypeOK'
  BY <1>4, TripEndsTypes
<1>5. ASSUME NEW c \in Cycles, ListActive(c) \/ CheckListed(c) PROVE TypeOK'
  BY <1>5, ListActiveTypes, CheckListedTypes
<1>6. ASSUME NEW c \in Cycles, NEW i \in Follow, NotifyUser(c, i) PROVE TypeOK'
  <2>1. check[c][i].sig # None
    BY <1>6 DEF PendingWasSent, NotifyUser
  <2> QED
    BY <1>6, <2>1, NotifyUserTypes
<1>7. ASSUME NEW c \in Cycles, NEW i \in Follow, Record(c, i) PROVE TypeOK'
  BY <1>7, RecordTypes
<1>8. ASSUME NEW c \in Cycles, NEW i \in Follow, CheckFails(c, i) \/ RecordFails(c, i) PROVE TypeOK'
  BY <1>8, CheckFailsTypes
<1>9. CASE Restart \/ CacheChange
  BY <1>9, RestartTypes, CacheChangeTypes
<1>10. CASE UNCHANGED vars
  BY <1>10 DEF TypeOK, vars, counters
<1> QED
  BY <1>1, <1>2, <1>3, <1>4, <1>5, <1>6, <1>7, <1>8, <1>9, <1>10 DEF Next, StopFollowing, PurgeExpired

LEMMA NextClaims ==
  ASSUME IInv, [Next]_vars
  PROVE  Claims'
<1>0. TypeOK /\ Claims
  BY DEF IInv, Claims
<1>1. ASSUME NEW k \in Calls, NEW u \in Users, NEW t \in Trips, BeginFollow(k, u, t) PROVE Claims'
  BY <1>0, <1>1, BeginFollowClaims
<1>2. ASSUME NEW k \in Calls, SaveFollow(k) \/ FollowRejected(k) PROVE Claims'
  BY <1>0, <1>2, OtherClaims
<1>3. ASSUME NEW rows, Delete(rows) PROVE Claims'
  BY <1>0, <1>3, OtherClaims
<1>4. ASSUME NEW i \in Follow, TripEnds(i) PROVE Claims'
  BY <1>0, <1>4, OtherClaims
<1>5. ASSUME NEW c \in Cycles, ListActive(c) \/ CheckListed(c) PROVE Claims'
  BY <1>0, <1>5, OtherClaims
<1>6. ASSUME NEW c \in Cycles, NEW i \in Follow, NotifyUser(c, i) PROVE Claims'
  <2>1. check[c][i].sig # None
    BY <1>6 DEF IInv, PendingWasSent, NotifyUser
  <2> QED
    BY <1>0, <1>6, <2>1, OtherClaims
<1>7. ASSUME NEW c \in Cycles, NEW i \in Follow, Record(c, i) PROVE Claims'
  BY <1>0, <1>7, OtherClaims
<1>8. ASSUME NEW c \in Cycles, NEW i \in Follow, CheckFails(c, i) \/ RecordFails(c, i) PROVE Claims'
  BY <1>0, <1>8, CheckFailsTypes, OtherClaims
<1>9. CASE Restart \/ CacheChange
  BY <1>0, <1>9, RestartTypes, CacheChangeTypes, OtherClaims
<1>10. CASE UNCHANGED vars
  <2>1. Drops
    BY <1>10 DEF Drops, vars, counters
  <2> QED
    BY <1>0, <2>1, OtherClaims
<1> QED
  BY <1>1, <1>2, <1>3, <1>4, <1>5, <1>6, <1>7, <1>8, <1>9, <1>10 DEF Next, StopFollowing, PurgeExpired

LEMMA NextFacts ==
  ASSUME IInv, [Next]_vars
  PROVE  Facts'
<1> USE DEF IInv
<1>1. ASSUME NEW k \in Calls, NEW u \in Users, NEW t \in Trips, BeginFollow(k, u, t) PROVE Facts'
  BY <1>1, BeginFollowTypes
  DEF Facts, OneFollowPerUser, RowOf, RecordedWasSent, PendingWasSent, Stored, Told
<1>2. ASSUME NEW k \in Calls, SaveFollow(k) PROVE Facts'
  <2>1. OneFollowPerUser'
    <3> SUFFICES ASSUME NEW u \in Users, NEW i \in RowOf(u)', NEW j \in RowOf(u)' PROVE i = j
      BY DEF OneFollowPerUser
    <3>1. ASSUME NEW l \in RowOf(u)', l # Key(k) PROVE l \in RowOf(u)
      BY <1>2, <3>1, SaveFollowTypes DEF RowOf, Stored
    <3>2. Key(k) \in RowOf(u)' => RowOf(u) \ {Key(k)} = {}
      BY <1>2, SaveFollowTypes DEF RowOf, Conflict
    <3> QED
      BY <3>1, <3>2 DEF OneFollowPerUser
  <2>2. RecordedWasSent'
    <3> SUFFICES ASSUME NEW i \in Follow, Stored(i)', followed'[i].last # None
                 PROVE  Told(followed[i].user, followed[i].last)'
      BY DEF RecordedWasSent
    <3>1. i # Key(k)
      BY <1>2, SaveFollowTypes
    <3> QED
      BY <1>2, <3>1, SaveFollowTypes DEF RecordedWasSent, Stored, Told
  <2>3. PendingWasSent'
    BY <1>2, SaveFollowTypes DEF PendingWasSent, Told
  <2> QED
    BY <2>1, <2>2, <2>3 DEF Facts
<1>3. ASSUME NEW k \in Calls, FollowRejected(k) PROVE Facts'
  BY <1>3, FollowRejectedTypes
  DEF Facts, OneFollowPerUser, RowOf, RecordedWasSent, PendingWasSent, Stored, Told
<1>4. ASSUME NEW rows, Delete(rows) PROVE Facts'
  BY <1>4, DeleteTypes
  DEF Facts, OneFollowPerUser, RowOf, RecordedWasSent, PendingWasSent, Stored, Told
<1>5. ASSUME NEW i \in Follow, TripEnds(i) PROVE Facts'
  <2>1. OneFollowPerUser'
    BY <1>5, TripEndsTypes DEF OneFollowPerUser, RowOf
  <2>2. RecordedWasSent'
    BY <1>5, TripEndsTypes DEF RecordedWasSent, Told
  <2>3. PendingWasSent'
    BY <1>5, TripEndsTypes DEF PendingWasSent, Told
  <2> QED
    BY <2>1, <2>2, <2>3 DEF Facts
<1>6. ASSUME NEW c \in Cycles, ListActive(c) PROVE Facts'
  <2>1. OneFollowPerUser' /\ RecordedWasSent'
    BY <1>6, ListActiveTypes DEF OneFollowPerUser, RowOf, RecordedWasSent, Stored, Told
  <2>2. ASSUME NEW d \in Cycles, NEW i \in Follow
        PROVE  /\ check'[d][i].pc = "search" => check'[d][i].sig # None
               /\ check'[d][i].pc = "record" => Told(check[d][i].row.user, check[d][i].sig)'
    BY <1>6, ListActiveTypes DEF PendingWasSent, Told, Idle
  <2> QED
    BY <2>1, <2>2 DEF Facts, PendingWasSent
<1>7. ASSUME NEW c \in Cycles, CheckListed(c) PROVE Facts'
  <2>1. OneFollowPerUser' /\ RecordedWasSent'
    BY <1>7, CheckListedTypes DEF OneFollowPerUser, RowOf, RecordedWasSent, Stored, Told
  <2>2. ASSUME NEW d \in Cycles, NEW i \in Follow
        PROVE  /\ check'[d][i].pc = "search" => check'[d][i].sig # None
               /\ check'[d][i].pc = "record" => Told(check[d][i].row.user, check[d][i].sig)'
    BY <1>7, CheckListedTypes DEF PendingWasSent, Told, Idle
  <2> QED
    BY <2>1, <2>2 DEF Facts, PendingWasSent
<1>8. ASSUME NEW c \in Cycles, NEW j \in Follow, NotifyUser(c, j) PROVE Facts'
  <2>1. check[c][j].sig # None
    BY <1>8 DEF PendingWasSent, NotifyUser
  <2>2. OneFollowPerUser' /\ RecordedWasSent'
    BY <1>8, <2>1, NotifyUserTypes DEF OneFollowPerUser, RowOf, RecordedWasSent, Stored, Told
  <2>3. ASSUME NEW d \in Cycles, NEW i \in Follow
        PROVE  /\ check'[d][i].pc = "search" => check'[d][i].sig # None
               /\ check'[d][i].pc = "record" => Told(check[d][i].row.user, check[d][i].sig)'
    BY <1>8, <2>1, NotifyUserTypes DEF PendingWasSent, Told
  <2> QED
    BY <2>2, <2>3 DEF Facts, PendingWasSent
<1>9. ASSUME NEW c \in Cycles, NEW j \in Follow, Record(c, j) PROVE Facts'
  <2>1. OneFollowPerUser'
    BY <1>9, RecordTypes DEF OneFollowPerUser, RowOf, Stored
  \* The row now under the key is of the user that was told, even if it is another follow.
  <2>2. Stored(j) => Told(followed[j].user, check[c][j].sig)
    <3> SUFFICES ASSUME Stored(j) PROVE Told(followed[j].user, check[c][j].sig)
      OBVIOUS
    <3>1. Claim(j, followed[j].user, followed[j].follow)
      BY DEF Claim
    <3>2. Checking(c, j) /\ Told(check[c][j].row.user, check[c][j].sig)
      BY <1>9, RecordTypes DEF PendingWasSent
    <3>3. Claim(j, check[c][j].row.user, check[c][j].row.follow)
      BY <3>2 DEF Claim
    <3>4. followed[j].user = check[c][j].row.user
      BY <3>1, <3>2, <3>3, RowType, CheckType DEF KeysHaveOneOwner
    <3> QED
      BY <3>2, <3>4
  <2>3. RecordedWasSent'
    <3> SUFFICES ASSUME NEW i \in Follow, Stored(i)', followed'[i].last # None
                 PROVE  Told(followed[i].user, followed[i].last)'
      BY DEF RecordedWasSent
    <3>1. CASE i = j
      BY <1>9, <2>2, <3>1, RecordTypes DEF Told
    <3>2. CASE i # j
      BY <1>9, <3>2, RecordTypes DEF RecordedWasSent, Stored, Told
    <3> QED
      BY <3>1, <3>2
  <2>4. ASSUME NEW d \in Cycles, NEW i \in Follow
        PROVE  /\ check'[d][i].pc = "search" => check'[d][i].sig # None
               /\ check'[d][i].pc = "record" => Told(check[d][i].row.user, check[d][i].sig)'
    BY <1>9, RecordTypes DEF PendingWasSent, Told, Idle
  <2> QED
    BY <2>1, <2>3, <2>4 DEF Facts, PendingWasSent
<1>10. CASE Drops
  <2>1. OneFollowPerUser' /\ RecordedWasSent'
    BY <1>10 DEF Drops, OneFollowPerUser, RowOf, RecordedWasSent, Stored, Told
  <2>2. ASSUME NEW d \in Cycles, NEW i \in Follow
        PROVE  /\ check'[d][i].pc = "search" => check'[d][i].sig # None
               /\ check'[d][i].pc = "record" => Told(check[d][i].row.user, check[d][i].sig)'
    BY <1>10 DEF Drops, PendingWasSent, Told, Idle
  <2> QED
    BY <2>1, <2>2 DEF Facts, PendingWasSent
<1>11. ASSUME NEW c \in Cycles, NEW i \in Follow, CheckFails(c, i) \/ RecordFails(c, i) PROVE Drops
  BY <1>11, CheckFailsTypes
<1>12. Restart \/ CacheChange => Drops
  BY RestartTypes, CacheChangeTypes
<1>13. UNCHANGED vars => Drops
  BY DEF Drops, vars, counters
<1> QED
  BY <1>1, <1>2, <1>3, <1>4, <1>5, <1>6, <1>7, <1>8, <1>9, <1>10, <1>11, <1>12, <1>13
  DEF Next, StopFollowing, PurgeExpired

LEMMA Inductive == IInv /\ [Next]_vars => IInv'
  BY NextTypes, NextClaims, NextFacts DEF IInv, Claims, Facts

-----------------------------------------------------------------------------
(* Theorems.                                                                 *)

\* Every state of the monitor satisfies the inductive invariant.
THEOREM Invariance == Spec => []IInv
<1>1. Init => IInv
  BY InitIInv
<1>2. IInv /\ [Next]_vars => IInv'
  BY Inductive
<1> QED
  BY <1>1, <1>2, PTL DEF Spec

\* The types hold.
THEOREM Typing == Spec => []TypeOK
  BY Invariance, PTL DEF IInv

\* However requests to follow, stops and purges interleave, a user has one row.
THEOREM OneFollowEach == Spec => []OneFollowPerUser
  BY Invariance, PTL DEF IInv

\* Whatever fails, restarts or is replaced between the push and the record, the signature
\* of a row was sent to its owner.
THEOREM NothingRecordedUnsent == Spec => []RecordedWasSent
  BY Invariance, PTL DEF IInv

\* The row of a request that is saved.
LEMMA SavedAsAsked ==
  ASSUME TypeOK, NEW k \in Calls, SaveFollow(k), NEW i \in Follow, Stored(i)'
  PROVE  SameFollow(i) \/ Described(followed'[i]) = Described(call[k])
<1>1. CASE i = Key(k)
  <2>1. followed'[i] = [user |-> call[k].user, trip |-> call[k].trip, follow |-> call[k].follow,
                        active |-> TRUE, last |-> None]
    BY <1>1 DEF SaveFollow, TypeOK
  <2> QED
    BY <2>1 DEF Described
<1>2. CASE i # Key(k)
  <2>1. followed'[i] = followed[i]
    BY <1>2, SaveFollowTypes
  <2> QED
    BY <2>1 DEF SameFollow, Stored
<1> QED
  BY <1>1, <1>2

\* What else happens leaves the rows it keeps as they were, or over, or records a signature.
LEMMA KeptAsItWas ==
  ASSUME TypeOK, NEW i \in Follow, Stored(i)',
         \/ UNCHANGED followed
         \/ \E rows \in SUBSET Follow : Delete(rows)
         \/ \E j \in Follow : TripEnds(j)
         \/ \E c \in Cycles, j \in Follow : Record(c, j)
  PROVE  SameFollow(i)
<1>1. CASE followed'[i] = followed[i]
  BY <1>1 DEF SameFollow, Stored
<1>2. ASSUME NEW rows, Delete(rows) PROVE followed'[i] = followed[i]
  BY <1>2, DeleteTypes
<1>3. ASSUME NEW j \in Follow, TripEnds(j) PROVE SameFollow(i)
  <2>1. CASE i = j
    <3>1. Stored(i) /\ followed[i] \in Row /\ followed'[i] = [followed[i] EXCEPT !.active = FALSE]
      BY <1>3, <2>1, RowType DEF TripEnds, TypeOK
    <3> QED
      BY <3>1 DEF SameFollow, Described, Row
  <2>2. CASE i # j
    <3>1. followed'[i] = followed[i]
      BY <1>3, <2>2 DEF TripEnds, TypeOK
    <3> QED
      BY <1>1, <3>1
  <2> QED
    BY <2>1, <2>2
<1>4. ASSUME NEW c \in Cycles, NEW j \in Follow, Record(c, j) PROVE SameFollow(i)
  <2>1. CASE i = j
    <3>1. Stored(i)
      BY <1>4, <2>1, RecordTypes
    <3>2. followed[i] \in Row
      BY <3>1, RowType
    <3>3. followed'[i] = [followed[i] EXCEPT !.last = check[c][i].sig]
      BY <1>4, <2>1, <3>1 DEF Record, TypeOK
    <3> QED
      BY <3>1, <3>2, <3>3 DEF SameFollow, Described, Row
  <2>2. CASE i # j
    <3>1. followed'[i] = followed[i]
      BY <1>4, <2>2, RecordTypes
    <3> QED
      BY <1>1, <3>1
  <2> QED
    BY <2>1, <2>2
<1> QED
  BY <1>1, <1>2, <1>3, <1>4

\* A row that appears, is given another follow or is active again is the row of a request to
\* follow that is saved in that step, for the user and the trip of that request.
THEOREM FollowsAreNotRevived == Spec => FollowNeverReverts
<1> DEFINE Asked(i) ==
             \E k \in Calls :
               call[k] # NoCall /\ call'[k] = NoCall /\ Described(followed'[i]) = Described(call[k])
<1>1. ASSUME IInv, [Next]_vars, NEW i \in Follow, Stored(i)'
      PROVE  SameFollow(i) \/ Asked(i)
  <2>0. TypeOK
    BY <1>1 DEF IInv
  <2>1. ASSUME NEW k \in Calls, SaveFollow(k) PROVE SameFollow(i) \/ Asked(i)
    <3>1. call[k] # NoCall /\ call'[k] = NoCall
      BY <2>0, <2>1, SaveFollowTypes DEF Busy
    <3> QED
      BY <1>1, <2>0, <2>1, <3>1, SavedAsAsked
  <2>2. ASSUME \/ UNCHANGED followed
               \/ \E rows \in SUBSET Follow : Delete(rows)
               \/ \E j \in Follow : TripEnds(j)
               \/ \E c \in Cycles, j \in Follow : Record(c, j)
        PROVE  SameFollow(i)
    BY <1>1, <2>0, <2>2, KeptAsItWas
  <2>3. \A u : RowOf(u) \in SUBSET Follow
    BY DEF RowOf
  <2>4. {j \in Follow : Stored(j) /\ ~followed[j].active} \in SUBSET Follow
    OBVIOUS
  <2> HIDE DEF Asked
  <2>5. \/ \E k \in Calls : SaveFollow(k)
        \/ UNCHANGED followed
        \/ \E rows \in SUBSET Follow : Delete(rows)
        \/ \E j \in Follow : TripEnds(j)
        \/ \E c \in Cycles, j \in Follow : Record(c, j)
    BY <1>1, <2>3, <2>4, ZenonT(60)
    DEF Next, vars, StopFollowing, PurgeExpired, BeginFollow, FollowRejected, CacheChange,
        ListActive, CheckListed, NotifyUser, CheckFails, RecordFails, Restart
  <2> QED
    BY <2>1, <2>2, <2>5, Zenon
<1>2. IInv /\ [Next]_vars => [\A i \in Follow : Stored(i)' => SameFollow(i) \/ Asked(i)]_vars
  BY <1>1
<1> QED
  BY <1>2, Invariance, PTL DEF Spec, FollowNeverReverts

-----------------------------------------------------------------------------
(* Cycles that do not overlap, and records that are not lost.                *)

Paced == MaxLost = 0 /\ \A c, d \in Cycles : c = d

\* A follow being requested is new to rows, checks and notifications.
CallsAreNew ==
  \A k \in Calls : Busy(k) =>
    /\ latest[call[k].follow] = None
    /\ \A i \in Follow : Stored(i) => followed[i].follow # call[k].follow
    /\ \A c \in Cycles, i \in Follow : Checking(c, i) => check[c][i].row.follow # call[k].follow
    /\ \A l \in Calls : Busy(l) /\ l # k => call[l].follow # call[k].follow

FutureUntold == \A f \in Follow : f > follows => latest[f] = None

\* A row holds the signature last notified for its follow, unless it is being recorded.
RowsUpToDate ==
  \A i \in Follow : Stored(i) =>
    \/ latest[followed[i].follow] \in {None, followed[i].last}
    \/ \E c \in Cycles : check[c][i].pc = "record" /\ check[c][i].row.follow = followed[i].follow

\* So does what a check read; and a follow that took a row over during a check is not
\* told anything before the next.
CheckUpToDate(c, i) ==
  /\ check[c][i].pc \in {"listed", "search"} =>
       latest[check[c][i].row.follow] \in {None, check[c][i].row.last}
  /\ check[c][i].pc = "search" => check[c][i].sig \notin {None, check[c][i].row.last}
  /\ check[c][i].pc = "record" => latest[check[c][i].row.follow] = check[c][i].sig
  /\ Checking(c, i) /\ Stored(i) /\ followed[i].follow # check[c][i].row.follow =>
       latest[followed[i].follow] = None

ChecksUpToDate == \A c \in Cycles, i \in Follow : CheckUpToDate(c, i)

\* The rows of a listing are taken up together.
ListedTogether ==
  \A c \in Cycles, i, j \in Follow :
    check[c][i].pc = "listed" => check[c][j].pc \in {"listed", "idle"}

PacedInv == CallsAreNew /\ FutureUntold /\ RowsUpToDate /\ ChecksUpToDate /\ ListedTogether

LEMMA InitPaced == Init => PacedInv
  BY DEF Init, PacedInv, CallsAreNew, FutureUntold, RowsUpToDate, ChecksUpToDate,
         ListedTogether, CheckUpToDate, Busy, Stored, Checking, Idle

\* One follow is described under one key.
LEMMA OneKey ==
  ASSUME IInv, NEW i \in Follow, NEW j \in Follow, i # j
  PROVE  /\ Stored(i) /\ Stored(j) => followed[i].follow # followed[j].follow
         /\ \A c \in Cycles : Checking(c, i) /\ Stored(j) => check[c][i].row.follow # followed[j].follow
         /\ \A c \in Cycles : Checking(c, i) /\ Checking(c, j) =>
              check[c][i].row.follow # check[c][j].row.follow
<1> USE DEF IInv
<1>1. \A l \in {i, j} : Stored(l) => Claim(l, followed[l].user, followed[l].follow)
  BY DEF Claim
<1>2. \A l \in {i, j}, c \in Cycles :
        Checking(c, l) => Claim(l, check[c][l].row.user, check[c][l].row.follow)
  BY DEF Claim
<1> QED
  BY <1>1, <1>2, RowType, CheckType DEF FollowsHaveOneKey

LEMMA BeginFollowPaced ==
  ASSUME IInv, PacedInv, NEW k \in Calls, NEW u \in Users, NEW t \in Trips, BeginFollow(k, u, t)
  PROVE  PacedInv'
<1> DEFINE n == follows'
<1>1. /\ TypeOK /\ n = follows + 1 /\ n \in Follow /\ follows \in Nat
      /\ call'[k].follow = n /\ \A l \in Calls : l # k => call'[l] = call[l]
      /\ UNCHANGED <<known, followed, check, sent, latest>>
  BY BeginFollowTypes DEF IInv, TypeOK
<1>2. \A i \in Follow : Stored(i) => followed[i].follow # n
  <2> SUFFICES ASSUME NEW i \in Follow, Stored(i) PROVE followed[i].follow # n
    OBVIOUS
  <2>1. Claim(i, followed[i].user, followed[i].follow)
    BY DEF Claim
  <2> QED
    BY <1>1, <2>1, RowType DEF IInv, ClaimsNumbered, Follow
<1>3. \A c \in Cycles, i \in Follow : Checking(c, i) => check[c][i].row.follow # n
  <2> SUFFICES ASSUME NEW c \in Cycles, NEW i \in Follow, Checking(c, i)
               PROVE  check[c][i].row.follow # n
    OBVIOUS
  <2>1. Claim(i, check[c][i].row.user, check[c][i].row.follow)
    BY DEF Claim
  <2> QED
    BY <1>1, <2>1, CheckType DEF IInv, ClaimsNumbered, Follow
<1>4. \A l \in Calls : Busy(l) => call[l].follow # n
  <2> SUFFICES ASSUME NEW l \in Calls, Busy(l) PROVE call[l].follow # n
    OBVIOUS
  <2>1. Claim(Key(l), call[l].user, call[l].follow)
    BY DEF Claim
  <2> QED
    BY <1>1, <2>1, CallType DEF IInv, ClaimsNumbered, Follow
<1>5. latest[n] = None
  BY <1>1 DEF PacedInv, FutureUntold
<1>6. CallsAreNew'
  <2> SUFFICES ASSUME NEW l \in Calls, Busy(l)'
      PROVE  /\ latest[call'[l].follow] = None
             /\ \A i \in Follow : Stored(i) => followed[i].follow # call'[l].follow
             /\ \A c \in Cycles, i \in Follow : Checking(c, i) => check[c][i].row.follow # call'[l].follow
             /\ \A m \in Calls : Busy(m)' /\ m # l => call'[m].follow # call'[l].follow
    BY <1>1 DEF CallsAreNew, Stored, Checking
  <2>1. CASE l = k
    BY <1>1, <1>2, <1>3, <1>4, <1>5, <2>1 DEF Busy
  <2>2. CASE l # k
    <3>1. Busy(l)
      BY <1>1, <2>2 DEF Busy
    <3>2. \A m \in Calls : Busy(m)' /\ m # l => call'[m].follow # call'[l].follow
      BY <1>1, <1>4, <2>2, <3>1 DEF PacedInv, CallsAreNew, Busy
    <3> QED
      BY <1>1, <2>2, <3>1, <3>2 DEF PacedInv, CallsAreNew
  <2> QED
    BY <2>1, <2>2
<1>7. FutureUntold'
  BY <1>1 DEF PacedInv, FutureUntold, Follow
<1>8. RowsUpToDate' /\ ChecksUpToDate' /\ ListedTogether'
  BY <1>1 DEF PacedInv, RowsUpToDate, ChecksUpToDate, ListedTogether, CheckUpToDate, Stored, Checking
<1> QED
  BY <1>6, <1>7, <1>8 DEF PacedInv

LEMMA SaveFollowPaced ==
  ASSUME IInv, PacedInv, NEW k \in Calls, SaveFollow(k)
  PROVE  PacedInv'
<1> DEFINE key == Key(k)
           g == call[k].follow
<1>1. /\ TypeOK /\ Busy(k) /\ key \in Follow
      /\ followed'[key].follow = g
      /\ \A i \in Follow : i # key => followed'[i] = followed[i]
      /\ call'[k] = NoCall /\ \A l \in Calls : l # k => call'[l] = call[l]
      /\ UNCHANGED <<check, latest, follows>>
  BY SaveFollowTypes DEF IInv, counters
<1>2. latest[g] = None
  BY <1>1 DEF PacedInv, CallsAreNew
<1> HIDE DEF key
<1>3. CallsAreNew'
  <2> SUFFICES ASSUME NEW l \in Calls, Busy(l)'
      PROVE  /\ latest[call'[l].follow] = None
             /\ \A i \in Follow : Stored(i)' => followed'[i].follow # call'[l].follow
             /\ \A c \in Cycles, i \in Follow : Checking(c, i) => check[c][i].row.follow # call'[l].follow
             /\ \A m \in Calls : Busy(m)' /\ m # l => call'[m].follow # call'[l].follow
    BY <1>1 DEF CallsAreNew, Checking
  <2>1. l # k /\ Busy(l) /\ call'[l] = call[l]
    BY <1>1 DEF Busy
  <2>2. call[l].follow # g
    BY <1>1, <2>1 DEF PacedInv, CallsAreNew
  <2>3. ASSUME NEW i \in Follow, Stored(i)' PROVE followed'[i].follow # call[l].follow
    <3>1. CASE i = key
      BY <1>1, <2>2, <3>1
    <3>2. CASE i # key
      BY <1>1, <2>1, <2>3, <3>2 DEF PacedInv, CallsAreNew, Stored
    <3> QED
      BY <3>1, <3>2
  <2>4. \A m \in Calls : Busy(m)' /\ m # l => call'[m].follow # call'[l].follow
    BY <1>1, <2>1 DEF PacedInv, CallsAreNew, Busy
  <2> QED
    BY <1>1, <2>1, <2>3, <2>4 DEF PacedInv, CallsAreNew
<1>4. FutureUntold' /\ ListedTogether'
  BY <1>1 DEF PacedInv, FutureUntold, ListedTogether
<1>5. RowsUpToDate'
  <2> SUFFICES ASSUME NEW i \in Follow, Stored(i)'
      PROVE  \/ latest[followed'[i].follow] \in {None, followed'[i].last}
             \/ \E c \in Cycles : check[c][i].pc = "record" /\ check[c][i].row.follow = followed'[i].follow
    BY <1>1 DEF RowsUpToDate
  <2>1. CASE i = key
    BY <1>1, <1>2, <2>1
  <2>2. CASE i # key
    BY <1>1, <2>2 DEF PacedInv, RowsUpToDate, Stored
  <2> QED
    BY <2>1, <2>2
<1>6. ChecksUpToDate'
  <2> SUFFICES ASSUME NEW c \in Cycles, NEW i \in Follow PROVE CheckUpToDate(c, i)'
    BY DEF ChecksUpToDate
  <2>1. CheckUpToDate(c, i)
    BY DEF PacedInv, ChecksUpToDate
  <2>2. (Checking(c, i) /\ Stored(i) /\ followed[i].follow # check[c][i].row.follow)' =>
          latest[followed'[i].follow] = None
    <3>1. CASE i = key
      BY <1>1, <1>2, <3>1
    <3>2. CASE i # key
      BY <1>1, <2>1, <3>2 DEF CheckUpToDate, Stored, Checking
    <3> QED
      BY <3>1, <3>2
  <2> QED
    BY <1>1, <2>1, <2>2 DEF CheckUpToDate
<1> QED
  BY <1>3, <1>4, <1>5, <1>6 DEF PacedInv

\* The steps that tell nothing, save nothing, list nothing and give up no record.
Quiet ==
  /\ \A c \in Cycles, i \in Follow :
       check'[c][i] = check[c][i] \/ (check'[c][i] = Idle /\ check[c][i].pc # "record")
  /\ \A k \in Calls : call'[k] \in {call[k], NoCall}
  /\ \A i \in Follow : Stored(i)' =>
       Stored(i) /\ followed'[i].follow = followed[i].follow /\ followed'[i].last = followed[i].last
  /\ UNCHANGED <<latest, follows>>

LEMMA QuietPaced ==
  ASSUME IInv, PacedInv, Quiet
  PROVE  PacedInv'
<1>1. CallsAreNew'
  BY DEF PacedInv, CallsAreNew, Quiet, Busy, Checking
<1>2. FutureUntold' /\ ListedTogether'
  BY DEF PacedInv, FutureUntold, ListedTogether, Quiet, Idle
<1>3. RowsUpToDate'
  <2> SUFFICES ASSUME NEW i \in Follow, Stored(i)'
      PROVE  \/ latest[followed[i].follow] \in {None, followed[i].last}
             \/ \E c \in Cycles : check'[c][i].pc = "record" /\ check'[c][i].row.follow = followed[i].follow
    BY DEF RowsUpToDate, Quiet
  <2> QED
    BY DEF PacedInv, RowsUpToDate, Quiet
<1>4. ChecksUpToDate'
  <2> SUFFICES ASSUME NEW c \in Cycles, NEW i \in Follow PROVE CheckUpToDate(c, i)'
    BY DEF ChecksUpToDate
  <2>1. CheckUpToDate(c, i)
    BY DEF PacedInv, ChecksUpToDate
  <2> QED
    BY <2>1 DEF CheckUpToDate, Quiet, Checking, Idle
<1> QED
  BY <1>1, <1>2, <1>3, <1>4 DEF PacedInv

LEMMA ListActivePaced ==
  ASSUME IInv, PacedInv, Paced, NEW c \in Cycles, ListActive(c)
  PROVE  PacedInv'
<1>1. /\ TypeOK /\ \A i \in Follow : ~Checking(c, i)
      /\ \A i \in Follow :
           \/ check'[c][i] = Idle
           \/ /\ Stored(i) /\ check'[c][i].pc = "listed" /\ check'[c][i].row = followed[i]
              /\ Checking(c, i)'
      /\ UNCHANGED <<followed, call, latest, follows>>
  BY ListActiveTypes DEF IInv, counters
<1>2. \A d \in Cycles : d = c
  BY DEF Paced
<1>3. \A d \in Cycles, i \in Follow : check[d][i].pc # "record"
  BY <1>1, <1>2, CheckType
<1>4. \A i \in Follow : Stored(i) => latest[followed[i].follow] \in {None, followed[i].last}
  BY <1>3 DEF PacedInv, RowsUpToDate
<1>5. CallsAreNew'
  BY <1>1, <1>2 DEF PacedInv, CallsAreNew, Busy, Stored, Checking
<1>6. FutureUntold' /\ RowsUpToDate'
  BY <1>1, <1>4 DEF PacedInv, FutureUntold, RowsUpToDate, Stored
<1>8. ListedTogether'
  BY <1>1, <1>2 DEF ListedTogether, Idle
<1>7. ChecksUpToDate'
  <2> SUFFICES ASSUME NEW i \in Follow PROVE CheckUpToDate(c, i)'
    BY <1>2 DEF ChecksUpToDate
  <2>1. CASE check'[c][i] = Idle
    BY <2>1 DEF CheckUpToDate, Checking, Idle
  <2>2. CASE check'[c][i] # Idle
    BY <1>1, <1>4, <2>2 DEF CheckUpToDate, Stored
  <2> QED
    BY <2>1, <2>2
<1> QED
  BY <1>5, <1>6, <1>7, <1>8 DEF PacedInv

LEMMA CheckListedPaced ==
  ASSUME IInv, PacedInv, Paced, NEW c \in Cycles, CheckListed(c)
  PROVE  PacedInv'
<1>1. /\ TypeOK
      /\ \A i \in Follow :
              \/ check'[c][i] = Idle
              \/ /\ check[c][i].pc = "listed" /\ check'[c][i].pc = "search"
                 /\ Checking(c, i) /\ Checking(c, i)'
                 /\ check'[c][i].row = check[c][i].row
                 /\ check'[c][i].sig \notin {None, check[c][i].row.last}
      /\ UNCHANGED <<followed, call, latest, follows>>
  BY CheckListedTypes DEF IInv, counters
<1>2. \A d \in Cycles : d = c
  BY DEF Paced
<1>3. \A i \in Follow : check[c][i].pc # "record"
  BY DEF PacedInv, ListedTogether, CheckListed
<1>4. \A i \in Follow : Stored(i) => latest[followed[i].follow] \in {None, followed[i].last}
  BY <1>2, <1>3 DEF PacedInv, RowsUpToDate
<1>5. CallsAreNew'
  <2> SUFFICES ASSUME NEW k \in Calls, Busy(k)
      PROVE  /\ latest[call[k].follow] = None
             /\ \A i \in Follow : Stored(i) => followed[i].follow # call[k].follow
             /\ \A i \in Follow : check'[c][i] # Idle => check'[c][i].row.follow # call[k].follow
             /\ \A l \in Calls : Busy(l) /\ l # k => call[l].follow # call[k].follow
    BY <1>1, <1>2 DEF CallsAreNew, Busy, Stored, Checking
  <2> QED
    BY <1>1 DEF PacedInv, CallsAreNew
<1>6. FutureUntold' /\ RowsUpToDate'
  BY <1>1, <1>4 DEF PacedInv, FutureUntold, RowsUpToDate, Stored
<1>7. ChecksUpToDate'
  <2> SUFFICES ASSUME NEW i \in Follow PROVE CheckUpToDate(c, i)'
    BY <1>2 DEF ChecksUpToDate
  <2>1. CheckUpToDate(c, i)
    BY DEF PacedInv, ChecksUpToDate
  <2>2. CASE check'[c][i] = Idle
    BY <2>2 DEF CheckUpToDate, Checking, Idle
  <2>3. CASE check'[c][i] # Idle
    BY <1>1, <2>1, <2>3 DEF CheckUpToDate, Stored
  <2> QED
    BY <2>2, <2>3
<1>8. ListedTogether'
  BY <1>1, <1>2 DEF ListedTogether, Idle
<1> QED
  BY <1>5, <1>6, <1>7, <1>8 DEF PacedInv

LEMMA NotifyUserPaced ==
  ASSUME IInv, PacedInv, Paced, NEW c \in Cycles, NEW i \in Follow, NotifyUser(c, i)
  PROVE  PacedInv'
<1> DEFINE f == check[c][i].row.follow
<1>0. TypeOK /\ check[c][i].sig # None
  BY DEF IInv, PendingWasSent, NotifyUser
<1>1. /\ check[c][i].pc = "search" /\ check'[c][i].pc = "record"
      /\ Checking(c, i) /\ Checking(c, i)'
      /\ check'[c][i].row = check[c][i].row /\ check'[c][i].sig = check[c][i].sig
      /\ \A j \in Follow : j # i => check'[c][j] = check[c][j]
      /\ latest'[f] = check[c][i].sig
      /\ \A g \in Follow : g # f => latest'[g] = latest[g]
      /\ f \in Follow /\ f <= follows
      /\ UNCHANGED <<followed, call, follows>>
  <2>1. Checking(c, i)
    BY <1>0, NotifyUserTypes
  <2>2. Claim(i, check[c][i].row.user, f)
    BY <2>1 DEF Claim
  <2>3. f \in Follow /\ f <= follows
    BY <1>0, <2>1, <2>2, CheckType DEF IInv, ClaimsNumbered
  <2> QED
    BY <1>0, <2>3, NotifyUserTypes DEF counters
<1>2. \A d \in Cycles : d = c
  BY DEF Paced
<1>3. CallsAreNew'
  <2> SUFFICES ASSUME NEW k \in Calls, Busy(k)
      PROVE  /\ latest'[call[k].follow] = None
             /\ \A j \in Follow : Stored(j) => followed[j].follow # call[k].follow
             /\ \A j \in Follow : Checking(c, j)' => check'[c][j].row.follow # call[k].follow
             /\ \A l \in Calls : Busy(l) /\ l # k => call[l].follow # call[k].follow
    BY <1>1, <1>2 DEF CallsAreNew, Busy, Stored
  <2>1. call[k].follow # f /\ call[k].follow \in Follow
    BY <1>0, <1>1, CallType DEF PacedInv, CallsAreNew
  <2>2. latest'[call[k].follow] = None
    BY <1>1, <2>1 DEF PacedInv, CallsAreNew
  <2>3. \A j \in Follow : Checking(c, j)' => check'[c][j].row.follow # call[k].follow
    <3> SUFFICES ASSUME NEW j \in Follow, Checking(c, j)'
                 PROVE  check'[c][j].row.follow # call[k].follow
      OBVIOUS
    <3>1. CASE j = i
      BY <1>1, <2>1, <3>1
    <3>2. CASE j # i
      BY <1>1, <3>2 DEF PacedInv, CallsAreNew, Checking
    <3> QED
      BY <3>1, <3>2
  <2> QED
    BY <2>2, <2>3 DEF PacedInv, CallsAreNew
<1>4. FutureUntold'
  BY <1>1 DEF PacedInv, FutureUntold, IInv, TypeOK, Follow
<1>5. RowsUpToDate'
  <2> SUFFICES ASSUME NEW j \in Follow, Stored(j)
      PROVE  \/ latest'[followed[j].follow] \in {None, followed[j].last}
             \/ check'[c][i].pc = "record" /\ check'[c][i].row.follow = followed[j].follow
             \/ \E d \in Cycles : check'[d][j].pc = "record" /\ check'[d][j].row.follow = followed[j].follow
    BY <1>1, <1>2, OneKey DEF RowsUpToDate, Stored
  <2>1. followed[j].follow \in Follow
    BY <1>0, RowType
  <2>2. CASE followed[j].follow = f
    BY <1>1, <2>2
  <2>3. CASE followed[j].follow # f
    BY <1>1, <1>2, <2>1, <2>3 DEF PacedInv, RowsUpToDate
  <2> QED
    BY <2>2, <2>3
<1>6. ChecksUpToDate'
  <2> SUFFICES ASSUME NEW j \in Follow PROVE CheckUpToDate(c, j)'
    BY <1>2 DEF ChecksUpToDate
  <2>1. CheckUpToDate(c, j)
    BY DEF PacedInv, ChecksUpToDate
  <2>2. Stored(j) => followed[j].follow \in Follow
    BY <1>0, RowType
  <2>3. CASE j = i
    BY <1>1, <2>1, <2>2, <2>3 DEF CheckUpToDate, Stored
  <2>4. CASE j # i
    <3>1. Checking(c, j) => check[c][j].row.follow # f /\ check[c][j].row.follow \in Follow
      BY <1>0, <1>1, <2>4, OneKey, CheckType
    <3>2. Stored(j) => followed[j].follow # f
      BY <1>1, <2>4, OneKey
    <3>3. check[c][j].pc \in {"listed", "search", "record"} => Checking(c, j)
      BY <1>0, CheckType
    <3> QED
      BY <1>1, <2>1, <2>2, <2>4, <3>1, <3>2, <3>3 DEF CheckUpToDate, Stored, Checking
  <2> QED
    BY <2>3, <2>4
<1>7. ListedTogether'
  <2> SUFFICES ASSUME NEW j \in Follow, NEW l \in Follow, check'[c][j].pc = "listed"
               PROVE  check'[c][l].pc \in {"listed", "idle"}
    BY <1>2 DEF ListedTogether
  <2>1. check[c][j].pc = "listed" /\ check[c][i].pc = "search"
    BY <1>1
  <2> QED
    BY <2>1 DEF PacedInv, ListedTogether
<1> QED
  BY <1>3, <1>4, <1>5, <1>6, <1>7 DEF PacedInv

LEMMA RecordPaced ==
  ASSUME IInv, PacedInv, Paced, NEW c \in Cycles, NEW i \in Follow, Record(c, i)
  PROVE  PacedInv'
<1> DEFINE f == check[c][i].row.follow
<1>0. TypeOK
  BY DEF IInv
<1>1. /\ check[c][i].pc = "record" /\ Checking(c, i) /\ check'[c][i] = Idle
      /\ \A j \in Follow : j # i => check'[c][j] = check[c][j] /\ followed'[j] = followed[j]
      /\ Stored(i)' <=> Stored(i)
      /\ Stored(i) => /\ followed'[i].follow = followed[i].follow
                      /\ followed'[i].last = check[c][i].sig
      /\ UNCHANGED <<call, latest, follows>>
  BY <1>0, RecordTypes DEF counters
<1>2. \A d \in Cycles : d = c
  BY DEF Paced
<1>3. CheckUpToDate(c, i)
  BY DEF PacedInv, ChecksUpToDate
<1>4. \A j \in Follow : (Stored(j)' <=> Stored(j)) /\ (Stored(j) => followed'[j].follow = followed[j].follow)
  BY <1>1 DEF Stored
<1>5. CallsAreNew'
  <2> SUFFICES ASSUME NEW k \in Calls, Busy(k)
      PROVE  /\ latest[call[k].follow] = None
             /\ \A j \in Follow : Stored(j)' => followed'[j].follow # call[k].follow
             /\ \A j \in Follow : Checking(c, j)' => check'[c][j].row.follow # call[k].follow
             /\ \A l \in Calls : Busy(l) /\ l # k => call[l].follow # call[k].follow
    BY <1>1, <1>2 DEF CallsAreNew, Busy
  <2>1. \A j \in Follow : Stored(j)' => followed'[j].follow # call[k].follow
    BY <1>4 DEF PacedInv, CallsAreNew
  <2>2. \A j \in Follow : Checking(c, j)' => check'[c][j].row.follow # call[k].follow
    BY <1>1 DEF PacedInv, CallsAreNew, Checking
  <2> QED
    BY <2>1, <2>2 DEF PacedInv, CallsAreNew
<1>6. FutureUntold'
  BY <1>1 DEF PacedInv, FutureUntold
<1>7. RowsUpToDate'
  <2> SUFFICES ASSUME NEW j \in Follow, Stored(j)'
      PROVE  \/ latest[followed'[j].follow] \in {None, followed'[j].last}
             \/ check'[c][j].pc = "record" /\ check'[c][j].row.follow = followed'[j].follow
    BY <1>1 DEF RowsUpToDate
  <2>1. CASE j = i
    <3>1. CASE followed[i].follow = f
      BY <1>1, <1>3, <2>1, <3>1 DEF CheckUpToDate
    <3>2. CASE followed[i].follow # f
      BY <1>1, <1>3, <2>1, <3>2 DEF CheckUpToDate
    <3> QED
      BY <3>1, <3>2
  <2>2. CASE j # i
    BY <1>1, <1>2, <1>4, <2>2 DEF PacedInv, RowsUpToDate
  <2> QED
    BY <2>1, <2>2
<1>8. ChecksUpToDate'
  <2> SUFFICES ASSUME NEW j \in Follow PROVE CheckUpToDate(c, j)'
    BY <1>2 DEF ChecksUpToDate
  <2>1. CASE j = i
    BY <1>1, <2>1 DEF CheckUpToDate, Checking, Idle
  <2>2. CASE j # i
    BY <1>1, <1>4, <2>2 DEF PacedInv, ChecksUpToDate, CheckUpToDate, Checking
  <2> QED
    BY <2>1, <2>2
<1>9. ListedTogether'
  BY <1>1, <1>2 DEF PacedInv, ListedTogether, Idle
<1> QED
  BY <1>5, <1>6, <1>7, <1>8, <1>9 DEF PacedInv

LEMMA NextPaced ==
  ASSUME IInv, PacedInv, Paced, [Next]_vars
  PROVE  PacedInv'
<1>0. TypeOK
  BY DEF IInv
<1>1. ASSUME NEW k \in Calls, FollowRejected(k) PROVE Quiet
  BY <1>0, <1>1, FollowRejectedTypes DEF Quiet, Stored, counters
<1>2. ASSUME NEW rows, Delete(rows) PROVE Quiet
  BY <1>0, <1>2, DeleteTypes DEF Quiet, Stored, counters
<1>3. ASSUME NEW i \in Follow, TripEnds(i) PROVE Quiet
  BY <1>0, <1>3, TripEndsTypes DEF Quiet, counters
<1>4. ASSUME NEW c \in Cycles, NEW i \in Follow, CheckFails(c, i) PROVE Quiet
  <2>1. /\ check' = [check EXCEPT ![c][i] = Idle] /\ check[c][i].pc = "search"
        /\ UNCHANGED <<followed, call, latest, follows>>
    BY <1>4 DEF CheckFails
  <2>2. check'[c][i] = Idle
    BY <1>0, <2>1, OneCheck DEF TypeOK
  <2>3. \A d \in Cycles, j \in Follow : d # c \/ j # i => check'[d][j] = check[d][j]
    BY <1>0, <2>1, OneCheck DEF TypeOK
  <2> QED
    BY <2>1, <2>2, <2>3 DEF Quiet, Stored
<1>5. CacheChange \/ UNCHANGED vars => Quiet
  BY DEF CacheChange, vars, counters, Quiet, Stored
<1>6. ASSUME NEW c \in Cycles, NEW i \in Follow PROVE ~RecordFails(c, i)
  BY <1>0 DEF Paced, RecordFails, Losing, TypeOK
<1>7. ~Restart
  BY <1>0 DEF Paced, Restart, Losing, TypeOK
<1> QED
  BY <1>1, <1>2, <1>3, <1>4, <1>5, <1>6, <1>7, QuietPaced, BeginFollowPaced, SaveFollowPaced,
     ListActivePaced, CheckListedPaced, NotifyUserPaced, RecordPaced
  DEF Next, StopFollowing, PurgeExpired

\* While cycles do not overlap and no record is lost, a follow is never sent the same
\* disruption twice in a row, however often it is replaced, stopped or retried.
THEOREM NeverTwiceInARow ==
  ASSUME Paced PROVE Spec => NoEcho
<1>1. Init => PacedInv
  BY InitPaced
<1>2. IInv /\ IInv' /\ PacedInv /\ [Next]_vars => PacedInv'
  BY NextPaced
<1>3. PacedInv /\ [Next]_vars =>
        [\A c \in Cycles, i \in Follow :
           check[c][i].pc = "search" /\ check'[c][i].pc = "record"
             => latest[check[c][i].row.follow] # check[c][i].sig]_vars
  BY DEF PacedInv, ChecksUpToDate, CheckUpToDate
<1> QED
  BY <1>1, <1>2, <1>3, Invariance, PTL DEF Spec, NoEcho

-----------------------------------------------------------------------------
(* Rows that are not replaced under a check.                                 *)

\* A row is not replaced, nor one inserted under its key, while it is checked.
ReplacedApart ==
  \A k \in Calls : SaveFollow(k) => \A c \in Cycles : ~Checking(c, Key(k))

SentFor(f, d) == \E m \in sent : m.follow = f /\ m.sig = d

\* A check is about the follow that its row describes still, and what it is about to
\* record was sent for that follow.
CheckFits(c, i) ==
  Checking(c, i) =>
    /\ Stored(i) => followed[i].follow = check[c][i].row.follow
    /\ check[c][i].pc = "record" => SentFor(check[c][i].row.follow, check[c][i].sig)

SignaturesFit == LastIsOfThisFollow /\ \A c \in Cycles, i \in Follow : CheckFits(c, i)

\* The steps that send nothing, begin nothing and replace no row.
Steady ==
  /\ \A c \in Cycles, i \in Follow : check'[c][i] \in {check[c][i], Idle}
  /\ \A i \in Follow : Stored(i)' =>
       Stored(i) /\ followed'[i].follow = followed[i].follow /\ followed'[i].last = followed[i].last
  /\ UNCHANGED sent

LEMMA SteadyFits ==
  ASSUME SignaturesFit, Steady
  PROVE  SignaturesFit'
<1>1. LastIsOfThisFollow'
  BY DEF SignaturesFit, LastIsOfThisFollow, Steady
<1>2. ASSUME NEW c \in Cycles, NEW i \in Follow PROVE CheckFits(c, i)'
  BY DEF SignaturesFit, CheckFits, SentFor, Checking, Steady
<1> QED
  BY <1>1, <1>2 DEF SignaturesFit

LEMMA SaveFollowFits ==
  ASSUME TypeOK, SignaturesFit, ReplacedApart, NEW k \in Calls, SaveFollow(k)
  PROVE  SignaturesFit'
<1>1. LastIsOfThisFollow'
  <2> SUFFICES ASSUME NEW i \in Follow, Stored(i)', followed'[i].last # None
               PROVE  \E m \in sent' : m.follow = followed'[i].follow /\ m.sig = followed'[i].last
    BY DEF LastIsOfThisFollow
  <2>1. i # Key(k)
    BY SaveFollowTypes
  <2> QED
    BY <2>1, SaveFollowTypes DEF SignaturesFit, LastIsOfThisFollow, Stored
<1>2. ASSUME NEW c \in Cycles, NEW i \in Follow PROVE CheckFits(c, i)'
  <2>1. CASE i = Key(k)
    BY <2>1, SaveFollowTypes DEF ReplacedApart, CheckFits, Checking
  <2>2. CASE i # Key(k)
    BY <2>2, SaveFollowTypes DEF SignaturesFit, CheckFits, SentFor, Checking, Stored
  <2> QED
    BY <2>1, <2>2
<1> QED
  BY <1>1, <1>2 DEF SignaturesFit

\* Listing reads the rows; the check that follows keeps what was read.
LEMMA ListingFits ==
  ASSUME TypeOK, SignaturesFit, NEW c \in Cycles, ListActive(c) \/ CheckListed(c)
  PROVE  SignaturesFit'
<1>1. UNCHANGED <<followed, sent>> /\ \A d \in Cycles, i \in Follow : d # c => check'[d][i] = check[d][i]
  BY ListActiveTypes, CheckListedTypes
<1>2. ASSUME NEW i \in Follow
      PROVE  \/ check'[c][i] = Idle
             \/ /\ check'[c][i].pc # "record"
                /\ \/ Stored(i) /\ check'[c][i].row = followed[i]
                   \/ Checking(c, i) /\ check'[c][i].row = check[c][i].row
  BY ListActiveTypes, CheckListedTypes
<1>3. LastIsOfThisFollow'
  BY <1>1 DEF SignaturesFit, LastIsOfThisFollow, Stored
<1>4. ASSUME NEW d \in Cycles, NEW i \in Follow PROVE CheckFits(d, i)'
  <2>1. CASE d = c
    BY <1>1, <1>2, <2>1 DEF SignaturesFit, CheckFits, Checking, Stored
  <2>2. CASE d # c
    BY <1>1, <2>2 DEF SignaturesFit, CheckFits, SentFor, Checking, Stored
  <2> QED
    BY <2>1, <2>2
<1> QED
  BY <1>3, <1>4 DEF SignaturesFit

LEMMA NotifyUserFits ==
  ASSUME IInv, SignaturesFit, NEW c \in Cycles, NEW j \in Follow, NotifyUser(c, j)
  PROVE  SignaturesFit'
<1>1. check[c][j].sig # None
  BY DEF IInv, PendingWasSent, NotifyUser
<1>2. /\ UNCHANGED followed /\ sent \subseteq sent' /\ Checking(c, j)
      /\ check'[c][j].row = check[c][j].row /\ check'[c][j].sig = check[c][j].sig
      /\ \A d \in Cycles, i \in Follow : d # c \/ i # j => check'[d][i] = check[d][i]
  BY <1>1, NotifyUserTypes DEF IInv
<1>3. SentFor(check[c][j].row.follow, check[c][j].sig)'
  <2> DEFINE m == [user |-> check[c][j].row.user, follow |-> check[c][j].row.follow,
                   sig |-> check[c][j].sig]
  <2>1. m \in sent' /\ m.follow = check[c][j].row.follow /\ m.sig = check[c][j].sig
    BY DEF NotifyUser
  <2> HIDE DEF m
  <2> QED
    BY <1>2, <2>1 DEF SentFor
<1>4. LastIsOfThisFollow'
  BY <1>2 DEF SignaturesFit, LastIsOfThisFollow, Stored
<1>5. ASSUME NEW d \in Cycles, NEW i \in Follow PROVE CheckFits(d, i)'
  <2>1. CASE d = c /\ i = j
    BY <1>2, <1>3, <2>1 DEF SignaturesFit, CheckFits, SentFor, Stored
  <2>2. CASE d # c \/ i # j
    BY <1>2, <2>2 DEF SignaturesFit, CheckFits, SentFor, Checking, Stored
  <2> QED
    BY <2>1, <2>2
<1> QED
  BY <1>4, <1>5 DEF SignaturesFit

\* What is recorded was sent for the follow that the row describes.
LEMMA RecordFits ==
  ASSUME TypeOK, SignaturesFit, NEW c \in Cycles, NEW j \in Follow, Record(c, j)
  PROVE  SignaturesFit'
<1>1. Stored(j) => SentFor(followed[j].follow, check[c][j].sig)
  BY RecordTypes DEF SignaturesFit, CheckFits
<1>2. LastIsOfThisFollow'
  <2> SUFFICES ASSUME NEW i \in Follow, Stored(i)', followed'[i].last # None
               PROVE  \E m \in sent' : m.follow = followed'[i].follow /\ m.sig = followed'[i].last
    BY DEF LastIsOfThisFollow
  <2>1. CASE i = j
    BY <1>1, <2>1, RecordTypes DEF SentFor
  <2>2. CASE i # j
    BY <2>2, RecordTypes DEF SignaturesFit, LastIsOfThisFollow, Stored
  <2> QED
    BY <2>1, <2>2
<1>3. ASSUME NEW d \in Cycles, NEW i \in Follow PROVE CheckFits(d, i)'
  <2>1. CASE d = c /\ i = j
    BY <2>1, RecordTypes DEF CheckFits, Checking
  <2>2. CASE d # c \/ i # j
    <3>1. check'[d][i] = check[d][i] /\ sent' = sent
      BY <2>2, RecordTypes
    <3>2. Stored(i)' => Stored(i) /\ followed'[i].follow = followed[i].follow
      BY RecordTypes DEF Stored
    <3> QED
      BY <3>1, <3>2 DEF SignaturesFit, CheckFits, SentFor, Checking
  <2> QED
    BY <2>1, <2>2
<1> QED
  BY <1>2, <1>3 DEF SignaturesFit

LEMMA NextFits == IInv /\ SignaturesFit /\ [Next]_vars /\ [ReplacedApart]_vars => SignaturesFit'
<1> SUFFICES ASSUME IInv, SignaturesFit, [Next]_vars, [ReplacedApart]_vars PROVE SignaturesFit'
  OBVIOUS
<1>0. TypeOK
  BY DEF IInv
<1>1. ASSUME NEW k \in Calls, SaveFollow(k) PROVE SignaturesFit'
  <2>1. call' # call
    BY <1>0, <1>1, SaveFollowTypes DEF Busy
  <2>2. ReplacedApart
    BY <2>1 DEF vars
  <2> QED
    BY <1>0, <1>1, <2>2, SaveFollowFits
<1>2. ASSUME NEW k \in Calls,
             FollowRejected(k) \/ \E u \in Users, t \in Trips : BeginFollow(k, u, t)
      PROVE  Steady
  BY <1>0, <1>2, BeginFollowTypes, FollowRejectedTypes DEF Steady, Stored
<1>3. ASSUME NEW rows, Delete(rows) PROVE Steady
  BY <1>0, <1>3, DeleteTypes DEF Steady, Stored
<1>4. ASSUME NEW i \in Follow, TripEnds(i) PROVE Steady
  BY <1>0, <1>4, TripEndsTypes DEF Steady
<1>5. ASSUME NEW c \in Cycles, ListActive(c) \/ CheckListed(c) PROVE SignaturesFit'
  BY <1>0, <1>5, ListingFits
<1>6. ASSUME NEW c \in Cycles, NEW i \in Follow, NotifyUser(c, i) PROVE SignaturesFit'
  BY <1>6, NotifyUserFits
<1>7. ASSUME NEW c \in Cycles, NEW i \in Follow, Record(c, i) PROVE SignaturesFit'
  BY <1>0, <1>7, RecordFits
<1>8. Drops => Steady
  BY DEF Drops, Steady, Stored
<1>9. ASSUME NEW c \in Cycles, NEW i \in Follow, CheckFails(c, i) \/ RecordFails(c, i) PROVE Steady
  BY <1>0, <1>8, <1>9, CheckFailsTypes
<1>10. Restart \/ CacheChange => Steady
  BY <1>0, <1>8, RestartTypes, CacheChangeTypes
<1>11. UNCHANGED vars => Steady
  BY DEF Steady, Stored, vars
<1> QED
  BY <1>1, <1>2, <1>3, <1>4, <1>5, <1>6, <1>7, <1>9, <1>10, <1>11, SteadyFits
  DEF Next, StopFollowing, PurgeExpired

\* "Jamais celle du suivi precedent": the signature of a row was notified for the follow
\* it describes, in every behaviour in which no row is replaced while a check of it is
\* under way; cycles may overlap, records be lost and the server restart.
THEOREM SignaturesOfTheirFollow == Spec /\ [][ReplacedApart]_vars => []LastIsOfThisFollow
<1>1. Init => SignaturesFit
  BY DEF Init, SignaturesFit, LastIsOfThisFollow, CheckFits, Checking, Stored
<1>2. IInv /\ SignaturesFit /\ [Next]_vars /\ [ReplacedApart]_vars => SignaturesFit'
  BY NextFits
<1>3. SignaturesFit => LastIsOfThisFollow
  BY DEF SignaturesFit
<1> QED
  BY <1>1, <1>2, <1>3, Invariance, PTL DEF Spec
==============================================================================
