--------------------------- MODULE PushDevicesProofs ---------------------------
(***************************************************************************)
(* Theorems about PushDevices, for any pages, browsers, trips and bounds.        *)
(***************************************************************************)
EXTENDS PushDevices, SequenceTheorems, TLAPS

\* Row i is, was or will be that of endpoint e: so it is stored, or a request that found it
\* says so, or a sending that read it.
Known(i, e) ==
  \/ i \in DOMAIN rows /\ rows[i] = e
  \/ \E t \in Tabs : tab[t].found = i /\ tab[t].endpoint = e
  \/ sending # None /\ i \in DOMAIN sending.rows /\ sending.rows[i] = e

RowsKnown == \A i \in RowIds, e \in Endpoints : Known(i, e) => i \in DOMAIN rows /\ e <= given

\* A row is not handed from one endpoint to another.
OneEndpointPerRow ==
  \A i \in RowIds, e, f \in Endpoints : Known(i, e) /\ Known(i, f) => e = f

EndpointsGiven ==
  /\ \A d \in Devices : endpoint[d] # None => endpoint[d] <= given
  /\ \A t \in Tabs : At(t, "finding") \/ At(t, "saving") => tab[t].endpoint # None
  /\ \A t \in Tabs : tab[t].endpoint # None => tab[t].endpoint <= given
  /\ \A t \in Tabs : tab[t].found # None => At(t, "saving")

\* What a sending still has to do is about rows it read; those it takes away are dead.
SendingKnows ==
  sending # None =>
    /\ sending.todo \cup sending.gone \subseteq DOMAIN sending.rows
    /\ \A i \in sending.gone : sending.rows[i] \notin Live

IInv ==
  /\ TypeOK /\ RowsKnown /\ OneEndpointPerRow /\ EndpointsGiven /\ SendingKnows

-----------------------------------------------------------------------------
USE DevicesAssumption, NullAssumption

LEMMA Types ==
  ASSUME TypeOK
  PROVE  /\ None \notin Endpoints /\ None \notin RowIds
         /\ Len(rows) \in Nat /\ DOMAIN rows = 1 .. Len(rows) /\ DOMAIN rows \subseteq RowIds
         /\ \A i \in DOMAIN rows : rows[i] \in Endpoints \cup {None}
         /\ \A t \in Tabs : /\ tab[t] \in Button
                            /\ tab[t].endpoint \in Endpoints \cup {None}
                            /\ tab[t].found \in RowIds \cup {None}
                            /\ tab[t].followed \in Trips \cup {None}
                            /\ tab[t].trip \in Trips \cup {None}
         /\ \A d \in Devices : endpoint[d] \in Endpoints \cup {None}
         /\ given \in Nat
         /\ sending # None =>
              /\ sending \in Sending
              /\ DOMAIN sending.rows \subseteq RowIds
              /\ \A i \in DOMAIN sending.rows : sending.rows[i] \in Endpoints
<1>1. /\ None \notin Endpoints /\ None \notin RowIds /\ given \in Nat
      /\ \A d \in Devices : endpoint[d] \in Endpoints \cup {None}
  BY DEF TypeOK, Endpoints, RowIds
<1>2. /\ Len(rows) \in Nat /\ DOMAIN rows = 1 .. Len(rows) /\ DOMAIN rows \subseteq RowIds
      /\ \A i \in DOMAIN rows : rows[i] \in Endpoints \cup {None}
  BY DEF TypeOK, RowIds
<1>3. ASSUME NEW t \in Tabs
      PROVE  /\ tab[t] \in Button
             /\ tab[t].endpoint \in Endpoints \cup {None}
             /\ tab[t].found \in RowIds \cup {None}
             /\ tab[t].followed \in Trips \cup {None}
             /\ tab[t].trip \in Trips \cup {None}
  BY DEF TypeOK, Button
<1>4. ASSUME sending # None
      PROVE  /\ sending \in Sending
             /\ DOMAIN sending.rows \subseteq RowIds
             /\ \A i \in DOMAIN sending.rows : sending.rows[i] \in Endpoints
  <2>1. sending \in Sending
    BY <1>4 DEF TypeOK
  <2>2. PICK S \in SUBSET RowIds : sending.rows \in [S -> Endpoints]
    BY <2>1 DEF Sending
  <2> QED
    BY <2>1, <2>2
<1> QED
  BY <1>1, <1>2, <1>3, <1>4

LEMMA OneTab ==
  ASSUME TypeOK, NEW t \in Tabs, NEW b \in Button, tab' = [tab EXCEPT ![t] = b]
  PROVE  /\ tab' \in [Tabs -> Button] /\ tab'[t] = b
         /\ \A u \in Tabs : u # t => tab'[u] = tab[u]
  BY DEF TypeOK

\* A step of one page that leaves rows, browsers and sending alone, and is not about
\* the registration of its endpoint, or gives it up.
Aside(t) ==
  /\ tab'[t] \in Button
  /\ \/ tab'[t].found = tab[t].found /\ tab'[t].endpoint = tab[t].endpoint
        /\ (tab'[t].stage = tab[t].stage \/ tab[t].stage \notin {"finding", "saving"})
        /\ (tab'[t].stage \in {"finding", "saving"} => tab'[t].stage = tab[t].stage)
     \/ tab'[t].found = None /\ tab'[t].endpoint = None
        /\ tab'[t].stage \notin {"finding", "saving"}
  /\ \A u \in Tabs : u # t => tab'[u] = tab[u]
  /\ UNCHANGED <<endpoint, given, rows, sending>>

LEMMA EndsAside ==
  ASSUME TypeOK, NEW t \in Tabs, NEW followed \in Trips \cup {None}, Ends(t, followed),
         tab[t].stage \notin {"finding", "saving"},
         UNCHANGED <<endpoint, given, rows, sending>>
  PROVE  Aside(t) /\ tab' \in [Tabs -> Button]
<1> DEFINE b == [tab[t] EXCEPT !.stage = "idle", !.trip = None, !.followed = followed]
<1>1. tab[t] \in Button
  BY Types
<1>2. b \in Button /\ b.found = tab[t].found /\ b.endpoint = tab[t].endpoint /\ b.stage = "idle"
  BY <1>1 DEF Button
<1>3. tab' = [tab EXCEPT ![t] = b]
  BY DEF Ends
<1> QED
  BY <1>2, <1>3, OneTab DEF Aside

LEMMA GoesAside ==
  ASSUME TypeOK, NEW t \in Tabs, NEW stage \in {"idle", "key", "prompt", "posting", "stopping"},
         Goes(t, stage),
         tab[t].stage \notin {"finding", "saving"},
         UNCHANGED <<endpoint, given, rows, sending>>
  PROVE  Aside(t) /\ tab' \in [Tabs -> Button]
<1> DEFINE b == [tab[t] EXCEPT !.stage = stage]
<1>1. tab[t] \in Button
  BY Types
<1>2. b \in Button /\ b.found = tab[t].found /\ b.endpoint = tab[t].endpoint /\ b.stage = stage
  BY <1>1 DEF Button
<1>3. tab' = [tab EXCEPT ![t] = b]
  BY DEF Goes
<1> QED
  BY <1>2, <1>3, OneTab DEF Aside

LEMMA FirstArrivesAside ==
  ASSUME TypeOK, NEW t \in Tabs, FirstArrives(t)
  PROVE  Aside(t) /\ TypeOK'
<1>1. PICK answer \in Trips \cup {None} :
        tab' = [tab EXCEPT ![t].asked = FALSE, ![t].followed = answer]
  BY DEF FirstArrives
<1> DEFINE b == [tab[t] EXCEPT !.asked = FALSE, !.followed = answer]
<1>2. tab[t] \in Button
  BY Types
<1>3. b \in Button /\ b.found = tab[t].found /\ b.endpoint = tab[t].endpoint /\ b.stage = tab[t].stage
  BY <1>2 DEF Button
<1>4. tab' = [tab EXCEPT ![t] = b]
  BY <1>1, <1>2 DEF TypeOK
<1>5. UNCHANGED <<endpoint, given, rows, follow, sending>>
  BY DEF FirstArrives, browsers
<1> QED
  BY <1>3, <1>4, <1>5, OneTab DEF Aside, TypeOK

LEMMA ClickFollowAside ==
  ASSUME TypeOK, NEW t \in Tabs, NEW trip \in Trips, ClickFollow(t, trip)
  PROVE  Aside(t) /\ TypeOK'
<1> DEFINE b == [tab[t] EXCEPT !.stage = "key", !.trip = trip]
<1>1. tab[t] \in Button /\ tab[t].stage = "idle"
  BY Types DEF ClickFollow, At
<1>2. b \in Button /\ b.found = tab[t].found /\ b.endpoint = tab[t].endpoint /\ b.stage = "key"
  BY <1>1 DEF Button
<1>3. tab' = [tab EXCEPT ![t] = b]
  BY <1>1 DEF ClickFollow, TypeOK
<1>4. UNCHANGED <<endpoint, given, rows, follow, sending>>
  BY DEF ClickFollow, browsers
<1> QED
  BY <1>1, <1>2, <1>3, <1>4, OneTab DEF Aside, TypeOK

LEMMA PlainAside ==
  ASSUME TypeOK, NEW t \in Tabs,
         ClickStop(t) \/ Key(t) \/ NotSubscribed(t) \/ Post(t) \/ Stop(t)
  PROVE  Aside(t) /\ TypeOK'
<1>1. UNCHANGED <<endpoint, given, rows, sending>>
  BY DEF ClickStop, Key, NotSubscribed, Post, Stop, browsers
<1>2. tab[t].stage \notin {"finding", "saving"}
  BY DEF ClickStop, Key, NotSubscribed, Post, Stop, At
<1>3. \/ \E stage \in {"idle", "key", "prompt", "posting", "stopping"} : Goes(t, stage)
      \/ \E followed \in Trips \cup {None} : Ends(t, followed)
  BY Types DEF ClickStop, Key, NotSubscribed, Post, Stop
<1>4. Aside(t) /\ tab' \in [Tabs -> Button]
  BY <1>1, <1>2, <1>3, GoesAside, EndsAside
<1>5. follow' \in Trips \cup {None}
  BY Types DEF TypeOK, ClickStop, Key, NotSubscribed, Post, Stop
<1> QED
  BY <1>1, <1>4, <1>5 DEF TypeOK

LEMMA RegisterFailsAside ==
  ASSUME TypeOK, NEW t \in Tabs, RegisterFails(t)
  PROVE  Aside(t) /\ TypeOK'
<1> DEFINE b == [tab[t] EXCEPT !.stage = "posting", !.endpoint = None, !.found = None]
<1>1. tab[t] \in Button
  BY Types
<1>2. b \in Button /\ b.found = None /\ b.endpoint = None /\ b.stage = "posting"
  BY <1>1 DEF Button
<1>3. tab' = [tab EXCEPT ![t] = b]
  BY DEF RegisterFails, Registered
<1>4. UNCHANGED <<endpoint, given, rows, follow, sending>>
  BY DEF RegisterFails, browsers
<1> QED
  BY <1>2, <1>3, <1>4, OneTab DEF Aside, TypeOK

Knowledge == RowsKnown /\ OneEndpointPerRow /\ EndpointsGiven /\ SendingKnows

\* A step that tells nothing new of a row leaves what is known of it.
LEMMA NothingNew ==
  ASSUME IInv, given' >= given, given' \in Nat,
         \A i \in RowIds, e \in Endpoints : Known(i, e)' => Known(i, e),
         DOMAIN rows \subseteq DOMAIN rows'
  PROVE  RowsKnown' /\ OneEndpointPerRow'
<1>1. given \in Nat
  BY Types DEF IInv
<1>2. RowsKnown'
  <2> SUFFICES ASSUME NEW i \in RowIds, NEW e \in Endpoints, Known(i, e)'
               PROVE  i \in DOMAIN rows' /\ e <= given'
    BY DEF RowsKnown
  <2> QED
    BY <1>1 DEF IInv, RowsKnown, Endpoints
<1> QED
  BY <1>2 DEF IInv, OneEndpointPerRow

LEMMA AsideKnowledge ==
  ASSUME IInv, NEW t \in Tabs, Aside(t)
  PROVE  Knowledge'
<1>1. \A i \in RowIds, e \in Endpoints : Known(i, e)' => Known(i, e)
  <2> SUFFICES ASSUME NEW i \in RowIds, NEW e \in Endpoints, Known(i, e)' PROVE Known(i, e)
    OBVIOUS
  <2>1. ASSUME NEW u \in Tabs, tab'[u].found = i, tab'[u].endpoint = e
        PROVE  tab[u].found = i /\ tab[u].endpoint = e
    <3>1. i # None
      BY Types DEF IInv
    <3> QED
      BY <2>1, <3>1 DEF Aside
  <2> QED
    BY <2>1 DEF Known, Aside
<1>2. RowsKnown' /\ OneEndpointPerRow'
  BY <1>1, NothingNew, Types DEF Aside, IInv
<1>3. EndpointsGiven'
  <2> SUFFICES ASSUME NEW u \in Tabs
      PROVE  /\ tab'[u].stage \in {"finding", "saving"} => tab'[u].endpoint # None
             /\ tab'[u].endpoint # None => tab'[u].endpoint <= given
             /\ tab'[u].found # None => tab'[u].stage = "saving"
    BY DEF EndpointsGiven, IInv, Aside, At
  <2> QED
    BY DEF IInv, EndpointsGiven, Aside, At
<1>4. SendingKnows'
  BY DEF IInv, SendingKnows, Aside, Live
<1> QED
  BY <1>2, <1>3, <1>4 DEF Knowledge

LEMMA SubscribedKnowledge ==
  ASSUME IInv, NEW t \in Tabs, Subscribed(t)
  PROVE  TypeOK' /\ Knowledge'
<1> DEFINE d == DeviceOf[t]
           e == endpoint'[d]
           b == [tab[t] EXCEPT !.stage = "finding", !.endpoint = e]
<1>0. /\ TypeOK /\ d \in Devices /\ tab[t] \in Button /\ tab[t].stage = "prompt"
      /\ given \in Nat /\ given <= MaxEndpoints
      /\ UNCHANGED <<rows, follow, sending>>
  BY Types DEF IInv, TypeOK, Subscribed, At
\* The endpoint of the browser is the one it had, or one that nothing knows yet.
<1>1. /\ endpoint' \in [Devices -> Endpoints \cup {None}] /\ e \in Endpoints
      /\ given' \in 0 .. MaxEndpoints /\ given' >= given /\ e <= given'
      /\ \A c \in Devices : endpoint'[c] = endpoint[c] \/ endpoint'[c] = given + 1
      /\ \A c \in Devices : endpoint'[c] # None => endpoint'[c] <= given'
  <2>1. CASE endpoint[d] # None
    <3>1. UNCHANGED <<endpoint, given>>
      BY <2>1 DEF Subscribed, browsers
    <3> QED
      BY <1>0, <2>1, <3>1, Types DEF TypeOK, IInv, EndpointsGiven
  <2>2. CASE endpoint[d] = None
    <3>1. given < MaxEndpoints /\ given' = given + 1 /\ endpoint' = [endpoint EXCEPT ![d] = given']
      BY <2>2 DEF Subscribed
    <3>2. given' \in Endpoints
      BY <1>0, <3>1 DEF Endpoints
    <3> QED
      BY <1>0, <3>1, <3>2, Types DEF TypeOK, IInv, EndpointsGiven, Endpoints
  <2> QED
    BY <2>1, <2>2
<1> HIDE DEF d
<1>2. tab[t].found = None
  BY <1>0 DEF IInv, EndpointsGiven, At
<1>3. b \in Button /\ b.stage = "finding" /\ b.endpoint = e /\ b.found = None
  <2> HIDE DEF e
  <2> QED
    BY <1>0, <1>1, <1>2 DEF Button
<1>4. tab' = [tab EXCEPT ![t] = b]
  BY <1>0 DEF Subscribed, TypeOK, d
<1>5. /\ tab' \in [Tabs -> Button] /\ tab'[t] = b
      /\ \A u \in Tabs : u # t => tab'[u] = tab[u]
  <2> HIDE DEF b
  <2> QED
    BY <1>0, <1>3, <1>4, OneTab
<1>6. TypeOK'
  BY <1>0, <1>1, <1>5 DEF TypeOK
<1>7. RowsKnown' /\ OneEndpointPerRow'
  <2>1. ASSUME NEW i \in RowIds, NEW f \in Endpoints, Known(i, f)' PROVE Known(i, f)
    <3>1. i # None
      BY Types DEF IInv
    <3>2. ASSUME NEW u \in Tabs, tab'[u].found = i, tab'[u].endpoint = f
          PROVE  tab[u].found = i /\ tab[u].endpoint = f
      BY <1>3, <1>5, <3>1, <3>2
    <3> QED
      BY <1>0, <2>1, <3>2 DEF Known
  <2> QED
    BY <1>0, <1>1, <2>1, NothingNew
<1>8. EndpointsGiven'
  <2> SUFFICES ASSUME NEW u \in Tabs
      PROVE  /\ tab'[u].stage \in {"finding", "saving"} => tab'[u].endpoint # None
             /\ tab'[u].endpoint # None => tab'[u].endpoint <= given'
             /\ tab'[u].found # None => tab'[u].stage = "saving"
    BY <1>1 DEF EndpointsGiven, At
  <2>1. CASE u = t
    BY <1>0, <1>1, <1>3, <1>5, <2>1, Types
  <2>2. CASE u # t
    <3>1. tab[u].endpoint \in Endpoints \cup {None}
      BY <1>0, Types
    <3> QED
      BY <1>0, <1>1, <1>5, <2>2, <3>1 DEF IInv, EndpointsGiven, At, Endpoints
  <2> QED
    BY <2>1, <2>2
<1>9. SendingKnows'
  <2> SUFFICES ASSUME sending # None, NEW i \in sending.gone
               PROVE  /\ sending.todo \cup sending.gone \subseteq DOMAIN sending.rows
                      /\ sending.rows[i] \notin Live'
    BY <1>0 DEF SendingKnows, IInv
  <2>1. i \in DOMAIN sending.rows /\ sending.rows[i] \notin Live /\ sending.rows[i] \in Endpoints
        /\ sending.todo \cup sending.gone \subseteq DOMAIN sending.rows /\ i \in RowIds
    BY <1>0, Types DEF IInv, SendingKnows
  <2>2. sending.rows[i] <= given
    BY <2>1 DEF IInv, RowsKnown, Known
  <2>3. \A c \in Devices : endpoint'[c] # sending.rows[i]
    <3> SUFFICES ASSUME NEW c \in Devices, endpoint'[c] = sending.rows[i] PROVE FALSE
      OBVIOUS
    <3>1. endpoint[c] # sending.rows[i]
      BY <1>0, <2>1, Types DEF Live
    <3>2. sending.rows[i] # given + 1
      BY <1>0, <2>1, <2>2 DEF Endpoints
    <3> QED
      BY <1>1, <3>1, <3>2
  <2> QED
    BY <2>1, <2>3 DEF Live
<1> QED
  BY <1>6, <1>7, <1>8, <1>9 DEF Knowledge

LEMMA FindRowKnowledge ==
  ASSUME IInv, NEW t \in Tabs, FindRow(t)
  PROVE  TypeOK' /\ Knowledge'
<1>0. /\ TypeOK /\ tab[t] \in Button /\ tab[t].stage = "finding" /\ tab[t].endpoint # None
      /\ UNCHANGED <<endpoint, given, rows, follow, sending>>
  BY Types DEF IInv, EndpointsGiven, FindRow, At, browsers
<1>1. PICK i \in RowIds \cup {None} :
        /\ i # None => i \in DOMAIN rows /\ rows[i] = tab[t].endpoint
        /\ tab' = [tab EXCEPT ![t].stage = "saving", ![t].found = i]
  <2>1. Stored \subseteq RowIds
    BY <1>0, Types DEF Stored
  <2> QED
    BY <2>1 DEF FindRow, Stored
<1> DEFINE b == [tab[t] EXCEPT !.stage = "saving", !.found = i]
<1>2. b \in Button /\ b.stage = "saving" /\ b.found = i /\ b.endpoint = tab[t].endpoint
  BY <1>0 DEF Button
<1>3. tab' = [tab EXCEPT ![t] = b]
  BY <1>0, <1>1 DEF TypeOK
<1>4. /\ tab' \in [Tabs -> Button] /\ tab'[t] = b
      /\ \A u \in Tabs : u # t => tab'[u] = tab[u]
  <2> HIDE DEF b
  <2> QED
    BY <1>0, <1>2, <1>3, OneTab
<1>5. TypeOK'
  BY <1>0, <1>4 DEF TypeOK
<1>6. RowsKnown' /\ OneEndpointPerRow'
  <2>1. ASSUME NEW j \in RowIds, NEW e \in Endpoints, Known(j, e)' PROVE Known(j, e)
    <3>1. j # None
      BY <1>0, Types
    <3>2. ASSUME NEW u \in Tabs, tab'[u].found = j, tab'[u].endpoint = e
          PROVE  Known(j, e)
      <4>1. CASE u = t
        BY <1>1, <1>2, <1>4, <3>1, <3>2, <4>1 DEF Known
      <4>2. CASE u # t
        BY <1>4, <3>2, <4>2 DEF Known
      <4> QED
        BY <4>1, <4>2
    <3> QED
      BY <1>0, <2>1, <3>2 DEF Known
  <2> QED
    BY <1>0, <2>1, NothingNew, Types
<1>7. EndpointsGiven'
  <2> SUFFICES ASSUME NEW u \in Tabs
      PROVE  /\ tab'[u].stage \in {"finding", "saving"} => tab'[u].endpoint # None
             /\ tab'[u].endpoint # None => tab'[u].endpoint <= given
             /\ tab'[u].found # None => tab'[u].stage = "saving"
    BY <1>0 DEF IInv, EndpointsGiven, At
  <2> QED
    BY <1>0, <1>2, <1>4 DEF IInv, EndpointsGiven, At
<1>8. SendingKnows'
  BY <1>0 DEF IInv, SendingKnows, Live
<1> QED
  BY <1>5, <1>6, <1>7, <1>8 DEF Knowledge

\* What saving does to the rows: at most one changes, and it takes the endpoint it had.
LEMMA SaveRowRows ==
  ASSUME IInv, NEW t \in Tabs, SaveRow(t)
  PROVE  \E i \in RowIds :
           /\ rows' \in Seq(Endpoints \cup {None}) /\ Len(rows') <= MaxRows
           /\ i \in DOMAIN rows' /\ rows'[i] = tab[t].endpoint
           /\ DOMAIN rows' = DOMAIN rows \cup {i}
           /\ \A j \in DOMAIN rows : j # i => rows'[j] = rows[j]
           /\ \A e \in Endpoints : Known(i, e) => e = tab[t].endpoint
<1>0. /\ TypeOK /\ tab[t].stage = "saving" /\ tab[t].endpoint \in Endpoints
      /\ tab[t].found \in RowIds \cup {None}
      /\ rows \in Seq(Endpoints \cup {None}) /\ Len(rows) \in Nat /\ Len(rows) <= MaxRows
      /\ DOMAIN rows = 1 .. Len(rows)
  BY Types DEF IInv, EndpointsGiven, SaveRow, At, TypeOK
<1>1. CASE tab[t].found # None
  <2> DEFINE i == tab[t].found
  <2>1. Known(i, tab[t].endpoint) /\ i \in RowIds
    BY <1>0, <1>1 DEF Known
  <2>2. i \in DOMAIN rows
    BY <1>0, <2>1 DEF IInv, RowsKnown
  <2>3. rows' = [rows EXCEPT ![i] = tab[t].endpoint]
    BY <1>1 DEF SaveRow
  <2>4. /\ rows' \in Seq(Endpoints \cup {None}) /\ Len(rows') = Len(rows)
        /\ DOMAIN rows' = DOMAIN rows /\ rows'[i] = tab[t].endpoint
        /\ \A j \in DOMAIN rows : j # i => rows'[j] = rows[j]
    BY <1>0, <2>2, <2>3, ExceptSeq
  <2>5. \A e \in Endpoints : Known(i, e) => e = tab[t].endpoint
    BY <1>0, <2>1 DEF IInv, OneEndpointPerRow
  <2> QED
    BY <1>0, <2>1, <2>2, <2>4, <2>5
<1>2. CASE tab[t].found = None
  <2> DEFINE i == Len(rows) + 1
  <2>1. Len(rows) < MaxRows /\ rows' = Append(rows, tab[t].endpoint)
    BY <1>2 DEF SaveRow
  <2>2. /\ rows' \in Seq(Endpoints \cup {None}) /\ Len(rows') = i
        /\ rows'[i] = tab[t].endpoint
        /\ \A j \in DOMAIN rows : rows'[j] = rows[j]
    BY <1>0, <2>1, AppendProperties
  <2>3. i \in RowIds /\ i \notin DOMAIN rows
    BY <1>0, <2>1 DEF RowIds
  <2>4. DOMAIN rows' = DOMAIN rows \cup {i}
    BY <1>0, <2>2
  <2>5. \A e \in Endpoints : ~Known(i, e)
    BY <2>3 DEF IInv, RowsKnown
  <2> QED
    BY <1>0, <2>1, <2>2, <2>3, <2>4, <2>5
<1> QED
  BY <1>1, <1>2

LEMMA SaveRowKnowledge ==
  ASSUME IInv, NEW t \in Tabs, SaveRow(t)
  PROVE  TypeOK' /\ Knowledge'
<1>0. /\ TypeOK /\ tab[t].stage = "saving" /\ tab[t].endpoint \in Endpoints
      /\ UNCHANGED <<endpoint, given, follow, sending>>
  BY Types DEF IInv, EndpointsGiven, SaveRow, At, browsers
<1>1. PICK i \in RowIds :
        /\ rows' \in Seq(Endpoints \cup {None}) /\ Len(rows') <= MaxRows
        /\ i \in DOMAIN rows' /\ rows'[i] = tab[t].endpoint
        /\ DOMAIN rows' = DOMAIN rows \cup {i}
        /\ \A j \in DOMAIN rows : j # i => rows'[j] = rows[j]
        /\ \A e \in Endpoints : Known(i, e) => e = tab[t].endpoint
  BY SaveRowRows
<1> DEFINE b == [tab[t] EXCEPT !.stage = "posting", !.endpoint = None, !.found = None]
<1>2. b \in Button /\ b.found = None /\ b.endpoint = None /\ b.stage = "posting"
  BY <1>0, Types DEF Button
<1>3. tab' = [tab EXCEPT ![t] = b]
  BY DEF SaveRow, Registered
<1>4. /\ tab' \in [Tabs -> Button] /\ tab'[t] = b
      /\ \A u \in Tabs : u # t => tab'[u] = tab[u]
  <2> HIDE DEF b
  <2> QED
    BY <1>0, <1>2, <1>3, OneTab
<1>5. TypeOK'
  BY <1>0, <1>1, <1>4 DEF TypeOK
<1>6. ASSUME NEW j \in RowIds, NEW e \in Endpoints, Known(j, e)'
      PROVE  Known(j, e) \/ (j = i /\ e = tab[t].endpoint)
  <2>1. j # None
    BY <1>0, Types
  <2>2. ASSUME NEW u \in Tabs, tab'[u].found = j, tab'[u].endpoint = e PROVE Known(j, e)
    <3>1. u # t
      BY <1>2, <1>4, <2>1, <2>2
    <3> QED
      BY <1>4, <2>2, <3>1 DEF Known
  <2>3. ASSUME j \in DOMAIN rows', rows'[j] = e
        PROVE  Known(j, e) \/ (j = i /\ e = tab[t].endpoint)
    BY <1>1, <2>3 DEF Known
  <2> QED
    BY <1>0, <1>6, <2>2, <2>3 DEF Known
<1>7. tab[t].endpoint <= given
  BY <1>0, Types DEF IInv, EndpointsGiven
<1>8. RowsKnown'
  <2> SUFFICES ASSUME NEW j \in RowIds, NEW e \in Endpoints, Known(j, e)'
               PROVE  j \in DOMAIN rows' /\ e <= given
    BY <1>0 DEF RowsKnown
  <2> QED
    BY <1>1, <1>6, <1>7 DEF IInv, RowsKnown
<1>9. OneEndpointPerRow'
  <2> SUFFICES ASSUME NEW j \in RowIds, NEW e \in Endpoints, NEW f \in Endpoints,
                      Known(j, e)', Known(j, f)'
               PROVE  e = f
    BY DEF OneEndpointPerRow
  <2> QED
    BY <1>1, <1>6 DEF IInv, OneEndpointPerRow
<1>10. EndpointsGiven'
  <2> SUFFICES ASSUME NEW u \in Tabs
      PROVE  /\ tab'[u].stage \in {"finding", "saving"} => tab'[u].endpoint # None
             /\ tab'[u].endpoint # None => tab'[u].endpoint <= given
             /\ tab'[u].found # None => tab'[u].stage = "saving"
    BY <1>0 DEF IInv, EndpointsGiven, At
  <2> QED
    BY <1>2, <1>4 DEF IInv, EndpointsGiven, At
<1>11. SendingKnows'
  BY <1>0 DEF IInv, SendingKnows, Live
<1> QED
  BY <1>5, <1>8, <1>9, <1>10, <1>11 DEF Knowledge

\* What a step does to the rows alone: it takes some away.
LEMMA RowsGone ==
  ASSUME IInv, NEW S, S \subseteq DOMAIN rows, rows' = [i \in DOMAIN rows |-> IF i \in S THEN None ELSE rows[i]]
  PROVE  /\ rows' \in Seq(Endpoints \cup {None}) /\ Len(rows') <= MaxRows
         /\ DOMAIN rows' = DOMAIN rows
         /\ \A i \in DOMAIN rows : rows'[i] \in {rows[i], None}
<1>1. /\ Len(rows) \in Nat /\ Len(rows) <= MaxRows /\ DOMAIN rows = 1 .. Len(rows)
      /\ \A i \in DOMAIN rows : rows[i] \in Endpoints \cup {None}
  BY Types DEF IInv, TypeOK
<1>2. rows' \in [1 .. Len(rows) -> Endpoints \cup {None}]
  BY <1>1
<1> QED
  BY <1>1, <1>2, SeqDef

\* The steps beside the pages: the rows only lose entries, the browsers only endpoints,
\* and a sending is new, or one that knows what it knew.
Beside ==
  /\ rows' \in Seq(Endpoints \cup {None}) /\ Len(rows') <= MaxRows
  /\ DOMAIN rows' = DOMAIN rows
  /\ \A i \in DOMAIN rows : rows'[i] \in {rows[i], None}
  /\ \A d \in Devices : endpoint'[d] \in {endpoint[d], None}
  /\ endpoint' \in [Devices -> Endpoints \cup {None}]
  /\ sending' \in Sending \cup {None}
  /\ sending' # None =>
       /\ sending'.todo \cup sending'.gone \subseteq DOMAIN sending'.rows
       /\ \/ /\ sending # None /\ sending'.rows = sending.rows
             /\ \A i \in sending'.gone : i \in sending.gone \/ sending.rows[i] \notin Live
          \/ /\ sending'.gone = {}
             /\ \A i \in DOMAIN sending'.rows : i \in DOMAIN rows /\ sending'.rows[i] = rows[i]
  /\ UNCHANGED <<given, follow, tab>>

LEMMA BesideKnowledge ==
  ASSUME IInv, Beside
  PROVE  TypeOK' /\ Knowledge'
<1>1. TypeOK'
  BY DEF IInv, TypeOK, Beside
<1>2. RowsKnown' /\ OneEndpointPerRow'
  <2>1. ASSUME NEW i \in RowIds, NEW e \in Endpoints, Known(i, e)' PROVE Known(i, e)
    <3>1. e # None
      BY Types DEF IInv
    <3>2. CASE i \in DOMAIN rows' /\ rows'[i] = e
      BY <3>1, <3>2 DEF Known, Beside
    <3>3. CASE sending' # None /\ i \in DOMAIN sending'.rows /\ sending'.rows[i] = e
      BY <3>3 DEF Known, Beside
    <3> QED
      BY <2>1, <3>2, <3>3 DEF Known, Beside
  <2> QED
    BY <2>1, NothingNew, Types DEF IInv, Beside
<1>3. EndpointsGiven'
  BY DEF IInv, EndpointsGiven, Beside, At
<1>4. SendingKnows'
  <2> SUFFICES ASSUME sending' # None, NEW i \in sending'.gone
               PROVE  sending'.rows[i] \notin Live'
    BY DEF SendingKnows, Beside
  <2>1. sending # None /\ sending'.rows = sending.rows /\ sending.rows[i] \notin Live
        /\ i \in DOMAIN sending.rows
    BY DEF Beside, IInv, SendingKnows
  <2>2. sending.rows[i] # None
    BY <2>1, Types DEF IInv
  <2> QED
    BY <2>1, <2>2 DEF Live, Beside
<1> QED
  BY <1>1, <1>2, <1>3, <1>4 DEF Knowledge

\* The row of a sending that is dead was not given to another endpoint meanwhile.
LEMMA GoneIsDead ==
  ASSUME IInv, sending # None, NEW i \in sending.gone, i \in Stored
  PROVE  rows[i] \notin Live
<1>1. i \in DOMAIN sending.rows /\ sending.rows[i] \notin Live /\ i \in RowIds
      /\ sending.rows[i] \in Endpoints /\ rows[i] \in Endpoints
  BY Types DEF IInv, SendingKnows, Stored
<1>2. Known(i, rows[i]) /\ Known(i, sending.rows[i])
  BY <1>1 DEF Known, Stored
<1> QED
  BY <1>1, <1>2 DEF IInv, OneEndpointPerRow

LEMMA SendingStep ==
  ASSUME IInv, sending # None, NEW todo \in SUBSET sending.todo,
         NEW gone \in SUBSET (sending.gone \cup sending.todo),
         sending' = [sending EXCEPT !.todo = todo, !.gone = gone]
  PROVE  /\ sending' \in Sending /\ sending' # None
         /\ sending'.rows = sending.rows /\ sending'.todo = todo /\ sending'.gone = gone
         /\ todo \cup gone \subseteq DOMAIN sending.rows
<1>1. sending \in Sending
  BY Types DEF IInv
<1> QED
  BY <1>1 DEF Sending, IInv, SendingKnows

LEMMA BesideSteps ==
  ASSUME IInv,
         \/ \E d \in Devices : Unsubscribe(d) \/ Lose(d)
         \/ Notify \/ EndSending
         \/ \E i \in RowIds : Settles(i) \/ Gone(i) \/ RemoveGone(i)
         \/ UNCHANGED vars
  PROVE  Beside
<1> USE DEF browsers
<1>0. /\ TypeOK
      /\ rows \in Seq(Endpoints \cup {None}) /\ Len(rows) <= MaxRows
      /\ endpoint \in [Devices -> Endpoints \cup {None}]
      /\ sending \in Sending \cup {None}
      /\ sending # None =>
           /\ sending.todo \cup sending.gone \subseteq DOMAIN sending.rows
           /\ \A i \in sending.gone : i \in sending.gone \/ sending.rows[i] \notin Live
  BY DEF IInv, TypeOK, SendingKnows
<1>1. ASSUME NEW d \in Devices, Unsubscribe(d) PROVE Beside
  <2>1. PICK i \in Stored : rows' = [rows EXCEPT ![i] = None]
    BY <1>1 DEF Unsubscribe
  <2>2. rows' = [j \in DOMAIN rows |-> IF j \in {i} THEN None ELSE rows[j]]
    BY <2>1
  <2>3. {i} \subseteq DOMAIN rows
    BY DEF Stored
  <2>4. /\ rows' \in Seq(Endpoints \cup {None}) /\ Len(rows') <= MaxRows
        /\ DOMAIN rows' = DOMAIN rows
        /\ \A j \in DOMAIN rows : rows'[j] \in {rows[j], None}
    BY <2>2, <2>3, RowsGone
  <2> QED
    BY <1>0, <1>1, <2>4 DEF Beside, Unsubscribe
<1>2. ASSUME NEW d \in Devices, Lose(d) PROVE Beside
  <2>1. /\ endpoint' \in [Devices -> Endpoints \cup {None}]
        /\ \A c \in Devices : endpoint'[c] \in {endpoint[c], None}
    BY <1>0, <1>2 DEF Lose
  <2> QED
    BY <1>0, <1>2, <2>1 DEF Beside, Lose
<1>3. CASE Notify
  <2> DEFINE read == [i \in Stored |-> rows[i]]
  <2>1. Stored \subseteq RowIds /\ Stored \subseteq DOMAIN rows /\ \A i \in Stored : rows[i] \in Endpoints
    BY <1>0, Types DEF Stored
  <2>2. read \in [Stored -> Endpoints] /\ read \in UNION {[S -> Endpoints] : S \in SUBSET RowIds}
    BY <2>1
  <2>3. sending' = [rows |-> read, todo |-> Stored, gone |-> {}]
    BY <1>3 DEF Notify
  <2>4. sending' \in Sending
    <3> HIDE DEF read
    <3> QED
      BY <2>1, <2>2, <2>3 DEF Sending
  <2>5. /\ sending'.todo \cup sending'.gone \subseteq DOMAIN sending'.rows /\ sending'.gone = {}
        /\ \A i \in DOMAIN sending'.rows : i \in DOMAIN rows /\ sending'.rows[i] = rows[i]
    BY <2>1, <2>3
  <2> QED
    BY <1>0, <1>3, <2>4, <2>5 DEF Beside, Notify
<1>4. CASE EndSending
  BY <1>0, <1>4 DEF Beside, EndSending
<1>5. ASSUME NEW i \in RowIds, Settles(i) PROVE Beside
  <2>1. sending # None /\ i \in sending.todo
        /\ sending' = [sending EXCEPT !.todo = @ \ {i}]
    BY <1>5 DEF Settles
  <2>2. sending' = [sending EXCEPT !.todo = sending.todo \ {i}, !.gone = sending.gone]
    BY <1>0, <2>1 DEF Sending
  <2>3. /\ sending' \in Sending /\ sending'.rows = sending.rows
        /\ sending'.gone = sending.gone
        /\ sending'.todo \cup sending'.gone \subseteq DOMAIN sending'.rows
    BY <2>1, <2>2, SendingStep
  <2> QED
    BY <1>0, <1>5, <2>1, <2>3 DEF Beside, Settles
<1>6. ASSUME NEW i \in RowIds, Gone(i) PROVE Beside
  <2>1. sending # None /\ i \in sending.todo /\ sending.rows[i] \notin Live
        /\ sending' = [sending EXCEPT !.todo = sending.todo \ {i}, !.gone = sending.gone \cup {i}]
    BY <1>6 DEF Gone
  <2>2. /\ sending' \in Sending /\ sending'.rows = sending.rows
        /\ sending'.gone = sending.gone \cup {i}
        /\ sending'.todo \cup sending'.gone \subseteq DOMAIN sending'.rows
    <3>1. /\ sending.todo \ {i} \in SUBSET sending.todo
          /\ sending.gone \cup {i} \in SUBSET (sending.gone \cup sending.todo)
      BY <2>1
    <3>2. /\ sending' \in Sending /\ sending'.rows = sending.rows
          /\ sending'.todo = sending.todo \ {i} /\ sending'.gone = sending.gone \cup {i}
          /\ (sending.todo \ {i}) \cup (sending.gone \cup {i}) \subseteq DOMAIN sending.rows
      BY <2>1, <3>1, SendingStep
    <3> QED
      BY <3>2
  <2> QED
    BY <1>0, <1>6, <2>1, <2>2 DEF Beside, Gone
<1>7. ASSUME NEW i \in RowIds, RemoveGone(i) PROVE Beside
  <2>1. sending # None /\ i \in sending.gone
        /\ sending' = [sending EXCEPT !.gone = @ \ {i}]
    BY <1>7 DEF RemoveGone
  <2>2. sending' = [sending EXCEPT !.todo = sending.todo, !.gone = sending.gone \ {i}]
    BY <1>0, <2>1 DEF Sending
  <2>3. /\ sending' \in Sending /\ sending'.rows = sending.rows
        /\ sending'.gone = sending.gone \ {i}
        /\ sending'.todo \cup sending'.gone \subseteq DOMAIN sending'.rows
    BY <2>1, <2>2, SendingStep
  <2>4. PICK S \in SUBSET {i} : rows' = [j \in DOMAIN rows |-> IF j \in S THEN None ELSE rows[j]]
    <3>1. rows' = [rows EXCEPT ![i] = None] \/ rows' = rows
      BY <1>7 DEF RemoveGone
    <3>2. rows = [j \in DOMAIN rows |-> IF j \in {} THEN None ELSE rows[j]]
      BY <1>0
    <3>3. [rows EXCEPT ![i] = None] = [j \in DOMAIN rows |-> IF j \in {i} THEN None ELSE rows[j]]
      BY <1>0
    <3>4. CASE rows' = rows
      <4> WITNESS {} \in SUBSET {i}
      <4> QED
        BY <3>2, <3>4
    <3>5. CASE rows' = [rows EXCEPT ![i] = None]
      <4> WITNESS {i} \in SUBSET {i}
      <4> QED
        BY <3>3, <3>5
    <3> QED
      BY <3>1, <3>4, <3>5
  <2>5. S \subseteq DOMAIN rows
    <3>1. i \in RowIds /\ i \in DOMAIN sending.rows /\ sending.rows[i] \in Endpoints
      BY <1>0, <2>1, Types
    <3>2. Known(i, sending.rows[i])
      BY <2>1, <3>1 DEF Known
    <3> QED
      BY <3>1, <3>2 DEF IInv, RowsKnown
  <2>6. /\ rows' \in Seq(Endpoints \cup {None}) /\ Len(rows') <= MaxRows
        /\ DOMAIN rows' = DOMAIN rows
        /\ \A j \in DOMAIN rows : rows'[j] \in {rows[j], None}
    BY <2>4, <2>5, RowsGone
  <2> QED
    BY <1>0, <1>7, <2>1, <2>3, <2>6 DEF Beside, RemoveGone
<1>8. CASE UNCHANGED vars
  BY <1>0, <1>8 DEF Beside, vars
<1> QED
  BY <1>1, <1>2, <1>3, <1>4, <1>5, <1>6, <1>7, <1>8

LEMMA InitIInv == Init => IInv
<1> SUFFICES ASSUME Init PROVE IInv
  OBVIOUS
<1>1. Mounted \in Button /\ Mounted.found = None /\ Mounted.endpoint = None /\ Mounted.stage = "idle"
  BY DEF Mounted, Button
<1>2. tab \in [Tabs -> Button] /\ \A t \in Tabs : tab[t] = Mounted
  BY <1>1 DEF Init
<1>3. rows \in Seq(Endpoints \cup {None}) /\ Len(rows) = 0 /\ DOMAIN rows = {}
  BY DEF Init
<1>4. TypeOK
  BY <1>2, <1>3 DEF Init, TypeOK
<1>5. \A i \in RowIds, e \in Endpoints : ~Known(i, e)
  BY <1>1, <1>2, <1>3, <1>4, Types DEF Known, Init
<1>6. EndpointsGiven /\ SendingKnows
  BY <1>1, <1>2 DEF Init, EndpointsGiven, SendingKnows, At
<1> QED
  BY <1>4, <1>5, <1>6 DEF IInv, RowsKnown, OneEndpointPerRow

LEMMA Inductive == IInv /\ [Next]_vars => IInv'
<1> SUFFICES ASSUME IInv, [Next]_vars PROVE TypeOK' /\ Knowledge'
  BY DEF IInv, Knowledge
<1>0. TypeOK
  BY DEF IInv
<1>1. ASSUME NEW t \in Tabs,
             FirstArrives(t) \/ ClickStop(t) \/ NotSubscribed(t) \/ Key(t) \/ RegisterFails(t)
             \/ Post(t) \/ Stop(t)
      PROVE  TypeOK' /\ Knowledge'
  BY <1>0, <1>1, FirstArrivesAside, PlainAside, RegisterFailsAside, AsideKnowledge
<1>2. ASSUME NEW t \in Tabs, NEW trip \in Trips, ClickFollow(t, trip) PROVE TypeOK' /\ Knowledge'
  BY <1>0, <1>2, ClickFollowAside, AsideKnowledge
<1>3. ASSUME NEW t \in Tabs, Subscribed(t) PROVE TypeOK' /\ Knowledge'
  BY <1>3, SubscribedKnowledge
<1>4. ASSUME NEW t \in Tabs, FindRow(t) PROVE TypeOK' /\ Knowledge'
  BY <1>4, FindRowKnowledge
<1>5. ASSUME NEW t \in Tabs, SaveRow(t) PROVE TypeOK' /\ Knowledge'
  BY <1>5, SaveRowKnowledge
<1>6. Beside => TypeOK' /\ Knowledge'
  BY BesideKnowledge
<1> QED
  BY <1>1, <1>2, <1>3, <1>4, <1>5, <1>6, BesideSteps DEF Next, Handle

\* Every state satisfies the inductive invariant.
THEOREM Invariance == Spec => []IInv
  BY InitIInv, Inductive, PTL DEF Spec

\* The types hold.
THEOREM Typing == Spec => []TypeOK
  BY Invariance, PTL DEF IInv

\* Neither a sending that fails, nor what it read before a device subscribed again, nor
\* the requests of other pages take away or hand on the row of an endpoint that is alive.
THEOREM LiveRowsStay == Spec => LiveRowsAreKept
<1>1. ASSUME IInv, [Next]_vars, NEW i \in Stored, rows[i] \in Live, rows'[i] # rows[i]
      PROVE  \E d \in Devices : Unsubscribe(d)
  <2>0. TypeOK /\ i \in DOMAIN rows /\ i \in RowIds /\ rows[i] \in Endpoints
    BY <1>1, Types DEF IInv, Stored
  <2>2. ASSUME NEW t \in Tabs, SaveRow(t) PROVE FALSE
    <3>1. Known(i, rows[i])
      BY <2>0 DEF Known
    <3> QED
      BY <1>1, <2>0, <2>2, <3>1, SaveRowRows
  <2>3. ASSUME NEW j \in RowIds, RemoveGone(j) PROVE FALSE
    <3>1. sending # None /\ j \in sending.gone /\ rows' \in {rows, [rows EXCEPT ![j] = None]}
      BY <2>3 DEF RemoveGone
    <3>2. i = j
      BY <1>1, <2>0, <3>1
    <3> QED
      BY <1>1, <3>1, <3>2, GoneIsDead
  <2>4. rows' # rows
    BY <1>1
  <2> QED
    BY <1>1, <2>2, <2>3, <2>4
    DEF Next, Handle, vars, FirstArrives, ClickFollow, ClickStop, Key, NotSubscribed, Subscribed,
        RegisterFails, Post, Stop, FindRow, Lose, Notify, Settles, Gone, EndSending
<1>2. IInv /\ [Next]_vars =>
        [\A i \in Stored :
           rows[i] \in Live /\ rows'[i] # rows[i] => \E d \in Devices : Unsubscribe(d)]_vars
  BY <1>1
<1> QED
  BY <1>2, Invariance, PTL DEF Spec, LiveRowsAreKept
==============================================================================
