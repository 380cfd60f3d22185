------------------------------ MODULE PushDevices ------------------------------
(***************************************************************************)
(* The button that follows a trip, the subscriptions of the devices of an       *)
(* account, and the notifications they are sent:                              *)
(*   frontend/src/components/TripFollowButton, lib/followedTrip.ts, lib/push.ts  *)
(*   frontend/public/push-sw.js                                               *)
(*   backend/src/push/push-subscription.service.ts, push-notification.service.ts *)
(*                                                                         *)
(* The pages of one account, each in a browser, follow and stop; their requests     *)
(* interleave with each other and with a sending (TripMonitor says when there is     *)
(* one).  An endpoint is the address the push service gives a browser.             *)
(***************************************************************************)
EXTENDS Integers, Sequences, FiniteSets

CONSTANTS
  Tabs,
  Devices,
  DeviceOf,     \* DeviceOf[t]: the browser of a page
  Trips,        \* itineraries a page can show
  MaxEndpoints, \* bound: endpoints ever given
  MaxRows,      \* bound: subscriptions ever stored
  None

ASSUME DevicesAssumption ==
  /\ DeviceOf \in [Tabs -> Devices]
  /\ MaxEndpoints \in Nat /\ MaxRows \in Nat
  /\ None \notin Trips \cup Nat

VARIABLES
  endpoint, \* endpoint[d]: the subscription the browser holds, or None
  given,    \* endpoints given so far
  rows,     \* push_subscriptions: the endpoint of each row, None once removed
  follow,   \* the followed trip of the account
  tab,      \* tab[t]: the button of a page
  sending   \* the notification being sent, or None

browsers == <<endpoint, given>>
vars == <<browsers, rows, follow, tab, sending>>

Endpoints == 1 .. MaxEndpoints
RowIds == 1 .. MaxRows

\* asked: the initial GET /trips/current is not answered; followed: the trip the button takes
\* for followed; stage: where handleFollow or handleStop is; trip: what it follows.
Button == [asked : BOOLEAN, followed : Trips \cup {None}, trip : Trips \cup {None},
           stage : {"idle", "key", "prompt", "finding", "saving", "posting", "stopping"},
           endpoint : Endpoints \cup {None}, found : RowIds \cup {None}]

\* rows: the subscriptions as they were read; todo: not settled;
\* gone: answered 404 or 410, and being removed.
Sending == [rows : UNION {[S -> Endpoints] : S \in SUBSET RowIds},
            todo : SUBSET RowIds, gone : SUBSET RowIds]

ASSUME NullAssumption == None \notin Sending

TypeOK ==
  /\ endpoint \in [Devices -> Endpoints \cup {None}]
  /\ given \in 0 .. MaxEndpoints
  /\ rows \in Seq(Endpoints \cup {None}) /\ Len(rows) <= MaxRows
  /\ follow \in Trips \cup {None}
  /\ tab \in [Tabs -> Button]
  /\ sending \in Sending \cup {None}

\* A button that mounts follows nothing, and asks for the current follow.
Mounted == [asked |-> TRUE, followed |-> None, trip |-> None, stage |-> "idle",
            endpoint |-> None, found |-> None]

Init ==
  /\ endpoint = [d \in Devices |-> None] /\ given = 0
  /\ rows = <<>> /\ follow = None
  /\ tab = [t \in Tabs |-> Mounted]
  /\ sending = None

Stored == {i \in DOMAIN rows : rows[i] # None}

\* The endpoints the push service knows.
Live == {endpoint[d] : d \in Devices} \ {None}

-----------------------------------------------------------------------------
(* The button.                                                               *)

At(t, stage) == tab[t].stage = stage
Goes(t, stage) == tab' = [tab EXCEPT ![t].stage = stage]

\* Slip: no finally, an error leaves the button disabled.
EndsBusy(t, followed) ==
  IF followed = tab[t].followed THEN Goes(t, "disabled")
  ELSE tab' = [tab EXCEPT ![t] = [@ EXCEPT !.stage = "idle", !.trip = None, !.followed = followed]]

Ends(t, followed) ==
  tab' = [tab EXCEPT ![t] = [@ EXCEPT !.stage = "idle", !.trip = None, !.followed = followed]]

\* getCurrentFollowedTrip: the follow as it was served, perhaps long ago, or none on an
\* error; it is shown whatever was clicked meanwhile.
FirstArrives(t) ==
  /\ tab[t].asked
  /\ \E answer \in Trips \cup {None} :
       tab' = [tab EXCEPT ![t].asked = FALSE, ![t].followed = answer]
  /\ UNCHANGED <<browsers, rows, follow, sending>>

ClickFollow(t, trip) ==
  /\ At(t, "idle") /\ tab[t].followed # trip
  /\ tab' = [tab EXCEPT ![t].stage = "key", ![t].trip = trip]
  /\ UNCHANGED <<browsers, rows, follow, sending>>

ClickStop(t) ==
  /\ At(t, "idle") /\ tab[t].followed # None
  /\ Goes(t, "stopping")
  /\ UNCHANGED <<browsers, rows, follow, sending>>

\* subscribeBrowserToPush asks for the VAPID key: no support, no key or a refusal that the
\* browser remembers is no subscription, and a lost request ends the submission.
Key(t) ==
  /\ At(t, "key")
  /\ Goes(t, "prompt") \/ Goes(t, "posting") \/ Ends(t, tab[t].followed)
  /\ UNCHANGED <<browsers, rows, follow, sending>>

\* requestPermission: refused, dismissed, or granted and pushManager.subscribe fails.
NotSubscribed(t) ==
  /\ At(t, "prompt")
  /\ Goes(t, "posting")
  /\ UNCHANGED <<browsers, rows, follow, sending>>

\* Granted: subscribe gives the endpoint the browser has, or a new one.
Subscribed(t) ==
  LET d == DeviceOf[t] IN
  /\ At(t, "prompt")
  /\ IF endpoint[d] # None THEN UNCHANGED browsers
     ELSE /\ given < MaxEndpoints /\ given' = given + 1
          /\ endpoint' = [endpoint EXCEPT ![d] = given']
  /\ tab' = [tab EXCEPT ![t].stage = "finding", ![t].endpoint = endpoint'[d]]
  /\ UNCHANGED <<rows, follow, sending>>

\* subscribeToPush is over, with an answer or an error that is left aside.
Registered(t) ==
  tab' = [tab EXCEPT ![t] = [@ EXCEPT !.stage = "posting", !.endpoint = None, !.found = None]]

RegisterFails(t) ==
  /\ At(t, "finding") \/ At(t, "saving")
  /\ Registered(t)
  /\ UNCHANGED <<browsers, rows, follow, sending>>

\* POST /trips/current: it is stored and answered, or the request or its answer is lost.
Post(t) ==
  /\ At(t, "posting")
  /\ \/ follow' = tab[t].trip /\ Ends(t, tab[t].trip)
     \/ follow' \in {follow, tab[t].trip} /\ Ends(t, tab[t].followed)
  /\ UNCHANGED <<browsers, rows, sending>>

\* DELETE /trips/current.
Stop(t) ==
  /\ At(t, "stopping")
  /\ \/ follow' = None /\ Ends(t, None)
     \/ follow' \in {follow, None} /\ Ends(t, tab[t].followed)
  /\ UNCHANGED <<browsers, rows, sending>>

-----------------------------------------------------------------------------
(* subscribe and unsubscribe, on the server.                                 *)

\* The endpoints are encrypted: the rows are all read, then compared.
FindRow(t) ==
  LET match == {i \in Stored : rows[i] = tab[t].endpoint} IN
  /\ At(t, "finding")
  /\ \E i \in IF match = {} THEN {None} ELSE match :
       tab' = [tab EXCEPT ![t].stage = "saving", ![t].found = i]
  /\ UNCHANGED <<browsers, rows, follow, sending>>

\* save: the row that was found, inserted again if it is gone by now, or a new one.
SaveRow(t) ==
  /\ At(t, "saving")
  /\ IF tab[t].found # None THEN rows' = [rows EXCEPT ![tab[t].found] = tab[t].endpoint]
     ELSE Len(rows) < MaxRows /\ rows' = Append(rows, tab[t].endpoint)
  /\ Registered(t)
  /\ UNCHANGED <<browsers, follow, sending>>

\* removeByEndpoint: an operation of the API that no page uses.
Unsubscribe(d) ==
  /\ \E i \in Stored : rows[i] = endpoint[d] /\ rows' = [rows EXCEPT ![i] = None]
  /\ UNCHANGED <<browsers, follow, tab, sending>>

-----------------------------------------------------------------------------
(* The browsers and their push service.                                      *)

\* Notifications are blocked in the settings of the browser, or the push service ends the
\* subscription: nothing listens to pushsubscriptionchange.
Lose(d) ==
  /\ endpoint[d] # None
  /\ endpoint' = [endpoint EXCEPT ![d] = None]
  /\ UNCHANGED <<given, rows, follow, tab, sending>>

-----------------------------------------------------------------------------
(* notifyUser.                                                               *)

Notify ==
  /\ sending = None /\ follow # None /\ Stored # {}
  /\ sending' = [rows |-> [i \in Stored |-> rows[i]], todo |-> Stored, gone |-> {}]
  /\ UNCHANGED <<browsers, rows, follow, tab>>

\* Slip: any error is taken for the end of the subscription.
SettlesGone(i) ==
  /\ sending # None /\ i \in sending.todo
  /\ sending' = [sending EXCEPT !.todo = @ \ {i}, !.gone = @ \cup {i}]
  /\ UNCHANGED <<browsers, rows, follow, tab>>

\* sendNotification uses the row as it was read: the service worker shows it, or a
\* passing failure is only logged.
Settles(i) ==
  /\ sending # None /\ i \in sending.todo
  /\ sending' = [sending EXCEPT !.todo = @ \ {i}]
  /\ UNCHANGED <<browsers, rows, follow, tab>>

Gone(i) ==
  /\ sending # None /\ i \in sending.todo
  /\ sending.rows[i] \notin Live
  /\ sending' = [sending EXCEPT !.todo = @ \ {i}, !.gone = @ \cup {i}]
  /\ UNCHANGED <<browsers, rows, follow, tab>>

\* removeById, or its failure, which allSettled hides.
RemoveGone(i) ==
  /\ sending # None /\ i \in sending.gone
  /\ sending' = [sending EXCEPT !.gone = @ \ {i}]
  /\ \E removed \in BOOLEAN : rows' = IF removed THEN [rows EXCEPT ![i] = None] ELSE rows
  /\ UNCHANGED <<browsers, follow, tab>>

EndSending ==
  /\ sending # None /\ sending.todo = {} /\ sending.gone = {}
  /\ sending' = None
  /\ UNCHANGED <<browsers, rows, follow, tab>>

-----------------------------------------------------------------------------
Handle(t) ==
  Key(t) \/ FindRow(t) \/ SaveRow(t) \/ RegisterFails(t) \/ Post(t) \/ Stop(t)

Next ==
  \/ \E t \in Tabs :
       \/ FirstArrives(t) \/ ClickStop(t) \/ NotSubscribed(t) \/ Subscribed(t) \/ Handle(t)
       \/ \E trip \in Trips : ClickFollow(t, trip)
  \/ \E d \in Devices : Unsubscribe(d) \/ Lose(d)
  \/ Notify \/ EndSending
  \/ \E i \in RowIds : Settles(i) \/ Gone(i) \/ RemoveGone(i)

Spec == Init /\ [][Next]_vars

\* Every request of a page ends with an answer or an error; the user may leave the
\* prompt of the browser without an answer.
FairSpec == Spec /\ \A t \in Tabs : WF_vars(Handle(t))

-----------------------------------------------------------------------------
(* What a user may rely on.                                                  *)

\* A subscription that its push service still knows is only taken away by the device
\* itself: neither the failures of a sending, nor what a sending read before the device
\* subscribed again, nor another page of the browser removes it or gives its row away.
LiveRowsAreKept ==
  [][\A i \in Stored :
       rows[i] \in Live /\ rows'[i] # rows[i] => \E d \in Devices : Unsubscribe(d)]_vars

\* A click is over in the end, whatever fails on the way and whatever other pages do,
\* and the button can be used again, unless the prompt of the browser waits for the user.
SubmissionsSettle ==
  \A t \in Tabs : (~At(t, "idle")) ~> (At(t, "idle") \/ At(t, "prompt"))
=============================================================================
