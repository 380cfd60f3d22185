----------------------------- MODULE MCTripSearch -----------------------------
(* Instances of TripSearch for TLC. *)
EXTENDS TripSearch, TLC

CONSTANTS s1, s2

\* The metro is fast and far, the bus slow and near, or a little farther at another stop,
\* the tram needs a transfer.
SomeRoutes ==
  "metro" :> [minutes |-> 20, transfers |-> 0, walk |-> 5, modes |-> <<"walking", "metro">>]
  @@ "bus" :> [minutes |-> 30, transfers |-> 0, walk |-> 1, modes |-> <<"walking", "bus">>]
  @@ "stop" :> [minutes |-> 30, transfers |-> 0, walk |-> 2, modes |-> <<"walking", "bus">>]
  @@ "both" :> [minutes |-> 30, transfers |-> 1, walk |-> 1, modes |-> <<"bus", "walking", "tram">>]
  @@ "walk" :> [minutes |-> 60, transfers |-> 0, walk |-> 40, modes |-> <<"walking">>]

It(r, n) == [route |-> r, start |-> n]

SomePlans ==
  {<<>>, <<It("bus", 9), It("metro", 8), It("bus", 7)>>, <<It("both", 7), It("stop", 8), It("bus", 9)>>}

\* A line, or one of its departures; the later one is shown by the second plan only.
SomeDisruptable == {It("bus", 7), It("bus", 9)}

SomeProfiles ==
  {NoPreference,
   [limits |-> {"transfers", "walking"}, preferred |-> {"bus"}]}
=============================================================================
