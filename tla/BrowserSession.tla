---------------------------- MODULE BrowserSession ----------------------------
(***************************************************************************)
(* The session of a browser: one pair of tokens in localStorage, shared by its  *)
(* tabs, and what each tab does of it:                                        *)
(*   frontend/src/lib/api.ts, lib/authStorage.ts, lib/auth.ts                 *)
(*   frontend/src/lib/AuthProvider.tsx                                        *)
(*   frontend/src/components/RequireAuth.tsx, RedirectIfAuthenticated.tsx     *)
(*   frontend/src/pages/ConnexionPage/ConnexionPage.tsx                       *)
(*                                                                         *)
(* A tab sends authenticated calls; one that is refused (401) exchanges the      *)
(* refresh token, at most once at a time in a tab, and is replayed.  The answers  *)
(* come back in any order, while other tabs log in, log out and exchange too.     *)
(*                                                                         *)
(* The server is what this code can see of it: an access token is accepted until  *)
(* it expires, an exchange succeeds or is refused.  When it is refused is the     *)
(* subject of RefreshTokens.                                                 *)
(***************************************************************************)
EXTENDS Naturals

CONSTANTS
  Tabs,
  Calls,   \* bound: authenticated calls under way at once
  MaxPair, \* bound: pairs of tokens issued
  None

ASSUME ConstantsAssumption == MaxPair \in Nat \ {0} /\ None \notin Nat

VARIABLES
  store,     \* localStorage: the pair kept, 0 when there is none
  pairs,     \* pairs[p]: the tokens of a pair that have not expired, or None
  tab,       \* tab[t]: the route and isAuthenticated
  call,      \* call[c]: an authRequest under way, or None
  exchange,  \* exchange[t]: inFlightRefresh of the tab
  presented  \* history: the last refresh token each tab presented since it was loaded

vars == <<store, pairs, tab, call, exchange, presented>>

Pair == 1 .. MaxPair

\* First the access token expires, then the refresh token.
Usable == {"both", "refresh", "neither"}

\* checked: the guard of the route has been through since it mounted.
Tab == [page : {"connexion", "profil", "recherche"}, checked : BOOLEAN, auth : BOOLEAN]

\* login: the profile looked up after a login; load: any other call, live while the
\* guarded page whose load it is waits for it.
Call == [tab : Tabs, kind : {"load", "login"}, live : BOOLEAN,
         at : {"sent", "waiting", "replayed"}, pair : 0 .. MaxPair]

Refused == [pair |-> 0, got |-> 0, at |-> "refused"]

\* Asked with the refresh token of a pair, answered with a pair, or refused.
Exchange ==
  [pair : Pair, got : {0}, at : {"asked"}] \cup [pair : {0}, got : Pair, at : {"answered"}]
    \cup {Refused}

ASSUME NullAssumption == None \notin Usable /\ None \notin Exchange /\ None \notin Call

TypeOK ==
  /\ store \in 0 .. MaxPair
  /\ pairs \in [Pair -> Usable \cup {None}]
  /\ tab \in [Tabs -> Tab]
  /\ call \in [Calls -> Call \cup {None}]
  /\ exchange \in [Tabs -> Exchange \cup {None}]
  /\ presented \in [Tabs -> 0 .. MaxPair]

Init ==
  /\ store = 0
  /\ pairs = [p \in Pair |-> None]
  /\ tab = [t \in Tabs |-> [page |-> "recherche", checked |-> TRUE, auth |-> FALSE]]
  /\ call = [c \in Calls |-> None]
  /\ exchange = [t \in Tabs |-> None]
  /\ presented = [t \in Tabs |-> 0]

-----------------------------------------------------------------------------
(* The tokens.                                                               *)

\* hasValidSession: a token is there that is not known to be expired.
HasValidSession == store # 0 /\ pairs[store] # "neither"

Accepted(p) == p # 0 /\ pairs[p] = "both"

Issue(new) ==
  /\ pairs[new] = None /\ \A p \in 1 .. new - 1 : pairs[p] # None
  /\ pairs' = [pairs EXCEPT ![new] = "both"]

\* A pair the browser still holds somewhere; what becomes of the others is seen by
\* no one.
Held(p) ==
  \/ p = store
  \/ \E c \in Calls : call[c] # None /\ call[c].pair = p
  \/ \E t \in Tabs : exchange[t] # None /\ p \in {exchange[t].pair, exchange[t].got}

Expire(p) ==
  /\ pairs[p] # None /\ pairs[p] # "neither" /\ Held(p)
  /\ pairs' = [pairs EXCEPT ![p] = IF @ = "both" THEN "refresh" ELSE "neither"]
  /\ UNCHANGED <<store, tab, call, exchange, presented>>

-----------------------------------------------------------------------------
(* The routes and their guards.                                              *)

\* The tab leaves its page; the load of that page is not waited for any more.
Left(t) == [c \in Calls |->
             IF call[c] # None /\ call[c].tab = t /\ call[c].kind = "load"
             THEN [call[c] EXCEPT !.live = FALSE] ELSE call[c]]

At(t, page, auth) ==
  tab' = [tab EXCEPT ![t] = [page |-> page, checked |-> page = "recherche", auth |-> auth]]

Navigate(t, page) ==
  /\ tab[t].checked /\ tab[t].page # page
  /\ At(t, page, tab[t].auth)
  /\ call' = Left(t)
  /\ UNCHANGED <<store, pairs, exchange, presented>>

\* Slip: RequireAuth wants an access token, where the other guard takes a refresh
\* token too.
ProfilAllowedByAccess(t) == Accepted(store)

ProfilAllowed(t) == HasValidSession

\* RequireAuth and RedirectIfAuthenticated, as they mount or see the context
\* change: they redirect or let through, and put the context right.
Guard(t) ==
  /\ ~tab[t].checked
  /\ tab' = [tab EXCEPT ![t] =
       IF tab[t].page = "profil" /\ ~ProfilAllowed(t)
       THEN [page |-> "connexion", checked |-> FALSE, auth |-> ProfilAllowed(t)]
       ELSE IF tab[t].page = "connexion" /\ HasValidSession
       THEN [page |-> "profil", checked |-> FALSE, auth |-> HasValidSession]
       ELSE [page |-> tab[t].page, checked |-> TRUE, auth |-> (tab[t].page = "profil")]]
  /\ call' = Left(t)
  /\ UNCHANGED <<store, pairs, exchange, presented>>

\* logout(), with the navigation to the search in one transition.
Logout(t) ==
  /\ tab[t].checked /\ tab[t].page = "profil"
  /\ store' = 0
  /\ At(t, "recherche", FALSE)
  /\ call' = Left(t)
  /\ UNCHANGED <<pairs, exchange, presented>>

\* The tab is reloaded: its calls and its exchange are forgotten, and the context
\* is what the storage says.
Reload(t) ==
  /\ At(t, tab[t].page, HasValidSession)
  /\ call' = [c \in Calls |-> IF call[c] # None /\ call[c].tab = t THEN None ELSE call[c]]
  /\ exchange' = [exchange EXCEPT ![t] = None]
  /\ presented' = [presented EXCEPT ![t] = 0]
  /\ UNCHANGED <<store, pairs>>

-----------------------------------------------------------------------------
(* authRequest.                                                              *)

New(t, kind, live, p) == [tab |-> t, kind |-> kind, live |-> live, at |-> "sent", pair |-> p]

\* login(), whose tokens are saved before the profile is asked for.
Login(t, c, p) ==
  /\ tab[t].checked /\ tab[t].page = "connexion" /\ call[c] = None
  /\ \A d \in Calls : call[d] # None => ~(call[d].tab = t /\ call[d].kind = "login")
  /\ Issue(p)
  /\ store' = p
  /\ call' = [call EXCEPT ![c] = New(t, "login", TRUE, p)]
  /\ UNCHANGED <<tab, exchange, presented>>

\* A call with the access token of the moment, if any.
Send(t, c, load) ==
  /\ tab[t].checked /\ call[c] = None
  /\ IF load THEN tab[t].page = "profil" ELSE tab[t].auth
  /\ call' = [call EXCEPT ![c] = New(t, "load", load, store)]
  /\ UNCHANGED <<store, pairs, tab, exchange, presented>>

\* What the caller does of the end of a call: a login goes to its destination,
\* whatever came of the profile; a load that ends the session leaves the page.
CallerReacts(c, sessionOver) ==
  LET t == call[c].tab IN
  CASE call[c].kind = "login" -> \E page \in {"recherche", "profil"} : At(t, page, TRUE)
    [] call[c].kind = "load" /\ call[c].live /\ sessionOver -> At(t, "connexion", FALSE)
    [] OTHER -> UNCHANGED tab

\* Success, or an error other than 401, for a call or its replay.
Succeeds(c) ==
  /\ call[c] # None /\ call[c].at # "waiting" /\ Accepted(call[c].pair)
  /\ CallerReacts(c, FALSE)
  /\ call' = [call EXCEPT ![c] = None]
  /\ UNCHANGED <<store, pairs, exchange, presented>>

Fails(c) ==
  /\ call[c] # None /\ call[c].at = "sent"
  /\ CallerReacts(c, FALSE)
  /\ call' = [call EXCEPT ![c] = None]
  /\ UNCHANGED <<store, pairs, exchange, presented>>

\* Any error of the replay ends the session: the tokens are cleared.
ReplayFails(c) ==
  /\ call[c] # None /\ call[c].at = "replayed"
  /\ store' = 0
  /\ CallerReacts(c, TRUE)
  /\ call' = [call EXCEPT ![c] = None]
  /\ UNCHANGED <<pairs, exchange, presented>>

\* Slip: every call that is refused starts an exchange of its own.
ExchangeAlways(t) ==
  /\ exchange' = [exchange EXCEPT ![t] = [pair |-> store, got |-> 0, at |-> "asked"]]
  /\ presented' = [presented EXCEPT ![t] = IF store = 0 THEN @ ELSE store]

\* Slip: an exchange is asked for without looking whether there is a token to present.
ExchangeOfNothing(t) ==
  IF exchange[t] # None THEN UNCHANGED <<exchange, presented>>
  ELSE /\ exchange' = [exchange EXCEPT ![t] = [pair |-> store, got |-> 0, at |-> "asked"]]
       /\ presented' = [presented EXCEPT ![t] = IF store = 0 THEN @ ELSE store]

\* refreshAccessToken: the exchange under way in the tab, or a new one with the
\* refresh token of the moment; without one it is refused at once.
JoinExchange(t) ==
  IF exchange[t] # None THEN UNCHANGED <<exchange, presented>>
  ELSE /\ exchange' = [exchange EXCEPT ![t] =
            IF store = 0 THEN Refused ELSE [pair |-> store, got |-> 0, at |-> "asked"]]
       /\ presented' = [presented EXCEPT ![t] = IF store = 0 THEN @ ELSE store]

\* 401: the access token is missing or has expired.
Unauthorized(c) ==
  /\ call[c] # None /\ call[c].at = "sent" /\ ~Accepted(call[c].pair)
  /\ JoinExchange(call[c].tab)
  /\ call' = [call EXCEPT ![c].at = "waiting", ![c].pair = 0]
  /\ UNCHANGED <<store, pairs, tab>>

\* POST /auth/refresh: a new pair.
ServeExchange(t, p) ==
  /\ exchange[t] # None /\ exchange[t].at = "asked"
  /\ pairs[exchange[t].pair] # "neither"
  /\ Issue(p)
  /\ exchange' = [exchange EXCEPT ![t] = [pair |-> 0, got |-> p, at |-> "answered"]]
  /\ UNCHANGED <<store, tab, call, presented>>

\* The exchange is refused, or it fails, or its answer is lost.
ExchangeFails(t) ==
  /\ exchange[t] # None /\ exchange[t].at \in {"asked", "answered"}
  /\ exchange' = [exchange EXCEPT ![t] = Refused]
  /\ UNCHANGED <<store, pairs, tab, call, presented>>

Waiting(t) == {c \in Calls : call[c] # None /\ call[c].tab = t /\ call[c].at = "waiting"}

\* Slip: only one of the calls that wait is replayed.
ReplayFirst(t) ==
  \E c \in Waiting(t) : call' = [call EXCEPT ![c].at = "replayed", ![c].pair = exchange[t].got]

\* Every call that waits is replayed with the new access token.
Replay(t) ==
  call' = [c \in Calls |-> IF c \in Waiting(t)
                           THEN [call[c] EXCEPT !.at = "replayed", !.pair = exchange[t].got]
                           ELSE call[c]]

SaveTokens(t) == store' = exchange[t].got

Exchanged(t) ==
  /\ exchange[t] # None /\ exchange[t].at = "answered"
  /\ SaveTokens(t)
  /\ Replay(t)
  /\ exchange' = [exchange EXCEPT ![t] = None]
  /\ UNCHANGED <<pairs, tab, presented>>

\* The calls that wait all fail, and the session with them.
SessionOver(t) ==
  /\ exchange[t] # None /\ exchange[t].at = "refused"
  /\ store' = 0
  /\ LET reacting == {c \in Waiting(t) : call[c].kind = "login" \/ call[c].live} IN
       IF reacting = {} THEN UNCHANGED tab ELSE \E c \in reacting : CallerReacts(c, TRUE)
  /\ call' = [c \in Calls |-> IF c \in Waiting(t) THEN None ELSE call[c]]
  /\ exchange' = [exchange EXCEPT ![t] = None]
  /\ UNCHANGED <<pairs, presented>>

-----------------------------------------------------------------------------
Next ==
  \/ \E t \in Tabs :
       \/ \E page \in {"connexion", "profil", "recherche"} : Navigate(t, page)
       \/ Guard(t) \/ Logout(t) \/ Reload(t)
       \/ \E c \in Calls, p \in Pair : Login(t, c, p)
       \/ \E c \in Calls, load \in BOOLEAN : Send(t, c, load)
       \/ \E p \in Pair : ServeExchange(t, p)
       \/ ExchangeFails(t) \/ Exchanged(t) \/ SessionOver(t)
  \/ \E c \in Calls : Succeeds(c) \/ Fails(c) \/ ReplayFails(c) \/ Unauthorized(c)
  \/ \E p \in Pair : Expire(p)

Spec == Init /\ [][Next]_vars

\* React renders the guard of a page that mounts, or whose context changes.
FairSpec == Spec /\ \A t \in Tabs : WF_vars(Guard(t))

-----------------------------------------------------------------------------
(* What the browser's session promises.                                      *)

\* "rejouer /auth/refresh avec un token deja consomme est traite comme un rejeu et
\* revoque toute la session": however many calls are refused at once or late, a
\* tab never presents a refresh token twice, unless it is reloaded meanwhile (what
\* the grace window of the server is for).
NeverPresentedTwice ==
  [][\A t \in Tabs :
       (exchange'[t] # None /\ exchange'[t].at = "asked" /\ exchange'[t] # exchange[t])
       => exchange'[t].pair # presented[t]]_vars

\* No call waits for ever: while it waits, its tab has an exchange under way that
\* will settle it.
WaitersAreAwaited ==
  \A c \in Calls : call[c] # None /\ call[c].at = "waiting" => exchange[call[c].tab] # None

\* The guards redirect to each other's pages (RequireAuth to /connexion,
\* RedirectIfAuthenticated away from it), each by what it reads when it renders, with
\* other tabs, expiries and answers in between.  Once the session stays, or stays
\* away, they must agree: no tab goes on being redirected.
RedirectsSettle ==
  (<>[]HasValidSession \/ <>[]~HasValidSession) => \A t \in Tabs : []<>tab[t].checked

\* "Si le rafraichissement echoue aussi (refresh token expire/invalide), nettoie
\* les jetons stockes": tokens that were just exchanged are not cleared, except by
\* the user.
ClearedOnlyWhenRefused ==
  [][\A c \in Calls :
       (call[c] # None /\ call[c].at = "replayed" /\ call'[c] = None /\ Accepted(call[c].pair))
       => store' = store]_vars
=============================================================================
