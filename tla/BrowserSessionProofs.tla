------------------------- MODULE BrowserSessionProofs -------------------------
(***************************************************************************)
(* Theorems about BrowserSession, for any tabs, calls and number of pairs.       *)
(***************************************************************************)
EXTENDS BrowserSession, TLAPS

Answered(t) == exchange[t] # None /\ exchange[t].at = "answered"
Got(t, p) == exchange[t] # None /\ exchange[t].got = p

\* A pair that was not issued is nowhere.
OnlyIssued ==
  \A p \in Pair : pairs[p] = None =>
    store # p /\ \A t \in Tabs : presented[t] # p /\ ~Got(t, p)

\* The pair an exchange was answered is not stored yet, was never presented, and is
\* no other exchange's.
AnswersAreNew ==
  \A t \in Tabs : Answered(t) =>
    /\ store # exchange[t].got
    /\ \A u \in Tabs : presented[u] # exchange[t].got /\ (Got(u, exchange[t].got) => u = t)

\* Once its exchange is over, what a tab presented is not stored any more, by any tab.
SpentNotStored ==
  \A t \in Tabs : exchange[t] = None /\ presented[t] # 0 => store # presented[t]

Tokens == OnlyIssued /\ AnswersAreNew /\ SpentNotStored

IInv == TypeOK /\ Tokens /\ WaitersAreAwaited

-----------------------------------------------------------------------------
USE ConstantsAssumption, NullAssumption

LEMMA ExchangeTypes ==
  ASSUME TypeOK, NEW t \in Tabs
  PROVE  /\ exchange[t] \in Exchange \cup {None}
         /\ exchange[t] # None =>
              /\ exchange[t].pair \in 0 .. MaxPair /\ exchange[t].got \in 0 .. MaxPair
              /\ exchange[t].at = "asked" => exchange[t].pair \in Pair /\ exchange[t].got = 0
              /\ exchange[t].at = "answered" => exchange[t].got \in Pair
              /\ exchange[t].at = "refused" => exchange[t].got = 0
              /\ exchange[t].at \in {"asked", "answered", "refused"}
         /\ presented[t] \in 0 .. MaxPair
         /\ store \in 0 .. MaxPair
<1>1. exchange[t] \in Exchange \cup {None}
  BY DEF TypeOK
<1>2. CASE exchange[t] \in [pair : Pair, got : {0}, at : {"asked"}]
  BY <1>1, <1>2 DEF Pair, TypeOK
<1>3. CASE exchange[t] \in [pair : {0}, got : Pair, at : {"answered"}]
  BY <1>1, <1>3 DEF Pair, TypeOK
<1>4. CASE exchange[t] \in {Refused}
  BY <1>1, <1>4 DEF Refused, TypeOK
<1>5. CASE exchange[t] = None
  BY <1>1, <1>5 DEF TypeOK
<1> QED
  BY <1>1, <1>2, <1>3, <1>4, <1>5 DEF Exchange

LEMMA CallTypes ==
  ASSUME TypeOK, NEW c \in Calls, call[c] # None
  PROVE  /\ call[c] \in Call /\ call[c].tab \in Tabs
         /\ call[c].kind \in {"load", "login"} /\ call[c].live \in BOOLEAN
         /\ call[c].at \in {"sent", "waiting", "replayed"} /\ call[c].pair \in 0 .. MaxPair
  BY DEF TypeOK, Call

\* What a step may do to the tabs: whatever route and context, for one of them.
AnyTab == \E t \in Tabs, page \in {"connexion", "profil", "recherche"}, checked, auth \in BOOLEAN :
            tab' = [tab EXCEPT ![t] = [page |-> page, checked |-> checked, auth |-> auth]]

LEMMA TabTypes ==
  ASSUME TypeOK, AnyTab \/ UNCHANGED tab
  PROVE  tab' \in [Tabs -> Tab]
<1>1. CASE AnyTab
  <2>1. PICK t \in Tabs, page \in {"connexion", "profil", "recherche"},
             checked \in BOOLEAN, auth \in BOOLEAN :
          tab' = [tab EXCEPT ![t] = [page |-> page, checked |-> checked, auth |-> auth]]
    BY <1>1 DEF AnyTab
  <2>2. [page |-> page, checked |-> checked, auth |-> auth] \in Tab
    BY DEF Tab
  <2> QED
    BY <2>1, <2>2 DEF TypeOK
<1> QED
  BY <1>1 DEF TypeOK

LEMMA AtTypes ==
  ASSUME TypeOK, NEW t \in Tabs, NEW page \in {"connexion", "profil", "recherche"},
         NEW auth \in BOOLEAN, At(t, page, auth)
  PROVE  AnyTab
  BY Zenon DEF At, AnyTab

LEMMA ReactsTypes ==
  ASSUME TypeOK, NEW c \in Calls, call[c] # None, NEW over \in BOOLEAN, CallerReacts(c, over)
  PROVE  AnyTab \/ UNCHANGED tab
<1> DEFINE t == call[c].tab
<1>1. t \in Tabs /\ call[c].kind \in {"load", "login"}
  BY CallTypes
<1>2. CASE call[c].kind = "login"
  <2>1. \E page \in {"recherche", "profil"} : At(t, page, TRUE)
    BY <1>2 DEF CallerReacts
  <2> QED
    BY <1>1, <2>1, AtTypes
<1>3. CASE call[c].kind # "login" /\ call[c].live /\ over
  <2>1. At(t, "connexion", FALSE)
    BY <1>1, <1>3 DEF CallerReacts
  <2> QED
    BY <1>1, <2>1, AtTypes
<1>4. CASE call[c].kind # "login" /\ ~(call[c].live /\ over)
  BY <1>1, <1>4 DEF CallerReacts
<1> QED
  BY <1>2, <1>3, <1>4

\* What a step may do to the calls without making one wait: end some, send one, or
\* change what is asked of them.
NoneWaits ==
  /\ call' \in [Calls -> Call \cup {None}]
  /\ \A c \in Calls : call'[c] # None /\ call'[c].at = "waiting" =>
       call[c] # None /\ call[c].at = "waiting" /\ call'[c].tab = call[c].tab

LEMMA LeftWaits ==
  ASSUME TypeOK, NEW t \in Tabs, call' = Left(t)
  PROVE  NoneWaits
<1>1. ASSUME NEW c \in Calls
      PROVE  /\ call'[c] \in Call \cup {None}
             /\ call'[c] # None => /\ call[c] # None
                                  /\ call'[c].at = call[c].at /\ call'[c].tab = call[c].tab
  <2>1. CASE call[c] # None /\ call[c].tab = t /\ call[c].kind = "load"
    <3>1. call'[c] = [call[c] EXCEPT !.live = FALSE]
      BY <2>1 DEF Left
    <3>2. call[c] \in Call
      BY <2>1, CallTypes
    <3> QED
      BY <2>1, <3>1, <3>2 DEF Call
  <2>2. CASE ~(call[c] # None /\ call[c].tab = t /\ call[c].kind = "load")
    BY <2>2 DEF Left, TypeOK
  <2> QED
    BY <2>1, <2>2
<1>2. call' \in [Calls -> Call \cup {None}]
  BY <1>1 DEF Left
<1> QED
  BY <1>1, <1>2 DEF NoneWaits

LEMMA EndsWaits ==
  ASSUME TypeOK, NEW S, call' = [c \in Calls |-> IF c \in S THEN None ELSE call[c]]
  PROVE  NoneWaits
  BY DEF TypeOK, NoneWaits

LEMMA EndWaits ==
  ASSUME TypeOK, NEW c \in Calls, call' = [call EXCEPT ![c] = None] \/ UNCHANGED call
  PROVE  NoneWaits
  BY DEF TypeOK, NoneWaits

LEMMA NewWaits ==
  ASSUME TypeOK, NEW c \in Calls, NEW t \in Tabs, NEW kind \in {"load", "login"},
         NEW live \in BOOLEAN, NEW p \in 0 .. MaxPair,
         call' = [call EXCEPT ![c] = New(t, kind, live, p)]
  PROVE  NoneWaits
<1>1. New(t, kind, live, p) \in Call /\ New(t, kind, live, p).at = "sent"
  BY DEF New, Call
<1> QED
  BY <1>1 DEF TypeOK, NoneWaits

LEMMA ReplayWaits ==
  ASSUME TypeOK, NEW t \in Tabs, exchange[t] # None, Replay(t)
  PROVE  NoneWaits /\ \A c \in Calls : call'[c] # None /\ call'[c].at = "waiting" => call'[c].tab # t
<1>1. ASSUME NEW c \in Calls
      PROVE  /\ call'[c] \in Call \cup {None}
             /\ call'[c] # None /\ call'[c].at = "waiting" =>
                  call'[c] = call[c] /\ call[c].tab # t
  <2>1. CASE c \in Waiting(t)
    <3>1. call'[c] = [call[c] EXCEPT !.at = "replayed", !.pair = exchange[t].got]
      BY <2>1 DEF Replay
    <3>2. call[c] \in Call /\ exchange[t].got \in 0 .. MaxPair
      BY <2>1, CallTypes, ExchangeTypes DEF Waiting
    <3>3. call'[c] \in Call /\ call'[c].at = "replayed"
      BY <3>1, <3>2 DEF Call
    <3> QED
      BY <3>3
  <2>2. CASE c \notin Waiting(t)
    BY <2>2 DEF Replay, Waiting, TypeOK
  <2> QED
    BY <2>1, <2>2
<1>2. call' \in [Calls -> Call \cup {None}]
  BY <1>1 DEF Replay
<1> QED
  BY <1>1, <1>2 DEF NoneWaits

-----------------------------------------------------------------------------
(* The steps, and what they do to the tokens.                                *)

TokenTypes ==
  /\ store' \in 0 .. MaxPair
  /\ pairs' \in [Pair -> Usable \cup {None}]
  /\ exchange' \in [Tabs -> Exchange \cup {None}]
  /\ presented' \in [Tabs -> 0 .. MaxPair]

\* Nothing is issued, asked or answered; the tokens are left or cleared, and a pair
\* may expire.
Spends ==
  /\ store' \in {store, 0}
  /\ pairs' \in [Pair -> Usable \cup {None}]
  /\ \A p \in Pair : pairs'[p] = None => pairs[p] = None
  /\ UNCHANGED <<exchange, presented>>

LEMMA SpendsTokens ==
  ASSUME IInv, Spends
  PROVE  TokenTypes /\ Tokens'
<1>1. TokenTypes
  BY DEF TokenTypes, Spends, IInv, TypeOK
<1>2. OnlyIssued'
  BY DEF IInv, Tokens, OnlyIssued, Spends, Got, Pair
<1>3. AnswersAreNew'
  <2> SUFFICES ASSUME NEW t \in Tabs, Answered(t)
               PROVE  /\ store' # exchange[t].got
                      /\ \A u \in Tabs : presented[u] # exchange[t].got
                                         /\ (Got(u, exchange[t].got) => u = t)
    BY DEF AnswersAreNew, Answered, Got, Spends
  <2>1. exchange[t].got # 0
    BY ExchangeTypes DEF IInv, Answered, Pair
  <2> QED
    BY <2>1 DEF IInv, Tokens, AnswersAreNew, Spends
<1>4. SpentNotStored'
  BY DEF IInv, Tokens, SpentNotStored, Spends
<1> QED
  BY <1>1, <1>2, <1>3, <1>4 DEF Tokens

LEMMA IssueTypes ==
  ASSUME TypeOK, NEW p \in Pair, Issue(p)
  PROVE  /\ pairs[p] = None /\ pairs'[p] # None
         /\ pairs' \in [Pair -> Usable \cup {None}]
         /\ \A q \in Pair : q # p => pairs'[q] = pairs[q]
  BY DEF TypeOK, Issue, Usable

LEMMA LoginTokens ==
  ASSUME IInv, NEW t \in Tabs, NEW c \in Calls, NEW p \in Pair, Login(t, c, p)
  PROVE  TokenTypes /\ Tokens'
<1>1. /\ TypeOK /\ pairs[p] = None /\ pairs'[p] # None
      /\ pairs' \in [Pair -> Usable \cup {None}]
      /\ \A q \in Pair : q # p => pairs'[q] = pairs[q]
      /\ store' = p /\ UNCHANGED <<exchange, presented>>
  BY IssueTypes DEF IInv, Login
<1>2. TokenTypes
  BY <1>1 DEF TokenTypes, TypeOK, Pair
<1>3. \A u \in Tabs : presented[u] # p /\ ~Got(u, p)
  BY <1>1 DEF IInv, Tokens, OnlyIssued
<1>4. OnlyIssued'
  BY <1>1 DEF IInv, Tokens, OnlyIssued, Got
<1>5. AnswersAreNew'
  BY <1>1, <1>3 DEF IInv, Tokens, AnswersAreNew, Answered, Got
<1>6. SpentNotStored'
  BY <1>1, <1>3 DEF IInv, Tokens, SpentNotStored
<1> QED
  BY <1>2, <1>4, <1>5, <1>6 DEF Tokens

\* What a step does to the exchange of one tab.
LEMMA OneExchange ==
  ASSUME TypeOK, NEW t \in Tabs, NEW e \in Exchange \cup {None}, exchange' = [exchange EXCEPT ![t] = e]
  PROVE  /\ exchange' \in [Tabs -> Exchange \cup {None}] /\ exchange'[t] = e
         /\ \A u \in Tabs : u # t => exchange'[u] = exchange[u]
  BY DEF TypeOK

LEMMA ReloadTokens ==
  ASSUME IInv, NEW t \in Tabs, exchange' = [exchange EXCEPT ![t] = None],
         presented' = [presented EXCEPT ![t] = 0], UNCHANGED <<store, pairs>>
  PROVE  TokenTypes /\ Tokens'
<1>1. /\ TypeOK /\ exchange' \in [Tabs -> Exchange \cup {None}] /\ exchange'[t] = None
      /\ \A u \in Tabs : u # t => exchange'[u] = exchange[u]
  BY OneExchange DEF IInv
<1>2. /\ presented' \in [Tabs -> 0 .. MaxPair] /\ presented'[t] = 0
      /\ \A u \in Tabs : u # t => presented'[u] = presented[u]
  BY <1>1 DEF TypeOK
<1>3. TokenTypes
  BY <1>1, <1>2 DEF TokenTypes, TypeOK
<1>4. OnlyIssued'
  BY <1>1, <1>2 DEF IInv, Tokens, OnlyIssued, Got, Pair
<1>5. AnswersAreNew'
  <2> SUFFICES ASSUME NEW u \in Tabs, Answered(u)'
               PROVE  /\ store # exchange'[u].got
                      /\ \A v \in Tabs : presented'[v] # exchange'[u].got
                                         /\ (exchange'[v] # None /\ exchange'[v].got = exchange'[u].got => v = u)
    BY DEF AnswersAreNew, Got
  <2>1. u # t /\ exchange'[u] = exchange[u] /\ Answered(u)
    BY <1>1 DEF Answered
  <2>2. exchange[u].got # 0
    BY <1>1, <2>1, ExchangeTypes DEF Answered, Pair
  <2> QED
    BY <1>1, <1>2, <2>1, <2>2 DEF IInv, Tokens, AnswersAreNew, Got
<1>6. SpentNotStored'
  BY <1>1, <1>2 DEF IInv, Tokens, SpentNotStored
<1> QED
  BY <1>3, <1>4, <1>5, <1>6 DEF Tokens

LEMMA JoinTokens ==
  ASSUME IInv, NEW t \in Tabs, JoinExchange(t), UNCHANGED <<store, pairs>>
  PROVE  TokenTypes /\ Tokens' /\ exchange'[t] # None
         /\ \A u \in Tabs : exchange[u] # None => exchange'[u] = exchange[u]
<1>0. TypeOK
  BY DEF IInv
<1>1. CASE exchange[t] # None
  <2>1. UNCHANGED <<exchange, presented>>
    BY <1>1 DEF JoinExchange
  <2>2. Spends
    BY <1>0, <2>1 DEF Spends, TypeOK
  <2> QED
    BY <1>1, <2>1, <2>2, SpendsTokens
<1>2. CASE exchange[t] = None
  <2> DEFINE e == IF store = 0 THEN Refused ELSE [pair |-> store, got |-> 0, at |-> "asked"]
  <2>1. e \in Exchange /\ e.got = 0 /\ e.at # "answered" /\ e # None
    <3>1. store # 0 => store \in Pair
      BY <1>0 DEF TypeOK, Pair
    <3>2. e \in Exchange /\ e.got = 0 /\ e.at # "answered"
      BY <3>1 DEF Exchange, Refused
    <3> QED
      BY <3>2
  <2>2. /\ exchange' \in [Tabs -> Exchange \cup {None}] /\ exchange'[t] = e
        /\ \A u \in Tabs : u # t => exchange'[u] = exchange[u]
    <3>1. exchange' = [exchange EXCEPT ![t] = e]
      BY <1>2 DEF JoinExchange
    <3> HIDE DEF e
    <3> QED
      BY <1>0, <2>1, <3>1, OneExchange
  <2>3. /\ presented' \in [Tabs -> 0 .. MaxPair]
        /\ presented'[t] \in {presented[t], store}
        /\ \A u \in Tabs : u # t => presented'[u] = presented[u]
    BY <1>0, <1>2 DEF JoinExchange, TypeOK
  <2> HIDE DEF e
  <2>4. TokenTypes
    BY <1>0, <2>2, <2>3 DEF TokenTypes, TypeOK
  <2>5. OnlyIssued'
    BY <2>1, <2>2, <2>3 DEF IInv, Tokens, OnlyIssued, Got, Pair
  <2>6. AnswersAreNew'
    <3> SUFFICES ASSUME NEW u \in Tabs, Answered(u)'
                 PROVE  /\ store # exchange'[u].got
                        /\ \A v \in Tabs : presented'[v] # exchange'[u].got
                                           /\ (exchange'[v] # None /\ exchange'[v].got = exchange'[u].got => v = u)
      BY DEF AnswersAreNew, Got
    <3>1. u # t /\ exchange'[u] = exchange[u] /\ Answered(u)
      BY <2>1, <2>2 DEF Answered
    <3>2. exchange[u].got # 0
      BY <1>0, <3>1, ExchangeTypes DEF Answered, Pair
    <3> QED
      BY <2>1, <2>2, <2>3, <3>1, <3>2 DEF IInv, Tokens, AnswersAreNew, Got
  <2>7. SpentNotStored'
    BY <2>1, <2>2, <2>3 DEF IInv, Tokens, SpentNotStored
  <2> QED
    BY <1>2, <2>1, <2>2, <2>4, <2>5, <2>6, <2>7 DEF Tokens
<1> QED
  BY <1>1, <1>2

LEMMA ServeTokens ==
  ASSUME IInv, NEW t \in Tabs, NEW p \in Pair, ServeExchange(t, p)
  PROVE  TokenTypes /\ Tokens' /\ exchange'[t] # None
         /\ \A u \in Tabs : u # t => exchange'[u] = exchange[u]
<1> DEFINE e == [pair |-> 0, got |-> p, at |-> "answered"]
<1>1. /\ TypeOK /\ pairs[p] = None /\ pairs'[p] # None
      /\ pairs' \in [Pair -> Usable \cup {None}]
      /\ \A q \in Pair : q # p => pairs'[q] = pairs[q]
      /\ exchange[t] # None /\ exchange[t].at = "asked"
      /\ UNCHANGED <<store, presented>>
  BY IssueTypes DEF IInv, ServeExchange
<1>2. e \in Exchange /\ e # None
  <2>1. e \in Exchange
    BY DEF Exchange
  <2> QED
    BY <2>1
<1>3. /\ exchange' \in [Tabs -> Exchange \cup {None}] /\ exchange'[t] = e
      /\ \A u \in Tabs : u # t => exchange'[u] = exchange[u]
  BY <1>1, <1>2, OneExchange DEF ServeExchange
<1>4. store # p /\ \A u \in Tabs : presented[u] # p /\ ~Got(u, p)
  BY <1>1 DEF IInv, Tokens, OnlyIssued
<1>5. TokenTypes
  BY <1>1, <1>3 DEF TokenTypes, TypeOK
<1>6. OnlyIssued'
  BY <1>1, <1>3 DEF IInv, Tokens, OnlyIssued, Got
<1>7. AnswersAreNew'
  <2> SUFFICES ASSUME NEW u \in Tabs, Answered(u)'
               PROVE  /\ store # exchange'[u].got
                      /\ \A v \in Tabs : presented[v] # exchange'[u].got
                                         /\ (exchange'[v] # None /\ exchange'[v].got = exchange'[u].got => v = u)
    BY <1>1 DEF AnswersAreNew, Got
  <2>1. CASE u = t
    BY <1>3, <1>4, <2>1 DEF Got
  <2>2. CASE u # t
    <3>1. exchange'[u] = exchange[u] /\ Answered(u)
      BY <1>3, <2>2 DEF Answered
    <3>2. exchange[u].got # p
      BY <1>4, <3>1 DEF Got, Answered
    <3> QED
      BY <1>3, <3>1, <3>2 DEF IInv, Tokens, AnswersAreNew, Got
  <2> QED
    BY <2>1, <2>2
<1>8. SpentNotStored'
  BY <1>1, <1>2, <1>3 DEF IInv, Tokens, SpentNotStored
<1> QED
  BY <1>2, <1>3, <1>5, <1>6, <1>7, <1>8 DEF Tokens

LEMMA FailsTokens ==
  ASSUME IInv, NEW t \in Tabs, ExchangeFails(t)
  PROVE  TokenTypes /\ Tokens' /\ exchange'[t] # None
         /\ \A u \in Tabs : u # t => exchange'[u] = exchange[u]
<1>1. TypeOK /\ exchange[t] # None /\ UNCHANGED <<store, pairs, presented>>
  BY DEF IInv, ExchangeFails
<1>2. Refused \in Exchange /\ Refused.got = 0 /\ Refused.at = "refused" /\ Refused # None
  <2>1. Refused \in Exchange
    BY DEF Exchange
  <2> QED
    BY <2>1 DEF Refused
<1>3. /\ exchange' \in [Tabs -> Exchange \cup {None}] /\ exchange'[t] = Refused
      /\ \A u \in Tabs : u # t => exchange'[u] = exchange[u]
  BY <1>1, <1>2, OneExchange DEF ExchangeFails
<1>4. TokenTypes
  BY <1>1, <1>3 DEF TokenTypes, TypeOK
<1>5. OnlyIssued'
  BY <1>1, <1>2, <1>3 DEF IInv, Tokens, OnlyIssued, Got, Pair
<1>6. AnswersAreNew'
  <2> SUFFICES ASSUME NEW u \in Tabs, Answered(u)'
               PROVE  /\ store # exchange'[u].got
                      /\ \A v \in Tabs : presented[v] # exchange'[u].got
                                         /\ (exchange'[v] # None /\ exchange'[v].got = exchange'[u].got => v = u)
    BY <1>1 DEF AnswersAreNew, Got
  <2>1. u # t /\ exchange'[u] = exchange[u] /\ Answered(u)
    BY <1>2, <1>3 DEF Answered
  <2>2. exchange[u].got # 0
    BY <1>1, <2>1, ExchangeTypes DEF Answered, Pair
  <2> QED
    BY <1>2, <1>3, <2>1, <2>2 DEF IInv, Tokens, AnswersAreNew, Got
<1>7. SpentNotStored'
  BY <1>1, <1>2, <1>3 DEF IInv, Tokens, SpentNotStored
<1> QED
  BY <1>2, <1>3, <1>4, <1>5, <1>6, <1>7 DEF Tokens

\* An exchange that is over stores its answer, or nothing: never what was presented.
LEMMA EndTokens ==
  ASSUME IInv, NEW t \in Tabs, exchange[t] # None, exchange' = [exchange EXCEPT ![t] = None],
         store' = 0 \/ (Answered(t) /\ store' = exchange[t].got), UNCHANGED <<pairs, presented>>
  PROVE  TokenTypes /\ Tokens' /\ \A u \in Tabs : u # t => exchange'[u] = exchange[u]
<1>1. /\ TypeOK /\ exchange' \in [Tabs -> Exchange \cup {None}] /\ exchange'[t] = None
      /\ \A u \in Tabs : u # t => exchange'[u] = exchange[u]
  BY OneExchange DEF IInv
<1>2. store' \in 0 .. MaxPair
  BY <1>1, ExchangeTypes
<1>3. TokenTypes
  BY <1>1, <1>2 DEF TokenTypes, TypeOK
<1>4. \A u \in Tabs : store' # 0 => presented[u] # store' /\ (Got(u, store') => u = t)
  BY DEF IInv, Tokens, AnswersAreNew
<1>5. OnlyIssued'
  <2>1. \A p \in Pair : pairs[p] = None => store' # p
    BY DEF IInv, Tokens, OnlyIssued, Got, Answered, Pair
  <2> QED
    BY <1>1, <2>1 DEF IInv, Tokens, OnlyIssued, Got
<1>6. AnswersAreNew'
  <2> SUFFICES ASSUME NEW u \in Tabs, Answered(u)'
               PROVE  /\ store' # exchange'[u].got
                      /\ \A v \in Tabs : presented[v] # exchange'[u].got
                                         /\ (exchange'[v] # None /\ exchange'[v].got = exchange'[u].got => v = u)
    BY DEF AnswersAreNew, Got
  <2>1. u # t /\ exchange'[u] = exchange[u] /\ Answered(u)
    BY <1>1 DEF Answered
  <2>2. exchange[u].got # 0
    BY <1>1, <2>1, ExchangeTypes DEF Answered, Pair
  <2>3. store' # exchange[u].got
    BY <1>4, <2>1, <2>2 DEF Got, Answered
  <2> QED
    BY <1>1, <2>1, <2>3 DEF IInv, Tokens, AnswersAreNew, Got
<1>7. SpentNotStored'
  BY <1>4 DEF SpentNotStored
<1> QED
  BY <1>1, <1>3, <1>5, <1>6, <1>7 DEF Tokens

-----------------------------------------------------------------------------
(* Each step keeps the invariant.                                            *)

\* An exchange is over only when the calls that wait for it are.
LEMMA StepWaits ==
  ASSUME IInv, NoneWaits,
         \A c \in Calls : call'[c] # None /\ call'[c].at = "waiting" /\ exchange[call'[c].tab] # None
           => exchange'[call'[c].tab] # None
  PROVE  WaitersAreAwaited'
  BY DEF IInv, WaitersAreAwaited, NoneWaits

LEMMA Together ==
  ASSUME TokenTypes, tab' \in [Tabs -> Tab], NoneWaits, Tokens', WaitersAreAwaited'
  PROVE  IInv'
  BY DEF TokenTypes, NoneWaits, IInv, TypeOK

\* The steps that ask for no exchange and end none.
LEMMA SpendsIInv ==
  ASSUME IInv, Spends, AnyTab \/ UNCHANGED tab, NoneWaits
  PROVE  IInv'
<1>1. TokenTypes /\ Tokens'
  BY SpendsTokens
<1>2. tab' \in [Tabs -> Tab]
  BY TabTypes DEF IInv
<1>3. WaitersAreAwaited'
  BY StepWaits DEF Spends
<1> QED
  BY <1>1, <1>2, <1>3, Together

LEMMA RouteIInv ==
  ASSUME IInv, NEW t \in Tabs,
         \/ \E page \in {"connexion", "profil", "recherche"} : Navigate(t, page)
         \/ Guard(t) \/ Logout(t)
  PROVE  IInv'
<1>1. TypeOK /\ tab[t] \in Tab /\ tab[t].auth \in BOOLEAN /\ tab[t].page \in {"connexion", "profil", "recherche"}
  BY DEF IInv, TypeOK, Tab
<1>2. Spends
  BY <1>1 DEF Spends, Navigate, Guard, Logout, TypeOK
<1>3. NoneWaits
  BY <1>1, LeftWaits DEF Navigate, Guard, Logout
<1>4. AnyTab
  <2>1. ASSUME NEW page \in {"connexion", "profil", "recherche"}, Navigate(t, page) PROVE AnyTab
    BY <1>1, <2>1, AtTypes DEF Navigate
  <2>2. CASE Logout(t)
    BY <1>1, <2>2, AtTypes DEF Logout
  <2>3. CASE Guard(t)
    <3>1. \/ tab' = [tab EXCEPT ![t] = [page |-> "connexion", checked |-> FALSE, auth |-> ProfilAllowed(t)]]
          \/ tab' = [tab EXCEPT ![t] = [page |-> "profil", checked |-> FALSE, auth |-> HasValidSession]]
          \/ tab' = [tab EXCEPT ![t] = [page |-> tab[t].page, checked |-> TRUE, auth |-> (tab[t].page = "profil")]]
      BY <2>3, <1>1 DEF Guard, TypeOK
    <3>2. ProfilAllowed(t) \in BOOLEAN /\ HasValidSession \in BOOLEAN
      BY Zenon DEF ProfilAllowed, HasValidSession
    <3>3. (tab[t].page = "profil") \in BOOLEAN
      OBVIOUS
    <3>4. CASE tab' = [tab EXCEPT ![t] = [page |-> "connexion", checked |-> FALSE, auth |-> ProfilAllowed(t)]]
      BY <3>2, <3>4, Zenon DEF AnyTab
    <3>5. CASE tab' = [tab EXCEPT ![t] = [page |-> "profil", checked |-> FALSE, auth |-> HasValidSession]]
      BY <3>2, <3>5, Zenon DEF AnyTab
    <3>6. CASE tab' = [tab EXCEPT ![t] = [page |-> tab[t].page, checked |-> TRUE, auth |-> (tab[t].page = "profil")]]
      BY <1>1, <3>3, <3>6, Zenon DEF AnyTab
    <3> QED
      BY <3>1, <3>4, <3>5, <3>6
  <2> QED
    BY <2>1, <2>2, <2>3
<1> QED
  BY <1>2, <1>3, <1>4, SpendsIInv

LEMMA ExpireIInv ==
  ASSUME IInv, NEW p \in Pair, Expire(p)
  PROVE  IInv'
<1>1. TypeOK /\ None \notin {"refresh", "neither"}
  BY DEF IInv, Usable
<1>2. /\ pairs' \in [Pair -> Usable \cup {None}]
      /\ \A q \in Pair : pairs'[q] = None => pairs[q] = None
  BY <1>1 DEF Expire, TypeOK, Usable
<1>3. Spends
  BY <1>2 DEF Spends, Expire
<1>4. NoneWaits /\ UNCHANGED tab
  BY <1>1 DEF Expire, NoneWaits, TypeOK
<1> QED
  BY <1>3, <1>4, SpendsIInv

LEMMA CallIInv ==
  ASSUME IInv, NEW c \in Calls, Succeeds(c) \/ Fails(c) \/ ReplayFails(c)
  PROVE  IInv'
<1>1. TypeOK
  BY DEF IInv
<1>2. Spends
  BY <1>1 DEF Spends, Succeeds, Fails, ReplayFails, TypeOK
<1>3. NoneWaits
  BY <1>1, EndWaits DEF Succeeds, Fails, ReplayFails
<1>4. AnyTab \/ UNCHANGED tab
  BY <1>1, ReactsTypes DEF Succeeds, Fails, ReplayFails
<1> QED
  BY <1>2, <1>3, <1>4, SpendsIInv

LEMMA SendIInv ==
  ASSUME IInv, NEW t \in Tabs, NEW c \in Calls, NEW load \in BOOLEAN, Send(t, c, load)
  PROVE  IInv'
<1>1. TypeOK /\ store \in 0 .. MaxPair
  BY DEF IInv, TypeOK
<1>2. Spends /\ UNCHANGED tab
  BY <1>1 DEF Spends, Send, TypeOK
<1>3. NoneWaits
  BY <1>1, NewWaits DEF Send
<1> QED
  BY <1>2, <1>3, SpendsIInv

LEMMA LoginIInv ==
  ASSUME IInv, NEW t \in Tabs, NEW c \in Calls, NEW p \in Pair, Login(t, c, p)
  PROVE  IInv'
<1>1. TypeOK /\ p \in 0 .. MaxPair
  BY DEF IInv, Pair
<1>2. TokenTypes /\ Tokens'
  BY LoginTokens
<1>3. tab' \in [Tabs -> Tab]
  BY <1>1 DEF Login, TypeOK
<1>4. NoneWaits
  BY <1>1, NewWaits DEF Login
<1>5. WaitersAreAwaited'
  BY <1>4, StepWaits DEF Login
<1> QED
  BY <1>2, <1>3, <1>4, <1>5, Together

LEMMA ReloadIInv ==
  ASSUME IInv, NEW t \in Tabs, Reload(t)
  PROVE  IInv'
<1>1. TypeOK /\ tab[t].page \in {"connexion", "profil", "recherche"}
  BY DEF IInv, TypeOK, Tab
<1>2. TokenTypes /\ Tokens'
  BY ReloadTokens DEF Reload
<1>3. tab' \in [Tabs -> Tab]
  <2>1. HasValidSession \in BOOLEAN
    BY Zenon DEF HasValidSession
  <2> QED
    BY <1>1, <2>1, AtTypes, TabTypes DEF Reload
<1>4. NoneWaits
  BY <1>1 DEF Reload, NoneWaits, TypeOK
<1>5. \A c \in Calls : call'[c] # None => call'[c] = call[c] /\ call[c].tab # t
  BY DEF Reload
<1>6. WaitersAreAwaited'
  <2> SUFFICES ASSUME NEW c \in Calls, call'[c] # None, call'[c].at = "waiting"
               PROVE  exchange'[call'[c].tab] # None
    BY DEF WaitersAreAwaited
  <2>1. call'[c] = call[c] /\ call[c].tab # t /\ call[c].tab \in Tabs /\ exchange[call[c].tab] # None
    BY <1>1, <1>5, CallTypes DEF IInv, WaitersAreAwaited
  <2> QED
    BY <1>1, <2>1 DEF Reload, TypeOK
<1> QED
  BY <1>2, <1>3, <1>4, <1>6, Together

LEMMA UnauthorizedIInv ==
  ASSUME IInv, NEW c \in Calls, Unauthorized(c)
  PROVE  IInv'
<1> DEFINE t == call[c].tab
           new == [call[c] EXCEPT !.at = "waiting", !.pair = 0]
<1>1. TypeOK /\ call[c] \in Call /\ t \in Tabs
  BY CallTypes DEF IInv, Unauthorized
<1>2. new \in Call /\ new.tab = t /\ new # None
  <2>1. new \in Call /\ new.tab = t
    <3>1. 0 \in 0 .. MaxPair
      OBVIOUS
    <3> QED
      BY <1>1, <3>1 DEF Call
  <2> QED
    BY <2>1
<1>3. call' = [call EXCEPT ![c] = new]
  BY <1>1 DEF Unauthorized, TypeOK
<1>4. /\ call' \in [Calls -> Call \cup {None}] /\ call'[c] = new
      /\ \A d \in Calls : d # c => call'[d] = call[d]
  <2> HIDE DEF new
  <2> QED
    BY <1>1, <1>2, <1>3 DEF TypeOK
<1>5. /\ TokenTypes /\ Tokens' /\ exchange'[t] # None
      /\ \A u \in Tabs : exchange[u] # None => exchange'[u] = exchange[u]
  BY <1>1, JoinTokens DEF Unauthorized
<1>6. WaitersAreAwaited'
  <2> SUFFICES ASSUME NEW d \in Calls, call'[d] # None, call'[d].at = "waiting"
               PROVE  exchange'[call'[d].tab] # None
    BY DEF WaitersAreAwaited
  <2>1. CASE d = c
    BY <1>2, <1>4, <1>5, <2>1
  <2>2. CASE d # c
    <3>1. call'[d] = call[d] /\ call[d].tab \in Tabs /\ exchange[call[d].tab] # None
      BY <1>1, <1>4, <2>2, CallTypes DEF IInv, WaitersAreAwaited
    <3> QED
      BY <1>5, <3>1
  <2> QED
    BY <2>1, <2>2
<1> QED
  BY <1>1, <1>4, <1>5, <1>6 DEF IInv, TypeOK, TokenTypes, Unauthorized

LEMMA ServeIInv ==
  ASSUME IInv, NEW t \in Tabs, (\E p \in Pair : ServeExchange(t, p)) \/ ExchangeFails(t)
  PROVE  IInv'
<1>1. TypeOK /\ UNCHANGED <<tab, call>>
  BY DEF IInv, ServeExchange, ExchangeFails
<1>2. /\ TokenTypes /\ Tokens' /\ exchange'[t] # None
      /\ \A u \in Tabs : u # t => exchange'[u] = exchange[u]
  BY ServeTokens, FailsTokens
<1>3. WaitersAreAwaited'
  <2> SUFFICES ASSUME NEW c \in Calls, call[c] # None, call[c].at = "waiting"
               PROVE  exchange'[call[c].tab] # None
    BY <1>1 DEF WaitersAreAwaited
  <2>1. call[c].tab \in Tabs /\ exchange[call[c].tab] # None
    BY <1>1, CallTypes DEF IInv, WaitersAreAwaited
  <2> QED
    BY <1>2, <2>1
<1> QED
  BY <1>1, <1>2, <1>3 DEF IInv, TypeOK, TokenTypes

LEMMA ExchangedIInv ==
  ASSUME IInv, NEW t \in Tabs, Exchanged(t)
  PROVE  IInv'
<1>1. TypeOK /\ exchange[t] # None /\ Answered(t) /\ UNCHANGED tab
  BY DEF IInv, Exchanged, Answered
<1>2. TokenTypes /\ Tokens' /\ \A u \in Tabs : u # t => exchange'[u] = exchange[u]
  BY <1>1, EndTokens DEF Exchanged, SaveTokens
<1>3. NoneWaits /\ \A c \in Calls : call'[c] # None /\ call'[c].at = "waiting" => call'[c].tab # t
  BY <1>1, ReplayWaits DEF Exchanged
<1>4. WaitersAreAwaited'
  <2> SUFFICES ASSUME NEW c \in Calls, call'[c] # None, call'[c].at = "waiting"
               PROVE  exchange'[call'[c].tab] # None
    BY DEF WaitersAreAwaited
  <2>1. call[c] # None /\ call[c].at = "waiting" /\ call'[c].tab = call[c].tab /\ call[c].tab # t
    BY <1>3 DEF NoneWaits
  <2> QED
    BY <1>1, <1>2, <2>1, CallTypes DEF IInv, WaitersAreAwaited
<1> QED
  BY <1>1, <1>2, <1>3, <1>4, Together DEF TypeOK

LEMMA SessionOverIInv ==
  ASSUME IInv, NEW t \in Tabs, SessionOver(t)
  PROVE  IInv'
<1>1. TypeOK /\ exchange[t] # None
  BY DEF IInv, SessionOver
<1>2. TokenTypes /\ Tokens' /\ \A u \in Tabs : u # t => exchange'[u] = exchange[u]
  BY <1>1, EndTokens DEF SessionOver
<1>3. call' = [c \in Calls |-> IF c \in Waiting(t) THEN None ELSE call[c]]
  BY DEF SessionOver
<1>4. NoneWaits
  BY <1>1, <1>3, EndsWaits
<1>5. AnyTab \/ UNCHANGED tab
  <2>1. \/ UNCHANGED tab
        \/ \E c \in Waiting(t) : CallerReacts(c, TRUE)
    BY DEF SessionOver
  <2> QED
    BY <1>1, <2>1, ReactsTypes DEF Waiting
<1>6. tab' \in [Tabs -> Tab]
  BY <1>1, <1>5, TabTypes
<1>7. WaitersAreAwaited'
  <2> SUFFICES ASSUME NEW c \in Calls, call'[c] # None, call'[c].at = "waiting"
               PROVE  exchange'[call'[c].tab] # None
    BY DEF WaitersAreAwaited
  <2>1. call'[c] = call[c] /\ c \notin Waiting(t)
    BY <1>3
  <2>2. call[c].tab # t
    BY <2>1 DEF Waiting
  <2> QED
    BY <1>1, <1>2, <2>1, <2>2, CallTypes DEF IInv, WaitersAreAwaited
<1> QED
  BY <1>2, <1>4, <1>6, <1>7, Together

LEMMA InitIInv == Init => IInv
<1> SUFFICES ASSUME Init PROVE IInv
  OBVIOUS
<1>1. TypeOK
  BY DEF Init, TypeOK, Tab
<1>2. Tokens /\ WaitersAreAwaited
  BY DEF Init, Tokens, OnlyIssued, AnswersAreNew, SpentNotStored, Answered, Got, WaitersAreAwaited, Pair
<1> QED
  BY <1>1, <1>2 DEF IInv

LEMMA Inductive == IInv /\ [Next]_vars => IInv'
<1> SUFFICES ASSUME IInv, [Next]_vars PROVE IInv'
  OBVIOUS
<1>1. CASE UNCHANGED vars
  <2>1. TypeOK
    BY DEF IInv
  <2>2. Spends /\ UNCHANGED tab /\ NoneWaits
    BY <1>1, <2>1 DEF vars, Spends, NoneWaits, TypeOK
  <2> QED
    BY <2>2, SpendsIInv
<1>2. ASSUME NEW t \in Tabs, NEW page \in {"connexion", "profil", "recherche"}, Navigate(t, page) PROVE IInv'
  BY <1>2, RouteIInv
<1>3. ASSUME NEW t \in Tabs, Guard(t) \/ Logout(t) PROVE IInv'
  BY <1>3, RouteIInv
<1>4. ASSUME NEW t \in Tabs, Reload(t) PROVE IInv'
  BY <1>4, ReloadIInv
<1>5. ASSUME NEW t \in Tabs, NEW c \in Calls, NEW p \in Pair, Login(t, c, p) PROVE IInv'
  BY <1>5, LoginIInv
<1>6. ASSUME NEW t \in Tabs, NEW c \in Calls, NEW load \in BOOLEAN, Send(t, c, load) PROVE IInv'
  BY <1>6, SendIInv
<1>7. ASSUME NEW t \in Tabs, (\E p \in Pair : ServeExchange(t, p)) \/ ExchangeFails(t) PROVE IInv'
  BY <1>7, ServeIInv
<1>8. ASSUME NEW t \in Tabs, Exchanged(t) PROVE IInv'
  BY <1>8, ExchangedIInv
<1>9. ASSUME NEW t \in Tabs, SessionOver(t) PROVE IInv'
  BY <1>9, SessionOverIInv
<1>10. ASSUME NEW c \in Calls, Succeeds(c) \/ Fails(c) \/ ReplayFails(c) PROVE IInv'
  BY <1>10, CallIInv
<1>11. ASSUME NEW c \in Calls, Unauthorized(c) PROVE IInv'
  BY <1>11, UnauthorizedIInv
<1>12. ASSUME NEW p \in Pair, Expire(p) PROVE IInv'
  BY <1>12, ExpireIInv
<1> QED
  BY <1>1, <1>2, <1>3, <1>4, <1>5, <1>6, <1>7, <1>8, <1>9, <1>10, <1>11, <1>12 DEF Next

-----------------------------------------------------------------------------
(* Theorems.                                                                 *)

\* Every state satisfies the inductive invariant.
THEOREM Invariance == Spec => []IInv
  BY InitIInv, Inductive, PTL DEF Spec

\* The types hold.
THEOREM Typing == Spec => []TypeOK
  BY Invariance, PTL DEF IInv

\* No call waits for an exchange that is not there.
THEOREM NoCallWaitsForNothing == Spec => []WaitersAreAwaited
  BY Invariance, PTL DEF IInv

\* However calls of however many tabs are refused, a tab presents a refresh token once.
THEOREM PresentedOnce == Spec => NeverPresentedTwice
<1>1. ASSUME IInv, [Next]_vars, NEW t \in Tabs, exchange'[t] # None, exchange'[t].at = "asked",
             exchange'[t] # exchange[t]
      PROVE  exchange'[t].pair # presented[t]
  <2>0. TypeOK
    BY <1>1 DEF IInv
  <2>1. ASSUME NEW c \in Calls, Unauthorized(c) PROVE exchange'[t].pair # presented[t]
    <3> DEFINE u == call[c].tab
    <3>1. u \in Tabs /\ JoinExchange(u)
      BY <2>0, <2>1, CallTypes DEF Unauthorized
    <3>2. exchange[u] = None
      BY <1>1, <3>1 DEF JoinExchange
    <3>3. u = t
      BY <1>1, <2>0, <3>1, <3>2 DEF JoinExchange, TypeOK
    <3>4. exchange'[t] = IF store = 0 THEN Refused ELSE [pair |-> store, got |-> 0, at |-> "asked"]
      BY <2>0, <3>1, <3>2, <3>3 DEF JoinExchange, TypeOK
    <3>5. store # 0 /\ exchange'[t].pair = store
      BY <1>1, <3>4 DEF Refused
    <3> QED
      BY <1>1, <3>2, <3>3, <3>5 DEF IInv, Tokens, SpentNotStored
  <2>2. ASSUME NEW u \in Tabs, NEW e, exchange' = [exchange EXCEPT ![u] = e], e = None \/ e.at # "asked"
        PROVE  FALSE
    BY <1>1, <2>0, <2>2 DEF TypeOK
  <2>3. ASSUME NEW u \in Tabs,
               (\E p \in Pair : ServeExchange(u, p)) \/ ExchangeFails(u) \/ Exchanged(u) \/ SessionOver(u)
               \/ Reload(u)
        PROVE  FALSE
    BY <2>2, <2>3 DEF ServeExchange, ExchangeFails, Exchanged, SessionOver, Reload, Refused
  <2> QED
    BY <1>1, <2>1, <2>3
    DEF Next, vars, Navigate, Guard, Logout, Login, Send, Succeeds, Fails, ReplayFails, Expire
<1>2. IInv /\ [Next]_vars =>
        [\A t \in Tabs :
           (exchange'[t] # None /\ exchange'[t].at = "asked" /\ exchange'[t] # exchange[t])
           => exchange'[t].pair # presented[t]]_vars
  BY <1>1
<1> QED
  BY <1>2, Invariance, PTL DEF Spec, NeverPresentedTwice
==============================================================================
