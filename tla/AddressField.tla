----------------------------- MODULE AddressField -----------------------------
(***************************************************************************)
(* The origin field of the search form, as a combobox:                        *)
(*   frontend/src/components/AddressField/AddressField.tsx                    *)
(*   frontend/src/components/AddressField/useAddressSuggestions.ts            *)
(*   frontend/src/lib/useGeolocation.ts                                       *)
(*   frontend/src/pages/RecherchePage/RecherchePage.tsx (quick entries, GPS)  *)
(*                                                                         *)
(* The list under the field changes on its own: answers of the geocoder, the   *)
(* profile, the history and the other field arrive while the user types, moves *)
(* the highlight with the arrows and picks with Enter or with the mouse.         *)
(*                                                                         *)
(* Data.  A text is Blank, Short (one character) or a query; the n places found  *)
(* for a query q are <<q, 1>> .. <<q, n>>.  The field holds a text that was       *)
(* typed or the label of what was picked, so that "selected" is whether it holds  *)
(* a place.  The destination field is the origin without the position.            *)
(***************************************************************************)
EXTENDS Ordering, SequencesExt

CONSTANTS
  Queries, Blank, Short,
  Here,       \* "Ma position actuelle"
  Known,      \* places of the profile and of the history
  Null,
  MaxFound,   \* bound: places the geocoder finds
  MaxAsks,    \* bound: searches under way at once
  MaxTrips,   \* bound: trips of the history
  MaxAddresses   \* MAX_RECENT_ADDRESSES

ASSUME FieldAssumption ==
  /\ {MaxFound, MaxAsks, MaxTrips} \subseteq Nat /\ MaxAddresses \in Nat \ {0}
  /\ Here \notin Known

VARIABLES
  value,     \* what the field holds
  found,     \* suggestions: [of |-> query, n |-> how many], kept when hidden
  asks,      \* searches of the geocoder under way
  ui,        \* isFocused, where the focus is, activeIndex, the filters dialog
  shortcuts, \* home, work, history and the place of the other field
  geo        \* wantsPosition and the state of useGeolocation

fieldVars == <<value, found, asks, ui, shortcuts, geo>>

Texts == {Blank, Short} \cup Queries
Found == Queries \X (1 .. MaxFound)
PlaceTrips == {t \in Known \X Known : t[1] # t[2]}

FieldTypeOK ==
  /\ value \in Texts \cup Found \cup Known \cup {Here}
  /\ found \in [of : Queries \cup {Null}, n : 0 .. MaxFound]
  /\ \A r \in asks : r \in [text : Queries, sent : BOOLEAN, live : BOOLEAN]
  /\ ui \in [focused : BOOLEAN, on : {"out", "input", "entry"},
             active : (Nat \ {0}) \cup {Null}, filters : BOOLEAN]
  /\ shortcuts \in [home : Known \cup {Null}, work : Known \cup {Null},
                    history : Seq(PlaceTrips), other : Known \cup {Null}]
  /\ geo \in [wants : BOOLEAN, status : {"idle", "watching", "denied", "error"}]

FieldInit ==
  /\ value = Blank
  /\ found = [of |-> Null, n |-> 0]
  /\ asks = {}
  /\ ui = [focused |-> FALSE, on |-> "out", active |-> Null, filters |-> FALSE]
  /\ shortcuts = [home |-> Null, work |-> Null, history |-> <<>>, other |-> Null]
  /\ geo = [wants |-> FALSE, status |-> "idle"]

-----------------------------------------------------------------------------
(* What the list shows.                                                      *)

\* isResolved: too short, or the label of what was picked; then nothing shows.
Unresolved == value \in Queries

ShowSuggestions == Unresolved /\ found.n > 0 /\ ~ui.filters

ShowQuickEntries == ui.focused /\ value = Blank /\ ~ui.filters

IsOpen == ShowSuggestions \/ ShowQuickEntries

\* The places of the trips: the latest trip first, its origin before its destination.
Addresses(history) == [i \in 1 .. 2 * Len(history) |-> history[(i + 1) \div 2][2 - (i % 2)]]

\* Slip: a place of two trips is proposed twice.
RecentUnfiltered(history, excluded) ==
  LET all == Addresses(history)
  IN FirstOnes(Kept(all, {i \in DOMAIN all : all[i] \notin excluded}), MaxAddresses)

\* deriveRecentAddresses: the places of the trips, each where it comes first, but
\* those shown elsewhere.
DeriveRecentAddresses(history, excluded) ==
  LET all == Addresses(history)
      new == {i \in DOMAIN all : all[i] \notin excluded /\ \A j \in 1 .. i - 1 : all[j] # all[i]}
  IN FirstOnes(Kept(all, new), MaxAddresses)

Elsewhere == {shortcuts.home, shortcuts.work, shortcuts.other}

\* buildQuickEntries: the position, home, work, then the recent addresses.
QuickEntries ==
  LET entry(p) == IF p = Null THEN <<>> ELSE <<p>>
  IN <<Here>> \o entry(shortcuts.home) \o entry(shortcuts.work)
              \o DeriveRecentAddresses(shortcuts.history, Elsewhere)

ActiveItems == IF ShowSuggestions THEN [i \in 1 .. found.n |-> <<found.of, i>>]
               ELSE IF ShowQuickEntries THEN QuickEntries ELSE <<>>

Item(i) == IF ShowSuggestions THEN <<found.of, i>> ELSE QuickEntries[i]

\* Slip: the index is believed after the list changed under it.
ActiveUnsafe == ui.active

\* safeActiveIndex: nothing is highlighted past the end of the list.
SafeActiveIndex ==
  IF ui.active # Null /\ ui.active <= Len(ActiveItems) THEN ui.active ELSE Null

-----------------------------------------------------------------------------
(* The search of suggestions.                                                *)

\* Slip: short texts and labels are searched too.
SetSearchesAll(v) ==
  /\ value' = v
  /\ asks' = {[text |-> v, sent |-> FALSE, live |-> TRUE]}

\* The field takes a value: the effect drops the timer and forgets the search of
\* the previous text, and starts a timer for a new query.
Set(v) ==
  LET left == {[r EXCEPT !.live = FALSE] : r \in {q \in asks : q.sent}}
  IN /\ v \in Queries => Cardinality(left) < MaxAsks
     /\ value' = v
     /\ asks' = left \cup (IF v \in Queries
                           THEN {[text |-> v, sent |-> FALSE, live |-> TRUE]} ELSE {})

\* 300 ms without a keystroke.
Debounced(r) ==
  /\ ~r.sent
  /\ asks' = (asks \ {r}) \cup {[r EXCEPT !.sent = TRUE]}
  /\ UNCHANGED <<value, found, ui, shortcuts, geo>>

\* Slip: "cancelled" is not looked at.
AcceptAny(r, n) == found' = [of |-> r.text, n |-> n]

\* The places found replace the list unless the text changed since; a failure
\* empties it.
Accept(r, n) == IF r.live THEN found' = [of |-> r.text, n |-> n] ELSE UNCHANGED found

Answers(r, n) ==
  /\ r.sent
  /\ Accept(r, n)
  /\ asks' = asks \ {r}
  /\ UNCHANGED <<value, ui, shortcuts, geo>>

-----------------------------------------------------------------------------
(* The user.                                                                 *)

Ui(next) == ui' = next /\ UNCHANGED <<value, found, asks, shortcuts, geo>>

\* The filters dialog keeps the focus for itself.
Reachable == ~ui.filters

Type(v) ==
  /\ ui.on = "input" /\ Reachable /\ v # value
  /\ Set(v)
  /\ ui' = [ui EXCEPT !.active = Null]
  /\ UNCHANGED <<found, shortcuts, geo>>

\* The focus enters the field, or goes from the input to an entry and back.
Focus(on) ==
  /\ Reachable /\ ui.on # on /\ (on = "entry" => IsOpen)
  /\ Ui([ui EXCEPT !.on = on, !.focused = TRUE, !.active = Null])

\* close(), once the focus left the field and its list.
Blur ==
  /\ ui.on # "out"
  /\ Ui([ui EXCEPT !.on = "out", !.focused = FALSE, !.active = Null])

\* Escape closes the quick entries and gives the focus back to the input; from
\* an entry, the input's focus event opens them again.
Escape ==
  /\ ui.on # "out" /\ ShowQuickEntries
  /\ Ui([ui EXCEPT !.on = "input", !.focused = (ui.on = "entry"), !.active = Null])

\* The dialog opens by its button, which takes the focus.
OpenFilters ==
  /\ Reachable
  /\ Ui([ui EXCEPT !.on = "out", !.focused = FALSE, !.active = Null, !.filters = TRUE])

CloseFilters == ui.filters /\ Ui([ui EXCEPT !.filters = FALSE])

Keys == ui.on = "input" /\ IsOpen /\ ActiveItems # <<>>

ArrowDown ==
  /\ Keys
  /\ Ui([ui EXCEPT !.active = IF @ = Null THEN 1
                              ELSE IF @ + 1 < Len(ActiveItems) THEN @ + 1 ELSE Len(ActiveItems)])

ArrowUp ==
  /\ Keys
  /\ Ui([ui EXCEPT !.active = IF @ = Null THEN Len(ActiveItems) ELSE IF @ > 1 THEN @ - 1 ELSE 1])

\* The effect of wantsPosition, once the hook has a status: the position fills in
\* the field, a refusal shows its message, and either ends the subscription.
SettlePosition(status) ==
  /\ geo' = [wants |-> FALSE, status |-> status]
  /\ IF status = "watching" THEN Set(Here) ELSE UNCHANGED <<value, asks>>

\* "Ma position actuelle": the status of an earlier request, if any, is used.
AskPosition ==
  IF geo.status = "idle"
  THEN geo' = [geo EXCEPT !.wants = TRUE] /\ UNCHANGED <<value, asks>>
  ELSE SettlePosition(geo.status)

\* A place fills in the field; the position is asked for, unless it already is.
Pick(i) ==
  /\ IF Item(i) = Here THEN ~geo.wants /\ AskPosition ELSE Set(Item(i)) /\ UNCHANGED geo
  /\ UNCHANGED <<found, ui, shortcuts>>

\* Enter picks what is highlighted; without a highlight it picks nothing.
Enter == Keys /\ SafeActiveIndex # Null /\ Pick(SafeActiveIndex)

Click(i) == Reachable /\ i \in DOMAIN ActiveItems /\ Pick(i)

-----------------------------------------------------------------------------
(* What arrives from elsewhere.                                              *)

\* watchPosition answers: a position, a refusal or a failure.
GpsAnswers(status) ==
  /\ geo.wants
  /\ SettlePosition(status)
  /\ UNCHANGED <<found, ui, shortcuts>>

Shortcuts(next) == shortcuts' = next /\ UNCHANGED <<value, found, asks, ui, geo>>

ProfileArrives(home, work) ==
  /\ shortcuts.home = Null /\ shortcuts.work = Null
  /\ Shortcuts([shortcuts EXCEPT !.home = home, !.work = work])

HistoryArrives(h) == shortcuts.history = <<>> /\ Shortcuts([shortcuts EXCEPT !.history = h])

\* The destination is chosen, or cleared.
OtherChanges(p) ==
  /\ ui.on = "out" /\ Reachable /\ shortcuts.other # p
  /\ Shortcuts([shortcuts EXCEPT !.other = p])

Histories == UNION {[1 .. k -> PlaceTrips] : k \in 1 .. MaxTrips}

FieldNext ==
  \/ \E r \in asks : Debounced(r) \/ \E n \in 0 .. MaxFound : Answers(r, n)
  \/ \E v \in Texts : Type(v)
  \/ \E on \in {"input", "entry"} : Focus(on)
  \/ Blur \/ Escape \/ OpenFilters \/ CloseFilters \/ ArrowDown \/ ArrowUp \/ Enter
  \/ \E i \in 1 .. Len(ActiveItems) : Click(i)
  \/ \E s \in {"watching", "denied", "error"} : GpsAnswers(s)
  \/ \E home, work \in Known \cup {Null} : ProfileArrives(home, work)
  \/ \E h \in Histories : HistoryArrives(h)
  \/ \E p \in Known \cup {Null} : OtherChanges(p)

FieldSpec == FieldInit /\ [][FieldNext]_fieldVars

-----------------------------------------------------------------------------
(* What the field promises.                                                  *)

\* A slow answer never replaces the list of a newer text: what arrives is for the
\* text in the field (useAddressSuggestions).
AnswersMatchText ==
  [][found' # found => Unresolved /\ found'.of = value]_fieldVars

\* Enter and the mouse fill in what the list showed, even when it shrank after
\* the highlight was moved; nothing else but the position fills in the field.
PickedWasShown ==
  [][(value' # value /\ value' \notin Texts \cup {Here}) => value' \in Range(ActiveItems)]_fieldVars

\* "Eviter d'afficher deux fois la meme adresse sous deux etiquettes": whenever profile,
\* history and the other field arrive, no place is proposed twice, except one that the
\* user lives and works at; and the recent addresses are the latest of the history that
\* are shown nowhere else, the latest first (deriveRecentAddresses).
QuickEntriesFit ==
  LET all == Addresses(shortcuts.history)
      recent == DeriveRecentAddresses(shortcuts.history, Elsewhere)
      first(p) == CHOOSE i \in DOMAIN all : all[i] = p /\ \A j \in 1 .. i - 1 : all[j] # p
  IN /\ \A i, j \in DOMAIN QuickEntries :
          i < j /\ QuickEntries[i] = QuickEntries[j]
          => QuickEntries[i] = shortcuts.home /\ shortcuts.home = shortcuts.work
     /\ Range(recent) \cap Elsewhere = {}
     /\ \A i, j \in DOMAIN recent : i < j => first(recent[i]) < first(recent[j])
     /\ \A p \in Range(all) \ (Elsewhere \cup Range(recent)) :
          Len(recent) = MaxAddresses /\ \A q \in Range(recent) : first(q) < first(p)
=============================================================================
