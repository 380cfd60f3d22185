# UrbanFlow Mobility: a TLA+ model

UrbanFlow Mobility is a NestJS backend (`backend/src`) and a React PWA
(`frontend/src`) for multimodal route search in a metropolis. What is hard in it is
the state that outlives a request and is touched by several handlers, cron jobs,
pages or tabs at once: sessions and the tokens a browser keeps of them, accounts
and the links that reset their passwords, the caches of real-time data, the trip a
user follows and the monitor that warns about it, the devices that are warned, and
the pages that wait for answers in no particular order. This directory models those
parts, checks them with TLC and proves the most important results with TLAPS.

## 1. Inventory

| Component | State | Operations | Hard part | Module |
|---|---|---|---|---|
| Refresh token rotation (`auth/auth.service.ts`) | `refresh_tokens` | login, refresh, revokeFamily, daily purge | several awaited statements per request, no transaction, concurrent refreshes, lost answers | `RefreshTokens` |
| Browser session (`lib/api.ts`, `authStorage.ts`, the guards) | two tokens in localStorage, one exchange per tab, a context per tab | authRequest, refresh, replay, login, logout | several tabs share the storage, answers in any order | `BrowserSession` |
| Accounts, password reset (`users/`, `auth/`, `mail/`, three pages) | `users` | create, remove, setResetToken, resetPassword | registration race, links replaced, used and expired under way | `Accounts` |
| Followed trips (`trips/following/`) | `followed_trips`, one row per user | startFollowing, stopFollowing, findAllActive, recordNotifiedDisruption, daily purge | read-then-save, UNIQUE(user_id), the row is reused | `TripMonitor` |
| Disruption monitor (`perturbations/`) | none of its own | a cycle every minute: list, compare, search, notify, record | overlap, stale rows, failures between push and record | `TripMonitor` |
| Push, follow button (`push/`, `TripFollowButton`, `lib/push.ts`) | `push_subscriptions`, the browser's endpoint, the button | subscribe, unsubscribe, notifyUser, removal of dead endpoints, follow, stop | upsert by comparison in memory, stale rows in a sending, late answers | `PushDevices` |
| Realtime disruption cache (`gtfs-realtime/`) | `perOperator` in memory | a cycle every minute, two feeds per operator | cycles overlap, feeds fail separately | `RealtimeCache` |
| Trip search, weather, scoring (`trips/`, `otp/`, `weather/`, `scoring/`) | weather: a cache and a shared request | plan with fallbacks, profile and record together, rank | which failure fails the search; the shared request | `TripSearch`, `Scoring` |
| Trip history (`trips/history/`) | append-only rows, encrypted | record, findRecent and its fallback, purge | rows that cannot be read, retention, writes during a read | `TripHistory` |
| Profiles and their page (`profiles/`, `ProfilPage`) | `mobility_profiles`, forms | create, update, remove; load, onboarding, edit, delete account | copies written back, an account deleted meanwhile | `ProfilPage` |
| Search page, browser trip cache (`RecherchePage`, `lib/tripCache.ts`, `rechercheSessionState.ts`) | screen, sessionStorage, localStorage | search, restore, save, look up | late answers of searches left behind | `SearchPage` |
| Address field (`AddressField`, `useAddressSuggestions`, `useGeolocation`) | a text, a list, a highlight | type, move, pick, locate | the list changes under the highlight | `AddressField` |
| Operators, encryption | configuration; none | | pure | constants of `RealtimeCache`; `TripHistory` |
| Stations (`gbfs/`), places (`places/`, `geocoding/`), GTFS import, seed, map | one list; none; one imported table; rendering | | section 6 | |

How they interact. An access token that expires sends a tab to `/auth/refresh`
(`BrowserSession` over `RefreshTokens`). The monitor reads the followed trips and the
disruptions of the realtime cache, runs a search and notifies through push
(`TripMonitor` over `PushDevices`); a search reads profile and weather, is ranked
with the disruptions and writes the history (`TripSearch`, `Scoring`, `TripHistory`).
The search page fills its modes from the profile and its address field from profile
and history. Removing an account cascades over the tables that refer to it. Cron
jobs (`@nestjs/schedule`) start on time whether or not their previous run is over.

What makes each correct is stated at the end of its module. `PROJECT.json` lists
the hazards at their lines, each with the properties that would catch it, or a note.

## 2. Modules

Conventions. One action is one awaited database statement or HTTP call together
with the synchronous code after it, up to the next await: Node runs nothing else in
between, and anything between two awaits. In the browser, one action is one event
handler, effect or settled promise. A field `pc`, `stage` or `at` says what a handler
waits for. Rows are functions from keys or sequences in order of creation, with
`None` for "no row". History variables and fields are named as such where they are
declared. A component whose theorems are proved beside those of others has names of its
own for its specification (`CacheSpec`, `FieldSpec`, `HistorySpec`) and for its "no value"
(`Null` in the field, `Absent` in the history). Definitions commented "Slip:" are not part of a specification: each is a
plausible mistake, substituted for the definition it precedes to show that a property
notices it. The `MC` modules hold the values of constants and the symmetries, the
`Proofs` modules the theorems.

**RefreshTokens, SessionLifecycle.** `row` is the table, `claims[j]` what the JWT of
token `j` says, `req[r]` a request in progress. `login` is `Login`,
`OpenFamily`/`WrongPassword`, `SaveToken`, `Deliver`; `refresh` is `PresentToken`, the
four branches on the row read, `UserFound`/`UserGone`, `SaveToken`/`SaveRejected`,
`ConsumeToken`, `Deliver`. `Abort` is a failed statement, a restart or a lost answer, at
any point. Time counts in grace windows. `SessionLifecycle` is the abstract session:
new, open, closed, never open again; the rotation implements it.

**BrowserSession.** `store` is the pair in localStorage, `pairs[p]` what of a pair has not
expired, `call[c]` an `authRequest` (sent, waiting for the exchange, replayed),
`exchange[t]` the `inFlightRefresh` of a tab, `tab[t]` its route and `isAuthenticated`.
`Send`, `Unauthorized` and `Exchanged` are the three parts of `authRequest` around its
awaits; `Guard` is one render of `RequireAuth` or `RedirectIfAuthenticated`, and anything may happen
between a redirection and the render of the guard it leads to. The server is
what the browser sees of it: it accepts an access token until it expires, and accepts
or refuses an exchange.

**Accounts.** `users` are the rows in order of creation, `links[l]` the account a token was
made for, `page[p]` a form and the request it sent, served statement by statement
with the hashing in between. Expiry is `Expire`; a mail may arrive at any time or never.

**TripMonitor.** `followed` is the table, `call[k]` a `startFollowing` between its
`findOneBy` and its `save`, `check[c][i]` what a cycle does about a row it listed. A row
carries the number of the follow it describes, which the code does not store: with
`sent` and `latest` it is history. `Segments[t]` gives, per segment, the disruptions that
match it; `CacheChange` stands for the realtime cache. A notification counts as sent when
`notifyUser` runs.

**PushDevices.** `rows` is the table of one account, `endpoint[d]` what the push service
gave browser `d`, `tab[t]` the button of a page with the stage of `handleFollow`
(key, prompt, finding, saving, posting) or `handleStop`, `sending` the notification
under way with the rows as `notifyUser` read them.

**RealtimeCache.** A feed's content is a version number; `published` is what is online,
`perOperator` what the cache holds, `refresh[c][o]` what cycle `c` has read and fetched.
The initial states have any version online, so they are the states after a restart too.

**Ordering.** What `Array.sort`, `ORDER BY` and loops that keep some of the elements they go
through make of a list: `StableOrder`, `Descending`, `Kept`, `FirstOnes`. An order is chosen
(`InOrder`: a function from `1 .. n` onto the set, increasing in the relation) and not
computed recursively like `SetToSortSeq` of the community modules, so that what a sort
promises can be proved of it; `LastExists` and `OrderExists` show that there is one to choose.
`Scoring`, `AddressField` and `TripHistory` use it.

**TripSearch, Scoring.** `search[s]` is a request between its awaits: planning (OTP,
profile and record together), the later departure, the walk, the wait for the weather.
`Scoring` holds `groupByRoute`, `rank` and the badges as operators on routes, each
with a duration, transfers, a walk and modes; the badges are a function on the positions that
bear one. `AnswersFit` compares them with what an answer should say without the weights.
It counts a shorter walk as better only where the walk is scored, when the profile limits
walks or when it rains: without these, the weights ignore the walk (`scoring.service.ts`)
and two routes that differ only in it stay as OTP lists them, which the route "stop" of
`MCTripSearch` shows.

**TripHistory.** `rows` in the order of `searched_at`, each with its day and key; `read[k]` a
GET that loads, falls back row by row, and answers. `HistoryTypeOK` requires the rows to be
encrypted.

**ProfilPage.** `row` is the profile, `call[t]` a request served in two steps (SELECT, then
write of the whole copy) and answered in a third, `tab[t]` the page.

**SearchPage.** `page` is the mounted page, `flight` the searches in flight (live while
their page is mounted), `session` and `cache` the two storages. Two address fields are
the trip they would search; a result is its number of itineraries. What `filter` keeps of
the cache is written as the increasing list of the positions kept.

**AddressField.** `value` is the field, `found` the suggestions kept, `asks` the searches of
the geocoder (waiting for the delay or sent), `ui` focus and highlight, `geo` the sensor.

## 3. Runs

| Run | Instance | Question and answer |
|---|---|---|
| `refresh` | 1 account, 1 session, 2 requests, 4 tokens, grace 1, lifetime 2, clock 4 | Rotation never strands a session, chains are stored, no token outlives its account, `SessionLifecycle` is implemented, requests end, expired rows leave: all hold |
| `browser_session` | 2 tabs, 2 calls, 2 pairs | Every waiting call has an exchange to wait for, a tab never presents a token twice, and once the session stays as it is the guards settle every tab on a route: all hold |
| `browser_session_cleared` | the same, 3 pairs | "Tokens are cleared when the refresh fails": violated by a replay that fails after a refresh that succeeded |
| `accounts` | 1 address, 3 pages, 2 accounts in turn, 2 links, 2 passwords | One account per address, passwords change by links of their account, dead links stay dead: all hold |
| `trip_monitor` | 1 user, 2 trips, 2 disruptions, 2 cycles, 2 follows at once, 2 cache changes, 1 failed search, 1 lost record | One row per user, nothing recorded unsent, nothing replaced, stopped or over comes back, a lasting disruption reaches the user: all hold |
| `push_devices` | 2 pages of one browser, 2 endpoints in turn, 2 rows | No live subscription is taken away, every click is over in the end: both hold |
| `realtime_cache` | 2 operators (3 feeds), one feed unreachable, 2 cycles, 1 passing failure | No cycle loses ground, healthy feeds become current: both hold |
| `trip_search` | 2 searches, plans over 4 routes and the walk, 2 departures of one line to disrupt, 2 filters, 2 profiles | Every search ends; answers are complete, fit the modes, and show nothing after what is worse in every way: all hold |
| `trip_history` | 3 trips, 4 rows, 3 days, 2 keys, 1 read, list of 2 | The history shows the latest readable search of each trip: holds |
| `profile_page` | 2 tabs, 1 place | No creation replaces a profile, no profile outlives its account, nothing waits for nothing: all hold |
| `search_page` | 2 places, 2 searches in flight, results of 0 or 1, cache of 2 | The saved search follows the page, the cache holds the last result of each trip, loading is awaited, offline results are usable: all hold |
| `address_field` | 2 queries of up to 2 places, 2 asks, 3 known places, history of 2 | Answers match the text, what is picked was shown, entries repeat no place but a home that is the work place, the recent ones are the latest not shown elsewhere: all hold |

Bounds. Two requests, tabs, cycles, calls or searches are the least that race over
one row, entry or storage, and a third adds no new order of a read and a write over it;
`accounts` takes three pages so that two requests race over what a third has made. Four tokens
let a session be opened, forked within the grace window, replayed and continued;
two pairs are a login and an exchange or a login in another tab, and the third of
`BrowserSessionSafety` is a second exchange. The clocks pass both sides
of each comparison. Two disruptions, one on the first segment and both on the second,
make the choice of the first one matter. Two endpoints let a device be given another one
than that a sending read. Two places are two trips (one per direction): a trip cache of
two holds both, replaces and expires them, and `SearchPageEviction` has the cache of one that
must evict. Four rows and a list of two make the history skip, deduplicate and cut.
The routes of `MCTripSearch` are
chosen so that duration, transfers and walking pull the ranking apart, and so that two
differ in the walk alone.
Where a run has one user, users do not interact (rows are per user).
`CHECK_DEADLOCK FALSE` is in the configurations of `SearchPage` only, where the user may
have searched, left and logged out with nothing left to arrive.
Symmetry is used in safety runs only.

Fairness. `RefreshTokens`: Node runs a handler whose awaited call has settled, and the
daily purge fires. `RealtimeCache`, `TripMonitor`: the minute cron job fires and what a
cycle awaits settles (the HTTP clients give up on silent servers). `TripSearch`: every
call out ends, the weather's after its 3 seconds. `PushDevices`: a request of a page ends
with an answer or an error; the prompt of the browser may never be answered. `BrowserSession`:
React renders the guard of a page that mounts or whose context changes. Failures
and restarts are bounded in number where liveness is checked, which states "if they stop
in the end". Users, clocks and clients are never forced to do anything.

### Further configurations

These settle questions beside the runs above; each is run with the MC module it is named after.

| Configuration | Result |
|---|---|
| `RefreshTokensSafety` | the safety of `refresh` with 2 sessions, lifetime 3, clock 5: holds |
| `BrowserSessionSafety` | the safety of `browser_session` with 3 pairs: holds |
| `RefreshTokensRevocation` | "every row of the family is revoked": violated by a rotation past its check |
| `RefreshTokensFirstUse` | "consumedAt is the first use": violated by two first uses at once |
| `RealtimeCacheOverlap` | "a failed feed keeps the latest known": violated by a faster cycle in between |
| `RealtimeCacheTruncated` | "one feed down does not deprive the other": violated by a body that breaks off |
| `TripMonitorPaced` | never the same disruption twice in a row for one follow, 2 users, cycles one at a time: holds (and is proved) |
| `TripMonitorOverlap` | the same with overlapping cycles: violated |
| `TripMonitorReplaced` | "the signature of a row was notified for its follow": violated by a check begun before the follow was replaced |
| `ProfilPageErased` | "an empty field leaves the stored address intact": violated by two updates at once |
| `SearchPageEviction` | the run `search_page` with a trip cache of one entry: holds |
| `SearchPageDetail` | "the detail of an itinerary can be closed": violated by a new result while it is open |

## 4. Proofs

Every theorem holds for any values of the constants, from the assumptions named in
the modules alone (bounds are naturals; where it matters, `None` is no value of the model).

**RefreshTokensProofs**: `TypeCorrect`, `SuccessorAlwaysStored`, `RotationNeverStrands`,
`NoTokenWithoutAccount`, `RotationRefinesLifecycle`. That a consumed token has a stored
successor depends on the request that consumed it having stored that successor before,
and on the purge not having taken it since. `IInv` therefore says what a request knows at each point
of its handler, that a row repeats its claims, that expiries grow with the order of
issue, and that a request and the token it issues are of one session and one account.
`RotationNeverStrands` then takes the youngest row of a family: its successor would be
younger still. For the refinement, a step can make a closed family alive only by putting
a request past its checks or by storing a row, and both mean it was alive before.
`FirstUseIsDated` and `RevocationIsWhole` go with the two claims of the entity that the
configurations violate: each holds in every behaviour without one overlap (`MarkedAlone`:
no token is marked while another first use of it is under way; `RevokedAlone`: no family is
revoked while another request of it is between its check and its insertion). What a
first use presents is then unmarked still, and what is past its checks is of a family of
which nothing is revoked.

**BrowserSessionProofs**: `Typing`, `NoCallWaitsForNothing`, `PresentedOnce`.
A pair has one place at a time: an answered pair that has not been stored is nowhere
else in the browser, and a token that was presented is no longer stored once the exchange that presented it is
over. Presenting a token twice would need it in the storage again. The waiting calls follow
the exchange of their tab: whatever ends it settles them in the same step.

**AccountsProofs**: `Typing`, `OneAccountEach`, `PasswordsChangeByLink`, `DeadLinksAreOver`.
The invariant ties what each request read (the account, the link, the address) to what
was stored and mailed: a link has one account, an account holds one link, which was
made for it, and a request that stores a link or resets a password was let through for
that account.

**TripMonitorProofs**: `Typing`, `OneFollowEach`, `NothingRecordedUnsent`,
`FollowsAreNotRevived`, and `NeverTwiceInARow` under `Paced` (one cycle, no lost record).
A follow is claimed by rows, calls, checks and notifications; the invariant says that all who
claim it agree on its user and its key, and steps only hand claims on. `FollowsAreNotRevived`
shows that only the save of a request makes a row or changes what it describes. For
`NeverTwiceInARow` it adds that the row and the check under way hold the signature last
notified for their follow. `SignaturesOfTheirFollow` goes with `TripMonitorReplaced`: the
signature of a row was notified for its follow in every behaviour in which no row is replaced
while a check of it is under way (`ReplacedApart`), overlapping cycles, lost records and
restarts included.

**PushDevicesProofs**: `Typing`, `LiveRowsStay`. All that is known of a row (the row itself,
what a page found, what a sending read) names one endpoint, and an endpoint that is dead never
comes back, since endpoints are given once. So the removal by id that a 404 or 410 leads to
removes a row whose endpoint is dead still, whatever subscribed meanwhile.

**TripSearchProofs** holds the theorems of four components, each over its own specification
and variables: a search and what it is made of.

- *Lists.* Every result rests on what an order is. `LeastMember` takes the least member of a set
  of naturals from the well-foundedness of `<`, where an induction would need a library
  theorem the provers cannot instantiate; a finite set ordered by `R` then has a last member
  (the one with the most members before it), and the positions by number of members before
  them are an enumeration (`OrderExists`). From it follow what `Ascending`, `Descending`,
  `StableOrder`, `Kept` and `FirstOnes` return, and `SeenFirst`: what a loop that looks
  each element up among those seen keeps is the first of each.
- *Searches* (`SearchInvariance`, `SearchTyped`, `AnswersShown`). `GroupFacts` shows that grouping
  keeps each route once with all of its departures, the earliest shown; `RankFacts` that the
  ranking permutes the results; `BetterScores` that a result better on a criterion that counts
  and no worse on the others scores strictly less, for any route, profile and weather, so
  that a sort by score puts nothing after what is worse in every way. A theorem of an
  answer needs to know what its search holds: `Prepared` says that the
  plan of a search that waits for the weather fits the modes asked for, and that a search still
  going on has not fallen back on the walk, which is answered unranked. This is inductive, whichever search had the shared request sent.
- *Address field* (`FieldInvariance`, `FieldTyped`, `FieldEntriesFit`, `FieldAnswersMatch`,
  `FieldPicksShown`). `LiveAsks`: a search of suggestions that is still live is for the text in
  the field. It is what `AnswersMatchText` needs, since an answer carries only the text it was
  sent for; all that sets the text goes through one lemma (`SetAsking`). Recent addresses
  come in the order of their first occurrence in the history, and leave out home, work and the other
  field, so that only home and work, which are compared with nothing, can be one place.
- *History* (`HistoryInvariance`, `HistoryTyped`, `HistoryShown`). A read computes the limit of its
  window before it loads; `SinceInOrder` says that this limit is no later than today's, so that
  no row still in the window when the read is answered is cut off. `RecentFacts` then follows
  a row through the four steps of `findRecent`: ordered, cut to the window, told apart
  by trip, cut to the limit.
- *Realtime cache* (`CacheInvariance`, `CacheTyped`, `NoGroundLost`): neither the cache, nor what
  a cycle read or fetched, is ahead of what is published, nor is what a cycle fetched behind
  what it found. `FailureKeepsLatestApart` goes with `RealtimeCacheOverlap`, where "a failed feed
  keeps the latest known" is violated: it holds in every behaviour in which no two cycles
  refresh one operator at once (`NoOverlap`), because what a cycle found is then still what
  the cache holds. The overlap is thus all that breaks the claim.

**ProfilPageProofs**: `Typing`, `NoProfileOutlives`, `NothingWaitsInVain`,
`CreationsNeverOverwrite`, `AddressesKeptApart`. The invariant says that the page of a tab and the
request the tab has under way fit together (a page that says it is saving has a save, and so on),
that only a save is ever between its read and its write, and that an account that is
gone has no row. `AddressesKeptApart` goes with
`ProfilPageErased`: an empty field leaves the stored address intact in every behaviour in
which no two saves are between read and write at once (`SavesApart`).

**SearchPageProofs**: `Typing`, `SessionFollows`, `CacheIsLatest`, `LoadingEnds`, `OfflineIsUsable`.
Only a mounted page has live searches, a page that is gone shows the form and awaits
nothing, a page that loads has a live search, and the saved session is what the page
keeps. The cache is a sequence of entries, one a trip, newest first, each the last result of its
trip; saving, evicting and purging keep a subset of its positions in their order, so one
lemma about an increasing list of positions carries all three. What ends a search
(answer, failure, offline answer) goes through one lemma about settling it.

Every invariant and action property of the passing runs is proved. Model-checked only, because
out of the prover's reach, are the liveness properties under fairness: `RequestsEnd`,
`ExpiredTokensPurged`, `HealthyFeedsCurrent`, `DisruptionReachesUser`, `SearchesEnd`,
`SubmissionsSettle` and `RedirectsSettle`. Six of the properties that are violated are proved under the conditions
above; the other three (`ClearedOnlyWhenRefused`, `HealthyFeedsCurrent` with bodies that
break off, the detail of `SearchPageDetail`) are refuted and no more. No theorem relates two
components: their interactions are environment actions of each (section 2).

## 5. What the code does otherwise than it says, and known limits

The runs and configurations above, or the modelling, show the following.

Sessions
- A replay that fails for any reason clears the tokens just obtained (`api.ts:154-158`; finding).
- A rotation past its check when its family is revoked stores a usable row; `consumed_at` and `replaced_by` may be overwritten by a second first use.
- A logout, or a login in another tab, during an exchange is undone by `saveTokens`; a login whose profile lookup ends in 401 leaves the context authenticated until a guard corrects it.
- Passwords that are reset leave sessions open.

Accounts
- Two tabs that submit one link at once both succeed (the link is found by both before either consumes it), while `users.service.ts:103-106` says that a link serves once.
- Two requests for a link may leave the mail that arrives last with the dead one; a reset under way kills a newer link; the reset of an account deleted meanwhile answers OK.
- A registration that succeeds before a login that fails is answered 409 when it is submitted again.

Follow and notifications
- Overlapping cycles may notify twice; a signature may be recorded for a follow that replaced the one it was notified for, which is then not warned.
- Two pages of one browser may insert two rows: the device gets every notification twice. A notification that fails for a passing reason is not sent again.
- The first answer of `GET /trips/current` puts the button back to what it was; stopping in a page whose button is stale stops the follow of another trip; the two buttons of one result keep states of their own.
- `subscribeBrowserToPush` is said never to throw (`push.ts:84`), but the request for the key and `requestPermission` are outside its try: the follow is then not started. Nothing unsubscribes a browser, and nothing listens to `pushsubscriptionchange`.

Realtime data, search
- A slow cycle may write back what a faster one had replaced; a truncated body takes the operator's other feed with it.
- `weather.service.ts:83` may throw on a body that is not JSON, and the search fails.
- `actualDepartureTime` is that of the best ranked result, not of the earliest; an access token that expired makes `GET /trips` anonymous; a profile under another key fails the search (500).

Pages
- Any failure of the load of the profile shows the onboarding, not only 404; a creation that succeeds leads to the search from whatever page the user is on; two updates at once may erase an address.
- A new result while the detail is open may leave the detail without a way to close it.
- "Ma position actuelle" chosen again uses the earlier position; a position that arrives replaces what was typed meanwhile; the highlight stays at its index when the list changes.
- A home that is the work place is proposed twice (`RecherchePage.tsx:947-966`), while `docs/specs/fusion-autocomplete-raccourcis.md:67` means no address to show under two labels.

## 6. Not modelled

- Shared mobility stations (`gbfs/`): one list, replaced whole by each cycle. The
  overlap of cycles is the question `RealtimeCacheOverlap` asks; an operator that
  fails drops its stations, as the code means (only a wholly empty answer keeps the list).
- Places and geocoding on the server: two lookups merged, without state. Since the
  Nominatim client turns every error into an empty list, the 503 for both sources down
  is never sent (`places.service.ts:45`).
- GTFS import and seed: sequential scripts. Map, styles, icons, static pages: rendering.
- Decoding of protobuf feeds, geometry of itineraries, wording of mails and notifications.
- In the models: access tokens of the server (they carry no state); the two steps of a
  TypeORM `save` of one row (its SELECT and its write) are one; a reload of a page in
  `PushDevices` is its first mount; one account in `BrowserSession`, `ProfilPage`, `PushDevices`;
  in `TripSearch` a disruption strikes departures of a route, told apart by their start, and not
  the segments of one.

What would come next: `RealtimeCache` in place of `CacheChange` in `TripMonitor`,
`PushDevices` in place of its `NotifyUser`, and `RefreshTokens` in place of the server of
`BrowserSession`.
