# Verification of ConnectorHub

TLA+ models of ConnectorHub, the catalogue of MCP connectors: what its processes
do to shared state, in which orders, and what stays true. Every module was
translated from the code; the comments name the functions and lines. TLC checks
small instances, and TLAPS proves the safety properties of every module with
state for all values of its constants, and what the modules without state compute for
all inputs where the provers reach it.

Paths: `worker/`, `core/` and `api/` are under `src/backend/src/`,
`0001_initial_schema.py` is under `src/migrations/versions/`.

## 1. The system

Three kinds of process share one PostgreSQL database and one Python package:

* `api` (FastAPI on one asyncio event loop; synchronous dependencies run in its
  thread pool): the catalogue, card CRUD, tools, rechecks, comments,
  notifications;
* `worker` (any number of replicas): the liveness sweep every few minutes;
* `migrate` (Alembic, once per release, before the other two).

Outside it are Site Auth (keys and introspection of sessions), the MCP servers the
cards point to, and the browsers. The database runs at READ COMMITTED, and `now()`
is the time a transaction *began*: both matter below.

### Components

| component | code | state | operations | what makes it correct |
|---|---|---|---|---|
| Liveness worker | `worker/main.py`, `worker/liveness.py` | advisory lock of a session, batch, semaphore | tick: lock, fetch candidates, probe, record, unlock | one sweep at a time; ticks end; an older observation never covers a newer one |
| Health record | `core/connectors/probes.py` | `connector_health_checks`, `connectors.transport` | `record_health` (with or without compare-and-set), `correct_transport` | the row sums up the results; a correction is committed with its evidence |
| Manual recheck | `api/connectors/router.py` 406-461 | as above | `recheck_health` | is answered; beats the sweep |
| Card mutations | `core/connectors/mutations.py`, `router.py` 176-264 | `connectors`, tags, visible teams | create, update, delete | constraints hold; children go with the card |
| Tools cache | `core/connectors/probes.py` 48-89, `router.py` 270-403 | `connector_tools_cache` | `_refresh_tools`, `get_tools`, `save_tools_cache` | a failure keeps the last good list and says why |
| MCP client | `core/mcp/client.py` | outbound gate (semaphore) | `fetch_tools`, `check_liveness`, fallback between transports | finds a server that is there; no double wait on a dead one; true reasons; slots come back |
| URL guard | `core/mcp/url_guard.py` | none | classify a URL and its addresses | no forbidden address is contacted |
| Site auth client | `core/site_auth.py`, `api/deps.py` | introspection cache, key cache, lock, cooldown | `introspect`, `_keys`, `_key_for`, `_fetch_jwks` | bounded staleness; no amplification; a key rotation is no outage |
| Probe rate limit | `api/rate_limit.py` | counter per user and bucket | `_hit`, `probe_rate_limit` | bounded calls per window; refusals have a cause and an honest Retry-After |
| Catalogue queries | `core/connectors/queries.py`, `visibility.py` | none; cursors travel with the client | lists, detail, tags, statistics | pages skip and repeat nothing |
| Comments, reactions, notifications | `core/connectors/social.py`, `api/connectors/social_router.py`, `api/notifications/router.py` | comments, stars, bookmarks, notifications | create, edit, delete, list, star, bookmark, mark read | two levels; words stay their author's; each notification once |
| Schema, deployment | `src/migrations`, `src/docker-compose.yml` | schema version | migrate, then start | constraints; no process on an old schema |
| Wiring, settings | `api/main.py`, `core/settings.py`, `core/db.py` | configuration | start-up, `get_session` | a request that fails is rolled back |

Web and packages (`src/frontend`, `src/packages`) are placeholders without code.

### How the components interact

* Worker and recheck both call `check_liveness` and then `record_health` in a
  transaction of its own. No transaction is open during the network call, so all
  that was read before it may be stale.
* The tools refresh, the recheck and the worker write `connectors.transport`, a
  column the owner writes too. They ask neither for the address they talked to nor for
  the transport they began with, so what they found may go over a newer PATCH.
* DELETE of a card removes comments, notifications, health and cache rows by
  cascade, under requests that are still working on them.
* `fetch_tools`, `check_liveness` and the preview share the gate of their process.
* Every request needs a verified signature (key cache) and a session
  (introspection cache); both await HTTP calls between a check and a use.

The hard parts are therefore: observations that go stale during a probe; `now()`
that does not follow commit order; session-level locks that can be lost;
handlers that check in one statement and write in another; caches filled by
overlapping awaits; a synchronous counter in a thread pool. `hazards` in
`PROJECT.json` lists them line by line.

## 2. Modules

| module | models | checked by | proved in |
|---|---|---|---|
| `HealthBoard` | abstract specification: what readers of the health badge are promised | refined by `ConnectorHealth` | |
| `CardStore` | abstract specification: what readers of a card are promised by those who write it | refined by `CardTransactions` | |
| `ToolsBoard` | abstract specification: what readers of a card's tools are promised | refined by `ToolsRefresh` | |
| `Forum` | abstract specification: what may happen to comments, and who hears of it | refined by `Discussion` | |
| `ConnectorHealth` | worker, recheck, health record, life of a card, corrections | `HealthRace.cfg`, `HealthLostLock.cfg` | `ConnectorHealthProofs` |
| `CardTransactions` | POST, PATCH, DELETE, recordings and saved tools, statement by statement, with their row locks; the batch tick after tick | `CardTransactions.cfg` | `CardTransactionsProofs` |
| `CardBody` | what a card's body may be: validators, row, constraints (no state) | assumptions of `MCCardBody` | `CardTransactionsProofs` |
| `ToolsRefresh` | refresh, gate, fallback, classification, cache row | `ToolsRefresh.cfg` | `ToolsRefreshProofs` |
| `UrlGuard` | which URLs, hosts, addresses and redirects are let through (no state) | assumptions of `MCUrlGuard` | `ToolsRefreshProofs` |
| `IntrospectCache` | `SiteAuthClient.introspect` | `IntrospectCache.cfg` | `IntrospectCacheProofs` |
| `JwksCache` | `_keys`, `_key_for`, `_fetch_jwks` | `JwksCache.cfg` | `JwksCacheProofs` |
| `RateLimit` | `_hit`, `probe_rate_limit` | `RateSerial.cfg`, `RateThreads.cfg` | `RateLimitProofs` |
| `Discussion` | comments and their notifications | `Discussion.cfg`, `DiscussionReadBack.cfg` | `DiscussionProofs` |
| `Inbox` | stars, bookmarks, reading of notifications (functions of their tables) | assumptions of `MCInbox` | `DiscussionProofs`, `CatalogPagingProofs` |
| `CatalogPaging` | keyset paging, cursors, `my_connectors` | `CatalogPaging.cfg`, `OwnCards.cfg` | `CatalogPagingProofs` |
| `CatalogQueries` | visibility, filters, detail, tags, statistics, bookmarks (functions of the tables) | assumptions of `MCCatalogQueries` | `CatalogPagingProofs` |
| `RowOrder` | ORDER BY, LIMIT and OFFSET of the SELECTs of the two before | with them | `CatalogPagingProofs` |
| `MC...` | instances for TLC, and what the modules without state are compared with | | |

Conventions. One action is one stretch of code that nothing can come into: code
between two awaits (event loop), one statement or one transaction that holds its
row lock (database), one read or write (threads). Operators in a module that
follow a comment "Mutant" are not part of any specification: they are
faulty versions of the definition that follows, kept to show that a property
depends on the code (`mutants` in `PROJECT.json`). Variables marked "history
variable" do not exist in the code; no guard reads them but to bound a run.

### ConnectorHealth

| model | code |
|---|---|
| `card` | endpoint and transport columns; `unborn`, `live`, `gone` for the row |
| `health`, `history` | row of `connector_health_checks`; history: results committed, in order |
| `clock` | source of `now()`; each transaction takes its own at BEGIN |
| `lock`, `sweep`, `drops` | advisory lock, each worker's tick, lost sessions |
| `probe` | a sweep task `<<worker, card>>` or a recheck request, from its read to its commit |
| `TryLock`, `FetchCandidates`, `StartProbe`, `FinishTick` | `_tick_once`, `run_tick` |
| `CheckLiveness`, `BeginRecording`, `RecordHealth`, `RecordSuperseded`, `RecordRejected`, `RecordFails` | probe, BEGIN, and the ways the recording can end |
| `CrashWorker`, `CrashApi`, `LoseLockSession`, `FetchFails` | faults |
| `CreateConnector`, `UpdateConnector`, `DeleteConnector`, `RefreshCorrectsTransport` | everybody else who writes the card |

BEGIN and the statements are separate because another transaction may take a
later `now()` and commit first. The statements and COMMIT are one action because
the first statement locks the health row. `HealthBoard` forgets all of that: a
background prober may post only if nobody posted since it looked. The
refinement maps the compare-and-set on `last_checked_at` to that rule on a count.

### CardTransactions

| model | code |
|---|---|
| `life`, `body`, `tags`, `teams`, `kids` | the rows of a card: `connectors` without `transport`, `connector_tags`, `connector_visibility_teams`, and whether it has a health and a cache row |
| `transport` | `connectors.transport`: NULL, as the owner wrote it, or as a probe found it |
| `held`, `shared` | row locks: those of UPDATE, DELETE and upserts, and FOR KEY SHARE of foreign keys |
| `older` | `last_checked_at` and the BEGIN of open recordings, as an order |
| `sweep`, `stale` | a tick under way; cards recorded by somebody else since it read its batch |
| `tx` | where each sweep task and each request is |
| `FetchCandidates`, `FinishTick` | the batch (ORDER BY, LIMIT) and its end |
| `Begin`, `Record`, `RecordAndCommit`, `CorrectAndCommit`, `RecordsNothing`, `CorrectionRefused` | `record_health` or `save_tools_cache`, then perhaps `correct_transport` |
| `CreateConnector`, `RequireOwner`, `UpdateCard` ... `ReplaceTeams`, `DeleteCard` ... `CascadeToHealth` | the owner's three requests |
| `StatementFails`, `DeadlockVictim`, `CrashWorker`, `CrashApi` | faults |

`ConnectorHealth` takes the statements of a recording for one step; here each
statement is one, and a statement that would wait is not enabled. So this is where
deadlocks, half-written cards and starvation are looked for, while exact results,
lost locks and concurrency limits stay in `ConnectorHealth`. Time is an order and
not a number, so that ticks go on for ever within finitely many states.

Of a body three things are told apart: whether it has an address (`Addressed`), also a
transport (`Reachable`), and tags or teams (`Childless` has none). A correction needs an
address to stand next to, whatever the transport was: where a PATCH took the transport
away and left the address it succeeds, where the address went too the constraint
`connectors_endpoint_anchor` takes it back with all that was recorded.

`CardStore` has a shelf for each card and a wish for each request; every change is one
step of the shelf as a whole. A card is the body it came from in all its parts but one:
its transport is that of the body or one a probe put there, which need not be that of the
address beside it (section 4). The refinement maps a shelf to what is committed
(`Shelf`): uncommitted statements are hidden by the row locks, so a transaction takes
effect at its COMMIT, and one that fails, dies, comes too late or is a deadlock's
victim gives up its wish and changes nothing. A crash of the process is many giving up
at once.

### ToolsRefresh

A refresh goes idle, queued at the gate, opening (a handshake with `candidate`),
open (listing), ended, saving (its transaction has begun), and is saved together with
the corrected transport. `endpoint` gives the answer to each transport on its own: the
server speaks it, answers but not in it (`protocol`), leaves it hanging (`timeout`),
cannot be reached, or is turned away by the guard; it changes at any time. So a server
that is up may let one transport hang and speak the other. A failure is the set of
leaves of the exception group; the SDK may add a leaf of its own. `met` remembers what
the endpoint was to each transport while the refresh was in the gate. The periods of the
timeouts are not modelled: a hanging attempt ends in `timeout`, and then the refresh does,
without a fallback (`client.py:291-294`; `test_mcp_client.py:70-75` wants it so).

`clock` is `now()`, which a transaction takes when it begins and `_SAVE_TOOLS` writes
when it commits; another may begin later and commit between, so `fetched_at` can go back.

`ToolsBoard` knows neither gate nor fallback: a messenger goes out with the card's
transport in mind, hears in one moment what is true of the server then, dates its news
and posts it later; a list may replace one with a later date. The refinement (`Brought`)
makes the last attempt of a refresh the moment of hearing; all attempts before are
stutters.

### IntrospectCache and JwksCache

Time is a counter. `IntrospectCache` numbers the truths Site Auth would tell about
a token, so staleness is a question of when a version ended. `JwksCache` has the
asyncio lock as a queue. The initial time is one cooldown, because
`_last_forced_refetch` starts at 0 on a clock that counts from the boot of the
host.

### RateLimit

Taking the time, reading the counter and writing it are three steps of a thread.
With one thread it is the `refresh` bucket, called on the event loop; with more,
the buckets whose dependency runs in the thread pool.

### Discussion

A request is at `opened` (card read), `checked` (parent or comment read),
`committed`, or `listing`. Comments of a deleted card become `Gone`. `words` says
whose text a comment has.

`Forum` has no checks made earlier: somebody comes to a card and, in one step, writes,
edits or erases what they may at that moment, or leaves. The refinement (`Visit`) shows
a handler as a visitor until it writes. What a check leaves open shows in two places:
a reply may be put under a comment deleted since (its place is kept), and an edit of
such a comment changes nothing.

### CatalogPaging

A walk is one client going through a list; `steady` is the history of what has
been in the list, and in its place, since the first page. The client may send a
cursor with another sort; `Accepts` refuses it. A cursor is encoded and decoded
without loss (ISO 8601 with microseconds, JSON, base64), so it is kept as a record.

### Modules without state

`UrlGuard`, `CardBody`, `CatalogQueries`, `Inbox` and `RowOrder` translate code that
computes: a check, a validator, a SELECT, a statement. Their `MC` modules state, as
named assumptions, what the code should compute, by another definition or over
sequences of calls, and TLC evaluates these over bounded inputs at the start of
the runs that extend them. Those marked * are also proved for all inputs (section 5):

| assumption | says | evaluated in |
|---|---|---|
| `HostsMatchByLabels` | an allowlist entry matches by DNS labels, not by letters | `tools_refresh` |
| `ServersRunThere`, `EveryAddressCounts` | only addresses where no server can be are refused; one bad address of several is enough; v4 written as v6 makes no difference | `tools_refresh` |
| `RedirectsAreChecked` * | redirects are followed up to the first one refused | `tools_refresh` |
| `SameRulesAlmost`, `NothingRefusedInVain` * | the request check and the CHECKs of the database agree, with three exceptions (two of them in section 4) | `health_tick` |
| `TagsOnce` * | tags are normalised, once each, in the order of first mention | `health_tick` |
| `HiddenLeavesNoTrace` * | all answers are what they were if the cards one may not see did not exist | `catalog_paging`, `own_cards` |
| `TeamsOnlyAdd` * | anonymous readers see public cards only, more teams never show less, an editor sees the card | as above |
| `FiltersIntersect` * | tags narrow, and compose | as above |
| `ScreensAgree` * | tag counts, total, list and detail tell the same (all but the total) | as above |
| `BookmarksPaged` *, `OffsetSkips` | bookmarks at rest are paged without loss; a bookmark removed between two pages hides another | as above |
| `LastWordCounts` * | stars and bookmarks are those of the last request of each person, whatever was sent twice | `discussion`, `discussion_read_back` |
| `ReadOnce` * | the time of reading is that of the first request that covers the notification | as above |
| `BadgeIsWhole` * | the badge counts all unread notifications, whatever the page; the pages show all notifications once (this part is proved) | as above |

## 3. What the runs show

| run | instance | shows |
|---|---|---|
| `health_race` | 1 card, 2 workers, 2 rechecks, 3 recordings, 1 lost lock | types; the row sums up the results; the token is exact; sweeps yield and move forward; corrections are witnessed; one sweep while the lock is kept; refinement of `HealthBoard` |
| `health_tick` | 2 cards and 1 request or 1 card and 2 requests, batch of 1, 3 bodies, of which 1 card sees all | refinement of `CardStore`: each request changes a card as a whole, once, or not at all, and a probe its transport alone; a deadlock takes a DELETE; ticks and requests end, and every card's turn comes; `MCCardBody` |
| `health_lost_lock` | 2 workers, 1 lost lock | violation, see findings |
| `tools_refresh` | 2 refreshes, 1 slot, 2 transports, 1 list, 4 servers, 1 change of the endpoint, 2 transactions that save | refinement of `ToolsBoard`: cache row and corrected transport are those of one true answer; the fallback finds a server that refuses the card's transport, bothers no dead one; the reason is one that occurred; refreshes end; `MCUrlGuard` |
| `introspect_cache` | 1 token, 3 calls, 3 versions, 5 ticks, cache of 2 | a logout shows in time |
| `jwks_cache` | 2 kids, 2 requests, 1 rotation, cache of 3, cooldown of 2, 7 ticks | forced refetches are apart; no needless fetch; refusals have a cause; requests are answered |
| `rate_serial` | 1 user, limit 2, window 4, 11 ticks | twice the limit at most; refusals have a cause; Retry-After suffices |
| `rate_threads` | 3 threads, limit 1 | violation, see findings |
| `discussion` | 3 people, 2 cards, 3 comments, 2 requests on one card at a time | two levels; words; notifications; listings; refinement of `Forum`; `MCInbox` |
| `discussion_read_back` | 1 card, 2 requests | violation, see findings |
| `catalog_paging` | 3 cards, 2 names, 2 times, 1 card a page, 1 edit | nothing skipped, nothing repeated; `MCCatalogQueries` |
| `own_cards` | 3 cards, 2 a page, no edits | violation, see findings |

Why the bounds are enough. The races are between one observer and those who act
between its read and its write, so two actors on one row, plus the owner, already
meet in every order; `health_race` has four probers and room for three recordings,
enough for a sweep to read, be overtaken twice, and write. In `health_tick` a batch
of one is the smallest there is, so one card can starve the other. `MaxLoad` keeps
cards and open requests together at three: two requests and the sweep meet on one
card, which is enough for a cycle of two and of three transactions, and one request
meets the sweep while another card waits for its turn. The cards not in `Edited` are there
to compete for that turn: they are registered with a transport, swept, rechecked and
deleted, while PATCH, saved tools, corrections and the other bodies meet on the card
that is; the proofs hold for any `Edited`. Two refreshes and one slot make one
wait at the gate. Of the four servers one is dead, one refuses a transport and speaks the
other, one lets a transport hang and speaks the other, one is none and redirects where the
guard stops it; the card names either transport, so each answer is met first and second. Three calls let two overtaking answers and a reader meet. Three
comments are a thread, its reply and one more; two cards let a parent be on the wrong
one. Two constraints keep that run short (`OnOneCard`, `ThreeByOthers`): requests on
different cards share no row, so two that are open at once are for the same card; and
where three comments were written, none of those left is the moderator's, whose own
comments meet every request among the first two. The lists of tools are told apart by
their date and the transport they came over, so one set of tools is enough. Three
cards with two keys make ties at a page's end; in `catalog_paging` nothing follows a walk
that is over (`OneWalk`), because the next would start just as the first. Times run over
two windows, two cache periods or two cooldowns, so each expires and starts again.

That ticks, requests and refreshes end is stated as `[]<>` of a state in which they are
idle: TLC decides it in a fraction of the time of `~>`, and it says as much. Symmetry is used
only in runs without a liveness property (`health_race`, `introspect_cache`,
`rate_threads`, `discussion`), over model values that no definition orders or names: of the
transports, `ConnectorHealth` only asks whether two are the same. Their action properties
and the refinement quantify over those sets as a whole.

Deadlock is checked in every run but those of `Discussion`: there all cards can be
deleted and all requests closed, and nothing is left to do.

### Fairness

Only three runs assume any. `health_tick`: weak fairness of starting and ending a
tick (`run_forever` starts one after the other) and of the deadlock detector;
strong fairness of the next step of each task and each request, because a
transaction that waits for a row is now enabled and now not, and PostgreSQL queues
the waiters of a row (asyncio runs what is ready; every probe is under
`asyncio.wait_for`). Nothing is assumed of faults or of what requests arrive.
`EveryCardsTurnComes` has a premise: from some time on no sweep task fails. It is
needed: an owner who takes the endpoint away and puts it back while a probe is out
makes every correction fail the constraint, the card stays the oldest, and with as
many such cards as a batch holds nobody behind them is looked at. The property
says nothing of how long a turn takes (see section 6). `tools_refresh`: weak
fairness of each refresh's steps, and strong fairness of entering the gate, because `asyncio.Semaphore`
wakes those who wait in the order they came. `jwks_cache`: weak fairness of a
request's steps (the HTTP client has a timeout); the lock's order is in the model.

## 4. Findings

* **The lock is held by a connection nobody looks at** (`worker/main.py:48`). The
  docstring at `worker/main.py:9-10` promises one tick at a time whatever the number
  of replicas. If the session of `lock_conn` is lost, a second replica sweeps at the
  same time. `health_race` and the proofs show that rows stay right all the same:
  the compare-and-set does not depend on the lock.
* **The counter is not atomic in the thread pool** (`api/rate_limit.py:40`). The
  docstring at lines 35-36 says that at a window's boundary at most twice the limit passes.
  Three threads pass a limit of one.
* **A created comment may not be there to read back** (`api/connectors/social_router.py:127`).
  `assert created is not None  # 방금 만든 행이다` fails when the card is deleted
  after the commit. The edit handler has the same shape, and so has the registration of
  a card (`router.py:222`); the edit of a card answers 404 there.
* **One's own cards are not all listed** (`api/connectors/router.py:163`). The page is
  filtered after it was cut and the cursor is dropped with the first card of another
  person, although line 156 says that one's own are all visible.

Smaller observations, stated as exceptions in `SameRulesAlmost` or made while
modelling:

* A correction that comes late may put the transport of the old address next to the one
  of a PATCH (`correct_transport` looks at the id alone, `probes.py:161-163`). It stays
  until a later refresh or probe finds the right one, or the owner edits again.
* `fetched_at` is `now()`, the beginning of the transaction, without a GREATEST
  (`probes.py:52-56`): two refreshes that overlap can leave the older list with the older
  date.
* A server that lets the card's transport hang is not found over the other one, though it
  speaks it: a timeout ends the refresh, on purpose (`client.py:201-203`).
  `FallbackFindsTheWay` says no more than that a refusal leads to the other transport.
* `check_consistency` says it applies "the same rules as the CHECKs"
  (`api/connectors/schemas.py:63`), but a global card whose `scope_id` is blank passes
  (the validator makes it an empty text, which is falsy) and then fails
  `connectors_scope_consistency`, which wants NULL.
* `visibility_teams` are not made distinct as tags are; a team named twice fails the
  primary key of `connector_visibility_teams`.
* PATCH and DELETE pass `_require_owner` with a short id and then cast it to uuid
  (`core/connectors/mutations.py:38`).
* Bookmarks are paged by OFFSET (`OffsetSkips`), which the catalogue avoids on purpose
  (`api/connectors/schemas.py:119-120`).
* With the default settings more than about 1200 cards cannot all be looked at again
  before their badge is called stale (200 cards each 300 s, stale after 1800 s).

## 5. What is proved

For every value of the constants that satisfies the named assumptions:

| theorem | says |
|---|---|
| `ConnectorHealthProofs!TypeCorrect` | `[]TypeOK` |
| `ConnectorHealthProofs!RowsCorrect` | `[](RowSummarisesHistory /\ TransportAnchored)` |
| `ConnectorHealthProofs!TokenExact` | `[]TokenIsExact` |
| `ConnectorHealthProofs!LockExclusive` | `[]SingleSweepWhileLocked` |
| `ConnectorHealthProofs!SweepIsPolite`, `SweepGoesForward` | `SweepYields /\ SweepMovesForward` |
| `ConnectorHealthProofs!SweepIsBounded` | for finitely many cards: a sweep has at most `Concurrency` cards in flight and `BatchLimit` tasks |
| `ConnectorHealthProofs!CorrectionsAreWitnessed` | `CorrectionIsWitnessed` |
| `ConnectorHealthProofs!Refinement` | `ConnectorHealth` implements `HealthBoard` |
| `CardTransactionsProofs!TypeCorrect`, `CardsAreWhole`, `DeadlocksTakeADelete` | `[]TypeOK`, `[]WholeOrGone` (also: a transport stands next to an address, and is the body's or one that was found), `[]DeadlocksAreDeletions` |
| `CardTransactionsProofs!NobodyWaitsInVain` | for finitely many cards and requests: no row is held while nobody works on it, and of those who wait for each other somebody can move or a cycle is there to be found |
| `CardTransactionsProofs!Refinement` | `CardTransactions` implements `CardStore` |
| `CardTransactionsProofs!TagsKeptOnce`, `RulesAgree` | of any body: its tags are kept once each, in the order of mention; request check and database agree but for three kinds of body |
| `IntrospectCacheProofs!TypeCorrect`, `LogoutShows` | `[]TypeOK`, `[]LogoutShowsInTime` |
| `JwksCacheProofs!TypeCorrect`, `NoAmplification`, `DoubleChecked`, `RotationIsNoOutage` | `[]TypeOK`, `[]ForcedRefetchesApart`, `[]FetchOnlyWhenStale`, `RejectedForCause` |
| `JwksCacheProofs!TheLockPassesOn` | who waits for the lock waits behind a request that has a step to take; one request at a time talks to Site Auth |
| `RateLimitProofs!TypeCorrect` | `[]TypeOK`, with any number of threads |
| `RateLimitProofs!TwiceAtMost`, `RefusalsHaveCause`, `WaitingSuffices` | under `Serial`: `[]TwiceTheLimitAtMost`, `RefusedForCause`, `RetryAfterSuffices` |
| `ToolsRefreshProofs!TypeCorrect`, `AWayIsFound`, `SecondTriesAnswered`, `ErrorsNameCauses` | `[]TypeOK`, `[]FallbackFindsTheWay`, `[]AnsweredBeforeFallback`, `[]ErrorNamesCause` |
| `ToolsRefreshProofs!CacheIsASummary` | the row is a function of the outcomes in the order of their commits (`[]CacheSummarisesOutcomes`, of the specification with that history) |
| `ToolsRefreshProofs!GateAddsUp` | no more refreshes talk to endpoints than there are slots, and who finds none waits for one that holds a slot |
| `ToolsRefreshProofs!Refinement` | `ToolsRefresh` implements `ToolsBoard` |
| `ToolsRefreshProofs!FinalDotIsNothing`, `RedirectsStop` | of hosts and redirect chains of any length: a final dot does not matter to the allowlist; the first refused hop is the end |
| `DiscussionProofs!TypeCorrect`, `ThreadsHaveTwoLevels`, `WordsStayOwn`, `EverybodyToldOnce`, `ListingsAreComplete`, `OthersAreSpared` | `[]TypeOK`, `[]TwoLevels`, `[]OwnWordsOrNone`, `[]ToldOnce`, `[]ListingLosesNothing`, `DeletionSparesOthers` |
| `DiscussionProofs!Refinement` | `Discussion` implements `Forum` |
| `DiscussionProofs!LastWordCounts`, `ReadOnce`, `BadgeDropsByWhatWasRead` | of any sequence of requests: stars follow each person's last click; a notification keeps the time it was first read; the badge drops by what was read |
| `CatalogPagingProofs!TypeCorrect`, `KeysetSkipsNothing`, `KeysetRepeatsNothing` | `[]TypeOK`, `[]NothingSkipped`, `[]NothingRepeated` |
| `CatalogPagingProofs!HiddenLeaveNoTrace`, `TeamsOnlyAdd`, `FiltersIntersect`, `ScreensAgree` | of any table, reader and filter: hidden cards change no answer; teams only add; filters intersect; list, tags and detail agree |
| `CatalogPagingProofs!BookmarksShownOnce`, `NotificationsShownOnce`, `TagsMostUsedFirst` | of any table that stays as it is and pages of any size: every row due is shown in one place, in the order of the ORDER BY, and no other |

`ConnectorHealthProofs`. `Inv == TypeOK /\ RowsInv /\ TokenInv /\ LockCoversTick`.
`TokenIsExact` alone is not inductive: that a recording makes the token differ from
what every other task read needs to know that the time of an open transaction is in
no row, in no other open transaction and was read by nobody (`OpenTimesAreFresh`),
which in turn needs that all times in use are below the clock (`TimesAreIssued`); that
a deletion does no harm needs that a card never comes back (`ProbersCarry`). Most
actions touch neither rows nor what a prober read: they are shown to be `Quiet` once,
and `Quiet` steps keep `TokenInv`. `LockCoversTick` is what makes mutual exclusion
inductive. The action properties and the refinement follow from `Inv` step by step. The
proofs rest on `CardsAssumption` and `NoneAssumption`, on timestamps of distinct
transactions being distinct (built into `BeginRecording`; the mutant
`BeginRecordingCoarse` shows that the token needs it), and bounds play no part in them.

`SweepIsBounded` goes by what one step can do to one worker's tasks (`TasksOfWorker`): begin
with a batch, take up one of them while there is room, or let some go. It uses the
finiteness of `Cards`, because it counts.

`IntrospectCacheProofs`. The invariant says that each entry expires `CacheSec` after
a time at which, or later, its version was true, and the same of each answer on its way.

`JwksCacheProofs`. `CooldownInv`: `lastForced` is the last element of `refetches` or
still 0, and nothing was decided on later. `CallInv`: whoever fetches holds the lock, and
keys on their way have every kid that was published all the while. `QueueInv`: the queue of
the lock is made of those who want it, each once; taking the head away leaves that so,
because nobody is in the queue twice (`Leaving`).

`CardTransactionsProofs`. `LocksInv` ties locks to stages: who is in a stage that
writes a card holds the card's row (`WritersHold`) and a lock is held only in the
stages after it was taken (`Holders`). With it `LockedCardStands` (the card is there,
and its tags are those that were seen) and `WholeOrGone` are inductive; a correction keeps
`WholeOrGone` because it is turned away where there is no address. Without a
DELETE, who waits, waits for a child row whose holder waits for the card's row, whose
holder waits for nobody: no cycle. The bounds `BatchLimit` and `MaxLoad` play no part.
The refinement needs three facts more (`StoreInv`): an open recording still has its
time in the order, so that its COMMIT leaves one in the health row (`OpenTimes`); tasks
and requests do only what is theirs (`KindsFit`); a card that is not there has no
columns (`EmptyShelves`). `NoneAssumption`, that `None` is no body and no request, is
used there. `NobodyWaitsInVain` rests on it and on `Sharers`: a foreign key's lock belongs
to a saving of tools in the middle of its statements. So everybody waited for is in a
transaction (`WaitedForIsOpen`). If nobody in a set that nobody in it waits beyond could
move, each would wait for another of it; a smallest set like that, which there is as the
actors are finitely many, is a cycle (`StuckHasCycle`).

`RateLimitProofs`. `CounterOk` knows that `count` calls were let through since the
counter's window began and at most `Limit` in the window before; any stretch of a
window's length is covered by those two or lies before. `Serial` (at most one thread)
is what the run `rate_threads` lacks; the `refresh` bucket has it, being counted on the
event loop.

`ToolsRefreshProofs`. `TaskOk`: what a refresh in the gate remembers of the endpoint
includes what it is now, and the first transport was refused once the second is
tried; so a refresh that ends without a handshake has met something else than a server on
each transport it tried, and tried both unless the first was left to time out or worse.
`SlotsOk`: a slot is missing for each refresh in the gate and no other. That
there are two transports is part of `RefreshAssumption` (the code names two). For the refinement, `BoardInv`
adds that an idle refresh remembers nothing (`HomeIsBlank`); that the reason posted is
that of the server at the last attempt comes from `FailuresAreClassified`, whatever
leaves the SDK adds to the failure. `CacheIsASummary` is about the specification with
one more variable, the outcomes saved so far (`LogSpec`), which no action reads.

`DiscussionProofs`. `Steady`: card, parent and author of a comment never change and a
card takes all its comments along; so what a handler has checked stays true or its
comment is gone (`CreateOk`, `ChangeOk`, `ListOk`). These are just the conditions
`Forum` asks for at the moment of the write, so the refinement needs no other invariant.

`CatalogPagingProofs`. Positions are totally ordered, so the last row of a page divides
the list (`PageDivides`): beyond the next cursor nothing was on the page, before it
everything was. A card that keeps its place stays on its side (`PageSplits`), whatever
is put or taken elsewhere. That a finite page has a last row is the one fact about
finite sets it takes (`MaximalExists`).

The modules without state. What a handler or a loop has done after any number of steps
is shown by induction on that number: `LeastNumber` (from the well-foundedness of `<`)
says that a set of numbers has a smallest
one, and there is no smallest number at which the claim fails. `LastWordCounts` and
`ReadOnce` take the sequence of tables as given, one `React` or `MarkRead` after another.
For `TagsKeptOnce` the recursive function of `NormalizeTags` has first to be shown to
exist (`TheLoopRuns`: a part of it as long as any number can be made longer); then
`AddTagKeeps` is the step. `RulesAgree` needs that tags are kept once, for the primary
key of `connector_tags`. `FiltersIntersect` rests on `TagFilterMeansAll`: a card that has
as many distinct tags among those asked for as were asked for has them all, by
counting. In `HiddenLeaveNoTrace` the same statement is evaluated on the table and on the
`VisiblePart` of it.

`RowOrder` says what ORDER BY gives without recursion: a row stands behind as many as come
before it. `OrderedLists` shows that these numbers are different and below the number of
rows, so every place is taken (an injection between sets of one size); `OffsetPages` that
the pages `k * limit` cover each place once, by the smallest `k` that reaches it. The three
theorems about lists are these two with the order of each SELECT, and need that ids and
times are numbers and that the tags' names are ordered.

Only model-checked: all liveness (temporal properties with fairness, and `ENABLED`, are out of the
prover's reach): `TickEnds`, `RequestsEnd`, `EveryCardsTurnComes`, `RequestAnswered`,
`RefreshEnds`. What they need of the reachable states is proved: `NobodyWaitsInVain`,
`TheLockPassesOn` and `GateAddsUp` say that who waits, waits for somebody with a step to
take, or in a deadlock that is detected; the rest is that fairness makes the step
happen. Of the modules without state, what depends on a fold of the library (sums over a
sequence, the statistics' total) or on `SetToSortSeq` (the DNS labels of a host), because
the library defines these by recursion over sets and its induction theorems take an
operator, which the provers cannot instantiate. No module declares a `RECURSIVE` operator. Every safety
property that a passing run checks is proved. `WholeOrGone`, `CacheSummarisesOutcomes`
and `DeletionSparesOthers` are proved and not checked by a run of their own: the
refinements say more of the same code.

## 6. What is not modelled

* Token decoding (PyJWT), the team directory, the growth of `_introspect`.
* SDK sessions, size and header limits, the page loop of `list_tools`.
* A star or bookmark for a card that is deleted meanwhile: the foreign key fails and
  nothing is stored. Who may see a card, in `Discussion`.
* Durations: the pacing of ticks, the length of probes, when a badge is stale.
* Start-up, and the order of migration and start-up.
* The web front end and the packages: placeholders without code.

## 7. Plan

Done: every component above that keeps state or decides something, with its proofs.
What would add most next:

1. The worker's tick with durations, to state when a badge may be called stale.
2. The migration gate of the compose file: no process on an old schema.
3. `Discussion` with readers who lose sight of a card between check and write.
4. Proofs for what a fold of the library decides (section 5), by sums of the modules' own,
   written as recursive functions as in `NormalizeTags`.
