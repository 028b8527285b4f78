# lscan in TLA+

lscan is a Django site: paste a list of EVE Online pilot names, get a threat profile for
each pilot. Killmails come read-only from Postgres, identity (ids, names, corporations,
details) from ESI, the public EVE API, and everything ESI says is cached in Redis, the only
store lscan writes. This directory holds TLA+ modules of the parts of lscan that several
threads, workers, visitors or answers touch at once, the TLC configurations that check them,
and the proofs about them.

Source paths below are those of the repository: `src/intel/esi.py` and so on.

## Inventory

Who runs: three gunicorn sync workers (`docker-entrypoint.sh`), each serving one request at a
time; inside a request, a pool of up to `ESI_MAX_PARALLEL` = 8 threads (`esi._parallel`);
`warm_sde_cache` at container start; the script of every open page (`intel.js`). Who is
external: ESI, Redis, Postgres (filled by the zkillmanager collector), the browser's `fetch`.

| component | state | operations | interacts with |
|---|---|---|---|
| ESI circuit breaker, `esi._request`, `_check_budget`, `_trip` | Redis key `esi:blocked` | one HTTP call; look at the block, send, read the budget headers, trip | every other ESI function; ESI's two limiters, shared by every visitor |
| Names of ids, `esi.names`, `_resolve_names_batch` | Redis `esi:name:<id>` | split cached ids, ask in chunks, halve a refused batch, negative-cache a dead id | `_request` |
| Details and tickers, `esi._parallel`, `_character_details`, `_tickers`, `_cache_hits_and_misses` | Redis `esi:char:<id>`, `esi:ticker:<id>` | fan out one GET an id, gather in order, cache hits and misses with their TTLs | `_request` from pool threads |
| Bulk lookups, `esi.resolve_character_names`, `uncached_character_names`, `_affiliations` | Redis `esi:nameid:<hash>`, `esi:affil:<id>` | one POST a chunk, cache what the answer names (names: also what it does not) | `_request`, the throttle |
| Warzone map, `esi.warzone_systems` | Redis `esi:warzone`, a memo per process | load once, degrade to empty | `_request` |
| Throttle, `throttle._client_ip`, `allow_lookup` | Redis `rl:lookup:<ip>` | one key for the spellings of an address; `SET NX EX` | the scan request |
| Scan request, `views._scan_response`, `_char_fragment` | none of its own | legacy redirect, throttle, resolve, identity, killmails, render; map each exception to 400, 429, 503 or 404 | all of the above |
| Killmail store, `killmail_store.load_entries` | none (Postgres, read-only) | count rows, refuse over `MAX_SCAN_ROWS`, fetch kills, fetch losses, resolve labels | Postgres, `sde_cache` |
| SDE cache, `sde_cache`, `warm_sde_cache` | `_local` per process, Redis `sde:table:<kind>` | `lookup` (memo, blob, Postgres), `warm` at container start and by hand | Postgres, Redis, gunicorn's restarts |
| Aggregation, `profile_service` | none (pure) | filter a window's killmails; metrics, targets, spaces, ships, chart, drill-down | killmail dicts, `today` |
| Scan URL, `scan_url`, `urls.py`, `views._legacy_redirect`, `_esi_spelling` | none (pure) | path to names, names to canonical path | the request, `intel.js` |
| Page script, `intel.js` | `state` (names, window, filters), the DOM: cards open, details loaded | click, paste, refresh, load a detail, drill down | answers of `fetch`, in any order |

What makes each part correct, and what is hard about it:

- **Breaker.** No lock is held between looking at the block and sending, the block is one key
  for two limiters, headers can be missing, rounded or 0, answers can be lost. Correct: a
  spent limiter is noticed; nobody who was told goes on; the 10% margin pays for what is
  still in flight; the breaker closes again.
- **Names.** One dead id makes ESI refuse the whole batch. Correct: every id gets exactly one
  answer, only dead ids are cached as dead, nothing a call knows is asked again, the halving ends
  and its price is bounded, and a call that raises half way loses nothing it learned.
- **Details and tickers.** Results are gathered in order while threads finish in any order; one
  that raises cancels what is queued but not what runs; two workers fill one cache. Correct:
  an answer for everyone or an exception, what ESI has said is kept or given up as a whole, a
  miss that does not outlive its TTL.
- **Bulk lookups.** Two spellings share a key, ESI answers in its own casing, other workers fill
  the same entries and names change hands between an answer and its entry. Correct: what is
  returned is what ESI said of that pilot, and a stale entry ends a bounded time after the
  change.
- **Scan request.** Each call can fail in its own way; the throttle's look at the cache is
  older than the lookups it lets through; a client has many spellings. Correct: a
  pilot is reported unresolved only where ESI or the cache said so; a client gets one lookup of
  names a token, however its address is spelled and whichever worker it meets; a failed map is
  not remembered; a repeat of a scan that was served in full asks ESI nothing.
- **Killmail store.** Count and fetch see different snapshots. Correct: what passes the row
  budget unchecked is only what was collected in between.
- **SDE cache.** Memo, blob and tables change at different times, and workers, the container
  and Redis come and go independently. Correct: a restart is the refresh; a warm is undone by
  no one but a read that was under way; a version that is gone does not come back.
- **Aggregation.** Every view of a profile must come from one filtered set, labels fold several
  stored values into one, and the day may turn. Correct: the views add up to one total, but
  where a comment or a guard says they may not, and a click keeps the kills it pointed at.
- **Scan URL.** Three views rewrite a URL one after the other (slash, legacy, canonical), and
  each can drop or change a part of it. Correct: a link ends on the page it says, and following
  canonicals settles on a page about the same pilots.
- **Page script.** Answers of several requests race; cards are restored after a swap. Correct:
  when all is answered the page shows what was asked for, no card shows another view, no
  spinner is left behind.

`PROJECT.json` lists each hazard with its line and the properties that would catch it.

## Modules

| module | of | contents |
|---|---|---|
| `EsiBreaker` | breaker | threads in `_request`, the block, ESI's limiters and windows |
| `EsiBreakerProofs` | | its inductive invariant and five theorems |
| `BreakerTrips` | breaker | `EsiBreaker` with a history of the limiters that tripped it |
| `MCEsiBreaker`, `MCBreakerTrips` | | values for TLC |
| `NamesLookup` | names | what `names()` promises of the cache: entries are learned, missed, expire |
| `NamesBatch` | names | `names()` and the recursion; implements `NamesLookup` |
| `NamesBatchProofs` | | its inductive invariants, six theorems, the refinement |
| `ScanUrl` | scan URL | pure operators: segments, routes, redirects, the canonical |
| `NameLookup` | bulk lookups, scan URL | a link from the browser to its page, and the lookup of its names against other workers and ESI; extends `ScanUrl` |
| `NameLookupProofs` | | what `parse_names` and `scan_path` do to any list, inductive invariants, four theorems |
| `DetailFanOut` | details and tickers | the loads of several workers, their thread pools and the cache they share |
| `DetailFanOutProofs` | | its inductive invariants and five theorems |
| `ScanRequest` | scan request, throttle, warzone map | a request from its receipt to its status, on any worker |
| `ScanRequestProofs` | | its inductive invariants and six theorems |
| `SdeTable` | SDE cache | what a reader may rely on: a process holds one version, and a version gone stays gone |
| `SdeCache` | SDE cache | lookups, warms, restarts, updates; implements `SdeTable` |
| `SdeCacheProofs` | | its inductive invariants, three theorems, the refinement |
| `PageScript` | page script | the page, its cards and the answers in flight |
| `PageScriptProofs` | | its inductive invariant and five theorems |
| `ProfileService` | aggregation | pure operators: filters, counters, profile, drill-down |
| `KillmailLoad` | killmail store, aggregation | the queries of one load against a store that moves, the conversion of rows, a reader's clicks; composes `ProfileService` |
| `KillmailLoadProofs` | | totals of counters, its inductive invariant and five theorems |
| `MCNamesBatch`, `MCDetailFanOut`, `MCScanRequest`, `MCNameLookup`, `MCSdeCache`, `MCPageScript`, `MCKillmailLoad` | | values for TLC |

Mutants of a definition stand just before it, named after it (`BilledAsSent` before `Billed`) and
marked `Mutant:`; no action of the specification uses one.

### EsiBreaker

`pc[c]` is where thread `c` is in `_request`: `checked` after line 149 found no block, `sent`
while httpx waits, `answered` when the response is back but not yet inspected, then one of the
outcomes the function ends with (`value`, `none`, `unavailable`, `rate_limited`). `CheckClosed`
and `CheckOpen` are `cache.get` (149-151), `Send` the request (154), `Fail` httpx's exception
(155-157), `Trip` `_check_budget` raising through `_trip` (99-136), `Return` what follows
(161-168). `block` is the TTL left on `esi:blocked`. ESI (`Handle`) counts a request against the
limiters that govern its route, and answers with their headers; a reset header may be rounded
down, and may be absent if the limiter is in `MayOmitReset`. `Tick` is time: Redis expires the
block, windows end. `told`, `lost` and `early` are history: who was told that a limiter is
spent, how many such answers never arrived, how often the block ended before the window.

`NeverExhausted` is the exact form of the claim in the comment at `esi.py:62`, that the last
10% is the margin: it holds whenever the margin covers one answer a thread, once more for
each early expiry, plus the answers that were lost. The default deployment (three workers of
eight threads) can have 24 requests in flight, each of which may cost one error of a limit
of 100, so there the condition is not met and the guarantee is only `OneOvershootEach`: every
request that was in flight overshoots once, and no more.

A Redis error in `_trip` (`cache.set`, 102) has no action of its own: the exception leaves the
function and the block is as it was, which is what `Fail` does from `answered`.

`BreakerTrips` remembers which limiters have tripped the breaker in the window they are in, by an
answer that spoke of that window and of no earlier closing. `esi.py:67` says of those "stop
calling ESI entirely until the window resets", and `ShutUntilReset` refutes it: the bucket trips
and blocks for two ticks, a request in flight then trips on the error limit, whose window is
shorter, and `_trip` overwrites the block; a tick later the breaker is closed and the bucket
that tripped it still has a tick to go.

### NamesBatch

The recursion of `_resolve_names_batch` is the `stack` of batches still to ask for, each a
pair of positions in `missing`; `out` is the dictionary the calls share. `Begin` is
`_split_cached` (183-194), `NextChunk` the loop (249), `Named` a batch that resolved (230-236),
`RefuseOne` and `Split` a refused one (237-242), `Raise` an exception out of `_request`. The
cache survives the call, so calls follow each other and entries expire in between and during.
Calls on other threads and workers are `OtherFills`: they write an entry at any moment, over a
fresher one if it comes to that. So an id may be in the cache, unexpired, by the time its request
is sent, and be asked for all the same: the code looks at the cache once (185). `NeverReasked`
is what holds nevertheless: what this call knows is in the cache until it expires, also after a
request raised, and is in no batch the call still has to ask for.
`Flaky` lets ESI refuse a batch of ids it knows. `NamesLookup` is the abstract specification:
an id is learned, missed or forgotten; the halving is invisible.

### DetailFanOut

One load is `_character_details`, or one half of `_tickers`: `phase[w]` is where worker `w` is in
it. `Begin` is `_split_cached` and the submission of every uncached id; `Start` and `Answer` are
the pool's threads, at most `MaxParallel` of them; `Collect` takes the next result in the order
of the ids, as `zip` over `Executor.map` does, and meets an exception only when its turn
comes; `GiveUp` is the end of a load that met one, after the running threads are done;
`StoreHits` and `StoreMisses` are the two `set_many` of `_cache_hits_and_misses`, hits first.
`Kill` is gunicorn's timeout. `cache` ages with `Tick`. History: `fresh` is what ESI has said
and not yet withdrawn, `dropped` what a failed load threw away, `during` which loads were
under way when an id was cached.

### ScanRequest

`req[w]` is the request on worker `w`, its `pc` the call it has reached: `Receive` (parse, legacy
links aside), `Check` (`uncached_character_names`), `Throttle`, then for each stage of
`resolve_character_names` and `load_characters` a `Read` of the cache and one of `AskAnswered`,
`AskRefused`, `AskRaised`; then the warzone map (`WarzoneMemo`, `WarzoneBlob`,
`WarzoneLoaded`, `WarzoneFailed`), and `Load`, which ends the request with its status. The
stages are abstracted to which pilots have an entry: the halving, the pool and the breaker
are modules of their own. `Parts` names the stages a run has, since affiliation, names,
tickers and details differ only in what they remember. `RedisRaises` is any cache operation
that raises: nothing catches it, the request is a 500. `Headers` are what the edge may send as
the client's address; `Billed` is `_client_ip`, which folds the spellings of one address and
falls back on `REMOTE_ADDR`, so that whoever has no usable header shares one token. `free`,
`repeat` and `retold` are history: the pilots on a page that was served in full with nothing
expired since, whether all of a request's pilots were among them when it arrived, and the names
found by another request since then although the cache held them for nobody's. A token pays for names
that are not cached and for nothing else: identity lookups of cached names go through without
one (`views.py:215`, where `PROJECT.md:285` speaks of any ESI-triggering lookup).

Two claims of the repository hold only with exceptions, which the properties name:

- "A repeated scan costs zero requests" (`esi.py:3-4`, `PROJECT.md:260`). An affiliation that ESI
  refuses, or leaves out of its answer, is cached by nobody (`esi.py:311-326`), so each repeat of
  a scan with such a pilot asks again; so does a chunk of names that ESI refuses as a whole
  (`esi.py:271-274`). `RepeatIsFree` is about pilots on pages where that did not
  happen; and even then, a name the cache held for nobody's while the page was served may be
  found by an answer that crosses it on another worker, and then has an identity to ask for.
- "Redis down degrades the app rather than breaking it" (`views.py:32`). No cache operation of a
  request is guarded: with Redis down every scan that reaches one is a 500 (`RedisRaises`).

`WarzoneLoaded` is any answer with status 200. The code tells a failed map from an empty one by
`None` (`esi.py:509`), so an empty list would be stored and remembered like a map; the model
calls it one, and `EmptyMapIsNews` is about failures.

### ScanUrl and NameLookup

`ScanUrl` is what `scan_url.py`, `urls.py` and three functions of `views.py` do to a URL. A
segment is a sequence of parts, what stands between two commas; parts are opaque, and the
constants say what each of them reads as (`Read`), how a name is written (`Write`), how long it
is and whether the converter's pattern allows it. `RouteOf` is the first of `urlpatterns` that
matches, `Redirects` the hop of the slash and of the legacy view, `Canonical` what `_esi_spelling`
and `scan_path` make of the names once they are resolved.

`NameLookup` follows one visitor: `Open` a link, `FollowRedirect`, then `ReadCache`
(`_split_cached` with the early return), `AskAnswered`, `AskRefused` or `AskRaised` for the one
chunk (a page has at most `MAX_CHARACTERS` = 64 names, a chunk takes 1000), `Store`, and
`Render`, where any part of the pilots found may lack a name of its own and be shown by its id.
Other workers are `ResolveElsewhere`, one whole lookup between two steps of the visitor;
`ChangeHands` is ESI, `since` the time since a name last did. A name nobody has is stored with
the TTL of a hit (`esi.py:277-283`, a day), where the comment on `TTL_MISS` (`esi.py:77-79`)
speaks of not "pinning the miss for a day"; so `StaleIsBounded` bounds a stale miss by the TTL
of a hit as well. `Tick` does not come between an answer and its entry: what it takes is
milliseconds, a tick is a TTL's grain.

What the code does that the properties had to allow for, since they say what is true of it:

- The canonical of `/moe,MOE` is `/Moe,Moe`, whose page has one pilot and the canonical `/Moe`:
  there is not one canonical for a scan (`PROJECT.md:60`), but the second is the last.
- Spellings of one pilot count against the cap one by one, since `parse_names` compares them as
  they are spelled.
- A legacy link over the cap loses the names beyond it without the notice the path scheme gives
  (`views.py:133` caps before the page counts); a path with a legacy query loses its window; an
  illegal name in a legacy link is only met after the redirect, as a 404.
- The slash redirect drops the query, filters included.
- A path of separators (`/___`) is a page about nobody, status 200. A name of one or two
  letters, or a pilot called `healthz`, has no page of its own, only next to another name.
- A pilot for whom ESI has no name is spelled by its id, and the canonical then names the digits.

### SdeTable and SdeCache

A table stands for its version. `LookupBlob` and `LookupCold`, `Fetch`, `Store` are `_table` in a
worker; a lookup that finds its table in `_local` is no step. `Store` may raise after Redis has
written (`StoreRaises`), and any call may raise before (`LookupRaises`). `WarmFetch` and
`WarmStore` are one round of `warm`, `WarmRaises` its end at any call; the warm of the
entrypoint runs before gunicorn serves, and when it fails gunicorn starts all the same.
Workers and the container restart at any time, Redis outlives both. `boot` and `warmed` remember
which version Postgres had when the warm of this container's start, or the last warm, wrote
a table; `behind` and `late` which workers had read rows before that, and which of them have
written since.

`RestartIsRefresh` counts a table from the moment the warm refreshed it, so it is only as good
as the warm: where that failed, the old blob stays for its TTL of 30 days, and is what every
worker takes, although the entrypoint's comment says that reads heal themselves
(`docker-entrypoint.sh:4-6`): they do when there is no blob. `SdeTable` says what is left to
rely on in any case.

### PageScript

`state` is the script's own record, `rows` the view the rows were served for, `cards` the card
of each row with its `data-loaded`, its content and its open group, `address` the view of the
URL, `bar` what chips and buttons show, `flights` the requests not yet answered, in the order
sent. Clicks change `state` and `Ask`; `RefreshAnswered` replaces the rows with whatever answer
came and restores the cards `openState` had seen when the request was sent; answers are taken in
any order, may be an error page or may never come (`RefreshFails`, `DetailFails`, `DrillEnds`),
as `Failures` says. The first page may be an error page too: `_error` (`views.py:116-122`)
renders it with no filters and no rows, while the filters it was asked for stay in the address.
`latest` says that the refresh sent last was the last to be answered or, before any, that the
page was served with its rows. The answer of a drill-down is not kept as a request:
`SpinnersEnd` is about refreshes and cards. `CardsSurvive` is about a refresh during which
nobody touched the page: what is opened or closed while it is under way is undone by the swap,
and a group whose card was still loading is not reopened.

### ProfileService and KillmailLoad

`ProfileService` has one operator for each function of `profile_service.py`, over sets of
records with the keys of the code's dictionaries. Shares are kept as counts. Where the code
depends on the order of rows, which the queries leave open (`most_common` at a tie, the last
kill that names a hull), the operator is the set of what some order gives.

`KillmailLoad` is one request after another: `Request` takes the date and the view; `Count` or
`Refuse`, `FetchKills`, `FetchLosses` are the three queries, in autocommit, so
`CollectKill`, `CollectLoss` and `Midnight` come between any two of them; the last one converts
the rows (`KillRow`, `LossRow` over the SDE's tables) and builds the rows of the page, a card,
or the hulls of a drill-down. `Click` adds the filter of any value these display, whatever the
label stands for. Each view remembers the rows it was built from (`built`), as a history.

## Runs

Passing runs:

| run | question | bounds |
|---|---|---|
| `breaker` | Does the 10% margin hold, is a spent limiter known, does the breaker close, for two limiters on one block? | two threads; a bucket of 20 and 2 ticks, an error limit of 1 and 1 tick that omits its reset header |
| `names_batch` | What does a call answer, cache and cost; does it end; is it a lookup? | four ids in chunks of three, any set of dead ids, other calls on the same cache |
| `fan_out` | Does everyone get an answer, are answers kept, is a miss brief, with two workers on one cache? | two workers, two ids, two threads each |
| `scan_pilots` | Who is reported unresolved, what is paid for, whatever fails? | one worker, a known and an unknown pilot, three stages, a visitor without an address, Redis up and down, ESI refusing or leaving out what it knows |
| `scan_workers` | One lookup a token for two workers and a client of two spellings; is any failure of the map remembered; what does a repeat cost on either worker? | two workers, one pilot, one stage, two spellings of one address, ESI refusing or leaving out what it knows |
| `scan_links` | Does a link end on the page it says, do canonicals settle, how stale is an entry? | 15 links of both schemes, a pilot in three spellings, a cap of two names, two names that change hands, a TTL of 2 ticks |
| `sde` | What does a restart refresh, what undoes a warm, what can a reader rely on? | two workers, two tables of two versions |
| `page` | Does the page end up showing what was asked for, whatever order answers take? | a page served with its rows or as an error, a known and an unknown pilot, one filter, one group, two refreshes in flight, answers lost or error pages |
| `killmails` | Do the views of a profile agree and clicks keep their kills, over a store that moves? | four kills and a pod of one pilot, a kill of another, one loss; two filters; two days; two classes named, one place a band |

Runs that refute what a comment or document says (`PROJECT.json`, findings):

| run | claim | what the code does |
|---|---|---|
| `breaker_reopen` | "stop calling ESI entirely until the window resets" | the shorter block of a later trip replaces the longer one of an earlier |
| `chart_midnight` | "all derived data (space, ships, targets, chart) stays mutually consistent" | a kill of the day that began after the request took its date is in the total and in no bar |
| `page_shown` | the URL is the scan and the filters that are shown | the answer to the first of two clicks comes last and leaves its rows under the URL of the second; no answer is lost or an error in this run |

Why the bounds are enough. The breaker's threads are interchangeable and a step involves one
thread and the shared key, so two show every race of check, send and trip; the limits are scaled
so that the 90% mark, the margin and exhaustion are different counts for the bucket, whose
margin covers two answers and which `NeverExhausted` is about, while the error limit is spent by
its first error and gives the block a shorter end; lost answers and rounded headers (`MaxLost`,
`ResetSlack`) are left to the proofs. Four ids in chunks of three make two chunks; three are
halved into 1 and 2, so both an odd and an even split, a split of one and a last short chunk
occur. A load of two ids with two threads has a result that waits for one before it and a
failure with a sibling running; two workers show one's hit against the other's miss. Requests
meet only in the cache, the token and the memo, so two workers show every race on a key, and one
with two pilots every mix of cached, missed and absent. The links are one of each kind the
routes tell apart, with two names to a page so that the third, a duplicate, a separator or
another spelling, meets the cap; a name changes hands twice, so that an entry can be stale in
either direction. Two tables are what it takes for a warm to fail half way, two versions for one
to be old; workers of the SDE cache meet only in the blob. On the page a window is changed like
a filter, and two flights are what it takes to overtake; a third adds no new pair. The kills are
chosen so that every label that folds or falls back occurs: a hull and a system the SDE lacks, a
hull with a label the code lacks, more classes than are named, Pochven, a shattered wormhole, a
region in two bands, a pod, and a kill of the next day; two windows of two and three days put a
kill on either side of the cut. What the bounds leave open the proofs close: every safety
property of a passing run is also a theorem, for every number of threads, workers, ids, pilots,
names or rows and every limit that meets the named assumptions.

`CHECK_DEADLOCK` is left on everywhere.

## Fairness

`EsiBreaker!Fairness` is weak fairness of each thread's own steps (threads are scheduled; a
request ends because `httpx.Client` has a timeout, `esi.py:88-91`) and of time. `NamesBatch`
assumes the same of the running call. New calls (`CheckClosed`, `Begin`) are never assumed.
The other modules state safety only and assume nothing.

## Proofs

Each `...Proofs` module has the same plan: an inductive invariant, a lemma that `Init` has it, a
lemma that every action keeps it with a step an action, and the theorems that follow from
it. The parameters are those of the module, under its named `ASSUME`s, which TLC evaluates for
the values of each run.

`EsiBreakerProofs`, for any set of threads, routes, limits, costs and windows. The inductive
invariant is `BreakerInv`: `TypeOK`; `ToldHeedsInv`, which says that whoever was told is either
still holding the answer that will trip or is out of ESI with the breaker open; `ToldSpentInv`,
that a limiter past the mark has someone who was told, or lost, or an early expiry to show for
it; and `BudgetInv`, which bounds ESI's counter by the mark plus one dearest answer for each of
those. The properties are not inductive by themselves: `NeverExhausted` needs the count of who
was told, which needs `OneOvershootEach` to know that nobody is counted twice. Theorems:
`TypeCorrect`, `BreakerInvariant`, `OneOvershoot`, `SpentKnown`, `MarginHolds`.

`NamesBatchProofs`, for any finite set of ids, any `_BULK_MAX` >= 1 and either value of
`Flaky`. The inductive invariant `NamesInv` adds `StackInv` (the stack is a chain of adjacent,
non-empty batches that ends where the next chunk starts), `AnsweredInv` (what lies before the
chain is answered, what lies in it or after it is neither answered nor cached) and `CallsInv`
(the requests so far are paid for by the positions answered and the batches on the stack).
Theorems: `NamesTyped`, `EveryIdIsAnswered`, `OnlyDeadAreMissed`, `NamesNotReasked`,
`CallsAreBounded`, and `NamesBatchImplementsLookup`, the refinement. `DeadIdsCostHalvings` is what a
dead id costs, two requests for each time its chunk can be halved. It has an invariant of its
own, `CostInv`: every dead id starts with one pair of requests for each depth (`Room`), and
`Owed` are those that a batch on the stack, or a chunk to come, may still use. A refused batch
has a dead id in it, by `~Flaky`, and spends that id's pair for the depth it is at; what its
halves may use lies deeper. `Depth`, the number of halvings, is a recursive function:
`DepthUnfolds` shows that it solves its recursion and `DepthGrows` that a larger batch is not
less deep.

`SdeCacheProofs`, for any set of workers, any tables and any bound on versions. `TypeInv` adds to
`TypeOK` that whoever holds rows knows their kind and that a lookup under way is about a table
its worker has not memoised. `RestartIsRefresh` is not inductive, since a worker takes what is
in Redis: `BootInv` says that nothing in Redis, in a lookup or in the warm is older than the
warm of this container's start, and `WarmInv` that the warm's rows are what Postgres had. The
floor rises only while nobody serves, which is why it never passes what a worker holds.
`FreshInv` does the same for the last warm, except for those who are `behind` it. Theorems:
`SdeTyped`, `RestartRefreshes`, `WarmStaysFresh`, and `SdeCacheImplementsTable`, the refinement.

`NameLookupProofs`, for any names, spellings, links, cap and TTLs. `StaleIsBounded` needs
`AnswerInv`: an answer that is wrong before it is written has become so since the last tick,
which is where the assumption that no tick comes between an answer and its entry is used.
About the URL it has lemmas on the operators of `ScanUrl`: `ParsedNames` (`parse_names` gives each
name of the segment once and nothing else), `WrittenNamesParse` (distinct names that `scan_path`
writes read back as they were, in their order), `PastedNames` (the cap cuts a prefix) and
`ScanPathKeepsNames`, which puts them together. `LinkKeepsScan` follows from `LinkInv`, that the URL
of a request is its link or the one place the link is redirected to; no place it is redirected
to redirects again. `CanonicalSettles` needs more: `FoundInv`, that whoever was found has a name
somebody may have (so that the pattern lets its spelling through) and that two spellings of one
name on a page are found alike, which holds because cache, chunk and answer all go by the fold.
Theorems: `NamesAreTyped` (among others: ESI is never asked about nobody), `StalenessIsBounded`,
`LinksKeepTheirScan`, `CanonicalsSettle`. The assumptions on links and parts are those of the
code: a name that was read from characters the pattern has is written in such characters
(`PartsAssumption`), so is a name ESI gives (`CharactersAssumption`, as `scan_url.py:17` says of the
pattern), and a slash is trailing only behind something (`LinksAssumption`).

`DetailFanOutProofs`, for any finite sets of workers and ids, any pool and any TTLs. `TypeInv`
adds that nothing has been said for longer than its load has run. `LoadInv` ties a load's
results to its tasks: tasks are of ids not found in the cache, none is open without a pool,
and what has been gathered is an answer. From it `EveryoneIsAnswered`. `AnswersAreKept` needs
`FreshIsKept`, which names the load that holds an answer not yet stored, and `MissesNeedOverlap`
needs `AskersOverlap`: a load that asks about an id that is cached as a hit was under way when
it was cached. `MissesAreBrief` and `LoadsAreTyped` are the others.

`ScanRequestProofs`, for any workers, visitors, pilots and stages. `OneLookupForAClient` rests on
`PaidOnce` (a key is let through once until it expires) and on a lemma that a sum over a set of
one key is that key's. `NamesPayTheirToken` needs `Pays` for the time between the look at the cache
and the lookup: a request that has not paid saw every name cached, and only an expiry, which
it remembers, can change that. `EmptyMapsAreNews` needs that no worker memoises an empty map.
`UnresolvedPilotsAreUnknown` and `RepeatsAreFree` rest on `TruthInv`, which says what the cache lets
a request at each of its stages conclude, for any number of workers and an ESI that leaves out
what it likes. What makes that hard is two workers that miss one name at once: the first is not
told of the pilot and caches a miss, which the next page goes by; then the answer of the
second, which names the pilot, takes the place of the miss. The page was right about the cache
it read. `retold` names such pilots, and the two properties except them: for an unresolved
pilot the cache says nobody, or said so until an answer to another request came in; a repeat
is free unless one of its names has been retold. `PartsAssumption` says
that tickers come after the affiliation, from which their corporations are taken
(`esi.py:450-455`). Theorems, besides: `RequestsAreTyped`.

`PageScriptProofs`, for any pilots, filters, groups and any number of refreshes in flight. The
inductive invariant has `CardInv` (a card waits for one answer or none, and opens only what it
has), `FlightInv` (the refresh sent last asks for what is asked for now, and an undisturbed one
has read the open cards as they still are) and `AgreeInv` (once the last was answered last,
rows, address, bar and cards are of what is asked for). `CardsSurvive` is an action property,
and `FlightInv` is the half of it that has to hold before the step. Theorems: `PagesAreTyped`,
`SettledPagesAgree`, `SettledCardsAgree`, `SpinnersHaveAnAnswer`, `OpenCardsSurvive`.
`FoldedAssumption` says that the mark of a folded card is no group, `FailuresAssumption` what
may become of an answer. `SettledPagesAgree` says nothing of a page served as an error before a
refresh is answered: there the address has filters that the page does not ask for.

`KillmailLoadProofs`, for any finite tables of kills and losses, SDE, filters, windows and days.
That the views of a profile add up is a statement about totals of counters, which are folds over
sets: a fold over a finite set has one value (`FoldIsUnique`), so the total of a counter by some
key is the number of the kills counted (`TotalOfCounts`). Two views need not add up, and
`ProfilesAgree` bounds by how much: the bars of the chart by the kills of days after its last
(`NotDrawn`; the run `chart_midnight` reaches one), the target rows by the kills of victims for
which the SDE view has a label that `BUCKET_ORDER` lacks (`NotListed`;
`profile_service.py:22-23` asks for the two lists to be kept in step, and nothing checks that
they are). The classes add up when there are fewer than `_TOP_SHIPS` of them. `BudgetInv` bounds
what a query may still return by the budget and what has come since the count; `ViewInv` says
that each view is what the profile of its own rows is, for the filters of the page; `ClickInv`
what a click pointed at. A click in an open drill-down is on a list built later than the card,
so `ClickInv` asks of its snapshot only that some request can have built it. `ClickKeepsTheRow`
compares two snapshots, and rests on the lemmas that filtering by what a row stands for keeps
what the row counted. Assumptions: what the code falls back on is in `BUCKET_ORDER` and no
bucket is called like a band (`BucketAssumption`), and two hulls with one name are both stealth
ships or neither (`HullAssumption`), since the page counts stealth by hull. Theorems:
`LoadsAreTyped`, `LoadsAreWithinBudget`, `ProfilesAgree`, `DrillDownsAgree`,
`ClicksKeepTheirKills`.

On induction over data: the induction theorems of the TLAPS library take an operator as a
parameter, which these backends cannot instantiate. Where a proof has to go through a sequence,
a batch size or a set element by element, it goes by a least counterexample, which exists
because the strict subsets of a finite set are well-founded: so for `Depth` and `parse_names`
(`LeastElement`) and for totals (`FoldIsUnique`), all of which are recursive functions or folds.

Only model-checked: liveness (`BreakerCloses`, `CallEnds`), since TLAPS reasons about neither
`ENABLED` nor fairness; and the three runs that refute a claim.

## Not modelled

Templates and styles (what they let be clicked is in `KillmailLoad` and `PageScript`), settings,
error reporting, the WSGI entry point, `healthz` and `robots`: they keep no state, or only
configuration. Of modelled components: what a profile looks like (percentages, tooltips,
the average gang, the order of ties), the marks on new pilots and the keyboard of the page,
that `load_entries` maps no pilot twice, the rendering of a response. The chunks of
`resolve_character_names` and `_affiliations` beyond the first, which no page reaches. The parts
of a module left out are named in its header and in the notes of `PROJECT.json`.

## Plan

What is left, in this order:

1. `KillmailLoad` over `SdeCache`: labels of two versions in one load.
2. An abstract specification of the page, a view asked for and a view shown, that `PageScript`
   implements when nothing overtakes.
3. The answer of a drill-down as a request of its own, so that its spinner is covered.
