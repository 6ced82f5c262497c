# PSX Stock Scraper: TLA+ models and proofs

The program keeps a database of the Pakistan Stock Exchange current by scraping several sources
from a BullMQ worker process, and serves it through an API and a dashboard. What is hard is less
the reading of a page than everything around it: several queues and the API write the same rows,
jobs are retried, redelivered and lost with their process, locks are Redis keys with a lifetime,
sources refuse whoever asks too often and answer with figures of another moment, and several
copies of one question (form, address, cache, answer) have to agree on the screen. This directory
models those parts, checks them with TLC, and proves the main safety properties with TLAPS.

Paths are relative to `src/backend/src/` unless they start with `src/`. `PROJECT.json` maps every
definition to its source lines, and lists hazards, findings and mutants.

## 1. Inventory

| Component | State it keeps | Operations | Correct when |
|---|---|---|---|
| Symbol life cycle: `services/stock.service.ts`, `services/sync.service.ts`, `jobs/queues.ts`, `jobs/queueFailures.ts`, `workers/syncProcessor.ts` | `stocks`, `deleted_symbols`, one sync job per symbol in Redis, `sync_logs` | add, remove, sync one, sync all, run, list and clear failures | one run per symbol; tracked and removed exclude each other; an enqueue is never swallowed; a removal returns; a list of failures is of what failed |
| Universe pass: `services/universeRunner.service.ts`, `utils/universePacing.ts`, `utils/marketHours.ts` | claim per session, lock with a lifetime, the universe queue | cron tick, claim, fetch, lock, fan-out, symbol run | one closing walk per session; a walk is not joined by the next before its lock ends; a dead pass wedges nothing |
| Source breaker and browser pool: `utils/sourceBreaker.ts`, `scrapers/browserPool.ts` | failures, trips, cooldowns; slots, waiters, a browser | ask, report; acquire, launch, page, release | no request during a cooldown; no slot lost; every waiter served |
| Page scrapers and orchestration: `scrapers/*.ts` | none | fetch, read, merge three providers | what is handed on is on the page it is said to be of |
| Verified write: `services/verifiedWrite.service.ts`, `services/quoteVerification.service.ts`, `repositories/scrapeResult.repository.ts` | price, ratio, financial rows | clamp of the stamp, verdict per field, one transaction | a figure lands on the row of its session; both ends of a range were accepted together |
| Quote poll: `workers/quoteProcessor.ts` | last series read, rotation cursor | three legs fill one tick, upsert | what is served is stored; every symbol is asked for in turn |
| Index board: `services/indexScrape.service.ts` and the index's candles | index rows, closing claim | board pass, closing pass, repair, candle sync, sync, backfill | one closing pass per session; the settled close is stored; a past level changes to its close only |
| Market calendar: `services/marketCalendar.service.ts` | cache of years, cooldown, `market_holidays` | read a year, walk back, refresh | an answer is what the list said; where it errs, it errs towards trading |
| Index membership: `services/indexMembership.service.ts`, `repositories/indexConstituent.repository.ts` | members and contributions | fetch, look up, replace | a table is one capture |
| Scheduler: `jobs/scheduler.ts` | repeatable jobs in Redis | register at each start | just the configured schedule ticks |
| Corporate actions: `services/corporateActionIngest.service.ts` | actions with a status | ingest, confirm from prices, serve adjusted | the series is as traded or flat; a visible step is confirmed in the end |
| Alerts: `routes/alerts.routes.ts`, `services/alerts.service.ts` | alerts, events | evaluate, pause, delete | an evaluation keeps the cooldown of the last firing it could read (two that overlap do not, finding 6) |
| Market cap: `services/marketCap.service.ts` | caps on price rows | refresh, carry forward, clear shared | a cap that two companies share is vouched for, or newer than the refresh |
| Backfills, announcements, write-ups | price and index rows, notices, companies | read a source again | nothing held is lost, nothing is stored twice |
| Analytics: return calculator, performance card, indicators, beta, score | cached boards | calculate, rebuild | sums agree with a holder who did it by hand |
| Read path: lists, search, market and index pages | Redis and in-memory caches | query, page, cache | the figures of a page agree with each other |
| Frontend: `src/frontend/src` | form, address, query cache, local storage | type, page, save, poll | what is shown answers what is asked |

**Interactions.** The API and the cron jobs are *callers*: they write `stocks` and tombstones and
put jobs on queues. The workers take jobs and write the same rows. They share nothing but Postgres
and Redis, and every `await` is a place where another one runs. All lanes of the worker share one
browser pool, one breaker and one calendar cache. The index board and the price rows look at the
same clock and calendar; the corporate actions, the indicators and the alerts read the closes the
others write; the dashboard polls what the queues report.

**Hard behaviours.** Check-then-act over an await; work that survives its owner (active jobs,
locks, claims, log rows); lifetimes that are computed instead of released; claims consumed before
the work they stand for; readings that are older than the moment they are stored under; replies
that arrive in any order; counters, windows and cursors at their limits.

## 2. Modules

A component has one module, with its state, its actions and its properties; the small ones that
concern neighbouring rows share a run. `MCSymbolLifecycle` and `MCSourceGate` give
one module its values; `UniversePass`, `IndexRoster` and `Alerts` are also run as they are, each for
one violated property. `MCSymbolWork`, `MCSessions`, `MCBackground` and `MCReads` hold a small instance
of several modules each: a behaviour picks one of them (`part`) and is a behaviour of that module, while the
other modules' variables keep one initial value. So a run explores the union of the state spaces,
not their product, and a property of a module is checked on the behaviours that are about it.

In each module an operator whose comment begins with *Deviation* is not part of the model. It is a
plausible bug in the definition that follows it; `PROJECT.json` pairs it with the property that
catches it, and every property of a passing run has one.

### What is queued and walked

* **`SymbolLifecycle`** (proofs in `SymbolLifecycleProofs`). `stocks` and `tombstones` are the two tables, `job[s]` the state in Redis of the
  job `sync-<s>`, `tries[s]` its failed attempts, `walk` the universe-symbol jobs. A caller stands
  at an await (`cpc`) with its symbol, the job state it read and what it has left to do; a worker
  lane has `wpc`, `wsym`. One action is one await. `CallerDies` and `WorkersDie` lose a process
  between any two of them. `torn` is history: symbols for which a removal overlapped another
  writer. Library behaviour relied on: a job id that exists absorbs `add`; an active job is locked;
  a finished job keeps its id until it ages out; a job whose worker died is requeued or failed.
* **`UniversePass`** (`UniversePassProofs`). A clock with sessions, the queue, its one lane and the pass in hand, the
  claim and lock keys. Time passes while the lane fetches, scrapes or is down, at most `FetchMax`,
  `ScrapeMax`, `DownMax` ticks; a crash returns the job in hand once, and in the middle of
  `addBulk` leaves any part of the walk. Nothing ties the length of a scrape to the pacing.
* **`SourceGate`** (`SourceGateProofs`). Breaker and pool as the readers use them together: *pooled* lanes go through check, slot,
  browser, navigation, release; *direct* ones check and fetch; *guarded* ones report to the breaker.
* **`Scheduler`** (`BackgroundProofs`). Workers that boot with settings of their own list what ticks, remove some of it call by call
  and add their pattern, for each of the jobs; either may die between two calls.
* **`SyncDesk`** (`FiguresProofs`). The queue's failures down to their keys (clean, drop, clear, requests under the same ids), and the
  dashboard's desk over two queues: a sync of everything is a job of `stock-sync-all`, the reader's or the
  schedule's, which a worker spreads over `stock-sync` stock by stock, and may fail in between; status polls (of
  `stock-sync` only, as the page counts them), the word *complete*, the last refresh of the table, the clearing of failures. TanStack Query's rules (a refetch joins the first request and drops a
  later one) are taken from how the code relies on them.

### What a session leaves

* **`TradingClock`** is the clock, the days that trade, what the calendar says of a day (`Listed`) and what a
  source's page shows at a moment: a level is *named by the moment it was traded at*, so that it says
  which session it is of and whether it is that session's close. `IndexBoard` and `QuoteRows` extend it.
* **`MarketCalendar`** (`IndexBoardProofs`). The table of holidays, rewritten row by row by a refresh, and one process's cache of it; readers
  walk back from a day and interleave with each other and with the refresh at every await: the read of a year is three
  steps (marked loaded, rows read, rows in the cache), and any number of callers is at any of them. `versions` and `ever` are
  history: what was stored of a day since the last complete refresh, and at all; `closed`, what readers were told.
* **`IndexBoard`** (`IndexBoardProofs`). One index: the five-minute pass (start and claim, fetch, read the day's row, write, repair of the
  row before), the candle sync with its published open, the history sync and the backfill; each may
  fail. `IndexFeeds` models the three sources the board pass tries in turn, and what they hand on.
* **`QuoteRows`** (`QuoteProofs`). One symbol's price rows by instant; by convention the session's marker. The quote poll, the
  page syncs (fetch, clamp of the stamp back to a session day by day, check against the row before, write) and
  the candle sync read first and write awaits later, in any order.
* **`QuotePoll`** (`QuoteProofs`). The tick: three sources, the interval of the per-symbol series, the slice of the tail and its
  cursor, one find and one upsert a symbol, while the API adds and removes stocks.
* **`IndexRoster`** (`IndexBoardProofs`). Members and contributions: fetch, look up, read, replace, each table's passes on a queue of their
  own, the two side by side. `unread` keeps what is published on the pages a refused walk did not read. `WholeRoster` is the
  abstract specification: a table changes only by what one pass was handed, which leaves one capture in it, and by
  the removal of a stock, which takes its rows out of every table at once.
* **`SourcePages`**. Three lists read from other people's pages (holidays, members, candles in batches), and below them
  the pages of one symbol: what is taken off each, the merge of the three providers, the verdict
  *no such symbol*.
* **`Fundamentals`** (`FiguresProofs`). The JSON leg: five requests answered one by one while the source publishes, the merge, the rows
  stored over earlier ones, the statement as served. A figure is named by the quarter, year or payout
  it was published with.
* **`Alerts`** (`BackgroundProofs`). One alert; evaluations of several open pages, each reading the alert, then the market, then taking
  the time once for all alerts, and storing, when this one's turn comes, an event beside the time that was taken: the
  time may be older than one another evaluation has stored meanwhile.

### What runs beside the scrapers

* **`CorporateActions`** (`BackgroundProofs`). One bonus issue from the register to the adjusted series: closures that move, holidays learnt late,
  passes that die between writing *announced* and confirming.
* **`MarketCap`**, **`ScrapeWrite`** (`FiguresProofs`). The refresh of market caps with its second source, carry-forward and clearing, while syncs add and update rows with
  their pages' own caps between any two awaits (`vouched` and `since` are history: whom the last refresh had from the scanner, and
  whose cap was written after it looked); a sync's transaction
  with the merge of providers, the verdict on the 52-week range and the beta that follows it.
* **`Backfill`**, **`CompanyRecords`** (`BackgroundProofs`). Daily bars and index sessions from a second source; the archive of announcements and the
  write-ups of companies: sources that are read again, after a death, over what others wrote.

### What readers are served

* **`Roi`**, **`Performance`** (`ListProofs`). The return calculator and its comparison; the performance card against a holder who
  owns one share, and the lines of a comparison. Money is whole paisa, rounded where the code rounds.
* **`Listing`** (`ListProofs`). The stock list (two queries a page beside the writers, answers kept under their question) and the
  screener (form, address, answer).
* **`Candles`**, **`Insights`** (the latter in `ListProofs`). The stored readings as candles, history and indicator lines, and the cached board of indicators; the
  fundamentals score against its sector, and beta.
* **`Search`** (`ListProofs`), **`MarketViews`**, **`IndexPages`**. The search dialog and its results; breadth, movers, sectors, dividends and the market's status;
  an index's summary, history and volume.
* **`DeviceLists`**, **`AlertDesk`** (`ListProofs`). The lists a browser keeps, over several tabs; the page alerts are kept on.

## 3. What is checked

| Run | Module | Checks | What it shows |
|---|---|---|---|
| `symbols` | `MCSymbolWork` | `OneRunPerSymbol`, `BuriedOrTracked`, `ClosingWalkOnce`, `OverlapIsLateness`, `DeadPassDoesNotWedge`, `StatementIsTheCompanys`, `UndisturbedAddIsQueued` | How symbols come to be scraped. Life cycle: two callers (add, sync, fan-out, board, remove), two sync lanes and the universe lane work on one symbol, with one crash: runs stay exclusive, the two tables disjoint, and an undisturbed enqueue queues. Universe: a session of cron slots, walks that fall behind, the closing pass and one fault: one closing walk a session, two walks meet only where the lane is later than the slack, and a dead pass costs a bounded gap. The JSON leg: whatever of two runs fails while the source publishes, the statement is the company's own. |
| `lifecycle_live` | `MCSymbolLifecycle` | `RemovalReturns`, `QueuedSyncSettles` | Under fair scheduling, a removal returns however often the symbol is synced meanwhile, and every queued sync ends, across a crash and failing scrapes. |
| `lifecycle_removed` | `MCSymbolLifecycle` | *violated:* `RemovedStaysRemoved` | A run that passed its tombstone check before the removal upserts the removed row back, with no crash and one caller. |
| `universe_overlap` | `UniversePass` | *violated:* `WalksDoNotOverlap` | With no fault, slack and pacing in the shipped proportion and scrapes of twice the pacing, the lock of a walk expires while its symbols are still queued, and the next tick queues a second walk behind them. |
| `universe_closing` | `UniversePass` | *violated:* `ClaimedClosingPassRuns` | With no fault at all, the last in-hours walk still holds the pass lock when the first tick after the close spends the session's claim, and no closing walk ever runs. |
| `source_gate` | `MCSourceGate` | `NobodyWaitsForAnIdleSlot`, `CooldownIsNotExtended`, `EveryReadEnds` | Three browser readers share one page slot beside a plain one, with failing launches, a dying browser and refusals: no slot is lost, cooldowns are respected up to one request per lane, every read ends. |
| `source_gate_cooling` | `MCSourceGate` | *violated:* `NoRequestWhileCooling` | A reader that asked the breaker before waiting for a page slot navigates to a source that has started its cooldown meanwhile. |
| `sessions` | `MCSessions` | `NoPhantomSession`, `PastLevelsSettle`, `BoardSettles`, `PriceIsOfItsSession`, `AskedInTurn`, `ServedIsStored`, `OneCaptureAtATime`, `ErrsTowardsTrading`, `PagesAreAsPublished`, `LastFiringIsHeeded` | The rows a trading session leaves, whatever the sources' delays, faults and deaths: two callers of the holiday calendar at once are never told that a session is a holiday, a past index level changes to its close only, each price row is of its session, the quote poll asks in turn, a roster is one capture of its source, what is read on the sources' pages is what they publish, and an evaluation of an alert keeps the cooldown of the last firing it could read. |
| `roster_refused` | `IndexRoster` | *violated:* `UnreadKeepTheirReading` | A walk of an index's contributions that is refused after the first page deletes the stored readings of the symbols on the pages it did not read. |
| `alert_cooldown` | `Alerts` | *violated:* `QuietOnceFired` | Two open pages evaluate one alert: both read it before either fires, and it fires twice within its cooldown. |
| `background` | `MCBackground` | `AgreedScheduleHolds`, `AdjustedIsRawOrFlat`, `SharedCapIsVouchedFor`, `StepIsConfirmed`, `RereadsAreHarmless`, `QueuePageHolds` | The work beside the scrapers, one module a behaviour: agreeing deploys leave one repeatable per schedule, split steps are applied whole and confirmed in the end, caps that two companies share after a refresh are vouched for by the scanner or newer than its look, sources read again harm nothing, and the queue's page counts its failures and ends a sync with a table that shows what was stored. |
| `reads` | `MCReads` | `RoiAddsUp`, `CardHolds`, `PagesCoverTheList`, `ChartHolds`, `BetaHolds`, `ScoreHolds`, `PurchasesAreAlike`, `ResultsAreOfTheForm`, `BoardCatchesUp`, `EnterDoesWhatIsTyped`, `MarketPagesHold`, `BrowserListsHold` | What readers are served, one module a behaviour: the calculator and its comparison, the performance card, the stock list, the screener, the search box, the board of indicators, candles and their lines, beta, the fundamentals score, the market's and the indices' pages, and the lists a browser keeps. |

**Why the bounds are enough.**

* `symbols`, `lifecycle_*`: symbols interact only through a batch caller's list and every property is about one
  symbol, so one symbol with two callers and two lanes has the races (two enqueues; an add or a
  board against a removal; a removal against a run and a retry). Two attempts are one retry and one
  final failure; one crash can fall at every step. The walks: a board of two, so that walks have a beginning and an end; a
  session of five slots and the ticks after it, one fault, scrapes as long as the pacing, and a lock
  that outlives its walk by two ticks, so that failing scrapes make the lane late enough for walks to meet.
  The JSON leg: two runs over two quarters, years and payouts, three lines of which the middle one has no annual
  figures, and a company and a bank, so that a run can merge over the rows of an earlier one.
* `universe_overlap`: five symbols, a pacing of one tick and a slack of four, the proportion of 508 symbols at 1.5 s (12.7
  minutes) and 10 minutes; scrapes of up to two ticks, 3 s, with which a pass takes the 25 minutes the code names. No fault.
  `universe_closing`: two sessions, no fault. `roster_refused`, `alert_cooldown`: the instances of run `sessions`, the alert's with
  one instant more.
* `source_gate`: three pooled lanes on one slot have a holder, a granted waiter and one behind it; two
  share a source and the threshold is two, so a source can trip while one of its readers waits. The
  longest cooldown is twice the base, so a doubling is visible.
* `sessions`: three days, a session, a session and a listed holiday, of eight ticks each, which tell
  apart midnight, the turn of the page, the open, the first trade, the close, the settled close and
  the end of the window; sources that lag by nothing or one tick; one fault. Walks back of up to two
  days meet a holiday, by two callers of the calendar (alike, so symmetric). Three symbols and slices of two make a tail that turns; one change makes it
  stale. Two open pages evaluate an alert with a cooldown of two ticks, the whole of the clock, so that a
  second firing is in time only at its end. The lists and pages
  are sequences of hand-picked answers: refused, garbled, empty, a row twice, a figure missing.
* `background`: two workers and two patterns with three deployments, so that an old registration crosses
  a new one; a week with one weekend day and one holiday, and closures on three days of it, so that
  the ex-date can be miscounted by each; two companies that share a cap, two rows of syncs and two refreshes. Two
  loads of each source that is read again, with a death between; two symbols in the queue's failures, and on the dashboard one
  stock, with its sync under way or not, and one fan-out or single request after it (so the queue can run dry before the
  fan-out reaches it; the theorem is for any number of stocks and requests).
* `reads`: three months of two sessions; three tickers on pages of two, so that a tie can be split by a
  page; stamps on both sides of a Karachi midnight and one more candle than the limit; a window of
  two observations and one beyond; two tabs, and answers in any order.

**Deadlock** is checked in the lifecycle's own runs and in those of the gate. Elsewhere the clock or the counters stop at
their bound, where the model ends by construction, so it is switched off.

**Fairness.** `SymbolLifecycle`: callers and held jobs go on (each await is bounded by a timeout),
backoff timers and the stalled check fire, and a waiting job is picked up (strong fairness: the queue
is first in, first out, and lanes come free again and again). Nobody has to call, to crash or to age a
job out. `SourceGate`: continuations run, launches, navigations and requests end within their timeouts; no
lane has to begin. `StepIsConfirmed`: the daily job runs and goes on. `BoardCatchesUp`: readers keep asking for the
board of indicators, builds end, and five minutes pass.

### What the passing runs show

* However adds, boards, fan-outs, removals, retries and recovered jobs interleave, two lanes never sync
  one symbol at once. `BuriedOrTracked` says how a symbol can be tracked and tombstoned at once: an
  add between its two writes, an add that died there, or a removal that overlapped another writer.
* A session gets one closing walk. Two walks meet on the queue only where the lane is behind the older walk's schedule by
  more than the slack (`OverlapIsLateness`); that they do meet at the shipped sizes is finding 2. While a scrape takes no longer
  than the pacing, a new walk starts within one lifetime and a few slots of a pass that died.
* The pool loses no slot, and the breaker leaks at most one request per reader and cooldown.
* Readings are stored under the session they were traded in, whichever lane is late; the settled close
  lands when nothing fails; a past level changes to its session's close only, but for two cases of the repair, named by
  `MayMistake` and told in section 5. Each of these rests on an assumption about
  the sources' pages, which is named (`PageAssumption`, `MarkerAssumption`): the page turns after
  midnight and at least the oldest accepted reading before the open, the calendar lists just the days
  that do not trade, no source lags longer than the settle window.
* However many callers ask the calendar at once, none is told that a session is a holiday, and a loaded year lacks a day of the
  list only while somebody is reading that year (`ErrsTowardsTrading`): in that window a holiday passes for a session, see section 5.
* A reader of a roster sees one capture less the stocks removed since. Each table's passes are jobs of one queue with one
  worker, which the model's lanes are. A capture may lack what a refused page did not give: finding 5.
* An evaluation of an alert that begins after an event was stored keeps its cooldown, as long as the event stored last is
  the one it reads; evaluations that overlap fire twice: finding 6.
* After a refresh a cap that two companies share was the scanner's for both, or was written by a sync or a carry-forward after
  the refresh looked.
* Agreeing workers leave one ticking pattern per job, except that two registrars leave an old one when
  a job is switched off, which `AgreedScheduleHolds` says.
* No action is applied that did not happen, twice or a day off, as long as each session left a close.
* Reading a source again harms nothing; a list of failures is of what failed; as the dashboard says *complete* it
  refreshes its table, which then shows every figure stored before the queue was read dry. That everything is
  synced by then is not so: section 5.
* What readers are shown adds up with a holder, a form, a list or a market kept by hand beside it.

### What the violated runs show

1. **`RemovedStaysRemoved`** (run `lifecycle_removed`, src/backend/src/workers/syncProcessor.ts:14). src/backend/src/workers/syncProcessor.ts:10 says 'A symbol a human removed stays removed.' and src/backend/src/services/stock.service.ts:266 that the order cancel-then-delete is there 'so nothing can be in flight when the row goes'. The tombstone is read once, at syncProcessor.ts:14, before a scrape of several seconds. A run past that read is not cancelled when the removal saw no active job (the job was picked up after cancelSyncJob looked, or it is a universe-symbol job, which cancelSyncJob never looks at) or when the 20 s wait ran out; its upsert (scrapeResult.repository.ts:29) then creates the row again, with the tombstone in place, so that later syncs skip a symbol that is tracked.

2. **`WalksDoNotOverlap`** (run `universe_overlap`, src/backend/src/utils/universePacing.ts:21). src/backend/src/jobs/queues.ts:362 says "overlapping passes are prevented by the pass lock in universeRunner instead", and universePacing.ts:12 of a lock too short "a pass would be interrupted by the next tick (the same symbols scraped twice over)". The lock's lifetime is the pacing of the board plus ten minutes, 22.7 minutes for 508 symbols at 1.5 s, is computed as the walk starts, and is never renewed or released; a pass takes "~15-25 minutes" by the code's own account (src/backend/src/services/universeRunner.service.ts:66), and nothing bounds a scrape by the pacing. When scrapes take longer than about 2.7 s on average, the lock expires with the end of the board still queued, and the next tick queues every symbol again behind it.

3. **`ClaimedClosingPassRuns`** (run `universe_closing`, src/backend/src/services/universeRunner.service.ts:111). src/backend/src/utils/marketHours.ts:33 says 'the last pass of the day captures the closing print. It must run once per session'. startUniversePass consumes the session's claim (universeRunner.service.ts:111) before it fetches the sitemap (:115) and before it asks for the pass lock (:116). The lock of the last in-hours walk is never deleted and lasts about 23 minutes for 508 symbols, so unless it happens to expire before the first tick after the close, that tick spends the claim and is skipped with 'a pass is already in flight'; every later tick is skipped with 'closing pass already ran for this session', and no closing walk runs that session.

4. **`NoRequestWhileCooling`** (run `source_gate_cooling`, src/backend/src/scrapers/historical.scraper.ts:92). src/backend/src/utils/sourceBreaker.ts:74 says that while a source is serving its cooldown 'no request may be sent to it', and :21 that an open breaker throws 'before a request leaves the process'. The historical scraper asks the breaker (historical.scraper.ts:92) and only then waits for a page slot and a browser (:93); the breaker may open during the wait, and page.goto (:95) is not guarded again, so each reader that was waiting sends one more request to the source that is refusing.

5. **`UnreadKeepTheirReading`** (run `roster_refused`, src/backend/src/repositories/indexContribution.repository.ts:42). src/backend/src/scrapers/sarmaayaIndexCompanies.scraper.ts:103 says of a page that answers non-200: "the caller then has a partial set rather than none, and the symbols it does not cover simply keep their previous reading." The caller cannot tell the partial set from a whole one: replaceForIndex takes every stored symbol that it does not name for a leaver (indexContribution.repository.ts:42) and deletes its row (:60).

6. **`QuietOnceFired`** (run `alert_cooldown`, src/backend/src/routes/alerts.routes.ts:153). src/backend/src/services/alerts.service.ts:8 says "Cooldown is per alert: once fired, it stays quiet for `cooldownMinutes`." POST /evaluate reads lastFiredAt of all alerts (alerts.routes.ts:153), awaits prices and indicators, takes the time (:185) and judges by what it read (:211); the transaction that stores the event and the new lastFiredAt (:214-218) does not look at the row again. Every open alerts page asks for an evaluation of its own, so two that overlap both fire; and the one that took its time first may be the last to write, which sets lastFiredAt back.

## 4. What is proved

Each theorem holds for every value of the constants that meets the named assumptions of its module:
any symbols, callers, workers, sources, days, batches and counts. *In a run* names the property that
TLC checks; where it is a definition of an `MC` module, that one collects several properties and the
theorem states the part in parentheses.

| Theorem | In a run | States |
|---|---|---|
| `SymbolLifecycleProofs!TypeCorrect` |  | Every reachable state of the symbol life cycle is well typed, for any number of symbols, callers and workers; in particular no job ever counts more than MaxAttempts attempts. |
| `SymbolLifecycleProofs!RunsAreExclusive` | `OneRunPerSymbol` | For every set of workers and callers, no two sync lanes hold the same symbol. |
| `SymbolLifecycleProofs!TablesStayDisjoint` | `BuriedOrTracked` | For every instance, a symbol is tracked and tombstoned at once only while an add is forgetting it or after an overlap with a removal. |
| `SymbolLifecycleProofs!UndisturbedAddWorks` | `UndisturbedAddIsQueued` | For every instance, an enqueue whose job has not moved since it looked leaves the symbol with a job that will run. |
| `UniversePassProofs!TypeCorrect` |  | Every reachable state of the universe pass is well typed, for any board, calendar, clock bounds and fault budget; in particular a symbol job has at most two attempts and one stall. |
| `UniversePassProofs!OneClosingWalk` | `ClosingWalkOnce` | For every board, calendar and timing, at most one closing walk of a session is ever put on the queue, across crashes and redelivered pass jobs. |
| `UniversePassProofs!OverlapsAreLate` | `OverlapIsLateness` | For every board, pacing, slack, cron and number of faults, and with scrapes of any length: a walk joins one that is still in the queue only where the lane has fallen behind the older walk's schedule by more than the slack. |
| `SourceGateProofs!TypeCorrect` |  | Every reachable state of the pool and the breaker is well typed, for any lanes, slots, sources and cooldowns; in particular the count of slots taken stays between zero and the number of lanes. |
| `SourceGateProofs!SlotsAreShared` | `NobodyWaitsForAnIdleSlot` | For any number of lanes and slots, a lane waits only while the slots held or handed on fill the pool, across failed launches and dying browsers. |
| `SourceGateProofs!OneLeakPerLane` |  | For any number of readers, a source gets at most one request from each of them during one cooldown. |
| `SourceGateProofs!CooldownsStand` | `CooldownIsNotExtended` | For every threshold and cooldown, refusals of requests already in flight never lengthen a running cooldown or count as another trip. |
| `IndexBoardProofs!RosterTypes` |  | The roster's variables keep their types, for any securities and bounds. |
| `IndexBoardProofs!RosterRefines` | `OneCaptureAtATime` | The four awaits of a roster pass implement WholeRoster: a table changes by one capture, which is then all it holds, or by a stock's removal, and by nothing else. How much of what is published a capture holds is not its claim. |
| `QuoteProofs!ServedStored` | `ServedIsStored` | A tick that ends has stored what was served of every symbol that kept its row, whatever was added or removed while it wrote. |
| `FiguresProofs!RangesAreWhole` |  | A stored 52-week range is a pair that verification accepted, for any number of syncs and providers' figures. |
| `FiguresProofs!SharedCapsVouched` | `SharedCapIsVouchedFor` | For any companies, figures and order of the writers: outside the stretch of a refresh that writes and checks, a cap two companies share was the scanner's for both in the last refresh, or came to one of them after it had looked. |
| `BackgroundProofs!SchedulerTypes` |  | The registrars' plans and the schedule keep their types, for any workers and patterns. |
| `BackgroundProofs!ScheduleAgreed` | `AgreedScheduleHolds` | Once all workers run the same settings, the schedule is the one they agree on, for any number of workers, patterns and deployments. |
| `IndexBoardProofs!BoardTypes` |  | The board's rows, claims and passes keep their types, for any clock, sessions and lags. |
| `IndexBoardProofs!ClosingOnce` |  | A session is scraped as closing at most once and its claim outlives the scrape, whatever fails. |
| `IndexBoardProofs!NoPhantoms` | `NoPhantomSession` | No writer makes a row of a weekend or of a listed holiday, for any clock, calendar and faults. |
| `IndexBoardProofs!OpensAreOpenings` |  | A stored open is of its own day's capture window, whichever writer stored it. |
| `IndexBoardProofs!OpensStay` |  | No step of any writer blanks an open that is stored. |
| `IndexBoardProofs!PastLevels` | `PastLevelsSettle` | For any clock, calendar, lags, faults and order of the writers: a past session's level changes to its close and to nothing else, on a listed holiday too, but for a row that no reading after its close has settled and that a repair may mistake. |
| `IndexBoardProofs!SettledClosesLand` | `BoardSettles` | When nothing fails, a session's settle window ends with its settled close stored, whatever the candles, the syncs and the backfill wrote in between (the safety half of what run sessions checks as BoardSettles). |
| `QuoteProofs!QuoteTypes` |  | The stock rows, the poll, the syncs and the candles keep their types. |
| `QuoteProofs!PricesAreOfTheirSessions` | `PriceIsOfItsSession` | A stock row's price, the close it is compared with and its open are of one session, whichever of the poll, the syncs and the candles wrote them last. |
| `BackgroundProofs!LastFiringHeeded` | `LastFiringIsHeeded` | However many evaluations overlap and however late the time they took is stored: an alert remembers the event that was stored last, and an evaluation keeps the cooldown of the one that was stored last when it began. |
| `BackgroundProofs!ActionTypes` |  | The register, the closes and the ingest keep their types. |
| `BackgroundProofs!AdjustedHolds` | `AdjustedIsRawOrFlat` | The adjusted series is the one as traded or flat across the event, for any calendar, late holidays, moved closures and dying passes, as long as every session left a close. |
| `IndexBoardProofs!CalendarTypes` |  | The stored holidays, the cache, its loaded years, the walks of the readers and the refresh keep their types, for any days, lists and bounds and any number of callers. |
| `IndexBoardProofs!CalendarErrsOneWay` | `ErrsTowardsTrading` | For any number of callers, whatever is cached, fails, is refreshed or restarts: no day is told closed that no stored list closed, and a loaded year lacks a day that all lists since the last complete refresh name only while a reader of it is still to bring its rows. |
| `FiguresProofs!FundamentalsTypes` |  | What the source publishes, the legs of a run and what they brought, the stored statement, and the payouts keep their types, for any lines, profiles and bounds. |
| `FiguresProofs!StatementsAreTheCompanys` | `StatementIsTheCompanys` | Whatever requests of a run fail and whatever is published between them, a stored annual figure is the one published as that year's and never a placeholder, the trailing column is of a quarter that was, and the lines are served in the source's order: every row of a line has the line's place. |
| `QuoteProofs!EveryTurnComes` | `AskedInTurn` | While the tail of the poll stays the same, no symbol of it goes unasked for as many ticks as the slices take to cover it, for any symbols, slice and adds and removals: the cursor comes nearer by a slice each tick and passes over nobody, where it wraps too. |
| `BackgroundProofs!ProfileTypes` |  | The write-ups, the register, the loads and what each load read keep their types, for any releases of the content folder, any workers and any retries. |
| `BackgroundProofs!WriteUpsStayWhole` | `RereadsAreHarmless` (`WriteUpsAreWhole`) | WriteUpsAreWhole, for any releases of one file a symbol, any workers, deaths, retries and changes of the register: a stored write-up is of a tracked company and is one file of one release, whole; and a load that ended well found no bad file and left each company it covers with its file's write-up, where nothing else touched that company since. |
| `BackgroundProofs!ArchiveStaysTheSources` | `RereadsAreHarmless` (`ArchiveIsTheSources`) | ArchiveIsTheSources, for any batches, deaths and changes of the register: a notice is filed once under its identity, under its own tracked company or under none, and a batch stored to its end is in the archive in its last wording, but for what went with a stock that was removed meanwhile. |
| `ListProofs!DeskTypes` |  | The alerts, the page and the calls in flight keep their types, for any limit of alerts and of calls. |
| `ListProofs!ListStaysHeld` | `BrowserListsHold` (`ListIsHeld`) | ListIsHeld, for any limit of alerts and of calls, in whatever order these answer: once every answer is in and the list with them, the page shows exactly this browser's alerts, unless an answer was lost or came before the first list. |
| `ListProofs!EnterDoes` | `EnterDoesWhatIsTyped` | For any texts, any typing, any register and any answers: Enter on a dialog at rest with no row chosen by hand does nothing while nothing was typed in this opening, and leads to the stock itself for a tracked symbol spelt out, whatever was searched for before. |
| `FiguresProofs!SaidIsSo` | `QueuePageHolds` (`RefreshShowsIt`) | RefreshShowsIt, for any stocks, fan-outs, syncs, failures and order of the answers: the refresh the dashboard makes as it says complete shows every figure stored before the queue was read dry, and failures it said were cleared are gone from it. |
| `ListProofs!ListingTypes` |  | What the board is at, what it was answered and what it waits for are well formed, and every answer is kept under a question the board can ask. |
| `ListProofs!PagesMeetEveryone` | `PagesCoverTheList` | For any symbols, figures and page length: the pages of a list turned while nothing is written hold every symbol of it in one place, the missing values last, and their count is the list's, whichever answers came late. |
| `ListProofs!ResultsAreAsked` | `ResultsAreOfTheForm` | For any companies, bounds and page length: a screener form that nobody types in and the pages of its list agree, whatever was typed, applied, chosen, switched or turned to before. |
| `QuoteProofs!BoardsSettle` | `BoardSettles` | In every run of all the parts of MCSessions, of which the index board is one: when none of its passes failed, the settle window of a session ends with its settled close stored. |
| `BackgroundProofs!GapsAreOnlyFilled` | `RereadsAreHarmless` (`GapsAreFilledOnce`) | GapsAreFilledOnce, for any published bars and series: a backfill writes the figures a session had not, leaves the ones it had, and an index that is tracked was answered for and has one row a session. |
| `FiguresProofs!RereadsStayHarmless` | `RereadsAreHarmless` | In every run of all the parts of MCBackground: a write-up is whole, the archive is the source's and a gap is filled once, whatever is read again, retried or crossed. |
| `FiguresProofs!FailuresStayCounted` | `QueuePageHolds` (`FailuresAreCounted`) | FailuresAreCounted, for any symbols, requests, attempts, expiries and clears: a failed job is listed once, a clear leaves what failed since it began and no more, and an accepted request stays queued until a worker takes it. |
| `FiguresProofs!QueuePageStaysSo` | `QueuePageHolds` | In every run of all the parts of MCBackground: the dashboard's last refresh and its cleared failures are as it says, and the failures it counts are those of the queue. |
| `ListProofs!TabsStayAgreed` | `BrowserListsHold` (`TabsAgree`) | TabsAgree, for any tabs, names, symbols and refusals of the browser's storage: a tab that was told everything shows the screens that are stored, and no saved screen is lost but to a tab that had not heard of it. |
| `ListProofs!BrowserListsStay` | `BrowserListsHold` | In every run of all the parts of MCReads: the tabs of a device agree on what it stores, and the page of the alerts holds the server's list. |
| `ListProofs!RoiAlwaysAddsUp` | `RoiAddsUp` | For any closes, gaps, dividends, fees, days asked and amounts: the money put in is what the lots cost and what is left, a sale's profit is the sum of its flows, and a monthly plan pays in once a month. |
| `ListProofs!PurchasesStayAlike` | `PurchasesAreAlike` | For any symbols and stored histories, in every run of all the parts of MCReads: what the calculator compares is one purchase and one sale on the two sessions the rows share, and a symbol left out had no close on the first. |
| `ListProofs!ReturnIsEarned` | `CardHolds` (`ReturnIsTheHolders`) | ReturnIsTheHolders, for any calendar, splits and payouts: the total return of the performance card is what a holder of one share at the start of its window has made of it. |
| `ListProofs!CardStaysEarned` | `CardHolds` | In every run of all the parts of MCReads: the total return the performance card shows is a holder's. |
| `ListProofs!ScoresAreEarned` | `ScoreHolds` (`ScoreIsEarned`) | ScoreIsEarned, for any ratios, any finite sector and any cached rows: a company with a loss or a deficit is not rated strong, and a profitable one's score lies between its worst pillar and its best. |
| `ListProofs!ScoreStaysEarned` | `ScoreHolds` | In every run of all the parts of MCReads: the fundamentals score a reader is shown is earned. |
| `ListProofs!BetaAlwaysHolds` | `BetaHolds` | For any closes of a share and of its index, in every run of all the parts of MCReads: whichever sessions a share misses, one that closes with the index wherever it closes has a beta of one, one that moves twice as much a beta of two, and both have none exactly when the share has none. |

### Along which argument

Each proof has the same shape: an inductive invariant stronger than the property, one lemma per operation that
needs more than a line, one step per action, and a last step that draws the temporal conclusion. Every
invariant was first an invariant of a run. What the strengthening has to know, per module:

* **`SymbolLifecycle`**. A lane picks a job up because it waits, and nothing in `OneRunPerSymbol` says that no
  other lane holds it: `HoldInv` adds that a held job is active and its holder unique. `BuriedOrTracked` needs
  `TearInv`: while a removal is about to record its tombstone the row is gone unless the symbol is
  torn, and a writer past its check of a tombstoned symbol has torn it. `QueueInv` ties the attempts
  counted to the state of the job. `UndisturbedAddIsQueued` follows from these and a case split.
* **`UniversePass`**. `ClaimInv`: a closing walk was counted only for a session that is claimed, and a pass that has its
  claim and has not enqueued belongs to a session with none counted. The claim is never dropped and the
  lane holds one pass, whatever the lock, the times and the crashes.
  For `OverlapIsLateness`, `ScheduleInv`: every first attempt still to be made is due a pacing and the slack before its walk's
  lock ends, while that walk is the last one, and before the start of the last one otherwise. The lock is what makes the second
  of the first: nobody starts a walk before it ends (`WalkFitsItsLock`, `WalkStarts`). Retries, crashes and stalled jobs never move
  a first attempt's due time, and scrapes may take any time, so no size enters.
* **`SourceGate`**. `SlotInv`: the pool's count is the number of lanes that hold a slot, the queue lists
  waiting lanes, each once, and nobody waits for an idle slot. `LeakInv` adds the readers on their way to a
  request to those that have leaked: the sum cannot grow while nobody may set out.
* **`Scheduler`**. `ScheduleInv`: of every pattern that ticks, some worker keeps it, is about to remove it or has yet to
  look (`SomebodyMinds`); a worker past its listing finds its own ticking unless another one is still in its way
  (`OursTicks`).
* **`QuotePoll`**. `PollInv`: an id read at the start of a tick is of that row or of one that is gone for good
  (`IdsAreFresh`), and what a tick no longer has to write is written or its row is not the one read
  (`WrittenOrGone`). For the turns, `TurnComes`: the slices since a symbol was last asked for plus its distance from the
  cursor stay below the length of the tail. This is where the modulus of the cursor is reasoned about.
* **`QuoteRows`**. `QuotesInv`: as long as the calendar could be read, each row under a session's marker, each quote on its way and
  each scrape is of the session of its key, and a scrape that walks back has not passed the session
  its price is of and has days left to reach it (`Walking`).
* **`IndexBoard`**. `BoardInv`: a pass is at most a tick old (`PassIsYoung`), writes rows only of trading days and opens only of the
  capture window (`PassIsSound`), and a claim outlives the pass. `RepairInv` adds how old the figures may be that a pass
  reads, so that the page it repairs with is its own day's: on a session it then tells the close of the session before, on a
  listed holiday the one before that, which is what `MayMistake` has to name. `SettleInv` adds that from the last pass of the
  settle window on, the row is settled or that pass is on its way to write it.
* **`IndexRoster`** implements `WholeRoster`. `RosterInv`, per table: what its pass is about to write is one capture, and every row of the table is
  of a stock it writes or has read as a leaver. The API only takes rows away in between, and the other table's pass has its own.
* **`MarketCalendar`**. `CalendarInv`: what is cached, on its way to the cache or told was stored once (`HeldWasStored`); and a day of a loaded
  year that every version since the last refresh names is in the cache, or some reader has its row, or has yet to read
  (`NamedDaysCome`). A refresh that clears the cache while rows are on their way is why the second part speaks of *some* reader.
* **`ScrapeWrite`**, **`MarketCap`**, **`Fundamentals`**. `WriteInv`: both ends of what a sync is about to write were accepted together. `CapsInv`:
  between the look for shared caps and the clearing, whatever is shared and not vouched for is marked, rows apart that were written since (`SharedIsMarked`). `FundamentalsInv`: every
  figure a run holds, or has stored, was published as what it is shown as (`Published`), and its line's place is
  the source's (`Rank`).
* **`Alerts`**. `AlertInv`: events are numbered as they are recorded, the alert remembers the time of the one that was *stored* last, which
  need not be the latest time (`LastIsOfTheLast`), and an evaluation under way has read the time of the one that was stored last
  when it began (`EvaluationsKnow`).
* **`CorporateActions`**. `ActionsInv`: the stored ex-dates are never before the step until the closure first moves, and a
  confirmed one parts the closes where the step does, for good, since both are past.
* **`CompanyRecords`**. `ProfilesInv`: a loader has failed, skipped or stored every file it is past (`PassedIsDone`), and a stored write-up is
  a good file of some release (`ProfileIsAFile`). `ArchiveInv`: a notice keeps its place in the order it was filed under its identity, and every item a
  batch is past is filed in its last version so far or lost with its company.
* **`Backfill`**. `BackfillInv` of the bars a run is past: a session that had a row keeps its figures and holds the last one given for
  each it lacked (`HeldRowsFill`), one that had none has the row of its one bar (`NewRowsAreBars`), but for the sessions others
  wrote meanwhile. Of an index: it is registered once its source has answered, and no two of its sessions are of one day (`LaneInv`).
* **`SyncDesk`**, the queue's part. `DeskInv`: the list holds each failed job once, and any other id on it has lost its payload
  (`ListIsOfFailures`); what a clear found and has not taken off has no payload or was queued or failed since (`ClearLeaves`); an
  accepted request waits, or has just been removed to be queued again (`QueuedStay`).
* **`SyncDesk`**, the dashboard's part. `SyncInv`: the table's last refresh was asked for after the
  writes it is due to show (`RefreshIsLater`), whichever of the two queues holds what; only a page that knows some failures can clear them, so that the answer
  it asks for drops the one under way (`ClearedAreGone`).
* **`AlertDesk`**. `DeskInv`: the list on its way, and the list shown, are the server's, unless the page has yet to be told of a change it must
  refresh for (`Untold`) or an answer was lost.
* **`Search`**. `SearchInv`: an untouched dialog is as it opened, one at rest has searched for what is in it, and a tracked
  symbol spelt out leads every answer kept for its text.
* **`Listing`**, the stock list. `PagesInv`: every answer kept, and every one on its way, holds the rows and the count of its own
  question as of the writes it was read after (`IsPageOf`). Ties broken by symbol make the order of a query total, so that
  two pages read apart are pages of one and the same order (`SortedIsOne`), and every place of it is a row of one page
  (`PlaceHasACell`). Without the tie-break, `orderByColumn`, TLC finds a symbol on two pages.
* **`Listing`**, the screener. `ScreensInv`: the address is one the screen can parse, and a form at rest shows it. What the
  server finds for an address is then a case split on the fields (`MatchingIsMeeting`), and every match has a rank, which
  some page holds (`PagesListThemAll`).

* **`DeviceLists`**. `DeviceInv`: a tab that has been told everything holds what is stored, and no two screens that anybody holds share a
  name (`TabsInStep`).
* **`Roi`**. `RoiInv`: what was paid in is spent or left, and is the amount times the due dates so far (`Adds`); before the sale the
  flows are the dividends less what was paid in (`Unsold`). Every amount is whole paisa by the roundings themselves. A monthly plan has one date in each
  month before the sale's (`PaysOnce`). For the comparison, `CompareInv`: the closes of all symbols are stored by the same days.
* **`Performance`**. `CardInv`: the holder's shares are the ratio of the factors of the two days (`HeldOn`). A factor is a power of two
  whose exponent counts the splits after its day, and the splits after an earlier day are those after a later one and those
  between: the argument is about the cardinalities of these sets, so that it needs no recursion.
* **`Insights`**, the score. `InsightInv`: what is scored against is rows of finitely many companies of which the share is one, whether they are
  cached or read. A weighted mean lies between the
  least and the greatest of what it weighs (with weights that are natural and not all nought), a percentile and a metric's
  curve between nothing and a hundred, and a cap lowers only.
* **`Insights`**, beta. The sums are running totals. A total of doubled figures is the double of the total: otherwise there is a first
  day on which they part (`FirstOf`), and the day before contradicts it. So doubled moves double the covariance, and a follower's
  days are the share's own, since it has a close where the share has one.

What concerns one part of a composition becomes a theorem of the whole by a lemma per part (`DeviceRuns`, `AlertsRun`, `BetaRuns`
and their like): a behaviour of the `MC` module about that part is a behaviour of the part's own specification, since no step changes
`part` and only the part's own actions move its variables. `RereadsStayHarmless`, `QueuePageStaysSo`, `BrowserListsStay`,
`CardStaysEarned`, `ScoreStaysEarned`, `PurchasesStayAlike`, `BetaAlwaysHolds` and `BoardsSettle` follow from the parts' theorems so.

The type invariants of an `MC` module's parts are collected in its `TypeOK`. No `.cfg` lists them, since a run is for what
could go wrong; they hold on the instances of the runs, and those of the modules above are theorems.

### From which assumptions

The constants' assumptions are evaluated by TLC on every run. Most say that a set is finite or a number natural. Those
that say something of the world:

* `MarketAssumption`, `BoardAssumption`, `PageAssumption`, `MarkerAssumption`, `QuoteAssumption`: the marks of the clock are in the order of the
  day; the calendar lists just the days that do not trade; a page turns after midnight and at least the oldest
  accepted reading before the open; no source lags longer than the settle window.
* `CalendarAssumption`, `ActionsAssumption`: each date is of one year; weekends and holidays are dates; there is a trading day before any
  closure that counts.
* `ProfileAssumption`: a release of the content folder holds one file a company, as its naming by symbol has it. (The loader takes the symbol from
  the file, so two files of one symbol would be written one over the other.)
* `BreakerAssumption`, last conjunct: the doubling cooldown stays within the natural numbers, a fact of
  arithmetic which the solvers do not know of exponentiation.
* `PayloadsAssumption`, `RoiAssumption`, `BetaAssumption`: prices and amounts are natural numbers; `InsightAssumption`, `SectorAssumption`: a
  sector is finite and lists the share itself once, and a score takes at least two pillars; `DeviceListsAssumption`: the symbols
  followed are numbered.

### What is only model-checked

* Liveness: `RemovalReturns`, `QueuedSyncSettles`, `EveryReadEnds`, `StepIsConfirmed`, `BoardCatchesUp`. Fairness and `ENABLED` are
  outside what the proof system handles.
* `DeadPassDoesNotWedge`, which is a matter of sizes: it holds while a scrape takes no longer than the pacing.
* `ChartHolds`, `MarketPagesHold` and `PagesAreAsPublished`: they are about lists that are sorted, selected, flattened and folded
  by operators of the community modules (`SetToSortSeq`, `SelectSeq`, `FlattenSeq`, `FoldLeft`, `MapThenSumSet`). What those return for
  every input needs an induction over an operator, and the library's induction theorems cannot be instantiated by the installed
  provers. Where a total is a recursive *function* the least argument at which a claim would fail does the work of
  induction, as for beta; where a count will do, the cardinality of a set does.

## 5. Where code and words differ, without a run

Met while modelling, each visible in the definition that models the line. None of them is asserted
by a property, and the properties above hold with them.

*Sources and scrapers.*
* `psxIndices.scraper.ts:98` takes 700 characters from a block's start, so that a block without a level
  takes the next one's, though `:25` and `:101` say skipped, never guessed. Its figures page: an
  answer that is not JSON throws and loses the pages before it (`:218` says an empty map).
* `psxHolidays.scraper.ts:140`: a date named first by a "for … only" row and then by a market-wide one
  stays partial. Across candle batches a symbol's last candle wins, within one the first.
* `orchestrator.ts:101` declares a symbol invalid when all providers do, and the fundamentals leg never
  does, so with the default providers none is; with every provider switched off each is (0 = 0).
  A 403 or 429 page is read as a page (`:74`, `:114`): its heading becomes the name, and its empty price
  block takes the place of the other provider's.
* A page's reading without a date is stamped with the moment it was fetched.
* `sarmaayaFundamentals.scraper.ts:405` says a missing symbol is never the breaker's business; when every
  leg answers 404 one failure is recorded. Lines that the annual answer omits go last; lines with an
  empty code collide; a leg that failed leaves a newer ratio row with blank fields.
* `browserPool.ts:97` has a gap of one microtask between the check and the launch, and a late success
  closes a breaker that opened meanwhile (`sourceBreaker.ts:139`).

*Rows.*
* `indexScrape.service.ts:225` says that the repair is confined to the sessions a pass can be about; the gate at `:229` asks for
  a weekday and the clock. On a listed weekday holiday the page still describes the last session, and a pass in hours, or the closing pass,
  repairs that session's row with the close of the session before it, if no reading after its close has settled the row. And
  when the session just before a pass left no row, an older one is repaired with the missing session's close (`:336`).
* `indexScrape.service.ts:200` has it that a day on the list may trade after all (2026-08-25); no row is then made by the
  pass. The models' calendar lists just the days that do not trade.
* `marketCap.service.ts:88` says that a cleared row cannot be refilled from a previous wrong value. That is so within a refresh; the
  next carry-forward, of a refresh or of its own schedule, refills it from the rows before, until a refresh that finds the figure
  shared clears it again.
* `marketCalendar.service.ts:121` marks a year loaded before it awaits the rows: a second caller is told `null`, at `:153` *when
  the day is not on the list*, of a holiday that is on it, until the first one's rows arrive. A read that a refresh
  overtakes puts what it read before into the cleared cache; where it lands after a newer read, it stays until the next refresh.
* `scrapeResult.repository.ts:97` looks a year's financials up under `quarter: f.quarter ?? 0` and creates them with null, as the only
  producer states it (`sarmaaya.scraper.ts:185`): the lookup never meets the row, and every sync adds one, where `:24` says idempotent.
* On a listed holiday the live reading makes `lastTradeDate` the holiday, and the published change is
  not the value less the previous close. The 16:00 stamp of a day's row keeps the live reading of
  a session in progress from being shown. An index's `open` falls back to the latest row's.
* The history sync can overwrite what a repair filled between its read and its write, and blanks an open
  that the exchange does not give (`history.repository.ts:29`).
* A backfill killed past the minimum depth is skipped as deep on the next run
  (`candleBackfill.service.ts:89`), gaps and all; a session twice in a payload makes the insert throw.
* `announcements.service.ts:73` says that a notice is never lost: removing a stock removes its notices, and
  a corrected headline without an id appears twice (`:59`). Nothing in `src/` calls the upsert.
* `index.service.ts:28`: the 30-second memo of the volume can show one session's sum under the next one's
  date; *provably the exchange's own figure* rests on a check of an earlier day.

*Queues.*
* A history request that meets a running job answers with the range asked, while the job carries another
  (`sync.service.ts:112`); two tabs' requests replace each other's waiting job. The membership job's fixed
  id absorbs a manual request while a finished one is retained (`queues.ts:400`).
* A leftover failed id whose symbol is queued again is counted failed, and a clear removes the waiting job.
* `scheduler.ts:171` and `:359` return before they remove a switched-off job's repeatable.

*Analytics.*
* The legs of a comparison do not both start at 100 on the shared session (`performance.service.ts:196`,
  comment `:25`). The ATR declares 15 sessions and its first value is at 14. The board's window counts
  500 days in UTC. `take` with the oldest first drops the newest candles past the limit.
* Rounding can make a capped score look uncapped; a percentile can pass 100 when the sector's
  cached rows are older than the share's own; the averaged benchmark buys whole index shares; one
  symbol without a close on the shared last session refuses the whole comparison.

*Market pages.*
* "Unclassified" counts stocks without a price that its page does not list; the gainers are fewer
  than the limit when fewer rise; a stock whose newest row has no price is on the board and not among
  the movers; a quote *stale* at the close turns *end of day* without a write; candles on a
  Saturday's row read *end of day* though carried forward.

*Screens.*
* Search: Enter within the 220 ms rest opens a match of the earlier text; a failed search says *No matches*.
  The movers' key lacks the limit.
* Screener: applying, and choosing a preset, drop the Shariah switch; toggling it keeps the page; the
  header shows an order while a preset orders; `stock.controller.ts:58` says filters cannot widen.
* Two tabs that save at once lose one screen. The watchlist listens to no storage event, shows a refused
  write as done, and asks for the first 50 symbols only. `deviceToken()` throws where storage is blocked.
* `Dashboard.tsx:409` says guaranteed current: a final refresh that meets the table's first request joins it.
  *All up to date* is said also when some syncs failed.
* *Sync complete* (`Dashboard.tsx:415`) is said when the page has seen `stock-sync` busy and then dry (`:362`). The fan-out is a job of
  another queue (`queues.ts:256`), which no count of the page includes and which fills `stock-sync` stock by stock (`syncAllProcessor.ts:16`): the
  word comes before it, when an earlier sync ends while the fan-out waits, and within it, when the workers are faster than it.
* Alerts: the indicators are looked up by symbol (`alerts.routes.ts:192`) in rows filed by the stock's id (`technicalUniverse.service.ts:119`), and both
  previous averages are passed as null (`alerts.routes.ts:199`): no RSI and no cross alert fires, though `alerts.service.ts:87` says *true when
  the condition holds right now*. An evaluation that took its time first and writes last sets `lastFiredAt` back (`:218`).
* A firing reported while the first list is on its way is not shown until another; a notice names
  what was typed since. `SyncLogs.tsx:139` clamps the page by an older answer.

## 6. Not modelled, and why

* A lock of a *living* worker that expires (an event loop blocked past BullMQ's 30 s): the stalled
  check then starts a second run. The models hand out a job again only when nobody holds it.
* Redis or Postgres losing acknowledged writes, and clock jumps.
* The text of pages and names, layout and wording; floating point (figures are whole numbers, rounded
  where the code rounds). A page that turns within the pass that reads it.
* Explicit `intraday` and `close` passes: nothing enqueues one, the schedule asks for `auto`.
* Dividends and rights, which are ingested like a bonus and not confirmed from prices; logos.
* Request validation, rate limits, the admin guard, OpenAPI, middleware: thin and sequential.
* Schema, migrations, scripts and deployment: declarations. The unique keys they declare are used in the
  models as the code relies on them.

## 7. What could come next

* The pages read and the market's pages with their lists as sets and ranks instead of sorted sequences, and theorems about them.
* The sizes for which `DeadPassDoesNotWedge` holds when scrapes are slower than the pacing, from a bound on how late the lane gets.
* A model of the history job's progress rows and of the sweep of orphaned logs over several deployments.
* The request cache of the remaining pages, of which the models have the dashboard, the lists, the search and the alerts.
