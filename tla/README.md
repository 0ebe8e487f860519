# Formal model of 0DTE Liquidity Hunter ("Parlay")

TLA+ modules, TLC configurations and TLAPS proofs for the paper-trading scanner
of this repository. Definitions are translated from the code under
`src/backend/app`; paths below are relative to that directory. `PROJECT.json`
says, definition by definition, which lines each one stands for.

## The system and its parts

One process runs FastAPI and an APScheduler job (`main.py`). Every minute of a
regular session the job runs a scan (`services/signal_engine.py`): it ranks
symbols, moves recommendations through their lifecycle, records outcomes and
option marks, and lets several simulated cash accounts act on them. All state is
in one SQLite database. Nothing trades real money: fills are simulated from
verified quotes. Request threads of the API, and an operator's commands in
processes of their own, touch the same rows.

| Component | State it keeps | Operations | Hard behaviour | What makes it correct |
|---|---|---|---|---|
| Forward account `services/forward_account.py` | account row, positions, append-only events, equity snapshots | `ensure_account`, `advance_account`, `_record_equity_snapshot` | one transaction per scan that may fail anywhere, clock corrections, quotes that come late or never, deadlines, settled cash | fees stay reserved, fills on time and on later evidence, events and rows agree, nothing retroactive |
| Scan pipeline `services/signal_engine.py` | lifecycles, alerts, runtime row, scans | `run_signal_scan`, `apply_lifecycle`, `mark_lifecycle_entered`, housekeeping, startup | commits in the middle of a scan, stale copies of rows, hold and resume, process lock, restart | one active recommendation a day, an ended one stays ended, the operator's hold is kept and shown |
| Outcomes and marks `services/performance.py` | signal rows, option marks | `track_candidates`, `evaluate_open_signals`, `update_outcome`, `_record_option_entry`, `_record_option_exits` | candles late, out of order or missing, cutoff, provider down, cached chains | first touch, written once; one entry per ticker and day; every entry gets its exit or an explicit gap |
| Expanded account, write-offs `services/expanded_account.py`, `paper_writeoffs.py` | forked account, adjustments | `activate`, `advance_account`, `prepare_request`, `apply_request` | decision clock against host clock, end of contract sessions, two processes that write one account, repeated write-offs | money is lost once and never invented, observations and write-offs keep one order |
| Lotto `services/lotto_trials.py`, `lottery_tracker.py` | paired trial accounts, trackers | advance, scan tracking, session close | pairs with different exits that must stay comparable, scans that come late or twice | both accounts of a pair enter the same contracts, nothing missed is repaired |
| Retest `services/retest_*.py` | trial rows, paths, two arms of accounts | `process`, `startup`, drift and its review | a decision that waits for bars which may be late, invalid or missing | entries earned and exits proven by known bars; both arms decide about the same opportunities |
| Manual positions `services/paper_positions.py`, `contracts.py` | positions, signal links | create, refresh, exit, expire, the scan's alerts | check-then-insert between request threads, slow quotes between read and write | an ending stays, a row written in turn is whole, limits are passed only by requests in flight |
| Backtest `services/backtest.py` | run rows | submit, run | no lock around the running check, a crash leaves RUNNING | as above; a verdict that tells failures apart |
| Market data `market_data/*.py` | stream generations, request budget, caches | subscribe, callbacks, fetch | callbacks of a replaced stream, budgets shared by threads | no candle of another day or stream |
| Calendar `services/market_calendar.py` | none | sessions, closes, next scan, next housekeeping | holidays, early closes, a clamped second | no session, run or close is passed over |
| API, reports, frontend | none of their own | views, hold and resume, watch list | - | - |

Interaction is by calls inside a scan (ranking, lifecycle, `track_candidates`,
`evaluate_open_signals`, the accounts, in this order), by `SCAN_LOCK` between
scans and the close's housekeeping, and by rows: the accounts read the option
marks and signal rows that `performance.py` commits, requests read and write
lifecycles, positions and the runtime row without the lock, and the write-off
command shares nothing with the scanner but the database's write lock.

Two facts of the code shape every model. `SessionLocal` is made with
`autoflush=False, expire_on_commit=False` (`db/session.py`): a row once loaded is
never refreshed, except after a rollback. And an UPDATE carries single columns:
those that differ from the loaded copy, and every timestamp assigned, since
SQLite returns naive timestamps which never equal the aware ones the code
assigns. A handler is therefore a step that loads and a step that *merges*.

## Modules

| Module | Models |
|---|---|
| `CashBook` | abstract specification of a cash account: what one committed batch may do |
| `ForwardAccount` | the baseline account, one action per branch of the loops of `advance_account`, in a transaction that commits or rolls back |
| `ForwardAccountBook` | the refinement mapping from `ForwardAccount` to `CashBook` |
| `SignalLifecycle` | the recommendations of one symbol and strategy, scans, paper entries, housekeeping, restarts |
| `SignalOutcome` | what becomes of the BUY signals of one ticker, and their ENTRY and EXIT marks |
| `MarketCalendar` | sessions, the scanner's runs and the close's housekeeping |
| `ScanControl` | who may scan and when, on the instants of `MarketCalendar`: job, forced scan, operator, close, crash, startup and the runtime row |
| `CandleStream` | the streaming session that feeds candles, its threads, rotation and close, and the read-through cache before it |
| `LottoTrials` | the accounts of one lotto group and the trackers they read |
| `RetestTrial` | the retest trial: both arms, their scenarios, the followed opportunities |
| `ExpandedAccount` | the ten-position account under its two writers, the scanner and the write-off command |
| `PaperDesk` | manual positions, the watch list and backtests under request threads and the scan's alerts |
| `SessionRows` | how a session writes a row it loaded earlier, as `SignalLifecycle` and `ScanControl` use it |
| `Totals` | the sum of amounts over a set of rows, as `CashBook`, `ExpandedAccount`, `LottoTrials` and `RetestTrial` use it |
| `...Proofs` | theorems about `ForwardAccount`, `SignalOutcome`, `ExpandedAccount`, `LottoTrials`, `RetestTrial`, about `SignalLifecycle`, `ScanControl` and `MarketCalendar` together (`SignalEngineProofs`), `CandleStream` and `PaperDesk` together (`StreamDeskProofs`), and the lemmas about `Totals` |
| `MC...` | the instances TLC checks |

### ForwardAccount

`status` and `detail` are the `ForwardPaperPosition` rows, `posted` the event keys
of `ForwardPaperEvent` with their instant, `settled` and `unsettled` the sums of
the cash events, `watermark`, `activatedAt` and `processedAt` the account row.
These are the working state of the scan's transaction; `saved` is what the
database holds committed. `Begin` opens the transaction (and refuses to run when
the clock is behind `processed_at`), the exit actions (`Settle`, `GapAtEnd`,
`GapMissedWindow`, `GapExitDeadline`, `AwaitExitQuote`, `FillExit`, `Revalue`,
`LeaveAlone`) are the iterations of the first loop, `Discover` imports marks and
computes the running totals, `SkipEntry`, `FillEntry`, `LeavePending` are the
iterations of the second loop, `Commit` writes the equity snapshot, `Rollback` is
`_run_signal_scan`'s error path. `RecordMark`, `ResolveSignal` and `DataGap` are
what the accounts see of `performance.py`. A mark's payload is abstracted to
whether it passes the provenance check (`eligible`), a quote to its stamp, bid
and ask.

### SignalLifecycle

A row's fields are its status, direction, day and `valid_until`, which is what the
code decides by; the instants it only reports are left out. `Fate`, `Opens`,
`Verified`, `NewRow` are the decision table of `apply_lifecycle`; a candidate is reduced to what that table reads. A scan is
`BeginScan` (it chooses its candle before it waits for `SCAN_LOCK`), `Decide`
(it loads the active row and computes its changes) and `Commit` (the commit of
`track_candidates`, which makes lifecycle, alerts and outcome row durable). A
paper entry is `FindBuy`, then `WriteEntered` or, when another entry inserted the
alert first, `LoseEntry`. `Housekeeping` and `Restart` run
`expire_stale_lifecycles`.

### MarketCalendar and ScanControl

Instants count ticks of New York local time from a Monday's midnight; holidays
and early closes are constants. The code's loops over days end at
`NextMarketDay`, the first day of `Upcoming`; `next_market_open`,
`next_scanner_run` and `next_session_housekeeping` are translated as they branch.
`IsOpening`, `IsRun` and `IsHousekeeping` say independently which instants they
are meant to find.

In `ScanControl`, `runtime` is the `ScannerRuntime` row, `thread[t].copy` what
thread t loaded. The job fires where `next_scanner_run` says, the close where
`next_session_housekeeping` does. `JobWaits` and `RequestWaits` load the row and
then wait for the lock (`JobHeld` is the job under a hold); `StartScan` and
`EndScan` are the two commits of a scan, `ScanFails` its error path, `SkipScan` its
early return. `Command` is the operator's route, `CloseHousekeeping` and `Startup` both run
`reconcile_runtime_on_startup`, `Crash` kills all threads. "degraded" is one
with "healthy". Which threads scan is exact; what a scan computes is left out.

### SignalOutcome

`row` is the `SignalPerformance` row of a lifecycle with its cursor
(`last_evaluated_at`), `entry` and `mark` are the automated option marks, `chain`
is when the cached chain was received. `Track` is `track_candidates` for one
candidate. It commits before it starts the evaluation, which may fail, so
`Evaluate`, one pass of `evaluate_open_signals` with `_record_option_exits`, is a
step of its own; a failed pass leaves nothing. `Publish` is the feed, which may
publish a minute late, after later ones or never. Each pass has its own lag of
the provider's stamp and its own answers from the provider. A candle is reduced
to which levels of each signal it touches.

### CandleStream

`generation`, `current`, `streamDay`, `cache`, `warmed` and `latest` are the
attributes of `TastytradeMarketDataProvider` that concern the stream; `entry` is
the caching provider's entry of one symbol. A stream is named by the generation
that its callback was made with, and `stream[g].at` is where its thread stands in
`_run` and `_session`; a packet it received is delivered in a later step, whatever
happened in between. A read goes through `_rotate_candle_stream` in the steps that
other threads can see: `Rotate` invalidates, `StopRotated` sets the stop flag,
`JoinRotated` returns whether or not the thread ended, `Open` starts the new stream
(or `NoCredentials` gives up), `WarmUp`/`Wake` wait for a first candle, and `Store`
replaces the entry by the completed candles or keeps it. `Close` is the close's
`close()`, in the same steps; the two exclude each other by `_candle_stream_lock`.
`SCAN_LOCK` keeps the close from running within a scan, but other readers do not
take it, so the model lets the close run at any point of a read. Reads are one
at a time because the caching provider reads upstream with its lock held. Every
cached candle carries, as a ghost, the stream that delivered it.

### LottoTrials

`policy` is the group an instance has: the exit rule of each account (a fixed
target, a trailing stop), slots, caps and cash. Groups share the trackers only, so
a behaviour has one, chosen in the initial state;
`tracker` the lottery trackers with the last quote `fresh_point` would find,
`pos` and `cash` what each account has of each contract. `advance_lotto_trials` is
one transaction, hence `Scan` is one action: the trackers discover and quote, then
each account settles, exits and ends, then the group discovers and enters
together. New contracts are decided and pending ones filled one after another, in the
order in which the code lists them (`InTurn`, `Before`), each on the slots and the cash that the one
before it left. The sums over an account's events are state: `Posted` adds the amounts
of the events that a change of its rows writes. `Housekeeping` advances the accounts without a market and closes the
trackers; a restart is the same call. `ActivateMulti` is the operator's.

### RetestTrial

`process` runs in a savepoint of its own, so one call is one action. `Scan` is the call
of a scan, which comes in a session only: discovery freezes new opportunities with or
without evidence, one of a ticker and strategy and day (`New`), and selects one of a ticker
and day (`Selected`); the followed `path` and every account walk the bars known by
then; and positions are requested, filled, asked for, priced, gapped and settled by
the deadlines. `found`, `path` and an account's `pos` are functions of the candidates, which are
numbered in rank order. Rows are read in the order of their ids, that is of their calls and then of their
ranks (`Before`), and each position's turn sees the cash that the turn before it left (`InTurn`).
`account` is a function of arm and scenario: the control arm enters at once, the treatment arm
after the first retest, and per scenario there is an account with limited cash,
or one that takes each opportunity by itself. The accounts are funded at `Activated`, outside a
session. `Startup` is the call after a restart or the close, which finds nothing new; `Drift`
is a deployment that changes the code hash and blocks the trial, `Resume` the operator's review.

### ExpandedAccount

Both writers read the clock and then wait for the database's write lock: the
scanner (`ReadClock`, `Scan`) and the operator's command (`Send`, `Apply`), so
either may commit with an older clock than the other. `Scan` is `advance_account`:
repaired exits, the end of contract sessions, discovery, entries, the snapshot,
or the rollback of its savepoint. A write-off request is `Prepare`d from the rows
of its time, may be sent any number of times, and is applied as a whole or
refused; `Abandon` is a command that dies. The digest that binds a request to its
rows is the copy `original` of these rows.

### PaperDesk

`work` is what each actor is doing with the copies its session loaded; rows are
marked one at a time with a slow quote request between, and a commit writes the
columns that differ from the copy (`Merged`). `Expire`, `Refresh`, `ClosePosition` and
`NoMark` are the outcomes of one row, for a listing, an exit and the scan's alerts pass;
the scan's alerts stay `pending` until the next row commits them. Entries, watch-list rows
and backtests are a check and a later insert. `raced` is a ghost: the positions
that someone wrote from an outdated copy.

## What is checked

A `pass` run is explored completely. Besides it, every property has a *variant*
of one definition: it stands just before the definition in the module and is a
plausible bug of that code (a dropped guard, an off-by-one, a whole-row write);
with it, TLC finds the property violated, which shows that the property sees
that code. No specification uses the variants. Every run of `pass` also checks
the type invariant of its module, `forward_cash` excepted, which shares the
module of `forward_timing`.

| Run | Question | Answer |
|---|---|---|
| `forward_timing` | Are fills in their window, on evidence later than the decision, once, and never in the past, when the clock is set back, a scan fails or quotes do not come? Is everything decided in the end? | yes: `FillsInTime`, `LedgerSound`, `NothingRewritten`, `HonestEquity`, `EverythingEnds` (proceeds settle if they got a date; after the calendar's last day they get none) |
| `forward_cash` | Can two positions spend the same cash or the fees needed to close? Do the loop's hand-kept totals drift? Is each commit one batch of `CashBook`? | no, no: `WithinMeans`; yes: `ImplementsCashBook` |
| `lifecycle` | What can interleaved scans, two entries, the close and a restart do to the rows? Does every recommendation end, with no further scan? | `RowsExplained`, `NeverRevived`, `ActiveEnds` hold |
| `control` | Does the runtime row keep the operator's hold, never claim a scan that does not run nor a session that is not next, and show the hold in the end? | yes: `HoldIsTheOperators`, `RowHonest`, `HoldIsShown` |
| `control_hold` | Does no scan start under a hold? | **no**, see findings |
| `outcome` | Is an outcome the first touch and final, whatever candles and passes do? Is a gap declared only when it must be? Does every entry get its exit? | yes: `OutcomesSound`, `MarksSound`, `EntriesGetExits` |
| `outcome_bid` | Does the exit bid come after the touch? | **no**, see findings |
| `stream` | Which candles reach the cache when streams are rotated, closed and reconnected while their threads live on? Does the served history go back? Does every read return and every stopped thread end? | only the current stream's: `OneLiveStream`; no: `HistoryKept`; yes: `ThreadsFinish` |
| `lotto` | Do the accounts of a pair stay a pair although their exits free slots and cash at different times? Is anything overdue left, or repaired late? | yes: `PairsAgree`, `MoneyAccounted`; no: `InTime`, `MissedStaysMissed` |
| `retest` | Is every entry and exit supported by bars known at the time, with no gap between? Do the arms see the same opportunities? | yes: `EntriesEarned`, `ExitsProven`, `ArmsComparable` |
| `expanded` | Does a write-off that races the scanner, or is repeated, lose money twice, free a slot too early or slip into an older observation? | no: `MoneyConserved`, `RecordsInOrder`, `ExitsEvidenced` |
| `desk` | What can requests, scans and the expiration do to a row on outdated copies? By how much are limits passed? | `PositionsHonest`; by no more than the requests in flight: `LimitsBound` |

### Findings

Two runs show a disagreement with a documented promise:

- A scan reads `operator_hold` before it waits for the lock and then starts under
  a hold (`HoldBlocksNewScans`). The hold itself is kept and is shown afterwards.
- An exit is stamped with the start of the candle that touched the level, so a
  chain cached earlier in that minute passes as the exit bid (`BidAfterTouch`).

The passing runs state their properties with these behaviours in them:

- `mark_lifecycle_entered` writes outside `SCAN_LOCK`: a scan and a paper entry
  that read the same BUY row both end it, and the status announced first is
  replaced. `NeverRevived` is what remains true.
- The close's housekeeping may get the lock before a scan that waits for it; the
  scan then leaves a recommendation active overnight. A later close ends it (`ActiveEnds`).
- Two requests that pass a check together both insert: the same contract is held
  twice, the watch list exceeds its slots, two backtests run. "Overlapping
  submissions are rejected" (`README.md:133` of the repository) holds for a submission after
  the other's insert only. `LimitsBound` gives the excess.
- A crash during a backtest leaves its row RUNNING, and every later submission is
  refused. No step of the code ends such a row.
- A listing and a scan that mark one position at the same time can mix the option
  price of one quote with the underlying of another, and an exit and an
  expiration can both end it. `RowsHonest` names the fields that still agree and
  excepts just these positions.

### Bounds, and why they are enough

- *Forward account.* Time is in ticks, with deadlines, latency and quote age of one
  or two ticks, so that each can be met, missed by one and met exactly. Timing and
  liveness use one mark, since positions interact only through cash and slots, and
  two days: the second day has the settlement and no successor in the calendar.
  Cash and slots use two marks, the smallest number that competes. The prices hold
  a contract that takes most of the cash, a cheap one, and one whose bid is zero.
  One clock correction and one failed scan are enough to reach every branch; a
  second repeats the situation of the first, as both return to a committed state.
- *Lifecycle.* Two rows (a replaced BUY and its successor), one scan at a time (the
  lock), two paper entries, a scan that may wait into the minute after the close, one
  restart, and two days of two session ticks and a closed one, so that there is a
  second close. The candidates include every signal, both directions, a lost direction, a breached
  stop, an unverified contract and an ask near its cap.
- *Control.* The job and one request are the smallest pair that waits for the lock;
  one command, one crash and one change of the watch list are enough for each of
  the races, and the proofs cover any number of requests, commands and crashes.
  Three days: a session, a holiday and a day with an early close, so that the next
  session is shown and reached across a closed day.
- *Outcome.* Two signals, one session with its night and the first tick of the next
  day, candles that are
  quiet, hit one signal's target, or touch both levels of the other one, lags of
  zero and one tick, a quote window of three ticks against a cache of two.
  `outcome_bid` uses five-second ticks with the code's own values: a cache of 20 s
  and a quote window of 180 s.
- *Candle stream.* A day of two session minutes and one outside, and the next day's
  session. Three generations are the smallest number with a rotation to the next day
  and with a close between two reads of one day (a reconnect); threads of all
  earlier generations may still hold a packet. One symbol: the cache of each is
  independent, the rotation clears them together. The theorems have no such bounds.
- *Lotto.* A pair of both exit rules with one slot, or a multi-position account with
  two, one of which could pay a second entry only from the fee kept for closing the
  first; two contracts compete for slots and cash. A tick is a minute; days of six with
  five in session, entry and exit leads of two, and the first ticks of a second day,
  where proceeds settle. A scan's candle may lag by two, so scans come late, out of
  order or twice. Quotes are the entry's, one that arms the trailing stop and meets the
  target, one without a bid, and none.
- *Retest.* Two opportunities, of one ticker (selection) or of two (competition for
  cash and slots), found by one scan, by two, or one of them only. Two ticks to a minute, so that a
  request in a bar's middle is told from one at its end; a day of nine minutes with seven in
  session, which the accounts are funded before, and the start of the next, where proceeds settle. The wait
  for a retest (two bars) and the deadlines let each branch happen before, at and after
  them. Calls come two or three ticks apart: a scan may come after a minute without one,
  and a startup after the last call's next minute shifts the later calls against the bars.
- *Expanded.* One mark expires on its day and one on the next; the account may
  start with a position of the earlier version, whose exits use other rules.
  Two requests, of the same positions or of different ones, each sent any number of
  times once the first contract has ended; both writers may wait one tick for the lock.
- *Desk.* Two threads and the scan are the smallest crowd with a race of two
  requests and one of a request with the scanner; three requests allow an ending,
  its outdated writer and a later reader. Three quotes differ in both prices.
  One contract (contracts share nothing), one watch slot for two symbols, two
  tickers for the three verdicts, and the expiration at midnight. Threads and
  symbols are symmetric.

`CHECK_DEADLOCK FALSE` is set where time ends at `MaxClock`, or requests at
`MaxRequests`: there the models stop because the exploration does, not because
the program does.

### Fairness

`forward_timing`: the scheduler keeps firing scans (weak fairness of `Begin` and
of the handler's steps) and the clock advances; it is strong for `Tick`, which
pauses while a transaction is open. A scan may fail at any step, a bounded number
of times. `lifecycle`: time passes, the close job runs on each day (a cron
trigger of its own in `main.py`), and a started scan commits or fails; no scan is
required to start. `control`: also, a crashed host is started again and the job
fires. `outcome`: some pass finds the provider healthy, infinitely often while
passes are possible; no candle and no chain is required to ever arrive.
`stream`: a started thread, a read and a close keep running, as every connect, receive,
join and warm-up wait has a timeout; no read, packet, credential or close has to come.
Strong fairness is used exactly for what a scan in progress, or a session that is
closed, suspends. The account models of lotto, retest and the expanded account
have no liveness: every decision of theirs has a deadline, and that nothing
outlives it in an advanced account is a safety property (`InTime`,
`ExitsProven`, `ExitsEvidenced`).

## What is proved

All theorems hold for every value of the constants under the named `ASSUME`s,
which only give the constants their types, say that ask prices are positive
and not below the bid, and order the times of a day. The exploration bounds are
constants too and may be as large as one likes. Two assumptions say more:
`LegacyAssumption` of `ExpandedAccount` bounds what the earlier version opened by the
slots and the cash, as its own rules did; `LottoAssumption` gives the groups that are not
multi-position one slot, as their policies do. `TimesAssumption` of `LottoTrials` orders
two times: entries stop no later than exits begin (15 and 5 minutes before the close in the
code), and an entry's deadline does not reach into the next session.

`TotalsProofs`. A sum over a set of rows is the community modules' fold, a recursive
function over subsets with a `CHOOSE`. `TotalEquation` shows, by the well-founded order of
the subsets of a finite set, that it satisfies its equation; from it follow how a total changes when a row joins,
leaves or moves (`TotalWith`, `TotalWithout`, `TotalMoved`, `CountMoved`), that it
splits over disjoint sets and depends on the members' amounts only. `NumbersInduct` is the
induction for a pass over the rows by id.

`ForwardAccountProofs`. The type invariant first. Then six invariants, each
inductive relative to others of them:

- `ImportInv` says what the watermark stands for: marks are recorded in the order
  of their ids, and working and committed positions lie at or below their
  watermark and after their activation. `HistoryExcluded` alone is not inductive,
  since a rollback returns to the committed copy.
- `EventInv` states event and status agreement for working and committed rows, and
  gives `EventsExplainStatus` and `NoDuplicateEvent`.
- `CashInv` adds solvency of both copies to `LoopTotalsAgree`: the entry loop
  decides by its hand-kept totals, so the reserve of closing fees is inductive only
  together with their agreement. It gives `FeesReserved` and `PositionLimit`.
- `TxnInv` says that the open transaction is a journal on the committed rows. It
  gives `NoRetroactiveEvents` and `FinalStatus`.

- `FillInv` adds to `FillsOnTime`, for working and committed events, that a sold
  position's signal ended and that a scan asked for the sale: neither the signal nor
  the request changes after that, and a quote of the requesting scan's own instant
  cannot be a latency later than it. With `TxnInv`, by which a rollback takes fills
  back and never makes one, it gives `FillsInTime`.
- `SnapInv` says that no step between commits touches the equity observation, and
  gives `HonestEquity`.

Together they are every safety property the two runs check: `LedgerAlwaysSound`,
`AlwaysWithinMeans`, `NothingEverRewritten`, `FillsAlwaysInTime` and
`EquityAlwaysHonest`; liveness is left to TLC.

`ImplementsBook` proves the refinement: under the mapping of `ForwardAccountBook`,
every step of the account is a `Batch` of `CashBook` or a stutter. A commit is one step
of the book but the end of many steps of the scan, hence the invariant `Journal`: each mark
moved at most once since the last commit, by one of three moves (bought, sold, cleared), and
the working balances are the committed ones less the debits and fees, and plus the
proceeds, of exactly these marks (`Balanced`). At the commit these sums are the `Batch`'s;
what the purchases leave for the fees is `CashInv`'s.

`SignalEngineProofs`, lifecycle. `LifeInv` adds two parts to `RowsExplained`. `DraftOK` says what
a request's draft knew when it was made and what of it stays true until its commit,
while other requests commit: its row is as loaded or was ended by a paper entry, only a
BUY can be; nothing else is active on its day; and it opens a row only if it ends the
one it found. `EntryInv` says that a row a paper entry found was bought once and never
returns to WATCH. The lemma `EndedTables` serves every writer that ends rows.
`RowsAlwaysExplained` and `NothingRevived` hold for any number of entries, rows, days
and restarts.

`SignalEngineProofs`, runtime row. `ControlInv` is the conjunction of the type invariant with the
three properties and `CopyInv`: a thread that waits never loaded a hold, and a
thread that scans has a copy whose status is already "scanning", so that its last
commit always carries a new status. The lemma `MergeFields` says which value each
merged column gets; every write of the row is an instance of it. From these
`HoldIsTheOperators`, `ScanningMeansRunning` and `HeldAnnouncesNothing` follow for
any number of concurrent requests. `IdleTold` adds that an idle row names the
session to come, from `OpensNext`; `RowAlwaysHonest` joins the three.

`SignalEngineProofs`, calendar. For every calendar, `next_market_open` is the first opening
after t (`OpensNext`), `next_scanner_run` the first run after t for every second of
the minute, also one outside it (`RunsNext`), and `next_session_housekeeping` the
first close (`HousekeepsNext`). The lemmas are about dividing an instant into day
and time (`Unique`: it has one such division; `Order`: instants are ordered
by day, then time). `NextDay` gives the least upcoming market day by the well-founded order of
the naturals; there is one because at most the listed holidays and one weekend
lie before it.

`SignalOutcomeProofs`. Every step of a pass over one row is one of four forms
(`PassedBy`): left alone, ended by its first ending candle, walked on, or given up
as a data gap; this rests on the existence of least and greatest elements, proved
from the well-founded order of the naturals. Three invariants follow:

- `Tracked`, the type invariant together with "only tracked BUY rows have an ENTRY
  mark and only ended ones an EXIT mark": the case distinction of the exit mark is
  complete only under it.
- `EntryInv`, that is `OneEntryPerDay` and `MarkTellsOutcome`, which gives
  `MarksAlwaysSound`; `OutcomeFinal` needs `Tracked` only.
- `WalkInv`: the cursor of an open row stands at its trigger or at a published candle
  of its day that did not end it, and every candle of the day up to the cursor
  left it open, unless it was back-filled. The first half is what makes the second
  inductive, since it places a newly published, not back-filled candle after the
  cursor. It gives `OutcomeIsFirstTouch`. It also gives `GapMeansNoCutoff`, where
  back-filled candles are no exception: a cursor past a cutoff candle stands itself
  on one, which would have ended the row. `OutcomesAlwaysSound` joins them.

`StreamDeskProofs`, candle stream. `StreamInv` adds to the properties who holds the stream lock
(`Locked`: one thread at most, and it left no current stream), which generations
have no stream yet (`Unmade`) and which streams may run (`Orphans`: the current
one and the one the holder will stop). A new stream is opened only when its holder
is past its stop, so `OneStreamRuns` is inductive with these parts only. A
thread's step touches its own place and packet (`OwnStep`), and a delivery adds one
candle under the current generation, which gives `FedByCurrentStream` for threads
that outlived any number of rotations. `HistoryInv` orders the days: entry, read
rows, stream, clock; with `FedByCurrentStream` it gives `HistoryKept`.

`StreamDeskProofs`, desk. `DeskInv` is the type invariant with three parts: the copies an
actor holds are of rows it loaded while they were active and fresh (`CopyInv`), every row
is `Whole` as far as outdated copies cannot break it, and a row that is not
`raced` is `Serial`, as if its writers had run one after another. None is
inductive alone: a merged row takes its new columns from the copy and the others from the row.
The lemma `WrittenRow` combines them for every write at once. `EndingsKept`
follows from the kinds of a step (`StepKinds`). `LimitInv` counts the rows of a limit
together with the requests that passed its check and have not inserted, and bounds
the sum by the number of threads; `LimitsBound` is that for a state in
which all have inserted. Both hold for any number of threads, contracts and requests.

`ExpandedAccountProofs`. `AccountInv` is inductive and gives all four properties of the run
(`TypeCorrect`, `MoneyIsConserved`, `RecordsStayInOrder`, `ExitsHaveEvidence`) for any
number of marks, requests and late clocks. Besides the type invariant and
`RecordsInOrder` it has

- `Solid`, the ledger: the money of `MoneyConserved`, and that only a sold position has proceeds and
  only a written-off one an adjustment (`Unsold`). Without that a second sale would count twice;
- `Sound`, one position: its fills are in time for the mark and the signal it
  belongs to, and an exit asked for (`Asked`) stays justified while its quote is awaited, which
  `ExitsEvidenced` says of finished exits only;
- `Discovery`: no position beyond the watermark, so that discovery resets none; marks
  are created by id;
- `Punctual`: nothing is overdue unless a write-off moved the clock last.

A pass is one step of the specification that runs over all rows three times, so it
is proved by induction over the marks: `ExitPassRuns` and `EntryPassRuns` unfold the
recursive functions, `ExitPassSound` and `EntryPassSound` carry `Solid` and `Sound` from one mark to
the next, by `LedgerStep`, the effect of one moving position on the three sums.
`WriteoffStep` shows that a request applied to rows that are still its copies loses their
debits, that a repeated request finds none, and that the observation it records counts all
write-offs up to its clock; `ScanAdvances` that a scan with an older clock is refused before it
could record one.

`LottoTrialsProofs`. `LottoInv` is inductive and gives all five properties of the run
(`TypeCorrect`, `PairsAlwaysAgree`, `MoneyAlwaysAccounted`, `AlwaysInTime`,
`MissedAlwaysStaysMissed`) for any contracts, quotes, slots, caps and delays. It has

- `Solvent`, one account: slots, the cap of the clock's day, the ledger equation and the
  reserve of fees of `MoneyAccounted`, and that the unsettled cash is exactly the proceeds of the
  sales that await their day. Without the last, settling could take what is not there;
- `Fit`, one position: it carries the fields of its status only, and its decisions and fills are in
  time (`InTime`), for the contract's discovery too;
- `Paired`, two accounts of the group: `PairsAgree` row by row. One account decides for all, which is
  sound because a contract is pending in every account or in none;
- `Timely`, at the instant of the last advance: nothing is overdue.

Exits touch each row by itself (`ExitRow`), and `MovesBalance` gives the effect of any number
of moved rows on an account's sums. Entries are one contract at a time: `DecideSound`, `SkipSound` and
`BuySound`, where `BuyLedger` shows that a purchase that passes the checks of cash, cap and slots leaves them
true. `InTurnRuns` unfolds the pass over a set of contracts, whose
last one exists since `Before` is a strict order (`LastIn`), and `InTurnSound` carries the invariant through
it by induction over subsets. A purchase counts for the day of its decision, and the code checks the cap of the
current day: `DecidedToday`, which needs `TimesAssumption`, says that they are the same.
`NextMinute` is the midnight, when the new day has spent nothing.

`RetestTrialProofs`. `RetestInv` is inductive (`RetestInvariant`) and gives all four properties of the run
(`TypeCorrect`, `EntriesAlwaysEarned`, `ExitsAlwaysProven`, `ArmsStayComparable`) for any candidates, tickers,
quotes, scenarios, delays, and bars that are late, invalid or never come. TLC found it true in every state of the run
before it was proved. It has

- `Fit`, one position: it carries the fields of its status only, each with the bars, quotes and instants that
  justify it. Besides what the properties say it tells how far the cursor has seen: while an
  entry is awaited the bars up to it are calm, while a retest is awaited they are still
  (`Calm`, `Still`), and an open position's run calm from its fill. A later call continues from there;
- `Solvent`, one cash account: slots, the reserve of fees and the two sums of `ArmsComparable`, which are inductive as they are;
- `RowFit` and `OneSelected`, the frozen rows: each is about the last complete minute of a session, and of a ticker
  and day one is selected, since a later call's new rows see the earlier ones;
- `Timely`: no open position has outlived its session when a call is over.

Minutes and days are quotients of an instant. `Quotient` characterizes them by multiplication, so
that `DayMinute`, `SameDay` and `StartsIn` are the facts about time that the rest needs. `BarSeen` says what
`BarExit` answers: the first bar that ends the exposure, or how far it saw none. Each branch of `Advance` then keeps `Fit`, given the
bars the call sees, which a restart has none of. `MovedSums` and `MovedSolvent` give the effect of one
position's turn on the sums; `InTurnRuns` unfolds the recursion of `InTurn`, whose last row exists since `Before` is a
strict order, and `InTurnSound` carries `Sound` through it by induction over subsets. Rows once frozen and bars once
published never change, so that what was justified stays so.

Only model-checked: liveness and fairness, which are out of the prover's reach. Every invariant and
action property of the passing runs is stated by a theorem; `EverythingEnds`, `ActiveEnds`, `HoldIsShown`,
`EntriesGetExits` and `ThreadsFinish` are the liveness properties that are left to TLC.
The findings need no proof: each is a behaviour that TLC exhibits.

## What is not modelled, and why

Ranking and indicators (numeric scoring), report and readiness views (they read
only), the operations command line (it reads copies of the database), the
frontend, REST payload parsing. Inside the modelled components:

- performance and budget alerts, the live wait candidates, option observations,
  account summaries and statistics: they feed no decision;
- the requests that refresh quotes (`refresh_account_quotes`, `refresh_quotes`):
  any usable quote may be cached when an account advances, which includes theirs;
- the evaluation, report and equity views of the retest trial;
- the heartbeat of the runtime row, and the provider closed at the session's end
  in `ScanControl` (`CandleStream` has it);
- of the providers, the recovery queue of a stream, the length of the back-off, the
  REST request budget, the lifetime of a cached entry (a read may come at any time)
  and status reads; a quote's identity checks are one outcome, pass or fail;
- time zones and daylight saving: instants are local; early closes and holidays in
  the accounts and the outcomes, whose days have one length.

Components without a module are listed as `not_modelled` with the reason.

## Plan

In order of what the system depends on:

1. *Done.* `Totals` and proofs; `CashBook`, `ForwardAccount`, its refinement and proofs; `SignalLifecycle`;
   `ScanControl` and proofs; `SignalOutcome` and proofs; `CandleStream` and proofs.
2. *Done.* `PaperDesk` and proofs; `ExpandedAccount` and proofs; `LottoTrials` and proofs; `RetestTrial`
   and proofs; `MarketCalendar` and proofs, under `ScanControl`.
3. The recovery queue of the candle stream (does every due symbol get its turn)
   and the request budget that threads share.
4. The evaluation and the report of the retest trial, as operators over its rows.
5. Early closes in the accounts, by `MarketCalendar` as in `ScanControl`.
