--------------------------- MODULE ForwardAccount ---------------------------
(***************************************************************************)
(* The baseline cash account of services/forward_account.py: a paper       *)
(* account that buys one contract per verified ENTRY mark, sells it when   *)
(* the underlying signal ends and waits a bank day for the proceeds.       *)
(*                                                                         *)
(* advance_account runs inside the scan's database transaction.  Here the  *)
(* transaction is a sequence of steps, one per loop iteration, on working  *)
(* variables; Commit copies them to `saved`, Rollback restores them.  One  *)
(* tick is a minute; None stands for a missing timestamp or amount.        *)
(***************************************************************************)
EXTENDS Integers, FiniteSets
LOCAL INSTANCE FiniteSetsExt

CONSTANTS
  NMarks,         \* ENTRY marks that may be recorded, with ids 1..NMarks
  StartingCash, MaxPositions, MaxEntry,
  OpenFee,        \* opening commission plus the per-side allowance
  CloseFee,       \* closing commission plus the per-side allowance
  Slippage,       \* slippage per contract
  EntryDeadline, ExitDeadline, Latency, QuoteAge, MaxSpread,
  TrialStart,     \* first instant at which the account may be created
  Prices,         \* (bid, ask) pairs a chain may quote, per contract
  DayLength, SessionLength, \* ticks in a day and in its regular session
  CalendarDays,   \* days of the configured holiday calendar
  StampLags,      \* how far the provider's stamp may trail the host's clock
  LastMarkAt, MaxClock, MaxStepBacks, MaxRollbacks  \* bounds of the exploration

None == -1
Marks == 1..NMarks

ASSUME PolicyAssumption ==
  /\ {NMarks, StartingCash, MaxPositions, MaxEntry, OpenFee, CloseFee,
      Slippage, EntryDeadline, ExitDeadline, QuoteAge, MaxSpread} \subseteq Nat
  /\ Latency \in Nat \ {0}
ASSUME ClockAssumption ==
  /\ {TrialStart, CalendarDays, LastMarkAt, MaxClock, MaxStepBacks, MaxRollbacks} \subseteq Nat
  /\ StampLags \subseteq Nat
  /\ DayLength \in Nat \ {0}
  /\ SessionLength \in 1..DayLength
ASSUME PriceAssumption ==
  Prices \subseteq {q \in [bid : Nat, ask : Nat] : q.ask > 0 /\ q.bid <= q.ask}

VARIABLES
  clock,      \* the scanner host's wall clock
  stepBacks,  \* how often that clock was set back
  rollbacks,  \* how many scans failed
  marks,      \* recorded ENTRY marks: creation stamp and trial provenance
  signal,     \* each mark's SignalPerformance row: exit_reason and exit_at
  activatedAt, processedAt, watermark,   \* the ForwardPaperAccount row
  settled, unsettled,                    \* sums of the cash events
  status, detail,                        \* the ForwardPaperPosition rows
  posted,     \* event keys of ForwardPaperEvent with their occurred_at
  snapshot,   \* latest ForwardPaperEquitySnapshot
  txn,        \* the open transaction and the loop variables of its handler
  saved       \* what the database holds committed

account == <<activatedAt, processedAt, watermark, settled, unsettled,
             status, detail, posted, snapshot>>
world   == <<clock, stepBacks, marks, signal>>
vars    == <<clock, stepBacks, rollbacks, marks, signal, account, txn, saved>>

Stamp  == Nat \cup {None}
HELD   == {"OPEN", "UNPRICED"}
Status == HELD \cup {"NONE", "PENDING_ENTRY", "UNSETTLED", "CLOSED", "SKIPPED"}
Kinds  == {"ENTRY", "SKIP", "QUOTE_GAP", "EXIT_REQUEST", "EXIT", "SETTLEMENT"}
Phase  == {"idle", "exits", "entries", "failed"}

\* quoteAt and bid are the evidence last used: entry, valuation, then exit quote.
Fresh == [seen |-> None, debit |-> 0, quoteAt |-> None, bid |-> 0,
          sale |-> 0, settles |-> None]
NoEvents == [k \in Kinds |-> None]
Idle == [phase |-> "idle", next |-> 1, cash |-> 0, held |-> 0]

Working == [activatedAt |-> activatedAt, processedAt |-> processedAt,
            watermark |-> watermark, settled |-> settled,
            unsettled |-> unsettled, status |-> status, detail |-> detail,
            posted |-> posted, snapshot |-> snapshot]

-----------------------------------------------------------------------------
(* Calendar, marks and quotes *)

Day(t)        == t \div DayLength
SessionEnd(t) == Day(t) * DayLength + SessionLength
Regular(t)    == t < SessionEnd(t)

\* Proceeds become cash at the next session open; never, once the calendar ends.
SettlementAt(t) ==
  IF Day(t) + 1 < CalendarDays THEN (Day(t) + 1) * DayLength ELSE None

Recorded == {m \in Marks : marks[m].created # None}
Held     == {m \in Marks : status[m] \in HELD}

\* What _quote may find in the cached chain: a quote received in the session,
\* no earlier than `earliest` and no older than the quote age.
UsableQuotes(earliest) ==
  IF Regular(clock)
  THEN {t \in earliest..clock : t >= clock - QuoteAge} \X Prices
  ELSE {}

\* A sale is the bid less slippage, never below zero.
UnclampedSale(q) == q.bid - Slippage
Sale(q) == IF q.bid > Slippage THEN q.bid - Slippage ELSE 0

\* _event: a key is unique per account, a second insert fails the scan.
After(phase, m, kind) == IF posted[m][kind] = None THEN phase ELSE "failed"

Post(m, kind) ==
  /\ posted' = [posted EXCEPT ![m][kind] = clock]
  /\ txn' = [txn EXCEPT !.next = @ + 1, !.phase = After(@, m, kind)]

Skip == txn' = [txn EXCEPT !.next = @ + 1]
-----------------------------------------------------------------------------
(* Creation of the account and the start of a handler *)

\* The equity that _record_equity_snapshot stores: unknown while a held
\* position has no verified mark that is still fresh.
UnvaluedMark(m) == ~Regular(clock) \/ clock - detail[m].quoteAt > QuoteAge
Unvalued(m) ==
  \/ status[m] = "UNPRICED"
  \/ ~Regular(clock)
  \/ detail[m].quoteAt = None
  \/ clock - detail[m].quoteAt > QuoteAge

Liquidation(m) ==
  Sale(detail[m]) - CloseFee

Equity ==
  IF \E m \in Held : Unvalued(m) THEN None
  ELSE settled + unsettled + MapThenSumSet(Liquidation, Held)

\* ensure_account: marks recorded before it are history, never imported.
Activate ==
  /\ txn.phase = "idle" /\ activatedAt = None /\ clock >= TrialStart
  /\ activatedAt' = clock
  /\ processedAt' = clock
  /\ watermark' = Cardinality(Recorded)
  /\ settled' = StartingCash
  /\ snapshot' = [at |-> clock, equity |-> StartingCash]
  /\ UNCHANGED <<world, rollbacks, unsettled, status, detail, posted, txn>>
  /\ saved' = Working'

\* A clock behind processed_at makes the handler return before any change.
AnyClock     == TRUE
NotBackwards == clock >= processedAt

Begin ==
  /\ txn.phase = "idle" /\ activatedAt # None
  /\ NotBackwards
  /\ processedAt' = clock
  /\ txn' = [Idle EXCEPT !.phase = "exits"]
  /\ UNCHANGED <<world, rollbacks, saved, activatedAt, watermark, settled,
                 unsettled, status, detail, posted, snapshot>>
-----------------------------------------------------------------------------
(* First pass: positions already held or awaiting settlement, by id *)

Exiting(m) == txn.phase = "exits" /\ txn.next = m
KeepInExits == UNCHANGED <<world, rollbacks, saved, activatedAt, processedAt,
                           watermark, snapshot>>

Due(m) == /\ status[m] = "UNSETTLED"
          /\ detail[m].settles # None /\ clock >= detail[m].settles

AtEnd(m) == clock >= SessionEnd(marks[m].created) \/ signal[m].reason = "DATA_GAP"

\* The underlying ended too long ago, or its candle closed before the entry.
WindowMissed(m) ==
  \/ clock > signal[m].exitAt + ExitDeadline
  \/ signal[m].exitAt + 1 <= posted[m]["ENTRY"]

\* exit_requested_at is written by the first scan that sees the exit, only.
Requested(m) == IF posted[m]["EXIT_REQUEST"] = None THEN clock
                ELSE posted[m]["EXIT_REQUEST"]

MustExit(m) == status[m] = "OPEN" /\ ~AtEnd(m) /\ signal[m].reason = "EXIT"

\* No proceeds are guessed: the debit stays spent and the position held.
SilentGap(m) == status' = [status EXCEPT ![m] = "UNPRICED"] /\ Skip /\ UNCHANGED posted
DeclareGap(m) ==
  /\ status' = [status EXCEPT ![m] = "UNPRICED"]
  /\ Post(m, "QUOTE_GAP")

Settle(m) ==
  /\ Exiting(m) /\ Due(m)
  /\ settled' = settled + detail[m].sale
  /\ unsettled' = unsettled - detail[m].sale
  /\ status' = [status EXCEPT ![m] = "CLOSED"]
  /\ Post(m, "SETTLEMENT")
  /\ UNCHANGED detail /\ KeepInExits

GapAtEnd(m) ==
  /\ Exiting(m) /\ status[m] = "OPEN" /\ AtEnd(m)
  /\ DeclareGap(m)
  /\ UNCHANGED <<settled, unsettled, detail>> /\ KeepInExits

GapMissedWindow(m) ==
  /\ Exiting(m) /\ MustExit(m) /\ WindowMissed(m)
  /\ DeclareGap(m)
  /\ UNCHANGED <<settled, unsettled, detail>> /\ KeepInExits

GapExitDeadline(m) ==
  /\ Exiting(m) /\ MustExit(m) /\ ~WindowMissed(m)
  /\ clock > Requested(m) + ExitDeadline
  /\ DeclareGap(m)
  /\ UNCHANGED <<settled, unsettled, detail>> /\ KeepInExits

\* The request is recorded; no usable quote is cached, so it stays open.
AwaitExitQuote(m) ==
  /\ Exiting(m) /\ MustExit(m) /\ ~WindowMissed(m)
  /\ clock <= Requested(m) + ExitDeadline
  /\ posted' = [posted EXCEPT ![m]["EXIT_REQUEST"] = Requested(m)]
  /\ Skip
  /\ UNCHANGED <<settled, unsettled, status, detail>> /\ KeepInExits

FillExit(m) ==
  /\ Exiting(m) /\ MustExit(m) /\ ~WindowMissed(m)
  /\ clock <= Requested(m) + ExitDeadline
  /\ \E q \in UsableQuotes(Requested(m) + Latency) :
       /\ detail' = [detail EXCEPT ![m] =
                       [@ EXCEPT !.sale = Sale(q[2]), !.settles = SettlementAt(clock),
                                 !.quoteAt = q[1], !.bid = q[2].bid]]
       /\ unsettled' = unsettled + Sale(q[2])
  /\ settled' = settled - CloseFee
  /\ status' = [status EXCEPT ![m] = "UNSETTLED"]
  /\ Post(m, "EXIT")
  /\ KeepInExits

\* A position whose signal is still open is re-marked when a quote is cached.
Revalue(m) ==
  /\ Exiting(m) /\ status[m] = "OPEN" /\ ~AtEnd(m) /\ signal[m].reason = "OPEN"
  /\ \E q \in UsableQuotes(posted[m]["ENTRY"]) :
       detail' = [detail EXCEPT ![m].quoteAt = q[1], ![m].bid = q[2].bid]
  /\ Skip
  /\ UNCHANGED <<settled, unsettled, status, posted>> /\ KeepInExits

LeaveAlone(m) ==
  /\ Exiting(m) /\ ~Due(m)
  /\ status[m] = "OPEN" => ~AtEnd(m) /\ signal[m].reason = "OPEN"
  /\ Skip
  /\ UNCHANGED <<settled, unsettled, status, detail, posted>> /\ KeepInExits
-----------------------------------------------------------------------------
(* Second pass: marks above the watermark become pending positions *)

Discovered == {m \in Recorded : m > watermark /\ marks[m].created >= activatedAt}

Discover ==
  /\ txn.phase = "exits" /\ txn.next > NMarks
  /\ watermark' = Cardinality(Recorded)
  /\ status' = [m \in Marks |-> IF m \in Discovered THEN "PENDING_ENTRY" ELSE status[m]]
  /\ detail' = [m \in Marks |-> IF m \in Discovered THEN [detail[m] EXCEPT !.seen = clock]
                                ELSE detail[m]]
  /\ txn' = [txn EXCEPT !.phase = "entries", !.next = 1, !.cash = settled,
                        !.held = Cardinality(Held)]
  /\ UNCHANGED <<world, rollbacks, saved, activatedAt, processedAt, settled,
                 unsettled, posted, snapshot>>
-----------------------------------------------------------------------------
(* Third pass: pending entries, by id; cash and held are loop variables *)

Entering(m) == txn.phase = "entries" /\ txn.next = m
KeepInEntries == UNCHANGED <<world, rollbacks, saved, activatedAt, processedAt,
                             watermark, unsettled, snapshot>>

NoSlot == txn.held >= MaxPositions

RefusedOnce(m) == detail[m].seen = clock /\ (~marks[m].eligible \/ NoSlot)
Refused(m) ==
  \/ ~marks[m].eligible
  \/ signal[m].reason # "OPEN"
  \/ clock < marks[m].created
  \/ clock > marks[m].created + EntryDeadline
  \/ Day(clock) # Day(marks[m].created) \/ ~Regular(clock)
  \/ NoSlot

FreshQuotes(m) == UsableQuotes(clock - QuoteAge)
EntryQuotes(m) == UsableQuotes(detail[m].seen + Latency)
Debit(q) == q.ask + Slippage + OpenFee

AcceptableUnreserved(q) ==
  /\ q.bid > 0 /\ (q.ask - q.bid) * 100 <= MaxSpread * q.ask
  /\ Debit(q) + CloseFee <= MaxEntry /\ Debit(q) + CloseFee <= txn.cash
Acceptable(q) ==
  /\ q.bid > 0 /\ (q.ask - q.bid) * 100 <= MaxSpread * q.ask
  /\ Debit(q) + CloseFee <= MaxEntry
  /\ Debit(q) + CloseFee <= txn.cash - txn.held * CloseFee

SkipEntry(m) ==
  /\ Entering(m) /\ status[m] = "PENDING_ENTRY"
  /\ Refused(m) \/ \E q \in EntryQuotes(m) : ~Acceptable(q[2])
  /\ status' = [status EXCEPT ![m] = "SKIPPED"]
  /\ Post(m, "SKIP")
  /\ UNCHANGED <<settled, detail>> /\ KeepInEntries

\* The loop's own copies of the balance and of the held count.
CountCashOnly(m, debit) == txn' = [txn EXCEPT !.next = @ + 1, !.cash = @ - debit]
CountEntry(m, debit) ==
  txn' = [txn EXCEPT !.next = @ + 1, !.cash = @ - debit, !.held = @ + 1,
                     !.phase = After(@, m, "ENTRY")]

FillEntry(m) ==
  /\ Entering(m) /\ status[m] = "PENDING_ENTRY" /\ ~Refused(m)
  /\ \E q \in EntryQuotes(m) :
       /\ Acceptable(q[2])
       /\ detail' = [detail EXCEPT ![m] =
                       [@ EXCEPT !.debit = Debit(q[2]), !.quoteAt = q[1], !.bid = q[2].bid]]
       /\ settled' = settled - Debit(q[2])
       /\ CountEntry(m, Debit(q[2]))
  /\ status' = [status EXCEPT ![m] = "OPEN"]
  /\ posted' = [posted EXCEPT ![m]["ENTRY"] = clock]
  /\ KeepInEntries

\* Not pending, or pending with no usable quote cached: nothing changes.
LeavePending(m) ==
  /\ Entering(m)
  /\ status[m] = "PENDING_ENTRY" => ~Refused(m)
  /\ Skip
  /\ UNCHANGED <<settled, status, detail, posted>> /\ KeepInEntries
-----------------------------------------------------------------------------
(* The end of the transaction, and the environment *)

\* The snapshot is written once per instant; then the caller commits.
Commit ==
  /\ txn.phase = "entries" /\ txn.next > NMarks
  /\ snapshot' = IF snapshot.at = clock THEN snapshot
                 ELSE [at |-> clock, equity |-> Equity]
  /\ txn' = Idle
  /\ UNCHANGED <<world, rollbacks, activatedAt, processedAt, watermark, settled,
                 unsettled, status, detail, posted>>
  /\ saved' = Working'

\* An exception in the scan, or the death of the process, at any point of it;
\* a duplicate key is such an exception, and always ends the scan.
Rollback ==
  /\ txn.phase # "idle"
  /\ txn.phase # "failed" => rollbacks < MaxRollbacks
  /\ rollbacks' = IF txn.phase = "failed" THEN rollbacks ELSE rollbacks + 1
  /\ activatedAt' = saved.activatedAt /\ processedAt' = saved.processedAt
  /\ watermark' = saved.watermark     /\ snapshot' = saved.snapshot
  /\ settled' = saved.settled         /\ unsettled' = saved.unsettled
  /\ status' = saved.status           /\ detail' = saved.detail
  /\ posted' = saved.posted
  /\ txn' = Idle
  /\ UNCHANGED <<world, saved>>

\* _record_option_entry, in an earlier phase of the scan that commits on its
\* own; the mark carries the provider's stamp, not the host's clock.
RecordMark ==
  /\ txn.phase = "idle" /\ Regular(clock) /\ clock <= LastMarkAt
  /\ LET m == Cardinality(Recorded) + 1
     IN  /\ m \in Marks
         /\ \E created \in {clock - lag : lag \in StampLags}, eligible \in BOOLEAN :
              /\ created >= 0 /\ Day(created) = Day(clock)
              /\ marks' = [marks EXCEPT ![m] = [created |-> created, eligible |-> eligible]]
         /\ signal' = [signal EXCEPT ![m].reason = "OPEN"]
  /\ UNCHANGED <<clock, stepBacks, rollbacks, account, txn, saved>>

\* update_outcome on a completed candle of the same session.
ResolveSignal(m) ==
  /\ txn.phase = "idle" /\ signal[m].reason = "OPEN"
  /\ \E t \in marks[m].created .. clock - 1 :
       /\ t < SessionEnd(marks[m].created)
       /\ signal' = [signal EXCEPT ![m] = [reason |-> "EXIT", exitAt |-> t]]
  /\ UNCHANGED <<clock, stepBacks, marks, rollbacks, account, txn, saved>>

\* _mark_data_gap once the cutoff passed without an observed exit.
DataGap(m) ==
  /\ txn.phase = "idle" /\ signal[m].reason = "OPEN"
  /\ clock >= SessionEnd(marks[m].created) - 1
  /\ signal' = [signal EXCEPT ![m].reason = "DATA_GAP"]
  /\ UNCHANGED <<clock, stepBacks, marks, rollbacks, account, txn, saved>>

Tick ==
  /\ txn.phase = "idle" /\ clock < MaxClock
  /\ clock' = clock + 1
  /\ UNCHANGED <<stepBacks, rollbacks, marks, signal, account, txn, saved>>

SetClockBack ==
  /\ txn.phase = "idle" /\ stepBacks < MaxStepBacks
  /\ stepBacks' = stepBacks + 1
  /\ clock' \in 0 .. clock - 1
  /\ UNCHANGED <<rollbacks, marks, signal, account, txn, saved>>
-----------------------------------------------------------------------------
Init ==
  /\ clock = 0 /\ stepBacks = 0 /\ rollbacks = 0
  /\ marks = [m \in Marks |-> [created |-> None, eligible |-> FALSE]]
  /\ signal = [m \in Marks |-> [reason |-> "NONE", exitAt |-> None]]
  /\ activatedAt = None /\ processedAt = 0 /\ watermark = 0
  /\ settled = 0 /\ unsettled = 0
  /\ status = [m \in Marks |-> "NONE"]
  /\ detail = [m \in Marks |-> Fresh]
  /\ posted = [m \in Marks |-> NoEvents]
  /\ snapshot = [at |-> None, equity |-> None]
  /\ txn = Idle
  /\ saved = Working

ExitStep(m) ==
  \/ Settle(m) \/ GapAtEnd(m) \/ GapMissedWindow(m) \/ GapExitDeadline(m)
  \/ AwaitExitQuote(m) \/ FillExit(m) \/ Revalue(m) \/ LeaveAlone(m)

EntryStep(m) == SkipEntry(m) \/ FillEntry(m) \/ LeavePending(m)

Handler ==
  \/ \E m \in Marks : ExitStep(m) \/ EntryStep(m)
  \/ Discover \/ Commit

Next ==
  \/ Activate \/ Begin \/ Handler \/ Rollback
  \/ RecordMark \/ Tick \/ SetClockBack
  \/ \E m \in Marks : ResolveSignal(m) \/ DataGap(m)

Spec == Init /\ [][Next]_vars

\* The scheduler keeps starting scans, a started handler keeps running unless
\* the scan fails, and time passes.  Tick is strong because the model stops the
\* clock inside a handler, which a real clock does not.  Nothing is assumed of
\* the provider (no quote need ever arrive) nor of the signals.
Fairness == WF_vars(Activate) /\ WF_vars(Begin) /\ WF_vars(Handler) /\ SF_vars(Tick)
FairSpec == Spec /\ Fairness
-----------------------------------------------------------------------------
(* Invariants *)

DetailType ==
  [seen : Stamp, debit : Nat, quoteAt : Stamp, bid : Nat, sale : Nat,
   settles : Stamp]

EventType == [Kinds -> Stamp]
TxnType == [phase : Phase, next : Nat, cash : Int, held : Int]

AccountOK(a) ==
  /\ a.activatedAt \in Stamp /\ a.processedAt \in Nat /\ a.watermark \in Nat
  /\ a.settled \in Int /\ a.unsettled \in Int
  /\ a.status \in [Marks -> Status]
  /\ a.detail \in [Marks -> DetailType]
  /\ a.posted \in [Marks -> EventType]

\* The type invariant: the working copy, the committed copy and the inputs
\* have the types of forward_account's rows; sale proceeds are never negative.
TypeOK ==
  /\ clock \in Nat /\ stepBacks \in Nat /\ rollbacks \in Nat
  /\ marks \in [Marks -> [created : Stamp, eligible : BOOLEAN]]
  /\ signal \in [Marks -> [reason : {"NONE", "OPEN", "EXIT", "DATA_GAP"}, exitAt : Stamp]]
  /\ AccountOK(Working)
  /\ AccountOK(saved)
  /\ txn \in TxnType

\* The closing fee of every held position, unresolved ones included, stays in
\* settled cash, in every step of a handler and not only after it: whatever
\* order exits, settlements and entries come in, the account can pay its way
\* out without touching unsettled proceeds (debit+close_fee > settled-held*close_fee).
FeesReserved == activatedAt # None => settled >= CloseFee * Cardinality(Held)

\* At most max_positions are held, counting those stuck without a quote.
PositionLimit == Cardinality(Held) <= MaxPositions

\* The loop's running copies of the balance and of the position count, updated
\* by hand in advance_account, never drift from the ledger and the rows.
LoopTotalsAgree ==
  txn.phase = "entries" => txn.cash = settled /\ txn.held = Cardinality(Held)

\* No replay, restart or failed scan makes the handler insert an event key the
\* ledger already holds (the IntegrityError would fail this and every later scan).
NoDuplicateEvent == txn.phase # "failed"

Has(m, kind) == posted[m][kind] # None

\* The immutable events and the mutable projection tell the same story of each
\* position: its status is the one its set of event keys implies.
EventsExplainStatus ==
  \A m \in Marks :
    /\ Has(m, "ENTRY") <=> status[m] \in HELD \cup {"UNSETTLED", "CLOSED"}
    /\ Has(m, "SKIP") <=> status[m] = "SKIPPED"
    /\ Has(m, "QUOTE_GAP") <=> status[m] = "UNPRICED"
    /\ Has(m, "EXIT") <=> status[m] \in {"UNSETTLED", "CLOSED"}
    /\ Has(m, "SETTLEMENT") <=> status[m] = "CLOSED"

\* Every fill lies in its window: the entry within the deadline of its mark and
\* for a corrected-trial mark, the sale within the deadline of the first
\* request, before the session's end, and never on a candle that ended before
\* the entry: downtime is not backfilled.
FillsOnTime ==
  \A m \in Marks :
    /\ Has(m, "ENTRY") =>
         /\ marks[m].eligible
         /\ posted[m]["ENTRY"] - marks[m].created \in 0 .. EntryDeadline
    /\ Has(m, "EXIT") =>
         /\ posted[m]["EXIT"] - posted[m]["EXIT_REQUEST"] \in 0 .. ExitDeadline
         /\ posted[m]["EXIT"] < SessionEnd(marks[m].created)
         /\ posted[m]["ENTRY"] < signal[m].exitAt + 1

\* A mark recorded before the account existed is never imported, even when the
\* clock was set back while the account already ran, and a known mark is never
\* imported twice: above the watermark there is no position.
HistoryExcluded ==
  \A m \in Marks : status[m] # "NONE" =>
    m <= watermark /\ marks[m].created >= activatedAt

\* What the account owes and holds never exceeds what it has: fees, slots and the
\* totals the entry loop decides by.
WithinMeans == FeesReserved /\ PositionLimit /\ LoopTotalsAgree

\* The append-only ledger and the rows agree, no key is ever written twice, and
\* only marks of the account's own time have rows.
LedgerSound == EventsExplainStatus /\ NoDuplicateEvent /\ HistoryExcluded
-----------------------------------------------------------------------------
(* Action properties, most of them on what the database holds committed *)

\* No fill uses a quote received before the decision it answers, nor a stale
\* one: entries answer the scan that first saw the mark, exits the first scan
\* that saw the exit, across scans, restarts and clock corrections.
FillsUseLaterQuotes ==
  [][\A m \in Marks :
       LET filled(kind) == posted[m][kind] = None /\ posted'[m][kind] # None
           usable(asked) == /\ detail'[m].quoteAt >= asked + Latency
                            /\ detail'[m].quoteAt \in clock - QuoteAge .. clock
       IN  /\ filled("ENTRY") => usable(detail[m].seen)
           /\ filled("EXIT") => usable(posted[m]["EXIT_REQUEST"])]_vars

\* A committed scan never acts in the past: processed_at does not decrease and
\* all events of one commit carry its processed_at, although the host's clock
\* may be set back between scans.
NoRetroactiveEvents ==
  [][/\ saved'.processedAt >= saved.processedAt
     /\ \A m \in Marks, k \in Kinds :
          saved'.posted[m][k] # saved.posted[m][k] =>
            /\ saved.posted[m][k] = None
            /\ saved'.posted[m][k] = saved'.processedAt]_saved

\* Nothing leaves a final status: a skipped mark is not retried, a quote gap is
\* never repaired by a later quote, a closed position is never sold again.
FinalStatus ==
  [][\A m \in Marks : saved.status[m] \in {"UNPRICED", "CLOSED", "SKIPPED"} =>
       /\ saved'.status[m] = saved.status[m]
       /\ saved'.detail[m] = saved.detail[m]]_saved

\* Every fill, in whatever order scans, failures and clock corrections come, lies
\* in its window and uses a quote received after the decision it answers.
FillsInTime == []FillsOnTime /\ FillsUseLaterQuotes

\* Neither a replay nor a clock set back rewrites what was committed.
NothingRewritten == NoRetroactiveEvents /\ FinalStatus

\* A new equity observation is a number only if no held position is unresolved
\* and every open one carries a mark no older than the quote age.
HonestEquity ==
  [][saved'.snapshot # saved.snapshot /\ saved'.snapshot.equity # None =>
       \A m \in Marks :
         /\ saved'.status[m] # "UNPRICED"
         /\ saved'.status[m] = "OPEN" =>
              saved'.detail[m].quoteAt >= saved'.processedAt - QuoteAge]_saved
-----------------------------------------------------------------------------
(* Liveness *)

\* Every imported mark is decided: filled or skipped, never pending for good,
\* even if no quote arrives and scans fail.
EntriesDecided ==
  \A m \in Marks : saved.status[m] = "PENDING_ENTRY" ~> saved.status[m] # "PENDING_ENTRY"

\* No position stays open for good: it is sold or declared a quote gap.
ExitsDecided == \A m \in Marks : saved.status[m] = "OPEN" ~> saved.status[m] # "OPEN"

\* Proceeds with a settlement date become settled cash.
ProceedsSettle ==
  \A m \in Marks :
    saved.status[m] = "UNSETTLED" /\ saved.detail[m].settles # None
      ~> saved.status[m] = "CLOSED"

\* Entries, positions and proceeds all come to an end under a running scheduler.
EverythingEnds == EntriesDecided /\ ExitsDecided /\ ProceedsSettle
=============================================================================
