----------------------------- MODULE RetestTrial -----------------------------
(***************************************************************************)
(* The paired breakout-retest trial: services/retest_trials.py with the    *)
(* entry timing of services/retest_research.py, the session limits of      *)
(* research_session_policy.py and retest_maintenance.py.                   *)
(*                                                                         *)
(* A BUY found by a scan is frozen as an opportunity.  The control arm     *)
(* asks for a later quote at once, the treatment arm waits for a retest of *)
(* the breakout.  Each arm trades it in independent accounts, one for each *)
(* cost scenario, and follows it without money as an opportunity.          *)
(*                                                                         *)
(* One call of process is one action: it is one savepoint, and a call that *)
(* fails leaves nothing behind.  Nothing happens between two calls but     *)
(* that candles complete; the clock is that of the latest call.            *)
(***************************************************************************)
EXTENDS Totals

CONSTANTS
  Opps,        \* candidates that may become a BUY, in rank order: 1..n
  Setups,      \* what their tickers and modes may be
  Costs,       \* cost scenario -> premium slippage
  StartingCash, MaxPositions, MaxEntry, OpenFee, CloseFee, MaxSpread,
  MinuteTicks, DayMinutes, Opening, Cutoff, Closing,   \* minutes of a day
  EntryDeadline, ExitDeadline, Latency, QuoteAge,      \* in ticks
  RetestBars,  \* completed bars that may retest a breakout
  Moves,       \* what a completed minute may be for the opportunities
  Markets,     \* what the cached chains may say: a quote or NoQuote each
  Ages, Lags,  \* ticks since a quote, minutes since a scan's candle
  Finds,       \* what one scan may find
  Breakable,   \* opportunities whose evidence may be incomplete
  ScanGaps, StartGaps, \* bounds of the exploration: ticks between calls,
  Activated,   \* when the accounts were funded
  LastBuyAt, LastDriftAt, MaxClock \* the last find, drift or resumption, and call

ARMS == {"control", "treatment"}
HELD == {"OPEN", "EXIT_PENDING", "UNPRICED"}
Pending == {"WAIT_RETEST", "PENDING_ENTRY"}
Scenarios == DOMAIN Costs \cup {"opportunity"}
Accounts == ARMS \X Scenarios
None == -1
NoQuote == [bid |-> 0, ask |-> 0, band |-> FALSE]
Bars == {"quiet", "retest", "stop", "target", "bad"}

ASSUME RetestAssumption ==
  /\ IsFiniteSet(Opps) /\ Opps = 1..Cardinality(Opps)
  /\ Setups \subseteq [Opps -> [ticker : STRING, mode : {"ONE_MIN_0DTE", "STRUCTURED_INTRADAY"}]]
  /\ DOMAIN Costs \subseteq STRING \ {"opportunity"} /\ \A s \in DOMAIN Costs : Costs[s] \in Nat
  /\ {StartingCash, MaxPositions, MaxEntry, OpenFee, CloseFee, MaxSpread, EntryDeadline,
      ExitDeadline, QuoteAge, Opening, Cutoff, Closing, Activated, LastBuyAt, LastDriftAt,
      MaxClock} \subseteq Nat
  /\ {MinuteTicks, DayMinutes, Latency, RetestBars} \subseteq Nat \ {0}
  /\ 0 < Opening /\ Opening < Cutoff /\ Cutoff <= Closing /\ Closing < DayMinutes
  /\ Moves \subseteq [Opps -> Bars]
  /\ Markets \subseteq [Opps -> [bid : Nat, ask : Nat, band : BOOLEAN]]
  /\ Ages \subseteq Nat /\ Lags \subseteq Nat /\ 0 \in Lags
  /\ Finds \subseteq SUBSET Opps /\ Breakable \subseteq Opps /\ ScanGaps \cup StartGaps \subseteq Nat \ {0}

VARIABLES
  processed, \* RetestRun.processed_at
  observed,  \* minutes with a RetestObservation, of those a scan may still be about
  blocked,   \* the code or settings differ from the reviewed ones
  setup,     \* ticker and mode of each candidate
  bars,      \* the candles published so far: minute -> move
  found,     \* the RetestOpportunity of each candidate, if it has one
  path,      \* an opportunity's outcome on the underlying, and its cursor
  account    \* RetestAccount with its RetestPositions and the sums of its events

vars == <<processed, observed, blocked, setup, bars, found, path, account>>

Minute(t) == t \div MinuteTicks
Start(m)  == m * MinuteTicks
DayOf(m)  == m \div DayMinutes
OfDay(m, t) == DayOf(Minute(t)) * DayMinutes + m
InSession(t) == Start(OfDay(Opening, t)) <= t /\ t < Start(OfDay(Closing, t))
SettlementAt(t) == Start(OfDay(DayMinutes + Opening, t))

NoRow == [at |-> None, minute |-> None, selected |-> FALSE, valid |-> FALSE]
Found == {o \in Opps : found[o] # NoRow}
Retests(arm, o) == arm = "treatment" /\ setup[o].mode = "ONE_MIN_0DTE"
-----------------------------------------------------------------------------
(* The underlying's evidence: completed bars, in their order *)

\* A call sees the clock, the bars and the chains of its provider, if it has one.
Known(see, m, o) == IF m \in DOMAIN see.bars THEN see.bars[m][o] ELSE "missing"

\* Minutes completed at now and not yet seen.
Window(cursor, now) == (cursor + 1)..(Minute(now) - 1)
Invalid(see, o, cursor) == \E m \in Window(cursor, see.now) : Known(see, m, o) = "bad"
Earliest(S) == CHOOSE m \in S : \A n \in S : m <= n

Verdict(see, m, o) ==
  IF m >= OfDay(Closing, Start(m)) \/ Known(see, m, o) = "missing" THEN "DATA_GAP"
  ELSE IF Known(see, m, o) = "stop" THEN "STOP"
  ELSE IF Known(see, m, o) = "target" THEN "TARGET"
  ELSE IF m >= OfDay(Cutoff, Start(m)) THEN "TIMED_EXIT" ELSE "NONE"

NeverAmbiguous(m, entry) == FALSE
\* The bar was not over at the entry: what it touched may predate the fill.
Ambiguous(m, entry) == entry # None /\ Start(m) < entry

\* _bar_exit: the first bar that ends an exposure, and how far bars were seen.
BarExit(see, o, cursor, entry) ==
  LET ends == {m \in Window(cursor, see.now) : Verdict(see, m, o) # "NONE"}
      m == Earliest(ends)
      Ends(reason, end, seen) == [reason |-> reason, end |-> end, cursor |-> seen]
  IN IF Invalid(see, o, cursor) THEN Ends("DATA_GAP", None, cursor)
     ELSE IF ends = {} THEN Ends("NONE", None, IF Window(cursor, see.now) = {} THEN cursor
                                               ELSE Minute(see.now) - 1)
     ELSE IF Verdict(see, m, o) = "DATA_GAP" THEN Ends("DATA_GAP", None, m - 1)
     ELSE IF Ambiguous(m, entry) THEN Ends("AMBIGUOUS_ENTRY_BAR", None, m)
     ELSE Ends(Verdict(see, m, o), Start(m + 1), m)
-----------------------------------------------------------------------------
(* An account *)

NoPos == [status |-> "NONE", cursor |-> None, requested |-> None, entry |-> None,
          entryQuote |-> None, debit |-> 0, asked |-> None, end |-> None, exit |-> None,
          exitQuote |-> None, sale |-> 0, due |-> None]

Debit(a, q) == q.ask + Costs[a[2]] + OpenFee
UnclampedSale(a, q) == q.bid - Costs[a[2]]
Sale(a, q) == IF q.bid > Costs[a[2]] THEN q.bid - Costs[a[2]] ELSE 0
HeldIn(pos) == {u \in Opps : pos[u].status \in HELD}

\* _capacity; an opportunity is not a cash account.
Capacity(a, book, o, q) ==
  \/ a[2] = "opportunity"
  \/ LET others == Cardinality(HeldIn(book.pos) \ {o}) IN
     /\ others < MaxPositions
     /\ q # NoQuote => /\ Debit(a, q) + CloseFee <= MaxEntry
                       /\ Debit(a, q) + CloseFee <= book.settled - others * CloseFee

\* _verified: received and quoted no earlier than asked, and still fresh.
Verified(see, o, earliest) ==
  /\ see.market[o] # NoQuote /\ see.now - see.age >= earliest /\ see.age <= QuoteAge

Tight(q) == q.bid > 0 /\ 100 * (q.ask - q.bid) <= MaxSpread * q.ask

Skipped(p) == [p EXCEPT !.status = "SKIPPED"]
Unknown(p) == [p EXCEPT !.status = "UNPRICED"]

\* The treatment's wait, advance of retest_research: the first bar that is not
\* quiet decides; only a retest observed in the minute after it asks for a quote.
LateRetest(see, m) == TRUE
Observed(see, m) == m = Minute(see.now) - 1

Retested(see, a, o, book, p) ==
  LET q      == see.market[o]
      limit  == found[o].minute + RetestBars
      events == {m \in Window(p.cursor, see.now) : m > limit \/ Known(see, m, o) # "quiet"}
      m      == Earliest(events)
      latest == IF Window(p.cursor, see.now) = {} THEN p.cursor ELSE Minute(see.now) - 1
  IN IF Invalid(see, o, p.cursor) THEN Skipped(p)
     ELSE IF events = {}
     THEN IF latest >= limit THEN Skipped(p) ELSE [p EXCEPT !.cursor = latest]
     ELSE IF /\ m <= limit /\ Known(see, m, o) = "retest" /\ Observed(see, m)
             /\ Verified(see, o, see.now - QuoteAge) /\ q.band /\ Capacity(a, book, o, q)
     THEN [p EXCEPT !.status = "PENDING_ENTRY", !.requested = see.now, !.cursor = m]
     ELSE Skipped(p)

Opened(see, a, o, p) ==
  [p EXCEPT !.status = "OPEN", !.entry = see.now, !.entryQuote = see.now - see.age,
            !.debit = IF a[2] = "opportunity" THEN 0 ELSE Debit(a, see.market[o]),
            !.cursor = Minute(see.now) - 1]

\* A requested entry: no bar may spoil it before a later quote answers it.
Answered(see, a, o, book, p) ==
  LET q    == see.market[o]
      seen == BarExit(see, o, p.cursor, None)
  IN IF \/ seen.reason # "NONE" \/ see.now > p.requested + EntryDeadline
        \/ Retests(a[1], o) /\ ~Capacity(a, book, o, q)
     THEN Skipped(p)
     ELSE IF ~Verified(see, o, p.requested + Latency) THEN [p EXCEPT !.cursor = seen.cursor]
     ELSE IF (Retests(a[1], o) => q.band) /\ Tight(q) /\ Capacity(a, book, o, q)
     THEN Opened(see, a, o, p)
     ELSE Skipped(p)

\* A bar asks for the exit of an open position.
Watched(see, o, p) ==
  LET seen == BarExit(see, o, p.cursor, p.entry) IN
  IF seen.reason = "NONE" THEN [p EXCEPT !.cursor = seen.cursor]
  ELSE IF seen.end = None \/ see.now > seen.end + ExitDeadline THEN Unknown(p)
  ELSE [p EXCEPT !.status = "EXIT_PENDING", !.asked = see.now, !.end = seen.end,
                 !.cursor = seen.cursor]

Exited(see, a, o, p) ==
  IF see.now > p.asked + ExitDeadline THEN Unknown(p)
  ELSE IF ~Verified(see, o, p.asked + Latency) THEN p
  ELSE [p EXCEPT !.status = "UNSETTLED", !.exit = see.now, !.exitQuote = see.now - see.age,
                 !.sale = IF a[2] = "opportunity" THEN 0 ELSE Sale(a, see.market[o]),
                 !.due = SettlementAt(see.now)]

\* The session of the opportunity is over for the position.
Ended(see, o, p) ==
  LET at == found[o].at IN
  \/ see.now >= Start(OfDay(Closing, at))
  \/ p.status \in Pending /\ see.now >= Start(OfDay(Cutoff, at))

\* _advance_position
Advance(see, a, o, book, p) ==
  LET live == ~Ended(see, o, p) /\ see.live IN
  CASE p.status = "UNSETTLED" /\ see.now >= p.due          -> [p EXCEPT !.status = "CLOSED"]
    [] p.status \in Pending /\ see.blocked                 -> Skipped(p)
    [] p.status \in Pending /\ ~see.blocked /\ Ended(see, o, p) -> Skipped(p)
    [] p.status \in {"OPEN", "EXIT_PENDING"} /\ Ended(see, o, p) -> Unknown(p)
    [] p.status = "WAIT_RETEST" /\ ~see.blocked /\ live    -> Retested(see, a, o, book, p)
    [] p.status = "PENDING_ENTRY" /\ ~see.blocked /\ live  -> Answered(see, a, o, book, p)
    [] p.status = "OPEN" /\ live                           -> Watched(see, o, p)
    [] p.status = "EXIT_PENDING" /\ live                   -> Exited(see, a, o, p)
    [] OTHER -> p

\* The events a change of status writes for a cash account.
Booked(book, a, o, p) ==
  LET was == book.pos[o].status
      fee == IF a[2] = "opportunity" THEN 0 ELSE CloseFee
      settled == CASE was # "OPEN" /\ p.status = "OPEN" -> -p.debit
                   [] was = "EXIT_PENDING" /\ p.status = "UNSETTLED" -> -fee
                   [] was = "UNSETTLED" /\ p.status = "CLOSED" -> p.sale
                   [] OTHER -> 0
      sold == was = "EXIT_PENDING" /\ p.status = "UNSETTLED"
  IN [pos |-> [book.pos EXCEPT ![o] = p], settled |-> book.settled + settled,
      unsettled |-> book.unsettled + (IF sold THEN p.sale
                                      ELSE IF was = "UNSETTLED" THEN -settled ELSE 0),
      realized |-> book.realized + (IF sold THEN p.sale - fee - p.debit ELSE 0)]

\* Rows are read in the order of their ids: of their call, then of their rank.
Before(o, u) == found[o].at < found[u].at \/ (found[o].at = found[u].at /\ o < u)
Last(S) == CHOOSE o \in S : \A u \in S : ~Before(o, u)

InTurn(see, a, book, S) ==
  LET after[T \in SUBSET S] ==
        IF T = {} THEN book
        ELSE LET o == Last(T)
                 b == after[T \ {o}]
             IN Booked(b, a, o, Advance(see, a, o, b, b.pos[o]))
  IN after[S]

\* Exits and settlements first, then entries.
Advanced(see, a, book) ==
  LET entries == {o \in Found : book.pos[o].status \in Pending}
  IN InTurn(see, a, InTurn(see, a, book, Found \ entries), entries)
-----------------------------------------------------------------------------
(* _discover *)

FoundToday(now) == {u \in Found : DayOf(found[u].minute) = DayOf(Minute(now))}
\* A ticker and strategy are frozen once a day.
New(now, buys) ==
  {o \in buys \ Found : ~\E u \in FoundToday(now) \cup {v \in buys : v < o} : setup[u] = setup[o]}

AlwaysSelected(now, new, o) == TRUE
\* The first qualified BUY of a ticker and day, whichever strategy found it.
Selected(now, new, o) ==
  ~\E u \in FoundToday(now) \cup {v \in new : v < o} : setup[u].ticker = setup[o].ticker

\* _freeze fails on missing evidence and from the entry cutoff on.
Frozen(now, new, broken) ==
  [o \in Opps |->
     IF o \in new
     THEN [at |-> now, minute |-> Minute(now) - 1, selected |-> Selected(now, new, o),
           valid |-> o \notin broken /\ now < Start(OfDay(Cutoff, now))]
     ELSE found[o]]

Decided(a, o, row) ==
  LET p == [NoPos EXCEPT !.cursor = row.minute] IN
  IF a[2] = "opportunity" /\ setup[o].mode # "ONE_MIN_0DTE" THEN NoPos
  ELSE IF ~row.valid \/ (~row.selected /\ a[2] # "opportunity") THEN Skipped(p)
  ELSE IF Retests(a[1], o) THEN [p EXCEPT !.status = "WAIT_RETEST"]
  ELSE [p EXCEPT !.status = "PENDING_ENTRY", !.requested = row.at]

WithNew(a, book, new, rows) ==
  [book EXCEPT !.pos = [o \in Opps |-> IF o \in new THEN Decided(a, o, rows[o]) ELSE book.pos[o]]]

NoPath == [cursor |-> None, outcome |-> "NONE"]

\* The opportunity's path on the underlying, whatever became of its positions.
Followed(see, rows) ==
  [o \in Opps |->
     LET p == IF path[o] # NoPath THEN path[o] ELSE [cursor |-> rows[o].minute, outcome |-> "NONE"]
         seen == BarExit(see, o, p.cursor, None)
     IN IF ~rows[o].valid \/ setup[o].mode # "ONE_MIN_0DTE" \/ p.outcome # "NONE"
        THEN path[o]
        ELSE [cursor |-> seen.cursor, outcome |-> seen.reason]]
-----------------------------------------------------------------------------
(* process *)

\* evaluation: the completed minute a scan is about, None at a restart in a session.
Process(see, evaluation, buys, broken) ==
  LET admits == /\ ~see.blocked /\ evaluation # None /\ evaluation = Minute(see.now) - 1
                /\ Start(evaluation) >= Activated /\ InSession(see.now)
      new == IF admits THEN New(see.now, buys) ELSE {}
      rows == Frozen(see.now, new, broken)
      minute == IF evaluation # None THEN evaluation ELSE Minute(see.now) - 1
  IN /\ see.now > processed /\ evaluation \notin observed
     /\ processed' = see.now
     /\ found' = rows
     /\ account' = [a \in Accounts |-> WithNew(a, Advanced(see, a, account[a]), new, rows)]
     /\ IF see.live \/ ~InSession(see.now)
        THEN /\ path' = Followed(see, rows)
             /\ observed' = {m \in observed \cup {minute} :
                              \E lag \in Lags : m >= Minute(see.now) - 1 - lag}
        ELSE UNCHANGED <<path, observed>>

Settling == {"NONE", "SKIPPED", "UNPRICED", "CLOSED", "UNSETTLED"}
\* A bar matters to a position or to an opportunity's path.
Matters == \E o \in Found :
             \/ found[o].valid /\ setup[o].mode = "ONE_MIN_0DTE" /\ path[o].outcome = "NONE"
             \/ \E a \in Accounts : account[a].pos[o].status \in Pending \cup {"OPEN"}
Unpublished(now) ==
  {m \in 0..(Minute(now) - 1) : /\ Matters /\ \E o \in Found : found[o].minute < m
                                /\ m \notin DOMAIN bars /\ InSession(Start(m))}

\* A scan's call, on a completed minute of a session.
Scan(now, lag, market, age, buys, broken) ==
  /\ InSession(Start(Minute(now) - 1 - lag)) /\ (buys # {} => now <= LastBuyAt)
  /\ \E new \in SUBSET Unpublished(now) : \E moves \in [new -> Moves] :
       bars' = [m \in DOMAIN bars \cup new |-> IF m \in new THEN moves[m] ELSE bars[m]]
  /\ Process([now |-> now, live |-> TRUE, blocked |-> blocked, bars |-> bars',
              market |-> market, age |-> age], Minute(now) - 1 - lag, buys, broken)
  /\ UNCHANGED <<blocked, setup>>

\* reconcile_runtime_on_startup, at a restart or at the close: no provider yet.
Startup(now) ==
  /\ Process([now |-> now, live |-> FALSE, blocked |-> blocked, bars |-> <<>>,
              market |-> [o \in Opps |-> NoQuote], age |-> 0],
             IF InSession(now) THEN None ELSE Minute(now) - 1, {}, {})
  /\ UNCHANGED <<blocked, setup, bars>>

\* A deployment changes the code hash or the settings.
Drift ==
  /\ ~blocked /\ blocked' = TRUE /\ processed <= LastDriftAt
  /\ UNCHANGED <<processed, observed, setup, bars, found, path, account>>

\* resume_existing, by an operator once a call has seen the session over.
Resume ==
  /\ blocked /\ blocked' = FALSE /\ processed <= LastDriftAt
  /\ ~InSession(processed)
  /\ UNCHANGED <<processed, observed, setup, bars, found, path, account>>
-----------------------------------------------------------------------------
\* activate funds the accounts, outside the session.
Init ==
  /\ ~InSession(Activated) /\ processed = Activated /\ observed = {} /\ blocked = FALSE
  /\ setup \in Setups
  /\ bars = <<>> /\ found = [o \in Opps |-> NoRow] /\ path = [o \in Opps |-> NoPath]
  /\ account = [a \in Accounts |->
       [pos |-> [o \in Opps |-> NoPos], unsettled |-> 0, realized |-> 0,
        settled |-> IF a[2] = "opportunity" THEN 0 ELSE StartingCash]]

Next ==
  \/ \E gap \in StartGaps : processed + gap <= MaxClock /\ Startup(processed + gap)
  \/ \E gap \in ScanGaps, lag \in Lags, market \in Markets, age \in Ages,
        buys \in Finds : \E broken \in SUBSET (buys \cap Breakable) :
       /\ processed + gap <= MaxClock
       /\ Scan(processed + gap, lag, market, age, buys, broken)
  \/ Drift
  \/ Resume

Spec == Init /\ [][Next]_vars
-----------------------------------------------------------------------------
(* Properties *)

Rows == [at : Int, minute : Int, selected : BOOLEAN, valid : BOOLEAN]
Positions == [status : Pending \cup HELD \cup Settling, debit : Nat, sale : Nat,
              cursor : Int, requested : Int, entry : Int, entryQuote : Int, asked : Int,
              end : Int, exit : Int, exitQuote : Int, due : Int]

\* The type invariant.
TypeOK ==
  /\ processed \in Nat /\ observed \subseteq Int /\ blocked \in BOOLEAN /\ setup \in Setups
  /\ DOMAIN bars \subseteq Nat /\ \A m \in DOMAIN bars : bars[m] \in Moves
  /\ found \in [Opps -> Rows]
  /\ path \in [Opps -> [cursor : Int, outcome : {"NONE", "DATA_GAP", "STOP", "TARGET", "TIMED_EXIT"}]]
  /\ account \in [Accounts -> [pos : [Opps -> Positions], settled : Int, unsettled : Int,
                               realized : Int]]

Harmless(o, from, to) ==
  \A m \in from..to : m \in DOMAIN bars /\ bars[m][o] \in {"quiet", "retest"}

\* The treatment asks for an entry in the minute after the first retest, among the
\* bars that may retest, and the control at once.  A position opens on a quote that is
\* later than the request and still fresh, within the deadline and before the cutoff,
\* and only when every bar since the breakout is known and touched neither level.
EntriesEarned ==
  \A a \in Accounts, o \in Opps :
    LET p == account[a].pos[o]
        row == found[o]
        retest == Minute(p.requested) - 1
    IN /\ p.requested # None =>
            /\ row.valid /\ (row.selected \/ a[2] = "opportunity")
            /\ IF Retests(a[1], o)
               THEN /\ retest \in (row.minute + 1)..(row.minute + RetestBars)
                    /\ Harmless(o, row.minute + 1, retest) /\ bars[retest][o] = "retest"
                    /\ \A m \in (row.minute + 1)..(retest - 1) : bars[m][o] = "quiet"
               ELSE p.requested = row.at
       /\ p.entry # None =>
            /\ p.requested < p.entryQuote /\ p.entryQuote \in (p.entry - QuoteAge)..p.entry
            /\ p.entry <= p.requested + EntryDeadline
            /\ p.entry < Start(OfDay(Cutoff, row.at))
            /\ Harmless(o, row.minute + 1, Minute(p.entry) - 1)

\* An exit is proven: it follows the first bar that ends the exposure, a whole bar
\* after the entry with no gap before it; it is asked for and priced in time, on a
\* quote later than the request.  What cannot be proven gets no price.
ExitsProven ==
  \A a \in Accounts, o \in Opps :
    LET p == account[a].pos[o]
        bar == p.end \div MinuteTicks - 1
    IN /\ p.asked # None =>
            /\ p.entry <= Start(bar) /\ p.asked \in p.end..(p.end + ExitDeadline)
            /\ bar \in DOMAIN bars
            /\ bars[bar][o] \in {"stop", "target"} \/ bar >= OfDay(Cutoff, Start(bar))
            /\ Harmless(o, Minute(p.entry), bar - 1)
       /\ p.exit # None =>
            /\ p.asked < p.exitQuote /\ p.exitQuote \in (p.exit - QuoteAge)..p.exit
            /\ p.exit <= p.asked + ExitDeadline
            /\ p.exit < Start(OfDay(Closing, found[o].at))
       /\ p.status \in {"UNSETTLED", "CLOSED"} <=> p.exit # None
       /\ p.status \in {"OPEN", "EXIT_PENDING"} => processed < Start(OfDay(Closing, p.entry))

SameIdea(o, u) ==
  setup[o].ticker = setup[u].ticker /\ DayOf(found[o].minute) = DayOf(found[u].minute)

\* The arms stay comparable: both decide about every opportunity, one opportunity of a
\* ticker and day is selected for both, and each account keeps its slots, the fees of
\* closing what it holds, and its cash: money is in a result, a position or on its way.
ArmsComparable ==
  /\ \A o, u \in Found :
       /\ \E v \in Found : SameIdea(o, v) /\ found[v].selected
       /\ (o # u /\ found[o].selected /\ found[u].selected) => ~SameIdea(o, u)
  /\ \A s \in Scenarios, o \in Opps :
       (account[<<"control", s>>].pos[o] = NoPos) = (account[<<"treatment", s>>].pos[o] = NoPos)
  /\ \A a \in ARMS \X DOMAIN Costs :
       LET book == account[a]
           held == HeldIn(book.pos)
       IN /\ Cardinality(held) <= MaxPositions
          /\ book.settled >= CloseFee * Cardinality(held)
          /\ book.settled + book.unsettled + Total([o \in Opps |-> book.pos[o].debit], held)
               = StartingCash + book.realized
          /\ book.unsettled = Total([o \in Opps |-> book.pos[o].sale],
                                {o \in Opps : book.pos[o].status = "UNSETTLED"})
=============================================================================
