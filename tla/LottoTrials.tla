----------------------------- MODULE LottoTrials -----------------------------
(***************************************************************************)
(* The lottery contracts found by the scans (services/lottery_tracker.py)  *)
(* and the paper accounts that buy them (services/lotto_trials.py).        *)
(*                                                                         *)
(* Accounts form groups that enter together and exit by a rule each: a     *)
(* CALL or PUT pair, a shared account alone, a multi-position account      *)
(* alone.  Groups share nothing but the trackers, so one group is          *)
(* modelled; its policy is chosen initially among Policies.                *)
(*                                                                         *)
(* A scan tracks and advances in one transaction, housekeeping advances    *)
(* and closes in another; either may fail and leave no trace.  The tick    *)
(* stands for a minute.                                                    *)
(***************************************************************************)
EXTENDS Totals

CONSTANTS
  Policies,     \* what a group may be
  Trackers,     \* contracts that may qualify, most preferred first: 1..n
  Symbol,       \* tracker -> its ticker
  Markets,      \* what the chains may say of the contracts: a quote or NoQuote each
  EntryFee, ExitFee, Slippage,
  QuoteAge, EntryDeadline, ExitDeadline, EntryLead, ExitLead,  \* in ticks
  MaxSpread,    \* percent of the ask
  DayTicks, SessionTicks,
  Lags, Ages,   \* how old a scan's candle, and a received quote, may be
  Activated, LastScanAt, MaxClock   \* bounds of the exploration

None == -1
NoQuote == [bid |-> 0, ask |-> 0]
Rules == {"fixed5", "trail40"}

ASSUME LottoAssumption ==
  /\ Policies \subseteq [rules : (SUBSET Rules) \ {{}}, slots : Nat \ {0}, multi : BOOLEAN,
                         dailyCap : Nat \cup {None}, premiumCap : Nat, cash : Nat]
  /\ \A p \in Policies : p.multi \/ p.slots = 1
  /\ IsFiniteSet(Trackers) /\ Trackers = 1..Cardinality(Trackers)
  /\ Markets \subseteq [Trackers -> [bid : Nat, ask : Nat]]
  /\ {EntryFee, ExitFee, Slippage, QuoteAge, EntryDeadline, ExitDeadline,
      EntryLead, ExitLead, MaxSpread, Activated, LastScanAt, MaxClock} \subseteq Nat
  /\ DayTicks \in Nat \ {0} /\ SessionTicks \in 1..DayTicks
  /\ Lags \subseteq Nat /\ Ages \subseteq Nat
\* Entries stop before the exits begin, and no entry outlives the night.
ASSUME TimesAssumption ==
  ExitLead <= EntryLead /\ EntryDeadline <= EntryLead + DayTicks - SessionTicks

VARIABLES
  clock,
  policy,    \* of the group
  multi,     \* whether the multi-position trials are active
  evaluated, \* ScannerRuntime: the minute of the newest scan
  tracker,   \* LotteryTracker and its newest quote, per contract
  pos,       \* LottoTrialPosition, per account and tracker
  cash,      \* sums of the LottoTrialEvents of an account
  processed  \* when the accounts were last advanced

vars == <<clock, policy, multi, evaluated, tracker, pos, cash, processed>>

DayOf(t)    == t \div DayTicks
Close(day)  == day * DayTicks + SessionTicks
InSession(t) == t - DayOf(t) * DayTicks < SessionTicks
Today       == DayOf(clock)

Untracked == [status |-> "NONE", first |-> None, saved |-> FALSE,
              at |-> None, bid |-> 0, ask |-> 1]
NoPos == [status |-> "NONE", decided |-> None, entry |-> None, entryQuote |-> None,
          premium |-> 0, debit |-> 0, peak |-> 0, armed |-> FALSE, asked |-> None,
          exit |-> None, exitQuote |-> None, sale |-> 0, due |-> None]
Held == {"OPEN", "UNPRICED"}
Occupied == Held \cup {"PENDING_ENTRY"}
-----------------------------------------------------------------------------
(* lottery_tracker.py *)

Closed(trackers, now) ==
  [t \in Trackers |->
     IF trackers[t].status = "ACTIVE" /\ now >= Close(DayOf(trackers[t].first))
     THEN [trackers[t] EXCEPT !.status = "CLOSED"] ELSE trackers[t]]

NewTracker(observed) == [Untracked EXCEPT !.status = "ACTIVE", !.first = observed]

\* One saved quote per tracker and minute; saved: there is one of the minute evaluated.
Recorded(row, quote, age) ==
  IF row.saved THEN row
  ELSE [row EXCEPT !.saved = TRUE, !.at = clock - age, !.bid = quote.bid, !.ask = quote.ask]

\* found: the contracts that enter the shortlist.
Tracked(observed, found, market, age) ==
  LET closed == Closed(tracker, observed) IN
  [t \in Trackers |->
     LET row == IF closed[t].status = "NONE" /\ t \in found THEN NewTracker(observed)
                ELSE [closed[t] EXCEPT !.saved = @ /\ observed = evaluated] IN
     IF row.status = "ACTIVE" /\ DayOf(row.first) = DayOf(observed) /\ market[t] # NoQuote
     THEN Recorded(row, market[t], age) ELSE row]
-----------------------------------------------------------------------------
(* _advance_exits *)

AnyPoint(row, after) == row.at # None
\* fresh_point: the newest quote, if no stamp of it is a minute old or before after.
FreshPoint(row, after) ==
  row.at # None /\ clock - row.at \in 0..QuoteAge /\ row.at >= after

MaxOf(a, b) == IF a > b THEN a ELSE b
SettlementAt(now) == (DayOf(now) + 1) * DayTicks

SoldBelowCost(p, row) ==
  [p EXCEPT !.status = "UNSETTLED", !.exit = clock, !.exitQuote = row.at,
            !.sale = row.bid - Slippage, !.due = SettlementAt(clock)]
Sold(p, row) ==
  [p EXCEPT !.status = "UNSETTLED", !.exit = clock, !.exitQuote = row.at,
            !.sale = MaxOf(0, row.bid - Slippage), !.due = SettlementAt(clock)]

\* A trigger is a decision; the sale waits for a later quote.
Watched(rule, p, row) ==
  LET fresh == FreshPoint(row, p.entry)
      peak  == IF fresh THEN MaxOf(p.peak, row.bid) ELSE p.peak
      armed == p.armed \/ (rule = "trail40" /\ fresh /\ peak >= 2 * p.premium)
      hit   == fresh /\ \/ rule = "fixed5" /\ row.bid >= 5 * p.premium
                        \/ armed /\ 10 * row.bid <= 6 * peak
  IN [p EXCEPT !.peak = peak, !.armed = armed,
               !.asked = IF hit \/ clock >= Close(DayOf(p.entry)) - ExitLead
                         THEN clock ELSE None]

InMarket(p) == p.status = "OPEN"

\* No quote may end it any more: its outcome stays unknown.
Overdue(p) ==
  clock >= Close(DayOf(p.entry)) \/ (p.asked # None /\ clock > p.asked + ExitDeadline)

PricedLate(rule, p, row) ==
  IF p.status \in Held /\ p.asked # None /\ FreshPoint(row, p.asked + 1) THEN Sold(p, row)
  ELSE IF InMarket(p) /\ Overdue(p) THEN [p EXCEPT !.status = "UNPRICED"]
  ELSE IF InMarket(p) /\ p.asked = None THEN Watched(rule, p, row) ELSE p
Exit(rule, p, row) ==
  CASE p.status = "UNSETTLED" /\ clock >= p.due -> [p EXCEPT !.status = "CLOSED"]
    [] InMarket(p) /\ Overdue(p)                 -> [p EXCEPT !.status = "UNPRICED"]
    [] InMarket(p) /\ ~Overdue(p) /\ p.asked = None -> Watched(rule, p, row)
    [] InMarket(p) /\ ~Overdue(p) /\ p.asked # None
         /\ FreshPoint(row, p.asked + 1)          -> Sold(p, row)
    [] OTHER -> p

\* The events a change of status writes.
Settled(p, q) ==
  CASE p.status = "OPEN" /\ q.status = "UNSETTLED"  -> -ExitFee
    [] p.status = "UNSETTLED" /\ q.status = "CLOSED" -> q.sale
    [] p.status = "PENDING_ENTRY" /\ q.status = "OPEN" -> -q.debit
    [] OTHER -> 0
Unsettled(p, q) ==
  CASE p.status = "OPEN" /\ q.status = "UNSETTLED"  -> q.sale
    [] p.status = "UNSETTLED" /\ q.status = "CLOSED" -> -q.sale
    [] OTHER -> 0
Realized(p, q) ==
  IF p.status = "OPEN" /\ q.status = "UNSETTLED" THEN q.sale - ExitFee - q.debit ELSE 0

\* A book is the positions and the balances of the accounts of the group.  When
\* its rows change, they write their events.
Posted(book, rows) ==
  LET Sum(r, E(_, _)) == Total([t \in Trackers |-> E(book.pos[r][t], rows[r][t])], Trackers) IN
  [pos  |-> rows,
   cash |-> [r \in policy.rules |->
               [settled   |-> book.cash[r].settled + Sum(r, Settled),
                unsettled |-> book.cash[r].unsettled + Sum(r, Unsettled),
                realized  |-> book.cash[r].realized + Sum(r, Realized)]]]

AfterExits(book, trackers) ==
  Posted(book, [r \in policy.rules |->
                  [t \in Trackers |-> Exit(r, book.pos[r][t], trackers[t])]])
-----------------------------------------------------------------------------
(* _paired_entries *)

\* Every account of the group has the tracker's row, and they change together.
Together(book, t, F(_)) ==
  Posted(book, [r \in policy.rules |-> [book.pos[r] EXCEPT ![t] = F(@)]])

First == CHOOSE r \in policy.rules : TRUE
SlotsTaken(p) == Cardinality({t \in Trackers : p[t].status \in Occupied})

\* One account of the group decides for all.
FirstHasSlot(book) == SlotsTaken(book.pos[First]) < policy.slots
AllHaveSlot(book) == \A r \in policy.rules : SlotsTaken(book.pos[r]) < policy.slots

\* The evidence frozen with a tracker is taken to be the group's own.
Accepted(book, t, row) ==
  /\ clock - row.first <= EntryDeadline
  /\ clock < Close(Today) - EntryLead
  /\ AllHaveSlot(book)
  /\ ~\E u \in Trackers : /\ Symbol[u] = Symbol[t]
                          /\ book.pos[First][u].status \notin {"NONE", "SKIPPED"}
                          /\ DayOf(book.pos[First][u].decided) = Today

DecideAlone(book, t, row) ==
  Posted(book, [r \in policy.rules |->
    LET own == [book EXCEPT !.pos = [s \in policy.rules |-> book.pos[r]]] IN
    [book.pos[r] EXCEPT ![t] =
       [@ EXCEPT !.status = IF Accepted(own, t, row) THEN "PENDING_ENTRY" ELSE "SKIPPED",
                 !.decided = clock]]])
Decide(book, t, row) ==
  LET status == IF Accepted(book, t, row) THEN "PENDING_ENTRY" ELSE "SKIPPED" IN
  Together(book, t, LAMBDA p : [p EXCEPT !.status = status, !.decided = clock])

\* What the account has put at risk today, closing costs included.
SpentToday(p) ==
  Total([t \in Trackers |-> p[t].debit + ExitFee],
        {t \in Trackers : p[t].entry # None /\ DayOf(p[t].decided) = Today})
Reserved(p) ==
  IF policy.multi THEN ExitFee * Cardinality({t \in Trackers : p[t].status \in Held}) ELSE 0

CanPay(book, r, debit) ==
  /\ book.cash[r].settled - Reserved(book.pos[r]) >= debit + ExitFee
  /\ policy.dailyCap # None =>
       SpentToday(book.pos[r]) + debit + ExitFee <= policy.dailyCap

Premium(row) == row.ask + Slippage
Debit(row) == Premium(row) + EntryFee

Affordable(row) ==
  /\ row.bid > 0 /\ 100 * (row.ask - row.bid) <= MaxSpread * row.ask
  /\ IF policy.multi THEN row.ask <= policy.premiumCap
                     ELSE Debit(row) + ExitFee <= policy.premiumCap

Buy(p, row) ==
  [p EXCEPT !.status = "OPEN", !.entry = clock, !.entryQuote = row.at,
            !.premium = Premium(row), !.debit = Debit(row), !.peak = row.bid]
Skipped(p) == [p EXCEPT !.status = "SKIPPED"]

Fill(book, t, row) ==
  LET p == book.pos[First][t] IN
  IF clock > p.decided + EntryDeadline \/ clock >= Close(Today) - EntryLead
  THEN Together(book, t, Skipped)
  ELSE IF ~FreshPoint(row, p.decided + 1) THEN book
  ELSE IF Affordable(row) /\ \A r \in policy.rules : CanPay(book, r, Debit(row))
  THEN Together(book, t, LAMBDA q : Buy(q, row))
  ELSE Together(book, t, Skipped)

\* Contracts are taken in the order in which they were decided, then found.
Before(book, trackers, t, u) ==
  LET a == book.pos[First][t].decided
      b == book.pos[First][u].decided IN
  \/ a < b
  \/ a = b /\ trackers[t].first < trackers[u].first
  \/ a = b /\ trackers[t].first = trackers[u].first /\ t < u
Last(book, trackers, S) == CHOOSE t \in S : \A u \in S : ~Before(book, trackers, t, u)

\* A new contract is decided, a pending one filled.
Considered(book, t, row) ==
  IF book.pos[First][t].status = "NONE" THEN Decide(book, t, row) ELSE Fill(book, t, row)
InTurn(book, trackers, S) ==
  LET after[T \in SUBSET S] ==
        IF T = {} THEN book
        ELSE LET t == Last(book, trackers, T) IN Considered(after[T \ {t}], t, trackers[t])
  IN after[S]

\* multi_active: the older groups take no new contract.
Discovers == multi => policy.multi

New(trackers) ==
  {t \in Trackers : /\ pos[First][t].status = "NONE" /\ trackers[t].status # "NONE"
                    /\ DayOf(trackers[t].first) = Today
                    /\ trackers[t].first \in Activated..clock}

AfterDiscovery(book, trackers) ==
  IF Discovers THEN InTurn(book, trackers, New(trackers)) ELSE book

Pending(book) == {t \in Trackers : book.pos[First][t].status = "PENDING_ENTRY"}
SessionEnded(book) ==
  Posted(book, [r \in policy.rules |-> [t \in Trackers |->
    IF book.pos[r][t].status = "PENDING_ENTRY" THEN Skipped(book.pos[r][t]) ELSE book.pos[r][t]]])

AfterEntries(book, trackers) ==
  LET decided == AfterDiscovery(book, trackers) IN
  IF InSession(clock) THEN InTurn(decided, trackers, Pending(decided)) ELSE SessionEnded(book)

\* advance_lotto_trials
Advance(trackers) ==
  LET book == AfterEntries(AfterExits([pos |-> pos, cash |-> cash], trackers), trackers) IN
  /\ processed <= clock
  /\ pos' = book.pos /\ cash' = book.cash /\ processed' = clock
-----------------------------------------------------------------------------
\* track_lottery_scan and advance_lotto_trials within a scan
Scan(lag, found, market, age) ==
  LET trackers == Tracked(clock - lag, found, market, age) IN
  /\ clock <= LastScanAt /\ age <= clock
  /\ clock - lag >= evaluated /\ InSession(clock - lag) /\ evaluated' = clock - lag
  /\ Advance(trackers) /\ tracker' = trackers
  /\ UNCHANGED <<clock, policy, multi>>

\* reconcile_runtime_on_startup, at a restart or after the close
Housekeeping ==
  /\ Advance(tracker) /\ tracker' = Closed(tracker, clock)
  /\ UNCHANGED <<clock, policy, multi, evaluated>>

\* activate_multi_trials, by an operator
ActivateMulti ==
  /\ ~multi /\ multi' = TRUE
  /\ UNCHANGED <<clock, policy, evaluated, tracker, pos, cash, processed>>

\* A quote too old for fresh_point is forgotten.
Aged(row) ==
  IF row.at = None \/ clock + 1 - row.at <= QuoteAge THEN row
  ELSE [row EXCEPT !.at = None, !.bid = 0, !.ask = 1]

Tick ==
  /\ clock < MaxClock /\ clock' = clock + 1
  /\ tracker' = [t \in Trackers |-> Aged(tracker[t])]
  /\ UNCHANGED <<policy, multi, evaluated, pos, cash, processed>>
-----------------------------------------------------------------------------
Unknown == {t \in Trackers : tracker[t].status = "NONE"}

\* The accounts are funded and have seen nothing.
Init ==
  /\ clock = Activated /\ processed = Activated /\ evaluated = 0
  /\ policy \in Policies /\ multi = policy.multi
  /\ tracker = [t \in Trackers |-> Untracked]
  /\ pos = [r \in policy.rules |-> [t \in Trackers |-> NoPos]]
  /\ cash = [r \in policy.rules |-> [settled |-> policy.cash, unsettled |-> 0, realized |-> 0]]

Next ==
  \/ \E lag \in Lags, age \in Ages, market \in Markets, found \in SUBSET Unknown :
       Scan(lag, found, market, age)
  \/ Housekeeping
  \/ ActivateMulti
  \/ Tick

Spec == Init /\ [][Next]_vars
-----------------------------------------------------------------------------
(* Invariants *)

Stamp == Nat \cup {None}
Status == {"NONE", "PENDING_ENTRY", "SKIPPED", "OPEN", "UNPRICED", "UNSETTLED", "CLOSED"}
Bought == {"OPEN", "UNPRICED", "UNSETTLED", "CLOSED"}
Rows == [status : {"NONE", "ACTIVE", "CLOSED"}, first : Stamp, saved : BOOLEAN,
         at : Stamp, bid : Nat, ask : Nat]
Positions ==
  [status : Status, decided : Stamp, entry : Stamp, entryQuote : Stamp, premium : Nat,
   debit : Nat, peak : Nat, armed : BOOLEAN, asked : Stamp, exit : Stamp,
   exitQuote : Stamp, sale : Nat, due : Stamp]
Balances == [settled : Int, unsettled : Nat, realized : Int]

\* The type invariant.
TypeOK ==
  /\ clock \in Nat /\ processed \in 0..clock /\ evaluated \in 0..clock
  /\ policy \in Policies /\ multi \in BOOLEAN
  /\ tracker \in [Trackers -> Rows]
  /\ pos \in [policy.rules -> [Trackers -> Positions]]
  /\ cash \in [policy.rules -> Balances]

\* Whatever their exit rules do to slots and cash, the accounts of a group decide
\* on the same contracts at the same time and buy them at the same price.
PairsAgree ==
  \A r, s \in policy.rules, t \in Trackers :
    LET p == pos[r][t] q == pos[s][t] IN
    /\ <<p.decided, p.entry, p.entryQuote, p.debit>> = <<q.decided, q.entry, q.entryQuote, q.debit>>
    /\ p.status = q.status \/ {p.status, q.status} \subseteq Bought

\* No account exceeds its slots or its cap for a day, and every cent is accounted
\* for: cash that is not a result is in a position held, unknown exits included,
\* and the fees of closing what is held are there.
MoneyAccounted ==
  \A r \in policy.rules :
    LET held == {t \in Trackers : pos[r][t].status \in Held} IN
    /\ SlotsTaken(pos[r]) <= policy.slots
    /\ policy.dailyCap # None => SpentToday(pos[r]) <= policy.dailyCap
    /\ cash[r].settled + cash[r].unsettled + Total([t \in Trackers |-> pos[r][t].debit], held)
         = policy.cash + cash[r].realized
    /\ cash[r].settled >= ExitFee * Cardinality(held)

\* A price comes after the decision it fills and before that decision's deadline;
\* nothing is bought on evidence from before the activation.  Once the accounts are
\* advanced, nothing is overdue: no decision outlives its deadline, no position its
\* session, and proceeds settle on the next day.
InTime ==
  \A r \in policy.rules, t \in Trackers :
    LET p == pos[r][t] IN
    /\ p.entry # None =>
         /\ p.decided < p.entryQuote /\ p.entryQuote \in (p.entry - QuoteAge)..p.entry
         /\ p.entry <= p.decided + EntryDeadline
         /\ tracker[t].first \in Activated..p.decided
    /\ p.exit # None =>
         /\ p.asked < p.exitQuote /\ p.exitQuote \in (p.exit - QuoteAge)..p.exit
         /\ p.exit <= p.asked + ExitDeadline
         /\ p.exit < Close(DayOf(p.entry))
    /\ p.status = "PENDING_ENTRY" =>
         processed <= p.decided + EntryDeadline /\ processed < Close(DayOf(p.decided)) - EntryLead
    /\ p.status = "OPEN" =>
         /\ processed < Close(DayOf(p.entry))
         /\ IF p.asked = None THEN processed < Close(DayOf(p.entry)) - ExitLead
                              ELSE processed <= p.asked + ExitDeadline
    /\ p.status = "UNSETTLED" => processed < p.due
-----------------------------------------------------------------------------
(* Action property *)

\* Neither a later quote nor a restart repairs what an account has missed, and a
\* closed contract gets no more quotes.
MissedStaysMissed ==
  [][/\ \A r \in policy.rules, t \in Trackers :
          pos[r][t].status \in {"SKIPPED", "UNPRICED", "CLOSED"} => pos'[r][t] = pos[r][t]
     /\ \A t \in Trackers : tracker[t].status = "CLOSED" =>
          tracker'[t].status = "CLOSED" /\ tracker'[t].at \in {tracker[t].at, None}]_vars
=============================================================================
