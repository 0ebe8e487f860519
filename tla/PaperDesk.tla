----------------------------- MODULE PaperDesk -----------------------------
(***************************************************************************)
(* What the request threads share without a lock: the manual paper         *)
(* positions, the daily watch list and the backtest runs                   *)
(* (services/paper_positions.py, services/backtest.py, api/routes.py), and *)
(* the scanner, whose alerts pass refreshes the same positions             *)
(* (services/signal_engine.py).                                            *)
(*                                                                         *)
(* Every actor works on its own copies: a session loads a row once, keeps  *)
(* it across its commits (expire_on_commit is off) and a commit writes     *)
(* only the columns that differ from the copy.                             *)
(***************************************************************************)
EXTENDS Integers, FiniteSets, Sequences

CONSTANTS
  Threads,         \* request threads of the web server
  Contracts,       \* contracts the setups of the day select, one per setup
  Quotes,          \* what a mark may find, in levels of option and underlying
  EntryQuotes,     \* those of them an entry may fill at
  Symbols, WatchLimit,  \* tickers outside the permanent universe, and the slots for them
  Tickers,         \* of a backtest
  LastDay, MaxRequests, MaxScans, MaxPositions  \* bounds

Unset == -1
Scanner == "scanner"
Actors == Threads \cup {Scanner}
Expiry == 0     \* every contract here expires on the first day

ASSUME DeskAssumption ==
  /\ IsFiniteSet(Threads) /\ Threads # {} /\ Scanner \notin Threads
  /\ Quotes \subseteq [option : 1..3, under : 0..3] /\ EntryQuotes \subseteq Quotes
  /\ IsFiniteSet(Symbols) /\ IsFiniteSet(Contracts)
  /\ {WatchLimit, LastDay, MaxRequests, MaxScans, MaxPositions} \subseteq Nat

VARIABLES
  day,
  positions,  \* the rows of parlay_paper_positions, in order of their ids
  signal,     \* each contract's signal: still open, and the position linked to it
  setup,      \* status of each contract's lifecycle row
  alerts,     \* position alerts committed, by position and kind
  watch,      \* daily_watch_symbols: days and symbols
  backtests,  \* status of every row of backtest_runs, in order of submission
  work,       \* what every actor is doing, with its copies of the rows
  pending,    \* alerts of the scan's open transaction
  served, scans,  \* how many requests and scans began
  raced       \* ghost: positions written by an actor whose copy was outdated

tables == <<positions, signal, setup, alerts, watch, backtests, raced>>
deskVars == <<day, positions, signal, setup, alerts, watch, backtests, work, pending, served, scans, raced>>

Idle == [op |-> "idle"]
RowWork == {"exit", "list", "poll", "scan"}
Ids  == DOMAIN positions

Row == [contract : Contracts, status : {"ACTIVE", "EXPIRED", "CLOSED"},
        option : 1..3, under : 0..3, exitOption : 1..3 \cup {Unset},
        exitUnder : 0..3 \cup {Unset}, expired : BOOLEAN,
        freshness : {"entry", "current", "stale"}]

\* Work on copies of rows; dated means that the first one is not past its expiration.
OnRows(op, copy, dated) == [op |-> op, copy |-> copy, dated |-> dated]
\* What an actor may be doing when there are these positions and backtests.
IsJob(w, ids, runs) ==
  \/ w = Idle
  \/ /\ w.op \in RowWork
     /\ \E dated \in BOOLEAN, loaded \in SUBSET ids :
          w = OnRows(w.op, w.copy, dated) /\ w.copy \in [loaded -> Row]
  \/ w \in [op : {"entry"}, contract : Contracts]
  \/ w \in [op : {"link", "enter"}, id : ids]
  \/ w \in [op : {"watch"}, symbol : Symbols]
  \/ w = [op |-> "submit"]
  \/ w \in [op : {"replay"}, run : runs]

DeskTypeOK ==
  /\ day \in 0..LastDay /\ served \in 0..MaxRequests /\ scans \in 0..MaxScans
  /\ positions \in Seq(Row) /\ Len(positions) <= MaxPositions /\ raced \subseteq Ids
  /\ signal \in [Contracts -> [open : BOOLEAN, position : Ids \cup {Unset}]]
  /\ setup \in [Contracts -> {"BUY", "ENTERED", "ENDED"}]
  /\ alerts \cup pending \subseteq Ids \X {"TARGET_HIT", "STOP_HIT"}
  /\ watch \subseteq (0..LastDay) \X Symbols
  /\ backtests \in Seq({"RUNNING", "COMPLETED", "PARTIAL", "FAILED"})
  /\ DOMAIN work = Actors /\ \A a \in Actors : IsJob(work[a], Ids, DOMAIN backtests)

DeskInit ==
  /\ day = 0 /\ positions = <<>> /\ alerts = {} /\ pending = {} /\ watch = {}
  /\ backtests = <<>> /\ served = 0 /\ scans = 0 /\ raced = {}
  /\ signal = [c \in Contracts |-> [open |-> TRUE, position |-> Unset]]
  /\ setup = [c \in Contracts |-> "BUY"]
  /\ work = [a \in Actors |-> Idle]

Does(a, job) == work' = [work EXCEPT ![a] = job]
\* A request thread takes the next request.
Begins(t, job) ==
  /\ work[t] = Idle /\ served < MaxRequests
  /\ served' = served + 1 /\ Does(t, job)
-----------------------------------------------------------------------------
(* Entering a position *)

Active(c) == {i \in Ids : positions[i].contract = c /\ positions[i].status = "ACTIVE"}
AnyEntry(c) == TRUE  \* a variant: no duplicate check
NoDuplicate(c) == Active(c) = {}

\* The setup is recomputed at click time, then the duplicate check is made.
AskEntry(t, c) ==
  /\ day <= Expiry /\ NoDuplicate(c)
  /\ Begins(t, [op |-> "entry", contract |-> c])
  /\ UNCHANGED <<day, pending, scans, tables>>

UnmarkedEntry(c, quote) ==  \* a variant: no underlying mark at entry
  [contract |-> c, status |-> "ACTIVE", option |-> quote.option, under |-> Unset,
   exitOption |-> Unset, exitUnder |-> Unset, expired |-> FALSE, freshness |-> "entry"]
Opened(c, quote) ==
  [contract |-> c, status |-> "ACTIVE", option |-> quote.option, under |-> quote.under,
   exitOption |-> Unset, exitUnder |-> Unset, expired |-> FALSE, freshness |-> "entry"]

OpenPosition(t) ==
  /\ work[t].op = "entry" /\ Len(positions) < MaxPositions
  /\ \E quote \in EntryQuotes : positions' = Append(positions, Opened(work[t].contract, quote))
  /\ Does(t, [op |-> "link", id |-> Len(positions) + 1])
  /\ UNCHANGED <<day, signal, setup, alerts, watch, backtests, pending, served, scans, raced>>

\* link_paper_position, a commit of its own: the open signal gets the position.
LinkSignal(t) ==
  /\ work[t].op = "link"
  /\ LET c == positions[work[t].id].contract IN
       signal' = [signal EXCEPT ![c].position = IF signal[c].open THEN work[t].id ELSE @]
  /\ Does(t, [op |-> "enter", id |-> work[t].id])
  /\ UNCHANGED <<day, positions, setup, alerts, watch, backtests, pending, served, scans, raced>>

\* mark_lifecycle_entered, the third commit of the request.
EnterLifecycle(t) ==
  /\ work[t].op = "enter"
  /\ LET c == positions[work[t].id].contract IN
       setup' = [setup EXCEPT ![c] = IF @ = "BUY" THEN "ENTERED" ELSE @]
  /\ Does(t, Idle)
  /\ UNCHANGED <<day, positions, signal, alerts, watch, backtests, pending, served, scans, raced>>

\* The scanner ends the signal, and the setup if it was not entered.
EndSetup(c) ==
  /\ signal[c].open
  /\ signal' = [signal EXCEPT ![c].open = FALSE]
  /\ setup' = [setup EXCEPT ![c] = IF @ = "BUY" THEN "ENDED" ELSE @]
  /\ UNCHANGED <<day, positions, alerts, watch, backtests, work, pending, served, scans, raced>>
-----------------------------------------------------------------------------
(* Marking, expiring and closing positions *)

\* Rows are loaded once; what is not ACTIVE is served and never written. A list
\* goes through its copies from the newest to the oldest, a scan by their ids.
Loads(op, ids) == OnRows(op, [i \in ids |-> positions[i]], FALSE)
Copies(a) == DOMAIN work[a].copy
Works(a, i) ==
  /\ work[a].op \in RowWork /\ i \in Copies(a)
  /\ \A j \in Copies(a) : IF work[a].op = "scan" THEN i <= j ELSE j <= i

ActiveIds == {i \in Ids : positions[i].status = "ACTIVE"}

Exitable(row) == row.status = "ACTIVE"
AskExit(t, i) ==
  /\ Exitable(positions[i])
  /\ Begins(t, Loads("exit", {i}))
  /\ UNCHANGED <<day, pending, scans, tables>>

\* GET /paper-positions with or without refresh.
AskList(t, op) ==
  /\ ActiveIds # {}
  /\ Begins(t, Loads(op, ActiveIds))
  /\ UNCHANGED <<day, pending, scans, tables>>

BeginScan ==
  /\ work[Scanner] = Idle /\ ActiveIds # {} /\ scans < MaxScans /\ scans' = scans + 1
  /\ Does(Scanner, Loads("scan", ActiveIds))
  /\ UNCHANGED <<day, pending, served, tables>>

\* The next row; a request ends with its last one, a scan has its commit to make.
Onward(a, i) ==
  IF Copies(a) = {i} /\ a # Scanner THEN Idle
  ELSE OnRows(work[a].op, [j \in Copies(a) \ {i} |-> work[a].copy[j]], FALSE)

\* The database keeps every column the actor did not change.
Overwritten(row, copy, new) == new  \* a variant: a commit writes every column
Merged(row, copy, new) ==
  [f \in DOMAIN row |-> IF new[f] = copy[f] THEN row[f] ELSE new[f]]
Writes(a, i, new) ==
  /\ positions' = [positions EXCEPT ![i] = Merged(@, work[a].copy[i], new)]
  /\ raced' = IF positions[i] = work[a].copy[i] THEN raced ELSE raced \cup {i}
\* A scan's commit takes the alerts of its transaction along.
Commits(a) ==
  IF a = Scanner THEN alerts' = alerts \cup pending /\ pending' = {}
  ELSE UNCHANGED <<alerts, pending>>

Past == Expiry < day
Expired(copy) == [copy EXCEPT !.status = "EXPIRED", !.expired = TRUE, !.freshness = "stale"]

\* expire_if_past_expiration goes by the copy and the date now.
Expire(a, i) ==
  /\ Works(a, i) /\ ~work[a].dated /\ Past
  /\ Writes(a, i, Expired(work[a].copy[i])) /\ Commits(a)
  /\ Does(a, Onward(a, i))
  /\ UNCHANGED <<day, signal, setup, watch, backtests, served, scans>>

NotExpired(a, i) ==
  /\ Works(a, i) /\ ~work[a].dated /\ ~Past
  /\ Does(a, IF work[a].op = "poll" THEN Onward(a, i) ELSE OnRows(work[a].op, work[a].copy, TRUE))
  /\ UNCHANGED <<day, pending, served, scans, tables>>

\* The provider has no defensible price: the exit is refused, a mark is kept.
NoMark(a, i) ==
  /\ Works(a, i) /\ work[a].dated
  /\ Does(a, Onward(a, i))
  /\ UNCHANGED <<day, pending, served, scans, tables>>

Closed(copy, quote) ==
  [copy EXCEPT !.status = "CLOSED", !.exitOption = quote.option, !.exitUnder = quote.under,
               !.freshness = "current"]
ClosePosition(t, i) ==
  /\ Works(t, i) /\ work[t].dated /\ work[t].op = "exit"
  /\ \E quote \in Quotes : Writes(t, i, Closed(work[t].copy[i], quote))
  /\ Does(t, Onward(t, i))
  /\ UNCHANGED <<day, signal, setup, alerts, watch, backtests, pending, served, scans>>

\* A call's decision at the marks; a put's levels are the mirror image.
management_decision(quote) ==
  IF quote.under < 1 \/ quote.option >= 3 \/ quote.under >= 3 THEN "EXIT"
  ELSE IF quote.option >= 2 \/ quote.under >= 2 THEN "TAKE_PROFIT" ELSE "HOLD"
Alert(i, quote) ==
  LET kind == [EXIT |-> "STOP_HIT", TAKE_PROFIT |-> "TARGET_HIT"]
      decision == management_decision(quote)
  IN IF decision = "HOLD" THEN {} ELSE {<<i, kind[decision]>>}

Marked(copy, quote) ==
  [copy EXCEPT !.option = quote.option, !.under = quote.under, !.freshness = "current"]
Refresh(a, i) ==
  /\ Works(a, i) /\ work[a].dated /\ work[a].op \in {"list", "scan"}
  /\ \E quote \in Quotes :
       /\ Writes(a, i, Marked(work[a].copy[i], quote))
       /\ IF a = Scanner THEN /\ alerts' = alerts \cup pending
                              /\ pending' = Alert(i, quote) \ alerts
          ELSE UNCHANGED <<alerts, pending>>
  /\ Does(a, Onward(a, i))
  /\ UNCHANGED <<day, signal, setup, watch, backtests, served, scans>>

EndScan ==
  /\ work[Scanner].op = "scan" /\ Copies(Scanner) = {}
  /\ Commits(Scanner) /\ Does(Scanner, Idle)
  /\ UNCHANGED <<day, positions, signal, setup, watch, backtests, served, scans, raced>>
-----------------------------------------------------------------------------
(* The daily watch list and the backtests *)

Watched(d) == {s \in Symbols : <<d, s>> \in watch}
SlotFree   == Cardinality(Watched(day)) < WatchLimit

AskWatch(t, s) ==
  /\ s \notin Watched(day) /\ SlotFree
  /\ Begins(t, [op |-> "watch", symbol |-> s])
  /\ UNCHANGED <<day, pending, scans, tables>>

\* The provider knows the symbol; a second row of the day is refused (unique key).
AddWatch(t) ==
  /\ work[t].op = "watch"
  /\ watch' = watch \cup {<<day, work[t].symbol>>}
  /\ Does(t, Idle)
  /\ UNCHANGED <<day, positions, signal, setup, alerts, backtests, pending, served, scans, raced>>

RemoveWatch(s) ==
  /\ s \in Watched(day) /\ served < MaxRequests
  /\ served' = served + 1 /\ watch' = watch \ {<<day, s>>}
  /\ UNCHANGED <<day, positions, signal, setup, alerts, backtests, work, pending, scans, raced>>

Running   == {n \in DOMAIN backtests : backtests[n] = "RUNNING"}
NoneRuns  == Running = {}

AskBacktest(t) ==
  /\ NoneRuns
  /\ Begins(t, [op |-> "submit"])
  /\ UNCHANGED <<day, pending, scans, tables>>

StartBacktest(t) ==
  /\ work[t].op = "submit"
  /\ backtests' = Append(backtests, "RUNNING")
  /\ Does(t, [op |-> "replay", run |-> Len(backtests) + 1])
  /\ UNCHANGED <<day, positions, signal, setup, alerts, watch, pending, served, scans, raced>>

\* Tickers without usable history are failures; all else is saved with the verdict.
Verdict(failures) ==
  IF failures = {} THEN "COMPLETED" ELSE IF failures = Tickers THEN "FAILED" ELSE "PARTIAL"
FinishBacktest(t) ==
  /\ work[t].op = "replay"
  /\ \E failures \in SUBSET Tickers :
       backtests' = [backtests EXCEPT ![work[t].run] = Verdict(failures)]
  /\ Does(t, Idle)
  /\ UNCHANGED <<day, positions, signal, setup, alerts, watch, pending, served, scans, raced>>
-----------------------------------------------------------------------------
\* An exception ends a request or rolls back the scan; a crash ends several.
Fail(a) ==
  /\ work[a] # Idle
  /\ Does(a, Idle) /\ pending' = IF a = Scanner THEN {} ELSE pending
  /\ UNCHANGED <<day, served, scans, tables>>

\* Entries need the open market and a setup of the day: none spans midnight.
Midnight ==
  /\ day < LastDay /\ \A t \in Threads : work[t].op # "entry"
  /\ day' = day + 1
  /\ UNCHANGED <<work, pending, served, scans, tables>>

Entry(t) == (\E c \in Contracts : AskEntry(t, c)) \/ OpenPosition(t) \/ LinkSignal(t)
            \/ EnterLifecycle(t)
Serve(t) ==
  \/ Entry(t)
  \/ \E i \in Ids : AskExit(t, i)
  \/ \E op \in {"list", "poll"} : AskList(t, op)
  \/ \E i \in Ids : ClosePosition(t, i)
  \/ \E s \in Symbols : AskWatch(t, s)
  \/ AddWatch(t) \/ AskBacktest(t) \/ StartBacktest(t) \/ FinishBacktest(t)
HandleRow(a) == \E i \in Ids : Expire(a, i) \/ NotExpired(a, i) \/ NoMark(a, i) \/ Refresh(a, i)

DeskNext ==
  \/ \E t \in Threads : Serve(t)
  \/ \E a \in Actors : HandleRow(a) \/ Fail(a)
  \/ BeginScan \/ EndScan
  \/ \E c \in Contracts : EndSetup(c)
  \/ \E s \in Symbols : RemoveWatch(s)
  \/ Midnight

DeskSpec == DeskInit /\ [][DeskNext]_deskVars
-----------------------------------------------------------------------------
(* Properties *)

\* Every limit is a check before a slow step and an insert after it. Requests in
\* flight together may pass it, but by no more than one row each: one position on
\* a contract, the watch slots of a day, one backtest at a time.
LimitsBound ==
  LET extra == Cardinality(Threads) - 1 IN
  /\ \A c \in Contracts : Cardinality(Active(c)) <= 1 + extra
  /\ \A d \in 0..day : Cardinality(Watched(d)) <= WatchLimit + extra
  /\ Cardinality(Running) <= 1 + extra

\* A position nobody wrote from an outdated copy looks as if all requests had run
\* one after another: one ending, with its evidence, and marks of one quote. Even
\* the others keep the two exit prices together.
RowsHonest ==
  \A i \in Ids :
    LET p == positions[i]
        marks == [option |-> p.option, under |-> p.under]
        exits == [option |-> p.exitOption, under |-> p.exitUnder]
    IN /\ p.exitOption = Unset <=> p.exitUnder = Unset
       /\ p.status = "CLOSED" => exits \in Quotes
       /\ p.status = "EXPIRED" => p.expired
       /\ p.status = "ACTIVE" => ~p.expired /\ exits \notin Quotes
       /\ i \notin raced =>
            /\ marks \in Quotes
            /\ ~(p.expired /\ exits \in Quotes)
            /\ p.freshness = "stale" <=> p.status = "EXPIRED"

\* No position comes back, and what has ended is rewritten only by an actor that
\* read it while it was active: a request that begins later changes nothing.
EndingsKept ==
  [][\A i \in Ids :
       LET p == positions[i] q == positions'[i] IN
       p.status # "ACTIVE" =>
         /\ q.status # "ACTIVE"
         /\ q # p => \E a \in Actors :
              /\ Works(a, i) /\ work'[a] # work[a]
              /\ work[a].copy[i].status = "ACTIVE"]_positions

\* Whatever requests, scans and the expiration do to a position in whatever order,
\* its row makes sense and its ending is not undone.
PositionsHonest == []RowsHonest /\ EndingsKept
=============================================================================
