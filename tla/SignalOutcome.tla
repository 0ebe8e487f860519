---------------------------- MODULE SignalOutcome ----------------------------
(***************************************************************************)
(* What becomes of the BUY signals of one ticker                           *)
(* (services/performance.py): a pass over the completed candles ends a     *)
(* signal at its stop, its target or the 15:45 cutoff, or declares a data  *)
(* gap, and then looks for the bid of the contract it was entered with.    *)
(*                                                                         *)
(* track_candidates commits before it starts the pass, which may fail: the *)
(* two are steps.  A pass that fails is rolled back and leaves no trace.   *)
(* The provider publishes a minute's candle late, after later ones, or     *)
(* never.                                                                  *)
(***************************************************************************)
EXTENDS Integers, FiniteSets
LOCAL INSTANCE FiniteSetsExt

CONSTANTS
  Signals,       \* lifecycles of the ticker that may be tracked
  MinuteTicks,   \* ticks in a minute
  DayMinutes, SessionMinutes, Cutoff,  \* of a day; Cutoff stands for 15:45
  MaxQuoteLag, ChainTTL,    \* in ticks
  Lags,          \* how far the provider's stamps may trail the host's clock
  Moves,         \* what a candle may do to the signals
  LastTrackAt, MaxClock     \* bounds of the exploration

None == -1
Kinds == {"flat", "target", "stop", "both"}
Results == {"TARGET", "STOP", "TIMED_EXIT"}

\* A move says, for each signal, which of its levels the candle touches, and
\* after how many ticks of the minute it does.
Move == [Signals -> [kind : Kinds, after : 0..(MinuteTicks - 1)]]

ASSUME OutcomeAssumption ==
  /\ MinuteTicks \in Nat \ {0} /\ DayMinutes \in Nat \ {0}
  /\ SessionMinutes \in 1..DayMinutes /\ Cutoff \in 0..(SessionMinutes - 1)
  /\ {MaxQuoteLag, ChainTTL, LastTrackAt, MaxClock} \subseteq Nat
  /\ Lags \subseteq Nat /\ Moves \subseteq Move

VARIABLES
  clock,
  candles,     \* published candles: minute -> its move
  backfilled,  \* ghost: minutes published after a later one
  row,         \* SignalPerformance, per signal
  entry,       \* signals with an ENTRY mark
  mark,        \* EXIT mark, per signal
  chain        \* when the cached chain of a signal's contract was received

vars == <<clock, candles, backfilled, row, entry, mark, chain>>

Minute(t)  == t \div MinuteTicks
Start(m)   == m * MinuteTicks
DayOf(m)   == m \div DayMinutes
OfDay(m)   == m - DayOf(m) * DayMinutes
InSession(m) == OfDay(m) < SessionMinutes
AtCutoff(m)  == OfDay(m) >= Cutoff
Minutes    == {m \in 0..Minute(MaxClock) : InSession(m)}
CutoffReady(day) == Start(day * DayMinutes + Cutoff + 1)

Published == DOMAIN candles
NoRow  == [exit |-> "NONE", at |-> None, trigger |-> None, cursor |-> None]
NoMark == [status |-> "NONE", reason |-> "NONE", quoteAt |-> None]
Day(s) == DayOf(Minute(row[s].trigger))
-----------------------------------------------------------------------------
(* track_candidates *)

\* The ENTRY mark belongs to the first BUY row of the ticker and day.
FirstOfDay(day) == \A u \in entry : Day(u) # day

NewRowDated(signal, trigger) ==
  [exit |-> IF signal = "MISSED" THEN "MISSED" ELSE "OPEN", at |-> trigger,
   trigger |-> trigger, cursor |-> trigger]
\* trigger is the quote's own time stamp.
NewRow(signal, trigger) ==
  [exit |-> IF signal = "MISSED" THEN "MISSED" ELSE "OPEN", at |-> None,
   trigger |-> trigger, cursor |-> trigger]

\* LiveWaitCandidate, the evidence of an earlier WATCH, is left out.
Track(s, signal, lag) ==
  LET trigger == clock - lag IN
  /\ InSession(Minute(clock)) /\ clock <= LastTrackAt
  /\ row[s] = NoRow /\ trigger >= 0
  /\ row' = [row EXCEPT ![s] = NewRow(signal, trigger)]
  /\ IF signal = "BUY" /\ FirstOfDay(DayOf(Minute(trigger)))
     THEN entry' = entry \cup {s} /\ chain' = [chain EXCEPT ![s] = clock]
     ELSE UNCHANGED <<entry, chain>>
  /\ UNCHANGED <<clock, candles, backfilled, mark>>
-----------------------------------------------------------------------------
(* evaluate_open_signals: the candles *)

\* update_outcome: a candle that touches both levels counts as a stop.
Outcome(s, m) ==
  LET kind == candles[m][s].kind IN
  CASE kind \in {"stop", "both"} -> "STOP"
    [] kind = "target"           -> "TARGET"
    [] OTHER                     -> IF AtCutoff(m) THEN "TIMED_EXIT" ELSE "OPEN"

\* Completed candles of the trading day that the row has not seen.
Unseen(s, latest) ==
  {m \in Published : /\ Start(m) > row[s].cursor
                     /\ Start(m) <= latest - MinuteTicks
                     /\ DayOf(m) = Day(s)}
Ends(s, latest) == {m \in Unseen(s, latest) : Outcome(s, m) # "OPEN"}

WalkedToLatest(s, latest) ==
  IF Ends(s, latest) # {}
  THEN LET m == Min(Ends(s, latest)) IN
       [row[s] EXCEPT !.exit = Outcome(s, m), !.at = Start(m), !.cursor = Start(m)]
  ELSE [row[s] EXCEPT !.cursor = Max({@, latest})]
\* The row after the walk, which stops at the first candle that ends it.
Walked(s, latest) ==
  IF Ends(s, latest) # {}
  THEN LET m == Min(Ends(s, latest)) IN
       [row[s] EXCEPT !.exit = Outcome(s, m), !.at = Start(m), !.cursor = Start(m)]
  ELSE [row[s] EXCEPT !.cursor = Max({@} \cup {Start(m) : m \in Unseen(s, latest)})]

Open == {s \in Signals : row[s].exit = "OPEN"}

Evaluated(s, latest, healthy) ==
  LET walked == Walked(s, latest) IN
  IF s \notin Open THEN row[s]
  ELSE IF walked.exit = "OPEN" /\ healthy /\ latest >= CutoffReady(Day(s))
  THEN [walked EXCEPT !.exit = "DATA_GAP", !.at = None]
  ELSE walked
-----------------------------------------------------------------------------
(* _record_option_exits: the bid of the entered contract *)

Fresh(s) == chain[s] # None /\ clock - chain[s] < ChainTTL

\* When the chain the pass looks at was received: a fresh one in the cache is
\* used, whatever its age; otherwise a healthy provider is asked.
Looked(s, answers) ==
  CASE Fresh(s)             -> chain[s]
    [] ~Fresh(s) /\ answers -> clock
    [] OTHER                -> None

AnyQuote(quoteAt, at) == quoteAt # None
InWindow(quoteAt, at) == quoteAt # None /\ quoteAt \in at..(at + MaxQuoteLag)
ExpiredExactly(latest, at) == latest = at + MaxQuoteLag
Expired(latest, at) == latest >= at + MaxQuoteLag

ExitMark(r, latest, quoteAt) ==
  CASE r.exit = "OPEN"                 -> NoMark
    [] r.exit = "DATA_GAP"             -> [status |-> "GAP", reason |-> r.exit, quoteAt |-> None]
    [] r.exit \in Results ->
         IF InWindow(quoteAt, r.at)
         THEN [status |-> "QUOTED", reason |-> r.exit, quoteAt |-> quoteAt]
         ELSE IF Expired(latest, r.at)
         THEN [status |-> "GAP", reason |-> r.exit, quoteAt |-> None]
         ELSE NoMark

Unexited == {s \in entry : mark[s] = NoMark}

\* One pass; latest is the provider's stamp, answers whether it returns the
\* contract when it is asked.
Evaluate(lag, healthy, answers) ==
  LET latest == clock - lag
      Asks == {s \in Unexited : row'[s].exit \in Results /\ ~Fresh(s)}
  IN
  /\ InSession(Minute(clock)) /\ (answers => healthy)
  /\ row' = [s \in Signals |-> Evaluated(s, latest, healthy)]
  /\ mark' = [s \in Signals |-> IF s \in Unexited
                                THEN ExitMark(row'[s], latest, Looked(s, answers))
                                ELSE mark[s]]
  /\ chain' = [s \in Signals |-> IF answers /\ s \in Asks THEN clock ELSE chain[s]]
  /\ UNCHANGED <<clock, candles, backfilled, entry>>
-----------------------------------------------------------------------------
(* The provider and the other readers of its chains *)

Publish(m) ==
  /\ m \in Minutes \ Published /\ Start(m + 1) <= clock
  /\ \E move \in Moves :
       candles' = [k \in Published \cup {m} |-> IF k = m THEN move ELSE candles[k]]
  /\ backfilled' = IF \E k \in Published : k > m THEN backfilled \cup {m} ELSE backfilled
  /\ UNCHANGED <<clock, row, entry, mark, chain>>

\* A scan, a position refresh or the cash account requests the chain.
RequestChain(s) ==
  /\ s \in Unexited /\ InSession(Minute(clock)) /\ ~Fresh(s)
  /\ chain' = [chain EXCEPT ![s] = clock]
  /\ UNCHANGED <<clock, candles, backfilled, row, entry, mark>>

Tick ==
  /\ clock < MaxClock /\ clock' = clock + 1
  /\ UNCHANGED <<candles, backfilled, row, entry, mark, chain>>
-----------------------------------------------------------------------------
Init ==
  /\ clock = 0 /\ candles = << >> /\ backfilled = {}
  /\ row = [s \in Signals |-> NoRow] /\ entry = {}
  /\ mark = [s \in Signals |-> NoMark] /\ chain = [s \in Signals |-> None]

Next ==
  \/ \E s \in Signals, signal \in {"BUY", "MISSED"}, lag \in Lags : Track(s, signal, lag)
  \/ \E lag \in Lags, healthy, answers \in BOOLEAN : Evaluate(lag, healthy, answers)
  \/ \E m \in Minutes : Publish(m)
  \/ \E s \in Signals : RequestChain(s)
  \/ Tick

Spec == Init /\ [][Next]_vars

\* Time passes and some pass finds the provider healthy, even if it never
\* returns a candle or a chain again.
Fairness == WF_vars(Tick) /\ SF_vars(\E lag \in Lags : Evaluate(lag, TRUE, FALSE))
FairSpec == Spec /\ Fairness
-----------------------------------------------------------------------------
(* Invariants *)

Stamp == Nat \cup {None}

\* The type invariant; a row has an exit instant exactly when it has a result.
TypeOK ==
  /\ clock \in 0..MaxClock
  /\ Published \subseteq Minutes /\ backfilled \subseteq Published
  /\ \A m \in Published : candles[m] \in Moves
  /\ row \in [Signals -> [exit : Results \cup {"NONE", "OPEN", "DATA_GAP", "MISSED"},
                          at : Stamp, trigger : Stamp, cursor : Stamp]]
  /\ \A s \in Signals : row[s].at # None <=> row[s].exit \in Results
  /\ entry \subseteq Signals
  /\ mark \in [Signals -> [status : {"NONE", "QUOTED", "GAP"}, quoteAt : Stamp,
                           reason : Results \cup {"NONE", "DATA_GAP"}]]
  /\ chain \in [Signals -> Stamp]

\* However the passes fall, lag and fail, a result is that of the first candle
\* of the trading day, after the trigger, that ends the signal; only candles the
\* provider published behind a later one may have been missed.
OutcomeIsFirstTouch ==
  \A s \in Signals : row[s].exit \in Results =>
    LET end == Minute(row[s].at) IN
    /\ end \in Published /\ DayOf(end) = Day(s) /\ row[s].exit = Outcome(s, end)
    /\ \A m \in Published \ backfilled :
         Start(m) > row[s].trigger /\ m < end /\ DayOf(m) = Day(s)
           => Outcome(s, m) = "OPEN"

\* Every day with a BUY has one ENTRY mark, whatever the order of the signals.
OneEntryPerDay ==
  /\ \A s, u \in entry : Day(s) = Day(u) => s = u
  /\ \A s \in Signals : row[s].exit \notin {"NONE", "MISSED"}
       => \E u \in entry : Day(u) = Day(s)

\* An EXIT mark tells its signal's outcome: a bid only for a result, and only
\* one received within the window that starts at the exit.
MarkTellsOutcome ==
  \A s \in Signals : mark[s] # NoMark =>
    /\ s \in entry /\ mark[s].reason = row[s].exit
    /\ mark[s].status = "QUOTED" =>
         /\ row[s].exit \in Results
         /\ mark[s].quoteAt \in row[s].at..(row[s].at + MaxQuoteLag)

\* The marks of a day tell one contract's story: bought once, ended as its signal.
MarksSound == OneEntryPerDay /\ MarkTellsOutcome

\* The bid of an EXIT mark comes after the underlying touched its level
\* (README.md, "first verified live-provider bid after the underlying TARGET, STOP").
BidAfterTouch ==
  \A s \in Signals : mark[s].status = "QUOTED" /\ row[s].exit \in {"TARGET", "STOP"} =>
    mark[s].quoteAt >= row[s].at + candles[Minute(row[s].at)][s].after
-----------------------------------------------------------------------------
(* Action properties *)

\* An outcome and its marks are written once: no later candle, no back-filled
\* one and no later pass changes them.
OutcomeFinal ==
  [][\A s \in Signals :
       /\ row[s].exit \notin {"NONE", "OPEN"} => row'[s] = row[s]
       /\ mark[s] # NoMark => mark'[s] = mark[s]
       /\ s \in entry => s \in entry']_vars

\* A data gap is declared only while no candle could have ended the signal: none
\* of its day at or after the cutoff is published and, by any stamp, complete.
GapMeansNoCutoff ==
  [][\A s \in Signals : row[s].exit = "OPEN" /\ row'[s].exit = "DATA_GAP" =>
       \A m \in Published :
         (/\ DayOf(m) = Day(s) /\ AtCutoff(m)
          /\ \A lag \in Lags : Start(m + 1) <= clock - lag)
           => Start(m) <= row[s].trigger]_vars

\* However passes lag, fail and repeat, an outcome is the first touch, a gap means
\* that nothing could end the signal, and neither ever changes.
OutcomesSound == []OutcomeIsFirstTouch /\ OutcomeFinal /\ GapMeansNoCutoff
-----------------------------------------------------------------------------
(* Liveness *)

\* Every entered signal gets its EXIT mark, a bid or an explicit gap.
EntriesGetExits == \A s \in Signals : s \in entry ~> mark[s] # NoMark
=============================================================================
