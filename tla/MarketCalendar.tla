--------------------------- MODULE MarketCalendar ---------------------------
(***************************************************************************)
(* The exchange's sessions, and when the scheduler wakes the scanner and   *)
(* the close's housekeeping (services/market_calendar.py and the triggers  *)
(* of main.py).                                                            *)
(*                                                                         *)
(* Instants count ticks of New York local time from a Monday's midnight.   *)
(***************************************************************************)
EXTENDS Integers

CONSTANTS
  DayLength, Minute,            \* in ticks
  Holidays, LastHoliday,        \* days from HOLIDAYS_BY_YEAR, and a bound of theirs
  EarlyCloses,                  \* days from EARLY_CLOSES_BY_YEAR
  PREMARKET_OPEN, REGULAR_OPEN, EARLY_CLOSE, REGULAR_CLOSE,  \* times of a day
  CloseDelay                    \* from the bell to the close's housekeeping

ASSUME CalendarAssumption ==
  /\ Minute \in Nat \ {0}
  /\ \A time \in {REGULAR_OPEN, EARLY_CLOSE, REGULAR_CLOSE, DayLength} :
       time \in Nat /\ time % Minute = 0
  /\ PREMARKET_OPEN \in 0..REGULAR_OPEN /\ REGULAR_OPEN < EARLY_CLOSE
  /\ EARLY_CLOSE <= REGULAR_CLOSE /\ REGULAR_CLOSE < DayLength
  /\ CloseDelay \in Nat /\ REGULAR_CLOSE + CloseDelay < DayLength
  /\ LastHoliday \in Nat /\ Holidays \subseteq 0..LastHoliday

Day(t)  == t \div DayLength
Time(t) == t % DayLength
At(day, time) == day * DayLength + time  \* datetime.combine

is_market_day(day) == day % 7 < 5 /\ day \notin Holidays
market_close(day)  == IF day \in EarlyCloses THEN EARLY_CLOSE ELSE REGULAR_CLOSE

market_session(t) ==
  IF ~is_market_day(Day(t)) THEN "closed_holiday_or_weekend"
  ELSE IF Time(t) \in PREMARKET_OPEN..(REGULAR_OPEN - 1) THEN "premarket"
  ELSE IF Time(t) \in REGULAR_OPEN..(market_close(Day(t)) - 1) THEN "regular"
  ELSE "closed"
Regular(t) == market_session(t) = "regular"

\* Where the loops over days end: the first market day after this one.
Upcoming(day) == {d \in (day + 1)..(day + LastHoliday + 7) : is_market_day(d)}
NextMarketDay(day) == CHOOSE d \in Upcoming(day) : \A e \in Upcoming(day) : d <= e

next_market_open(t) ==
  IF is_market_day(Day(t)) /\ Time(t) < REGULAR_OPEN THEN At(Day(t), REGULAR_OPEN)
  ELSE At(NextMarketDay(Day(t)), REGULAR_OPEN)

\* The second is clamped to the minute. A candidate that is moved to an opening
\* is the run of that opening: the loop returns it in its second round.
next_scanner_run(t, second) ==
  LET scan_second == IF second < 0 THEN 0 ELSE IF second >= Minute THEN Minute - 1 ELSE second
      this_minute == t - (t % Minute) + scan_second
      candidate == IF this_minute <= t THEN this_minute + Minute ELSE this_minute
      open_run  == At(Day(candidate), REGULAR_OPEN) + scan_second
      close_run == At(Day(candidate), market_close(Day(candidate))) + scan_second
  IN IF is_market_day(Day(candidate)) /\ candidate < open_run THEN open_run
     ELSE IF is_market_day(Day(candidate)) /\ candidate <= close_run THEN candidate
     ELSE next_market_open(candidate) + scan_second

next_session_housekeeping(t) ==
  LET due(day) == At(day, market_close(day)) + CloseDelay
  IN IF is_market_day(Day(t)) /\ due(Day(t)) > t THEN due(Day(t))
     ELSE due(NextMarketDay(Day(t)))
-----------------------------------------------------------------------------
(* What the three of them are for *)

IsOpening(t) == is_market_day(Day(t)) /\ Time(t) = REGULAR_OPEN
\* Every minute of a session, and once at its close.
IsRun(t, second) ==
  /\ is_market_day(Day(t)) /\ t % Minute = second
  /\ Time(t) \in (REGULAR_OPEN + second)..(market_close(Day(t)) + second)
IsHousekeeping(t) ==
  is_market_day(Day(t)) /\ Time(t) = market_close(Day(t)) + CloseDelay
=============================================================================
