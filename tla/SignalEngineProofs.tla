------------------------- MODULE SignalEngineProofs -------------------------
(***************************************************************************)
(* The signal engine, for every calendar and any number of requests, rows, *)
(* entries, commands and restarts.  The calendar's answers are the next    *)
(* ones: no session, run or close is passed over, and none comes before it *)
(* is due.  ScanControl keeps the runtime row honest, and SignalLifecycle  *)
(* keeps recommendations, alerts and outcomes in agreement, on copies that *)
(* were loaded earlier.  The two modules share no state.                   *)
(***************************************************************************)
EXTENDS SignalLifecycle, ScanControl, NaturalsInduction, WellFoundedInduction, TLAPS

-----------------------------------------------------------------------------
(* Days and times *)

\* The times of a day are natural numbers in their order, and so is every close.
LEMMA Lengths ==
  /\ Minute \in Nat \ {0} /\ DayLength \in Nat \ {0}
  /\ REGULAR_OPEN \in Nat /\ EARLY_CLOSE \in Nat /\ REGULAR_CLOSE \in Nat
  /\ CloseDelay \in Nat /\ LastHoliday \in Nat
  /\ \A d : market_close(d) \in Nat /\ REGULAR_OPEN < market_close(d)
            /\ market_close(d) + CloseDelay < DayLength
<1>1. /\ REGULAR_OPEN \in Nat /\ EARLY_CLOSE \in Nat /\ REGULAR_CLOSE \in Nat
      /\ DayLength \in Nat
  BY CalendarAssumption
<1>2. /\ REGULAR_OPEN < EARLY_CLOSE /\ EARLY_CLOSE <= REGULAR_CLOSE
      /\ REGULAR_CLOSE < DayLength /\ CloseDelay \in Nat
      /\ REGULAR_CLOSE + CloseDelay < DayLength /\ Minute \in Nat \ {0} /\ LastHoliday \in Nat
  BY CalendarAssumption
<1>3. \A d : market_close(d) \in {EARLY_CLOSE, REGULAR_CLOSE}  BY DEF market_close
<1> QED  BY <1>1, <1>2, <1>3

\* An instant is its day and its time.
LEMMA Split ==
  ASSUME NEW t \in Nat
  PROVE  /\ Day(t) \in Nat /\ Time(t) \in 0..(DayLength - 1)
         /\ t = At(Day(t), Time(t))
BY Lengths DEF Day, Time, At

\* Quotient and remainder are unique.
LEMMA Unique ==
  ASSUME NEW n \in Nat \ {0}, NEW q \in Nat, NEW r \in 0..(n - 1), NEW p \in Nat,
         NEW s \in 0..(n - 1)
  PROVE  /\ q < p => q * n + r < p * n + s
         /\ q * n + r = p * n + s => q = p /\ r = s
<1>1. ASSUME NEW a \in Nat, NEW b \in Nat, a < b PROVE a * n + n <= b * n
  <2>1. PICK k \in Nat : b = a + 1 + k  BY <1>1
  <2>2. b * n = a * n + n + k * n  BY <2>1
  <2>3. k * n \in Nat  OBVIOUS
  <2> QED  BY <2>2, <2>3
<1>2. q * n \in Nat /\ p * n \in Nat  OBVIOUS
<1>3. q < p => q * n + r < p * n + s  BY <1>1, <1>2
<1>4. p < q => p * n + s < q * n + r  BY <1>1, <1>2
<1> QED  BY <1>2, <1>3, <1>4

\* A day and a time give the instant they came from.
LEMMA Compose ==
  ASSUME NEW d \in Nat, NEW x \in 0..(DayLength - 1)
  PROVE  At(d, x) \in Nat /\ Day(At(d, x)) = d /\ Time(At(d, x)) = x
<1>1. At(d, x) \in Nat  BY Lengths DEF At
<1>2. At(d, x) = At(Day(At(d, x)), Time(At(d, x))) /\ Day(At(d, x)) \in Nat
      /\ Time(At(d, x)) \in 0..(DayLength - 1)
  BY <1>1, Split
<1> QED  BY <1>1, <1>2, Unique, Lengths DEF At

\* Instants are ordered by their days, then by their times.
LEMMA Order ==
  ASSUME NEW a \in Nat, NEW b \in Nat
  PROVE  /\ Day(a) < Day(b) => a < b
         /\ a <= b => Day(a) <= Day(b)
         /\ Day(a) = Day(b) => (a < b <=> Time(a) < Time(b))
<1>1. /\ Day(a) \in Nat /\ Time(a) \in 0..(DayLength - 1) /\ a = Day(a) * DayLength + Time(a)
      /\ Day(b) \in Nat /\ Time(b) \in 0..(DayLength - 1) /\ b = Day(b) * DayLength + Time(b)
  BY Split DEF At
<1>2. Day(a) < Day(b) => a < b  BY <1>1, Unique, Lengths
<1>3. Day(b) < Day(a) => b < a  BY <1>1, Unique, Lengths
<1>4. Day(a) = Day(b) => (a < b <=> Time(a) < Time(b))
  <2>1. SUFFICES ASSUME Day(a) = Day(b) PROVE a < b <=> Time(a) < Time(b)  OBVIOUS
  <2>2. PICK m \in Nat : a = m + Time(a) /\ b = m + Time(b)
    <3>1. Day(a) * DayLength \in Nat  BY <1>1, Lengths
    <3> QED  BY <1>1, <2>1, <3>1
  <2> QED  BY <1>1, <2>2
<1> QED  BY <1>1, <1>2, <1>3, <1>4

\* The loops over days end at the first market day: at most the listed holidays
\* and one weekend lie before it.
LEMMA NextDay ==
  ASSUME NEW d \in Nat
  PROVE  /\ NextMarketDay(d) \in Nat /\ d < NextMarketDay(d)
         /\ is_market_day(NextMarketDay(d))
         /\ \A e \in Nat : d < e /\ e < NextMarketDay(d) => ~is_market_day(e)
<1>1. \E e \in Upcoming(d) : TRUE
  <2>1. PICK e \in (d + LastHoliday + 1)..(d + LastHoliday + 7) : e % 7 = 0
    <3>1. d + LastHoliday \in Nat  BY Lengths
    <3>2. \A n \in Nat : \E e \in (n + 1)..(n + 7) : e % 7 = 0
      <4> TAKE n \in Nat
      <4>1. n + 7 - (n % 7) \in (n + 1)..(n + 7) /\ (n + 7 - (n % 7)) % 7 = 0  OBVIOUS
      <4> QED  BY <4>1
    <3> QED  BY <3>1, <3>2
  <2>2. e \notin Holidays  BY <2>1, CalendarAssumption
  <2> QED  BY <2>1, <2>2, Lengths DEF Upcoming, is_market_day
<1>2. Upcoming(d) \in SUBSET Nat /\ Upcoming(d) # {}  BY <1>1, Lengths DEF Upcoming
<1>3. PICK x \in Upcoming(d) : \A y \in Upcoming(d) : ~(<<y, x>> \in OpToRel(<, Nat))
  BY <1>2, NatLessThanWellFounded, WFMin
<1>a. \A y \in Upcoming(d) : ~(y < x)  BY <1>2, <1>3 DEF OpToRel
<1>4. \A y \in Upcoming(d) : x <= y  BY <1>2, <1>a
<1>5. /\ NextMarketDay(d) \in Upcoming(d)
      /\ \A e \in Upcoming(d) : NextMarketDay(d) <= e
  BY <1>4 DEF NextMarketDay
<1> HIDE DEF NextMarketDay
<1> QED  BY <1>2, <1>5, Lengths DEF Upcoming, NextMarketDay

-----------------------------------------------------------------------------
(* Openings *)

\* Between an opening that comes next and the closed time before it, no session
\* is running (market_session and next_market_open agree).
THEOREM OpensNext ==
  ASSUME NEW t \in Nat
  PROVE  LET n == next_market_open(t) IN
         /\ n \in Nat /\ t < n /\ IsOpening(n) /\ Regular(n)
         /\ \A u \in Nat : t < u /\ u < n => ~IsOpening(u)
         /\ ~Regular(t) => \A u \in Nat : t <= u /\ u < n => ~Regular(u)
<1> DEFINE n == next_market_open(t)
<1>1. /\ Day(t) \in Nat /\ Time(t) \in 0..(DayLength - 1)
      /\ REGULAR_OPEN \in 0..(DayLength - 1)
  BY Split, Lengths
<1>2. PICK d \in Nat :
        /\ n = At(d, REGULAR_OPEN) /\ is_market_day(d) /\ Day(t) <= d
        /\ d = Day(t) => Time(t) < REGULAR_OPEN
        /\ \A e \in Nat : Day(t) < e /\ e < d => ~is_market_day(e)
        /\ d # Day(t) => ~(is_market_day(Day(t)) /\ Time(t) < REGULAR_OPEN)
  <2>1. CASE is_market_day(Day(t)) /\ Time(t) < REGULAR_OPEN
    BY <1>1, <2>1 DEF next_market_open
  <2>2. CASE ~(is_market_day(Day(t)) /\ Time(t) < REGULAR_OPEN)
    <3>1. n = At(NextMarketDay(Day(t)), REGULAR_OPEN)  BY <2>2 DEF next_market_open
    <3> QED  BY <1>1, <2>2, <3>1, NextDay
  <2> QED  BY <2>1, <2>2
<1> HIDE DEF n
<1>3. n \in Nat /\ Day(n) = d /\ Time(n) = REGULAR_OPEN  BY <1>1, <1>2, Compose
<1>4. t < n  BY <1>1, <1>2, <1>3, Order
<1>5. IsOpening(n)  BY <1>2, <1>3 DEF IsOpening
<1>6. Regular(n)
  <2>1. Time(n) \in REGULAR_OPEN..(market_close(Day(n)) - 1)  BY <1>3, Lengths
  <2>2. Time(n) \notin PREMARKET_OPEN..(REGULAR_OPEN - 1)  BY <1>3, Lengths
  <2> QED  BY <1>2, <1>3, <2>1, <2>2 DEF Regular, market_session
<1>7. ASSUME NEW u \in Nat, t <= u, u < n, is_market_day(Day(u)), REGULAR_OPEN <= Time(u)
      PROVE  Day(u) = Day(t) /\ d # Day(t) /\ REGULAR_OPEN <= Time(t)
  <2>1. /\ Day(u) \in Nat /\ Time(u) \in Nat /\ Time(t) \in Nat
        /\ Day(t) <= Day(u) /\ Day(u) <= d
    BY <1>1, <1>3, <1>7, Order, Split
  <2>2. Day(u) # d
    <3>1. SUFFICES ASSUME Day(u) = d PROVE FALSE  OBVIOUS
    <3>2. Time(u) < Time(n)  BY <1>3, <1>7, <3>1, Order
    <3> QED  BY <1>3, <1>7, <2>1, <3>2, Lengths
  <2>3. Day(u) = Day(t)  BY <1>1, <1>2, <1>7, <2>1, <2>2
  <2>4. ~(Time(t) < REGULAR_OPEN)  BY <1>2, <1>7, <2>2, <2>3
  <2> QED  BY <2>1, <2>2, <2>3, <2>4, Lengths
<1>8. ASSUME NEW u \in Nat, t < u, u < n PROVE ~IsOpening(u)
  <2>1. SUFFICES ASSUME IsOpening(u) PROVE FALSE  OBVIOUS
  <2>2. is_market_day(Day(u)) /\ Time(u) = REGULAR_OPEN  BY <2>1 DEF IsOpening
  <2>3. Day(u) = Day(t) /\ REGULAR_OPEN <= Time(t)  BY <1>7, <1>8, <2>2, Lengths
  <2>4. Time(t) < Time(u)  BY <1>8, <2>3, Order
  <2> QED  BY <1>1, <2>2, <2>3, <2>4, Lengths
<1>9. ASSUME ~Regular(t), NEW u \in Nat, t <= u, u < n PROVE ~Regular(u)
  <2>1. SUFFICES ASSUME Regular(u) PROVE FALSE  OBVIOUS
  <2>2. is_market_day(Day(u)) /\ Time(u) \in REGULAR_OPEN..(market_close(Day(u)) - 1)
    BY <2>1 DEF Regular, market_session
  <2>3. Day(u) = Day(t) /\ REGULAR_OPEN <= Time(t)
    <3>1. REGULAR_OPEN <= Time(u)  BY <2>2
    <3> QED  BY <1>7, <1>9, <2>2, <3>1
  <2>4. Time(t) <= Time(u)
    <3>1. Time(u) \in Nat /\ Time(t) \in Nat  BY Split
    <3> QED  BY <1>9, <2>3, <3>1, Order
  <2>5. Time(t) \in REGULAR_OPEN..(market_close(Day(t)) - 1)
    BY <1>1, <2>2, <2>3, <2>4, Lengths
  <2>6. Time(t) \notin PREMARKET_OPEN..(REGULAR_OPEN - 1)  BY <2>5, Lengths
  <2> QED  BY <1>9, <2>2, <2>3, <2>5, <2>6 DEF Regular, market_session
<1> QED  BY <1>3, <1>4, <1>5, <1>6, <1>8, <1>9 DEF n

-----------------------------------------------------------------------------
(* The close's housekeeping *)

\* The close job fires at every close, early ones included, and never between
\* two of them (SessionCloseTrigger).
THEOREM HousekeepsNext ==
  ASSUME NEW t \in Nat
  PROVE  LET n == next_session_housekeeping(t) IN
         /\ n \in Nat /\ t < n /\ IsHousekeeping(n)
         /\ \A u \in Nat : t < u /\ u < n => ~IsHousekeeping(u)
<1> DEFINE n == next_session_housekeeping(t)
           time(d) == market_close(d) + CloseDelay
<1>1. /\ Day(t) \in Nat /\ Time(t) \in 0..(DayLength - 1)
      /\ \A d : time(d) \in 0..(DayLength - 1)
  BY Split, Lengths
<1>2. ASSUME NEW d \in Nat PROVE At(d, market_close(d)) + CloseDelay = At(d, time(d))
  <2>1. d * DayLength \in Nat /\ market_close(d) \in Nat /\ CloseDelay \in Nat  BY Lengths
  <2> QED  BY <2>1 DEF At
<1>3. PICK d \in Nat :
        /\ n = At(d, time(d)) /\ is_market_day(d) /\ Day(t) <= d
        /\ d = Day(t) => t < n
        /\ \A e \in Nat : Day(t) < e /\ e < d => ~is_market_day(e)
        /\ d # Day(t) => ~(is_market_day(Day(t)) /\ t < At(Day(t), time(Day(t))))
  <2>1. CASE is_market_day(Day(t)) /\ At(Day(t), market_close(Day(t))) + CloseDelay > t
    <3>1. n = At(Day(t), market_close(Day(t))) + CloseDelay
      BY <2>1 DEF next_session_housekeeping
    <3>2. n = At(Day(t), time(Day(t)))  BY <1>1, <1>2, <3>1
    <3>3. n \in Nat  BY <1>1, <3>2, Compose
    <3> HIDE DEF n, time
    <3> QED  BY <1>1, <2>1, <3>1, <3>2, <3>3
  <2>2. CASE ~(is_market_day(Day(t)) /\ At(Day(t), market_close(Day(t))) + CloseDelay > t)
    <3> DEFINE d == NextMarketDay(Day(t))
    <3>1. n = At(d, market_close(d)) + CloseDelay
      BY <2>2 DEF next_session_housekeeping
    <3>2. /\ d \in Nat /\ Day(t) < d /\ is_market_day(d)
          /\ \A e \in Nat : Day(t) < e /\ e < d => ~is_market_day(e)
      BY <1>1, NextDay
    <3>3. n = At(d, time(d))  BY <1>2, <3>1, <3>2
    <3>4. ~(is_market_day(Day(t)) /\ t < At(Day(t), time(Day(t))))
      <4>1. At(Day(t), market_close(Day(t))) + CloseDelay = At(Day(t), time(Day(t)))
        BY <1>1, <1>2
      <4>2. At(Day(t), time(Day(t))) \in Nat  BY <1>1, Compose
      <4> HIDE DEF n, d, time
      <4> QED  BY <2>2, <4>1, <4>2
    <3> HIDE DEF n, d, time
    <3>5. Day(t) <= d /\ d # Day(t)  BY <1>1, <3>2
    <3> QED  BY <3>2, <3>3, <3>4, <3>5
  <2> QED  BY <2>1, <2>2
<1> HIDE DEF n
<1>4. n \in Nat /\ Day(n) = d /\ Time(n) = time(d)  BY <1>1, <1>3, Compose
<1>5. t < n
  <2>1. d # Day(t) => Day(t) < Day(n)  BY <1>1, <1>3, <1>4
  <2> QED  BY <1>3, <1>4, <2>1, Order
<1>6. IsHousekeeping(n)  BY <1>3, <1>4 DEF IsHousekeeping
<1>7. ASSUME NEW u \in Nat, t < u, u < n PROVE ~IsHousekeeping(u)
  <2>1. SUFFICES ASSUME IsHousekeeping(u) PROVE FALSE  OBVIOUS
  <2>2. is_market_day(Day(u)) /\ Time(u) = time(Day(u))  BY <2>1 DEF IsHousekeeping
  <2>3. Day(u) \in Nat /\ Day(t) <= Day(u) /\ Day(u) <= d /\ u = At(Day(u), Time(u))
    BY <1>4, <1>7, Order, Split
  <2>4. Day(u) # d
    <3>1. SUFFICES ASSUME Day(u) = d PROVE FALSE  OBVIOUS
    <3>2. u = n  BY <1>3, <2>2, <2>3, <3>1
    <3> QED  BY <1>4, <1>7, <3>2
  <2> HIDE DEF time
  <2>5. Day(u) = Day(t) /\ d # Day(t)  BY <1>1, <1>3, <2>2, <2>3, <2>4
  <2> QED  BY <1>3, <1>7, <2>2, <2>3, <2>5
<1> QED  BY <1>4, <1>5, <1>6, <1>7 DEF n
-----------------------------------------------------------------------------
(* The scanner's runs *)

\* Every session's minutes are whole: a time of the day at a minute's start,
\* taken some seconds later, is still of that day and at that second.
LEMMA Seconds ==
  ASSUME NEW d \in Nat, NEW s \in 0..(Minute - 1),
         NEW time \in {REGULAR_OPEN, EARLY_CLOSE, REGULAR_CLOSE}
  PROVE  /\ time + s \in 0..(DayLength - 1)
         /\ At(d, time) + s = At(d, time + s)
         /\ At(d, time + s) % Minute = s
<1>1. PICK k \in Nat : DayLength = k * Minute
  <2>1. DayLength \in Nat /\ DayLength % Minute = 0 /\ Minute \in Nat \ {0}
    BY CalendarAssumption
  <2> QED  BY <2>1, DayLength = (DayLength \div Minute) * Minute, DayLength \div Minute \in Nat
<1>2. PICK j \in Nat : time = j * Minute
  <2>1. time \in Nat /\ time % Minute = 0 /\ Minute \in Nat \ {0}
    BY CalendarAssumption
  <2> QED  BY <2>1, time = (time \div Minute) * Minute, time \div Minute \in Nat
<1>3. time \in Nat /\ time < DayLength /\ Minute \in Nat \ {0}  BY Lengths, CalendarAssumption
<1>4. j < k
  <2>1. SUFFICES ASSUME ~(j < k) PROVE FALSE  OBVIOUS
  <2>2. k * Minute <= j * Minute
    <3>1. PICK i \in Nat : j = k + i  BY <2>1
    <3>2. j * Minute = k * Minute + i * Minute  BY <1>3, <3>1
    <3>3. i * Minute \in Nat /\ k * Minute \in Nat  BY <1>3
    <3> QED  BY <3>2, <3>3
  <2> QED  BY <1>1, <1>2, <1>3, <2>2, Lengths
<1>5. time + Minute <= DayLength
  <2>1. PICK i \in Nat : k = j + 1 + i  BY <1>4
  <2>2. k * Minute = j * Minute + Minute + i * Minute  BY <1>3, <2>1
  <2>3. i * Minute \in Nat  BY <1>3
  <2> QED  BY <1>1, <1>2, <1>3, <2>2, <2>3, Lengths
<1>6. d * DayLength \in Nat  BY Lengths
<1>7. time + s \in 0..(DayLength - 1)  BY <1>3, <1>5, Lengths
<1>8. At(d, time) + s = At(d, time + s)  BY <1>3, <1>6 DEF At
<1>9. At(d, time + s) % Minute = s
  <2>1. PICK m \in Nat : d * DayLength + time = m * Minute
    <3>1. d * DayLength = (d * k) * Minute /\ d * k \in Nat  BY <1>1, <1>3
    <3>2. (d * k) * Minute + j * Minute = (d * k + j) * Minute  BY <1>3, <3>1
    <3> QED  BY <1>2, <3>1, <3>2
  <2>2. At(d, time + s) = m * Minute + s  BY <1>3, <1>6, <2>1 DEF At
  <2>3. m * Minute + s \in Nat  BY <1>3
  <2>4. (m * Minute + s) = ((m * Minute + s) \div Minute) * Minute + ((m * Minute + s) % Minute)
        /\ (m * Minute + s) \div Minute \in Nat /\ (m * Minute + s) % Minute \in 0..(Minute - 1)
    BY <1>3, <2>3
  <2> QED  BY <1>3, <2>2, <2>4, Unique
<1> QED  BY <1>7, <1>8, <1>9

\* The next instant at this second of a minute.
LEMMA NextSecond ==
  ASSUME NEW t \in Nat, NEW s \in 0..(Minute - 1)
  PROVE  LET this == t - (t % Minute) + s
             c == IF this <= t THEN this + Minute ELSE this
         IN  /\ c \in Nat /\ t < c /\ c % Minute = s
             /\ \A u \in Nat : t < u /\ u % Minute = s => c <= u
<1> DEFINE this == t - (t % Minute) + s
           c == IF this <= t THEN this + Minute ELSE this
<1>1. Minute \in Nat \ {0}  BY Lengths
<1>2. PICK q \in Nat, r \in 0..(Minute - 1) : t % Minute = r /\ t = q * Minute + r
  BY <1>1, t = (t \div Minute) * Minute + (t % Minute), t \div Minute \in Nat,
     t % Minute \in 0..(Minute - 1)
<1>3. q * Minute \in Nat /\ this = q * Minute + s
  <2>1. q * Minute \in Nat  BY <1>1
  <2>2. t - (t % Minute) = q * Minute  BY <1>2, <2>1
  <2> QED  BY <2>1, <2>2
<1>4. c = (IF s <= r THEN q * Minute + Minute + s ELSE q * Minute + s)
  BY <1>1, <1>2, <1>3
<1>5. PICK p \in Nat : c = p * Minute + s /\ p = (IF s <= r THEN q + 1 ELSE q)
  <2>1. (q + 1) * Minute = q * Minute + Minute  BY <1>1
  <2> HIDE DEF c
  <2> QED  BY <1>1, <1>4, <2>1
<1> HIDE DEF this, c
<1>6. c \in Nat /\ t < c  BY <1>1, <1>2, <1>3, <1>4
<1>7. c % Minute = s
  <2>1. PICK x \in Nat, y \in 0..(Minute - 1) : c = x * Minute + y /\ c % Minute = y
    BY <1>1, <1>6, c = (c \div Minute) * Minute + (c % Minute), c \div Minute \in Nat,
       c % Minute \in 0..(Minute - 1)
  <2>2. p * Minute + s = x * Minute + y => s = y  BY <1>1, Unique
  <2> QED  BY <1>5, <2>1, <2>2
<1>8. ASSUME NEW u \in Nat, t < u, u % Minute = s PROVE c <= u
  <2>1. PICK m \in Nat : u = m * Minute + s
    BY <1>1, <1>8, u = (u \div Minute) * Minute + (u % Minute), u \div Minute \in Nat
  <2>2. u < c => m < p
    <3>1. SUFFICES ASSUME u < c, ~(m < p) PROVE FALSE  BY <1>5, <2>1
    <3>2. p < m \/ p = m  BY <3>1
    <3>3. p = m => FALSE  BY <1>1, <1>5, <1>6, <2>1, <3>1
    <3>4. p < m => c < u  BY <1>1, <1>5, <2>1, Unique
    <3> QED  BY <1>6, <3>1, <3>2, <3>3, <3>4
  <2>3. m < p => u <= t
    <3>1. SUFFICES ASSUME m < p PROVE u <= t  OBVIOUS
    <3>2. m < q \/ (m = q /\ s <= r)  BY <1>2, <1>5, <3>1
    <3>3. m < q => u < t  BY <1>1, <1>2, <2>1, Unique
    <3>4. m = q /\ s <= r => u <= t  BY <1>2, <1>3, <2>1
    <3> QED  BY <1>8, <3>2, <3>3, <3>4
  <2> QED  BY <1>6, <1>8, <2>2, <2>3
<1> QED  BY <1>6, <1>7, <1>8 DEF c, this

\* The scanner runs at every minute of a session and once at its close, and
\* sleeps from there to the next opening (MarketHoursTrigger).
THEOREM RunsNext ==
  ASSUME NEW t \in Nat, NEW second \in 0..(Minute - 1)
  PROVE  LET n == next_scanner_run(t, second) IN
         /\ n \in Nat /\ t < n /\ IsRun(n, second)
         /\ \A u \in Nat : t < u /\ u < n => ~IsRun(u, second)
<1> DEFINE n == next_scanner_run(t, second)
           this == t - (t % Minute) + second
           c == IF this <= t THEN this + Minute ELSE this
           D == Day(c)
           opens(d) == At(d, REGULAR_OPEN + second)
           closes(d) == At(d, market_close(d) + second)
<1>1. /\ c \in Nat /\ t < c /\ c % Minute = second
      /\ \A u \in Nat : t < u /\ u % Minute = second => c <= u
  <2>1. this = t - (t % Minute) + second  OBVIOUS
  <2> HIDE DEF c, this
  <2> QED  BY NextSecond DEF c, this
<1> HIDE DEF c
<1>2. D \in Nat /\ Time(c) \in 0..(DayLength - 1)  BY <1>1, Split
<1>3. ASSUME NEW d \in Nat
      PROVE  /\ opens(d) = At(d, REGULAR_OPEN) + second
             /\ closes(d) = At(d, market_close(d)) + second
             /\ opens(d) \in Nat /\ closes(d) \in Nat
             /\ Day(opens(d)) = d /\ Time(opens(d)) = REGULAR_OPEN + second
             /\ Day(closes(d)) = d /\ Time(closes(d)) = market_close(d) + second
             /\ opens(d) % Minute = second
  <2>1. market_close(d) \in {EARLY_CLOSE, REGULAR_CLOSE}  BY DEF market_close
  <2>2. /\ REGULAR_OPEN + second \in 0..(DayLength - 1)
        /\ market_close(d) + second \in 0..(DayLength - 1)
        /\ opens(d) = At(d, REGULAR_OPEN) + second /\ opens(d) % Minute = second
        /\ closes(d) = At(d, market_close(d)) + second
    BY <2>1, Seconds
  <2> QED  BY <2>2, Compose
<1>4. n = IF is_market_day(D) /\ c < opens(D) THEN opens(D)
          ELSE IF is_market_day(D) /\ c <= closes(D) THEN c
          ELSE next_market_open(c) + second
  <2>1. ~(second < 0) /\ ~(second >= Minute)  BY Lengths
  <2>2. n = IF is_market_day(D) /\ c < At(D, REGULAR_OPEN) + second
              THEN At(D, REGULAR_OPEN) + second
            ELSE IF is_market_day(D) /\ c <= At(D, market_close(D)) + second THEN c
            ELSE next_market_open(c) + second
    BY <2>1 DEF next_scanner_run, c
  <2> QED  BY <1>2, <1>3, <2>2
<1> HIDE DEF n, opens, closes, D
\* A run after t is no earlier than the candidate, and of a day of runs.
<1>5. ASSUME NEW u \in Nat, t < u, IsRun(u, second)
      PROVE  /\ c <= u /\ D <= Day(u) /\ Day(u) \in Nat /\ is_market_day(Day(u))
             /\ opens(Day(u)) <= u /\ u <= closes(Day(u))
  <2>1. /\ is_market_day(Day(u)) /\ u % Minute = second
        /\ Time(u) \in (REGULAR_OPEN + second)..(market_close(Day(u)) + second)
    BY <1>5 DEF IsRun
  <2>2. c <= u  BY <1>1, <1>5, <2>1
  <2>3. Day(u) \in Nat /\ Time(u) \in Nat /\ D <= Day(u)
    BY <1>1, <2>2, Split, Order DEF D
  <2>4. /\ opens(Day(u)) \in Nat /\ Day(opens(Day(u))) = Day(u)
        /\ Time(opens(Day(u))) = REGULAR_OPEN + second
        /\ closes(Day(u)) \in Nat /\ Day(closes(Day(u))) = Day(u)
        /\ Time(closes(Day(u))) = market_close(Day(u)) + second
    BY <1>3, <2>3
  <2>5. ~(Time(u) < Time(opens(Day(u)))) /\ ~(Time(closes(Day(u))) < Time(u))
    BY <2>1, <2>3, <2>4, Lengths
  <2>6. ~(u < opens(Day(u))) /\ ~(closes(Day(u)) < u)
    BY <2>4, <2>5, Order
  <2> QED  BY <2>1, <2>2, <2>3, <2>4, <2>6
<1>6. ASSUME NEW d \in Nat, is_market_day(d)
      PROVE  IsRun(opens(d), second)
  <2>1. REGULAR_OPEN + second \in (REGULAR_OPEN + second)..(market_close(d) + second)
    BY Lengths
  <2> QED  BY <1>3, <1>6, <2>1 DEF IsRun
<1>7. CASE is_market_day(D) /\ c < opens(D)
  <2>1. n = opens(D) /\ n \in Nat /\ t < n /\ IsRun(n, second)
    BY <1>1, <1>2, <1>3, <1>4, <1>6, <1>7
  <2>2. ASSUME NEW u \in Nat, t < u, u < n, IsRun(u, second) PROVE FALSE
    <3>1. D <= Day(u) /\ Day(u) <= Day(n) /\ Day(n) = D /\ Day(u) \in Nat /\ opens(Day(u)) <= u
      BY <1>2, <1>3, <1>5, <2>1, <2>2, Order
    <3>2. Day(u) = D  BY <1>2, <3>1
    <3> QED  BY <2>1, <2>2, <3>1, <3>2
  <2> QED  BY <2>1, <2>2 DEF n
<1>8. CASE is_market_day(D) /\ ~(c < opens(D)) /\ c <= closes(D)
  <2>1. n = c  BY <1>4, <1>8
  <2>2. Time(c) \in (REGULAR_OPEN + second)..(market_close(D) + second)
    <3>1. /\ opens(D) \in Nat /\ Day(opens(D)) = D
          /\ Time(opens(D)) = REGULAR_OPEN + second
          /\ closes(D) \in Nat /\ Day(closes(D)) = D
          /\ Time(closes(D)) = market_close(D) + second
      BY <1>2, <1>3
    <3>2. ~(closes(D) < c)  BY <1>1, <1>8, <3>1
    <3>3. ~(Time(c) < Time(opens(D))) /\ ~(Time(closes(D)) < Time(c))
      BY <1>1, <1>8, <3>1, <3>2, Order DEF D
    <3> QED  BY <1>2, <3>1, <3>3, Lengths
  <2>3. IsRun(n, second)  BY <1>1, <1>8, <2>1, <2>2 DEF IsRun, D
  <2>4. ASSUME NEW u \in Nat, t < u, u < n, IsRun(u, second) PROVE FALSE
    BY <1>1, <1>5, <2>1, <2>4
  <2> QED  BY <1>1, <2>1, <2>3, <2>4 DEF n
<1>9. CASE ~is_market_day(D) \/ (~(c < opens(D)) /\ ~(c <= closes(D)))
  <2> DEFINE d == NextMarketDay(D)
  <2>1. /\ d \in Nat /\ D < d /\ is_market_day(d)
        /\ \A e \in Nat : D < e /\ e < d => ~is_market_day(e)
    BY <1>2, NextDay
  <2>2. ~(is_market_day(D) /\ Time(c) < REGULAR_OPEN)
    <3>1. SUFFICES ASSUME is_market_day(D), Time(c) < REGULAR_OPEN PROVE FALSE  OBVIOUS
    <3>2. /\ opens(D) \in Nat /\ Day(opens(D)) = D
          /\ Time(opens(D)) = REGULAR_OPEN + second
      BY <1>2, <1>3
    <3>3. Time(c) < Time(opens(D))  BY <1>2, <3>1, <3>2, Lengths
    <3>4. c < opens(D)  BY <1>1, <3>2, <3>3, Order DEF D
    <3> QED  BY <1>9, <3>1, <3>4
  <2>3. n = opens(d)
    <3>1. next_market_open(c) = At(d, REGULAR_OPEN)
      BY <2>2 DEF next_market_open, D
    <3>2. n = next_market_open(c) + second  BY <1>4, <1>9
    <3> QED  BY <1>3, <2>1, <3>1, <3>2
  <2> HIDE DEF d
  <2>4. n \in Nat /\ Day(n) = d /\ IsRun(n, second)  BY <1>3, <1>6, <2>1, <2>3
  <2>5. t < n
    <3>1. c < n  BY <1>1, <1>2, <2>1, <2>4, Order DEF D
    <3> QED  BY <1>1, <2>4, <3>1
  <2>6. ASSUME NEW u \in Nat, t < u, u < n, IsRun(u, second) PROVE FALSE
    <3>1. /\ c <= u /\ D <= Day(u) /\ Day(u) \in Nat /\ is_market_day(Day(u))
          /\ opens(Day(u)) <= u /\ u <= closes(Day(u)) /\ Day(u) <= d
      BY <1>5, <2>4, <2>6, Order
    <3>2. Day(u) # d
      BY <1>3, <2>1, <2>3, <2>4, <2>6, <3>1
    <3>3. Day(u) = D  BY <1>2, <2>1, <3>1, <3>2
    <3>4. is_market_day(D) /\ opens(D) \in Nat /\ closes(D) \in Nat
      BY <1>2, <1>3, <3>1, <3>3
    <3>5. ~(c < opens(D)) /\ ~(c <= closes(D))  BY <1>9, <3>4
    <3> QED  BY <1>1, <3>1, <3>3, <3>4, <3>5
  <2> QED  BY <2>4, <2>5, <2>6 DEF n
<1> QED  BY <1>7, <1>8, <1>9
-----------------------------------------------------------------------------
(* The runtime row *)

\* A thread that scans holds a copy whose status is "scanning" (so its final
\* status is always written), and a host that is down runs no thread.
CopyInv ==
  /\ \A t \in Threads : thread[t].pc = "scanning" => thread[t].copy.status = "scanning"
  /\ ~up => \A t \in Threads : thread[t].pc = "idle"

\* The inductive invariant.
ControlInv ==
  /\ ControlTypeOK /\ CopyInv
  /\ HoldIsTheOperators /\ ScanningMeansRunning /\ HeldAnnouncesNothing

\* What a commit of a session keeps: the type of the row, and every column the
\* session neither changed nor stamped.
LEMMA MergeFields ==
  ASSUME NEW now \in Runtime, NEW copy \in Runtime, NEW new \in Runtime, NEW stamps
  PROVE  /\ Merge(now, copy, new, stamps) \in Runtime
         /\ "hold" \notin stamps /\ new.hold = copy.hold
              => Merge(now, copy, new, stamps).hold = now.hold
         /\ "next" \notin stamps /\ new.next = copy.next
              => Merge(now, copy, new, stamps).next = now.next
         /\ new.status # copy.status
              => Merge(now, copy, new, stamps).status = new.status
         /\ Merge(now, copy, new, stamps).status \in {now.status, new.status}
BY DEF Merge, Runtime

\* The rows the operator, the housekeeping and the startup write.
LEMMA WrittenRows ==
  ASSUME NEW r \in Runtime, instant \in Nat, NEW hold \in BOOLEAN
  PROVE  /\ Held(r) \in Runtime /\ Held(r).hold = r.hold
         /\ Held(r).status = "held_by_operator" /\ Held(r).next = None
         /\ Failed(r) \in Runtime /\ Failed(r).hold = r.hold
         /\ Failed(r).status = "error"
         /\ Reconciled(r) \in Runtime /\ Reconciled(r).hold = r.hold
         /\ Reconciled(r).status # "scanning"
         /\ Reconciled(r).status = "held_by_operator" => Reconciled(r).next = None
         /\ Commanded(r, hold) \in Runtime /\ Commanded(r, hold).hold = hold
         /\ Commanded(r, hold).status # "scanning"
         /\ Commanded(r, hold).status = "held_by_operator"
              => Commanded(r, hold).next = None
<1>1. next_market_open(instant) \in Int /\ None \in Int /\ instant \in Int
  BY OpensNext DEF None
<1>3. /\ "error" \in Status /\ "held_by_operator" \in Status
      /\ "resume_pending" \in Status /\ "idle_market_closed" \in Status
  BY DEF Status
<1>4. /\ Held(r) \in Runtime /\ Held(r).hold = r.hold
      /\ Held(r).status = "held_by_operator" /\ Held(r).next = None
  BY <1>1, <1>3 DEF Held, Runtime
<1>5. Failed(r) \in Runtime /\ Failed(r).hold = r.hold /\ Failed(r).status = "error"
  BY <1>3 DEF Failed, Runtime
<1>6. /\ Reconciled(r) \in Runtime /\ Reconciled(r).hold = r.hold
      /\ Reconciled(r).status # "scanning"
      /\ Reconciled(r).status = "held_by_operator" => Reconciled(r).next = None
  <2>1. CASE r.hold
    <3>1. Reconciled(r) = Held(r)
      BY <2>1 DEF Reconciled
    <3>2. QED  BY <3>1, <1>4
  <2>2. CASE ~r.hold /\ ~Regular(instant)
    <3>1. Reconciled(r) = [r EXCEPT !.status = "idle_market_closed",
                                    !.next = next_market_open(instant)]
      BY <2>2 DEF Reconciled
    <3>2. /\ Reconciled(r) \in Runtime /\ Reconciled(r).hold = r.hold
          /\ Reconciled(r).status = "idle_market_closed"
      BY <3>1, <1>1, <1>3 DEF Runtime
    <3>3. QED  BY <3>2
  <2>3. CASE ~r.hold /\ Regular(instant)
    <3>1. Reconciled(r) = [r EXCEPT !.status = "resume_pending", !.next = instant]
      BY <2>3 DEF Reconciled
    <3>2. /\ Reconciled(r) \in Runtime /\ Reconciled(r).hold = r.hold
          /\ Reconciled(r).status = "resume_pending"
      BY <3>1, <1>1, <1>3 DEF Runtime
    <3>3. QED  BY <3>2
  <2>4. QED  BY <2>1, <2>2, <2>3
<1>7. /\ Commanded(r, hold) \in Runtime /\ Commanded(r, hold).hold = hold
      /\ Commanded(r, hold).status # "scanning"
      /\ Commanded(r, hold).status = "held_by_operator" => Commanded(r, hold).next = None
  <2>1. CASE hold
    <3>1. hold = TRUE /\ Commanded(r, hold) = [Held(r) EXCEPT !.hold = TRUE]
      BY <2>1 DEF Commanded
    <3>2. QED  BY <3>1, <1>4 DEF Runtime
  <2>2. CASE ~hold /\ Regular(instant)
    <3>1. hold = FALSE /\ Commanded(r, hold) = [r EXCEPT !.hold = FALSE,
                                                         !.status = "resume_pending"]
      BY <2>2 DEF Commanded
    <3>2. QED  BY <3>1, <1>3 DEF Runtime
  <2>3. CASE ~hold /\ ~Regular(instant)
    <3>1. hold = FALSE /\ Commanded(r, hold) = [r EXCEPT !.hold = FALSE,
                            !.status = "idle_market_closed", !.next = next_market_open(instant)]
      BY <2>3 DEF Commanded
    <3>2. QED  BY <3>1, <1>1, <1>3 DEF Runtime
  <2>4. QED  BY <2>1, <2>2, <2>3
<1>8. QED
  BY <1>4, <1>5, <1>6, <1>7

\* Every kind of thread record is well typed.
LEMMA ThreadTyped ==
  ASSUME ControlTypeOK, NEW t \in Threads
  PROVE  /\ thread[t].pc \in {"idle", "waiting", "scanning"}
         /\ thread[t].copy \in Runtime /\ thread[t].candle \in Int
         /\ thread[t].universe \in Nat
         /\ Idle \in [pc : {"idle", "waiting", "scanning"}, copy : Runtime,
                      candle : Int, universe : Nat]
BY DEF ControlTypeOK, Idle, Fresh, Runtime, Status, None

\* The initial row and threads satisfy the invariant.
LEMMA InitControl == ControlInit => ControlInv
<1> SUFFICES ASSUME ControlInit PROVE ControlInv
  OBVIOUS
<1>1. Fresh \in Runtime /\ Fresh.hold = FALSE /\ Fresh.status = "starting"
  BY DEF Fresh, Runtime, Status, None
<1>2. Idle \in [pc : {"idle", "waiting", "scanning"}, copy : Runtime,
                candle : Int, universe : Nat] /\ Idle.pc = "idle"
  BY <1>1 DEF Idle, None
<1>3. \A t \in Threads : thread[t] = Idle
  BY DEF ControlInit
<1>4. ControlTypeOK
  <2>1. latest \in [candle : Int, universe : Int] /\ firedAt \in Int /\ housekeptOn \in Int
    BY DEF ControlInit, None
  <2>2. runtime \in Runtime /\ {up, wanted} \subseteq BOOLEAN
    BY <1>1 DEF ControlInit
  <2>3. thread \in [Threads -> [pc : {"idle", "waiting", "scanning"}, copy : Runtime,
                                candle : Int, universe : Nat]]
    BY <1>2 DEF ControlInit
  <2>4. \A t, u \in Threads : thread[t].pc = "scanning" /\ thread[u].pc = "scanning" => t = u
    BY <1>2, <1>3
  <2>5. {instant, commands, crashes, watch} \subseteq Nat
    BY DEF ControlInit
  <2>6. QED  BY <2>1, <2>2, <2>3, <2>4, <2>5 DEF ControlTypeOK
<1>5. CopyInv
  BY <1>2, <1>3 DEF CopyInv
<1>6. HoldIsTheOperators /\ ScanningMeansRunning /\ HeldAnnouncesNothing
  BY <1>1 DEF ControlInit, HoldIsTheOperators, ScanningMeansRunning, HeldAnnouncesNothing
<1>7. QED  BY <1>4, <1>5, <1>6 DEF ControlInv

\* A thread that loads the row and waits disturbs nothing.
LEMMA WaitsKeeps ==
  ASSUME ControlInv, NEW t \in Threads, NEW candle \in Int, up,
         thread[t].pc = "idle", Waits(t, candle), firedAt' \in Int,
         UNCHANGED <<instant, up, wanted, commands, crashes, housekeptOn, watch, row>>
  PROVE  ControlInv'
<1>1. thread' \in [Threads -> [pc : {"idle", "waiting", "scanning"}, copy : Runtime,
                               candle : Int, universe : Nat]]
  BY DEF Waits, ControlInv, ControlTypeOK
<1>2. \A u \in Threads : thread'[u].pc = "scanning" <=> thread[u].pc = "scanning"
  BY DEF Waits, ControlInv, ControlTypeOK
<1>3. \A u \in Threads : thread'[u].pc = "scanning" => thread'[u] = thread[u]
  BY DEF Waits, ControlInv, ControlTypeOK
<1>4. ControlTypeOK'
  BY <1>1, <1>2 DEF ControlInv, ControlTypeOK, row, Runtime
<1>5. CopyInv'
  BY <1>2, <1>3 DEF ControlInv, CopyInv
<1>6. (HoldIsTheOperators /\ ScanningMeansRunning /\ HeldAnnouncesNothing)'
  BY <1>2 DEF ControlInv, HoldIsTheOperators, ScanningMeansRunning,
              HeldAnnouncesNothing, Locked, row
<1>7. QED  BY <1>4, <1>5, <1>6 DEF ControlInv

\* A thread that rests leaves a row that no longer says "scanning", or was
\* not scanning in the first place.
LEMMA RestKeeps ==
  ASSUME ControlInv, NEW t \in Threads, Rest(t), UNCHANGED host,
         runtime' \in Runtime, runtime'.hold = runtime.hold,
         runtime'.status = "held_by_operator" => runtime'.next = None,
         \/ runtime'.status # "scanning"
         \/ thread[t].pc # "scanning" /\ runtime' = runtime,
         latest' \in [candle : Int, universe : Int]
  PROVE  ControlInv'
<1>1. thread' \in [Threads -> [pc : {"idle", "waiting", "scanning"}, copy : Runtime,
                               candle : Int, universe : Nat]]
  BY ThreadTyped DEF Rest, ControlInv, ControlTypeOK
<1>2. \A u \in Threads : thread'[u] = IF u = t THEN Idle ELSE thread[u]
  BY DEF Rest, ControlInv, ControlTypeOK
<1>3. ControlTypeOK'
  BY <1>1, <1>2 DEF ControlInv, ControlTypeOK, host, Idle
<1>4. CopyInv'
  BY <1>2 DEF ControlInv, CopyInv, host, Idle
<1>5. ScanningMeansRunning'
  <2>1. CASE runtime'.status # "scanning"
    BY <2>1 DEF ScanningMeansRunning
  <2>2. CASE thread[t].pc # "scanning" /\ runtime' = runtime
    BY <2>2, <1>2 DEF ControlInv, ScanningMeansRunning, Locked, host
  <2>3. QED  BY <2>1, <2>2
<1>6. (HoldIsTheOperators /\ HeldAnnouncesNothing)'
  BY DEF ControlInv, HoldIsTheOperators, HeldAnnouncesNothing, host
<1>7. QED  BY <1>3, <1>4, <1>5, <1>6 DEF ControlInv

\* The lock is taken: the one step that makes a thread scan.
LEMMA StartScanKeeps ==
  ASSUME ControlInv, NEW t \in Threads, StartScan(t)
  PROVE  ControlInv'
<1> DEFINE copy == thread[t].copy
           new  == [copy EXCEPT !.status = "scanning"]
           now  == Merge(runtime, copy, new, {})
<1>1. PICK lag \in ProviderLags :
        /\ runtime' = now
        /\ thread' = [thread EXCEPT ![t] =
             [pc |-> "scanning", copy |-> new,
              candle |-> IF t = Job THEN thread[t].candle ELSE instant - 1 - lag,
              universe |-> thread[t].universe]]
  BY DEF StartScan
<1>2. copy \in Runtime /\ new \in Runtime /\ runtime \in Runtime
  BY ThreadTyped DEF ControlInv, ControlTypeOK, Runtime, Status
<1>3. new.hold = copy.hold /\ new.next = copy.next /\ new.status = "scanning"
  BY <1>2 DEF Runtime
<1>4. /\ now \in Runtime /\ now.hold = runtime.hold /\ now.next = runtime.next
      /\ now.status \in {runtime.status, "scanning"}
  <2> HIDE DEF copy, new
  <2>1. QED  BY <1>2, <1>3, MergeFields
<1>5. lag \in Nat /\ instant \in Nat
  BY ControlAssumption DEF ControlInv, ControlTypeOK
<1>6. /\ thread'[t].pc = "scanning" /\ thread'[t].copy = new
      /\ thread'[t].candle \in Int /\ thread'[t].universe \in Nat
      /\ thread'[t] \in [pc : {"idle", "waiting", "scanning"}, copy : Runtime,
                         candle : Int, universe : Nat]
  <2>1. thread[t].candle \in Int /\ thread[t].universe \in Nat /\ thread[t] = thread[t]
    BY ThreadTyped DEF ControlInv
  <2>2. thread'[t] = [pc |-> "scanning", copy |-> new,
                      candle |-> IF t = Job THEN thread[t].candle ELSE instant - 1 - lag,
                      universe |-> thread[t].universe]
    BY <1>1 DEF ControlInv, ControlTypeOK
  <2> HIDE DEF new
  <2>3. QED  BY <2>1, <2>2, <1>2, <1>5
<1>7. \A u \in Threads : u # t => thread'[u] = thread[u]
  BY <1>1 DEF ControlInv, ControlTypeOK
<1>8. up /\ \A u \in Threads : thread[u].pc # "scanning"
  BY DEF StartScan, Gets, Locked
<1>9. thread' \in [Threads -> [pc : {"idle", "waiting", "scanning"}, copy : Runtime,
                               candle : Int, universe : Nat]]
  BY <1>1, <1>6, <1>7 DEF ControlInv, ControlTypeOK
<1>10. ControlTypeOK'
  BY <1>1, <1>4, <1>7, <1>8, <1>9 DEF ControlInv, ControlTypeOK, StartScan, host
<1>11. CopyInv'
  BY <1>2, <1>6, <1>7, <1>8 DEF CopyInv, ControlInv, StartScan, host, Runtime
<1>12. ScanningMeansRunning'
  BY <1>6 DEF ScanningMeansRunning, Locked
<1>13. (HoldIsTheOperators /\ HeldAnnouncesNothing)'
  BY <1>1, <1>4 DEF ControlInv, HoldIsTheOperators, HeldAnnouncesNothing, StartScan, host
<1>14. QED  BY <1>10, <1>11, <1>12, <1>13 DEF ControlInv

\* The end of a scan always writes its status: its copy says "scanning".
LEMMA EndScanKeeps ==
  ASSUME ControlInv, NEW t \in Threads, EndScan(t)
  PROVE  ControlInv'
<1> DEFINE copy == thread[t].copy
           new  == Scanned(t)
           now  == Merge(runtime, copy, new, {"candle", "next"})
<1>1. thread[t] \in [pc : {"idle", "waiting", "scanning"}, copy : Runtime,
                     candle : Int, universe : Nat] /\ runtime \in Runtime
  BY DEF ControlInv, ControlTypeOK
<1>2. /\ copy \in Runtime /\ new \in Runtime
      /\ new.hold = copy.hold /\ new.status = "healthy"
  <2>1. copy \in Runtime /\ thread[t].candle \in Int /\ thread[t].candle + 2 \in Int
    BY <1>1
  <2>2. new = [copy EXCEPT !.status = "healthy", !.candle = thread[t].candle,
                           !.next = thread[t].candle + 2]
    BY DEF Scanned
  <2> HIDE DEF copy, new
  <2>3. "healthy" \in Status
    BY DEF Status
  <2>4. QED  BY <2>1, <2>2, <2>3 DEF Runtime
<1>3. copy.status = "scanning" /\ thread[t].pc = "scanning"
  BY DEF EndScan, ControlInv, CopyInv
<1>4. now \in Runtime /\ now.hold = runtime.hold /\ now.status = "healthy"
  <2>1. new.status # copy.status /\ "hold" \notin {"candle", "next"}
    BY <1>2, <1>3
  <2> HIDE DEF copy, new
  <2>2. QED  BY <1>1, <1>2, <2>1, MergeFields
<1>5. latest' \in [candle : Int, universe : Int]
  BY <1>1 DEF EndScan
<1>6. QED
  BY <1>4, <1>5, RestKeeps DEF EndScan

\* A step that leaves the threads and their lock alone and writes a row of
\* WrittenRows keeps the invariant.
LEMMA RowKeeps ==
  ASSUME ControlInv, UNCHANGED <<thread, watch, latest>>,
         runtime' \in Runtime, runtime'.hold = wanted', wanted' \in BOOLEAN,
         runtime'.status # "scanning",
         runtime'.status = "held_by_operator" => runtime'.next = None,
         {instant', commands', crashes'} \subseteq Nat, {firedAt', housekeptOn'} \subseteq Int,
         up' \in BOOLEAN, up => up'
  PROVE  ControlInv'
BY DEF ControlInv, ControlTypeOK, CopyInv, HoldIsTheOperators, ScanningMeansRunning,
       HeldAnnouncesNothing

\* A step that touches neither the row nor the threads keeps the invariant.
LEMMA QuietKeeps ==
  ASSUME ControlInv, UNCHANGED <<up, wanted, runtime, thread, latest>>,
         {instant', commands', crashes', watch'} \subseteq Nat,
         {firedAt', housekeptOn'} \subseteq Int
  PROVE  ControlInv'
BY DEF ControlInv, ControlTypeOK, CopyInv, HoldIsTheOperators, ScanningMeansRunning,
       HeldAnnouncesNothing, Locked

\* Every step keeps the invariant.
LEMMA NextControl == ControlInv /\ [ControlNext]_controlVars => ControlInv'
<1> SUFFICES ASSUME ControlInv, [ControlNext]_controlVars PROVE ControlInv'
  OBVIOUS
<1>0. /\ {instant, commands, crashes, watch} \subseteq Nat
      /\ {firedAt, housekeptOn} \subseteq Int
      /\ up \in BOOLEAN /\ wanted \in BOOLEAN /\ runtime \in Runtime
      /\ runtime.hold = wanted /\ Job \in Threads /\ Requests \subseteq Threads
  BY DEF ControlInv, ControlTypeOK, HoldIsTheOperators, Threads
<1>1. CASE JobHeld
  <2>1. UNCHANGED <<instant, up, wanted, commands, crashes, thread, housekeptOn, watch, latest>>
        /\ runtime' = Held(runtime) /\ firedAt' = instant
    BY <1>1 DEF JobHeld
  <2>2. /\ Held(runtime) \in Runtime /\ Held(runtime).hold = runtime.hold
        /\ Held(runtime).status = "held_by_operator" /\ Held(runtime).next = None
    BY <1>0, WrittenRows
  <2>3. QED  BY <1>0, <2>1, <2>2, RowKeeps
<1>2. CASE JobWaits
  <2>1. instant - 1 \in Int /\ firedAt' \in Int
    BY <1>0, <1>2 DEF JobWaits
  <2>2. QED  BY <1>0, <1>2, <2>1, WaitsKeeps DEF JobWaits, Fires
<1>3. CASE SkipScan
  <2>1. thread[Job].pc = "waiting" /\ Rest(Job) /\ UNCHANGED <<host, row>>
    BY <1>3 DEF SkipScan, Gets
  <2>2. runtime.status = "held_by_operator" => runtime.next = None
    BY DEF ControlInv, HeldAnnouncesNothing
  <2>3. runtime' = runtime /\ latest' = latest /\ latest \in [candle : Int, universe : Int]
    BY <2>1 DEF row, ControlInv, ControlTypeOK
  <2>4. QED  BY <1>0, <2>1, <2>2, <2>3, RestKeeps
<1>4. ASSUME NEW t \in Requests, RequestWaits(t) PROVE ControlInv'
  <2>1. None \in Int /\ firedAt' \in Int
    BY <1>0, <1>4 DEF None, RequestWaits, host
  <2>2. QED  BY <1>0, <1>4, <2>1, WaitsKeeps DEF RequestWaits, host
<1>5. ASSUME NEW t \in Threads, StartScan(t) PROVE ControlInv'
  BY <1>5, StartScanKeeps
<1>6. ASSUME NEW t \in Threads, EndScan(t) PROVE ControlInv'
  BY <1>6, EndScanKeeps
<1>7. ASSUME NEW t \in Threads, ScanFails(t) PROVE ControlInv'
  <2>1. runtime' = Failed(runtime) /\ latest' = latest
        /\ latest \in [candle : Int, universe : Int]
    BY <1>7 DEF ScanFails, ControlInv, ControlTypeOK
  <2>2. QED  BY <1>0, <1>7, <2>1, WrittenRows, RestKeeps DEF ScanFails
<1>8. ASSUME NEW hold \in BOOLEAN, Command(hold) PROVE ControlInv'
  BY <1>0, <1>8, WrittenRows, RowKeeps DEF Command
<1>9. CASE CloseHousekeeping
  <2>1. Day(instant) \in Int
    BY <1>0, Split
  <2>2. QED  BY <1>0, <1>9, <2>1, WrittenRows, RowKeeps DEF CloseHousekeeping
<1>10. CASE Crash
  <2>1. /\ UNCHANGED <<instant, wanted, commands, firedAt, housekeptOn, watch, runtime, latest>>
        /\ crashes' = crashes + 1 /\ up' = FALSE
        /\ thread' = [t \in Threads |-> Idle]
    BY <1>10 DEF Crash, row
  <2>2. Idle \in [pc : {"idle", "waiting", "scanning"}, copy : Runtime,
                  candle : Int, universe : Nat] /\ Idle.pc = "idle"
    BY <1>0, ThreadTyped DEF ControlInv, Idle
  <2>3. \A t \in Threads : thread'[t].pc = "idle"
    BY <2>1, <2>2
  <2>4. ControlTypeOK'
    <3>1. thread' \in [Threads -> [pc : {"idle", "waiting", "scanning"}, copy : Runtime,
                                   candle : Int, universe : Nat]]
      BY <2>1, <2>2
    <3>2. \A t, u \in Threads :
            thread'[t].pc = "scanning" /\ thread'[u].pc = "scanning" => t = u
      BY <2>3
    <3>3. /\ {instant', commands', crashes', watch'} \subseteq Nat
          /\ {firedAt', housekeptOn'} \subseteq Int
      BY <1>0, <2>1
    <3>4. {up', wanted'} \subseteq BOOLEAN
      BY <1>0, <2>1
    <3>5. runtime' \in Runtime /\ latest' \in [candle : Int, universe : Int]
      BY <2>1 DEF ControlInv, ControlTypeOK
    <3>6. QED  BY <3>1, <3>2, <3>3, <3>4, <3>5 DEF ControlTypeOK
  <2>5. (CopyInv /\ HoldIsTheOperators /\ ScanningMeansRunning /\ HeldAnnouncesNothing)'
    BY <2>1, <2>3 DEF ControlInv, CopyInv, HoldIsTheOperators, ScanningMeansRunning,
                      HeldAnnouncesNothing
  <2>6. QED  BY <2>4, <2>5 DEF ControlInv
<1>11. CASE Startup
  BY <1>0, <1>11, WrittenRows, RowKeeps DEF Startup
<1>12. CASE ChangeWatch
  BY <1>0, <1>12, QuietKeeps DEF ChangeWatch, row
<1>13. CASE ClockTick
  BY <1>0, <1>13, QuietKeeps DEF ClockTick, row
<1>14. CASE UNCHANGED controlVars
  BY <1>0, <1>14, QuietKeeps DEF controlVars
<1>15. QED
  BY <1>1, <1>2, <1>3, <1>4, <1>5, <1>6, <1>7, <1>8, <1>9, <1>10, <1>11, <1>12, <1>13,
     <1>14 DEF ControlNext

\* A row that is written as idle announces the opening that ends its rest.
LEMMA IdleRows ==
  ASSUME NEW r \in Runtime, instant \in Nat, NEW hold \in BOOLEAN,
         NEW w \in {Held(r), Failed(r), Reconciled(r), Commanded(r, hold)},
         w.status = "idle_market_closed"
  PROVE  \A u \in instant..(w.next - 1) : ~Regular(u)
<1>1. ~Regular(instant) /\ w.next = next_market_open(instant)
  <2>1. w # Held(r) /\ w # Failed(r)  BY WrittenRows
  <2>2. CASE w = Reconciled(r)
    <3>1. ~r.hold  BY <2>1, <2>2 DEF Reconciled
    <3>2. ~Regular(instant)
      <4>1. SUFFICES ASSUME Regular(instant) PROVE FALSE  OBVIOUS
      <4>2. w = [r EXCEPT !.status = "resume_pending", !.next = instant]
        BY <2>2, <3>1, <4>1 DEF Reconciled
      <4> QED  BY <4>2 DEF Runtime
    <3>3. w = [r EXCEPT !.status = "idle_market_closed", !.next = next_market_open(instant)]
      BY <2>2, <3>1, <3>2 DEF Reconciled
    <3> QED  BY <3>2, <3>3 DEF Runtime
  <2>3. CASE w = Commanded(r, hold)
    <3>1. ~hold
      <4>1. SUFFICES ASSUME hold PROVE FALSE  OBVIOUS
      <4>2. w = [Held(r) EXCEPT !.hold = TRUE]  BY <2>3, <4>1 DEF Commanded
      <4> QED  BY <4>2, WrittenRows DEF Runtime
    <3>2. ~Regular(instant)
      <4>1. SUFFICES ASSUME Regular(instant) PROVE FALSE  OBVIOUS
      <4>2. w = [r EXCEPT !.hold = FALSE, !.status = "resume_pending"]
        BY <2>3, <3>1, <4>1 DEF Commanded
      <4> QED  BY <4>2 DEF Runtime
    <3>3. w = [r EXCEPT !.hold = FALSE, !.status = "idle_market_closed",
                        !.next = next_market_open(instant)]
      BY <2>3, <3>1, <3>2 DEF Commanded
    <3> QED  BY <3>2, <3>3 DEF Runtime
  <2> QED  BY <2>1, <2>2, <2>3
<1>2. /\ next_market_open(instant) \in Nat
      /\ \A u \in Nat : instant <= u /\ u < next_market_open(instant) => ~Regular(u)
  BY <1>1, OpensNext
<1> QED  BY <1>1, <1>2

\* What a scan writes to the status and the announcement.
LEMMA ScanRows ==
  ASSUME ControlInv, NEW t \in Threads
  PROVE  /\ StartScan(t) => /\ runtime'.next = runtime.next
                            /\ runtime'.status \in {runtime.status, "scanning"}
         /\ EndScan(t) => runtime'.status = "healthy"
<1> DEFINE copy == thread[t].copy
           scans == [copy EXCEPT !.status = "scanning"]
<1>1. /\ copy \in Runtime /\ runtime \in Runtime /\ thread[t].candle \in Int
      /\ thread[t].candle + 2 \in Int
  BY ThreadTyped DEF ControlInv, ControlTypeOK
<1>2. ASSUME StartScan(t)
      PROVE  runtime'.next = runtime.next /\ runtime'.status \in {runtime.status, "scanning"}
  <2>1. runtime' = Merge(runtime, copy, scans, {})  BY <1>2 DEF StartScan
  <2>2. scans \in Runtime /\ scans.next = copy.next /\ scans.status = "scanning"
    BY <1>1 DEF Runtime, Status
  <2> HIDE DEF copy, scans
  <2> QED  BY <1>1, <2>1, <2>2, MergeFields
<1>3. ASSUME EndScan(t) PROVE runtime'.status = "healthy"
  <2>1. runtime' = Merge(runtime, copy, Scanned(t), {"candle", "next"})
        /\ copy.status = "scanning"
    BY <1>3 DEF EndScan, ControlInv, CopyInv
  <2>2. Scanned(t) \in Runtime /\ Scanned(t).status = "healthy"
    <3>1. Scanned(t) = [copy EXCEPT !.status = "healthy", !.candle = thread[t].candle,
                                    !.next = thread[t].candle + 2]
      BY DEF Scanned
    <3> HIDE DEF copy
    <3> QED  BY <1>1, <3>1 DEF Runtime, Status
  <2> HIDE DEF copy
  <2> QED  BY <1>1, <2>1, <2>2, MergeFields
<1> QED  BY <1>2, <1>3

\* A step writes the row by one of these, or leaves it alone, and time goes on.
LEMMA NextIdle == ControlInv /\ IdleUntilOpen /\ [ControlNext]_controlVars => IdleUntilOpen'
<1> SUFFICES ASSUME ControlInv, IdleUntilOpen, [ControlNext]_controlVars PROVE IdleUntilOpen'
  OBVIOUS
<1>1. instant \in Nat /\ runtime \in Runtime  BY DEF ControlInv, ControlTypeOK
<1>2. ASSUME runtime'.status = runtime.status, runtime'.next = runtime.next,
             instant' \in {instant, instant + 1}
      PROVE  IdleUntilOpen'
  <2>1. runtime.next \in Int  BY <1>1 DEF Runtime
  <2> QED  BY <1>1, <1>2, <2>1 DEF IdleUntilOpen
<1>3. ASSUME NEW hold \in BOOLEAN, instant' = instant,
             runtime' \in {Held(runtime), Failed(runtime), Reconciled(runtime),
                           Commanded(runtime, hold)}
      PROVE  IdleUntilOpen'
  BY <1>1, <1>3, IdleRows DEF IdleUntilOpen
<1>4. CASE \E t \in Threads : StartScan(t)
  <2>1. PICK t \in Threads : StartScan(t)  BY <1>4
  <2>2. instant' = instant /\ runtime'.next = runtime.next
        /\ runtime'.status \in {runtime.status, "scanning"}
    BY <2>1, ScanRows DEF StartScan, host
  <2>3. CASE runtime'.status = "scanning"  BY <2>3 DEF IdleUntilOpen
  <2> QED  BY <1>2, <2>2, <2>3
<1>5. CASE \E t \in Threads : EndScan(t)
  <2>1. PICK t \in Threads : EndScan(t)  BY <1>5
  <2> QED  BY <2>1, ScanRows DEF IdleUntilOpen
<1>6. CASE JobHeld \/ \E t \in Threads : ScanFails(t)
  <2>1. instant' = instant /\ runtime' \in {Held(runtime), Failed(runtime)}
    BY <1>6 DEF JobHeld, ScanFails, host
  <2> QED  BY <1>3, <2>1
<1>7. CASE CloseHousekeeping \/ Startup \/ \E hold \in BOOLEAN : Command(hold)
  BY <1>3, <1>7 DEF CloseHousekeeping, Startup, Command
<1>8. CASE \/ JobWaits \/ SkipScan \/ Crash \/ ChangeWatch
           \/ \E t \in Requests : RequestWaits(t)
           \/ UNCHANGED controlVars
  BY <1>2, <1>8 DEF JobWaits, SkipScan, Crash, ChangeWatch, RequestWaits, host, row, controlVars
<1>9. CASE ClockTick
  BY <1>2, <1>9 DEF ClockTick, row
<1> QED  BY <1>4, <1>5, <1>6, <1>7, <1>8, <1>9 DEF ControlNext

\* The invariant holds in every behaviour.
LEMMA Always == ControlSpec => []ControlInv
BY InitControl, NextControl, PTL DEF ControlSpec

\* TypeOK: the row and the threads keep their types, and SCAN_LOCK lets one
\* thread scan at a time (_run_signal_scan).
THEOREM ControlTypeCorrect == ControlSpec => []ControlTypeOK
BY Always, PTL DEF ControlInv

\* HoldIsTheOperators: only the operator changes operator_hold, whatever copies
\* of the row the scans commit (scanner_control).
THEOREM HoldKept == ControlSpec => []HoldIsTheOperators
BY Always, PTL DEF ControlInv

\* ScanningMeansRunning: "scanning" is on the row only while a thread scans,
\* across failures and crashes (_run_signal_scan, reconcile_runtime_on_startup).
THEOREM StatusHonest == ControlSpec => []ScanningMeansRunning
BY Always, PTL DEF ControlInv

\* HeldAnnouncesNothing: a held row never announces a next evaluation.
THEOREM HeldSilent == ControlSpec => []HeldAnnouncesNothing
BY Always, PTL DEF ControlInv

\* IdleUntilOpen: a row that says the market is closed announces the opening
\* before which no session runs (reconcile_runtime_on_startup, scanner_control).
THEOREM IdleTold == ControlSpec => []IdleUntilOpen
<1>1. ControlInit => IdleUntilOpen
  BY DEF ControlInit, Fresh, IdleUntilOpen
<1> QED  BY <1>1, Always, NextIdle, PTL DEF ControlSpec

\* RowHonest: the status and the announced evaluation of the runtime row are
\* those of the threads and the calendar, whatever stale copies are committed.
THEOREM RowAlwaysHonest == ControlSpec => []RowHonest
BY StatusHonest, HeldSilent, IdleTold, PTL DEF RowHonest
-----------------------------------------------------------------------------
(* SignalLifecycle *)

\* The tables have their types, and alerts are of rows that exist.
TablesInv ==
  /\ clock \in Nat /\ closedOn \in Int /\ restarts \in Nat
  /\ rows \in Seq(Row) /\ Len(rows) <= MaxRows
  /\ alerts \subseteq (DOMAIN rows) \X Events
  /\ tracked \subseteq (DOMAIN rows) \X {"BUY", "MISSED"}

DraftAlerts(d, id) ==
  (IF d.target = 0 THEN {} ELSE StatusAlert(d.target, d.old.status, d.new.status))
    \cup (IF d.fresh # <<>> THEN {<<id, OpeningAlert(d.candidate)>>} ELSE {})
    \cup (IF id = 0 THEN {} ELSE ClosingAlert(id, d.candidate))

\* What a draft knew when it was made and what remains true until its commit: its
\* row is as it was loaded, or a paper entry has ended it; nothing else is active
\* on its day; it opens a row only if it ends the one it found.
DraftOK(d, candle) ==
  /\ d.candidate \in Candidate
  /\ d.target \in {0} \cup DOMAIN rows
  /\ d.target # 0 =>
       /\ d.old \in Row /\ d.old.status \in ACTIVE_STATES
       /\ d.new = Verified(d.old, d.candidate, candle)
       /\ <<d.target, Announcement(d.old.status)>> \in alerts
       /\ \/ rows[d.target] = d.old
          \/ d.old.status = "BUY" /\ rows[d.target].status = "ENTERED"
  /\ ActiveOn(DayOf(candle + 1)) \subseteq {d.target}
  /\ \/ /\ d.fresh = <<>>
        /\ Directed(d.candidate) /\ d.candidate.signal # "PASS"
             => d.target # 0 /\ ~Conflicts(d.candidate, d.old)
     \/ /\ d.fresh = <<NewRow(d.candidate, candle)>> /\ Len(rows) < MaxRows
        /\ Directed(d.candidate) /\ d.candidate.signal # "PASS"
        /\ d.target # 0 => d.new.status \in Terminal
  /\ d.alerts = DraftAlerts(d, IF d.fresh # <<>> THEN Len(rows) + 1 ELSE d.target)

ScanInv ==
  /\ scan = [pc |-> scan.pc, candle |-> scan.candle, draft |-> scan.draft]
  /\ scan.pc \in {"idle", "waiting", "decided"} /\ scan.candle \in Int
  /\ scan.pc = "decided" => DraftOK(scan.draft, scan.candle)

\* The row a paper entry found was bought once and never returns to WATCH.
EntryOK(f) ==
  /\ f.pc \in {"new", "found", "done"}
  /\ f.pc = "found" =>
       /\ f.target \in DOMAIN rows /\ rows[f.target].status # "WATCH"
       /\ f.old \in Row /\ f.old.status = "BUY"
       /\ <<f.target, "BUY">> \in alerts
EntryInv ==
  /\ entry = [e \in Entrants |-> entry[e]]
  /\ \A e \in Entrants : EntryOK(entry[e])

\* The inductive invariant.
LifeInv == TablesInv /\ ScanInv /\ EntryInv /\ RowsExplained

\* The inductive invariant has the types.
LEMMA LifeType == LifeInv => TypeOK
<1> SUFFICES ASSUME LifeInv PROVE TypeOK  OBVIOUS
<1>1. DOMAIN rows = 1..Len(rows) /\ Len(rows) \in Nat  BY DEF LifeInv, TablesInv
<1>2. DOMAIN rows \subseteq RowIds
  BY <1>1, LifecycleAssumption DEF LifeInv, TablesInv, RowIds
<1> QED  BY <1>2 DEF LifeInv, TablesInv, ScanInv, EntryInv, EntryOK, TypeOK
-----------------------------------------------------------------------------
(* Single rows *)

\* apply_lifecycle leaves a row bought, watched or ended, and a bought one never
\* watched.
LEMMA FateKinds ==
  ASSUME NEW c \in Candidate, NEW r \in Row
  PROVE  /\ Fate(c, r) \in {"BUY", "WATCH", "MISSED", "EXPIRED", "INVALIDATED"}
         /\ r.status = "BUY" => Fate(c, r) # "WATCH"
         /\ c.signal \in {"BUY", "MISSED"} /\ Directed(c) /\ ~Conflicts(c, r)
              => Fate(c, r) = c.signal
<1>1. c.signal \in {"BUY", "WATCH", "MISSED", "PASS"}  BY DEF Candidate
<1>2. EndState(c) \in {"EXPIRED", "INVALIDATED"}  BY DEF EndState
<1>3. CASE Conflicts(c, r) \/ ~Directed(c) \/ c.signal = "PASS"
  <2>1. Fate(c, r) = EndState(c)  BY <1>3 DEF Fate
  <2> QED  BY <1>2, <1>3, <2>1
<1>4. CASE ~(Conflicts(c, r) \/ ~Directed(c) \/ c.signal = "PASS") /\ Replaces(c, r)
  <2>1. Fate(c, r) = "EXPIRED"  BY <1>4 DEF Fate
  <2> QED  BY <1>4, <2>1 DEF Replaces
<1>5. CASE ~(Conflicts(c, r) \/ ~Directed(c) \/ c.signal = "PASS") /\ ~Replaces(c, r)
  <2>1. Fate(c, r) = c.signal  BY <1>5 DEF Fate
  <2> QED  BY <1>1, <1>5, <2>1 DEF Replaces
<1> QED  BY <1>3, <1>4, <1>5

\* A verified row keeps its day and gets its fate as its status.
LEMMA VerifiedRow ==
  ASSUME NEW c \in Candidate, NEW r \in Row, NEW candle \in Int
  PROVE  /\ Verified(r, c, candle) \in Row /\ Verified(r, c, candle).status = Fate(c, r)
         /\ Verified(r, c, candle).day = r.day
<1> DEFINE status == Fate(c, r)
<1>1. status \in ACTIVE_STATES \cup Terminal  BY FateKinds DEF ACTIVE_STATES, Terminal
<1>2. candle + 2 \in Int /\ None \in Int  BY DEF None
<1>3. \A stamp \in Int :
        LET v == [r EXCEPT !.status = status, !.validUntil = stamp] IN
        v \in Row /\ v.status = status /\ v.day = r.day
  <2> HIDE DEF status
  <2> QED  BY <1>1 DEF Row
<1>4. Verified(r, c, candle) \in
        {[r EXCEPT !.status = status, !.validUntil = stamp] : stamp \in {candle + 2, None}}
  BY DEF Verified
<1> HIDE DEF status
<1>5. Verified(r, c, candle).status = status  BY <1>2, <1>3, <1>4
<1> QED  BY <1>2, <1>3, <1>4, <1>5 DEF status

\* A new row has the candidate's signal and the candle's day.
LEMMA NewRowKind ==
  ASSUME NEW c \in Candidate, NEW candle \in Int, Directed(c), c.signal # "PASS"
  PROVE  /\ NewRow(c, candle) \in Row /\ NewRow(c, candle).status = c.signal
         /\ NewRow(c, candle).day = DayOf(candle + 1)
<1>1. DayOf(candle + 1) \in Int  BY LifecycleAssumption DEF DayOf
<1>2. c.signal \in ACTIVE_STATES \cup Terminal
  BY DEF Candidate, ACTIVE_STATES, Terminal
<1> QED  BY <1>1, <1>2 DEF NewRow, Row, None, Directed

\* A commit writes the status only if the handler changed it, and never the day.
LEMMA MergedRow ==
  ASSUME NEW now \in Row, NEW old \in Row, NEW new \in Row, new.day = old.day
  PROVE  LET m == Merge(now, old, new, {"validUntil"}) IN
         /\ m \in Row /\ m.day = now.day
         /\ m.status = IF new.status # old.status THEN new.status ELSE now.status
BY DEF Merge, Row

\* An entered row is a row of the same day.
LEMMA EnteredRow ==
  ASSUME NEW r \in Row
  PROVE  Entered(r) \in Row /\ Entered(r).status = "ENTERED" /\ Entered(r).day = r.day
<1>1. "ENTERED" \in ACTIVE_STATES \cup Terminal /\ None \in Int  BY DEF Terminal, None
<1> QED  BY <1>1 DEF Entered, Row

\* An expired row is a row of the same day.
LEMMA ExpiredRow ==
  ASSUME NEW r \in Row
  PROVE  Expired(r) \in Row /\ Expired(r).status = "EXPIRED" /\ Expired(r).day = r.day
<1>1. "EXPIRED" \in ACTIVE_STATES \cup Terminal /\ None \in Int  BY DEF Terminal, None
<1> QED  BY <1>1 DEF Expired, Row

\* No status is both active and terminal.
LEMMA Statuses ==
  /\ ACTIVE_STATES \cap Terminal = {} /\ "BUY" \in ACTIVE_STATES /\ "WATCH" \in ACTIVE_STATES
  /\ "ENTERED" \in Terminal /\ "EXPIRED" \in Terminal /\ "MISSED" \in Terminal
  /\ "INVALIDATED" \in Terminal
BY DEF ACTIVE_STATES, Terminal
-----------------------------------------------------------------------------
(* The scan's draft *)

\* What a scan drafts from the rows it reads is fit to be committed.
LEMMA DraftMade ==
  ASSUME LifeInv, NEW candle \in Int, NEW c \in Candidates,
         Opens(c, ActiveOn(DayOf(candle + 1))) => Len(rows) < MaxRows
  PROVE  DraftOK(Draft(c, candle, ActiveOn(DayOf(candle + 1))), candle)
<1> DEFINE actives == ActiveOn(DayOf(candle + 1))
           target  == IF actives = {} THEN 0 ELSE CHOOSE i \in actives : \A j \in actives : j <= i
           old     == IF target = 0 THEN NoRow ELSE rows[target]
           new     == IF target = 0 THEN NoRow ELSE Verified(old, c, candle)
           d       == Draft(c, candle, actives)
<1>1. c \in Candidate  BY LifecycleAssumption
<1>2. DOMAIN rows = 1..Len(rows) /\ Len(rows) \in Nat /\ \A i \in DOMAIN rows : rows[i] \in Row
  BY DEF LifeInv, TablesInv
<1>3. actives \subseteq {target} /\ (target # 0 => target \in actives)
  <2>1. CASE actives = {}  BY <2>1
  <2>2. CASE actives # {}
    <3>1. PICK k \in actives : TRUE  BY <2>2
    <3>2. \A i \in actives : i = k
      BY <3>1 DEF LifeInv, RowsExplained, OneActivePerDay, ActiveOn
    <3>3. k \in Nat  BY <1>2, <3>1 DEF ActiveOn, ActiveRows
    <3>4. \E i \in actives : \A j \in actives : j <= i  BY <3>1, <3>2, <3>3
    <3>5. target \in actives  BY <2>2, <3>4
    <3> QED  BY <3>2, <3>5
  <2> QED  BY <2>1, <2>2
<1> HIDE DEF target
<1>4. /\ d.candidate = c /\ d.target = target /\ d.old = old /\ d.new = new
      /\ d.fresh = IF Opens(c, actives) THEN <<NewRow(c, candle)>> ELSE <<>>
  BY DEF Draft, target
<1>5. d.alerts = (IF target = 0 THEN {} ELSE StatusAlert(target, old.status, new.status))
                   \cup (IF Opens(c, actives) THEN {<<Len(rows) + 1, OpeningAlert(c)>>} ELSE {})
                   \cup (IF (IF Opens(c, actives) THEN Len(rows) + 1 ELSE target) = 0 THEN {}
                         ELSE ClosingAlert(IF Opens(c, actives) THEN Len(rows) + 1 ELSE target, c))
  BY DEF Draft, target
<1>6. d.fresh # <<>> <=> Opens(c, actives)
  <2>1. <<NewRow(c, candle)>> # <<>>  OBVIOUS
  <2> QED  BY <1>4, <2>1
<1> HIDE DEF d, old, new
<1>7. d.alerts = DraftAlerts(d, IF d.fresh # <<>> THEN Len(rows) + 1 ELSE d.target)
  <2>1. CASE Opens(c, actives)  BY <1>4, <1>5, <1>6, <2>1 DEF DraftAlerts
  <2>2. CASE ~Opens(c, actives)  BY <1>4, <1>5, <1>6, <2>2 DEF DraftAlerts
  <2> QED  BY <2>1, <2>2
<1>8. target \in {0} \cup DOMAIN rows  BY <1>3 DEF ActiveOn, ActiveRows
<1>9. ASSUME target # 0
      PROVE  /\ old \in Row /\ old.status \in ACTIVE_STATES /\ old = rows[target]
             /\ new = Verified(old, c, candle)
             /\ <<target, Announcement(old.status)>> \in alerts
  <2>1. target \in DOMAIN rows /\ rows[target].status \in ACTIVE_STATES
    BY <1>3, <1>9 DEF ActiveOn, ActiveRows
  <2>2. <<target, Announcement(rows[target].status)>> \in alerts
    BY <2>1 DEF LifeInv, RowsExplained, AlertsExplainRows
  <2> QED  BY <1>2, <1>9, <2>1, <2>2 DEF old, new
<1>10. ASSUME Opens(c, actives), target # 0
       PROVE  new.status \in Terminal
  <2>1. Conflicts(c, rows[target]) \/ (c.signal # "MISSED" /\ Replaces(c, rows[target]))
    BY <1>3, <1>10 DEF Opens
  <2>2. Fate(c, old) \in {"EXPIRED", "INVALIDATED"}
    BY <1>9, <1>10, <2>1 DEF Fate, EndState
  <2>3. new.status = Fate(c, old)  BY <1>1, <1>9, <1>10, VerifiedRow
  <2> QED  BY <2>2, <2>3, Statuses
<1>11. \/ /\ d.fresh = <<>>
          /\ Directed(c) /\ c.signal # "PASS" => target # 0 /\ ~Conflicts(c, old)
       \/ /\ d.fresh = <<NewRow(c, candle)>> /\ Len(rows) < MaxRows
          /\ Directed(c) /\ c.signal # "PASS"
          /\ target # 0 => new.status \in Terminal
  <2>1. CASE Opens(c, actives)  BY <1>4, <1>10, <2>1 DEF Opens
  <2>2. CASE ~Opens(c, actives)
    <3>1. ASSUME Directed(c), c.signal # "PASS" PROVE target # 0 /\ ~Conflicts(c, old)
      <4>1. PICK i \in actives : ~Conflicts(c, rows[i])  BY <2>2, <3>1 DEF Opens
      <4>2. i = target /\ i \in DOMAIN rows  BY <1>3, <4>1 DEF ActiveOn, ActiveRows
      <4> QED  BY <1>2, <1>9, <4>1, <4>2
    <3> QED  BY <1>4, <2>2, <3>1
  <2> QED  BY <2>1, <2>2
<1>12. DraftOK(d, candle)
  BY <1>1, <1>3, <1>4, <1>7, <1>8, <1>9, <1>11 DEF DraftOK
<1> QED  BY <1>12 DEF d

\* A paper entry between the draft and its commit ends bought rows only.
LEMMA ScanKept ==
  ASSUME ScanInv, scan' = scan, rows \in Seq(Row), Len(rows') = Len(rows),
         DOMAIN rows' = DOMAIN rows, alerts \subseteq alerts',
         \A i \in DOMAIN rows :
           \/ rows'[i] = rows[i]
           \/ /\ rows[i].status # "WATCH" /\ rows'[i].status = "ENTERED"
              /\ rows'[i].day = rows[i].day
  PROVE  ScanInv'
<1> SUFFICES ASSUME scan.pc = "decided" PROVE DraftOK(scan.draft, scan.candle)'
  BY DEF ScanInv
<1> DEFINE d == scan.draft
<1>1. DraftOK(d, scan.candle)  BY DEF ScanInv
<1>2. ActiveOn(DayOf(scan.candle + 1))' \subseteq ActiveOn(DayOf(scan.candle + 1))
  BY Statuses DEF ActiveOn, ActiveRows
<1>3. ASSUME d.target # 0
      PROVE  \/ rows'[d.target] = d.old
             \/ d.old.status = "BUY" /\ rows'[d.target].status = "ENTERED"
  <2>1. d.target \in DOMAIN rows  BY <1>1, <1>3 DEF DraftOK
  <2>2. d.old.status \in {"WATCH", "BUY"}  BY <1>1, <1>3 DEF DraftOK, ACTIVE_STATES
  <2> QED  BY <1>1, <1>3, <2>1, <2>2 DEF DraftOK
<1>4. DraftAlerts(d, IF d.fresh # <<>> THEN Len(rows) + 1 ELSE d.target)'
        = DraftAlerts(d, IF d.fresh # <<>> THEN Len(rows) + 1 ELSE d.target)
  BY DEF DraftAlerts
<1> QED  BY <1>1, <1>2, <1>3, <1>4 DEF DraftOK
-----------------------------------------------------------------------------
(* The commit of a scan *)

\* The rows after a commit: the target merged, a new row appended, no other changed.
LEMMA CommitRows ==
  ASSUME LifeInv, Commit
  PROVE  LET d == scan.draft c == d.candidate t == d.target IN
         /\ rows' \in Seq(Row) /\ Len(rows') <= MaxRows
         /\ \/ d.fresh = <<>> /\ Len(rows') = Len(rows)
            \/ /\ d.fresh # <<>> /\ Len(rows') = Len(rows) + 1
               /\ rows'[Len(rows) + 1].status = c.signal
               /\ rows'[Len(rows) + 1].day = DayOf(scan.candle + 1)
         /\ \A i \in DOMAIN rows : i # t => rows'[i] = rows[i]
         /\ t # 0 =>
              /\ rows'[t].day = rows[t].day
              /\ rows'[t].status = IF d.new.status # d.old.status THEN d.new.status
                                   ELSE rows[t].status
<1> DEFINE d == scan.draft
           c == d.candidate
           t == d.target
           m == Merge(rows[t], d.old, d.new, {"validUntil"})
           kept == IF t = 0 THEN rows ELSE [rows EXCEPT ![t] = m]
<1>1. DraftOK(d, scan.candle) /\ scan.candle \in Int /\ c \in Candidate
  BY DEF Commit, LifeInv, ScanInv, DraftOK
<1>2. rows' = kept \o d.fresh  BY DEF Commit, Merge
<1>3. rows \in Seq(Row) /\ Len(rows) \in Nat /\ Len(rows) <= MaxRows /\ DOMAIN rows = 1..Len(rows)
  BY DEF LifeInv, TablesInv
<1>4. ASSUME t # 0
      PROVE  /\ t \in DOMAIN rows /\ m \in Row /\ m.day = rows[t].day
             /\ m.status = IF d.new.status # d.old.status THEN d.new.status ELSE rows[t].status
  <2>1. t \in DOMAIN rows /\ d.old \in Row /\ d.new = Verified(d.old, c, scan.candle)
    BY <1>1, <1>4 DEF DraftOK
  <2>2. d.new \in Row /\ d.new.day = d.old.day  BY <1>1, <2>1, VerifiedRow
  <2>3. rows[t] \in Row  BY <1>3, <2>1
  <2> QED  BY <2>1, <2>2, <2>3, MergedRow
<1> HIDE DEF m
<1>5. /\ kept \in Seq(Row) /\ Len(kept) = Len(rows)
      /\ \A i \in 1..Len(rows) : kept[i] = IF i = t /\ t # 0 THEN m ELSE rows[i]
  <2>1. CASE t = 0  BY <1>3, <2>1
  <2>2. CASE t # 0  BY <1>3, <1>4, <2>2
  <2> QED  BY <2>1, <2>2
<1> HIDE DEF kept
<1>6. \A i \in DOMAIN rows : rows'[i] = IF i = t /\ t # 0 THEN m ELSE rows[i]
  <2>1. CASE d.fresh = <<>>  BY <1>2, <1>3, <1>5, <2>1
  <2>2. CASE d.fresh = <<NewRow(c, scan.candle)>>  BY <1>2, <1>3, <1>5, <2>2
  <2> QED  BY <1>1, <2>1, <2>2 DEF DraftOK
<1>7. CASE d.fresh = <<>>
  <2>1. rows' = kept  BY <1>2, <1>5, <1>7
  <2> QED  BY <1>3, <1>4, <1>5, <1>6, <1>7, <2>1
<1>8. CASE d.fresh # <<>>
  <2>1. /\ d.fresh = <<NewRow(c, scan.candle)>> /\ Len(rows) < MaxRows /\ Directed(c)
        /\ c.signal # "PASS"
    BY <1>1, <1>8 DEF DraftOK
  <2> DEFINE r == NewRow(c, scan.candle)
  <2>2. r \in Row /\ r.status = c.signal /\ r.day = DayOf(scan.candle + 1)
    BY <1>1, <2>1, NewRowKind
  <2> HIDE DEF r
  <2>3. rows' = kept \o <<r>>  BY <1>2, <2>1 DEF r
  <2>4. /\ rows' \in Seq(Row) /\ Len(rows') = Len(rows) + 1 /\ rows'[Len(rows) + 1] = r
    BY <1>3, <1>5, <2>2, <2>3
  <2>5. Len(rows') <= MaxRows  BY <1>3, <2>1, <2>4, LifecycleAssumption
  <2> QED  BY <1>3, <1>4, <1>6, <1>8, <2>2, <2>4, <2>5
<1> QED  BY <1>7, <1>8

\* What the commit does to the status of the row the scan found.
LEMMA CommitTarget ==
  ASSUME LifeInv, Commit, scan.draft.target # 0
  PROVE  LET d == scan.draft t == d.target IN
         /\ rows[t].status \in Terminal => rows'[t].status \in Terminal
         /\ d.new.status \in Terminal => rows'[t].status \in Terminal
         /\ rows'[t].status = "WATCH" => rows[t].status = "WATCH"
         /\ \/ rows'[t].status = rows[t].status /\ d.new.status = d.old.status
            \/ /\ rows'[t].status = d.new.status /\ d.new.status # d.old.status
               /\ d.new.status \in {"BUY", "MISSED", "EXPIRED", "INVALIDATED"}
               /\ d.new.status = "BUY" => rows[t] = d.old
<1> DEFINE d == scan.draft
           t == d.target
<1>1. DraftOK(d, scan.candle) /\ scan.candle \in Int  BY DEF Commit, LifeInv, ScanInv
<1>2. /\ d.candidate \in Candidate /\ d.old \in Row /\ d.old.status \in {"WATCH", "BUY"}
      /\ d.new = Verified(d.old, d.candidate, scan.candle)
      /\ \/ rows[t] = d.old
         \/ d.old.status = "BUY" /\ rows[t].status = "ENTERED"
  BY <1>1 DEF DraftOK, ACTIVE_STATES
<1>3. /\ d.new.status \in {"BUY", "WATCH", "MISSED", "EXPIRED", "INVALIDATED"}
      /\ d.old.status = "BUY" => d.new.status # "WATCH"
  <2>1. d.new.status = Fate(d.candidate, d.old)  BY <1>1, <1>2, VerifiedRow
  <2> QED  BY <1>2, <2>1, FateKinds
<1>4. rows'[t].status = IF d.new.status # d.old.status THEN d.new.status ELSE rows[t].status
  BY CommitRows
<1> HIDE DEF d
<1>5. CASE d.new.status = d.old.status
  <2>1. rows'[t].status = rows[t].status  BY <1>4, <1>5
  <2>2. d.new.status \notin Terminal  BY <1>2, <1>5 DEF Terminal
  <2> QED  BY <1>5, <2>1, <2>2 DEF d
<1>6. CASE d.new.status # d.old.status
  <2>1. rows'[t].status = d.new.status  BY <1>4, <1>6
  <2>2. d.new.status \in {"BUY", "MISSED", "EXPIRED", "INVALIDATED"}
    BY <1>2, <1>3, <1>6
  <2>3. d.new.status = "BUY" => rows[t] = d.old  BY <1>2, <1>6
  <2>4. rows[t].status \in Terminal => d.new.status \in Terminal
    BY <1>2, <2>2, <2>3 DEF Terminal
  <2> QED  BY <1>6, <2>1, <2>2, <2>3, <2>4 DEF d
<1> QED  BY <1>5, <1>6

\* Whom the alerts of a draft are about, and what they announce.
LEMMA CommitAlerts ==
  ASSUME LifeInv, Commit
  PROVE  LET d == scan.draft c == d.candidate t == d.target n == Len(rows) IN
         /\ d.alerts \subseteq (DOMAIN rows') \X Events
         /\ \A i \in DOMAIN rows, s \in Events : i # t => <<i, s>> \notin d.alerts
         /\ t # 0 =>
              /\ \A s \in Terminal : <<t, s>> \in d.alerts =>
                   s = d.new.status /\ d.new.status # d.old.status
              /\ d.new.status # d.old.status => <<t, d.new.status>> \in d.alerts
         /\ d.fresh # <<>> =>
              /\ <<n + 1, OpeningAlert(c)>> \in d.alerts
              /\ \A s \in Terminal : <<n + 1, s>> \in d.alerts => s = c.signal
<1> DEFINE d == scan.draft
           c == d.candidate
           t == d.target
           n == Len(rows)
           id == IF d.fresh # <<>> THEN n + 1 ELSE t
           A == IF t = 0 THEN {} ELSE StatusAlert(t, d.old.status, d.new.status)
           B == IF d.fresh # <<>> THEN {<<id, OpeningAlert(c)>>} ELSE {}
           C == IF id = 0 THEN {} ELSE ClosingAlert(id, c)
<1>1. DraftOK(d, scan.candle) /\ scan.candle \in Int  BY DEF Commit, LifeInv, ScanInv
<1>2. n \in Nat /\ DOMAIN rows = 1..n /\ t \in {0} \cup 1..n /\ c \in Candidate
  BY <1>1 DEF LifeInv, TablesInv, DraftOK
<1>3. /\ DOMAIN rows' = 1..Len(rows')
      /\ Len(rows') = IF d.fresh = <<>> THEN n ELSE n + 1
  BY CommitRows
<1>4. d.alerts = A \cup B \cup C  BY <1>1 DEF DraftOK, DraftAlerts
<1>5. /\ A \subseteq {<<t, d.new.status>>}
      /\ A # {} => t # 0 /\ d.new.status # d.old.status
      /\ t # 0 /\ d.new.status # d.old.status => <<t, d.new.status>> \in A
  BY DEF StatusAlert
<1>6. C \subseteq {<<id, "ENTRY_WINDOW_CLOSING">>} /\ (C # {} => id # 0)
  BY DEF ClosingAlert
<1>7. A # {} => d.new.status \in Events
  <2>1. t # 0 /\ d.new.status # d.old.status =>
          d.new.status \in {"BUY", "MISSED", "EXPIRED", "INVALIDATED"}
    BY CommitTarget
  <2> QED  BY <1>5, <2>1 DEF Events, ACTIVE_STATES, Terminal
<1>8. ASSUME d.fresh # <<>>
      PROVE  /\ OpeningAlert(c) \in Events /\ id = n + 1
             /\ OpeningAlert(c) \in Terminal => OpeningAlert(c) = c.signal
  <2>1. c.signal \in {"BUY", "WATCH", "MISSED"}  BY <1>1, <1>2, <1>8 DEF DraftOK, Candidate
  <2>2. OpeningAlert(c) \in {"BUY", "NEW_WATCH", "MISSED"}
        /\ (OpeningAlert(c) \in {"BUY", "MISSED"} => OpeningAlert(c) = c.signal)
    BY <2>1 DEF OpeningAlert
  <2> QED  BY <1>8, <2>2 DEF Events, ACTIVE_STATES, Terminal
<1>9. "ENTRY_WINDOW_CLOSING" \in Events /\ "ENTRY_WINDOW_CLOSING" \notin Terminal
  BY DEF Events, Terminal
<1> HIDE DEF A, B, C, d
<1>10. B = IF d.fresh # <<>> THEN {<<n + 1, OpeningAlert(c)>>} ELSE {}  BY <1>8 DEF B
<1> HIDE DEF c, n
<1>11. \A i, s : <<i, s>> \in d.alerts =>
         \/ i = t /\ t # 0 /\ s = d.new.status /\ d.new.status # d.old.status /\ s \in Events
         \/ d.fresh # <<>> /\ i = n + 1 /\ s = OpeningAlert(c)
         \/ i = id /\ id # 0 /\ s = "ENTRY_WINDOW_CLOSING"
  BY <1>4, <1>5, <1>6, <1>7, <1>10
<1>12. d.alerts \subseteq (DOMAIN rows') \X Events
  <2>1. d.alerts \subseteq {<<t, d.new.status>>} \cup {<<n + 1, OpeningAlert(c)>>}
                             \cup {<<id, "ENTRY_WINDOW_CLOSING">>}
    BY <1>4, <1>5, <1>6, <1>10
  <2> SUFFICES ASSUME NEW a \in d.alerts PROVE a \in (DOMAIN rows') \X Events  OBVIOUS
  <2>2. PICK i, s : a = <<i, s>>  BY <2>1
  <2>3. i \in DOMAIN rows' /\ s \in Events  BY <1>2, <1>3, <1>8, <1>9, <1>11, <2>2
  <2> QED  BY <2>2, <2>3
<1>13. \A i \in DOMAIN rows, s \in Events : i # t => <<i, s>> \notin d.alerts
  BY <1>2, <1>11
<1>14. t # 0 => /\ \A s \in Terminal : <<t, s>> \in d.alerts =>
                     s = d.new.status /\ d.new.status # d.old.status
                /\ d.new.status # d.old.status => <<t, d.new.status>> \in d.alerts
  BY <1>2, <1>4, <1>5, <1>9, <1>11
<1>15. d.fresh # <<>> => /\ <<n + 1, OpeningAlert(c)>> \in d.alerts
                         /\ \A s \in Terminal : <<n + 1, s>> \in d.alerts => s = c.signal
  BY <1>2, <1>4, <1>8, <1>9, <1>10, <1>11
<1> QED  BY <1>12, <1>13, <1>14, <1>15 DEF c, d, n

\* The commit keeps the tables and what they tell of each other.
LEMMA CommitTables ==
  ASSUME LifeInv, Commit
  PROVE  TablesInv' /\ RowsExplained'
<1> DEFINE d == scan.draft
           c == d.candidate
           t == d.target
           n == Len(rows)
<1>1. DraftOK(d, scan.candle) /\ c \in Candidate  BY DEF Commit, LifeInv, ScanInv, DraftOK
<1>2. n \in Nat /\ DOMAIN rows = 1..n /\ t \in {0} \cup 1..n /\ rows \in Seq(Row)
  BY <1>1 DEF LifeInv, TablesInv, DraftOK
<1>3. /\ rows' \in Seq(Row) /\ Len(rows') <= MaxRows /\ DOMAIN rows' = 1..Len(rows')
      /\ \/ d.fresh = <<>> /\ Len(rows') = n
         \/ d.fresh # <<>> /\ Len(rows') = n + 1
      /\ d.fresh # <<>> => /\ rows'[n + 1].status = c.signal
                           /\ rows'[n + 1].day = DayOf(scan.candle + 1)
      /\ \A i \in DOMAIN rows : i # t => rows'[i] = rows[i]
      /\ t # 0 => rows'[t].day = rows[t].day
  BY CommitRows
<1>4. alerts' = alerts \cup d.alerts  BY DEF Commit
<1>a. /\ \A i \in DOMAIN rows : i \in DOMAIN rows'
      /\ \A i \in DOMAIN rows' : i \in DOMAIN rows \/ (d.fresh # <<>> /\ i = n + 1)
      /\ d.fresh # <<>> => n + 1 \notin DOMAIN rows /\ n + 1 \in DOMAIN rows'
  <2>1. CASE d.fresh = <<>>
    <3>1. DOMAIN rows' = 1..n  BY <1>3, <2>1
    <3> QED  BY <1>2, <2>1, <3>1
  <2>2. CASE d.fresh # <<>>
    <3>1. DOMAIN rows' = 1..(n + 1)  BY <1>3, <2>2
    <3> HIDE DEF n
    <3> QED  BY <1>2, <2>2, <3>1
  <2> QED  BY <2>1, <2>2
<1>b. DOMAIN rows \subseteq DOMAIN rows'  BY <1>a
<1>c. t # 0 => t \in DOMAIN rows  BY <1>2
<1>5. t # 0 /\ rows'[t].status \in ACTIVE_STATES => rows[t].status \in ACTIVE_STATES
  <2> SUFFICES ASSUME t # 0, rows'[t].status \in ACTIVE_STATES
               PROVE  rows[t].status \in ACTIVE_STATES
    OBVIOUS
  <2>1. rows[t].status \notin Terminal  BY CommitTarget, Statuses
  <2>2. rows[t] \in Row  BY <1>2, <1>c
  <2> QED  BY <2>1, <2>2 DEF Row
<1>6. d.fresh # <<>> /\ t # 0 => rows'[t].status \notin ACTIVE_STATES
  BY <1>1, CommitTarget, Statuses DEF DraftOK
<1>7. \A i \in DOMAIN rows :
        rows'[i].status \in ACTIVE_STATES => rows[i].status \in ACTIVE_STATES
  <2> TAKE i \in DOMAIN rows
  <2>1. i # 0  BY <1>2
  <2>2. CASE i = t  BY <1>5, <2>1, <2>2
  <2>3. CASE i # t  BY <1>3, <2>3
  <2> QED  BY <2>2, <2>3
<1>8. \A i \in DOMAIN rows : rows'[i].day = rows[i].day
  <2> TAKE i \in DOMAIN rows
  <2>1. i # 0  BY <1>2
  <2>2. CASE i = t  BY <1>3, <2>1, <2>2
  <2>3. CASE i # t  BY <1>3, <2>3
  <2> QED  BY <2>2, <2>3
<1>9. OneActivePerDay'
  <2> SUFFICES ASSUME NEW i \in ActiveRows', NEW j \in ActiveRows', rows'[i].day = rows'[j].day
               PROVE  i = j
    BY DEF OneActivePerDay
  <2>1. CASE i \in DOMAIN rows /\ j \in DOMAIN rows
    <3>1. i \in ActiveRows /\ j \in ActiveRows  BY <1>7, <2>1 DEF ActiveRows
    <3>2. rows[i].day = rows[j].day  BY <1>8, <2>1
    <3> QED  BY <3>1, <3>2 DEF LifeInv, RowsExplained, OneActivePerDay
  <2>2. ASSUME NEW k \in DOMAIN rows, d.fresh # <<>>, rows'[k].status \in ACTIVE_STATES,
               rows'[k].day = rows'[n + 1].day
        PROVE  FALSE
    <3>1. k \in ActiveOn(DayOf(scan.candle + 1))
      BY <1>3, <1>7, <1>8, <2>2 DEF ActiveOn, ActiveRows
    <3>2. k = t /\ t # 0  BY <1>1, <1>2, <2>2, <3>1 DEF DraftOK
    <3> QED  BY <1>6, <2>2, <3>2
  <2>3. /\ i \in DOMAIN rows' /\ rows'[i].status \in ACTIVE_STATES
        /\ j \in DOMAIN rows' /\ rows'[j].status \in ACTIVE_STATES
    BY DEF ActiveRows
  <2> HIDE DEF n, d
  <2>4. CASE i \in DOMAIN rows /\ j \notin DOMAIN rows  BY <1>a, <2>2, <2>3, <2>4
  <2>5. CASE i \notin DOMAIN rows /\ j \in DOMAIN rows  BY <1>a, <2>2, <2>3, <2>5
  <2>6. CASE i \notin DOMAIN rows /\ j \notin DOMAIN rows  BY <1>a, <2>3, <2>6
  <2> QED  BY <2>1, <2>4, <2>5, <2>6
<1>10. AlertsExplainRows'
  <2> DEFINE Told(i) == /\ <<i, Announcement(rows'[i].status)>> \in alerts'
                        /\ rows'[i].status = "ENTERED" => <<i, "BUY">> \in alerts'
                        /\ rows'[i].status \in ACTIVE_STATES =>
                             \A s \in Terminal : <<i, s>> \notin alerts'
  <2>1. \A i \in DOMAIN rows :
          /\ <<i, Announcement(rows[i].status)>> \in alerts
          /\ rows[i].status = "ENTERED" => <<i, "BUY">> \in alerts
          /\ rows[i].status \in ACTIVE_STATES => \A s \in Terminal : <<i, s>> \notin alerts
    BY DEF LifeInv, RowsExplained, AlertsExplainRows
  <2>2. \A s \in Terminal : s \in Events  BY DEF Events
  <2>3. ASSUME NEW i \in DOMAIN rows, i # t PROVE Told(i)
    <3>1. \A s \in Terminal : <<i, s>> \notin d.alerts  BY <2>2, <2>3, CommitAlerts
    <3> QED  BY <1>3, <1>4, <2>1, <2>3, <3>1
  <2>4. ASSUME t # 0 PROVE Told(t)
    <3>1. t \in DOMAIN rows  BY <1>2, <2>4
    <3>2. /\ \A s \in Terminal : <<t, s>> \in d.alerts =>
                s = d.new.status /\ d.new.status # d.old.status
          /\ d.new.status # d.old.status => <<t, d.new.status>> \in d.alerts
      BY <2>4, CommitAlerts
    <3>3. CASE rows'[t].status = rows[t].status /\ d.new.status = d.old.status
      BY <1>4, <2>1, <3>1, <3>2, <3>3
    <3>4. CASE /\ rows'[t].status = d.new.status /\ d.new.status # d.old.status
               /\ d.new.status \in {"BUY", "MISSED", "EXPIRED", "INVALIDATED"}
               /\ d.new.status = "BUY" => rows[t] = d.old
      <4>1. Announcement(rows'[t].status) = rows'[t].status /\ rows'[t].status # "ENTERED"
        BY <3>4 DEF Announcement
      <4>2. rows'[t].status \in ACTIVE_STATES =>
              \A s \in Terminal : <<t, s>> \notin alerts'
        <5> SUFFICES ASSUME rows'[t].status \in ACTIVE_STATES, NEW s \in Terminal
                     PROVE  <<t, s>> \notin alerts'
          OBVIOUS
        <5>1. <<t, s>> \notin alerts  BY <1>7, <2>1, <3>1
        <5>2. <<t, s>> \notin d.alerts  BY <3>2, <3>4, Statuses
        <5> QED  BY <1>4, <5>1, <5>2
      <4> QED  BY <1>4, <3>2, <3>4, <4>1, <4>2
    <3> QED  BY <2>4, <3>3, <3>4, CommitTarget
  <2>5. ASSUME d.fresh # <<>> PROVE Told(n + 1)
    <3>1. /\ <<n + 1, OpeningAlert(c)>> \in d.alerts
          /\ \A s \in Terminal : <<n + 1, s>> \in d.alerts => s = c.signal
      BY <2>5, CommitAlerts
    <3>2. OpeningAlert(c) = Announcement(c.signal)  BY DEF OpeningAlert, Announcement
    <3>3. \A s : <<n + 1, s>> \notin alerts
      <4>1. alerts \subseteq (1..n) \X Events /\ n + 1 \notin 1..n
        BY <1>2 DEF LifeInv, TablesInv
      <4> QED  BY <4>1
    <3>4. c.signal # "ENTERED"  BY <1>1 DEF Candidate
    <3> HIDE DEF n
    <3> QED  BY <1>3, <1>4, <2>5, <3>1, <3>2, <3>3, <3>4, Statuses
  <2>6. \A i \in DOMAIN rows' : Told(i)
    <3> HIDE DEF Told, d, n
    <3> TAKE i \in DOMAIN rows'
    <3>1. CASE i \notin DOMAIN rows  BY <1>a, <2>5, <3>1
    <3>2. CASE i \in DOMAIN rows /\ i # t  BY <2>3, <3>2
    <3>3. CASE i \in DOMAIN rows /\ i = t  BY <1>2, <2>4, <3>3
    <3> QED  BY <3>1, <3>2, <3>3
  <2> QED  BY <2>6 DEF AlertsExplainRows
<1>11. alerts' \subseteq (DOMAIN rows') \X Events
  <2>1. DOMAIN rows \subseteq DOMAIN rows'  BY <1>b
  <2>2. alerts \subseteq (DOMAIN rows') \X Events  BY <2>1 DEF LifeInv, TablesInv
  <2> QED  BY <1>4, <2>2, CommitAlerts
<1>12. tracked' \subseteq (DOMAIN rows') \X {"BUY", "MISSED"} /\ OneOutcomePerLifecycle'
  <2> DEFINE id == Attached(d, c)
  <2>1. tracked \subseteq (DOMAIN rows') \X {"BUY", "MISSED"} /\ tracked \subseteq alerts'
    <3>1. DOMAIN rows \subseteq DOMAIN rows'  BY <1>b
    <3>2. tracked \subseteq alerts  BY DEF LifeInv, RowsExplained, OneOutcomePerLifecycle
    <3> QED  BY <1>4, <3>1, <3>2 DEF LifeInv, TablesInv
  <2>2. \A x, y \in tracked : x[1] = y[1] => x = y
    BY DEF LifeInv, RowsExplained, OneOutcomePerLifecycle
  <2>3. CASE ~Tracks(c, id)
    <3>1. tracked' = tracked  BY <2>3 DEF Commit
    <3> QED  BY <2>1, <2>2, <3>1 DEF OneOutcomePerLifecycle
  <2>4. CASE Tracks(c, id)
    <3>1. /\ c.signal \in {"BUY", "MISSED"} /\ Directed(c) /\ c.signal # "PASS"
          /\ \A x \in tracked : x[1] # id
      BY <2>4 DEF Tracks
    <3>2. tracked' = tracked \cup {<<id, c.signal>>}  BY <2>4 DEF Commit
    <3>3. id \in DOMAIN rows' /\ <<id, c.signal>> \in alerts'
      <4>1. CASE d.fresh # <<>>
        <5>1. id = n + 1  BY <4>1 DEF Attached
        <5>2. OpeningAlert(c) = c.signal  BY <3>1 DEF OpeningAlert
        <5>3. <<n + 1, OpeningAlert(c)>> \in d.alerts  BY <4>1, CommitAlerts
        <5>4. <<n + 1, c.signal>> \in alerts'  BY <1>4, <5>2, <5>3
        <5>5. n + 1 \in DOMAIN rows'  BY <1>a, <4>1
        <5> QED  BY <5>1, <5>4, <5>5
      <4>2. CASE d.fresh = <<>>
        <5>1. /\ t # 0 /\ ~Conflicts(c, d.old) /\ d.old \in Row
              /\ <<t, Announcement(d.old.status)>> \in alerts
              /\ d.new = Verified(d.old, c, scan.candle)
          BY <1>1, <3>1, <4>2 DEF DraftOK
        <5>2. id = t  BY <4>2, <5>1 DEF Attached
        <5>3. d.new.status = c.signal
          <6>1. scan.candle \in Int  BY DEF LifeInv, ScanInv
          <6>2. d.new.status = Fate(c, d.old)  BY <1>1, <5>1, <6>1, VerifiedRow
          <6> QED  BY <1>1, <3>1, <5>1, <6>2, FateKinds
        <5>4. <<t, c.signal>> \in alerts'
          <6>1. CASE d.new.status # d.old.status
            <7>1. <<t, d.new.status>> \in d.alerts  BY <5>1, <6>1, CommitAlerts
            <7> QED  BY <1>4, <5>3, <7>1
          <6>2. CASE d.new.status = d.old.status
            <7>1. Announcement(d.old.status) = c.signal
              BY <3>1, <5>3, <6>2 DEF Announcement
            <7> QED  BY <1>4, <5>1, <7>1
          <6> QED  BY <6>1, <6>2
        <5>5. t \in DOMAIN rows'  BY <1>b, <1>c, <5>1
        <5> QED  BY <5>2, <5>4, <5>5
      <4> QED  BY <4>1, <4>2
    <3> HIDE DEF id
    <3>4. \A x, y \in tracked' : x \in alerts' /\ (x[1] = y[1] => x = y)
      BY <2>1, <2>2, <3>1, <3>2, <3>3
    <3>5. tracked' \subseteq (DOMAIN rows') \X {"BUY", "MISSED"}
      BY <2>1, <3>1, <3>2, <3>3
    <3> QED  BY <3>4, <3>5 DEF OneOutcomePerLifecycle
  <2> QED  BY <2>3, <2>4
<1>13. clock' \in Nat /\ closedOn' \in Int /\ restarts' \in Nat
  BY DEF Commit, LifeInv, TablesInv
<1> QED  BY <1>3, <1>9, <1>10, <1>11, <1>12, <1>13 DEF TablesInv, RowsExplained
-----------------------------------------------------------------------------
(* Paper entries and housekeeping *)

\* Rows that end with an alert keep the tables, whoever ends them.
LEMMA EndedTables ==
  ASSUME LifeInv, NEW E \in SUBSET DOMAIN rows, NEW s \in {"ENTERED", "EXPIRED"},
         rows' \in Seq(Row), Len(rows') = Len(rows),
         \A i \in E : rows'[i].status = s /\ rows'[i].day = rows[i].day,
         \A i \in DOMAIN rows : i \notin E => rows'[i] = rows[i],
         alerts' = alerts \cup {<<i, s>> : i \in E}, tracked' = tracked,
         s = "ENTERED" => \A i \in E : <<i, "BUY">> \in alerts,
         clock' \in Nat, closedOn' \in Int, restarts' \in Nat
  PROVE  TablesInv' /\ RowsExplained'
<1>1. DOMAIN rows' = DOMAIN rows /\ Len(rows') <= MaxRows  BY DEF LifeInv, TablesInv
<1>2. s \in Terminal /\ s \in Events /\ s \notin ACTIVE_STATES
  BY DEF Events, Terminal, ACTIVE_STATES
<1>3. TablesInv'  BY <1>1, <1>2 DEF LifeInv, TablesInv
<1>4. \A i \in DOMAIN rows' : rows'[i].status \in ACTIVE_STATES =>
        i \in DOMAIN rows /\ rows'[i] = rows[i]
  BY <1>1, <1>2
<1>5. OneActivePerDay'
  BY <1>4 DEF LifeInv, RowsExplained, OneActivePerDay, ActiveRows
<1>6. OneOutcomePerLifecycle'  BY DEF LifeInv, RowsExplained, OneOutcomePerLifecycle
<1>7. AlertsExplainRows'
  <2> SUFFICES ASSUME NEW i \in DOMAIN rows
               PROVE  /\ <<i, Announcement(rows'[i].status)>> \in alerts'
                      /\ rows'[i].status = "ENTERED" => <<i, "BUY">> \in alerts'
                      /\ rows'[i].status \in ACTIVE_STATES =>
                           \A x \in Terminal : <<i, x>> \notin alerts'
    BY <1>1 DEF AlertsExplainRows
  <2>1. /\ <<i, Announcement(rows[i].status)>> \in alerts
        /\ rows[i].status = "ENTERED" => <<i, "BUY">> \in alerts
        /\ rows[i].status \in ACTIVE_STATES => \A x \in Terminal : <<i, x>> \notin alerts
    BY DEF LifeInv, RowsExplained, AlertsExplainRows
  <2>2. CASE i \in E
    <3>1. rows'[i].status = s /\ Announcement(s) = s  BY <2>2 DEF Announcement
    <3> QED  BY <1>2, <2>2, <3>1
  <2>3. CASE i \notin E
    <3>1. rows'[i] = rows[i]  BY <2>3
    <3>2. \A x : <<i, x>> \in alerts' => <<i, x>> \in alerts  BY <2>3
    <3> QED  BY <2>1, <3>1, <3>2
  <2> QED  BY <2>2, <2>3
<1> QED  BY <1>3, <1>5, <1>6, <1>7 DEF RowsExplained

\* The rows paper entries found stay found: none returns to WATCH.
LEMMA EntryKept ==
  ASSUME EntryInv, entry' = entry, alerts \subseteq alerts', DOMAIN rows \subseteq DOMAIN rows',
         \A i \in DOMAIN rows : rows'[i].status = "WATCH" => rows[i].status = "WATCH"
  PROVE  EntryInv'
BY DEF EntryInv, EntryOK

\* The row a paper entry writes from a copy that may be outdated.
LEMMA WriteEnteredRow ==
  ASSUME LifeInv, NEW e \in Entrants, WriteEntered(e)
  PROVE  LET i == entry[e].target IN
         /\ i \in DOMAIN rows /\ rows[i].status # "WATCH" /\ <<i, "BUY">> \in alerts
         /\ rows' \in Seq(Row) /\ Len(rows') = Len(rows) /\ DOMAIN rows' = DOMAIN rows
         /\ rows'[i].status = "ENTERED" /\ rows'[i].day = rows[i].day
         /\ \A j \in DOMAIN rows : j # i => rows'[j] = rows[j]
<1> DEFINE i == entry[e].target
           old == entry[e].old
           m == Merge(rows[i], old, Entered(old), {"validUntil"})
<1>1. /\ i \in DOMAIN rows /\ rows[i].status # "WATCH" /\ <<i, "BUY">> \in alerts
      /\ old \in Row /\ old.status = "BUY"
  BY DEF LifeInv, EntryInv, EntryOK, WriteEntered
<1>2. rows \in Seq(Row) /\ rows[i] \in Row  BY <1>1 DEF LifeInv, TablesInv
<1>3. Entered(old) \in Row /\ Entered(old).status = "ENTERED" /\ Entered(old).day = old.day
  BY <1>1, EnteredRow
<1>4. m \in Row /\ m.day = rows[i].day /\ m.status = "ENTERED"
  BY <1>1, <1>2, <1>3, MergedRow
<1>5. rows' = [rows EXCEPT ![i] = m]  BY DEF WriteEntered, Merge
<1> HIDE DEF m, i
<1> QED  BY <1>1, <1>2, <1>4, <1>5 DEF i

\* Writing ENTERED from an older copy keeps the invariant.
LEMMA EntersInv ==
  ASSUME LifeInv, NEW e \in Entrants, WriteEntered(e)
  PROVE  LifeInv'
<1> DEFINE i == entry[e].target
<1>1. /\ i \in DOMAIN rows /\ rows[i].status # "WATCH" /\ <<i, "BUY">> \in alerts
      /\ rows' \in Seq(Row) /\ Len(rows') = Len(rows) /\ DOMAIN rows' = DOMAIN rows
      /\ rows'[i].status = "ENTERED" /\ rows'[i].day = rows[i].day
      /\ \A j \in DOMAIN rows : j # i => rows'[j] = rows[j]
  BY WriteEnteredRow
<1>2. /\ alerts' = alerts \cup {<<i, "ENTERED">>} /\ tracked' = tracked /\ scan' = scan
      /\ clock' \in Nat /\ closedOn' \in Int /\ restarts' \in Nat
  BY DEF WriteEntered, LifeInv, TablesInv
<1> HIDE DEF i
<1>3. TablesInv' /\ RowsExplained'
  <2> DEFINE E == {i}
  <2>1. alerts' = alerts \cup {<<j, "ENTERED">> : j \in E}  BY <1>2
  <2>2. E \in SUBSET DOMAIN rows  BY <1>1
  <2>3. \A j \in E : rows'[j].status = "ENTERED" /\ rows'[j].day = rows[j].day  BY <1>1
  <2>4. \A j \in DOMAIN rows : j \notin E => rows'[j] = rows[j]  BY <1>1
  <2>5. \A j \in E : <<j, "BUY">> \in alerts  BY <1>1
  <2> HIDE DEF E
  <2> QED  BY <1>1, <1>2, <2>1, <2>2, <2>3, <2>4, <2>5, EndedTables
<1>4. ScanInv'
  <2>1. rows \in Seq(Row)  BY DEF LifeInv, TablesInv
  <2>2. \A j \in DOMAIN rows :
          \/ rows'[j] = rows[j]
          \/ /\ rows[j].status # "WATCH" /\ rows'[j].status = "ENTERED"
             /\ rows'[j].day = rows[j].day
    BY <1>1
  <2>3. ScanInv /\ alerts \subseteq alerts'  BY <1>2 DEF LifeInv
  <2> QED  BY <1>1, <1>2, <2>1, <2>2, <2>3, ScanKept
<1>5. EntryInv'
  <2>1. entry' = [entry EXCEPT ![e] = [NotEntered EXCEPT !.pc = "done"]]  BY DEF WriteEntered
  <2>2. \A f \in Entrants : EntryOK(entry[f])'
    <3> TAKE f \in Entrants
    <3>1. CASE f = e
      <4>1. entry'[f].pc = "done"
        BY <2>1, <3>1 DEF LifeInv, EntryInv, NotEntered
      <4> QED  BY <4>1 DEF EntryOK
    <3>2. CASE f # e
      <4>1. entry'[f] = entry[f]  BY <2>1, <3>2 DEF LifeInv, EntryInv
      <4>2. EntryOK(entry[f])  BY DEF LifeInv, EntryInv
      <4>3. \A j \in DOMAIN rows : rows[j].status # "WATCH" => rows'[j].status # "WATCH"
        BY <1>1
      <4> QED  BY <1>1, <1>2, <4>1, <4>2, <4>3 DEF EntryOK
    <3> QED  BY <3>1, <3>2
  <2>3. entry' = [f \in Entrants |-> entry'[f]]  BY <2>1 DEF LifeInv, EntryInv
  <2> QED  BY <2>2, <2>3 DEF EntryInv
<1> QED  BY <1>3, <1>4, <1>5 DEF LifeInv

\* expire_stale_lifecycles ends every stale row with its alert.
LEMMA ExpireTables ==
  ASSUME LifeInv, Expire, tracked' = tracked,
         clock' \in Nat, closedOn' \in Int, restarts' \in Nat
  PROVE  /\ TablesInv' /\ RowsExplained' /\ alerts \subseteq alerts'
         /\ DOMAIN rows \subseteq DOMAIN rows'
         /\ \A i \in DOMAIN rows : rows'[i].status = "WATCH" => rows[i].status = "WATCH"
         /\ \A i \in DOMAIN rows : rows[i].status \in Terminal => rows'[i] = rows[i]
<1>1. rows \in Seq(Row) /\ \A i \in DOMAIN rows : rows[i] \in Row
  BY DEF LifeInv, TablesInv
<1>2. rows' = [i \in DOMAIN rows |-> IF i \in Stale THEN Expired(rows[i]) ELSE rows[i]]
      /\ alerts' = alerts \cup {<<i, "EXPIRED">> : i \in Stale}
  BY DEF Expire
<1>3. Stale \in SUBSET DOMAIN rows /\ \A i \in Stale : rows[i].status \in ACTIVE_STATES
  BY DEF Stale, ActiveRows
<1>4. \A i \in DOMAIN rows : /\ Expired(rows[i]) \in Row /\ Expired(rows[i]).status = "EXPIRED"
                             /\ Expired(rows[i]).day = rows[i].day
  BY <1>1, ExpiredRow
<1>5. \A i \in DOMAIN rows : rows'[i] \in Row  BY <1>1, <1>2, <1>4
<1>6. rows' \in Seq(Row) /\ Len(rows') = Len(rows) /\ DOMAIN rows' = DOMAIN rows
  <2>1. DOMAIN rows = 1..Len(rows) /\ Len(rows) \in Nat  BY <1>1
  <2>2. DOMAIN rows' = 1..Len(rows)  BY <1>2, <2>1
  <2>3. rows' = [i \in 1..Len(rows) |-> rows'[i]]  BY <1>2, <2>1
  <2>4. rows' \in [1..Len(rows) -> Row]  BY <1>5, <2>1, <2>3
  <2>5. rows' \in Seq(Row)  BY <2>1, <2>4
  <2> QED  BY <2>1, <2>2, <2>5
<1>7. /\ \A i \in Stale : rows'[i].status = "EXPIRED" /\ rows'[i].day = rows[i].day
      /\ \A i \in DOMAIN rows : i \notin Stale => rows'[i] = rows[i]
  BY <1>2, <1>3, <1>4
<1>8. TablesInv' /\ RowsExplained'
  BY <1>2, <1>3, <1>6, <1>7, EndedTables
<1>9. \A i \in DOMAIN rows : rows'[i].status = "WATCH" => rows[i].status = "WATCH"  BY <1>7
<1>10. \A i \in DOMAIN rows : rows[i].status \in Terminal => rows'[i] = rows[i]
  BY <1>3, <1>7, Statuses
<1> QED  BY <1>2, <1>6, <1>8, <1>9, <1>10
-----------------------------------------------------------------------------
(* The invariant *)

\* The invariant holds at the start.
LEMMA InitLife == Init => LifeInv
<1> SUFFICES ASSUME Init PROVE LifeInv  OBVIOUS
<1>1. TablesInv
  <2>1. 0 <= MaxRows  BY LifecycleAssumption
  <2> QED  BY <2>1 DEF Init, TablesInv, None
<1>2. ScanInv  BY DEF Init, ScanInv, NoScan, None
<1>3. EntryInv  BY DEF Init, EntryInv, EntryOK, NotEntered
<1>4. RowsExplained
  BY DEF Init, RowsExplained, OneActivePerDay, ActiveRows, AlertsExplainRows,
         OneOutcomePerLifecycle
<1> QED  BY <1>1, <1>2, <1>3, <1>4 DEF LifeInv

\* A step that leaves the tables alone.
LEMMA TablesKept ==
  ASSUME LifeInv, UNCHANGED <<rows, alerts, tracked>>,
         clock' \in Nat, closedOn' \in Int, restarts' \in Nat
  PROVE  TablesInv' /\ RowsExplained'
BY DEF LifeInv, TablesInv, RowsExplained, OneActivePerDay, ActiveRows, AlertsExplainRows,
       OneOutcomePerLifecycle

\* The scan's part survives steps that leave the tables and the scan alone.
LEMMA ScanUntouched ==
  ASSUME ScanInv, UNCHANGED <<rows, alerts, scan>>
  PROVE  ScanInv'
BY DEF ScanInv, DraftOK, DraftAlerts, ActiveOn, ActiveRows

\* Every step keeps the invariant.
LEMMA NextLife == LifeInv /\ [Next]_vars => LifeInv'
<1> SUFFICES ASSUME LifeInv, [Next]_vars PROVE LifeInv'  OBVIOUS
<1>a. clock \in Nat /\ closedOn \in Int /\ restarts \in Nat /\ rows \in Seq(Row)
  BY DEF LifeInv, TablesInv
<1>b. ASSUME UNCHANGED <<rows, alerts, entry>> PROVE EntryInv'
  BY <1>b, EntryKept DEF LifeInv
<1>1. CASE BeginScan
  <2>1. TablesInv' /\ RowsExplained'  BY <1>1, <1>a, TablesKept DEF BeginScan
  <2>2. ScanInv'
    <3>1. PICK lag \in Lags : scan' = [NoScan EXCEPT !.pc = "waiting", !.candle = clock - 1 - lag]
      BY <1>1 DEF BeginScan
    <3>2. clock - 1 - lag \in Int  BY <1>a, LifecycleAssumption
    <3> QED  BY <3>1, <3>2 DEF ScanInv, NoScan
  <2> QED  BY <1>1, <1>b, <2>1, <2>2 DEF LifeInv, BeginScan
<1>2. CASE Decide
  <2>1. TablesInv' /\ RowsExplained'  BY <1>2, <1>a, TablesKept DEF Decide
  <2>2. ScanInv'
    <3> DEFINE actives == ActiveOn(DayOf(scan.candle + 1))
    <3>1. PICK c \in Candidates :
            /\ Opens(c, actives) => Len(rows) < MaxRows
            /\ scan' = [scan EXCEPT !.pc = "decided", !.draft = Draft(c, scan.candle, actives)]
      BY <1>2 DEF Decide
    <3> DEFINE d == Draft(c, scan.candle, actives)
    <3>2. scan.candle \in Int /\ scan = [pc |-> scan.pc, candle |-> scan.candle, draft |-> scan.draft]
      BY DEF LifeInv, ScanInv
    <3>3. DraftOK(d, scan.candle)  BY <3>1, <3>2, DraftMade
    <3> HIDE DEF d
    <3>4. scan' = [pc |-> "decided", candle |-> scan.candle, draft |-> d]
      BY <3>1, <3>2 DEF d
    <3>5. UNCHANGED <<rows, alerts>>  BY <1>2 DEF Decide
    <3>6. DraftOK(scan.draft, scan.candle)'
      BY <3>3, <3>4, <3>5 DEF DraftOK, DraftAlerts, ActiveOn, ActiveRows
    <3> QED  BY <3>2, <3>4, <3>6 DEF ScanInv
  <2> QED  BY <1>2, <1>b, <2>1, <2>2 DEF LifeInv, Decide
<1>3. CASE Commit
  <2>1. TablesInv' /\ RowsExplained'  BY <1>3, CommitTables
  <2>2. ScanInv'  BY <1>3 DEF Commit, ScanInv, NoScan, None
  <2>3. EntryInv'
    <3>1. DOMAIN rows \subseteq DOMAIN rows'
      <4>1. Len(rows) \in Nat /\ Len(rows') \in {Len(rows), Len(rows) + 1} /\ rows' \in Seq(Row)
        BY <1>3, <1>a, CommitRows
      <4>2. DOMAIN rows = 1..Len(rows) /\ DOMAIN rows' = 1..Len(rows')  BY <1>a, <4>1
      <4>3. CASE Len(rows') = Len(rows)
        <5>1. DOMAIN rows' = 1..Len(rows)  BY <4>2, <4>3
        <5> QED  BY <4>2, <5>1
      <4>4. CASE Len(rows') = Len(rows) + 1
        <5>1. DOMAIN rows' = 1..(Len(rows) + 1)  BY <4>2, <4>4
        <5>2. \A n \in Nat : 1..n \subseteq 1..(n + 1)  OBVIOUS
        <5>3. Len(rows) \in Nat  BY <1>a
        <5>4. 1..Len(rows) \subseteq 1..(Len(rows) + 1)  BY <5>2, <5>3
        <5> QED  BY <4>2, <5>1, <5>4
      <4> QED  BY <4>1, <4>3, <4>4
    <3>2. \A i \in DOMAIN rows : rows'[i].status = "WATCH" => rows[i].status = "WATCH"
      <4> TAKE i \in DOMAIN rows
      <4>1. i # 0  BY <1>a
      <4>2. CASE i = scan.draft.target  BY <1>3, <4>1, <4>2, CommitTarget
      <4>3. CASE i # scan.draft.target  BY <1>3, <4>3, CommitRows
      <4> QED  BY <4>2, <4>3
    <3>3. entry' = entry /\ alerts \subseteq alerts'  BY <1>3 DEF Commit
    <3> QED  BY <3>1, <3>2, <3>3, EntryKept DEF LifeInv
  <2> QED  BY <2>1, <2>2, <2>3 DEF LifeInv
<1>4. CASE FailScan
  <2>1. TablesInv' /\ RowsExplained'  BY <1>4, <1>a, TablesKept DEF FailScan
  <2>2. ScanInv'  BY <1>4 DEF FailScan, ScanInv, NoScan, None
  <2> QED  BY <1>4, <1>b, <2>1, <2>2 DEF LifeInv, FailScan
<1>5. ASSUME NEW e \in Entrants, FindBuy(e) PROVE LifeInv'
  <2>1. TablesInv' /\ RowsExplained'  BY <1>5, <1>a, TablesKept DEF FindBuy
  <2>2. ScanInv'  BY <1>5, ScanUntouched DEF FindBuy, LifeInv
  <2>3. EntryInv'
    <3>1. PICK i \in ActiveBuys(DayOf(clock)) :
            entry' = [entry EXCEPT ![e] = [pc |-> "found", target |-> i, old |-> rows[i]]]
      BY <1>5 DEF FindBuy
    <3>2. i \in DOMAIN rows /\ rows[i].status = "BUY" /\ rows[i] \in Row
      BY <1>a DEF ActiveBuys, BuyRows
    <3>3. <<i, "BUY">> \in alerts
      BY <3>2 DEF LifeInv, RowsExplained, AlertsExplainRows, Announcement
    <3>4. EntryOK([pc |-> "found", target |-> i, old |-> rows[i]])
      BY <3>2, <3>3 DEF EntryOK
    <3>5. UNCHANGED <<rows, alerts>>  BY <1>5 DEF FindBuy
    <3>6. \A f \in Entrants :
            entry'[f] = IF f = e THEN [pc |-> "found", target |-> i, old |-> rows[i]] ELSE entry[f]
      BY <3>1 DEF LifeInv, EntryInv
    <3>7. \A f \in Entrants : EntryOK(entry'[f])
      BY <3>4, <3>6 DEF LifeInv, EntryInv
    <3>8. \A f \in Entrants : EntryOK(entry[f])'
      BY <3>5, <3>7 DEF EntryOK
    <3>9. entry' = [f \in Entrants |-> entry'[f]]  BY <3>1 DEF LifeInv, EntryInv
    <3> QED  BY <3>8, <3>9 DEF EntryInv
  <2> QED  BY <2>1, <2>2, <2>3 DEF LifeInv
<1>6. ASSUME NEW e \in Entrants, WriteEntered(e) PROVE LifeInv'
  BY <1>6, EntersInv
<1>7. ASSUME NEW e \in Entrants, LoseEntry(e) PROVE LifeInv'
  <2>1. TablesInv' /\ RowsExplained'  BY <1>7, <1>a, TablesKept DEF LoseEntry
  <2>2. ScanInv'  BY <1>7, ScanUntouched DEF LoseEntry, LifeInv
  <2>3. EntryInv'  BY <1>7 DEF LoseEntry, LifeInv, EntryInv, EntryOK, NotEntered
  <2> QED  BY <2>1, <2>2, <2>3 DEF LifeInv
<1>8. CASE Housekeeping
  <2>1. /\ Expire /\ tracked' = tracked /\ scan' = scan /\ entry' = entry
        /\ clock' \in Nat /\ closedOn' \in Int /\ restarts' \in Nat
    <3>1. DayOf(clock) \in Int  BY <1>a, LifecycleAssumption DEF DayOf
    <3> QED  BY <1>8, <1>a, <3>1 DEF Housekeeping
  <2>2. TablesInv' /\ RowsExplained' /\ EntryInv'
    BY <2>1, ExpireTables, EntryKept DEF LifeInv
  <2>3. ScanInv'  BY <1>8 DEF Housekeeping, LifeInv, ScanInv
  <2> QED  BY <2>2, <2>3 DEF LifeInv
<1>9. CASE Restart
  <2>1. /\ tracked' = tracked /\ scan' = NoScan
        /\ clock' \in Nat /\ closedOn' \in Int /\ restarts' \in Nat
    BY <1>9, <1>a DEF Restart
  <2>2. TablesInv' /\ RowsExplained'
    <3>1. CASE InSession(clock)
      <4>1. UNCHANGED <<rows, alerts, tracked>>  BY <1>9, <3>1 DEF Restart
      <4> QED  BY <2>1, <4>1, TablesKept
    <3>2. CASE ~InSession(clock)
      <4>1. Expire  BY <1>9, <3>2 DEF Restart
      <4> QED  BY <2>1, <4>1, ExpireTables
    <3> QED  BY <3>1, <3>2
  <2>3. ScanInv'  BY <2>1 DEF ScanInv, NoScan, None
  <2>4. EntryInv'
    <3>1. entry' = [e \in Entrants |-> IF entry[e].pc = "found"
                                      THEN [NotEntered EXCEPT !.pc = "done"] ELSE entry[e]]
      BY <1>9 DEF Restart
    <3>2. \A e \in Entrants : entry'[e].pc \in {"new", "done"}
      BY <3>1 DEF LifeInv, EntryInv, EntryOK, NotEntered
    <3>3. entry' = [e \in Entrants |-> entry'[e]]  BY <3>1
    <3> QED  BY <3>2, <3>3 DEF EntryInv, EntryOK
  <2> QED  BY <2>2, <2>3, <2>4 DEF LifeInv
<1>10. CASE Tick
  <2>1. TablesInv' /\ RowsExplained'
    <3>1. clock' \in Nat  BY <1>10, <1>a DEF Tick
    <3> QED  BY <1>10, <1>a, <3>1, TablesKept DEF Tick
  <2>2. ScanInv'  BY <1>10, ScanUntouched DEF Tick, LifeInv
  <2> QED  BY <1>10, <1>b, <2>1, <2>2 DEF LifeInv, Tick
<1>11. CASE UNCHANGED vars
  <2>1. TablesInv' /\ RowsExplained'  BY <1>11, <1>a, TablesKept DEF vars
  <2>2. ScanInv'  BY <1>11, ScanUntouched DEF vars, LifeInv
  <2> QED  BY <1>11, <1>b, <2>1, <2>2 DEF LifeInv, vars
<1> QED
  BY <1>1, <1>2, <1>3, <1>4, <1>5, <1>6, <1>7, <1>8, <1>9, <1>10, <1>11 DEF Next

\* TypeOK: the tables and the handlers keep their types.
THEOREM TypeCorrect == Spec => []TypeOK
<1>1. Init => LifeInv  BY InitLife
<1>2. LifeInv /\ [Next]_vars => LifeInv'  BY NextLife
<1>3. LifeInv => TypeOK  BY LifeType
<1> QED  BY <1>1, <1>2, <1>3, PTL DEF Spec

\* RowsExplained: one active recommendation a day, every status announced, one
\* outcome per lifecycle, whatever scans, entries, closes and restarts interleave.
THEOREM RowsAlwaysExplained == Spec => []RowsExplained
<1>1. Init => LifeInv  BY InitLife
<1>2. LifeInv /\ [Next]_vars => LifeInv'  BY NextLife
<1>3. LifeInv => RowsExplained  BY DEF LifeInv
<1> QED  BY <1>1, <1>2, <1>3, PTL DEF Spec

\* One step revives nothing.
LEMMA StepRevivesNone ==
  ASSUME LifeInv, [Next]_vars, NEW i \in DOMAIN rows, rows[i].status \in Terminal
  PROVE  rows'[i].status \in Terminal
<1>1. CASE UNCHANGED rows  BY <1>1
<1>2. CASE Commit
  <2>1. i # 0  BY DEF LifeInv, TablesInv
  <2>2. CASE i = scan.draft.target  BY <1>2, <2>1, <2>2, CommitTarget
  <2>3. CASE i # scan.draft.target  BY <1>2, <2>3, CommitRows
  <2> QED  BY <2>2, <2>3
<1>3. ASSUME NEW e \in Entrants, WriteEntered(e) PROVE rows'[i].status \in Terminal
  <2>1. CASE i = entry[e].target  BY <1>3, <2>1, WriteEnteredRow, Statuses
  <2>2. CASE i # entry[e].target  BY <1>3, <2>2, WriteEnteredRow
  <2> QED  BY <2>1, <2>2
<1>4. CASE Expire
  <2>1. rows' = [j \in DOMAIN rows |-> IF j \in Stale THEN Expired(rows[j]) ELSE rows[j]]
    BY <1>4 DEF Expire
  <2>2. i \notin Stale  BY Statuses DEF Stale, ActiveRows
  <2> QED  BY <2>1, <2>2
<1>5. \/ UNCHANGED rows \/ Commit \/ (\E e \in Entrants : WriteEntered(e)) \/ Expire
  BY DEF Next, vars, BeginScan, Decide, FailScan, FindBuy, LoseEntry, Housekeeping, Restart, Tick
<1> QED  BY <1>1, <1>2, <1>3, <1>4, <1>5

\* NeverRevived: what ended is never active again, whatever copy a slower handler
\* still holds.
THEOREM NothingRevived == Spec => NeverRevived
<1>1. LifeInv /\ [Next]_vars =>
        [\A i \in DOMAIN rows :
           rows[i].status \in Terminal => rows'[i].status \in Terminal]_rows
  BY StepRevivesNone
<1> QED  BY <1>1, InitLife, NextLife, PTL DEF Spec, NeverRevived
=============================================================================
