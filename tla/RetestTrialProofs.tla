-------------------------- MODULE RetestTrialProofs --------------------------
(***************************************************************************)
(* What the calls of process keep, for any candidates, scenarios, quotes   *)
(* and bars that are late, invalid or never come: every entry is earned    *)
(* and every exit proven by the bars, and the two arms stay comparable.    *)
(***************************************************************************)
EXTENDS RetestTrial, TotalsProofs

-----------------------------------------------------------------------------
(* The inductive invariant.  kn are the bars published, row the frozen row of *)
(* the opportunity o, p its position in the account a.                        *)

\* Known bars that end no exposure, and bars at which nothing happens at all.
Calm(kn, o, from, to) ==
  \A m \in from..to : m \in DOMAIN kn /\ kn[m][o] \in {"quiet", "retest"}
Still(kn, o, from, to) == \A m \in from..to : m \in DOMAIN kn /\ kn[m][o] = "quiet"

\* The entry was asked for by a selected opportunity, at once or at its first retest.
Requested(kn, row, a, o, p) ==
  LET retest == Minute(p.requested) - 1 IN
  /\ row.valid /\ (row.selected \/ a[2] = "opportunity") /\ row.at <= p.requested
  /\ IF Retests(a[1], o)
     THEN /\ retest \in (row.minute + 1)..(row.minute + RetestBars)
          /\ retest \in DOMAIN kn /\ kn[retest][o] = "retest"
          /\ Still(kn, o, row.minute + 1, retest - 1)
     ELSE p.requested = row.at

\* It was filled in time, and no bar before the fill spoiled it.
Entered(kn, row, o, p) ==
  /\ p.requested < p.entryQuote /\ p.entryQuote \in (p.entry - QuoteAge)..p.entry
  /\ row.at <= p.entry /\ p.entry <= p.requested + EntryDeadline
  /\ p.entry < Start(OfDay(Cutoff, row.at))
  /\ Calm(kn, o, row.minute + 1, Minute(p.entry) - 1)

\* The bar that ended the exposure is the first one after the fill.
AskedFor(kn, o, p) ==
  \E bar \in DOMAIN kn :
    /\ bar \in Int /\ p.end = Start(bar + 1)
    /\ p.entry <= Start(bar) /\ p.asked \in p.end..(p.end + ExitDeadline)
    /\ kn[bar][o] \in {"stop", "target"} \/ bar >= OfDay(Cutoff, Start(bar))
    /\ Calm(kn, o, Minute(p.entry), bar - 1)

Left(row, p) ==
  /\ p.asked < p.exitQuote /\ p.exitQuote \in (p.exit - QuoteAge)..p.exit
  /\ p.exit <= p.asked + ExitDeadline
  /\ p.exit < Start(OfDay(Closing, row.at))

\* A position carries the fields of its status only, each with its evidence.
Fit(kn, row, a, o, p) ==
  /\ row = NoRow => p.status = "NONE"
  /\ row # NoRow => (p.status = "NONE" <=> a[2] = "opportunity" /\ setup[o].mode # "ONE_MIN_0DTE")
  /\ p.status = "NONE" => p = NoPos
  /\ p.status = "WAIT_RETEST" =>
       /\ Retests(a[1], o) /\ row.valid /\ (row.selected \/ a[2] = "opportunity")
       /\ row.minute <= p.cursor /\ p.requested = None
       /\ Still(kn, o, row.minute + 1, p.cursor)
  /\ p.status = "PENDING_ENTRY" => p.requested # None /\ Calm(kn, o, row.minute + 1, p.cursor)
  /\ p.status \in Pending => p.entry = None
  /\ p.status = "SKIPPED" => p.entry = None
  /\ p.status \in {"OPEN", "EXIT_PENDING"} => p.entry # None
  /\ p.status = "OPEN" => p.asked = None /\ Calm(kn, o, Minute(p.entry), p.cursor)
  /\ p.status = "EXIT_PENDING" => p.asked # None
  /\ p.status \in {"UNSETTLED", "CLOSED"} <=> p.exit # None
  /\ p.requested # None => Requested(kn, row, a, o, p)
  /\ p.entry # None => p.requested # None /\ Entered(kn, row, o, p)
  /\ p.asked # None => p.entry # None /\ AskedFor(kn, o, p)
  /\ p.exit # None => p.asked # None /\ Left(row, p)

\* No position outlives the session of its opportunity.
Timely(now, row, p) ==
  p.status \in {"OPEN", "EXIT_PENDING"} => now < Start(OfDay(Closing, row.at))

\* A cash account.
Debits(book) == Total([o \in Opps |-> book.pos[o].debit], HeldIn(book.pos))
Awaited(book) == {o \in Opps : book.pos[o].status = "UNSETTLED"}
Sales(book) == Total([o \in Opps |-> book.pos[o].sale], Awaited(book))
Solvent(book) ==
  /\ Cardinality(HeldIn(book.pos)) <= MaxPositions
  /\ book.settled >= CloseFee * Cardinality(HeldIn(book.pos))
  /\ book.settled + book.unsettled + Debits(book) = StartingCash + book.realized
  /\ book.unsettled = Sales(book)

Books == [pos : [Opps -> Positions], settled : Int, unsettled : Int, realized : Int]
Sound(kn, rows, a, book) ==
  /\ book \in Books
  /\ \A o \in Opps : Fit(kn, rows[o], a, o, book.pos[o])
  /\ a[2] # "opportunity" => Solvent(book)

\* The rows frozen so far.
RowFit(now, row) ==
  row # NoRow => /\ row.at \in 0..now /\ InSession(row.at)
                 /\ row.minute = Minute(row.at) - 1
\* One opportunity of a ticker and day is selected.
OneSelected(rows) ==
  LET Idea(o) == <<setup[o].ticker, DayOf(rows[o].minute)>> IN
  \A o, u \in Opps : rows[o] # NoRow /\ rows[u] # NoRow =>
    /\ \E v \in Opps : rows[v] # NoRow /\ Idea(v) = Idea(o) /\ rows[v].selected
    /\ o # u /\ rows[o].selected /\ rows[u].selected => Idea(o) # Idea(u)

RetestInv ==
  /\ TypeOK
  /\ \A o \in Opps : RowFit(processed, found[o])
  /\ OneSelected(found)
  /\ \A a \in Accounts : Sound(bars, found, a, account[a])
  /\ \A a \in Accounts, o \in Opps : Timely(processed, found[o], account[a].pos[o])
-----------------------------------------------------------------------------
(* Constants *)

\* The fees, ages, deadlines and times are natural numbers.
LEMMA Numbers ==
  /\ StartingCash \in Nat /\ MaxPositions \in Nat /\ MaxEntry \in Nat /\ OpenFee \in Nat
  /\ CloseFee \in Nat /\ EntryDeadline \in Nat /\ ExitDeadline \in Nat /\ QuoteAge \in Nat
  /\ MaxSpread \in Nat /\ Activated \in Nat /\ MaxClock \in Nat
  /\ Opening \in Nat /\ Cutoff \in Nat /\ Closing \in Nat
  /\ MinuteTicks \in Nat \ {0} /\ DayMinutes \in Nat \ {0} /\ Latency \in Nat \ {0}
  /\ RetestBars \in Nat \ {0}
  /\ 0 < Opening /\ Opening < Cutoff /\ Cutoff <= Closing /\ Closing < DayMinutes
  /\ None = -1 /\ None \notin Nat /\ None \in Int
  BY RetestAssumption DEF None
-----------------------------------------------------------------------------
(* Clocks *)

\* What a product is, and its order, for the provers.
LEMMA Products ==
  ASSUME NEW w \in Nat \ {0}, NEW m \in Int, NEW n \in Int
  PROVE  /\ m * w \in Int /\ (m + 1) * w = m * w + w
         /\ m <= n => m * w <= n * w
         /\ m < n => m * w + w <= n * w
<1>1. m * w \in Int /\ n * w \in Int /\ (m + 1) * w = m * w + w
  OBVIOUS
<1>2. ASSUME m <= n PROVE m * w <= n * w
  <2>1. PICK k \in Nat : n = m + k
    <3>1. n - m \in Nat /\ n = m + (n - m)
      BY <1>2
    <3> QED  BY <3>1
  <2>2. n * w = m * w + k * w /\ k * w \in Nat
    BY <2>1
  <2> QED  BY <1>1, <2>2
<1>3. ASSUME m < n PROVE m * w + w <= n * w
  <2>1. PICK k \in Nat : n = (m + 1) + k
    <3>1. n - (m + 1) \in Nat /\ n = (m + 1) + (n - (m + 1))
      BY <1>3
    <3> QED  BY <3>1
  <2>2. n * w = (m + 1) * w + k * w /\ k * w \in Nat
    BY <2>1
  <2> QED  BY <1>1, <2>2
<1> QED  BY <1>1, <1>2, <1>3

\* The quotient of t is the greatest number of periods begun at t.
LEMMA Quotient ==
  ASSUME NEW w \in Nat \ {0}, NEW t \in Nat
  PROVE  t \div w \in Nat /\ \A m \in Int : m * w <= t <=> m <= t \div w
<1> DEFINE d == t \div w
<1>1. d \in Nat /\ t = d * w + (t % w) /\ t % w \in 0..(w - 1)
  OBVIOUS
<1> HIDE DEF d
<1>2. d \in Int
  BY <1>1
<1>3. d * w \in Int
  BY <1>2, Products
<1> DEFINE a == d * w
<1>4. a \in Int /\ a <= t /\ t < a + w
  <2>1. t = a + (t % w) /\ t % w \in 0..(w - 1)
    BY <1>1
  <2>2. t % w \in Int /\ t % w >= 0 /\ t % w < w
    BY <2>1
  <2> HIDE DEF a
  <2> QED  BY <2>1, <2>2, <1>3 DEF a
<1>5. ASSUME NEW m \in Int PROVE m * w <= t <=> m <= d
  <2>1. m <= d => m * w <= a
    BY <1>2, Products
  <2>2. d < m => a + w <= m * w
    BY <1>2, Products
  <2>3. m * w \in Int
    BY Products
  <2> HIDE DEF a
  <2> QED  BY <1>2, <1>4, <2>1, <2>2, <2>3
<1> QED  BY <1>1, <1>5 DEF d

\* An instant belongs to the last minute begun, a minute to the last day.
LEMMA MinuteOf ==
  ASSUME NEW t \in Nat
  PROVE  Minute(t) \in Nat /\ \A m \in Int : Start(m) <= t <=> m <= Minute(t)
<1>1. MinuteTicks \in Nat \ {0}
  BY Numbers
<1> QED  BY <1>1, Quotient DEF Minute, Start

\* Minutes start in order, at instants of their own.
LEMMA Starts ==
  ASSUME NEW m \in Int
  PROVE  /\ Start(m) \in Int /\ (m \in Nat => Start(m) \in Nat) /\ Start(m) < Start(m + 1)
         /\ \A n \in Int : Start(m) <= Start(n) <=> m <= n
<1>1. MinuteTicks \in Nat \ {0}
  BY Numbers
<1>2. Start(m) \in Int /\ Start(m) < Start(m + 1)
  BY <1>1, Products DEF Start
<1>3. m \in Nat => Start(m) \in Nat
  BY <1>1 DEF Start
<1>4. ASSUME NEW n \in Int PROVE Start(m) <= Start(n) <=> m <= n
  <2>1. m <= n => Start(m) <= Start(n)
    BY <1>1, Products DEF Start
  <2>2. n < m => Start(n) + MinuteTicks <= Start(m)
    BY <1>1, Products DEF Start
  <2>3. Start(n) \in Int
    BY <1>1, Products DEF Start
  <2> QED  BY <1>1, <1>2, <2>1, <2>2, <2>3
<1> QED  BY <1>2, <1>3, <1>4

\* A minute starts in itself.
LEMMA StartsIn ==
  ASSUME NEW m \in Nat
  PROVE  Minute(Start(m)) = m
<1>1. Start(m) \in Nat
  BY Starts
<1>2. Minute(Start(m)) \in Nat /\ \A n \in Int : Start(n) <= Start(m) <=> n <= Minute(Start(m))
  BY <1>1, MinuteOf
<1>3. \A n \in Int : Start(n) <= Start(m) <=> n <= m
  BY Starts
<1> QED  BY <1>2, <1>3

\* A minute lies in its day and in no other.
LEMMA DayIn ==
  ASSUME NEW m \in Nat
  PROVE  /\ DayOf(m) \in Nat /\ DayOf(m) * DayMinutes <= m /\ m < DayOf(m) * DayMinutes + DayMinutes
         /\ \A d \in Nat : d * DayMinutes <= m /\ m < d * DayMinutes + DayMinutes => d = DayOf(m)
<1>1. DayMinutes \in Nat \ {0}
  BY Numbers
<1>2. DayOf(m) \in Nat /\ \A d \in Int : d * DayMinutes <= m <=> d <= DayOf(m)
  BY <1>1, Quotient DEF DayOf
<1>3. \A d \in Int : d * DayMinutes \in Int /\ (d + 1) * DayMinutes = d * DayMinutes + DayMinutes
  BY <1>1, Products
<1>4. DayOf(m) * DayMinutes <= m
  BY <1>2
<1>5. m < DayOf(m) * DayMinutes + DayMinutes
  <2>1. ~((DayOf(m) + 1) * DayMinutes <= m)
    BY <1>2
  <2> QED  BY <1>1, <1>2, <1>3, <2>1
<1>6. ASSUME NEW d \in Nat, d * DayMinutes <= m, m < d * DayMinutes + DayMinutes
      PROVE  d = DayOf(m)
  <2>1. d <= DayOf(m)
    BY <1>2, <1>6
  <2>2. ~((d + 1) * DayMinutes <= m)
    BY <1>1, <1>3, <1>6
  <2>3. ~(d + 1 <= DayOf(m))
    BY <1>2, <2>2
  <2> QED  BY <1>2, <2>1, <2>3
<1> QED  BY <1>2, <1>4, <1>5, <1>6

\* The minutes of the day of an instant.
LEMMA DayMinute ==
  ASSUME NEW m \in Nat, NEW t \in Nat
  PROVE  OfDay(m, t) \in Nat /\ OfDay(m, t) = DayOf(Minute(t)) * DayMinutes + m
<1>1. Minute(t) \in Nat
  BY MinuteOf
<1>2. DayOf(Minute(t)) \in Nat /\ DayMinutes \in Nat
  BY <1>1, DayIn, Numbers
<1> QED  BY <1>2 DEF OfDay

\* An instant before a minute of a day that began belongs to the day.
LEMMA SameDay ==
  ASSUME NEW s \in Nat, NEW t \in Nat, s <= t, NEW m \in 0..DayMinutes, t < Start(OfDay(m, s))
  PROVE  DayOf(Minute(t)) = DayOf(Minute(s))
<1> DEFINE d == DayOf(Minute(s))
           a == d * DayMinutes
<1>1. Minute(s) \in Nat /\ Minute(t) \in Nat /\ m \in Nat /\ DayMinutes \in Nat \ {0}
  BY MinuteOf, Numbers
<1>2. d \in Nat /\ a <= Minute(s)
  BY <1>1, DayIn
<1>3. OfDay(m, s) = a + m /\ a + m \in Nat
  BY <1>1, DayMinute
<1>4. ~(a + m <= Minute(t))
  <2>1. Start(a + m) <= t <=> a + m <= Minute(t)
    BY <1>3, MinuteOf
  <2>2. Start(a + m) \in Int
    BY <1>3, Starts
  <2> QED  BY <1>3, <2>1, <2>2
<1>5. Minute(s) <= Minute(t)
  <2>1. Start(Minute(s)) <= s /\ Start(Minute(s)) \in Int
    BY <1>1, MinuteOf, Starts
  <2>2. Start(Minute(s)) <= t <=> Minute(s) <= Minute(t)
    BY <1>1, MinuteOf
  <2> QED  BY <2>1, <2>2
<1>6. a \in Int
  BY <1>1, <1>2, Products
<1> HIDE DEF a
<1>7. a <= Minute(t) /\ Minute(t) < a + DayMinutes
  BY <1>1, <1>2, <1>4, <1>5, <1>6
<1> QED  BY <1>1, <1>2, <1>7, DayIn DEF a

\* The minute before an instant of a session is of its day.
LEMMA InSameDay ==
  ASSUME NEW t \in Nat, InSession(t)
  PROVE  /\ Minute(t) - 1 \in Nat /\ DayOf(Minute(t) - 1) = DayOf(Minute(t))
         /\ t < Start(OfDay(Closing, t)) /\ t \in Int
<1> DEFINE d == DayOf(Minute(t))
           a == d * DayMinutes
<1>1. Minute(t) \in Nat /\ DayMinutes \in Nat \ {0} /\ Opening \in Nat /\ Opening > 0
  BY MinuteOf, Numbers
<1>2. d \in Nat /\ a <= Minute(t) /\ Minute(t) < a + DayMinutes
  BY <1>1, DayIn
<1>3. a \in Int
  BY <1>1, <1>2, Products
<1>4. OfDay(Opening, t) = a + Opening
  BY <1>1, DayMinute
<1>5. a + Opening <= Minute(t)
  <2>1. Start(a + Opening) <= t
    BY <1>4 DEF InSession
  <2>2. a + Opening \in Int
    BY <1>1, <1>3
  <2> HIDE DEF a
  <2> QED  BY <2>1, <2>2, MinuteOf
<1>6. a \in Nat
  BY <1>1, <1>2
<1> HIDE DEF a
<1>7. Minute(t) - 1 \in Nat /\ a <= Minute(t) - 1 /\ Minute(t) - 1 < a + DayMinutes
  BY <1>1, <1>2, <1>3, <1>5, <1>6
<1>8. d = DayOf(Minute(t) - 1)
  BY <1>2, <1>7, DayIn DEF a
<1> QED  BY <1>7, <1>8 DEF InSession
-----------------------------------------------------------------------------
(* The underlying's evidence *)

\* The least of a set of minutes is in it.
LEMMA Least ==
  ASSUME NEW S, NEW i \in Int, NEW j \in Int, S \subseteq i..j, S # {}
  PROVE  Earliest(S) \in S /\ \A n \in S : Earliest(S) <= n
<1>1. PICK x \in S : x \in i..j
  OBVIOUS
<1> DEFINE n == j - i
           Free == {k \in 0..n : \A y \in S : i + k < y}
<1>2. n \in Nat
  BY <1>1
<1>3. SUFFICES ASSUME ~\E m \in S : \A y \in S : m <= y PROVE FALSE
  BY DEF Earliest
<1>4. 0 \in Free
  <2>1. i \notin S
    <3>1. \A y \in S : i <= y
      OBVIOUS
    <3> QED  BY <1>3, <3>1
  <2>2. ASSUME NEW y \in S PROVE i + 0 < y
    <3>1. y \in i..j /\ y # i
      BY <2>1
    <3> QED  BY <3>1
  <2> QED  BY <1>2, <2>2
<1>5. ASSUME NEW k \in 1..n, k - 1 \in Free PROVE k \in Free
  <2>1. \A y \in S : i + (k - 1) < y /\ y \in Int
    BY <1>5
  <2>2. i + k \notin S
    <3>1. \A y \in S : i + k <= y
      BY <2>1
    <3> QED  BY <1>3, <3>1
  <2>3. ASSUME NEW y \in S PROVE i + k < y
    <3>1. y # i + k /\ y \in Int /\ i + (k - 1) < y
      BY <2>1, <2>2
    <3> QED  BY <3>1
  <2> QED  BY <1>2, <2>3
<1> HIDE DEF Free
<1>6. 0..n \subseteq Free
  BY <1>2, <1>4, <1>5, NumbersInduct
<1>7. n \in Free /\ n \in 0..n
  BY <1>2, <1>6
<1>8. i + n < x
  BY <1>7 DEF Free
<1> QED  BY <1>1, <1>8

\* Calm bars and still bars, run on.
LEMMA RunOn ==
  ASSUME NEW kn, NEW o, NEW i \in Int, NEW c \in Int, NEW j \in Int
  PROVE  /\ Calm(kn, o, i, c) /\ Calm(kn, o, c + 1, j) => Calm(kn, o, i, j)
         /\ Still(kn, o, i, c) /\ Still(kn, o, c + 1, j) => Still(kn, o, i, j)
         /\ Still(kn, o, i, j) => Calm(kn, o, i, j)
<1>1. \A m \in i..j : m \in i..c \/ m \in (c + 1)..j
  OBVIOUS
<1> QED  BY <1>1 DEF Calm, Still

\* Completed bars are what a minute may be.
KnownBars(kn) == DOMAIN kn \subseteq Nat /\ \A m \in DOMAIN kn : kn[m] \in Moves

\* A completed bar shows an opportunity one of the kinds a minute may have.
LEMMA BarKinds ==
  ASSUME NEW kn, KnownBars(kn), NEW o \in Opps
  PROVE  \A m \in DOMAIN kn : kn[m][o] \in Bars
  BY RetestAssumption DEF KnownBars

\* A bar is calm unless it is missing, spoiled or touched a level.
LEMMA CalmKnown ==
  ASSUME NEW see, KnownBars(see.bars), NEW o \in Opps, NEW m \in Int,
         Known(see, m, o) \notin {"missing", "stop", "target", "bad"}
  PROVE  m \in DOMAIN see.bars /\ see.bars[m][o] \in {"quiet", "retest"}
<1>1. m \in DOMAIN see.bars /\ see.bars[m][o] = Known(see, m, o)
  BY DEF Known
<1> QED  BY <1>1, BarKinds DEF Bars

\* The bar that ends an exposure is the first that is not calm, or past the cutoff.
Ending(see, o, cursor, entry, s) ==
  /\ s.cursor \in Window(cursor, see.now) /\ s.cursor \in DOMAIN see.bars
  /\ s.end = Start(s.cursor + 1)
  /\ see.bars[s.cursor][o] \in {"stop", "target"} \/ s.cursor >= OfDay(Cutoff, Start(s.cursor))
  /\ Calm(see.bars, o, cursor + 1, s.cursor - 1)
  /\ entry # None => entry <= Start(s.cursor)

\* What BarExit answers.
Exits == {"STOP", "TARGET", "TIMED_EXIT"}

\* What one look at the bars answers: a typed reason and cursor, and an end that the bars show.
LEMMA BarSeen ==
  ASSUME NEW see, see.now \in Nat, KnownBars(see.bars), NEW o \in Opps,
         NEW cursor \in Int, NEW entry \in Int, NEW s, s = BarExit(see, o, cursor, entry)
  PROVE  /\ s.reason \in Exits \cup {"NONE", "DATA_GAP", "AMBIGUOUS_ENTRY_BAR"}
         /\ s.cursor \in Int /\ s.end \in Int
         /\ entry = None => s.reason # "AMBIGUOUS_ENTRY_BAR"
         /\ s.reason = "NONE" => /\ cursor <= s.cursor /\ Minute(see.now) - 1 <= s.cursor
                                 /\ Calm(see.bars, o, cursor + 1, s.cursor)
         /\ s.end # None => Ending(see, o, cursor, entry, s)
<1> DEFINE W == Window(cursor, see.now)
           ends == {m \in W : Verdict(see, m, o) # "NONE"}
           f == Earliest(ends)
           last == Minute(see.now) - 1
<1>1. Minute(see.now) \in Nat /\ last \in Int /\ None \in Int
  BY MinuteOf, Numbers
<1>2. W = (cursor + 1)..last
  BY DEF Window
<1>3. \A m \in W : m \in Int
  BY <1>1, <1>2
<1>4. ASSUME NEW m \in W, Verdict(see, m, o) = "NONE", ~Invalid(see, o, cursor)
      PROVE  m \in DOMAIN see.bars /\ see.bars[m][o] \in {"quiet", "retest"}
  <2>1. Known(see, m, o) # "bad"
    BY <1>4 DEF Invalid
  <2>2. Known(see, m, o) \notin {"missing", "stop", "target"}
    BY <1>4 DEF Verdict
  <2>3. m \in Int /\ Known(see, m, o) \notin {"missing", "stop", "target", "bad"}
    BY <1>3, <2>1, <2>2
  <2> QED  BY <2>3, CalmKnown
<1>5. CASE Invalid(see, o, cursor)
  <2>1. s = [reason |-> "DATA_GAP", end |-> None, cursor |-> cursor]
    BY <1>5 DEF BarExit
  <2> QED  BY <1>1, <2>1 DEF Exits
<1>6. CASE ~Invalid(see, o, cursor) /\ ends = {}
  <2>1. s = [reason |-> "NONE", end |-> None, cursor |-> IF W = {} THEN cursor ELSE last]
    BY <1>6 DEF BarExit
  <2>2. \A m \in W : m \in DOMAIN see.bars /\ see.bars[m][o] \in {"quiet", "retest"}
    BY <1>4, <1>6
  <2> HIDE DEF W, ends, last
  <2>3. s.cursor \in Int /\ cursor <= s.cursor /\ last <= s.cursor
    BY <1>1, <1>2, <2>1
  <2>4. \A m \in (cursor + 1)..s.cursor : m \in W
    BY <1>1, <1>2, <2>1
  <2>5. Calm(see.bars, o, cursor + 1, s.cursor)
    BY <2>2, <2>4 DEF Calm
  <2> QED  BY <1>1, <2>1, <2>3, <2>5 DEF Exits, last
<1>7. CASE ~Invalid(see, o, cursor) /\ ends # {}
  <2>1. f \in ends /\ \A m \in ends : f <= m
    <3>1. ends \subseteq (cursor + 1)..last /\ cursor + 1 \in Int
      BY <1>2
    <3> HIDE DEF ends, last
    <3> QED  BY <1>1, <1>7, <3>1, Least
  <2>2. f \in W /\ f \in Int /\ Verdict(see, f, o) # "NONE"
    BY <1>3, <2>1
  <2>3. CASE Verdict(see, f, o) = "DATA_GAP"
    <3>1. s = [reason |-> "DATA_GAP", end |-> None, cursor |-> f - 1]
      BY <1>7, <2>3 DEF BarExit
    <3> HIDE DEF f
    <3> QED  BY <1>1, <2>2, <3>1 DEF Exits
  <2>4. CASE Verdict(see, f, o) # "DATA_GAP" /\ Ambiguous(f, entry)
    <3>1. s = [reason |-> "AMBIGUOUS_ENTRY_BAR", end |-> None, cursor |-> f]
      BY <1>7, <2>4 DEF BarExit
    <3>2. entry # None
      BY <2>4 DEF Ambiguous
    <3> HIDE DEF f
    <3> QED  BY <1>1, <2>2, <3>1, <3>2 DEF Exits
  <2>5. CASE Verdict(see, f, o) # "DATA_GAP" /\ ~Ambiguous(f, entry)
    <3>1. s = [reason |-> Verdict(see, f, o), end |-> Start(f + 1), cursor |-> f]
      BY <1>7, <2>5 DEF BarExit
    <3>2. \A m \in (cursor + 1)..(f - 1) : m \in W /\ Verdict(see, m, o) = "NONE"
      <4>1. ASSUME NEW m \in (cursor + 1)..(f - 1) PROVE m \in W /\ m \notin ends
        <5> HIDE DEF f, ends, W
        <5>1. m \in W
          BY <1>1, <1>2, <2>2
        <5>2. ~(f <= m)
          BY <2>2
        <5> QED  BY <2>1, <5>1, <5>2
      <4> QED  BY <4>1
    <3>3. Calm(see.bars, o, cursor + 1, f - 1)
      <4> HIDE DEF f, W
      <4> QED  BY <1>4, <1>7, <3>2 DEF Calm
    <3>4. entry # None => entry <= Start(f)
      <4>1. entry # None => ~(Start(f) < entry)
        BY <2>5 DEF Ambiguous
      <4>2. Start(f) \in Int
        <5> HIDE DEF f
        <5> QED  BY <2>2, Starts
      <4> HIDE DEF f
      <4> QED  BY <4>1, <4>2
    <3>5. Verdict(see, f, o) \in Exits /\ Known(see, f, o) # "missing"
      <4> HIDE DEF f
      <4> QED  BY <2>2, <2>5 DEF Verdict, Exits
    <3>6. Known(see, f, o) \in {"stop", "target"} \/ f >= OfDay(Cutoff, Start(f))
      <4> HIDE DEF f
      <4> QED  BY <2>2, <2>5 DEF Verdict
    <3>7. f \in DOMAIN see.bars /\ Known(see, f, o) = see.bars[f][o]
      <4> HIDE DEF f
      <4> QED  BY <3>5 DEF Known
    <3>8. Start(f + 1) \in Int
      <4> HIDE DEF f
      <4>1. f + 1 \in Int
        BY <2>2
      <4> QED  BY <4>1, Starts
    <3> HIDE DEF f, W
    <3>9. Ending(see, o, cursor, entry, s)
      BY <2>2, <3>1, <3>3, <3>4, <3>6, <3>7 DEF Ending, W
    <3> QED  BY <2>2, <3>1, <3>5, <3>8, <3>9 DEF Exits
  <2> QED  BY <2>3, <2>4, <2>5
<1> QED  BY <1>5, <1>6, <1>7
-----------------------------------------------------------------------------
(* One position's turn *)

\* A call sees the published bars if it has a provider, and a chain that quotes.
Seeing(see, kn) ==
  /\ see.now \in Nat /\ see.age \in Nat /\ see.live \in BOOLEAN /\ see.blocked \in BOOLEAN
  /\ see.market \in [Opps -> [bid : Nat, ask : Nat, band : BOOLEAN]]
  /\ KnownBars(kn) /\ (see.live => see.bars = kn)

\* The row of an opportunity found before or at a call.
Dated(see, row) == row \in Rows /\ row # NoRow /\ RowFit(see.now, row)

\* The evidence of a field carries over to a position that keeps the fields.
LEMMA Carried ==
  ASSUME NEW kn, NEW row, NEW a, NEW o, NEW p, NEW q
  PROVE  /\ q.requested = p.requested /\ Requested(kn, row, a, o, p) => Requested(kn, row, a, o, q)
         /\ q.requested = p.requested /\ q.entry = p.entry /\ q.entryQuote = p.entryQuote
              => (Entered(kn, row, o, p) => Entered(kn, row, o, q))
         /\ q.entry = p.entry /\ q.asked = p.asked /\ q.end = p.end
              => (AskedFor(kn, o, p) => AskedFor(kn, o, q))
         /\ q.asked = p.asked /\ q.exit = p.exit /\ q.exitQuote = p.exitQuote
              => (Left(row, p) => Left(row, q))
<1>1. q.requested = p.requested /\ Requested(kn, row, a, o, p) => Requested(kn, row, a, o, q)
  BY DEF Requested
<1>2. q.requested = p.requested /\ q.entry = p.entry /\ q.entryQuote = p.entryQuote
        => (Entered(kn, row, o, p) => Entered(kn, row, o, q))
  BY DEF Entered
<1>3. q.entry = p.entry /\ q.asked = p.asked /\ q.end = p.end
        => (AskedFor(kn, o, p) => AskedFor(kn, o, q))
  BY DEF AskedFor
<1>4. q.asked = p.asked /\ q.exit = p.exit /\ q.exitQuote = p.exitQuote
        => (Left(row, p) => Left(row, q))
  BY DEF Left
<1> QED  BY <1>1, <1>2, <1>3, <1>4

\* Giving up an entry, or a price, keeps what was proven before.
LEMMA SkippedFit ==
  ASSUME NEW kn, NEW row, NEW a, NEW o, NEW p \in Positions, Fit(kn, row, a, o, p), p.status \in Pending
  PROVE  /\ Skipped(p) \in Positions /\ Fit(kn, row, a, o, Skipped(p))
         /\ Skipped(p).status = "SKIPPED"
<1> DEFINE q == Skipped(p)
<1>1. /\ q \in Positions /\ q.status = "SKIPPED"
      /\ q.requested = p.requested /\ q.entry = p.entry /\ q.entryQuote = p.entryQuote
      /\ q.asked = p.asked /\ q.end = p.end /\ q.exit = p.exit /\ q.exitQuote = p.exitQuote
  BY DEF Skipped, Positions, Settling
<1> HIDE DEF q
<1>2. Fit(kn, row, a, o, q)
  BY <1>1, Carried DEF Fit, Pending
<1> QED  BY <1>1, <1>2 DEF q

\* A held position whose exit window passed becomes an unpriced one that still fits.
LEMMA UnknownFit ==
  ASSUME NEW kn, NEW row, NEW a, NEW o, NEW p \in Positions, Fit(kn, row, a, o, p),
         p.status \in {"OPEN", "EXIT_PENDING"}
  PROVE  /\ Unknown(p) \in Positions /\ Fit(kn, row, a, o, Unknown(p))
         /\ Unknown(p).status = "UNPRICED" /\ Unknown(p).debit = p.debit
<1> DEFINE q == Unknown(p)
<1>1. /\ q \in Positions /\ q.status = "UNPRICED" /\ q.debit = p.debit
      /\ q.requested = p.requested /\ q.entry = p.entry /\ q.entryQuote = p.entryQuote
      /\ q.asked = p.asked /\ q.end = p.end /\ q.exit = p.exit /\ q.exitQuote = p.exitQuote
  BY DEF Unknown, Positions, HELD
<1> HIDE DEF q
<1>2. Fit(kn, row, a, o, q)
  BY <1>1, Carried DEF Fit, Pending
<1> QED  BY <1>1, <1>2 DEF q

\* What one turn may do to a position, and to the cash of its account.
Afford(a, book, o, q) ==
  LET others == Cardinality(HeldIn(book.pos) \ {o}) IN
  others < MaxPositions /\ q.debit + CloseFee <= book.settled - others * CloseFee
Step(a, book, o, p, q) ==
  \/ q.status = p.status /\ q.debit = p.debit /\ q.sale = p.sale
  \/ p.status \in Pending /\ q.status \in Pending \cup {"SKIPPED"}
  \/ p.status = "OPEN" /\ q.status = "EXIT_PENDING" /\ q.debit = p.debit
  \/ p.status \in {"OPEN", "EXIT_PENDING"} /\ q.status = "UNPRICED" /\ q.debit = p.debit
  \/ p.status \in Pending /\ q.status = "OPEN" /\ (a[2] # "opportunity" => Afford(a, book, o, q))
  \/ p.status = "EXIT_PENDING" /\ q.status = "UNSETTLED" /\ q.debit = p.debit
  \/ p.status = "UNSETTLED" /\ q.status = "CLOSED" /\ q.sale = p.sale

Turned(see, kn, a, book, o, p, q) ==
  /\ q \in Positions /\ Fit(kn, found[o], a, o, q) /\ Timely(see.now, found[o], q)
  /\ Step(a, book, o, p, q)

\* While the session of the opportunity runs, its positions are timely.
LEMMA NotEnded ==
  ASSUME NEW see, NEW kn, Seeing(see, kn), NEW o \in Opps, Dated(see, found[o]), NEW p, ~Ended(see, o, p)
  PROVE  /\ see.now < Start(OfDay(Closing, found[o].at))
         /\ p.status \in Pending => see.now < Start(OfDay(Cutoff, found[o].at))
         /\ \A q : Timely(see.now, found[o], q)
         /\ found[o].at \in Nat /\ found[o].minute \in Int /\ found[o].at <= see.now
<1>1. found[o].at \in Nat /\ found[o].minute \in Int /\ see.now \in Nat /\ found[o].at <= see.now
  BY DEF Dated, Rows, RowFit, Seeing
<1>2. Cutoff \in Nat /\ Closing \in Nat
  BY Numbers
<1>3. OfDay(Closing, found[o].at) \in Nat /\ OfDay(Cutoff, found[o].at) \in Nat
  BY <1>1, <1>2, DayMinute
<1>4. Start(OfDay(Closing, found[o].at)) \in Int /\ Start(OfDay(Cutoff, found[o].at)) \in Int
  BY <1>3, Starts
<1>5. see.now < Start(OfDay(Closing, found[o].at))
  BY <1>1, <1>4 DEF Ended
<1>6. p.status \in Pending => see.now < Start(OfDay(Cutoff, found[o].at))
  BY <1>1, <1>4 DEF Ended
<1> QED  BY <1>1, <1>5, <1>6 DEF Timely

\* A wait for a retest.
LEMMA RetestedTurn ==
  ASSUME NEW see, NEW kn, Seeing(see, kn), see.live, NEW a, NEW book, NEW o \in Opps,
         Dated(see, found[o]), NEW p \in Positions, Fit(kn, found[o], a, o, p),
         p.status = "WAIT_RETEST", ~Ended(see, o, p), NEW q, q = Retested(see, a, o, book, p)
  PROVE  Turned(see, kn, a, book, o, p, q)
<1> DEFINE row == found[o]
           now == see.now
           last == Minute(now) - 1
           W == Window(p.cursor, now)
           limit == row.minute + RetestBars
           events == {m \in W : m > limit \/ Known(see, m, o) # "quiet"}
           f == Earliest(events)
           latest == IF W = {} THEN p.cursor ELSE last
<1>1. /\ now \in Nat /\ last \in Int /\ p.cursor \in Int /\ row.minute \in Int /\ limit \in Int
      /\ None \notin Nat /\ see.bars = kn
  <2>1. row.minute \in Int /\ see.now \in Nat
    BY NotEnded DEF Seeing
  <2> QED  BY <2>1, MinuteOf, Numbers DEF Positions, Seeing
<1>2. \A r : Timely(now, row, r)
  BY NotEnded
<1>3. /\ Retests(a[1], o) /\ row.valid /\ (row.selected \/ a[2] = "opportunity")
      /\ row.minute <= p.cursor /\ p.requested = None /\ p.entry = None
      /\ Still(kn, o, row.minute + 1, p.cursor)
  BY DEF Fit, Pending
<1>4. W = (p.cursor + 1)..last /\ \A m \in W : m \in Int
  BY <1>1 DEF Window
<1>5. CASE q = Skipped(p)
  <2>1. q \in Positions /\ Fit(kn, row, a, o, q) /\ q.status = "SKIPPED"
    BY <1>5, SkippedFit DEF Pending
  <2> QED  BY <1>2, <2>1 DEF Turned, Step, Pending
<1>6. CASE events = {} /\ q = [p EXCEPT !.cursor = latest]
  <2>1. \A m \in (p.cursor + 1)..latest : m \in W
    BY <1>1, <1>4
  <2>2. \A m \in W : m \in DOMAIN kn /\ kn[m][o] = "quiet"
    <3>1. \A m \in W : Known(see, m, o) = "quiet"
      BY <1>6
    <3> QED  BY <1>1, <3>1 DEF Known
  <2>3. latest \in Int /\ p.cursor <= latest
    BY <1>1, <1>4
  <2> HIDE DEF latest, W
  <2>4. Still(kn, o, p.cursor + 1, latest)
    BY <2>1, <2>2 DEF Still
  <2>5. Still(kn, o, row.minute + 1, latest)
    <3>1. row.minute + 1 \in Int
      BY <1>1
    <3> QED  BY <1>1, <1>3, <2>3, <2>4, <3>1, RunOn
  <2>6. /\ q \in Positions /\ q.status = p.status /\ q.debit = p.debit /\ q.sale = p.sale
        /\ q.cursor = latest /\ q.requested = p.requested /\ q.entry = p.entry
        /\ q.asked = p.asked /\ q.exit = p.exit
    BY <1>6, <2>3 DEF Positions
  <2>7. row.minute <= latest
    BY <1>1, <1>3, <2>3
  <2> HIDE DEF row
  <2>8. Fit(kn, row, a, o, p)
    BY DEF row
  <2>9. Fit(kn, row, a, o, q)
    BY <1>3, <2>5, <2>6, <2>7, <2>8 DEF Fit, Pending
  <2>10. Step(a, book, o, p, q)
    BY <2>6 DEF Step
  <2> QED  BY <1>2, <2>6, <2>9, <2>10 DEF Turned, row
<1>7. CASE /\ events # {} /\ f <= limit /\ Known(see, f, o) = "retest" /\ Observed(see, f)
           /\ q = [p EXCEPT !.status = "PENDING_ENTRY", !.requested = now, !.cursor = f]
  <2>1. f \in events /\ \A m \in events : f <= m
    <3>1. events \subseteq (p.cursor + 1)..last /\ p.cursor + 1 \in Int
      BY <1>1, <1>4
    <3> HIDE DEF events, last
    <3> QED  BY <1>1, <1>7, <3>1, Least
  <2>2. f \in W /\ f \in Int
    BY <1>4, <2>1
  <2>3. f = last /\ f \in DOMAIN kn /\ kn[f][o] = "retest" /\ f <= limit
    <3>1. f \in DOMAIN kn /\ kn[f][o] = "retest"
      BY <1>1, <1>7 DEF Known
    <3> QED  BY <1>7, <3>1 DEF Observed
  <2>4. Still(kn, o, p.cursor + 1, f - 1)
    <3>1. ASSUME NEW m \in (p.cursor + 1)..(f - 1) PROVE Known(see, m, o) = "quiet"
      <4> HIDE DEF f, W
      <4>1. m \in W /\ ~(f <= m)
        BY <1>1, <1>4, <2>2
      <4> QED  BY <2>1, <4>1
    <3> HIDE DEF f
    <3> QED  BY <1>1, <3>1 DEF Known, Still
  <2> HIDE DEF f, W
  <2>5. Still(kn, o, row.minute + 1, f - 1)
    <3>1. row.minute + 1 \in Int /\ f - 1 \in Int
      BY <1>1, <2>2
    <3> QED  BY <1>1, <1>3, <2>4, <3>1, RunOn
  <2>6. Calm(kn, o, row.minute + 1, f)
    <3>1. \A m \in (row.minute + 1)..f : m = f \/ m \in (row.minute + 1)..(f - 1)
      BY <1>1, <2>2
    <3> QED  BY <2>3, <2>5, <3>1 DEF Still, Calm
  <2>7. /\ q \in Positions /\ q.status = "PENDING_ENTRY" /\ q.cursor = f /\ q.requested = now
        /\ q.entry = p.entry /\ q.asked = p.asked /\ q.exit = p.exit
    <3>1. q = [p EXCEPT !.status = "PENDING_ENTRY", !.requested = now, !.cursor = f]
      BY <1>7
    <3>2. now \in Int /\ f \in Int
      BY <1>1, <2>2
    <3> HIDE DEF now
    <3> QED  BY <3>1, <3>2 DEF Positions, Pending
  <2>8. f \in (row.minute + 1)..limit
    <3>1. f >= p.cursor + 1
      BY <1>1, <1>4, <2>2
    <3> QED  BY <1>1, <1>3, <2>2, <2>3, <3>1
  <2>9. row.at <= now
    BY NotEnded
  <2> HIDE DEF row
  <2>10. Fit(kn, row, a, o, p)
    BY DEF row
  <2>11. Requested(kn, row, a, o, q)
    BY <1>3, <2>3, <2>5, <2>7, <2>8, <2>9 DEF Requested
  <2>12. Fit(kn, row, a, o, q)
    BY <1>1, <1>3, <2>6, <2>7, <2>10, <2>11 DEF Fit, Pending
  <2>13. Step(a, book, o, p, q)
    BY <2>7 DEF Step, Pending
  <2> QED  BY <1>2, <2>7, <2>12, <2>13 DEF Turned, row
<1>8. \/ q = Skipped(p)
      \/ events = {} /\ q = [p EXCEPT !.cursor = latest]
      \/ /\ events # {} /\ f <= limit /\ Known(see, f, o) = "retest" /\ Observed(see, f)
         /\ q = [p EXCEPT !.status = "PENDING_ENTRY", !.requested = now, !.cursor = f]
  BY DEF Retested
<1> QED  BY <1>5, <1>6, <1>7, <1>8

\* What an entry costs, and that an account affords the entries it may make.
LEMMA Prices ==
  ASSUME NEW see, NEW kn, Seeing(see, kn), NEW o \in Opps, NEW a \in Accounts, a[2] # "opportunity"
  PROVE  Debit(a, see.market[o]) \in Nat /\ Sale(a, see.market[o]) \in Nat
<1>1. a[2] \in DOMAIN Costs
  BY DEF Accounts, Scenarios
<1>2. Costs[a[2]] \in Nat /\ OpenFee \in Nat
  BY <1>1, RetestAssumption, Numbers
<1>3. see.market[o].ask \in Nat /\ see.market[o].bid \in Nat
  BY DEF Seeing
<1>4. see.market[o].bid > Costs[a[2]] => see.market[o].bid - Costs[a[2]] \in Nat
  BY <1>2, <1>3
<1> QED  BY <1>2, <1>3, <1>4 DEF Debit, Sale

\* A fill.
LEMMA OpenedTurn ==
  ASSUME NEW see, NEW kn, Seeing(see, kn), NEW a \in Accounts, NEW book, NEW o \in Opps,
         Dated(see, found[o]), NEW p \in Positions, Fit(kn, found[o], a, o, p),
         p.status = "PENDING_ENTRY", ~Ended(see, o, p),
         see.now <= p.requested + EntryDeadline, Verified(see, o, p.requested + Latency),
         Calm(kn, o, found[o].minute + 1, Minute(see.now) - 1),
         Capacity(a, book, o, see.market[o]), NEW q, q = Opened(see, a, o, p)
  PROVE  Turned(see, kn, a, book, o, p, q)
<1> DEFINE row == found[o]
           now == see.now
           cost == IF a[2] = "opportunity" THEN 0 ELSE Debit(a, see.market[o])
           last == Minute(now) - 1
<1>1. /\ now \in Nat /\ see.age \in Nat /\ p.requested \in Int /\ row.at \in Nat /\ row.at <= now
      /\ QuoteAge \in Nat /\ Latency \in Nat \ {0} /\ last \in Int /\ EntryDeadline \in Nat
      /\ None \notin Nat /\ row.minute \in Int
  <2>1. /\ now \in Nat /\ see.age \in Nat /\ p.requested \in Int
    BY DEF Seeing, Positions
  <2>2. row.at \in Nat /\ row.at <= now /\ row.minute \in Int
    BY NotEnded
  <2>3. Minute(now) \in Nat
    BY <2>1, MinuteOf
  <2> QED  BY <2>1, <2>2, <2>3, Numbers
<1>2. /\ \A r : Timely(now, row, r)
      /\ now < Start(OfDay(Cutoff, row.at))
  BY NotEnded DEF Pending
<1>3. p.requested # None /\ p.entry = None /\ Requested(kn, row, a, o, p) /\ p.asked = None /\ p.exit = None
  BY DEF Fit, Pending
<1>4. cost \in Nat
  BY Prices
<1>5. /\ see.market[o] # NoQuote /\ now - see.age >= p.requested + Latency /\ see.age <= QuoteAge
  BY DEF Verified
<1>6. /\ q \in Positions /\ q.status = "OPEN" /\ q.entry = now /\ q.entryQuote = now - see.age
      /\ q.debit = cost /\ q.cursor = last
      /\ q.requested = p.requested /\ q.asked = p.asked /\ q.exit = p.exit
  <2>1. q = [p EXCEPT !.status = "OPEN", !.entry = now, !.entryQuote = now - see.age,
                      !.debit = cost, !.cursor = last]
    BY DEF Opened
  <2>2. now \in Int /\ now - see.age \in Int
    BY <1>1
  <2> HIDE DEF cost, last, now
  <2> QED  BY <1>1, <1>4, <2>1, <2>2 DEF Positions, HELD
<1> HIDE DEF cost, last
<1>7. Entered(kn, row, o, q)
  <2>1. q.requested < q.entryQuote /\ q.entryQuote \in (q.entry - QuoteAge)..q.entry
    BY <1>1, <1>5, <1>6
  <2>2. Calm(kn, o, row.minute + 1, Minute(q.entry) - 1)
    BY <1>6
  <2> QED  BY <1>1, <1>2, <1>6, <2>1, <2>2 DEF Entered
<1>8. Calm(kn, o, Minute(now), last)
  <2>1. Minute(now)..last = {}
    <3>1. Minute(now) \in Nat
      BY <1>1, MinuteOf
    <3> QED  BY <3>1 DEF last
  <2> QED  BY <2>1 DEF Calm
<1>9. Requested(kn, row, a, o, q)
  BY <1>3, <1>6, Carried
<1>10. row # NoRow => (a[2] = "opportunity" /\ setup[o].mode # "ONE_MIN_0DTE" => FALSE)
  BY DEF Fit
<1>11. row # NoRow
  BY DEF Dated
<1>12. Fit(kn, row, a, o, q)
  <2> HIDE DEF row
  <2> QED  BY <1>1, <1>3, <1>6, <1>7, <1>8, <1>9, <1>10, <1>11 DEF Fit, Pending
<1>13. a[2] # "opportunity" => Afford(a, book, o, q)
  BY <1>5, <1>6 DEF Capacity, Afford, cost
<1>14. Step(a, book, o, p, q)
  BY <1>6, <1>13 DEF Step, Pending
<1> QED  BY <1>2, <1>6, <1>12, <1>14 DEF Turned

\* A requested entry.
LEMMA AnsweredTurn ==
  ASSUME NEW see, NEW kn, Seeing(see, kn), see.live, NEW a \in Accounts, NEW book, NEW o \in Opps,
         Dated(see, found[o]), NEW p \in Positions, Fit(kn, found[o], a, o, p),
         p.status = "PENDING_ENTRY", ~Ended(see, o, p), NEW q, q = Answered(see, a, o, book, p)
  PROVE  Turned(see, kn, a, book, o, p, q)
<1> DEFINE row == found[o]
           now == see.now
           seen == BarExit(see, o, p.cursor, None)
<1>1. /\ now \in Nat /\ p.cursor \in Int /\ p.requested \in Int /\ row.minute \in Int
      /\ None \in Int /\ see.bars = kn /\ KnownBars(see.bars) /\ EntryDeadline \in Nat
  <2>1. row.minute \in Int
    BY NotEnded
  <2> QED  BY <2>1, Numbers DEF Positions, Seeing
<1>2. \A r : Timely(now, row, r)
  BY NotEnded
<1>3. CASE q = Skipped(p)
  <2>1. q \in Positions /\ Fit(kn, row, a, o, q) /\ q.status = "SKIPPED"
    BY <1>3, SkippedFit DEF Pending
  <2> QED  BY <1>2, <2>1 DEF Turned, Step, Pending
<1>4. Calm(kn, o, row.minute + 1, p.cursor) /\ p.entry = None
  BY DEF Fit, Pending
<1>5. CASE seen.reason = "NONE" /\ now <= p.requested + EntryDeadline /\ q # Skipped(p)
  <2>1. /\ seen.cursor \in Int /\ p.cursor <= seen.cursor /\ Minute(now) - 1 <= seen.cursor
        /\ Calm(kn, o, p.cursor + 1, seen.cursor)
    BY <1>1, <1>5, BarSeen
  <2> HIDE DEF seen
  <2>2. Calm(kn, o, row.minute + 1, seen.cursor)
    <3>1. row.minute + 1 \in Int
      BY <1>1
    <3> QED  BY <1>1, <1>4, <2>1, <3>1, RunOn
  <2>3. CASE q = [p EXCEPT !.cursor = seen.cursor]
    <3>1. /\ q \in Positions /\ q.status = p.status /\ q.debit = p.debit /\ q.sale = p.sale
          /\ q.cursor = seen.cursor /\ q.requested = p.requested /\ q.entry = p.entry
          /\ q.asked = p.asked /\ q.exit = p.exit
      BY <2>1, <2>3 DEF Positions
    <3>2. Fit(kn, row, a, o, q)
      <4>1. Fit(kn, row, a, o, p)
        OBVIOUS
      <4> HIDE DEF row
      <4> QED  BY <2>2, <3>1, <4>1, Carried DEF Fit, Pending
    <3> QED  BY <1>2, <3>1, <3>2 DEF Turned, Step
  <2>4. CASE Verified(see, o, p.requested + Latency) /\ Capacity(a, book, o, see.market[o])
             /\ q = Opened(see, a, o, p)
    <3>1. Calm(kn, o, row.minute + 1, Minute(now) - 1)
      <4>1. \A m \in (row.minute + 1)..(Minute(now) - 1) : m \in (row.minute + 1)..seen.cursor
        <5>1. Minute(now) \in Nat
          BY <1>1, MinuteOf
        <5> QED  BY <1>1, <2>1, <5>1
      <4> QED  BY <2>2, <4>1 DEF Calm
    <3> QED  BY <1>5, <2>4, <3>1, OpenedTurn
  <2>5. \/ q = [p EXCEPT !.cursor = seen.cursor]
        \/ /\ Verified(see, o, p.requested + Latency) /\ Capacity(a, book, o, see.market[o])
           /\ q = Opened(see, a, o, p)
    BY <1>5 DEF Answered, seen
  <2> QED  BY <2>3, <2>4, <2>5
<1>6. q # Skipped(p) => seen.reason = "NONE" /\ now <= p.requested + EntryDeadline
  <2>1. q # Skipped(p) => seen.reason = "NONE" /\ ~(now > p.requested + EntryDeadline)
    BY DEF Answered
  <2> QED  BY <1>1, <2>1
<1> QED  BY <1>3, <1>5, <1>6

\* An open position.
LEMMA WatchedTurn ==
  ASSUME NEW see, NEW kn, Seeing(see, kn), see.live, NEW a \in Accounts, NEW book, NEW o \in Opps,
         Dated(see, found[o]), NEW p \in Positions, Fit(kn, found[o], a, o, p),
         p.status = "OPEN", ~Ended(see, o, p), NEW q, q = Watched(see, o, p)
  PROVE  Turned(see, kn, a, book, o, p, q)
<1> DEFINE row == found[o]
           now == see.now
           seen == BarExit(see, o, p.cursor, p.entry)
<1>1. /\ now \in Nat /\ p.cursor \in Int /\ p.entry \in Int
      /\ None = -1 /\ see.bars = kn /\ KnownBars(see.bars) /\ ExitDeadline \in Nat
  BY Numbers DEF Positions, Seeing
<1>2. \A r : Timely(now, row, r)
  BY NotEnded
<1>3. /\ p.asked = None /\ p.entry # None /\ Calm(kn, o, Minute(p.entry), p.cursor) /\ p.exit = None
      /\ p.requested # None /\ Entered(kn, row, o, p)
  BY DEF Fit
<1>4. p.entry \in Nat /\ Minute(p.entry) \in Int
  <2>1. row.at <= p.entry /\ row.at \in Nat
    BY <1>3, NotEnded DEF Entered
  <2>2. p.entry \in Nat
    BY <1>1, <2>1
  <2> QED  BY <2>2, MinuteOf
<1>5. CASE q = Unknown(p)
  <2>1. q \in Positions /\ Fit(kn, row, a, o, q) /\ q.status = "UNPRICED" /\ q.debit = p.debit
    BY <1>5, UnknownFit
  <2> QED  BY <1>2, <2>1 DEF Turned, Step
<1>6. CASE seen.reason = "NONE" /\ q = [p EXCEPT !.cursor = seen.cursor]
  <2>1. /\ seen.cursor \in Int /\ p.cursor <= seen.cursor
        /\ Calm(kn, o, p.cursor + 1, seen.cursor)
    BY <1>1, <1>6, BarSeen
  <2> HIDE DEF seen
  <2>2. Calm(kn, o, Minute(p.entry), seen.cursor)
    BY <1>1, <1>3, <1>4, <2>1, RunOn
  <2>3. /\ q \in Positions /\ q.status = p.status /\ q.debit = p.debit /\ q.sale = p.sale
        /\ q.cursor = seen.cursor /\ q.requested = p.requested /\ q.entry = p.entry
        /\ q.entryQuote = p.entryQuote /\ q.asked = p.asked /\ q.exit = p.exit
    BY <1>6, <2>1 DEF Positions
  <2>4. Fit(kn, row, a, o, q)
    <3>1. Fit(kn, row, a, o, p)
      OBVIOUS
    <3> HIDE DEF row
    <3> QED  BY <1>3, <2>2, <2>3, <3>1, Carried DEF Fit, Pending
  <2> QED  BY <1>2, <2>3, <2>4 DEF Turned, Step
<1>7. CASE /\ seen.end # None /\ ~(now > seen.end + ExitDeadline)
           /\ q = [p EXCEPT !.status = "EXIT_PENDING", !.asked = now, !.end = seen.end,
                            !.cursor = seen.cursor]
  <2>1. Ending(see, o, p.cursor, p.entry, seen) /\ seen.cursor \in Int /\ seen.end \in Int
    BY <1>1, <1>7, BarSeen
  <2> DEFINE f == seen.cursor
  <2> HIDE DEF seen
  <2>2. /\ f \in Window(p.cursor, now) /\ f \in DOMAIN kn /\ seen.end = Start(f + 1) /\ f \in Int
        /\ kn[f][o] \in {"stop", "target"} \/ f >= OfDay(Cutoff, Start(f))
        /\ Calm(kn, o, p.cursor + 1, f - 1) /\ p.entry <= Start(f)
    BY <1>1, <1>3, <2>1 DEF Ending
  <2>3. Calm(kn, o, Minute(p.entry), f - 1)
    <3>1. f - 1 \in Int
      BY <2>2
    <3> QED  BY <1>1, <1>3, <1>4, <2>2, <3>1, RunOn
  <2>4. seen.end <= now
    <3>1. Minute(now) \in Nat /\ f + 1 <= Minute(now)
      <4>1. Minute(now) \in Nat
        BY <1>1, MinuteOf
      <4> QED  BY <1>1, <2>2, <4>1 DEF Window
    <3>2. f + 1 \in Int
      BY <2>2
    <3> QED  BY <1>1, <2>2, <3>1, <3>2, MinuteOf
  <2>5. now \in seen.end..(seen.end + ExitDeadline)
    BY <1>1, <1>7, <2>1, <2>4
  <2>6. /\ q \in Positions /\ q.status = "EXIT_PENDING" /\ q.debit = p.debit
        /\ q.asked = now /\ q.end = seen.end /\ q.requested = p.requested /\ q.entry = p.entry
        /\ q.entryQuote = p.entryQuote /\ q.exit = p.exit
    <3>1. /\ q = [p EXCEPT !.status = "EXIT_PENDING", !.asked = now, !.end = seen.end,
                           !.cursor = seen.cursor]
      BY <1>7
    <3>2. now \in Int
      BY <1>1
    <3> HIDE DEF now, f
    <3> QED  BY <2>1, <3>1, <3>2 DEF Positions, HELD
  <2>7. AskedFor(kn, o, q)
    <3> HIDE DEF f
    <3> QED  BY <2>2, <2>3, <2>5, <2>6 DEF AskedFor
  <2>8. q.asked # None
    BY <1>1, <2>6
  <2>9. Fit(kn, row, a, o, q)
    <3>1. Fit(kn, row, a, o, p)
      OBVIOUS
    <3> HIDE DEF row
    <3> QED  BY <1>3, <2>6, <2>7, <2>8, <3>1, Carried DEF Fit, Pending
  <2> QED  BY <1>2, <2>6, <2>9 DEF Turned, Step
<1>8. \/ q = Unknown(p)
      \/ seen.reason = "NONE" /\ q = [p EXCEPT !.cursor = seen.cursor]
      \/ /\ seen.end # None /\ ~(now > seen.end + ExitDeadline)
         /\ q = [p EXCEPT !.status = "EXIT_PENDING", !.asked = now, !.end = seen.end,
                          !.cursor = seen.cursor]
  BY DEF Watched
<1> QED  BY <1>5, <1>6, <1>7, <1>8

\* A requested exit.
LEMMA ExitedTurn ==
  ASSUME NEW see, NEW kn, Seeing(see, kn), NEW a \in Accounts, NEW book, NEW o \in Opps,
         Dated(see, found[o]), NEW p \in Positions, Fit(kn, found[o], a, o, p),
         p.status = "EXIT_PENDING", ~Ended(see, o, p), NEW q, q = Exited(see, a, o, p)
  PROVE  Turned(see, kn, a, book, o, p, q)
<1> DEFINE row == found[o]
           now == see.now
           gain == IF a[2] = "opportunity" THEN 0 ELSE Sale(a, see.market[o])
           due == SettlementAt(now)
<1>1. /\ now \in Nat /\ see.age \in Nat /\ p.asked \in Int /\ None \notin Nat
      /\ QuoteAge \in Nat /\ Latency \in Nat \ {0} /\ ExitDeadline \in Nat
  BY Numbers DEF Positions, Seeing
<1>2. /\ \A r : Timely(now, row, r)
      /\ now < Start(OfDay(Closing, row.at))
  BY NotEnded
<1>3. p.asked # None /\ p.exit = None /\ p.entry # None
  BY DEF Fit
<1>4. CASE q = Unknown(p)
  <2>1. q \in Positions /\ Fit(kn, row, a, o, q) /\ q.status = "UNPRICED" /\ q.debit = p.debit
    BY <1>4, UnknownFit
  <2> QED  BY <1>2, <2>1 DEF Turned, Step
<1>5. CASE q = p
  BY <1>2, <1>5 DEF Turned, Step
<1>6. CASE /\ ~(now > p.asked + ExitDeadline) /\ Verified(see, o, p.asked + Latency)
           /\ q = [p EXCEPT !.status = "UNSETTLED", !.exit = now, !.exitQuote = now - see.age,
                            !.sale = gain, !.due = due]
  <2>1. /\ now - see.age >= p.asked + Latency /\ see.age <= QuoteAge
    BY <1>6 DEF Verified
  <2>2. gain \in Nat
    BY Prices
  <2>3. due \in Int
    <3>1. DayMinutes + Opening \in Nat
      BY Numbers
    <3>2. OfDay(DayMinutes + Opening, now) \in Nat
      BY <1>1, <3>1, DayMinute
    <3> QED  BY <3>2, Starts DEF SettlementAt
  <2>4. /\ q \in Positions /\ q.status = "UNSETTLED" /\ q.debit = p.debit
        /\ q.exit = now /\ q.exitQuote = now - see.age /\ q.asked = p.asked /\ q.end = p.end
        /\ q.requested = p.requested /\ q.entry = p.entry /\ q.entryQuote = p.entryQuote
    <3>1. q = [p EXCEPT !.status = "UNSETTLED", !.exit = now, !.exitQuote = now - see.age,
                            !.sale = gain, !.due = due]
      BY <1>6
    <3>2. now \in Int /\ now - see.age \in Int
      BY <1>1
    <3> HIDE DEF now, gain, due
    <3> QED  BY <2>2, <2>3, <3>1, <3>2 DEF Positions, Settling
  <2> HIDE DEF gain, due
  <2>5. Left(row, q)
    <3>1. q.asked < q.exitQuote /\ q.exitQuote \in (q.exit - QuoteAge)..q.exit
      BY <1>1, <2>1, <2>4
    <3>2. q.exit <= q.asked + ExitDeadline
      BY <1>1, <1>6, <2>4
    <3> QED  BY <1>2, <2>4, <3>1, <3>2 DEF Left
  <2>6. q.exit # None
    BY <1>1, <2>4
  <2>7. Fit(kn, row, a, o, q)
    <3>1. Fit(kn, row, a, o, p)
      OBVIOUS
    <3> HIDE DEF row
    <3> QED  BY <1>3, <2>4, <2>5, <2>6, <3>1, Carried DEF Fit, Pending
  <2> QED  BY <1>2, <2>4, <2>7 DEF Turned, Step
<1>7. \/ q = Unknown(p) \/ q = p
      \/ /\ ~(now > p.asked + ExitDeadline) /\ Verified(see, o, p.asked + Latency)
         /\ q = [p EXCEPT !.status = "UNSETTLED", !.exit = now, !.exitQuote = now - see.age,
                          !.sale = gain, !.due = due]
  BY DEF Exited
<1> QED  BY <1>4, <1>5, <1>6, <1>7

\* A position's turn in a call.
LEMMA AdvanceTurn ==
  ASSUME NEW see, NEW kn, Seeing(see, kn), NEW a \in Accounts, NEW book, NEW o \in Opps,
         Dated(see, found[o]), NEW p \in Positions, Fit(kn, found[o], a, o, p),
         NEW q, q = Advance(see, a, o, book, p)
  PROVE  Turned(see, kn, a, book, o, p, q)
<1> DEFINE row == found[o]
           live == ~Ended(see, o, p) /\ see.live
<1>1. CASE p.status = "UNSETTLED" /\ see.now >= p.due
  <2>1. q = [p EXCEPT !.status = "CLOSED"]
    BY <1>1 DEF Advance, Pending
  <2>2. /\ q \in Positions /\ q.status = "CLOSED" /\ q.sale = p.sale
        /\ q.requested = p.requested /\ q.entry = p.entry /\ q.entryQuote = p.entryQuote
        /\ q.asked = p.asked /\ q.end = p.end /\ q.exit = p.exit /\ q.exitQuote = p.exitQuote
    BY <2>1 DEF Positions, Settling
  <2>3. Fit(kn, row, a, o, q)
    <3>1. Fit(kn, row, a, o, p)
      OBVIOUS
    <3> HIDE DEF row
    <3> QED  BY <1>1, <2>2, <3>1, Carried DEF Fit, Pending
  <2> QED  BY <1>1, <2>2, <2>3 DEF Turned, Step, Timely
<1>2. CASE p.status \in Pending /\ (see.blocked \/ Ended(see, o, p))
  <2>1. q = Skipped(p)
    BY <1>2 DEF Advance, Pending
  <2>2. q \in Positions /\ Fit(kn, row, a, o, q) /\ q.status = "SKIPPED"
    BY <1>2, <2>1, SkippedFit
  <2> QED  BY <1>2, <2>2 DEF Turned, Step, Timely
<1>3. CASE p.status \in {"OPEN", "EXIT_PENDING"} /\ Ended(see, o, p)
  <2>1. q = Unknown(p)
    BY <1>3 DEF Advance, Pending
  <2>2. q \in Positions /\ Fit(kn, row, a, o, q) /\ q.status = "UNPRICED" /\ q.debit = p.debit
    BY <1>3, <2>1, UnknownFit
  <2> QED  BY <1>3, <2>2 DEF Turned, Step, Timely
<1>4. CASE p.status = "WAIT_RETEST" /\ ~see.blocked /\ live
  <2>1. q = Retested(see, a, o, book, p)
    BY <1>4 DEF Advance, Pending
  <2> QED  BY <1>4, <2>1, RetestedTurn
<1>5. CASE p.status = "PENDING_ENTRY" /\ ~see.blocked /\ live
  <2>1. q = Answered(see, a, o, book, p)
    BY <1>5 DEF Advance, Pending
  <2> QED  BY <1>5, <2>1, AnsweredTurn
<1>6. CASE p.status = "OPEN" /\ live
  <2>1. q = Watched(see, o, p)
    BY <1>6 DEF Advance, Pending
  <2> QED  BY <1>6, <2>1, WatchedTurn
<1>7. CASE p.status = "EXIT_PENDING" /\ live
  <2>1. q = Exited(see, a, o, p)
    BY <1>7 DEF Advance, Pending
  <2> QED  BY <1>7, <2>1, ExitedTurn
<1>8. CASE /\ ~(p.status = "UNSETTLED" /\ see.now >= p.due)
           /\ ~(p.status \in Pending /\ (see.blocked \/ Ended(see, o, p)))
           /\ ~(p.status \in {"OPEN", "EXIT_PENDING"} /\ Ended(see, o, p))
           /\ ~(p.status \in Pending \cup {"OPEN", "EXIT_PENDING"} /\ live)
  <2>1. q = p
    BY <1>8 DEF Advance, Pending
  <2>2. Timely(see.now, row, p)
    <3>1. CASE p.status \in {"OPEN", "EXIT_PENDING"}
      BY <1>8, <3>1, NotEnded
    <3>2. CASE p.status \notin {"OPEN", "EXIT_PENDING"}
      BY <3>2 DEF Timely
    <3> QED  BY <3>1, <3>2
  <2> QED  BY <2>1, <2>2 DEF Turned, Step
<1> QED  BY <1>1, <1>2, <1>3, <1>4, <1>5, <1>6, <1>7, <1>8 DEF Pending
-----------------------------------------------------------------------------
(* The ledger of one account *)

\* A turn changes one position of a book.
LEMMA MovedBook ==
  ASSUME NEW b \in Books, NEW a, NEW o \in Opps, NEW q \in Positions, NEW c, c = Booked(b, a, o, q)
  PROVE  /\ c \in Books /\ c.pos[o] = q /\ \A u \in Opps : u # o => c.pos[u] = b.pos[u]
<1>1. CloseFee \in Nat
  BY Numbers
<1>2. /\ b.pos \in [Opps -> Positions] /\ b.settled \in Int /\ b.unsettled \in Int /\ b.realized \in Int
      /\ b.pos[o].debit \in Int /\ q.debit \in Int /\ b.pos[o].sale \in Int /\ q.sale \in Int
  BY DEF Books, Positions
<1>3. c.pos = [b.pos EXCEPT ![o] = q]
  BY DEF Booked
<1>4. c.settled \in Int /\ c.unsettled \in Int /\ c.realized \in Int
  BY <1>1, <1>2 DEF Booked
<1>5. c = [pos |-> c.pos, settled |-> c.settled, unsettled |-> c.unsettled, realized |-> c.realized]
  BY DEF Booked
<1> QED  BY <1>2, <1>3, <1>4, <1>5 DEF Books

\* The sums of a book when one position changes.
Owed(p) == IF p.status \in HELD THEN p.debit ELSE 0
Due(p) == IF p.status = "UNSETTLED" THEN p.sale ELSE 0
Slot(p) == IF p.status \in HELD THEN 1 ELSE 0

\* Each sum of the account moves by what the changed position adds or takes.
LEMMA MovedSums ==
  ASSUME NEW b \in Books, NEW c \in Books, NEW o \in Opps,
         \A u \in Opps : u # o => c.pos[u] = b.pos[u]
  PROVE  /\ Debits(b) \in Int /\ Debits(c) = Debits(b) - Owed(b.pos[o]) + Owed(c.pos[o])
         /\ Sales(b) \in Int /\ Sales(c) = Sales(b) - Due(b.pos[o]) + Due(c.pos[o])
         /\ Cardinality(HeldIn(b.pos)) \in Nat /\ Cardinality(HeldIn(c.pos)) \in Nat
         /\ Cardinality(HeldIn(c.pos)) = Cardinality(HeldIn(b.pos)) - Slot(b.pos[o]) + Slot(c.pos[o])
         /\ b.pos[o].status \notin HELD => HeldIn(b.pos) \ {o} = HeldIn(b.pos)
<1>1. IsFiniteSet(Opps)
  BY RetestAssumption
<1> DEFINE db == [u \in Opps |-> b.pos[u].debit]
           dc == [u \in Opps |-> c.pos[u].debit]
           sb == [u \in Opps |-> b.pos[u].sale]
           sc == [u \in Opps |-> c.pos[u].sale]
           HB == HeldIn(b.pos)
           HC == HeldIn(c.pos)
           UB == Awaited(b)
           UC == Awaited(c)
<1>2. \A u \in Opps : b.pos[u] \in Positions /\ c.pos[u] \in Positions
  BY DEF Books
<1>3. \A u \in Opps : /\ db[u] \in Int /\ dc[u] \in Int /\ sb[u] \in Int /\ sc[u] \in Int
                      /\ db[u] = b.pos[u].debit /\ dc[u] = c.pos[u].debit
                      /\ sb[u] = b.pos[u].sale /\ sc[u] = c.pos[u].sale
  BY <1>2 DEF Positions
<1>4. /\ HB \in SUBSET Opps /\ HC \in SUBSET Opps /\ UB \in SUBSET Opps /\ UC \in SUBSET Opps
      /\ \A u \in Opps : /\ u \in HB <=> b.pos[u].status \in HELD
                         /\ u \in HC <=> c.pos[u].status \in HELD
                         /\ u \in UB <=> b.pos[u].status = "UNSETTLED"
                         /\ u \in UC <=> c.pos[u].status = "UNSETTLED"
  BY DEF HeldIn, Awaited
<1>5. \A u \in Opps : u # o => /\ db[u] = dc[u] /\ sb[u] = sc[u]
                               /\ (u \in HB <=> u \in HC) /\ (u \in UB <=> u \in UC)
  BY <1>3, <1>4
<1>6. Debits(b) = Total(db, HB) /\ Debits(c) = Total(dc, HC) /\ Sales(b) = Total(sb, UB) /\ Sales(c) = Total(sc, UC)
  BY DEF Debits, Sales
<1> HIDE DEF db, dc, sb, sc, HB, HC, UB, UC
<1>7. Total(dc, HC) = Total(db, HB) - Part(db, HB, o) + Part(dc, HC, o)
  <2>1. /\ \A y \in Opps : db[y] \in Int /\ dc[y] \in Int
        /\ \A y \in Opps : y # o => db[y] = dc[y] /\ (y \in HB <=> y \in HC)
    BY <1>3, <1>5
  <2> QED  BY <1>1, <1>4, <2>1, TotalMoved
<1>8. Total(sc, UC) = Total(sb, UB) - Part(sb, UB, o) + Part(sc, UC, o)
  <2>1. /\ \A y \in Opps : sb[y] \in Int /\ sc[y] \in Int
        /\ \A y \in Opps : y # o => sb[y] = sc[y] /\ (y \in UB <=> y \in UC)
    BY <1>3, <1>5
  <2> QED  BY <1>1, <1>4, <2>1, TotalMoved
<1>9. /\ Cardinality(HB) \in Nat /\ Cardinality(HC) \in Nat
      /\ Cardinality(HC) = Cardinality(HB) - (IF o \in HB THEN 1 ELSE 0) + (IF o \in HC THEN 1 ELSE 0)
  <2>1. \A y \in Opps : y # o => (y \in HB <=> y \in HC)
    BY <1>5
  <2> QED  BY <1>1, <1>4, <2>1, CountMoved
<1>10. /\ Part(db, HB, o) = Owed(b.pos[o]) /\ Part(dc, HC, o) = Owed(c.pos[o])
       /\ Part(sb, UB, o) = Due(b.pos[o]) /\ Part(sc, UC, o) = Due(c.pos[o])
  BY <1>3, <1>4 DEF Part, Owed, Due
<1>11. Total(db, HB) \in Int /\ Total(sb, UB) \in Int
  <2>1. IsFiniteSet(HB) /\ IsFiniteSet(UB)
    BY <1>1, <1>4, FS_Subset
  <2>2. (\A u \in HB : db[u] \in Int) /\ (\A u \in UB : sb[u] \in Int)
    BY <1>3, <1>4
  <2> QED  BY <2>1, <2>2, TotalInt
<1>12. /\ (IF o \in HB THEN 1 ELSE 0) = Slot(b.pos[o]) /\ (IF o \in HC THEN 1 ELSE 0) = Slot(c.pos[o])
       /\ b.pos[o].status \notin HELD => HB \ {o} = HB
  BY <1>4 DEF Slot
<1> QED  BY <1>6, <1>7, <1>8, <1>9, <1>10, <1>11, <1>12 DEF HB, HC

\* The fees of one position more or less.
LEMMA FeeSteps ==
  ASSUME NEW n \in Nat
  PROVE  /\ CloseFee * n \in Nat /\ CloseFee * (n + 1) = CloseFee * n + CloseFee
         /\ CloseFee * (n - 1) = CloseFee * n - CloseFee /\ n * CloseFee = CloseFee * n
<1>1. CloseFee \in Nat
  BY Numbers
<1> QED  BY <1>1

\* A turn keeps a solvent account solvent.
LEMMA MovedSolvent ==
  ASSUME NEW a, a[2] # "opportunity", NEW b \in Books, Solvent(b), NEW o \in Opps, NEW q \in Positions,
         Step(a, b, o, b.pos[o], q), NEW c, c = Booked(b, a, o, q)
  PROVE  Solvent(c)
<1> DEFINE p == b.pos[o]
           n == Cardinality(HeldIn(b.pos))
           k == Cardinality(HeldIn(c.pos))
           d == Debits(b)
           e == Debits(c)
           s == Sales(b)
           t == Sales(c)
<1>1. c \in Books /\ c.pos[o] = q /\ \A u \in Opps : u # o => c.pos[u] = b.pos[u]
  BY MovedBook
<1>2. /\ d \in Int /\ e = d - Owed(p) + Owed(q) /\ s \in Int /\ t = s - Due(p) + Due(q)
      /\ n \in Nat /\ k \in Nat /\ k = n - Slot(p) + Slot(q)
      /\ p.status \notin HELD => HeldIn(b.pos) \ {o} = HeldIn(b.pos)
  BY <1>1, MovedSums
<1>3. /\ b.settled \in Int /\ b.unsettled \in Int /\ b.realized \in Int
      /\ p.debit \in Nat /\ q.debit \in Nat /\ p.sale \in Nat /\ q.sale \in Nat
      /\ CloseFee \in Nat /\ MaxPositions \in Nat /\ StartingCash \in Nat
  BY Numbers DEF Books, Positions
<1>4. /\ n <= MaxPositions /\ b.settled >= CloseFee * n
      /\ b.settled + b.unsettled + d = StartingCash + b.realized /\ b.unsettled = s
  BY DEF Solvent
<1>5. /\ CloseFee * n \in Nat /\ CloseFee * (n + 1) = CloseFee * n + CloseFee
      /\ CloseFee * (n - 1) = CloseFee * n - CloseFee /\ n * CloseFee = CloseFee * n
  BY <1>2, FeeSteps
<1>6. SUFFICES /\ k <= MaxPositions /\ c.settled >= CloseFee * k
               /\ c.settled + c.unsettled + e = StartingCash + c.realized /\ c.unsettled = t
  BY DEF Solvent
<1>7. Step(a, b, o, p, q)
  OBVIOUS
<1>8. p = b.pos[o] /\ n = Cardinality(HeldIn(b.pos))
  OBVIOUS
<1> HIDE DEF p, n, k, d, e, s, t
<1>9. CASE q.status = p.status /\ q.debit = p.debit /\ q.sale = p.sale
  <2>1. c.settled = b.settled /\ c.unsettled = b.unsettled /\ c.realized = b.realized
    BY <1>3, <1>8, <1>9 DEF Booked
  <2>2. e = d /\ t = s /\ k = n
    BY <1>2, <1>3, <1>9 DEF Owed, Due, Slot
  <2> QED  BY <1>4, <2>1, <2>2
<1>10. CASE p.status \in Pending /\ q.status \in Pending \cup {"SKIPPED"}
  <2>1. c.settled = b.settled /\ c.unsettled = b.unsettled /\ c.realized = b.realized
    BY <1>3, <1>8, <1>10 DEF Booked, Pending
  <2>2. e = d /\ t = s /\ k = n
    BY <1>2, <1>3, <1>10 DEF Owed, Due, Slot, Pending, HELD
  <2> QED  BY <1>4, <2>1, <2>2
<1>11. CASE /\ p.status \in {"OPEN", "EXIT_PENDING"} /\ q.status \in {"EXIT_PENDING", "UNPRICED"}
            /\ q.debit = p.debit
  <2>1. c.settled = b.settled /\ c.unsettled = b.unsettled /\ c.realized = b.realized
    BY <1>3, <1>8, <1>11 DEF Booked
  <2>2. e = d /\ t = s /\ k = n
    BY <1>2, <1>3, <1>11 DEF Owed, Due, Slot, HELD
  <2> QED  BY <1>4, <2>1, <2>2
<1>12. CASE p.status \in Pending /\ q.status = "OPEN" /\ Afford(a, b, o, q)
  <2>1. c.settled = b.settled - q.debit /\ c.unsettled = b.unsettled /\ c.realized = b.realized
    BY <1>3, <1>8, <1>12 DEF Booked, Pending
  <2>2. e = d + q.debit /\ t = s /\ k = n + 1
    BY <1>2, <1>3, <1>12 DEF Owed, Due, Slot, HELD, Pending
  <2>3. n < MaxPositions /\ q.debit + CloseFee <= b.settled - n * CloseFee
    <3>1. HeldIn(b.pos) \ {o} = HeldIn(b.pos)
      BY <1>2, <1>12 DEF HELD, Pending
    <3> QED  BY <1>8, <1>12, <3>1 DEF Afford
  <2>4. k <= MaxPositions
    BY <1>2, <1>3, <2>2, <2>3
  <2>5. CloseFee * k = CloseFee * n + CloseFee
    BY <1>5, <2>2
  <2>6. c.settled >= CloseFee * k
    BY <1>3, <1>5, <2>1, <2>3, <2>5
  <2> QED  BY <1>2, <1>3, <1>4, <2>1, <2>2, <2>4, <2>6
<1>13. CASE p.status = "EXIT_PENDING" /\ q.status = "UNSETTLED" /\ q.debit = p.debit
  <2>1. /\ c.settled = b.settled - CloseFee /\ c.unsettled = b.unsettled + q.sale
        /\ c.realized = b.realized + (q.sale - CloseFee - p.debit)
    BY <1>3, <1>8, <1>13 DEF Booked
  <2>2. e = d - p.debit /\ t = s + q.sale /\ k = n - 1
    BY <1>2, <1>3, <1>13 DEF Owed, Due, Slot, HELD
  <2>3. CloseFee * k = CloseFee * n - CloseFee
    BY <1>5, <2>2
  <2>4. k <= MaxPositions
    BY <1>2, <1>3, <1>4, <2>2
  <2>5. c.settled >= CloseFee * k
    BY <1>3, <1>4, <1>5, <2>1, <2>3
  <2>6. c.unsettled = t
    BY <1>4, <2>1, <2>2
  <2>7. c.settled + c.unsettled + e = StartingCash + c.realized
    <3> DEFINE x == q.sale
               y == p.debit
               f == CloseFee
    <3>1. /\ x \in Int /\ y \in Int /\ f \in Int /\ d \in Int
          /\ b.settled \in Int /\ b.unsettled \in Int /\ b.realized \in Int
          /\ StartingCash \in Int /\ b.settled + b.unsettled + d = StartingCash + b.realized
      BY <1>2, <1>3, <1>4
    <3>2. /\ c.settled = b.settled - f /\ c.unsettled = b.unsettled + x /\ e = d - y
          /\ c.realized = b.realized + (x - f - y)
      BY <2>1, <2>2
    <3> HIDE DEF x, y, f
    <3> QED  BY <3>1, <3>2
  <2> QED  BY <2>4, <2>5, <2>6, <2>7
<1>14. CASE p.status = "UNSETTLED" /\ q.status = "CLOSED" /\ q.sale = p.sale
  <2>1. /\ c.settled = b.settled + p.sale /\ c.unsettled = b.unsettled - p.sale
        /\ c.realized = b.realized
    BY <1>3, <1>8, <1>14 DEF Booked
  <2>2. e = d /\ t = s - p.sale /\ k = n
    BY <1>2, <1>3, <1>14 DEF Owed, Due, Slot, HELD
  <2> QED  BY <1>2, <1>3, <1>4, <1>5, <2>1, <2>2
<1> QED  BY <1>7, <1>9, <1>10, <1>11, <1>12, <1>13, <1>14 DEF Step
-----------------------------------------------------------------------------
(* Positions advanced in turn *)

\* A call over the rows frozen by earlier calls.
Calling(see, kn) ==
  /\ Seeing(see, kn) /\ found \in [Opps -> Rows]
  /\ \A o \in Opps : RowFit(see.now, found[o])

After(see, a, b, o) == Booked(b, a, o, Advance(see, a, o, b, b.pos[o]))

\* One position's turn keeps a sound book.
LEMMA AfterSound ==
  ASSUME NEW see, NEW kn, Calling(see, kn), NEW a \in Accounts, NEW b, Sound(kn, found, a, b),
         NEW o \in Found, NEW c, c = After(see, a, b, o)
  PROVE  /\ Sound(kn, found, a, c) /\ Timely(see.now, found[o], c.pos[o])
         /\ \A u \in Opps : u # o => c.pos[u] = b.pos[u]
<1> DEFINE p == b.pos[o]
           q == Advance(see, a, o, b, p)
<1>1. o \in Opps /\ Seeing(see, kn) /\ Dated(see, found[o])
  BY DEF Calling, Found, Dated
<1>2. b \in Books /\ p \in Positions /\ \A u \in Opps : Fit(kn, found[u], a, u, b.pos[u])
  BY <1>1 DEF Sound, Books
<1>3. Turned(see, kn, a, b, o, p, q)
  <2> HIDE DEF p
  <2> QED  BY <1>1, <1>2, AdvanceTurn DEF p
<1>4. q \in Positions /\ Fit(kn, found[o], a, o, q) /\ Timely(see.now, found[o], q) /\ Step(a, b, o, p, q)
  BY <1>3 DEF Turned
<1>5. c = Booked(b, a, o, q)
  BY DEF After
<1> HIDE DEF q
<1>6. c \in Books /\ c.pos[o] = q /\ \A u \in Opps : u # o => c.pos[u] = b.pos[u]
  BY <1>1, <1>2, <1>4, <1>5, MovedBook
<1>7. \A u \in Opps : Fit(kn, found[u], a, u, c.pos[u])
  <2>1. ASSUME NEW u \in Opps PROVE Fit(kn, found[u], a, u, c.pos[u])
    <3>1. CASE u = o
      BY <1>4, <1>6, <3>1
    <3>2. CASE u # o
      BY <1>2, <1>6, <3>2
    <3> QED  BY <3>1, <3>2
  <2> QED  BY <2>1
<1>8. ASSUME a[2] # "opportunity" PROVE Solvent(c)
  <2>1. Solvent(b)
    BY <1>8 DEF Sound
  <2> QED  BY <1>1, <1>2, <1>4, <1>5, <1>8, <2>1, MovedSolvent
<1> QED  BY <1>4, <1>6, <1>7, <1>8 DEF Sound

\* Rows are read in a strict order.
LEMMA BeforeOrder ==
  ASSUME found \in [Opps -> Rows], NEW t \in Opps, NEW u \in Opps, NEW v \in Opps
  PROVE  ~Before(t, t) /\ (Before(t, u) /\ Before(u, v) => Before(t, v))
<1>1. \A x \in Opps : found[x].at \in Int /\ x \in Int
  <2>1. \A x \in Opps : found[x].at \in Int
    BY DEF Rows
  <2>2. Opps \subseteq Int
    <3>1. Opps = 1..Cardinality(Opps) /\ IsFiniteSet(Opps)
      BY RetestAssumption
    <3>2. Cardinality(Opps) \in Nat
      BY <3>1, FS_CardinalityType
    <3> QED  BY <3>1, <3>2
  <2> QED  BY <2>1, <2>2
<1> QED  BY <1>1 DEF Before

\* Every set of rows but the empty one has a last row.
LEMMA LastIn ==
  ASSUME found \in [Opps -> Rows], NEW S \in SUBSET Opps, S # {}
  PROVE  Last(S) \in S
<1> DEFINE Top(T) == {t \in T : \A u \in T : ~Before(t, u)}
           Good == {T \in SUBSET Opps : T # {} => Top(T) # {}}
<1>1. ASSUME NEW T \in SUBSET Opps, \A U \in SUBSET T : U # T => U \in Good
      PROVE  T \in Good
  <2> SUFFICES ASSUME T # {} PROVE Top(T) # {}
    OBVIOUS
  <2>1. PICK x \in T : TRUE
    OBVIOUS
  <2>2. T \ {x} \in Good /\ ~Before(x, x)
    BY <1>1, BeforeOrder
  <2>3. CASE T \ {x} = {}
    <3>1. x \in Top(T)
      BY <2>1, <2>2, <2>3
    <3> QED  BY <3>1
  <2>4. CASE T \ {x} # {}
    <3>1. PICK m \in T \ {x} : \A u \in T \ {x} : ~Before(m, u)
      BY <2>2, <2>4
    <3>2. CASE Before(m, x)
      <4>1. ASSUME NEW u \in T, Before(x, u) PROVE FALSE
        <5>1. u # x
          BY <2>2, <4>1
        <5>2. Before(m, u)
          BY <3>1, <3>2, <4>1, BeforeOrder
        <5> QED  BY <3>1, <5>1, <5>2
      <4>2. x \in Top(T)
        BY <4>1
      <4> QED  BY <4>2
    <3>3. CASE ~Before(m, x)
      <4>1. m \in Top(T)
        BY <3>1, <3>3
      <4> QED  BY <4>1
    <3> QED  BY <3>2, <3>3
  <2> QED  BY <2>3, <2>4
<1> HIDE DEF Good
<1>2. SUBSET Opps \subseteq Good
  BY <1>1, RetestAssumption, SubsetsInduct
<1>3. Top(S) # {}
  BY <1>2 DEF Good
<1> QED  BY <1>3 DEF Last

\* The recursion of InTurn, as a function on the subsets of S.
OneMore(see, a, f, T) == LET o == Last(T) IN After(see, a, f[T \ {o}], o)
Turning(f, see, a, b, S) ==
  f = [T \in SUBSET S |-> IF T = {} THEN b ELSE OneMore(see, a, f, T)]

\* A pass satisfies its recursion on every subset.
LEMMA TurningOver ==
  ASSUME NEW f, NEW see, NEW a, NEW b, NEW S, Turning(f, see, a, b, S), NEW T \in SUBSET S
  PROVE  f[T] = IF T = {} THEN b ELSE OneMore(see, a, f, T)
  BY DEF Turning

\* Solutions for two sets agree on their common subsets.
LEMMA TurningsAgree ==
  ASSUME found \in [Opps -> Rows], NEW see, NEW a, NEW b, NEW S \in SUBSET Opps, NEW T \in SUBSET S,
         NEW f, NEW g, Turning(f, see, a, b, S), Turning(g, see, a, b, T)
  PROVE  f[T] = g[T]
<1> DEFINE Good == {U \in SUBSET T : f[U] = g[U]}
<1>1. IsFiniteSet(T)
  BY RetestAssumption, FS_Subset
<1>2. ASSUME NEW U \in SUBSET T, \A V \in SUBSET U : V # U => V \in Good
      PROVE  U \in Good
  <2>1. /\ f[U] = IF U = {} THEN b ELSE OneMore(see, a, f, U)
        /\ g[U] = IF U = {} THEN b ELSE OneMore(see, a, g, U)
    BY TurningOver
  <2>2. CASE U = {}
    BY <2>1, <2>2
  <2>3. CASE U # {}
    <3> DEFINE t == Last(U)
    <3>1. t \in U
      BY <2>3, LastIn
    <3>2. f[U \ {t}] = g[U \ {t}]
      BY <1>2, <3>1
    <3>3. OneMore(see, a, f, U) = OneMore(see, a, g, U)
      BY <3>2 DEF OneMore
    <3> QED  BY <2>1, <2>3, <3>3
  <2> QED  BY <2>2, <2>3
<1> HIDE DEF Good
<1>3. SUBSET T \subseteq Good
  BY <1>1, <1>2, SubsetsInduct
<1> QED  BY <1>3 DEF Good

\* Every set of rows has a pass over it.
LEMMA TurningExists ==
  ASSUME found \in [Opps -> Rows], NEW see, NEW a, NEW b, NEW S \in SUBSET Opps
  PROVE  \E f : Turning(f, see, a, b, S)
<1> DEFINE Good == {T \in SUBSET S : \E f : Turning(f, see, a, b, T)}
           Sol(T) == CHOOSE f : Turning(f, see, a, b, T)
<1>1. ASSUME NEW T \in SUBSET S, \A U \in SUBSET T : U # T => U \in Good
      PROVE  T \in Good
  <2> DEFINE l(U) == Last(U)
             rest == T \ {l(T)}
             top == IF T = {} THEN b ELSE After(see, a, Sol(rest)[rest], l(T))
             f == [U \in SUBSET T |-> IF U = T THEN top ELSE Sol(U)[U]]
  <2>1. ASSUME NEW U \in SUBSET T, U # T PROVE Turning(Sol(U), see, a, b, U)
    BY <1>1, <2>1
  <2>2. ASSUME NEW U \in SUBSET T
        PROVE  f[U] = IF U = {} THEN b ELSE OneMore(see, a, f, U)
    <3>1. CASE U = T
      <4>1. T # {} => rest \in SUBSET T /\ rest # T
        BY LastIn
      <4>2. T # {} => f[rest] = Sol(rest)[rest]
        <5> HIDE DEF Sol, rest, top
        <5> QED  BY <4>1
      <4>3. f[T] = top
        <5> HIDE DEF top, Sol
        <5> QED  OBVIOUS
      <4> HIDE DEF f, Sol
      <4> QED  BY <3>1, <4>2, <4>3 DEF OneMore
    <3>2. CASE U # T /\ U = {}
      <4>1. Turning(Sol(U), see, a, b, U) /\ f[U] = Sol(U)[U]
        <5>1. Turning(Sol(U), see, a, b, U)
          BY <2>1, <3>2
        <5> HIDE DEF Sol, top
        <5> QED  BY <3>2, <5>1
      <4> HIDE DEF f, Sol
      <4>2. Sol(U)[U] = b
        BY <3>2, <4>1, TurningOver
      <4> QED  BY <3>2, <4>1, <4>2
    <3>3. CASE U # T /\ U # {}
      <4> DEFINE V == U \ {l(U)}
      <4>1. l(U) \in U /\ V \in SUBSET U /\ V \in SUBSET T /\ V # T
        BY <3>3, LastIn
      <4> HIDE DEF V
      <4>2. Turning(Sol(U), see, a, b, U) /\ Turning(Sol(V), see, a, b, V)
        BY <2>1, <3>3, <4>1
      <4>3. f[U] = Sol(U)[U] /\ f[V] = Sol(V)[V]
        <5> HIDE DEF Sol, top
        <5> QED  BY <3>3, <4>1
      <4> HIDE DEF f, Sol
      <4>4. Sol(U)[V] = Sol(V)[V]
        <5>1. U \in SUBSET Opps /\ V \in SUBSET U
          BY <4>1
        <5>2. Turning(Sol(U), see, a, b, U) /\ Turning(Sol(V), see, a, b, V)
          BY <4>2
        <5> QED  BY <5>1, <5>2, TurningsAgree
      <4>5. Sol(U)[U] = OneMore(see, a, Sol(U), U)
        BY <3>3, <4>2, TurningOver
      <4>6. OneMore(see, a, Sol(U), U) = OneMore(see, a, f, U)
        BY <4>3, <4>4 DEF OneMore, V
      <4> QED  BY <3>3, <4>3, <4>5, <4>6
    <3> QED  BY <3>1, <3>2, <3>3
  <2>3. f = [U \in SUBSET T |-> f[U]]
    OBVIOUS
  <2> HIDE DEF f
  <2>4. Turning(f, see, a, b, T)
    BY <2>2, <2>3 DEF Turning
  <2> QED  BY <2>4
<1> HIDE DEF Good
<1>2. IsFiniteSet(S)
  BY RetestAssumption, FS_Subset
<1>3. SUBSET S \subseteq Good
  BY <1>1, <1>2, SubsetsInduct
<1> QED  BY <1>3 DEF Good

\* InTurn is the last value of a pass over its rows.
LEMMA InTurnRuns ==
  ASSUME found \in [Opps -> Rows], NEW see, NEW a, NEW b, NEW S \in SUBSET Opps
  PROVE  \E f : Turning(f, see, a, b, S) /\ InTurn(see, a, b, S) = f[S]
<1> DEFINE it == CHOOSE f : f = [T \in SUBSET S |-> IF T = {} THEN b
                   ELSE LET o == Last(T)
                            c == f[T \ {o}]
                        IN Booked(c, a, o, Advance(see, a, o, c, c.pos[o]))]
<1>1. InTurn(see, a, b, S) = it[S]
  BY DEF InTurn
<1>2. \E f : f = [T \in SUBSET S |-> IF T = {} THEN b
                   ELSE LET o == Last(T)
                            c == f[T \ {o}]
                        IN Booked(c, a, o, Advance(see, a, o, c, c.pos[o]))]
  <2>1. PICK f : Turning(f, see, a, b, S)
    BY TurningExists
  <2> QED  BY <2>1 DEF Turning, OneMore, After
<1>3. it = [T \in SUBSET S |-> IF T = {} THEN b
                   ELSE LET o == Last(T)
                            c == it[T \ {o}]
                        IN Booked(c, a, o, Advance(see, a, o, c, c.pos[o]))]
  BY <1>2, Zenon
<1> HIDE DEF it
<1>4. Turning(it, see, a, b, S)
  BY <1>3 DEF Turning, OneMore, After
<1> QED  BY <1>1, <1>4

\* A pass over a set of rows keeps a sound book and touches no other position.
LEMMA InTurnSound ==
  ASSUME NEW see, NEW kn, Calling(see, kn), NEW a \in Accounts, NEW b, Sound(kn, found, a, b),
         NEW S \in SUBSET Found, NEW c, c = InTurn(see, a, b, S)
  PROVE  /\ Sound(kn, found, a, c)
         /\ \A u \in Opps : u \notin S => c.pos[u] = b.pos[u]
         /\ \A u \in S : Timely(see.now, found[u], c.pos[u])
<1>1. found \in [Opps -> Rows] /\ S \in SUBSET Opps
  BY DEF Calling, Found
<1>2. PICK f : Turning(f, see, a, b, S) /\ c = f[S]
  BY <1>1, InTurnRuns
<1> DEFINE Through(d, T) ==
             /\ Sound(kn, found, a, d)
             /\ \A u \in Opps : u \notin T => d.pos[u] = b.pos[u]
             /\ \A u \in T : Timely(see.now, found[u], d.pos[u])
           Good == {T \in SUBSET S : Through(f[T], T)}
<1>3. ASSUME NEW T \in SUBSET S, \A U \in SUBSET T : U # T => U \in Good
      PROVE  T \in Good
  <2>1. f[T] = IF T = {} THEN b ELSE OneMore(see, a, f, T)
    BY <1>2, TurningOver
  <2>2. CASE T = {}
    BY <2>1, <2>2
  <2>3. CASE T # {}
    <3> DEFINE t == Last(T)
               d == f[T \ {t}]
    <3>1. t \in T /\ t \in Found /\ t \in Opps
      BY <1>1, <2>3, LastIn
    <3> HIDE DEF t
    <3>2. Through(d, T \ {t})
      BY <1>3, <3>1
    <3>3. f[T] = After(see, a, d, t)
      BY <2>1, <2>3 DEF OneMore, t
    <3> HIDE DEF d
    <3>4. /\ Sound(kn, found, a, f[T]) /\ Timely(see.now, found[t], f[T].pos[t])
          /\ \A u \in Opps : u # t => f[T].pos[u] = d.pos[u]
      BY <3>1, <3>2, <3>3, AfterSound
    <3>5. ASSUME NEW u \in Opps, u \notin T PROVE f[T].pos[u] = b.pos[u]
      BY <3>1, <3>2, <3>4, <3>5
    <3>6. ASSUME NEW u \in T PROVE Timely(see.now, found[u], f[T].pos[u])
      <4>1. CASE u = t
        BY <3>4, <4>1
      <4>2. CASE u # t
        <5>1. f[T].pos[u] = d.pos[u]
          BY <1>1, <3>4, <4>2
        <5> QED  BY <3>2, <4>2, <5>1
      <4> QED  BY <4>1, <4>2
    <3> QED  BY <3>4, <3>5, <3>6
  <2> QED  BY <2>2, <2>3
<1> HIDE DEF Good
<1>4. IsFiniteSet(S)
  BY <1>1, RetestAssumption, FS_Subset
<1>5. SUBSET S \subseteq Good
  BY <1>3, <1>4, SubsetsInduct
<1>6. Through(f[S], S)
  BY <1>5 DEF Good
<1> QED  BY <1>2, <1>6

\* A call's two passes keep a sound book, and leave no position of a session that is over.
LEMMA AdvancedSound ==
  ASSUME NEW see, NEW kn, Calling(see, kn), NEW a \in Accounts, NEW b, Sound(kn, found, a, b),
         NEW c, c = Advanced(see, a, b)
  PROVE  /\ Sound(kn, found, a, c)
         /\ \A u \in Opps : Timely(see.now, found[u], c.pos[u])
<1> DEFINE E == {o \in Found : b.pos[o].status \in Pending}
           d == InTurn(see, a, b, Found \ E)
<1>1. c = InTurn(see, a, d, E)
  BY DEF Advanced
<1>2. E \in SUBSET Found /\ Found \ E \in SUBSET Found /\ Found \subseteq Opps
  BY DEF Found
<1> HIDE DEF E
<1>3. /\ Sound(kn, found, a, d)
      /\ \A u \in Found \ E : Timely(see.now, found[u], d.pos[u])
  BY <1>2, InTurnSound
<1> HIDE DEF d
<1>4. /\ Sound(kn, found, a, c)
      /\ \A u \in Opps : u \notin E => c.pos[u] = d.pos[u]
      /\ \A u \in E : Timely(see.now, found[u], c.pos[u])
  BY <1>1, <1>2, <1>3, InTurnSound
<1>5. ASSUME NEW u \in Opps PROVE Timely(see.now, found[u], c.pos[u])
  <2>1. CASE u \in E
    BY <1>4, <2>1
  <2>2. CASE u \in Found \ E
    <3>1. c.pos[u] = d.pos[u] /\ Timely(see.now, found[u], d.pos[u])
      BY <1>3, <1>4, <2>2
    <3> QED  BY <3>1
  <2>3. CASE u \notin Found
    <3>1. found[u] = NoRow
      BY <2>3 DEF Found
    <3>2. Fit(kn, found[u], a, u, c.pos[u])
      BY <1>4 DEF Sound
    <3>3. c.pos[u].status = "NONE"
      BY <3>1, <3>2 DEF Fit
    <3> QED  BY <3>3 DEF Timely
  <2> QED  BY <2>1, <2>2, <2>3
<1> QED  BY <1>4, <1>5
-----------------------------------------------------------------------------
(* New rows *)

\* Opportunities are numbered in rank order.
LEMMA Ranks ==
  IsFiniteSet(Opps) /\ Cardinality(Opps) \in Nat /\ Opps = 1..Cardinality(Opps) /\ Opps \subseteq Int
<1>1. Opps = 1..Cardinality(Opps) /\ IsFiniteSet(Opps)
  BY RetestAssumption
<1>2. Cardinality(Opps) \in Nat
  BY <1>1, FS_CardinalityType
<1> QED  BY <1>1, <1>2

\* Rows of earlier calls, one selected for a ticker and day.
Past(now) ==
  /\ found \in [Opps -> Rows] /\ now \in Nat
  /\ \A o \in Opps : RowFit(now, found[o])
  /\ OneSelected(found)

\* The rows a call freezes are dated, and no earlier row changes.
LEMMA FrozenRows ==
  ASSUME NEW now, Past(now), NEW buys, NEW new, NEW broken, new \in {{}, New(now, buys)},
         buys \subseteq Opps, new # {} => InSession(now),
         NEW rows, rows = Frozen(now, new, broken)
  PROVE  /\ rows \in [Opps -> Rows] /\ new \subseteq Opps
         /\ \A o \in Opps : RowFit(now, rows[o])
         /\ \A o \in Opps \ new : rows[o] = found[o]
         /\ \A o \in new : /\ found[o] = NoRow /\ rows[o] # NoRow /\ rows[o].at = now
                           /\ rows[o].minute = Minute(now) - 1
                           /\ rows[o].selected = Selected(now, new, o)
<1>1. now \in Nat /\ Minute(now) - 1 \in Int /\ None \notin Nat
  BY MinuteOf, Numbers DEF Past
<1>2. new \subseteq Opps \ Found
  BY DEF New
<1>3. \A o \in new : found[o] = NoRow
  BY <1>2 DEF Found
<1>4. \A o \in Opps \ new : rows[o] = found[o]
  BY DEF Frozen
<1>5. ASSUME NEW o \in new
      PROVE  /\ rows[o] \in Rows /\ rows[o] # NoRow /\ rows[o].at = now
             /\ rows[o].minute = Minute(now) - 1 /\ rows[o].selected = Selected(now, new, o)
             /\ RowFit(now, rows[o])
  <2> DEFINE ok == o \notin broken /\ now < Start(OfDay(Cutoff, now))
             pick == Selected(now, new, o)
  <2>1. rows[o] = [at |-> now, minute |-> Minute(now) - 1, selected |-> pick, valid |-> ok]
    BY <1>2 DEF Frozen
  <2>2. ok \in BOOLEAN /\ pick \in BOOLEAN
    BY DEF Selected
  <2> HIDE DEF ok, pick
  <2>3. rows[o] \in Rows /\ rows[o].at = now /\ rows[o].minute = Minute(now) - 1 /\ rows[o].selected = pick
    BY <1>1, <2>1, <2>2 DEF Rows
  <2>4. rows[o] # NoRow
    BY <1>1, <2>3 DEF NoRow
  <2>5. InSession(rows[o].at) /\ rows[o].at \in 0..now
    BY <1>1, <2>3
  <2> QED  BY <2>3, <2>4, <2>5 DEF RowFit, pick
<1>6. rows \in [Opps -> Rows]
  <2>1. rows = [o \in Opps |-> rows[o]]
    BY DEF Frozen
  <2>2. \A o \in Opps : rows[o] \in Rows
    <3>1. \A o \in Opps : found[o] \in Rows
      BY DEF Past
    <3> QED  BY <1>4, <1>5, <3>1
  <2> QED  BY <2>1, <2>2
<1>7. \A o \in Opps : RowFit(now, rows[o])
  BY <1>4, <1>5 DEF Past
<1> QED  BY <1>2, <1>3, <1>4, <1>5, <1>6, <1>7

\* Among rows of a ticker and day one is selected, the first that was frozen.
LEMMA FrozenSelected ==
  ASSUME NEW now, Past(now), NEW buys, NEW new, NEW broken, new \in {{}, New(now, buys)},
         buys \subseteq Opps, new # {} => InSession(now),
         NEW rows, rows = Frozen(now, new, broken)
  PROVE  OneSelected(rows)
<1> DEFINE day == DayOf(Minute(now))
           ticker(o) == setup[o].ticker
           Is(o) == rows[o] # NoRow
           D(o) == DayOf(rows[o].minute)
<1>1. /\ new \subseteq Opps
      /\ \A o \in Opps \ new : rows[o] = found[o]
      /\ \A o \in new : /\ found[o] = NoRow /\ Is(o) /\ rows[o].minute = Minute(now) - 1
                        /\ rows[o].selected = Selected(now, new, o)
  BY FrozenRows
<1>2. \A o \in new : D(o) = day
  BY <1>1, InSameDay DEF Past
<1>3. FoundToday(now) = {u \in Opps \ new : Is(u) /\ D(u) = day}
  BY <1>1 DEF FoundToday, Found
<1>4. \A o \in new : rows[o].selected <=>
        ~\E u \in FoundToday(now) \cup {v \in new : v < o} : ticker(u) = ticker(o)
  BY <1>1 DEF Selected
<1>5. \A o, u \in Opps \ new : Is(o) /\ Is(u) =>
        /\ \E v \in Opps \ new : Is(v) /\ ticker(v) = ticker(o) /\ D(v) = D(o) /\ rows[v].selected
        /\ o # u /\ rows[o].selected /\ rows[u].selected => ~(ticker(o) = ticker(u) /\ D(o) = D(u))
  <2>1. OneSelected(found)
    BY DEF Past
  <2>2. \A o, u \in Opps : found[o] # NoRow /\ found[u] # NoRow =>
        /\ \E v \in Opps : /\ found[v] # NoRow /\ ticker(v) = ticker(o)
                           /\ DayOf(found[v].minute) = DayOf(found[o].minute) /\ found[v].selected
        /\ o # u /\ found[o].selected /\ found[u].selected
             => ~(ticker(o) = ticker(u) /\ DayOf(found[o].minute) = DayOf(found[u].minute))
    BY <2>1 DEF OneSelected
  <2>3. \A v \in Opps : found[v] # NoRow => v \in Opps \ new
    BY <1>1
  <2> QED  BY <1>1, <2>2, <2>3
<1> HIDE DEF Is, D, day, ticker
<1>6. ASSUME NEW o \in Opps, Is(o)
      PROVE  \E v \in Opps : Is(v) /\ ticker(v) = ticker(o) /\ D(v) = D(o) /\ rows[v].selected
  <2>1. CASE o \in Opps \ new
    BY <1>5, <1>6, <2>1
  <2>2. CASE o \in new /\ \E u \in FoundToday(now) : ticker(u) = ticker(o)
    <3>1. PICK u \in FoundToday(now) : ticker(u) = ticker(o)
      BY <2>2
    <3>2. u \in Opps \ new /\ Is(u) /\ D(u) = D(o)
      BY <1>2, <1>3, <2>2
    <3>3. PICK v \in Opps \ new : Is(v) /\ ticker(v) = ticker(u) /\ D(v) = D(u) /\ rows[v].selected
      BY <1>5, <3>2
    <3> QED  BY <3>1, <3>2, <3>3
  <2>3. CASE o \in new /\ ~\E u \in FoundToday(now) : ticker(u) = ticker(o)
    <3> DEFINE like == {v \in new : ticker(v) = ticker(o)}
               f == Earliest(like)
    <3>1. like \subseteq 1..Cardinality(Opps) /\ like # {} /\ Cardinality(Opps) \in Int /\ 1 \in Int
      <4>1. new \subseteq 1..Cardinality(Opps)
        BY <1>1, Ranks
      <4>2. o \in like
        BY <2>3
      <4>3. Cardinality(Opps) \in Int /\ 1 \in Int
        BY Ranks
      <4>4. like \subseteq 1..Cardinality(Opps)
        BY <4>1
      <4> HIDE DEF like
      <4> QED  BY <4>2, <4>3, <4>4
    <3>2. f \in like /\ \A v \in like : f <= v
      <4> HIDE DEF like
      <4> QED  BY <3>1, Least
    <3> HIDE DEF f
    <3>3. f \in new /\ f \in Opps /\ ticker(f) = ticker(o) /\ Is(f) /\ D(f) = D(o)
      BY <1>1, <1>2, <2>3, <3>2
    <3>4. \A v \in new : ticker(v) = ticker(f) => ~(v < f)
      <4>1. \A v \in new : v \in Int
        BY <1>1, Ranks
      <4>2. f \in Int
        BY <3>3, Ranks
      <4> QED  BY <3>2, <3>3, <4>1, <4>2
    <3>5. rows[f].selected
      BY <1>4, <2>3, <3>3, <3>4
    <3> QED  BY <3>3, <3>5
  <2> QED  BY <2>1, <2>2, <2>3
<1>7. ASSUME NEW o \in Opps, NEW u \in new, Is(o), o # u, rows[o].selected, rows[u].selected,
             ticker(o) = ticker(u), D(o) = D(u)
      PROVE  FALSE
  <2>1. CASE o \notin new
    <3>1. o \in FoundToday(now)
      BY <1>2, <1>3, <1>7, <2>1
    <3> QED  BY <1>4, <1>7, <3>1
  <2>2. CASE o \in new /\ o < u
    BY <1>4, <1>7, <2>2
  <2>3. CASE o \in new /\ u < o
    BY <1>4, <1>7, <2>3
  <2>4. o < u \/ u < o
    <3>1. o \in Int /\ u \in Int
      BY <1>1, Ranks
    <3> QED  BY <1>7, <3>1
  <2> QED  BY <2>1, <2>2, <2>3, <2>4
<1>8. ASSUME NEW o \in Opps, NEW u \in Opps, Is(o), Is(u), o # u, rows[o].selected, rows[u].selected
      PROVE  ~(ticker(o) = ticker(u) /\ D(o) = D(u))
  <2>1. CASE u \in new
    BY <1>7, <1>8, <2>1
  <2>2. CASE o \in new
    BY <1>7, <1>8, <2>2
  <2>3. CASE o \notin new /\ u \notin new
    BY <1>5, <1>8, <2>3
  <2> QED  BY <2>1, <2>2, <2>3
<1> QED  BY <1>6, <1>8 DEF OneSelected, Is, D, ticker

\* A decision about a new row.
LEMMA DecidedFit ==
  ASSUME NEW kn, NEW a, NEW o, NEW row \in Rows, row # NoRow, row.at \in Nat,
         NEW q, q = Decided(a, o, row)
  PROVE  /\ q \in Positions /\ Fit(kn, row, a, o, q)
         /\ q.status \in Pending \cup {"NONE", "SKIPPED"}
<1> DEFINE p == [NoPos EXCEPT !.cursor = row.minute]
<1>1. /\ row.minute \in Int /\ row.at \in Nat /\ None \in Int /\ None \notin Nat
      /\ row.minute <= row.minute
  BY Numbers DEF Rows
<1>2. NoPos \in Positions /\ p \in Positions
  BY <1>1 DEF NoPos, Positions, Settling
<1>3. /\ p.cursor = row.minute /\ p.requested = None /\ p.entry = None /\ p.asked = None /\ p.exit = None
  BY DEF NoPos
<1>4. Still(kn, o, row.minute + 1, row.minute) /\ Calm(kn, o, row.minute + 1, row.minute)
  <2>1. (row.minute + 1)..row.minute = {}
    BY <1>1
  <2> QED  BY <2>1 DEF Still, Calm
<1>5. CASE a[2] = "opportunity" /\ setup[o].mode # "ONE_MIN_0DTE"
  <2>1. q = NoPos
    BY <1>5 DEF Decided
  <2>2. /\ NoPos.status = "NONE" /\ NoPos.requested = None /\ NoPos.entry = None
        /\ NoPos.asked = None /\ NoPos.exit = None
    BY DEF NoPos
  <2> QED  BY <1>2, <1>5, <2>1, <2>2 DEF Fit, Pending
<1>6. CASE ~(a[2] = "opportunity" /\ setup[o].mode # "ONE_MIN_0DTE") /\ q = Skipped(p)
  <2>1. /\ q \in Positions /\ q.status = "SKIPPED" /\ q.requested = None /\ q.entry = None
        /\ q.asked = None /\ q.exit = None
    <3> HIDE DEF p
    <3> QED  BY <1>2, <1>3, <1>6 DEF Skipped, Positions, Settling
  <2> QED  BY <1>6, <2>1 DEF Fit, Pending
<1>7. CASE /\ ~(a[2] = "opportunity" /\ setup[o].mode # "ONE_MIN_0DTE")
           /\ row.valid /\ (row.selected \/ a[2] = "opportunity") /\ Retests(a[1], o)
           /\ q = [p EXCEPT !.status = "WAIT_RETEST"]
  <2>1. /\ q \in Positions /\ q.status = "WAIT_RETEST" /\ q.requested = None /\ q.entry = None
        /\ q.asked = None /\ q.exit = None /\ q.cursor = row.minute
    <3> HIDE DEF p
    <3> QED  BY <1>2, <1>3, <1>7 DEF Positions, Pending
  <2> QED  BY <1>1, <1>4, <1>7, <2>1 DEF Fit, Pending
<1>8. CASE /\ ~(a[2] = "opportunity" /\ setup[o].mode # "ONE_MIN_0DTE")
           /\ row.valid /\ (row.selected \/ a[2] = "opportunity") /\ ~Retests(a[1], o)
           /\ q = [p EXCEPT !.status = "PENDING_ENTRY", !.requested = row.at]
  <2>1. /\ q \in Positions /\ q.status = "PENDING_ENTRY" /\ q.requested = row.at /\ q.entry = None
        /\ q.asked = None /\ q.exit = None /\ q.cursor = row.minute
    <3>1. row.at \in Int
      BY <1>1
    <3> HIDE DEF p
    <3> QED  BY <1>2, <1>3, <1>8, <3>1 DEF Positions, Pending
  <2>2. Requested(kn, row, a, o, q)
    BY <1>1, <1>8, <2>1 DEF Requested
  <2> QED  BY <1>1, <1>4, <1>8, <2>1, <2>2 DEF Fit, Pending
<1>9. \/ a[2] = "opportunity" /\ setup[o].mode # "ONE_MIN_0DTE"
      \/ ~(a[2] = "opportunity" /\ setup[o].mode # "ONE_MIN_0DTE") /\ q = Skipped(p)
      \/ /\ ~(a[2] = "opportunity" /\ setup[o].mode # "ONE_MIN_0DTE")
         /\ row.valid /\ (row.selected \/ a[2] = "opportunity") /\ Retests(a[1], o)
         /\ q = [p EXCEPT !.status = "WAIT_RETEST"]
      \/ /\ ~(a[2] = "opportunity" /\ setup[o].mode # "ONE_MIN_0DTE")
         /\ row.valid /\ (row.selected \/ a[2] = "opportunity") /\ ~Retests(a[1], o)
         /\ q = [p EXCEPT !.status = "PENDING_ENTRY", !.requested = row.at]
  <2> HIDE DEF p
  <2> QED  BY DEF Decided, p
<1> QED  BY <1>5, <1>6, <1>7, <1>8, <1>9 DEF Fit

\* New rows reserve nothing: an account's money and what it holds stay.
LEMMA NewSound ==
  ASSUME NEW kn, NEW now, Past(now), NEW a \in Accounts, NEW b, Sound(kn, found, a, b),
         \A u \in Opps : Timely(now, found[u], b.pos[u]),
         NEW new, NEW rows \in [Opps -> Rows], new \subseteq Opps,
         \A o \in Opps \ new : rows[o] = found[o],
         \A o \in new : found[o] = NoRow /\ rows[o] # NoRow /\ rows[o].at = now,
         NEW c, c = WithNew(a, b, new, rows)
  PROVE  Sound(kn, rows, a, c) /\ \A u \in Opps : Timely(now, rows[u], c.pos[u])
<1>1. b \in Books /\ b.pos \in [Opps -> Positions] /\ \A o \in Opps : Fit(kn, found[o], a, o, b.pos[o])
  BY DEF Sound, Books
<1>2. ASSUME NEW o \in new
      PROVE  /\ c.pos[o] \in Positions /\ Fit(kn, rows[o], a, o, c.pos[o])
             /\ c.pos[o].status \in Pending \cup {"NONE", "SKIPPED"} /\ b.pos[o].status = "NONE"
  <2>1. o \in Opps /\ rows[o] \in Rows /\ rows[o] # NoRow /\ rows[o].at \in Nat
    BY DEF Past
  <2>2. c.pos[o] = Decided(a, o, rows[o])
    BY <2>1 DEF WithNew, Sound, Books
  <2>3. b.pos[o].status = "NONE"
    BY <1>1, <2>1 DEF Fit
  <2> QED  BY <2>1, <2>2, <2>3, DecidedFit
<1>3. \A o \in Opps \ new : c.pos[o] = b.pos[o]
  BY <1>1 DEF WithNew, Books
<1>4. c.settled = b.settled /\ c.unsettled = b.unsettled /\ c.realized = b.realized
  BY <1>1 DEF WithNew, Books
<1>5. c \in Books
  <2>1. c.pos \in [Opps -> Positions]
    <3>1. c.pos = [o \in Opps |-> c.pos[o]]
      BY <1>1 DEF WithNew, Books
    <3>2. \A o \in Opps : c.pos[o] \in Positions
      BY <1>1, <1>2, <1>3
    <3> QED  BY <3>1, <3>2
  <2>2. c = [b EXCEPT !.pos = c.pos]
    BY <1>1 DEF WithNew, Books
  <2> QED  BY <1>1, <2>1, <2>2 DEF Books
<1>6. \A o \in Opps : Fit(kn, rows[o], a, o, c.pos[o])
  <2>1. ASSUME NEW o \in Opps PROVE Fit(kn, rows[o], a, o, c.pos[o])
    <3>1. CASE o \in new
      BY <1>2, <3>1
    <3>2. CASE o \notin new
      <4>1. rows[o] = found[o] /\ c.pos[o] = b.pos[o] /\ Fit(kn, found[o], a, o, b.pos[o])
        BY <1>1, <1>3, <3>2
      <4> QED  BY <4>1
    <3> QED  BY <3>1, <3>2
  <2> QED  BY <2>1
<1>7. \A o \in Opps : Timely(now, rows[o], c.pos[o])
  <2>1. ASSUME NEW o \in Opps PROVE Timely(now, rows[o], c.pos[o])
    <3>1. CASE o \in new
      BY <1>2, <3>1 DEF Timely, Pending
    <3>2. CASE o \notin new
      <4>1. rows[o] = found[o] /\ c.pos[o] = b.pos[o] /\ Timely(now, found[o], b.pos[o])
        BY <1>3, <3>2
      <4> QED  BY <4>1
    <3> QED  BY <3>1, <3>2
  <2> QED  BY <2>1
<1>8. ASSUME a[2] # "opportunity" PROVE Solvent(c)
  <2>1. Solvent(b)
    BY <1>8 DEF Sound
  <2>2. \A o \in Opps : /\ c.pos[o].status \in HELD <=> b.pos[o].status \in HELD
                        /\ c.pos[o].status = "UNSETTLED" <=> b.pos[o].status = "UNSETTLED"
    BY <1>2, <1>3 DEF Pending, HELD
  <2>3. HeldIn(c.pos) = HeldIn(b.pos) /\ Awaited(c) = Awaited(b)
    BY <2>2 DEF HeldIn, Awaited
  <2>4. /\ \A o \in HeldIn(b.pos) : o \in Opps /\ c.pos[o] = b.pos[o]
        /\ \A o \in Awaited(b) : o \in Opps /\ c.pos[o] = b.pos[o]
    BY <1>2, <1>3 DEF HeldIn, Awaited, HELD
  <2>5. IsFiniteSet(HeldIn(b.pos)) /\ IsFiniteSet(Awaited(b))
    <3>1. HeldIn(b.pos) \subseteq Opps /\ Awaited(b) \subseteq Opps
      BY DEF HeldIn, Awaited
    <3> QED  BY <3>1, Ranks, FS_Subset
  <2>6. Debits(c) = Debits(b)
    <3> DEFINE x == [o \in Opps |-> b.pos[o].debit]
               y == [o \in Opps |-> c.pos[o].debit]
    <3>1. \A o \in HeldIn(b.pos) : x[o] = y[o]
      BY <2>4
    <3> HIDE DEF x, y
    <3>2. Total(x, HeldIn(b.pos)) = Total(y, HeldIn(b.pos))
      BY <2>5, <3>1, TotalSame
    <3> QED  BY <2>3, <3>2 DEF Debits, x, y
  <2>7. Sales(c) = Sales(b)
    <3> DEFINE x == [o \in Opps |-> b.pos[o].sale]
               y == [o \in Opps |-> c.pos[o].sale]
    <3>1. \A o \in Awaited(b) : x[o] = y[o]
      BY <2>4
    <3> HIDE DEF x, y
    <3>2. Total(x, Awaited(b)) = Total(y, Awaited(b))
      BY <2>5, <3>1, TotalSame
    <3> QED  BY <2>3, <3>2 DEF Sales, x, y
  <2> QED  BY <1>4, <2>1, <2>3, <2>6, <2>7 DEF Solvent
<1> QED  BY <1>5, <1>6, <1>7, <1>8 DEF Sound
-----------------------------------------------------------------------------
(* Bars are only added *)

Extends(more, kn) == DOMAIN kn \subseteq DOMAIN more /\ \A m \in DOMAIN kn : more[m] = kn[m]

\* What the bars proved they prove when more of them are known.
LEMMA GrownFit ==
  ASSUME NEW kn, NEW more, Extends(more, kn), NEW row, NEW a, NEW o, NEW p, Fit(kn, row, a, o, p)
  PROVE  Fit(more, row, a, o, p)
<1>1. /\ \A i, j : Calm(kn, o, i, j) => Calm(more, o, i, j)
      /\ \A i, j : Still(kn, o, i, j) => Still(more, o, i, j)
  BY DEF Calm, Still, Extends
<1>2. Requested(kn, row, a, o, p) => Requested(more, row, a, o, p)
  <2>1. SUFFICES ASSUME Requested(kn, row, a, o, p) PROVE Requested(more, row, a, o, p)
    OBVIOUS
  <2>2. CASE Retests(a[1], o)
    <3> DEFINE r == Minute(p.requested) - 1
    <3>1. r \in DOMAIN kn /\ kn[r][o] = "retest"
      BY <2>1, <2>2 DEF Requested
    <3>2. r \in DOMAIN more /\ more[r][o] = "retest"
      BY <3>1 DEF Extends
    <3> QED  BY <1>1, <2>1, <2>2, <3>2 DEF Requested
  <2>3. CASE ~Retests(a[1], o)
    BY <2>1, <2>3 DEF Requested
  <2> QED  BY <2>2, <2>3
<1>3. Entered(kn, row, o, p) => Entered(more, row, o, p)
  BY <1>1 DEF Entered
<1>4. AskedFor(kn, o, p) => AskedFor(more, o, p)
  <2>1. SUFFICES ASSUME AskedFor(kn, o, p) PROVE AskedFor(more, o, p)
    OBVIOUS
  <2>2. PICK bar \in DOMAIN kn :
          /\ bar \in Int /\ p.end = Start(bar + 1)
          /\ p.entry <= Start(bar) /\ p.asked \in p.end..(p.end + ExitDeadline)
          /\ kn[bar][o] \in {"stop", "target"} \/ bar >= OfDay(Cutoff, Start(bar))
          /\ Calm(kn, o, Minute(p.entry), bar - 1)
    BY <2>1 DEF AskedFor
  <2>3. bar \in DOMAIN more /\ more[bar] = kn[bar] /\ Calm(more, o, Minute(p.entry), bar - 1)
    BY <1>1, <2>2 DEF Extends
  <2> QED  BY <2>2, <2>3 DEF AskedFor
<1> QED  BY <1>1, <1>2, <1>3, <1>4 DEF Fit

\* A book is as sound when more bars are known.
LEMMA GrownSound ==
  ASSUME NEW kn, NEW more, Extends(more, kn), NEW rows, NEW a, NEW b, Sound(kn, rows, a, b)
  PROVE  Sound(more, rows, a, b)
  BY GrownFit DEF Sound
-----------------------------------------------------------------------------
(* process *)

\* An opportunity's path is typed.
Paths == [Opps -> [cursor : Int, outcome : {"NONE", "DATA_GAP", "STOP", "TARGET", "TIMED_EXIT"}]]

\* Following the bars keeps every path typed.
LEMMA FollowedType ==
  ASSUME path \in Paths, NEW see, see.now \in Nat, KnownBars(see.bars), NEW rows \in [Opps -> Rows]
  PROVE  Followed(see, rows) \in Paths
<1>1. ASSUME NEW o \in Opps
      PROVE  Followed(see, rows)[o] \in
               [cursor : Int, outcome : {"NONE", "DATA_GAP", "STOP", "TARGET", "TIMED_EXIT"}]
  <2> DEFINE p == IF path[o] # NoPath THEN path[o] ELSE [cursor |-> rows[o].minute, outcome |-> "NONE"]
             seen == BarExit(see, o, p.cursor, None)
  <2>1. path[o] \in [cursor : Int, outcome : {"NONE", "DATA_GAP", "STOP", "TARGET", "TIMED_EXIT"}]
    BY DEF Paths
  <2>2. p.cursor \in Int
    BY <2>1 DEF Rows
  <2>3. \/ Followed(see, rows)[o] = path[o]
        \/ Followed(see, rows)[o] = [cursor |-> seen.cursor, outcome |-> seen.reason]
    BY DEF Followed
  <2> HIDE DEF p
  <2>4. seen.cursor \in Int /\ seen.reason \in {"NONE", "DATA_GAP", "STOP", "TARGET", "TIMED_EXIT"}
    <3>1. None \in Int
      BY Numbers
    <3> QED  BY <2>2, <3>1, BarSeen DEF Exits
  <2> HIDE DEF seen
  <2> QED  BY <2>1, <2>3, <2>4
<1>2. Followed(see, rows) = [o \in Opps |-> Followed(see, rows)[o]]
  BY DEF Followed
<1> QED  BY <1>1, <1>2 DEF Paths

\* The invariant after a call, in terms of the rows, bars and setup it kept.
Kept(kn) ==
  /\ processed' \in Nat /\ observed' \subseteq Int
  /\ found' \in [Opps -> Rows] /\ path' \in Paths /\ account' \in [Accounts -> Books]
  /\ \A o \in Opps : RowFit(processed', found'[o])
  /\ OneSelected(found')
  /\ \A a \in Accounts : Sound(kn, found', a, account'[a])
  /\ \A a \in Accounts, o \in Opps : Timely(processed', found'[o], account'[a].pos[o])

\* A call of process keeps the invariant.
LEMMA ProcessStep ==
  ASSUME RetestInv, NEW see, NEW kn, Seeing(see, kn), KnownBars(see.bars), Extends(kn, bars),
         NEW evaluation \in Int, NEW buys \in SUBSET Opps, NEW broken,
         Process(see, evaluation, buys, broken)
  PROVE  Kept(kn)
<1> DEFINE now == see.now
           admits == /\ ~see.blocked /\ evaluation # None /\ evaluation = Minute(now) - 1
                     /\ Start(evaluation) >= Activated /\ InSession(now)
           new == IF admits THEN New(now, buys) ELSE {}
           rows == Frozen(now, new, broken)
           minute == IF evaluation # None THEN evaluation ELSE Minute(now) - 1
<1>1. /\ now > processed /\ processed' = now /\ found' = rows
      /\ account' = [a \in Accounts |-> WithNew(a, Advanced(see, a, account[a]), new, rows)]
      /\ \/ /\ path' = Followed(see, rows)
            /\ observed' = {m \in observed \cup {minute} :
                              \E lag \in Lags : m >= Minute(now) - 1 - lag}
         \/ UNCHANGED <<path, observed>>
  BY DEF Process
<1>2. /\ processed \in Nat /\ observed \subseteq Int /\ found \in [Opps -> Rows] /\ path \in Paths
      /\ account \in [Accounts -> Books]
      /\ \A o \in Opps : RowFit(processed, found[o])
      /\ OneSelected(found)
      /\ \A a \in Accounts : Sound(bars, found, a, account[a])
  BY DEF RetestInv, TypeOK, Paths, Books
<1>3. now \in Nat /\ minute \in Int
  <2>1. now \in Nat
    BY DEF Seeing
  <2> QED  BY <2>1, MinuteOf
<1>4. /\ (new = {} \/ new = New(now, buys)) /\ (new # {} => InSession(now))
  OBVIOUS
<1> HIDE DEF admits, new, minute, rows, now
<1>5. \A o \in Opps : RowFit(now, found[o])
  <2>1. ASSUME NEW o \in Opps, found[o] # NoRow PROVE found[o].at \in 0..now
    <3>1. found[o].at \in 0..processed
      BY <1>2, <2>1 DEF RowFit
    <3> QED  BY <1>1, <1>2, <1>3, <3>1
  <2> QED  BY <1>2, <2>1 DEF RowFit
<1>6. Past(now) /\ Calling(see, kn)
  BY <1>2, <1>3, <1>5 DEF Past, Calling, now
<1>7. rows = Frozen(now, new, broken) /\ new \in {{}, New(now, buys)} /\ buys \subseteq Opps
  BY <1>4 DEF rows
<1>8. /\ rows \in [Opps -> Rows] /\ new \subseteq Opps
      /\ \A o \in Opps : RowFit(now, rows[o])
      /\ \A o \in Opps \ new : rows[o] = found[o]
      /\ \A o \in new : found[o] = NoRow /\ rows[o] # NoRow /\ rows[o].at = now
  BY <1>4, <1>6, <1>7, FrozenRows
<1>9. OneSelected(rows)
  BY <1>4, <1>6, <1>7, FrozenSelected
<1>10. ASSUME NEW a \in Accounts
       PROVE  /\ Sound(kn, rows, a, account'[a])
              /\ \A o \in Opps : Timely(now, rows[o], account'[a].pos[o])
  <2> DEFINE b == Advanced(see, a, account[a])
  <2>1. Sound(kn, found, a, account[a])
    BY <1>2, GrownSound
  <2>2. Sound(kn, found, a, b) /\ \A o \in Opps : Timely(now, found[o], b.pos[o])
    BY <1>6, <2>1, AdvancedSound DEF now
  <2>3. account'[a] = WithNew(a, b, new, rows)
    BY <1>1
  <2> HIDE DEF b
  <2> QED  BY <1>6, <1>8, <2>2, <2>3, NewSound
<1>11. account' \in [Accounts -> Books]
  <2>1. \A a \in Accounts : account'[a] \in Books
    BY <1>10 DEF Sound
  <2>2. account' = [a \in Accounts |-> account'[a]]
    BY <1>1
  <2> QED  BY <2>1, <2>2
<1>12. path' \in Paths /\ observed' \subseteq Int
  <2>1. CASE UNCHANGED <<path, observed>>
    BY <1>2, <2>1
  <2>2. CASE /\ path' = Followed(see, rows)
             /\ observed' = {m \in observed \cup {minute} :
                              \E lag \in Lags : m >= Minute(now) - 1 - lag}
    <3>1. see.now \in Nat
      BY DEF Seeing
    <3>2. Followed(see, rows) \in Paths
      BY <1>2, <1>8, <3>1, FollowedType
    <3> QED  BY <1>2, <1>3, <2>2, <3>2
  <2> QED  BY <1>1, <2>1, <2>2
<1> QED  BY <1>1, <1>3, <1>8, <1>9, <1>10, <1>11, <1>12 DEF Kept

\* The setup is fixed, so what was kept is the invariant of the next state.
LEMMA KeptInv ==
  ASSUME setup' = setup, setup \in Setups, KnownBars(bars'), Kept(bars'),
         blocked' \in BOOLEAN
  PROVE  RetestInv'
<1>1. /\ DOMAIN bars' \subseteq Nat /\ \A m \in DOMAIN bars' : bars'[m] \in Moves
  BY DEF KnownBars
<1>2. TypeOK'
  BY <1>1 DEF TypeOK, Kept, Paths, Books
<1>3. (\A o \in Opps : RowFit(processed, found[o]))'
  BY DEF Kept
<1>4. OneSelected(found)'
  BY DEF Kept, OneSelected
<1>5. (\A a \in Accounts, o \in Opps : Timely(processed, found[o], account[a].pos[o]))'
  BY DEF Kept
<1>6. ASSUME NEW a \in Accounts PROVE Sound(bars, found, a, account[a])'
  <2>1. Sound(bars', found', a, account'[a])
    BY DEF Kept
  <2>2. ASSUME NEW o \in Opps PROVE Fit(bars, found[o], a, o, account[a].pos[o])'
    <3>1. Fit(bars', found'[o], a, o, account'[a].pos[o])
      BY <2>1, <2>2 DEF Sound
    <3> QED  BY <3>1 DEF Fit, Requested, Retests
  <2> QED  BY <2>1, <2>2 DEF Sound
<1> QED  BY <1>2, <1>3, <1>4, <1>5, <1>6 DEF RetestInv
-----------------------------------------------------------------------------
(* Steps *)

\* A scan publishes bars and makes its call.
LEMMA ScanStep ==
  ASSUME RetestInv, NEW gap \in ScanGaps, NEW lag \in Lags, NEW market \in Markets, NEW age \in Ages,
         NEW buys \in Finds, NEW broken, Scan(processed + gap, lag, market, age, buys, broken)
  PROVE  RetestInv'
<1> DEFINE now == processed + gap
           see == [now |-> now, live |-> TRUE, blocked |-> blocked, bars |-> bars',
                   market |-> market, age |-> age]
           evaluation == Minute(now) - 1 - lag
<1>1. PICK new \in SUBSET Unpublished(now) : \E moves \in [new -> Moves] :
         bars' = [m \in DOMAIN bars \cup new |-> IF m \in new THEN moves[m] ELSE bars[m]]
  BY DEF Scan
<1>2. PICK moves \in [new -> Moves] :
         bars' = [m \in DOMAIN bars \cup new |-> IF m \in new THEN moves[m] ELSE bars[m]]
  BY <1>1
<1>3. /\ Process(see, evaluation, buys, broken) /\ blocked' = blocked /\ setup' = setup
  BY DEF Scan
<1>4. /\ processed \in Nat /\ blocked \in BOOLEAN /\ setup \in Setups
      /\ DOMAIN bars \subseteq Nat /\ \A m \in DOMAIN bars : bars[m] \in Moves
  BY DEF RetestInv, TypeOK
<1>5. /\ gap \in Nat /\ lag \in Nat /\ age \in Nat /\ buys \in SUBSET Opps
      /\ market \in [Opps -> [bid : Nat, ask : Nat, band : BOOLEAN]]
  BY RetestAssumption
<1>6. now \in Nat /\ evaluation \in Int
  <2>1. now \in Nat
    BY <1>4, <1>5
  <2> QED  BY <1>5, <2>1, MinuteOf
<1>7. KnownBars(bars') /\ Extends(bars', bars)
  <2>1. new \subseteq Nat /\ \A m \in new : m \notin DOMAIN bars
    BY DEF Unpublished
  <2>2. DOMAIN bars' = DOMAIN bars \cup new
    BY <1>2
  <2>3. \A m \in DOMAIN bars : bars'[m] = bars[m]
    BY <1>2, <2>1
  <2>4. \A m \in new : bars'[m] \in Moves
    BY <1>2
  <2> QED  BY <1>4, <2>1, <2>2, <2>3, <2>4 DEF KnownBars, Extends
<1>8. Seeing(see, bars') /\ KnownBars(see.bars)
  BY <1>4, <1>5, <1>6, <1>7 DEF Seeing
<1> HIDE DEF now, see, evaluation
<1>9. Kept(bars')
  BY <1>3, <1>5, <1>6, <1>7, <1>8, ProcessStep
<1> QED  BY <1>3, <1>4, <1>7, <1>9, KeptInv

\* A restart makes its call without a provider.
LEMMA StartupStep ==
  ASSUME RetestInv, NEW gap \in StartGaps, Startup(processed + gap)
  PROVE  RetestInv'
<1> DEFINE now == processed + gap
           see == [now |-> now, live |-> FALSE, blocked |-> blocked, bars |-> <<>>,
                   market |-> [o \in Opps |-> NoQuote], age |-> 0]
           evaluation == IF InSession(now) THEN None ELSE Minute(now) - 1
<1>1. /\ Process(see, evaluation, {}, {}) /\ blocked' = blocked /\ setup' = setup /\ bars' = bars
  BY DEF Startup
<1>2. /\ processed \in Nat /\ blocked \in BOOLEAN /\ setup \in Setups /\ KnownBars(bars)
  BY DEF RetestInv, TypeOK, KnownBars
<1>3. gap \in Nat
  BY RetestAssumption
<1>4. now \in Nat /\ evaluation \in Int
  <2>1. now \in Nat
    BY <1>2, <1>3
  <2> QED  BY <2>1, MinuteOf, Numbers
<1>5. [o \in Opps |-> NoQuote] \in [Opps -> [bid : Nat, ask : Nat, band : BOOLEAN]]
  BY DEF NoQuote
<1>6. KnownBars(<<>>)
  BY DEF KnownBars
<1>7. Seeing(see, bars') /\ KnownBars(see.bars) /\ Extends(bars', bars)
  BY <1>1, <1>2, <1>4, <1>5, <1>6 DEF Seeing, Extends
<1> HIDE DEF now, see, evaluation
<1>8. {} \in SUBSET Opps
  OBVIOUS
<1>9. Kept(bars')
  BY <1>1, <1>4, <1>7, <1>8, ProcessStep
<1> QED  BY <1>1, <1>2, <1>9, KeptInv

\* A step that makes no call keeps all but the block.
LEMMA NoCallStep ==
  ASSUME RetestInv, UNCHANGED <<processed, observed, setup, bars, found, path, account>>,
         blocked' \in BOOLEAN
  PROVE  RetestInv'
<1>1. /\ processed \in Nat /\ observed \subseteq Int /\ found \in [Opps -> Rows] /\ path \in Paths
      /\ account \in [Accounts -> Books] /\ setup \in Setups /\ KnownBars(bars)
      /\ \A o \in Opps : RowFit(processed, found[o])
      /\ OneSelected(found)
      /\ \A a \in Accounts : Sound(bars, found, a, account[a])
      /\ \A a \in Accounts, o \in Opps : Timely(processed, found[o], account[a].pos[o])
  BY DEF RetestInv, TypeOK, Paths, Books, KnownBars
<1>2. /\ processed' = processed /\ observed' = observed /\ found' = found /\ path' = path
      /\ account' = account /\ setup' = setup /\ bars' = bars
  OBVIOUS
<1>3. Kept(bars')
  BY <1>1, <1>2 DEF Kept
<1> QED  BY <1>1, <1>2, <1>3, KeptInv

\* The funded accounts before the first call.
LEMMA Initially == Init => RetestInv
<1> SUFFICES ASSUME Init PROVE RetestInv
  OBVIOUS
<1>1. /\ processed = Activated /\ observed = {} /\ blocked = FALSE /\ setup \in Setups
      /\ bars = <<>> /\ found = [o \in Opps |-> NoRow] /\ path = [o \in Opps |-> NoPath]
      /\ account = [a \in Accounts |->
           [pos |-> [o \in Opps |-> NoPos], unsettled |-> 0, realized |-> 0,
            settled |-> IF a[2] = "opportunity" THEN 0 ELSE StartingCash]]
  BY DEF Init
<1>2. Activated \in Nat /\ StartingCash \in Nat /\ None \in Int /\ MaxPositions \in Nat /\ CloseFee \in Nat
  BY Numbers
<1>3. /\ NoPos \in Positions /\ NoPos.status = "NONE" /\ NoPos.requested = None /\ NoPos.entry = None
      /\ NoPos.asked = None /\ NoPos.exit = None
  BY <1>2 DEF NoPos, Positions, Settling
<1>4. NoRow \in Rows
  BY <1>2 DEF NoRow, Rows
<1>5. ASSUME NEW a \in Accounts PROVE Sound(bars, found, a, account[a])
  <2> DEFINE b == account[a]
  <2>1. b = [pos |-> [o \in Opps |-> NoPos], unsettled |-> 0, realized |-> 0,
             settled |-> IF a[2] = "opportunity" THEN 0 ELSE StartingCash]
    BY <1>1
  <2>2. b \in Books
    BY <1>2, <1>3, <2>1 DEF Books
  <2>3. \A o \in Opps : b.pos[o] = NoPos /\ found[o] = NoRow
    BY <1>1, <2>1
  <2> HIDE DEF b
  <2>4. \A o \in Opps : Fit(bars, found[o], a, o, b.pos[o])
    BY <1>3, <2>3 DEF Fit, Pending
  <2>5. ASSUME a[2] # "opportunity" PROVE Solvent(b)
    <3>1. HeldIn(b.pos) = {} /\ Awaited(b) = {}
      BY <1>3, <2>3 DEF HeldIn, Awaited, HELD
    <3>2. IsFiniteSet({}) /\ Cardinality({}) = 0
      BY FS_EmptySet
    <3>3. Debits(b) = 0 /\ Sales(b) = 0
      BY <3>1, <3>2, TotalEquation DEF Debits, Sales
    <3>4. b.settled = StartingCash /\ b.unsettled = 0 /\ b.realized = 0
      BY <2>1, <2>5
    <3>5. CloseFee * 0 = 0
      BY <1>2
    <3> QED  BY <1>2, <3>1, <3>2, <3>3, <3>4, <3>5 DEF Solvent
  <2>6. Sound(bars, found, a, b)
    BY <2>2, <2>4, <2>5 DEF Sound
  <2> QED  BY <2>6 DEF b
<1>6. TypeOK
  <2>1. account \in [Accounts -> Books]
    <3>1. \A a \in Accounts : account[a] \in Books
      BY <1>5 DEF Sound
    <3>2. account = [a \in Accounts |-> account[a]]
      BY <1>1
    <3> QED  BY <3>1, <3>2
  <2>2. path \in Paths
    BY <1>1, <1>2 DEF NoPath, Paths
  <2>3. found \in [Opps -> Rows]
    BY <1>1, <1>4
  <2>4. DOMAIN bars \subseteq Nat /\ \A m \in DOMAIN bars : bars[m] \in Moves
    BY <1>1
  <2> QED  BY <1>1, <1>2, <2>1, <2>2, <2>3, <2>4 DEF TypeOK, Paths, Books
<1>7. \A o \in Opps : found[o] = NoRow
  BY <1>1
<1>8. (\A o \in Opps : RowFit(processed, found[o])) /\ OneSelected(found)
  BY <1>7 DEF RowFit, OneSelected
<1>9. \A a \in Accounts, o \in Opps : Timely(processed, found[o], account[a].pos[o])
  BY <1>1, <1>3 DEF Timely
<1> QED  BY <1>5, <1>6, <1>8, <1>9 DEF RetestInv

\* Every step keeps the invariant.
LEMMA NextKeeps == RetestInv /\ [Next]_vars => RetestInv'
<1> SUFFICES ASSUME RetestInv, [Next]_vars PROVE RetestInv'
  OBVIOUS
<1>1. ASSUME NEW gap \in StartGaps, Startup(processed + gap) PROVE RetestInv'
  BY <1>1, StartupStep
<1>2. ASSUME NEW gap \in ScanGaps, NEW lag \in Lags, NEW market \in Markets, NEW age \in Ages,
             NEW buys \in Finds, NEW broken \in SUBSET (buys \cap Breakable),
             Scan(processed + gap, lag, market, age, buys, broken)
      PROVE  RetestInv'
  BY <1>2, ScanStep
<1>3. CASE Drift
  BY <1>3, NoCallStep DEF Drift
<1>4. CASE Resume
  BY <1>4, NoCallStep DEF Resume
<1>5. CASE UNCHANGED vars
  <2>1. blocked \in BOOLEAN
    BY DEF RetestInv, TypeOK
  <2> QED  BY <1>5, <2>1, NoCallStep DEF vars
<1> QED  BY <1>1, <1>2, <1>3, <1>4, <1>5 DEF Next

\* The invariant holds in every state.
THEOREM RetestInvariant == Spec => []RetestInv
<1>1. RetestInv /\ [Next]_vars => RetestInv'
  BY NextKeeps
<1> QED  BY <1>1, Initially, PTL DEF Spec
-----------------------------------------------------------------------------
(* The properties *)

\* What the invariant says of one position.
LEMMA OnePosition ==
  ASSUME RetestInv, NEW a \in Accounts, NEW o \in Opps
  PROVE  /\ account[a].pos[o] \in Positions /\ Fit(bars, found[o], a, o, account[a].pos[o])
         /\ Timely(processed, found[o], account[a].pos[o])
         /\ found[o] \in Rows /\ RowFit(processed, found[o]) /\ processed \in Nat
  BY DEF RetestInv, TypeOK, Sound, Books

\* Entries are earned in every state of the invariant.
LEMMA InvEarned == RetestInv => EntriesEarned
<1> SUFFICES ASSUME RetestInv, NEW a \in Accounts, NEW o \in Opps
             PROVE  LET p == account[a].pos[o]
                        row == found[o]
                        retest == Minute(p.requested) - 1
                    IN /\ p.requested # None =>
                            /\ row.valid /\ (row.selected \/ a[2] = "opportunity")
                            /\ IF Retests(a[1], o)
                               THEN /\ retest \in (row.minute + 1)..(row.minute + RetestBars)
                                    /\ Harmless(o, row.minute + 1, retest) /\ bars[retest][o] = "retest"
                                    /\ \A m \in (row.minute + 1)..(retest - 1) : bars[m][o] = "quiet"
                               ELSE p.requested = row.at
                       /\ p.entry # None =>
                            /\ p.requested < p.entryQuote /\ p.entryQuote \in (p.entry - QuoteAge)..p.entry
                            /\ p.entry <= p.requested + EntryDeadline
                            /\ p.entry < Start(OfDay(Cutoff, row.at))
                            /\ Harmless(o, row.minute + 1, Minute(p.entry) - 1)
  BY DEF EntriesEarned
<1> DEFINE p == account[a].pos[o]
           row == found[o]
           retest == Minute(p.requested) - 1
<1>1. Fit(bars, row, a, o, p) /\ row \in Rows
  BY OnePosition
<1> HIDE DEF p, row
<1>2. ASSUME p.requested # None PROVE Requested(bars, row, a, o, p)
  BY <1>1, <1>2 DEF Fit
<1>3. ASSUME p.entry # None PROVE Entered(bars, row, o, p)
  BY <1>1, <1>3 DEF Fit
<1>4. ASSUME p.requested # None, Retests(a[1], o)
      PROVE  /\ retest \in (row.minute + 1)..(row.minute + RetestBars)
             /\ Harmless(o, row.minute + 1, retest) /\ bars[retest][o] = "retest"
             /\ \A m \in (row.minute + 1)..(retest - 1) : bars[m][o] = "quiet"
  <2>1. /\ retest \in (row.minute + 1)..(row.minute + RetestBars)
        /\ retest \in DOMAIN bars /\ bars[retest][o] = "retest"
        /\ Still(bars, o, row.minute + 1, retest - 1)
    BY <1>2, <1>4 DEF Requested
  <2>2. row.minute \in Int /\ RetestBars \in Nat
    BY <1>1, Numbers DEF Rows
  <2> HIDE DEF retest
  <2>3. \A m \in (row.minute + 1)..retest : m = retest \/ m \in (row.minute + 1)..(retest - 1)
    BY <2>1, <2>2
  <2> QED  BY <2>1, <2>3 DEF Still, Harmless
<1>5. p.requested # None =>
        /\ row.valid /\ (row.selected \/ a[2] = "opportunity")
        /\ ~Retests(a[1], o) => p.requested = row.at
  BY <1>2 DEF Requested
<1>6. p.entry # None =>
        /\ p.requested < p.entryQuote /\ p.entryQuote \in (p.entry - QuoteAge)..p.entry
        /\ p.entry <= p.requested + EntryDeadline
        /\ p.entry < Start(OfDay(Cutoff, row.at))
        /\ Harmless(o, row.minute + 1, Minute(p.entry) - 1)
  BY <1>3 DEF Entered, Calm, Harmless
<1> QED  BY <1>4, <1>5, <1>6 DEF p, row

\* Exits are proven in every state of the invariant.
LEMMA InvProven == RetestInv => ExitsProven
<1> SUFFICES ASSUME RetestInv, NEW a \in Accounts, NEW o \in Opps
             PROVE  LET p == account[a].pos[o]
                        bar == p.end \div MinuteTicks - 1
                    IN /\ p.asked # None =>
                            /\ p.entry <= Start(bar) /\ p.asked \in p.end..(p.end + ExitDeadline)
                            /\ bar \in DOMAIN bars
                            /\ bars[bar][o] \in {"stop", "target"} \/ bar >= OfDay(Cutoff, Start(bar))
                            /\ Harmless(o, Minute(p.entry), bar - 1)
                       /\ p.exit # None =>
                            /\ p.asked < p.exitQuote /\ p.exitQuote \in (p.exit - QuoteAge)..p.exit
                            /\ p.exit <= p.asked + ExitDeadline
                            /\ p.exit < Start(OfDay(Closing, found[o].at))
                       /\ p.status \in {"UNSETTLED", "CLOSED"} <=> p.exit # None
                       /\ p.status \in {"OPEN", "EXIT_PENDING"} => processed < Start(OfDay(Closing, p.entry))
  BY DEF ExitsProven
<1> DEFINE p == account[a].pos[o]
           row == found[o]
           bar == p.end \div MinuteTicks - 1
<1>1. /\ p \in Positions /\ Fit(bars, row, a, o, p) /\ Timely(processed, row, p)
      /\ row \in Rows /\ RowFit(processed, row) /\ DOMAIN bars \subseteq Nat
  BY OnePosition DEF RetestInv, TypeOK
<1> HIDE DEF p, row
<1>2. ASSUME p.asked # None
      PROVE  /\ p.entry <= Start(bar) /\ p.asked \in p.end..(p.end + ExitDeadline)
             /\ bar \in DOMAIN bars
             /\ bars[bar][o] \in {"stop", "target"} \/ bar >= OfDay(Cutoff, Start(bar))
             /\ Harmless(o, Minute(p.entry), bar - 1)
  <2>1. AskedFor(bars, o, p)
    BY <1>1, <1>2 DEF Fit
  <2>2. PICK b \in DOMAIN bars :
          /\ b \in Int /\ p.end = Start(b + 1)
          /\ p.entry <= Start(b) /\ p.asked \in p.end..(p.end + ExitDeadline)
          /\ bars[b][o] \in {"stop", "target"} \/ b >= OfDay(Cutoff, Start(b))
          /\ Calm(bars, o, Minute(p.entry), b - 1)
    BY <2>1 DEF AskedFor
  <2>3. b \in Nat /\ b + 1 \in Nat
    BY <1>1, <2>2
  <2>4. Minute(Start(b + 1)) = b + 1
    BY <2>3, StartsIn
  <2>5. bar = b
    <3>1. p.end \div MinuteTicks = b + 1
      BY <2>2, <2>4 DEF Minute
    <3> QED  BY <2>3, <3>1
  <2> HIDE DEF bar
  <2> QED  BY <2>2, <2>5 DEF Calm, Harmless
<1>3. p.exit # None =>
        /\ p.asked < p.exitQuote /\ p.exitQuote \in (p.exit - QuoteAge)..p.exit
        /\ p.exit <= p.asked + ExitDeadline
        /\ p.exit < Start(OfDay(Closing, row.at))
  BY <1>1 DEF Fit, Left
<1>4. p.status \in {"UNSETTLED", "CLOSED"} <=> p.exit # None
  BY <1>1 DEF Fit
<1>5. ASSUME p.status \in {"OPEN", "EXIT_PENDING"} PROVE processed < Start(OfDay(Closing, p.entry))
  <2>1. row # NoRow /\ p.entry # None /\ Entered(bars, row, o, p)
    BY <1>1, <1>5 DEF Fit
  <2>2. row.at \in Nat /\ p.entry \in Int /\ row.at <= p.entry /\ p.entry < Start(OfDay(Cutoff, row.at))
    BY <1>1, <2>1 DEF RowFit, Entered, Positions
  <2>3. p.entry \in Nat /\ Cutoff \in 0..DayMinutes
    <3>1. Cutoff \in 0..DayMinutes
      BY Numbers
    <3> QED  BY <2>2, <3>1
  <2>4. DayOf(Minute(p.entry)) = DayOf(Minute(row.at))
    BY <2>2, <2>3, SameDay
  <2>5. OfDay(Closing, p.entry) = OfDay(Closing, row.at)
    BY <2>4 DEF OfDay
  <2>6. processed < Start(OfDay(Closing, row.at))
    BY <1>1, <1>5 DEF Timely
  <2> QED  BY <2>5, <2>6
<1> QED  BY <1>2, <1>3, <1>4, <1>5 DEF p, row

\* The arms are comparable in every state of the invariant.
LEMMA InvComparable == RetestInv => ArmsComparable
<1> SUFFICES ASSUME RetestInv PROVE ArmsComparable
  OBVIOUS
<1>1. ASSUME NEW o \in Found, NEW u \in Found
      PROVE  /\ \E v \in Found : SameIdea(o, v) /\ found[v].selected
             /\ (o # u /\ found[o].selected /\ found[u].selected) => ~SameIdea(o, u)
  <2>1. OneSelected(found) /\ o \in Opps /\ u \in Opps /\ found[o] # NoRow /\ found[u] # NoRow
    BY DEF RetestInv, Found
  <2>2. PICK v \in Opps : /\ found[v] # NoRow /\ setup[v].ticker = setup[o].ticker
                          /\ DayOf(found[v].minute) = DayOf(found[o].minute) /\ found[v].selected
    BY <2>1 DEF OneSelected
  <2>3. v \in Found /\ SameIdea(o, v)
    BY <2>2 DEF Found, SameIdea
  <2>4. (o # u /\ found[o].selected /\ found[u].selected) => ~SameIdea(o, u)
    BY <2>1 DEF OneSelected, SameIdea
  <2> QED  BY <2>2, <2>3, <2>4
<1>2. ASSUME NEW s \in Scenarios, NEW o \in Opps
      PROVE  (account[<<"control", s>>].pos[o] = NoPos) = (account[<<"treatment", s>>].pos[o] = NoPos)
  <2> DEFINE none == found[o] = NoRow \/ (s = "opportunity" /\ setup[o].mode # "ONE_MIN_0DTE")
  <2>1. ASSUME NEW a \in Accounts, a[2] = s PROVE account[a].pos[o] = NoPos <=> none
    <3> DEFINE p == account[a].pos[o]
    <3>1. Fit(bars, found[o], a, o, p)
      BY OnePosition
    <3> HIDE DEF p
    <3>2. p = NoPos <=> p.status = "NONE"
      BY <3>1 DEF Fit, NoPos
    <3>3. p.status = "NONE" <=> none
      BY <2>1, <3>1 DEF Fit
    <3> QED  BY <3>2, <3>3 DEF p
  <2>2. /\ <<"control", s>> \in Accounts /\ <<"treatment", s>> \in Accounts
        /\ <<"control", s>>[2] = s /\ <<"treatment", s>>[2] = s
    BY DEF Accounts, ARMS
  <2> HIDE DEF none
  <2> QED  BY <2>1, <2>2
<1>3. ASSUME NEW a \in ARMS \X DOMAIN Costs
      PROVE  LET book == account[a]
                 held == HeldIn(book.pos)
             IN /\ Cardinality(held) <= MaxPositions
                /\ book.settled >= CloseFee * Cardinality(held)
                /\ book.settled + book.unsettled + Total([o \in Opps |-> book.pos[o].debit], held)
                     = StartingCash + book.realized
                /\ book.unsettled = Total([o \in Opps |-> book.pos[o].sale],
                                      {o \in Opps : book.pos[o].status = "UNSETTLED"})
  <2>1. a \in Accounts /\ a[2] # "opportunity"
    BY RetestAssumption DEF Accounts, Scenarios
  <2>2. Solvent(account[a])
    BY <2>1 DEF RetestInv, Sound
  <2> QED  BY <2>2 DEF Solvent, Debits, Sales, Awaited
<1> QED  BY <1>1, <1>2, <1>3 DEF ArmsComparable

\* The state is well typed: the clock, rows, bars, paths and books of every account.
THEOREM TypeCorrect == Spec => []TypeOK
<1>1. RetestInv => TypeOK
  BY DEF RetestInv
<1> QED  BY <1>1, RetestInvariant, PTL

\* The treatment asks in the minute after the first retest and the control at once, and
\* no position opens late, on a stale quote, past the cutoff, or after a bar that touched
\* a level or is missing: retest_research.advance and RetestTrialService._advance_position.
THEOREM EntriesAlwaysEarned == Spec => []EntriesEarned
  BY InvEarned, RetestInvariant, PTL

\* An exit follows the first bar that ends the exposure, a whole bar after the fill, asked
\* for and priced in time; no position outlives its session: _bar_exit and _advance_position.
THEOREM ExitsAlwaysProven == Spec => []ExitsProven
  BY InvProven, RetestInvariant, PTL

\* One opportunity of a ticker and day is selected, for both arms alike, and each cash
\* account keeps its slots, the fees it owes, and all of its money: _discover, _capacity
\* and the events of RetestTrialService.
THEOREM ArmsStayComparable == Spec => []ArmsComparable
  BY InvComparable, RetestInvariant, PTL
=============================================================================
