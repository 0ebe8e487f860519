------------------------ MODULE SignalOutcomeProofs ------------------------
(***************************************************************************)
(* Theorems about SignalOutcome, for any number of signals, any candles,   *)
(* lags and deadlines: the types and the one ENTRY mark of a day, then the *)
(* walk over the candles, the data gap and the EXIT mark.                  *)
(***************************************************************************)
EXTENDS SignalOutcome, NaturalsInduction, WellFoundedInduction, TLAPS
LOCAL INSTANCE FiniteSetsExt

-----------------------------------------------------------------------------
(* Least and greatest elements *)

\* Min and Max are CHOOSE expressions: what they choose must be shown to exist.
LEMMA MinOf ==
  ASSUME NEW S \in SUBSET Nat, S # {}
  PROVE  Min(S) \in S /\ \A y \in S : Min(S) <= y
<1>1. PICK x \in S : \A y \in S : ~ (<<y, x>> \in OpToRel(<, Nat))
  BY NatLessThanWellFounded, WFMin
<1>2. \A y \in S : ~ (y < x)
  BY <1>1 DEF OpToRel
<1>3. \A y \in S : x <= y
  BY <1>2
<1> QED  BY <1>3 DEF Min

LEMMA MaxOf ==
  ASSUME NEW S \in SUBSET Nat, S # {}, NEW b \in Nat, \A y \in S : y <= b
  PROVE  Max(S) \in S /\ \A y \in S : y <= Max(S)
<1> DEFINE D == {b - y : y \in S}
<1>1. D \in SUBSET Nat /\ D # {}
  <2>1. \A y \in S : b - y \in Nat
    OBVIOUS
  <2>2. PICK y \in S : TRUE
    OBVIOUS
  <2>3. b - y \in D
    BY <2>2
  <2> QED  BY <2>1, <2>3
<1>2. Min(D) \in D /\ \A d \in D : Min(D) <= d
  BY <1>1, MinOf
<1>3. PICK x \in S : Min(D) = b - x
  BY <1>2
<1>4. \A y \in S : y <= x
  <2> TAKE y \in S
  <2>1. b - y \in D
    OBVIOUS
  <2>2. b - x <= b - y
    BY <1>2, <1>3, <2>1
  <2> QED  BY <2>2
<1>5. \A y \in S : x >= y
  BY <1>4
<1>6. Max(S) \in S /\ \A y \in S : Max(S) >= y
  BY <1>5 DEF Max
<1> QED  BY <1>6
-----------------------------------------------------------------------------
(* Ticks, minutes and days *)

LEMMA Ticks ==
  /\ \A t \in Nat : Minute(t) \in Nat
  /\ \A m \in Nat : Start(m) \in Nat /\ Minute(Start(m)) = m
                    /\ Start(m + 1) = Start(m) + MinuteTicks
  /\ \A m \in Nat : DayOf(m) \in Nat
<1>1. MinuteTicks \in Nat \ {0} /\ DayMinutes \in Nat \ {0}
  BY OutcomeAssumption
<1>2. \A t \in Nat : Minute(t) \in Nat
  BY <1>1 DEF Minute
<1>3. \A m \in Nat : Start(m) \in Nat
  BY <1>1 DEF Start
<1>4. \A m \in Nat : Minute(Start(m)) = m
  BY <1>1 DEF Start, Minute
<1>5. \A m \in Nat : Start(m + 1) = Start(m) + MinuteTicks
  BY <1>1 DEF Start
<1>6. \A m \in Nat : DayOf(m) \in Nat
  BY <1>1 DEF DayOf
<1> QED  BY <1>2, <1>3, <1>4, <1>5, <1>6

\* Later minutes start later.
LEMMA StartsGrow ==
  ASSUME NEW m \in Nat, NEW n \in Nat
  PROVE  m < n <=> Start(m) < Start(n)
<1>1. MinuteTicks \in Nat \ {0}
  BY OutcomeAssumption
<1>2. ASSUME NEW i \in Nat, NEW j \in Nat, i < j PROVE Start(i) < Start(j)
  <2>1. j - i \in Nat /\ j - i >= 1
    BY <1>2
  <2>2. j * MinuteTicks = i * MinuteTicks + (j - i) * MinuteTicks
    BY <1>1
  <2>3. (j - i) * MinuteTicks > 0
    BY <1>1, <2>1
  <2>4. i * MinuteTicks \in Nat /\ (j - i) * MinuteTicks \in Nat
    BY <1>1, <2>1
  <2> QED  BY <2>2, <2>3, <2>4 DEF Start
<1>3. CASE m < n
  BY <1>2, <1>3, Ticks
<1>4. CASE n < m
  BY <1>2, <1>4, Ticks
<1>5. CASE m = n
  BY <1>5, Ticks
<1> QED  BY <1>3, <1>4, <1>5

LEMMA MinutesNat == Minutes \subseteq Nat
  BY DEF Minutes
-----------------------------------------------------------------------------
(* What a pass does to a row *)

RowType  == [exit : Results \cup {"NONE", "OPEN", "DATA_GAP", "MISSED"},
             at : Stamp, trigger : Stamp, cursor : Stamp]
MarkType == [status : {"NONE", "QUOTED", "GAP"}, quoteAt : Stamp,
             reason : Results \cup {"NONE", "DATA_GAP"}]

\* A tracked row has its stamps; only tracked BUY rows have an ENTRY mark, and
\* only ended ones an EXIT mark.
TrackedInv ==
  /\ \A s \in Signals : row[s].exit # "NONE" => row[s].trigger \in Nat /\ row[s].cursor \in Nat
  /\ \A s \in entry : row[s].exit \notin {"NONE", "MISSED"}
  /\ \A s \in Signals : mark[s] # NoMark => row[s].exit \in Results \cup {"DATA_GAP"}

Tracked == TypeOK /\ TrackedInv

LEMMA OutcomeType ==
  ASSUME Tracked, NEW s \in Signals, NEW m \in Published
  PROVE  Outcome(s, m) \in Results \cup {"OPEN"}
<1>1. candles[m] \in Move
  BY OutcomeAssumption DEF Tracked, TypeOK
<1>2. candles[m][s].kind \in Kinds
  BY <1>1 DEF Move
<1> QED  BY <1>2 DEF Outcome, Kinds, Results

\* The candles a row walks over are minutes, after its cursor and complete.
LEMMA UnseenMinutes ==
  ASSUME Tracked, NEW s \in Signals, NEW latest \in Int
  PROVE  /\ Unseen(s, latest) \subseteq Published /\ Unseen(s, latest) \subseteq Nat
         /\ Ends(s, latest) \subseteq Unseen(s, latest)
  BY MinutesNat DEF Tracked, TypeOK, Unseen, Ends

\* A walk that meets an ending candle stops at the first one.
LEMMA WalkEnds ==
  ASSUME Tracked, NEW s \in Open, NEW latest \in Int, Ends(s, latest) # {}
  PROVE  \E m \in Ends(s, latest) :
           /\ \A k \in Ends(s, latest) : m <= k
           /\ Walked(s, latest) = [row[s] EXCEPT !.exit = Outcome(s, m), !.at = Start(m),
                                                 !.cursor = Start(m)]
<1> DEFINE m == Min(Ends(s, latest))
<1>1. Ends(s, latest) \in SUBSET Nat
  BY UnseenMinutes DEF Open
<1>2. m \in Ends(s, latest) /\ \A k \in Ends(s, latest) : m <= k
  BY <1>1, MinOf
<1>3. Walked(s, latest) = [row[s] EXCEPT !.exit = Outcome(s, m), !.at = Start(m),
                                         !.cursor = Start(m)]
  BY DEF Walked
<1> QED  BY <1>2, <1>3

\* A walk that meets none moves the cursor to the last candle it saw.
LEMMA WalkGoesOn ==
  ASSUME Tracked, NEW s \in Open, NEW latest \in Int, Ends(s, latest) = {}
  PROVE  \E c \in Nat :
           /\ Walked(s, latest) = [row[s] EXCEPT !.cursor = c]
           /\ c = row[s].cursor \/ \E k \in Unseen(s, latest) : c = Start(k)
           /\ c >= row[s].cursor /\ \A k \in Unseen(s, latest) : Start(k) <= c
<1> DEFINE S == {row[s].cursor} \cup {Start(k) : k \in Unseen(s, latest)}
           c == Max(S)
<1>1. row[s].cursor \in Nat /\ s \in Signals
  BY DEF Tracked, TrackedInv, Open
<1>2. Unseen(s, latest) \subseteq Nat
  BY <1>1, UnseenMinutes
<1>3. S \in SUBSET Nat /\ S # {}
  BY <1>1, <1>2, Ticks
<1>4. \E b \in Nat : \A y \in S : y <= b
  <2>1. CASE latest < 0
    <3>1. \A k \in Unseen(s, latest) : Start(k) <= latest
      BY <1>2, Ticks, OutcomeAssumption DEF Unseen
    <3>2. Unseen(s, latest) = {}
      BY <2>1, <3>1, <1>2, Ticks
    <3> QED  BY <3>2, <1>1
  <2>2. CASE latest >= 0
    <3>1. \A k \in Unseen(s, latest) : Start(k) <= latest
      BY <1>2, Ticks, OutcomeAssumption DEF Unseen
    <3>2. latest + row[s].cursor \in Nat
      BY <2>2, <1>1
    <3>3. \A y \in S : y <= latest + row[s].cursor
      BY <3>1, <2>2, <1>1, <1>2, Ticks
    <3> QED  BY <3>2, <3>3
  <2> QED  BY <2>1, <2>2
<1>5. c \in S /\ \A y \in S : y <= c
  BY <1>3, <1>4, MaxOf
<1>6. Walked(s, latest) = [row[s] EXCEPT !.cursor = c]
  BY DEF Walked
<1>7. c \in Nat
  BY <1>5, <1>3
<1>8. c = row[s].cursor \/ \E k \in Unseen(s, latest) : c = Start(k)
  BY <1>5
<1>9. c >= row[s].cursor /\ \A k \in Unseen(s, latest) : Start(k) <= c
  BY <1>5, <1>7, <1>1
<1> QED  BY <1>6, <1>7, <1>8, <1>9

\* A row before and after a pass: not open and left alone, ended by its first
\* ending candle, or walked on without one, and then perhaps a gap.
LeftAlone(s) == row[s].exit # "OPEN" /\ row'[s] = row[s]
EndedAt(s, m, latest) ==
  /\ row[s].exit = "OPEN" /\ m \in Ends(s, latest) /\ \A k \in Ends(s, latest) : m <= k
  /\ row'[s] = [row[s] EXCEPT !.exit = Outcome(s, m), !.at = Start(m), !.cursor = Start(m)]
MovedTo(s, c, latest) ==
  /\ row[s].exit = "OPEN" /\ Ends(s, latest) = {}
  /\ c = row[s].cursor \/ \E k \in Unseen(s, latest) : c = Start(k)
  /\ c >= row[s].cursor /\ \A k \in Unseen(s, latest) : Start(k) <= c
WalkedOn(s, c, latest) ==
  MovedTo(s, c, latest) /\ row'[s] = [row[s] EXCEPT !.cursor = c]
GaveUp(s, c, latest) ==
  /\ MovedTo(s, c, latest) /\ latest >= CutoffReady(Day(s))
  /\ row'[s] = [row[s] EXCEPT !.cursor = c, !.exit = "DATA_GAP", !.at = None]
PassedBy(s, latest) ==
  \/ LeftAlone(s)
  \/ \E m \in Published : EndedAt(s, m, latest)
  \/ \E c \in Nat : WalkedOn(s, c, latest) \/ GaveUp(s, c, latest)

LEMMA PassRow ==
  ASSUME Tracked, NEW s \in Signals, NEW latest \in Int, NEW healthy \in BOOLEAN,
         row' = [u \in Signals |-> Evaluated(u, latest, healthy)]
  PROVE  PassedBy(s, latest)
<1>1. row'[s] = Evaluated(s, latest, healthy) /\ row[s] \in RowType
  BY DEF Tracked, TypeOK, RowType
<1>2. CASE s \notin Open
  BY <1>1, <1>2 DEF Evaluated, Open, PassedBy, LeftAlone
<1>3. CASE s \in Open /\ Ends(s, latest) # {}
  <2>1. PICK m \in Ends(s, latest) :
           /\ \A k \in Ends(s, latest) : m <= k
           /\ Walked(s, latest) = [row[s] EXCEPT !.exit = Outcome(s, m), !.at = Start(m),
                                                 !.cursor = Start(m)]
    BY <1>3, WalkEnds
  <2>2. m \in Published /\ Outcome(s, m) # "OPEN"
    BY UnseenMinutes DEF Ends
  <2>3. Walked(s, latest).exit # "OPEN"
    BY <2>1, <2>2, <1>1 DEF RowType
  <2>4. row'[s] = Walked(s, latest)
    BY <1>1, <1>3, <2>3 DEF Evaluated
  <2>5. EndedAt(s, m, latest)
    BY <1>3, <2>1, <2>4 DEF EndedAt, Open
  <2> QED  BY <2>2, <2>5 DEF PassedBy
<1>4. CASE s \in Open /\ Ends(s, latest) = {}
  <2>1. PICK c \in Nat :
           /\ Walked(s, latest) = [row[s] EXCEPT !.cursor = c]
           /\ c = row[s].cursor \/ \E k \in Unseen(s, latest) : c = Start(k)
           /\ c >= row[s].cursor /\ \A k \in Unseen(s, latest) : Start(k) <= c
    BY <1>4, WalkGoesOn
  <2>2. MovedTo(s, c, latest)
    BY <1>4, <2>1 DEF MovedTo, Open
  <2>3. CASE healthy /\ latest >= CutoffReady(Day(s))
    <3>1. Walked(s, latest).exit = "OPEN"
      BY <2>1, <1>1, <1>4 DEF Open, RowType
    <3>2. row'[s] = [Walked(s, latest) EXCEPT !.exit = "DATA_GAP", !.at = None]
      BY <1>1, <1>4, <2>3, <3>1 DEF Evaluated
    <3>3. row'[s] = [row[s] EXCEPT !.cursor = c, !.exit = "DATA_GAP", !.at = None]
      BY <3>2, <2>1, <1>1 DEF RowType
    <3> QED  BY <2>2, <2>3, <3>3 DEF GaveUp, PassedBy
  <2>4. CASE ~ (healthy /\ latest >= CutoffReady(Day(s)))
    <3>1. row'[s] = Walked(s, latest)
      BY <1>1, <1>4, <2>4 DEF Evaluated
    <3> QED  BY <2>1, <2>2, <3>1 DEF WalkedOn, PassedBy
  <2> QED  BY <2>3, <2>4
<1> QED  BY <1>2, <1>3, <1>4
-----------------------------------------------------------------------------
(* Types *)

RowOK(r) ==
  /\ r \in RowType
  /\ r.at # None <=> r.exit \in Results
  /\ r.exit # "NONE" => r.trigger \in Nat /\ r.cursor \in Nat

LEMMA RowsOK ==
  ASSUME Tracked, NEW s \in Signals
  PROVE  RowOK(row[s])
  BY DEF Tracked, TrackedInv, TypeOK, RowOK, RowType

\* A pass keeps a row's types and its trigger, and neither starts nor skips it.
LEMMA PassKeepsRow ==
  ASSUME Tracked, NEW s \in Signals, NEW latest \in Int, PassedBy(s, latest)
  PROVE  /\ RowOK(row'[s]) /\ row'[s].trigger = row[s].trigger
         /\ row'[s].exit \in {"NONE", "MISSED"} <=> row[s].exit \in {"NONE", "MISSED"}
         /\ row[s].exit # "OPEN" => row'[s] = row[s]
         /\ row'[s].exit = "OPEN" => row[s].exit = "OPEN"
<1>1. RowOK(row[s])
  BY RowsOK
<1>2. CASE LeftAlone(s)
  BY <1>1, <1>2 DEF LeftAlone
<1>3. ASSUME NEW m \in Published, EndedAt(s, m, latest) PROVE RowOK(row'[s])
  <2>1. Outcome(s, m) \in Results
    BY <1>3, OutcomeType DEF EndedAt, Ends
  <2>2. Start(m) \in Nat
    BY MinutesNat, Ticks DEF Tracked, TypeOK
  <2>3. row'[s] = [exit |-> Outcome(s, m), at |-> Start(m), trigger |-> row[s].trigger,
                   cursor |-> Start(m)]
    BY <1>1, <1>3 DEF EndedAt, RowOK, RowType
  <2>4. row[s].trigger \in Nat
    BY <1>1, <1>3 DEF EndedAt, RowOK
  <2> QED  BY <2>1, <2>2, <2>3, <2>4 DEF RowOK, RowType, Stamp, None
<1>4. ASSUME NEW m \in Published, EndedAt(s, m, latest)
      PROVE  /\ row'[s].trigger = row[s].trigger /\ row[s].exit = "OPEN"
             /\ row'[s].exit \in Results
  <2>1. Outcome(s, m) \in Results
    BY <1>4, OutcomeType DEF EndedAt, Ends
  <2> QED  BY <1>1, <1>4, <2>1 DEF EndedAt, RowOK, RowType
<1>5. ASSUME NEW c \in Nat, WalkedOn(s, c, latest) \/ GaveUp(s, c, latest)
      PROVE  /\ RowOK(row'[s]) /\ row'[s].trigger = row[s].trigger /\ row[s].exit = "OPEN"
             /\ row'[s].exit \in {"OPEN", "DATA_GAP"}
  BY <1>1, <1>5 DEF WalkedOn, GaveUp, MovedTo, RowOK, RowType, Stamp, None, Results
<1> QED  BY <1>1, <1>2, <1>3, <1>4, <1>5 DEF PassedBy, Results

\* What an EXIT mark can say of a row.
Tells(k, r) ==
  /\ k.reason = r.exit /\ r.exit \in Results \cup {"DATA_GAP"}
  /\ k.status = "QUOTED" => r.exit \in Results /\ k.quoteAt \in r.at..(r.at + MaxQuoteLag)

LEMMA ExitMarkTells ==
  ASSUME NEW r, RowOK(r), r.exit \notin {"NONE", "MISSED"}, NEW latest \in Int,
         NEW quoteAt \in Stamp
  PROVE  /\ ExitMark(r, latest, quoteAt) \in MarkType
         /\ ExitMark(r, latest, quoteAt) # NoMark => Tells(ExitMark(r, latest, quoteAt), r)
<1>1. CASE r.exit = "OPEN"
  BY <1>1 DEF ExitMark, NoMark, MarkType, Stamp, None, Results
<1>2. CASE r.exit = "DATA_GAP"
  <2>1. ExitMark(r, latest, quoteAt) = [status |-> "GAP", reason |-> r.exit, quoteAt |-> None]
    BY <1>2 DEF ExitMark, Results
  <2> QED  BY <1>2, <2>1 DEF MarkType, Tells, Stamp, None
<1>3. CASE r.exit \in Results
  <2>1. r.exit \notin {"OPEN", "DATA_GAP"}
    BY <1>3 DEF Results
  <2>2. CASE InWindow(quoteAt, r.at)
    <3>1. ExitMark(r, latest, quoteAt) =
            [status |-> "QUOTED", reason |-> r.exit, quoteAt |-> quoteAt]
      BY <1>3, <2>1, <2>2 DEF ExitMark
    <3> QED  BY <1>3, <2>2, <3>1 DEF MarkType, Tells, InWindow
  <2>3. CASE ~InWindow(quoteAt, r.at) /\ Expired(latest, r.at)
    <3>1. ExitMark(r, latest, quoteAt) =
            [status |-> "GAP", reason |-> r.exit, quoteAt |-> None]
      BY <1>3, <2>1, <2>3 DEF ExitMark
    <3> QED  BY <1>3, <3>1 DEF MarkType, Tells, Stamp, None
  <2>4. CASE ~InWindow(quoteAt, r.at) /\ ~Expired(latest, r.at)
    <3>1. ExitMark(r, latest, quoteAt) = NoMark
      BY <1>3, <2>1, <2>4 DEF ExitMark
    <3> QED  BY <3>1 DEF MarkType, NoMark, Stamp, None
  <2> QED  BY <2>2, <2>3, <2>4
<1> QED  BY <1>1, <1>2, <1>3 DEF RowOK, RowType

\* The type invariant in the parts the actions change.
HostOK  == clock \in 0..MaxClock
FeedOK  == /\ Published \subseteq Minutes /\ backfilled \subseteq Published
           /\ \A m \in Published : candles[m] \in Moves
RowsFine == row \in [Signals -> RowType] /\ \A s \in Signals : RowOK(row[s])
MarksOK ==
  /\ entry \subseteq Signals /\ \A s \in entry : row[s].exit \notin {"NONE", "MISSED"}
  /\ mark \in [Signals -> MarkType]
  /\ \A s \in Signals : mark[s] # NoMark => row[s].exit \in Results \cup {"DATA_GAP"}
ChainOK == chain \in [Signals -> Stamp]

LEMMA TrackedParts == Tracked <=> HostOK /\ FeedOK /\ RowsFine /\ MarksOK /\ ChainOK
  BY DEF Tracked, TypeOK, TrackedInv, HostOK, FeedOK, RowsFine, MarksOK, ChainOK, RowOK,
         RowType, MarkType

LEMMA InitTracked == Init => Tracked
<1> SUFFICES ASSUME Init PROVE HostOK /\ FeedOK /\ RowsFine /\ MarksOK /\ ChainOK
  BY TrackedParts
<1>1. HostOK
  BY OutcomeAssumption DEF Init, HostOK
<1>2. FeedOK
  BY DEF Init, FeedOK, Published
<1>3. RowsFine
  BY DEF Init, RowsFine, RowOK, RowType, NoRow, Stamp, None, Results
<1>4. MarksOK
  BY DEF Init, MarksOK, MarkType, NoMark, Stamp, None
<1>5. ChainOK
  BY DEF Init, ChainOK, Stamp
<1> QED  BY <1>1, <1>2, <1>3, <1>4, <1>5

LEMMA TrackTyped ==
  ASSUME Tracked, NEW s \in Signals, NEW signal \in {"BUY", "MISSED"}, NEW lag \in Lags,
         Track(s, signal, lag)
  PROVE  Tracked'
<1>0. HostOK /\ FeedOK /\ RowsFine /\ MarksOK /\ ChainOK
  BY TrackedParts
<1> DEFINE trigger == clock - lag
<1>1. trigger \in Nat
  BY <1>0, OutcomeAssumption DEF Track, HostOK
<1>2. RowOK(NewRow(signal, trigger)) /\ NewRow(signal, trigger).exit # "NONE"
      /\ (signal = "BUY" => NewRow(signal, trigger).exit = "OPEN")
  BY <1>1 DEF NewRow, RowOK, RowType, Stamp, None, Results
<1>3. row' = [row EXCEPT ![s] = NewRow(signal, trigger)] /\ row[s] = NoRow
  BY DEF Track
<1>4. HostOK' /\ FeedOK'
  BY <1>0 DEF Track, HostOK, FeedOK, Published
<1>5. RowsFine'
  BY <1>0, <1>2, <1>3 DEF RowsFine, RowOK
<1>6. \A u \in Signals : u # s => row'[u] = row[u]
  BY <1>0, <1>3 DEF RowsFine
<1>7. row'[s] = NewRow(signal, trigger)
  BY <1>0, <1>3 DEF RowsFine
<1>8. s \notin entry /\ mark[s] = NoMark
  BY <1>0, <1>3 DEF MarksOK, NoRow, Results
<1>9. MarksOK'
  <2>1. mark' = mark /\ entry' \subseteq entry \cup {s} /\ (signal # "BUY" => entry' = entry)
    BY DEF Track
  <2>2. \A u \in entry' : row'[u].exit \notin {"NONE", "MISSED"}
    BY <1>0, <1>2, <1>6, <1>7, <1>8, <2>1 DEF MarksOK
  <2> QED  BY <1>0, <1>6, <1>8, <2>1, <2>2 DEF MarksOK
<1>10. ChainOK'
  BY <1>0 DEF Track, ChainOK, HostOK, Stamp
<1> QED  BY <1>4, <1>5, <1>9, <1>10, TrackedParts, PTL

\* Everything a pass does, for one signal.
LEMMA PassOf ==
  ASSUME Tracked, NEW lag \in Lags, NEW healthy \in BOOLEAN, NEW answers \in BOOLEAN,
         Evaluate(lag, healthy, answers), NEW s \in Signals
  PROVE  /\ clock - lag \in Int /\ PassedBy(s, clock - lag)
         /\ s \notin Unexited => mark'[s] = mark[s]
         /\ s \in Unexited =>
              /\ mark'[s] \in MarkType
              /\ mark'[s] # NoMark => Tells(mark'[s], row'[s])
<1>0. HostOK /\ FeedOK /\ RowsFine /\ MarksOK /\ ChainOK
  BY TrackedParts
<1>1. clock - lag \in Int
  BY <1>0, OutcomeAssumption DEF HostOK
<1>2. PassedBy(s, clock - lag)
  BY <1>1, PassRow DEF Evaluate
<1>3. mark'[s] = IF s \in Unexited
                 THEN ExitMark(row'[s], clock - lag, Looked(s, answers)) ELSE mark[s]
  BY DEF Evaluate
<1>4. Looked(s, answers) \in Stamp
  BY <1>0 DEF Looked, ChainOK, HostOK, Stamp
<1>5. ASSUME s \in Unexited
      PROVE  mark'[s] \in MarkType /\ (mark'[s] # NoMark => Tells(mark'[s], row'[s]))
  <2>1. RowOK(row'[s]) /\ row'[s].exit \notin {"NONE", "MISSED"}
    BY <1>0, <1>1, <1>2, <1>5, PassKeepsRow DEF Unexited, MarksOK
  <2> QED  BY <1>1, <1>3, <1>4, <1>5, <2>1, ExitMarkTells
<1> QED  BY <1>1, <1>2, <1>3, <1>5

LEMMA EvaluateTyped ==
  ASSUME Tracked, NEW lag \in Lags, NEW healthy \in BOOLEAN, NEW answers \in BOOLEAN,
         Evaluate(lag, healthy, answers)
  PROVE  Tracked'
<1>0. HostOK /\ FeedOK /\ RowsFine /\ MarksOK /\ ChainOK
  BY TrackedParts
<1>1. HostOK' /\ FeedOK'
  BY <1>0 DEF Evaluate, HostOK, FeedOK, Published
<1>2. \A s \in Signals :
        /\ RowOK(row'[s])
        /\ row'[s].exit \in {"NONE", "MISSED"} <=> row[s].exit \in {"NONE", "MISSED"}
        /\ row[s].exit # "OPEN" => row'[s] = row[s]
  BY PassOf, PassKeepsRow
<1>3. RowsFine'
  <2>1. row' = [s \in Signals |-> row'[s]]
    BY DEF Evaluate
  <2>2. \A s \in Signals : row'[s] \in RowType
    BY <1>2 DEF RowOK
  <2> QED  BY <1>2, <2>1, <2>2 DEF RowsFine, RowOK
<1>4. MarksOK'
  <2>1. mark' = [s \in Signals |-> mark'[s]] /\ entry' = entry
    BY DEF Evaluate
  <2>2. \A s \in Signals :
          mark'[s] \in MarkType
          /\ (mark'[s] # NoMark => row'[s].exit \in Results \cup {"DATA_GAP"})
    <3> TAKE s \in Signals
    <3>1. CASE s \in Unexited
      BY <3>1, PassOf DEF Tells
    <3>2. CASE s \notin Unexited
      <4>1. mark'[s] = mark[s]
        BY <3>2, PassOf
      <4> QED  BY <1>0, <1>2, <4>1 DEF MarksOK, Results
    <3> QED  BY <3>1, <3>2
  <2>3. \A s \in entry' : row'[s].exit \notin {"NONE", "MISSED"}
    BY <1>0, <1>2, <2>1 DEF MarksOK
  <2>4. mark' \in [Signals -> MarkType]
    BY <2>1, <2>2
  <2> QED  BY <1>0, <2>1, <2>2, <2>3, <2>4 DEF MarksOK
<1>5. ChainOK'
  BY <1>0 DEF Evaluate, ChainOK, HostOK, Stamp
<1> QED  BY <1>1, <1>3, <1>4, <1>5, TrackedParts, PTL

LEMMA PublishTyped ==
  ASSUME Tracked, NEW m \in Minutes, Publish(m)
  PROVE  Tracked' /\ Published' = Published \cup {m}
         /\ \A k \in Published : candles'[k] = candles[k]
<1>0. HostOK /\ FeedOK /\ RowsFine /\ MarksOK /\ ChainOK
  BY TrackedParts
<1>1. PICK move \in Moves :
        candles' = [k \in Published \cup {m} |-> IF k = m THEN move ELSE candles[k]]
  BY DEF Publish
<1>2. Published' = Published \cup {m}
  BY <1>1 DEF Published
<1>3. FeedOK'
  BY <1>0, <1>1, <1>2 DEF Publish, FeedOK
<1>4. HostOK' /\ RowsFine' /\ MarksOK' /\ ChainOK'
  BY <1>0 DEF Publish, HostOK, RowsFine, MarksOK, ChainOK, RowOK
<1>5. \A k \in Published : candles'[k] = candles[k]
  BY <1>1 DEF Publish
<1> QED  BY <1>2, <1>3, <1>4, <1>5, TrackedParts, PTL

\* A request of the chain, a tick and a stutter leave rows, marks and candles alone.
Quiet == UNCHANGED <<candles, backfilled, row, entry, mark>>

LEMMA QuietTyped ==
  ASSUME Tracked, (\E s \in Signals : RequestChain(s)) \/ Tick \/ UNCHANGED vars
  PROVE  Tracked' /\ Quiet
<1>0. HostOK /\ FeedOK /\ RowsFine /\ MarksOK /\ ChainOK
  BY TrackedParts
<1>1. Quiet
  BY DEF RequestChain, Tick, vars, Quiet
<1>2. HostOK'
  BY <1>0, OutcomeAssumption DEF RequestChain, Tick, vars, HostOK
<1>3. FeedOK' /\ RowsFine' /\ MarksOK'
  BY <1>0, <1>1 DEF Quiet, FeedOK, RowsFine, MarksOK, RowOK, Published
<1>4. ChainOK'
  BY <1>0 DEF RequestChain, Tick, vars, ChainOK, HostOK, Stamp
<1> QED  BY <1>1, <1>2, <1>3, <1>4, TrackedParts, PTL

LEMMA NextTracked == Tracked /\ [Next]_vars => Tracked'
  BY TrackTyped, EvaluateTyped, PublishTyped, QuietTyped DEF Next

\* Rows, marks, candles and chains keep their types for every number of signals;
\* a row has an exit instant exactly when it has a result.
THEOREM TypeCorrect == Spec => []TypeOK
<1>1. Tracked => TypeOK
  BY DEF Tracked
<1> QED  BY InitTracked, NextTracked, <1>1, PTL DEF Spec
-----------------------------------------------------------------------------
(* One ENTRY mark a day, and what an EXIT mark says *)

LEMMA InitEntry == Init => OneEntryPerDay /\ MarkTellsOutcome
  BY DEF Init, OneEntryPerDay, MarkTellsOutcome, NoRow

LEMMA TrackEntry ==
  ASSUME Tracked, OneEntryPerDay, NEW s \in Signals, NEW signal \in {"BUY", "MISSED"},
         NEW lag \in Lags, Track(s, signal, lag)
  PROVE  OneEntryPerDay'
<1>0. RowsFine /\ MarksOK
  BY TrackedParts
<1> DEFINE trigger == clock - lag
<1>1. \A u \in Signals : u # s => row'[u] = row[u]
  BY <1>0 DEF Track, RowsFine
<1>2. row'[s] = NewRow(signal, trigger) /\ s \notin entry /\ entry \subseteq Signals
  BY <1>0 DEF Track, RowsFine, MarksOK, NoRow
<1>3. \A u \in Signals : u # s => Day(u)' = Day(u)
  BY <1>1 DEF Day, DayOf, Minute
<1>4. Day(s)' = DayOf(Minute(trigger))
  BY <1>2 DEF Day, DayOf, Minute, NewRow
<1>5. CASE signal = "BUY" /\ FirstOfDay(DayOf(Minute(trigger)))
  <2>1. entry' = entry \cup {s}
    BY <1>5 DEF Track
  <2>2. \A u \in entry : Day(u)' # Day(s)'
    BY <1>2, <1>3, <1>4, <1>5 DEF FirstOfDay
  <2> QED  BY <1>1, <1>2, <1>3, <2>1, <2>2 DEF OneEntryPerDay
<1>6. CASE ~ (signal = "BUY" /\ FirstOfDay(DayOf(Minute(trigger))))
  <2>1. entry' = entry
    BY <1>6 DEF Track
  <2>2. signal = "BUY" => \E u \in entry' : Day(u)' = Day(s)'
    BY <1>2, <1>3, <1>4, <1>6, <2>1 DEF FirstOfDay
  <2>3. signal # "BUY" => row'[s].exit = "MISSED"
    BY <1>2 DEF NewRow
  <2>4. \A u \in Signals : row'[u].exit \notin {"NONE", "MISSED"}
          => \E v \in entry' : Day(v)' = Day(u)'
    <3> SUFFICES ASSUME NEW u \in Signals, row'[u].exit \notin {"NONE", "MISSED"}
                 PROVE  \E v \in entry' : Day(v)' = Day(u)'
      OBVIOUS
    <3>1. CASE u = s
      BY <2>2, <2>3, <3>1
    <3>2. CASE u # s
      <4>1. PICK v \in entry : Day(v) = Day(u)
        BY <1>1, <3>2 DEF OneEntryPerDay
      <4>2. Day(v)' = Day(v) /\ Day(u)' = Day(u)
        BY <1>2, <1>3, <3>2
      <4> QED  BY <2>1, <4>1, <4>2
    <3> QED  BY <3>1, <3>2
  <2>5. \A u, v \in entry' : Day(u)' = Day(v)' => u = v
    BY <1>2, <1>3, <2>1 DEF OneEntryPerDay
  <2> QED  BY <2>4, <2>5 DEF OneEntryPerDay
<1> QED  BY <1>5, <1>6

LEMMA TrackTells ==
  ASSUME Tracked, MarkTellsOutcome, NEW s \in Signals, NEW signal \in {"BUY", "MISSED"},
         NEW lag \in Lags, Track(s, signal, lag)
  PROVE  MarkTellsOutcome'
<1>0. RowsFine /\ MarksOK
  BY TrackedParts
<1>1. \A u \in Signals : u # s => row'[u] = row[u]
  BY <1>0 DEF Track, RowsFine
<1>2. mark' = mark /\ entry \subseteq entry' /\ mark[s] = NoMark
  BY <1>0 DEF Track, MarksOK, NoRow, Results
<1> QED  BY <1>1, <1>2 DEF MarkTellsOutcome

LEMMA EvaluateEntry ==
  ASSUME Tracked, OneEntryPerDay, MarkTellsOutcome, NEW lag \in Lags, NEW healthy \in BOOLEAN,
         NEW answers \in BOOLEAN, Evaluate(lag, healthy, answers)
  PROVE  OneEntryPerDay' /\ MarkTellsOutcome'
<1>0. RowsFine /\ MarksOK
  BY TrackedParts
<1>1. \A s \in Signals :
        /\ row'[s].trigger = row[s].trigger
        /\ row'[s].exit \in {"NONE", "MISSED"} <=> row[s].exit \in {"NONE", "MISSED"}
        /\ row[s].exit # "OPEN" => row'[s] = row[s]
  BY PassOf, PassKeepsRow
<1>2. entry' = entry /\ entry \subseteq Signals
  BY <1>0 DEF Evaluate, MarksOK
<1>3. \A s \in Signals : Day(s)' = Day(s)
  BY <1>1 DEF Day, DayOf, Minute
<1>4. OneEntryPerDay'
  <2>1. \A s, u \in entry' : Day(s)' = Day(u)' => s = u
    BY <1>2, <1>3 DEF OneEntryPerDay
  <2>2. \A s \in Signals : row'[s].exit \notin {"NONE", "MISSED"}
          => \E u \in entry' : Day(u)' = Day(s)'
    <3> SUFFICES ASSUME NEW s \in Signals, row'[s].exit \notin {"NONE", "MISSED"}
                 PROVE  \E u \in entry' : Day(u)' = Day(s)'
      OBVIOUS
    <3>1. PICK u \in entry : Day(u) = Day(s)
      BY <1>1 DEF OneEntryPerDay
    <3> QED  BY <1>2, <1>3, <3>1
  <2> QED  BY <2>1, <2>2 DEF OneEntryPerDay
<1>5. MarkTellsOutcome'
  <2> SUFFICES ASSUME NEW s \in Signals, mark'[s] # NoMark
               PROVE  s \in entry' /\ Tells(mark'[s], row'[s])
    BY DEF MarkTellsOutcome, Tells
  <2>1. CASE s \in Unexited
    BY <1>2, <2>1, PassOf DEF Unexited
  <2>2. CASE s \notin Unexited
    <3>1. mark'[s] = mark[s]
      BY <2>2, PassOf
    <3>2. row[s].exit \in Results \cup {"DATA_GAP"}
      BY <1>0, <3>1 DEF MarksOK
    <3>3. row'[s] = row[s]
      BY <1>1, <3>2 DEF Results
    <3> QED  BY <1>2, <3>1, <3>2, <3>3 DEF MarkTellsOutcome, Tells
  <2> QED  BY <2>1, <2>2
<1> QED  BY <1>4, <1>5

EntryInv == OneEntryPerDay /\ MarkTellsOutcome

LEMMA NextEntry == Tracked /\ EntryInv /\ [Next]_vars => EntryInv'
<1> SUFFICES ASSUME Tracked, EntryInv, [Next]_vars PROVE EntryInv'
  OBVIOUS
<1>1. CASE \E s \in Signals, signal \in {"BUY", "MISSED"}, lag \in Lags : Track(s, signal, lag)
  BY <1>1, TrackEntry, TrackTells DEF EntryInv
<1>2. CASE \E lag \in Lags, healthy, answers \in BOOLEAN : Evaluate(lag, healthy, answers)
  BY <1>2, EvaluateEntry DEF EntryInv
<1>3. CASE UNCHANGED <<row, entry, mark>>
  BY <1>3 DEF EntryInv, OneEntryPerDay, MarkTellsOutcome, Day, DayOf, Minute
<1>4. CASE \E m \in Minutes : Publish(m)
  BY <1>3, <1>4 DEF Publish
<1>5. CASE (\E s \in Signals : RequestChain(s)) \/ Tick \/ UNCHANGED vars
  BY <1>3, <1>5, QuietTyped DEF Quiet
<1> QED  BY <1>1, <1>2, <1>4, <1>5 DEF Next

\* However many strategies buy the ticker, one signal a day carries the
\* automated option position, and a day with a BUY has one.
THEOREM EntryIsUnique == Spec => []OneEntryPerDay
<1>1. EntryInv => OneEntryPerDay
  BY DEF EntryInv
<1>2. Init => EntryInv
  BY InitEntry DEF EntryInv
<1> QED  BY InitTracked, NextTracked, <1>1, <1>2, NextEntry, PTL DEF Spec

\* An EXIT mark never contradicts its signal's outcome, and its bid was received
\* within the window after the exit, for every window, lag and cache.
THEOREM MarksTell == Spec => []MarkTellsOutcome
<1>1. EntryInv => MarkTellsOutcome
  BY DEF EntryInv
<1>2. Init => EntryInv
  BY InitEntry DEF EntryInv
<1> QED  BY InitTracked, NextTracked, <1>1, <1>2, NextEntry, PTL DEF Spec

\* No later candle and no later pass changes an outcome or a mark.
THEOREM OutcomesAreFinal == Spec => OutcomeFinal
<1> DEFINE Kept == \A s \in Signals :
       /\ row[s].exit \notin {"NONE", "OPEN"} => row'[s] = row[s]
       /\ mark[s] # NoMark => mark'[s] = mark[s]
       /\ s \in entry => s \in entry'
<1>1. Tracked /\ [Next]_vars => [Kept]_vars
  <2> SUFFICES ASSUME Tracked, [Next]_vars, NEW s \in Signals
               PROVE  /\ row[s].exit \notin {"NONE", "OPEN"} => row'[s] = row[s]
                      /\ mark[s] # NoMark => mark'[s] = mark[s]
                      /\ s \in entry => s \in entry'
    OBVIOUS
  <2>0. RowsFine
    BY TrackedParts
  <2>1. CASE \E u \in Signals, signal \in {"BUY", "MISSED"}, lag \in Lags : Track(u, signal, lag)
    BY <2>0, <2>1 DEF Track, NoRow, RowsFine
  <2>2. CASE \E lag \in Lags, healthy, answers \in BOOLEAN : Evaluate(lag, healthy, answers)
    <3>1. PICK lag \in Lags, healthy \in BOOLEAN, answers \in BOOLEAN :
            Evaluate(lag, healthy, answers)
      BY <2>2
    <3>2. row[s].exit # "OPEN" => row'[s] = row[s]
      BY <3>1, PassOf, PassKeepsRow
    <3>3. mark[s] # NoMark => mark'[s] = mark[s]
      BY <3>1, PassOf DEF Unexited
    <3> QED  BY <3>1, <3>2, <3>3 DEF Evaluate
  <2>3. CASE \E m \in Minutes : Publish(m)
    BY <2>3 DEF Publish
  <2>4. CASE (\E u \in Signals : RequestChain(u)) \/ Tick \/ UNCHANGED vars
    BY <2>4, QuietTyped DEF Quiet
  <2> QED  BY <2>1, <2>2, <2>3, <2>4 DEF Next
<1> QED  BY InitTracked, NextTracked, <1>1, PTL DEF Spec, OutcomeFinal
-----------------------------------------------------------------------------
(* The first touch *)

\* Where the walk of an open row stands: at its trigger, or at a candle of its
\* day that did not end it.
CursorOnCandle(s) ==
  \/ row[s].cursor = row[s].trigger
  \/ \E p \in Published :
       Start(p) = row[s].cursor /\ DayOf(p) = Day(s) /\ Outcome(s, p) = "OPEN"

\* Every candle of the day between trigger and cursor that was not back-filled
\* left the signal open.
NothingSkipped(s) ==
  \A m \in Published \ backfilled :
    Start(m) > row[s].trigger /\ Start(m) <= row[s].cursor /\ DayOf(m) = Day(s)
      => Outcome(s, m) = "OPEN"

\* OutcomeIsFirstTouch for one row.
FirstTouch(s) ==
  row[s].exit \in Results =>
    LET end == Minute(row[s].at) IN
    /\ end \in Published /\ DayOf(end) = Day(s) /\ row[s].exit = Outcome(s, end)
    /\ \A m \in Published \ backfilled :
         Start(m) > row[s].trigger /\ m < end /\ DayOf(m) = Day(s)
           => Outcome(s, m) = "OPEN"

WalkInv ==
  \A s \in Signals :
    /\ row[s].exit = "OPEN" => CursorOnCandle(s) /\ NothingSkipped(s)
    /\ FirstTouch(s)

LEMMA CutoffEnds ==
  ASSUME Tracked, NEW s \in Signals, NEW m \in Published, AtCutoff(m)
  PROVE  Outcome(s, m) # "OPEN"
<1>1. candles[m][s].kind \in Kinds
  BY OutcomeAssumption DEF Tracked, TypeOK, Move
<1> QED  BY <1>1 DEF Outcome, Kinds

LEMMA LaterAtCutoff ==
  ASSUME NEW m \in Nat, NEW p \in Nat, m <= p, DayOf(m) = DayOf(p), AtCutoff(m)
  PROVE  AtCutoff(p)
<1>1. DayOf(m) * DayMinutes \in Int /\ Cutoff \in Int
  BY Ticks, OutcomeAssumption
<1> QED  BY <1>1 DEF AtCutoff, OfDay

LEMMA PublishedNat == Tracked => Published \subseteq Nat
  BY MinutesNat DEF Tracked, TypeOK

LEMMA InitWalk == Init => WalkInv
  BY DEF Init, WalkInv, FirstTouch, NoRow, Results

LEMMA TrackWalk ==
  ASSUME Tracked, WalkInv, NEW s \in Signals, NEW signal \in {"BUY", "MISSED"},
         NEW lag \in Lags, Track(s, signal, lag)
  PROVE  WalkInv'
<1>0. RowsFine /\ HostOK
  BY TrackedParts
<1> DEFINE trigger == clock - lag
<1>1. trigger \in Nat
  BY <1>0, OutcomeAssumption DEF Track, HostOK
<1>2. row'[s] = NewRow(signal, trigger) /\ \A u \in Signals : u # s => row'[u] = row[u]
  BY <1>0 DEF Track, RowsFine
<1>3. Published' = Published /\ candles' = candles /\ backfilled' = backfilled
  BY DEF Track, Published
<1>4. \A u \in Signals, k \in Published : Outcome(u, k)' = Outcome(u, k)
  BY <1>3 DEF Outcome
<1>5. ASSUME NEW u \in Signals, u # s
      PROVE  /\ row'[u].exit = "OPEN" => CursorOnCandle(u)' /\ NothingSkipped(u)'
             /\ FirstTouch(u)'
  <2>1. row'[u] = row[u] /\ Day(u)' = Day(u)
    BY <1>2, <1>5 DEF Day
  <2> QED
    BY <1>3, <1>4, <2>1 DEF WalkInv, CursorOnCandle, NothingSkipped, FirstTouch
<1>6. /\ row'[s].exit = "OPEN" => CursorOnCandle(s)' /\ NothingSkipped(s)'
      /\ FirstTouch(s)'
  <2>1. row'[s].cursor = trigger /\ row'[s].trigger = trigger /\ row'[s].exit \notin Results
    BY <1>2 DEF NewRow, Results
  <2>2. \A m \in Published : Start(m) \in Nat
    BY PublishedNat, Ticks
  <2>3. NothingSkipped(s)'
    BY <1>1, <1>3, <2>1, <2>2 DEF NothingSkipped
  <2> QED  BY <2>1, <2>3 DEF CursorOnCandle, FirstTouch
<1> QED  BY <1>5, <1>6 DEF WalkInv

LEMMA EvaluateWalk ==
  ASSUME Tracked, WalkInv, NEW lag \in Lags, NEW healthy \in BOOLEAN, NEW answers \in BOOLEAN,
         Evaluate(lag, healthy, answers)
  PROVE  WalkInv'
<1> DEFINE latest == clock - lag
<1> SUFFICES ASSUME NEW s \in Signals
             PROVE  /\ row'[s].exit = "OPEN" => CursorOnCandle(s)' /\ NothingSkipped(s)'
                    /\ FirstTouch(s)'
  BY DEF WalkInv
<1>0. RowOK(row[s]) /\ RowOK(row'[s]) /\ latest \in Int /\ PassedBy(s, latest)
  BY RowsOK, PassOf, PassKeepsRow
<1>1. Published' = Published /\ candles' = candles /\ backfilled' = backfilled
  BY DEF Evaluate, Published
<1>2. \A k \in Published : Outcome(s, k)' = Outcome(s, k)
  BY <1>1 DEF Outcome
<1>3. row'[s].trigger = row[s].trigger /\ Day(s)' = Day(s)
  <2>1. row'[s].trigger = row[s].trigger
    BY <1>0, PassKeepsRow
  <2> QED  BY <2>1 DEF Day
<1>4. Published \subseteq Nat /\ \A m \in Published : Start(m) \in Nat
  BY PublishedNat, Ticks
<1>5. CASE LeftAlone(s)
  <2>1. row'[s] = row[s]
    BY <1>5 DEF LeftAlone
  <2> QED
    BY <1>1, <1>2, <1>3, <2>1 DEF WalkInv, CursorOnCandle, NothingSkipped, FirstTouch
<1>6. ASSUME NEW m \in Published, EndedAt(s, m, latest)
      PROVE  row'[s].exit \in Results /\ FirstTouch(s)'
  <2>1. /\ row[s].exit = "OPEN" /\ row[s].cursor \in Nat /\ m \in Ends(s, latest)
        /\ \A k \in Ends(s, latest) : m <= k
        /\ row'[s].at = Start(m) /\ row'[s].exit = Outcome(s, m)
    BY <1>0, <1>6 DEF EndedAt, RowOK, RowType
  <2>2. row'[s].exit \in Results
    BY <2>1, OutcomeType DEF Ends
  <2>3. Minute(row'[s].at) = m
    BY <1>4, <2>1, Ticks
  <2>4. DayOf(m) = Day(s) /\ Start(m) <= latest - MinuteTicks
    BY <2>1 DEF Ends, Unseen
  <2>5. ASSUME NEW k \in Published \ backfilled, Start(k) > row[s].trigger, k < m,
               DayOf(k) = Day(s)
        PROVE  Outcome(s, k) = "OPEN"
    <3>1. CASE Start(k) <= row[s].cursor
      BY <2>1, <2>5, <3>1 DEF WalkInv, NothingSkipped
    <3>2. CASE Start(k) > row[s].cursor
      <4>1. Start(k) < Start(m)
        BY <1>4, <2>5, StartsGrow
      <4>2. k \in Unseen(s, latest)
        BY <1>0, <1>4, <2>4, <2>5, <3>2, <4>1, OutcomeAssumption DEF Unseen
      <4>3. k \notin Ends(s, latest)
        BY <1>4, <2>1, <2>5
      <4> QED  BY <4>2, <4>3 DEF Ends
    <3> QED  BY <1>4, <2>1, <3>1, <3>2
  <2>6. FirstTouch(s)'
    BY <1>1, <1>2, <1>3, <2>1, <2>3, <2>4, <2>5 DEF FirstTouch
  <2> QED  BY <2>2, <2>6
<1>7. ASSUME NEW c \in Nat, GaveUp(s, c, latest)
      PROVE  row'[s].exit = "DATA_GAP"
  BY <1>0, <1>7 DEF GaveUp, RowOK, RowType
<1>8. ASSUME NEW c \in Nat, WalkedOn(s, c, latest)
      PROVE  row'[s].exit = "OPEN" /\ CursorOnCandle(s)' /\ NothingSkipped(s)'
  <2>1. /\ row[s].exit = "OPEN" /\ row[s].cursor \in Nat /\ Ends(s, latest) = {}
        /\ row'[s].exit = "OPEN" /\ row'[s].cursor = c
        /\ c = row[s].cursor \/ \E k \in Unseen(s, latest) : c = Start(k)
        /\ \A k \in Unseen(s, latest) : Start(k) <= c
    BY <1>0, <1>8 DEF WalkedOn, MovedTo, RowOK, RowType
  <2>2. \A k \in Unseen(s, latest) :
          k \in Published /\ DayOf(k) = Day(s) /\ Outcome(s, k) = "OPEN"
    BY <2>1 DEF Ends, Unseen
  <2>3. CursorOnCandle(s)'
    <3>1. CASE c = row[s].cursor
      BY <1>1, <1>2, <1>3, <2>1, <3>1 DEF WalkInv, CursorOnCandle
    <3>2. CASE \E k \in Unseen(s, latest) : c = Start(k)
      BY <1>1, <1>2, <1>3, <2>1, <2>2, <3>2 DEF CursorOnCandle
    <3> QED  BY <2>1, <3>1, <3>2
  <2>4. ASSUME NEW m \in Published \ backfilled, Start(m) > row[s].trigger, Start(m) <= c,
               DayOf(m) = Day(s)
        PROVE  Outcome(s, m) = "OPEN"
    <3>1. CASE Start(m) <= row[s].cursor
      BY <2>1, <2>4, <3>1 DEF WalkInv, NothingSkipped
    <3>2. CASE Start(m) > row[s].cursor
      <4>1. PICK k \in Unseen(s, latest) : c = Start(k)
        BY <1>4, <2>1, <2>4, <3>2
      <4>2. Start(m) <= latest - MinuteTicks
        <5>1. Start(k) <= latest - MinuteTicks /\ k \in Published
          BY DEF Unseen
        <5> QED  BY <1>0, <1>4, <2>4, <4>1, <5>1, OutcomeAssumption
      <4>3. m \in Unseen(s, latest)
        BY <2>4, <3>2, <4>2 DEF Unseen
      <4> QED  BY <2>2, <4>3
    <3> QED  BY <1>4, <2>1, <3>1, <3>2
  <2>5. NothingSkipped(s)'
    BY <1>1, <1>2, <1>3, <2>1, <2>4 DEF NothingSkipped
  <2> QED  BY <2>1, <2>3, <2>5
<1> QED  BY <1>0, <1>5, <1>6, <1>7, <1>8 DEF PassedBy, FirstTouch, Results

\* A new candle that is not back-filled lies after every cursor and every end.
LEMMA PublishWalk ==
  ASSUME Tracked, WalkInv, NEW m \in Minutes, Publish(m)
  PROVE  WalkInv'
<1> SUFFICES ASSUME NEW s \in Signals
             PROVE  /\ row'[s].exit = "OPEN" => CursorOnCandle(s)' /\ NothingSkipped(s)'
                    /\ FirstTouch(s)'
  BY DEF WalkInv
<1>1. /\ Published' = Published \cup {m} /\ m \notin Published /\ row' = row
      /\ \A k \in Published : candles'[k] = candles[k]
  BY PublishTyped DEF Publish
<1>2. \A k \in Published : Outcome(s, k)' = Outcome(s, k)
  BY <1>1 DEF Outcome
<1>3. Day(s)' = Day(s) /\ Published \subseteq Nat /\ m \in Nat
  BY <1>1, PublishedNat, MinutesNat DEF Day
<1>4. \A k \in Published' \ backfilled' : k \in Published \ backfilled \/ k = m
  BY <1>1 DEF Publish
<1>5. m \notin backfilled' => \A k \in Published : k < m
  <2> SUFFICES ASSUME m \notin backfilled', NEW k \in Published
               PROVE  k < m
    OBVIOUS
  <2>1. ~ (k > m)
    BY DEF Publish
  <2>2. m \notin Published
    BY <1>1
  <2>3. k # m
    BY <2>2
  <2>4. k \in Nat /\ m \in Nat
    BY <1>3
  <2> HIDE DEF Published
  <2> QED  BY ONLY <2>1, <2>3, <2>4
<1>6. FirstTouch(s)'
  <2>1. CASE row[s].exit \in Results
    <3> DEFINE end == Minute(row[s].at)
    <3>1. /\ end \in Published /\ DayOf(end) = Day(s) /\ row[s].exit = Outcome(s, end)
          /\ \A k \in Published \ backfilled :
               Start(k) > row[s].trigger /\ k < end /\ DayOf(k) = Day(s)
                 => Outcome(s, k) = "OPEN"
      BY <2>1 DEF WalkInv, FirstTouch
    <3>2. ASSUME m \notin backfilled' PROVE ~ (m < end)
      <4> HIDE DEF end
      <4>1. end \in Nat /\ end < m
        BY <1>3, <1>5, <3>1, <3>2
      <4> QED  BY <1>3, <4>1
    <3> QED  BY <1>1, <1>2, <1>3, <1>4, <3>1, <3>2 DEF FirstTouch
  <2>2. CASE row[s].exit \notin Results
    BY <1>1, <2>2 DEF FirstTouch
  <2> QED  BY <2>1, <2>2
<1>7. ASSUME row[s].exit = "OPEN"
      PROVE  CursorOnCandle(s)' /\ NothingSkipped(s)'
  <2>1. CursorOnCandle(s) /\ NothingSkipped(s)
    BY <1>7 DEF WalkInv
  <2>2. CursorOnCandle(s)'
    BY <1>1, <1>2, <1>3, <2>1 DEF CursorOnCandle
  <2>3. ASSUME m \notin backfilled', Start(m) > row[s].trigger
        PROVE  ~ (Start(m) <= row[s].cursor)
    <3>1. row[s].trigger \in Nat /\ row[s].cursor \in Nat /\ Start(m) \in Nat
      BY <1>3, <1>7, RowsOK, Ticks DEF RowOK
    <3>2. CASE row[s].cursor = row[s].trigger
      BY <2>3, <3>1, <3>2
    <3>3. CASE \E p \in Published : Start(p) = row[s].cursor
      <4>1. PICK p \in Published : Start(p) = row[s].cursor
        BY <3>3
      <4>2. Start(p) < Start(m)
        BY <1>3, <1>5, <2>3, StartsGrow
      <4> QED  BY <3>1, <4>1, <4>2
    <3> QED  BY <2>1, <3>2, <3>3 DEF CursorOnCandle
  <2>4. NothingSkipped(s)'
    BY <1>1, <1>2, <1>3, <1>4, <2>1, <2>3 DEF NothingSkipped
  <2> QED  BY <2>2, <2>4
<1> QED  BY <1>1, <1>6, <1>7

LEMMA NextWalk == Tracked /\ WalkInv /\ [Next]_vars => WalkInv'
<1> SUFFICES ASSUME Tracked, WalkInv, [Next]_vars PROVE WalkInv'
  OBVIOUS
<1>1. CASE (\E s \in Signals : RequestChain(s)) \/ Tick \/ UNCHANGED vars
  <2>1. Quiet
    BY <1>1, QuietTyped
  <2>2. Published' = Published /\ backfilled' = backfilled /\ row' = row
        /\ \A s \in Signals, k \in Published : Outcome(s, k)' = Outcome(s, k)
    BY <2>1 DEF Quiet, Published, Outcome
  <2>3. \A s \in Signals : Day(s)' = Day(s)
    BY <2>2 DEF Day
  <2> QED  BY <2>2, <2>3 DEF WalkInv, CursorOnCandle, NothingSkipped, FirstTouch
<1> QED  BY <1>1, TrackWalk, EvaluateWalk, PublishWalk DEF Next

\* The result of a signal is that of the first candle of its day that ends it,
\* for any lags, failures and order of publication; only back-filled candles
\* may have been missed.
THEOREM FirstTouchWins == Spec => []OutcomeIsFirstTouch
<1>1. WalkInv => OutcomeIsFirstTouch
  BY DEF WalkInv, FirstTouch, OutcomeIsFirstTouch
<1> QED  BY InitTracked, NextTracked, InitWalk, NextWalk, <1>1, PTL DEF Spec

\* A data gap is declared only if no candle at or after the cutoff was published
\* and complete by every stamp, back-filled ones included.
THEOREM GapsAreGaps == Spec => GapMeansNoCutoff
<1> DEFINE Late(s, m) == /\ DayOf(m) = Day(s) /\ AtCutoff(m)
                         /\ \A lag \in Lags : Start(m + 1) <= clock - lag
           Sound == \A s \in Signals : row[s].exit = "OPEN" /\ row'[s].exit = "DATA_GAP" =>
                      \A m \in Published : Late(s, m) => Start(m) <= row[s].trigger
<1>1. ASSUME Tracked, WalkInv, [Next]_vars, NEW s \in Signals, row[s].exit = "OPEN",
             row'[s].exit = "DATA_GAP", NEW m \in Published, Late(s, m)
      PROVE  Start(m) <= row[s].trigger
  <2>0. RowsFine
    BY <1>1, TrackedParts
  <2>1. PICK lag \in Lags, healthy \in BOOLEAN, answers \in BOOLEAN :
          Evaluate(lag, healthy, answers)
    <3>1. ~ \E u \in Signals, signal \in {"BUY", "MISSED"}, lag \in Lags : Track(u, signal, lag)
      BY <1>1, <2>0 DEF Track, NewRow, RowsFine
    <3>2. ~ (\E k \in Minutes : Publish(k))
      BY <1>1 DEF Publish
    <3>3. ~ ((\E u \in Signals : RequestChain(u)) \/ Tick \/ UNCHANGED vars)
      BY <1>1, QuietTyped DEF Quiet
    <3> QED  BY <1>1, <3>1, <3>2, <3>3 DEF Next
  <2> DEFINE latest == clock - lag
  <2>2. PassedBy(s, latest) /\ latest \in Int /\ RowOK(row[s])
    BY <1>1, <2>1, PassOf, RowsOK
  <2>3. PICK c \in Nat : GaveUp(s, c, latest)
    <3>1. ~ LeftAlone(s)
      BY <1>1 DEF LeftAlone
    <3>2. ASSUME NEW k \in Published, EndedAt(s, k, latest) PROVE FALSE
      <4>1. row'[s].exit = Outcome(s, k)
        BY <2>2, <3>2 DEF EndedAt, RowOK, RowType
      <4> QED  BY <1>1, <4>1, OutcomeType DEF Results
    <3>3. ASSUME NEW k \in Nat, WalkedOn(s, k, latest) PROVE FALSE
      BY <1>1, <2>2, <3>3 DEF WalkedOn, RowOK, RowType
    <3> QED  BY <2>2, <3>1, <3>2, <3>3 DEF PassedBy
  <2>4. Ends(s, latest) = {}
    BY <2>3 DEF GaveUp, MovedTo
  <2>5. m \in Nat /\ Start(m) \in Nat /\ Start(m) <= latest - MinuteTicks
    <3>1. m \in Nat /\ Start(m) \in Nat /\ Start(m + 1) = Start(m) + MinuteTicks
      BY <1>1, PublishedNat, Ticks
    <3>2. Start(m + 1) <= latest
      BY <1>1
    <3> QED  BY <2>2, <3>1, <3>2, OutcomeAssumption
  <2>6. row[s].trigger \in Nat /\ row[s].cursor \in Nat
    BY <1>1, <2>2 DEF RowOK
  <2>7. Start(m) <= row[s].cursor
    <3>1. m \notin Unseen(s, latest)
      BY <1>1, <2>4, CutoffEnds DEF Ends
    <3> QED  BY <1>1, <2>5, <2>6, <3>1 DEF Unseen
  <2>8. CASE row[s].cursor = row[s].trigger
    BY <2>7, <2>8
  <2>9. ASSUME NEW p \in Published, Start(p) = row[s].cursor, DayOf(p) = Day(s),
               Outcome(s, p) = "OPEN"
        PROVE  FALSE
    <3>1. p \in Nat /\ ~ (Start(p) < Start(m))
      BY <1>1, <2>5, <2>6, <2>7, <2>9, PublishedNat
    <3>2. m <= p
      BY <2>5, <3>1, StartsGrow
    <3>3. AtCutoff(p)
      BY <1>1, <2>5, <2>9, <3>1, <3>2, LaterAtCutoff
    <3> QED  BY <1>1, <2>9, <3>3, CutoffEnds
  <2> QED  BY <1>1, <2>8, <2>9 DEF WalkInv, CursorOnCandle
<1>2. Tracked /\ WalkInv /\ [Next]_vars => [Sound]_vars
  BY <1>1
<1> QED
  BY InitTracked, NextTracked, InitWalk, NextWalk, <1>2, PTL DEF Spec, GapMeansNoCutoff

\* MarksSound: record_option_entry and evaluate_open_signals write one entry a
\* day and an exit mark that is its signal's, for any number of signals.
THEOREM MarksAlwaysSound == Spec => []MarksSound
<1> QED
  BY EntryIsUnique, MarksTell, PTL DEF MarksSound

\* OutcomesSound: first touch, honest gap, written once, for any schedule of
\* the passes of evaluate_open_signals and any order of publication.
THEOREM OutcomesAlwaysSound == Spec => OutcomesSound
<1> QED
  BY FirstTouchWins, GapsAreGaps, OutcomesAreFinal, PTL DEF OutcomesSound
=============================================================================
