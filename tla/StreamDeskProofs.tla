---------------------------- MODULE StreamDeskProofs ----------------------------
(***************************************************************************)
(* What the request threads of the paper desk keep, and what the threads   *)
(* of the candle stream do: theorems for any number of threads, positions, *)
(* requests, days and stream generations.  The two modules share no state. *)
(***************************************************************************)
EXTENDS PaperDesk, CandleStream, FiniteSetTheorems, TLAPS

-----------------------------------------------------------------------------
(* PaperDesk *)

Verdicts == {"RUNNING", "COMPLETED", "PARTIAL", "FAILED"}

\* The values the handlers write into a copy are rows.
LEMMA NewRows ==
  ASSUME NEW c \in Row, NEW quote \in Quotes
  PROVE  Expired(c) \in Row /\ Closed(c, quote) \in Row /\ Marked(c, quote) \in Row
<1>1. quote \in [option : 1..3, under : 0..3]  BY DeskAssumption
<1>2. Expired(c) \in Row  BY DEF Expired, Row
<1>3. Closed(c, quote) \in Row  BY <1>1 DEF Closed, Row
<1>4. Marked(c, quote) \in Row  BY <1>1 DEF Marked, Row
<1> QED  BY <1>2, <1>3, <1>4

\* What a commit leaves of each column.
LEMMA MergedRow ==
  ASSUME NEW row \in Row, NEW c \in Row, NEW new \in Row
  PROVE  LET m == Merged(row, c, new) IN
         /\ m \in Row
         /\ m.contract = IF new.contract = c.contract THEN row.contract ELSE new.contract
         /\ m.status = IF new.status = c.status THEN row.status ELSE new.status
         /\ m.option = IF new.option = c.option THEN row.option ELSE new.option
         /\ m.under = IF new.under = c.under THEN row.under ELSE new.under
         /\ m.exitOption = IF new.exitOption = c.exitOption THEN row.exitOption ELSE new.exitOption
         /\ m.exitUnder = IF new.exitUnder = c.exitUnder THEN row.exitUnder ELSE new.exitUnder
         /\ m.expired = IF new.expired = c.expired THEN row.expired ELSE new.expired
         /\ m.freshness = IF new.freshness = c.freshness THEN row.freshness ELSE new.freshness
BY DEF Merged, Row

\* A step of one actor keeps every actor's job in place while rows are only added.
LEMMA JobsKept ==
  ASSUME DeskTypeOK, NEW ids, NEW runs, Ids \subseteq ids, DOMAIN backtests \subseteq runs,
         NEW a \in Actors, NEW job, IsJob(job, ids, runs), Does(a, job)
  PROVE  DOMAIN work' = Actors /\ \A b \in Actors : IsJob(work'[b], ids, runs)
<1>1. DOMAIN work' = Actors  BY DEF DeskTypeOK, Does
<1>2. ASSUME NEW b \in Actors PROVE IsJob(work'[b], ids, runs)
  <2>1. CASE b = a  BY <2>1 DEF DeskTypeOK, Does
  <2>2. CASE b # a
    <3>1. work'[b] = work[b] /\ IsJob(work[b], Ids, DOMAIN backtests)
      BY <2>2 DEF DeskTypeOK, Does
    <3> QED  BY <3>1 DEF IsJob
  <2> QED  BY <2>1, <2>2
<1> QED  BY <1>1, <1>2

\* A job on rows holds copies of existing rows.
LEMMA RowJob ==
  ASSUME DeskTypeOK, NEW a \in Actors, work[a].op \in RowWork
  PROVE  /\ work[a] = OnRows(work[a].op, work[a].copy, work[a].dated)
         /\ work[a].dated \in BOOLEAN /\ Copies(a) \subseteq Ids
         /\ work[a].copy \in [Copies(a) -> Row]
<1>1. IsJob(work[a], Ids, DOMAIN backtests)  BY DEF DeskTypeOK
<1>2. /\ work[a] # Idle /\ work[a] \notin [op : {"entry"}, contract : Contracts]
      /\ work[a] \notin [op : {"link", "enter"}, id : Ids]
      /\ work[a] \notin [op : {"watch"}, symbol : Symbols] /\ work[a] # [op |-> "submit"]
      /\ work[a] \notin [op : {"replay"}, run : DOMAIN backtests]
  BY DEF RowWork, Idle
<1>3. PICK dated \in BOOLEAN, loaded \in SUBSET Ids :
        /\ work[a] = OnRows(work[a].op, work[a].copy, dated)
        /\ work[a].copy \in [loaded -> Row]
  BY <1>1, <1>2 DEF IsJob
<1> QED  BY <1>3 DEF Copies, OnRows

\* What follows the work on one row is a job again.
LEMMA OnwardJob ==
  ASSUME DeskTypeOK, NEW a \in Actors, NEW i, Works(a, i)
  PROVE  /\ IsJob(Onward(a, i), Ids, DOMAIN backtests)
         /\ Onward(a, i) # work[a]
         /\ IsJob(OnRows(work[a].op, work[a].copy, TRUE), Ids, DOMAIN backtests)
<1>1. /\ work[a].op \in RowWork /\ i \in Copies(a)
      /\ work[a] = OnRows(work[a].op, work[a].copy, work[a].dated)
      /\ work[a].dated \in BOOLEAN /\ Copies(a) \subseteq Ids
      /\ work[a].copy \in [Copies(a) -> Row]
  BY RowJob DEF Works
<1> DEFINE left == [j \in Copies(a) \ {i} |-> work[a].copy[j]]
           w == OnRows(work[a].op, left, FALSE)
           d == OnRows(work[a].op, work[a].copy, TRUE)
<1>a. d.op \in RowWork /\ d = OnRows(d.op, d.copy, TRUE) /\ d.copy = work[a].copy
  BY <1>1 DEF OnRows
<1>3. IsJob(d, Ids, DOMAIN backtests)  BY <1>1, <1>a DEF IsJob
<1>4. Onward(a, i) \in {Idle, w}  BY DEF Onward
<1>5. left \in [Copies(a) \ {i} -> Row] /\ Copies(a) \ {i} \in SUBSET Ids  BY <1>1
<1>b. w.op \in RowWork /\ w = OnRows(w.op, w.copy, FALSE) /\ w.copy = left
  BY <1>1 DEF OnRows
<1> HIDE DEF w, d
<1>6. IsJob(w, Ids, DOMAIN backtests)  BY <1>b, <1>5 DEF IsJob
<1>7. IsJob(Idle, Ids, DOMAIN backtests)  BY DEF IsJob
<1>8. Idle # work[a]  BY <1>1 DEF Idle, RowWork
<1>9. w # work[a]
  <2>1. w.copy # work[a].copy  BY <1>1, <1>b DEF Copies
  <2> QED  BY <2>1
<1> QED  BY <1>3, <1>4, <1>6, <1>7, <1>8, <1>9 DEF d

-----------------------------------------------------------------------------
(* Type correctness *)

LEMMA InitType == DeskInit => DeskTypeOK
<1> SUFFICES ASSUME DeskInit PROVE DeskTypeOK  OBVIOUS
<1>1. Ids = {} /\ positions \in Seq(Row) /\ Len(positions) = 0  BY DEF DeskInit, Ids
<1>2. \A a \in Actors : IsJob(work[a], Ids, DOMAIN backtests)  BY DEF DeskInit, IsJob
<1>3. backtests \in Seq(Verdicts)  BY DEF DeskInit
<1> QED  BY <1>1, <1>2, <1>3, DeskAssumption DEF DeskInit, DeskTypeOK, Verdicts

\* An action that leaves the tables alone and gives one actor a job.
LEMMA OnlyWorks ==
  ASSUME DeskTypeOK, UNCHANGED tables, NEW a \in Actors, NEW job,
         Does(a, job), IsJob(job, Ids, DOMAIN backtests),
         day' \in 0..LastDay, served' \in 0..MaxRequests, scans' \in 0..MaxScans,
         pending' \in {pending, {}}
  PROVE  DeskTypeOK'
<1>1. Ids' = Ids /\ UNCHANGED <<positions, signal, setup, alerts, watch, backtests, raced>>
  BY DEF tables, Ids
<1>2. DOMAIN work' = Actors /\ \A b \in Actors : IsJob(work'[b], Ids, DOMAIN backtests)
  BY JobsKept
<1>3. \A b \in Actors : IsJob(work[b], Ids, DOMAIN backtests)'  BY <1>1, <1>2
<1> QED  BY <1>1, <1>2, <1>3 DEF DeskTypeOK

\* A request begins with a job that concerns nothing yet, or rows that exist.
LEMMA BeginsType ==
  ASSUME DeskTypeOK, NEW t \in Threads, NEW job, IsJob(job, Ids, DOMAIN backtests),
         Begins(t, job), UNCHANGED <<day, pending, scans, tables>>
  PROVE  DeskTypeOK'
<1>1. t \in Actors /\ served' \in 0..MaxRequests
  BY DeskAssumption DEF Actors, Begins, DeskTypeOK
<1> QED  BY <1>1, OnlyWorks DEF Begins, DeskTypeOK

\* An actor loads rows that exist.
LEMMA LoadsJob ==
  ASSUME DeskTypeOK, NEW op \in RowWork, NEW ids \in SUBSET Ids
  PROVE  IsJob(Loads(op, ids), Ids, DOMAIN backtests)
<1> DEFINE c == [i \in ids |-> positions[i]]
<1>1. c \in [ids -> Row]  BY DEF DeskTypeOK, Ids
<1>2. Loads(op, ids) = OnRows(op, c, FALSE)  BY DEF Loads
<1>3. Loads(op, ids).op = op /\ Loads(op, ids).copy = c  BY <1>2 DEF OnRows
<1> HIDE DEF c
<1> QED  BY <1>1, <1>2, <1>3 DEF IsJob

\* A row is written: only the row, the race mark, alerts and the actor's job change.
LEMMA WriteType ==
  ASSUME DeskTypeOK, NEW a \in Actors, NEW i \in Ids, Works(a, i), NEW new \in Row,
         Writes(a, i, new), Does(a, Onward(a, i)),
         UNCHANGED <<day, signal, setup, watch, backtests, served, scans>>,
         alerts' \cup pending' \subseteq Ids \X {"TARGET_HIT", "STOP_HIT"}
  PROVE  DeskTypeOK'
<1>1. work[a].copy[i] \in Row /\ positions[i] \in Row
  BY RowJob DEF Works, DeskTypeOK, Ids
<1>2. Merged(positions[i], work[a].copy[i], new) \in Row  BY <1>1, MergedRow
<1>3. positions' \in Seq(Row) /\ Len(positions') = Len(positions) /\ Ids' = Ids
  BY <1>2 DEF Writes, DeskTypeOK, Ids
<1>4. raced' \subseteq Ids  BY DEF Writes, DeskTypeOK
<1>5. /\ DOMAIN work' = Actors
      /\ \A b \in Actors : IsJob(work'[b], Ids, DOMAIN backtests)
  BY JobsKept, OnwardJob
<1>6. \A b \in Actors : IsJob(work[b], Ids, DOMAIN backtests)'  BY <1>3, <1>5
<1> QED  BY <1>3, <1>4, <1>5, <1>6 DEF DeskTypeOK

LEMMA NextType == DeskTypeOK /\ [DeskNext]_deskVars => DeskTypeOK'
<1> SUFFICES ASSUME DeskTypeOK, [DeskNext]_deskVars PROVE DeskTypeOK'  OBVIOUS
<1>a. \A t \in Threads : t \in Actors /\ t # Scanner  BY DeskAssumption DEF Actors
<1>b. Scanner \in Actors  BY DEF Actors
<1>1. ASSUME NEW t \in Threads, NEW c \in Contracts, AskEntry(t, c) PROVE DeskTypeOK'
  <2>1. IsJob([op |-> "entry", contract |-> c], Ids, DOMAIN backtests)  BY DEF IsJob
  <2> QED  BY <1>1, <2>1, BeginsType DEF AskEntry
<1>2. ASSUME NEW t \in Threads, OpenPosition(t) PROVE DeskTypeOK'
  <2> DEFINE n == Len(positions) + 1
  <2>1. IsJob(work[t], Ids, DOMAIN backtests) /\ work[t].op = "entry"
    BY <1>2, <1>a DEF OpenPosition, DeskTypeOK
  <2>2. work[t].contract \in Contracts  BY <2>1 DEF IsJob, Idle, RowWork
  <2>3. PICK quote \in EntryQuotes :
          positions' = Append(positions, Opened(work[t].contract, quote))
    BY <1>2 DEF OpenPosition
  <2>4. quote \in [option : 1..3, under : 0..3]  BY DeskAssumption
  <2>5. Opened(work[t].contract, quote) \in Row  BY <2>2, <2>4 DEF Opened, Row
  <2>6. /\ positions' \in Seq(Row) /\ Len(positions') = n /\ n <= MaxPositions
        /\ Ids' = Ids \cup {n}
    BY <1>2, <2>3, <2>5, DeskAssumption DEF OpenPosition, DeskTypeOK, Ids
  <2>7. IsJob([op |-> "link", id |-> n], Ids', DOMAIN backtests)  BY <2>6 DEF IsJob
  <2>8. /\ DOMAIN work' = Actors
        /\ \A b \in Actors : IsJob(work'[b], Ids', DOMAIN backtests)
    <3>1. Does(t, [op |-> "link", id |-> n]) /\ t \in Actors  BY <1>2, <1>a DEF OpenPosition
    <3>2. Ids \subseteq Ids'  BY <2>6
    <3> QED  BY <2>7, <3>1, <3>2, JobsKept
  <2>9. \A b \in Actors : IsJob(work[b], Ids, DOMAIN backtests)'
    BY <1>2, <2>8 DEF OpenPosition
  <2> QED  BY <1>2, <2>6, <2>8, <2>9 DEF OpenPosition, DeskTypeOK
<1>3. ASSUME NEW t \in Threads, LinkSignal(t) PROVE DeskTypeOK'
  <2>1. IsJob(work[t], Ids, DOMAIN backtests) /\ work[t].op = "link"
    BY <1>3, <1>a DEF LinkSignal, DeskTypeOK
  <2>2. work[t].id \in Ids  BY <2>1 DEF IsJob, Idle, RowWork
  <2>3. IsJob([op |-> "enter", id |-> work[t].id], Ids, DOMAIN backtests)
    BY <2>2 DEF IsJob
  <2>4. /\ DOMAIN work' = Actors
        /\ \A b \in Actors : IsJob(work'[b], Ids, DOMAIN backtests)
    BY <1>3, <1>a, <2>3, JobsKept DEF LinkSignal
  <2>5. signal' \in [Contracts -> [open : BOOLEAN, position : Ids \cup {Unset}]]
    BY <1>3, <2>2 DEF LinkSignal, DeskTypeOK
  <2>6. Ids' = Ids  BY <1>3 DEF LinkSignal, Ids
  <2>7. \A b \in Actors : IsJob(work[b], Ids, DOMAIN backtests)'
    BY <1>3, <2>4, <2>6 DEF LinkSignal
  <2> QED  BY <1>3, <2>4, <2>5, <2>6, <2>7 DEF LinkSignal, DeskTypeOK
<1>4. ASSUME NEW t \in Threads, EnterLifecycle(t) PROVE DeskTypeOK'
  <2>1. /\ DOMAIN work' = Actors
        /\ \A b \in Actors : IsJob(work'[b], Ids, DOMAIN backtests)
    <3>1. IsJob(Idle, Ids, DOMAIN backtests)  BY DEF IsJob
    <3> QED  BY <1>4, <1>a, <3>1, JobsKept DEF EnterLifecycle
  <2>2. setup' \in [Contracts -> {"BUY", "ENTERED", "ENDED"}]
    BY <1>4 DEF EnterLifecycle, DeskTypeOK
  <2>3. Ids' = Ids  BY <1>4 DEF EnterLifecycle, Ids
  <2>4. \A b \in Actors : IsJob(work[b], Ids, DOMAIN backtests)'
    BY <1>4, <2>1, <2>3 DEF EnterLifecycle
  <2> QED  BY <1>4, <2>1, <2>2, <2>3, <2>4 DEF EnterLifecycle, DeskTypeOK
<1>5. ASSUME NEW t \in Threads, NEW i \in Ids, AskExit(t, i) PROVE DeskTypeOK'
  <2>1. IsJob(Loads("exit", {i}), Ids, DOMAIN backtests)  BY LoadsJob DEF RowWork
  <2> QED  BY <1>5, <2>1, BeginsType DEF AskExit
<1>6. ASSUME NEW t \in Threads, NEW op \in {"list", "poll"}, AskList(t, op) PROVE DeskTypeOK'
  <2>1. ActiveIds \in SUBSET Ids /\ op \in RowWork  BY DEF ActiveIds, RowWork
  <2>2. IsJob(Loads(op, ActiveIds), Ids, DOMAIN backtests)  BY <2>1, LoadsJob
  <2> QED  BY <1>6, <2>2, BeginsType DEF AskList
<1>7. ASSUME NEW t \in Threads, NEW i \in Ids, ClosePosition(t, i) PROVE DeskTypeOK'
  <2>1. PICK quote \in Quotes : Writes(t, i, Closed(work[t].copy[i], quote))
    BY <1>7 DEF ClosePosition
  <2>2. work[t].copy[i] \in Row  BY <1>7, <1>a, RowJob DEF ClosePosition, Works
  <2>3. Closed(work[t].copy[i], quote) \in Row  BY <2>2, NewRows
  <2>4. alerts' \cup pending' \subseteq Ids \X {"TARGET_HIT", "STOP_HIT"}
    BY <1>7 DEF ClosePosition, DeskTypeOK
  <2>5. Works(t, i) /\ Does(t, Onward(t, i)) /\ t \in Actors
        /\ UNCHANGED <<day, signal, setup, watch, backtests, served, scans>>
    BY <1>7, <1>a DEF ClosePosition
  <2> QED  BY <2>1, <2>3, <2>4, <2>5, WriteType
<1>8. ASSUME NEW t \in Threads, NEW s \in Symbols, AskWatch(t, s) PROVE DeskTypeOK'
  <2>1. IsJob([op |-> "watch", symbol |-> s], Ids, DOMAIN backtests)  BY DEF IsJob
  <2> QED  BY <1>8, <2>1, BeginsType DEF AskWatch
<1>9. ASSUME NEW t \in Threads, AddWatch(t) PROVE DeskTypeOK'
  <2>1. IsJob(work[t], Ids, DOMAIN backtests) /\ work[t].op = "watch"
    BY <1>9, <1>a DEF AddWatch, DeskTypeOK
  <2>2. work[t].symbol \in Symbols  BY <2>1 DEF IsJob, Idle, RowWork
  <2>3. watch' \subseteq (0..LastDay) \X Symbols  BY <1>9, <2>2 DEF AddWatch, DeskTypeOK
  <2>4. /\ DOMAIN work' = Actors
        /\ \A b \in Actors : IsJob(work'[b], Ids, DOMAIN backtests)
    <3>1. IsJob(Idle, Ids, DOMAIN backtests)  BY DEF IsJob
    <3> QED  BY <1>9, <1>a, <3>1, JobsKept DEF AddWatch
  <2>5. Ids' = Ids  BY <1>9 DEF AddWatch, Ids
  <2>6. \A b \in Actors : IsJob(work[b], Ids, DOMAIN backtests)'
    BY <1>9, <2>4, <2>5 DEF AddWatch
  <2> QED  BY <1>9, <2>3, <2>4, <2>5, <2>6 DEF AddWatch, DeskTypeOK
<1>10. ASSUME NEW t \in Threads, AskBacktest(t) PROVE DeskTypeOK'
  <2>1. IsJob([op |-> "submit"], Ids, DOMAIN backtests)  BY DEF IsJob
  <2> QED  BY <1>10, <2>1, BeginsType DEF AskBacktest
<1>11. ASSUME NEW t \in Threads, StartBacktest(t) PROVE DeskTypeOK'
  <2> DEFINE n == Len(backtests) + 1
  <2>1. /\ backtests' \in Seq(Verdicts)
        /\ DOMAIN backtests' = DOMAIN backtests \cup {n}
    BY <1>11 DEF StartBacktest, DeskTypeOK, Verdicts
  <2>2. IsJob([op |-> "replay", run |-> n], Ids, DOMAIN backtests')  BY <2>1 DEF IsJob
  <2>3. /\ DOMAIN work' = Actors
        /\ \A b \in Actors : IsJob(work'[b], Ids, DOMAIN backtests')
    <3>1. Does(t, [op |-> "replay", run |-> n]) /\ t \in Actors
      BY <1>11, <1>a DEF StartBacktest
    <3>2. DOMAIN backtests \subseteq DOMAIN backtests'  BY <2>1
    <3> QED  BY <2>2, <3>1, <3>2, JobsKept
  <2>4. Ids' = Ids  BY <1>11 DEF StartBacktest, Ids
  <2>5. \A b \in Actors : IsJob(work[b], Ids, DOMAIN backtests)'  BY <2>3, <2>4
  <2> QED  BY <1>11, <2>1, <2>3, <2>4, <2>5 DEF StartBacktest, DeskTypeOK, Verdicts
<1>12. ASSUME NEW t \in Threads, FinishBacktest(t) PROVE DeskTypeOK'
  <2>1. PICK failures \in SUBSET Tickers :
          backtests' = [backtests EXCEPT ![work[t].run] = Verdict(failures)]
    BY <1>12 DEF FinishBacktest
  <2>2. IsJob(work[t], Ids, DOMAIN backtests) /\ work[t].op = "replay"
    BY <1>12, <1>a DEF FinishBacktest, DeskTypeOK
  <2>3. work[t].run \in DOMAIN backtests  BY <2>2 DEF IsJob, Idle, RowWork
  <2>4. Verdict(failures) \in Verdicts  BY DEF Verdict, Verdicts
  <2>5. backtests \in Seq(Verdicts)  BY DEF DeskTypeOK, Verdicts
  <2>7. backtests' \in Seq(Verdicts) /\ DOMAIN backtests' = DOMAIN backtests
    BY <2>1, <2>3, <2>4, <2>5
  <2>8. /\ DOMAIN work' = Actors
        /\ \A b \in Actors : IsJob(work'[b], Ids, DOMAIN backtests)
    <3>1. IsJob(Idle, Ids, DOMAIN backtests)  BY DEF IsJob
    <3> QED  BY <1>12, <1>a, <3>1, JobsKept DEF FinishBacktest
  <2>9. Ids' = Ids  BY <1>12 DEF FinishBacktest, Ids
  <2>10. \A b \in Actors : IsJob(work[b], Ids, DOMAIN backtests)'  BY <2>7, <2>8, <2>9
  <2> QED  BY <1>12, <2>7, <2>8, <2>9, <2>10 DEF FinishBacktest, DeskTypeOK, Verdicts
<1>13. ASSUME NEW a \in Actors, NEW i \in Ids, Expire(a, i) PROVE DeskTypeOK'
  <2>1. work[a].copy[i] \in Row  BY <1>13, RowJob DEF Expire, Works
  <2>2. Expired(work[a].copy[i]) \in Row
    <3>1. Quotes = {} \/ \E quote \in Quotes : TRUE  OBVIOUS
    <3> QED  BY <2>1 DEF Expired, Row
  <2>3. alerts' \cup pending' \subseteq Ids \X {"TARGET_HIT", "STOP_HIT"}
    BY <1>13 DEF Expire, Commits, DeskTypeOK
  <2>4. Works(a, i) /\ Writes(a, i, Expired(work[a].copy[i])) /\ Does(a, Onward(a, i))
        /\ UNCHANGED <<day, signal, setup, watch, backtests, served, scans>>
    BY <1>13 DEF Expire
  <2> QED  BY <2>2, <2>3, <2>4, WriteType
<1>14. ASSUME NEW a \in Actors, NEW i \in Ids, NotExpired(a, i) PROVE DeskTypeOK'
  <2>1. Works(a, i)  BY <1>14 DEF NotExpired
  <2>2. PICK job \in {Onward(a, i), OnRows(work[a].op, work[a].copy, TRUE)} : Does(a, job)
    BY <1>14 DEF NotExpired
  <2>3. IsJob(job, Ids, DOMAIN backtests)  BY <2>1, <2>2, OnwardJob
  <2> QED  BY <1>14, <2>2, <2>3, OnlyWorks DEF NotExpired, DeskTypeOK
<1>15. ASSUME NEW a \in Actors, NEW i \in Ids, NoMark(a, i) PROVE DeskTypeOK'
  <2>1. IsJob(Onward(a, i), Ids, DOMAIN backtests)  BY <1>15, OnwardJob DEF NoMark
  <2> QED  BY <1>15, <2>1, OnlyWorks DEF NoMark, DeskTypeOK
<1>16. ASSUME NEW a \in Actors, NEW i \in Ids, Refresh(a, i) PROVE DeskTypeOK'
  <2>1. PICK quote \in Quotes :
          /\ Writes(a, i, Marked(work[a].copy[i], quote))
          /\ IF a = Scanner THEN /\ alerts' = alerts \cup pending
                                 /\ pending' = Alert(i, quote) \ alerts
             ELSE UNCHANGED <<alerts, pending>>
    BY <1>16 DEF Refresh
  <2>2. work[a].copy[i] \in Row  BY <1>16, RowJob DEF Refresh, Works
  <2>3. Marked(work[a].copy[i], quote) \in Row  BY <2>2, NewRows
  <2>4. Alert(i, quote) \subseteq Ids \X {"TARGET_HIT", "STOP_HIT"}
    BY DEF Alert, management_decision
  <2>5. alerts' \cup pending' \subseteq Ids \X {"TARGET_HIT", "STOP_HIT"}
    BY <2>1, <2>4 DEF DeskTypeOK
  <2>6. Works(a, i) /\ Does(a, Onward(a, i))
        /\ UNCHANGED <<day, signal, setup, watch, backtests, served, scans>>
    BY <1>16 DEF Refresh
  <2> QED  BY <2>1, <2>3, <2>5, <2>6, WriteType
<1>17. ASSUME NEW a \in Actors, Fail(a) PROVE DeskTypeOK'
  <2>1. IsJob(Idle, Ids, DOMAIN backtests)  BY DEF IsJob
  <2> QED  BY <1>17, <2>1, OnlyWorks DEF Fail, DeskTypeOK
<1>18. CASE BeginScan
  <2>1. ActiveIds \in SUBSET Ids /\ "scan" \in RowWork  BY DEF ActiveIds, RowWork
  <2>2. IsJob(Loads("scan", ActiveIds), Ids, DOMAIN backtests)  BY <2>1, LoadsJob
  <2>3. scans' \in 0..MaxScans  BY <1>18, DeskAssumption DEF BeginScan, DeskTypeOK
  <2> QED  BY <1>18, <1>b, <2>2, <2>3, OnlyWorks DEF BeginScan, DeskTypeOK
<1>19. CASE EndScan
  <2>1. IsJob(Idle, Ids, DOMAIN backtests)  BY DEF IsJob
  <2>2. /\ DOMAIN work' = Actors
        /\ \A b \in Actors : IsJob(work'[b], Ids, DOMAIN backtests)
    BY <1>19, <1>b, <2>1, JobsKept DEF EndScan
  <2>3. Ids' = Ids  BY <1>19 DEF EndScan, Ids
  <2>4. \A b \in Actors : IsJob(work[b], Ids, DOMAIN backtests)'
    BY <1>19, <2>2, <2>3 DEF EndScan
  <2>5. alerts' \cup pending' \subseteq Ids \X {"TARGET_HIT", "STOP_HIT"}
    BY <1>19 DEF EndScan, Commits, DeskTypeOK
  <2> QED  BY <1>19, <2>2, <2>3, <2>4, <2>5 DEF EndScan, DeskTypeOK
<1>20. ASSUME NEW c \in Contracts, EndSetup(c) PROVE DeskTypeOK'
  <2>1. Ids' = Ids /\ signal' \in [Contracts -> [open : BOOLEAN, position : Ids \cup {Unset}]]
    BY <1>20 DEF EndSetup, Ids, DeskTypeOK
  <2>2. setup' \in [Contracts -> {"BUY", "ENTERED", "ENDED"}]  BY <1>20 DEF EndSetup, DeskTypeOK
  <2>3. \A b \in Actors : IsJob(work[b], Ids, DOMAIN backtests)'
    BY <1>20, <2>1 DEF EndSetup, DeskTypeOK
  <2> QED  BY <1>20, <2>1, <2>2, <2>3 DEF EndSetup, DeskTypeOK
<1>21. ASSUME NEW s \in Symbols, RemoveWatch(s) PROVE DeskTypeOK'
  <2>1. Ids' = Ids /\ watch' \subseteq (0..LastDay) \X Symbols /\ served' \in 0..MaxRequests
    BY <1>21, DeskAssumption DEF RemoveWatch, Ids, DeskTypeOK
  <2>2. \A b \in Actors : IsJob(work[b], Ids, DOMAIN backtests)'
    BY <1>21, <2>1 DEF RemoveWatch, DeskTypeOK
  <2> QED  BY <1>21, <2>1, <2>2 DEF RemoveWatch, DeskTypeOK
<1>22. CASE Midnight
  <2>1. day' \in 0..LastDay  BY <1>22, DeskAssumption DEF Midnight, DeskTypeOK
  <2>2. Ids' = Ids /\ UNCHANGED <<positions, signal, setup, alerts, watch, backtests, raced>>
    BY <1>22 DEF Midnight, tables, Ids
  <2>3. \A b \in Actors : IsJob(work[b], Ids, DOMAIN backtests)'
    BY <1>22, <2>2 DEF Midnight, DeskTypeOK
  <2> QED  BY <1>22, <2>1, <2>2, <2>3 DEF Midnight, DeskTypeOK
<1>23. CASE UNCHANGED deskVars
  <2>1. Ids' = Ids  BY <1>23 DEF deskVars, Ids
  <2>2. \A b \in Actors : IsJob(work[b], Ids, DOMAIN backtests)'
    BY <1>23, <2>1 DEF deskVars, DeskTypeOK
  <2> QED  BY <1>23, <2>1, <2>2 DEF deskVars, DeskTypeOK
<1> QED
  BY <1>1, <1>2, <1>3, <1>4, <1>5, <1>6, <1>7, <1>8, <1>9, <1>10, <1>11, <1>12, <1>13, <1>14,
     <1>15, <1>16, <1>17, <1>18, <1>19, <1>20, <1>21, <1>22, <1>23
  DEF DeskNext, Serve, Entry, HandleRow

\* DeskTypeOK: every row, request and copy is one the code can write or hold
\* (services/paper_positions.py, services/backtest.py, api/routes.py).
THEOREM DeskTypeCorrect == DeskSpec => []DeskTypeOK
  BY InitType, NextType, PTL DEF DeskSpec
-----------------------------------------------------------------------------
(* Rows and the copies of them *)

\* A copy was taken while its row was active.
Fresh(c) ==
  /\ c.status = "ACTIVE" /\ c.exitOption = Unset /\ c.exitUnder = Unset
  /\ ~c.expired /\ c.freshness # "stale"
HeldFresh(w) == w.op \in RowWork => \A i \in DOMAIN w.copy : Fresh(w.copy[i])
CopyInv == \A a \in Actors : HeldFresh(work[a])

Marks(p) == [option |-> p.option, under |-> p.under]
Exits(p) == [option |-> p.exitOption, under |-> p.exitUnder]
\* What every row satisfies, and what it satisfies if no outdated copy was used.
Whole(p) ==
  /\ (p.exitOption = Unset /\ p.exitUnder = Unset) \/ Exits(p) \in Quotes
  /\ p.status = "CLOSED" => Exits(p) \in Quotes
  /\ p.status = "EXPIRED" => p.expired
  /\ p.status = "ACTIVE" => Fresh(p)
Serial(p) ==
  /\ Marks(p) \in Quotes
  /\ ~(p.expired /\ Exits(p) \in Quotes)
  /\ p.freshness = "stale" <=> p.status = "EXPIRED"
RowInv == \A i \in Ids :
  Whole(positions[i]) /\ (i \notin raced => Serial(positions[i]))
DeskInv == DeskTypeOK /\ CopyInv /\ RowInv

\* What a handler may make of its copy.
News(c) ==
  {Expired(c)} \cup {Closed(c, quote) : quote \in Quotes} \cup {Marked(c, quote) : quote \in Quotes}

\* No pair of prices has a missing one.
LEMMA PairOrNone ==
  ASSUME NEW p, Exits(p) \in Quotes
  PROVE  p.exitOption \in 1..3 /\ p.exitUnder \in 0..3
<1>1. Exits(p) \in [option : 1..3, under : 0..3]  BY DeskAssumption
<1>2. Exits(p).option = p.exitOption /\ Exits(p).under = p.exitUnder  BY DEF Exits
<1> QED  BY <1>1, <1>2

\* A commit keeps a row whole, never makes it active, and keeps it serial if the
\* copy was what the database held.
LEMMA WrittenRow ==
  ASSUME NEW row \in Row, NEW c \in Row, Fresh(c), Whole(row), NEW new \in News(c)
  PROVE  LET m == Merged(row, c, new) IN
         /\ m \in Row /\ Whole(m) /\ m.contract = row.contract
         /\ m.status = "ACTIVE" => row.status = "ACTIVE"
         /\ row = c /\ Serial(row) => Serial(m)
<1> DEFINE m == Merged(row, c, new)
<1>1. /\ c.exitOption = Unset /\ c.exitUnder = Unset /\ c.expired = FALSE
      /\ c.status = "ACTIVE" /\ c.freshness # "stale"
  BY DEF Fresh
<1>2. CASE new = Expired(c)
  <2>1. /\ new \in Row /\ new.contract = c.contract /\ new.status = "EXPIRED"
        /\ new.option = c.option /\ new.under = c.under /\ new.exitOption = c.exitOption
        /\ new.exitUnder = c.exitUnder /\ new.expired = TRUE /\ new.freshness = "stale"
    BY <1>2 DEF Expired, Row
  <2>2. /\ m \in Row /\ m.contract = row.contract /\ m.status = "EXPIRED"
        /\ m.option = row.option /\ m.under = row.under /\ m.exitOption = row.exitOption
        /\ m.exitUnder = row.exitUnder /\ m.expired = TRUE /\ m.freshness = "stale"
    BY <1>1, <2>1, MergedRow
  <2> HIDE DEF m
  <2>3. Exits(m) = Exits(row) /\ Marks(m) = Marks(row)  BY <2>2 DEF Exits, Marks
  <2>4. Whole(m)  BY <2>2, <2>3 DEF Whole
  <2>5. ASSUME row = c, Serial(row) PROVE Serial(m)
    <3>1. Exits(row) \notin Quotes  BY <1>1, <2>5, PairOrNone DEF Unset
    <3> QED  BY <2>2, <2>3, <2>5, <3>1 DEF Serial
  <2> QED  BY <2>2, <2>4, <2>5 DEF m
<1>3. ASSUME NEW quote \in Quotes, new = Closed(c, quote)
      PROVE  /\ m \in Row /\ Whole(m) /\ m.contract = row.contract
             /\ m.status = "ACTIVE" => row.status = "ACTIVE"
             /\ row = c /\ Serial(row) => Serial(m)
  <2>0. quote \in [option : 1..3, under : 0..3]  BY DeskAssumption
  <2>1. /\ new \in Row /\ new.contract = c.contract /\ new.status = "CLOSED"
        /\ new.option = c.option /\ new.under = c.under /\ new.exitOption = quote.option
        /\ new.exitUnder = quote.under /\ new.expired = c.expired /\ new.freshness = "current"
    BY <2>0, <1>3 DEF Closed, Row
  <2>2. quote.option # Unset /\ quote.under # Unset  BY <2>0 DEF Unset
  <2>3. /\ m \in Row /\ m.contract = row.contract /\ m.status = "CLOSED"
        /\ m.option = row.option /\ m.under = row.under /\ m.exitOption = quote.option
        /\ m.exitUnder = quote.under /\ m.expired = row.expired
    BY <1>1, <2>1, <2>2, MergedRow
  <2>4. m.freshness = IF new.freshness = c.freshness THEN row.freshness ELSE new.freshness
    BY <2>1, MergedRow
  <2> HIDE DEF m
  <2>5. Exits(m) = quote /\ Marks(m) = Marks(row)  BY <2>0, <2>3 DEF Exits, Marks
  <2>6. Whole(m)  BY <2>3, <2>5 DEF Whole
  <2>7. ASSUME row = c, Serial(row) PROVE Serial(m)
    <3>1. m.freshness # "stale" /\ m.expired = FALSE  BY <1>1, <2>1, <2>3, <2>4, <2>7
    <3> QED  BY <2>3, <2>5, <2>7, <3>1 DEF Serial
  <2> QED  BY <2>3, <2>6, <2>7
<1>4. ASSUME NEW quote \in Quotes, new = Marked(c, quote)
      PROVE  /\ m \in Row /\ Whole(m) /\ m.contract = row.contract
             /\ m.status = "ACTIVE" => row.status = "ACTIVE"
             /\ row = c /\ Serial(row) => Serial(m)
  <2>0. quote \in [option : 1..3, under : 0..3]  BY DeskAssumption
  <2>1. /\ new \in Row /\ new.contract = c.contract /\ new.status = c.status
        /\ new.option = quote.option /\ new.under = quote.under
        /\ new.exitOption = c.exitOption /\ new.exitUnder = c.exitUnder
        /\ new.expired = c.expired /\ new.freshness = "current"
    BY <2>0, <1>4 DEF Marked, Row
  <2>2. /\ m \in Row /\ m.contract = row.contract /\ m.status = row.status
        /\ m.exitOption = row.exitOption /\ m.exitUnder = row.exitUnder
        /\ m.expired = row.expired
    BY <2>1, MergedRow
  <2>3. /\ m.option = IF new.option = c.option THEN row.option ELSE new.option
        /\ m.under = IF new.under = c.under THEN row.under ELSE new.under
        /\ m.freshness = IF new.freshness = c.freshness THEN row.freshness ELSE new.freshness
    BY <2>1, MergedRow
  <2> HIDE DEF m
  <2>4. Exits(m) = Exits(row)  BY <2>2 DEF Exits
  <2>5. row.status = "ACTIVE" => Fresh(m)  BY <2>1, <2>2, <2>3 DEF Whole, Fresh
  <2>6. Whole(m)  BY <2>2, <2>4, <2>5 DEF Whole
  <2>7. ASSUME row = c, Serial(row) PROVE Serial(m)
    <3>1. m.option = quote.option /\ m.under = quote.under /\ m.freshness = "current"
      BY <2>1, <2>3, <2>7
    <3>2. Marks(m) = quote  BY <2>0, <3>1 DEF Marks
    <3> QED  BY <1>1, <2>2, <2>4, <2>7, <3>1, <3>2 DEF Serial
  <2> QED  BY <2>2, <2>6, <2>7
<1> QED  BY <1>2, <1>3, <1>4 DEF News

\* An actor's new job leaves the other actors' copies alone.
LEMMA CopiesKept ==
  ASSUME DeskTypeOK, CopyInv, NEW a \in Actors, NEW job, Does(a, job), HeldFresh(job)
  PROVE  CopyInv'
<1>1. \A b \in Actors : work'[b] = IF b = a THEN job ELSE work[b]  BY DEF Does, DeskTypeOK
<1> QED  BY <1>1 DEF CopyInv, HeldFresh

\* Work that goes on holds copies it held already.
LEMMA OnwardFresh ==
  ASSUME DeskTypeOK, CopyInv, NEW a \in Actors, NEW i, Works(a, i)
  PROVE  /\ HeldFresh(Onward(a, i)) /\ HeldFresh(OnRows(work[a].op, work[a].copy, TRUE))
         /\ i \in Ids /\ work[a].copy[i] \in Row /\ Fresh(work[a].copy[i])
<1>1. /\ work[a].op \in RowWork /\ i \in Copies(a) /\ Copies(a) \subseteq Ids
      /\ work[a].copy \in [Copies(a) -> Row]
  BY RowJob DEF Works
<1>2. \A j \in Copies(a) : Fresh(work[a].copy[j])  BY <1>1 DEF CopyInv, HeldFresh, Copies
<1> DEFINE left == [j \in Copies(a) \ {i} |-> work[a].copy[j]]
<1>3. DOMAIN left = Copies(a) \ {i} /\ \A j \in DOMAIN left : left[j] = work[a].copy[j]
  OBVIOUS
<1>4. \A j \in DOMAIN left : Fresh(left[j])  BY <1>2, <1>3
<1> HIDE DEF left
<1>5. HeldFresh(OnRows(work[a].op, left, FALSE))  BY <1>4 DEF HeldFresh, OnRows
<1>6. HeldFresh(Idle)  BY DEF HeldFresh, Idle, RowWork
<1>7. Onward(a, i) \in {Idle, OnRows(work[a].op, left, FALSE)}  BY DEF Onward, left
<1>8. HeldFresh(Onward(a, i))  BY <1>5, <1>6, <1>7
<1>9. HeldFresh(OnRows(work[a].op, work[a].copy, TRUE))
  BY <1>2 DEF HeldFresh, OnRows, Copies
<1> QED  BY <1>1, <1>2, <1>8, <1>9

\* Loading takes active rows only.
LEMMA LoadsFresh ==
  ASSUME RowInv, NEW op, NEW ids \in SUBSET ActiveIds
  PROVE  HeldFresh(Loads(op, ids))
<1> DEFINE c == [i \in ids |-> positions[i]]
<1>1. \A i \in ids : Fresh(positions[i])  BY DEF RowInv, Whole, ActiveIds
<1>2. \A i \in DOMAIN c : Fresh(c[i])  BY <1>1
<1>3. Loads(op, ids) = OnRows(op, c, FALSE)  BY DEF Loads
<1> HIDE DEF c
<1> QED  BY <1>2, <1>3 DEF HeldFresh, OnRows

\* A handler that holds a copy writes its row.
WritesRow(a, i) ==
  /\ Works(a, i) /\ Does(a, Onward(a, i))
  /\ \E new \in News(work[a].copy[i]) : Writes(a, i, new)

\* What a write does to the rows.
LEMMA WritesRows ==
  ASSUME DeskInv, NEW a \in Actors, NEW i \in Ids, WritesRow(a, i)
  PROVE  /\ DOMAIN positions' = Ids /\ CopyInv' /\ RowInv'
         /\ \A j \in Ids :
              /\ positions'[j].contract = positions[j].contract
              /\ positions'[j].status = "ACTIVE" => positions[j].status = "ACTIVE"
              /\ positions'[j] # positions[j] => j = i
<1>1. /\ work[a].copy[i] \in Row /\ Fresh(work[a].copy[i])
      /\ positions[i] \in Row /\ Whole(positions[i])
  <2>1. work[a].copy[i] \in Row /\ Fresh(work[a].copy[i])
    BY OnwardFresh DEF WritesRow, DeskInv
  <2>2. positions[i] \in Row  BY DEF DeskInv, DeskTypeOK, Ids
  <2> QED  BY <2>1, <2>2 DEF DeskInv, RowInv
<1>2. PICK new \in News(work[a].copy[i]) : Writes(a, i, new)  BY DEF WritesRow
<1> DEFINE m == Merged(positions[i], work[a].copy[i], new)
<1>3. /\ m \in Row /\ Whole(m) /\ m.contract = positions[i].contract
      /\ m.status = "ACTIVE" => positions[i].status = "ACTIVE"
      /\ positions[i] = work[a].copy[i] /\ Serial(positions[i]) => Serial(m)
  BY <1>1, WrittenRow
<1>4. /\ positions' = [positions EXCEPT ![i] = m]
      /\ raced' = IF positions[i] = work[a].copy[i] THEN raced ELSE raced \cup {i}
  BY <1>2 DEF Writes
<1> HIDE DEF m
<1>5. /\ DOMAIN positions' = Ids /\ positions'[i] = m
      /\ \A j \in Ids \ {i} : positions'[j] = positions[j]
  BY <1>4 DEF Ids
<1>6. CopyInv'  BY OnwardFresh, CopiesKept DEF WritesRow, DeskInv
<1>7. RowInv'
  <2>1. Ids' = Ids  BY <1>5 DEF Ids
  <2>2. \A j \in Ids \ {i} : Whole(positions[j]) /\ (j \notin raced => Serial(positions[j]))
    BY DEF DeskInv, RowInv
  <2>3. raced \subseteq raced' /\ (i \notin raced' => positions[i] = work[a].copy[i] /\ i \notin raced)
    BY <1>4
  <2>4. i \notin raced' => Serial(m)  BY <1>3, <2>3 DEF DeskInv, RowInv
  <2>5. \A j \in Ids : Whole(positions'[j]) /\ (j \notin raced' => Serial(positions'[j]))
    BY <1>3, <1>5, <2>2, <2>3, <2>4
  <2> QED  BY <2>1, <2>5 DEF RowInv, Whole, Serial, Marks, Exits, Fresh
<1> QED  BY <1>3, <1>5, <1>6, <1>7

\* A new row is whole and serial.
LEMMA OpenedRow ==
  ASSUME NEW c, NEW quote \in EntryQuotes
  PROVE  Whole(Opened(c, quote)) /\ Serial(Opened(c, quote))
<1> DEFINE p == Opened(c, quote)
<1>1. quote \in Quotes /\ quote \in [option : 1..3, under : 0..3]  BY DeskAssumption
<1>2. /\ p.status = "ACTIVE" /\ p.exitOption = Unset /\ p.exitUnder = Unset
      /\ p.expired = FALSE /\ p.freshness = "entry" /\ p.option = quote.option
      /\ p.under = quote.under
  BY DEF Opened
<1> HIDE DEF p
<1>3. Marks(p) = quote  BY <1>1, <1>2 DEF Marks
<1>4. Fresh(p)  BY <1>2 DEF Fresh
<1>5. Exits(p) \notin Quotes  BY <1>2, PairOrNone DEF Unset
<1> QED  BY <1>1, <1>2, <1>3, <1>4, <1>5 DEF Whole, Serial, p

\* Every step either leaves the rows alone, adds one, or writes one.
LEMMA StepKinds ==
  ASSUME DeskInv, [DeskNext]_deskVars
  PROVE  \/ UNCHANGED <<positions, raced>>
         \/ \E t \in Threads : OpenPosition(t)
         \/ \E a \in Actors, i \in Ids : WritesRow(a, i)
<1>a. \A t \in Threads : t \in Actors  BY DEF Actors
<1>1. ASSUME NEW t \in Threads, NEW i \in Ids, ClosePosition(t, i) PROVE WritesRow(t, i)
  BY <1>1 DEF ClosePosition, WritesRow, News
<1>2. ASSUME NEW a \in Actors, NEW i \in Ids, Expire(a, i) PROVE WritesRow(a, i)
  BY <1>2 DEF Expire, WritesRow, News
<1>3. ASSUME NEW a \in Actors, NEW i \in Ids, Refresh(a, i) PROVE WritesRow(a, i)
  BY <1>3 DEF Refresh, WritesRow, News
<1>4. ASSUME NEW t \in Threads, Serve(t)
      PROVE  \/ UNCHANGED <<positions, raced>> \/ OpenPosition(t)
             \/ \E i \in Ids : ClosePosition(t, i)
  BY <1>4 DEF Serve, Entry, AskEntry, LinkSignal, EnterLifecycle, AskExit, AskList, AskWatch,
     AddWatch, AskBacktest, StartBacktest, FinishBacktest, tables
<1>5. ASSUME NEW a \in Actors, HandleRow(a)
      PROVE  \/ UNCHANGED <<positions, raced>>
             \/ \E i \in Ids : Expire(a, i) \/ Refresh(a, i)
  BY <1>5 DEF HandleRow, NotExpired, NoMark, tables
<1>6. (\E a \in Actors : Fail(a)) \/ BeginScan \/ EndScan \/ (\E c \in Contracts : EndSetup(c))
      \/ (\E s \in Symbols : RemoveWatch(s)) \/ Midnight \/ UNCHANGED deskVars
      => UNCHANGED <<positions, raced>>
  BY DEF Fail, BeginScan, EndScan, EndSetup, RemoveWatch, Midnight, tables, deskVars
<1> QED  BY <1>a, <1>1, <1>2, <1>3, <1>4, <1>5, <1>6 DEF DeskNext

\* The jobs that may still add a row, and how a step changes who has one.
Adding == {"entry", "watch", "submit"}
LEMMA StepJobs ==
  ASSUME DeskInv, [DeskNext]_deskVars
  PROVE  \/ \E t \in Threads, c \in Contracts : AskEntry(t, c)
         \/ \E t \in Threads, s \in Symbols : AskWatch(t, s)
         \/ \E t \in Threads : AskBacktest(t)
         \/ UNCHANGED work
         \/ \E a \in Actors : \E job :
              Does(a, job) /\ job.op \notin Adding /\ HeldFresh(job)
<1> DEFINE Quiet == \/ UNCHANGED work
                    \/ \E a \in Actors : \E job :
                         Does(a, job) /\ job.op \notin Adding /\ HeldFresh(job)
<1>a. \A t \in Threads : t \in Actors  BY DEF Actors
<1>b. Scanner \in Actors  BY DEF Actors
<1>c. \A op : op \in RowWork => op \notin Adding  BY DEF RowWork, Adding
<1>d. Idle.op \notin Adding /\ HeldFresh(Idle)  BY DEF Idle, Adding, HeldFresh, RowWork
<1>e. ASSUME NEW op \in RowWork, NEW ids \in SUBSET ActiveIds
      PROVE  Loads(op, ids).op \notin Adding /\ HeldFresh(Loads(op, ids))
  BY <1>c, LoadsFresh DEF DeskInv, Loads, OnRows
<1>f. ASSUME NEW a \in Actors, NEW i \in Ids, Works(a, i),
             NEW job \in {Onward(a, i), OnRows(work[a].op, work[a].copy, TRUE)}
      PROVE  job.op \notin Adding /\ HeldFresh(job)
  <2>1. work[a].op \notin Adding  BY <1>c, <1>f DEF Works
  <2>2. job.op \in {work[a].op, Idle.op}  BY DEF Onward, OnRows
  <2>3. HeldFresh(job)  BY <1>f, OnwardFresh DEF DeskInv
  <2> QED  BY <1>d, <2>1, <2>2, <2>3
<1>1. ASSUME NEW t \in Threads, OpenPosition(t) PROVE Quiet
  <2> DEFINE job == [op |-> "link", id |-> Len(positions) + 1]
  <2>1. job.op \notin Adding /\ HeldFresh(job)  BY DEF Adding, HeldFresh, RowWork
  <2> QED  BY <1>1, <1>a, <2>1 DEF OpenPosition
<1>2. ASSUME NEW t \in Threads, LinkSignal(t) PROVE Quiet
  <2> DEFINE job == [op |-> "enter", id |-> work[t].id]
  <2>1. job.op \notin Adding /\ HeldFresh(job)  BY DEF Adding, HeldFresh, RowWork
  <2> QED  BY <1>2, <1>a, <2>1 DEF LinkSignal
<1>3. ASSUME NEW t \in Threads, EnterLifecycle(t) \/ AddWatch(t) \/ FinishBacktest(t) PROVE Quiet
  BY <1>3, <1>a, <1>d DEF EnterLifecycle, AddWatch, FinishBacktest
<1>4. ASSUME NEW t \in Threads, StartBacktest(t) PROVE Quiet
  <2> DEFINE job == [op |-> "replay", run |-> Len(backtests) + 1]
  <2>1. job.op \notin Adding /\ HeldFresh(job)  BY DEF Adding, HeldFresh, RowWork
  <2> QED  BY <1>4, <1>a, <2>1 DEF StartBacktest
<1>5. ASSUME NEW t \in Threads, NEW i \in Ids, AskExit(t, i) PROVE Quiet
  <2>1. {i} \in SUBSET ActiveIds /\ "exit" \in RowWork
    BY <1>5 DEF AskExit, Exitable, ActiveIds, RowWork
  <2> DEFINE job == Loads("exit", {i})
  <2>2. job.op \notin Adding /\ HeldFresh(job)  BY <1>e, <2>1
  <2>3. Does(t, job)  BY <1>5 DEF AskExit, Begins
  <2> HIDE DEF job
  <2> QED  BY <1>a, <2>2, <2>3
<1>6. ASSUME NEW t \in Threads, NEW op \in {"list", "poll"}, AskList(t, op) PROVE Quiet
  <2>1. ActiveIds \in SUBSET ActiveIds /\ op \in RowWork  BY DEF RowWork
  <2> DEFINE job == Loads(op, ActiveIds)
  <2>2. job.op \notin Adding /\ HeldFresh(job)  BY <1>e, <2>1
  <2>3. Does(t, job)  BY <1>6 DEF AskList, Begins
  <2> HIDE DEF job
  <2> QED  BY <1>a, <2>2, <2>3
<1>7. ASSUME BeginScan PROVE Quiet
  <2>1. ActiveIds \in SUBSET ActiveIds /\ "scan" \in RowWork  BY DEF RowWork
  <2> DEFINE job == Loads("scan", ActiveIds)
  <2>2. job.op \notin Adding /\ HeldFresh(job)  BY <1>e, <2>1
  <2>3. Does(Scanner, job)  BY <1>7 DEF BeginScan
  <2> HIDE DEF job
  <2> QED  BY <1>b, <2>2, <2>3
<1>8. ASSUME NEW t \in Threads, NEW i \in Ids, ClosePosition(t, i) PROVE Quiet
  BY <1>8, <1>a, <1>f DEF ClosePosition
<1>9. ASSUME NEW a \in Actors, HandleRow(a) PROVE Quiet
  BY <1>9, <1>f DEF HandleRow, Expire, NotExpired, NoMark, Refresh
<1>10. ASSUME NEW a \in Actors, Fail(a) PROVE Quiet  BY <1>10, <1>d DEF Fail
<1>11. ASSUME EndScan PROVE Quiet  BY <1>11, <1>b, <1>d DEF EndScan
<1>12. (\E c \in Contracts : EndSetup(c)) \/ (\E s \in Symbols : RemoveWatch(s)) \/ Midnight
       \/ UNCHANGED deskVars => UNCHANGED work
  BY DEF EndSetup, RemoveWatch, Midnight, deskVars
<1> HIDE DEF Quiet
<1>13. ASSUME NEW t \in Threads, Serve(t)
       PROVE  \/ \E c \in Contracts : AskEntry(t, c)
              \/ \E s \in Symbols : AskWatch(t, s)
              \/ AskBacktest(t) \/ Quiet
  BY <1>13, <1>1, <1>2, <1>3, <1>4, <1>5, <1>6, <1>8 DEF Serve, Entry
<1>14. Quiet \/ UNCHANGED work \/ (\E t \in Threads : Serve(t))
  BY <1>7, <1>9, <1>10, <1>11, <1>12 DEF DeskNext
<1> QED  BY <1>13, <1>14 DEF Quiet

\* The jobs that hold no copies.
LEMMA AsksFresh ==
  ASSUME DeskInv, NEW t \in Threads,
         \/ \E c \in Contracts : AskEntry(t, c)
         \/ \E s \in Symbols : AskWatch(t, s)
         \/ AskBacktest(t)
  PROVE  CopyInv'
<1>1. t \in Actors  BY DEF Actors
<1>2. ASSUME NEW c \in Contracts, AskEntry(t, c) PROVE CopyInv'
  <2>1. HeldFresh([op |-> "entry", contract |-> c])  BY DEF HeldFresh, RowWork
  <2> QED  BY <1>1, <1>2, <2>1, CopiesKept DEF DeskInv, AskEntry, Begins
<1>3. ASSUME NEW s \in Symbols, AskWatch(t, s) PROVE CopyInv'
  <2>1. HeldFresh([op |-> "watch", symbol |-> s])  BY DEF HeldFresh, RowWork
  <2> QED  BY <1>1, <1>3, <2>1, CopiesKept DEF DeskInv, AskWatch, Begins
<1>4. ASSUME AskBacktest(t) PROVE CopyInv'
  <2>1. HeldFresh([op |-> "submit"])  BY DEF HeldFresh, RowWork
  <2> QED  BY <1>1, <1>4, <2>1, CopiesKept DEF DeskInv, AskBacktest, Begins
<1> QED  BY <1>2, <1>3, <1>4

LEMMA InitDesk == DeskInit => DeskInv
<1> SUFFICES ASSUME DeskInit PROVE DeskInv  OBVIOUS
<1>1. Ids = {}  BY DEF DeskInit, Ids
<1>2. CopyInv  BY DEF DeskInit, CopyInv, HeldFresh, Idle, RowWork
<1> QED  BY <1>1, <1>2, InitType DEF DeskInv, RowInv

LEMMA NextDesk == DeskInv /\ [DeskNext]_deskVars => DeskInv'
<1> SUFFICES ASSUME DeskInv, [DeskNext]_deskVars PROVE DeskInv'  OBVIOUS
<1>1. DeskTypeOK'  BY NextType DEF DeskInv
<1>2. CopyInv'
  <2>1. CASE UNCHANGED work  BY <2>1 DEF DeskInv, CopyInv
  <2>2. ASSUME NEW a \in Actors, NEW job, Does(a, job), HeldFresh(job) PROVE CopyInv'
    BY <2>2, CopiesKept DEF DeskInv
  <2> QED  BY <2>1, <2>2, StepJobs, AsksFresh
<1>3. RowInv'
  <2>1. CASE UNCHANGED <<positions, raced>>
    BY <2>1 DEF DeskInv, RowInv, Ids, Whole, Serial, Marks, Exits, Fresh
  <2>2. ASSUME NEW t \in Threads, OpenPosition(t) PROVE RowInv'
    <3> DEFINE n == Len(positions) + 1
    <3>1. PICK quote \in EntryQuotes :
            positions' = Append(positions, Opened(work[t].contract, quote))
      BY <2>2 DEF OpenPosition
    <3>2. positions \in Seq(Row)  BY DEF DeskInv, DeskTypeOK
    <3>3. /\ Ids' = Ids \cup {n} /\ positions'[n] = Opened(work[t].contract, quote)
          /\ \A j \in Ids : positions'[j] = positions[j]
      BY <3>1, <3>2 DEF Ids
    <3>4. \A j \in Ids' : Whole(positions'[j]) /\ (j \notin raced => Serial(positions'[j]))
      BY <3>3, OpenedRow DEF DeskInv, RowInv
    <3>5. raced' = raced  BY <2>2 DEF OpenPosition
    <3> QED  BY <3>4, <3>5 DEF RowInv, Whole, Serial, Marks, Exits, Fresh
  <2> QED  BY <2>1, <2>2, StepKinds, WritesRows
<1> QED  BY <1>1, <1>2, <1>3 DEF DeskInv

\* The invariant says what RowsHonest says of each row.
LEMMA DeskHonest == DeskInv => RowsHonest
<1> SUFFICES ASSUME DeskInv, NEW i \in Ids
             PROVE  LET p == positions[i]
                        marks == [option |-> p.option, under |-> p.under]
                        exits == [option |-> p.exitOption, under |-> p.exitUnder]
                    IN /\ p.exitOption = Unset <=> p.exitUnder = Unset
                       /\ p.status = "CLOSED" => exits \in Quotes
                       /\ p.status = "EXPIRED" => p.expired
                       /\ p.status = "ACTIVE" => ~p.expired /\ exits \notin Quotes
                       /\ i \notin raced =>
                            /\ marks \in Quotes
                            /\ ~(p.expired /\ exits \in Quotes)
                            /\ p.freshness = "stale" <=> p.status = "EXPIRED"
  BY DEF RowsHonest
<1> DEFINE p == positions[i]
<1>1. Whole(p) /\ (i \notin raced => Serial(p))  BY DEF DeskInv, RowInv
<1> HIDE DEF p
<1>2. p.exitOption = Unset <=> p.exitUnder = Unset
  <2>1. CASE Exits(p) \in Quotes  BY <2>1, PairOrNone DEF Unset
  <2>2. CASE Exits(p) \notin Quotes  BY <1>1, <2>2 DEF Whole
  <2> QED  BY <2>1, <2>2
<1>3. p.status = "ACTIVE" => ~p.expired /\ Exits(p) \notin Quotes
  BY <1>1, PairOrNone DEF Whole, Fresh, Unset
<1>4. /\ p.status = "CLOSED" => Exits(p) \in Quotes
      /\ p.status = "EXPIRED" => p.expired
  BY <1>1 DEF Whole
<1>5. i \notin raced =>
        /\ Marks(p) \in Quotes /\ ~(p.expired /\ Exits(p) \in Quotes)
        /\ p.freshness = "stale" <=> p.status = "EXPIRED"
  BY <1>1 DEF Serial
<1> QED  BY <1>2, <1>3, <1>4, <1>5 DEF p, Marks, Exits

\* RowsHonest: a position's columns make sense together, and those of a position
\* nobody wrote from an outdated copy look as if all requests had run in turn
\* (routes.py exit and list, paper_positions.py refresh, signal_engine.py alerts).
THEOREM RowsAlwaysHonest == DeskSpec => []RowsHonest
  BY InitDesk, NextDesk, DeskHonest, PTL DEF DeskSpec

\* What one step may do to rows that have ended.
LEMMA StepKeepsEndings ==
  ASSUME DeskInv, [DeskNext]_deskVars
  PROVE  \A i \in Ids :
           LET p == positions[i] q == positions'[i] IN
           p.status # "ACTIVE" =>
             /\ q.status # "ACTIVE"
             /\ q # p => \E a \in Actors :
                  /\ Works(a, i) /\ work'[a] # work[a]
                  /\ work[a].copy[i].status = "ACTIVE"
<1> SUFFICES ASSUME NEW i \in Ids, positions[i].status # "ACTIVE"
             PROVE  /\ positions'[i].status # "ACTIVE"
                    /\ positions'[i] # positions[i] => \E a \in Actors :
                         /\ Works(a, i) /\ work'[a] # work[a]
                         /\ work[a].copy[i].status = "ACTIVE"
  OBVIOUS
<1>1. CASE UNCHANGED <<positions, raced>>  BY <1>1
<1>2. ASSUME NEW t \in Threads, OpenPosition(t) PROVE positions'[i] = positions[i]
  <2>1. positions \in Seq(Row)  BY DEF DeskInv, DeskTypeOK
  <2> QED  BY <1>2, <2>1 DEF OpenPosition, Ids
<1>3. ASSUME NEW a \in Actors, NEW j \in Ids, WritesRow(a, j)
      PROVE  /\ positions'[i].status # "ACTIVE"
             /\ positions'[i] # positions[i] => \E b \in Actors :
                  /\ Works(b, i) /\ work'[b] # work[b]
                  /\ work[b].copy[i].status = "ACTIVE"
  <2>1. /\ positions'[i].status = "ACTIVE" => positions[i].status = "ACTIVE"
        /\ positions'[i] # positions[i] => i = j
    BY <1>3, WritesRows
  <2>2. Works(a, j) /\ Does(a, Onward(a, j))  BY <1>3 DEF WritesRow
  <2>3. work'[a] # work[a]  BY <2>2, OnwardJob DEF Does, DeskInv, DeskTypeOK
  <2>4. work[a].copy[j].status = "ACTIVE"  BY <2>2, OnwardFresh DEF DeskInv, Fresh
  <2> QED  BY <2>1, <2>2, <2>3, <2>4
<1> QED  BY <1>1, <1>2, <1>3, StepKinds

LEMMA StepEndings ==
  DeskInv /\ [DeskNext]_deskVars =>
    [\A i \in Ids :
       LET p == positions[i] q == positions'[i] IN
       p.status # "ACTIVE" =>
         /\ q.status # "ACTIVE"
         /\ q # p => \E a \in Actors :
              /\ Works(a, i) /\ work'[a] # work[a]
              /\ work[a].copy[i].status = "ACTIVE"]_positions
  BY StepKeepsEndings

\* EndingsKept: no position comes back, and an ended one is written only by an
\* actor that read it while it was active (the merge of a stale copy's commit).
THEOREM EndingsAlwaysKept == DeskSpec => EndingsKept
<1>1. DeskInv /\ [DeskNext]_deskVars =>
        [\A i \in Ids :
           LET p == positions[i] q == positions'[i] IN
           p.status # "ACTIVE" =>
             /\ q.status # "ACTIVE"
             /\ q # p => \E a \in Actors :
                  /\ Works(a, i) /\ work'[a] # work[a]
                  /\ work[a].copy[i].status = "ACTIVE"]_positions
  BY StepEndings
<1> QED  BY <1>1, InitDesk, NextDesk, PTL DEF DeskSpec, EndingsKept

\* PositionsHonest: whatever requests, scans and the expiration do to a position
\* in whatever order, its row makes sense and its ending is not undone.
THEOREM PositionsAlwaysHonest == DeskSpec => PositionsHonest
  BY RowsAlwaysHonest, EndingsAlwaysKept DEF PositionsHonest
-----------------------------------------------------------------------------
(* Limits *)

LEMMA Shrinks ==
  ASSUME NEW A, NEW B, IsFiniteSet(A), IsFiniteSet(B), NEW C \in SUBSET A, NEW D \in SUBSET B
  PROVE  Cardinality(C) + Cardinality(D) <= Cardinality(A) + Cardinality(B)
<1>1. /\ Cardinality(C) <= Cardinality(A) /\ Cardinality(D) <= Cardinality(B)
      /\ IsFiniteSet(C) /\ IsFiniteSet(D)
  BY FS_Subset
<1>2. {Cardinality(A), Cardinality(B), Cardinality(C), Cardinality(D)} \subseteq Nat
  BY <1>1, FS_CardinalityType
<1> QED  BY <1>1, <1>2

\* A request in flight becomes a row.
LEMMA Moves ==
  ASSUME NEW A, NEW B, IsFiniteSet(A), IsFiniteSet(B), NEW x, NEW t \in B,
         NEW C \in SUBSET (A \cup {x}), NEW D \in SUBSET (B \ {t})
  PROVE  Cardinality(C) + Cardinality(D) <= Cardinality(A) + Cardinality(B)
<1>1. /\ IsFiniteSet(A \cup {x}) /\ Cardinality(A \cup {x}) \in {Cardinality(A), Cardinality(A) + 1}
      /\ IsFiniteSet(B \ {t}) /\ Cardinality(B \ {t}) = Cardinality(B) - 1
  BY FS_AddElement, FS_RemoveElement
<1>2. Cardinality(C) + Cardinality(D) <= Cardinality(A \cup {x}) + Cardinality(B \ {t})
  BY <1>1, Shrinks
<1>3. /\ IsFiniteSet(C) /\ IsFiniteSet(D)  BY <1>1, FS_Subset
<1>4. {Cardinality(A), Cardinality(B), Cardinality(C), Cardinality(D)} \subseteq Nat
  BY <1>3, FS_CardinalityType
<1> QED  BY <1>1, <1>2, <1>4

\* Requests between their check and their insert.
Entering(c) == {t \in Threads : work[t].op = "entry" /\ work[t].contract = c}
Submitting  == {t \in Threads : work[t].op = "submit"}
Watching    == {t \in Threads : work[t].op = "watch"}

\* A row made for a request takes its place.
EntriesFit == \A c \in Contracts :
  Cardinality(Active(c)) + Cardinality(Entering(c)) <= Cardinality(Threads)
RunsFit == Cardinality(Running) + Cardinality(Submitting) <= Cardinality(Threads)
WatchFits ==
  /\ Cardinality(Watched(day)) + Cardinality(Watching) < WatchLimit + Cardinality(Threads)
  /\ \A d \in 0..day : Cardinality(Watched(d)) < WatchLimit + Cardinality(Threads)
  /\ \A d, s : <<d, s>> \in watch => d \in 0..day
  /\ WatchLimit = 0 => Watching = {}
LimitInv == EntriesFit /\ RunsFit /\ WatchFits

LEMMA Finite ==
  ASSUME DeskTypeOK
  PROVE  /\ \A c : IsFiniteSet(Active(c)) /\ IsFiniteSet(Entering(c))
         /\ IsFiniteSet(Running) /\ IsFiniteSet(Submitting) /\ IsFiniteSet(Watching)
         /\ \A d : IsFiniteSet(Watched(d))
         /\ Cardinality(Threads) \in Nat \ {0}
<1>1. IsFiniteSet(Ids) /\ IsFiniteSet(DOMAIN backtests)
  <2>1. Ids = 1..Len(positions) /\ DOMAIN backtests = 1..Len(backtests)
        /\ Len(positions) \in Nat /\ Len(backtests) \in Nat
    BY DEF DeskTypeOK, Ids
  <2> QED  BY <2>1, FS_Interval
<1>2. IsFiniteSet(Threads) /\ IsFiniteSet(Symbols)  BY DeskAssumption
<1>3. /\ \A c : Active(c) \in SUBSET Ids /\ Entering(c) \in SUBSET Threads
      /\ Running \in SUBSET DOMAIN backtests
      /\ Submitting \in SUBSET Threads /\ Watching \in SUBSET Threads
      /\ \A d : Watched(d) \in SUBSET Symbols
  BY DEF Active, Entering, Running, Submitting, Watching, Watched
<1>4. Cardinality(Threads) \in Nat \ {0}
  <2>1. Cardinality(Threads) \in Nat  BY <1>2, FS_CardinalityType
  <2>2. Cardinality(Threads) # 0  BY <1>2, FS_EmptySet, DeskAssumption
  <2> QED  BY <2>1, <2>2
<1> QED  BY <1>1, <1>2, <1>3, <1>4, FS_Subset

\* Who is between a check and an insert after a step.
LEMMA InFlight ==
  ASSUME DeskInv, [DeskNext]_deskVars
  PROVE  /\ \A c \in Contracts :
              \/ Entering(c)' \subseteq Entering(c)
              \/ \E t \in Threads : AskEntry(t, c)
         /\ Submitting' \subseteq Submitting \/ \E t \in Threads : AskBacktest(t)
         /\ Watching' \subseteq Watching \/ \E t \in Threads, s \in Symbols : AskWatch(t, s)
<1>a. \A t \in Threads : t \in Actors  BY DEF Actors
<1>b. DOMAIN work = Actors  BY DEF DeskInv, DeskTypeOK
<1>c. ASSUME NEW a \in Actors, NEW job, Does(a, job)
      PROVE  \A t \in Threads : work'[t] = IF t = a THEN job ELSE work[t]
  BY <1>a, <1>b, <1>c DEF Does
<1>1. ASSUME NEW t \in Threads, NEW k \in Contracts, AskEntry(t, k)
      PROVE  /\ \A c \in Contracts : c = k \/ Entering(c)' \subseteq Entering(c)
             /\ Submitting' \subseteq Submitting /\ Watching' \subseteq Watching
  <2> DEFINE job == [op |-> "entry", contract |-> k]
  <2>1. job.op = "entry" /\ job.contract = k  OBVIOUS
  <2>2. Does(t, job)  BY <1>1 DEF AskEntry, Begins
  <2> HIDE DEF job
  <2>3. \A u \in Threads : work'[u] = IF u = t THEN job ELSE work[u]  BY <1>a, <1>c, <2>2
  <2> QED  BY <2>1, <2>3 DEF Entering, Submitting, Watching
<1>2. ASSUME NEW t \in Threads, NEW s \in Symbols, AskWatch(t, s)
      PROVE  /\ \A c \in Contracts : Entering(c)' \subseteq Entering(c)
             /\ Submitting' \subseteq Submitting
  <2> DEFINE job == [op |-> "watch", symbol |-> s]
  <2>1. job.op = "watch"  OBVIOUS
  <2>2. Does(t, job)  BY <1>2 DEF AskWatch, Begins
  <2> HIDE DEF job
  <2>3. \A u \in Threads : work'[u] = IF u = t THEN job ELSE work[u]  BY <1>a, <1>c, <2>2
  <2> QED  BY <2>1, <2>3 DEF Entering, Submitting
<1>3. ASSUME NEW t \in Threads, AskBacktest(t)
      PROVE  /\ \A c \in Contracts : Entering(c)' \subseteq Entering(c)
             /\ Watching' \subseteq Watching
  <2> DEFINE job == [op |-> "submit"]
  <2>1. job.op = "submit"  OBVIOUS
  <2>2. Does(t, job)  BY <1>3 DEF AskBacktest, Begins
  <2> HIDE DEF job
  <2>3. \A u \in Threads : work'[u] = IF u = t THEN job ELSE work[u]  BY <1>a, <1>c, <2>2
  <2> QED  BY <2>1, <2>3 DEF Entering, Watching
<1>4. CASE UNCHANGED work  BY <1>4 DEF Entering, Submitting, Watching
<1>5. ASSUME NEW a \in Actors, NEW job, Does(a, job), job.op \notin Adding
      PROVE  /\ \A c \in Contracts : Entering(c)' \subseteq Entering(c)
             /\ Submitting' \subseteq Submitting /\ Watching' \subseteq Watching
  <2>1. \A u \in Threads : work'[u] = IF u = a THEN job ELSE work[u]  BY <1>c, <1>5
  <2> QED  BY <1>5, <2>1 DEF Entering, Submitting, Watching, Adding
<1> QED  BY <1>1, <1>2, <1>3, <1>4, <1>5, StepJobs

\* A thread that inserts is in flight no longer.
LEMMA Lands ==
  ASSUME DeskTypeOK, NEW t \in Threads, NEW job, Does(t, job), job.op \notin Adding
  PROVE  /\ \A c : Entering(c)' \subseteq Entering(c) \ {t}
         /\ Submitting' \subseteq Submitting \ {t} /\ Watching' \subseteq Watching \ {t}
<1>1. \A u \in Threads : work'[u] = IF u = t THEN job ELSE work[u]
  BY DEF Does, DeskTypeOK, Actors
<1> QED  BY <1>1 DEF Entering, Submitting, Watching, Adding

\* Rows that count against a limit are added by the inserts alone.
LEMMA ActiveStep ==
  ASSUME DeskInv, [DeskNext]_deskVars, NEW c \in Contracts
  PROVE  \/ Active(c)' \subseteq Active(c)
         \/ \E t \in Threads : OpenPosition(t) /\ work[t].contract = c
                               /\ Active(c)' \subseteq Active(c) \cup {Len(positions) + 1}
<1>1. CASE UNCHANGED <<positions, raced>>  BY <1>1 DEF Active, Ids
<1>2. ASSUME NEW a \in Actors, NEW i \in Ids, WritesRow(a, i)
      PROVE  Active(c)' \subseteq Active(c)
  BY <1>2, WritesRows DEF Active, Ids
<1>3. ASSUME NEW t \in Threads, OpenPosition(t)
      PROVE  \/ Active(c)' \subseteq Active(c)
             \/ /\ work[t].contract = c
                /\ Active(c)' \subseteq Active(c) \cup {Len(positions) + 1}
  <2>1. PICK quote \in EntryQuotes :
          positions' = Append(positions, Opened(work[t].contract, quote))
    BY <1>3 DEF OpenPosition
  <2> DEFINE n == Len(positions) + 1
             new == Opened(work[t].contract, quote)
  <2>2. new.contract = work[t].contract  BY DEF Opened
  <2> HIDE DEF new
  <2>3. positions \in Seq(Row)  BY DEF DeskInv, DeskTypeOK
  <2>4. /\ Ids' = Ids \cup {n} /\ positions'[n] = new
        /\ \A j \in Ids : positions'[j] = positions[j]
    BY <2>1, <2>3 DEF Ids, new
  <2> QED  BY <2>2, <2>4 DEF Active
<1> QED  BY <1>1, <1>2, <1>3, StepKinds

LEMMA EntriesStep == DeskInv /\ EntriesFit /\ [DeskNext]_deskVars => EntriesFit'
<1> SUFFICES ASSUME DeskInv, EntriesFit, [DeskNext]_deskVars, NEW c \in Contracts
             PROVE  Cardinality(Active(c)') + Cardinality(Entering(c)') <= Cardinality(Threads)
  BY DEF EntriesFit
<1>1. /\ IsFiniteSet(Active(c)) /\ IsFiniteSet(Entering(c)) /\ Cardinality(Threads) \in Nat
      /\ IsFiniteSet(Threads) /\ Entering(c)' \subseteq Threads
      /\ Cardinality(Active(c)) + Cardinality(Entering(c)) <= Cardinality(Threads)
  BY Finite, DeskAssumption DEF DeskInv, EntriesFit, Entering
<1>2. IsFiniteSet(Active(c)') /\ IsFiniteSet(Entering(c)')
  <2>1. DeskTypeOK'  BY NextType DEF DeskInv
  <2>2. IsFiniteSet(Active(c)')
    <3>1. Active(c)' \subseteq Active(c) \cup {Len(positions) + 1}  BY ActiveStep
    <3> QED  BY <1>1, <3>1, FS_AddElement, FS_Subset
  <2> QED  BY <1>1, <2>2, FS_Subset
<1>n. {Cardinality(Active(c)), Cardinality(Entering(c)), Cardinality(Active(c)'),
       Cardinality(Entering(c)')} \subseteq Nat
  BY <1>1, <1>2, FS_CardinalityType
<1>3. ASSUME NEW t \in Threads, AskEntry(t, c)
      PROVE  Cardinality(Active(c)') + Cardinality(Entering(c)') <= Cardinality(Threads)
  <2>1. Active(c)' = {}  BY <1>3 DEF AskEntry, NoDuplicate, Active, Ids, tables
  <2>2. Cardinality(Active(c)') = 0  BY <2>1, FS_EmptySet
  <2>3. Cardinality(Entering(c)') <= Cardinality(Threads)  BY <1>1, FS_Subset
  <2> QED  BY <1>1, <1>n, <2>2, <2>3
<1>4. ASSUME NEW t \in Threads, OpenPosition(t), work[t].contract = c,
             Active(c)' \subseteq Active(c) \cup {Len(positions) + 1}
      PROVE  Cardinality(Active(c)') + Cardinality(Entering(c)') <= Cardinality(Threads)
  <2>1. t \in Entering(c)  BY <1>4 DEF OpenPosition, Entering
  <2> DEFINE job == [op |-> "link", id |-> Len(positions) + 1]
  <2>2. Does(t, job) /\ job.op \notin Adding  BY <1>4 DEF OpenPosition, Adding
  <2> HIDE DEF job
  <2>3. Entering(c)' \subseteq Entering(c) \ {t}  BY <2>2, Lands DEF DeskInv
  <2>4. Cardinality(Active(c)') + Cardinality(Entering(c)')
          <= Cardinality(Active(c)) + Cardinality(Entering(c))
    BY <1>1, <1>4, <2>1, <2>3, Moves
  <2> QED  BY <1>1, <1>n, <2>4
<1>5. ASSUME Active(c)' \subseteq Active(c), Entering(c)' \subseteq Entering(c)
      PROVE  Cardinality(Active(c)') + Cardinality(Entering(c)') <= Cardinality(Threads)
  <2>1. Cardinality(Active(c)') + Cardinality(Entering(c)')
          <= Cardinality(Active(c)) + Cardinality(Entering(c))
    BY <1>1, <1>5, Shrinks
  <2> QED  BY <1>1, <1>n, <2>1
<1> QED  BY <1>3, <1>4, <1>5, ActiveStep, InFlight

LEMMA RunningStep ==
  ASSUME DeskInv, [DeskNext]_deskVars
  PROVE  \/ Running' \subseteq Running
         \/ \E t \in Threads : StartBacktest(t)
                               /\ Running' \subseteq Running \cup {Len(backtests) + 1}
<1>0. backtests \in Seq(Verdicts)  BY DEF DeskInv, DeskTypeOK, Verdicts
<1>1. CASE UNCHANGED backtests  BY <1>1 DEF Running
<1>2. ASSUME NEW t \in Threads, FinishBacktest(t) PROVE Running' \subseteq Running
  <2>1. PICK failures \in SUBSET Tickers :
          backtests' = [backtests EXCEPT ![work[t].run] = Verdict(failures)]
    BY <1>2 DEF FinishBacktest
  <2>2. Verdict(failures) # "RUNNING"  BY DEF Verdict
  <2>3. DOMAIN backtests' = DOMAIN backtests
        /\ \A n \in DOMAIN backtests : backtests'[n] \in {backtests[n], Verdict(failures)}
    BY <1>0, <2>1
  <2> QED  BY <2>2, <2>3 DEF Running
<1>3. ASSUME NEW t \in Threads, StartBacktest(t)
      PROVE  Running' \subseteq Running \cup {Len(backtests) + 1}
  <2>1. /\ DOMAIN backtests' = DOMAIN backtests \cup {Len(backtests) + 1}
        /\ \A n \in DOMAIN backtests : backtests'[n] = backtests[n]
    BY <1>0, <1>3 DEF StartBacktest
  <2> QED  BY <2>1 DEF Running
<1>4. ASSUME NEW t \in Threads, Serve(t)
      PROVE  UNCHANGED backtests \/ StartBacktest(t) \/ FinishBacktest(t)
  BY <1>4 DEF Serve, Entry, AskEntry, OpenPosition, LinkSignal, EnterLifecycle, AskExit, AskList,
     ClosePosition, AskWatch, AddWatch, AskBacktest, tables
<1>5. ASSUME NEW a \in Actors, HandleRow(a) PROVE UNCHANGED backtests
  BY <1>5 DEF HandleRow, Expire, NotExpired, NoMark, Refresh, tables
<1>6. (\E a \in Actors : Fail(a)) \/ BeginScan \/ EndScan \/ (\E c \in Contracts : EndSetup(c))
      \/ (\E s \in Symbols : RemoveWatch(s)) \/ Midnight \/ UNCHANGED deskVars
      => UNCHANGED backtests
  BY DEF Fail, BeginScan, EndScan, EndSetup, RemoveWatch, Midnight, tables, deskVars
<1> QED  BY <1>1, <1>2, <1>3, <1>4, <1>5, <1>6 DEF DeskNext

LEMMA RunsStep == DeskInv /\ RunsFit /\ [DeskNext]_deskVars => RunsFit'
<1> SUFFICES ASSUME DeskInv, RunsFit, [DeskNext]_deskVars
             PROVE  Cardinality(Running') + Cardinality(Submitting') <= Cardinality(Threads)
  BY DEF RunsFit
<1>1. /\ IsFiniteSet(Running) /\ IsFiniteSet(Submitting) /\ Cardinality(Threads) \in Nat
      /\ IsFiniteSet(Threads) /\ Submitting' \subseteq Threads
      /\ Cardinality(Running) + Cardinality(Submitting) <= Cardinality(Threads)
  BY Finite, DeskAssumption DEF DeskInv, RunsFit, Submitting
<1>2. IsFiniteSet(Running') /\ IsFiniteSet(Submitting')
  <2>1. Running' \subseteq Running \cup {Len(backtests) + 1}  BY RunningStep
  <2> QED  BY <1>1, <2>1, FS_AddElement, FS_Subset
<1>n. {Cardinality(Running), Cardinality(Submitting), Cardinality(Running'),
       Cardinality(Submitting')} \subseteq Nat
  BY <1>1, <1>2, FS_CardinalityType
<1>3. ASSUME NEW t \in Threads, AskBacktest(t)
      PROVE  Cardinality(Running') + Cardinality(Submitting') <= Cardinality(Threads)
  <2>1. Running' = {}  BY <1>3 DEF AskBacktest, NoneRuns, Running, tables
  <2>2. Cardinality(Running') = 0  BY <2>1, FS_EmptySet
  <2>3. Cardinality(Submitting') <= Cardinality(Threads)  BY <1>1, FS_Subset
  <2> QED  BY <1>1, <1>n, <2>2, <2>3
<1>4. ASSUME NEW t \in Threads, StartBacktest(t),
             Running' \subseteq Running \cup {Len(backtests) + 1}
      PROVE  Cardinality(Running') + Cardinality(Submitting') <= Cardinality(Threads)
  <2>1. t \in Submitting  BY <1>4 DEF StartBacktest, Submitting
  <2> DEFINE job == [op |-> "replay", run |-> Len(backtests) + 1]
  <2>2. Does(t, job) /\ job.op \notin Adding  BY <1>4 DEF StartBacktest, Adding
  <2> HIDE DEF job
  <2>3. Submitting' \subseteq Submitting \ {t}  BY <2>2, Lands DEF DeskInv
  <2>4. Cardinality(Running') + Cardinality(Submitting')
          <= Cardinality(Running) + Cardinality(Submitting)
    BY <1>1, <1>4, <2>1, <2>3, Moves
  <2> QED  BY <1>1, <1>n, <2>4
<1>5. ASSUME Running' \subseteq Running, Submitting' \subseteq Submitting
      PROVE  Cardinality(Running') + Cardinality(Submitting') <= Cardinality(Threads)
  <2>1. Cardinality(Running') + Cardinality(Submitting')
          <= Cardinality(Running) + Cardinality(Submitting)
    BY <1>1, <1>5, Shrinks
  <2> QED  BY <1>1, <1>n, <2>1
<1> QED  BY <1>3, <1>4, <1>5, RunningStep, InFlight

LEMMA WatchStep ==
  ASSUME DeskInv, [DeskNext]_deskVars
  PROVE  \/ Midnight
         \/ day' = day /\ watch' \subseteq watch
         \/ \E t \in Threads : AddWatch(t)
<1>1. ASSUME NEW t \in Threads, Serve(t)
      PROVE  AddWatch(t) \/ UNCHANGED <<day, watch>>
  BY <1>1 DEF Serve, Entry, AskEntry, OpenPosition, LinkSignal, EnterLifecycle, AskExit, AskList,
     ClosePosition, AskWatch, AskBacktest, StartBacktest, FinishBacktest, tables
<1>2. ASSUME NEW a \in Actors, HandleRow(a) PROVE UNCHANGED <<day, watch>>
  BY <1>2 DEF HandleRow, Expire, NotExpired, NoMark, Refresh, tables
<1>3. (\E a \in Actors : Fail(a)) \/ BeginScan \/ EndScan \/ (\E c \in Contracts : EndSetup(c))
      \/ UNCHANGED deskVars => UNCHANGED <<day, watch>>
  BY DEF Fail, BeginScan, EndScan, EndSetup, tables, deskVars
<1>4. ASSUME NEW s \in Symbols, RemoveWatch(s) PROVE day' = day /\ watch' \subseteq watch
  BY <1>4 DEF RemoveWatch
<1> QED  BY <1>1, <1>2, <1>3, <1>4 DEF DeskNext

\* The slots of one day while that day lasts.
LEMMA SlotsStep ==
  ASSUME DeskInv, WatchFits, [DeskNext]_deskVars, day' = day
  PROVE  /\ Cardinality(Watched(day)') + Cardinality(Watching') < WatchLimit + Cardinality(Threads)
         /\ IsFiniteSet(Watched(day)') /\ IsFiniteSet(Watching')
<1>1. /\ IsFiniteSet(Watched(day)) /\ IsFiniteSet(Watching) /\ Cardinality(Threads) \in Nat
      /\ IsFiniteSet(Threads) /\ Watching' \subseteq Threads /\ WatchLimit \in Nat /\ day \in Nat
      /\ Cardinality(Watched(day)) + Cardinality(Watching) < WatchLimit + Cardinality(Threads)
  BY Finite, DeskAssumption DEF DeskInv, WatchFits, Watching, DeskTypeOK
<1>2. IsFiniteSet(Watched(day)') /\ IsFiniteSet(Watching')
  <2>1. Watched(day)' \subseteq Symbols  BY DEF Watched
  <2> QED  BY <1>1, <2>1, DeskAssumption, FS_Subset
<1>n. {Cardinality(Watched(day)), Cardinality(Watching), Cardinality(Watched(day)'),
       Cardinality(Watching')} \subseteq Nat
  BY <1>1, <1>2, FS_CardinalityType
<1>3. ASSUME NEW t \in Threads, NEW s \in Symbols, AskWatch(t, s)
      PROVE  Cardinality(Watched(day)') + Cardinality(Watching') < WatchLimit + Cardinality(Threads)
  <2>1. Watched(day)' = Watched(day)  BY <1>3 DEF AskWatch, Watched, tables
  <2>2. Cardinality(Watched(day)') < WatchLimit  BY <1>3, <2>1 DEF AskWatch, SlotFree
  <2>3. Cardinality(Watching') <= Cardinality(Threads)  BY <1>1, FS_Subset
  <2> QED  BY <1>1, <1>n, <2>2, <2>3
<1>4. ASSUME NEW t \in Threads, AddWatch(t)
      PROVE  Cardinality(Watched(day)') + Cardinality(Watching') < WatchLimit + Cardinality(Threads)
  <2>1. t \in Watching  BY <1>4 DEF AddWatch, Watching
  <2>2. Watched(day)' \subseteq Watched(day) \cup {work[t].symbol}
    BY <1>4 DEF AddWatch, Watched
  <2>3. Watching' \subseteq Watching \ {t}
    <3>1. Does(t, Idle) /\ Idle.op \notin Adding  BY <1>4 DEF AddWatch, Idle, Adding
    <3> QED  BY <3>1, Lands DEF DeskInv
  <2>4. Cardinality(Watched(day)') + Cardinality(Watching')
          <= Cardinality(Watched(day)) + Cardinality(Watching)
    BY <1>1, <2>1, <2>2, <2>3, Moves
  <2> QED  BY <1>1, <1>n, <2>4
<1>5. ASSUME watch' \subseteq watch, Watching' \subseteq Watching
      PROVE  Cardinality(Watched(day)') + Cardinality(Watching') < WatchLimit + Cardinality(Threads)
  <2>1. Watched(day)' \subseteq Watched(day)  BY <1>5 DEF Watched
  <2>2. Cardinality(Watched(day)') + Cardinality(Watching')
          <= Cardinality(Watched(day)) + Cardinality(Watching)
    BY <1>1, <1>5, <2>1, Shrinks
  <2> QED  BY <1>1, <1>n, <2>2
<1>6. ~Midnight  BY <1>1 DEF Midnight
<1>7. watch' \subseteq watch \/ \E t \in Threads : AddWatch(t)  BY <1>6, WatchStep
<1> QED  BY <1>2, <1>3, <1>4, <1>5, <1>7, InFlight

LEMMA WatchesStep == DeskInv /\ WatchFits /\ [DeskNext]_deskVars => WatchFits'
<1> SUFFICES ASSUME DeskInv, WatchFits, [DeskNext]_deskVars PROVE WatchFits'  OBVIOUS
<1>1. /\ day \in Nat /\ WatchLimit \in Nat /\ Cardinality(Threads) \in Nat \ {0}
      /\ IsFiniteSet(Threads) /\ Watching \subseteq Threads
      /\ IsFiniteSet(Watching)
  BY Finite, DeskAssumption DEF DeskInv, DeskTypeOK, Watching
<1>2. WatchLimit = 0 => Watching' = {}
  <2>1. SUFFICES ASSUME WatchLimit = 0 PROVE Watching' = {}  OBVIOUS
  <2>2. Watching = {}  BY <2>1 DEF WatchFits
  <2>3. ASSUME NEW t \in Threads, NEW s \in Symbols, AskWatch(t, s) PROVE FALSE
    <3>1. Cardinality(Watched(day)) \in Nat  BY Finite, FS_CardinalityType DEF DeskInv
    <3> QED  BY <2>1, <2>3, <3>1 DEF AskWatch, SlotFree
  <2> QED  BY <2>2, <2>3, InFlight
<1>3. CASE Midnight
  <2>1. day' = day + 1 /\ watch' = watch /\ work' = work  BY <1>3 DEF Midnight, tables
  <2>2. \A d, s : <<d, s>> \in watch => d \in 0..day  BY DEF WatchFits
  <2>3. Watched(day)' = {}  BY <1>1, <2>1, <2>2 DEF Watched
  <2>4. Watching' = Watching  BY <2>1 DEF Watching
  <2>5. /\ Cardinality(Watched(day)') = 0 /\ Cardinality(Watching) \in Nat
        /\ Cardinality(Watching) <= Cardinality(Threads)
        /\ Watching = {} => Cardinality(Watching) = 0
    BY <1>1, <2>3, FS_EmptySet, FS_Subset, FS_CardinalityType
  <2>6. Cardinality(Watched(day)') + Cardinality(Watching') < WatchLimit + Cardinality(Threads)
    <3>1. CASE WatchLimit = 0  BY <1>1, <1>2, <2>4, <2>5, <3>1
    <3>2. CASE WatchLimit # 0  BY <1>1, <2>4, <2>5, <3>2
    <3> QED  BY <3>1, <3>2
  <2>7. \A d \in 0..day' :
          Cardinality(Watched(d)') < WatchLimit + Cardinality(Threads)
    <3>1. ASSUME NEW d \in 0..day
          PROVE  Cardinality(Watched(d)') < WatchLimit + Cardinality(Threads)
      <4>1. Watched(d)' = Watched(d)  BY <2>1 DEF Watched
      <4> QED  BY <4>1 DEF WatchFits
    <3>2. ASSUME NEW d \in {day + 1}
          PROVE  Cardinality(Watched(d)') < WatchLimit + Cardinality(Threads)
      <4>1. Watched(d)' = {}  BY <1>1, <2>1, <2>2 DEF Watched
      <4> QED  BY <1>1, <4>1, FS_EmptySet
    <3>3. 0..day' = 0..day \cup {day + 1}  BY <1>1, <2>1
    <3> QED  BY <3>1, <3>2, <3>3
  <2>8. \A d, s : <<d, s>> \in watch' => d \in 0..day'  BY <1>1, <2>1, <2>2
  <2> QED  BY <1>2, <2>6, <2>7, <2>8 DEF WatchFits
<1>4. CASE day' = day
  <2>1. /\ Cardinality(Watched(day)') + Cardinality(Watching') < WatchLimit + Cardinality(Threads)
        /\ IsFiniteSet(Watched(day)') /\ IsFiniteSet(Watching')
    BY <1>4, SlotsStep
  <2>2. Cardinality(Watched(day)') < WatchLimit + Cardinality(Threads)
    BY <1>1, <2>1, FS_CardinalityType
  <2>3. ~Midnight  BY <1>1, <1>4 DEF Midnight
  <2>4. watch' \subseteq watch \/ \E t \in Threads : watch' = watch \cup {<<day, work[t].symbol>>}
    BY <2>3, WatchStep DEF AddWatch
  <2>5. ASSUME NEW d \in 0..day, d # day
        PROVE  Cardinality(Watched(d)') < WatchLimit + Cardinality(Threads)
    <3>1. Watched(d)' \subseteq Watched(d)  BY <2>4, <2>5 DEF Watched
    <3>2. IsFiniteSet(Watched(d)) /\ Cardinality(Watched(d)) < WatchLimit + Cardinality(Threads)
      BY Finite DEF DeskInv, WatchFits
    <3>3. /\ Cardinality(Watched(d)') <= Cardinality(Watched(d)) /\ IsFiniteSet(Watched(d)')
      BY <3>1, <3>2, FS_Subset
    <3>4. Cardinality(Watched(d)') \in Nat /\ Cardinality(Watched(d)) \in Nat
      BY <3>2, <3>3, FS_CardinalityType
    <3> QED  BY <1>1, <3>2, <3>3, <3>4
  <2>6. \A d \in 0..day : Cardinality(Watched(d)') < WatchLimit + Cardinality(Threads)
    <3>1. Watched(day)' = {s \in Symbols : <<day, s>> \in watch'}  BY <1>4 DEF Watched
    <3>2. \A d : Watched(d)' = {s \in Symbols : <<d, s>> \in watch'}  BY DEF Watched
    <3> QED  BY <1>4, <2>2, <2>5, <3>1, <3>2
  <2>7. \A d, s : <<d, s>> \in watch' => d \in 0..day'
    BY <1>1, <1>4, <2>4 DEF WatchFits
  <2> QED  BY <1>2, <1>4, <2>1, <2>6, <2>7 DEF WatchFits
<1> QED  BY <1>3, <1>4, WatchStep DEF AddWatch

LEMMA InitLimits == DeskInit => LimitInv
<1> SUFFICES ASSUME DeskInit PROVE LimitInv  OBVIOUS
<1>1. /\ Ids = {} /\ DOMAIN backtests = {} /\ day = 0 /\ watch = {}
      /\ \A t \in Threads : work[t] = Idle
  BY DEF DeskInit, Ids, Actors
<1>2. /\ \A c : Active(c) = {} /\ Entering(c) = {}
      /\ Running = {} /\ Submitting = {} /\ Watching = {} /\ \A d : Watched(d) = {}
  BY <1>1 DEF Active, Entering, Running, Submitting, Watching, Watched, Idle
<1>3. Cardinality(Threads) \in Nat \ {0} /\ WatchLimit \in Nat
  BY InitType, Finite, DeskAssumption
<1>4. EntriesFit /\ RunsFit  BY <1>2, <1>3, FS_EmptySet DEF EntriesFit, RunsFit
<1>5. Cardinality(Watched(day)) = 0 /\ Cardinality(Watching) = 0
      /\ \A d : Cardinality(Watched(d)) = 0
  <2>1. Watched(day) = {}  BY <1>2
  <2> QED  BY <1>2, <2>1, FS_EmptySet
<1>6. WatchFits  BY <1>1, <1>2, <1>3, <1>5 DEF WatchFits
<1> QED  BY <1>4, <1>6 DEF LimitInv

LEMMA NextLimits == DeskInv /\ LimitInv /\ [DeskNext]_deskVars => LimitInv'
  BY EntriesStep, RunsStep, WatchesStep DEF LimitInv

LEMMA InvLimits == DeskInv /\ LimitInv => LimitsBound
<1> SUFFICES ASSUME DeskInv, LimitInv PROVE LimitsBound  OBVIOUS
<1>1. Cardinality(Threads) \in Nat \ {0} /\ WatchLimit \in Nat
  BY Finite, DeskAssumption DEF DeskInv
<1>2. \A c \in Contracts : Cardinality(Active(c)) <= Cardinality(Threads)
  <2>1. \A c \in Contracts : /\ Cardinality(Active(c)) \in Nat /\ Cardinality(Entering(c)) \in Nat
                             /\ Cardinality(Active(c)) + Cardinality(Entering(c)) <= Cardinality(Threads)
    BY Finite, FS_CardinalityType DEF DeskInv, LimitInv, EntriesFit
  <2> QED  BY <1>1, <2>1
<1>3. Cardinality(Running) <= Cardinality(Threads)
  <2>1. /\ Cardinality(Running) \in Nat /\ Cardinality(Submitting) \in Nat
        /\ Cardinality(Running) + Cardinality(Submitting) <= Cardinality(Threads)
    BY Finite, FS_CardinalityType DEF DeskInv, LimitInv, RunsFit
  <2> QED  BY <1>1, <2>1
<1>4. \A d \in 0..day : Cardinality(Watched(d)) <= WatchLimit + (Cardinality(Threads) - 1)
  <2>1. \A d \in 0..day : /\ Cardinality(Watched(d)) \in Nat
                          /\ Cardinality(Watched(d)) < WatchLimit + Cardinality(Threads)
    BY Finite, FS_CardinalityType DEF DeskInv, LimitInv, WatchFits
  <2> QED  BY <1>1, <2>1
<1> QED  BY <1>1, <1>2, <1>3, <1>4 DEF LimitsBound

\* LimitsBound: however the checks and inserts of overlapping requests interleave,
\* they exceed a limit by fewer rows than there are request threads
\* (paper_positions.py duplicate check, routes.py watch slots, backtest.py RUNNING check).
THEOREM LimitsHold == DeskSpec => []LimitsBound
<1>1. DeskInit => DeskInv /\ LimitInv  BY InitDesk, InitLimits
<1>2. DeskInv /\ LimitInv /\ [DeskNext]_deskVars => DeskInv' /\ LimitInv'  BY NextDesk, NextLimits
<1> QED  BY <1>1, <1>2, InvLimits, PTL DEF DeskSpec
-----------------------------------------------------------------------------
(* CandleStream *)

USE StreamAssumption DEF Generations, None

\* Days are counted upwards, and a day's first minute is not negative.
LEMMA Days ==
  ASSUME NEW t \in Nat
  PROVE  Day(t) \in Nat /\ Day(t) <= Day(t + 1)
<1>1. DayLength \in Nat /\ DayLength > 0
  OBVIOUS
<1>2. /\ t \div DayLength \in Int /\ t % DayLength \in 0 .. (DayLength - 1)
      /\ t = DayLength * (t \div DayLength) + (t % DayLength)
  BY <1>1, Z3
<1> QED  BY <1>1, <1>2, Z3 DEF Day

LEMMA FirstMinute ==
  ASSUME NEW d \in Nat
  PROVE  d * DayLength \in Nat
  BY Z3
-----------------------------------------------------------------------------
(* The stream lock, and which streams run. *)

\* A stream that has a thread has a day, and a packet in hand is a candle.
StreamsOK ==
  \A g \in Generations :
    /\ stream[g].at # "new" => stream[g].day \in Nat
    /\ stream[g].at = "delivering" => stream[g].packet \in Minutes

\* No stream was made for a generation to come, nor for the one being opened.
Unmade ==
  /\ \A g \in Generations : g > generation => stream[g].at = "new"
  /\ Holding(reader) => /\ reader.made = generation /\ reader.made \in Generations
                        /\ stream[reader.made].at = "new" /\ streamDay \in Nat

\* The lock excludes the other thread, and its holder left no current stream.
Locked ==
  /\ ~(Holding(reader) /\ Holding(closer))
  /\ Holding(reader) \/ Holding(closer) => current = None
  /\ reader.pc = "stopping" => reader.old \in Generations
  /\ closer.pc = "stopping" => closer.old \in Generations
  /\ closer.pc \in {"idle", "stopping", "joining"}
  /\ reader.pc = "ensuring" => generation < MaxGenerations

\* Only the stream that the holder is about to stop runs without being current.
Orphans ==
  \A g \in Generations : Runs(g) => \/ g = current
                                    \/ reader.pc = "stopping" /\ g = reader.old
                                    \/ closer.pc = "stopping" /\ g = closer.old

StreamInv == TypeOK /\ StreamsOK /\ Unmade /\ Locked /\ Orphans /\ FedByCurrentStream

LEMMA InitStream == Init => StreamInv
<1> SUFFICES ASSUME Init PROVE StreamInv
  OBVIOUS
<1>1. TypeOK
  <2>1. NoStream \in StreamType
    BY DEF NoStream, StreamType, Steps
  <2>2. Resting \in ThreadType
    BY DEF Resting, ThreadType, Phases
  <2>3. 0 \in Minutes /\ 0 \in 0..MaxGenerations
    BY DEF Minutes
  <2>4. warmed \in BOOLEAN
    BY Zenon DEF Init
  <2>5. stream \in [Generations -> StreamType]
    BY <2>1 DEF Init
  <2> HIDE DEF Generations
  <2> QED  BY <2>2, <2>3, <2>4, <2>5 DEF Init, TypeOK
<1>2. StreamsOK /\ Unmade /\ Locked /\ Orphans
  BY DEF Init, StreamsOK, Unmade, Locked, Orphans, NoStream, Resting, Holding, Runs
<1>3. FedByCurrentStream
  BY DEF Init, FedByCurrentStream
<1> QED  BY <1>1, <1>2, <1>3 DEF StreamInv

\* What a step of stream g's thread may do to the streams: it changes its own
\* place and packet.
OwnStep(g) ==
  /\ stream' \in [Generations -> StreamType]
  /\ \A h \in Generations : h # g => stream'[h] = stream[h]
  /\ stream'[g].day = stream[g].day /\ stream'[g].stopped = stream[g].stopped
  /\ stream[g].at # "new" /\ stream'[g].at # "new"
  /\ stream'[g].at = "delivering" => stream'[g].packet \in Minutes

\* What a delivery of stream g may do to the cache.
Delivery(g) ==
  \E m \in Minutes :
    /\ cache' = {c \in cache : c.minute # m} \cup {[minute |-> m, by |-> g]}
    /\ latest' = Greater(latest, m)
    /\ g = generation /\ Day(m) = streamDay /\ Regular(m)

LEMMA ThreadStep ==
  ASSUME StreamInv, NEW g \in Generations, Thread(g)
  PROVE  /\ OwnStep(g)
         /\ UNCHANGED <<clock, generation, current, streamDay, warmed, reader, closer,
                        closedOn, entry>>
         /\ UNCHANGED <<cache, latest>> \/ Delivery(g)
<1>1. /\ stream \in [Generations -> StreamType] /\ stream[g] \in StreamType
      /\ clock \in Minutes
  BY DEF StreamInv, TypeOK
<1>2. CASE End(g) \/ Connect(g) \/ Receive(g) \/ Nothing(g) \/ Retry(g)
  <2>1. PICK at \in {"ended", "session", "receiving", "waiting", "loop"} : At(g, at)
    BY <1>2 DEF End, Connect, Receive, Nothing, Retry
  <2>2. stream[g].at # "new"
    BY <1>2 DEF End, Leaves, Connect, Receive, Nothing, Retry
  <2>3. UNCHANGED <<clock, feed, latest, reader, closer, closedOn, entry>>
    BY <1>2 DEF End, Connect, Receive, Nothing, Retry
  <2>4. OwnStep(g)
    BY <1>1, <2>1, <2>2 DEF At, OwnStep, StreamType, Steps
  <2> QED  BY <2>3, <2>4 DEF feed
<1>3. CASE Got(g)
  <2>1. PICK m \in (stream[g].day * DayLength) .. clock :
          stream' = [stream EXCEPT ![g].at = "delivering", ![g].packet = m]
    BY <1>3 DEF Got
  <2>2. stream[g].day \in Nat /\ stream[g].at # "new"
    BY <1>3 DEF Got, StreamInv, StreamsOK
  <2>3. m \in Minutes
    <3>1. stream[g].day * DayLength \in Nat
      BY <2>2, FirstMinute
    <3> QED  BY <1>1, <3>1 DEF Minutes
  <2>4. OwnStep(g)
    BY <1>1, <2>1, <2>2, <2>3 DEF OwnStep, StreamType, Steps
  <2>5. UNCHANGED <<clock, feed, latest, reader, closer, closedOn, entry>>
    BY <1>3 DEF Got
  <2> QED  BY <2>4, <2>5 DEF feed
<1>4. CASE Deliver(g)
  <2>1. stream[g].packet \in Minutes /\ stream[g].at # "new"
    BY <1>4 DEF Deliver, StreamInv, StreamsOK
  <2>2. OwnStep(g)
    BY <1>1, <1>4, <2>1 DEF Deliver, OwnStep, StreamType, Steps
  <2>3. UNCHANGED <<cache, latest>> \/ Delivery(g)
    BY <1>4, <2>1 DEF Deliver, Delivery, Expected, Advance
  <2>4. UNCHANGED <<clock, generation, current, streamDay, warmed, reader, closer,
                    closedOn, entry>>
    BY <1>4 DEF Deliver
  <2> QED  BY <2>2, <2>3, <2>4
<1> QED  BY <1>2, <1>3, <1>4 DEF Thread

LEMMA ThreadKeeps ==
  ASSUME StreamInv, NEW g \in Generations, Thread(g)
  PROVE  StreamInv'
<1>1. OwnStep(g)
  BY ThreadStep
<1>2. UNCHANGED <<clock, generation, current, streamDay, warmed, reader, closer, closedOn, entry>>
  BY ThreadStep
<1>3. UNCHANGED <<cache, latest>> \/ Delivery(g)
  BY ThreadStep
<1>4. /\ latest' \in Minutes
      /\ cache' \subseteq [minute : Minutes, by : Generations]
      /\ FedByCurrentStream'
  <2>1. CASE UNCHANGED <<cache, latest>>
    BY <1>2, <2>1 DEF StreamInv, TypeOK, FedByCurrentStream
  <2>2. CASE Delivery(g)
    <3>1. PICK m \in Minutes :
            /\ cache' = {c \in cache : c.minute # m} \cup {[minute |-> m, by |-> g]}
            /\ latest' = Greater(latest, m)
            /\ g = generation /\ Day(m) = streamDay /\ Regular(m)
      BY <2>2 DEF Delivery
    <3>2. latest' \in Minutes
      BY <3>1 DEF StreamInv, TypeOK, Greater
    <3>3. cache' \subseteq [minute : Minutes, by : Generations]
      BY <3>1 DEF StreamInv, TypeOK
    <3>4. ASSUME NEW c \in cache'
          PROVE  c.by = generation /\ Day(c.minute) = streamDay /\ Regular(c.minute)
      BY <3>1, <3>4 DEF StreamInv, FedByCurrentStream
    <3> QED  BY <1>2, <3>2, <3>3, <3>4 DEF FedByCurrentStream
  <2> QED  BY <1>3, <2>1, <2>2
<1>5. TypeOK'
  BY <1>1, <1>2, <1>4 DEF StreamInv, TypeOK, OwnStep
<1>6. StreamsOK'
  BY <1>1 DEF OwnStep, StreamsOK, StreamInv
<1>7. Unmade'
  BY <1>1, <1>2 DEF OwnStep, Unmade, StreamInv, Holding
<1>8. Locked'
  BY <1>2 DEF Locked, StreamInv, Holding
<1>9. Orphans'
  BY <1>1, <1>2 DEF OwnStep, Orphans, StreamInv, Runs
<1> QED  BY <1>4, <1>5, <1>6, <1>7, <1>8, <1>9 DEF StreamInv

\* Steps in which neither the streams, nor the generation, nor the locks move.
LEMMA QuietKeeps ==
  ASSUME StreamInv, UNCHANGED <<generation, current, streamDay, cache, stream, closer>>,
         TypeOK', Holding(reader)' => Holding(reader) /\ reader'.made = reader.made,
         reader.pc # "stopping" /\ reader'.pc # "stopping",
         reader'.pc = "ensuring" => generation < MaxGenerations
  PROVE  StreamInv'
<1>1. StreamsOK'
  BY DEF StreamInv, StreamsOK
<1>2. Unmade' /\ Locked'
  BY DEF StreamInv, Unmade, Locked, Holding
<1>3. Orphans' /\ FedByCurrentStream'
  BY DEF StreamInv, Orphans, Runs, FedByCurrentStream
<1> QED  BY <1>1, <1>2, <1>3 DEF StreamInv

\* The steps of a read that stay outside the stream lock, or leave it.
LEMMA OutsideKeeps ==
  ASSUME StreamInv,
         BeginRead \/ Reuse \/ JoinRotated \/ NoCredentials \/ WarmUp \/ Read \/ Wake \/ Store
  PROVE  StreamInv'
<1>1. /\ UNCHANGED <<clock, generation, current, streamDay, cache, latest, stream, closer, closedOn>>
      /\ warmed' \in BOOLEAN
  <2>1. warmed' = warmed \/ warmed' = TRUE
    BY DEF BeginRead, Reuse, JoinRotated, NoCredentials, WarmUp, Read, Wake, Store, feed
  <2>2. warmed' \in BOOLEAN
    BY <2>1, Zenon DEF StreamInv, TypeOK
  <2> QED  BY <2>2 DEF BeginRead, Reuse, JoinRotated, NoCredentials, WarmUp, Read, Wake, Store, feed
<1>2. reader \in ThreadType /\ entry \subseteq Minutes
  BY DEF StreamInv, TypeOK
<1>3. {c.minute : c \in cache} \subseteq Minutes
  BY DEF StreamInv, TypeOK
<1>4. /\ reader' \in ThreadType
      /\ Holding(reader)' => Holding(reader) /\ reader'.made = reader.made
      /\ reader.pc # "stopping" /\ reader'.pc # "stopping"
      /\ reader'.pc = "ensuring" => generation < MaxGenerations
  <2>1. CASE BeginRead \/ Store
    BY <2>1 DEF BeginRead, Store, Resting, ThreadType, Phases, Holding
  <2>2. CASE Reuse \/ JoinRotated \/ NoCredentials \/ WarmUp
    <3>1. PICK pc \in {"reading", "opening", "warming"} : reader' = [reader EXCEPT !.pc = pc]
      BY <2>2 DEF Reuse, JoinRotated, NoCredentials, WarmUp
    <3>2. reader.pc \in {"ensuring", "joining", "opening", "reading"}
          /\ (pc = "opening" => reader.pc = "joining")
      BY <1>2, <2>2, <3>1 DEF Reuse, JoinRotated, NoCredentials, WarmUp, ThreadType
    <3> QED  BY <1>2, <3>1, <3>2 DEF ThreadType, Phases, Holding
  <2>3. CASE Read \/ Wake
    <3>1. Take /\ reader.pc \in {"reading", "warming"}
      BY <2>3 DEF Read, Wake, Wakes
    <3>2. reader' = [reader EXCEPT !.pc = "storing", !.rows = {c.minute : c \in cache}]
      BY <3>1 DEF Take
    <3>3. reader'.pc = "storing" /\ reader' \in ThreadType
      BY <1>2, <1>3, <3>2 DEF ThreadType, Phases
    <3> QED  BY <3>1, <3>3 DEF Holding
  <2> QED  BY <2>1, <2>2, <2>3
<1>5. entry' \subseteq Minutes
  <2>1. CASE Store
    BY <1>2, <2>1 DEF Store, Kept, ThreadType
  <2>2. CASE ~Store
    BY <1>2, <2>2 DEF BeginRead, Reuse, JoinRotated, NoCredentials, WarmUp, Read, Wake
  <2> QED  BY <2>1, <2>2
<1>6. TypeOK'
  BY <1>1, <1>4, <1>5 DEF StreamInv, TypeOK
<1> QED  BY <1>1, <1>4, <1>6, QuietKeeps

\* Whoever takes the stream lock leaves no current stream and an empty cache.
LEMMA RotateKeeps ==
  ASSUME StreamInv, Rotate
  PROVE  StreamInv'
<1>1. /\ UNCHANGED <<clock, latest, stream, closer, closedOn, entry>>
      /\ generation' = generation + 1 /\ current' = None /\ streamDay' = Day(clock)
      /\ cache' = {} /\ warmed' = FALSE
      /\ ~Holding(reader) /\ ~Holding(closer) /\ generation < MaxGenerations
  BY DEF Rotate, Invalidate, LockFree, StreamInv, Locked
<1>2. /\ reader \in ThreadType /\ current \in Generations \cup {None}
      /\ generation \in 0..MaxGenerations /\ clock \in Nat
  BY DEF StreamInv, TypeOK, Minutes
<1>3. Day(clock) \in Nat
  BY <1>2, Days
<1>4. PICK pc \in {"opening", "stopping"} :
        /\ pc = "stopping" => current # None
        /\ pc = "opening" => current = None
        /\ reader' = [reader EXCEPT !.pc = pc, !.old = current, !.made = generation + 1]
  BY DEF Rotate
<1>5. /\ reader' \in ThreadType
      /\ reader'.pc = pc /\ reader'.old = current /\ reader'.made = generation + 1
  <2>1. generation + 1 \in Generations
    BY <1>1, <1>2
  <2> HIDE DEF Generations
  <2> QED  BY <1>2, <1>4, <2>1 DEF ThreadType, Phases
<1>6. TypeOK'
  <2>1. warmed' \in BOOLEAN
    BY <1>1, Zenon
  <2> QED  BY <1>1, <1>2, <1>3, <1>5, <2>1 DEF StreamInv, TypeOK
<1>7. StreamsOK'
  BY <1>1 DEF StreamInv, StreamsOK
<1>8. Unmade'
  BY <1>1, <1>2, <1>3, <1>5 DEF StreamInv, Unmade, Holding
<1>9. Locked'
  BY <1>1, <1>2, <1>4, <1>5 DEF StreamInv, Locked, Holding
<1>10. Orphans'
  BY <1>1, <1>4, <1>5 DEF StreamInv, Orphans, Runs, Holding
<1>11. FedByCurrentStream'
  BY <1>1 DEF FedByCurrentStream
<1> QED  BY <1>6, <1>7, <1>8, <1>9, <1>10, <1>11 DEF StreamInv

LEMMA CloseKeeps ==
  ASSUME StreamInv, Close
  PROVE  StreamInv'
<1>1. /\ UNCHANGED <<clock, warmed, latest, stream, reader, entry>>
      /\ generation' = generation + 1 /\ current' = None /\ streamDay' = None
      /\ cache' = {} /\ closedOn' = Day(clock)
      /\ ~Holding(reader) /\ ~Holding(closer) /\ generation + 1 < MaxGenerations
  BY DEF Close, Invalidate, LockFree
<1>2. /\ current \in Generations \cup {None}
      /\ generation \in 0..MaxGenerations /\ clock \in Nat
  BY DEF StreamInv, TypeOK, Minutes
<1>3. Day(clock) \in Nat
  BY <1>2, Days
<1>4. /\ closer' \in ThreadType
      /\ \/ closer'.pc = "idle" /\ current = None
         \/ closer'.pc = "stopping" /\ closer'.old = current /\ current # None
  BY <1>2 DEF Close, Resting, ThreadType, Phases
<1>5. TypeOK'
  <2> HIDE DEF Generations
  <2> QED  BY <1>1, <1>2, <1>3, <1>4 DEF StreamInv, TypeOK
<1>6. StreamsOK'
  BY <1>1 DEF StreamInv, StreamsOK
<1>7. Unmade'
  BY <1>1, <1>2 DEF StreamInv, Unmade, Holding
<1>8. Locked'
  BY <1>1, <1>2, <1>4 DEF StreamInv, Locked, Holding
<1>9. Orphans'
  BY <1>1, <1>4 DEF StreamInv, Orphans, Runs, Holding
<1>10. FedByCurrentStream'
  BY <1>1 DEF FedByCurrentStream
<1> QED  BY <1>5, <1>6, <1>7, <1>8, <1>9, <1>10 DEF StreamInv

\* The holder's stream is stopped, and no stream is left to run.
LEMMA StopKeeps ==
  ASSUME StreamInv, StopRotated \/ StopClosed
  PROVE  StreamInv'
<1>1. PICK g \in Generations :
        /\ Stop(g)
        /\ \/ /\ reader.pc = "stopping" /\ g = reader.old /\ closer' = closer
              /\ reader' = [reader EXCEPT !.pc = "joining", !.old = None]
           \/ /\ closer.pc = "stopping" /\ g = closer.old /\ reader' = reader
              /\ closer' = [closer EXCEPT !.pc = "joining", !.old = None]
  BY DEF StopRotated, StopClosed, StreamInv, Locked
<1>2. UNCHANGED <<clock, generation, current, streamDay, cache, warmed, latest, closedOn, entry>>
  BY DEF StopRotated, StopClosed, feed
<1>3. /\ stream \in [Generations -> StreamType]
      /\ reader \in ThreadType /\ closer \in ThreadType
  BY DEF StreamInv, TypeOK
<1>4. /\ stream' \in [Generations -> StreamType]
      /\ \A h \in Generations : /\ stream'[h].at = stream[h].at /\ stream'[h].day = stream[h].day
                                /\ stream'[h].packet = stream[h].packet
                                /\ stream'[h].stopped = (h = g \/ stream[h].stopped)
  BY <1>1, <1>3 DEF Stop, StreamType
<1>5. /\ reader' \in ThreadType /\ closer' \in ThreadType
      /\ reader'.made = reader.made
      /\ \/ reader.pc = "stopping" /\ reader'.pc = "joining" /\ closer'.pc = closer.pc
         \/ closer.pc = "stopping" /\ closer'.pc = "joining" /\ reader'.pc = reader.pc
  BY <1>1, <1>3 DEF ThreadType, Phases
<1>6. TypeOK'
  BY <1>2, <1>4, <1>5 DEF StreamInv, TypeOK
<1>7. StreamsOK'
  BY <1>4 DEF StreamInv, StreamsOK
<1>8. Unmade'
  BY <1>2, <1>4, <1>5 DEF StreamInv, Unmade, Holding
<1>9. Locked'
  BY <1>1, <1>2, <1>5 DEF StreamInv, Locked, Holding
<1>10. Orphans'
  <2>1. ASSUME NEW h \in Generations, Runs(h)'
        PROVE  h = current
    <3>1. h # g /\ Runs(h)
      BY <1>4, <2>1 DEF Runs
    <3>2. ~(reader.pc = "stopping" /\ closer.pc = "stopping")
      BY DEF StreamInv, Locked, Holding
    <3> QED  BY <1>1, <3>1, <3>2 DEF StreamInv, Orphans
  <2> QED  BY <1>2, <2>1 DEF Orphans
<1>11. FedByCurrentStream'
  BY <1>2 DEF StreamInv, FedByCurrentStream
<1> QED  BY <1>6, <1>7, <1>8, <1>9, <1>10, <1>11 DEF StreamInv

LEMMA OpenKeeps ==
  ASSUME StreamInv, Open
  PROVE  StreamInv'
<1>1. /\ UNCHANGED <<clock, generation, streamDay, cache, latest, closer, closedOn, entry>>
      /\ current' = reader.made /\ reader' = [reader EXCEPT !.pc = "reading"]
      /\ reader.pc = "opening"
  BY DEF Open
<1>2. reader.made = generation /\ reader.made \in Generations /\ streamDay \in Nat
  BY <1>1 DEF StreamInv, Unmade, Holding
<1>3. /\ stream \in [Generations -> StreamType] /\ reader \in ThreadType
  BY DEF StreamInv, TypeOK
<1>4. NoStream \in StreamType
  BY DEF NoStream, StreamType, Steps
<1>5. PICK new \in StreamType :
        /\ new.at = "loop" /\ new.day = streamDay
        /\ stream' = [stream EXCEPT ![reader.made] = new]
  <2>1. [NoStream EXCEPT !.day = streamDay, !.at = "loop"] \in StreamType
    <3>1. [NoStream EXCEPT !.day = streamDay] \in StreamType
      BY <1>2, <1>4 DEF StreamType
    <3> DEFINE dated == [NoStream EXCEPT !.day = streamDay]
    <3> HIDE DEF dated
    <3>2. [dated EXCEPT !.at = "loop"] \in StreamType
      BY <3>1 DEF StreamType, Steps, dated
    <3> QED  BY <3>2 DEF dated
  <2>2. /\ [NoStream EXCEPT !.day = streamDay, !.at = "loop"].at = "loop"
        /\ [NoStream EXCEPT !.day = streamDay, !.at = "loop"].day = streamDay
    BY <1>4 DEF StreamType
  <2> QED  BY <2>1, <2>2, Zenon DEF Open
<1>7. /\ stream' \in [Generations -> StreamType]
      /\ \A h \in Generations : h # reader.made => stream'[h] = stream[h]
      /\ stream'[reader.made].at = "loop" /\ stream'[reader.made].day = streamDay
  BY <1>2, <1>3, <1>5
<1>8. reader' \in ThreadType /\ reader'.pc = "reading"
  BY <1>1, <1>3 DEF ThreadType, Phases
<1>9. TypeOK'
  <2>1. warmed' \in BOOLEAN
    BY Zenon DEF Open
  <2> QED  BY <1>1, <1>2, <1>7, <1>8, <2>1 DEF StreamInv, TypeOK
<1>10. StreamsOK'
  BY <1>2, <1>7 DEF StreamInv, StreamsOK
<1>11. Unmade'
  BY <1>1, <1>2, <1>7, <1>8 DEF StreamInv, TypeOK, Unmade, Holding
<1>12. ~Holding(closer) /\ current = None
  BY <1>1 DEF StreamInv, Locked, Holding
<1>13. Locked'
  BY <1>1, <1>8, <1>12 DEF StreamInv, Locked, Holding
<1>14. Orphans'
  <2>1. ASSUME NEW h \in Generations, Runs(h)', h # reader.made
        PROVE  FALSE
    <3>1. Runs(h)
      BY <1>7, <2>1 DEF Runs
    <3> QED  BY <1>1, <1>12, <3>1 DEF StreamInv, Orphans, Holding
  <2> QED  BY <1>1, <2>1 DEF Orphans
<1>15. FedByCurrentStream'
  BY <1>1 DEF StreamInv, FedByCurrentStream
<1> QED  BY <1>9, <1>10, <1>11, <1>13, <1>14, <1>15 DEF StreamInv

\* The closer lets go of the lock; a quote, a minute or nothing happens.
LEMMA OtherKeeps ==
  ASSUME StreamInv, JoinClosed \/ Quote \/ Tick \/ UNCHANGED vars
  PROVE  StreamInv'
<1>1. UNCHANGED <<generation, current, streamDay, cache, warmed, stream, reader, closedOn, entry>>
  BY DEF JoinClosed, Quote, Tick, vars, feed
<1>2. clock' \in Minutes /\ latest' \in Minutes
  BY DEF StreamInv, TypeOK, JoinClosed, Quote, Tick, vars, Advance, Greater, Minutes
<1>3. closer' = closer \/ (closer.pc = "joining" /\ closer' = Resting)
  BY DEF JoinClosed, Quote, Tick, vars
<1>4. closer' \in ThreadType
  BY <1>3 DEF StreamInv, TypeOK, Resting, ThreadType, Phases
<1>5. TypeOK'
  BY <1>1, <1>2, <1>4 DEF StreamInv, TypeOK
<1>6. StreamsOK' /\ Unmade'
  BY <1>1 DEF StreamInv, StreamsOK, Unmade, Holding
<1>7. closer' = closer \/ (closer.pc = "joining" /\ closer'.pc = "idle")
  BY <1>3 DEF Resting
<1>8. Locked' /\ Orphans'
  BY <1>1, <1>7 DEF StreamInv, Locked, Orphans, Runs, Holding
<1>9. FedByCurrentStream'
  BY <1>1 DEF StreamInv, FedByCurrentStream
<1> QED  BY <1>5, <1>6, <1>8, <1>9 DEF StreamInv
-----------------------------------------------------------------------------
LEMMA NextStream == StreamInv /\ [Next]_vars => StreamInv'
<1> SUFFICES ASSUME StreamInv, [Next]_vars PROVE StreamInv'
  OBVIOUS
<1>1. ASSUME NEW g \in Generations, Thread(g) PROVE StreamInv'
  BY <1>1, ThreadKeeps
<1>2. CASE BeginRead \/ Reuse \/ JoinRotated \/ NoCredentials \/ WarmUp \/ Read \/ Wake \/ Store
  BY <1>2, OutsideKeeps
<1>3. CASE Rotate
  BY <1>3, RotateKeeps
<1>4. CASE StopRotated \/ StopClosed
  BY <1>4, StopKeeps
<1>5. CASE Open
  BY <1>5, OpenKeeps
<1>6. CASE Close
  BY <1>6, CloseKeeps
<1>7. CASE JoinClosed \/ Quote \/ Tick \/ UNCHANGED vars
  BY <1>7, OtherKeeps
<1> QED  BY <1>1, <1>2, <1>3, <1>4, <1>5, <1>6, <1>7 DEF Next, Reading, Closing

LEMMA AlwaysStream == Spec => []StreamInv
<1> QED  BY InitStream, NextStream, PTL DEF Spec

\* The provider's attributes and its threads' locals keep their types, however
\* reads, rotations, closes and outliving threads interleave.
THEOREM TypeCorrect == Spec => []TypeOK
<1>1. StreamInv => TypeOK
  BY DEF StreamInv
<1> QED  BY <1>1, AlwaysStream, PTL

\* The candle cache (_candle_cache) only ever holds regular candles of the
\* stream's day that the current generation's stream delivered, for any number
\* of rotations, same-day reconnects and threads that outlived their join.
THEOREM OnlyCurrentFeeds == Spec => []FedByCurrentStream
<1>1. StreamInv => FedByCurrentStream
  BY DEF StreamInv
<1> QED  BY <1>1, AlwaysStream, PTL

\* At most one stream runs (_rotate_candle_stream, close): the current one, or
\* the one that the holder of the stream lock is about to stop.
THEOREM OneRuns == Spec => []OneStreamRuns
<1>1. StreamInv => OneStreamRuns
  <2>1. ASSUME StreamInv, NEW g \in Generations, Runs(g)
        PROVE  /\ g \in {current, reader.old, closer.old}
               /\ \A h \in Generations : Runs(h) => g = h
    BY <2>1 DEF StreamInv, Orphans, Locked, Holding
  <2> QED  BY <2>1 DEF OneStreamRuns
<1> QED  BY <1>1, AlwaysStream, PTL
-----------------------------------------------------------------------------
(* The history that is served never goes back. *)

\* What was kept or read is of the stream's day at the latest, and what was
\* read is not of an earlier day than what is kept.
HistoryInv ==
  /\ streamDay # None => streamDay <= Day(clock)
  /\ \A m \in entry \cup reader.rows :
       Day(m) <= Day(clock) /\ (streamDay # None => Day(m) <= streamDay)
  /\ \A m \in entry, n \in reader.rows : Day(m) <= Day(n)

LEMMA InitHistory == Init => HistoryInv
<1> QED  BY DEF Init, HistoryInv, Resting

\* Steps that read and store nothing, and keep or forget the stream's day.
LEMMA IdleHistory ==
  ASSUME HistoryInv, UNCHANGED <<clock, entry>>,
         streamDay' \in {streamDay, None}, reader'.rows \in {reader.rows, {}}
  PROVE  HistoryInv'
<1>1. entry' \cup reader'.rows \subseteq entry \cup reader.rows /\ reader'.rows \subseteq reader.rows
  OBVIOUS
<1>2. Day(clock)' = Day(clock)
  BY DEF Day
<1> QED  BY <1>1, <1>2 DEF HistoryInv

LEMMA NextHistory == StreamInv /\ HistoryInv /\ [Next]_vars => HistoryInv'
<1> SUFFICES ASSUME StreamInv, HistoryInv, [Next]_vars PROVE HistoryInv'
  OBVIOUS
<1> USE DEF HistoryInv
<1>1. /\ reader \in ThreadType /\ clock \in Nat /\ clock \in Minutes /\ streamDay \in Int
      /\ entry \subseteq Minutes /\ reader.rows \subseteq Minutes
  BY DEF StreamInv, TypeOK, ThreadType, Minutes
<1>2. \A m \in Minutes : Day(m) \in Nat
  BY Days DEF Minutes
<1>3. ASSUME NEW g \in Generations, Thread(g) PROVE HistoryInv'
  BY <1>3, ThreadStep, IdleHistory
<1>4. CASE \/ BeginRead \/ Reuse \/ StopRotated \/ JoinRotated \/ NoCredentials \/ Open
           \/ WarmUp \/ Closing \/ Quote \/ UNCHANGED vars
  <2>1. UNCHANGED <<clock, entry>> /\ streamDay' \in {streamDay, None}
    BY <1>4 DEF BeginRead, Reuse, StopRotated, JoinRotated, NoCredentials, Open, WarmUp,
                Closing, Close, Invalidate, StopClosed, JoinClosed, Quote, vars, feed
  <2>2. reader'.rows \in {reader.rows, {}}
    BY <1>1, <1>4 DEF BeginRead, Reuse, StopRotated, JoinRotated, NoCredentials, Open, WarmUp,
                Closing, Close, StopClosed, JoinClosed, Quote, vars, Resting, ThreadType
  <2> QED  BY <2>1, <2>2, IdleHistory
<1>5. CASE Rotate
  <2>1. streamDay' = Day(clock) /\ UNCHANGED <<clock, entry>> /\ reader'.rows = reader.rows
    BY <1>1, <1>5 DEF Rotate, Invalidate, ThreadType
  <2>2. Day(clock)' = Day(clock)
    BY <2>1 DEF Day
  <2> QED  BY <1>1, <1>2, <2>1, <2>2
<1>6. CASE Read \/ Wake
  <2>1. UNCHANGED <<clock, entry, streamDay>> /\ reader'.rows = {c.minute : c \in cache}
    BY <1>1, <1>6 DEF Read, Wake, Take, feed, ThreadType
  <2>2. Day(clock)' = Day(clock)
    BY <2>1 DEF Day
  <2>3. ASSUME NEW n \in reader'.rows PROVE Day(n) = streamDay /\ n \in Minutes
    BY <2>1 DEF StreamInv, TypeOK, FedByCurrentStream
  <2>4. ASSUME NEW n \in reader'.rows PROVE streamDay # None /\ streamDay \in Nat
    BY <1>2, <2>3
  <2> QED  BY <1>1, <1>2, <2>1, <2>2, <2>3, <2>4
<1>7. CASE Store
  <2>1. UNCHANGED <<clock, streamDay>> /\ reader'.rows = {} /\ entry' \subseteq entry \cup reader.rows
    BY <1>7 DEF Store, Kept, Resting, feed
  <2>2. Day(clock)' = Day(clock)
    BY <2>1 DEF Day
  <2> QED  BY <2>1, <2>2
<1>8. CASE Tick
  <2>1. UNCHANGED <<streamDay, reader, entry>> /\ clock' = clock + 1
    BY <1>8 DEF Tick, feed
  <2>2. Day(clock)' = Day(clock + 1)
    BY <2>1 DEF Day
  <2>3. /\ Day(clock) <= Day(clock)' /\ Day(clock) \in Nat /\ Day(clock)' \in Nat
    <3>1. clock + 1 \in Nat
      BY <1>1
    <3> QED  BY <1>1, <2>2, <3>1, Days
  <2> QED  BY <1>1, <1>2, <2>1, <2>3
<1> QED  BY <1>3, <1>4, <1>5, <1>6, <1>7, <1>8 DEF Next, Reading

\* CachedMarketDataProvider._completed_candle_cache never goes from a session's
\* history to an earlier session's, nor to an empty one, for any number of
\* rotations, closes, failed reads and empty reads.
THEOREM HistoryStays == Spec => HistoryKept
<1>1. ASSUME StreamInv, HistoryInv, [Next]_vars
      PROVE  [entry # {} => entry' # {} /\ \A m \in entry, n \in entry' : Day(m) <= Day(n)]_entry
  <2>1. CASE Store
    <3>1. entry' = entry \/ (entry' # {} /\ entry' \subseteq reader.rows)
      BY <2>1 DEF Store, Kept
    <3>2. CASE entry' # {} /\ entry' \subseteq reader.rows
      BY <1>1, <3>2 DEF HistoryInv
    <3> QED  BY <3>1, <3>2
  <2>2. CASE \E g \in Generations : Thread(g)
    BY <2>2, <1>1, ThreadStep
  <2>3. CASE ~Store /\ ~(\E g \in Generations : Thread(g))
    BY <2>3, <1>1 DEF Next, Reading, Closing, BeginRead, Reuse, Rotate, StopRotated, JoinRotated,
         NoCredentials, Open, WarmUp, Read, Wake, Close, StopClosed, JoinClosed, Quote, Tick, vars
  <2> QED  BY <2>1, <2>2, <2>3
<1> QED  BY <1>1, InitHistory, NextHistory, AlwaysStream, PTL DEF Spec, HistoryKept

\* OneLiveStream: one stream runs and only its generation fills the cache, for
\* any number of rotations, closes and late threads.
THEOREM OneStreamLives == Spec => []OneLiveStream
<1> QED  BY OnlyCurrentFeeds, OneRuns, PTL DEF OneLiveStream
=============================================================================
