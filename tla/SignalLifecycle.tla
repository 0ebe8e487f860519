-------------------------- MODULE SignalLifecycle --------------------------
(***************************************************************************)
(* The lifecycle of one symbol's recommendations under one strategy, from  *)
(* services/signal_engine.py: a scan opens, re-verifies or ends a          *)
(* lifecycle row, a paper entry marks it ENTERED, and the housekeeping of  *)
(* the session's close, or of a restart, expires what is left.             *)
(*                                                                         *)
(* The sessions never refresh a loaded row (expire_on_commit is off) and   *)
(* an UPDATE carries single columns, so a handler is two steps: one that   *)
(* reads, and one that merges its changes into what the table holds then.  *)
(* verified_at and ended_at are left out: no decision reads them.          *)
(* A row's identity is its index in `rows`.  One tick is a minute; the     *)
(* model's minute t stands for the seconds after the boundary t.           *)
(***************************************************************************)
EXTENDS SessionRows, Sequences

CONSTANTS
  Candidates,   \* what the ranking may say, a set of Candidate records
  Entrants,     \* concurrent POST /paper-positions requests
  DayMinutes, SessionLength, \* ticks in a day and in its regular session
  Lags,         \* how far the evaluated candle may trail the last complete one
  LastScanAt, MaxWait, MaxClock, MaxRows, MaxRestarts   \* bounds of the exploration

ACTIVE_STATES == {"WATCH", "BUY"}
Terminal == {"ENTERED", "EXPIRED", "MISSED", "INVALIDATED"}
Directions == {"call", "put"}
Events == ACTIVE_STATES \cup Terminal \cup {"NEW_WATCH", "ENTRY_WINDOW_CLOSING"}

\* breached: the price is beyond the invalidation saved with the active row;
\* verified: the contract is actionable; closing: its ask is near the entry cap.
Candidate ==
  [signal : {"BUY", "WATCH", "MISSED", "PASS"}, direction : Directions \cup {"none"},
   breached : BOOLEAN, verified : BOOLEAN, closing : BOOLEAN]

ASSUME LifecycleAssumption ==
  /\ Candidates \subseteq Candidate
  /\ DayMinutes \in Nat \ {0} /\ SessionLength \in 1..DayMinutes
  /\ Lags \subseteq Nat /\ {LastScanAt, MaxWait, MaxClock, MaxRows, MaxRestarts} \subseteq Nat

VARIABLES
  clock,
  closedOn,  \* last day whose close had its housekeeping pass
  restarts,  \* how often the host was restarted
  rows,      \* SignalLifecycle rows, in order of insertion
  alerts,    \* SignalAlert keys: <<row, event type>>
  tracked,   \* SignalPerformance rows: <<lifecycle, status it was opened with>>
  scan,      \* the scan: its phase, its candle and what it will write
  entry      \* each entrant: its phase and the row it found

vars == <<clock, closedOn, restarts, rows, alerts, tracked, scan, entry>>

DayOf(t)     == t \div DayMinutes
InSession(t) == t - DayOf(t) * DayMinutes < SessionLength

NoRow   == [status |-> "NONE", direction |-> "none", day |-> None, validUntil |-> None]
NoCandidate == [signal |-> "PASS", direction |-> "none", breached |-> FALSE,
                verified |-> FALSE, closing |-> FALSE]
NoDraft == [candidate |-> NoCandidate, target |-> 0, old |-> NoRow, new |-> NoRow,
            fresh |-> <<>>, alerts |-> {}]
NoScan  == [pc |-> "idle", candle |-> None, draft |-> NoDraft]
NotEntered == [pc |-> "new", target |-> 0, old |-> NoRow]
-----------------------------------------------------------------------------
(* apply_lifecycle: what one candidate does to the active row *)

BuyRows == {i \in DOMAIN rows : rows[i].status = "BUY"}
ActiveRows == {i \in DOMAIN rows : rows[i].status \in ACTIVE_STATES}
ActiveBuys(day) == {i \in BuyRows : rows[i].day = day}
ActiveOn(day) == {i \in ActiveRows : rows[i].day = day}

Directed(c)     == c.direction \in Directions
Conflicts(c, r) == c.direction \notin {r.direction, "none"}
EndState(c)     == IF c.breached THEN "INVALIDATED" ELSE "EXPIRED"
Replaces(c, r)  == r.status = "BUY" /\ c.signal = "WATCH"

\* The status the candidate leaves an active row in.
Fate(c, r) ==
  IF Conflicts(c, r) \/ ~Directed(c) \/ c.signal = "PASS" THEN EndState(c)
  ELSE IF Replaces(c, r) THEN "EXPIRED" ELSE c.signal

Opens(c, actives) ==
  /\ Directed(c) /\ c.signal # "PASS"
  /\ \A i \in actives :
       Conflicts(c, rows[i]) \/ (c.signal # "MISSED" /\ Replaces(c, rows[i]))

\* valid_until is two minutes after the start of the evaluated candle.
Verified(r, c, candle) ==
  LET status == Fate(c, r)
  IN  IF status \in ACTIVE_STATES
      THEN [r EXCEPT !.status = status, !.validUntil = candle + 2]
      ELSE [r EXCEPT !.status = status, !.validUntil = None]

NewRow(c, candle) ==
  [status |-> c.signal, direction |-> c.direction, day |-> DayOf(candle + 1),
   validUntil |-> IF c.signal = "MISSED" THEN None ELSE candle + 2]

StatusAlert(i, was, is) == IF was = is THEN {} ELSE {<<i, is>>}
OpeningAlert(c) == IF c.signal = "WATCH" THEN "NEW_WATCH" ELSE c.signal
ClosingAlert(i, c) ==
  IF c.signal = "BUY" /\ Directed(c) /\ c.closing THEN {<<i, "ENTRY_WINDOW_CLOSING">>} ELSE {}

AttachedTarget(d, c) == d.target
\* The lifecycle the candidate is attached to, 0 when there is none.
Attached(d, c) ==
  IF d.fresh # <<>> THEN Len(rows) + 1
  ELSE IF d.target # 0 /\ ~Conflicts(c, d.old) THEN d.target ELSE 0

Draft(c, candle, actives) ==
  LET target == IF actives = {} THEN 0 ELSE CHOOSE i \in actives : \A j \in actives : j <= i
      old    == IF target = 0 THEN NoRow ELSE rows[target]
      new    == IF target = 0 THEN NoRow ELSE Verified(old, c, candle)
      opened == Opens(c, actives)
      id     == IF opened THEN Len(rows) + 1 ELSE target
  IN  [candidate |-> c, target |-> target, old |-> old, new |-> new,
       fresh |-> IF opened THEN <<NewRow(c, candle)>> ELSE <<>>,
       alerts |-> (IF target = 0 THEN {} ELSE StatusAlert(target, old.status, new.status))
                    \cup (IF opened THEN {<<id, OpeningAlert(c)>>} ELSE {})
                    \cup (IF id = 0 THEN {} ELSE ClosingAlert(id, c))]
-----------------------------------------------------------------------------
(* The scan: it chooses its candle, waits for SCAN_LOCK, decides, commits *)

BeginScan ==
  /\ scan.pc = "idle" /\ InSession(clock) /\ clock <= LastScanAt
  /\ \E lag \in Lags : clock - 1 - lag >= -1
                       /\ scan' = [NoScan EXCEPT !.pc = "waiting", !.candle = clock - 1 - lag]
  /\ UNCHANGED <<clock, closedOn, restarts, rows, alerts, tracked, entry>>

Decide ==
  /\ scan.pc = "waiting"
  /\ LET actives == ActiveOn(DayOf(scan.candle + 1))
     IN  \E c \in Candidates :
           /\ Opens(c, actives) => Len(rows) < MaxRows
           /\ scan' = [scan EXCEPT !.pc = "decided", !.draft = Draft(c, scan.candle, actives)]
  /\ UNCHANGED <<clock, closedOn, restarts, rows, alerts, tracked, entry>>

\* track_candidates: one SignalPerformance row per lifecycle, at the first BUY
\* or MISSED with a verified contract; its commit makes the lifecycle durable.
Tracks(c, id) ==
  /\ c.signal \in {"BUY", "MISSED"} /\ Directed(c) /\ c.verified
  /\ \A t \in tracked : t[1] # id

Commit ==
  /\ scan.pc = "decided"
  /\ LET d == scan.draft
         c == d.candidate
         kept == IF d.target = 0 THEN rows ELSE
                 [rows EXCEPT ![d.target] = Merge(@, d.old, d.new, {"validUntil"})]
     IN  /\ rows' = kept \o d.fresh
         /\ alerts' = alerts \cup d.alerts
         /\ tracked' = IF Tracks(c, Attached(d, c))
                       THEN tracked \cup {<<Attached(d, c), c.signal>>} ELSE tracked
  /\ scan' = NoScan
  /\ UNCHANGED <<clock, closedOn, restarts, entry>>

\* A provider or database error before the commit: nothing was written.
FailScan ==
  /\ scan.pc # "idle"
  /\ scan' = NoScan
  /\ UNCHANGED <<clock, closedOn, restarts, rows, alerts, tracked, entry>>
-----------------------------------------------------------------------------
(* mark_lifecycle_entered, after create_position committed its position *)

FindBuy(e) ==
  /\ entry[e].pc = "new" /\ InSession(clock)
  /\ \E i \in ActiveBuys(DayOf(clock)) :
       entry' = [entry EXCEPT ![e] = [pc |-> "found", target |-> i, old |-> rows[i]]]
  /\ UNCHANGED <<clock, closedOn, restarts, rows, alerts, tracked, scan>>

Entered(r) == [r EXCEPT !.status = "ENTERED", !.validUntil = None]

WriteEntered(e) ==
  /\ entry[e].pc = "found"
  /\ LET i == entry[e].target
     IN  /\ rows' = [rows EXCEPT ![i] = Merge(@, entry[e].old,
                                     Entered(entry[e].old), {"validUntil"})]
         /\ alerts' = alerts \cup {<<i, "ENTERED">>}
  /\ entry' = [entry EXCEPT ![e] = [NotEntered EXCEPT !.pc = "done"]]
  /\ UNCHANGED <<clock, closedOn, restarts, tracked, scan>>

\* The other entrant inserted the same alert key in between: IntegrityError.
LoseEntry(e) ==
  /\ entry[e].pc = "found" /\ <<entry[e].target, "ENTERED">> \in alerts
  /\ entry' = [entry EXCEPT ![e] = [NotEntered EXCEPT !.pc = "done"]]
  /\ UNCHANGED <<clock, closedOn, restarts, rows, alerts, tracked, scan>>
-----------------------------------------------------------------------------
(* expire_stale_lifecycles, at the close and at a start outside the session *)

StaleBuys == {i \in BuyRows : rows[i].validUntil # None /\ rows[i].validUntil <= clock}
Stale == {i \in ActiveRows : rows[i].validUntil # None /\ rows[i].validUntil <= clock}

Expired(r) == [r EXCEPT !.status = "EXPIRED", !.validUntil = None]

Expire ==
  /\ rows' = [i \in DOMAIN rows |-> IF i \in Stale THEN Expired(rows[i]) ELSE rows[i]]
  /\ alerts' = alerts \cup {<<i, "EXPIRED">> : i \in Stale}

\* session_close_housekeeping takes SCAN_LOCK, so it runs before or after a
\* scan's decision and commit, but also while a scan still waits for the lock.
\* The passes of one close are one action.
Housekeeping ==
  /\ ~InSession(clock) /\ closedOn < DayOf(clock) /\ scan.pc # "decided"
  /\ closedOn' = DayOf(clock)
  /\ Expire
  /\ UNCHANGED <<clock, restarts, tracked, scan, entry>>

\* The process dies and reconcile_runtime_on_startup runs in its successor.
Restart ==
  /\ restarts < MaxRestarts /\ restarts' = restarts + 1
  /\ IF InSession(clock) THEN UNCHANGED <<rows, alerts>> ELSE Expire
  /\ scan' = NoScan
  /\ entry' = [e \in Entrants |-> IF entry[e].pc = "found" THEN [NotEntered EXCEPT !.pc = "done"]
                                  ELSE entry[e]]
  /\ UNCHANGED <<clock, closedOn, tracked>>

\* A scan takes a bounded time, the wait for the lock included.
Tick ==
  /\ clock < MaxClock
  /\ scan.pc # "idle" => clock < scan.candle + MaxWait
  /\ clock' = clock + 1
  /\ UNCHANGED <<closedOn, restarts, rows, alerts, tracked, scan, entry>>
-----------------------------------------------------------------------------
Init ==
  /\ clock = 0 /\ closedOn = None /\ restarts = 0 /\ rows = <<>> /\ alerts = {} /\ tracked = {}
  /\ scan = NoScan /\ entry = [e \in Entrants |-> NotEntered]

Next ==
  \/ BeginScan \/ Decide \/ Commit \/ FailScan
  \/ \E e \in Entrants : FindBuy(e) \/ WriteEntered(e) \/ LoseEntry(e)
  \/ Housekeeping \/ Restart \/ Tick

Spec == Init /\ [][Next]_vars

\* Time passes, the close job is scheduled every day, and a started scan gets
\* the lock, then commits or fails.  Nothing makes a scan start.  The close's
\* pass and the clock are strong: a scan in progress holds both up in the model.
Fairness ==
  /\ SF_vars(Tick) /\ SF_vars(Housekeeping)
  /\ WF_vars(Decide \/ Commit \/ FailScan)
FairSpec == Spec /\ Fairness
-----------------------------------------------------------------------------
(* Invariants *)

Row == [status : ACTIVE_STATES \cup Terminal, direction : Directions, day : Int,
        validUntil : Int]
RowIds == 1 .. MaxRows

\* The type invariant of the tables and of the two handlers' local state.
TypeOK ==
  /\ clock \in Nat /\ closedOn \in Int /\ restarts \in Nat
  /\ rows \in Seq(Row)
  /\ alerts \subseteq RowIds \X Events
  /\ tracked \subseteq RowIds \X {"BUY", "MISSED"}
  /\ scan.pc \in {"idle", "waiting", "decided"} /\ scan.candle \in Int
  /\ \A e \in Entrants : entry[e].pc \in {"new", "found", "done"}

\* A trading day has at most one active recommendation of the symbol and the
\* strategy, although scans, entries and housekeeping interleave and the scan's
\* candle may be older than the last one: apply_lifecycle updates the row it
\* finds and would let a second one lapse unverified.
OneActivePerDay ==
  \A i, j \in ActiveRows : rows[i].day = rows[j].day => i = j

Announcement(status) == IF status = "WATCH" THEN "NEW_WATCH" ELSE status

\* The alert history, which is what a user is told, explains the table: every
\* status was announced, no entry without an announced BUY, no early ending.
AlertsExplainRows ==
  \A i \in DOMAIN rows :
    /\ <<i, Announcement(rows[i].status)>> \in alerts
    /\ rows[i].status = "ENTERED" => <<i, "BUY">> \in alerts
    /\ rows[i].status \in ACTIVE_STATES => \A s \in Terminal : <<i, s>> \notin alerts

\* A lifecycle is followed by one outcome at most, opened under an announced
\* status: a setup first bought and then missed keeps its bought outcome.
OneOutcomePerLifecycle ==
  \A t, u \in tracked :
    /\ t \in alerts
    /\ t[1] = u[1] => t = u

\* The three tables tell one story, whatever rows a slower handler still holds.
RowsExplained == OneActivePerDay /\ AlertsExplainRows /\ OneOutcomePerLifecycle
-----------------------------------------------------------------------------
(* Action properties *)

\* What ended is never active again, whatever copy of the row a slower handler
\* still holds: a scan does not reopen a recommendation entered meanwhile.
NeverRevived ==
  [][\A i \in DOMAIN rows :
       rows[i].status \in Terminal => rows'[i].status \in Terminal]_rows
-----------------------------------------------------------------------------
(* Liveness *)

\* No recommendation stays active for good, even if no scan ever runs again.
ActiveEnds ==
  \A i \in RowIds :
    (i \in DOMAIN rows /\ rows[i].status \in ACTIVE_STATES)
      ~> (i \in DOMAIN rows /\ rows[i].status \in Terminal)
=============================================================================
