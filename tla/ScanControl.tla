---------------------------- MODULE ScanControl ----------------------------
(***************************************************************************)
(* Who may scan, and what the one ScannerRuntime row says about it: the    *)
(* scheduled job, the forced scan of GET /parlays, the operator's hold,    *)
(* the close housekeeping, crashes and the reconciliation at startup       *)
(* (services/signal_engine.py, api/routes.py, main.py), at the instants    *)
(* the calendar gives (MarketCalendar).                                    *)
(*                                                                         *)
(* A thread loads the runtime row, then waits for SCAN_LOCK and never      *)
(* loads the row again: its session keeps the loaded columns and a commit  *)
(* merges single columns into the row.                                     *)
(***************************************************************************)
EXTENDS MarketCalendar, SessionRows, FiniteSets

CONSTANTS
  Requests,     \* concurrent GET /parlays handlers
  ProviderLags, \* how far the provider's clock may trail, in minutes
  LastFireAt, MaxScan, MaxInstant, MaxCommands, MaxCrashes, MaxWatches  \* bounds

Job == "job"
Threads == {Job} \cup Requests
Status == {"starting", "scanning", "healthy", "error", "held_by_operator",
           "resume_pending", "idle_market_closed"}

ASSUME ControlAssumption ==
  /\ Job \notin Requests
  /\ ProviderLags \subseteq Nat
  /\ {LastFireAt, MaxScan, MaxInstant, MaxCommands, MaxCrashes, MaxWatches} \subseteq Nat

VARIABLES
  instant,      \* of the calendar
  up,
  wanted,     \* ghost: the operator's last command, TRUE for HOLD
  commands, crashes,  \* how many there were
  runtime,    \* the ScannerRuntime row
  thread,     \* each thread: its phase, loaded row and the candle it evaluates
  firedAt,    \* last minute the scanner job fired
  housekeptOn,  \* last day whose close had its housekeeping pass
  watch,      \* version of the scanned universe (daily watch changes)
  latest      \* the newest SignalScan: its candle and universe

row  == <<runtime, latest>>
host == <<instant, up, wanted, commands, crashes, firedAt, housekeptOn, watch>>
controlVars == <<instant, up, wanted, commands, crashes, runtime, thread, firedAt,
                 housekeptOn, watch, latest>>

Fresh == [status |-> "starting", hold |-> FALSE, candle |-> None, next |-> None]
Idle  == [pc |-> "idle", copy |-> Fresh, candle |-> None, universe |-> 0]

Locked == \E t \in Threads : thread[t].pc = "scanning"
Waits(t, candle) ==
  thread' = [thread EXCEPT ![t] = [pc |-> "waiting", copy |-> runtime, candle |-> candle,
                                   universe |-> watch]]
Rest(t) == thread' = [thread EXCEPT ![t] = Idle]
-----------------------------------------------------------------------------
(* background_scan_once and GET /parlays, up to the wait for SCAN_LOCK *)

Held(r) == [r EXCEPT !.status = "held_by_operator", !.next = None]

\* The scheduler starts the job at the runs of MarketHoursTrigger, never two at
\* a time; the run at the close is a housekeeping pass.
Fires ==
  /\ up /\ thread[Job].pc = "idle" /\ firedAt < instant
  /\ next_scanner_run(instant - 1, 0) = instant /\ Regular(instant)

JobHeld ==
  /\ Fires /\ runtime.hold
  /\ runtime' = Held(runtime)
  /\ firedAt' = instant
  /\ UNCHANGED <<instant, up, wanted, commands, crashes, thread, housekeptOn, watch, latest>>

JobWaits ==
  /\ Fires /\ ~runtime.hold /\ instant <= LastFireAt
  /\ Waits(Job, instant - 1)
  /\ firedAt' = instant
  /\ UNCHANGED <<instant, up, wanted, commands, crashes, housekeptOn, watch, row>>

\* A dashboard poll that finds no scan of today's universe forces one; its
\* candle is chosen later, from the provider's clock.
RequestWaits(t) ==
  /\ up /\ thread[t].pc = "idle" /\ Regular(instant) /\ instant <= LastFireAt
  /\ latest.universe # watch /\ ~runtime.hold
  /\ Waits(t, None)
  /\ UNCHANGED <<host, row>>
-----------------------------------------------------------------------------
(* _run_signal_scan, holding SCAN_LOCK *)

GetsUnlocked(t) == up /\ thread[t].pc = "waiting"
Gets(t) == up /\ thread[t].pc = "waiting" /\ ~Locked

\* The job's candle was evaluated by the time it loaded the row.
Evaluated(t) == t = Job /\ thread[t].copy.candle >= thread[t].candle

SkipScan ==
  /\ Gets(Job) /\ Evaluated(Job)
  /\ Rest(Job)
  /\ UNCHANGED <<host, row>>

StartScan(t) ==
  /\ Gets(t) /\ ~Evaluated(t)
  /\ \E lag \in ProviderLags :
       LET copy == thread[t].copy
           now  == Merge(runtime, copy, [copy EXCEPT !.status = "scanning"], {})
       IN  /\ runtime' = now
           /\ thread' = [thread EXCEPT ![t] =
                [pc |-> "scanning", copy |-> [copy EXCEPT !.status = "scanning"],
                 candle |-> IF t = Job THEN thread[t].candle ELSE instant - 1 - lag,
                 universe |-> thread[t].universe]]
  /\ UNCHANGED <<host, latest>>

\* "healthy" stands for "degraded" too: the provider's health decides which.
Scanned(t) ==
  [thread[t].copy EXCEPT !.status = "healthy", !.candle = thread[t].candle,
                         !.next = thread[t].candle + 2]
EndScan(t) ==
  /\ thread[t].pc = "scanning"
  /\ runtime' = Merge(runtime, thread[t].copy, Scanned(t), {"candle", "next"})
  /\ latest' = [candle |-> thread[t].candle, universe |-> thread[t].universe]
  /\ Rest(t)
  /\ UNCHANGED host

\* The rollback expires the session, so the error is written on the current row.
Unreported(r) == r
Failed(r) == [r EXCEPT !.status = "error"]
ScanFails(t) ==
  /\ thread[t].pc = "scanning"
  /\ runtime' = Failed(runtime)
  /\ Rest(t)
  /\ UNCHANGED <<host, latest>>
-----------------------------------------------------------------------------
(* scanner_control, housekeeping, crash and startup *)

Commanded(r, hold) ==
  IF hold THEN [Held(r) EXCEPT !.hold = TRUE]
  ELSE IF Regular(instant) THEN [r EXCEPT !.hold = FALSE, !.status = "resume_pending"]
  ELSE [r EXCEPT !.hold = FALSE, !.status = "idle_market_closed",
                 !.next = next_market_open(instant)]

Command(hold) ==
  /\ up /\ commands < MaxCommands /\ commands' = commands + 1
  /\ runtime' = Commanded(runtime, hold)
  /\ wanted' = hold
  /\ UNCHANGED <<instant, up, crashes, thread, firedAt, housekeptOn, watch, latest>>

\* reconcile_runtime_on_startup, also the last part of the close housekeeping.
ReconciledClose(r) ==
  IF Regular(instant) THEN r
  ELSE [r EXCEPT !.status = "idle_market_closed", !.next = next_market_open(instant)]
Reconciled(r) ==
  CASE r.hold -> Held(r)
    [] ~r.hold /\ ~Regular(instant) ->
         [r EXCEPT !.status = "idle_market_closed", !.next = next_market_open(instant)]
    [] OTHER -> [r EXCEPT !.status = "resume_pending", !.next = instant]

\* The close job is due from the close of the day on, early or not.
CloseDue == next_session_housekeeping(At(Day(instant), 0)) <= instant /\ housekeptOn < Day(instant)

\* session_close_housekeeping, by the job's close run or by the close job; the
\* passes of one close are one action.
CloseHousekeeping ==
  /\ up /\ CloseDue /\ ~Regular(instant) /\ ~Locked
  /\ housekeptOn' = Day(instant)
  /\ runtime' = Reconciled(runtime)
  /\ UNCHANGED <<instant, up, wanted, commands, crashes, thread, firedAt, watch, latest>>

Crash ==
  /\ up /\ crashes < MaxCrashes /\ crashes' = crashes + 1
  /\ up' = FALSE
  /\ thread' = [t \in Threads |-> Idle]
  /\ UNCHANGED <<instant, wanted, commands, firedAt, housekeptOn, watch, row>>

Startup ==
  /\ ~up /\ up' = TRUE
  /\ runtime' = Reconciled(runtime)
  /\ UNCHANGED <<instant, wanted, commands, crashes, thread, firedAt, housekeptOn, watch,
                 latest>>

\* POST or DELETE /daily-watch: the universe of the next scan changes.
ChangeWatch ==
  /\ up /\ watch < MaxWatches /\ watch' = watch + 1
  /\ UNCHANGED <<instant, up, wanted, commands, crashes, thread, firedAt, housekeptOn, row>>

\* A scan takes a bounded time, the wait for the lock included.
ClockTick ==
  /\ instant < MaxInstant
  /\ \A t \in Threads : thread[t].pc # "idle" => instant < LastFireAt + MaxScan
  /\ instant' = instant + 1
  /\ UNCHANGED <<up, wanted, commands, crashes, thread, firedAt, housekeptOn, watch, row>>
-----------------------------------------------------------------------------
ControlInit ==
  /\ instant = 0 /\ up = FALSE /\ wanted = FALSE /\ commands = 0 /\ crashes = 0
  /\ runtime = Fresh /\ thread = [t \in Threads |-> Idle]
  /\ firedAt = None /\ housekeptOn = None /\ watch = 0
  /\ latest = [candle |-> None, universe |-> None]

ControlNext ==
  \/ JobHeld \/ JobWaits \/ SkipScan
  \/ \E t \in Requests : RequestWaits(t)
  \/ \E t \in Threads : StartScan(t) \/ EndScan(t) \/ ScanFails(t)
  \/ \E hold \in BOOLEAN : Command(hold)
  \/ CloseHousekeeping \/ Crash \/ Startup \/ ChangeWatch \/ ClockTick

ControlSpec == ControlInit /\ [][ControlNext]_controlVars

\* Time passes, a crashed host is started again, the scheduler fires its jobs,
\* and a scan gets the lock and ends.  Tick, the job and the close's pass are
\* strong: in the model a scan in progress suspends them.
ControlFairness ==
  /\ SF_controlVars(ClockTick) /\ WF_controlVars(Startup)
  /\ SF_controlVars(JobHeld) /\ SF_controlVars(CloseHousekeeping)
  /\ \A t \in Threads : SF_controlVars(StartScan(t)) /\ WF_controlVars(EndScan(t) \/ ScanFails(t))
  /\ SF_controlVars(SkipScan)
FairControlSpec == ControlSpec /\ ControlFairness
-----------------------------------------------------------------------------
(* Invariants *)

Runtime == [status : Status, hold : BOOLEAN, candle : Int, next : Int]

\* The type invariant, with the mutual exclusion SCAN_LOCK is there for.
ControlTypeOK ==
  /\ {instant, commands, crashes, watch} \subseteq Nat /\ {firedAt, housekeptOn} \subseteq Int
  /\ {up, wanted} \subseteq BOOLEAN
  /\ runtime \in Runtime
  /\ thread \in [Threads -> [pc : {"idle", "waiting", "scanning"}, copy : Runtime,
                             candle : Int, universe : Nat]]
  /\ latest \in [candle : Int, universe : Int]
  /\ \A t, u \in Threads : thread[t].pc = "scanning" /\ thread[u].pc = "scanning" => t = u

\* A hold or a resume is never undone by anything but the operator: not by a
\* scan that loaded the row before it, nor by the close, a crash or a restart.
HoldIsTheOperators == runtime.hold = wanted

\* While the host runs, the row says "scanning" only when a thread is scanning:
\* a failed scan, a scan that was killed, and a scan whose copy of the row
\* already said "scanning" all leave another status behind.
ScanningMeansRunning == up /\ runtime.status = "scanning" => Locked

\* A row that says it is held announces no next evaluation, although the two
\* columns are written by threads with different copies of the row.
HeldAnnouncesNothing == runtime.status = "held_by_operator" => runtime.next = None

\* A row that says the market is closed tells the truth until the opening it
\* announces: no session runs from now to then, over weekends and holidays, and
\* whatever is written to its columns while the clock runs on.
IdleUntilOpen ==
  runtime.status = "idle_market_closed" =>
    \A t \in instant..(runtime.next - 1) : ~Regular(t)

\* The row never claims more than the threads and the calendar do, although
\* threads with stale copies write its columns one by one.
RowHonest == ScanningMeansRunning /\ HeldAnnouncesNothing /\ IdleUntilOpen
-----------------------------------------------------------------------------
(* Action properties *)

Starts(t) == thread[t].pc = "waiting" /\ thread'[t].pc = "scanning"

\* A hold lets the work in flight finish but starts no new scan
\* (docs/RETEST_TRIALS.md, "hold new scans and allow in-flight work to finish").
HoldBlocksNewScans ==
  [][\A t \in Threads : Starts(t) => ~runtime.hold]_thread
-----------------------------------------------------------------------------
(* Liveness *)

\* A hold that is not resumed is eventually what the dashboard shows, although
\* the scan in flight ends with "healthy" after the operator's command.
HoldIsShown ==
  runtime.hold ~> (~runtime.hold \/ runtime.status = "held_by_operator")
=============================================================================
