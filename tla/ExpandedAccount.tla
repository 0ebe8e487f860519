--------------------------- MODULE ExpandedAccount ---------------------------
(***************************************************************************)
(* The independent ten-position account, services/expanded_account.py, and *)
(* its manual write-offs, services/paper_writeoffs.py.                     *)
(*                                                                         *)
(* Two processes write the account: the scanner and an operator's command. *)
(* Each reads its clock, then waits for the account's write lock, so what  *)
(* it does is one action on the rows it finds, under a clock read earlier. *)
(* A position whose contract ends without a verified exit keeps its debit  *)
(* at risk and leaves live capacity; only a prepared request writes it     *)
(* off.  One tick is a minute.                                             *)
(***************************************************************************)
EXTENDS Totals

CONSTANTS
  Marks,        \* ENTRY marks by id: 1..n
  Expiry,       \* days from a mark to its contract's last session
  Legacy,       \* positions an earlier version may have opened
  StartingCash, MaxPositions, MaxEntry, OpenFee, CloseFee, Slippage, MaxSpread,
  EntryDeadline, ExitDeadline, Latency, QuoteAge,
  LegacyDebit,  \* what such a position has cost
  DayTicks, Closing, \* ticks of a day, which begins with its session
  Markets,      \* what the chains may quote: mark -> quote or NoQuote
  Arrivals,     \* marks a pass may create, and whether they fit the policy
  Endings,      \* signals a pass may end, why, and ticks since the bar that did
  Feeds,        \* "healthy", or "exits": only the option quotes are healthy
  Ages,         \* ticks since a quote
  Refs,         \* approval references of write-off requests
  MaxWait, MaxRequests, FirstRequestAt, LastMarkAt, MaxClock  \* bounds of the exploration

None == -1
NoQuote == [bid |-> 0, ask |-> 0]
HELD == {"OPEN", "UNPRICED"}
Exposed == HELD \cup {"ENDED_UNRESOLVED"}

ASSUME ExpandedAssumption ==
  /\ IsFiniteSet(Marks) /\ Marks = 1..Cardinality(Marks) /\ Expiry \in [Marks -> Nat]
  /\ {StartingCash, MaxPositions, MaxEntry, OpenFee, CloseFee, Slippage, MaxSpread, QuoteAge,
      EntryDeadline, ExitDeadline, LegacyDebit, MaxWait, MaxRequests, FirstRequestAt, LastMarkAt, MaxClock} \subseteq Nat
  /\ {Latency, DayTicks} \subseteq Nat \ {0}
  /\ Closing \in 1..(DayTicks - 1)
  /\ Markets \subseteq [Marks -> [bid : Nat, ask : Nat]]
  /\ Feeds \subseteq {"healthy", "exits"} /\ Ages \subseteq Nat
  /\ Arrivals \subseteq [marks : SUBSET Marks, fits : BOOLEAN]
  /\ Endings \subseteq [marks : SUBSET Marks, reason : {"EXIT", "DATA_GAP"}, lag : Nat]
\* The earlier version opened the oldest marks, by the same rules of slots and cash.
ASSUME LegacyAssumption ==
  /\ Legacy \subseteq Marks /\ Legacy = 1..Cardinality(Legacy)
  /\ Cardinality(Legacy) <= MaxPositions
  /\ (LegacyDebit + CloseFee) * Cardinality(Legacy) <= StartingCash

VARIABLES
  clock,    \* the wall clock
  scan,     \* the clock the scanner has read, None between its passes
  command,  \* the request an operator applies and the clock it has read
  requests, \* the write-off requests prepared so far
  mark,     \* each mark: when it was created and whether it fits the policy
  signal,   \* each mark's SignalPerformance row: reason and bar of its end
  book,     \* the account row, the sums of its events, its positions
  snapshot  \* the latest equity snapshot

vars == <<clock, scan, command, requests, mark, signal, book, snapshot>>

Idle == [now |-> None, request |-> {}]
Day(t) == t \div DayTicks
Regular(t) == t % DayTicks < Closing
Created(m) == mark[m].created
\* The close of the mark's day, and final_session_end of its contract.
SessionEnd(m) == Day(Created(m)) * DayTicks + Closing
FinalEnd(m) == (Day(Created(m)) + Expiry[m]) * DayTicks + Closing
SettlementAt(t) == (Day(t) + 1) * DayTicks

NoPos == [status |-> "NONE", repaired |-> TRUE, seen |-> None, entry |-> None,
          entryQuote |-> None, debit |-> 0, value |-> NoQuote, valueAt |-> None, asked |-> None,
          exit |-> None, exitQuote |-> None, sale |-> 0, due |-> None,
          written |-> None, request |-> {}]
In(b, S) == {m \in Marks : b.pos[m].status \in S}
Debits(b, S) == Total([m \in Marks |-> b.pos[m].debit], S)
Sales(b, S)  == Total([m \in Marks |-> b.pos[m].sale], S)
UnclampedSale(q) == q.bid - Slippage
Sale(q) == IF q.bid > Slippage THEN q.bid - Slippage ELSE 0
-----------------------------------------------------------------------------
(* Equity *)

Valued(b, m, now) ==
  /\ b.pos[m].status = "OPEN" /\ Regular(now)
  /\ b.pos[m].valueAt # None /\ now - b.pos[m].valueAt <= QuoteAge

Writeoffs(b) == {m \in Marks : b.pos[m].written # None}
Equity(b, now) ==
  IF \E m \in In(b, Exposed) : ~Valued(b, m, now) THEN None
  ELSE b.settled + b.unsettled
         + Total([m \in Marks |-> Sale(b.pos[m].value) - CloseFee], In(b, Exposed))

\* _record_equity_snapshot: an observation of an instant is never replaced.
Recorded(b, now) ==
  IF snapshot.at = now THEN snapshot
  ELSE [at |-> now, equity |-> Equity(b, now), writeoffs |-> Cardinality(Writeoffs(b))]
-----------------------------------------------------------------------------
(* advance_account *)

\* A pass sees its clock, the chains, their health and age, and the signals.
Fresh(see, m, earliest) ==
  /\ see.market[m] # NoQuote /\ Regular(see.now)
  /\ see.age <= QuoteAge /\ see.now - see.age >= earliest

EventEnd(see, m) == see.signal[m].at + 1
ExitBefore(see, m) == TRUE
\* A repaired position waits for the bar that ended its signal to complete.
Completed(see, m) == see.now >= EventEnd(see, m)

\* The underlying's exit predates the entry, or its quote window was missed.
Missed(see, m, p) ==
  \/ EventEnd(see, m) <= p.entry
  \/ p.repaired /\ p.asked = None /\ see.now > EventEnd(see, m) + ExitDeadline
  \/ ~p.repaired /\ see.now > see.signal[m].at + ExitDeadline

Requested(see, p) == IF p.asked = None THEN [p EXCEPT !.asked = see.now] ELSE p

Sold(see, m, p) ==
  IF see.now > p.asked + ExitDeadline THEN [p EXCEPT !.status = "UNPRICED"]
  ELSE IF ~Fresh(see, m, p.asked + Latency) THEN p
  ELSE [p EXCEPT !.status = "UNSETTLED", !.exit = see.now, !.exitQuote = see.now - see.age,
                 !.sale = Sale(see.market[m]), !.due = SettlementAt(see.now)]

Exits(see, m, p) ==
  CASE p.status = "UNSETTLED" /\ see.now >= p.due -> [p EXCEPT !.status = "CLOSED"]
    [] p.status = "OPEN" /\ (see.now >= SessionEnd(m) \/ see.signal[m].reason = "DATA_GAP") ->
         [p EXCEPT !.status = "UNPRICED"]
    [] p.status = "OPEN" /\ see.now < SessionEnd(m) /\ see.signal[m].reason = "EXIT" ->
         IF p.repaired /\ ~Completed(see, m) THEN p
         ELSE IF Missed(see, m, p) THEN [p EXCEPT !.status = "UNPRICED"]
         ELSE Sold(see, m, Requested(see, p))
    [] p.status = "OPEN" /\ see.now < SessionEnd(m) /\ see.signal[m].reason = "OPEN" ->
         IF Fresh(see, m, p.entry)
         THEN [p EXCEPT !.value = see.market[m], !.valueAt = see.now - see.age] ELSE p
    [] OTHER -> p

\* _end_contract_sessions: an ended contract leaves the capacity, not the ledger.
Over(see, m) == see.now >= FinalEnd(m)
Ended(see, m, p) ==
  IF p.status \in HELD /\ Over(see, m) THEN [p EXCEPT !.status = "ENDED_UNRESOLVED"] ELSE p

\* A new position for every later ENTRY mark of a live signal.
Discovered(see, m, p) ==
  IF m > book.watermark /\ see.mark[m].created # None
  THEN [NoPos EXCEPT !.status = "PENDING_ENTRY", !.seen = see.now] ELSE p

\* The ledger rows of a position that moves from p to q.
Buys(p, q)  == p.status = "PENDING_ENTRY" /\ q.status = "OPEN"
Sells(p, q) == p.status # "UNSETTLED" /\ q.status = "UNSETTLED"
Pays(p, q)  == p.status = "UNSETTLED" /\ q.status = "CLOSED"

Cash(p, q) == CASE Buys(p, q)  -> -q.debit
                [] Sells(p, q) -> -CloseFee
                [] Pays(p, q)  -> q.sale
                [] OTHER       -> 0
Claim(p, q) == CASE Sells(p, q) -> q.sale [] Pays(p, q) -> -q.sale [] OTHER -> 0
Result(p, q) == IF Sells(p, q) THEN q.sale - CloseFee - q.debit ELSE 0

Posted(b, m, q) ==
  [b EXCEPT !.pos[m] = q, !.settled = @ + Cash(b.pos[m], q),
            !.unsettled = @ + Claim(b.pos[m], q), !.realized = @ + Result(b.pos[m], q)]

Debit(q) == q.ask + Slippage + OpenFee
HeldFees(b) == CloseFee * Cardinality(In(b, HELD))
Affordable(b, q) ==
  /\ q.bid > 0 /\ 100 * (q.ask - q.bid) <= MaxSpread * q.ask
  /\ Debit(q) + CloseFee <= MaxEntry /\ Debit(q) + CloseFee <= b.settled - HeldFees(b)

SlotFree(b) == Cardinality(In(b, HELD)) < MaxPositions

Entered(see, b, m) ==
  LET p == b.pos[m]
      q == see.market[m]
      refused == \/ ~see.mark[m].fits \/ see.signal[m].reason # "OPEN"
                 \/ see.now - see.mark[m].created > EntryDeadline
                 \/ Day(see.mark[m].created) # Day(see.now) \/ ~Regular(see.now)
                 \/ ~SlotFree(b)
      quoted == see.feed = "healthy" /\ Fresh(see, m, p.seen + Latency)
  IN IF p.status # "PENDING_ENTRY" THEN b
     ELSE IF refused \/ (quoted /\ ~Affordable(b, q))
     THEN [b EXCEPT !.pos[m].status = "SKIPPED"]
     ELSE IF ~quoted THEN b
     ELSE Posted(b, m, [p EXCEPT !.status = "OPEN", !.entry = see.now, !.debit = Debit(q),
                                 !.entryQuote = see.now - see.age, !.value = q,
                                 !.valueAt = see.now - see.age])

\* Exits and ended contracts, then discovery, then entries, each in mark order.
Kept(see, m, p) == Ended(see, m, Exits(see, m, p))
ExitPass(see) ==
  LET after[m \in 0..Cardinality(Marks)] ==
        IF m = 0 THEN book
        ELSE LET b == after[m - 1] IN Posted(b, m, Kept(see, m, b.pos[m]))
  IN after[Cardinality(Marks)]

Known(see, b) ==
  [b EXCEPT !.pos = [m \in Marks |-> Discovered(see, m, b.pos[m])],
            !.watermark = Cardinality({m \in Marks : see.mark[m].created # None}),
            !.processed = see.now]

EntryPass(see, known) ==
  LET after[m \in 0..Cardinality(Marks)] ==
        IF m = 0 THEN known ELSE Entered(see, after[m - 1], m)
  IN after[Cardinality(Marks)]

Advanced(see) == EntryPass(see, Known(see, ExitPass(see)))

Backwards(now) == FALSE
\* A clock read before a later change cannot process the account.
Late(now) == now < book.processed
-----------------------------------------------------------------------------
(* The scanner *)

Pass ==
  /\ clock < MaxClock /\ clock' = clock + 1
  /\ \A now \in {scan, command.now} \ {None} : clock' - now <= MaxWait
  /\ UNCHANGED <<scan, command, requests, mark, signal, book, snapshot>>

\* The pass reads its clock before it has the lock.
ReadClock ==
  /\ scan = None /\ scan' = clock
  /\ UNCHANGED <<clock, command, requests, mark, signal, book, snapshot>>

\* What the pass has written before the account's turn: new marks, ended signals.
Marked(new) ==
  [m \in Marks |-> IF m \in new.marks THEN [created |-> scan, fits |-> new.fits] ELSE mark[m]]
EndedSignals(end) ==
  [m \in Marks |-> IF m \notin end.marks THEN signal[m]
                   ELSE [reason |-> end.reason,
                         at |-> IF end.reason = "EXIT" THEN scan - end.lag ELSE None]]

\* advance_account in its savepoint; when it fails the pass commits without it.
Scan(new, end, market, age, feed, fails) ==
  LET see == [now |-> scan, market |-> market, age |-> age, feed |-> feed,
              mark |-> mark', signal |-> signal'] IN
  /\ scan # None /\ scan' = None
  /\ new.marks # {} => Regular(scan) /\ scan <= LastMarkAt
  /\ \A m \in new.marks : /\ Created(m) = None
                           /\ \A n \in 1..(m - 1) : n \in new.marks \/ Created(n) # None
  /\ \A m \in end.marks : /\ Created(m) # None /\ signal[m].reason = "OPEN"
                           /\ scan - end.lag >= Created(m)
  /\ mark' = Marked(new) /\ signal' = EndedSignals(end)
  /\ IF fails \/ Late(scan) THEN UNCHANGED <<book, snapshot>>
     ELSE book' = Advanced(see) /\ snapshot' = Recorded(book', scan)
  /\ UNCHANGED <<clock, command, requests>>
-----------------------------------------------------------------------------
(* The operator's write-offs *)

\* prepare_request: exact ended positions, bound to what they hold now.
Prepare(targets, ref) ==
  /\ Cardinality(requests) < MaxRequests /\ clock >= FirstRequestAt
  /\ targets # {} /\ targets \subseteq In(book, {"ENDED_UNRESOLVED"})
  /\ requests' = requests \cup {[ref |-> ref, original |-> [m \in targets |-> book.pos[m]]]}
  /\ UNCHANGED <<clock, scan, command, mark, signal, book, snapshot>>

\* A request is applied, or applied again: its answer may have been lost.
Send(r) ==
  /\ command = Idle /\ command' = [now |-> clock, request |-> {r}]
  /\ UNCHANGED <<clock, scan, requests, mark, signal, book, snapshot>>

Untouched(r, m, now) == book.pos[m].status \in {"ENDED_UNRESOLVED", "WRITTEN_OFF"}
\* The position is what the request was prepared from.
Applicable(r, m, now) ==
  book.pos[m].status = "ENDED_UNRESOLVED" /\ now >= FinalEnd(m) /\ book.pos[m] = r.original[m]

WrittenOff(r, now) ==
  LET planned == {m \in DOMAIN r.original : book.pos[m].request # {r}} IN
  [book EXCEPT
     !.pos = [m \in Marks |->
                IF m \in planned
                THEN [@[m] EXCEPT !.status = "WRITTEN_OFF", !.written = now, !.request = {r}]
                ELSE @[m]],
     !.realized = @ - Debits(book, planned),
     !.processed = IF planned = {} THEN @ ELSE now]

\* apply_request: all of it or nothing, and nothing twice.
Apply ==
  \E r \in command.request :
    /\ command' = Idle
    /\ IF /\ ~Late(command.now)
          /\ \A m \in DOMAIN r.original :
               book.pos[m].request = {r} \/ Applicable(r, m, command.now)
       THEN /\ book' = WrittenOff(r, command.now)
            /\ snapshot' = IF book'.pos = book.pos THEN snapshot
                           ELSE Recorded(book', command.now)
       ELSE UNCHANGED <<book, snapshot>>
    /\ UNCHANGED <<clock, scan, requests, mark, signal>>

\* The command dies before it commits.
Abandon ==
  /\ command # Idle /\ command' = Idle
  /\ UNCHANGED <<clock, scan, requests, mark, signal, book, snapshot>>
-----------------------------------------------------------------------------
\* activate, before the session; a position of the earlier version is already open.
Init ==
  /\ clock = 0 /\ scan = None /\ command = Idle /\ requests = {}
  /\ signal = [m \in Marks |-> [reason |-> "OPEN", at |-> None]]
  /\ \E old \in {{}, Legacy} :
       /\ mark = [m \in Marks |-> [created |-> IF m \in old THEN 0 ELSE None, fits |-> TRUE]]
       /\ book = [processed |-> 0, watermark |-> Cardinality(old), unsettled |-> 0, realized |-> 0,
                  settled |-> StartingCash - LegacyDebit * Cardinality(old),
                  pos |-> [m \in Marks |->
                    IF m \in old THEN [NoPos EXCEPT !.status = "OPEN", !.repaired = FALSE,
                                         !.seen = 0, !.entry = 0, !.debit = LegacyDebit]
                    ELSE NoPos]]
       /\ snapshot = [at |-> 0, equity |-> IF old = {} THEN StartingCash ELSE None, writeoffs |-> 0]

Next ==
  \/ Pass \/ ReadClock
  \/ \E new \in Arrivals, end \in Endings, market \in Markets, age \in Ages, feed \in Feeds,
        fails \in BOOLEAN : Scan(new, end, market, age, feed, fails)
  \/ \E targets \in SUBSET Marks, ref \in Refs : Prepare(targets, ref)
  \/ \E r \in requests : Send(r)
  \/ Apply \/ Abandon

Spec == Init /\ [][Next]_vars
-----------------------------------------------------------------------------
(* Properties *)

Quotes == [bid : Nat, ask : Nat]
Positions ==
  [status : {"NONE", "SKIPPED", "PENDING_ENTRY", "UNSETTLED", "CLOSED", "WRITTEN_OFF"} \cup Exposed,
   repaired : BOOLEAN, debit : Nat, value : Quotes, sale : Nat, seen : Int, entry : Int,
   entryQuote : Int, valueAt : Int, asked : Int, exit : Int, exitQuote : Int, due : Int,
   written : Int, request : SUBSET requests]

\* Amounts and stamps keep their types, and a request is only of prepared ones.
TypeOK ==
  /\ clock \in Nat /\ scan \in (0..clock) \cup {None}
  /\ command.now \in (0..clock) \cup {None} /\ command.request \subseteq requests
  /\ mark \in [Marks -> [created : Int, fits : BOOLEAN]]
  /\ signal \in [Marks -> [reason : {"OPEN", "EXIT", "DATA_GAP"}, at : Int]]
  /\ book \in [processed : 0..clock, watermark : 0..Cardinality(Marks), settled : Int,
               unsettled : Nat, realized : Int, pos : [Marks -> Positions]]
  /\ snapshot \in [at : 0..clock, equity : Int, writeoffs : 0..Cardinality(Marks)]

\* The cash is accounted for: what is not a result is at risk in a position, held or
\* ended, a loss is booked once however often a request is applied, a write-off moves
\* no cash, and the slots and the fees of closing what is held are there.
MoneyConserved ==
  /\ book.settled + book.unsettled + Debits(book, In(book, Exposed)) = StartingCash + book.realized
  /\ book.unsettled = Sales(book, In(book, {"UNSETTLED"}))
  /\ Cardinality(In(book, HELD)) <= MaxPositions
  /\ book.settled >= HeldFees(book)
  /\ \A m \in In(book, {"ENDED_UNRESOLVED", "WRITTEN_OFF"}) :
       book.pos[m].sale = 0 /\ book.pos[m].exit = None

\* The latest observation knows the write-offs of its time: none that came later, as
\* a scanner with an older clock could record, and all that came before.  A write-off
\* changes nothing else of the position that its request was prepared from.
RecordsInOrder ==
  /\ snapshot.at <= book.processed
  /\ Cardinality({m \in Writeoffs(book) : book.pos[m].written < snapshot.at}) <= snapshot.writeoffs
  /\ snapshot.writeoffs <= Cardinality({m \in Writeoffs(book) : book.pos[m].written <= snapshot.at})
  /\ \A m \in Writeoffs(book) :
       /\ book.pos[m].written \in FinalEnd(m)..book.processed
       /\ \E r \in requests :
            /\ m \in DOMAIN r.original /\ book.pos[m].request = {r}
            /\ book.pos[m] = [r.original[m] EXCEPT !.status = "WRITTEN_OFF",
                               !.written = book.pos[m].written, !.request = {r}]

\* A fill uses a later quote in time.  An exit follows the completed bar that ended the
\* signal, within the deadline after it and after its request.  A pass leaves nothing
\* open past its session and no slot to an ended contract; a write-off, which moves the
\* account's clock too, leaves that to the next pass.
ExitsEvidenced ==
  \A m \in Marks :
    LET p == book.pos[m] IN
    /\ p.entry # None /\ p.repaired =>
         /\ p.seen < p.entryQuote /\ p.entryQuote \in (p.entry - QuoteAge)..p.entry
         /\ p.entry <= Created(m) + EntryDeadline /\ p.entry < SessionEnd(m)
    /\ p.exit # None =>
         /\ signal[m].reason = "EXIT" /\ signal[m].at + 1 > p.entry
         /\ p.repaired => p.asked \in (signal[m].at + 1)..(signal[m].at + 1 + ExitDeadline)
         /\ ~p.repaired => p.exit <= signal[m].at + ExitDeadline
         /\ p.asked < p.exitQuote /\ p.exitQuote \in (p.exit - QuoteAge)..p.exit
         /\ p.exit <= p.asked + ExitDeadline /\ p.exit < SessionEnd(m)
    /\ \/ \E n \in Writeoffs(book) : book.pos[n].written = book.processed
       \/ /\ p.status = "OPEN" => book.processed < SessionEnd(m)
          /\ p.status \in HELD => book.processed < FinalEnd(m)
=============================================================================
