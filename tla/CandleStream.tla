---------------------------- MODULE CandleStream ----------------------------
(***************************************************************************)
(* The one streaming session that feeds every consumer with candles        *)
(* (market_data/tastytrade.py), and the read-through cache before it       *)
(* (market_data/cached.py): a reader rotates the stream at the open of a   *)
(* day, the close's housekeeping releases it, and the thread of a stream   *)
(* that was replaced may still hold a packet of candles.                   *)
(*                                                                         *)
(* Time is in minutes and a day begins at its open, as _latest_market_date *)
(* counts it.  A minute stands for the candle of one symbol that starts    *)
(* there, and a packet of several candles for as many packets.  The cache  *)
(* holds its lock while it reads upstream: there is one reader at a time.  *)
(* A stream is named by the generation its callback was made with.         *)
(***************************************************************************)
EXTENDS Integers, FiniteSets

CONSTANTS
  DayLength, SessionLength,  \* minutes from open to open, and from open to close
  MaxClock, MaxGenerations   \* bounds of the exploration

ASSUME StreamAssumption ==
  /\ DayLength \in Nat \ {0} /\ SessionLength \in 1..DayLength
  /\ {MaxClock, MaxGenerations} \subseteq Nat

VARIABLES
  clock,
  generation,  \* _candle_generation
  current,     \* _candle_stream
  streamDay,   \* _candle_stream_day
  cache,       \* _candle_cache: the candles and, as a ghost, who delivered them
  warmed,      \* _candle_warmup_attempted
  latest,      \* _latest, the provider's clock
  stream,      \* the streams made: their day, stop flag, thread and packet
  reader,      \* the thread that holds the caching provider's lock
  closer,      \* the close job
  closedOn,    \* last day whose close was handled
  entry        \* minutes of the caching provider's entry, {} before the first

feed == <<generation, current, streamDay, cache, warmed>>
vars == <<clock, generation, current, streamDay, cache, warmed, latest, stream,
          reader, closer, closedOn, entry>>

None == -1
Generations == 1..MaxGenerations
Day(t) == t \div DayLength
Regular(t) == t - Day(t) * DayLength < SessionLength
Greater(a, b) == IF a > b THEN a ELSE b

NoStream == [day |-> None, stopped |-> FALSE, at |-> "new", packet |-> None]
Resting  == [pc |-> "idle", old |-> None, made |-> None, rows |-> {}]

\* _candle_stream_lock is held from the invalidation of a stream to the start
\* of the next, so that a close and a rotation never overlap.
Holding(t) == t.pc \in {"stopping", "joining", "opening"}
LockFree == ~Holding(reader) /\ ~Holding(closer)
-----------------------------------------------------------------------------
(* The thread of stream g: DXLinkCandleStreamClient._run and _session *)

At(g, step) == stream' = [stream EXCEPT ![g].at = step]

\* The loops look at the stop flag before each connection and each receive,
\* and the flag interrupts the wait before the next attempt.
Leaves(g) == stream[g].at \in {"loop", "session", "waiting"} /\ stream[g].stopped

End(g) ==
  /\ Leaves(g)
  /\ At(g, "ended")
  /\ UNCHANGED <<clock, feed, latest, reader, closer, closedOn, entry>>

Connect(g) ==
  /\ stream[g].at = "loop" /\ ~stream[g].stopped
  /\ At(g, "session")
  /\ UNCHANGED <<clock, feed, latest, reader, closer, closedOn, entry>>

Receive(g) ==
  /\ stream[g].at = "session" /\ ~stream[g].stopped
  /\ At(g, "receiving")
  /\ UNCHANGED <<clock, feed, latest, reader, closer, closedOn, entry>>

\* A candle of the subscribed history, of extended hours or of a later day, ...
Got(g) ==
  /\ stream[g].at = "receiving"
  /\ \E m \in (stream[g].day * DayLength) .. clock :
       stream' = [stream EXCEPT ![g].at = "delivering", ![g].packet = m]
  /\ UNCHANGED <<clock, feed, latest, reader, closer, closedOn, entry>>

\* ... or none within a second, or the connection is lost and tried again.
Nothing(g) ==
  /\ stream[g].at = "receiving"
  /\ At(g, "session") \/ At(g, "waiting")
  /\ UNCHANGED <<clock, feed, latest, reader, closer, closedOn, entry>>

Retry(g) ==
  /\ stream[g].at = "waiting" /\ ~stream[g].stopped
  /\ At(g, "loop")
  /\ UNCHANGED <<clock, feed, latest, reader, closer, closedOn, entry>>

\* _latest is the start of the newest candle or the stamp of the newest quote.
AdvanceToEnd(m) == latest' = Greater(latest, m + 1)
Advance(m) == latest' = Greater(latest, m)

OfAnyStream(g) == streamDay # None
Expected(g) == streamDay # None /\ g = generation

\* on_events, whatever became of the stream since the packet was received.
Deliver(g) ==
  /\ stream[g].at = "delivering"
  /\ LET m == stream[g].packet
     IN  IF Expected(g) /\ Day(m) = streamDay /\ Regular(m)
         THEN /\ cache' = {c \in cache : c.minute # m} \cup {[minute |-> m, by |-> g]}
              /\ Advance(m)
         ELSE UNCHANGED <<cache, latest>>
  /\ stream' = [stream EXCEPT ![g].at = "session", ![g].packet = None]
  /\ UNCHANGED <<clock, generation, current, streamDay, warmed, reader, closer, closedOn, entry>>
-----------------------------------------------------------------------------
(* A reader: CachedMarketDataProvider.candles that missed its entry *)

\* Callbacks of the old stream are invalid from here on, before it is stopped.
Invalidate(day) ==
  /\ generation' = generation + 1
  /\ current' = None /\ streamDay' = day
  /\ cache' = {}

BeginRead ==
  /\ reader.pc = "idle" /\ generation < MaxGenerations
  /\ reader' = [Resting EXCEPT !.pc = "ensuring"]
  /\ UNCHANGED <<clock, feed, latest, stream, closer, closedOn, entry>>

Serves == current # None /\ streamDay = Day(clock)

Reuse ==
  /\ reader.pc = "ensuring" /\ LockFree /\ Serves
  /\ reader' = [reader EXCEPT !.pc = "reading"]
  /\ UNCHANGED <<clock, feed, latest, stream, closer, closedOn, entry>>

Rotate ==
  /\ reader.pc = "ensuring" /\ LockFree /\ ~Serves
  /\ Invalidate(Day(clock)) /\ warmed' = FALSE
  /\ reader' = [reader EXCEPT !.pc = IF current = None THEN "opening" ELSE "stopping",
                              !.old = current, !.made = generation + 1]
  /\ UNCHANGED <<clock, latest, stream, closer, closedOn, entry>>

Stop(g) == stream' = [stream EXCEPT ![g].stopped = TRUE]

StopRotated ==
  /\ reader.pc = "stopping"
  /\ Stop(reader.old)
  /\ reader' = [reader EXCEPT !.pc = "joining", !.old = None]
  /\ UNCHANGED <<clock, feed, latest, closer, closedOn, entry>>

\* The join gives up after two seconds: the thread need not have ended.
JoinRotated ==
  /\ reader.pc = "joining"
  /\ reader' = [reader EXCEPT !.pc = "opening"]
  /\ UNCHANGED <<clock, feed, latest, stream, closer, closedOn, entry>>

NoCredentials ==
  /\ reader.pc = "opening"
  /\ reader' = [reader EXCEPT !.pc = "reading"]
  /\ UNCHANGED <<clock, feed, latest, stream, closer, closedOn, entry>>

Open ==
  /\ reader.pc = "opening"
  /\ stream' = [stream EXCEPT ![reader.made] = [NoStream EXCEPT !.day = streamDay, !.at = "loop"]]
  /\ current' = reader.made /\ warmed' = FALSE
  /\ reader' = [reader EXCEPT !.pc = "reading"]
  /\ UNCHANGED <<clock, generation, streamDay, cache, latest, closer, closedOn, entry>>

Take == reader' = [reader EXCEPT !.pc = "storing", !.rows = {c.minute : c \in cache}]

WarmUp ==
  /\ reader.pc = "reading" /\ cache = {} /\ ~warmed
  /\ warmed' = TRUE
  /\ reader' = [reader EXCEPT !.pc = "warming"]
  /\ UNCHANGED <<clock, generation, current, streamDay, cache, latest, stream, closer,
                 closedOn, entry>>

Read ==
  /\ reader.pc = "reading" /\ ~(cache = {} /\ ~warmed)
  /\ Take
  /\ UNCHANGED <<clock, feed, latest, stream, closer, closedOn, entry>>

\* A candle was accepted, or the wait timed out.
WakesOnCandle == reader.pc = "warming" /\ cache # {}
Wakes == reader.pc = "warming"

Wake ==
  /\ Wakes
  /\ Take
  /\ UNCHANGED <<clock, feed, latest, stream, closer, closedOn, entry>>

\* Only completed candles are kept, by the provider's clock after the read.
\* "An empty transient read must never erase the last good session history."
KeptAsRead(rows) == rows
Kept(rows) == IF rows = {} THEN entry ELSE rows

Store ==
  /\ reader.pc = "storing"
  /\ entry' = Kept({m \in reader.rows : m + 1 <= latest})
  /\ reader' = Resting
  /\ UNCHANGED <<clock, feed, latest, stream, closer, closedOn>>
-----------------------------------------------------------------------------
(* The close's housekeeping releases the provider: close *)

\* The bound on the generations leaves room for the rotation of a reader.
Close ==
  /\ closer.pc = "idle" /\ ~Regular(clock) /\ closedOn < Day(clock)
  /\ LockFree /\ generation + 1 < MaxGenerations
  /\ closedOn' = Day(clock)
  /\ Invalidate(None)
  /\ closer' = IF current = None THEN Resting
               ELSE [Resting EXCEPT !.pc = "stopping", !.old = current]
  /\ UNCHANGED <<clock, warmed, latest, stream, reader, entry>>

StopClosed ==
  /\ closer.pc = "stopping"
  /\ Stop(closer.old)
  /\ closer' = [closer EXCEPT !.pc = "joining", !.old = None]
  /\ UNCHANGED <<clock, feed, latest, reader, closedOn, entry>>

JoinClosed ==
  /\ closer.pc = "joining"
  /\ closer' = Resting
  /\ UNCHANGED <<clock, feed, latest, stream, reader, closedOn, entry>>
-----------------------------------------------------------------------------
\* A quote moves the provider's clock; the reader's lock keeps quotes out.
Quote ==
  /\ reader.pc = "idle" /\ latest < clock
  /\ Advance(clock)
  /\ UNCHANGED <<clock, feed, stream, reader, closer, closedOn, entry>>

Tick ==
  /\ clock < MaxClock
  /\ clock' = clock + 1
  /\ UNCHANGED <<feed, latest, stream, reader, closer, closedOn, entry>>

Init ==
  /\ clock = 0 /\ latest = 0 /\ generation = 0
  /\ current = None /\ streamDay = None /\ cache = {} /\ warmed = FALSE
  /\ stream = [g \in Generations |-> NoStream]
  /\ reader = Resting /\ closer = Resting /\ closedOn = None /\ entry = {}

Thread(g) ==
  End(g) \/ Connect(g) \/ Receive(g) \/ Got(g) \/ Nothing(g) \/ Retry(g) \/ Deliver(g)
Reading ==
  \/ Reuse \/ Rotate \/ StopRotated \/ JoinRotated \/ NoCredentials \/ Open
  \/ WarmUp \/ Read \/ Wake \/ Store
Closing == Close \/ StopClosed \/ JoinClosed

Next == (\E g \in Generations : Thread(g)) \/ BeginRead \/ Reading \/ Closing \/ Quote \/ Tick

Spec == Init /\ [][Next]_vars

\* Threads run; connections, receives, joins and the warm-up have timeouts.
\* Nothing has to be read, arrive or be closed.
Fairness ==
  /\ \A g \in Generations : WF_vars(Thread(g))
  /\ WF_vars(Reading) /\ WF_vars(StopClosed \/ JoinClosed)
FairSpec == Spec /\ Fairness
-----------------------------------------------------------------------------
(* Invariants *)

Minutes == 0..MaxClock
Steps == {"new", "loop", "session", "receiving", "delivering", "waiting", "ended"}
StreamType == [day : Int, stopped : BOOLEAN, at : Steps, packet : Minutes \cup {None}]
Phases == {"idle", "ensuring", "stopping", "joining", "opening", "reading", "warming", "storing"}
ThreadType == [pc : Phases, old : Generations \cup {None}, made : Generations \cup {None},
               rows : SUBSET Minutes]

\* The type invariant of the provider's attributes and of its threads' locals.
TypeOK ==
  /\ clock \in Minutes /\ latest \in Minutes
  /\ generation \in 0..MaxGenerations /\ current \in Generations \cup {None}
  /\ streamDay \in Int /\ closedOn \in Int /\ warmed \in BOOLEAN
  /\ cache \subseteq [minute : Minutes, by : Generations]
  /\ stream \in [Generations -> StreamType]
  /\ reader \in ThreadType /\ closer \in ThreadType
  /\ entry \subseteq Minutes

\* "Tastytrade candle caches rotate by exchange session and stream generation.
\* A stopped stream cannot repopulate the cache, including on a same-day
\* reconnect" (docs/SESSION_INTEGRITY_AND_EQUITY.md): the cache holds regular
\* candles of the stream's day, each delivered by the current generation,
\* although a join may give up on a thread that still holds a packet.
FedByCurrentStream ==
  \A c \in cache : c.by = generation /\ Day(c.minute) = streamDay /\ Regular(c.minute)

Runs(g) == stream[g].at # "new" /\ ~stream[g].stopped

\* Two streams are never left to run: one that runs is the current one, or the
\* thread that replaced it is about to stop it before another is made.
OneStreamRuns ==
  /\ \A g, h \in Generations : Runs(g) /\ Runs(h) => g = h
  /\ \A g \in Generations : Runs(g) => g \in {current, reader.old, closer.old}

\* One stream is live and it alone fills the cache, although threads outlive
\* their join.
OneLiveStream == FedByCurrentStream /\ OneStreamRuns
-----------------------------------------------------------------------------
(* Action properties *)

\* The caching provider's history of an earlier session or none never replaces
\* a later one, whatever the stream lost in a rotation, a close or a failure.
HistoryKept ==
  [][entry # {} => entry' # {} /\ \A m \in entry, n \in entry' : Day(m) <= Day(n)]_entry
-----------------------------------------------------------------------------
(* Liveness *)

\* A read returns, and frees the lock every consumer needs, although it waits
\* for the close, the old stream's thread, the credentials and a first candle.
ReadsReturn == reader.pc # "idle" ~> reader.pc = "idle"

\* The thread of a stream that was given up ends, even after its join timed out.
StoppedStreamsEnd == \A g \in Generations : stream[g].stopped ~> stream[g].at = "ended"

\* Neither a consumer nor a stopped stream's thread is stuck for good.
ThreadsFinish == ReadsReturn /\ StoppedStreamsEnd
=============================================================================
