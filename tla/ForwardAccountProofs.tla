------------------------ MODULE ForwardAccountProofs ------------------------
(***************************************************************************)
(* Theorems of ForwardAccount for every number of marks, every policy,     *)
(* every quote set and calendar, and no bound on the clock or on failures, *)
(* the last of them that it implements CashBook.                           *)
(***************************************************************************)
EXTENDS ForwardAccountBook, TotalsProofs

-----------------------------------------------------------------------------
(* Lemmas about the operators of the model *)

\* Any set of marks is finite and has a size: the counts of held positions
\* and of recorded marks are numbers.
LEMMA MarkSets ==
  ASSUME NEW S \in SUBSET Marks
  PROVE  IsFiniteSet(S) /\ Cardinality(S) \in Nat
<1>1. IsFiniteSet(Marks)
  BY PolicyAssumption, FS_Interval DEF Marks
<1> QED  BY <1>1, FS_Subset, FS_CardinalityType

\* settlement_at returns an instant or nothing.
LEMMA SettlementStamp ==
  ASSUME NEW t \in Nat
  PROVE  SettlementAt(t) \in Stamp
<1>1. Day(t) \in Nat
  BY ClockAssumption, Z3 DEF Day
<1>2. (Day(t) + 1) * DayLength \in Nat
  BY <1>1, ClockAssumption
<1> QED  BY <1>1, <1>2 DEF SettlementAt, Stamp

\* A usable quote was received between the earliest acceptable instant and now.
LEMMA QuoteFacts ==
  ASSUME NEW earliest \in Int, NEW q \in UsableQuotes(earliest), clock \in Nat
  PROVE  /\ q[1] \in Int /\ q[1] >= earliest /\ q[1] <= clock /\ q[1] >= clock - QuoteAge
         /\ q[2] \in Prices
         /\ q[2].bid \in Nat /\ q[2].ask \in Nat /\ Sale(q[2]) \in Nat /\ Debit(q[2]) \in Nat
<1>1. q \in {t \in earliest..clock : t >= clock - QuoteAge} \X Prices
  BY DEF UsableQuotes
<1>2. q[1] \in earliest..clock /\ q[1] >= clock - QuoteAge /\ q[2] \in Prices
  BY <1>1
<1>3. q[2].bid \in Nat /\ q[2].ask \in Nat
  BY <1>2, PriceAssumption
<1>4. Sale(q[2]) \in Nat /\ Debit(q[2]) \in Nat
  BY <1>3, PolicyAssumption DEF Sale, Debit
<1> QED  BY <1>2, <1>3, <1>4
-----------------------------------------------------------------------------
(* Type correctness *)

\* TypeOK without the record that gathers the working copy.
InputsOK ==
  /\ clock \in Nat /\ stepBacks \in Nat /\ rollbacks \in Nat
  /\ marks \in [Marks -> [created : Stamp, eligible : BOOLEAN]]
  /\ signal \in [Marks -> [reason : {"NONE", "OPEN", "EXIT", "DATA_GAP"}, exitAt : Stamp]]

WorkingOK ==
  /\ activatedAt \in Stamp /\ processedAt \in Nat /\ watermark \in Nat
  /\ settled \in Int /\ unsettled \in Int
  /\ status \in [Marks -> Status]
  /\ detail \in [Marks -> DetailType]
  /\ posted \in [Marks -> EventType]

Types == InputsOK /\ WorkingOK /\ AccountOK(saved) /\ txn \in TxnType

LEMMA TypeParts == (TypeOK <=> Types) /\ (TypeOK' <=> Types')
  BY DEF TypeOK, Types, InputsOK, WorkingOK, AccountOK, Working

\* The loop variables keep their types when their fields are set to typed values.
LEMMA TxnUpdate ==
  ASSUME txn \in TxnType, NEW n \in Nat, NEW c \in Int, NEW h \in Int, NEW p \in Phase
  PROVE  /\ [txn EXCEPT !.next = n, !.phase = p] \in TxnType
         /\ [txn EXCEPT !.next = n, !.cash = c, !.held = h, !.phase = p] \in TxnType
  BY DEF TxnType

\* A handler step that posts one event or none keeps the types of the ledger
\* and of the loop variables.
LEMMA PostType ==
  ASSUME Types, NEW m \in Marks, NEW kind \in Kinds, Post(m, kind)
  PROVE  posted' \in [Marks -> EventType] /\ txn' \in TxnType
<1>1. posted' \in [Marks -> EventType]
  BY DEF Post, Types, InputsOK, WorkingOK, EventType, Stamp
<1>2. txn' \in TxnType
  <2>1. After(txn.phase, m, kind) \in Phase /\ txn.next + 1 \in Nat
    BY DEF After, Types, TxnType, Phase
  <2> DEFINE n == txn.next + 1
             p == After(txn.phase, m, kind)
  <2> HIDE DEF n, p
  <2>2. txn' = [txn EXCEPT !.next = n, !.phase = p]
    BY DEF Post, n, p
  <2>3. n \in Nat /\ p \in Phase
    BY <2>1 DEF n, p
  <2> QED  BY <2>2, <2>3, TxnUpdate DEF Types, TxnType
<1> QED  BY <1>1, <1>2

LEMMA SkipType == Types /\ Skip => txn' \in TxnType
  BY DEF Skip, Types, TxnType

\* In the two loops only these variables change.
LEMMA ExitKeepsType ==
  ASSUME Types, KeepInExits, settled' \in Int, unsettled' \in Int,
         status' \in [Marks -> Status], detail' \in [Marks -> DetailType],
         posted' \in [Marks -> EventType], txn' \in TxnType
  PROVE  Types'
  BY DEF Types, KeepInExits, world, InputsOK, WorkingOK, AccountOK

LEMMA EntryKeepsType ==
  ASSUME Types, KeepInEntries, settled' \in Int,
         status' \in [Marks -> Status], detail' \in [Marks -> DetailType],
         posted' \in [Marks -> EventType], txn' \in TxnType
  PROVE  Types'
  BY DEF Types, KeepInEntries, world, InputsOK, WorkingOK, AccountOK

LEMMA InitType == Init => TypeOK
  BY ClockAssumption DEF Init, TypeOK, AccountOK, Working, Stamp, DetailType,
     Fresh, NoEvents, Idle, Phase, Status, HELD, Kinds, None, TxnType, EventType

\* Each action of the first loop keeps the types.
LEMMA ExitStepType ==
  ASSUME Types, NEW m \in Marks, ExitStep(m)
  PROVE  Types'
<1>0. WorkingOK /\ InputsOK /\ KeepInExits
  BY DEF Types, ExitStep, Settle, GapAtEnd, GapMissedWindow, GapExitDeadline,
         AwaitExitQuote, FillExit, Revalue, LeaveAlone
<1>1. CASE Settle(m)
  <2>1. settled' \in Int /\ unsettled' \in Int
    BY <1>0, <1>1 DEF Settle, WorkingOK, DetailType
  <2>2. status' \in [Marks -> Status] /\ detail' \in [Marks -> DetailType]
    BY <1>0, <1>1 DEF Settle, WorkingOK, Status
  <2>3. posted' \in [Marks -> EventType] /\ txn' \in TxnType
    BY <1>1, PostType DEF Settle, Kinds
  <2> QED  BY <1>0, <2>1, <2>2, <2>3, ExitKeepsType
<1>2. CASE GapAtEnd(m) \/ GapMissedWindow(m) \/ GapExitDeadline(m)
  <2>1. DeclareGap(m) /\ UNCHANGED <<settled, unsettled, detail>>
    BY <1>2 DEF GapAtEnd, GapMissedWindow, GapExitDeadline
  <2>2. status' \in [Marks -> Status]
    BY <1>0, <2>1 DEF DeclareGap, WorkingOK, Status, HELD
  <2>3. posted' \in [Marks -> EventType] /\ txn' \in TxnType
    BY <2>1, PostType DEF DeclareGap, Kinds
  <2> QED  BY <1>0, <2>1, <2>2, <2>3, ExitKeepsType DEF WorkingOK
<1>3. CASE AwaitExitQuote(m)
  <2>1. posted' \in [Marks -> EventType]
    BY <1>0, <1>3 DEF AwaitExitQuote, Requested, WorkingOK, InputsOK, EventType, Kinds, Stamp
  <2>2. txn' \in TxnType
    BY <1>3, SkipType DEF AwaitExitQuote
  <2> QED  BY <1>0, <1>3, <2>1, <2>2, ExitKeepsType DEF AwaitExitQuote, WorkingOK
<1>4. CASE FillExit(m)
  <2>1. Requested(m) + Latency \in Nat
    BY <1>0, PolicyAssumption DEF Requested, None, WorkingOK, InputsOK, EventType, Kinds, Stamp
  <2>2. PICK q \in UsableQuotes(Requested(m) + Latency) :
           /\ detail' = [detail EXCEPT ![m] =
                [@ EXCEPT !.sale = Sale(q[2]), !.settles = SettlementAt(clock),
                          !.quoteAt = q[1], !.bid = q[2].bid]]
           /\ unsettled' = unsettled + Sale(q[2])
    BY <1>4 DEF FillExit
  <2>3. q[1] \in Nat /\ q[2].bid \in Nat /\ Sale(q[2]) \in Nat /\ SettlementAt(clock) \in Stamp
    BY <1>0, <2>1, QuoteFacts, SettlementStamp DEF InputsOK
  <2>4. detail' \in [Marks -> DetailType]
    <3>1. [detail[m] EXCEPT !.sale = Sale(q[2]), !.settles = SettlementAt(clock),
                            !.quoteAt = q[1], !.bid = q[2].bid] \in DetailType
      BY <1>0, <2>3 DEF DetailType, WorkingOK, Stamp
    <3> QED  BY <1>0, <2>2, <3>1 DEF WorkingOK
  <2>5. settled' \in Int /\ unsettled' \in Int /\ status' \in [Marks -> Status]
    BY <1>0, <1>4, <2>2, <2>3, PolicyAssumption DEF FillExit, WorkingOK, Status
  <2>6. posted' \in [Marks -> EventType] /\ txn' \in TxnType
    BY <1>4, PostType DEF FillExit, Kinds
  <2> QED  BY <1>0, <2>4, <2>5, <2>6, ExitKeepsType
<1>5. CASE Revalue(m)
  <2>1. posted[m]["ENTRY"] \in Stamp
    BY <1>0 DEF WorkingOK, EventType, Kinds
  <2>2. PICK q \in UsableQuotes(posted[m]["ENTRY"]) :
           detail' = [detail EXCEPT ![m].quoteAt = q[1], ![m].bid = q[2].bid]
    BY <1>5 DEF Revalue
  <2>3. q[1] \in Stamp /\ q[2].bid \in Nat
    BY <1>0, <2>1, QuoteFacts DEF None, Stamp, InputsOK
  <2>4. detail' \in [Marks -> DetailType]
    BY <1>0, <2>2, <2>3 DEF DetailType, WorkingOK
  <2>5. txn' \in TxnType
    BY <1>5, SkipType DEF Revalue
  <2> QED  BY <1>0, <1>5, <2>4, <2>5, ExitKeepsType DEF Revalue, WorkingOK
<1>6. CASE LeaveAlone(m)
  <2>1. txn' \in TxnType
    BY <1>6, SkipType DEF LeaveAlone
  <2> QED  BY <1>0, <1>6, <2>1, ExitKeepsType DEF LeaveAlone, WorkingOK
<1> QED  BY <1>1, <1>2, <1>3, <1>4, <1>5, <1>6 DEF ExitStep

\* Each action of the entry loop keeps the types.
LEMMA EntryStepType ==
  ASSUME Types, NEW m \in Marks, EntryStep(m)
  PROVE  Types'
<1>0. WorkingOK /\ InputsOK /\ KeepInEntries
  BY DEF Types, EntryStep, SkipEntry, FillEntry, LeavePending
<1>1. CASE SkipEntry(m)
  <2>1. status' \in [Marks -> Status]
    BY <1>0, <1>1 DEF SkipEntry, WorkingOK, Status
  <2>2. posted' \in [Marks -> EventType] /\ txn' \in TxnType
    BY <1>1, PostType DEF SkipEntry, Kinds
  <2> QED  BY <1>0, <1>1, <2>1, <2>2, EntryKeepsType DEF SkipEntry, WorkingOK
<1>2. CASE FillEntry(m)
  <2>1. detail[m].seen + Latency \in Nat
    BY <1>0, PolicyAssumption DEF DetailType, None, WorkingOK, Stamp
  <2>2. PICK q \in EntryQuotes(m) :
          /\ detail' = [detail EXCEPT ![m] =
               [@ EXCEPT !.debit = Debit(q[2]), !.quoteAt = q[1], !.bid = q[2].bid]]
          /\ settled' = settled - Debit(q[2])
          /\ CountEntry(m, Debit(q[2]))
    BY <1>2 DEF FillEntry
  <2>3. q[1] \in Stamp /\ q[2].bid \in Nat /\ Debit(q[2]) \in Nat
    BY <1>0, <2>1, QuoteFacts DEF EntryQuotes, InputsOK, Stamp
  <2>4. detail' \in [Marks -> DetailType]
    <3>1. [detail[m] EXCEPT !.debit = Debit(q[2]), !.quoteAt = q[1], !.bid = q[2].bid]
            \in DetailType
      BY <1>0, <2>3 DEF DetailType, WorkingOK
    <3> QED  BY <1>0, <2>2, <3>1 DEF WorkingOK
  <2>5. settled' \in Int /\ status' \in [Marks -> Status]
    BY <1>0, <1>2, <2>2, <2>3 DEF FillEntry, WorkingOK, Status, HELD
  <2>6. posted' \in [Marks -> EventType]
    BY <1>0, <1>2 DEF FillEntry, WorkingOK, InputsOK, EventType, Kinds, Stamp
  <2>7. txn' \in TxnType
    <3> DEFINE n == txn.next + 1
               c == txn.cash - Debit(q[2])
               h == txn.held + 1
               p == After(txn.phase, m, "ENTRY")
    <3>1. n \in Nat /\ c \in Int /\ h \in Int /\ p \in Phase
      BY <2>3 DEF After, Types, TxnType, Phase
    <3> HIDE DEF n, c, h, p
    <3>2. txn' = [txn EXCEPT !.next = n, !.cash = c, !.held = h, !.phase = p]
      BY <2>2 DEF CountEntry, n, c, h, p
    <3> QED  BY <3>1, <3>2, TxnUpdate DEF Types
  <2> QED  BY <1>0, <2>4, <2>5, <2>6, <2>7, EntryKeepsType
<1>3. CASE LeavePending(m)
  <2>1. txn' \in TxnType
    BY <1>3, SkipType DEF LeavePending
  <2> QED  BY <1>0, <1>3, <2>1, EntryKeepsType DEF LeavePending, WorkingOK
<1> QED  BY <1>1, <1>2, <1>3 DEF EntryStep

\* Every action of the handler, of the account and of its environment keeps
\* the types, whatever the quotes and the clock do.
LEMMA NextType == TypeOK /\ [Next]_vars => TypeOK'
<1> SUFFICES ASSUME Types, [Next]_vars PROVE Types'
  BY TypeParts
<1>0. InputsOK /\ WorkingOK /\ AccountOK(saved) /\ txn \in TxnType
  BY DEF Types
<1>1. CASE Activate
  <2>1. Cardinality(Recorded) \in Nat
    BY MarkSets DEF Recorded
  <2>2. WorkingOK'
    BY <1>0, <1>1, <2>1, PolicyAssumption DEF Activate, WorkingOK, InputsOK, Stamp
  <2>3. AccountOK(saved)'
    BY <1>1, <2>2 DEF Activate, AccountOK, WorkingOK, Working
  <2> QED  BY <1>0, <1>1, <2>2, <2>3 DEF Activate, world, Types, InputsOK
<1>2. CASE Begin
  <2>1. Idle \in TxnType
    BY DEF Idle, TxnType, Phase
  <2>2. txn' \in TxnType
    BY <1>2, <2>1 DEF Begin, TxnType, Phase
  <2> QED  BY <1>0, <1>2, <2>2 DEF Begin, world, Types, InputsOK, WorkingOK, AccountOK
<1>3. ASSUME NEW m \in Marks, ExitStep(m) \/ EntryStep(m) PROVE Types'
  BY <1>3, ExitStepType, EntryStepType
<1>4. CASE Discover
  <2>1. Cardinality(Recorded) \in Nat /\ Cardinality(Held) \in Nat
    BY MarkSets DEF Recorded, Held
  <2>2. detail' \in [Marks -> DetailType]
    BY <1>0, <1>4 DEF Discover, DetailType, Stamp, InputsOK, WorkingOK
  <2>3. status' \in [Marks -> Status]
    BY <1>0, <1>4 DEF Discover, Status, WorkingOK
  <2>4. txn' \in TxnType
    <3> DEFINE h == Cardinality(Held)
    <3>1. h \in Int /\ settled \in Int
      BY <1>0, <2>1 DEF WorkingOK
    <3> HIDE DEF h
    <3>2. txn' = [txn EXCEPT !.phase = "entries", !.next = 1, !.cash = settled, !.held = h]
      BY <1>4 DEF Discover, h
    <3> QED  BY <1>0, <3>1, <3>2 DEF TxnType, Phase
  <2> QED  BY <1>0, <1>4, <2>1, <2>2, <2>3, <2>4 DEF Discover, world, Types, InputsOK, WorkingOK, AccountOK
<1>5. CASE Commit
  <2>1. WorkingOK' /\ InputsOK'
    BY <1>0, <1>5 DEF Commit, world, WorkingOK, InputsOK
  <2>2. AccountOK(saved)'
    BY <1>5, <2>1 DEF Commit, AccountOK, WorkingOK, Working
  <2>3. txn' \in TxnType
    BY <1>5 DEF Commit, Idle, TxnType, Phase
  <2> QED  BY <2>1, <2>2, <2>3 DEF Types
<1>6. CASE Rollback
  <2>1. WorkingOK'
    BY <1>0, <1>6 DEF Rollback, WorkingOK, AccountOK
  <2>2. AccountOK(saved)'
    BY <1>0, <1>6 DEF Rollback, AccountOK
  <2>3. txn' \in TxnType
    BY <1>6 DEF Rollback, Idle, TxnType, Phase
  <2> QED  BY <1>0, <1>6, <2>1, <2>2, <2>3 DEF Rollback, world, Types, InputsOK
<1>7. CASE RecordMark \/ Tick \/ SetClockBack \/ \E m \in Marks : ResolveSignal(m) \/ DataGap(m)
  <2>1. InputsOK'
    <3>1. CASE RecordMark
      <4> DEFINE m == Cardinality(Recorded) + 1
      <4>1. /\ UNCHANGED <<clock, stepBacks, rollbacks>>
            /\ signal' = [signal EXCEPT ![m].reason = "OPEN"]
        BY <3>1 DEF RecordMark
      <4>2. PICK created \in {clock - lag : lag \in StampLags}, eligible \in BOOLEAN :
              /\ created >= 0
              /\ marks' = [marks EXCEPT ![m] = [created |-> created, eligible |-> eligible]]
        BY <3>1 DEF RecordMark
      <4>3. created \in Nat
        BY <1>0, <4>2, ClockAssumption DEF InputsOK
      <4>4. marks' \in [Marks -> [created : Stamp, eligible : BOOLEAN]]
        BY <1>0, <4>2, <4>3 DEF InputsOK, Stamp
      <4>5. signal' \in [Marks -> [reason : {"NONE", "OPEN", "EXIT", "DATA_GAP"}, exitAt : Stamp]]
        BY <1>0, <4>1 DEF InputsOK
      <4> QED  BY <1>0, <4>1, <4>4, <4>5 DEF InputsOK
    <3>2. CASE Tick \/ SetClockBack
      BY <1>0, <3>2 DEF Tick, SetClockBack, InputsOK
    <3>3. ASSUME NEW m \in Marks, ResolveSignal(m) \/ DataGap(m) PROVE InputsOK'
      BY <1>0, <3>3 DEF ResolveSignal, DataGap, InputsOK, Stamp, None
    <3> QED  BY <1>7, <3>1, <3>2, <3>3
  <2>2. UNCHANGED <<account, txn, saved>>
    BY <1>7 DEF RecordMark, Tick, SetClockBack, ResolveSignal, DataGap
  <2> QED  BY <1>0, <2>1, <2>2 DEF account, Types, WorkingOK, AccountOK
<1>8. CASE UNCHANGED vars
  BY <1>0, <1>8 DEF vars, account, Types, InputsOK, WorkingOK, AccountOK
<1> QED
  BY <1>1, <1>2, <1>3, <1>4, <1>5, <1>6, <1>7, <1>8 DEF Next, Handler

\* Type correctness of the account, of its committed copy and of its inputs:
\* every amount and stamp the handler of forward_account.py computes has the
\* type of its column, sale proceeds are never negative.
THEOREM TypeCorrect == Spec => []TypeOK
  BY InitType, NextType, PTL DEF Spec
-----------------------------------------------------------------------------
(* What is imported *)

\* The part of the invariant that the watermark stands for.  Marks are recorded
\* in the order of their ids, so that a watermark, which is only a number,
\* separates the marks already considered from those that are not.
RecordedPrefix == \A m \in Marks : m \in Recorded <=> m <= Cardinality(Recorded)

Imported(since, mark, st) ==
  /\ mark <= Cardinality(Recorded)
  /\ \A m \in Marks : st[m] # "NONE" => m <= mark /\ marks[m].created >= since

ImportInv ==
  /\ RecordedPrefix
  /\ Imported(activatedAt, watermark, status)
  /\ Imported(saved.activatedAt, saved.watermark, saved.status)
  /\ activatedAt = None => \A m \in Marks : status[m] = "NONE"
  /\ saved.activatedAt = None => \A m \in Marks : saved.status[m] = "NONE"
  /\ txn.phase # "idle" => activatedAt # None

\* An iteration of either loop only moves the status of its own position, and
\* never gives one to a mark that has none.
LEMMA LoopStep ==
  ASSUME Types, NEW m \in Marks, ExitStep(m) \/ EntryStep(m)
  PROVE  /\ UNCHANGED <<clock, marks, activatedAt, processedAt, watermark, saved>>
         /\ \A n \in Marks : n # m => status'[n] = status[n]
         /\ status[m] = "NONE" => status'[m] = "NONE"
         /\ txn.phase # "idle"
<1>1. status \in [Marks -> Status] /\ detail \in [Marks -> DetailType]
  BY DEF Types, WorkingOK
<1>2. CASE ExitStep(m)
  <2>1. UNCHANGED <<clock, marks, activatedAt, processedAt, watermark, saved>> /\ txn.phase # "idle"
    BY <1>2 DEF ExitStep, Settle, GapAtEnd, GapMissedWindow, GapExitDeadline, AwaitExitQuote,
         FillExit, Revalue, LeaveAlone, KeepInExits, world, Exiting
  <2>2. \/ UNCHANGED status
        \/ status[m] # "NONE" /\ \E s \in Status : status' = [status EXCEPT ![m] = s]
    BY <1>2 DEF ExitStep, Settle, GapAtEnd, GapMissedWindow, GapExitDeadline, AwaitExitQuote,
         FillExit, Revalue, LeaveAlone, DeclareGap, MustExit, Due, Status, HELD
  <2> QED  BY <1>1, <2>1, <2>2
<1>3. CASE EntryStep(m)
  <2>1. UNCHANGED <<clock, marks, activatedAt, processedAt, watermark, saved>> /\ txn.phase # "idle"
    BY <1>3 DEF EntryStep, SkipEntry, FillEntry, LeavePending, KeepInEntries, world, Entering
  <2>2. \/ UNCHANGED status
        \/ status[m] # "NONE" /\ \E s \in Status : status' = [status EXCEPT ![m] = s]
    BY <1>3 DEF EntryStep, SkipEntry, FillEntry, LeavePending, Status, HELD
  <2> QED  BY <1>1, <2>1, <2>2
<1> QED  BY <1>2, <1>3

LEMMA InitImport == Init => ImportInv
<1> SUFFICES ASSUME Init PROVE ImportInv
  OBVIOUS
<1>1. Recorded = {}
  BY DEF Init, Recorded, Marks
<1>2. Cardinality(Recorded) = 0
  BY <1>1, FS_EmptySet
<1> QED  BY <1>1, <1>2 DEF Init, ImportInv, RecordedPrefix, Imported, Idle, Working, Marks

\* One more mark is recorded: the next id, which no position has yet.
LEMMA RecordImport ==
  ASSUME Types, ImportInv, RecordMark
  PROVE  ImportInv'
<1> DEFINE n == Cardinality(Recorded)
<1>0. InputsOK /\ WorkingOK /\ AccountOK(saved) /\ UNCHANGED <<account, txn, saved>>
  BY DEF Types, RecordMark
<1>1. n \in Nat /\ IsFiniteSet(Recorded)
  BY MarkSets DEF Recorded
<1>2. n + 1 \in Marks /\ n + 1 \notin Recorded
  BY <1>1 DEF RecordMark, ImportInv, RecordedPrefix
<1>3. PICK created \in {clock - lag : lag \in StampLags}, eligible \in BOOLEAN :
        /\ created >= 0
        /\ marks' = [marks EXCEPT ![n + 1] = [created |-> created, eligible |-> eligible]]
  BY DEF RecordMark
<1>4. created \in Int /\ created # None
  BY <1>0, <1>3, ClockAssumption DEF InputsOK, None
<1>5. Recorded' = Recorded \cup {n + 1}
  BY <1>0, <1>2, <1>3, <1>4 DEF Recorded, InputsOK
<1>6. Cardinality(Recorded') = n + 1
  BY <1>1, <1>2, <1>5, FS_AddElement
<1>7. RecordedPrefix'
  BY <1>1, <1>5, <1>6 DEF ImportInv, RecordedPrefix, Marks
<1>8. \A m \in Marks : m # n + 1 => marks'[m] = marks[m]
  BY <1>0, <1>3 DEF InputsOK
<1>9. Imported(activatedAt, watermark, status)'
  BY <1>0, <1>1, <1>6, <1>8 DEF ImportInv, Imported, account, WorkingOK, Marks
<1>10. Imported(saved.activatedAt, saved.watermark, saved.status)'
  BY <1>0, <1>1, <1>6, <1>8 DEF ImportInv, Imported, AccountOK, Marks
<1> QED  BY <1>0, <1>7, <1>9, <1>10 DEF ImportInv, account

\* The discovery raises the watermark to the newest mark and gives a position
\* to the marks above it that the account is old enough to have seen.
LEMMA DiscoverImport ==
  ASSUME Types, ImportInv, Discover
  PROVE  ImportInv'
<1>0. WorkingOK /\ InputsOK /\ AccountOK(saved) /\ UNCHANGED <<marks, activatedAt, saved>>
  BY DEF Types, Discover, world
<1>1. Recorded' = Recorded /\ Cardinality(Recorded) \in Nat
  BY <1>0, MarkSets DEF Recorded
<1>2. \A m \in Marks : status'[m] # "NONE" => m \in Discovered \/ status[m] # "NONE"
  BY DEF Discover
<1>3. Imported(activatedAt, watermark, status)'
  <2>1. watermark' = Cardinality(Recorded)'
    BY <1>1 DEF Discover
  <2>2. SUFFICES ASSUME NEW m \in Marks, status'[m] # "NONE"
                 PROVE  m <= watermark' /\ marks[m].created >= activatedAt
    BY <1>0, <1>1, <2>1 DEF Imported
  <2>3. CASE m \in Discovered
    BY <1>1, <2>1, <2>3 DEF Discovered, ImportInv, RecordedPrefix
  <2>4. CASE status[m] # "NONE"
    BY <1>0, <1>1, <2>1, <2>4 DEF ImportInv, Imported, WorkingOK, Marks
  <2> QED  BY <1>2, <2>2, <2>3, <2>4
<1>4. Imported(saved.activatedAt, saved.watermark, saved.status)'
  BY <1>0, <1>1 DEF ImportInv, Imported
<1>5. activatedAt # None
  BY DEF Discover, ImportInv
<1> QED  BY <1>0, <1>1, <1>3, <1>4, <1>5 DEF ImportInv, RecordedPrefix

LEMMA NextImport == TypeOK /\ ImportInv /\ [Next]_vars => ImportInv'
<1> SUFFICES ASSUME Types, ImportInv, [Next]_vars PROVE ImportInv'
  BY TypeParts
<1>0. InputsOK /\ WorkingOK /\ AccountOK(saved)
  BY DEF Types
<1>a. ASSUME UNCHANGED marks PROVE Recorded' = Recorded /\ Cardinality(Recorded) \in Nat
  BY <1>a, MarkSets DEF Recorded
<1>1. CASE Activate
  <2>1. UNCHANGED <<marks, status, txn>> /\ txn.phase = "idle" /\ activatedAt = None
        /\ activatedAt' = clock /\ watermark' = Cardinality(Recorded) /\ saved' = Working'
    BY <1>1 DEF Activate, world
  <2>2. \A m \in Marks : status[m] = "NONE"
    BY <2>1 DEF ImportInv
  <2>3. saved'.activatedAt = activatedAt' /\ saved'.watermark = watermark' /\ saved'.status = status'
    BY <2>1 DEF Working
  <2> QED  BY <1>a, <2>1, <2>2, <2>3 DEF ImportInv, Imported, RecordedPrefix
<1>2. CASE Begin
  BY <1>2, <1>a DEF Begin, world, ImportInv, Imported, RecordedPrefix
<1>3. ASSUME NEW m \in Marks, ExitStep(m) \/ EntryStep(m) PROVE ImportInv'
  <2>1. /\ UNCHANGED <<marks, activatedAt, watermark, saved>> /\ txn.phase # "idle"
        /\ \A n \in Marks : status'[n] # "NONE" => status[n] # "NONE"
    BY <1>3, LoopStep
  <2> QED  BY <1>a, <2>1 DEF ImportInv, Imported, RecordedPrefix
<1>4. CASE Discover
  BY <1>4, DiscoverImport
<1>5. CASE Commit
  <2>1. UNCHANGED <<marks, activatedAt, watermark, status>> /\ saved' = Working' /\ txn'.phase = "idle"
    BY <1>5 DEF Commit, world, Idle
  <2>2. saved'.activatedAt = activatedAt' /\ saved'.watermark = watermark' /\ saved'.status = status'
    BY <2>1 DEF Working
  <2> QED  BY <1>a, <2>1, <2>2 DEF ImportInv, Imported, RecordedPrefix
<1>6. CASE Rollback
  <2>1. UNCHANGED <<marks, saved>> /\ txn'.phase = "idle" /\ activatedAt' = saved.activatedAt
        /\ watermark' = saved.watermark /\ status' = saved.status
    BY <1>6 DEF Rollback, world, Idle
  <2> QED  BY <1>a, <2>1 DEF ImportInv, Imported, RecordedPrefix
<1>7. CASE RecordMark
  BY <1>7, RecordImport
<1>8. CASE Tick \/ SetClockBack \/ (\E m \in Marks : ResolveSignal(m) \/ DataGap(m)) \/ UNCHANGED vars
  <2>1. UNCHANGED <<marks, account, txn, saved>>
    BY <1>8 DEF Tick, SetClockBack, ResolveSignal, DataGap, vars, world
  <2> QED  BY <1>a, <2>1 DEF account, ImportInv, Imported, RecordedPrefix
<1> QED
  BY <1>1, <1>2, <1>3, <1>4, <1>5, <1>6, <1>7, <1>8 DEF Next, Handler

\* The watermark never imports history: no position exists for a mark that was
\* recorded before ensure_account created the account or that the watermark has
\* not passed, whatever clock corrections and failed scans happen in between.
THEOREM HistoryNeverImported == Spec => []HistoryExcluded
<1>1. ImportInv => HistoryExcluded
  BY DEF ImportInv, Imported, HistoryExcluded
<1> QED  BY TypeCorrect, InitImport, NextImport, <1>1, PTL DEF Spec
-----------------------------------------------------------------------------
(* Events and projection *)

\* EventsExplainStatus for one position with status s and event keys e.
Explains(s, e) ==
  /\ e["ENTRY"] # None <=> s \in HELD \cup {"UNSETTLED", "CLOSED"}
  /\ e["SKIP"] # None <=> s = "SKIPPED"
  /\ e["QUOTE_GAP"] # None <=> s = "UNPRICED"
  /\ e["EXIT"] # None <=> s \in {"UNSETTLED", "CLOSED"}
  /\ e["SETTLEMENT"] # None <=> s = "CLOSED"

EventInv ==
  /\ \A m \in Marks : Explains(status[m], posted[m])
  /\ \A m \in Marks : Explains(saved.status[m], saved.posted[m])
  /\ txn.phase # "failed"

\* A step of one position whose own status and events still agree, and which
\* posts no key that was there, keeps the agreement of all.
LEMMA OneExplains ==
  ASSUME Types, EventInv, NEW m \in Marks, ExitStep(m) \/ EntryStep(m),
         \A n \in Marks : n # m => posted'[n] = posted[n],
         Explains(status'[m], posted'[m]), txn'.phase # "failed"
  PROVE  EventInv'
  BY LoopStep DEF EventInv

\* What posting an event of a new key does to the events of its position.
LEMMA PostFacts ==
  ASSUME Types, EventInv, NEW m \in Marks, NEW kind \in Kinds, Post(m, kind), posted[m][kind] = None
  PROVE  /\ posted'[m][kind] # None
         /\ \A k \in Kinds : k # kind => posted'[m][k] = posted[m][k]
         /\ \A n \in Marks : n # m => posted'[n] = posted[n]
         /\ txn'.phase # "failed"
<1>1. txn'.phase # "failed"
  BY DEF Post, After, Types, TxnType, EventInv
<1> QED  BY <1>1 DEF Post, Types, InputsOK, WorkingOK, EventType, None

LEMMA SkipFacts == Types /\ EventInv /\ Skip => txn'.phase # "failed"
  BY DEF Skip, Types, TxnType, EventInv

LEMMA ExitStepEvents ==
  ASSUME Types, EventInv, NEW m \in Marks, ExitStep(m)
  PROVE  EventInv'
<1>0. /\ status \in [Marks -> Status]
      /\ posted \in [Marks -> EventType]
      /\ clock # None
      /\ Explains(status[m], posted[m])
  BY DEF Types, WorkingOK, InputsOK, EventInv, None
<1> USE DEF Kinds
<1>1. CASE Settle(m)
  <2>1. status[m] = "UNSETTLED" /\ status'[m] = "CLOSED" /\ Post(m, "SETTLEMENT")
    BY <1>0, <1>1 DEF Settle, Due
  <2>2. posted[m]["SETTLEMENT"] = None
    BY <1>0, <2>1 DEF Explains
  <2>3. Explains(status'[m], posted'[m])
    BY <1>0, <2>1, <2>2, PostFacts DEF Explains, HELD
  <2> QED  BY <1>1, <2>1, <2>2, <2>3, PostFacts, OneExplains DEF ExitStep
<1>2. CASE GapAtEnd(m) \/ GapMissedWindow(m) \/ GapExitDeadline(m)
  <2>1. status[m] = "OPEN" /\ status'[m] = "UNPRICED" /\ Post(m, "QUOTE_GAP")
    BY <1>0, <1>2 DEF GapAtEnd, GapMissedWindow, GapExitDeadline, MustExit, DeclareGap
  <2>2. posted[m]["QUOTE_GAP"] = None
    BY <1>0, <2>1 DEF Explains
  <2>3. Explains(status'[m], posted'[m])
    BY <1>0, <2>1, <2>2, PostFacts DEF Explains, HELD
  <2> QED  BY <1>2, <2>1, <2>2, <2>3, PostFacts, OneExplains DEF ExitStep
<1>3. CASE AwaitExitQuote(m)
  <2>1. /\ status' = status
        /\ posted' = [posted EXCEPT ![m]["EXIT_REQUEST"] = Requested(m)]
        /\ Skip
    BY <1>3 DEF AwaitExitQuote
  <2>2. Explains(status'[m], posted'[m])
    BY <1>0, <2>1 DEF Explains, EventType
  <2>3. \A n \in Marks : n # m => posted'[n] = posted[n]
    BY <1>0, <2>1
  <2> QED  BY <1>3, <2>1, <2>2, <2>3, SkipFacts, OneExplains DEF ExitStep
<1>4. CASE FillExit(m)
  <2>1. status[m] = "OPEN" /\ status'[m] = "UNSETTLED" /\ Post(m, "EXIT")
    BY <1>0, <1>4 DEF FillExit, MustExit
  <2>2. posted[m]["EXIT"] = None
    BY <1>0, <2>1 DEF Explains
  <2>3. Explains(status'[m], posted'[m])
    BY <1>0, <2>1, <2>2, PostFacts DEF Explains, HELD
  <2> QED  BY <1>4, <2>1, <2>2, <2>3, PostFacts, OneExplains DEF ExitStep
<1>5. CASE Revalue(m) \/ LeaveAlone(m)
  <2>1. status' = status /\ posted' = posted /\ Skip
    BY <1>5 DEF Revalue, LeaveAlone
  <2> QED  BY <1>0, <1>5, <2>1, SkipFacts, OneExplains DEF ExitStep
<1> QED  BY <1>1, <1>2, <1>3, <1>4, <1>5 DEF ExitStep

LEMMA EntryStepEvents ==
  ASSUME Types, EventInv, NEW m \in Marks, EntryStep(m)
  PROVE  EventInv'
<1>0. /\ status \in [Marks -> Status]
      /\ posted \in [Marks -> EventType]
      /\ clock # None
      /\ Explains(status[m], posted[m])
  BY DEF Types, WorkingOK, InputsOK, EventInv, None
<1> USE DEF Kinds
<1>1. CASE SkipEntry(m)
  <2>1. status[m] = "PENDING_ENTRY" /\ status'[m] = "SKIPPED" /\ Post(m, "SKIP")
    BY <1>0, <1>1 DEF SkipEntry
  <2>2. posted[m]["SKIP"] = None
    BY <1>0, <2>1 DEF Explains
  <2>3. Explains(status'[m], posted'[m])
    BY <1>0, <2>1, <2>2, PostFacts DEF Explains, HELD
  <2> QED  BY <1>1, <2>1, <2>2, <2>3, PostFacts, OneExplains DEF EntryStep
<1>2. CASE FillEntry(m)
  <2>1. /\ status[m] = "PENDING_ENTRY" /\ status'[m] = "OPEN"
        /\ posted' = [posted EXCEPT ![m]["ENTRY"] = clock]
        /\ \E debit \in {Debit(q[2]) : q \in EntryQuotes(m)} : CountEntry(m, debit)
    BY <1>0, <1>2 DEF FillEntry
  <2>2. posted[m]["ENTRY"] = None
    BY <1>0, <2>1 DEF Explains, HELD
  <2>3. Explains(status'[m], posted'[m])
    BY <1>0, <2>1 DEF Explains, HELD, EventType
  <2>4. txn'.phase # "failed"
    BY <2>1, <2>2 DEF CountEntry, After, Types, TxnType, EventInv
  <2> QED  BY <1>0, <1>2, <2>1, <2>3, <2>4, OneExplains DEF EntryStep
<1>3. CASE LeavePending(m)
  <2>1. status' = status /\ posted' = posted /\ Skip
    BY <1>3 DEF LeavePending
  <2> QED  BY <1>0, <1>3, <2>1, SkipFacts, OneExplains DEF EntryStep
<1> QED  BY <1>1, <1>2, <1>3 DEF EntryStep

LEMMA InitEvents == Init => EventInv
  BY DEF Init, EventInv, Explains, NoEvents, Kinds, HELD, Working, Idle

LEMMA NextEvents == TypeOK /\ ImportInv /\ EventInv /\ [Next]_vars => EventInv'
<1> SUFFICES ASSUME Types, ImportInv, EventInv, [Next]_vars PROVE EventInv'
  BY TypeParts
<1>0. txn \in TxnType
  BY DEF Types
<1>1. CASE Activate \/ Commit
  <2>1. UNCHANGED <<status, posted>> /\ saved' = Working' /\ txn'.phase # "failed"
    BY <1>1 DEF Activate, Commit, Idle, EventInv
  <2>2. saved'.status = status' /\ saved'.posted = posted'
    BY <2>1 DEF Working
  <2> QED  BY <2>1, <2>2 DEF EventInv
<1>2. CASE Begin
  BY <1>2 DEF Begin, Idle, EventInv
<1>3. ASSUME NEW m \in Marks, ExitStep(m) \/ EntryStep(m) PROVE EventInv'
  BY <1>3, ExitStepEvents, EntryStepEvents
<1>4. CASE Discover
  <2>1. UNCHANGED <<posted, saved>> /\ txn'.phase # "failed"
    BY <1>0, <1>4 DEF Discover, TxnType
  <2>2. \A m \in Marks : status'[m] = IF m \in Discovered THEN "PENDING_ENTRY" ELSE status[m]
    BY <1>4 DEF Discover
  <2>3. watermark \in Int
    BY DEF Types, WorkingOK
  <2>4. \A m \in Discovered : status[m] = "NONE"
    BY <2>3 DEF Discovered, Recorded, Marks, ImportInv, Imported
  <2>5. \A m \in Marks : Explains(status'[m], posted'[m])
    BY <2>1, <2>2, <2>4 DEF EventInv, Explains, HELD
  <2> QED  BY <2>1, <2>5 DEF EventInv
<1>5. CASE Rollback
  <2>1. UNCHANGED saved /\ txn'.phase # "failed" /\ status' = saved.status /\ posted' = saved.posted
    BY <1>5 DEF Rollback, Idle
  <2> QED  BY <2>1 DEF EventInv
<1>6. CASE RecordMark \/ Tick \/ SetClockBack \/ (\E m \in Marks : ResolveSignal(m) \/ DataGap(m))
           \/ UNCHANGED vars
  <2>1. UNCHANGED <<account, txn, saved>>
    BY <1>6 DEF RecordMark, Tick, SetClockBack, ResolveSignal, DataGap, vars
  <2> QED  BY <2>1 DEF account, EventInv
<1> QED
  BY <1>1, <1>2, <1>3, <1>4, <1>5, <1>6 DEF Next, Handler

LEMMA EventInvariant == Spec => []EventInv
  BY TypeCorrect, InitImport, NextImport, InitEvents, NextEvents, PTL DEF Spec

\* The ledger explains the projection: in every step of the handler, and in
\* what is committed, a position has the status its set of event keys implies.
THEOREM EventsAgree == Spec => []EventsExplainStatus
<1>1. EventInv => EventsExplainStatus
  BY DEF EventInv, Explains, EventsExplainStatus, Has
<1> QED  BY EventInvariant, <1>1, PTL

\* The unique constraint on (account, key) is never hit: no retry, replay or
\* failed scan makes advance_account insert an event that is already there.
THEOREM EventKeysUnique == Spec => []NoDuplicateEvent
<1>1. EventInv => NoDuplicateEvent
  BY DEF EventInv, NoDuplicateEvent
<1> QED  BY EventInvariant, <1>1, PTL
-----------------------------------------------------------------------------
(* Cash and slots *)

HeldIn(st) == {m \in Marks : st[m] \in HELD}

Solvent(since, cash, st) ==
  /\ since # None => cash >= CloseFee * Cardinality(HeldIn(st))
  /\ Cardinality(HeldIn(st)) <= MaxPositions

CashInv ==
  /\ Solvent(activatedAt, settled, status)
  /\ Solvent(saved.activatedAt, saved.settled, saved.status)
  /\ LoopTotalsAgree

LEMMA HeldSets ==
  ASSUME NEW st
  PROVE  HeldIn(st) \in SUBSET Marks /\ IsFiniteSet(HeldIn(st)) /\ Cardinality(HeldIn(st)) \in Nat
  BY MarkSets DEF HeldIn

\* One more or one fewer held position moves the reserve by one closing fee.
LEMMA Reserve ==
  ASSUME NEW n \in Nat
  PROVE  CloseFee * n \in Nat /\ CloseFee * (n + 1) = CloseFee * n + CloseFee
  BY PolicyAssumption, SMT

\* A loop iteration that leaves the set of held positions alone, and does not
\* take settled cash, keeps the account solvent.
LEMMA SameHeld ==
  ASSUME Types, CashInv, UNCHANGED <<activatedAt, saved>>,
         HeldIn(status') = HeldIn(status), settled' \in Int, settled' >= settled,
         txn'.phase = "entries" => settled' = settled /\ txn.phase = "entries"
                                   /\ txn'.cash = txn.cash /\ txn'.held = txn.held
  PROVE  CashInv'
<1>1. settled \in Int /\ CloseFee * Cardinality(HeldIn(status)) \in Nat
  BY HeldSets, Reserve DEF Types, WorkingOK
<1>2. Solvent(activatedAt, settled, status)'
  BY <1>1 DEF CashInv, Solvent
<1>3. Held' = HeldIn(status') /\ Held = HeldIn(status)
  BY DEF Held, HeldIn
<1> QED  BY <1>2, <1>3 DEF CashInv, LoopTotalsAgree

\* Skip and Post leave the loop's totals alone.
LEMMA TotalsKept ==
  ASSUME Types, NEW m \in Marks, Skip \/ \E kind \in Kinds : Post(m, kind),
         txn'.phase = "entries"
  PROVE  txn.phase = "entries" /\ txn'.cash = txn.cash /\ txn'.held = txn.held
<1>1. CASE Skip
  BY <1>1 DEF Skip, Types, TxnType
<1>2. CASE \E kind \in Kinds : Post(m, kind)
  BY <1>2 DEF Post, After, Types, TxnType
<1> QED  BY <1>1, <1>2

LEMMA ExitStepCash ==
  ASSUME Types, Types', CashInv, NEW m \in Marks, ExitStep(m)
  PROVE  CashInv'
<1>0. /\ status \in [Marks -> Status] /\ detail \in [Marks -> DetailType]
      /\ settled \in Int /\ settled' \in Int
      /\ UNCHANGED <<activatedAt, saved>>
      /\ \A n \in Marks : n # m => status'[n] = status[n]
      /\ txn \in TxnType /\ txn.phase = "exits"
  BY LoopStep DEF Types, WorkingOK, ExitStep, Settle, GapAtEnd, GapMissedWindow,
     GapExitDeadline, AwaitExitQuote, FillExit, Revalue, LeaveAlone, Exiting
<1>1. txn'.phase # "entries"
  <2>1. Skip \/ \E kind \in Kinds : Post(m, kind)
    BY DEF ExitStep, Settle, GapAtEnd, GapMissedWindow, GapExitDeadline, AwaitExitQuote,
       FillExit, Revalue, LeaveAlone, DeclareGap, Kinds
  <2> QED  BY <1>0, <2>1, TotalsKept
<1>2. CASE Settle(m)
  <2>1. settled' >= settled
    BY <1>0, <1>2 DEF Settle, DetailType
  <2>2. HeldIn(status') = HeldIn(status)
    BY <1>0, <1>2 DEF Settle, Due, HeldIn, HELD
  <2> QED  BY <1>0, <1>1, <2>1, <2>2, SameHeld
<1>3. CASE GapAtEnd(m) \/ GapMissedWindow(m) \/ GapExitDeadline(m)
  <2>1. status[m] = "OPEN" /\ status'[m] = "UNPRICED" /\ settled' = settled
    BY <1>0, <1>3 DEF GapAtEnd, GapMissedWindow, GapExitDeadline, MustExit, DeclareGap
  <2>2. HeldIn(status') = HeldIn(status)
    BY <1>0, <2>1 DEF HeldIn, HELD
  <2> QED  BY <1>0, <1>1, <2>1, <2>2, SameHeld
<1>4. CASE AwaitExitQuote(m) \/ Revalue(m) \/ LeaveAlone(m)
  <2>1. status' = status /\ settled' = settled
    BY <1>4 DEF AwaitExitQuote, Revalue, LeaveAlone
  <2> QED  BY <1>0, <1>1, <2>1, SameHeld
<1>5. CASE FillExit(m)
  <2> DEFINE n == Cardinality(HeldIn(status'))
  <2>1. status[m] = "OPEN" /\ status'[m] = "UNSETTLED" /\ settled' = settled - CloseFee
    BY <1>0, <1>5 DEF FillExit, MustExit
  <2>2. HeldIn(status) = HeldIn(status') \cup {m} /\ m \notin HeldIn(status')
    BY <1>0, <2>1 DEF HeldIn, HELD
  <2>3. n \in Nat /\ Cardinality(HeldIn(status)) = n + 1
    BY <2>2, HeldSets, FS_AddElement
  <2>4. CloseFee * Cardinality(HeldIn(status)) = CloseFee * n + CloseFee /\ CloseFee * n \in Nat
    BY <2>3, Reserve
  <2>5. Solvent(activatedAt, settled, status)'
    BY <1>0, <2>1, <2>3, <2>4, PolicyAssumption DEF CashInv, Solvent
  <2> QED  BY <1>0, <1>1, <2>5 DEF CashInv, LoopTotalsAgree
<1> QED  BY <1>2, <1>3, <1>4, <1>5 DEF ExitStep

LEMMA EntryStepCash ==
  ASSUME Types, Types', CashInv, NEW m \in Marks, EntryStep(m)
  PROVE  CashInv'
<1>0. /\ status \in [Marks -> Status]
      /\ settled \in Int /\ settled' \in Int
      /\ UNCHANGED <<activatedAt, saved>>
      /\ \A n \in Marks : n # m => status'[n] = status[n]
      /\ txn \in TxnType /\ txn.phase = "entries"
  BY LoopStep DEF Types, WorkingOK, EntryStep, SkipEntry, FillEntry, LeavePending, Entering
<1>1. CASE SkipEntry(m)
  <2>1. /\ status[m] = "PENDING_ENTRY" /\ status'[m] = "SKIPPED" /\ settled' = settled
        /\ Post(m, "SKIP")
    BY <1>0, <1>1 DEF SkipEntry
  <2>2. HeldIn(status') = HeldIn(status)
    BY <1>0, <2>1 DEF HeldIn, HELD
  <2> QED  BY <1>0, <2>1, <2>2, SameHeld, TotalsKept DEF Kinds
<1>2. CASE LeavePending(m)
  <2>1. status' = status /\ settled' = settled /\ Skip
    BY <1>2 DEF LeavePending
  <2> QED  BY <1>0, <2>1, SameHeld, TotalsKept DEF Kinds
<1>3. CASE FillEntry(m)
  <2> DEFINE n == Cardinality(HeldIn(status))
  <2>1. PICK q \in EntryQuotes(m) :
          Acceptable(q[2]) /\ settled' = settled - Debit(q[2]) /\ CountEntry(m, Debit(q[2]))
    BY <1>3 DEF FillEntry
  <2>2. Debit(q[2]) \in Nat
    <3>1. detail[m].seen + Latency \in Int
      BY PolicyAssumption DEF Types, WorkingOK, DetailType, Stamp, None
    <3> QED  BY <3>1, QuoteFacts DEF EntryQuotes, Types, InputsOK
  <2>3. status[m] = "PENDING_ENTRY" /\ status'[m] = "OPEN"
    BY <1>0, <1>3 DEF FillEntry
  <2>4. HeldIn(status') = HeldIn(status) \cup {m} /\ m \notin HeldIn(status)
    BY <1>0, <2>3 DEF HeldIn, HELD
  <2>5. n \in Nat /\ Cardinality(HeldIn(status')) = n + 1
    BY <2>4, HeldSets, FS_AddElement
  <2>6. CloseFee * (n + 1) = CloseFee * n + CloseFee /\ CloseFee * n \in Nat
    BY <2>5, Reserve
  <2>7. txn.cash = settled /\ txn.held = n
    BY <1>0 DEF CashInv, LoopTotalsAgree, Held, HeldIn
  <2>8. n < MaxPositions
    BY <1>3, <2>5, <2>7, PolicyAssumption DEF FillEntry, Refused, NoSlot
  <2>9. settled' >= CloseFee * (n + 1)
    <3>1. Debit(q[2]) + CloseFee <= settled - n * CloseFee
      BY <2>1, <2>7 DEF Acceptable
    <3>2. n * CloseFee = CloseFee * n
      BY <2>5, PolicyAssumption
    <3> QED  BY <1>0, <2>1, <2>2, <2>6, <3>1, <3>2, PolicyAssumption
  <2>10. Solvent(activatedAt, settled, status)'
    BY <2>5, <2>8, <2>9, PolicyAssumption DEF Solvent
  <2>11. txn'.phase = "entries" => txn'.cash = settled' /\ txn'.held = n + 1
    BY <1>0, <2>1, <2>7 DEF CountEntry, TxnType
  <2>12. Held' = HeldIn(status')
    BY DEF Held, HeldIn
  <2> QED  BY <1>0, <2>5, <2>10, <2>11, <2>12 DEF CashInv, LoopTotalsAgree
<1> QED  BY <1>1, <1>2, <1>3 DEF EntryStep

LEMMA InitCash == Init => CashInv
<1> SUFFICES ASSUME Init PROVE CashInv
  OBVIOUS
<1>1. HeldIn(status) = {} /\ saved.status = status /\ saved.activatedAt = None /\ activatedAt = None
  BY DEF Init, HeldIn, HELD, Working
<1>2. Cardinality(HeldIn(status)) = 0
  BY <1>1, FS_EmptySet
<1> QED  BY <1>1, <1>2, PolicyAssumption DEF Init, CashInv, Solvent, LoopTotalsAgree, Idle

LEMMA NextCash == TypeOK /\ ImportInv /\ CashInv /\ [Next]_vars => CashInv'
<1> SUFFICES ASSUME Types, Types', ImportInv, CashInv, [Next]_vars PROVE CashInv'
  BY TypeParts, NextType
<1>0. settled \in Int /\ status \in [Marks -> Status] /\ txn \in TxnType
  BY DEF Types, WorkingOK
<1>1. CASE Activate
  <2>1. /\ UNCHANGED <<status, txn>> /\ txn.phase = "idle" /\ activatedAt = None
        /\ settled' = StartingCash /\ saved' = Working'
    BY <1>1 DEF Activate
  <2>2. HeldIn(status) = {}
    BY <2>1 DEF ImportInv, HeldIn, HELD
  <2>3. Cardinality(HeldIn(status')) = 0
    BY <2>1, <2>2, FS_EmptySet
  <2>4. Solvent(activatedAt, settled, status)'
    BY <2>1, <2>3, PolicyAssumption DEF Solvent
  <2> QED  BY <2>1, <2>4 DEF CashInv, LoopTotalsAgree, Working
<1>2. CASE Begin
  BY <1>2 DEF Begin, Idle, CashInv, LoopTotalsAgree
<1>3. ASSUME NEW m \in Marks, ExitStep(m) \/ EntryStep(m) PROVE CashInv'
  BY <1>3, ExitStepCash, EntryStepCash
<1>4. CASE Discover
  <2>1. UNCHANGED <<settled, activatedAt, saved>>
    BY <1>4 DEF Discover
  <2>2. watermark \in Int
    BY DEF Types, WorkingOK
  <2>3. \A m \in Discovered : status[m] = "NONE"
    BY <2>2 DEF Discovered, Recorded, Marks, ImportInv, Imported
  <2>4. HeldIn(status') = HeldIn(status)
    BY <1>4, <2>3 DEF Discover, HeldIn, HELD
  <2>5. Held = HeldIn(status) /\ Held' = HeldIn(status')
    BY DEF Held, HeldIn
  <2>6. txn'.cash = settled /\ txn'.held = Cardinality(Held)
    <3> DEFINE h == Cardinality(Held)
    <3> HIDE DEF h
    <3>1. txn' = [txn EXCEPT !.phase = "entries", !.next = 1, !.cash = settled, !.held = h]
      BY <1>4 DEF Discover, h
    <3>2. txn'.cash = settled /\ txn'.held = h
      BY <1>0, <3>1 DEF TxnType
    <3> QED  BY <3>2 DEF h
  <2> QED  BY <2>1, <2>4, <2>5, <2>6 DEF CashInv, Solvent, LoopTotalsAgree
<1>5. CASE Commit
  <2>1. UNCHANGED <<status, settled, activatedAt>> /\ saved' = Working' /\ txn'.phase = "idle"
    BY <1>5 DEF Commit, Idle
  <2> QED  BY <2>1 DEF CashInv, LoopTotalsAgree, Working
<1>6. CASE Rollback
  <2>1. /\ UNCHANGED saved /\ txn'.phase = "idle" /\ activatedAt' = saved.activatedAt
        /\ settled' = saved.settled /\ status' = saved.status
    BY <1>6 DEF Rollback, Idle
  <2> QED  BY <2>1 DEF CashInv, LoopTotalsAgree
<1>7. CASE RecordMark \/ Tick \/ SetClockBack \/ (\E m \in Marks : ResolveSignal(m) \/ DataGap(m))
           \/ UNCHANGED vars
  <2>1. UNCHANGED <<account, txn, saved>>
    BY <1>7 DEF RecordMark, Tick, SetClockBack, ResolveSignal, DataGap, vars
  <2> QED  BY <2>1 DEF account, CashInv, LoopTotalsAgree, Held
<1> QED
  BY <1>1, <1>2, <1>3, <1>4, <1>5, <1>6, <1>7 DEF Next, Handler

LEMMA CashInvariant == Spec => []CashInv
  BY TypeCorrect, InitImport, NextImport, InitCash, NextCash, PTL DEF Spec

\* The account can always pay its way out: the closing fee of every held
\* position, unresolved ones included, is in settled cash in every step.
THEOREM FeesAlwaysReserved == Spec => []FeesReserved
<1>1. CashInv => FeesReserved
  BY DEF CashInv, Solvent, FeesReserved, Held, HeldIn
<1> QED  BY CashInvariant, <1>1, PTL

\* max_positions is never exceeded, for any number of signals and any policy.
THEOREM SlotsNeverExceeded == Spec => []PositionLimit
<1>1. CashInv => PositionLimit
  BY DEF CashInv, Solvent, PositionLimit, Held, HeldIn
<1> QED  BY CashInvariant, <1>1, PTL

\* The balance and the held count that the entry loop keeps by hand are the
\* ledger's sum and the number of held rows at every iteration.
THEOREM TotalsNeverDrift == Spec => []LoopTotalsAgree
<1>1. CashInv => LoopTotalsAgree
  BY DEF CashInv
<1> QED  BY CashInvariant, <1>1, PTL
-----------------------------------------------------------------------------
(* What a commit may change *)

Final == {"UNPRICED", "CLOSED", "SKIPPED"}

\* The open transaction is a journal on top of the committed rows: it only adds
\* events, stamped with its own instant, and leaves final positions alone.
TxnInv ==
  /\ txn.phase = "idle" => /\ posted = saved.posted /\ processedAt = saved.processedAt
                           /\ activatedAt = saved.activatedAt
  /\ txn.phase # "idle" => processedAt = clock /\ processedAt >= saved.processedAt
  /\ saved.activatedAt = None => saved.processedAt = 0
  /\ \A m \in Marks, k \in Kinds : posted[m][k] # saved.posted[m][k] =>
       saved.posted[m][k] = None /\ posted[m][k] = processedAt
  /\ \A m \in Marks : saved.status[m] \in Final =>
       status[m] = saved.status[m] /\ detail[m] = saved.detail[m]

\* What one loop iteration does to events and rows: it adds events at the
\* current instant, and rewrites no position that is final.
LEMMA LoopWrites ==
  ASSUME Types, NEW m \in Marks, ExitStep(m) \/ EntryStep(m), EventInv
  PROVE  /\ \A n \in Marks, k \in Kinds :
              posted'[n][k] # posted[n][k] => posted[n][k] = None /\ posted'[n][k] = clock
         /\ \A n \in Marks : status[n] \in Final =>
              status'[n] = status[n] /\ detail'[n] = detail[n]
<1>0. /\ status \in [Marks -> Status] /\ detail \in [Marks -> DetailType]
      /\ posted \in [Marks -> EventType] /\ clock # None
      /\ Explains(status[m], posted[m])
  BY DEF Types, WorkingOK, InputsOK, EventInv, None
<1>a. ASSUME NEW kind \in Kinds, posted' = [posted EXCEPT ![m][kind] = clock], posted[m][kind] = None
      PROVE  \A n \in Marks, k \in Kinds :
               posted'[n][k] # posted[n][k] => posted[n][k] = None /\ posted'[n][k] = clock
  BY <1>0, <1>a DEF EventType
<1>b. ASSUME status[m] \notin Final, \A n \in Marks : n # m => status'[n] = status[n],
             detail' = detail \/ \E d : detail' = [detail EXCEPT ![m] = d]
      PROVE  \A n \in Marks : status[n] \in Final =>
               status'[n] = status[n] /\ detail'[n] = detail[n]
  BY <1>0, <1>b
<1>c. \A n \in Marks : n # m => status'[n] = status[n]
  BY LoopStep
<1>1. CASE Settle(m)
  <2>1. status[m] = "UNSETTLED" /\ Post(m, "SETTLEMENT") /\ detail' = detail
    BY <1>1 DEF Settle, Due
  <2>2. posted[m]["SETTLEMENT"] = None
    BY <1>0, <2>1 DEF Explains
  <2>3. status[m] \notin Final
    BY <2>1 DEF Final
  <2> QED  BY <2>1, <2>2, <2>3, <1>a, <1>b, <1>c DEF Post, Kinds
<1>2. CASE GapAtEnd(m) \/ GapMissedWindow(m) \/ GapExitDeadline(m)
  <2>1. status[m] = "OPEN" /\ Post(m, "QUOTE_GAP") /\ detail' = detail
    BY <1>2 DEF GapAtEnd, GapMissedWindow, GapExitDeadline, MustExit, DeclareGap
  <2>2. posted[m]["QUOTE_GAP"] = None
    BY <1>0, <2>1 DEF Explains
  <2>3. status[m] \notin Final
    BY <2>1 DEF Final
  <2> QED  BY <2>1, <2>2, <2>3, <1>a, <1>b, <1>c DEF Post, Kinds
<1>3. CASE AwaitExitQuote(m)
  <2>1. /\ status[m] = "OPEN" /\ detail' = detail
        /\ posted' = [posted EXCEPT ![m]["EXIT_REQUEST"] = Requested(m)]
    BY <1>3 DEF AwaitExitQuote, MustExit
  <2>2. \A n \in Marks, k \in Kinds :
          posted'[n][k] # posted[n][k] => posted[n][k] = None /\ posted'[n][k] = clock
    BY <1>0, <2>1 DEF EventType, Requested
  <2>3. status[m] \notin Final
    BY <2>1 DEF Final
  <2> QED  BY <2>1, <2>2, <2>3, <1>b, <1>c
<1>4. CASE FillExit(m)
  <2>1. status[m] = "OPEN" /\ Post(m, "EXIT") /\ \E d : detail' = [detail EXCEPT ![m] = d]
    BY <1>4 DEF FillExit, MustExit
  <2>2. posted[m]["EXIT"] = None
    BY <1>0, <2>1 DEF Explains
  <2>3. status[m] \notin Final
    BY <2>1 DEF Final
  <2> QED  BY <2>1, <2>2, <2>3, <1>a, <1>b, <1>c DEF Post, Kinds
<1>5. CASE Revalue(m)
  <2>1. status[m] = "OPEN" /\ posted' = posted
    BY <1>5 DEF Revalue
  <2>2. PICK q \in UsableQuotes(posted[m]["ENTRY"]) :
          detail' = [detail EXCEPT ![m].quoteAt = q[1], ![m].bid = q[2].bid]
    BY <1>5 DEF Revalue
  <2>3. \A n \in Marks : n # m => detail'[n] = detail[n]
    BY <1>0, <2>2
  <2> QED  BY <2>1, <2>3, <1>c DEF Final
<1>6. CASE LeaveAlone(m) \/ LeavePending(m)
  BY <1>6 DEF LeaveAlone, LeavePending
<1>7. CASE SkipEntry(m)
  <2>1. status[m] = "PENDING_ENTRY" /\ Post(m, "SKIP") /\ detail' = detail
    BY <1>7 DEF SkipEntry
  <2>2. posted[m]["SKIP"] = None
    BY <1>0, <2>1 DEF Explains
  <2>3. status[m] \notin Final
    BY <2>1 DEF Final
  <2> QED  BY <2>1, <2>2, <2>3, <1>a, <1>b, <1>c DEF Post, Kinds
<1>8. CASE FillEntry(m)
  <2>1. /\ status[m] = "PENDING_ENTRY" /\ posted' = [posted EXCEPT ![m]["ENTRY"] = clock]
        /\ \E d : detail' = [detail EXCEPT ![m] = d]
    BY <1>8 DEF FillEntry
  <2>2. posted[m]["ENTRY"] = None
    BY <1>0, <2>1 DEF Explains, HELD
  <2>3. status[m] \notin Final
    BY <2>1 DEF Final
  <2> QED  BY <2>1, <2>2, <2>3, <1>a, <1>b, <1>c DEF Kinds
<1> QED
  BY <1>1, <1>2, <1>3, <1>4, <1>5, <1>6, <1>7, <1>8 DEF ExitStep, EntryStep

LEMMA InitTxn == Init => TxnInv
  BY DEF Init, TxnInv, Working, Idle

LEMMA NextTxn == TypeOK /\ ImportInv /\ EventInv /\ TxnInv /\ [Next]_vars => TxnInv'
<1> SUFFICES ASSUME Types, ImportInv, EventInv, TxnInv, [Next]_vars PROVE TxnInv'
  BY TypeParts
<1>0. /\ clock \in Nat /\ processedAt \in Nat /\ txn \in TxnType /\ AccountOK(saved)
      /\ posted \in [Marks -> EventType]
  BY DEF Types, InputsOK, WorkingOK
<1>1. CASE Activate \/ Commit
  <2>1. saved' = Working' /\ txn'.phase = "idle"
    BY <1>1 DEF Activate, Commit, Idle
  <2>2. activatedAt' # None
    BY <1>0, <1>1 DEF Activate, Commit, ImportInv, None
  <2> QED  BY <2>1, <2>2 DEF TxnInv, Working
<1>2. CASE Begin
  <2>1. /\ UNCHANGED <<saved, status, detail, posted, clock>> /\ txn'.phase # "idle"
        /\ txn.phase = "idle" /\ processedAt' = clock /\ clock >= processedAt
    BY <1>2 DEF Begin, NotBackwards, world, Idle
  <2> QED  BY <2>1 DEF TxnInv
<1>3. ASSUME NEW m \in Marks, ExitStep(m) \/ EntryStep(m) PROVE TxnInv'
  <2>1. UNCHANGED <<clock, processedAt, saved>> /\ txn.phase # "idle"
    BY <1>3, LoopStep
  <2>2. txn'.phase # "idle"
    <3>1. \/ Skip
          \/ \E kind \in Kinds : Post(m, kind)
          \/ \E debit \in {Debit(q[2]) : q \in EntryQuotes(m)} : CountEntry(m, debit)
      BY <1>3 DEF ExitStep, EntryStep, Settle, GapAtEnd, GapMissedWindow, GapExitDeadline,
         AwaitExitQuote, FillExit, Revalue, LeaveAlone, SkipEntry, FillEntry, LeavePending,
         DeclareGap, Kinds
    <3> QED  BY <1>0, <2>1, <3>1 DEF Skip, Post, CountEntry, After, TxnType
  <2>3. \A n \in Marks, k \in Kinds : posted'[n][k] # saved'.posted[n][k] =>
          saved'.posted[n][k] = None /\ posted'[n][k] = processedAt'
    BY <1>3, <2>1, LoopWrites, <1>0 DEF TxnInv, None
  <2>4. \A n \in Marks : saved'.status[n] \in Final =>
          status'[n] = saved'.status[n] /\ detail'[n] = saved'.detail[n]
    BY <1>3, <2>1, LoopWrites DEF TxnInv
  <2> QED  BY <2>1, <2>2, <2>3, <2>4 DEF TxnInv
<1>4. CASE Discover
  <2>1. /\ UNCHANGED <<saved, posted, processedAt, clock>> /\ txn'.phase = "entries"
        /\ txn.phase # "idle"
    BY <1>0, <1>4 DEF Discover, world, TxnType
  <2>2. watermark \in Int
    BY DEF Types, WorkingOK
  <2>3. \A m \in Discovered : status[m] = "NONE"
    BY <2>2 DEF Discovered, Recorded, Marks, ImportInv, Imported
  <2>4. \A m \in Marks : status[m] \in Final => status'[m] = status[m] /\ detail'[m] = detail[m]
    BY <1>4, <2>3 DEF Discover, Final
  <2> QED  BY <2>1, <2>4 DEF TxnInv
<1>5. CASE Rollback
  <2>1. /\ UNCHANGED saved /\ txn'.phase = "idle" /\ activatedAt' = saved.activatedAt
        /\ processedAt' = saved.processedAt /\ posted' = saved.posted
        /\ status' = saved.status /\ detail' = saved.detail
    BY <1>5 DEF Rollback, Idle
  <2> QED  BY <2>1 DEF TxnInv
<1>6. CASE RecordMark \/ Tick \/ SetClockBack \/ \E m \in Marks : ResolveSignal(m) \/ DataGap(m)
  <2>1. UNCHANGED <<account, txn, saved>> /\ txn.phase = "idle"
    BY <1>6 DEF RecordMark, Tick, SetClockBack, ResolveSignal, DataGap
  <2> QED  BY <2>1 DEF account, TxnInv
<1>7. CASE UNCHANGED vars
  BY <1>7 DEF vars, account, world, TxnInv
<1> QED
  BY <1>1, <1>2, <1>3, <1>4, <1>5, <1>6, <1>7 DEF Next, Handler

LEMMA TxnInvariant == Spec => []TxnInv
  BY TypeCorrect, InitImport, NextImport, InitEvents, NextEvents, InitTxn, NextTxn, PTL DEF Spec

\* The committed copy only changes when the account is created or a scan commits.
LEMMA CommittedStep ==
  ASSUME TypeOK, TxnInv, ImportInv, [Next]_vars, saved' # saved
  PROVE  /\ saved'.processedAt >= saved.processedAt
         /\ saved'.status = status /\ saved'.detail = detail /\ saved'.posted = posted
         /\ posted # saved.posted => saved'.processedAt = processedAt
<1>0. clock \in Nat /\ Types
  BY TypeParts DEF TypeOK
<1>1. CASE Activate
  <2>1. /\ saved' = Working' /\ processedAt' = clock /\ txn.phase = "idle" /\ activatedAt = None
        /\ UNCHANGED <<status, detail, posted>>
    BY <1>1 DEF Activate
  <2> QED  BY <1>0, <2>1 DEF Working, TxnInv
<1>2. CASE Commit
  <2>1. /\ saved' = Working' /\ txn.phase # "idle"
        /\ UNCHANGED <<processedAt, status, detail, posted>>
    BY <1>2 DEF Commit
  <2> QED  BY <2>1 DEF Working, TxnInv
<1>3. ASSUME NEW m \in Marks, ExitStep(m) \/ EntryStep(m) PROVE FALSE
  BY <1>0, <1>3, LoopStep
<1>4. CASE \/ Begin \/ Discover \/ Rollback \/ RecordMark \/ Tick \/ SetClockBack
           \/ (\E m \in Marks : ResolveSignal(m) \/ DataGap(m)) \/ UNCHANGED vars
  BY <1>4 DEF Begin, Discover, Rollback, RecordMark, Tick, SetClockBack, ResolveSignal, DataGap, vars
<1> QED
  BY <1>1, <1>2, <1>3, <1>4 DEF Next, Handler

\* No scan commits anything in the past: processed_at never decreases, an
\* event once committed is never rewritten, and a new one carries the instant
\* of its own scan, although the host's clock may be set back in between.
THEOREM NothingRetroactive == Spec => NoRetroactiveEvents
<1>1. TypeOK /\ ImportInv /\ TxnInv /\ [Next]_vars =>
        [/\ saved'.processedAt >= saved.processedAt
         /\ \A m \in Marks, k \in Kinds :
              saved'.posted[m][k] # saved.posted[m][k] =>
                /\ saved.posted[m][k] = None
                /\ saved'.posted[m][k] = saved'.processedAt]_saved
  <2> SUFFICES ASSUME TypeOK, ImportInv, TxnInv, [Next]_vars, saved' # saved
               PROVE  /\ saved'.processedAt >= saved.processedAt
                      /\ \A m \in Marks, k \in Kinds :
                           saved'.posted[m][k] # saved.posted[m][k] =>
                             /\ saved.posted[m][k] = None
                             /\ saved'.posted[m][k] = saved'.processedAt
    OBVIOUS
  <2> QED  BY CommittedStep DEF TxnInv
<1> QED
  BY TypeCorrect, InitImport, NextImport, TxnInvariant, <1>1, PTL DEF Spec, NoRetroactiveEvents

\* Nothing leaves a final status, in any sequence of scans, retries, failures
\* and clock corrections.
THEOREM FinalIsFinal == Spec => FinalStatus
<1>1. TypeOK /\ ImportInv /\ TxnInv /\ [Next]_vars =>
        [\A m \in Marks : saved.status[m] \in {"UNPRICED", "CLOSED", "SKIPPED"} =>
           /\ saved'.status[m] = saved.status[m]
           /\ saved'.detail[m] = saved.detail[m]]_saved
  BY CommittedStep DEF TxnInv, Final
<1> QED
  BY TypeCorrect, InitImport, NextImport, TxnInvariant, <1>1, PTL DEF Spec, FinalStatus

-----------------------------------------------------------------------------
(* Fills in their window *)

\* FillsOnTime for one mark with event keys e.  A sale also says that the
\* signal ended and that a scan asked for it, which is why neither changes later.
OnTime(m, e) ==
  /\ e["ENTRY"] # None =>
       /\ marks[m].created # None /\ marks[m].eligible
       /\ e["ENTRY"] - marks[m].created \in 0 .. EntryDeadline
  /\ e["EXIT"] # None =>
       /\ signal[m].reason = "EXIT" /\ e["EXIT_REQUEST"] # None
       /\ e["EXIT"] - e["EXIT_REQUEST"] \in 0 .. ExitDeadline
       /\ e["EXIT"] < SessionEnd(marks[m].created)
       /\ e["ENTRY"] < signal[m].exitAt + 1

FillInv == \A m \in Marks : OnTime(m, posted[m]) /\ OnTime(m, saved.posted[m])

\* What a purchase does: the mark is a position's, its quote answers the scan
\* that first saw it.
LEMMA EntryFill ==
  ASSUME Types, ImportInv, NEW m \in Marks, FillEntry(m)
  PROVE  /\ OnTime(m, posted'[m]) \/ posted[m]["EXIT"] # None
         /\ posted'[m] = [posted[m] EXCEPT !["ENTRY"] = clock]
         /\ detail'[m].quoteAt >= detail[m].seen + Latency
         /\ detail'[m].quoteAt \in clock - QuoteAge .. clock
<1>0. /\ posted \in [Marks -> EventType] /\ detail \in [Marks -> DetailType] /\ clock \in Nat
      /\ marks[m].created \in Stamp /\ activatedAt \in Stamp /\ detail[m].seen \in Int
      /\ posted[m] \in EventType
  BY DEF Types, WorkingOK, InputsOK, DetailType, Stamp, None
<1>1. marks[m].created # None
  <2>1. status[m] # "NONE" /\ txn.phase # "idle"
    BY DEF FillEntry, Entering
  <2> QED  BY <1>0, <2>1 DEF ImportInv, Imported, Stamp, None
<1>2. /\ marks[m].eligible /\ clock >= marks[m].created
      /\ clock <= marks[m].created + EntryDeadline
  BY <1>0, <1>1, PolicyAssumption DEF FillEntry, Refused, Stamp, None
<1>3. posted'[m] = [posted[m] EXCEPT !["ENTRY"] = clock]
  BY <1>0 DEF FillEntry
<1>4. posted'[m]["ENTRY"] = clock /\ posted'[m]["EXIT"] = posted[m]["EXIT"]
  BY <1>0, <1>3 DEF EventType, Kinds
<1>5. clock - marks[m].created \in 0 .. EntryDeadline
  BY <1>0, <1>1, <1>2, PolicyAssumption DEF Stamp
<1>6. PICK q \in EntryQuotes(m) :
        /\ Acceptable(q[2])
        /\ detail' = [detail EXCEPT ![m] =
                        [@ EXCEPT !.debit = Debit(q[2]), !.quoteAt = q[1], !.bid = q[2].bid]]
        /\ settled' = settled - Debit(q[2])
        /\ CountEntry(m, Debit(q[2]))
  BY Zenon DEF FillEntry
<1>7. detail'[m].quoteAt = q[1]
  BY <1>0, <1>6 DEF DetailType
<1>8. detail[m].seen + Latency \in Int /\ q \in UsableQuotes(detail[m].seen + Latency)
  BY <1>0, <1>6, PolicyAssumption DEF EntryQuotes
<1>9. q[1] \in Int /\ q[1] >= detail[m].seen + Latency /\ q[1] <= clock /\ q[1] >= clock - QuoteAge
  BY <1>0, <1>8, QuoteFacts
<1>10. q[1] \in clock - QuoteAge .. clock
  BY <1>0, <1>9, PolicyAssumption
<1> QED  BY <1>1, <1>2, <1>3, <1>4, <1>5, <1>7, <1>9, <1>10 DEF OnTime

\* What a sale does: a scan before this one asked for it, since a quote of this
\* instant cannot be a latency later than it, and its quote answers that scan.
LEMMA ExitFill ==
  ASSUME Types, NEW m \in Marks, FillExit(m), OnTime(m, posted[m])
  PROVE  /\ OnTime(m, posted'[m])
         /\ posted'[m]["ENTRY"] = posted[m]["ENTRY"]
         /\ detail'[m].quoteAt >= posted[m]["EXIT_REQUEST"] + Latency
         /\ detail'[m].quoteAt \in clock - QuoteAge .. clock
<1>0. /\ posted \in [Marks -> EventType] /\ detail \in [Marks -> DetailType] /\ clock \in Nat
      /\ posted[m] \in EventType /\ clock # None
      /\ signal[m].exitAt \in Int /\ SessionEnd(marks[m].created) \in Int
  <2>1. /\ posted \in [Marks -> EventType] /\ detail \in [Marks -> DetailType] /\ clock \in Nat
        /\ signal[m].exitAt \in Int /\ marks[m].created \in Int
    BY DEF Types, WorkingOK, InputsOK, Stamp, None
  <2>2. Day(marks[m].created) \in Int
    BY <2>1, ClockAssumption, Z3 DEF Day
  <2>3. SessionEnd(marks[m].created) \in Int
    BY <2>2, ClockAssumption DEF SessionEnd
  <2> QED  BY <2>1, <2>3 DEF None
<1>1. PICK q \in UsableQuotes(Requested(m) + Latency) :
        /\ detail' = [detail EXCEPT ![m] =
                        [@ EXCEPT !.sale = Sale(q[2]), !.settles = SettlementAt(clock),
                                  !.quoteAt = q[1], !.bid = q[2].bid]]
        /\ unsettled' = unsettled + Sale(q[2])
  BY Zenon DEF FillExit
<1>2. detail'[m].quoteAt = q[1]
  BY <1>0, <1>1 DEF DetailType
<1>3. Requested(m) \in Nat /\ posted[m]["EXIT_REQUEST"] \in Stamp
  BY <1>0 DEF Requested, EventType, Kinds, Stamp
<1>4. Requested(m) + Latency \in Int
  BY <1>3, PolicyAssumption
<1>5. q[1] \in Int /\ q[1] >= Requested(m) + Latency /\ q[1] <= clock /\ q[1] >= clock - QuoteAge
  BY <1>0, <1>1, <1>4, QuoteFacts
<1>6. posted[m]["EXIT_REQUEST"] # None /\ Requested(m) = posted[m]["EXIT_REQUEST"]
  BY <1>0, <1>3, <1>5, PolicyAssumption DEF Requested
<1>7. /\ clock < SessionEnd(marks[m].created) /\ signal[m].reason = "EXIT"
      /\ ~WindowMissed(m) /\ clock <= Requested(m) + ExitDeadline
  BY <1>0 DEF FillExit, MustExit, AtEnd
<1>8. posted'[m] = [posted[m] EXCEPT !["EXIT"] = clock]
  BY <1>0 DEF FillExit, Post
<1>9. /\ posted'[m]["EXIT"] = clock /\ posted'[m]["ENTRY"] = posted[m]["ENTRY"]
      /\ posted'[m]["EXIT_REQUEST"] = posted[m]["EXIT_REQUEST"]
      /\ posted[m]["ENTRY"] \in Int
  BY <1>0, <1>8 DEF EventType, Kinds, Stamp, None
<1>10. posted[m]["ENTRY"] < signal[m].exitAt + 1
  BY <1>0, <1>7, <1>9 DEF WindowMissed
<1>11. clock - posted[m]["EXIT_REQUEST"] \in 0 .. ExitDeadline
  BY <1>0, <1>3, <1>5, <1>6, <1>7, PolicyAssumption
<1>12. q[1] \in clock - QuoteAge .. clock
  BY <1>0, <1>5, PolicyAssumption
<1> QED  BY <1>2, <1>5, <1>6, <1>7, <1>9, <1>10, <1>11, <1>12 DEF OnTime

\* No other step of a loop fills anything.
LEMMA OtherFills ==
  ASSUME Types, NEW m \in Marks, ExitStep(m) \/ EntryStep(m),
         NEW n \in Marks, n # m \/ ~(FillEntry(m) \/ FillExit(m))
  PROVE  posted'[n]["ENTRY"] = posted[n]["ENTRY"] /\ posted'[n]["EXIT"] = posted[n]["EXIT"]
<1>0. posted \in [Marks -> EventType]
  BY DEF Types, WorkingOK
<1>a. ASSUME NEW kind \in Kinds, NEW stamp, posted' = [posted EXCEPT ![m][kind] = stamp],
             n # m \/ kind \notin {"ENTRY", "EXIT"}
      PROVE  posted'[n]["ENTRY"] = posted[n]["ENTRY"] /\ posted'[n]["EXIT"] = posted[n]["EXIT"]
  BY <1>0, <1>a DEF EventType, Kinds
<1>1. CASE Settle(m)
  BY <1>1, <1>a DEF Settle, Post, Kinds
<1>2. CASE GapAtEnd(m) \/ GapMissedWindow(m) \/ GapExitDeadline(m)
  <2>1. Post(m, "QUOTE_GAP")
    BY <1>2 DEF GapAtEnd, GapMissedWindow, GapExitDeadline, DeclareGap
  <2> QED  BY <2>1, <1>a DEF Post, Kinds
<1>3. CASE AwaitExitQuote(m)
  BY <1>3, <1>a DEF AwaitExitQuote, Kinds
<1>4. CASE FillExit(m)
  <2>1. posted' = [posted EXCEPT ![m]["EXIT"] = clock] /\ n # m
    BY <1>4 DEF FillExit, Post
  <2> QED  BY <2>1, <1>a DEF Kinds
<1>5. CASE Revalue(m) \/ LeaveAlone(m) \/ LeavePending(m)
  BY <1>5 DEF Revalue, LeaveAlone, LeavePending
<1>6. CASE SkipEntry(m)
  BY <1>6, <1>a DEF SkipEntry, Post, Kinds
<1>7. CASE FillEntry(m)
  <2>1. posted' = [posted EXCEPT ![m]["ENTRY"] = clock] /\ n # m
    BY <1>7 DEF FillEntry
  <2> QED  BY <2>1, <1>a DEF Kinds
<1> QED
  BY <1>1, <1>2, <1>3, <1>4, <1>5, <1>6, <1>7 DEF ExitStep, EntryStep

LEMMA InitFills == Init => FillInv
  BY DEF Init, FillInv, OnTime, NoEvents, Kinds, Working

\* One iteration keeps the windows of all fills.
LEMMA LoopFills ==
  ASSUME Types, ImportInv, EventInv, FillInv, NEW m \in Marks, ExitStep(m) \/ EntryStep(m)
  PROVE  FillInv'
<1>1. UNCHANGED <<marks, signal, saved>>
  <2>1. KeepInExits \/ KeepInEntries
    BY Zenon DEF ExitStep, EntryStep, Settle, GapAtEnd, GapMissedWindow, GapExitDeadline,
       AwaitExitQuote, FillExit, Revalue, LeaveAlone, SkipEntry, FillEntry, LeavePending
  <2> QED  BY <2>1 DEF KeepInExits, KeepInEntries, world
<1>2. SUFFICES ASSUME NEW n \in Marks PROVE OnTime(n, posted'[n])
  BY <1>1 DEF FillInv, OnTime, SessionEnd, Day
<1>3. OnTime(n, posted[n])
  BY DEF FillInv
<1>4. CASE n = m /\ FillEntry(m)
  <2>1. posted[m]["EXIT"] = None
    BY <1>4 DEF FillEntry, EventInv, Explains
  <2> QED  BY <1>4, <2>1, EntryFill
<1>5. CASE n = m /\ FillExit(m)
  BY <1>3, <1>5, ExitFill
<1>6. CASE n # m \/ ~(FillEntry(m) \/ FillExit(m))
  <2>1. posted'[n]["ENTRY"] = posted[n]["ENTRY"] /\ posted'[n]["EXIT"] = posted[n]["EXIT"]
    BY <1>6, OtherFills
  <2>2. posted[n]["EXIT_REQUEST"] # None => posted'[n]["EXIT_REQUEST"] = posted[n]["EXIT_REQUEST"]
    BY LoopWrites DEF Kinds
  <2> QED  BY <1>3, <2>1, <2>2 DEF OnTime
<1> QED  BY <1>4, <1>5, <1>6

LEMMA NextFills == TypeOK /\ ImportInv /\ EventInv /\ FillInv /\ [Next]_vars => FillInv'
<1> SUFFICES ASSUME Types, ImportInv, EventInv, FillInv, [Next]_vars PROVE FillInv'
  BY TypeParts
<1>0. /\ marks \in [Marks -> [created : Stamp, eligible : BOOLEAN]]
      /\ signal \in [Marks -> [reason : {"NONE", "OPEN", "EXIT", "DATA_GAP"}, exitAt : Stamp]]
  BY DEF Types, InputsOK
<1>1. CASE Activate \/ Commit
  <2>1. UNCHANGED <<marks, signal, posted>> /\ saved' = Working'
    BY <1>1 DEF Activate, Commit, world
  <2> QED  BY <2>1 DEF FillInv, OnTime, SessionEnd, Day, Working
<1>2. CASE Begin \/ Discover \/ Tick \/ SetClockBack \/ UNCHANGED vars
  <2>1. UNCHANGED <<marks, signal, posted, saved>>
    BY <1>2 DEF Begin, Discover, Tick, SetClockBack, vars, world, account
  <2> QED  BY <2>1 DEF FillInv, OnTime, SessionEnd, Day
<1>3. ASSUME NEW m \in Marks, ExitStep(m) \/ EntryStep(m) PROVE FillInv'
  BY <1>3, LoopFills
<1>4. CASE Rollback
  <2>1. UNCHANGED <<marks, signal, saved>> /\ posted' = saved.posted
    BY <1>4 DEF Rollback, world
  <2> QED  BY <2>1 DEF FillInv, OnTime, SessionEnd, Day
<1>5. CASE RecordMark
  <2> DEFINE new == Cardinality(Recorded) + 1
  <2>1. UNCHANGED <<posted, saved>>
    BY <1>5 DEF RecordMark, account
  <2>2. new \in Marks /\ new \notin Recorded
    <3>1. new \in Marks
      BY <1>5 DEF RecordMark
    <3>2. Cardinality(Recorded) \in Nat
      BY MarkSets DEF Recorded
    <3> QED  BY <3>1, <3>2 DEF ImportInv, RecordedPrefix
  <2>3. marks[new].created = None
    BY <2>2 DEF Recorded
  <2>4. \A m \in Marks : m # new => marks'[m] = marks[m] /\ signal'[m] = signal[m]
    BY <1>0, <1>5 DEF RecordMark
  <2>5. posted[new]["ENTRY"] = None /\ saved.posted[new]["ENTRY"] = None
    BY <2>2, <2>3 DEF FillInv, OnTime
  <2>6. posted[new]["EXIT"] = None /\ saved.posted[new]["EXIT"] = None
    BY <2>2, <2>5 DEF EventInv, Explains
  <2> HIDE DEF new
  <2>7. ASSUME NEW m \in Marks PROVE OnTime(m, posted[m])' /\ OnTime(m, saved.posted[m])'
    <3>1. CASE m = new
      BY <2>1, <2>5, <2>6, <3>1 DEF OnTime
    <3>2. CASE m # new
      BY <2>1, <2>4, <3>2 DEF FillInv, OnTime, SessionEnd, Day
    <3> QED  BY <3>1, <3>2
  <2> QED  BY <2>7 DEF FillInv
<1>6. ASSUME NEW m \in Marks, ResolveSignal(m) \/ DataGap(m) PROVE FillInv'
  <2>1. UNCHANGED <<marks, posted, saved>> /\ signal[m].reason = "OPEN"
    BY <1>6 DEF ResolveSignal, DataGap, account
  <2>2. \A n \in Marks : n # m => signal'[n] = signal[n]
    BY <1>0, <1>6 DEF ResolveSignal, DataGap
  <2>3. posted[m]["EXIT"] = None /\ saved.posted[m]["EXIT"] = None
    BY <2>1 DEF FillInv, OnTime
  <2> QED  BY <2>1, <2>2, <2>3 DEF FillInv, OnTime, SessionEnd, Day
<1> QED
  BY <1>1, <1>2, <1>3, <1>4, <1>5, <1>6 DEF Next, Handler

\* Every fill lies in its window: no purchase of advance_account is later than
\* the deadline of its mark, no sale is later than that of its first request or
\* beyond the session, in any sequence of scans, failures and clock corrections.
THEOREM FillsAlwaysOnTime == Spec => []FillsOnTime
<1>1. FillInv => FillsOnTime
  BY DEF FillInv, OnTime, FillsOnTime, Has
<1> QED
  BY TypeCorrect, InitImport, NextImport, EventInvariant, InitFills, NextFills, <1>1, PTL DEF Spec

\* A mark is only filled by the loop step of its own position.
LEMMA FillingStep ==
  ASSUME Types, TxnInv, [Next]_vars, NEW m \in Marks, NEW kind \in {"ENTRY", "EXIT"},
         posted[m][kind] = None, posted'[m][kind] # None
  PROVE  FillEntry(m) \/ FillExit(m)
<1>1. CASE \E n \in Marks : ExitStep(n) \/ EntryStep(n)
  <2>1. PICK n \in Marks : ExitStep(n) \/ EntryStep(n)
    BY <1>1
  <2> QED  BY <2>1, OtherFills
<1>2. CASE Rollback
  <2>1. posted' = saved.posted
    BY <1>2 DEF Rollback
  <2> QED  BY <2>1 DEF TxnInv, Kinds
<1>3. CASE \/ Activate \/ Begin \/ Discover \/ Commit \/ RecordMark \/ Tick \/ SetClockBack
           \/ (\E n \in Marks : ResolveSignal(n) \/ DataGap(n)) \/ UNCHANGED vars
  <2>1. UNCHANGED posted
    BY <1>3 DEF Activate, Begin, Discover, Commit, RecordMark, Tick, SetClockBack,
       ResolveSignal, DataGap, vars, account
  <2> QED  BY <2>1
<1> QED  BY <1>1, <1>2, <1>3 DEF Next, Handler

\* No fill uses a quote received before the decision it answers, nor a stale
\* one: _quote's earliest instant holds across scans, restarts and clock corrections.
THEOREM QuotesAlwaysLater == Spec => FillsUseLaterQuotes
<1> DEFINE usable(m, asked) == /\ detail'[m].quoteAt >= asked + Latency
                               /\ detail'[m].quoteAt \in clock - QuoteAge .. clock
<1>1. ASSUME Types, ImportInv, EventInv, TxnInv, FillInv, [Next]_vars, NEW m \in Marks
      PROVE  /\ posted[m]["ENTRY"] = None /\ posted'[m]["ENTRY"] # None => usable(m, detail[m].seen)
             /\ posted[m]["EXIT"] = None /\ posted'[m]["EXIT"] # None
                  => usable(m, posted[m]["EXIT_REQUEST"])
  <2>0. posted[m] \in EventType /\ OnTime(m, posted[m])
    BY <1>1 DEF Types, WorkingOK, FillInv
  <2>1. FillEntry(m) => usable(m, detail[m].seen) /\ posted'[m]["EXIT"] = posted[m]["EXIT"]
    BY <1>1, <2>0, EntryFill DEF EventType, Kinds
  <2>2. FillExit(m) => usable(m, posted[m]["EXIT_REQUEST"])
                       /\ posted'[m]["ENTRY"] = posted[m]["ENTRY"]
    BY <1>1, <2>0, ExitFill
  <2>3. posted[m]["ENTRY"] = None /\ posted'[m]["ENTRY"] # None => FillEntry(m) \/ FillExit(m)
    BY <1>1, FillingStep
  <2>4. posted[m]["EXIT"] = None /\ posted'[m]["EXIT"] # None => FillEntry(m) \/ FillExit(m)
    BY <1>1, FillingStep
  <2> HIDE DEF usable
  <2> QED  BY <2>1, <2>2, <2>3, <2>4
<1>2. TypeOK /\ ImportInv /\ EventInv /\ TxnInv /\ FillInv /\ [Next]_vars =>
        [\A m \in Marks :
           LET filled(kind) == posted[m][kind] = None /\ posted'[m][kind] # None
               ready(asked) == /\ detail'[m].quoteAt >= asked + Latency
                               /\ detail'[m].quoteAt \in clock - QuoteAge .. clock
           IN  /\ filled("ENTRY") => ready(detail[m].seen)
               /\ filled("EXIT") => ready(posted[m]["EXIT_REQUEST"])]_vars
  BY <1>1, TypeParts
<1> QED
  BY TypeCorrect, InitImport, NextImport, EventInvariant, TxnInvariant, InitFills, NextFills,
     <1>2, PTL DEF Spec, FillsUseLaterQuotes

\* FillsInTime: in whatever order scans, failures and clock corrections come,
\* fills lie in their window and use quotes later than the decision they answer.
THEOREM FillsAlwaysInTime == Spec => FillsInTime
  BY FillsAlwaysOnTime, QuotesAlwaysLater, PTL DEF FillsInTime

-----------------------------------------------------------------------------
(* Equity *)

\* Between commits no step touches the equity observation.
SnapInv == snapshot = saved.snapshot

LEMMA NextSnap == Types /\ SnapInv /\ [Next]_vars => SnapInv'
<1> SUFFICES ASSUME Types, SnapInv, [Next]_vars PROVE SnapInv'
  OBVIOUS
<1>1. CASE Activate \/ Commit
  BY <1>1 DEF Activate, Commit, SnapInv, Working
<1>2. CASE Rollback
  BY <1>2 DEF Rollback, SnapInv
<1>3. ASSUME NEW m \in Marks, ExitStep(m) \/ EntryStep(m) PROVE SnapInv'
  <2>1. KeepInExits \/ KeepInEntries
    BY <1>3, Zenon DEF ExitStep, EntryStep, Settle, GapAtEnd, GapMissedWindow, GapExitDeadline,
       AwaitExitQuote, FillExit, Revalue, LeaveAlone, SkipEntry, FillEntry, LeavePending
  <2> QED  BY <2>1 DEF KeepInExits, KeepInEntries, SnapInv
<1>4. CASE \/ Begin \/ Discover \/ RecordMark \/ Tick \/ SetClockBack
           \/ (\E m \in Marks : ResolveSignal(m) \/ DataGap(m)) \/ UNCHANGED vars
  BY <1>4 DEF Begin, Discover, RecordMark, Tick, SetClockBack, ResolveSignal, DataGap, vars,
     account, SnapInv
<1> QED  BY <1>1, <1>2, <1>3, <1>4 DEF Next, Handler

\* HonestEquity: _record_equity_snapshot never writes a number while a held
\* position is unresolved or carries a mark older than the quote age.
THEOREM EquityAlwaysHonest == Spec => HonestEquity
<1> DEFINE Honest(m) == /\ saved'.status[m] # "UNPRICED"
                        /\ saved'.status[m] = "OPEN" =>
                             saved'.detail[m].quoteAt >= saved'.processedAt - QuoteAge
<1>1. ASSUME Types, ImportInv, TxnInv, SnapInv, [Next]_vars,
             saved'.snapshot # saved.snapshot, saved'.snapshot.equity # None, NEW m \in Marks
      PROVE  Honest(m)
  <2>0. /\ clock \in Nat /\ status \in [Marks -> Status] /\ detail[m].quoteAt \in Stamp
    BY <1>1 DEF Types, InputsOK, WorkingOK, DetailType
  <2>1. CASE Activate
    <3>1. activatedAt = None /\ status' = status /\ saved' = Working'
      BY <2>1 DEF Activate
    <3>2. status[m] = "NONE" /\ saved'.status = status
      BY <1>1, <3>1 DEF ImportInv, Working
    <3> QED  BY <3>2
  <2>2. CASE Commit
    <3>1. /\ saved' = Working' /\ UNCHANGED <<status, detail, processedAt>>
          /\ snapshot' # snapshot => snapshot'.equity = Equity
      BY <2>2 DEF Commit
    <3>2. /\ saved'.status = status /\ saved'.detail = detail /\ saved'.processedAt = processedAt
          /\ saved'.snapshot = snapshot'
      BY <3>1 DEF Working
    <3>3. Equity # None /\ processedAt = clock
      BY <1>1, <2>2, <3>1, <3>2 DEF SnapInv, TxnInv, Commit
    <3>4. m \in Held => ~Unvalued(m)
      BY <3>3 DEF Equity
    <3> QED  BY <2>0, <3>2, <3>3, <3>4, PolicyAssumption DEF Held, HELD, Unvalued, Stamp, None
  <2>3. ASSUME NEW n \in Marks, ExitStep(n) \/ EntryStep(n) PROVE FALSE
    BY <1>1, <2>3, LoopStep
  <2>4. CASE \/ Begin \/ Discover \/ Rollback \/ RecordMark \/ Tick \/ SetClockBack
             \/ (\E n \in Marks : ResolveSignal(n) \/ DataGap(n)) \/ UNCHANGED vars
    BY <1>1, <2>4 DEF Begin, Discover, Rollback, RecordMark, Tick, SetClockBack, ResolveSignal,
       DataGap, vars
  <2> QED  BY <1>1, <2>1, <2>2, <2>3, <2>4 DEF Next, Handler
<1>2. TypeOK /\ ImportInv /\ TxnInv /\ SnapInv /\ [Next]_vars =>
        [saved'.snapshot # saved.snapshot /\ saved'.snapshot.equity # None =>
           \A m \in Marks :
             /\ saved'.status[m] # "UNPRICED"
             /\ saved'.status[m] = "OPEN" =>
                  saved'.detail[m].quoteAt >= saved'.processedAt - QuoteAge]_saved
  BY <1>1, TypeParts
<1>3. Init => SnapInv
  BY DEF Init, SnapInv, Working
<1>4. TypeOK /\ SnapInv /\ [Next]_vars => SnapInv'
  BY NextSnap, TypeParts
<1> QED
  BY TypeCorrect, InitImport, NextImport, TxnInvariant, <1>2, <1>3, <1>4, PTL
  DEF Spec, HonestEquity

\* LedgerSound: the append-only ledger and the rows it explains agree in every
\* step of advance_account, and _event is never handed a key the ledger holds.
THEOREM LedgerAlwaysSound == Spec => []LedgerSound
  BY EventsAgree, EventKeysUnique, HistoryNeverImported, PTL DEF LedgerSound

\* WithinMeans: fees, slots and the totals the entry loop of advance_account
\* decides by, for any policy and any number of signals.
THEOREM AlwaysWithinMeans == Spec => []WithinMeans
  BY FeesAlwaysReserved, SlotsNeverExceeded, TotalsNeverDrift, PTL DEF WithinMeans

\* NothingRewritten: what advance_account committed stays, for any sequence of
\* scans, retries, failures and clock corrections.
THEOREM NothingEverRewritten == Spec => NothingRewritten
  BY NothingRetroactive, FinalIsFinal, PTL DEF NothingRewritten
-----------------------------------------------------------------------------
(* Every commit is one batch of the cash book *)

Cost     == [m \in Marks |-> detail[m].debit]
Proceeds == [m \in Marks |-> detail[m].sale]
SavedProceeds == [m \in Marks |-> saved.detail[m].sale]

\* The marks that the open transaction has moved from one stage to another.
MovedIn(from, to) == {m \in Marks : Stage(saved.status[m]) = from /\ Stage(status[m]) = to}
Bought  == MovedIn("idle", "held")
Sold    == MovedIn("held", "sold")
Cleared == MovedIn("sold", "settled")

OneMove(m) ==
  /\ Stage(status[m]) # Stage(saved.status[m]) =>
       <<Stage(saved.status[m]), Stage(status[m])>> \in Book!Moves
  /\ detail[m].debit # saved.detail[m].debit => m \in Bought
  /\ detail[m].sale # saved.detail[m].sale => m \in Sold

\* Settled and unsettled cash differ from the committed sums by the moves so far.
Balanced ==
  /\ settled = saved.settled + Total(SavedProceeds, Cleared) - Total(Cost, Bought)
                             - CloseFee * Cardinality(Sold)
  /\ unsettled = saved.unsettled + Total(Proceeds, Sold) - Total(SavedProceeds, Cleared)

Same ==
  /\ settled = saved.settled /\ unsettled = saved.unsettled
  /\ status = saved.status /\ detail = saved.detail

Journal ==
  /\ activatedAt = saved.activatedAt
  /\ txn.phase = "idle" => Same
  /\ txn.phase = "exits" => \A m \in Marks : m >= txn.next => status[m] = saved.status[m]
  /\ \A m \in Marks : OneMove(m)
  /\ Balanced

LEMMA MovedSets ==
  ASSUME NEW from, NEW to
  PROVE  /\ IsFiniteSet(MovedIn(from, to)) /\ MovedIn(from, to) \in SUBSET Marks
         /\ Cardinality(MovedIn(from, to)) \in Nat
  BY MarkSets DEF MovedIn

LEMMA AmountTypes ==
  ASSUME Types
  PROVE  \A m \in Marks : Cost[m] \in Nat /\ Proceeds[m] \in Nat /\ SavedProceeds[m] \in Nat
  BY DEF Types, WorkingOK, AccountOK, DetailType, Cost, Proceeds, SavedProceeds

\* What a transaction that has changed nothing amounts to.
Unmoved == (\A m \in Marks : OneMove(m)) /\ Balanced

LEMMA NothingMoved == Types /\ Same => Unmoved
<1> SUFFICES ASSUME Types, Same PROVE Unmoved
  OBVIOUS
<1>1. Bought = {} /\ Sold = {} /\ Cleared = {}
  BY DEF Same, Bought, Sold, Cleared, MovedIn
<1>2. /\ Total(SavedProceeds, Cleared) = 0 /\ Total(Cost, Bought) = 0
      /\ Total(Proceeds, Sold) = 0 /\ Cardinality(Sold) = 0
  BY <1>1, TotalEquation, FS_EmptySet
<1>3. Balanced
  BY <1>2, PolicyAssumption DEF Balanced, Same, Types, WorkingOK, AccountOK
<1> QED  BY <1>3 DEF OneMove, Same, Unmoved

LEMMA NothingMovedNext == Types' /\ Same' => Unmoved'
  BY NothingMoved, PTL

\* A step of one position that moves no stage and no cash.
LEMMA NoStageMoved ==
  ASSUME Types, Journal, UNCHANGED <<settled, unsettled, saved>>,
         \A m \in Marks : /\ Stage(status'[m]) = Stage(status[m])
                          /\ detail'[m].debit = detail[m].debit
                          /\ detail'[m].sale = detail[m].sale
  PROVE  (\A m \in Marks : OneMove(m)') /\ Balanced'
<1>1. Bought' = Bought /\ Sold' = Sold /\ Cleared' = Cleared
  BY DEF Bought, Sold, Cleared, MovedIn
<1>2. Cost' = Cost /\ Proceeds' = Proceeds /\ SavedProceeds' = SavedProceeds
  BY DEF Cost, Proceeds, SavedProceeds
<1>3. Balanced'
  BY <1>1, <1>2 DEF Balanced, Journal
<1>4. ASSUME NEW m \in Marks PROVE OneMove(m)'
  BY <1>1 DEF OneMove, Journal
<1> QED  BY <1>3, <1>4

\* The sets of moved marks after one position, not yet moved, changed its status.
LEMMA MovedSetsStep ==
  ASSUME Types, NEW m \in Marks, UNCHANGED saved, Stage(status[m]) = Stage(saved.status[m]),
         \A n \in Marks : n # m => status'[n] = status[n], NEW from, NEW to, from # to
  PROVE  /\ m \notin MovedIn(from, to)
         /\ MovedIn(from, to)' =
              IF Stage(status[m]) = from /\ Stage(status'[m]) = to
              THEN MovedIn(from, to) \cup {m} ELSE MovedIn(from, to)
  BY DEF MovedIn

\* A position that was neither bought nor sold in the transaction has the
\* committed amounts, and the amounts of the others do not change.
LEMMA OtherMoves ==
  ASSUME Types, Journal, NEW m \in Marks, UNCHANGED saved,
         Stage(status[m]) = Stage(saved.status[m]),
         \A n \in Marks : n # m => status'[n] = status[n] /\ detail'[n] = detail[n],
         Stage(status'[m]) # Stage(status[m]) =>
           <<Stage(status[m]), Stage(status'[m])>> \in Book!Moves,
         detail'[m].debit # detail[m].debit => m \in Bought',
         detail'[m].sale # detail[m].sale => m \in Sold'
  PROVE  /\ \A n \in Marks : OneMove(n)'
         /\ detail[m].debit = saved.detail[m].debit /\ detail[m].sale = saved.detail[m].sale
<1>1. m \notin Bought /\ m \notin Sold
  BY MovedSetsStep DEF Bought, Sold
<1>2. detail[m].debit = saved.detail[m].debit /\ detail[m].sale = saved.detail[m].sale
  BY <1>1 DEF Journal, OneMove
<1>3. OneMove(m)'
  BY <1>2 DEF OneMove, Book!Moves
<1>4. ASSUME NEW n \in Marks, n # m PROVE OneMove(n)'
  <2>1. OneMove(n) /\ status'[n] = status[n] /\ detail'[n] = detail[n]
    BY <1>4 DEF Journal
  <2>2. (n \in Bought)' = (n \in Bought) /\ (n \in Sold)' = (n \in Sold)
    BY <2>1 DEF Bought, Sold, MovedIn
  <2> QED  BY <2>1, <2>2 DEF OneMove, Book!Moves
<1> QED  BY <1>2, <1>3, <1>4

\* The stages of the statuses.
LEMMA Stages ==
  /\ Stage("NONE") = "idle" /\ Stage("PENDING_ENTRY") = "idle" /\ Stage("SKIPPED") = "idle"
  /\ Stage("OPEN") = "held" /\ Stage("UNPRICED") = "stuck"
  /\ Stage("UNSETTLED") = "sold" /\ Stage("CLOSED") = "settled"
  BY DEF Stage

\* The sums of the journal are integers.
LEMMA JournalSums ==
  ASSUME Types
  PROVE  /\ Total(SavedProceeds, Cleared) \in Int /\ Total(Cost, Bought) \in Int
         /\ Total(Proceeds, Sold) \in Int /\ CloseFee * Cardinality(Sold) \in Int
         /\ saved.settled \in Int /\ saved.unsettled \in Int
         /\ \A m \in Marks : SavedProceeds[m] \in Int
<1>1. /\ IsFiniteSet(Cleared) /\ \A n \in Cleared : SavedProceeds[n] \in Int
      /\ IsFiniteSet(Bought) /\ \A n \in Bought : Cost[n] \in Int
      /\ IsFiniteSet(Sold) /\ \A n \in Sold : Proceeds[n] \in Int
  BY MovedSets, AmountTypes DEF Cleared, Bought, Sold
<1>2. CloseFee * Cardinality(Sold) \in Int
  BY MovedSets, Reserve DEF Sold
<1>3. saved.settled \in Int /\ saved.unsettled \in Int
  BY DEF Types, AccountOK
<1> QED  BY <1>1, <1>2, <1>3, TotalInt, AmountTypes

\* A settlement turns the proceeds of an earlier commit into settled cash.
LEMMA SettleJournal ==
  ASSUME Types, Journal, NEW m \in Marks, Settle(m)
  PROVE  (\A n \in Marks : OneMove(n)') /\ Balanced'
<1>0. /\ status \in [Marks -> Status] /\ UNCHANGED <<saved, detail>>
      /\ settled \in Int /\ unsettled \in Int
  BY DEF Settle, KeepInExits, Types, WorkingOK
<1>1. /\ status[m] = "UNSETTLED" /\ status'[m] = "CLOSED" /\ saved.status[m] = status[m]
      /\ \A n \in Marks : n # m => status'[n] = status[n]
      /\ settled' = settled + detail[m].sale /\ unsettled' = unsettled - detail[m].sale
  BY <1>0 DEF Settle, Due, Exiting, Journal, Marks
<1>2. /\ m \notin Cleared /\ Cleared' = Cleared \cup {m} /\ Sold' = Sold /\ Bought' = Bought
  BY <1>0, <1>1, Stages, MovedSetsStep DEF Cleared, Sold, Bought
<1>3. /\ \A n \in Marks : OneMove(n)'
      /\ SavedProceeds[m] = detail[m].sale
  BY <1>0, <1>1, Stages, OtherMoves DEF Book!Moves, SavedProceeds
<1>4. Cost' = Cost /\ Proceeds' = Proceeds /\ SavedProceeds' = SavedProceeds
  BY <1>0 DEF Cost, Proceeds, SavedProceeds
<1>5. Total(SavedProceeds, Cleared') = SavedProceeds[m] + Total(SavedProceeds, Cleared)
  <2>1. IsFiniteSet(Cleared) /\ \A n \in Cleared \cup {m} : SavedProceeds[n] \in Int
    BY MovedSets, AmountTypes DEF Cleared
  <2> QED  BY <1>2, <2>1, TotalWith
<1>6. /\ Total(SavedProceeds, Cleared) \in Int /\ Total(Cost, Bought) \in Int
      /\ Total(Proceeds, Sold) \in Int /\ CloseFee * Cardinality(Sold) \in Int
      /\ saved.settled \in Int /\ saved.unsettled \in Int /\ SavedProceeds[m] \in Int
  BY JournalSums
<1>7. Balanced'
  BY <1>0, <1>1, <1>2, <1>3, <1>4, <1>5, <1>6 DEF Balanced, Journal
<1> QED  BY <1>3, <1>7

\* A sale pays the closing fee and books the proceeds as unsettled.
LEMMA SaleJournal ==
  ASSUME Types, Journal, NEW m \in Marks, FillExit(m)
  PROVE  (\A n \in Marks : OneMove(n)') /\ Balanced'
<1>0. /\ status \in [Marks -> Status] /\ detail \in [Marks -> DetailType]
      /\ UNCHANGED saved /\ clock \in Nat /\ posted \in [Marks -> EventType]
  BY DEF FillExit, KeepInExits, Types, WorkingOK, InputsOK
<1>1. /\ status[m] = "OPEN" /\ status'[m] = "UNSETTLED" /\ saved.status[m] = status[m]
      /\ \A n \in Marks : n # m => status'[n] = status[n]
      /\ settled' = settled - CloseFee
  BY <1>0 DEF FillExit, MustExit, Exiting, Journal, Marks
<1>2. PICK q \in UsableQuotes(Requested(m) + Latency) :
        /\ detail' = [detail EXCEPT ![m] =
                        [@ EXCEPT !.sale = Sale(q[2]), !.settles = SettlementAt(clock),
                                  !.quoteAt = q[1], !.bid = q[2].bid]]
        /\ unsettled' = unsettled + Sale(q[2])
  BY Zenon DEF FillExit
<1>3. Sale(q[2]) \in Nat
  <2>1. Requested(m) + Latency \in Int
    BY <1>0, PolicyAssumption DEF Requested, EventType, Kinds, Stamp, None
  <2> QED  BY <1>0, <2>1, QuoteFacts
<1>4. /\ detail'[m].sale = Sale(q[2]) /\ detail'[m].debit = detail[m].debit
      /\ \A n \in Marks : n # m => detail'[n] = detail[n]
  BY <1>0, <1>2 DEF DetailType
<1>5. /\ m \notin Sold /\ Sold' = Sold \cup {m} /\ Cleared' = Cleared /\ Bought' = Bought
  BY <1>0, <1>1, Stages, MovedSetsStep DEF Cleared, Sold, Bought
<1>6. \A n \in Marks : OneMove(n)'
  BY <1>0, <1>1, <1>4, <1>5, Stages, OtherMoves DEF Book!Moves
<1>7. Cost' = Cost /\ SavedProceeds' = SavedProceeds
  BY <1>0, <1>4 DEF Cost, SavedProceeds
<1>8. Total(Proceeds', Sold') = Sale(q[2]) + Total(Proceeds, Sold)
  <2>1. IsFiniteSet(Sold) /\ Sold \in SUBSET Marks
    BY MovedSets DEF Sold
  <2>2. \A n \in Sold : Proceeds'[n] = Proceeds[n]
    BY <1>4, <1>5, <2>1 DEF Proceeds
  <2>3. Proceeds'[m] = Sale(q[2]) /\ \A n \in Sold \cup {m} : Proceeds'[n] \in Int
    BY <1>3, <1>4, <2>1, <2>2, AmountTypes DEF Proceeds
  <2>4. Total(Proceeds', Sold \cup {m}) = Proceeds'[m] + Total(Proceeds', Sold)
    BY <1>5, <2>1, <2>3, TotalWith
  <2>5. Total(Proceeds', Sold) = Total(Proceeds, Sold)
    BY <2>1, <2>2, TotalSame
  <2> QED  BY <1>5, <2>3, <2>4, <2>5
<1>9. Cardinality(Sold') = Cardinality(Sold) + 1 /\ Cardinality(Sold) \in Nat
  BY <1>5, MovedSets, FS_AddElement DEF Sold
<1>10. CloseFee * Cardinality(Sold') = CloseFee * Cardinality(Sold) + CloseFee
  BY <1>9, Reserve
<1>11. /\ Total(SavedProceeds, Cleared) \in Int /\ Total(Cost, Bought) \in Int
       /\ Total(Proceeds, Sold) \in Int /\ CloseFee * Cardinality(Sold) \in Int
       /\ saved.settled \in Int /\ saved.unsettled \in Int
  BY JournalSums
<1>12. Balanced'
  <2>1. settled' = saved'.settled + Total(SavedProceeds', Cleared') - Total(Cost', Bought')
                             - CloseFee * Cardinality(Sold')
    BY <1>0, <1>1, <1>5, <1>7, <1>10, <1>11, PolicyAssumption DEF Balanced, Journal
  <2>2. unsettled' = saved'.unsettled + Total(Proceeds', Sold') - Total(SavedProceeds', Cleared')
    BY <1>0, <1>2, <1>3, <1>5, <1>7, <1>8, <1>11 DEF Balanced, Journal
  <2> QED  BY <2>1, <2>2 DEF Balanced
<1> QED  BY <1>6, <1>12

\* A purchase spends its debit.
LEMMA PurchaseJournal ==
  ASSUME Types, Journal, NEW m \in Marks, FillEntry(m)
  PROVE  (\A n \in Marks : OneMove(n)') /\ Balanced'
<1>0. /\ status \in [Marks -> Status] /\ detail \in [Marks -> DetailType]
      /\ UNCHANGED <<saved, unsettled>> /\ clock \in Nat
  BY DEF FillEntry, KeepInEntries, Types, WorkingOK, InputsOK
<1>1. /\ status[m] = "PENDING_ENTRY" /\ status'[m] = "OPEN"
      /\ \A n \in Marks : n # m => status'[n] = status[n]
  BY <1>0 DEF FillEntry
<1>2. Stage(saved.status[m]) = Stage(status[m])
  <2>1. OneMove(m) /\ Stage(status[m]) = "idle"
    BY <1>1, Stages DEF Journal
  <2> QED  BY <2>1 DEF OneMove, Book!Moves
<1>3. PICK q \in EntryQuotes(m) :
        /\ Acceptable(q[2])
        /\ detail' = [detail EXCEPT ![m] =
                        [@ EXCEPT !.debit = Debit(q[2]), !.quoteAt = q[1], !.bid = q[2].bid]]
        /\ settled' = settled - Debit(q[2])
        /\ CountEntry(m, Debit(q[2]))
  BY Zenon DEF FillEntry
<1>4. Debit(q[2]) \in Nat
  <2>1. detail[m].seen + Latency \in Int /\ q \in UsableQuotes(detail[m].seen + Latency)
    BY <1>0, <1>3, PolicyAssumption DEF EntryQuotes, DetailType, Stamp, None
  <2> QED  BY <1>0, <2>1, QuoteFacts
<1>5. /\ detail'[m].debit = Debit(q[2]) /\ detail'[m].sale = detail[m].sale
      /\ \A n \in Marks : n # m => detail'[n] = detail[n]
  BY <1>0, <1>3 DEF DetailType
<1>6. /\ m \notin Bought /\ Bought' = Bought \cup {m} /\ Cleared' = Cleared /\ Sold' = Sold
  BY <1>0, <1>1, <1>2, Stages, MovedSetsStep DEF Cleared, Sold, Bought
<1>7. \A n \in Marks : OneMove(n)'
  BY <1>0, <1>1, <1>2, <1>5, <1>6, Stages, OtherMoves DEF Book!Moves
<1>8. Proceeds' = Proceeds /\ SavedProceeds' = SavedProceeds
  BY <1>0, <1>5 DEF Proceeds, SavedProceeds
<1>9. Total(Cost', Bought') = Debit(q[2]) + Total(Cost, Bought)
  <2>1. IsFiniteSet(Bought) /\ Bought \in SUBSET Marks
    BY MovedSets DEF Bought
  <2>2. \A n \in Bought : Cost'[n] = Cost[n]
    BY <1>5, <1>6, <2>1 DEF Cost
  <2>3. Cost'[m] = Debit(q[2]) /\ \A n \in Bought \cup {m} : Cost'[n] \in Int
    BY <1>4, <1>5, <2>1, <2>2, AmountTypes DEF Cost
  <2>4. Total(Cost', Bought \cup {m}) = Cost'[m] + Total(Cost', Bought)
    BY <1>6, <2>1, <2>3, TotalWith
  <2>5. Total(Cost', Bought) = Total(Cost, Bought)
    BY <2>1, <2>2, TotalSame
  <2> QED  BY <1>6, <2>3, <2>4, <2>5
<1>10. /\ Total(SavedProceeds, Cleared) \in Int /\ Total(Cost, Bought) \in Int
       /\ Total(Proceeds, Sold) \in Int /\ CloseFee * Cardinality(Sold) \in Int
       /\ saved.settled \in Int /\ saved.unsettled \in Int
  BY JournalSums
<1>11. Balanced'
  BY <1>0, <1>3, <1>4, <1>6, <1>8, <1>9, <1>10 DEF Balanced, Journal
<1> QED  BY <1>7, <1>11

\* The other iterations move no stage but that of a position left without a quote.
LEMMA QuietJournal ==
  ASSUME Types, Journal, NEW m \in Marks,
         ExitStep(m) \/ EntryStep(m), ~Settle(m), ~FillExit(m), ~FillEntry(m)
  PROVE  (\A n \in Marks : OneMove(n)') /\ Balanced'
<1>0. /\ status \in [Marks -> Status] /\ detail \in [Marks -> DetailType]
      /\ UNCHANGED saved
  BY LoopStep DEF Types, WorkingOK
<1>1. CASE GapAtEnd(m) \/ GapMissedWindow(m) \/ GapExitDeadline(m)
  <2>1. /\ status[m] = "OPEN" /\ status' = [status EXCEPT ![m] = "UNPRICED"]
        /\ UNCHANGED <<settled, unsettled, detail>> /\ Exiting(m)
    BY <1>1 DEF GapAtEnd, GapMissedWindow, GapExitDeadline, MustExit, DeclareGap
  <2>2. saved.status[m] = status[m] /\ status'[m] = "UNPRICED"
        /\ \A n \in Marks : n # m => status'[n] = status[n]
    BY <1>0, <2>1 DEF Exiting, Journal, Marks
  <2>3. Bought' = Bought /\ Sold' = Sold /\ Cleared' = Cleared
    BY <1>0, <2>1, <2>2, Stages, MovedSetsStep DEF Cleared, Sold, Bought
  <2>4. \A n \in Marks : OneMove(n)'
    BY <1>0, <2>1, <2>2, Stages, OtherMoves DEF Book!Moves
  <2>5. Cost' = Cost /\ Proceeds' = Proceeds /\ SavedProceeds' = SavedProceeds
    BY <1>0, <2>1 DEF Cost, Proceeds, SavedProceeds
  <2>6. Balanced'
    BY <1>0, <2>1, <2>3, <2>5 DEF Balanced, Journal
  <2> QED  BY <2>4, <2>6
<1>2. CASE AwaitExitQuote(m) \/ LeaveAlone(m) \/ LeavePending(m)
  <2>1. UNCHANGED <<settled, unsettled, status, detail>>
    BY <1>2 DEF AwaitExitQuote, LeaveAlone, LeavePending, KeepInEntries
  <2> QED  BY <1>0, <2>1, NoStageMoved
<1>3. CASE Revalue(m)
  <2>1. UNCHANGED <<settled, unsettled, status>>
    BY <1>3 DEF Revalue
  <2>2. PICK q \in UsableQuotes(posted[m]["ENTRY"]) :
          detail' = [detail EXCEPT ![m].quoteAt = q[1], ![m].bid = q[2].bid]
    BY <1>3 DEF Revalue
  <2>3. \A n \in Marks : detail'[n].debit = detail[n].debit /\ detail'[n].sale = detail[n].sale
    BY <1>0, <2>2 DEF DetailType
  <2> QED  BY <1>0, <2>1, <2>3, NoStageMoved
<1>4. CASE SkipEntry(m)
  <2>1. /\ UNCHANGED <<settled, unsettled, detail>> /\ status[m] = "PENDING_ENTRY"
        /\ status' = [status EXCEPT ![m] = "SKIPPED"]
    BY <1>4 DEF SkipEntry, KeepInEntries
  <2>2. \A n \in Marks : Stage(status'[n]) = Stage(status[n])
    BY <1>0, <2>1, Stages
  <2> QED  BY <1>0, <2>1, <2>2, NoStageMoved
<1> QED  BY <1>1, <1>2, <1>3, <1>4 DEF ExitStep, EntryStep

\* An iteration goes on with the next id in the phase it is in.
LEMMA LoopNext ==
  ASSUME Types, NEW m \in Marks, ExitStep(m) \/ EntryStep(m)
  PROVE  /\ txn.phase # "idle" /\ txn'.phase # "idle"
         /\ txn'.phase = "exits" => txn.phase = "exits" /\ txn'.next = txn.next + 1 /\ txn.next = m
<1>0. txn \in TxnType
  BY DEF Types
<1>1. CASE ExitStep(m)
  <2>1. /\ txn.phase = "exits" /\ txn.next = m
        /\ Skip \/ \E kind \in Kinds : Post(m, kind)
    BY <1>1 DEF ExitStep, Settle, GapAtEnd, GapMissedWindow, GapExitDeadline, AwaitExitQuote,
         FillExit, Revalue, LeaveAlone, DeclareGap, Exiting, Kinds
  <2> QED  BY <1>0, <2>1 DEF Skip, Post, After, TxnType
<1>2. CASE EntryStep(m)
  <2>1. txn.phase = "entries"
    BY <1>2 DEF EntryStep, SkipEntry, FillEntry, LeavePending, Entering
  <2>2. \/ Skip \/ \E kind \in Kinds : Post(m, kind)
        \/ \E debit \in {Debit(q[2]) : q \in EntryQuotes(m)} : CountEntry(m, debit)
    BY <1>2 DEF EntryStep, SkipEntry, FillEntry, LeavePending, Kinds
  <2> QED  BY <1>0, <2>1, <2>2 DEF Skip, Post, After, CountEntry, TxnType
<1> QED  BY <1>1, <1>2

LEMMA LoopJournal ==
  ASSUME Types, Journal, NEW m \in Marks, ExitStep(m) \/ EntryStep(m)
  PROVE  Journal'
<1>1. (\A n \in Marks : OneMove(n)') /\ Balanced'
  BY SettleJournal, SaleJournal, PurchaseJournal, QuietJournal
<1>2. UNCHANGED <<activatedAt, saved>> /\ \A n \in Marks : n # m => status'[n] = status[n]
  BY LoopStep
<1>3. txn.next \in Nat
  BY DEF Types, TxnType
<1>4. txn'.phase = "exits" => \A n \in Marks : n >= txn'.next => status'[n] = saved'.status[n]
  BY <1>2, <1>3, LoopNext DEF Journal, Marks
<1>5. txn'.phase # "idle"
  BY LoopNext
<1> QED  BY <1>1, <1>2, <1>4, <1>5 DEF Journal

LEMMA InitJournal == Init => Journal
<1> SUFFICES ASSUME Init PROVE Journal
  OBVIOUS
<1>1. Same /\ activatedAt = saved.activatedAt /\ txn.phase = "idle"
  BY DEF Init, Same, Working, Idle
<1>2. Types
  BY InitType, TypeParts
<1> QED  BY <1>1, <1>2, NothingMoved DEF Journal, Unmoved

LEMMA NextJournal == TypeOK /\ ImportInv /\ Journal /\ [Next]_vars => Journal'
<1> SUFFICES ASSUME Types, Types', ImportInv, Journal, [Next]_vars PROVE Journal'
  BY TypeParts, NextType
<1>a. ASSUME Same', activatedAt' = saved'.activatedAt,
             txn'.phase = "exits" => \A m \in Marks : m >= txn'.next => status'[m] = saved'.status[m]
      PROVE  Journal'
  <2>1. Unmoved'
    BY <1>a, NothingMovedNext
  <2> QED  BY <1>a, <2>1 DEF Journal, Unmoved
<1>1. CASE Activate \/ Commit
  <2>1. saved' = Working' /\ txn'.phase = "idle"
    BY <1>1 DEF Activate, Commit, Idle
  <2>2. Same' /\ activatedAt' = saved'.activatedAt
    BY <2>1 DEF Same, Working
  <2> QED  BY <1>a, <2>1, <2>2
<1>2. CASE Begin
  <2>1. Same /\ UNCHANGED <<saved, activatedAt, settled, unsettled, status, detail>>
    BY <1>2 DEF Begin, Journal
  <2>2. Same' /\ activatedAt' = saved'.activatedAt /\ status' = saved'.status
    BY <2>1 DEF Same, Journal
  <2> QED  BY <1>a, <2>2
<1>3. ASSUME NEW m \in Marks, ExitStep(m) \/ EntryStep(m) PROVE Journal'
  BY <1>3, LoopJournal
<1>4. CASE Discover
  <2>0. txn \in TxnType /\ detail \in [Marks -> DetailType] /\ watermark \in Nat
    BY DEF Types, WorkingOK
  <2>1. UNCHANGED <<settled, unsettled, saved, activatedAt>> /\ txn'.phase = "entries"
    BY <1>4, <2>0 DEF Discover, TxnType
  <2>2. \A m \in Marks : detail'[m].debit = detail[m].debit /\ detail'[m].sale = detail[m].sale
    BY <1>4, <2>0 DEF Discover, DetailType
  <2>3. \A m \in Discovered : status[m] = "NONE"
    BY <2>0 DEF Discovered, Recorded, Marks, ImportInv, Imported
  <2>4. \A m \in Marks : Stage(status'[m]) = Stage(status[m])
    BY <1>4, <2>3, Stages DEF Discover
  <2>5. (\A m \in Marks : OneMove(m)') /\ Balanced'
    BY <2>1, <2>2, <2>4, NoStageMoved
  <2> QED  BY <2>1, <2>5 DEF Journal
<1>5. CASE Rollback
  <2>1. Same' /\ activatedAt' = saved'.activatedAt /\ txn'.phase = "idle"
    BY <1>5 DEF Rollback, Idle, Same
  <2> QED  BY <1>a, <2>1
<1>6. CASE RecordMark \/ Tick \/ SetClockBack \/ (\E m \in Marks : ResolveSignal(m) \/ DataGap(m))
           \/ UNCHANGED vars
  <2>1. UNCHANGED <<account, txn, saved>>
    BY <1>6 DEF RecordMark, Tick, SetClockBack, ResolveSignal, DataGap, vars
  <2>2. UNCHANGED <<activatedAt, settled, unsettled, status, detail>>
    BY <2>1 DEF account
  <2>3. (\A m \in Marks : OneMove(m)') /\ Balanced'
    BY <2>1, <2>2, NoStageMoved
  <2> QED  BY <2>1, <2>2, <2>3 DEF Journal, Same
<1> QED
  BY <1>1, <1>2, <1>3, <1>4, <1>5, <1>6 DEF Next, Handler

\* The book's own sum is the sum of rows.
LEMMA BookTotal == ASSUME NEW amount, NEW S PROVE Book!Total(amount, S) = Total(amount, S)
  BY DEF Book!Total, Book!MapThenFoldSet, Total, MapThenFoldSet

LEMMA BookCardinality == ASSUME NEW S PROVE Book!Cardinality(S) = Cardinality(S)
  BY DEF Book!Cardinality, Cardinality

LEMMA InitBook == Init => Book!Init
<1> SUFFICES ASSUME Init PROVE Book!Init
  OBVIOUS
<1>1. saved = Working /\ activatedAt = None /\ unsettled = 0
      /\ status = [m \in Marks |-> "NONE"] /\ detail = [m \in Marks |-> Fresh]
  BY DEF Init
<1>2. saved.activatedAt = None /\ saved.unsettled = 0
      /\ \A m \in Marks : saved.status[m] = "NONE" /\ saved.detail[m] = Fresh
  BY <1>1 DEF Working
<1> QED  BY <1>2, Stages DEF Book!Init, Fresh

\* A commit moves the book by one batch.
LEMMA CommitBook ==
  ASSUME Types, ImportInv, CashInv, Journal, Commit
  PROVE  Book!Batch
<1>0. /\ saved'.activatedAt = activatedAt /\ saved'.settled = settled
      /\ saved'.unsettled = unsettled /\ saved'.status = status /\ saved'.detail = detail
      /\ activatedAt # None /\ saved.activatedAt = activatedAt
  BY DEF Commit, Working, ImportInv, Journal
<1>1. Book!Moved("idle", "held") = Bought
  BY <1>0 DEF Book!Moved, Bought, MovedIn
<1>2. Book!Moved("held", "sold") = Sold
  BY <1>0 DEF Book!Moved, Sold, MovedIn
<1>3. Book!Moved("sold", "settled") = Cleared
  BY <1>0 DEF Book!Moved, Cleared, MovedIn
<1>4. Book!Exposed([m \in Marks |-> Stage(status[m])]) = HeldIn(status)
  <2>1. \A m \in Marks : status[m] \in Status
    BY DEF Types, WorkingOK
  <2>2. ASSUME NEW s \in Status PROVE Stage(s) \in {"held", "stuck"} <=> s \in HELD
    BY <2>2, Stages DEF Status, HELD
  <2> QED  BY <2>1, <2>2 DEF Book!Exposed, HeldIn
<1>5. /\ [m \in Marks |-> saved.detail[m].sale] = SavedProceeds
      /\ [m \in Marks |-> detail[m].sale] = Proceeds
      /\ [m \in Marks |-> detail[m].debit] = Cost
  BY DEF SavedProceeds, Proceeds, Cost
<1>6. \A m \in Marks :
        /\ Stage(status[m]) # Stage(saved.status[m]) =>
             <<Stage(saved.status[m]), Stage(status[m])>> \in Book!Moves
        /\ detail[m].debit # saved.detail[m].debit => m \in Bought
        /\ detail[m].sale # saved.detail[m].sale => m \in Sold
  BY DEF Journal, OneMove
<1>7. /\ settled = saved.settled + Total(SavedProceeds, Cleared) - Total(Cost, Bought)
                                 - CloseFee * Cardinality(Sold)
      /\ unsettled = saved.unsettled + Total(Proceeds, Sold) - Total(SavedProceeds, Cleared)
  BY DEF Journal, Balanced
<1>8. settled >= CloseFee * Cardinality(HeldIn(status)) /\ Cardinality(HeldIn(status)) <= MaxPositions
  BY <1>0 DEF CashInv, Solvent
<1>9. Total(Cost, Bought) <= saved.settled + Total(SavedProceeds, Cleared)
  <2>1. CloseFee * Cardinality(Sold) \in Nat
    BY MovedSets, Reserve DEF Sold
  <2>2. CloseFee * Cardinality(HeldIn(status)) \in Nat /\ settled \in Int
    BY HeldSets, Reserve DEF Types, WorkingOK
  <2> QED  BY <1>7, <1>8, <2>1, <2>2, JournalSums
<1> HIDE DEF Bought, Sold, Cleared, SavedProceeds, Proceeds, Cost
<1>10. \A m \in Marks :
         /\ [n \in Marks |-> Stage(saved.status[n])]'[m] = Stage(status[m])
         /\ [n \in Marks |-> Stage(saved.status[n])][m] = Stage(saved.status[m])
         /\ [n \in Marks |-> saved.detail[n].debit]'[m] = detail[m].debit
         /\ [n \in Marks |-> saved.detail[n].debit][m] = saved.detail[m].debit
         /\ [n \in Marks |-> saved.detail[n].sale]'[m] = detail[m].sale
         /\ [n \in Marks |-> saved.detail[n].sale][m] = saved.detail[m].sale
  BY <1>0
<1>11. /\ [m \in Marks |-> saved.detail[m].sale]' = Proceeds
       /\ [m \in Marks |-> saved.detail[m].debit]' = Cost
       /\ [m \in Marks |-> Stage(saved.status[m])]' = [m \in Marks |-> Stage(status[m])]
  BY <1>0, <1>5
<1>12. \A m \in Marks :
         /\ [n \in Marks |-> Stage(saved.status[n])]'[m] # [n \in Marks |-> Stage(saved.status[n])][m]
              => <<[n \in Marks |-> Stage(saved.status[n])][m],
                   [n \in Marks |-> Stage(saved.status[n])]'[m]>> \in Book!Moves
         /\ [n \in Marks |-> saved.detail[n].debit]'[m] # [n \in Marks |-> saved.detail[n].debit][m]
              => m \in Bought
         /\ [n \in Marks |-> saved.detail[n].sale]'[m] # [n \in Marks |-> saved.detail[n].sale][m]
              => m \in Sold
  BY <1>6, <1>10, Zenon
<1>13. /\ Book!Total(SavedProceeds, Cleared) = Total(SavedProceeds, Cleared)
       /\ Book!Total(Proceeds, Sold) = Total(Proceeds, Sold)
       /\ Book!Total(Cost, Bought) = Total(Cost, Bought)
       /\ Book!Cardinality(Sold) = Cardinality(Sold)
       /\ Book!Cardinality(HeldIn(status)) = Cardinality(HeldIn(status))
  BY BookTotal, BookCardinality
<1> QED
  BY <1>0, <1>1, <1>2, <1>3, <1>4, <1>5, <1>7, <1>8, <1>9, <1>11, <1>12, <1>13 DEF Book!Batch

\* A step that leaves the committed copy alone leaves the book alone, and so does
\* the creation of the account, whose funding the book starts with.
LEMMA OtherBook ==
  ASSUME Types, ImportInv, Journal, UNCHANGED saved \/ Activate
  PROVE  UNCHANGED Book!book
<1>1. CASE UNCHANGED saved
  BY <1>1 DEF Book!book
<1>2. CASE Activate
  <2>1. /\ saved' = Working' /\ activatedAt' # None /\ settled' = StartingCash
        /\ UNCHANGED <<unsettled, status, detail>> /\ activatedAt = None /\ txn.phase = "idle"
    BY <1>2 DEF Activate, Types, InputsOK, None
  <2>2. /\ saved.activatedAt = None /\ saved.unsettled = unsettled
        /\ saved.status = status /\ saved.detail = detail
    BY <2>1 DEF Journal, Same
  <2>3. /\ saved'.activatedAt # None /\ saved'.settled = StartingCash /\ saved'.unsettled = unsettled
        /\ saved'.status = status /\ saved'.detail = detail
    BY <2>1 DEF Working
  <2> QED  BY <2>2, <2>3 DEF Book!book
<1> QED  BY <1>1, <1>2

LEMMA NextBook == TypeOK /\ ImportInv /\ CashInv /\ Journal /\ [Next]_vars => [Book!Batch]_Book!book
<1> SUFFICES ASSUME Types, ImportInv, CashInv, Journal, [Next]_vars PROVE [Book!Batch]_Book!book
  BY TypeParts
<1>1. CASE Commit
  BY <1>1, CommitBook
<1>2. CASE ~Commit
  <2>1. UNCHANGED saved \/ Activate
    <3>1. ASSUME NEW m \in Marks, ExitStep(m) \/ EntryStep(m) PROVE UNCHANGED saved
      BY <3>1, LoopStep
    <3> QED
      BY <1>2, <3>1 DEF Next, Handler, Begin, Discover, Rollback, RecordMark, Tick, SetClockBack,
           ResolveSignal, DataGap, vars
  <2> QED  BY <2>1, OtherBook
<1> QED  BY <1>1, <1>2

\* The scan's transaction implements the cash book: whatever its loops, retries and
\* rolled back scans do, each commit of advance_account is one batch, in which a
\* trade moves by at most one stage and cash by exactly the amounts of the moves.
THEOREM ImplementsBook == Spec => ImplementsCashBook
<1>1. Spec => [](TypeOK /\ ImportInv /\ CashInv /\ Journal)
  BY TypeCorrect, InitImport, NextImport, CashInvariant, InitJournal, NextJournal, PTL DEF Spec
<1> QED  BY <1>1, InitBook, NextBook, PTL DEF Spec, ImplementsCashBook, Book!Spec
=============================================================================
