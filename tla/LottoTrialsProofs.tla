------------------------- MODULE LottoTrialsProofs -------------------------
(***************************************************************************)
(* Theorems about LottoTrials.                                             *)
(***************************************************************************)
EXTENDS LottoTrials, TotalsProofs

-----------------------------------------------------------------------------
(* The inductive invariant *)

\* What an account's rows p have at risk, reserve and await.
HeldBy(p) == {t \in Trackers : p[t].status \in Held}
AtRisk(p) == Total([t \in Trackers |-> p[t].debit], HeldBy(p))
Claims(p) == Total([t \in Trackers |-> p[t].sale], {t \in Trackers : p[t].status = "UNSETTLED"})
SpentOn(day, p) ==
  Total([t \in Trackers |-> p[t].debit + ExitFee],
        {t \in Trackers : p[t].entry # None /\ DayOf(p[t].decided) = day})

\* An account of policy pol with rows p and balances c.
Solvent(pol, now, p, c) ==
  /\ SlotsTaken(p) <= pol.slots
  /\ pol.dailyCap # None => SpentOn(DayOf(now), p) <= pol.dailyCap
  /\ c.settled + c.unsettled + AtRisk(p) = pol.cash + c.realized
  /\ c.settled >= ExitFee * Cardinality(HeldBy(p))
  /\ c.unsettled = Claims(p)

\* A position carries the fields of its status only, and decisions about a contract
\* that was found in time; a pending one was decided in its session.
Fit(now, row, p) ==
  /\ p.status \in {"NONE", "SKIPPED", "PENDING_ENTRY"} => p.entry = None /\ p.asked = None
  /\ p.status \notin {"UNSETTLED", "CLOSED"} => p.exit = None
  /\ p.status \in Bought => p.entry # None
  /\ p.status = "NONE" <=> p.decided = None
  /\ p.decided # None =>
       p.decided <= now /\ row.status # "NONE" /\ row.first \in Activated..p.decided
  /\ p.status = "PENDING_ENTRY" => p.decided < Close(DayOf(p.decided)) - EntryLead
  /\ p.entry # None =>
       /\ p.decided < p.entryQuote /\ p.entryQuote \in (p.entry - QuoteAge)..p.entry
       /\ p.entry <= p.decided + EntryDeadline
  /\ p.exit # None =>
       /\ p.asked < p.exitQuote /\ p.exitQuote \in (p.exit - QuoteAge)..p.exit
       /\ p.exit <= p.asked + ExitDeadline
       /\ p.exit < Close(DayOf(p.entry))

\* Nothing of a position is overdue at an instant.
Timely(now, p) ==
  /\ p.status = "PENDING_ENTRY" =>
       now <= p.decided + EntryDeadline /\ now < Close(DayOf(p.decided)) - EntryLead
  /\ p.status = "OPEN" =>
       /\ now < Close(DayOf(p.entry))
       /\ IF p.asked = None THEN now < Close(DayOf(p.entry)) - ExitLead
                            ELSE now <= p.asked + ExitDeadline
  /\ p.status = "UNSETTLED" => now < p.due

\* Two rows of the same contract in accounts of one group.
Paired(p, q) ==
  /\ p.decided = q.decided /\ p.entry = q.entry
  /\ p.entryQuote = q.entryQuote /\ p.debit = q.debit
  /\ p.status = q.status \/ {p.status, q.status} \subseteq Bought

Books(pol) == [pos : [pol.rules -> [Trackers -> Positions]], cash : [pol.rules -> Balances]]
Sound(pol, now, rows, b) ==
  /\ b \in Books(pol)
  /\ \A r \in pol.rules : Solvent(pol, now, b.pos[r], b.cash[r])
  /\ \A r \in pol.rules, t \in Trackers : Fit(now, rows[t], b.pos[r][t])
  /\ \A r \in pol.rules, s \in pol.rules, t \in Trackers : Paired(b.pos[r][t], b.pos[s][t])

Book == [pos |-> pos, cash |-> cash]
LottoInv ==
  /\ TypeOK /\ Sound(policy, clock, tracker, Book)
  /\ \A r \in policy.rules, t \in Trackers : Timely(processed, pos[r][t])
-----------------------------------------------------------------------------
(* Constants *)

\* The fees, ages, deadlines and times are natural numbers.
LEMMA Numbers ==
  /\ EntryFee \in Nat /\ ExitFee \in Nat /\ Slippage \in Nat /\ QuoteAge \in Nat
  /\ EntryDeadline \in Nat /\ ExitDeadline \in Nat /\ EntryLead \in Nat /\ ExitLead \in Nat
  /\ MaxSpread \in Nat /\ Activated \in Nat /\ MaxClock \in Nat /\ LastScanAt \in Nat
  /\ DayTicks \in Nat \ {0} /\ SessionTicks \in 1..DayTicks
  /\ None = -1 /\ None \notin Nat /\ None \in Int
  BY LottoAssumption DEF None

\* The contracts are finitely many natural numbers.
LEMMA TrackersFinite == IsFiniteSet(Trackers) /\ Trackers \subseteq Nat
<1>1. IsFiniteSet(Trackers) /\ Trackers = 1..Cardinality(Trackers)
  BY LottoAssumption
<1>2. Cardinality(Trackers) \in Nat
  BY <1>1, FS_CardinalityType
<1> QED  BY <1>1, <1>2

\* An instant lies in its day.
LEMMA Days ==
  ASSUME NEW t \in Nat
  PROVE  /\ DayOf(t) \in Nat /\ Close(DayOf(t)) \in Nat
         /\ DayOf(t) * DayTicks <= t /\ t < (DayOf(t) + 1) * DayTicks
         /\ SettlementAt(t) \in Nat /\ t < SettlementAt(t)
         /\ Close(DayOf(t)) <= (DayOf(t) + 1) * DayTicks
         /\ InSession(t) <=> t < Close(DayOf(t))
<1>1. DayTicks \in Nat \ {0} /\ SessionTicks \in 1..DayTicks
  BY Numbers
<1> DEFINE d == t \div DayTicks
<1>2. d \in Nat /\ t = d * DayTicks + (t % DayTicks) /\ t % DayTicks \in 0..(DayTicks - 1)
  BY <1>1
<1> HIDE DEF d
<1> DEFINE a == d * DayTicks
           b == (d + 1) * DayTicks
<1>3. a \in Nat /\ b = a + DayTicks
  BY <1>1, <1>2, SMTT(20)
<1>4. DayOf(t) = d
  BY DEF DayOf, d
<1> HIDE DEF a, b
<1>5. a <= t /\ t < b /\ b \in Nat
  BY <1>1, <1>2, <1>3 DEF a
<1>6. Close(DayOf(t)) = a + SessionTicks /\ SettlementAt(t) = b
  BY <1>4 DEF Close, SettlementAt, a, b
<1>7. InSession(t) <=> t - a < SessionTicks
  BY <1>4 DEF InSession, a
<1>8. d * DayTicks = a /\ (d + 1) * DayTicks = b
  BY DEF a, b
<1> QED  BY <1>1, <1>2, <1>3, <1>4, <1>5, <1>6, <1>7, <1>8

\* Two instants before and not before the end of a day.
LEMMA SameDay ==
  ASSUME NEW s \in Nat, NEW t \in Nat, s <= t, t < (DayOf(s) + 1) * DayTicks
  PROVE  DayOf(t) = DayOf(s)
<1> DEFINE d == DayOf(s)
           e == DayOf(t)
<1>1. /\ d \in Nat /\ e \in Nat /\ DayTicks \in Nat \ {0}
      /\ d * DayTicks <= t /\ t < (d + 1) * DayTicks
      /\ e * DayTicks <= t /\ t < (e + 1) * DayTicks
  <2>1. /\ d \in Nat /\ d * DayTicks <= s /\ DayTicks \in Nat \ {0}
    BY Days, Numbers
  <2>2. e \in Nat /\ e * DayTicks <= t /\ t < (e + 1) * DayTicks
    BY Days
  <2> QED  BY <2>1, <2>2
<1> HIDE DEF d, e
<1>2. ~(d < e)
  <2>1. SUFFICES ASSUME d < e PROVE FALSE
    OBVIOUS
  <2>2. (d + 1) * DayTicks <= e * DayTicks
    <3>1. PICK k \in Nat : e = d + 1 + k
      BY <1>1, <2>1
    <3>2. e * DayTicks = (d + 1) * DayTicks + k * DayTicks /\ k * DayTicks \in Nat
      BY <1>1, <3>1
    <3> QED  BY <1>1, <3>2
  <2> QED  BY <1>1, <2>2
<1>3. ~(e < d)
  <2>1. SUFFICES ASSUME e < d PROVE FALSE
    OBVIOUS
  <2>2. (e + 1) * DayTicks <= d * DayTicks
    <3>1. PICK k \in Nat : d = e + 1 + k
      BY <1>1, <2>1
    <3>2. d * DayTicks = (e + 1) * DayTicks + k * DayTicks /\ k * DayTicks \in Nat
      BY <1>1, <3>1
    <3> QED  BY <1>1, <3>2
  <2> QED  BY <1>1, <2>2
<1> QED  BY <1>1, <1>2, <1>3 DEF d, e
-----------------------------------------------------------------------------
(* The ledger of one account *)

RowSet == [Trackers -> Positions]

\* What one position has at risk, claims, and reserves for its close.
RiskOf(p) == IF p.status \in Held THEN p.debit ELSE 0
ClaimOf(p) == IF p.status = "UNSETTLED" THEN p.sale ELSE 0
FeeOf(p) == IF p.status \in Held THEN ExitFee ELSE 0

Buys(p, q) == p.status = "PENDING_ENTRY" /\ q.status = "OPEN"
Legal(p, q) ==
  \/ q.status = p.status /\ q.debit = p.debit /\ q.sale = p.sale
  \/ {p.status, q.status} \subseteq {"NONE", "SKIPPED", "PENDING_ENTRY"}
  \/ p.status = "OPEN" /\ q.status \in {"UNPRICED", "UNSETTLED"} /\ q.debit = p.debit
  \/ p.status = "UNSETTLED" /\ q.status = "CLOSED" /\ q.sale = p.sale
  \/ Buys(p, q)

\* The events of one move balance.
LEMMA OneMove ==
  ASSUME NEW p \in Positions, NEW q \in Positions, Legal(p, q)
  PROVE  /\ Settled(p, q) \in Int /\ Unsettled(p, q) \in Int /\ Realized(p, q) \in Int
         /\ Settled(p, q) + Unsettled(p, q) + RiskOf(q) = RiskOf(p) + Realized(p, q)
         /\ ClaimOf(q) = ClaimOf(p) + Unsettled(p, q)
         /\ ~Buys(p, q) => FeeOf(q) <= Settled(p, q) + FeeOf(p)
<1>1. /\ p.status \in Status /\ q.status \in Status /\ p.debit \in Nat /\ q.debit \in Nat
      /\ p.sale \in Nat /\ q.sale \in Nat /\ ExitFee \in Nat
  BY Numbers DEF Positions
<1>2. CASE q.status = p.status /\ q.debit = p.debit /\ q.sale = p.sale
  BY <1>1, <1>2 DEF Settled, Unsettled, Realized, RiskOf, ClaimOf, FeeOf, Held, Buys
<1>3. CASE {p.status, q.status} \subseteq {"NONE", "SKIPPED", "PENDING_ENTRY"}
  BY <1>1, <1>3 DEF Settled, Unsettled, Realized, RiskOf, ClaimOf, FeeOf, Held, Buys
<1>4. CASE p.status = "OPEN" /\ q.status \in {"UNPRICED", "UNSETTLED"} /\ q.debit = p.debit
  BY <1>1, <1>4 DEF Settled, Unsettled, Realized, RiskOf, ClaimOf, FeeOf, Held, Buys
<1>5. CASE p.status = "UNSETTLED" /\ q.status = "CLOSED" /\ q.sale = p.sale
  BY <1>1, <1>5 DEF Settled, Unsettled, Realized, RiskOf, ClaimOf, FeeOf, Held, Buys
<1>6. CASE Buys(p, q)
  BY <1>1, <1>6 DEF Settled, Unsettled, Realized, RiskOf, ClaimOf, FeeOf, Held, Buys
<1> QED  BY <1>2, <1>3, <1>4, <1>5, <1>6 DEF Legal

\* The quantities of Solvent as sums over all contracts.
LEMMA AsTotals ==
  ASSUME NEW p \in RowSet
  PROVE  /\ AtRisk(p) = Total([t \in Trackers |-> RiskOf(p[t])], Trackers) /\ AtRisk(p) \in Int
         /\ Claims(p) = Total([t \in Trackers |-> ClaimOf(p[t])], Trackers) /\ Claims(p) \in Nat
         /\ ExitFee * Cardinality(HeldBy(p)) = Total([t \in Trackers |-> FeeOf(p[t])], Trackers)
         /\ Cardinality(HeldBy(p)) \in Nat /\ ExitFee * Cardinality(HeldBy(p)) \in Nat
<1>1. \A t \in Trackers : p[t].debit \in Nat /\ p[t].sale \in Nat
  BY DEF RowSet, Positions
<1>2. IsFiniteSet(Trackers) /\ ExitFee \in Nat
  BY TrackersFinite, Numbers
<1> DEFINE H == HeldBy(p)
           U == {t \in Trackers : p[t].status = "UNSETTLED"}
           debit == [t \in Trackers |-> p[t].debit]
           sale == [t \in Trackers |-> p[t].sale]
           fee == [t \in Trackers |-> ExitFee]
           risk == [t \in Trackers |-> RiskOf(p[t])]
           claim == [t \in Trackers |-> ClaimOf(p[t])]
           cost == [t \in Trackers |-> FeeOf(p[t])]
<1>3. H \in SUBSET Trackers /\ U \in SUBSET Trackers
  BY DEF HeldBy
<1>4. \A t \in Trackers : /\ debit[t] \in Int /\ risk[t] = IF t \in H THEN debit[t] ELSE 0
                          /\ sale[t] \in Nat /\ sale[t] \in Int /\ claim[t] = IF t \in U THEN sale[t] ELSE 0
                          /\ fee[t] \in Int /\ fee[t] = ExitFee /\ cost[t] = IF t \in H THEN fee[t] ELSE 0
  BY <1>1, <1>2 DEF HeldBy, RiskOf, ClaimOf, FeeOf
<1>5. AtRisk(p) = Total(debit, H) /\ Claims(p) = Total(sale, U)
  BY DEF AtRisk, Claims
<1> HIDE DEF H, U, debit, sale, fee, risk, claim, cost
<1>6. Total(risk, Trackers) = Total(debit, H) /\ Total(debit, H) \in Int
  <2>1. \A t \in Trackers : debit[t] \in Int /\ risk[t] = IF t \in H THEN debit[t] ELSE 0
    BY <1>4
  <2> QED  BY <1>2, <1>3, <2>1, TotalOf
<1>7. Total(claim, Trackers) = Total(sale, U)
  <2>1. \A t \in Trackers : sale[t] \in Int /\ claim[t] = IF t \in U THEN sale[t] ELSE 0
    BY <1>4
  <2> QED  BY <1>2, <1>3, <2>1, TotalOf
<1>8. Total(cost, Trackers) = Total(fee, H)
  <2>1. \A t \in Trackers : fee[t] \in Int /\ cost[t] = IF t \in H THEN fee[t] ELSE 0
    BY <1>4
  <2> QED  BY <1>2, <1>3, <2>1, TotalOf
<1>9. IsFiniteSet(H) /\ IsFiniteSet(U) /\ Cardinality(H) \in Nat
  BY <1>2, <1>3, FS_Subset, FS_CardinalityType
<1>10. Total(fee, H) = ExitFee * Cardinality(H)
  <2>1. \A t \in H : fee[t] = ExitFee
    BY <1>3, <1>4
  <2> QED  BY <1>2, <1>9, <2>1, TotalConstant
<1>11. Total(sale, U) \in Nat
  <2>1. \A t \in U : sale[t] \in Nat
    BY <1>3, <1>4
  <2> QED  BY <1>9, <2>1, TotalNat
<1>12. ExitFee * Cardinality(H) \in Nat
  BY <1>2, <1>9
<1> QED  BY <1>5, <1>6, <1>7, <1>8, <1>9, <1>10, <1>11, <1>12 DEF H, risk, claim, cost

\* What the events of all moves sum to.
SettledBy(p, q) == Total([t \in Trackers |-> Settled(p[t], q[t])], Trackers)
UnsettledBy(p, q) == Total([t \in Trackers |-> Unsettled(p[t], q[t])], Trackers)
RealizedBy(p, q) == Total([t \in Trackers |-> Realized(p[t], q[t])], Trackers)

\* When an account's rows move, the events of the moves keep its books.
LEMMA MovesBalance ==
  ASSUME NEW p \in RowSet, NEW q \in RowSet, NEW c \in Balances, NEW funds \in Int,
         \A t \in Trackers : Legal(p[t], q[t]),
         NEW d, d.settled = c.settled + SettledBy(p, q),
         d.unsettled = c.unsettled + UnsettledBy(p, q),
         d.realized = c.realized + RealizedBy(p, q),
         c.settled + c.unsettled + AtRisk(p) = funds + c.realized, c.unsettled = Claims(p)
  PROVE  /\ d.settled \in Int /\ d.unsettled \in Nat /\ d.realized \in Int
         /\ d.settled + d.unsettled + AtRisk(q) = funds + d.realized /\ d.unsettled = Claims(q)
         /\ (\A t \in Trackers : ~Buys(p[t], q[t])) /\ c.settled >= ExitFee * Cardinality(HeldBy(p))
              => d.settled >= ExitFee * Cardinality(HeldBy(q))
<1> DEFINE set == [t \in Trackers |-> Settled(p[t], q[t])]
           uns == [t \in Trackers |-> Unsettled(p[t], q[t])]
           rea == [t \in Trackers |-> Realized(p[t], q[t])]
           rp == [t \in Trackers |-> RiskOf(p[t])]
           rq == [t \in Trackers |-> RiskOf(q[t])]
           cp == [t \in Trackers |-> ClaimOf(p[t])]
           cq == [t \in Trackers |-> ClaimOf(q[t])]
           fp == [t \in Trackers |-> FeeOf(p[t])]
           fq == [t \in Trackers |-> FeeOf(q[t])]
           both == [t \in Trackers |-> set[t] + uns[t]]
           end == [t \in Trackers |-> rp[t] + rea[t]]
           fees == [t \in Trackers |-> set[t] + fp[t]]
<1>1. \A t \in Trackers : p[t] \in Positions /\ q[t] \in Positions
  BY DEF RowSet
<1>2. \A t \in Trackers :
        /\ Settled(p[t], q[t]) \in Int /\ Unsettled(p[t], q[t]) \in Int /\ Realized(p[t], q[t]) \in Int
        /\ Settled(p[t], q[t]) + Unsettled(p[t], q[t]) + RiskOf(q[t]) = RiskOf(p[t]) + Realized(p[t], q[t])
        /\ ClaimOf(q[t]) = ClaimOf(p[t]) + Unsettled(p[t], q[t])
        /\ ~Buys(p[t], q[t]) => FeeOf(q[t]) <= Settled(p[t], q[t]) + FeeOf(p[t])
  BY <1>1, OneMove
<1>3. \A t \in Trackers :
        /\ RiskOf(p[t]) \in Int /\ RiskOf(q[t]) \in Int /\ ClaimOf(p[t]) \in Int /\ ClaimOf(q[t]) \in Int
        /\ FeeOf(p[t]) \in Int /\ FeeOf(q[t]) \in Int
  BY <1>1, Numbers DEF RiskOf, ClaimOf, FeeOf, Positions
<1>4. \A t \in Trackers :
        /\ set[t] \in Int /\ uns[t] \in Int /\ rea[t] \in Int /\ rp[t] \in Int /\ rq[t] \in Int
        /\ cp[t] \in Int /\ cq[t] \in Int /\ fp[t] \in Int /\ fq[t] \in Int
        /\ both[t] = set[t] + uns[t] /\ end[t] = rp[t] + rea[t] /\ fees[t] = set[t] + fp[t]
        /\ end[t] = both[t] + rq[t] /\ cq[t] = cp[t] + uns[t]
        /\ ~Buys(p[t], q[t]) => fq[t] <= fees[t]
  BY <1>2, <1>3
<1>5. /\ AtRisk(p) = Total(rp, Trackers) /\ AtRisk(q) = Total(rq, Trackers)
      /\ Claims(p) = Total(cp, Trackers) /\ Claims(q) = Total(cq, Trackers) /\ Claims(q) \in Nat
      /\ ExitFee * Cardinality(HeldBy(p)) = Total(fp, Trackers)
      /\ ExitFee * Cardinality(HeldBy(q)) = Total(fq, Trackers)
  BY AsTotals
<1>6. /\ d.settled = c.settled + Total(set, Trackers) /\ d.unsettled = c.unsettled + Total(uns, Trackers)
      /\ d.realized = c.realized + Total(rea, Trackers)
  BY DEF SettledBy, UnsettledBy, RealizedBy
<1> HIDE DEF set, uns, rea, rp, rq, cp, cq, fp, fq, both, end, fees
<1>7. IsFiniteSet(Trackers)
  BY TrackersFinite
<1>8. /\ Total(set, Trackers) \in Int /\ Total(uns, Trackers) \in Int /\ Total(rea, Trackers) \in Int
      /\ Total(rp, Trackers) \in Int /\ Total(rq, Trackers) \in Int /\ Total(fp, Trackers) \in Int
      /\ Total(fq, Trackers) \in Int
  <2>1. Total(set, Trackers) \in Int /\ Total(uns, Trackers) \in Int /\ Total(rea, Trackers) \in Int
    BY <1>4, <1>7, TotalInt
  <2>2. Total(rp, Trackers) \in Int /\ Total(rq, Trackers) \in Int
    BY <1>4, <1>7, TotalInt
  <2>3. Total(fp, Trackers) \in Int /\ Total(fq, Trackers) \in Int
    BY <1>4, <1>7, TotalInt
  <2> QED  BY <2>1, <2>2, <2>3
<1>9. Total(both, Trackers) = Total(set, Trackers) + Total(uns, Trackers)
  <2>1. \A t \in Trackers : set[t] \in Int /\ uns[t] \in Int /\ both[t] = set[t] + uns[t]
    BY <1>4
  <2> QED  BY <1>7, <2>1, TotalSum
<1>10. Total(end, Trackers) = Total(rp, Trackers) + Total(rea, Trackers)
  <2>1. \A t \in Trackers : rp[t] \in Int /\ rea[t] \in Int /\ end[t] = rp[t] + rea[t]
    BY <1>4
  <2> QED  BY <1>7, <2>1, TotalSum
<1>11. Total(end, Trackers) = Total(both, Trackers) + Total(rq, Trackers)
  <2>1. \A t \in Trackers : both[t] \in Int /\ rq[t] \in Int /\ end[t] = both[t] + rq[t]
    BY <1>4
  <2> QED  BY <1>7, <2>1, TotalSum
<1>12. Total(cq, Trackers) = Total(cp, Trackers) + Total(uns, Trackers)
  <2>1. \A t \in Trackers : cp[t] \in Int /\ uns[t] \in Int /\ cq[t] = cp[t] + uns[t]
    BY <1>4
  <2> QED  BY <1>7, <2>1, TotalSum
<1>13. c.settled \in Int /\ c.unsettled \in Nat /\ c.realized \in Int
  BY DEF Balances
<1>14. /\ d.settled \in Int /\ d.realized \in Int
       /\ d.settled + d.unsettled + AtRisk(q) = funds + d.realized
  BY <1>5, <1>6, <1>8, <1>9, <1>10, <1>11, <1>13
<1>15. d.unsettled = Claims(q) /\ d.unsettled \in Nat
  BY <1>5, <1>6, <1>12, <1>13
<1>16. ASSUME \A t \in Trackers : ~Buys(p[t], q[t]), c.settled >= ExitFee * Cardinality(HeldBy(p))
       PROVE  d.settled >= ExitFee * Cardinality(HeldBy(q))
  <2>1. Total(fees, Trackers) = Total(set, Trackers) + Total(fp, Trackers)
    <3>1. \A t \in Trackers : set[t] \in Int /\ fp[t] \in Int /\ fees[t] = set[t] + fp[t]
      BY <1>4
    <3> QED  BY <1>7, <3>1, TotalSum
  <2>2. Total(fq, Trackers) <= Total(fees, Trackers)
    <3>1. \A t \in Trackers : fq[t] \in Int /\ fees[t] \in Int /\ fq[t] <= fees[t]
      BY <1>4, <1>16
    <3> QED  BY <1>7, <3>1, TotalAtMost
  <2>3. c.settled >= Total(fp, Trackers)
    BY <1>5, <1>16
  <2> QED  BY <1>5, <1>6, <1>8, <1>13, <2>1, <2>2, <2>3
<1> QED  BY <1>14, <1>15, <1>16

\* The day's spending depends on the rows bought that day only.
LEMMA SpentSame ==
  ASSUME NEW p \in RowSet, NEW q \in RowSet, NEW day,
         \A t \in Trackers :
           /\ (q[t].entry # None /\ DayOf(q[t].decided) = day)
                <=> (p[t].entry # None /\ DayOf(p[t].decided) = day)
           /\ p[t].entry # None => q[t].debit = p[t].debit
  PROVE  SpentOn(day, q) = SpentOn(day, p)
<1> DEFINE S == {t \in Trackers : p[t].entry # None /\ DayOf(p[t].decided) = day}
           T == {t \in Trackers : q[t].entry # None /\ DayOf(q[t].decided) = day}
           a == [t \in Trackers |-> p[t].debit + ExitFee]
           b == [t \in Trackers |-> q[t].debit + ExitFee]
<1>1. S = T
  OBVIOUS
<1>2. \A t \in S : a[t] = b[t]
  OBVIOUS
<1>3. IsFiniteSet(S)
  BY TrackersFinite, FS_Subset
<1>4. SpentOn(day, p) = Total(a, S) /\ SpentOn(day, q) = Total(b, T)
  BY DEF SpentOn
<1> HIDE DEF S, T, a, b
<1>5. Total(a, S) = Total(b, S)
  BY <1>2, <1>3, TotalSame
<1> QED  BY <1>1, <1>4, <1>5

\* An account in which no further row became occupied has no more slots taken.
LEMMA SlotsFewer ==
  ASSUME NEW p \in RowSet, NEW q \in RowSet,
         \A t \in Trackers : q[t].status \in Occupied => p[t].status \in Occupied
  PROVE  SlotsTaken(q) <= SlotsTaken(p) /\ SlotsTaken(p) \in Nat /\ SlotsTaken(q) \in Nat
<1> DEFINE S == {t \in Trackers : p[t].status \in Occupied}
           T == {t \in Trackers : q[t].status \in Occupied}
<1>1. IsFiniteSet(S) /\ IsFiniteSet(T) /\ T \subseteq S
  BY TrackersFinite, FS_Subset
<1>2. SlotsTaken(p) = Cardinality(S) /\ SlotsTaken(q) = Cardinality(T)
  BY DEF SlotsTaken
<1> HIDE DEF S, T
<1> QED  BY <1>1, <1>2, FS_Subset, FS_CardinalityType
-----------------------------------------------------------------------------
(* Books *)

\* The fields of the group's policy have their types.
LEMMA PolicyType ==
  ASSUME policy \in Policies
  PROVE  /\ First \in policy.rules /\ policy.rules \subseteq Rules
         /\ policy.slots \in Nat /\ policy.slots > 0 /\ (policy.multi \/ policy.slots = 1)
         /\ policy.cash \in Nat /\ (policy.dailyCap # None => policy.dailyCap \in Nat)
         /\ policy.multi \in BOOLEAN /\ policy.premiumCap \in Nat
<1>1. policy.rules \in (SUBSET Rules) \ {{}}
  BY LottoAssumption
<1>2. policy.slots \in Nat \ {0} /\ policy.cash \in Nat /\ policy.multi \in BOOLEAN
  BY LottoAssumption
<1>3. policy.dailyCap \in Nat \cup {None} /\ policy.premiumCap \in Nat
  BY LottoAssumption
<1>4. policy.multi \/ policy.slots = 1
  BY LottoAssumption
<1>5. First \in policy.rules
  BY <1>1 DEF First
<1> QED  BY <1>1, <1>2, <1>3, <1>4, <1>5

\* What Posted makes of rows and balances, account by account.
LEMMA PostedFields ==
  ASSUME NEW b, NEW rows
  PROVE  /\ Posted(b, rows).pos = rows
         /\ Posted(b, rows).cash =
              [r \in policy.rules |->
                [settled |-> b.cash[r].settled + SettledBy(b.pos[r], rows[r]),
                 unsettled |-> b.cash[r].unsettled + UnsettledBy(b.pos[r], rows[r]),
                 realized |-> b.cash[r].realized + RealizedBy(b.pos[r], rows[r])]]
         /\ Posted(b, rows) = [pos |-> Posted(b, rows).pos, cash |-> Posted(b, rows).cash]
  BY DEF Posted, SettledBy, UnsettledBy, RealizedBy

\* A move that buys nothing and leaves what was bought.
Keeps(p, q) ==
  /\ Legal(p, q) /\ ~Buys(p, q) /\ (q.entry = None <=> p.entry = None)
  /\ p.entry # None => q.debit = p.debit /\ q.decided = p.decided

\* A change of rows without a purchase keeps each account's balances sound.
LEMMA QuietBook ==
  ASSUME policy \in Policies, NEW b \in Books(policy), NEW rows \in [policy.rules -> RowSet], NEW now,
         \A r \in policy.rules : Solvent(policy, now, b.pos[r], b.cash[r]),
         \A r \in policy.rules : SlotsTaken(rows[r]) <= policy.slots,
         \A r \in policy.rules, t \in Trackers : Keeps(b.pos[r][t], rows[r][t])
  PROVE  /\ Posted(b, rows) \in Books(policy) /\ Posted(b, rows).pos = rows
         /\ \A r \in policy.rules : Solvent(policy, now, rows[r], Posted(b, rows).cash[r])
<1> DEFINE c == Posted(b, rows)
<1>1. /\ c.pos = rows /\ c = [pos |-> c.pos, cash |-> c.cash]
      /\ c.cash = [r \in policy.rules |->
                [settled |-> b.cash[r].settled + SettledBy(b.pos[r], rows[r]),
                 unsettled |-> b.cash[r].unsettled + UnsettledBy(b.pos[r], rows[r]),
                 realized |-> b.cash[r].realized + RealizedBy(b.pos[r], rows[r])]]
  BY PostedFields
<1> HIDE DEF c
<1>2. ASSUME NEW r \in policy.rules
      PROVE  c.cash[r] \in Balances /\ Solvent(policy, now, rows[r], c.cash[r])
  <2> DEFINE p == b.pos[r]
             q == rows[r]
             a == b.cash[r]
             d == c.cash[r]
  <2>1. p \in RowSet /\ q \in RowSet /\ a \in Balances
    BY DEF Books, RowSet
  <2>2. \A t \in Trackers : Keeps(p[t], q[t])
    OBVIOUS
  <2>3. /\ d.settled = a.settled + SettledBy(p, q)
        /\ d.unsettled = a.unsettled + UnsettledBy(p, q)
        /\ d.realized = a.realized + RealizedBy(p, q)
        /\ d = [settled |-> d.settled, unsettled |-> d.unsettled, realized |-> d.realized]
    <3>1. d = [settled |-> b.cash[r].settled + SettledBy(b.pos[r], rows[r]),
               unsettled |-> b.cash[r].unsettled + UnsettledBy(b.pos[r], rows[r]),
               realized |-> b.cash[r].realized + RealizedBy(b.pos[r], rows[r])]
      BY <1>1, Zenon
    <3> HIDE DEF d
    <3> QED  BY <3>1
  <2>4. Solvent(policy, now, p, a) /\ SlotsTaken(q) <= policy.slots
    OBVIOUS
  <2> HIDE DEF p, q, a, d
  <2>5. /\ a.settled + a.unsettled + AtRisk(p) = policy.cash + a.realized
        /\ a.unsettled = Claims(p) /\ policy.cash \in Int
        /\ a.settled >= ExitFee * Cardinality(HeldBy(p))
        /\ policy.dailyCap # None => SpentOn(DayOf(now), p) <= policy.dailyCap
    BY <2>4, PolicyType DEF Solvent
  <2>6. (\A t \in Trackers : Legal(p[t], q[t])) /\ (\A t \in Trackers : ~Buys(p[t], q[t]))
    BY <2>2 DEF Keeps
  <2>7. /\ d.settled \in Int /\ d.unsettled \in Nat /\ d.realized \in Int
        /\ d.settled + d.unsettled + AtRisk(q) = policy.cash + d.realized /\ d.unsettled = Claims(q)
        /\ d.settled >= ExitFee * Cardinality(HeldBy(q))
    BY <2>1, <2>3, <2>5, <2>6, MovesBalance
  <2>8. SpentOn(DayOf(now), q) = SpentOn(DayOf(now), p)
    <3>1. \A t \in Trackers :
            /\ (q[t].entry # None /\ DayOf(q[t].decided) = DayOf(now))
                 <=> (p[t].entry # None /\ DayOf(p[t].decided) = DayOf(now))
            /\ p[t].entry # None => q[t].debit = p[t].debit
      BY <2>2 DEF Keeps
    <3> QED  BY <2>1, <3>1, SpentSame
  <2>9. d \in Balances
    BY <2>3, <2>7 DEF Balances
  <2> QED  BY <2>4, <2>5, <2>7, <2>8, <2>9 DEF Solvent, q, d
<1>3. c \in Books(policy)
  <2>1. c.cash \in [policy.rules -> Balances]
    BY <1>1, <1>2
  <2>2. c.pos \in [policy.rules -> [Trackers -> Positions]]
    BY <1>1 DEF RowSet
  <2> QED  BY <1>1, <2>1, <2>2 DEF Books
<1> QED  BY <1>1, <1>2, <1>3 DEF c
-----------------------------------------------------------------------------
(* The exits *)

\* What an exit leaves of a position.
Left(p, q) ==
  /\ q.decided = p.decided /\ q.entry = p.entry /\ q.entryQuote = p.entryQuote /\ q.debit = p.debit
  /\ p.status \in Bought <=> q.status \in Bought
  /\ p.status \notin {"OPEN", "UNSETTLED"} => q = p

\* Watching an open position (peak, trail, request) keeps it fit and in time.
LEMMA WatchedRow ==
  ASSUME clock \in Nat, NEW rule, NEW row \in Rows, NEW p \in Positions, Fit(clock, row, p),
         p.status = "OPEN", p.asked = None, ~Overdue(p), NEW q, q = Watched(rule, p, row)
  PROVE  /\ q \in Positions /\ q.status = "OPEN" /\ q.sale = p.sale /\ q.exit = p.exit
         /\ q.decided = p.decided /\ q.entry = p.entry /\ q.entryQuote = p.entryQuote
         /\ q.debit = p.debit
         /\ q.asked \in {None, clock} /\ (q.asked = None => clock < Close(DayOf(p.entry)) - ExitLead)
<1> DEFINE fresh == FreshPoint(row, p.entry)
           peak == IF fresh THEN MaxOf(p.peak, row.bid) ELSE p.peak
           armed == p.armed \/ (rule = "trail40" /\ fresh /\ peak >= 2 * p.premium)
           hit == fresh /\ \/ rule = "fixed5" /\ row.bid >= 5 * p.premium
                           \/ armed /\ 10 * row.bid <= 6 * peak
           late == clock >= Close(DayOf(p.entry)) - ExitLead
           asked == IF hit \/ late THEN clock ELSE None
<1>1. q = [p EXCEPT !.peak = peak, !.armed = armed, !.asked = asked]
  BY DEF Watched
<1>2. peak \in Nat
  BY DEF MaxOf, Positions, Rows
<1>3. armed \in BOOLEAN
  <2>1. p.armed \in BOOLEAN
    BY DEF Positions
  <2> HIDE DEF fresh, peak
  <2> QED  BY <2>1, Zenon
<1>4. asked \in {None, clock} /\ (asked = None => ~late)
  <2> HIDE DEF hit, late
  <2>1. None # clock
    BY Numbers
  <2> QED  BY <2>1
<1>5. asked \in Stamp
  BY <1>4 DEF Stamp
<1> HIDE DEF peak, armed, asked
<1>6. q \in Positions
  BY <1>1, <1>2, <1>3, <1>5 DEF Positions
<1>7. /\ q.status = p.status /\ q.sale = p.sale /\ q.exit = p.exit /\ q.asked = asked
      /\ q.decided = p.decided /\ q.entry = p.entry /\ q.entryQuote = p.entryQuote /\ q.debit = p.debit
  BY <1>1 DEF Positions
<1>8. ~late => clock < Close(DayOf(p.entry)) - ExitLead
  <2>1. p.entry \in Nat
    BY DEF Fit, Positions, Stamp, Bought
  <2>2. Close(DayOf(p.entry)) \in Nat /\ ExitLead \in Nat
    BY <2>1, Days, Numbers
  <2> QED  BY <2>2
<1> QED  BY <1>4, <1>6, <1>7, <1>8

\* A sale on a quote later than its request keeps the position fit and in time.
LEMMA SoldRow ==
  ASSUME clock \in Nat, NEW row \in Rows, NEW p \in Positions, Fit(clock, row, p),
         p.status = "OPEN", p.asked # None, ~Overdue(p), FreshPoint(row, p.asked + 1),
         NEW q, q = Sold(p, row)
  PROVE  /\ q \in Positions /\ q.status = "UNSETTLED" /\ clock < q.due
         /\ q.decided = p.decided /\ q.entry = p.entry /\ q.entryQuote = p.entryQuote
         /\ q.debit = p.debit /\ q.asked = p.asked /\ q.exit # None
         /\ q.asked < q.exitQuote /\ q.exitQuote \in (q.exit - QuoteAge)..q.exit
         /\ q.exit <= q.asked + ExitDeadline /\ q.exit < Close(DayOf(q.entry))
<1> DEFINE sale == MaxOf(0, row.bid - Slippage)
           due == SettlementAt(clock)
<1>1. q = [p EXCEPT !.status = "UNSETTLED", !.exit = clock, !.exitQuote = row.at,
                    !.sale = sale, !.due = due]
  BY DEF Sold
<1>2. row.bid \in Nat /\ row.at \in Stamp /\ row.at # None
  BY DEF Rows, FreshPoint
<1>3. sale \in Nat /\ due \in Nat /\ clock < due
  BY <1>2, Days, Numbers DEF MaxOf
<1>4. p.asked \in Nat /\ p.entry \in Nat
  BY DEF Fit, Positions, Stamp, Bought
<1>5. clock < Close(DayOf(p.entry)) /\ clock <= p.asked + ExitDeadline
  <2>1. Close(DayOf(p.entry)) \in Nat /\ p.asked + ExitDeadline \in Nat
    BY <1>4, Days, Numbers
  <2> QED  BY <1>4, <2>1 DEF Overdue
<1>6. row.at \in Nat /\ clock - row.at \in 0..QuoteAge /\ row.at >= p.asked + 1
  BY <1>2 DEF FreshPoint, Stamp
<1> HIDE DEF sale, due
<1>7. q \in Positions
  <2>1. clock \in Stamp /\ row.at \in Stamp /\ due \in Stamp /\ sale \in Nat /\ "UNSETTLED" \in Status
    BY <1>2, <1>3 DEF Stamp, Status
  <2> QED  BY <1>1, <2>1 DEF Positions
<1>8. /\ q.status = "UNSETTLED" /\ q.due = due /\ q.asked = p.asked /\ q.exit = clock
      /\ q.exitQuote = row.at
      /\ q.decided = p.decided /\ q.entry = p.entry /\ q.entryQuote = p.entryQuote /\ q.debit = p.debit
  BY <1>1 DEF Positions
<1>9. clock # None /\ QuoteAge \in Nat
  BY Numbers
<1>10. p.asked < row.at /\ row.at \in (clock - QuoteAge)..clock
  BY <1>4, <1>6, <1>9
<1> QED  BY <1>3, <1>5, <1>7, <1>8, <1>9, <1>10

\* One row's exit step: its kinds of change, and that nothing overdue is left.
LEMMA ExitRow ==
  ASSUME clock \in Nat, NEW rule, NEW row \in Rows, NEW p \in Positions, Fit(clock, row, p),
         NEW q, q = Exit(rule, p, row)
  PROVE  /\ q \in Positions /\ Keeps(p, q) /\ Left(p, q) /\ Fit(clock, row, q)
         /\ q.status \in Occupied => p.status \in Occupied
         /\ q.status # "PENDING_ENTRY" => Timely(clock, q)
<1>0. p.status \in Status /\ (p.status = "OPEN" => p.entry \in Nat) /\ p.due \in Int /\ p.asked \in Stamp
  BY Numbers DEF Fit, Positions, Stamp, Bought
<1>1. CASE p.status = "UNSETTLED" /\ clock >= p.due
  <2>1. q = [p EXCEPT !.status = "CLOSED"]
    <3>1. ~InMarket(p)
      BY <1>1 DEF InMarket
    <3> QED  BY <1>1, <3>1 DEF Exit
  <2>2. q \in Positions
    BY <2>1 DEF Positions, Status
  <2>3. q.status = "CLOSED" /\ \A f \in DOMAIN p : f # "status" => q[f] = p[f]
    BY <2>1 DEF Positions
  <2>4. /\ q.decided = p.decided /\ q.entry = p.entry /\ q.entryQuote = p.entryQuote
        /\ q.debit = p.debit /\ q.sale = p.sale /\ q.asked = p.asked /\ q.exit = p.exit
        /\ q.exitQuote = p.exitQuote
    BY <2>1 DEF Positions
  <2>5. Keeps(p, q) /\ Left(p, q) /\ Timely(clock, q) /\ q.status \notin Occupied
    BY <1>1, <2>3, <2>4 DEF Keeps, Legal, Buys, Left, Timely, Bought, Occupied, Held
  <2>6. Fit(clock, row, q)
    BY <1>1, <2>3, <2>4 DEF Fit, Bought
  <2> QED  BY <2>2, <2>5, <2>6
<1>2. CASE p.status = "OPEN" /\ Overdue(p)
  <2>1. q = [p EXCEPT !.status = "UNPRICED"]
    BY <1>2 DEF Exit, InMarket
  <2>2. q \in Positions
    BY <2>1 DEF Positions, Status
  <2>3. /\ q.decided = p.decided /\ q.entry = p.entry /\ q.entryQuote = p.entryQuote
        /\ q.debit = p.debit /\ q.sale = p.sale /\ q.asked = p.asked /\ q.exit = p.exit
        /\ q.exitQuote = p.exitQuote /\ q.status = "UNPRICED"
    BY <2>1 DEF Positions
  <2>4. Keeps(p, q) /\ Left(p, q) /\ Timely(clock, q)
    BY <1>2, <2>3 DEF Keeps, Legal, Buys, Left, Timely, Bought
  <2>5. Fit(clock, row, q)
    BY <1>2, <2>3 DEF Fit, Bought
  <2> QED  BY <1>2, <2>2, <2>4, <2>5 DEF Occupied, Held
<1>3. CASE p.status = "OPEN" /\ ~Overdue(p) /\ p.asked = None
  <2>1. q = Watched(rule, p, row)
    BY <1>3 DEF Exit, InMarket
  <2>2. /\ q \in Positions /\ q.status = "OPEN" /\ q.sale = p.sale /\ q.exit = p.exit
        /\ q.decided = p.decided /\ q.entry = p.entry /\ q.entryQuote = p.entryQuote
        /\ q.debit = p.debit
        /\ q.asked \in {None, clock} /\ (q.asked = None => clock < Close(DayOf(p.entry)) - ExitLead)
    BY <1>3, <2>1, WatchedRow
  <2>3. Close(DayOf(p.entry)) \in Nat /\ clock < Close(DayOf(p.entry))
    <3>1. Close(DayOf(p.entry)) \in Nat
      BY <1>0, <1>3, Days
    <3> QED  BY <1>3, <3>1 DEF Overdue
  <2>4. q.asked # None => clock <= q.asked + ExitDeadline
    BY <2>2, Numbers
  <2>5. Keeps(p, q) /\ Left(p, q)
    BY <1>3, <2>2 DEF Keeps, Legal, Buys, Left, Bought
  <2>6. Timely(clock, q)
    BY <2>2, <2>3, <2>4 DEF Timely
  <2>7. Fit(clock, row, q)
    BY <1>3, <2>2 DEF Fit, Bought
  <2> QED  BY <1>3, <2>2, <2>5, <2>6, <2>7
<1>4. CASE p.status = "OPEN" /\ ~Overdue(p) /\ p.asked # None /\ FreshPoint(row, p.asked + 1)
  <2>1. q = Sold(p, row)
    BY <1>4 DEF Exit, InMarket
  <2>2. /\ q \in Positions /\ q.status = "UNSETTLED" /\ clock < q.due
        /\ q.decided = p.decided /\ q.entry = p.entry /\ q.entryQuote = p.entryQuote
        /\ q.debit = p.debit /\ q.asked = p.asked /\ q.exit # None
        /\ q.asked < q.exitQuote /\ q.exitQuote \in (q.exit - QuoteAge)..q.exit
        /\ q.exit <= q.asked + ExitDeadline /\ q.exit < Close(DayOf(q.entry))
    BY <1>4, <2>1, SoldRow
  <2>3. Keeps(p, q) /\ Left(p, q) /\ Timely(clock, q) /\ q.status \notin Occupied
    BY <1>4, <2>2 DEF Keeps, Legal, Buys, Left, Timely, Bought, Occupied, Held
  <2>4. Fit(clock, row, q)
    BY <1>4, <2>2 DEF Fit, Bought
  <2> QED  BY <2>2, <2>3, <2>4
<1>5. CASE \/ p.status \notin {"OPEN", "UNSETTLED"}
           \/ p.status = "UNSETTLED" /\ ~(clock >= p.due)
           \/ p.status = "OPEN" /\ ~Overdue(p) /\ p.asked # None /\ ~FreshPoint(row, p.asked + 1)
  <2>1. q = p
    BY <1>5 DEF Exit, InMarket
  <2>2. Keeps(p, q) /\ Left(p, q)
    BY <2>1 DEF Keeps, Legal, Buys, Left
  <2>3. p.status = "OPEN" /\ ~Overdue(p) /\ p.asked # None =>
          clock < Close(DayOf(p.entry)) /\ clock <= p.asked + ExitDeadline
    <3>1. p.status = "OPEN" /\ p.asked # None =>
            Close(DayOf(p.entry)) \in Nat /\ p.asked + ExitDeadline \in Nat
      BY <1>0, Days, Numbers DEF Stamp
    <3> QED  BY <3>1 DEF Overdue
  <2>4. q.status # "PENDING_ENTRY" => Timely(clock, q)
    BY <1>0, <1>5, <2>1, <2>3 DEF Timely
  <2> QED  BY <2>1, <2>2, <2>4
<1> QED  BY <1>1, <1>2, <1>3, <1>4, <1>5

\* A pair stays a pair through its accounts' exits.
LEMMA LeftPaired ==
  ASSUME NEW p, NEW q, NEW a, NEW b, Paired(p, q), Left(p, a), Left(q, b)
  PROVE  Paired(a, b)
<1>1. /\ a.decided = b.decided /\ a.entry = b.entry
      /\ a.entryQuote = b.entryQuote /\ a.debit = b.debit
  BY DEF Paired, Left
<1>2. CASE p.status \in Bought /\ q.status \in Bought
  BY <1>1, <1>2 DEF Left, Paired
<1>3. CASE p.status \notin Bought \/ q.status \notin Bought
  <2>1. p.status = q.status /\ p.status \notin Bought /\ q.status \notin Bought
    BY <1>3 DEF Paired
  <2>2. a = p /\ b = q
    BY <2>1 DEF Left, Bought
  <2> QED  BY <2>2
<1> QED  BY <1>2, <1>3

\* The rows and balances of a book have their types.
LEMMA BooksRows ==
  ASSUME NEW pol, NEW b \in Books(pol), NEW r \in pol.rules
  PROVE  /\ b.pos \in [pol.rules -> RowSet] /\ b.pos[r] \in RowSet /\ b.cash[r] \in Balances
         /\ \A t \in Trackers : b.pos[r][t] \in Positions
  BY DEF Books, RowSet

\* The exit pass of all accounts keeps a sound book and leaves nothing overdue in it.
LEMMA ExitsSound ==
  ASSUME policy \in Policies, clock \in Nat, NEW rows \in [Trackers -> Rows],
         NEW b, Sound(policy, clock, rows, b), NEW c, c = AfterExits(b, rows)
  PROVE  /\ Sound(policy, clock, rows, c)
         /\ \A r \in policy.rules, t \in Trackers :
              /\ Left(b.pos[r][t], c.pos[r][t])
              /\ c.pos[r][t].status # "PENDING_ENTRY" => Timely(clock, c.pos[r][t])
<1> DEFINE new == [r \in policy.rules |-> [t \in Trackers |-> Exit(r, b.pos[r][t], rows[t])]]
<1>1. c = Posted(b, new) /\ b \in Books(policy)
  BY DEF AfterExits, Sound
<1>2. ASSUME NEW r \in policy.rules, NEW t \in Trackers
      PROVE  LET p == b.pos[r][t] q == new[r][t] IN
             /\ p \in Positions /\ q \in Positions /\ Keeps(p, q) /\ Left(p, q) /\ Fit(clock, rows[t], q)
             /\ q.status \in Occupied => p.status \in Occupied
             /\ q.status # "PENDING_ENTRY" => Timely(clock, q)
  <2>1. b.pos[r][t] \in Positions /\ rows[t] \in Rows /\ Fit(clock, rows[t], b.pos[r][t])
    BY <1>1, BooksRows DEF Sound
  <2>2. new[r][t] = Exit(r, b.pos[r][t], rows[t])
    OBVIOUS
  <2> HIDE DEF new
  <2> QED  BY <2>1, <2>2, ExitRow
<1>3. new \in [policy.rules -> RowSet]
  <2>1. \A r \in policy.rules : new[r] \in RowSet
    <3> SUFFICES ASSUME NEW r \in policy.rules PROVE new[r] \in RowSet
      OBVIOUS
    <3>1. new[r] = [t \in Trackers |-> new[r][t]]
      OBVIOUS
    <3> HIDE DEF new
    <3> QED  BY <1>2, <3>1 DEF RowSet
  <2>2. new = [r \in policy.rules |-> new[r]]
    OBVIOUS
  <2> HIDE DEF new
  <2> QED  BY <2>1, <2>2
<1> HIDE DEF new
<1>4. \A r \in policy.rules : Solvent(policy, clock, b.pos[r], b.cash[r])
  BY DEF Sound
<1>5. ASSUME NEW r \in policy.rules PROVE SlotsTaken(new[r]) <= policy.slots
  <2>1. b.pos[r] \in RowSet /\ new[r] \in RowSet
    BY <1>1, <1>3, BooksRows
  <2>2. SlotsTaken(new[r]) <= SlotsTaken(b.pos[r]) /\ SlotsTaken(new[r]) \in Nat
        /\ SlotsTaken(b.pos[r]) \in Nat
    BY <1>2, <2>1, SlotsFewer
  <2>3. SlotsTaken(b.pos[r]) <= policy.slots /\ policy.slots \in Nat
    BY <1>4, PolicyType DEF Solvent
  <2> QED  BY <2>2, <2>3
<1>6. \A r \in policy.rules, t \in Trackers : Keeps(b.pos[r][t], new[r][t])
  BY <1>2
<1>7. c \in Books(policy) /\ c.pos = new
      /\ \A r \in policy.rules : Solvent(policy, clock, new[r], c.cash[r])
  BY <1>1, <1>3, <1>4, <1>5, <1>6, QuietBook
<1>8. ASSUME NEW r \in policy.rules, NEW s \in policy.rules, NEW t \in Trackers
      PROVE  Paired(new[r][t], new[s][t])
  <2>1. Paired(b.pos[r][t], b.pos[s][t])
    BY DEF Sound
  <2> QED  BY <1>2, <2>1, LeftPaired
<1>9. Sound(policy, clock, rows, c)
  BY <1>2, <1>7, <1>8 DEF Sound
<1> QED  BY <1>2, <1>7, <1>9
-----------------------------------------------------------------------------
(* One contract considered *)

\* The rows of all accounts after contract t has become q in each.
Changed(b, t, q) == [r \in policy.rules |-> [b.pos[r] EXCEPT ![t] = q[r]]]

\* A book with one contract's rows replaced is typed.
LEMMA ChangedRows ==
  ASSUME NEW b \in Books(policy), NEW t \in Trackers, NEW q \in [policy.rules -> Positions]
  PROVE  /\ Changed(b, t, q) \in [policy.rules -> RowSet]
         /\ \A r \in policy.rules, u \in Trackers :
              Changed(b, t, q)[r][u] = IF u = t THEN q[r] ELSE b.pos[r][u]
  BY DEF Changed, Books, RowSet

\* One changed row takes at most one more slot, and none if it was occupied before.
LEMMA SlotsChanged ==
  ASSUME NEW p \in RowSet, NEW q \in RowSet, NEW t \in Trackers,
         \A u \in Trackers : u # t => q[u] = p[u]
  PROVE  /\ SlotsTaken(p) \in Nat /\ SlotsTaken(q) \in Nat /\ SlotsTaken(q) <= SlotsTaken(p) + 1
         /\ (q[t].status \in Occupied => p[t].status \in Occupied) => SlotsTaken(q) <= SlotsTaken(p)
<1> DEFINE S == {u \in Trackers : p[u].status \in Occupied}
           T == {u \in Trackers : q[u].status \in Occupied}
<1>1. /\ \A u \in Trackers : u # t => (u \in S <=> u \in T)
      /\ S \in SUBSET Trackers /\ T \in SUBSET Trackers
      /\ t \in S <=> p[t].status \in Occupied
      /\ t \in T <=> q[t].status \in Occupied
  OBVIOUS
<1>2. SlotsTaken(p) = Cardinality(S) /\ SlotsTaken(q) = Cardinality(T)
  BY DEF SlotsTaken
<1> HIDE DEF S, T
<1>3. /\ Cardinality(S) \in Nat /\ Cardinality(T) \in Nat
      /\ Cardinality(T) = Cardinality(S) - (IF t \in S THEN 1 ELSE 0) + (IF t \in T THEN 1 ELSE 0)
  <2>1. /\ \A u \in Trackers : u # t => (u \in S <=> u \in T)
        /\ S \in SUBSET Trackers /\ T \in SUBSET Trackers /\ IsFiniteSet(Trackers)
    BY <1>1, TrackersFinite
  <2> QED  BY <2>1, CountMoved
<1> QED  BY <1>1, <1>2, <1>3

\* A sound book stays sound when its accounts' rows of one contract do.
LEMMA OneSound ==
  ASSUME policy \in Policies, NEW rows, NEW b, Sound(policy, clock, rows, b),
         NEW t \in Trackers, NEW q \in [policy.rules -> Positions],
         NEW c \in Books(policy), c.pos = Changed(b, t, q),
         \A r \in policy.rules : Solvent(policy, clock, c.pos[r], c.cash[r]),
         \A r \in policy.rules : Fit(clock, rows[t], q[r]),
         \A r \in policy.rules, s \in policy.rules : Paired(q[r], q[s])
  PROVE  Sound(policy, clock, rows, c)
<1>1. \A r \in policy.rules, u \in Trackers :
        c.pos[r][u] = IF u = t THEN q[r] ELSE b.pos[r][u]
  BY ChangedRows DEF Sound
<1>2. /\ \A r \in policy.rules, u \in Trackers : Fit(clock, rows[u], b.pos[r][u])
      /\ \A r \in policy.rules, s \in policy.rules, u \in Trackers : Paired(b.pos[r][u], b.pos[s][u])
  BY DEF Sound
<1>3. ASSUME NEW r \in policy.rules, NEW u \in Trackers PROVE Fit(clock, rows[u], c.pos[r][u])
  BY <1>1, <1>2, Zenon
<1>4. ASSUME NEW r \in policy.rules, NEW s \in policy.rules, NEW u \in Trackers
      PROVE  Paired(c.pos[r][u], c.pos[s][u])
  <2>1. CASE u = t
    BY <1>1, <2>1
  <2>2. CASE u # t
    BY <1>1, <1>2, <2>2
  <2> QED  BY <2>1, <2>2
<1> QED  BY <1>3, <1>4 DEF Sound

\* A change of one contract's rows without a purchase keeps a sound book.
LEMMA OneQuiet ==
  ASSUME policy \in Policies, NEW rows, NEW b, Sound(policy, clock, rows, b),
         NEW t \in Trackers, NEW q \in [policy.rules -> Positions],
         \A r \in policy.rules :
           /\ Keeps(b.pos[r][t], q[r]) /\ Fit(clock, rows[t], q[r])
           /\ q[r].status \in Occupied =>
                b.pos[r][t].status \in Occupied \/ SlotsTaken(b.pos[r]) < policy.slots,
         \A r \in policy.rules, s \in policy.rules : Paired(q[r], q[s]),
         NEW c, c = Posted(b, Changed(b, t, q))
  PROVE  Sound(policy, clock, rows, c) /\ c.pos = Changed(b, t, q)
<1> DEFINE new == Changed(b, t, q)
<1>1. b \in Books(policy) /\ \A r \in policy.rules : Solvent(policy, clock, b.pos[r], b.cash[r])
  BY DEF Sound
<1>2. /\ new \in [policy.rules -> RowSet]
      /\ \A r \in policy.rules, u \in Trackers : new[r][u] = IF u = t THEN q[r] ELSE b.pos[r][u]
  BY <1>1, ChangedRows
<1>3. c = Posted(b, new)
  OBVIOUS
<1> HIDE DEF new
<1>4. ASSUME NEW r \in policy.rules PROVE SlotsTaken(new[r]) <= policy.slots
  <2>1. b.pos[r] \in RowSet /\ new[r] \in RowSet
    BY <1>1, <1>2, BooksRows
  <2>2. \A u \in Trackers : u # t => new[r][u] = b.pos[r][u]
    BY <1>2
  <2>3. /\ SlotsTaken(b.pos[r]) \in Nat /\ SlotsTaken(new[r]) \in Nat
        /\ SlotsTaken(new[r]) <= SlotsTaken(b.pos[r]) + 1
        /\ (new[r][t].status \in Occupied => b.pos[r][t].status \in Occupied)
             => SlotsTaken(new[r]) <= SlotsTaken(b.pos[r])
    BY <2>1, <2>2, SlotsChanged
  <2>4. SlotsTaken(b.pos[r]) <= policy.slots /\ policy.slots \in Nat
    BY <1>1, PolicyType DEF Solvent
  <2>5. new[r][t] = q[r]
    BY <1>2
  <2> QED  BY <2>3, <2>4, <2>5
<1>5. ASSUME NEW r \in policy.rules, NEW u \in Trackers PROVE Keeps(b.pos[r][u], new[r][u])
  <2>1. CASE u = t
    BY <1>2, <2>1
  <2>2. CASE u # t
    BY <1>2, <2>2 DEF Keeps, Legal, Buys
  <2> QED  BY <2>1, <2>2
<1>6. /\ c \in Books(policy) /\ c.pos = new
      /\ \A r \in policy.rules : Solvent(policy, clock, new[r], c.cash[r])
  <2>1. new \in [policy.rules -> RowSet] /\ b \in Books(policy)
    BY <1>1, <1>2
  <2>2. \A r \in policy.rules : Solvent(policy, clock, b.pos[r], b.cash[r])
    BY <1>1
  <2>3. /\ \A r \in policy.rules : SlotsTaken(new[r]) <= policy.slots
        /\ \A r \in policy.rules, u \in Trackers : Keeps(b.pos[r][u], new[r][u])
    BY <1>4, <1>5
  <2> QED  BY <1>3, <2>1, <2>2, <2>3, QuietBook
<1>7. Sound(policy, clock, rows, c)
  BY <1>6, OneSound DEF new
<1> QED  BY <1>6, <1>7 DEF new

\* What considering contract t does to book b: c.
Touched(b, c, t) ==
  /\ \A r \in policy.rules, u \in Trackers : u # t => c.pos[r][u] = b.pos[r][u]
  /\ \A r \in policy.rules : Timely(clock, c.pos[r][t])

\* A change of one contract's rows touches no other contract.
LEMMA TouchedBy ==
  ASSUME NEW b \in Books(policy), NEW t \in Trackers, NEW q \in [policy.rules -> Positions],
         NEW c, c.pos = Changed(b, t, q), \A r \in policy.rules : Timely(clock, q[r])
  PROVE  Touched(b, c, t)
<1>1. \A r \in policy.rules, u \in Trackers :
        c.pos[r][u] = IF u = t THEN q[r] ELSE b.pos[r][u]
  BY ChangedRows
<1>2. ASSUME NEW r \in policy.rules PROVE Timely(clock, c.pos[r][t])
  BY <1>1
<1> QED  BY <1>1, <1>2 DEF Touched

\* Until a contract is bought, the accounts of the group agree on its row.
LEMMA AllAsFirst ==
  ASSUME policy \in Policies, NEW rows, NEW b, Sound(policy, clock, rows, b), NEW t \in Trackers,
         b.pos[First][t].status \notin Bought
  PROVE  \A r \in policy.rules :
           /\ b.pos[r][t].status = b.pos[First][t].status
           /\ b.pos[r][t].decided = b.pos[First][t].decided
           /\ b.pos[r][t] \in Positions /\ Fit(clock, rows[t], b.pos[r][t])
           /\ b.pos[r][t].entry = None /\ b.pos[r][t].asked = None /\ b.pos[r][t].exit = None
<1> SUFFICES ASSUME NEW r \in policy.rules
             PROVE  /\ b.pos[r][t].status = b.pos[First][t].status
                    /\ b.pos[r][t].decided = b.pos[First][t].decided
                    /\ b.pos[r][t] \in Positions /\ Fit(clock, rows[t], b.pos[r][t])
                    /\ b.pos[r][t].entry = None /\ b.pos[r][t].asked = None
                    /\ b.pos[r][t].exit = None
  OBVIOUS
<1>1. First \in policy.rules
  BY PolicyType
<1>2. Paired(b.pos[r][t], b.pos[First][t]) /\ Fit(clock, rows[t], b.pos[r][t])
  BY <1>1 DEF Sound
<1>3. b.pos[r][t] \in Positions
  BY BooksRows DEF Sound
<1>4. b.pos[r][t].status \in Status
  BY <1>3 DEF Positions
<1>5. b.pos[r][t].status = b.pos[First][t].status /\ b.pos[r][t].decided = b.pos[First][t].decided
  BY <1>2 DEF Paired
<1>6. /\ b.pos[r][t].status \in {"NONE", "SKIPPED", "PENDING_ENTRY"}
      /\ b.pos[r][t].status \notin {"UNSETTLED", "CLOSED"}
  BY <1>4, <1>5 DEF Status, Bought
<1> QED  BY <1>2, <1>3, <1>5, <1>6 DEF Fit

\* Deciding on a new contract keeps a sound book.
LEMMA DecideSound ==
  ASSUME policy \in Policies, clock \in Nat, NEW rows \in [Trackers -> Rows],
         NEW b, Sound(policy, clock, rows, b), NEW t \in Trackers,
         b.pos[First][t].status = "NONE", rows[t].status # "NONE",
         rows[t].first \in Activated..clock, NEW c, c = Decide(b, t, rows[t])
  PROVE  Sound(policy, clock, rows, c) /\ Touched(b, c, t)
<1> DEFINE status == IF Accepted(b, t, rows[t]) THEN "PENDING_ENTRY" ELSE "SKIPPED"
           q == [r \in policy.rules |-> [b.pos[r][t] EXCEPT !.status = status, !.decided = clock]]
<1>1. b \in Books(policy)
  BY DEF Sound
<1>2. c = Posted(b, Changed(b, t, q))
  <2>1. ASSUME NEW r \in policy.rules
        PROVE  [b.pos[r] EXCEPT ![t] = [@ EXCEPT !.status = status, !.decided = clock]]
                 = [b.pos[r] EXCEPT ![t] = q[r]]
    BY <1>1, BooksRows DEF RowSet
  <2>2. [r \in policy.rules |-> [b.pos[r] EXCEPT ![t] = [@ EXCEPT !.status = status, !.decided = clock]]]
          = Changed(b, t, q)
    BY <2>1, Zenon DEF Changed
  <2> QED  BY <2>2, Zenon DEF Decide, Together
<1>3. \A r \in policy.rules :
        /\ b.pos[r][t].status = "NONE" /\ b.pos[r][t] \in Positions
        /\ b.pos[r][t].entry = None /\ b.pos[r][t].asked = None /\ b.pos[r][t].exit = None
  <2>1. b.pos[First][t].status \notin Bought
    BY DEF Bought
  <2> QED  BY <2>1, AllAsFirst
<1>4. status \in {"PENDING_ENTRY", "SKIPPED"}
  OBVIOUS
<1>5. status = "PENDING_ENTRY" =>
        /\ clock < Close(DayOf(clock)) - EntryLead
        /\ \A r \in policy.rules : SlotsTaken(b.pos[r]) < policy.slots
  BY DEF Accepted, AllHaveSlot, Today
<1> HIDE DEF status
<1>6. ASSUME NEW r \in policy.rules
      PROVE  /\ q[r] \in Positions /\ q[r].status = status /\ q[r].decided = clock
             /\ q[r].entry = None /\ q[r].asked = None /\ q[r].exit = None
             /\ q[r].entryQuote = b.pos[r][t].entryQuote /\ q[r].debit = b.pos[r][t].debit
  <2>1. q[r] = [b.pos[r][t] EXCEPT !.status = status, !.decided = clock]
    OBVIOUS
  <2>2. clock \in Stamp /\ status \in Status /\ b.pos[r][t] \in Positions
    BY <1>3, <1>4 DEF Stamp, Status
  <2> HIDE DEF q
  <2> QED  BY <1>3, <2>1, <2>2 DEF Positions
<1> HIDE DEF q
<1>7. ASSUME NEW r \in policy.rules
      PROVE  Keeps(b.pos[r][t], q[r]) /\ Fit(clock, rows[t], q[r]) /\ Timely(clock, q[r])
  <2>1. Keeps(b.pos[r][t], q[r])
    BY <1>3, <1>4, <1>6 DEF Keeps, Legal, Buys
  <2>2. clock # None /\ EntryDeadline \in Nat
    BY Numbers
  <2>3. Fit(clock, rows[t], q[r])
    BY <1>4, <1>5, <1>6, <2>2 DEF Fit, Bought
  <2>4. Timely(clock, q[r])
    BY <1>4, <1>5, <1>6, <2>2 DEF Timely
  <2> QED  BY <2>1, <2>3, <2>4
<1>8. ASSUME NEW r \in policy.rules, NEW s \in policy.rules PROVE Paired(q[r], q[s])
  <2>1. Paired(b.pos[r][t], b.pos[s][t])
    BY DEF Sound
  <2> QED  BY <1>6, <2>1 DEF Paired
<1>9. q \in [policy.rules -> Positions]
  <2>1. q = [r \in policy.rules |-> q[r]]
    BY DEF q
  <2> QED  BY <1>6, <2>1
<1>10. ASSUME NEW r \in policy.rules, q[r].status \in Occupied
       PROVE  SlotsTaken(b.pos[r]) < policy.slots
  BY <1>4, <1>5, <1>6, <1>10 DEF Occupied, Held
<1>11. Sound(policy, clock, rows, c) /\ c.pos = Changed(b, t, q)
  <2>1. \A r \in policy.rules :
           /\ Keeps(b.pos[r][t], q[r]) /\ Fit(clock, rows[t], q[r])
           /\ q[r].status \in Occupied =>
                b.pos[r][t].status \in Occupied \/ SlotsTaken(b.pos[r]) < policy.slots
    BY <1>7, <1>10
  <2> QED  BY <1>2, <1>8, <1>9, <2>1, OneQuiet
<1>12. Touched(b, c, t)
  BY <1>1, <1>7, <1>9, <1>11, TouchedBy
<1> QED  BY <1>11, <1>12

\* Skipping a pending contract keeps a sound book.
LEMMA SkipSound ==
  ASSUME policy \in Policies, clock \in Nat, NEW rows \in [Trackers -> Rows],
         NEW b, Sound(policy, clock, rows, b), NEW t \in Trackers,
         b.pos[First][t].status = "PENDING_ENTRY", NEW c, c = Together(b, t, Skipped)
  PROVE  Sound(policy, clock, rows, c) /\ Touched(b, c, t)
<1> DEFINE q == [r \in policy.rules |-> Skipped(b.pos[r][t])]
<1>1. b \in Books(policy)
  BY DEF Sound
<1>2. c = Posted(b, Changed(b, t, q))
  <2>1. ASSUME NEW r \in policy.rules
        PROVE  [b.pos[r] EXCEPT ![t] = Skipped(@)] = [b.pos[r] EXCEPT ![t] = q[r]]
    BY <1>1, BooksRows DEF RowSet
  <2>2. [r \in policy.rules |-> [b.pos[r] EXCEPT ![t] = Skipped(@)]] = Changed(b, t, q)
    BY <2>1, Zenon DEF Changed
  <2> QED  BY <2>2, Zenon DEF Together
<1>3. \A r \in policy.rules :
        /\ b.pos[r][t].status = "PENDING_ENTRY" /\ b.pos[r][t] \in Positions
        /\ b.pos[r][t].entry = None /\ b.pos[r][t].asked = None /\ b.pos[r][t].exit = None
        /\ Fit(clock, rows[t], b.pos[r][t])
  <2>1. b.pos[First][t].status \notin Bought
    BY DEF Bought
  <2> QED  BY <2>1, AllAsFirst
<1>4. ASSUME NEW r \in policy.rules
      PROVE  /\ q[r] \in Positions /\ q[r].status = "SKIPPED" /\ q[r].decided = b.pos[r][t].decided
             /\ q[r].entry = None /\ q[r].asked = None /\ q[r].exit = None
             /\ q[r].entryQuote = b.pos[r][t].entryQuote /\ q[r].debit = b.pos[r][t].debit
  <2>1. q[r] = [b.pos[r][t] EXCEPT !.status = "SKIPPED"]
    BY DEF Skipped
  <2>2. "SKIPPED" \in Status /\ b.pos[r][t] \in Positions
    BY <1>3 DEF Status
  <2> HIDE DEF q
  <2> QED  BY <1>3, <2>1, <2>2 DEF Positions
<1> HIDE DEF q
<1>5. ASSUME NEW r \in policy.rules
      PROVE  Keeps(b.pos[r][t], q[r]) /\ Fit(clock, rows[t], q[r]) /\ Timely(clock, q[r])
  <2>1. Keeps(b.pos[r][t], q[r])
    BY <1>3, <1>4 DEF Keeps, Legal, Buys
  <2>2. Fit(clock, rows[t], q[r])
    BY <1>3, <1>4 DEF Fit, Bought
  <2>3. Timely(clock, q[r])
    BY <1>4 DEF Timely
  <2> QED  BY <2>1, <2>2, <2>3
<1>6. ASSUME NEW r \in policy.rules, NEW s \in policy.rules PROVE Paired(q[r], q[s])
  <2>1. Paired(b.pos[r][t], b.pos[s][t])
    BY DEF Sound
  <2> QED  BY <1>4, <2>1 DEF Paired
<1>7. q \in [policy.rules -> Positions]
  <2>1. q = [r \in policy.rules |-> q[r]]
    BY DEF q
  <2> QED  BY <1>4, <2>1
<1>8. Sound(policy, clock, rows, c) /\ c.pos = Changed(b, t, q)
  <2>1. \A r \in policy.rules :
           /\ Keeps(b.pos[r][t], q[r]) /\ Fit(clock, rows[t], q[r])
           /\ q[r].status \in Occupied =>
                b.pos[r][t].status \in Occupied \/ SlotsTaken(b.pos[r]) < policy.slots
    BY <1>3, <1>5 DEF Occupied
  <2> QED  BY <1>2, <1>6, <1>7, <2>1, OneQuiet
<1>9. Touched(b, c, t)
  BY <1>1, <1>5, <1>7, <1>8, TouchedBy
<1> QED  BY <1>8, <1>9

\* A decision that may still be filled was taken today.
LEMMA DecidedToday ==
  ASSUME clock \in Nat, NEW row, NEW p \in Positions, Fit(clock, row, p),
         p.status = "PENDING_ENTRY", clock <= p.decided + EntryDeadline
  PROVE  p.decided \in Nat /\ DayOf(p.decided) = DayOf(clock)
<1>1. p.decided \in Nat /\ p.decided <= clock /\ p.decided < Close(DayOf(p.decided)) - EntryLead
  BY DEF Fit, Positions, Stamp
<1> DEFINE d == DayOf(p.decided)
<1>2. d \in Nat /\ DayTicks \in Nat /\ SessionTicks \in Nat /\ EntryLead \in Nat /\ EntryDeadline \in Nat
  BY <1>1, Days, Numbers
<1>3. p.decided < (d * DayTicks + SessionTicks) - EntryLead
  <2>1. Close(DayOf(p.decided)) = d * DayTicks + SessionTicks
    BY Zenon DEF Close
  <2> QED  BY <1>1, <2>1, Zenon
<1> HIDE DEF d
<1>4. (d + 1) * DayTicks = d * DayTicks + DayTicks /\ d * DayTicks \in Nat
  BY <1>2, SMTT(20)
<1>5. EntryDeadline <= EntryLead + DayTicks - SessionTicks
  BY TimesAssumption
<1> DEFINE e == d * DayTicks
<1>6. e \in Nat /\ p.decided < (e + SessionTicks) - EntryLead /\ (d + 1) * DayTicks = e + DayTicks
  BY <1>3, <1>4
<1> HIDE DEF e
<1>7. clock < (d + 1) * DayTicks
  BY <1>1, <1>2, <1>5, <1>6
<1> QED  BY <1>1, <1>7, SameDay DEF d

\* A pending decision that may still be filled is in time.
LEMMA StillPending ==
  ASSUME clock \in Nat, NEW row, NEW p \in Positions, Fit(clock, row, p),
         p.status = "PENDING_ENTRY", ~(clock > p.decided + EntryDeadline),
         ~(clock >= Close(Today) - EntryLead)
  PROVE  /\ Timely(clock, p) /\ p.decided \in Nat /\ DayOf(p.decided) = Today
         /\ clock <= p.decided + EntryDeadline /\ clock < Close(Today) - EntryLead
<1>1. p.decided \in Nat /\ EntryDeadline \in Nat /\ Close(DayOf(clock)) \in Nat /\ EntryLead \in Nat
  BY Days, Numbers DEF Fit, Positions, Stamp
<1>2. clock <= p.decided + EntryDeadline /\ clock < Close(Today) - EntryLead
  BY <1>1 DEF Today
<1>3. DayOf(p.decided) = DayOf(clock)
  BY <1>2, DecidedToday
<1> QED  BY <1>1, <1>2, <1>3 DEF Timely, Today

\* What one purchase does to an account that can pay for it.
LEMMA BuyLedger ==
  ASSUME policy \in Policies, clock \in Nat, NEW p \in RowSet, NEW c \in Balances,
         Solvent(policy, clock, p, c), NEW t \in Trackers, p[t].status = "PENDING_ENTRY",
         p[t].entry = None, NEW n \in Positions, n.status = "OPEN",
         n.entry # None, DayOf(n.decided) = Today,
         c.settled - Reserved(p) >= n.debit + ExitFee,
         policy.dailyCap # None => SpentToday(p) + n.debit + ExitFee <= policy.dailyCap,
         NEW q \in RowSet, \A u \in Trackers : q[u] = IF u = t THEN n ELSE p[u],
         NEW d, d.settled = c.settled + SettledBy(p, q),
         d.unsettled = c.unsettled + UnsettledBy(p, q),
         d.realized = c.realized + RealizedBy(p, q)
  PROVE  /\ Solvent(policy, clock, q, d)
         /\ d.settled \in Int /\ d.unsettled \in Nat /\ d.realized \in Int
<1>1. q \in RowSet /\ \A u \in Trackers : q[u] = IF u = t THEN n ELSE p[u]
  OBVIOUS
<1>2. n.debit \in Nat /\ ExitFee \in Nat /\ c.settled \in Int
  BY Numbers DEF Positions, Balances
<1>3. \A u \in Trackers : Legal(p[u], q[u])
  BY <1>1 DEF Legal, Buys
<1>4. /\ c.settled + c.unsettled + AtRisk(p) = policy.cash + c.realized /\ c.unsettled = Claims(p)
      /\ SlotsTaken(p) <= policy.slots /\ policy.cash \in Int
      /\ c.settled >= ExitFee * Cardinality(HeldBy(p))
  BY PolicyType DEF Solvent
<1>5. /\ d.settled \in Int /\ d.unsettled \in Nat /\ d.realized \in Int
      /\ d.settled + d.unsettled + AtRisk(q) = policy.cash + d.realized /\ d.unsettled = Claims(q)
  <2>1. /\ c.settled + c.unsettled + AtRisk(p) = policy.cash + c.realized /\ c.unsettled = Claims(p)
        /\ q \in RowSet /\ policy.cash \in Int
    BY <1>1, <1>4
  <2>2. /\ d.settled = c.settled + SettledBy(p, q)
        /\ d.unsettled = c.unsettled + UnsettledBy(p, q)
        /\ d.realized = c.realized + RealizedBy(p, q)
    OBVIOUS
  <2> QED  BY <1>3, <2>1, <2>2, MovesBalance
<1>6. SettledBy(p, q) = -n.debit
  <2> DEFINE set == [u \in Trackers |-> Settled(p[u], q[u])]
  <2>1. \A u \in Trackers : set[u] = IF u = t THEN -n.debit ELSE 0
    BY <1>1 DEF Settled
  <2>2. SettledBy(p, q) = Total(set, Trackers)
    BY DEF SettledBy
  <2> HIDE DEF set
  <2>3. \A u \in Trackers : set[u] \in Int /\ set[u] = IF u \in {t} THEN set[u] ELSE 0
    BY <1>2, <2>1
  <2>4. {t} \in SUBSET Trackers /\ IsFiniteSet(Trackers) /\ IsFiniteSet({t}) /\ Cardinality({t}) = 1
    BY TrackersFinite, FS_Singleton
  <2>5. Total(set, Trackers) = Total(set, {t})
    BY <2>3, <2>4, TotalOf
  <2> DEFINE m == -n.debit
  <2>6. set[t] = m /\ m \in Int
    BY <1>2, <2>1
  <2> HIDE DEF m
  <2>7. Total(set, {t}) = m
    <3>1. \A u \in {t} : set[u] \in Int
      BY <2>6
    <3>2. Total(set, {t}) = set[t] + Total(set, {t} \ {t})
      BY <2>4, <3>1, TotalWithout
    <3>3. {t} \ {t} = {}
      OBVIOUS
    <3>4. Total(set, {}) = 0
      BY FS_EmptySet, TotalEquation
    <3>5. Total(set, {t}) = m + 0
      BY <2>6, <3>2, <3>3, <3>4, Zenon
    <3> QED  BY <2>6, <3>5
  <2> QED  BY <2>2, <2>5, <2>7 DEF m
<1>7. /\ Cardinality(HeldBy(p)) \in Nat /\ Cardinality(HeldBy(q)) = Cardinality(HeldBy(p)) + 1
  <2> DEFINE S == HeldBy(p)
             T == HeldBy(q)
  <2>1. /\ S \in SUBSET Trackers /\ T \in SUBSET Trackers
        /\ IsFiniteSet(Trackers) /\ \A u \in Trackers : u # t => (u \in S <=> u \in T)
    BY <1>1, TrackersFinite DEF HeldBy
  <2>2. t \notin S /\ t \in T
    BY <1>1 DEF HeldBy, Held
  <2> HIDE DEF S, T
  <2>3. /\ Cardinality(S) \in Nat
        /\ Cardinality(T) = Cardinality(S) - (IF t \in S THEN 1 ELSE 0) + (IF t \in T THEN 1 ELSE 0)
    BY <2>1, CountMoved
  <2>4. Cardinality(S) \in Nat /\ Cardinality(T) = Cardinality(S) + 1
    BY <2>2, <2>3
  <2> QED  BY <2>4 DEF S, T
<1>8. SlotsTaken(q) <= policy.slots
  <2>1. /\ \A u \in Trackers : u # t => q[u] = p[u]
        /\ q[t].status \in Occupied => p[t].status \in Occupied
    BY <1>1 DEF Occupied
  <2>2. SlotsTaken(q) <= SlotsTaken(p) /\ SlotsTaken(q) \in Nat /\ SlotsTaken(p) \in Nat
    BY <1>1, <2>1, SlotsChanged
  <2> QED  BY <1>4, <2>2, PolicyType
<1>9. d.settled >= ExitFee * Cardinality(HeldBy(q))
  <2> DEFINE k == Cardinality(HeldBy(p))
  <2>1. k \in Nat /\ Cardinality(HeldBy(q)) = k + 1 /\ d.settled = c.settled + (-n.debit)
    BY <1>6, <1>7
  <2>2. CASE policy.multi
    <3>1. Reserved(p) = ExitFee * k
      BY <2>2 DEF Reserved, HeldBy
    <3> HIDE DEF k
    <3>2. ExitFee * (k + 1) = ExitFee * k + ExitFee /\ ExitFee * k \in Nat
      BY <1>2, <2>1
    <3> DEFINE f == ExitFee * k
    <3>3. Reserved(p) = f /\ ExitFee * (k + 1) = f + ExitFee /\ f \in Nat
      BY <3>1, <3>2
    <3> HIDE DEF f
    <3>4. d.settled >= f + ExitFee
      BY <1>2, <2>1, <3>3
    <3> QED  BY <2>1, <3>3, <3>4
  <2>3. CASE ~policy.multi
    <3>1. Reserved(p) = 0 /\ policy.slots = 1
      BY <2>3, PolicyType DEF Reserved
    <3>2. Cardinality(HeldBy(q)) <= SlotsTaken(p) /\ SlotsTaken(p) \in Nat
      <4> DEFINE O == {u \in Trackers : p[u].status \in Occupied}
      <4>1. HeldBy(q) \subseteq O /\ O \subseteq Trackers /\ SlotsTaken(p) = Cardinality(O)
        BY <1>1 DEF HeldBy, Occupied, SlotsTaken
      <4> HIDE DEF O
      <4>2. IsFiniteSet(O)
        BY <4>1, TrackersFinite, FS_Subset
      <4> QED  BY <4>1, <4>2, FS_Subset, FS_CardinalityType
    <3> HIDE DEF k
    <3>3. k + 1 <= 1
      BY <1>4, <2>1, <3>1, <3>2
    <3>4. k = 0 /\ ExitFee * (k + 1) = ExitFee
      BY <1>2, <2>1, <3>3
    <3> QED  BY <1>2, <2>1, <3>1, <3>4
  <2> QED  BY <2>2, <2>3
<1>10. policy.dailyCap # None => SpentOn(DayOf(clock), q) <= policy.dailyCap
  <2> DEFINE S == {u \in Trackers : p[u].entry # None /\ DayOf(p[u].decided) = Today}
             T == {u \in Trackers : q[u].entry # None /\ DayOf(q[u].decided) = Today}
             a == [u \in Trackers |-> p[u].debit + ExitFee]
             b == [u \in Trackers |-> q[u].debit + ExitFee]
  <2>1. SpentToday(p) = Total(a, S) /\ SpentOn(DayOf(clock), q) = Total(b, T)
    BY DEF SpentToday, SpentOn, Today
  <2>2. /\ S \in SUBSET Trackers /\ T \in SUBSET Trackers /\ t \notin S /\ t \in T
        /\ \A u \in Trackers : u # t => (u \in S <=> u \in T)
    BY <1>1
  <2>3. \A u \in Trackers : p[u].debit \in Nat /\ q[u].debit \in Nat
    BY <1>1 DEF RowSet, Positions
  <2>4. /\ \A u \in Trackers : a[u] \in Int /\ b[u] \in Int
        /\ \A u \in Trackers : u # t => a[u] = b[u]
        /\ b[t] = n.debit + ExitFee
    BY <1>1, <1>2, <2>3
  <2> HIDE DEF S, T, a, b
  <2>5. IsFiniteSet(Trackers) /\ \A u \in Trackers : u # t => a[u] = b[u] /\ (u \in S <=> u \in T)
    BY <2>2, <2>4, TrackersFinite
  <2>6. Total(b, T) = Total(a, S) - Part(a, S, t) + Part(b, T, t)
    BY <2>2, <2>4, <2>5, TotalMoved
  <2>7. Part(a, S, t) = 0 /\ Part(b, T, t) = n.debit + ExitFee
    BY <2>2, <2>4 DEF Part
  <2>8. Total(a, S) \in Int
    <3>1. IsFiniteSet(S) /\ \A u \in S : a[u] \in Int
      BY <2>2, <2>4, TrackersFinite, FS_Subset
    <3> QED  BY <3>1, TotalInt
  <2>9. Total(b, T) = Total(a, S) + n.debit + ExitFee
    BY <1>2, <2>6, <2>7, <2>8
  <2> QED  BY <2>1, <2>9
<1> QED  BY <1>5, <1>8, <1>9, <1>10 DEF Solvent

\* A purchase on a quote later than its decision makes a fit position.
LEMMA BoughtRow ==
  ASSUME clock \in Nat, NEW row \in Rows, NEW p \in Positions, Fit(clock, row, p),
         p.status = "PENDING_ENTRY", p.exit = None, p.asked = None,
         ~(clock > p.decided + EntryDeadline), ~(clock >= Close(Today) - EntryLead),
         FreshPoint(row, p.decided + 1), NEW n, n = Buy(p, row)
  PROVE  /\ n \in Positions /\ n.status = "OPEN" /\ n.decided = p.decided /\ n.entry = clock
         /\ n.entryQuote = row.at /\ n.debit = Debit(row) /\ clock # None
         /\ Fit(clock, row, n) /\ Timely(clock, n) /\ DayOf(n.decided) = Today
<1>1. /\ p.decided \in Nat /\ DayOf(p.decided) = Today
      /\ clock <= p.decided + EntryDeadline /\ clock < Close(Today) - EntryLead
  BY StillPending
<1>2. row.at \in Nat /\ clock - row.at \in 0..QuoteAge /\ row.at >= p.decided + 1
  BY DEF FreshPoint, Rows, Stamp
<1>3. /\ clock # None /\ QuoteAge \in Nat /\ EntryLead \in Nat /\ ExitLead \in Nat
      /\ Close(Today) \in Nat /\ EntryFee \in Nat /\ Slippage \in Nat
  BY Numbers, Days DEF Today
<1>4. n = [p EXCEPT !.status = "OPEN", !.entry = clock, !.entryQuote = row.at,
                    !.premium = Premium(row), !.debit = Debit(row), !.peak = row.bid]
  BY DEF Buy
<1>5. /\ Premium(row) \in Nat /\ Debit(row) \in Nat /\ row.bid \in Nat
      /\ clock \in Stamp /\ row.at \in Stamp /\ "OPEN" \in Status
  BY <1>2, <1>3 DEF Premium, Debit, Rows, Stamp, Status
<1>6. /\ n \in Positions /\ n.status = "OPEN" /\ n.decided = p.decided /\ n.entry = clock
      /\ n.entryQuote = row.at /\ n.debit = Debit(row) /\ n.exit = None /\ n.asked = None
  BY <1>4, <1>5 DEF Positions
<1>7. p.decided < row.at /\ row.at \in (clock - QuoteAge)..clock
  BY <1>1, <1>2, <1>3
<1>8. Fit(clock, row, n)
  BY <1>1, <1>3, <1>6, <1>7 DEF Fit, Bought
<1>9. Timely(clock, n)
  <2>1. ExitLead <= EntryLead
    BY TimesAssumption
  <2>2. clock < Close(DayOf(clock)) /\ clock < Close(DayOf(clock)) - ExitLead
    BY <1>1, <1>3, <2>1 DEF Today
  <2> QED  BY <1>6, <2>2 DEF Timely
<1> QED  BY <1>1, <1>3, <1>6, <1>8, <1>9

\* A purchase that every account can pay keeps a sound book.
LEMMA BuySound ==
  ASSUME policy \in Policies, clock \in Nat, NEW rows \in [Trackers -> Rows],
         NEW b, Sound(policy, clock, rows, b), NEW t \in Trackers,
         b.pos[First][t].status = "PENDING_ENTRY",
         ~(clock > b.pos[First][t].decided + EntryDeadline), ~(clock >= Close(Today) - EntryLead),
         FreshPoint(rows[t], b.pos[First][t].decided + 1),
         \A r \in policy.rules : CanPay(b, r, Debit(rows[t])),
         NEW c, c = Together(b, t, LAMBDA q : Buy(q, rows[t]))
  PROVE  Sound(policy, clock, rows, c) /\ Touched(b, c, t)
<1> DEFINE q == [r \in policy.rules |-> Buy(b.pos[r][t], rows[t])]
           new == Changed(b, t, q)
<1>1. b \in Books(policy)
  BY DEF Sound
<1>2. c = Posted(b, new)
  <2>1. ASSUME NEW r \in policy.rules
        PROVE  [b.pos[r] EXCEPT ![t] = Buy(@, rows[t])] = [b.pos[r] EXCEPT ![t] = q[r]]
    BY <1>1, BooksRows DEF RowSet
  <2>2. [r \in policy.rules |-> [b.pos[r] EXCEPT ![t] = Buy(@, rows[t])]] = Changed(b, t, q)
    BY <2>1, Zenon DEF Changed
  <2> QED  BY <2>2, Zenon DEF Together
<1>3. \A r \in policy.rules :
        /\ b.pos[r][t].status = "PENDING_ENTRY" /\ b.pos[r][t] \in Positions
        /\ b.pos[r][t].decided = b.pos[First][t].decided
        /\ b.pos[r][t].entry = None /\ b.pos[r][t].asked = None /\ b.pos[r][t].exit = None
        /\ Fit(clock, rows[t], b.pos[r][t])
  <2>1. b.pos[First][t].status \notin Bought
    BY DEF Bought
  <2> QED  BY <2>1, AllAsFirst
<1>4. ASSUME NEW r \in policy.rules
      PROVE  /\ q[r] \in Positions /\ q[r].status = "OPEN" /\ q[r].decided = b.pos[First][t].decided
             /\ q[r].entry = clock /\ q[r].entryQuote = rows[t].at /\ q[r].debit = Debit(rows[t])
             /\ Fit(clock, rows[t], q[r]) /\ Timely(clock, q[r])
             /\ DayOf(q[r].decided) = Today /\ clock # None
  <2>1. q[r] = Buy(b.pos[r][t], rows[t])
    OBVIOUS
  <2>2. /\ ~(clock > b.pos[r][t].decided + EntryDeadline)
        /\ FreshPoint(rows[t], b.pos[r][t].decided + 1) /\ rows[t] \in Rows
    BY <1>3
  <2> HIDE DEF q
  <2> QED  BY <1>3, <2>1, <2>2, BoughtRow
<1>5. q \in [policy.rules -> Positions]
  <2>1. q = [r \in policy.rules |-> q[r]]
    OBVIOUS
  <2> HIDE DEF q
  <2> QED  BY <1>4, <2>1
<1>6. /\ new \in [policy.rules -> RowSet]
      /\ \A r \in policy.rules, u \in Trackers : new[r][u] = IF u = t THEN q[r] ELSE b.pos[r][u]
  <2> HIDE DEF q
  <2> QED  BY <1>1, <1>5, ChangedRows
<1>7. /\ c.pos = new /\ c = [pos |-> c.pos, cash |-> c.cash]
      /\ c.cash = [r \in policy.rules |->
                [settled |-> b.cash[r].settled + SettledBy(b.pos[r], new[r]),
                 unsettled |-> b.cash[r].unsettled + UnsettledBy(b.pos[r], new[r]),
                 realized |-> b.cash[r].realized + RealizedBy(b.pos[r], new[r])]]
  <2> HIDE DEF new
  <2> QED  BY <1>2, PostedFields
<1> HIDE DEF q, new
<1>8. ASSUME NEW r \in policy.rules
      PROVE  c.cash[r] \in Balances /\ Solvent(policy, clock, new[r], c.cash[r])
  <2> DEFINE p == b.pos[r]
             n == q[r]
             w == new[r]
             a == b.cash[r]
             d == c.cash[r]
  <2>1. /\ p \in RowSet /\ a \in Balances /\ w \in RowSet
        /\ \A u \in Trackers : w[u] = IF u = t THEN n ELSE p[u]
    BY <1>1, <1>6, BooksRows
  <2>2. /\ d.settled = a.settled + SettledBy(p, w)
        /\ d.unsettled = a.unsettled + UnsettledBy(p, w)
        /\ d.realized = a.realized + RealizedBy(p, w)
        /\ d = [settled |-> d.settled, unsettled |-> d.unsettled, realized |-> d.realized]
    <3>1. d = [settled |-> b.cash[r].settled + SettledBy(b.pos[r], new[r]),
               unsettled |-> b.cash[r].unsettled + UnsettledBy(b.pos[r], new[r]),
               realized |-> b.cash[r].realized + RealizedBy(b.pos[r], new[r])]
      BY <1>7, Zenon
    <3> HIDE DEF d
    <3> QED  BY <3>1
  <2>3. Solvent(policy, clock, p, a)
    BY DEF Sound
  <2>4. p[t].status = "PENDING_ENTRY" /\ p[t].entry = None
    BY <1>3
  <2>5. /\ n \in Positions /\ n.status = "OPEN" /\ n.entry # None /\ DayOf(n.decided) = Today
    BY <1>4
  <2>6. /\ a.settled - Reserved(p) >= n.debit + ExitFee
        /\ policy.dailyCap # None => SpentToday(p) + n.debit + ExitFee <= policy.dailyCap
    <3>1. CanPay(b, r, Debit(rows[t])) /\ n.debit = Debit(rows[t])
      BY <1>4
    <3> HIDE DEF n
    <3> QED  BY <3>1 DEF CanPay
  <2> HIDE DEF p, n, w, a, d
  <2>7. Solvent(policy, clock, w, d) /\ d.settled \in Int /\ d.unsettled \in Nat /\ d.realized \in Int
    BY <2>1, <2>2, <2>3, <2>4, <2>5, <2>6, BuyLedger
  <2>8. d \in Balances
    BY <2>2, <2>7 DEF Balances
  <2> QED  BY <2>7, <2>8 DEF w, d
<1>9. c \in Books(policy)
  <2>1. c.cash \in [policy.rules -> Balances]
    BY <1>7, <1>8
  <2>2. c.pos \in [policy.rules -> [Trackers -> Positions]]
    BY <1>6, <1>7 DEF RowSet
  <2> QED  BY <1>7, <2>1, <2>2 DEF Books
<1>10. ASSUME NEW r \in policy.rules, NEW s \in policy.rules PROVE Paired(q[r], q[s])
  BY <1>4 DEF Paired
<1>11. Sound(policy, clock, rows, c)
  <2>1. c.pos = Changed(b, t, q)
    BY <1>7 DEF new
  <2>2. \A r \in policy.rules : Solvent(policy, clock, c.pos[r], c.cash[r])
    BY <1>7, <1>8
  <2>3. \A r \in policy.rules : Fit(clock, rows[t], q[r])
    BY <1>4
  <2> QED  BY <1>5, <1>9, <1>10, <2>1, <2>2, <2>3, OneSound
<1>12. Touched(b, c, t)
  <2>1. c.pos = Changed(b, t, q) /\ \A r \in policy.rules : Timely(clock, q[r])
    BY <1>4, <1>7 DEF new
  <2> QED  BY <1>1, <1>5, <2>1, TouchedBy
<1> QED  BY <1>11, <1>12

\* Filling a pending contract, whatever comes of it, keeps a sound book.
LEMMA FillSound ==
  ASSUME policy \in Policies, clock \in Nat, NEW rows \in [Trackers -> Rows],
         NEW b, Sound(policy, clock, rows, b), NEW t \in Trackers,
         b.pos[First][t].status = "PENDING_ENTRY", NEW c, c = Fill(b, t, rows[t])
  PROVE  Sound(policy, clock, rows, c) /\ Touched(b, c, t)
<1> DEFINE p == b.pos[First][t]
           late == clock > p.decided + EntryDeadline \/ clock >= Close(Today) - EntryLead
           buys == Affordable(rows[t]) /\ \A r \in policy.rules : CanPay(b, r, Debit(rows[t]))
<1>1. c = IF late THEN Together(b, t, Skipped)
          ELSE IF ~FreshPoint(rows[t], p.decided + 1) THEN b
          ELSE IF buys THEN Together(b, t, LAMBDA q : Buy(q, rows[t])) ELSE Together(b, t, Skipped)
  BY DEF Fill
<1>2. CASE c = Together(b, t, Skipped)
  BY <1>2, SkipSound
<1>3. CASE ~late /\ c = b
  <2>1. b.pos[First][t].status \notin Bought
    BY DEF Bought
  <2>2. ASSUME NEW r \in policy.rules PROVE Timely(clock, c.pos[r][t])
    <3>1. /\ b.pos[r][t].status = "PENDING_ENTRY" /\ b.pos[r][t] \in Positions
          /\ b.pos[r][t].decided = p.decided /\ Fit(clock, rows[t], b.pos[r][t])
      BY <2>1, AllAsFirst
    <3>2. ~(clock > b.pos[r][t].decided + EntryDeadline) /\ ~(clock >= Close(Today) - EntryLead)
      BY <1>3, <3>1
    <3>3. Timely(clock, b.pos[r][t])
      BY <3>1, <3>2, StillPending
    <3> QED  BY <1>3, <3>3
  <2> QED  BY <1>3, <2>2 DEF Touched
<1>4. CASE /\ ~late /\ FreshPoint(rows[t], p.decided + 1) /\ buys
           /\ c = Together(b, t, LAMBDA q : Buy(q, rows[t]))
  BY <1>4, BuySound
<1> HIDE DEF late, buys
<1> QED  BY <1>1, <1>2, <1>3, <1>4
-----------------------------------------------------------------------------
(* Contracts considered in turn *)

\* Contracts the accounts may consider.
Eligible(b, rows, t) ==
  \/ b.pos[First][t].status = "PENDING_ENTRY"
  \/ /\ b.pos[First][t].status = "NONE"
     /\ rows[t].status # "NONE" /\ rows[t].first \in Activated..clock

\* One contract's turn keeps a sound book.
LEMMA ConsideredSound ==
  ASSUME policy \in Policies, clock \in Nat, NEW rows \in [Trackers -> Rows],
         NEW b, Sound(policy, clock, rows, b), NEW t \in Trackers, Eligible(b, rows, t),
         NEW c, c = Considered(b, t, rows[t])
  PROVE  Sound(policy, clock, rows, c) /\ Touched(b, c, t)
<1>1. CASE b.pos[First][t].status = "PENDING_ENTRY"
  <2>1. c = Fill(b, t, rows[t])
    BY <1>1 DEF Considered
  <2> QED  BY <1>1, <2>1, FillSound
<1>2. CASE b.pos[First][t].status = "NONE" /\ rows[t].status # "NONE"
           /\ rows[t].first \in Activated..clock
  <2>1. c = Decide(b, t, rows[t])
    BY <1>2 DEF Considered
  <2> QED  BY <1>2, <2>1, DecideSound
<1> QED  BY <1>1, <1>2 DEF Eligible

\* Before is a strict order.
LEMMA BeforeOrder ==
  ASSUME NEW b, NEW rows \in [Trackers -> Rows], \A t \in Trackers : b.pos[First][t] \in Positions,
         NEW t \in Trackers, NEW u \in Trackers, NEW v \in Trackers
  PROVE  /\ ~Before(b, rows, t, t)
         /\ Before(b, rows, t, u) /\ Before(b, rows, u, v) => Before(b, rows, t, v)
<1> DEFINE d(x) == b.pos[First][x].decided
           f(x) == rows[x].first
<1>1. \A x \in Trackers : d(x) \in Int /\ f(x) \in Int /\ x \in Int
  <2>1. \A x \in Trackers : d(x) \in Stamp /\ f(x) \in Stamp
    BY DEF Positions, Rows
  <2>2. \A x \in Stamp : x \in Int
    BY Numbers DEF Stamp
  <2> QED  BY <2>1, <2>2, TrackersFinite
<1>2. \A x \in Trackers, y \in Trackers :
        Before(b, rows, x, y) <=> \/ d(x) < d(y)
                                  \/ d(x) = d(y) /\ f(x) < f(y)
                                  \/ d(x) = d(y) /\ f(x) = f(y) /\ x < y
  BY DEF Before
<1> HIDE DEF d, f
<1> QED  BY <1>1, <1>2

\* Every set of contracts but the empty one has a last contract of its own.
LEMMA LastIn ==
  ASSUME NEW b, NEW rows \in [Trackers -> Rows], \A t \in Trackers : b.pos[First][t] \in Positions,
         NEW S \in SUBSET Trackers, S # {}
  PROVE  Last(b, rows, S) \in S
<1> DEFINE Top(T) == {t \in T : \A u \in T : ~Before(b, rows, t, u)}
           Good == {T \in SUBSET Trackers : T # {} => Top(T) # {}}
<1>1. ASSUME NEW T \in SUBSET Trackers, \A U \in SUBSET T : U # T => U \in Good
      PROVE  T \in Good
  <2> SUFFICES ASSUME T # {} PROVE Top(T) # {}
    OBVIOUS
  <2>1. PICK x \in T : TRUE
    OBVIOUS
  <2>2. T \ {x} \in Good /\ ~Before(b, rows, x, x)
    BY <1>1, BeforeOrder
  <2>3. CASE T \ {x} = {}
    <3>1. x \in Top(T)
      BY <2>1, <2>2, <2>3
    <3> QED  BY <3>1
  <2>4. CASE T \ {x} # {}
    <3>1. PICK m \in T \ {x} : \A u \in T \ {x} : ~Before(b, rows, m, u)
      BY <2>2, <2>4
    <3>2. CASE Before(b, rows, m, x)
      <4>1. ASSUME NEW u \in T, Before(b, rows, x, u) PROVE FALSE
        <5>1. u # x
          BY <2>2, <4>1
        <5>2. Before(b, rows, m, u)
          BY <3>1, <3>2, <4>1, BeforeOrder
        <5> QED  BY <3>1, <5>1, <5>2
      <4>2. x \in Top(T)
        BY <4>1
      <4> QED  BY <4>2
    <3>3. CASE ~Before(b, rows, m, x)
      <4>1. m \in Top(T)
        BY <3>1, <3>3
      <4> QED  BY <4>1
    <3> QED  BY <3>2, <3>3
  <2> QED  BY <2>3, <2>4
<1> HIDE DEF Good
<1>2. SUBSET Trackers \subseteq Good
  BY <1>1, TrackersFinite, SubsetsInduct
<1>3. Top(S) # {}
  BY <1>2 DEF Good
<1> QED  BY <1>3 DEF Last

\* The recursion of InTurn, as a function on the subsets of S.
After(b, rows, f, T) ==
  LET t == Last(b, rows, T) IN Considered(f[T \ {t}], t, rows[t])
Turning(f, b, rows, S) ==
  f = [T \in SUBSET S |-> IF T = {} THEN b ELSE After(b, rows, f, T)]

\* A pass satisfies its recursion on every subset.
LEMMA TurningOver ==
  ASSUME NEW f, NEW b, NEW rows, NEW S, Turning(f, b, rows, S), NEW T \in SUBSET S
  PROVE  f[T] = IF T = {} THEN b ELSE After(b, rows, f, T)
  BY DEF Turning

\* Solutions for two sets agree on their common subsets.
LEMMA TurningsAgree ==
  ASSUME NEW b, NEW rows \in [Trackers -> Rows], \A t \in Trackers : b.pos[First][t] \in Positions,
         NEW S \in SUBSET Trackers, NEW T \in SUBSET S, NEW f, NEW g,
         Turning(f, b, rows, S), Turning(g, b, rows, T)
  PROVE  f[T] = g[T]
<1> DEFINE Good == {U \in SUBSET T : f[U] = g[U]}
<1>1. IsFiniteSet(T)
  BY TrackersFinite, FS_Subset
<1>2. ASSUME NEW U \in SUBSET T, \A V \in SUBSET U : V # U => V \in Good
      PROVE  U \in Good
  <2>1. /\ f[U] = IF U = {} THEN b ELSE After(b, rows, f, U)
        /\ g[U] = IF U = {} THEN b ELSE After(b, rows, g, U)
    BY TurningOver
  <2>2. CASE U = {}
    BY <2>1, <2>2
  <2>3. CASE U # {}
    <3> DEFINE t == Last(b, rows, U)
    <3>1. t \in U
      BY <2>3, LastIn
    <3>2. f[U \ {t}] = g[U \ {t}]
      BY <1>2, <3>1
    <3>3. After(b, rows, f, U) = After(b, rows, g, U)
      BY <3>2 DEF After
    <3> QED  BY <2>1, <2>3, <3>3
  <2> QED  BY <2>2, <2>3
<1> HIDE DEF Good
<1>3. SUBSET T \subseteq Good
  BY <1>1, <1>2, SubsetsInduct
<1> QED  BY <1>3 DEF Good

\* Every set of contracts has a pass over it.
LEMMA TurningExists ==
  ASSUME NEW b, NEW rows \in [Trackers -> Rows], \A t \in Trackers : b.pos[First][t] \in Positions,
         NEW S \in SUBSET Trackers
  PROVE  \E f : Turning(f, b, rows, S)
<1> DEFINE Good == {T \in SUBSET S : \E f : Turning(f, b, rows, T)}
           Sol(T) == CHOOSE f : Turning(f, b, rows, T)
<1>1. ASSUME NEW T \in SUBSET S, \A U \in SUBSET T : U # T => U \in Good
      PROVE  T \in Good
  <2> DEFINE l(U) == Last(b, rows, U)
             rest == T \ {l(T)}
             top == IF T = {} THEN b ELSE Considered(Sol(rest)[rest], l(T), rows[l(T)])
             f == [U \in SUBSET T |-> IF U = T THEN top ELSE Sol(U)[U]]
  <2>1. ASSUME NEW U \in SUBSET T, U # T PROVE Turning(Sol(U), b, rows, U)
    BY <1>1, <2>1
  <2>2. ASSUME NEW U \in SUBSET T
        PROVE  f[U] = IF U = {} THEN b ELSE After(b, rows, f, U)
    <3>1. CASE U = T
      <4>1. T # {} => rest \in SUBSET T /\ rest # T
        BY LastIn
      <4>2. T # {} => f[rest] = Sol(rest)[rest]
        <5> HIDE DEF Sol, rest, top
        <5> QED  BY <4>1
      <4>3. f[T] = top
        <5> HIDE DEF top, Sol
        <5> QED  OBVIOUS
      <4> HIDE DEF f, Sol
      <4> QED  BY <3>1, <4>2, <4>3 DEF After
    <3>2. CASE U # T /\ U = {}
      <4>1. Turning(Sol(U), b, rows, U) /\ f[U] = Sol(U)[U]
        <5>1. Turning(Sol(U), b, rows, U)
          BY <2>1, <3>2
        <5> HIDE DEF Sol, top
        <5> QED  BY <3>2, <5>1
      <4> HIDE DEF f, Sol
      <4>2. Sol(U)[U] = b
        BY <3>2, <4>1, TurningOver
      <4> QED  BY <3>2, <4>1, <4>2
    <3>3. CASE U # T /\ U # {}
      <4> DEFINE V == U \ {l(U)}
      <4>1. l(U) \in U /\ V \in SUBSET U /\ V \in SUBSET T /\ V # T
        BY <3>3, LastIn
      <4> HIDE DEF V
      <4>2. Turning(Sol(U), b, rows, U) /\ Turning(Sol(V), b, rows, V)
        BY <2>1, <3>3, <4>1
      <4>3. f[U] = Sol(U)[U] /\ f[V] = Sol(V)[V]
        <5> HIDE DEF Sol, top
        <5> QED  BY <3>3, <4>1
      <4> HIDE DEF f, Sol
      <4>4. Sol(U)[V] = Sol(V)[V]
        <5>1. U \in SUBSET Trackers /\ V \in SUBSET U
          BY <4>1
        <5>2. Turning(Sol(U), b, rows, U) /\ Turning(Sol(V), b, rows, V)
          BY <4>2
        <5> QED  BY <5>1, <5>2, TurningsAgree
      <4>5. Sol(U)[U] = After(b, rows, Sol(U), U)
        BY <3>3, <4>2, TurningOver
      <4>6. After(b, rows, Sol(U), U) = After(b, rows, f, U)
        BY <4>3, <4>4 DEF After, V
      <4> QED  BY <3>3, <4>3, <4>5, <4>6
    <3> QED  BY <3>1, <3>2, <3>3
  <2>3. f = [U \in SUBSET T |-> f[U]]
    OBVIOUS
  <2> HIDE DEF f
  <2>4. Turning(f, b, rows, T)
    BY <2>2, <2>3 DEF Turning
  <2> QED  BY <2>4
<1> HIDE DEF Good
<1>2. IsFiniteSet(S)
  BY TrackersFinite, FS_Subset
<1>3. SUBSET S \subseteq Good
  BY <1>1, <1>2, SubsetsInduct
<1> QED  BY <1>3 DEF Good

\* InTurn is the last value of a pass over its contracts.
LEMMA InTurnRuns ==
  ASSUME NEW b, NEW rows \in [Trackers -> Rows], \A t \in Trackers : b.pos[First][t] \in Positions,
         NEW S \in SUBSET Trackers
  PROVE  \E f : Turning(f, b, rows, S) /\ InTurn(b, rows, S) = f[S]
<1> DEFINE it == CHOOSE f : f = [T \in SUBSET S |-> IF T = {} THEN b
                   ELSE LET t == Last(b, rows, T) IN Considered(f[T \ {t}], t, rows[t])]
<1>1. InTurn(b, rows, S) = it[S]
  BY DEF InTurn
<1>2. \E f : f = [T \in SUBSET S |-> IF T = {} THEN b
                   ELSE LET t == Last(b, rows, T) IN Considered(f[T \ {t}], t, rows[t])]
  <2>1. PICK f : Turning(f, b, rows, S)
    BY TurningExists
  <2> QED  BY <2>1 DEF Turning, After
<1>3. it = [T \in SUBSET S |-> IF T = {} THEN b
                   ELSE LET t == Last(b, rows, T) IN Considered(it[T \ {t}], t, rows[t])]
  BY <1>2, Zenon
<1> HIDE DEF it
<1>4. Turning(it, b, rows, S)
  BY <1>3 DEF Turning, After
<1> QED  BY <1>1, <1>4

\* A pass over a set of contracts keeps a sound book and touches no other contract.
LEMMA InTurnSound ==
  ASSUME policy \in Policies, clock \in Nat, NEW rows \in [Trackers -> Rows],
         NEW b, Sound(policy, clock, rows, b), NEW S \in SUBSET Trackers,
         \A t \in S : Eligible(b, rows, t), NEW c, c = InTurn(b, rows, S)
  PROVE  /\ Sound(policy, clock, rows, c)
         /\ \A r \in policy.rules, t \in Trackers : t \notin S => c.pos[r][t] = b.pos[r][t]
         /\ \A r \in policy.rules, t \in S : Timely(clock, c.pos[r][t])
<1>0. First \in policy.rules
  BY PolicyType
<1>1. \A t \in Trackers : b.pos[First][t] \in Positions
  BY <1>0, BooksRows DEF Sound
<1>2. PICK f : Turning(f, b, rows, S) /\ c = f[S]
  BY <1>1, InTurnRuns
<1> DEFINE Through(a, T) ==
             /\ Sound(policy, clock, rows, a)
             /\ \A r \in policy.rules, t \in Trackers : t \notin T => a.pos[r][t] = b.pos[r][t]
             /\ \A r \in policy.rules, t \in T : Timely(clock, a.pos[r][t])
           Good == {T \in SUBSET S : Through(f[T], T)}
<1>3. ASSUME NEW T \in SUBSET S, \A U \in SUBSET T : U # T => U \in Good
      PROVE  T \in Good
  <2>1. f[T] = IF T = {} THEN b ELSE After(b, rows, f, T)
    BY <1>2, TurningOver
  <2>2. CASE T = {}
    BY <2>1, <2>2
  <2>3. CASE T # {}
    <3> DEFINE t == Last(b, rows, T)
               a == f[T \ {t}]
    <3>1. t \in T /\ t \in Trackers
      BY <1>1, <2>3, LastIn
    <3> HIDE DEF t
    <3>2. Through(a, T \ {t})
      BY <1>3, <3>1
    <3>3. f[T] = Considered(a, t, rows[t])
      BY <2>1, <2>3 DEF After, t
    <3> HIDE DEF a
    <3>4. a.pos[First][t] = b.pos[First][t]
      BY <1>0, <3>1, <3>2
    <3>5. Eligible(a, rows, t)
      BY <3>1, <3>4 DEF Eligible
    <3>6. Sound(policy, clock, rows, f[T]) /\ Touched(a, f[T], t)
      BY <3>1, <3>2, <3>3, <3>5, ConsideredSound
    <3>7. ASSUME NEW r \in policy.rules, NEW u \in Trackers, u \notin T
          PROVE  f[T].pos[r][u] = b.pos[r][u]
      BY <3>1, <3>2, <3>6, <3>7 DEF Touched
    <3>8. ASSUME NEW r \in policy.rules, NEW u \in T PROVE Timely(clock, f[T].pos[r][u])
      <4>1. CASE u = t
        BY <3>6, <4>1 DEF Touched
      <4>2. CASE u # t
        <5>1. f[T].pos[r][u] = a.pos[r][u]
          BY <3>6, <4>2 DEF Touched
        <5> QED  BY <3>2, <4>2, <5>1
      <4> QED  BY <4>1, <4>2
    <3> QED  BY <3>6, <3>7, <3>8
  <2> QED  BY <2>2, <2>3
<1> HIDE DEF Good
<1>4. IsFiniteSet(S)
  BY TrackersFinite, FS_Subset
<1>5. SUBSET S \subseteq Good
  BY <1>3, <1>4, SubsetsInduct
<1>6. Through(f[S], S)
  BY <1>5 DEF Good
<1> QED  BY <1>2, <1>6
-----------------------------------------------------------------------------
(* Advancing the accounts *)

\* Skipping what is pending after the session keeps a sound book.
LEMMA SessionEndedSound ==
  ASSUME policy \in Policies, clock \in Nat, NEW rows \in [Trackers -> Rows],
         NEW b, Sound(policy, clock, rows, b), NEW c, c = SessionEnded(b)
  PROVE  /\ Sound(policy, clock, rows, c)
         /\ \A r \in policy.rules, t \in Trackers :
              /\ b.pos[r][t].status = "PENDING_ENTRY" => c.pos[r][t].status = "SKIPPED"
              /\ b.pos[r][t].status # "PENDING_ENTRY" => c.pos[r][t] = b.pos[r][t]
<1> DEFINE new == [r \in policy.rules |-> [t \in Trackers |->
                     IF b.pos[r][t].status = "PENDING_ENTRY" THEN Skipped(b.pos[r][t]) ELSE b.pos[r][t]]]
<1>1. c = Posted(b, new) /\ b \in Books(policy)
  BY DEF SessionEnded, Sound
<1>2. ASSUME NEW r \in policy.rules, NEW t \in Trackers
      PROVE  LET p == b.pos[r][t] q == new[r][t] IN
             /\ p \in Positions /\ q \in Positions /\ Keeps(p, q) /\ Fit(clock, rows[t], q)
             /\ q.status \in Occupied => p.status \in Occupied
             /\ p.status = "PENDING_ENTRY" =>
                  /\ q.status = "SKIPPED" /\ q.decided = p.decided /\ q.entry = p.entry
                  /\ q.entryQuote = p.entryQuote /\ q.debit = p.debit
             /\ p.status # "PENDING_ENTRY" => q = p
  <2> DEFINE p == b.pos[r][t]
             q == new[r][t]
  <2>1. p \in Positions /\ Fit(clock, rows[t], p)
    BY <1>1, BooksRows DEF Sound
  <2>2. q = IF p.status = "PENDING_ENTRY" THEN Skipped(p) ELSE p
    OBVIOUS
  <2> HIDE DEF p, q, new
  <2>3. CASE p.status = "PENDING_ENTRY"
    <3>1. /\ q \in Positions /\ q.status = "SKIPPED" /\ q.decided = p.decided /\ q.entry = p.entry
          /\ q.entryQuote = p.entryQuote /\ q.debit = p.debit /\ q.asked = p.asked /\ q.exit = p.exit
      <4>1. q = [p EXCEPT !.status = "SKIPPED"]
        BY <2>2, <2>3 DEF Skipped
      <4>2. "SKIPPED" \in Status
        BY DEF Status
      <4> QED  BY <2>1, <4>1, <4>2 DEF Positions
    <3>2. p.entry = None /\ p.exit = None /\ p.asked = None
      BY <2>1, <2>3 DEF Fit
    <3>3. Keeps(p, q)
      BY <2>3, <3>1, <3>2 DEF Keeps, Legal, Buys
    <3>4. Fit(clock, rows[t], q)
      BY <2>1, <2>3, <3>1, <3>2 DEF Fit, Bought
    <3> QED  BY <2>1, <2>3, <3>1, <3>3, <3>4 DEF Occupied, Held, p, q
  <2>4. CASE p.status # "PENDING_ENTRY"
    <3>1. q = p
      BY <2>2, <2>4
    <3>2. Keeps(p, q)
      BY <3>1, <2>4 DEF Keeps, Legal, Buys
    <3> QED  BY <2>1, <2>4, <3>1, <3>2 DEF p, q
  <2> QED  BY <2>3, <2>4
<1>3. new \in [policy.rules -> RowSet]
  <2>1. \A r \in policy.rules : new[r] \in RowSet
    <3> SUFFICES ASSUME NEW r \in policy.rules PROVE new[r] \in RowSet
      OBVIOUS
    <3>1. new[r] = [t \in Trackers |-> new[r][t]]
      OBVIOUS
    <3> HIDE DEF new
    <3> QED  BY <1>2, <3>1 DEF RowSet
  <2>2. new = [r \in policy.rules |-> new[r]]
    OBVIOUS
  <2> HIDE DEF new
  <2> QED  BY <2>1, <2>2
<1> HIDE DEF new
<1>4. \A r \in policy.rules : Solvent(policy, clock, b.pos[r], b.cash[r])
  BY DEF Sound
<1>5. ASSUME NEW r \in policy.rules PROVE SlotsTaken(new[r]) <= policy.slots
  <2>1. b.pos[r] \in RowSet /\ new[r] \in RowSet
    BY <1>1, <1>3, BooksRows
  <2>2. SlotsTaken(new[r]) <= SlotsTaken(b.pos[r]) /\ SlotsTaken(new[r]) \in Nat
        /\ SlotsTaken(b.pos[r]) \in Nat
    BY <1>2, <2>1, SlotsFewer
  <2>3. SlotsTaken(b.pos[r]) <= policy.slots /\ policy.slots \in Nat
    BY <1>4, PolicyType DEF Solvent
  <2> QED  BY <2>2, <2>3
<1>6. \A r \in policy.rules, t \in Trackers : Keeps(b.pos[r][t], new[r][t])
  BY <1>2
<1>7. c \in Books(policy) /\ c.pos = new
      /\ \A r \in policy.rules : Solvent(policy, clock, new[r], c.cash[r])
  BY <1>1, <1>3, <1>4, <1>5, <1>6, QuietBook
<1>8. ASSUME NEW r \in policy.rules, NEW s \in policy.rules, NEW t \in Trackers
      PROVE  Paired(new[r][t], new[s][t])
  <2>1. Paired(b.pos[r][t], b.pos[s][t])
    BY DEF Sound
  <2>2. CASE b.pos[r][t].status = "PENDING_ENTRY"
    <3>1. b.pos[s][t].status = "PENDING_ENTRY"
      BY <2>1, <2>2 DEF Paired, Bought
    <3> QED  BY <1>2, <2>1, <2>2, <3>1 DEF Paired
  <2>3. CASE b.pos[r][t].status # "PENDING_ENTRY"
    <3>1. b.pos[s][t].status # "PENDING_ENTRY"
      BY <2>1, <2>3 DEF Paired, Bought
    <3> QED  BY <1>2, <2>1, <2>3, <3>1
  <2> QED  BY <2>2, <2>3
<1>9. Sound(policy, clock, rows, c)
  BY <1>2, <1>7, <1>8 DEF Sound
<1> QED  BY <1>2, <1>7, <1>9

\* No row of the accounts is pending where the first account's is not.
LEMMA PendingTogether ==
  ASSUME policy \in Policies, NEW rows, NEW b, Sound(policy, clock, rows, b),
         NEW r \in policy.rules, NEW t \in Trackers, NEW x \in {"NONE", "PENDING_ENTRY"}
  PROVE  b.pos[r][t].status = x <=> b.pos[First][t].status = x
<1>1. Paired(b.pos[r][t], b.pos[First][t])
  BY PolicyType DEF Sound
<1> QED  BY <1>1 DEF Paired, Bought

Missed == {"SKIPPED", "UNPRICED", "CLOSED"}

\* A whole advance, exits and entries, makes a sound book in which nothing is overdue.
LEMMA AdvanceSound ==
  ASSUME policy \in Policies, clock \in Nat, NEW rows \in [Trackers -> Rows],
         Sound(policy, clock, rows, Book), NEW c, c = AfterEntries(AfterExits(Book, rows), rows)
  PROVE  /\ Sound(policy, clock, rows, c)
         /\ \A r \in policy.rules, t \in Trackers :
              /\ Timely(clock, c.pos[r][t])
              /\ pos[r][t].status \in Missed => c.pos[r][t] = pos[r][t]
<1> DEFINE e == AfterExits(Book, rows)
           d == AfterDiscovery(e, rows)
           N == IF Discovers THEN New(rows) ELSE {}
<1>0. First \in policy.rules /\ Book.pos = pos
  BY PolicyType DEF Book
<1>1. /\ Sound(policy, clock, rows, e)
      /\ \A r \in policy.rules, t \in Trackers :
           /\ Left(pos[r][t], e.pos[r][t])
           /\ e.pos[r][t].status # "PENDING_ENTRY" => Timely(clock, e.pos[r][t])
  BY <1>0, ExitsSound
<1> HIDE DEF e
<1>2. /\ N \in SUBSET Trackers /\ \A t \in N : Eligible(e, rows, t) /\ pos[First][t].status = "NONE"
  <2>1. ASSUME NEW t \in New(rows)
        PROVE  t \in Trackers /\ Eligible(e, rows, t) /\ pos[First][t].status = "NONE"
    <3>1. /\ t \in Trackers /\ pos[First][t].status = "NONE" /\ rows[t].status # "NONE"
          /\ rows[t].first \in Activated..clock
      BY DEF New
    <3>2. e.pos[First][t] = pos[First][t]
      BY <1>0, <1>1, <3>1 DEF Left
    <3> QED  BY <3>1, <3>2 DEF Eligible
  <2> QED  BY <2>1
<1>3. /\ Sound(policy, clock, rows, d)
      /\ \A r \in policy.rules, t \in Trackers : t \notin N => d.pos[r][t] = e.pos[r][t]
      /\ \A r \in policy.rules, t \in N : Timely(clock, d.pos[r][t])
  <2>1. CASE Discovers
    <3>1. d = InTurn(e, rows, N)
      BY <2>1 DEF AfterDiscovery
    <3> HIDE DEF d, N
    <3> QED  BY <1>1, <1>2, <3>1, InTurnSound
  <2>2. CASE ~Discovers
    <3>1. d = e /\ N = {}
      BY <2>2 DEF AfterDiscovery
    <3> HIDE DEF d, N
    <3> QED  BY <1>1, <3>1
  <2> QED  BY <2>1, <2>2
<1>4. ASSUME NEW r \in policy.rules, NEW t \in Trackers, pos[r][t].status \in Missed
      PROVE  d.pos[r][t] = pos[r][t] /\ e.pos[r][t] = pos[r][t]
  <2>1. e.pos[r][t] = pos[r][t]
    BY <1>1, <1>4 DEF Left, Missed
  <2>2. pos[First][t].status # "NONE"
    BY <1>0, <1>4, PendingTogether DEF Missed
  <2> HIDE DEF N
  <2>3. t \notin N
    BY <1>2, <2>2
  <2> QED  BY <1>3, <2>1, <2>3
<1>5. c = IF InSession(clock) THEN InTurn(d, rows, Pending(d)) ELSE SessionEnded(e)
  BY DEF AfterEntries, e
<1> HIDE DEF d, N
<1>6. CASE InSession(clock)
  <2> DEFINE P == Pending(d)
  <2>1. P \in SUBSET Trackers /\ \A t \in P : Eligible(d, rows, t) /\ d.pos[First][t].status = "PENDING_ENTRY"
    BY DEF Pending, Eligible
  <2>2. c = InTurn(d, rows, P)
    BY <1>5, <1>6
  <2>3. \A t \in Trackers : t \notin P => d.pos[First][t].status # "PENDING_ENTRY"
    BY DEF Pending
  <2> HIDE DEF P
  <2>4. /\ Sound(policy, clock, rows, c)
        /\ \A r \in policy.rules, t \in Trackers : t \notin P => c.pos[r][t] = d.pos[r][t]
        /\ \A r \in policy.rules, t \in P : Timely(clock, c.pos[r][t])
    BY <1>3, <2>1, <2>2, InTurnSound
  <2>5. ASSUME NEW r \in policy.rules, NEW t \in Trackers PROVE Timely(clock, c.pos[r][t])
    <3>1. CASE t \in P
      BY <2>4, <3>1
    <3>2. CASE t \notin P /\ t \in N
      BY <1>3, <2>4, <3>2
    <3>3. CASE t \notin P /\ t \notin N
      <4>1. d.pos[r][t].status # "PENDING_ENTRY"
        BY <1>3, <2>3, <3>3, PendingTogether
      <4> QED  BY <1>1, <1>3, <2>4, <3>3, <4>1
    <3> QED  BY <3>1, <3>2, <3>3
  <2>6. ASSUME NEW r \in policy.rules, NEW t \in Trackers, pos[r][t].status \in Missed
        PROVE  c.pos[r][t] = pos[r][t]
    <3>1. d.pos[r][t] = pos[r][t]
      BY <1>4, <2>6
    <3>2. d.pos[r][t].status # "PENDING_ENTRY"
      BY <2>6, <3>1 DEF Missed
    <3>3. t \notin P
      BY <1>3, <2>1, <3>2, PendingTogether
    <3> QED  BY <2>4, <3>1, <3>3
  <2> QED  BY <2>4, <2>5, <2>6
<1>7. CASE ~InSession(clock)
  <2>1. c = SessionEnded(e)
    BY <1>5, <1>7
  <2>2. /\ Sound(policy, clock, rows, c)
        /\ \A r \in policy.rules, t \in Trackers :
              /\ e.pos[r][t].status = "PENDING_ENTRY" => c.pos[r][t].status = "SKIPPED"
              /\ e.pos[r][t].status # "PENDING_ENTRY" => c.pos[r][t] = e.pos[r][t]
    BY <1>1, <2>1, SessionEndedSound
  <2>3. ASSUME NEW r \in policy.rules, NEW t \in Trackers PROVE Timely(clock, c.pos[r][t])
    <3>1. CASE e.pos[r][t].status # "PENDING_ENTRY"
      BY <1>1, <2>2, <3>1
    <3>2. CASE e.pos[r][t].status = "PENDING_ENTRY"
      <4>1. c.pos[r][t].status = "SKIPPED"
        BY <2>2, <3>2
      <4> QED  BY <4>1 DEF Timely
    <3> QED  BY <3>1, <3>2
  <2>4. ASSUME NEW r \in policy.rules, NEW t \in Trackers, pos[r][t].status \in Missed
        PROVE  c.pos[r][t] = pos[r][t]
    <3>1. e.pos[r][t] = pos[r][t]
      BY <1>4, <2>4
    <3>2. e.pos[r][t].status # "PENDING_ENTRY"
      BY <2>4, <3>1 DEF Missed
    <3> QED  BY <2>2, <3>1, <3>2
  <2> QED  BY <2>2, <2>3, <2>4
<1> QED  BY <1>6, <1>7
-----------------------------------------------------------------------------
(* The trackers *)

\* What stays of the trackers, whatever happens to them.
RowsKept(old, new) ==
  \A t \in Trackers :
    /\ old[t].status # "NONE" => new[t].status # "NONE" /\ new[t].first = old[t].first
    /\ old[t].status = "CLOSED" => new[t].status = "CLOSED" /\ new[t].at \in {old[t].at, None}

\* A book stays sound when the trackers change but are not forgotten.
LEMMA SoundKept ==
  ASSUME NEW pol, NEW now, NEW old, NEW new, NEW b, Sound(pol, now, old, b), RowsKept(old, new)
  PROVE  Sound(pol, now, new, b)
<1>1. ASSUME NEW r \in pol.rules, NEW t \in Trackers PROVE Fit(now, new[t], b.pos[r][t])
  <2>1. Fit(now, old[t], b.pos[r][t])
    BY DEF Sound
  <2>2. old[t].status # "NONE" => new[t].status # "NONE" /\ new[t].first = old[t].first
    BY DEF RowsKept
  <2> QED  BY <2>1, <2>2 DEF Fit
<1> QED  BY <1>1 DEF Sound

\* Closing trackers keeps when they were found.
LEMMA ClosedRows ==
  ASSUME NEW old \in [Trackers -> Rows], NEW now, NEW new, new = Closed(old, now)
  PROVE  /\ new \in [Trackers -> Rows] /\ RowsKept(old, new)
         /\ \A t \in Trackers : old[t].status # "ACTIVE" => new[t] = old[t]
<1>1. ASSUME NEW t \in Trackers
      PROVE  /\ new[t] \in Rows /\ new[t] \in {old[t], [old[t] EXCEPT !.status = "CLOSED"]}
             /\ old[t].status # "ACTIVE" => new[t] = old[t]
  <2>1. /\ new[t] \in {old[t], [old[t] EXCEPT !.status = "CLOSED"]}
        /\ old[t].status # "ACTIVE" => new[t] = old[t]
    BY DEF Closed
  <2>2. old[t] \in Rows
    OBVIOUS
  <2>3. [old[t] EXCEPT !.status = "CLOSED"] \in Rows
    BY <2>2 DEF Rows
  <2> QED  BY <2>1, <2>2, <2>3
<1>2. new \in [Trackers -> Rows]
  <2>1. new = [t \in Trackers |-> new[t]]
    BY DEF Closed
  <2> QED  BY <1>1, <2>1
<1>3. ASSUME NEW t \in Trackers
      PROVE  /\ old[t].status # "NONE" => new[t].status # "NONE" /\ new[t].first = old[t].first
             /\ old[t].status = "CLOSED" => new[t].status = "CLOSED" /\ new[t].at \in {old[t].at, None}
  <2>1. old[t] \in Rows
    OBVIOUS
  <2>2. CASE new[t] = old[t]
    BY <2>2
  <2>3. CASE new[t] = [old[t] EXCEPT !.status = "CLOSED"] /\ old[t].status = "ACTIVE"
    BY <2>1, <2>3 DEF Rows
  <2> QED  BY <1>1, <2>2, <2>3
<1> QED  BY <1>1, <1>2, <1>3 DEF RowsKept

\* A scan's tracking keeps when known contracts were found, and a closed one gets no quote.
LEMMA TrackedRows ==
  ASSUME tracker \in [Trackers -> Rows], clock \in Nat, NEW observed \in 0..clock, NEW found,
         NEW market \in Markets, NEW age \in Nat, age <= clock,
         NEW new, new = Tracked(observed, found, market, age)
  PROVE  new \in [Trackers -> Rows] /\ RowsKept(tracker, new)
<1> DEFINE closed == Closed(tracker, observed)
           row(t) == IF closed[t].status = "NONE" /\ t \in found THEN NewTracker(observed)
                     ELSE [closed[t] EXCEPT !.saved = @ /\ observed = evaluated]
           quoted(t) == /\ row(t).status = "ACTIVE" /\ DayOf(row(t).first) = DayOf(observed)
                        /\ market[t] # NoQuote
<1>1. closed \in [Trackers -> Rows] /\ RowsKept(tracker, closed)
  BY ClosedRows
<1>2. new = [t \in Trackers |-> IF quoted(t) THEN Recorded(row(t), market[t], age) ELSE row(t)]
  BY DEF Tracked
<1> HIDE DEF closed
<1>3. ASSUME NEW t \in Trackers
      PROVE  /\ row(t) \in Rows
             /\ closed[t].status # "NONE" => /\ row(t).status = closed[t].status
                                             /\ row(t).first = closed[t].first
                                             /\ row(t).at = closed[t].at
  <2>1. closed[t] \in Rows
    BY <1>1
  <2>2. CASE closed[t].status = "NONE" /\ t \in found
    <3>1. row(t) = [status |-> "ACTIVE", first |-> observed, saved |-> FALSE,
                    at |-> None, bid |-> 0, ask |-> 1]
      BY <2>2 DEF NewTracker, Untracked
    <3>2. observed \in Stamp /\ None \in Stamp
      BY DEF Stamp
    <3> HIDE DEF row
    <3> QED  BY <2>2, <3>1, <3>2 DEF Rows
  <2>3. CASE ~(closed[t].status = "NONE" /\ t \in found)
    <3> DEFINE saved == closed[t].saved /\ observed = evaluated
    <3>1. row(t) = [closed[t] EXCEPT !.saved = saved]
      BY <2>1, <2>3 DEF Rows
    <3>2. saved \in BOOLEAN
      BY Zenon
    <3> HIDE DEF row, saved
    <3> QED  BY <2>1, <3>1, <3>2 DEF Rows
  <2> QED  BY <2>2, <2>3
<1> HIDE DEF row
<1>4. ASSUME NEW t \in Trackers
      PROVE  /\ new[t] \in Rows /\ new[t].status = row(t).status /\ new[t].first = row(t).first
             /\ row(t).status # "ACTIVE" => new[t] = row(t)
  <2>1. new[t] = IF quoted(t) THEN Recorded(row(t), market[t], age) ELSE row(t)
    BY <1>2
  <2>2. quoted(t) => row(t).status = "ACTIVE"
    OBVIOUS
  <2>3. row(t) \in Rows
    BY <1>3
  <2>4. Recorded(row(t), market[t], age) \in Rows
        /\ Recorded(row(t), market[t], age).status = row(t).status
        /\ Recorded(row(t), market[t], age).first = row(t).first
    <3>1. market[t].bid \in Nat /\ market[t].ask \in Nat
      BY LottoAssumption
    <3>2. clock - age \in Stamp
      BY DEF Stamp
    <3>3. CASE row(t).saved
      BY <2>3, <3>3 DEF Recorded
    <3>4. CASE ~row(t).saved
      <4>1. Recorded(row(t), market[t], age)
              = [row(t) EXCEPT !.saved = TRUE, !.at = clock - age, !.bid = market[t].bid, !.ask = market[t].ask]
        BY <3>4 DEF Recorded
      <4> QED  BY <2>3, <3>1, <3>2, <4>1 DEF Rows
    <3> QED  BY <3>3, <3>4
  <2> HIDE DEF quoted
  <2> QED  BY <2>1, <2>2, <2>3, <2>4
<1>5. new \in [Trackers -> Rows]
  <2>1. new = [t \in Trackers |-> new[t]]
    <3> HIDE DEF quoted
    <3> QED  BY <1>2
  <2> QED  BY <1>4, <2>1
<1>6. ASSUME NEW t \in Trackers
      PROVE  /\ tracker[t].status # "NONE" => new[t].status # "NONE" /\ new[t].first = tracker[t].first
             /\ tracker[t].status = "CLOSED" =>
                  new[t].status = "CLOSED" /\ new[t].at \in {tracker[t].at, None}
  <2>1. /\ tracker[t].status # "NONE" => closed[t].status # "NONE" /\ closed[t].first = tracker[t].first
        /\ tracker[t].status = "CLOSED" =>
             closed[t].status = "CLOSED" /\ closed[t].at \in {tracker[t].at, None}
    BY <1>1 DEF RowsKept
  <2> QED  BY <1>3, <1>4, <2>1
<1> QED  BY <1>5, <1>6 DEF RowsKept

\* Forgetting an old quote keeps when the contract was found.
LEMMA AgedRows ==
  ASSUME tracker \in [Trackers -> Rows], NEW new, new = [t \in Trackers |-> Aged(tracker[t])]
  PROVE  new \in [Trackers -> Rows] /\ RowsKept(tracker, new)
<1>1. ASSUME NEW t \in Trackers
      PROVE  /\ new[t] \in Rows /\ new[t].status = tracker[t].status /\ new[t].first = tracker[t].first
             /\ new[t].at \in {tracker[t].at, None}
  <2>1. tracker[t] \in Rows /\ new[t] = Aged(tracker[t])
    OBVIOUS
  <2>2. new[t] \in {tracker[t], [tracker[t] EXCEPT !.at = None, !.bid = 0, !.ask = 1]}
    BY <2>1 DEF Aged
  <2>3. CASE new[t] = tracker[t]
    BY <2>1, <2>3
  <2>4. CASE new[t] = [tracker[t] EXCEPT !.at = None, !.bid = 0, !.ask = 1]
    <3>1. None \in Stamp
      BY DEF Stamp
    <3> DEFINE old == tracker[t]
               now == new[t]
    <3>2. old \in Rows /\ now = [old EXCEPT !.at = None, !.bid = 0, !.ask = 1]
      BY <2>1, <2>4
    <3> HIDE DEF old, now
    <3>3. now \in Rows /\ now.status = old.status /\ now.first = old.first /\ now.at = None
      BY <3>1, <3>2 DEF Rows
    <3> QED  BY <3>3 DEF old, now
  <2> QED  BY <2>2, <2>3, <2>4
<1>2. new \in [Trackers -> Rows]
  BY <1>1
<1> QED  BY <1>1, <1>2 DEF RowsKept
-----------------------------------------------------------------------------
(* The steps *)

\* A step that advances the accounts keeps the invariant and what was missed.
LEMMA AdvanceStep ==
  ASSUME LottoInv, NEW rows \in [Trackers -> Rows], RowsKept(tracker, rows), Advance(rows),
         UNCHANGED <<clock, policy>>
  PROVE  /\ Sound(policy', clock', rows, Book')
         /\ \A r \in policy.rules, t \in Trackers :
              /\ Timely(processed', pos'[r][t])
              /\ pos[r][t].status \in Missed => pos'[r][t] = pos[r][t]
         /\ processed' \in 0..clock'
         /\ pos' \in [policy'.rules -> [Trackers -> Positions]]
         /\ cash' \in [policy'.rules -> Balances]
<1> DEFINE c == AfterEntries(AfterExits(Book, rows), rows)
<1>1. policy \in Policies /\ clock \in Nat /\ Sound(policy, clock, tracker, Book)
  BY DEF LottoInv, TypeOK
<1>2. Sound(policy, clock, rows, Book)
  BY <1>1, SoundKept
<1>3. pos' = c.pos /\ cash' = c.cash /\ processed' = clock
  BY DEF Advance, Book
<1> HIDE DEF c
<1>4. /\ Sound(policy, clock, rows, c)
      /\ \A r \in policy.rules, t \in Trackers :
           /\ Timely(clock, c.pos[r][t])
           /\ pos[r][t].status \in Missed => c.pos[r][t] = pos[r][t]
  BY <1>1, <1>2, AdvanceSound DEF c
<1>5. c \in Books(policy)
  BY <1>4 DEF Sound
<1>6. c = [pos |-> c.pos, cash |-> c.cash] /\ c.pos \in [policy.rules -> [Trackers -> Positions]]
      /\ c.cash \in [policy.rules -> Balances]
  BY <1>5 DEF Books
<1>7. Book' = c
  BY <1>3, <1>6 DEF Book
<1>8. processed' \in 0..clock'
  BY <1>1, <1>3
<1> QED  BY <1>3, <1>4, <1>6, <1>7, <1>8

\* A scan keeps the invariant.
LEMMA ScanStep ==
  ASSUME LottoInv, NEW lag \in Lags, NEW age \in Ages, NEW market \in Markets,
         NEW found \in SUBSET Unknown, Scan(lag, found, market, age)
  PROVE  /\ LottoInv' /\ RowsKept(tracker, tracker')
         /\ \A r \in policy.rules, t \in Trackers :
              pos[r][t].status \in Missed => pos'[r][t] = pos[r][t]
<1> DEFINE rows == Tracked(clock - lag, found, market, age)
<1>1. /\ clock \in Nat /\ evaluated \in 0..clock /\ policy \in Policies /\ multi \in BOOLEAN
      /\ tracker \in [Trackers -> Rows]
  BY DEF LottoInv, TypeOK
<1>2. /\ age <= clock /\ clock - lag >= evaluated /\ evaluated' = clock - lag /\ Advance(rows)
      /\ tracker' = rows /\ clock' = clock /\ policy' = policy /\ multi' = multi
  BY DEF Scan
<1>3. lag \in Nat /\ age \in Nat
  BY LottoAssumption
<1>4. clock - lag \in 0..clock
  BY <1>1, <1>2, <1>3
<1>5. rows \in [Trackers -> Rows] /\ RowsKept(tracker, rows)
  BY <1>1, <1>2, <1>3, <1>4, TrackedRows
<1> HIDE DEF rows
<1>6. /\ Sound(policy', clock', rows, Book')
      /\ \A r \in policy.rules, t \in Trackers :
           /\ Timely(processed', pos'[r][t])
           /\ pos[r][t].status \in Missed => pos'[r][t] = pos[r][t]
      /\ processed' \in 0..clock'
      /\ pos' \in [policy'.rules -> [Trackers -> Positions]]
      /\ cash' \in [policy'.rules -> Balances]
  BY <1>2, <1>5, AdvanceStep
<1>7. TypeOK'
  BY <1>1, <1>2, <1>4, <1>5, <1>6 DEF TypeOK
<1> QED  BY <1>2, <1>5, <1>6, <1>7 DEF LottoInv

\* The housekeeping keeps the invariant.
LEMMA HousekeepingStep ==
  ASSUME LottoInv, Housekeeping
  PROVE  /\ LottoInv' /\ RowsKept(tracker, tracker')
         /\ \A r \in policy.rules, t \in Trackers :
              pos[r][t].status \in Missed => pos'[r][t] = pos[r][t]
<1>1. /\ clock \in Nat /\ evaluated \in 0..clock /\ policy \in Policies /\ multi \in BOOLEAN
      /\ tracker \in [Trackers -> Rows]
  BY DEF LottoInv, TypeOK
<1>2. /\ Advance(tracker) /\ tracker' = Closed(tracker, clock)
      /\ clock' = clock /\ policy' = policy /\ multi' = multi /\ evaluated' = evaluated
  BY DEF Housekeeping
<1>3. RowsKept(tracker, tracker)
  BY DEF RowsKept
<1>4. tracker' \in [Trackers -> Rows] /\ RowsKept(tracker, tracker')
  BY <1>1, <1>2, ClosedRows
<1>5. /\ Sound(policy', clock', tracker, Book')
      /\ \A r \in policy.rules, t \in Trackers :
           /\ Timely(processed', pos'[r][t])
           /\ pos[r][t].status \in Missed => pos'[r][t] = pos[r][t]
      /\ processed' \in 0..clock'
      /\ pos' \in [policy'.rules -> [Trackers -> Positions]]
      /\ cash' \in [policy'.rules -> Balances]
  BY <1>1, <1>2, <1>3, AdvanceStep
<1>6. Sound(policy', clock', tracker', Book')
  BY <1>4, <1>5, SoundKept
<1>7. TypeOK'
  BY <1>1, <1>2, <1>4, <1>5 DEF TypeOK
<1> QED  BY <1>2, <1>4, <1>5, <1>6, <1>7 DEF LottoInv

\* A day that has only begun has no spending.
LEMMA NextMinute ==
  ASSUME policy \in Policies, clock \in Nat, NEW rows, NEW b, Sound(policy, clock, rows, b)
  PROVE  Sound(policy, clock + 1, rows, b)
<1>1. b \in Books(policy)
  BY DEF Sound
<1>2. ASSUME NEW r \in policy.rules, policy.dailyCap # None
      PROVE  SpentOn(DayOf(clock + 1), b.pos[r]) <= policy.dailyCap
  <2>1. SpentOn(DayOf(clock), b.pos[r]) <= policy.dailyCap
    BY <1>2 DEF Sound, Solvent
  <2>2. CASE DayOf(clock + 1) = DayOf(clock)
    BY <2>1, <2>2
  <2>3. CASE DayOf(clock + 1) # DayOf(clock)
    <3> DEFINE S == {t \in Trackers : /\ b.pos[r][t].entry # None
                                      /\ DayOf(b.pos[r][t].decided) = DayOf(clock + 1)}
               a == [t \in Trackers |-> b.pos[r][t].debit + ExitFee]
    <3>1. ASSUME NEW t \in Trackers, b.pos[r][t].entry # None
          PROVE  DayOf(b.pos[r][t].decided) # DayOf(clock + 1)
      <4> DEFINE p == b.pos[r][t]
      <4>1. p \in Positions /\ Fit(clock, rows[t], p)
        BY <1>1, BooksRows DEF Sound
      <4>2. p.decided # None
        <5>1. p.status # "NONE"
          BY <3>1, <4>1 DEF Fit
        <5> QED  BY <4>1, <5>1 DEF Fit
      <4>3. p.decided \in Nat /\ p.decided <= clock
        BY <4>1, <4>2 DEF Fit, Positions, Stamp
      <4> HIDE DEF p
      <4>4. CASE DayOf(p.decided) = DayOf(clock)
        BY <2>3, <4>4 DEF p
      <4>5. CASE DayOf(p.decided) # DayOf(clock)
        <5>1. ~(clock < (DayOf(p.decided) + 1) * DayTicks)
          BY <4>3, <4>5, SameDay
        <5>2. (DayOf(p.decided) + 1) * DayTicks \in Nat
          BY <4>3, Days, Numbers
        <5>3. ~(clock + 1 < (DayOf(p.decided) + 1) * DayTicks)
          BY <5>1, <5>2
        <5>4. clock + 1 < (DayOf(clock + 1) + 1) * DayTicks
          BY Days
        <5> QED  BY <5>3, <5>4 DEF p
      <4> QED  BY <4>4, <4>5
    <3>2. S = {}
      BY <3>1
    <3>3. SpentOn(DayOf(clock + 1), b.pos[r]) = Total(a, S)
      BY DEF SpentOn
    <3> HIDE DEF S, a
    <3>4. Total(a, S) = 0
      BY <3>2, FS_EmptySet, TotalEquation
    <3> QED  BY <1>2, <3>3, <3>4, PolicyType
  <2> QED  BY <2>2, <2>3
<1>3. ASSUME NEW r \in policy.rules PROVE Solvent(policy, clock + 1, b.pos[r], b.cash[r])
  <2>1. Solvent(policy, clock, b.pos[r], b.cash[r])
    BY DEF Sound
  <2> QED  BY <1>2, <2>1 DEF Solvent
<1>4. ASSUME NEW r \in policy.rules, NEW t \in Trackers PROVE Fit(clock + 1, rows[t], b.pos[r][t])
  <2>1. b.pos[r][t] \in Positions /\ Fit(clock, rows[t], b.pos[r][t])
    BY <1>1, BooksRows DEF Sound
  <2>2. b.pos[r][t].decided \in Int
    BY <2>1, Numbers DEF Positions, Stamp
  <2> QED  BY <2>1, <2>2 DEF Fit
<1> QED  BY <1>3, <1>4 DEF Sound

\* A minute keeps the invariant.
LEMMA TickStep ==
  ASSUME LottoInv, Tick
  PROVE  LottoInv' /\ RowsKept(tracker, tracker') /\ pos' = pos
<1>1. /\ clock \in Nat /\ processed \in 0..clock /\ evaluated \in 0..clock
      /\ policy \in Policies /\ multi \in BOOLEAN /\ tracker \in [Trackers -> Rows]
      /\ pos \in [policy.rules -> [Trackers -> Positions]]
      /\ cash \in [policy.rules -> Balances]
  BY DEF LottoInv, TypeOK
<1>2. /\ clock' = clock + 1 /\ tracker' = [t \in Trackers |-> Aged(tracker[t])]
      /\ policy' = policy /\ multi' = multi /\ evaluated' = evaluated
      /\ pos' = pos /\ cash' = cash /\ processed' = processed
  BY DEF Tick
<1>3. tracker' \in [Trackers -> Rows] /\ RowsKept(tracker, tracker')
  BY <1>1, <1>2, AgedRows
<1>4. Sound(policy, clock + 1, tracker, Book)
  BY <1>1, NextMinute DEF LottoInv
<1>5. Sound(policy', clock', tracker', Book')
  <2>1. Book' = Book
    BY <1>2 DEF Book
  <2>2. Sound(policy, clock + 1, tracker', Book)
    BY <1>3, <1>4, SoundKept
  <2> QED  BY <1>2, <2>1, <2>2
<1>6. processed' \in 0..clock' /\ evaluated' \in 0..clock' /\ clock' \in Nat
  BY <1>1, <1>2
<1>7. TypeOK'
  BY <1>1, <1>2, <1>3, <1>6 DEF TypeOK
<1> QED  BY <1>2, <1>3, <1>5, <1>7 DEF LottoInv

\* Every step keeps the invariant.
LEMMA InvStep ==
  ASSUME LottoInv, [Next]_vars
  PROVE  /\ LottoInv' /\ RowsKept(tracker, tracker')
         /\ \A r \in policy.rules, t \in Trackers :
              pos[r][t].status \in Missed => pos'[r][t] = pos[r][t]
<1>1. ASSUME NEW lag \in Lags, NEW age \in Ages, NEW market \in Markets,
             NEW found \in SUBSET Unknown, Scan(lag, found, market, age)
      PROVE  /\ LottoInv' /\ RowsKept(tracker, tracker')
             /\ \A r \in policy.rules, t \in Trackers :
                  pos[r][t].status \in Missed => pos'[r][t] = pos[r][t]
  BY <1>1, ScanStep
<1>2. CASE Housekeeping
  BY <1>2, HousekeepingStep
<1>3. CASE ActivateMulti
  <2>1. /\ multi' = TRUE /\ clock' = clock /\ policy' = policy /\ evaluated' = evaluated
        /\ tracker' = tracker /\ pos' = pos /\ cash' = cash /\ processed' = processed
    BY <1>3 DEF ActivateMulti
  <2>2. LottoInv'
    BY <2>1 DEF LottoInv, TypeOK, Book
  <2> QED  BY <2>1, <2>2 DEF RowsKept
<1>4. CASE Tick
  BY <1>4, TickStep
<1>5. CASE UNCHANGED vars
  <2>1. /\ multi' = multi /\ clock' = clock /\ policy' = policy /\ evaluated' = evaluated
        /\ tracker' = tracker /\ pos' = pos /\ cash' = cash /\ processed' = processed
    BY <1>5 DEF vars
  <2>2. LottoInv'
    BY <2>1 DEF LottoInv, TypeOK, Book
  <2> QED  BY <2>1, <2>2 DEF RowsKept
<1> QED  BY <1>1, <1>2, <1>3, <1>4, <1>5 DEF Next

\* The invariant holds initially.
LEMMA InvInit == Init => LottoInv
<1> SUFFICES ASSUME Init PROVE LottoInv
  OBVIOUS
<1>1. /\ clock = Activated /\ processed = Activated /\ evaluated = 0
      /\ policy \in Policies /\ multi = policy.multi
      /\ tracker = [t \in Trackers |-> Untracked]
      /\ pos = [r \in policy.rules |-> [t \in Trackers |-> NoPos]]
      /\ cash = [r \in policy.rules |-> [settled |-> policy.cash, unsettled |-> 0, realized |-> 0]]
  BY DEF Init
<1>2. Activated \in Nat /\ ExitFee \in Nat /\ policy.cash \in Nat /\ policy.slots \in Nat
      /\ multi \in BOOLEAN /\ (policy.dailyCap # None => policy.dailyCap \in Nat)
  BY <1>1, Numbers, PolicyType
<1>3. Untracked \in Rows /\ NoPos \in Positions
  BY Numbers DEF Untracked, NoPos, Rows, Positions, Stamp, Status
<1>4. TypeOK
  <2>1. tracker \in [Trackers -> Rows]
    <3> HIDE DEF Untracked
    <3> QED  BY <1>1, <1>3
  <2>2. pos \in [policy.rules -> [Trackers -> Positions]]
    BY <1>1, <1>3
  <2>3. cash \in [policy.rules -> Balances]
    BY <1>1, <1>2 DEF Balances
  <2>4. clock \in Nat /\ processed \in 0..clock /\ evaluated \in 0..clock
    BY <1>1, <1>2
  <2> QED  BY <1>1, <1>2, <2>1, <2>2, <2>3, <2>4 DEF TypeOK
<1>5. ASSUME NEW r \in policy.rules PROVE Solvent(policy, clock, pos[r], cash[r])
  <2> DEFINE p == pos[r]
             c == cash[r]
             U == {t \in Trackers : p[t].status = "UNSETTLED"}
             S == {t \in Trackers : p[t].entry # None /\ DayOf(p[t].decided) = DayOf(clock)}
             O == {t \in Trackers : p[t].status \in Occupied}
  <2>1. \A t \in Trackers : p[t].status = "NONE" /\ p[t].entry = None
    BY <1>1 DEF NoPos
  <2>2. c.settled = policy.cash /\ c.unsettled = 0 /\ c.realized = 0
    BY <1>1
  <2> HIDE DEF p, c
  <2>3. HeldBy(p) = {} /\ U = {} /\ S = {} /\ O = {}
    BY <2>1 DEF HeldBy, Held, Occupied
  <2>4. /\ AtRisk(p) = Total([t \in Trackers |-> p[t].debit], HeldBy(p))
        /\ Claims(p) = Total([t \in Trackers |-> p[t].sale], U)
        /\ SpentOn(DayOf(clock), p) = Total([t \in Trackers |-> p[t].debit + ExitFee], S)
        /\ SlotsTaken(p) = Cardinality(O)
    BY DEF AtRisk, Claims, SpentOn, SlotsTaken
  <2> HIDE DEF U, S, O
  <2>5. AtRisk(p) = 0 /\ Claims(p) = 0 /\ SpentOn(DayOf(clock), p) = 0
    BY <2>3, <2>4, FS_EmptySet, TotalEquation
  <2>6. Cardinality(HeldBy(p)) = 0 /\ SlotsTaken(p) = 0
    BY <2>3, <2>4, FS_EmptySet
  <2>7. Solvent(policy, clock, p, c)
    BY <1>2, <2>2, <2>5, <2>6 DEF Solvent
  <2> QED  BY <2>7 DEF p, c
<1>6. ASSUME NEW r \in policy.rules, NEW t \in Trackers
      PROVE  /\ pos[r][t] = NoPos /\ Fit(clock, tracker[t], pos[r][t])
             /\ Timely(processed, pos[r][t])
  <2>1. pos[r][t] = NoPos
    BY <1>1
  <2>2. /\ NoPos.status = "NONE" /\ NoPos.decided = None /\ NoPos.entry = None
        /\ NoPos.asked = None /\ NoPos.exit = None
    BY DEF NoPos
  <2> HIDE DEF NoPos
  <2> QED  BY <2>1, <2>2 DEF Fit, Timely, Bought
<1>7. Book \in Books(policy) /\ Book.pos = pos /\ Book.cash = cash
  BY <1>4 DEF Book, Books, TypeOK
<1>8. Sound(policy, clock, tracker, Book)
  <2>1. \A r \in policy.rules, s \in policy.rules, t \in Trackers : Paired(pos[r][t], pos[s][t])
    BY <1>6 DEF Paired
  <2> QED  BY <1>5, <1>6, <1>7, <2>1 DEF Sound
<1> QED  BY <1>4, <1>6, <1>8 DEF LottoInv

\* The invariant holds always.
LEMMA LottoInvariant == Spec => []LottoInv
<1>1. LottoInv /\ [Next]_vars => LottoInv'
  BY InvStep
<1> QED  BY InvInit, <1>1, PTL DEF Spec
-----------------------------------------------------------------------------
(* Theorems *)

\* Type correctness of the trackers, the accounts' positions and their balances.
THEOREM TypeCorrect == Spec => []TypeOK
<1>1. LottoInv => TypeOK
  BY DEF LottoInv
<1> QED  BY LottoInvariant, <1>1, PTL

\* The accounts of a group decide on the same contracts at the same time and buy them
\* at the same price, whatever their exit rules do to slots and cash in between.
THEOREM PairsAlwaysAgree == Spec => []PairsAgree
<1>1. LottoInv => PairsAgree
  <2> SUFFICES ASSUME LottoInv, NEW r \in policy.rules, NEW s \in policy.rules, NEW t \in Trackers
               PROVE  LET p == pos[r][t] q == pos[s][t] IN
                      /\ <<p.decided, p.entry, p.entryQuote, p.debit>>
                           = <<q.decided, q.entry, q.entryQuote, q.debit>>
                      /\ p.status = q.status \/ {p.status, q.status} \subseteq Bought
    BY DEF PairsAgree
  <2>1. Paired(pos[r][t], pos[s][t])
    BY DEF LottoInv, Sound, Book
  <2> QED  BY <2>1 DEF Paired
<1> QED  BY LottoInvariant, <1>1, PTL

\* Slots and daily caps hold, every cent of an account is in its cash, in its
\* results or in a position held, and the fees of closing what is held are there.
THEOREM MoneyAlwaysAccounted == Spec => []MoneyAccounted
<1>1. LottoInv => MoneyAccounted
  <2> SUFFICES ASSUME LottoInv, NEW r \in policy.rules
               PROVE  LET held == {t \in Trackers : pos[r][t].status \in Held} IN
                      /\ SlotsTaken(pos[r]) <= policy.slots
                      /\ policy.dailyCap # None => SpentToday(pos[r]) <= policy.dailyCap
                      /\ cash[r].settled + cash[r].unsettled
                           + Total([t \in Trackers |-> pos[r][t].debit], held)
                           = policy.cash + cash[r].realized
                      /\ cash[r].settled >= ExitFee * Cardinality(held)
    BY DEF MoneyAccounted
  <2>1. Solvent(policy, clock, pos[r], cash[r])
    BY DEF LottoInv, Sound, Book
  <2>2. SpentToday(pos[r]) = SpentOn(DayOf(clock), pos[r])
    BY DEF SpentToday, SpentOn, Today
  <2> QED  BY <2>1, <2>2 DEF Solvent, AtRisk, HeldBy
<1> QED  BY LottoInvariant, <1>1, PTL

\* A price comes after the decision it fills and before its deadline, nothing is
\* bought on evidence from before the activation, and once the accounts are
\* advanced nothing is overdue.
THEOREM AlwaysInTime == Spec => []InTime
<1>1. LottoInv => InTime
  <2> SUFFICES ASSUME LottoInv PROVE InTime
    OBVIOUS
  <2>1. \A r \in policy.rules, t \in Trackers :
          Fit(clock, tracker[t], pos[r][t]) /\ Timely(processed, pos[r][t])
    BY DEF LottoInv, Sound, Book
  <2>2. \A r \in policy.rules, t \in Trackers : pos[r][t].status = "NONE" => pos[r][t].entry = None
    BY <2>1 DEF Fit
  <2>3. \A r \in policy.rules, t \in Trackers :
          pos[r][t].entry # None => tracker[t].first \in Activated..pos[r][t].decided
    BY <2>1, <2>2 DEF Fit
  <2> QED  BY <2>1, <2>3 DEF InTime, Fit, Timely
<1> QED  BY LottoInvariant, <1>1, PTL

\* No step repairs what an account has missed, and a closed contract gets no more
\* quotes.
THEOREM MissedAlwaysStaysMissed == Spec => MissedStaysMissed
<1> DEFINE A == /\ \A r \in policy.rules, t \in Trackers :
                     pos[r][t].status \in {"SKIPPED", "UNPRICED", "CLOSED"} => pos'[r][t] = pos[r][t]
                /\ \A t \in Trackers : tracker[t].status = "CLOSED" =>
                     tracker'[t].status = "CLOSED" /\ tracker'[t].at \in {tracker[t].at, None}
<1>1. LottoInv /\ [Next]_vars => [A]_vars
  <2> SUFFICES ASSUME LottoInv, [Next]_vars PROVE A
    OBVIOUS
  <2> QED  BY InvStep DEF Missed, RowsKept
<1> HIDE DEF A
<1>2. Spec => [][A]_vars
  BY LottoInvariant, <1>1, PTL DEF Spec
<1> QED  BY <1>2 DEF MissedStaysMissed, A
=============================================================================
