------------------------ MODULE ExpandedAccountProofs ------------------------
(***************************************************************************)
(* What the ten-position account keeps true for any number of marks,       *)
(* requests and passes, any policy, and any order of its two processes.    *)
(***************************************************************************)
EXTENDS ExpandedAccount, TotalsProofs

-----------------------------------------------------------------------------
(* The inductive invariant *)

CreatedMarks == {m \in Marks : Created(m) # None}

\* Marks are created in the order of their ids, and a position belongs to a mark
\* that the watermark has passed: discovery resets no position.
Discovery ==
  /\ \A m \in Marks, n \in Marks : n < m /\ Created(m) # None => Created(n) # None
  /\ book.watermark <= Cardinality(CreatedMarks)
  /\ \A m \in Marks : book.pos[m].status # "NONE" => m <= book.watermark /\ Created(m) # None

\* Entries, proceeds and adjustments belong to the states that carry them.
Unsold(p) ==
  /\ p.status \in {"NONE", "SKIPPED", "PENDING_ENTRY"} => p.entry = None
  /\ p.status \notin {"UNSETTLED", "CLOSED"} => p.sale = 0 /\ p.exit = None
  /\ p.written # None <=> p.status = "WRITTEN_OFF"

\* An exit is asked for once the signal sg[m] has ended, and in time.
Asked(sg, m, p) ==
  /\ p.status = "PENDING_ENTRY" => p.asked = None
  /\ p.asked # None =>
       /\ sg[m].reason = "EXIT" /\ sg[m].at + 1 > p.entry
       /\ p.repaired => p.asked \in (sg[m].at + 1)..(sg[m].at + 1 + ExitDeadline)

OfMarks == \A r \in requests : DOMAIN r.original \subseteq Marks
-----------------------------------------------------------------------------
(* Lemmas about the model's operators *)

\* The marks are finitely many natural numbers.
LEMMA MarksFinite ==
  /\ IsFiniteSet(Marks) /\ Cardinality(Marks) \in Nat /\ Marks = 1..Cardinality(Marks)
  /\ \A S \in SUBSET Marks : /\ IsFiniteSet(S) /\ Cardinality(S) \in Nat
                              /\ Cardinality(S) <= Cardinality(Marks)
<1>1. IsFiniteSet(Marks) /\ Marks = 1..Cardinality(Marks)
  BY ExpandedAssumption
<1>2. Cardinality(Marks) \in Nat
  BY <1>1, FS_CardinalityType
<1>3. ASSUME NEW S \in SUBSET Marks
      PROVE  IsFiniteSet(S) /\ Cardinality(S) \in Nat /\ Cardinality(S) <= Cardinality(Marks)
  BY <1>1, FS_Subset, FS_CardinalityType
<1> QED  BY <1>1, <1>2, <1>3

\* The amounts of the policy are natural numbers.
LEMMA Amounts ==
  /\ StartingCash \in Nat /\ MaxPositions \in Nat /\ OpenFee \in Nat /\ CloseFee \in Nat
  /\ Slippage \in Nat /\ LegacyDebit \in Nat /\ MaxEntry \in Nat /\ MaxSpread \in Nat
  BY ExpandedAssumption

\* A closing fee more or less.
LEMMA Fees ==
  ASSUME NEW n \in Nat
  PROVE  /\ CloseFee * n \in Nat /\ CloseFee * (n + 1) = CloseFee * n + CloseFee
         /\ CloseFee * (n - 1) = CloseFee * n - CloseFee
  BY Amounts, SMT
-----------------------------------------------------------------------------
(* One position moves in the ledger *)

\* The ledger of a book: the cash that MoneyConserved accounts for.
BookType ==
  [processed : Int, watermark : Int, settled : Int, unsettled : Int, realized : Int,
   pos : [Marks -> Positions]]

Solid(b) ==
  /\ b \in BookType /\ \A m \in Marks : Unsold(b.pos[m])
  /\ b.settled + b.unsettled + Debits(b, In(b, Exposed)) = StartingCash + b.realized
  /\ b.unsettled = Sales(b, In(b, {"UNSETTLED"}))
  /\ Cardinality(In(b, HELD)) <= MaxPositions
  /\ b.settled >= HeldFees(b)

\* How a pass may move a position.
Step(b, p, q) ==
  \/ q.status = p.status /\ q.debit = p.debit /\ q.sale = p.sale
  \/ p.status \in HELD /\ q.status \in Exposed /\ q.debit = p.debit /\ q.sale = p.sale
  \/ p.status = "OPEN" /\ q.status = "UNSETTLED" /\ q.debit = p.debit
  \/ p.status = "UNSETTLED" /\ q.status = "CLOSED" /\ q.debit = p.debit /\ q.sale = p.sale
  \/ p.status = "PENDING_ENTRY" /\ q.status = "SKIPPED"
  \/ /\ p.status = "PENDING_ENTRY" /\ q.status = "OPEN"
     /\ q.debit + CloseFee <= b.settled - HeldFees(b) /\ SlotFree(b)

\* The sums and counts of a book whose position m moved to q.
LEMMA MovedSums ==
  ASSUME NEW b \in BookType, NEW c \in BookType, NEW m \in Marks, NEW q \in Positions,
         c.pos = [b.pos EXCEPT ![m] = q], NEW S
  PROVE  /\ Debits(c, In(c, S)) = Debits(b, In(b, S)) - (IF b.pos[m].status \in S THEN b.pos[m].debit ELSE 0)
                                                      + (IF q.status \in S THEN q.debit ELSE 0)
         /\ Sales(c, In(c, S)) = Sales(b, In(b, S)) - (IF b.pos[m].status \in S THEN b.pos[m].sale ELSE 0)
                                                    + (IF q.status \in S THEN q.sale ELSE 0)
         /\ Cardinality(In(c, S)) = Cardinality(In(b, S)) - (IF b.pos[m].status \in S THEN 1 ELSE 0)
                                                          + (IF q.status \in S THEN 1 ELSE 0)
         /\ Debits(b, In(b, S)) \in Nat /\ Sales(b, In(b, S)) \in Nat /\ Cardinality(In(b, S)) \in Nat
<1> DEFINE bd == [n \in Marks |-> b.pos[n].debit]
           cd == [n \in Marks |-> c.pos[n].debit]
           bs == [n \in Marks |-> b.pos[n].sale]
           cs == [n \in Marks |-> c.pos[n].sale]
           B == In(b, S)
           C == In(c, S)
<1>1. /\ B \in SUBSET Marks /\ C \in SUBSET Marks
      /\ \A n \in Marks : n # m => (n \in B <=> n \in C)
      /\ m \in B <=> b.pos[m].status \in S
      /\ m \in C <=> q.status \in S
  BY DEF In, BookType
<1>2. \A n \in Marks : /\ bd[n] = b.pos[n].debit /\ cd[n] = c.pos[n].debit
                       /\ bs[n] = b.pos[n].sale /\ cs[n] = c.pos[n].sale
                       /\ b.pos[n].debit \in Nat /\ c.pos[n].debit \in Nat
                       /\ b.pos[n].sale \in Nat /\ c.pos[n].sale \in Nat
                       /\ c.pos[n] = IF n = m THEN q ELSE b.pos[n]
  BY DEF BookType, Positions
<1> HIDE DEF B, C, bd, cd, bs, cs
<1>3. \A n \in Marks : /\ bd[n] \in Nat /\ cd[n] \in Nat /\ bs[n] \in Nat /\ cs[n] \in Nat
                       /\ n # m => bd[n] = cd[n] /\ bs[n] = cs[n]
                       /\ bd[m] = b.pos[m].debit /\ cd[m] = q.debit
                       /\ bs[m] = b.pos[m].sale /\ cs[m] = q.sale
  BY <1>2
<1>4. Total(cd, C) = Total(bd, B) - Part(bd, B, m) + Part(cd, C, m)
  <2>1. IsFiniteSet(Marks)
    BY MarksFinite
  <2>2. \A n \in Marks : bd[n] \in Int /\ cd[n] \in Int
    BY <1>3
  <2>3. \A n \in Marks : n # m => bd[n] = cd[n] /\ (n \in B <=> n \in C)
    BY <1>1, <1>3
  <2>4. B \in SUBSET Marks /\ C \in SUBSET Marks
    BY <1>1
  <2> QED  BY <2>1, <2>2, <2>3, <2>4, TotalMoved
<1>5. Total(cs, C) = Total(bs, B) - Part(bs, B, m) + Part(cs, C, m)
  <2>1. IsFiniteSet(Marks)
    BY MarksFinite
  <2>2. \A n \in Marks : bs[n] \in Int /\ cs[n] \in Int
    BY <1>3
  <2>3. \A n \in Marks : n # m => bs[n] = cs[n] /\ (n \in B <=> n \in C)
    BY <1>1, <1>3
  <2>4. B \in SUBSET Marks /\ C \in SUBSET Marks
    BY <1>1
  <2> QED  BY <2>1, <2>2, <2>3, <2>4, TotalMoved
<1>6. Cardinality(C) = Cardinality(B) - (IF m \in B THEN 1 ELSE 0) + (IF m \in C THEN 1 ELSE 0)
  BY <1>1, MarksFinite, CountMoved
<1>7. Total(bd, B) \in Nat /\ Total(bs, B) \in Nat /\ Cardinality(B) \in Nat
  <2>1. IsFiniteSet(B) /\ Cardinality(B) \in Nat
    BY <1>1, MarksFinite
  <2>2. (\A n \in B : bd[n] \in Nat) /\ (\A n \in B : bs[n] \in Nat)
    BY <1>1, <1>3
  <2> QED  BY <2>1, <2>2, TotalNat
<1>8. /\ Debits(c, C) = Total(cd, C) /\ Debits(b, B) = Total(bd, B)
      /\ Sales(c, C) = Total(cs, C) /\ Sales(b, B) = Total(bs, B)
  BY DEF Debits, Sales, bd, cd, bs, cs
<1>9. bd[m] = b.pos[m].debit /\ cd[m] = q.debit /\ bs[m] = b.pos[m].sale /\ cs[m] = q.sale
  BY <1>3
<1>10. (m \in B <=> b.pos[m].status \in S) /\ (m \in C <=> q.status \in S)
  BY <1>1
<1>11. Debits(c, C) = Debits(b, B) - (IF b.pos[m].status \in S THEN b.pos[m].debit ELSE 0)
                                   + (IF q.status \in S THEN q.debit ELSE 0)
  BY <1>4, <1>8, <1>9, <1>10 DEF Part
<1>12. Sales(c, C) = Sales(b, B) - (IF b.pos[m].status \in S THEN b.pos[m].sale ELSE 0)
                                 + (IF q.status \in S THEN q.sale ELSE 0)
  BY <1>5, <1>8, <1>9, <1>10 DEF Part
<1>13. Cardinality(C) = Cardinality(B) - (IF b.pos[m].status \in S THEN 1 ELSE 0)
                                       + (IF q.status \in S THEN 1 ELSE 0)
  BY <1>6, <1>10
<1> QED  BY <1>7, <1>8, <1>11, <1>12, <1>13 DEF B, C

\* The ledger stays solid when one position moves as a pass may move it.
LEMMA LedgerStep ==
  ASSUME NEW b, Solid(b), NEW c \in BookType, NEW m \in Marks, NEW q \in Positions,
         c.pos = [b.pos EXCEPT ![m] = q],
         c.settled = b.settled + Cash(b.pos[m], q),
         c.unsettled = b.unsettled + Claim(b.pos[m], q),
         c.realized = b.realized + Result(b.pos[m], q),
         Unsold(q), Step(b, b.pos[m], q)
  PROVE  Solid(c)
<1> DEFINE p == b.pos[m]
<1>0. b \in BookType /\ p \in Positions /\ Unsold(p)
  BY DEF Solid, BookType
<1>1. \A n \in Marks : Unsold(c.pos[n])
  BY <1>0 DEF Solid, BookType
<1>2. /\ Debits(c, In(c, Exposed)) = Debits(b, In(b, Exposed)) - (IF p.status \in Exposed THEN p.debit ELSE 0)
                                                      + (IF q.status \in Exposed THEN q.debit ELSE 0)
      /\ Debits(b, In(b, Exposed)) \in Nat
  BY <1>0, MovedSums
<1>3. /\ Sales(c, In(c, {"UNSETTLED"})) = Sales(b, In(b, {"UNSETTLED"}))
                   - (IF p.status \in {"UNSETTLED"} THEN p.sale ELSE 0)
                   + (IF q.status \in {"UNSETTLED"} THEN q.sale ELSE 0)
      /\ Sales(b, In(b, {"UNSETTLED"})) \in Nat
  BY <1>0, MovedSums
<1>4. /\ Cardinality(In(c, HELD)) = Cardinality(In(b, HELD)) - (IF p.status \in HELD THEN 1 ELSE 0)
                                                           + (IF q.status \in HELD THEN 1 ELSE 0)
      /\ Cardinality(In(b, HELD)) \in Nat
  BY <1>0, MovedSums
<1> DEFINE n == Cardinality(In(b, HELD))
           k == Cardinality(In(c, HELD))
           d == Debits(b, In(b, Exposed))
           s == Sales(b, In(b, {"UNSETTLED"}))
<1>5. /\ HeldFees(b) = CloseFee * n /\ HeldFees(c) = CloseFee * k /\ SlotFree(b) = (n < MaxPositions)
  BY DEF HeldFees, SlotFree
<1>6. /\ b.settled \in Int /\ b.unsettled \in Int /\ b.realized \in Int
      /\ p.debit \in Nat /\ q.debit \in Nat /\ p.sale \in Nat /\ q.sale \in Nat
      /\ b.settled + b.unsettled + d = StartingCash + b.realized
      /\ b.unsettled = s /\ n <= MaxPositions /\ b.settled >= CloseFee * n
  BY <1>0, <1>5 DEF BookType, Positions, Solid
<1>7. p.status # "UNSETTLED" /\ p.status # "CLOSED" => p.sale = 0
  BY <1>0 DEF Unsold
<1> HIDE DEF p, n, k, d, s
<1> USE DEF HELD, Exposed
<1>8. SUFFICES /\ c.settled + c.unsettled + Debits(c, In(c, Exposed)) = StartingCash + c.realized
               /\ c.unsettled = Sales(c, In(c, {"UNSETTLED"}))
               /\ k <= MaxPositions /\ c.settled >= CloseFee * k
  BY <1>1, <1>5 DEF Solid, k
<1>9. /\ c.settled = b.settled + Cash(p, q)
      /\ c.unsettled = b.unsettled + Claim(p, q) /\ c.realized = b.realized + Result(p, q)
      /\ Step(b, p, q)
  BY DEF p
<1>10. CASE q.status = p.status /\ q.debit = p.debit /\ q.sale = p.sale
  <2>1. Cash(p, q) = 0 /\ Claim(p, q) = 0 /\ Result(p, q) = 0
    BY <1>10 DEF Cash, Claim, Result, Buys, Sells, Pays
  <2>2. k = n
    BY <1>4, <1>10 DEF k, n, p
  <2> QED  BY <1>2, <1>3, <1>6, <1>9, <1>10, <2>1, <2>2, Amounts DEF d, s
<1>11. CASE p.status \in HELD /\ q.status \in Exposed /\ q.debit = p.debit /\ q.sale = p.sale
  <2>1. Cash(p, q) = 0 /\ Claim(p, q) = 0 /\ Result(p, q) = 0
    BY <1>11 DEF Cash, Claim, Result, Buys, Sells, Pays
  <2>2. (k = n \/ k = n - 1) /\ k \in Int /\ n \in Nat
    BY <1>4, <1>11 DEF k, n, p
  <2>3. CloseFee * k <= CloseFee * n
    BY <2>2, Fees, Amounts
  <2>4. CloseFee * k \in Int /\ CloseFee * n \in Int
    BY <2>2, Amounts
  <2> QED  BY <1>2, <1>3, <1>6, <1>9, <1>11, <2>1, <2>2, <2>3, <2>4, Amounts DEF d, s
<1>12. CASE p.status = "OPEN" /\ q.status = "UNSETTLED" /\ q.debit = p.debit
  <2>1. Cash(p, q) = -CloseFee /\ Claim(p, q) = q.sale /\ Result(p, q) = q.sale - CloseFee - q.debit
    BY <1>12 DEF Cash, Claim, Result, Buys, Sells, Pays
  <2>2. k = n - 1 /\ n \in Nat
    BY <1>4, <1>12 DEF k, n, p
  <2>3. CloseFee * k = CloseFee * n - CloseFee /\ CloseFee * n \in Nat
    BY <2>2, Fees
  <2>4. Debits(c, In(c, Exposed)) = d - p.debit /\ d \in Nat
    BY <1>2, <1>6, <1>12 DEF d
  <2>5. Sales(c, In(c, {"UNSETTLED"})) = s + q.sale /\ s \in Nat
    BY <1>3, <1>6, <1>12 DEF s
  <2>6. k <= MaxPositions /\ c.settled >= CloseFee * k
    BY <1>6, <1>9, <2>1, <2>2, <2>3, Amounts
  <2>7. c.settled + c.unsettled + (d - p.debit) = StartingCash + c.realized /\ c.unsettled = s + q.sale
    BY <1>6, <1>9, <1>12, <2>1, <2>4, <2>5, Amounts
  <2> QED  BY <2>4, <2>5, <2>6, <2>7
<1>13. CASE p.status = "UNSETTLED" /\ q.status = "CLOSED" /\ q.debit = p.debit /\ q.sale = p.sale
  <2>1. Cash(p, q) = q.sale /\ Claim(p, q) = -q.sale /\ Result(p, q) = 0
    BY <1>13 DEF Cash, Claim, Result, Buys, Sells, Pays
  <2>2. k = n /\ n \in Nat
    BY <1>4, <1>13 DEF k, n, p
  <2>3. CloseFee * n \in Nat
    BY <2>2, Fees
  <2> QED  BY <1>2, <1>3, <1>6, <1>9, <1>13, <2>1, <2>2, <2>3, Amounts DEF d, s
<1>14. CASE p.status = "PENDING_ENTRY" /\ q.status = "SKIPPED"
  <2>1. Cash(p, q) = 0 /\ Claim(p, q) = 0 /\ Result(p, q) = 0
    BY <1>14 DEF Cash, Claim, Result, Buys, Sells, Pays
  <2>2. k = n /\ n \in Nat
    BY <1>4, <1>14 DEF k, n, p
  <2>3. CloseFee * n \in Nat
    BY <2>2, Fees
  <2> QED  BY <1>2, <1>3, <1>6, <1>9, <1>14, <2>1, <2>2, <2>3, Amounts DEF d, s
<1>15. CASE /\ p.status = "PENDING_ENTRY" /\ q.status = "OPEN"
            /\ q.debit + CloseFee <= b.settled - HeldFees(b) /\ SlotFree(b)
  <2>1. Cash(p, q) = -q.debit /\ Claim(p, q) = 0 /\ Result(p, q) = 0
    BY <1>15 DEF Cash, Claim, Result, Buys, Sells, Pays
  <2>2. k = n + 1 /\ n \in Nat
    BY <1>4, <1>15 DEF k, n, p
  <2>3. CloseFee * k = CloseFee * n + CloseFee /\ CloseFee * n \in Nat
    BY <2>2, Fees
  <2>4. Debits(c, In(c, Exposed)) = d + q.debit /\ d \in Nat
    BY <1>2, <1>6, <1>15 DEF d
  <2>5. Sales(c, In(c, {"UNSETTLED"})) = s /\ s \in Nat
    BY <1>3, <1>6, <1>15 DEF s
  <2>6. n < MaxPositions /\ q.debit + CloseFee <= b.settled - CloseFee * n
    BY <1>5, <1>15
  <2>7. k <= MaxPositions /\ c.settled >= CloseFee * k
    BY <1>6, <1>9, <2>1, <2>2, <2>3, <2>6, Amounts
  <2>8. c.settled + c.unsettled + (d + q.debit) = StartingCash + c.realized /\ c.unsettled = s
    BY <1>6, <1>9, <2>1, <2>4, <2>5, Amounts
  <2> QED  BY <2>4, <2>5, <2>7, <2>8
<1> QED  BY <1>9, <1>10, <1>11, <1>12, <1>13, <1>14, <1>15 DEF Step
-----------------------------------------------------------------------------
(* A pass goes over the marks *)

Processed(see, b, m) == Posted(b, m, Kept(see, m, b.pos[m]))

\* The equation that ExitPass picks a solution of.
Exiting(f, see, n) ==
  f = [m \in 0..n |-> IF m = 0 THEN book ELSE Processed(see, f[m - 1], m)]

\* The exit pass is its recursion, mark by mark.
LEMMA ExitPassRuns ==
  ASSUME NEW see
  PROVE  \E f : Exiting(f, see, Cardinality(Marks)) /\ ExitPass(see) = f[Cardinality(Marks)]
<1> DEFINE N == Cardinality(Marks)
           Good == {n \in 0..N : \E f : Exiting(f, see, n)}
<1>0. N \in Nat
  BY MarksFinite
<1> HIDE DEF N
<1>1. 0 \in Good
  <2>1. Exiting([m \in 0..0 |-> book], see, 0)
    BY DEF Exiting
  <2> QED  BY <1>0, <2>1
<1>2. ASSUME NEW n \in 1..N, n - 1 \in Good PROVE n \in Good
  <2>1. PICK f : Exiting(f, see, n - 1)
    BY <1>2
  <2> DEFINE g == [m \in 0..n |-> IF m = n THEN Processed(see, f[n - 1], n) ELSE f[m]]
  <2>2. ASSUME NEW m \in 0..n
        PROVE  g[m] = IF m = 0 THEN book ELSE Processed(see, g[m - 1], m)
    <3>1. f[0] = book /\ \A k \in 1..(n - 1) : f[k] = Processed(see, f[k - 1], k)
      BY <1>0, <1>2, <2>1 DEF Exiting
    <3>2. m # 0 => g[m - 1] = f[m - 1]
      BY <1>0, <1>2
    <3> QED  BY <1>0, <1>2, <3>1, <3>2
  <2>3. g = [m \in 0..n |-> g[m]]
    OBVIOUS
  <2> HIDE DEF g
  <2>4. Exiting(g, see, n)
    BY <2>2, <2>3 DEF Exiting
  <2> QED  BY <1>0, <1>2, <2>4
<1> HIDE DEF Good
<1>3. N \in Good
  BY <1>0, <1>1, <1>2, NumbersInduct
<1>4. \E f : Exiting(f, see, N)
  BY <1>3 DEF Good
<1> DEFINE after == CHOOSE f : f = [m \in 0..N |-> IF m = 0 THEN book
                       ELSE LET b == f[m - 1] IN Posted(b, m, Kept(see, m, b.pos[m]))]
<1>5. ExitPass(see) = after[N]
  BY DEF ExitPass, N
<1>6. \E f : f = [m \in 0..N |-> IF m = 0 THEN book
                       ELSE LET b == f[m - 1] IN Posted(b, m, Kept(see, m, b.pos[m]))]
  <2>1. PICK f : Exiting(f, see, N)
    BY <1>4
  <2> QED  BY <2>1 DEF Exiting, Processed
<1>7. after = [m \in 0..N |-> IF m = 0 THEN book
                       ELSE LET b == after[m - 1] IN Posted(b, m, Kept(see, m, b.pos[m]))]
  BY <1>6, Zenon
<1> HIDE DEF after
<1>8. Exiting(after, see, N)
  BY <1>7 DEF Exiting, Processed
<1> QED  BY <1>5, <1>8 DEF N

\* The same for EntryPass.
Entering(f, see, known, n) ==
  f = [m \in 0..n |-> IF m = 0 THEN known ELSE Entered(see, f[m - 1], m)]

\* The entry pass is its recursion, mark by mark.
LEMMA EntryPassRuns ==
  ASSUME NEW see, NEW known
  PROVE  \E f : Entering(f, see, known, Cardinality(Marks)) /\ EntryPass(see, known) = f[Cardinality(Marks)]
<1> DEFINE N == Cardinality(Marks)
           Good == {n \in 0..N : \E f : Entering(f, see, known, n)}
<1>0. N \in Nat
  BY MarksFinite
<1> HIDE DEF N
<1>1. 0 \in Good
  <2>1. Entering([m \in 0..0 |-> known], see, known, 0)
    BY DEF Entering
  <2> QED  BY <1>0, <2>1
<1>2. ASSUME NEW n \in 1..N, n - 1 \in Good PROVE n \in Good
  <2>1. PICK f : Entering(f, see, known, n - 1)
    BY <1>2
  <2> DEFINE g == [m \in 0..n |-> IF m = n THEN Entered(see, f[n - 1], n) ELSE f[m]]
  <2>2. ASSUME NEW m \in 0..n
        PROVE  g[m] = IF m = 0 THEN known ELSE Entered(see, g[m - 1], m)
    <3>1. f[0] = known /\ \A k \in 1..(n - 1) : f[k] = Entered(see, f[k - 1], k)
      BY <1>0, <1>2, <2>1 DEF Entering
    <3>2. m # 0 => g[m - 1] = f[m - 1]
      BY <1>0, <1>2
    <3> QED  BY <1>0, <1>2, <3>1, <3>2
  <2>3. g = [m \in 0..n |-> g[m]]
    OBVIOUS
  <2> HIDE DEF g
  <2>4. Entering(g, see, known, n)
    BY <2>2, <2>3 DEF Entering
  <2> QED  BY <1>0, <1>2, <2>4
<1> HIDE DEF Good
<1>3. N \in Good
  BY <1>0, <1>1, <1>2, NumbersInduct
<1>4. \E f : Entering(f, see, known, N)
  BY <1>3 DEF Good
<1> DEFINE after == CHOOSE f : f = [m \in 0..N |-> IF m = 0 THEN known ELSE Entered(see, f[m - 1], m)]
<1>5. EntryPass(see, known) = after[N]
  BY DEF EntryPass, N
<1>6. after = [m \in 0..N |-> IF m = 0 THEN known ELSE Entered(see, after[m - 1], m)]
  BY <1>4, Zenon DEF Entering
<1> HIDE DEF after
<1>7. Entering(after, see, known, N)
  BY <1>6 DEF Entering
<1> QED  BY <1>5, <1>7 DEF N
-----------------------------------------------------------------------------
(* What a pass may make of one position *)

MarkRows == [Marks -> [created : Int, fits : BOOLEAN]]
SignalRows == [Marks -> [reason : {"OPEN", "EXIT", "DATA_GAP"}, at : Int]]
Sights == [now : Nat, market : [Marks -> Quotes], age : Nat, feed : {"healthy", "exits"},
           mark : MarkRows, signal : SignalRows]

\* ExitsEvidenced and the sessions' ends, of the marks mk and the signals sg.
EndOf(mk, m) == Day(mk[m].created) * DayTicks + Closing
FinalOf(mk, m) == (Day(mk[m].created) + Expiry[m]) * DayTicks + Closing

Filled(mk, m, p) ==
  p.entry # None /\ p.repaired =>
    /\ p.seen < p.entryQuote /\ p.entryQuote \in (p.entry - QuoteAge)..p.entry
    /\ p.entry <= mk[m].created + EntryDeadline /\ p.entry < EndOf(mk, m)
Exited(mk, sg, m, p) ==
  p.exit # None =>
    /\ sg[m].reason = "EXIT" /\ sg[m].at + 1 > p.entry
    /\ p.repaired => p.asked \in (sg[m].at + 1)..(sg[m].at + 1 + ExitDeadline)
    /\ ~p.repaired => p.exit <= sg[m].at + ExitDeadline
    /\ p.asked < p.exitQuote /\ p.exitQuote \in (p.exit - QuoteAge)..p.exit
    /\ p.exit <= p.asked + ExitDeadline /\ p.exit < EndOf(mk, m)

Sound(mk, sg, m, p) ==
  p \in Positions /\ Unsold(p) /\ Asked(sg, m, p) /\ Filled(mk, m, p) /\ Exited(mk, sg, m, p)
Timely(mk, m, now, p) ==
  /\ p.status = "OPEN" => now < EndOf(mk, m)
  /\ p.status \in HELD => now < FinalOf(mk, m)

\* The moves of LedgerStep that need no cash, with what else they leave.
Moves(p, q) ==
  /\ q.debit = p.debit /\ q.written = p.written /\ q.request = p.request
  /\ p.status \notin {"OPEN", "UNPRICED", "UNSETTLED"} => q = p
  /\ \/ q.status = p.status /\ q.sale = p.sale
     \/ p.status \in HELD /\ q.status \in {"UNPRICED", "ENDED_UNRESOLVED"} /\ q.sale = p.sale
     \/ p.status = "OPEN" /\ q.status = "UNSETTLED"
     \/ p.status = "UNSETTLED" /\ q.status = "CLOSED" /\ q.sale = p.sale

\* The policies' times and prices are natural numbers.
LEMMA Policy ==
  /\ ExitDeadline \in Nat /\ EntryDeadline \in Nat /\ QuoteAge \in Nat /\ Slippage \in Nat
  /\ CloseFee \in Nat /\ OpenFee \in Nat /\ Latency \in Nat /\ Latency > 0
  /\ DayTicks \in Nat /\ DayTicks > 0 /\ Closing \in 1..(DayTicks - 1)
  /\ \A m \in Marks : Expiry[m] \in Nat
<1>1. /\ ExitDeadline \in Nat /\ EntryDeadline \in Nat /\ QuoteAge \in Nat /\ Slippage \in Nat
      /\ CloseFee \in Nat /\ OpenFee \in Nat
  BY ExpandedAssumption
<1>2. Latency \in Nat \ {0} /\ DayTicks \in Nat \ {0}
  BY ExpandedAssumption
<1>3. Closing \in 1..(DayTicks - 1) /\ Expiry \in [Marks -> Nat]
  BY ExpandedAssumption
<1> QED  BY <1>1, <1>2, <1>3

\* The instants at which sessions and contracts end.
LEMMA Ends ==
  ASSUME NEW mk \in MarkRows, NEW m \in Marks
  PROVE  EndOf(mk, m) \in Int /\ FinalOf(mk, m) \in Int /\ EndOf(mk, m) <= FinalOf(mk, m)
<1> DEFINE d == Day(mk[m].created)
<1>1. mk[m].created \in Int /\ Expiry[m] \in Nat
  BY Policy DEF MarkRows
<1>2. d \in Int
  BY <1>1, Policy DEF Day
<1>3. EndOf(mk, m) = d * DayTicks + Closing /\ FinalOf(mk, m) = (d + Expiry[m]) * DayTicks + Closing
  BY DEF EndOf, FinalOf
<1> HIDE DEF d
<1>4. (d + Expiry[m]) * DayTicks = d * DayTicks + Expiry[m] * DayTicks
      /\ Expiry[m] * DayTicks \in Nat /\ d * DayTicks \in Int
  BY <1>1, <1>2, Policy
<1>5. (d + Expiry[m]) * DayTicks >= d * DayTicks /\ (d + Expiry[m]) * DayTicks \in Int
  BY <1>4
<1> QED  BY <1>3, <1>4, <1>5, Policy

\* The sale of a position whose exit has been asked for.
LEMMA SoldSound ==
  ASSUME NEW see \in Sights, NEW m \in Marks, NEW p,
         Sound(mark, see.signal, m, p), p.status = "OPEN", p.asked # None,
         see.now < EndOf(mark, m), ~p.repaired => see.now <= see.signal[m].at + ExitDeadline
  PROVE  /\ Sound(mark, see.signal, m, Sold(see, m, p)) /\ Moves(p, Sold(see, m, p))
<1> DEFINE q == Sold(see, m, p)
<1>1. /\ p \in Positions /\ Unsold(p) /\ Asked(see.signal, m, p)
      /\ Filled(mark, m, p) /\ Exited(mark, see.signal, m, p)
  BY DEF Sound
<1>2. /\ see.now \in Nat /\ see.age \in Nat /\ see.market[m] \in Quotes
      /\ see.signal[m].at \in Int /\ see.now # None
  BY DEF Sights, SignalRows, None
<1>3. p.sale = 0 /\ p.exit = None /\ p.written = None
  BY <1>1 DEF Unsold
<1>4. CASE see.now > p.asked + ExitDeadline
  <2>1. q = [p EXCEPT !.status = "UNPRICED"]
    BY <1>4 DEF Sold
  <2> HIDE DEF q
  <2>2. q \in Positions
    BY <1>1, <2>1 DEF Positions, Exposed, HELD
  <2>3. /\ q.status = "UNPRICED" /\ q.debit = p.debit /\ q.sale = p.sale /\ q.exit = p.exit
        /\ q.written = p.written /\ q.request = p.request /\ q.entry = p.entry
        /\ q.repaired = p.repaired /\ q.asked = p.asked /\ q.seen = p.seen
        /\ q.entryQuote = p.entryQuote
    BY <1>1, <2>1 DEF Positions
  <2>4. Unsold(q) /\ Asked(see.signal, m, q) /\ Filled(mark, m, q) /\ Exited(mark, see.signal, m, q)
    BY <1>1, <1>3, <2>3 DEF Unsold, Asked, Filled, Exited
  <2>5. Moves(p, q)
    BY <2>3 DEF Moves, HELD
  <2> QED  BY <2>2, <2>4, <2>5 DEF Sound, q
<1>5. CASE ~(see.now > p.asked + ExitDeadline) /\ ~Fresh(see, m, p.asked + Latency)
  <2>1. q = p
    BY <1>5 DEF Sold
  <2>2. Moves(p, p)
    BY DEF Moves
  <2> QED  BY <2>1, <2>2
<1>6. CASE ~(see.now > p.asked + ExitDeadline) /\ Fresh(see, m, p.asked + Latency)
  <2>1. q = [p EXCEPT !.status = "UNSETTLED", !.exit = see.now, !.exitQuote = see.now - see.age,
                      !.sale = Sale(see.market[m]), !.due = SettlementAt(see.now)]
    BY <1>6 DEF Sold
  <2> HIDE DEF q
  <2>2. Sale(see.market[m]) \in Nat /\ SettlementAt(see.now) \in Int
    BY <1>2, Policy DEF Sale, SettlementAt, Quotes, Day
  <2>3. q \in Positions
    <3>1. see.now \in Int /\ see.now - see.age \in Int
      BY <1>2
    <3> QED  BY <1>1, <2>1, <2>2, <3>1 DEF Positions
  <2>4. /\ q.status = "UNSETTLED" /\ q.debit = p.debit /\ q.exit = see.now
        /\ q.exitQuote = see.now - see.age
        /\ q.written = p.written /\ q.request = p.request /\ q.entry = p.entry
        /\ q.repaired = p.repaired /\ q.asked = p.asked /\ q.seen = p.seen
        /\ q.entryQuote = p.entryQuote
    BY <1>1, <2>1 DEF Positions
  <2>5. Unsold(q) /\ Asked(see.signal, m, q) /\ Filled(mark, m, q)
    BY <1>1, <1>3, <2>4 DEF Unsold, Asked, Filled
  <2>6. /\ see.age <= QuoteAge /\ see.now - see.age >= p.asked + Latency
        /\ see.now <= p.asked + ExitDeadline /\ p.asked \in Int
    BY <1>1, <1>2, <1>6, Policy DEF Fresh, Positions
  <2>7. /\ see.signal[m].reason = "EXIT" /\ see.signal[m].at + 1 > p.entry
        /\ p.repaired => p.asked \in (see.signal[m].at + 1)..(see.signal[m].at + 1 + ExitDeadline)
    BY <1>1 DEF Asked
  <2>8. p.asked < q.exitQuote /\ q.exitQuote \in (q.exit - QuoteAge)..q.exit
    BY <1>2, <2>4, <2>6, Policy
  <2>9. Exited(mark, see.signal, m, q)
    BY <2>4, <2>6, <2>7, <2>8 DEF Exited
  <2>10. Moves(p, q)
    BY <2>4 DEF Moves
  <2> QED  BY <2>3, <2>5, <2>9, <2>10 DEF Sound, q
<1> QED  BY <1>4, <1>5, <1>6

\* The branches of Exits for one position.
LEMMA ExitsSound ==
  ASSUME mark \in MarkRows, NEW see \in Sights, NEW m \in Marks, NEW p, Sound(mark, see.signal, m, p)
  PROVE  /\ Sound(mark, see.signal, m, Exits(see, m, p)) /\ Moves(p, Exits(see, m, p))
         /\ Exits(see, m, p).status = "OPEN" => see.now < EndOf(mark, m)
<1> DEFINE q == Exits(see, m, p)
<1>1. /\ p \in Positions /\ Unsold(p) /\ Asked(see.signal, m, p)
      /\ Filled(mark, m, p) /\ Exited(mark, see.signal, m, p)
  BY DEF Sound
<1>2. /\ see.now \in Nat /\ see.age \in Nat /\ see.market[m] \in Quotes
      /\ see.signal[m].at \in Int /\ see.now # None
      /\ see.signal[m].reason \in {"OPEN", "EXIT", "DATA_GAP"}
  BY DEF Sights, SignalRows, None
<1>3. SessionEnd(m) = EndOf(mark, m)
  BY DEF SessionEnd, EndOf, Created
<1>4. Moves(p, p)
  BY DEF Moves
<1> DEFINE Put(s) == [p EXCEPT !.status = s]
<1>5. ASSUME NEW s \in {"UNPRICED", "CLOSED"},
             s = "UNPRICED" => p.status = "OPEN", s = "CLOSED" => p.status = "UNSETTLED"
      PROVE  Sound(mark, see.signal, m, Put(s)) /\ Moves(p, Put(s)) /\ Put(s).status = s
  <2> DEFINE r == Put(s)
  <2>1. r \in Positions
    BY <1>1, <1>5 DEF Positions, Exposed, HELD
  <2>2. /\ r.status = s /\ r.debit = p.debit /\ r.sale = p.sale /\ r.exit = p.exit
        /\ r.written = p.written /\ r.request = p.request /\ r.entry = p.entry
        /\ r.repaired = p.repaired /\ r.asked = p.asked /\ r.seen = p.seen
        /\ r.entryQuote = p.entryQuote /\ r.exitQuote = p.exitQuote
    BY <1>1 DEF Positions
  <2> HIDE DEF r
  <2>3. Unsold(r)
    BY <1>1, <1>5, <2>2 DEF Unsold
  <2>4. Asked(see.signal, m, r) /\ Filled(mark, m, r) /\ Exited(mark, see.signal, m, r)
    BY <1>1, <1>5, <2>2 DEF Asked, Filled, Exited
  <2>5. Moves(p, r)
    BY <1>5, <2>2 DEF Moves, HELD
  <2> QED  BY <2>1, <2>2, <2>3, <2>4, <2>5 DEF Sound, r
<1>50. p.status = "OPEN" => /\ Sound(mark, see.signal, m, Put("UNPRICED")) /\ Moves(p, Put("UNPRICED"))
                          /\ Put("UNPRICED").status = "UNPRICED"
  <2> HIDE DEF Put
  <2> QED  BY <1>5
<1>51. p.status = "UNSETTLED" => /\ Sound(mark, see.signal, m, Put("CLOSED")) /\ Moves(p, Put("CLOSED"))
                               /\ Put("CLOSED").status = "CLOSED"
  <2> HIDE DEF Put
  <2> QED  BY <1>5
<1>6. CASE p.status = "UNSETTLED" /\ see.now >= p.due
  <2>1. q = Put("CLOSED")
    BY <1>6 DEF Exits
  <2> HIDE DEF Put, q
  <2>2. Sound(mark, see.signal, m, q) /\ Moves(p, q) /\ q.status = "CLOSED"
    BY <1>51, <1>6, <2>1
  <2> QED  BY <2>2 DEF q
<1>7. CASE p.status = "OPEN" /\ (see.now >= SessionEnd(m) \/ see.signal[m].reason = "DATA_GAP")
  <2>1. q = Put("UNPRICED")
    <3>1. see.now >= SessionEnd(m) => ~(see.now < SessionEnd(m))
      BY <1>2, <1>3, Ends
    <3> QED  BY <1>7, <3>1 DEF Exits
  <2> HIDE DEF Put, q
  <2>2. Sound(mark, see.signal, m, q) /\ Moves(p, q) /\ q.status = "UNPRICED"
    BY <1>50, <1>7, <2>1
  <2> QED  BY <2>2 DEF q
<1>8. CASE p.status = "OPEN" /\ see.now < SessionEnd(m) /\ see.signal[m].reason = "EXIT"
  <2>0. q = IF p.repaired /\ ~Completed(see, m) THEN p
            ELSE IF Missed(see, m, p) THEN [p EXCEPT !.status = "UNPRICED"]
            ELSE Sold(see, m, Requested(see, p))
    <3>1. ~(see.now >= SessionEnd(m))
      BY <1>1, <1>2, <1>3, <1>8, Ends
    <3> QED  BY <1>8, <3>1 DEF Exits
  <2> HIDE DEF q
  <2>1. CASE p.repaired /\ ~Completed(see, m)
    BY <1>3, <1>4, <1>8, <2>0, <2>1 DEF q
  <2>2. CASE ~(p.repaired /\ ~Completed(see, m)) /\ Missed(see, m, p)
    <3>1. q = Put("UNPRICED")
      BY <2>0, <2>2
    <3> HIDE DEF Put
    <3>2. Sound(mark, see.signal, m, q) /\ Moves(p, q) /\ q.status = "UNPRICED"
      BY <1>50, <1>8, <3>1
    <3> QED  BY <3>2 DEF q
  <2>3. CASE ~(p.repaired /\ ~Completed(see, m)) /\ ~Missed(see, m, p)
    <3> DEFINE r == Requested(see, p)
    <3>1. /\ r \in Positions /\ r.status = "OPEN" /\ r.asked # None
          /\ r = [p EXCEPT !.asked = r.asked] /\ r.asked = (IF p.asked = None THEN see.now ELSE p.asked)
      BY <1>1, <1>2, <1>8 DEF Requested, Positions
    <3> HIDE DEF r
    <3>2. /\ r.debit = p.debit /\ r.sale = p.sale /\ r.exit = p.exit /\ r.status = p.status
          /\ r.written = p.written /\ r.request = p.request /\ r.entry = p.entry
          /\ r.repaired = p.repaired /\ r.seen = p.seen
          /\ r.entryQuote = p.entryQuote /\ r.exitQuote = p.exitQuote
      BY <1>1, <1>8, <3>1 DEF Positions
    <3>3. /\ see.signal[m].at + 1 > p.entry
          /\ p.repaired /\ p.asked = None => see.now \in (see.signal[m].at + 1)..(see.signal[m].at + 1 + ExitDeadline)
          /\ ~p.repaired => see.now <= see.signal[m].at + ExitDeadline
      <4>1. p.entry \in Int /\ p.repaired \in BOOLEAN
        BY <1>1 DEF Positions
      <4> QED  BY <1>2, <2>3, <4>1, Policy DEF Completed, Missed, EventEnd
    <3>4. Unsold(r) /\ Filled(mark, m, r)
      BY <1>1, <3>2 DEF Unsold, Filled
    <3>5. Exited(mark, see.signal, m, r)
      <4>1. r.exit = None
        BY <1>1, <1>8, <3>2 DEF Unsold
      <4> QED  BY <4>1 DEF Exited
    <3>6. Asked(see.signal, m, r)
      BY <1>1, <1>8, <3>1, <3>2, <3>3 DEF Asked
    <3>7. Sound(mark, see.signal, m, r)
      BY <3>1, <3>4, <3>5, <3>6 DEF Sound
    <3>8. Sound(mark, see.signal, m, Sold(see, m, r)) /\ Moves(r, Sold(see, m, r))
      BY <1>3, <1>8, <3>1, <3>2, <3>3, <3>7, SoldSound
    <3>9. q = Sold(see, m, r)
      BY <2>0, <2>3 DEF r
    <3>10. Moves(p, q)
      BY <1>8, <3>2, <3>8, <3>9 DEF Moves
    <3> QED  BY <1>3, <1>8, <3>8, <3>9, <3>10 DEF q
  <2> QED  BY <2>1, <2>2, <2>3
<1>9. CASE p.status = "OPEN" /\ see.now < SessionEnd(m) /\ see.signal[m].reason = "OPEN"
  <2>0. q = IF Fresh(see, m, p.entry)
            THEN [p EXCEPT !.value = see.market[m], !.valueAt = see.now - see.age] ELSE p
    <3>1. ~(see.now >= SessionEnd(m))
      BY <1>1, <1>2, <1>3, <1>9, Ends
    <3> QED  BY <1>9, <3>1 DEF Exits
  <2> HIDE DEF q
  <2>1. CASE ~Fresh(see, m, p.entry)
    BY <1>3, <1>4, <1>9, <2>0, <2>1 DEF q
  <2>2. CASE Fresh(see, m, p.entry)
    <3>1. q = [p EXCEPT !.value = see.market[m], !.valueAt = see.now - see.age]
      BY <2>0, <2>2
    <3>2. q \in Positions
      <4>1. see.now - see.age \in Int
        BY <1>2
      <4> QED  BY <1>1, <1>2, <3>1, <4>1 DEF Positions
    <3>3. /\ q.debit = p.debit /\ q.sale = p.sale /\ q.exit = p.exit /\ q.status = p.status
          /\ q.written = p.written /\ q.request = p.request /\ q.entry = p.entry
          /\ q.repaired = p.repaired /\ q.asked = p.asked /\ q.seen = p.seen
          /\ q.entryQuote = p.entryQuote /\ q.exitQuote = p.exitQuote
      BY <1>1, <3>1 DEF Positions
    <3>4. Unsold(q)
      BY <1>1, <3>3 DEF Unsold
    <3>5. Asked(see.signal, m, q) /\ Filled(mark, m, q) /\ Exited(mark, see.signal, m, q)
      BY <1>1, <3>3 DEF Asked, Filled, Exited
    <3>6. Moves(p, q)
      BY <1>9, <3>3 DEF Moves
    <3> QED  BY <1>3, <1>9, <3>2, <3>4, <3>5, <3>6 DEF Sound, q
  <2> QED  BY <2>1, <2>2
<1>10. CASE p.status # "OPEN" /\ ~(p.status = "UNSETTLED" /\ see.now >= p.due)
  <2>1. q = p
    BY <1>10 DEF Exits
  <2> QED  BY <1>4, <1>10, <2>1
<1>11. see.now >= SessionEnd(m) \/ see.now < SessionEnd(m)
  BY <1>2, <1>3, Ends
<1> QED  BY <1>2, <1>6, <1>7, <1>8, <1>9, <1>10, <1>11

\* What the first pass keeps of a position, and that it leaves nothing overdue.
LEMMA KeptSound ==
  ASSUME mark \in MarkRows, NEW see \in Sights, NEW m \in Marks, NEW p, Sound(mark, see.signal, m, p)
  PROVE  /\ Sound(mark, see.signal, m, Kept(see, m, p)) /\ Moves(p, Kept(see, m, p))
         /\ Timely(mark, m, see.now, Kept(see, m, p))
<1> DEFINE r == Exits(see, m, p)
           q == Kept(see, m, p)
<1>1. /\ Sound(mark, see.signal, m, r) /\ Moves(p, r)
      /\ r.status = "OPEN" => see.now < EndOf(mark, m)
  BY ExitsSound
<1>2. q = IF r.status \in HELD /\ Over(see, m) THEN [r EXCEPT !.status = "ENDED_UNRESOLVED"] ELSE r
  BY DEF Kept, Ended
<1>3. /\ see.now \in Nat /\ EndOf(mark, m) \in Int /\ FinalOf(mark, m) \in Int
      /\ Over(see, m) <=> see.now >= FinalOf(mark, m)
  BY Ends DEF Sights, Over, FinalEnd, FinalOf, Created
<1>4. r \in Positions /\ Unsold(r) /\ Asked(see.signal, m, r) /\ Filled(mark, m, r) /\ Exited(mark, see.signal, m, r)
  BY <1>1 DEF Sound
<1> HIDE DEF r, q
<1>5. CASE ~(r.status \in HELD /\ Over(see, m))
  <2>1. q = r
    BY <1>2, <1>5
  <2>2. Timely(mark, m, see.now, q)
    BY <1>1, <1>3, <1>5, <2>1 DEF Timely
  <2> QED  BY <1>1, <2>1, <2>2 DEF q
<1>6. CASE r.status \in HELD /\ Over(see, m)
  <2>1. q = [r EXCEPT !.status = "ENDED_UNRESOLVED"]
    BY <1>2, <1>6
  <2>2. q \in Positions
    BY <1>4, <2>1 DEF Positions, Exposed
  <2>3. /\ q.status = "ENDED_UNRESOLVED" /\ q.debit = r.debit /\ q.sale = r.sale /\ q.exit = r.exit
        /\ q.written = r.written /\ q.request = r.request /\ q.entry = r.entry
        /\ q.repaired = r.repaired /\ q.asked = r.asked /\ q.seen = r.seen
        /\ q.entryQuote = r.entryQuote /\ q.exitQuote = r.exitQuote
    BY <1>4, <2>1 DEF Positions
  <2>4. Unsold(q) /\ Asked(see.signal, m, q) /\ Filled(mark, m, q) /\ Exited(mark, see.signal, m, q)
    BY <1>4, <1>6, <2>3 DEF Unsold, Asked, Filled, Exited, HELD
  <2>5. Moves(p, q)
    BY <1>1, <1>6, <2>3 DEF Moves, HELD
  <2>6. Timely(mark, m, see.now, q)
    BY <2>3 DEF Timely, HELD
  <2> QED  BY <2>2, <2>4, <2>5, <2>6 DEF Sound, q
<1> QED  BY <1>5, <1>6

\* The fields of a posted book.
LEMMA PostedFields ==
  ASSUME NEW b \in BookType, NEW m \in Marks, NEW q \in Positions
  PROVE  LET c == Posted(b, m, q) IN
         /\ c \in BookType /\ c.pos = [b.pos EXCEPT ![m] = q]
         /\ c.settled = b.settled + Cash(b.pos[m], q)
         /\ c.unsettled = b.unsettled + Claim(b.pos[m], q)
         /\ c.realized = b.realized + Result(b.pos[m], q)
         /\ c.processed = b.processed /\ c.watermark = b.watermark
<1> DEFINE x == Cash(b.pos[m], q)
           y == Claim(b.pos[m], q)
           z == Result(b.pos[m], q)
           c == Posted(b, m, q)
<1>1. x \in Int /\ y \in Int /\ z \in Int
  <2>1. q.debit \in Int /\ q.sale \in Int /\ CloseFee \in Int
    BY Policy DEF Positions
  <2> QED  BY <2>1 DEF Cash, Claim, Result
<1>2. c = [b EXCEPT !.pos[m] = q, !.settled = @ + x, !.unsettled = @ + y, !.realized = @ + z]
  BY DEF Posted
<1> HIDE DEF x, y, z, c
<1>3. /\ c.pos = [b.pos EXCEPT ![m] = q] /\ c.settled = b.settled + x
      /\ c.unsettled = b.unsettled + y /\ c.realized = b.realized + z
      /\ c.processed = b.processed /\ c.watermark = b.watermark
  BY <1>2 DEF BookType
<1>4. c = [processed |-> b.processed, watermark |-> b.watermark, settled |-> b.settled + x,
           unsettled |-> b.unsettled + y, realized |-> b.realized + z, pos |-> [b.pos EXCEPT ![m] = q]]
  BY <1>2 DEF BookType
<1>5. /\ b.processed \in Int /\ b.watermark \in Int /\ b.settled + x \in Int
      /\ b.unsettled + y \in Int /\ b.realized + z \in Int /\ [b.pos EXCEPT ![m] = q] \in [Marks -> Positions]
  BY <1>1 DEF BookType
<1>6. c \in BookType
  BY <1>4, <1>5 DEF BookType
<1> QED  BY <1>3, <1>6 DEF x, y, z, c

\* After the first pass every position is kept, and the ledger follows.
LEMMA ExitPassSound ==
  ASSUME mark \in MarkRows, NEW see \in Sights, Solid(book),
         \A m \in Marks : Sound(mark, see.signal, m, book.pos[m])
  PROVE  LET b == ExitPass(see) IN
         /\ Solid(b) /\ b.watermark = book.watermark
         /\ \A m \in Marks : b.pos[m] = Kept(see, m, book.pos[m])
<1> DEFINE N == Cardinality(Marks)
<1>0. N \in Nat /\ Marks = 1..N
  BY MarksFinite
<1>1. PICK f : Exiting(f, see, N) /\ ExitPass(see) = f[N]
  BY ExitPassRuns
<1> DEFINE Through(b, n) ==
             /\ Solid(b) /\ b.watermark = book.watermark
             /\ \A m \in Marks : b.pos[m] = IF m <= n THEN Kept(see, m, book.pos[m]) ELSE book.pos[m]
           Good == {n \in 0..N : Through(f[n], n)}
<1> HIDE DEF N
<1>2. 0 \in Good
  <2>1. f[0] = book
    BY <1>0, <1>1 DEF Exiting
  <2>2. \A m \in Marks : ~(m <= 0)
    BY <1>0
  <2> QED  BY <1>0, <2>1, <2>2
<1>3. ASSUME NEW n \in 1..N, n - 1 \in Good PROVE n \in Good
  <2> DEFINE b == f[n - 1]
             q == Kept(see, n, b.pos[n])
             c == f[n]
  <2>1. Through(b, n - 1)
    BY <1>3
  <2>2. c = Posted(b, n, q)
    BY <1>0, <1>1, <1>3 DEF Exiting, Processed
  <2>3. n \in Marks /\ b.pos[n] = book.pos[n] /\ b \in BookType
    BY <1>0, <1>3, <2>1 DEF Solid
  <2>4. Sound(mark, see.signal, n, q) /\ Moves(book.pos[n], q)
    BY <2>3, KeptSound
  <2> HIDE DEF b, c
  <2>5. q = Kept(see, n, book.pos[n])
    BY <2>3
  <2> HIDE DEF q
  <2>6. q \in Positions /\ Unsold(q)
    BY <2>4 DEF Sound
  <2>7. /\ c \in BookType /\ c.pos = [b.pos EXCEPT ![n] = q]
        /\ c.settled = b.settled + Cash(b.pos[n], q)
        /\ c.unsettled = b.unsettled + Claim(b.pos[n], q)
        /\ c.realized = b.realized + Result(b.pos[n], q)
        /\ c.watermark = b.watermark
    BY <2>2, <2>3, <2>6, PostedFields
  <2>8. Step(b, b.pos[n], q)
    BY <2>3, <2>4 DEF Moves, Step, HELD, Exposed
  <2>9. Solid(b)
    BY <2>1
  <2>10. Solid(c)
    BY <2>3, <2>6, <2>7, <2>8, <2>9, LedgerStep
  <2>11. ASSUME NEW m \in Marks
         PROVE  c.pos[m] = IF m <= n THEN Kept(see, m, book.pos[m]) ELSE book.pos[m]
    <3>1. c.pos[m] = IF m = n THEN q ELSE b.pos[m]
      BY <2>3, <2>7 DEF BookType
    <3>2. b.pos[m] = IF m <= n - 1 THEN Kept(see, m, book.pos[m]) ELSE book.pos[m]
      BY <2>1
    <3>3. m \in Nat /\ n \in Nat
      BY <1>0, <1>3
    <3> QED  BY <2>5, <3>1, <3>2, <3>3
  <2>12. Through(c, n)
    BY <2>1, <2>7, <2>10, <2>11
  <2> QED  BY <1>0, <1>3, <2>12 DEF c
<1> HIDE DEF Good
<1>4. N \in Good
  BY <1>0, <1>2, <1>3, NumbersInduct
<1>5. Through(f[N], N)
  BY <1>4 DEF Good
<1> QED  BY <1>0, <1>1, <1>5

\* Discovery adds positions and changes no money.
LEMMA KnownSound ==
  ASSUME NEW see \in Sights, NEW b, Solid(b),
         \A m \in Marks : /\ Sound(see.mark, see.signal, m, b.pos[m])
                          /\ Timely(see.mark, m, see.now, b.pos[m])
                          /\ m > book.watermark => b.pos[m].status = "NONE"
  PROVE  LET k == Known(see, b) IN
         /\ Solid(k) /\ k.processed = see.now
         /\ k.watermark = Cardinality({m \in Marks : see.mark[m].created # None})
         /\ \A m \in Marks :
              /\ Sound(see.mark, see.signal, m, k.pos[m]) /\ Timely(see.mark, m, see.now, k.pos[m])
              /\ \/ k.pos[m] = b.pos[m]
                 \/ /\ b.pos[m].status = "NONE" /\ k.pos[m].status = "PENDING_ENTRY"
                    /\ k.pos[m].written = None /\ b.pos[m].written = None
                    /\ see.mark[m].created # None
<1> DEFINE k == Known(see, b)
           w == Cardinality({m \in Marks : see.mark[m].created # None})
           new == [NoPos EXCEPT !.status = "PENDING_ENTRY", !.seen = see.now]
<1>1. b \in BookType /\ see.now \in Nat /\ w \in Nat
  <2>1. {m \in Marks : see.mark[m].created # None} \in SUBSET Marks
    OBVIOUS
  <2> QED  BY <2>1, MarksFinite DEF Solid, Sights
<1>2. k = [b EXCEPT !.pos = [m \in Marks |-> Discovered(see, m, b.pos[m])], !.watermark = w,
                    !.processed = see.now]
  BY DEF Known
<1> HIDE DEF k, w
<1>3. /\ new \in Positions /\ new.status = "PENDING_ENTRY" /\ new.written = None /\ new.entry = None
      /\ new.exit = None /\ new.asked = None /\ new.sale = 0
  <2>1. see.now \in Int /\ None \in Int /\ {} \in SUBSET requests /\ NoQuote \in Quotes /\ 0 \in Nat
    BY <1>1 DEF None, NoQuote, Quotes
  <2> QED  BY <2>1 DEF NoPos, Positions, Quotes
<1> HIDE DEF new
<1>4. ASSUME NEW m \in Marks
      PROVE  /\ \/ k.pos[m] = b.pos[m]
                \/ b.pos[m].status = "NONE" /\ k.pos[m] = new /\ see.mark[m].created # None
             /\ Sound(see.mark, see.signal, m, k.pos[m]) /\ Timely(see.mark, m, see.now, k.pos[m])
  <2>1. k.pos[m] = Discovered(see, m, b.pos[m])
    BY <1>1, <1>2 DEF BookType
  <2>2. \/ k.pos[m] = b.pos[m]
        \/ b.pos[m].status = "NONE" /\ k.pos[m] = new /\ see.mark[m].created # None
    <3>1. m > book.watermark => b.pos[m].status = "NONE"
      OBVIOUS
    <3>2. Discovered(see, m, b.pos[m]) =
            IF m > book.watermark /\ see.mark[m].created # None THEN new ELSE b.pos[m]
      BY DEF Discovered, new
    <3> QED  BY <2>1, <3>1, <3>2
  <2>3. Sound(see.mark, see.signal, m, new) /\ Timely(see.mark, m, see.now, new)
    BY <1>3 DEF Sound, Timely, Unsold, Asked, Filled, Exited, HELD
  <2> QED  BY <2>2, <2>3
<1>5. /\ k \in BookType /\ k.settled = b.settled /\ k.unsettled = b.unsettled /\ k.realized = b.realized
      /\ k.processed = see.now /\ k.watermark = w
  <2>1. \A m \in Marks : k.pos[m] \in Positions
    BY <1>4 DEF Sound
  <2>2. k.pos = [m \in Marks |-> Discovered(see, m, b.pos[m])]
    BY <1>1, <1>2 DEF BookType
  <2>3. k.pos \in [Marks -> Positions]
    BY <2>1, <2>2
  <2>4. k = [processed |-> see.now, watermark |-> w, settled |-> b.settled, unsettled |-> b.unsettled,
             realized |-> b.realized, pos |-> k.pos]
    BY <1>1, <1>2 DEF BookType
  <2>5. see.now \in Int /\ w \in Int
    BY <1>1
  <2> QED  BY <1>1, <2>3, <2>4, <2>5 DEF BookType
<1>6. ASSUME NEW S, S \in {Exposed, HELD, {"UNSETTLED"}}
      PROVE  In(k, S) = In(b, S) /\ Debits(k, In(k, S)) = Debits(b, In(b, S))
             /\ Sales(k, In(k, S)) = Sales(b, In(b, S))
  <2>1. "NONE" \notin S /\ "PENDING_ENTRY" \notin S
    BY <1>6 DEF Exposed, HELD
  <2>2. \A m \in Marks : /\ k.pos[m].status \in S <=> b.pos[m].status \in S
                         /\ b.pos[m].status \in S => k.pos[m] = b.pos[m]
    BY <1>3, <1>4, <2>1
  <2>3. In(k, S) = In(b, S)
    BY <2>2 DEF In
  <2> DEFINE R == In(b, S)
             kd == [n \in Marks |-> k.pos[n].debit]
             bd == [n \in Marks |-> b.pos[n].debit]
             ks == [n \in Marks |-> k.pos[n].sale]
             bs == [n \in Marks |-> b.pos[n].sale]
  <2>4. R \in SUBSET Marks /\ \A n \in R : kd[n] = bd[n] /\ ks[n] = bs[n]
    BY <2>2 DEF In
  <2>5. IsFiniteSet(R)
    BY <2>4, MarksFinite
  <2> HIDE DEF R, kd, bd, ks, bs
  <2>6. Total(kd, R) = Total(bd, R) /\ Total(ks, R) = Total(bs, R)
    BY <2>4, <2>5, TotalSame
  <2> QED  BY <2>3, <2>6 DEF Debits, Sales, R, kd, bd, ks, bs
<1>7. Solid(k)
  <2>1. \A m \in Marks : Unsold(k.pos[m])
    BY <1>4 DEF Sound
  <2>2. /\ In(k, HELD) = In(b, HELD) /\ Debits(k, In(k, Exposed)) = Debits(b, In(b, Exposed))
        /\ Sales(k, In(k, {"UNSETTLED"})) = Sales(b, In(b, {"UNSETTLED"}))
    BY <1>6
  <2>3. HeldFees(k) = HeldFees(b)
    BY <2>2 DEF HeldFees
  <2> QED  BY <1>5, <2>1, <2>2, <2>3 DEF Solid
<1>8. ASSUME NEW m \in Marks, b.pos[m].status = "NONE" PROVE b.pos[m].written = None
  BY <1>8 DEF Solid, Unsold
<1> QED  BY <1>3, <1>4, <1>5, <1>7, <1>8 DEF k, w

\* A tick of the session is before the session's end.
LEMMA BeforeClose ==
  ASSUME NEW t \in Nat, Regular(t)
  PROVE  t < Day(t) * DayTicks + Closing
<1>1. t = DayTicks * (t \div DayTicks) + (t % DayTicks) /\ t \div DayTicks \in Int /\ t % DayTicks \in Nat
  BY Policy
<1>2. DayTicks * (t \div DayTicks) = (t \div DayTicks) * DayTicks
  BY <1>1, Policy
<1> QED  BY <1>1, <1>2, Policy DEF Regular, Day

\* One entry: skipped, filled by the account's rules, or left for a later pass.
LEMMA EnteredSound ==
  ASSUME NEW see \in Sights, NEW b, Solid(b), NEW m \in Marks,
         Sound(see.mark, see.signal, m, b.pos[m]), Timely(see.mark, m, see.now, b.pos[m])
  PROVE  LET c == Entered(see, b, m) IN
         /\ Solid(c) /\ c.processed = b.processed /\ c.watermark = b.watermark
         /\ \A n \in Marks : n # m => c.pos[n] = b.pos[n]
         /\ Sound(see.mark, see.signal, m, c.pos[m]) /\ Timely(see.mark, m, see.now, c.pos[m])
         /\ \/ c.pos[m] = b.pos[m]
            \/ /\ b.pos[m].status = "PENDING_ENTRY" /\ c.pos[m].status \in {"SKIPPED", "OPEN"}
               /\ c.pos[m].written = b.pos[m].written
<1> DEFINE p == b.pos[m]
           x == see.market[m]
           refused == \/ ~see.mark[m].fits \/ see.signal[m].reason # "OPEN"
                      \/ see.now - see.mark[m].created > EntryDeadline
                      \/ Day(see.mark[m].created) # Day(see.now) \/ ~Regular(see.now)
                      \/ ~SlotFree(b)
           quoted == see.feed = "healthy" /\ Fresh(see, m, p.seen + Latency)
           skip == [p EXCEPT !.status = "SKIPPED"]
           fill == [p EXCEPT !.status = "OPEN", !.entry = see.now, !.debit = Debit(x),
                             !.entryQuote = see.now - see.age, !.value = x,
                             !.valueAt = see.now - see.age]
           c == Entered(see, b, m)
<1>1. /\ b \in BookType /\ p \in Positions /\ Unsold(p)
      /\ Asked(see.signal, m, p) /\ Filled(see.mark, m, p) /\ Exited(see.mark, see.signal, m, p)
  BY DEF Sound, Solid, BookType
<1>2. c = IF p.status # "PENDING_ENTRY" THEN b
          ELSE IF refused \/ (quoted /\ ~Affordable(b, x)) THEN [b EXCEPT !.pos[m].status = "SKIPPED"]
          ELSE IF ~quoted THEN b ELSE Posted(b, m, fill)
  BY DEF Entered
<1>3. CASE c = b
  BY <1>3
<1>4. CASE p.status = "PENDING_ENTRY" /\ c = [b EXCEPT !.pos[m].status = "SKIPPED"]
  <2>1. /\ c.pos = [b.pos EXCEPT ![m] = skip]
        /\ c.settled = b.settled /\ c.unsettled = b.unsettled /\ c.realized = b.realized
        /\ c.processed = b.processed /\ c.watermark = b.watermark
    BY <1>1, <1>4 DEF BookType
  <2>2. /\ skip \in Positions /\ skip.status = "SKIPPED" /\ skip.written = p.written
        /\ skip.entry = p.entry /\ skip.sale = p.sale /\ skip.exit = p.exit /\ skip.asked = p.asked
        /\ skip.repaired = p.repaired
    BY <1>1 DEF Positions
  <2>3. c = [processed |-> b.processed, watermark |-> b.watermark, settled |-> b.settled,
             unsettled |-> b.unsettled, realized |-> b.realized, pos |-> [b.pos EXCEPT ![m] = skip]]
    BY <1>1, <1>4 DEF BookType
  <2> HIDE DEF c, skip
  <2>4. [b.pos EXCEPT ![m] = skip] \in [Marks -> Positions]
    BY <1>1, <2>2 DEF BookType
  <2>5. c \in BookType
    BY <1>1, <2>3, <2>4 DEF BookType
  <2>6. Unsold(skip) /\ Asked(see.signal, m, skip) /\ Filled(see.mark, m, skip)
    BY <1>1, <1>4, <2>2 DEF Unsold, Asked, Filled
  <2>7. Exited(see.mark, see.signal, m, skip)
    BY <1>1, <1>4, <2>2 DEF Unsold, Exited
  <2>8. Timely(see.mark, m, see.now, skip)
    BY <2>2 DEF Timely, HELD
  <2>9. Cash(p, skip) = 0 /\ Claim(p, skip) = 0 /\ Result(p, skip) = 0
    BY <1>4, <2>2 DEF Cash, Claim, Result, Buys, Sells, Pays
  <2>10. b.settled \in Int /\ b.unsettled \in Int /\ b.realized \in Int
    BY <1>1 DEF BookType
  <2>11. Step(b, p, skip)
    BY <1>4, <2>2 DEF Step
  <2>12. /\ c.settled = b.settled + Cash(p, skip) /\ c.unsettled = b.unsettled + Claim(p, skip)
         /\ c.realized = b.realized + Result(p, skip)
    BY <2>1, <2>9, <2>10
  <2>13. Solid(c)
    BY <2>1, <2>2, <2>5, <2>6, <2>11, <2>12, LedgerStep
  <2>14. c.pos[m] = skip /\ \A n \in Marks : n # m => c.pos[n] = b.pos[n]
    BY <1>1, <2>1 DEF BookType
  <2>15. Sound(see.mark, see.signal, m, skip)
    BY <2>2, <2>6, <2>7 DEF Sound
  <2> QED  BY <1>4, <2>1, <2>2, <2>8, <2>13, <2>14, <2>15 DEF c
<1>5. CASE /\ p.status = "PENDING_ENTRY" /\ ~refused /\ quoted /\ Affordable(b, x)
           /\ c = Posted(b, m, fill)
  <2>1. /\ see.now \in Nat /\ see.age \in Nat /\ x \in Quotes /\ see.now - see.age \in Int
        /\ see.now # None /\ see.mark \in MarkRows
    BY DEF Sights, None
  <2>2. Debit(x) \in Nat
    BY <2>1, Policy DEF Debit, Quotes
  <2>3. fill \in Positions
    <3>1. "OPEN" \in Exposed /\ see.now \in Int
      BY <2>1 DEF Exposed, HELD
    <3> QED  BY <1>1, <2>1, <2>2, <3>1 DEF Positions
  <2>4. /\ fill.status = "OPEN" /\ fill.entry = see.now /\ fill.debit = Debit(x)
        /\ fill.entryQuote = see.now - see.age /\ fill.seen = p.seen
        /\ fill.sale = p.sale /\ fill.exit = p.exit /\ fill.asked = p.asked
        /\ fill.written = p.written /\ fill.repaired = p.repaired
    BY <1>1 DEF Positions
  <2>5. /\ see.signal[m].reason = "OPEN" /\ see.now - see.mark[m].created <= EntryDeadline
        /\ Day(see.mark[m].created) = Day(see.now) /\ Regular(see.now) /\ SlotFree(b)
    <3>1. see.mark[m].created \in Int
      BY <2>1 DEF MarkRows
    <3> QED  BY <1>5, <2>1, <3>1, Policy
  <2>6. /\ see.age <= QuoteAge /\ see.now - see.age >= p.seen + Latency /\ p.seen \in Int
    BY <1>1, <1>5 DEF Fresh, Positions
  <2>7. Debit(x) + CloseFee <= b.settled - HeldFees(b)
    BY <1>5 DEF Affordable
  <2>8. see.now < EndOf(see.mark, m)
    BY <2>1, <2>5, BeforeClose DEF EndOf
  <2> HIDE DEF fill, c, quoted, refused
  <2>9. Filled(see.mark, m, fill)
    <3>1. see.mark[m].created \in Int
      BY <2>1 DEF MarkRows
    <3>2. p.seen < see.now - see.age /\ see.now - see.age \in (see.now - QuoteAge)..see.now
      BY <2>1, <2>6, Policy
    <3>3. see.now <= see.mark[m].created + EntryDeadline
      BY <2>1, <2>5, <3>1, Policy
    <3> QED  BY <2>4, <2>8, <3>2, <3>3 DEF Filled
  <2>10. Unsold(fill) /\ Asked(see.signal, m, fill)
    BY <1>1, <1>5, <2>4 DEF Unsold, Asked
  <2>11. Exited(see.mark, see.signal, m, fill)
    BY <1>1, <1>5, <2>4 DEF Unsold, Exited
  <2>12. Timely(see.mark, m, see.now, fill)
    BY <2>1, <2>4, <2>8, Ends DEF Timely
  <2>13. Step(b, p, fill)
    BY <1>5, <2>4, <2>5, <2>7 DEF Step
  <2>14. /\ c \in BookType /\ c.pos = [b.pos EXCEPT ![m] = fill]
         /\ c.settled = b.settled + Cash(p, fill)
         /\ c.unsettled = b.unsettled + Claim(p, fill)
         /\ c.realized = b.realized + Result(p, fill)
         /\ c.processed = b.processed /\ c.watermark = b.watermark
    BY <1>1, <1>5, <2>3, PostedFields
  <2>15. Solid(c)
    BY <2>3, <2>10, <2>13, <2>14, LedgerStep
  <2>16. c.pos[m] = fill /\ \A n \in Marks : n # m => c.pos[n] = b.pos[n]
    BY <1>1, <2>14 DEF BookType
  <2>17. Sound(see.mark, see.signal, m, fill)
    BY <2>3, <2>9, <2>10, <2>11 DEF Sound
  <2> QED  BY <1>5, <2>4, <2>12, <2>14, <2>15, <2>16, <2>17 DEF c
<1> QED  BY <1>2, <1>3, <1>4, <1>5

\* After the last pass: every entry by the rules, the cash and the slots there.
LEMMA EntryPassSound ==
  ASSUME NEW see \in Sights, NEW k, Solid(k),
         \A m \in Marks : /\ Sound(see.mark, see.signal, m, k.pos[m])
                          /\ Timely(see.mark, m, see.now, k.pos[m])
  PROVE  LET e == EntryPass(see, k) IN
         /\ Solid(e) /\ e.processed = k.processed /\ e.watermark = k.watermark
         /\ \A m \in Marks :
              /\ Sound(see.mark, see.signal, m, e.pos[m]) /\ Timely(see.mark, m, see.now, e.pos[m])
              /\ \/ e.pos[m] = k.pos[m]
                 \/ /\ k.pos[m].status = "PENDING_ENTRY" /\ e.pos[m].status \in {"SKIPPED", "OPEN"}
                    /\ e.pos[m].written = k.pos[m].written
<1> DEFINE N == Cardinality(Marks)
<1>0. N \in Nat /\ Marks = 1..N
  BY MarksFinite
<1>1. PICK f : Entering(f, see, k, N) /\ EntryPass(see, k) = f[N]
  BY EntryPassRuns
<1> DEFINE Through(e) ==
             /\ Solid(e) /\ e.processed = k.processed /\ e.watermark = k.watermark
             /\ \A m \in Marks :
                  /\ Sound(see.mark, see.signal, m, e.pos[m]) /\ Timely(see.mark, m, see.now, e.pos[m])
                  /\ \/ e.pos[m] = k.pos[m]
                     \/ /\ k.pos[m].status = "PENDING_ENTRY" /\ e.pos[m].status \in {"SKIPPED", "OPEN"}
                        /\ e.pos[m].written = k.pos[m].written
           Good == {n \in 0..N : Through(f[n])}
<1> HIDE DEF N
<1>2. 0 \in Good
  <2>1. f[0] = k
    BY <1>0, <1>1 DEF Entering
  <2>2. Through(k)
    OBVIOUS
  <2> QED  BY <1>0, <2>1, <2>2
<1>3. ASSUME NEW n \in 1..N, n - 1 \in Good PROVE n \in Good
  <2> DEFINE b == f[n - 1]
             c == f[n]
  <2>1. Through(b)
    BY <1>3
  <2>2. c = Entered(see, b, n) /\ n \in Marks
    BY <1>0, <1>1, <1>3 DEF Entering
  <2> HIDE DEF b, c
  <2>3. Solid(b) /\ Sound(see.mark, see.signal, n, b.pos[n]) /\ Timely(see.mark, n, see.now, b.pos[n])
    BY <2>1, <2>2
  <2>4. /\ Solid(c) /\ c.processed = b.processed /\ c.watermark = b.watermark
        /\ \A m \in Marks : m # n => c.pos[m] = b.pos[m]
        /\ Sound(see.mark, see.signal, n, c.pos[n]) /\ Timely(see.mark, n, see.now, c.pos[n])
        /\ \/ c.pos[n] = b.pos[n]
           \/ /\ b.pos[n].status = "PENDING_ENTRY" /\ c.pos[n].status \in {"SKIPPED", "OPEN"}
              /\ c.pos[n].written = b.pos[n].written
    BY <2>2, <2>3, EnteredSound
  <2>5. ASSUME NEW m \in Marks
        PROVE  /\ Sound(see.mark, see.signal, m, c.pos[m]) /\ Timely(see.mark, m, see.now, c.pos[m])
               /\ \/ c.pos[m] = k.pos[m]
                  \/ /\ k.pos[m].status = "PENDING_ENTRY" /\ c.pos[m].status \in {"SKIPPED", "OPEN"}
                     /\ c.pos[m].written = k.pos[m].written
    <3>1. CASE m # n
      <4>1. c.pos[m] = b.pos[m]
        BY <2>4, <3>1
      <4> QED  BY <2>1, <4>1
    <3>2. CASE m = n
      <4>1. \/ b.pos[n] = k.pos[n]
            \/ /\ k.pos[n].status = "PENDING_ENTRY" /\ b.pos[n].status \in {"SKIPPED", "OPEN"}
               /\ b.pos[n].written = k.pos[n].written
        BY <2>1, <2>2
      <4> QED  BY <2>4, <3>2, <4>1
    <3> QED  BY <3>1, <3>2
  <2>6. Through(c)
    BY <2>1, <2>4, <2>5
  <2> QED  BY <1>0, <1>3, <2>6 DEF c
<1> HIDE DEF Good
<1>4. N \in Good
  BY <1>0, <1>2, <1>3, NumbersInduct
<1>5. Through(f[N])
  BY <1>4 DEF Good
<1> QED  BY <1>1, <1>5

\* A whole pass, given that the marks of its positions are those it sees.
LEMMA AdvancedSound ==
  ASSUME mark \in MarkRows, NEW see \in Sights, Solid(book),
         \A m \in Marks : /\ Sound(mark, see.signal, m, book.pos[m])
                          /\ book.pos[m].status # "NONE" => see.mark[m] = mark[m]
                          /\ m > book.watermark => book.pos[m].status = "NONE"
  PROVE  LET a == Advanced(see) IN
         /\ Solid(a) /\ a.processed = see.now
         /\ a.watermark = Cardinality({m \in Marks : see.mark[m].created # None})
         /\ \A m \in Marks :
              /\ Sound(see.mark, see.signal, m, a.pos[m]) /\ Timely(see.mark, m, see.now, a.pos[m])
              /\ a.pos[m].written = book.pos[m].written
              /\ a.pos[m].status # "NONE" => book.pos[m].status # "NONE" \/ see.mark[m].created # None
              /\ book.pos[m].status = "WRITTEN_OFF" => a.pos[m] = book.pos[m]
<1> DEFINE b == ExitPass(see)
           k == Known(see, b)
           a == Advanced(see)
<1>1. /\ Solid(b) /\ b.watermark = book.watermark
      /\ \A m \in Marks : b.pos[m] = Kept(see, m, book.pos[m])
  BY ExitPassSound
<1>2. a = EntryPass(see, k)
  BY DEF Advanced
<1> HIDE DEF a, k, b
<1>3. ASSUME NEW m \in Marks
      PROVE  /\ Sound(see.mark, see.signal, m, b.pos[m]) /\ Timely(see.mark, m, see.now, b.pos[m])
             /\ Moves(book.pos[m], b.pos[m])
             /\ b.pos[m].status = "NONE" <=> book.pos[m].status = "NONE"
  <2> DEFINE q == b.pos[m]
  <2>1. /\ Sound(mark, see.signal, m, q) /\ Moves(book.pos[m], q) /\ Timely(mark, m, see.now, q)
    BY <1>1, KeptSound
  <2> HIDE DEF q
  <2>2. q.status = "NONE" <=> book.pos[m].status = "NONE"
    BY <2>1 DEF Moves, HELD
  <2>3. CASE book.pos[m].status # "NONE"
    <3>1. see.mark[m] = mark[m]
      BY <2>3
    <3>2. Filled(mark, m, q) <=> Filled(see.mark, m, q)
      BY <3>1 DEF Filled, EndOf
    <3>3. Exited(mark, see.signal, m, q) <=> Exited(see.mark, see.signal, m, q)
      BY <3>1 DEF Exited, EndOf
    <3>4. Timely(mark, m, see.now, q) <=> Timely(see.mark, m, see.now, q)
      BY <3>1 DEF Timely, EndOf, FinalOf
    <3> QED  BY <2>1, <2>2, <3>2, <3>3, <3>4 DEF Sound, q
  <2>4. CASE book.pos[m].status = "NONE"
    <3>1. q.status = "NONE" /\ q.entry = None /\ q.exit = None
      BY <2>1, <2>2, <2>4 DEF Sound, Unsold
    <3>2. Filled(see.mark, m, q) /\ Exited(see.mark, see.signal, m, q) /\ Timely(see.mark, m, see.now, q)
      BY <3>1 DEF Filled, Exited, Timely, HELD
    <3> QED  BY <2>1, <2>2, <3>2 DEF Sound, q
  <2> QED  BY <2>3, <2>4
<1>4. \A m \in Marks : /\ Sound(see.mark, see.signal, m, b.pos[m])
                       /\ Timely(see.mark, m, see.now, b.pos[m])
                       /\ m > book.watermark => b.pos[m].status = "NONE"
  BY <1>3
<1>5. /\ Solid(k) /\ k.processed = see.now
      /\ k.watermark = Cardinality({m \in Marks : see.mark[m].created # None})
      /\ \A m \in Marks :
           /\ Sound(see.mark, see.signal, m, k.pos[m]) /\ Timely(see.mark, m, see.now, k.pos[m])
           /\ \/ k.pos[m] = b.pos[m]
              \/ /\ b.pos[m].status = "NONE" /\ k.pos[m].status = "PENDING_ENTRY"
                 /\ k.pos[m].written = None /\ b.pos[m].written = None
                 /\ see.mark[m].created # None
  BY <1>1, <1>4, KnownSound DEF k
<1>6. \A m \in Marks : /\ Sound(see.mark, see.signal, m, k.pos[m])
                       /\ Timely(see.mark, m, see.now, k.pos[m])
  BY <1>5
<1>7. /\ Solid(a) /\ a.processed = k.processed /\ a.watermark = k.watermark
      /\ \A m \in Marks :
           /\ Sound(see.mark, see.signal, m, a.pos[m]) /\ Timely(see.mark, m, see.now, a.pos[m])
           /\ \/ a.pos[m] = k.pos[m]
              \/ /\ k.pos[m].status = "PENDING_ENTRY" /\ a.pos[m].status \in {"SKIPPED", "OPEN"}
                 /\ a.pos[m].written = k.pos[m].written
  BY <1>2, <1>5, <1>6, EntryPassSound
<1>8. ASSUME NEW m \in Marks
      PROVE  /\ a.pos[m].written = book.pos[m].written
             /\ a.pos[m].status # "NONE" => book.pos[m].status # "NONE" \/ see.mark[m].created # None
             /\ book.pos[m].status = "WRITTEN_OFF" => a.pos[m] = book.pos[m]
  <2>1. /\ b.pos[m].written = book.pos[m].written
        /\ book.pos[m].status = "WRITTEN_OFF" => b.pos[m] = book.pos[m]
        /\ b.pos[m].status = "NONE" <=> book.pos[m].status = "NONE"
    BY <1>3 DEF Moves
  <2>2. \/ k.pos[m] = b.pos[m]
        \/ /\ b.pos[m].status = "NONE" /\ k.pos[m].status = "PENDING_ENTRY"
           /\ k.pos[m].written = None /\ b.pos[m].written = None
           /\ see.mark[m].created # None
    BY <1>5
  <2>3. \/ a.pos[m] = k.pos[m]
        \/ /\ k.pos[m].status = "PENDING_ENTRY" /\ a.pos[m].status \in {"SKIPPED", "OPEN"}
           /\ a.pos[m].written = k.pos[m].written
    BY <1>7
  <2> QED  BY <2>1, <2>2, <2>3
<1> QED  BY <1>5, <1>7, <1>8 DEF a
-----------------------------------------------------------------------------
(* The inductive invariant: its parts, and the properties that follow from it *)

\* A pass leaves nothing overdue; a write-off leaves that to the next pass.
Punctual ==
  \/ \E n \in Writeoffs(book) : book.pos[n].written = book.processed
  \/ \A m \in Marks : Timely(mark, m, book.processed, book.pos[m])

AccountInv ==
  /\ TypeOK /\ RecordsInOrder /\ Solid(book) /\ Discovery /\ OfMarks /\ Punctual
  /\ \A m \in Marks : Sound(mark, signal, m, book.pos[m])

\* The invariant gives the two safety properties that are not parts of it.
LEMMA InvImplies == AccountInv => MoneyConserved /\ ExitsEvidenced
<1> SUFFICES ASSUME AccountInv PROVE MoneyConserved /\ ExitsEvidenced
  OBVIOUS
<1>1. MoneyConserved
  <2>1. Solid(book)
    BY DEF AccountInv
  <2>2. ASSUME NEW m \in In(book, {"ENDED_UNRESOLVED", "WRITTEN_OFF"})
        PROVE  book.pos[m].sale = 0 /\ book.pos[m].exit = None
    <3>1. m \in Marks /\ book.pos[m].status \in {"ENDED_UNRESOLVED", "WRITTEN_OFF"}
      BY DEF In
    <3> QED  BY <2>1, <3>1 DEF Solid, Unsold
  <2> QED  BY <2>1, <2>2 DEF MoneyConserved, Solid
<1>2. ExitsEvidenced
  <2> DEFINE p(m) == book.pos[m]
  <2>1. \A m \in Marks : SessionEnd(m) = EndOf(mark, m) /\ FinalEnd(m) = FinalOf(mark, m) /\ Created(m) = mark[m].created
    BY DEF SessionEnd, FinalEnd, EndOf, FinalOf, Created
  <2>2. ASSUME NEW m \in Marks
        PROVE  p(m).entry # None /\ p(m).repaired =>
                 /\ p(m).seen < p(m).entryQuote /\ p(m).entryQuote \in (p(m).entry - QuoteAge)..p(m).entry
                 /\ p(m).entry <= Created(m) + EntryDeadline /\ p(m).entry < SessionEnd(m)
    <3>1. Filled(mark, m, p(m))
      BY DEF AccountInv, Sound
    <3> QED  BY <2>1, <3>1 DEF Filled
  <2>3. ASSUME NEW m \in Marks
        PROVE  p(m).exit # None =>
                 /\ signal[m].reason = "EXIT" /\ signal[m].at + 1 > p(m).entry
                 /\ p(m).repaired => p(m).asked \in (signal[m].at + 1)..(signal[m].at + 1 + ExitDeadline)
                 /\ ~p(m).repaired => p(m).exit <= signal[m].at + ExitDeadline
                 /\ p(m).asked < p(m).exitQuote /\ p(m).exitQuote \in (p(m).exit - QuoteAge)..p(m).exit
                 /\ p(m).exit <= p(m).asked + ExitDeadline /\ p(m).exit < SessionEnd(m)
    <3>1. Exited(mark, signal, m, p(m))
      BY DEF AccountInv, Sound
    <3> QED  BY <2>1, <3>1 DEF Exited
  <2>4. ASSUME NEW m \in Marks
        PROVE  \/ \E n \in Writeoffs(book) : book.pos[n].written = book.processed
               \/ /\ p(m).status = "OPEN" => book.processed < SessionEnd(m)
                  /\ p(m).status \in HELD => book.processed < FinalEnd(m)
    BY <2>1 DEF AccountInv, Punctual, Timely
  <2> QED  BY <2>2, <2>3, <2>4, Zenon DEF ExitsEvidenced
<1> QED  BY <1>1, <1>2
-----------------------------------------------------------------------------
(* The latest observation *)

Before(b, t) == {m \in Writeoffs(b) : b.pos[m].written < t}
Until(b, t)  == {m \in Writeoffs(b) : b.pos[m].written <= t}
Knows(s, b) ==
  /\ s.at <= b.processed
  /\ Cardinality(Before(b, s.at)) <= s.writeoffs /\ s.writeoffs <= Cardinality(Until(b, s.at))

\* An equity is a number.
LEMMA EquityInt ==
  ASSUME NEW b \in BookType, NEW now
  PROVE  Equity(b, now) \in Int
<1> DEFINE x == [m \in Marks |-> Sale(b.pos[m].value) - CloseFee]
           S == In(b, Exposed)
<1>1. IsFiniteSet(S) /\ S \in SUBSET Marks
  <2>1. S \in SUBSET Marks
    BY DEF In
  <2> QED  BY <2>1, MarksFinite
<1>2. ASSUME NEW m \in Marks PROVE x[m] \in Int
  <2>1. b.pos[m].value \in Quotes
    BY DEF BookType, Positions
  <2>2. Sale(b.pos[m].value) \in Int
    BY <2>1, Policy DEF Quotes, Sale
  <2> QED  BY <2>2, Policy
<1>3. Equity(b, now) = None \/ Equity(b, now) = b.settled + b.unsettled + Total(x, S)
  BY DEF Equity
<1> HIDE DEF x, S
<1>4. Total(x, S) \in Int
  <2>1. \A m \in S : x[m] \in Int
    BY <1>1, <1>2
  <2> QED  BY <1>1, <2>1, TotalInt
<1>5. b.settled \in Int /\ b.unsettled \in Int /\ None \in Int
  BY DEF BookType, None
<1> QED  BY <1>3, <1>4, <1>5

\* The sums over positions are natural numbers.
LEMMA SumsNat ==
  ASSUME NEW b \in BookType, NEW S
  PROVE  /\ Debits(b, In(b, S)) \in Nat /\ Sales(b, In(b, S)) \in Nat
         /\ Cardinality(In(b, S)) \in Nat /\ IsFiniteSet(In(b, S))
<1> DEFINE d == [m \in Marks |-> b.pos[m].debit]
           s == [m \in Marks |-> b.pos[m].sale]
           T == In(b, S)
<1>1. T \in SUBSET Marks
  BY DEF In
<1>2. IsFiniteSet(T) /\ Cardinality(T) \in Nat
  BY <1>1, MarksFinite
<1>3. (\A m \in T : d[m] \in Nat) /\ (\A m \in T : s[m] \in Nat)
  BY <1>1 DEF BookType, Positions
<1> HIDE DEF d, s, T
<1>4. Total(d, T) \in Nat /\ Total(s, T) \in Nat
  BY <1>2, <1>3, TotalNat
<1> QED  BY <1>2, <1>4 DEF Debits, Sales, d, s, T

\* A snapshot of a book that has processed the clock `now`, whose write-offs are those
\* of the account and some of that instant, knows the write-offs of its time.
LEMMA RecordedKnows ==
  ASSUME NEW b \in BookType, NEW now \in Nat, b.processed = now,
         snapshot \in [at : Int, equity : Int, writeoffs : 0..Cardinality(Marks)],
         Knows(snapshot, book), book.processed \in Int, book.processed <= now, book \in BookType,
         \A m \in Writeoffs(book) : /\ m \in Writeoffs(b) /\ b.pos[m].written = book.pos[m].written
                                    /\ b.pos[m].written <= now,
         \A m \in Writeoffs(b) : m \in Writeoffs(book) \/ b.pos[m].written = now
  PROVE  LET s == Recorded(b, now) IN
         /\ Knows(s, b) /\ s \in [at : Int, equity : Int, writeoffs : 0..Cardinality(Marks)]
         /\ s.at = now
<1> DEFINE s == Recorded(b, now)
           W == Writeoffs(b)
           V == Writeoffs(book)
<1>1. W \in SUBSET Marks /\ V \in SUBSET Marks
  BY DEF Writeoffs
<1>2. \A m \in Marks : b.pos[m].written \in Int /\ book.pos[m].written \in Int
  BY DEF BookType, Positions
<1>3. CASE snapshot.at = now
  <2>1. s = snapshot
    BY <1>3 DEF Recorded
  <2>2. Before(b, now) = Before(book, now)
    <3>1. ASSUME NEW m \in Before(b, now) PROVE m \in Before(book, now)
      <4>1. m \in W /\ b.pos[m].written < now /\ m \in Marks
        BY <1>1 DEF Before
      <4>2. m \in V
        BY <1>2, <4>1
      <4> QED  BY <4>1, <4>2 DEF Before
    <3>2. ASSUME NEW m \in Before(book, now) PROVE m \in Before(b, now)
      BY DEF Before
    <3> QED  BY <3>1, <3>2
  <2>3. Until(book, now) \in SUBSET Until(b, now) /\ Until(b, now) \in SUBSET Marks
    BY <1>1 DEF Until
  <2>4. Cardinality(Until(book, now)) <= Cardinality(Until(b, now))
    BY <2>3, MarksFinite, FS_Subset
  <2>5. Cardinality(Until(book, now)) \in Nat /\ Cardinality(Until(b, now)) \in Nat /\ snapshot.writeoffs \in Int
    BY <2>3, MarksFinite
  <2>6. Cardinality(Before(book, now)) <= snapshot.writeoffs /\ snapshot.writeoffs <= Cardinality(Until(book, now))
    BY <1>3 DEF Knows
  <2> HIDE DEF s
  <2> QED  BY <1>3, <2>1, <2>2, <2>4, <2>5, <2>6 DEF Knows, s
<1>4. CASE snapshot.at # now
  <2>1. s = [at |-> now, equity |-> Equity(b, now), writeoffs |-> Cardinality(W)]
    BY <1>4 DEF Recorded
  <2>2. s.at = now /\ s.writeoffs = Cardinality(W) /\ Equity(b, now) \in Int
    BY <2>1, EquityInt
  <2>3. Cardinality(W) \in 0..Cardinality(Marks)
    BY <1>1, MarksFinite
  <2>4. Before(b, now) \in SUBSET W /\ IsFiniteSet(W)
    BY <1>1, MarksFinite DEF Before
  <2>5. Cardinality(Before(b, now)) <= Cardinality(W)
    BY <2>4, FS_Subset
  <2>6. Until(b, now) = W
    <3>1. \A m \in W : b.pos[m].written <= now
      BY <1>1, <1>2
    <3> QED  BY <3>1 DEF Until
  <2>7. s \in [at : Int, equity : Int, writeoffs : 0..Cardinality(Marks)]
    BY <2>1, <2>2, <2>3
  <2> HIDE DEF s, W
  <2>8. Knows(s, b)
    BY <2>2, <2>3, <2>5, <2>6 DEF Knows
  <2> QED  BY <2>2, <2>7, <2>8 DEF s
<1> QED  BY <1>3, <1>4
-----------------------------------------------------------------------------
(* Init *)

\* A set of marks without a gap has at least as many as its largest.
LEMMA NoGap ==
  ASSUME NEW S \in SUBSET Marks, NEW m \in S, \A n \in Marks : n < m => n \in S
  PROVE  m <= Cardinality(S)
<1>1. m \in Nat /\ m \in 1..Cardinality(Marks) /\ Cardinality(Marks) \in Nat /\ IsFiniteSet(S)
  BY MarksFinite
<1>2. 1..m \in SUBSET S
  BY <1>1, MarksFinite
<1>3. Cardinality(1..m) = m
  BY <1>1, FS_Interval
<1>4. Cardinality(1..m) <= Cardinality(S)
  BY <1>1, <1>2, FS_Subset
<1> QED  BY <1>3, <1>4

\* The invariant holds initially.
LEMMA InvInit == Init => AccountInv
<1> SUFFICES ASSUME Init PROVE AccountInv
  OBVIOUS
<1>1. PICK old \in {{}, Legacy} :
        /\ mark = [m \in Marks |-> [created |-> IF m \in old THEN 0 ELSE None, fits |-> TRUE]]
        /\ book = [processed |-> 0, watermark |-> Cardinality(old), unsettled |-> 0, realized |-> 0,
                   settled |-> StartingCash - LegacyDebit * Cardinality(old),
                   pos |-> [m \in Marks |->
                     IF m \in old THEN [NoPos EXCEPT !.status = "OPEN", !.repaired = FALSE,
                                          !.seen = 0, !.entry = 0, !.debit = LegacyDebit]
                     ELSE NoPos]]
        /\ snapshot = [at |-> 0, equity |-> IF old = {} THEN StartingCash ELSE None, writeoffs |-> 0]
  BY DEF Init
<1>2. /\ clock = 0 /\ scan = None /\ command = Idle /\ requests = {}
      /\ signal = [m \in Marks |-> [reason |-> "OPEN", at |-> None]]
  BY DEF Init
<1> DEFINE k == Cardinality(old)
           live == [NoPos EXCEPT !.status = "OPEN", !.repaired = FALSE,
                                 !.seen = 0, !.entry = 0, !.debit = LegacyDebit]
<1>3. /\ old \in SUBSET Marks /\ k \in Nat /\ k <= Cardinality(Marks) /\ IsFiniteSet(old)
      /\ k <= MaxPositions /\ (LegacyDebit + CloseFee) * k <= StartingCash
      /\ \A m \in old, n \in Marks : n < m => n \in old
  <2>1. CASE old = {}
    <3>1. k = 0 /\ IsFiniteSet(old)
      BY <2>1, FS_EmptySet
    <3>2. (LegacyDebit + CloseFee) * k = 0
      BY <3>1, Amounts
    <3> HIDE DEF k
    <3> QED  BY <2>1, <3>1, <3>2, Amounts, MarksFinite
  <2>2. CASE old = Legacy
    <3>1. /\ Legacy \subseteq Marks /\ Legacy = 1..Cardinality(Legacy)
          /\ Cardinality(Legacy) <= MaxPositions
          /\ (LegacyDebit + CloseFee) * Cardinality(Legacy) <= StartingCash
      BY LegacyAssumption
    <3>2. Cardinality(Legacy) \in Nat /\ Cardinality(Legacy) <= Cardinality(Marks) /\ IsFiniteSet(Legacy)
      BY <3>1, MarksFinite
    <3>3. ASSUME NEW m \in Legacy, NEW n \in Marks, n < m PROVE n \in Legacy
      <4>1. n \in 1..Cardinality(Marks) /\ m \in 1..Cardinality(Legacy)
        BY <3>1, MarksFinite
      <4>2. n \in 1..Cardinality(Legacy)
        BY <3>2, <3>3, <4>1, MarksFinite
      <4> QED  BY <3>1, <4>2
    <3> QED  BY <2>2, <3>1, <3>2, <3>3
  <2> QED  BY <2>1, <2>2
<1>4. /\ LegacyDebit * k \in Nat /\ CloseFee * k \in Nat
      /\ (LegacyDebit + CloseFee) * k = LegacyDebit * k + CloseFee * k
  BY <1>3, Amounts
<1>5. /\ NoPos \in Positions /\ NoPos.status = "NONE" /\ NoPos.debit = 0 /\ NoPos.sale = 0
      /\ NoPos.exit = None /\ NoPos.entry = None /\ NoPos.asked = None /\ NoPos.written = None
  <2>1. None \in Int /\ {} \in SUBSET requests /\ NoQuote \in Quotes /\ 0 \in Nat
    BY DEF None, NoQuote, Quotes
  <2> QED  BY <2>1 DEF NoPos, Positions
<1>6. /\ live \in Positions /\ live.status = "OPEN" /\ live.debit = LegacyDebit /\ live.sale = 0
      /\ live.exit = None /\ live.entry = 0 /\ live.asked = None /\ live.written = None
      /\ live.repaired = FALSE
  <2>1. 0 \in Int /\ LegacyDebit \in Nat /\ "OPEN" \in Exposed
    BY Amounts DEF Exposed, HELD
  <2>2. live.status = "OPEN" /\ live.debit = LegacyDebit /\ live.sale = NoPos.sale
        /\ live.exit = NoPos.exit /\ live.entry = 0 /\ live.asked = NoPos.asked
        /\ live.written = NoPos.written /\ live.repaired = FALSE
    BY DEF NoPos
  <2>3. live \in Positions
    BY <1>5, <2>1 DEF Positions
  <2> HIDE DEF live
  <2> QED  BY <1>5, <2>2, <2>3
<1> HIDE DEF k, live
<1>7. /\ book.processed = 0 /\ book.watermark = k /\ book.unsettled = 0 /\ book.realized = 0
      /\ book.settled = StartingCash - LegacyDebit * k
      /\ book.pos = [m \in Marks |-> IF m \in old THEN live ELSE NoPos]
      /\ book = [processed |-> book.processed, watermark |-> book.watermark, settled |-> book.settled,
                 unsettled |-> book.unsettled, realized |-> book.realized, pos |-> book.pos]
  BY <1>1 DEF k, live
<1>8. \A m \in Marks : /\ mark[m] = [created |-> IF m \in old THEN 0 ELSE None, fits |-> TRUE]
                       /\ signal[m] = [reason |-> "OPEN", at |-> None]
                       /\ book.pos[m] = IF m \in old THEN live ELSE NoPos
  BY <1>1, <1>2, <1>7
<1>80. \A m \in Marks : /\ m \in old => mark[m].created = 0
                        /\ m \notin old => mark[m].created = None
  <2>1. ASSUME NEW m \in Marks
        PROVE  mark[m].created = IF m \in old THEN 0 ELSE None
    <3>1. mark[m] = [created |-> IF m \in old THEN 0 ELSE None, fits |-> TRUE]
      BY <1>1
    <3> QED  BY <3>1
  <2> QED  BY <2>1
<1>9. book \in BookType
  <2>1. book.pos \in [Marks -> Positions]
    BY <1>5, <1>6, <1>7
  <2>2. /\ book.processed \in Int /\ book.watermark \in Int /\ book.unsettled \in Int
        /\ book.realized \in Int /\ book.settled \in Int
    BY <1>3, <1>4, <1>7, Amounts
  <2> QED  BY <1>7, <2>1, <2>2 DEF BookType
<1>10. ASSUME NEW m \in Marks PROVE Unsold(book.pos[m])
  BY <1>5, <1>6, <1>8 DEF Unsold, None
<1>11. ASSUME NEW m \in Marks PROVE Sound(mark, signal, m, book.pos[m])
  <2>1. CASE m \in old
    <3>1. book.pos[m] = live
      BY <1>8, <2>1
    <3>2. Asked(signal, m, live) /\ Filled(mark, m, live) /\ Exited(mark, signal, m, live)
      BY <1>6 DEF Asked, Filled, Exited
    <3> QED  BY <1>6, <1>10, <3>1, <3>2 DEF Sound
  <2>2. CASE m \notin old
    <3>1. book.pos[m] = NoPos
      BY <1>8, <2>2
    <3>2. Asked(signal, m, NoPos) /\ Filled(mark, m, NoPos) /\ Exited(mark, signal, m, NoPos)
      BY <1>5 DEF Asked, Filled, Exited
    <3> QED  BY <1>5, <1>10, <3>1, <3>2 DEF Sound
  <2> QED  BY <2>1, <2>2
<1>12. Solid(book)
  <2>1. /\ In(book, Exposed) = old /\ In(book, HELD) = old /\ In(book, {"UNSETTLED"}) = {}
    <3>1. \A m \in Marks : book.pos[m].status = IF m \in old THEN "OPEN" ELSE "NONE"
      BY <1>5, <1>6, <1>8
    <3> QED  BY <1>3, <3>1 DEF In, Exposed, HELD
  <2>2. Debits(book, old) = LegacyDebit * k
    <3> DEFINE d == [m \in Marks |-> book.pos[m].debit]
    <3>1. \A m \in old : d[m] = LegacyDebit
      BY <1>3, <1>6, <1>8
    <3> HIDE DEF d
    <3>2. Total(d, old) = LegacyDebit * Cardinality(old)
      BY <1>3, <3>1, Amounts, TotalConstant
    <3> QED  BY <3>2 DEF Debits, d, k
  <2>3. Sales(book, {}) = 0
    BY FS_EmptySet, TotalEquation DEF Sales
  <2>4. HeldFees(book) = CloseFee * k
    BY <2>1 DEF HeldFees, k
  <2>5. Cardinality(In(book, HELD)) = k
    BY <2>1 DEF k
  <2>6. book.settled + book.unsettled + Debits(book, In(book, Exposed)) = StartingCash + book.realized
    BY <1>4, <1>7, <2>1, <2>2, Amounts
  <2>7. book.settled >= HeldFees(book)
    BY <1>3, <1>4, <1>7, <2>4, Amounts
  <2>8. book.unsettled = Sales(book, In(book, {"UNSETTLED"}))
    BY <1>7, <2>1, <2>3
  <2> QED  BY <1>3, <1>9, <1>10, <2>5, <2>6, <2>7, <2>8 DEF Solid
<1>13. Writeoffs(book) = {}
  BY <1>5, <1>6, <1>8 DEF Writeoffs
<1>14. RecordsInOrder
  <2>1. snapshot.at = 0 /\ snapshot.writeoffs = 0
    BY <1>1
  <2>2. /\ {m \in Writeoffs(book) : book.pos[m].written < snapshot.at} = {}
        /\ {m \in Writeoffs(book) : book.pos[m].written <= snapshot.at} = {}
    BY <1>13
  <2>3. Cardinality({}) = 0
    BY FS_EmptySet
  <2> QED  BY <1>7, <1>13, <2>1, <2>2, <2>3 DEF RecordsInOrder
<1>15. TypeOK
  <2>1. clock \in Nat /\ scan \in (0..clock) \cup {None}
    BY <1>2
  <2>2. command.now \in (0..clock) \cup {None} /\ command.request \subseteq requests
    BY <1>2 DEF Idle
  <2>3. mark \in [Marks -> [created : Int, fits : BOOLEAN]]
    BY <1>1 DEF None
  <2>4. signal \in [Marks -> [reason : {"OPEN", "EXIT", "DATA_GAP"}, at : Int]]
    BY <1>2 DEF None
  <2>5. snapshot \in [at : 0..clock, equity : Int, writeoffs : 0..Cardinality(Marks)]
    <3>1. StartingCash \in Int /\ None \in Int /\ 0 \in 0..clock /\ 0 \in 0..Cardinality(Marks)
      BY <1>2, Amounts, MarksFinite DEF None
    <3> QED  BY <1>1, <3>1
  <2>6. book \in [processed : 0..clock, watermark : 0..Cardinality(Marks), settled : Int,
                  unsettled : Nat, realized : Int, pos : [Marks -> Positions]]
    <3>1. /\ book.processed \in 0..clock /\ book.watermark \in 0..Cardinality(Marks)
          /\ book.settled \in Int /\ book.unsettled \in Nat /\ book.realized \in Int
          /\ book.pos \in [Marks -> Positions]
      BY <1>2, <1>3, <1>7, <1>9, MarksFinite DEF BookType
    <3> QED  BY <1>7, <3>1
  <2> QED  BY <2>1, <2>2, <2>3, <2>4, <2>5, <2>6 DEF TypeOK
<1>16. Discovery
  <2>1. CreatedMarks = old
    BY <1>3, <1>80 DEF CreatedMarks, Created, None
  <2>2. \A m \in Marks : Created(m) # None <=> m \in old
    BY <1>80 DEF Created, None
  <2>3. ASSUME NEW m \in Marks, book.pos[m].status # "NONE" PROVE m \in old /\ m <= k
    <3>1. m \in old
      BY <1>5, <1>8, <2>3
    <3>2. \A n \in Marks : n < m => n \in old
      BY <1>3, <3>1
    <3> QED  BY <1>3, <3>1, <3>2, NoGap DEF k
  <2>4. book.watermark <= Cardinality(CreatedMarks)
    BY <1>3, <1>7, <2>1 DEF k
  <2> QED  BY <1>3, <1>7, <2>2, <2>3, <2>4 DEF Discovery
<1>17. Punctual
  <2>1. ASSUME NEW m \in Marks PROVE Timely(mark, m, 0, book.pos[m])
    <3>1. CASE m \in old
      <4>1. mark[m].created = 0
        BY <1>80, <3>1
      <4>2. Regular(0) /\ Day(0) = 0
        BY Policy DEF Regular, Day
      <4>3. 0 < EndOf(mark, m)
        BY <4>1, <4>2, Policy DEF EndOf
      <4>4. mark \in MarkRows
        BY <1>15 DEF TypeOK, MarkRows
      <4>5. 0 < FinalOf(mark, m)
        BY <4>3, <4>4, Ends
      <4> QED  BY <4>3, <4>5 DEF Timely
    <3>2. CASE m \notin old
      BY <1>5, <1>8, <3>2 DEF Timely, HELD
    <3> QED  BY <3>1, <3>2
  <2> QED  BY <1>7, <2>1 DEF Punctual
<1>18. OfMarks
  BY <1>2 DEF OfMarks
<1> QED  BY <1>11, <1>12, <1>14, <1>15, <1>16, <1>17, <1>18 DEF AccountInv
-----------------------------------------------------------------------------
(* The steps *)

\* A step that writes no row of the account's.
LEMMA QuietStep ==
  ASSUME AccountInv, UNCHANGED <<mark, signal, book, snapshot>>,
         requests \subseteq requests', OfMarks', clock' \in Nat, clock <= clock',
         scan' \in (0..clock') \cup {None},
         command'.now \in (0..clock') \cup {None}, command'.request \subseteq requests'
  PROVE  AccountInv'
<1>0. mark' = mark /\ signal' = signal /\ book' = book /\ snapshot' = snapshot
  OBVIOUS
<1>1. ASSUME NEW p \in Positions PROVE p \in Positions'
  BY <1>1 DEF Positions
<1>2. clock \in Nat /\ 0..clock \subseteq 0..clock'
  BY DEF AccountInv, TypeOK
<1>3. \A m \in Marks : book'.pos[m] \in Positions'
  BY <1>0, <1>1 DEF AccountInv, Solid, BookType
<1>4. TypeOK'
  <2>1. /\ mark' \in [Marks -> [created : Int, fits : BOOLEAN]]
        /\ signal' \in [Marks -> [reason : {"OPEN", "EXIT", "DATA_GAP"}, at : Int]]
    BY <1>0 DEF AccountInv, TypeOK
  <2>2. snapshot' \in [at : 0..clock', equity : Int, writeoffs : 0..Cardinality(Marks)]
    BY <1>0, <1>2 DEF AccountInv, TypeOK
  <2>3. book \in [processed : 0..clock, watermark : 0..Cardinality(Marks), settled : Int,
                  unsettled : Nat, realized : Int, pos : [Marks -> Positions]]
    BY DEF AccountInv, TypeOK
  <2>4. book.pos \in [Marks -> Positions']
    BY <1>0, <1>3, <2>3
  <2>5. book' \in [processed : 0..clock', watermark : 0..Cardinality(Marks), settled : Int,
                   unsettled : Nat, realized : Int, pos : [Marks -> Positions']]
    BY <1>0, <1>2, <2>3, <2>4
  <2> QED  BY <2>1, <2>2, <2>5 DEF TypeOK
<1>5. Solid(book)'
  <2>1. book \in BookType
    BY DEF AccountInv, Solid
  <2>2. book.pos \in [Marks -> Positions']
    BY <1>0, <1>3, <2>1 DEF BookType
  <2>3. book' \in BookType'
    BY <1>0, <2>1, <2>2 DEF BookType
  <2> QED  BY <1>0, <2>3 DEF AccountInv, Solid, Debits, Sales, HeldFees, In
<1>6. RecordsInOrder'
  BY <1>0 DEF AccountInv, RecordsInOrder, Writeoffs, FinalEnd, Created
<1>7. Discovery' /\ Punctual'
  BY <1>0 DEF AccountInv, Discovery, CreatedMarks, Created, Punctual, Writeoffs, Timely, EndOf, FinalOf
<1>8. \A m \in Marks : Sound(mark, signal, m, book.pos[m])'
  <2>1. ASSUME NEW m \in Marks PROVE Sound(mark, signal, m, book.pos[m])'
    <3>1. Sound(mark, signal, m, book.pos[m])
      BY DEF AccountInv
    <3> QED  BY <1>0, <1>3, <3>1 DEF Sound, Asked, Filled, Exited, EndOf
  <2> QED  BY <2>1
<1> QED  BY <1>4, <1>5, <1>6, <1>7, <1>8 DEF AccountInv

\* What a scan writes before the account's turn.
LEMMA ScanSees ==
  ASSUME AccountInv, NEW new \in Arrivals, NEW end \in Endings, NEW market \in Markets,
         NEW age \in Ages, NEW feed \in Feeds, NEW fails \in BOOLEAN,
         Scan(new, end, market, age, feed, fails)
  PROVE  /\ scan \in Nat /\ scan <= clock /\ mark' \in MarkRows /\ signal' \in SignalRows
         /\ [now |-> scan, market |-> market, age |-> age, feed |-> feed,
             mark |-> mark', signal |-> signal'] \in Sights
         /\ \A m \in Marks : /\ mark[m].created # None => mark'[m] = mark[m]
                             /\ signal[m].reason # "OPEN" => signal'[m] = signal[m]
         /\ \A m \in Marks, n \in Marks : n < m /\ mark'[m].created # None => mark'[n].created # None
<1>1. /\ clock \in Nat /\ scan \in (0..clock) \cup {None} /\ scan # None
      /\ mark \in MarkRows /\ signal \in SignalRows /\ Discovery
  BY DEF AccountInv, TypeOK, Scan, MarkRows, SignalRows
<1>2. scan \in Nat /\ scan <= clock
  BY <1>1
<1>3. /\ new.marks \subseteq Marks /\ new.fits \in BOOLEAN /\ end.marks \subseteq Marks
      /\ end.reason \in {"EXIT", "DATA_GAP"} /\ end.lag \in Nat
      /\ market \in [Marks -> Quotes] /\ age \in Nat /\ feed \in {"healthy", "exits"}
  <2>1. new \in [marks : SUBSET Marks, fits : BOOLEAN]
    BY ExpandedAssumption
  <2>2. end \in [marks : SUBSET Marks, reason : {"EXIT", "DATA_GAP"}, lag : Nat]
    BY ExpandedAssumption
  <2>3. market \in [Marks -> [bid : Nat, ask : Nat]]
    BY ExpandedAssumption
  <2>4. age \in Nat /\ feed \in {"healthy", "exits"}
    BY ExpandedAssumption
  <2> QED  BY <2>1, <2>2, <2>3, <2>4 DEF Quotes
<1>4. /\ mark' = [m \in Marks |-> IF m \in new.marks THEN [created |-> scan, fits |-> new.fits] ELSE mark[m]]
      /\ signal' = [m \in Marks |-> IF m \notin end.marks THEN signal[m]
                      ELSE [reason |-> end.reason,
                            at |-> IF end.reason = "EXIT" THEN scan - end.lag ELSE None]]
      /\ \A m \in new.marks : /\ mark[m].created = None
                              /\ \A n \in 1..(m - 1) : n \in new.marks \/ mark[n].created # None
      /\ \A m \in end.marks : signal[m].reason = "OPEN"
  BY DEF Scan, Marked, EndedSignals, Created
<1>5. mark' \in MarkRows
  <2>1. ASSUME NEW m \in Marks
        PROVE  (IF m \in new.marks THEN [created |-> scan, fits |-> new.fits] ELSE mark[m])
                 \in [created : Int, fits : BOOLEAN]
    BY <1>1, <1>2, <1>3 DEF MarkRows
  <2> QED  BY <1>4, <2>1 DEF MarkRows
<1>6. signal' \in SignalRows
  <2>1. (IF end.reason = "EXIT" THEN scan - end.lag ELSE None) \in Int
    BY <1>2, <1>3 DEF None
  <2>2. ASSUME NEW m \in Marks
        PROVE  (IF m \notin end.marks THEN signal[m]
                ELSE [reason |-> end.reason,
                      at |-> IF end.reason = "EXIT" THEN scan - end.lag ELSE None])
                 \in [reason : {"OPEN", "EXIT", "DATA_GAP"}, at : Int]
    BY <1>1, <1>3, <2>1 DEF SignalRows
  <2> QED  BY <1>4, <2>2 DEF SignalRows
<1>7. \A m \in Marks : /\ mark[m].created # None => mark'[m] = mark[m]
                       /\ signal[m].reason # "OPEN" => signal'[m] = signal[m]
  BY <1>4
<1>8. ASSUME NEW m \in Marks, NEW n \in Marks, n < m, mark'[m].created # None
      PROVE  mark'[n].created # None
  <2>1. mark'[n] = IF n \in new.marks THEN [created |-> scan, fits |-> new.fits] ELSE mark[n]
    BY <1>4
  <2>2. n \in new.marks \/ mark[n].created # None
    <3>1. CASE m \in new.marks
      <4>1. n \in 1..(m - 1)
        BY <1>8, MarksFinite
      <4> QED  BY <1>4, <3>1, <4>1
    <3>2. CASE m \notin new.marks
      <4>1. mark[m].created # None
        BY <1>4, <1>8, <3>2
      <4> QED  BY <1>1, <1>8, <4>1 DEF Discovery, Created
    <3> QED  BY <3>1, <3>2
  <2>3. CASE n \in new.marks
    <3>1. mark'[n].created = scan
      BY <2>1, <2>3
    <3> QED  BY <1>1, <3>1
  <2>4. CASE n \notin new.marks
    BY <2>1, <2>2, <2>4
  <2> QED  BY <2>3, <2>4
<1>9. [now |-> scan, market |-> market, age |-> age, feed |-> feed,
       mark |-> mark', signal |-> signal'] \in Sights
  BY <1>2, <1>3, <1>5, <1>6 DEF Sights
<1> QED  BY <1>2, <1>5, <1>6, <1>7, <1>8, <1>9

\* What AccountInv' needs of the new marks and signals alone, and of the old positions.
LEMMA ScanRows ==
  ASSUME AccountInv, NEW new \in Arrivals, NEW end \in Endings, NEW market \in Markets,
         NEW age \in Ages, NEW feed \in Feeds, NEW fails \in BOOLEAN,
         Scan(new, end, market, age, feed, fails)
  PROVE  /\ \A m \in Marks : Sound(mark, signal', m, book.pos[m])
         /\ \A m \in Marks : book.pos[m].status # "NONE" =>
              mark'[m] = mark[m] /\ mark[m].created # None /\ m <= book.watermark
         /\ book.watermark \in Nat /\ book.watermark <= Cardinality(CreatedMarks')
         /\ Cardinality(CreatedMarks') \in 0..Cardinality(Marks)
         /\ \A m \in CreatedMarks' : m <= Cardinality(CreatedMarks')
<1>1. /\ mark' \in MarkRows /\ signal' \in SignalRows
      /\ \A m \in Marks : /\ mark[m].created # None => mark'[m] = mark[m]
                          /\ signal[m].reason # "OPEN" => signal'[m] = signal[m]
      /\ \A m \in Marks, n \in Marks : n < m /\ mark'[m].created # None => mark'[n].created # None
  BY ScanSees
<1>2. Discovery /\ \A m \in Marks : Sound(mark, signal, m, book.pos[m])
  BY DEF AccountInv
<1>3. ASSUME NEW m \in Marks PROVE Sound(mark, signal', m, book.pos[m])
  <2>1. Sound(mark, signal, m, book.pos[m])
    BY <1>2
  <2>2. Asked(signal', m, book.pos[m])
    <3>1. Asked(signal, m, book.pos[m])
      BY <2>1 DEF Sound
    <3>2. book.pos[m].asked # None => signal'[m] = signal[m]
      BY <1>1, <3>1 DEF Asked
    <3> QED  BY <3>1, <3>2 DEF Asked
  <2>3. Exited(mark, signal', m, book.pos[m])
    <3>1. Exited(mark, signal, m, book.pos[m])
      BY <2>1 DEF Sound
    <3>2. book.pos[m].exit # None => signal'[m] = signal[m]
      BY <1>1, <3>1 DEF Exited
    <3> QED  BY <3>1, <3>2 DEF Exited
  <2> QED  BY <2>1, <2>2, <2>3 DEF Sound
<1>4. ASSUME NEW m \in Marks, book.pos[m].status # "NONE"
      PROVE  mark'[m] = mark[m] /\ mark[m].created # None /\ m <= book.watermark
  <2>1. mark[m].created # None /\ m <= book.watermark
    BY <1>2, <1>4 DEF Discovery, Created
  <2> QED  BY <1>1, <2>1
<1>5. CreatedMarks' = {m \in Marks : mark'[m].created # None}
  BY DEF CreatedMarks, Created
<1>6. CreatedMarks' \in SUBSET Marks /\ CreatedMarks \in SUBSET CreatedMarks'
  BY <1>1, <1>5 DEF CreatedMarks, Created
<1>7. /\ Cardinality(CreatedMarks') \in 0..Cardinality(Marks) /\ IsFiniteSet(CreatedMarks')
      /\ Cardinality(CreatedMarks) \in Nat
      /\ Cardinality(CreatedMarks) <= Cardinality(CreatedMarks')
  BY <1>6, MarksFinite, FS_Subset
<1>8. book.watermark \in Nat /\ book.watermark <= Cardinality(CreatedMarks)
  BY <1>2, MarksFinite DEF Discovery, AccountInv, TypeOK
<1>9. ASSUME NEW m \in CreatedMarks' PROVE m <= Cardinality(CreatedMarks')
  <2>1. \A n \in Marks : n < m => n \in CreatedMarks'
    BY <1>1, <1>5
  <2> QED  BY <1>6, <2>1, NoGap
<1> QED  BY <1>3, <1>4, <1>7, <1>8, <1>9

\* The pass that commits without the account.
LEMMA ScanSkips ==
  ASSUME AccountInv, NEW new \in Arrivals, NEW end \in Endings, NEW market \in Markets,
         NEW age \in Ages, NEW feed \in Feeds, NEW fails \in BOOLEAN,
         Scan(new, end, market, age, feed, fails), fails \/ Late(scan)
  PROVE  AccountInv'
<1>0. /\ book' = book /\ snapshot' = snapshot /\ requests' = requests /\ clock' = clock
      /\ command' = command /\ scan' = None
  BY DEF Scan
<1>1. /\ mark' \in MarkRows /\ signal' \in SignalRows
      /\ \A m \in Marks, n \in Marks : n < m /\ mark'[m].created # None => mark'[n].created # None
  BY ScanSees
<1>2. /\ \A m \in Marks : Sound(mark, signal', m, book.pos[m])
      /\ \A m \in Marks : book.pos[m].status # "NONE" =>
           mark'[m] = mark[m] /\ mark[m].created # None /\ m <= book.watermark
      /\ book.watermark \in Nat /\ book.watermark <= Cardinality(CreatedMarks')
  BY ScanRows
<1>3. TypeOK'
  BY <1>0, <1>1 DEF AccountInv, TypeOK, MarkRows, SignalRows, Positions
<1>4. Solid(book)' /\ OfMarks'
  BY <1>0 DEF AccountInv, Solid, BookType, Positions, Debits, Sales, HeldFees, In, OfMarks
<1>5. \A m \in Writeoffs(book) : mark'[m] = mark[m] /\ m \in Marks
  <2>1. \A m \in Writeoffs(book) : m \in Marks /\ book.pos[m].written # None
    BY DEF Writeoffs
  <2>2. \A m \in Marks : Unsold(book.pos[m])
    BY DEF AccountInv, Solid
  <2>3. \A m \in Writeoffs(book) : book.pos[m].status = "WRITTEN_OFF"
    BY <2>1, <2>2 DEF Unsold
  <2> QED  BY <1>2, <2>1, <2>3
<1>6. RecordsInOrder'
  <2>1. RecordsInOrder
    BY DEF AccountInv
  <2>2. Writeoffs(book)' = Writeoffs(book)
    BY <1>0 DEF Writeoffs
  <2>3. \A m \in Writeoffs(book) : FinalEnd(m)' = FinalEnd(m)
    BY <1>5 DEF FinalEnd, Created
  <2> QED  BY <1>0, <2>1, <2>2, <2>3 DEF RecordsInOrder
<1>7. Discovery'
  <2>1. \A m \in Marks : Created(m)' = mark'[m].created
    BY DEF Created
  <2> QED  BY <1>0, <1>1, <1>2, <2>1 DEF Discovery
<1>8. Punctual'
  <2>1. ASSUME NEW m \in Marks, Timely(mark, m, book.processed, book.pos[m])
        PROVE  Timely(mark', m, book.processed, book.pos[m])
    <3>1. CASE book.pos[m].status = "NONE"
      BY <3>1 DEF Timely, HELD
    <3>2. CASE book.pos[m].status # "NONE"
      <4>1. mark'[m] = mark[m]
        BY <1>2, <3>2
      <4> QED  BY <2>1, <4>1 DEF Timely, EndOf, FinalOf
    <3> QED  BY <3>1, <3>2
  <2>2. Punctual
    BY DEF AccountInv
  <2>3. CASE \E n \in Writeoffs(book) : book.pos[n].written = book.processed
    BY <1>0, <2>3 DEF Punctual, Writeoffs
  <2>4. CASE \A m \in Marks : Timely(mark, m, book.processed, book.pos[m])
    <3>1. \A m \in Marks : Timely(mark', m, book'.processed, book'.pos[m])
      BY <1>0, <2>1, <2>4
    <3> QED  BY <3>1 DEF Punctual
  <2> QED  BY <2>2, <2>3, <2>4 DEF Punctual
<1>9. ASSUME NEW m \in Marks PROVE Sound(mark, signal, m, book.pos[m])'
  <2> DEFINE p == book.pos[m]
  <2>1. Sound(mark, signal', m, p) /\ p = book'.pos[m] /\ Positions' = Positions
    BY <1>0, <1>2 DEF Positions
  <2>2. Filled(mark', m, p) /\ Exited(mark', signal', m, p)
    <3>1. CASE p.status = "NONE"
      <4>1. p.entry = None /\ p.exit = None
        BY <2>1, <3>1 DEF Sound, Unsold
      <4> QED  BY <4>1 DEF Filled, Exited
    <3>2. CASE p.status # "NONE"
      <4>1. mark'[m] = mark[m]
        BY <1>2, <3>2
      <4> QED  BY <2>1, <4>1 DEF Sound, Filled, Exited, EndOf
    <3> QED  BY <3>1, <3>2
  <2> HIDE DEF p
  <2>3. p \in Positions' /\ Unsold(p) /\ Asked(signal', m, p) /\ Filled(mark', m, p) /\ Exited(mark', signal', m, p)
    BY <2>1, <2>2 DEF Sound
  <2>4. book'.pos[m] = p
    BY <2>1
  <2> QED  BY <2>3, <2>4 DEF Sound
<1> QED  BY <1>3, <1>4, <1>6, <1>7, <1>8, <1>9 DEF AccountInv

\* The pass that advances the account.
LEMMA ScanAdvances ==
  ASSUME AccountInv, NEW new \in Arrivals, NEW end \in Endings, NEW market \in Markets,
         NEW age \in Ages, NEW feed \in Feeds, NEW fails \in BOOLEAN,
         Scan(new, end, market, age, feed, fails), ~(fails \/ Late(scan))
  PROVE  AccountInv'
<1> DEFINE see == [now |-> scan, market |-> market, age |-> age, feed |-> feed,
                   mark |-> mark', signal |-> signal']
           a == Advanced(see)
<1>0. /\ book' = a /\ snapshot' = Recorded(book', scan) /\ requests' = requests /\ clock' = clock
      /\ command' = command /\ scan' = None
  BY DEF Scan
<1>1. /\ scan \in Nat /\ scan <= clock /\ mark' \in MarkRows /\ signal' \in SignalRows /\ see \in Sights
      /\ \A m \in Marks, n \in Marks : n < m /\ mark'[m].created # None => mark'[n].created # None
  BY ScanSees
<1>2. /\ \A m \in Marks : Sound(mark, signal', m, book.pos[m])
      /\ \A m \in Marks : book.pos[m].status # "NONE" =>
           mark'[m] = mark[m] /\ mark[m].created # None /\ m <= book.watermark
      /\ book.watermark \in Nat
      /\ Cardinality(CreatedMarks') \in 0..Cardinality(Marks)
      /\ \A m \in CreatedMarks' : m <= Cardinality(CreatedMarks')
  BY ScanRows
<1>3. see.now = scan /\ see.mark = mark' /\ see.signal = signal'
  OBVIOUS
<1>4. mark \in MarkRows /\ Solid(book) /\ book.processed \in Nat /\ clock \in Nat /\ RecordsInOrder
      /\ snapshot \in [at : 0..clock, equity : Int, writeoffs : 0..Cardinality(Marks)]
  BY DEF AccountInv, TypeOK, MarkRows
<1> HIDE DEF see, a
<1>5. CreatedMarks' = {m \in Marks : see.mark[m].created # None}
  BY <1>3 DEF CreatedMarks, Created
<1>6. \A m \in Marks : /\ Sound(mark, see.signal, m, book.pos[m])
                       /\ book.pos[m].status # "NONE" => see.mark[m] = mark[m]
                       /\ m > book.watermark => book.pos[m].status = "NONE"
  <2>1. ASSUME NEW m \in Marks, m > book.watermark PROVE book.pos[m].status = "NONE"
    <3>1. m \in Nat
      BY MarksFinite
    <3> QED  BY <1>2, <2>1, <3>1
  <2> QED  BY <1>2, <1>3, <2>1
<1>7. /\ Solid(a) /\ a.processed = see.now
      /\ a.watermark = Cardinality({m \in Marks : see.mark[m].created # None})
      /\ \A m \in Marks :
           /\ Sound(see.mark, see.signal, m, a.pos[m]) /\ Timely(see.mark, m, see.now, a.pos[m])
           /\ a.pos[m].written = book.pos[m].written
           /\ a.pos[m].status # "NONE" => book.pos[m].status # "NONE" \/ see.mark[m].created # None
           /\ book.pos[m].status = "WRITTEN_OFF" => a.pos[m] = book.pos[m]
  BY <1>1, <1>4, <1>6, AdvancedSound DEF a
<1>8. a.processed = scan /\ a.watermark = Cardinality(CreatedMarks') /\ a \in BookType
  BY <1>3, <1>5, <1>7 DEF Solid
<1>9. Writeoffs(a) = Writeoffs(book)
  BY <1>7 DEF Writeoffs
<1>10. ASSUME NEW m \in Writeoffs(book)
       PROVE  /\ m \in Marks /\ a.pos[m] = book.pos[m] /\ mark'[m] = mark[m]
              /\ book.pos[m].written <= book.processed /\ book.pos[m].written \in Int
  <2>1. m \in Marks /\ book.pos[m].written # None
    BY DEF Writeoffs
  <2>2. book.pos[m].status = "WRITTEN_OFF"
    BY <1>4, <2>1 DEF Solid, Unsold
  <2>3. book.pos[m].written \in FinalEnd(m)..book.processed
    BY <1>4 DEF RecordsInOrder
  <2> QED  BY <1>2, <1>7, <2>1, <2>2, <2>3
<1>11. book.processed <= scan
  BY <1>1, <1>4 DEF Late
<1>12. LET s == Recorded(a, scan) IN
       /\ Knows(s, a) /\ s \in [at : Int, equity : Int, writeoffs : 0..Cardinality(Marks)]
       /\ s.at = scan
  <2>1. snapshot \in [at : Int, equity : Int, writeoffs : 0..Cardinality(Marks)]
    BY <1>4
  <2>2. Knows(snapshot, book)
    BY <1>4 DEF RecordsInOrder, Knows, Before, Until
  <2>3. \A m \in Writeoffs(book) : /\ m \in Writeoffs(a) /\ a.pos[m].written = book.pos[m].written
                                   /\ a.pos[m].written <= scan
    BY <1>1, <1>4, <1>9, <1>10, <1>11
  <2>4. \A m \in Writeoffs(a) : m \in Writeoffs(book) \/ a.pos[m].written = scan
    BY <1>9
  <2>5. book \in BookType
    BY <1>4 DEF Solid
  <2>6. book.processed \in Int
    BY <1>4
  <2> QED  BY <1>1, <1>8, <1>11, <2>1, <2>2, <2>3, <2>4, <2>5, <2>6, RecordedKnows
<1>13. snapshot' = Recorded(a, scan)
  BY <1>0
<1>14. /\ Knows(snapshot', a) /\ snapshot'.at = scan
       /\ snapshot' \in [at : Int, equity : Int, writeoffs : 0..Cardinality(Marks)]
  BY <1>12, <1>13
<1>15. TypeOK'
  <2>1. clock' \in Nat /\ scan' \in (0..clock') \cup {None}
    BY <1>0, <1>4
  <2>2. command'.now \in (0..clock') \cup {None} /\ command'.request \subseteq requests'
    BY <1>0 DEF AccountInv, TypeOK
  <2>3. snapshot' \in [at : 0..clock', equity : Int, writeoffs : 0..Cardinality(Marks)]
    <3>1. scan \in 0..clock'
      BY <1>0, <1>1, <1>4
    <3> QED  BY <1>14, <3>1
  <2>4. a.unsettled \in Nat
    <3>1. a.unsettled = Sales(a, In(a, {"UNSETTLED"}))
      BY <1>7 DEF Solid
    <3> QED  BY <1>8, <3>1, SumsNat
  <2>5. a \in [processed : 0..clock, watermark : 0..Cardinality(Marks), settled : Int,
               unsettled : Nat, realized : Int, pos : [Marks -> Positions]]
    <3>1. a.processed \in 0..clock /\ a.watermark \in 0..Cardinality(Marks)
      BY <1>1, <1>2, <1>4, <1>8
    <3> QED  BY <1>8, <2>4, <3>1 DEF BookType
  <2>6. book' \in [processed : 0..clock', watermark : 0..Cardinality(Marks), settled : Int,
               unsettled : Nat, realized : Int, pos : [Marks -> Positions']]
    BY <1>0, <2>5 DEF Positions
  <2> QED  BY <1>1, <2>1, <2>2, <2>3, <2>6 DEF TypeOK, MarkRows, SignalRows
<1>16. Solid(book)' /\ OfMarks'
  <2>1. Solid(book)'
    BY <1>0, <1>7 DEF Solid, BookType, Positions, Debits, Sales, HeldFees, In
  <2> QED  BY <1>0, <2>1 DEF AccountInv, OfMarks
<1>17. RecordsInOrder'
  <2>1. Writeoffs(book)' = Writeoffs(a)
    BY <1>0 DEF Writeoffs
  <2>2. /\ snapshot'.at <= book'.processed
        /\ Cardinality({m \in Writeoffs(book)' : book'.pos[m].written < snapshot'.at}) <= snapshot'.writeoffs
        /\ snapshot'.writeoffs <= Cardinality({m \in Writeoffs(book)' : book'.pos[m].written <= snapshot'.at})
    BY <1>0, <1>14, <2>1 DEF Knows, Before, Until
  <2>3. ASSUME NEW m \in Writeoffs(book)
        PROVE  /\ book'.pos[m].written \in FinalEnd(m)'..book'.processed
               /\ \E r \in requests' :
                    /\ m \in DOMAIN r.original /\ book'.pos[m].request = {r}
                    /\ book'.pos[m] = [r.original[m] EXCEPT !.status = "WRITTEN_OFF",
                                         !.written = book'.pos[m].written, !.request = {r}]
    <3>1. FinalEnd(m)' = FinalEnd(m) /\ FinalEnd(m) \in Int
      BY <1>4, <1>10, Ends DEF FinalEnd, Created, FinalOf
    <3>2. book'.pos[m] = book.pos[m]
      BY <1>0, <1>10
    <3>3. /\ book.pos[m].written \in FinalEnd(m)..book.processed
          /\ \E r \in requests :
               /\ m \in DOMAIN r.original /\ book.pos[m].request = {r}
               /\ book.pos[m] = [r.original[m] EXCEPT !.status = "WRITTEN_OFF",
                                    !.written = book.pos[m].written, !.request = {r}]
      BY <1>4 DEF RecordsInOrder
    <3>4. book'.pos[m].written \in FinalEnd(m)'..book'.processed
      BY <1>0, <1>1, <1>4, <1>8, <1>10, <1>11, <3>1, <3>2, <3>3
    <3>5. \E r \in requests' :
               /\ m \in DOMAIN r.original /\ book'.pos[m].request = {r}
               /\ book'.pos[m] = [r.original[m] EXCEPT !.status = "WRITTEN_OFF",
                                    !.written = book'.pos[m].written, !.request = {r}]
      BY <1>0, <3>2, <3>3, Zenon
    <3> QED  BY <3>4, <3>5
  <2>4. Writeoffs(book)' = Writeoffs(book)
    BY <1>9, <2>1
  <2> QED  BY <2>2, <2>3, <2>4 DEF RecordsInOrder
<1>18. Discovery'
  <2>1. \A m \in Marks : Created(m)' = mark'[m].created
    BY DEF Created
  <2>2. ASSUME NEW m \in Marks, book'.pos[m].status # "NONE"
        PROVE  m <= book'.watermark /\ Created(m)' # None
    <3>1. mark'[m].created # None
      BY <1>0, <1>2, <1>3, <1>7, <2>2
    <3>2. m \in CreatedMarks'
      BY <1>3, <1>5, <3>1
    <3> QED  BY <1>0, <1>2, <1>8, <2>1, <3>1, <3>2
  <2>3. book'.watermark <= Cardinality(CreatedMarks')
    BY <1>0, <1>2, <1>8
  <2> QED  BY <1>1, <2>1, <2>2, <2>3 DEF Discovery
<1>19. Punctual'
  <2>1. \A m \in Marks : Timely(mark', m, book'.processed, book'.pos[m])
    BY <1>0, <1>3, <1>7
  <2> QED  BY <2>1 DEF Punctual
<1>20. \A m \in Marks : Sound(mark, signal, m, book.pos[m])'
  <2>1. \A m \in Marks : Sound(mark', signal', m, book'.pos[m])
    BY <1>0, <1>3, <1>7
  <2>2. Positions' = Positions
    BY <1>0 DEF Positions
  <2> QED  BY <2>1, <2>2 DEF Sound
<1> QED  BY <1>15, <1>16, <1>17, <1>18, <1>19, <1>20 DEF AccountInv

\* The ledger after a write-off: the loss is booked as the debit leaves the risk.
LEMMA WriteoffSolid ==
  ASSUME Solid(book), NEW planned \in SUBSET Marks, NEW a \in BookType,
         \A m \in Marks : m \notin planned => a.pos[m] = book.pos[m],
         \A m \in planned : /\ book.pos[m].status = "ENDED_UNRESOLVED"
                            /\ a.pos[m].status = "WRITTEN_OFF" /\ Unsold(a.pos[m]),
         a.settled = book.settled, a.unsettled = book.unsettled,
         a.realized = book.realized - Debits(book, planned)
  PROVE  Solid(a)
<1> DEFINE E == In(book, Exposed)
           R == In(a, Exposed)
           bd == [m \in Marks |-> book.pos[m].debit]
           ad == [m \in Marks |-> a.pos[m].debit]
           U == In(book, {"UNSETTLED"})
           bs == [m \in Marks |-> book.pos[m].sale]
           as == [m \in Marks |-> a.pos[m].sale]
<1>1. /\ book \in BookType /\ \A m \in Marks : Unsold(book.pos[m])
      /\ \A m \in Marks : bd[m] \in Int
  BY DEF Solid, BookType, Positions
<1>2. \A m \in Marks : Unsold(a.pos[m])
  BY <1>1
<1>3. /\ E \in SUBSET Marks /\ planned \in SUBSET E /\ R = E \ planned
      /\ \A m \in R : m \notin planned /\ m \in Marks
  BY DEF In, Exposed, HELD
<1>4. /\ In(a, {"UNSETTLED"}) = U /\ In(a, HELD) = In(book, HELD)
      /\ U \in SUBSET Marks /\ \A m \in U : m \notin planned
  BY DEF In, HELD
<1>5. /\ \A m \in R : ad[m] = bd[m]
      /\ \A m \in U : as[m] = bs[m]
  BY <1>3, <1>4
<1>6. IsFiniteSet(E) /\ IsFiniteSet(R) /\ IsFiniteSet(U) /\ IsFiniteSet(planned)
  BY <1>3, <1>4, MarksFinite, FS_Subset
<1> HIDE DEF E, R, U, bd, ad, bs, as
<1>7. Total(ad, R) = Total(bd, R) /\ Total(as, U) = Total(bs, U)
  BY <1>5, <1>6, TotalSame
<1>8. Total(bd, E) = Total(bd, planned) + Total(bd, R)
  <2>1. \A m \in E : bd[m] \in Int
    BY <1>1, <1>3
  <2>2. Total(bd, E) = Total(bd, planned) + Total(bd, E \ planned)
    BY <1>3, <1>6, <2>1, TotalSplit
  <2> QED  BY <1>3, <2>2
<1>9. Total(bd, planned) \in Int /\ Total(bd, R) \in Int
  <2>1. (\A m \in planned : bd[m] \in Int) /\ (\A m \in R : bd[m] \in Int)
    BY <1>1, <1>3
  <2> QED  BY <1>6, <2>1, TotalInt
<1>10. /\ Debits(a, In(a, Exposed)) = Total(ad, R) /\ Debits(book, In(book, Exposed)) = Total(bd, E)
       /\ Debits(book, planned) = Total(bd, planned)
       /\ Sales(a, In(a, {"UNSETTLED"})) = Total(as, U)
       /\ Sales(book, In(book, {"UNSETTLED"})) = Total(bs, U)
  BY <1>4 DEF Debits, Sales, E, R, U, bd, ad, bs, as
<1>11. book.settled \in Int /\ book.unsettled \in Int /\ book.realized \in Int
  BY <1>1 DEF BookType
<1>12. a.settled + a.unsettled + Debits(a, In(a, Exposed)) = StartingCash + a.realized
  <2>1. book.settled + book.unsettled + Total(bd, E) = StartingCash + book.realized
    BY <1>10 DEF Solid
  <2> QED  BY <1>7, <1>8, <1>9, <1>10, <1>11, <2>1, Amounts
<1>13. a.unsettled = Sales(a, In(a, {"UNSETTLED"}))
  BY <1>7, <1>10 DEF Solid
<1>14. HeldFees(a) = HeldFees(book)
  BY <1>4 DEF HeldFees
<1> QED  BY <1>2, <1>4, <1>12, <1>13, <1>14 DEF Solid

\* A request that writes something off.
LEMMA WriteoffStep ==
  ASSUME AccountInv, NEW r \in command.request, ~Late(command.now),
         \A m \in DOMAIN r.original : book.pos[m].request = {r} \/ Applicable(r, m, command.now),
         {m \in DOMAIN r.original : book.pos[m].request # {r}} # {},
         book' = WrittenOff(r, command.now),
         snapshot' = IF book'.pos = book.pos THEN snapshot ELSE Recorded(book', command.now),
         command' = Idle, UNCHANGED <<clock, scan, requests, mark, signal>>
  PROVE  AccountInv'
<1> DEFINE now == command.now
           planned == {m \in DOMAIN r.original : book.pos[m].request # {r}}
           a == WrittenOff(r, now)
<1>0. /\ clock' = clock /\ scan' = scan /\ requests' = requests /\ mark' = mark /\ signal' = signal
      /\ Positions' = Positions
  BY DEF Positions
<1>1. /\ r \in requests /\ DOMAIN r.original \subseteq Marks /\ clock \in Nat
      /\ mark \in MarkRows /\ Solid(book) /\ book.processed \in Nat /\ RecordsInOrder /\ Discovery
      /\ snapshot \in [at : 0..clock, equity : Int, writeoffs : 0..Cardinality(Marks)]
  BY DEF AccountInv, TypeOK, OfMarks, MarkRows
<1>2. now \in 0..clock /\ book.processed <= now /\ now \in Nat /\ now # None
  BY <1>1 DEF Late, AccountInv, TypeOK, None
<1>3. book \in BookType /\ \A m \in Marks : Unsold(book.pos[m])
  BY <1>1 DEF Solid
<1>4. planned \in SUBSET Marks /\ planned # {}
  BY <1>1
<1>5. ASSUME NEW m \in planned
      PROVE  /\ book.pos[m].status = "ENDED_UNRESOLVED" /\ now >= FinalEnd(m)
             /\ book.pos[m] = r.original[m] /\ m \in DOMAIN r.original
  BY DEF Applicable
<1>6. /\ a = [book EXCEPT !.pos = [m \in Marks |->
                  IF m \in planned
                  THEN [book.pos[m] EXCEPT !.status = "WRITTEN_OFF", !.written = now, !.request = {r}]
                  ELSE book.pos[m]],
                !.realized = book.realized - Debits(book, planned), !.processed = now]
  <2>1. WrittenOff(r, now) =
          [book EXCEPT !.pos = [m \in Marks |->
                  IF m \in planned
                  THEN [book.pos[m] EXCEPT !.status = "WRITTEN_OFF", !.written = now, !.request = {r}]
                  ELSE book.pos[m]],
                !.realized = book.realized - Debits(book, planned),
                !.processed = IF planned = {} THEN book.processed ELSE now]
    BY DEF WrittenOff
  <2> HIDE DEF planned
  <2> QED  BY <1>4, <2>1
<1> HIDE DEF planned, a, now
<1>7. /\ a.settled = book.settled /\ a.unsettled = book.unsettled /\ a.watermark = book.watermark
      /\ a.realized = book.realized - Debits(book, planned) /\ a.processed = now
      /\ \A m \in Marks : a.pos[m] =
           IF m \in planned
           THEN [book.pos[m] EXCEPT !.status = "WRITTEN_OFF", !.written = now, !.request = {r}]
           ELSE book.pos[m]
      /\ a.pos = [m \in Marks |-> a.pos[m]]
      /\ a = [processed |-> a.processed, watermark |-> a.watermark, settled |-> a.settled,
              unsettled |-> a.unsettled, realized |-> a.realized, pos |-> a.pos]
  BY <1>3, <1>6 DEF BookType
<1>70. /\ a.settled = book.settled /\ a.unsettled = book.unsettled /\ a.watermark = book.watermark
       /\ a.realized = book.realized - Debits(book, planned) /\ a.processed = now
  BY <1>7
<1>8. ASSUME NEW m \in planned
      PROVE  LET p == book.pos[m]
                 q == a.pos[m]
             IN  /\ q = [p EXCEPT !.status = "WRITTEN_OFF", !.written = now, !.request = {r}]
                 /\ q \in Positions /\ q.status = "WRITTEN_OFF" /\ q.written = now /\ q.request = {r}
                 /\ q.debit = p.debit /\ q.sale = p.sale /\ q.exit = p.exit /\ q.entry = p.entry
                 /\ q.repaired = p.repaired /\ q.asked = p.asked /\ q.seen = p.seen
                 /\ q.entryQuote = p.entryQuote /\ q.exitQuote = p.exitQuote
  <2> DEFINE p == book.pos[m]
             q == a.pos[m]
  <2>1. p \in Positions /\ m \in Marks
    BY <1>3, <1>4 DEF BookType
  <2>2. q = [p EXCEPT !.status = "WRITTEN_OFF", !.written = now, !.request = {r}]
    BY <1>7, <2>1
  <2> HIDE DEF p, q
  <2>3. q \in Positions
    <3>1. {r} \in SUBSET requests /\ now \in Int
      BY <1>1, <1>2
    <3> QED  BY <2>1, <2>2, <3>1 DEF Positions
  <2>4. /\ q.status = "WRITTEN_OFF" /\ q.written = now /\ q.request = {r}
        /\ q.debit = p.debit /\ q.sale = p.sale /\ q.exit = p.exit /\ q.entry = p.entry
        /\ q.repaired = p.repaired /\ q.asked = p.asked /\ q.seen = p.seen
        /\ q.entryQuote = p.entryQuote /\ q.exitQuote = p.exitQuote
    BY <2>1, <2>2 DEF Positions
  <2> QED  BY <2>2, <2>3, <2>4 DEF p, q
<1>9. \A m \in planned : Unsold(a.pos[m])
  <2>1. ASSUME NEW m \in planned PROVE Unsold(a.pos[m])
    <3>1. Unsold(book.pos[m]) /\ book.pos[m].status = "ENDED_UNRESOLVED"
      BY <1>3, <1>4, <1>5
    <3>2. /\ a.pos[m].status = "WRITTEN_OFF" /\ a.pos[m].written = now
          /\ a.pos[m].sale = book.pos[m].sale /\ a.pos[m].exit = book.pos[m].exit
      BY <1>8
    <3> QED  BY <1>2, <3>1, <3>2 DEF Unsold
  <2> QED  BY <2>1
<1>10. a \in BookType
  <2>1. \A m \in Marks : a.pos[m] \in Positions
    <3>1. ASSUME NEW m \in Marks PROVE a.pos[m] \in Positions
      <4>1. CASE m \in planned
        BY <1>8, <4>1
      <4>2. CASE m \notin planned
        BY <1>3, <1>7, <4>2 DEF BookType
      <4> QED  BY <4>1, <4>2
    <3> QED  BY <3>1
  <2>2. a.pos \in [Marks -> Positions]
    BY <1>7, <2>1
  <2>3. Debits(book, planned) \in Int
    <3> DEFINE d == [m \in Marks |-> book.pos[m].debit]
    <3>1. \A m \in Marks : d[m] \in Int
      BY <1>3 DEF BookType, Positions
    <3>2. IsFiniteSet(planned)
      BY <1>4, MarksFinite
    <3>3. \A m \in planned : d[m] \in Int
      BY <1>4, <3>1
    <3> HIDE DEF d
    <3>4. Total(d, planned) \in Int
      BY <3>2, <3>3, TotalInt
    <3> QED  BY <3>4 DEF Debits, d
  <2>4. /\ a.processed \in Int /\ a.watermark \in Int /\ a.settled \in Int
        /\ a.unsettled \in Int /\ a.realized \in Int
    <3>1. /\ book.processed \in Int /\ book.watermark \in Int /\ book.settled \in Int
          /\ book.unsettled \in Int /\ book.realized \in Int
      BY <1>3 DEF BookType
    <3>2. book.realized - Debits(book, planned) \in Int
      BY <2>3, <3>1
    <3> QED  BY <1>2, <1>70, <3>1, <3>2
  <2> QED  BY <1>7, <2>2, <2>4 DEF BookType
<1>11. Solid(a)
  <2>1. \A m \in Marks : m \notin planned => a.pos[m] = book.pos[m]
    BY <1>7
  <2>2. \A m \in planned : /\ book.pos[m].status = "ENDED_UNRESOLVED"
                           /\ a.pos[m].status = "WRITTEN_OFF" /\ Unsold(a.pos[m])
    BY <1>5, <1>8, <1>9
  <2> QED  BY <1>1, <1>4, <1>7, <1>10, <2>1, <2>2, WriteoffSolid
<1>12. book' = a /\ command' = Idle
  BY DEF a, now
<1>13. a.pos # book.pos
  <2>1. PICK m \in planned : TRUE
    BY <1>4
  <2>2. m \in Marks /\ a.pos[m].written = now /\ book.pos[m].written = None
    <3>1. m \in Marks /\ book.pos[m].status = "ENDED_UNRESOLVED" /\ Unsold(book.pos[m])
      BY <1>3, <1>4, <1>5
    <3>2. a.pos[m].written = now
      BY <1>8
    <3> QED  BY <3>1, <3>2 DEF Unsold
  <2> QED  BY <1>2, <2>2
<1>14. snapshot' = Recorded(a, now)
  BY <1>12, <1>13 DEF now
<1>15. /\ \A m \in planned : m \in Writeoffs(a) /\ a.pos[m].written = now
       /\ \A m \in Writeoffs(book) : /\ m \in Writeoffs(a) /\ m \notin planned /\ a.pos[m] = book.pos[m]
                                     /\ m \in Marks
       /\ \A m \in Writeoffs(a) : m \in planned \/ m \in Writeoffs(book)
  <2>1. \A m \in planned : m \in Writeoffs(a) /\ a.pos[m].written = now
    BY <1>2, <1>4, <1>8 DEF Writeoffs
  <2>2. ASSUME NEW m \in Writeoffs(book)
        PROVE  m \in Writeoffs(a) /\ m \notin planned /\ a.pos[m] = book.pos[m] /\ m \in Marks
    <3>1. m \in Marks /\ book.pos[m].written # None
      BY DEF Writeoffs
    <3>2. book.pos[m].status = "WRITTEN_OFF"
      BY <1>3, <3>1 DEF Unsold
    <3>3. m \notin planned
      BY <1>5, <3>2
    <3>4. a.pos[m] = book.pos[m]
      BY <1>7, <3>1, <3>3
    <3> QED  BY <3>1, <3>3, <3>4 DEF Writeoffs
  <2>3. ASSUME NEW m \in Writeoffs(a), m \notin planned PROVE m \in Writeoffs(book)
    BY <1>7, <2>3 DEF Writeoffs
  <2> QED  BY <2>1, <2>2, <2>3
<1>16. ASSUME NEW m \in Writeoffs(book)
       PROVE  /\ book.pos[m].written \in FinalEnd(m)..book.processed /\ book.pos[m].written <= now
              /\ \E s \in requests :
                   /\ m \in DOMAIN s.original /\ book.pos[m].request = {s}
                   /\ book.pos[m] = [s.original[m] EXCEPT !.status = "WRITTEN_OFF",
                                        !.written = book.pos[m].written, !.request = {s}]
  <2>1. /\ book.pos[m].written \in FinalEnd(m)..book.processed
        /\ \E s \in requests :
             /\ m \in DOMAIN s.original /\ book.pos[m].request = {s}
             /\ book.pos[m] = [s.original[m] EXCEPT !.status = "WRITTEN_OFF",
                                  !.written = book.pos[m].written, !.request = {s}]
    BY <1>1 DEF RecordsInOrder
  <2>2. m \in Marks
    BY <1>15
  <2>3. book.pos[m].written \in Int
    BY <1>3, <2>2 DEF BookType, Positions
  <2>4. book.pos[m].written <= now
    BY <1>1, <1>2, <2>1, <2>3
  <2> QED  BY <2>1, <2>4
<1>17. LET s == Recorded(a, now) IN
       /\ Knows(s, a) /\ s \in [at : Int, equity : Int, writeoffs : 0..Cardinality(Marks)]
       /\ s.at = now
  <2>1. snapshot \in [at : Int, equity : Int, writeoffs : 0..Cardinality(Marks)]
    BY <1>1
  <2>2. Knows(snapshot, book)
    BY <1>1 DEF RecordsInOrder, Knows, Before, Until
  <2>3. \A m \in Writeoffs(book) : /\ m \in Writeoffs(a) /\ a.pos[m].written = book.pos[m].written
                                   /\ a.pos[m].written <= now
    BY <1>15, <1>16
  <2>4. \A m \in Writeoffs(a) : m \in Writeoffs(book) \/ a.pos[m].written = now
    BY <1>15
  <2>5. book.processed \in Int
    BY <1>1
  <2> QED  BY <1>2, <1>3, <1>7, <1>10, <2>1, <2>2, <2>3, <2>4, <2>5, RecordedKnows
<1>18. /\ Knows(snapshot', a) /\ snapshot'.at = now
       /\ snapshot' \in [at : Int, equity : Int, writeoffs : 0..Cardinality(Marks)]
  BY <1>14, <1>17
<1>19. TypeOK'
  <2>1. clock' \in Nat /\ scan' \in (0..clock') \cup {None}
    BY <1>0 DEF AccountInv, TypeOK
  <2>2. command'.now \in (0..clock') \cup {None} /\ command'.request \subseteq requests'
    BY <1>12 DEF Idle
  <2>3. snapshot' \in [at : 0..clock', equity : Int, writeoffs : 0..Cardinality(Marks)]
    BY <1>0, <1>2, <1>18
  <2>4. a.unsettled \in Nat
    <3>1. a.unsettled = Sales(a, In(a, {"UNSETTLED"}))
      BY <1>11 DEF Solid
    <3> QED  BY <1>10, <3>1, SumsNat
  <2>5. a \in [processed : 0..clock, watermark : 0..Cardinality(Marks), settled : Int,
               unsettled : Nat, realized : Int, pos : [Marks -> Positions]]
    <3>1. a.processed \in 0..clock /\ a.watermark \in 0..Cardinality(Marks)
      BY <1>2, <1>7 DEF AccountInv, TypeOK
    <3> QED  BY <1>10, <2>4, <3>1 DEF BookType
  <2>6. book' \in [processed : 0..clock', watermark : 0..Cardinality(Marks), settled : Int,
               unsettled : Nat, realized : Int, pos : [Marks -> Positions']]
    BY <1>0, <1>12, <2>5
  <2>7. /\ mark' \in [Marks -> [created : Int, fits : BOOLEAN]]
        /\ signal' \in [Marks -> [reason : {"OPEN", "EXIT", "DATA_GAP"}, at : Int]]
    BY <1>0 DEF AccountInv, TypeOK
  <2> QED  BY <2>1, <2>2, <2>3, <2>6, <2>7 DEF TypeOK
<1>20. Solid(book)' /\ OfMarks'
  <2>1. Solid(book)'
    BY <1>0, <1>11, <1>12 DEF Solid, BookType, Debits, Sales, HeldFees, In
  <2> QED  BY <1>0, <2>1 DEF AccountInv, OfMarks
<1>21. RecordsInOrder'
  <2>1. Writeoffs(book)' = Writeoffs(a) /\ book' = a
    BY <1>12 DEF Writeoffs
  <2>2. /\ snapshot'.at <= book'.processed
        /\ Cardinality({m \in Writeoffs(book)' : book'.pos[m].written < snapshot'.at}) <= snapshot'.writeoffs
        /\ snapshot'.writeoffs <= Cardinality({m \in Writeoffs(book)' : book'.pos[m].written <= snapshot'.at})
    BY <1>18, <2>1 DEF Knows, Before, Until
  <2>3. ASSUME NEW m \in Writeoffs(a)
        PROVE  /\ a.pos[m].written \in FinalEnd(m)..a.processed
               /\ \E s \in requests :
                    /\ m \in DOMAIN s.original /\ a.pos[m].request = {s}
                    /\ a.pos[m] = [s.original[m] EXCEPT !.status = "WRITTEN_OFF",
                                      !.written = a.pos[m].written, !.request = {s}]
    <3>1. m \in Marks
      BY DEF Writeoffs
    <3>2. FinalEnd(m) \in Int
      BY <1>1, <3>1, Ends DEF FinalEnd, Created, FinalOf
    <3>3. CASE m \in planned
      <4>1. now \in FinalEnd(m)..now
        BY <1>2, <1>5, <3>2, <3>3
      <4>2. /\ a.pos[m].written = now /\ a.pos[m].request = {r}
            /\ a.pos[m] = [r.original[m] EXCEPT !.status = "WRITTEN_OFF", !.written = now, !.request = {r}]
        <5>1. book.pos[m] = r.original[m]
          BY <1>5, <3>3
        <5>2. /\ a.pos[m] = [book.pos[m] EXCEPT !.status = "WRITTEN_OFF", !.written = now, !.request = {r}]
              /\ a.pos[m].written = now /\ a.pos[m].request = {r}
          BY <1>8, <3>3
        <5> QED  BY <5>1, <5>2, Zenon
      <4>3. r \in requests /\ m \in DOMAIN r.original
        BY <1>1, <1>5, <3>3
      <4> QED  BY <1>7, <4>1, <4>2, <4>3
    <3>4. CASE m \notin planned
      <4>1. m \in Writeoffs(book) /\ a.pos[m] = book.pos[m]
        BY <1>15, <3>4
      <4>2. /\ book.pos[m].written \in FinalEnd(m)..book.processed /\ book.pos[m].written <= now
            /\ \E s \in requests :
                   /\ m \in DOMAIN s.original /\ book.pos[m].request = {s}
                   /\ book.pos[m] = [s.original[m] EXCEPT !.status = "WRITTEN_OFF",
                                        !.written = book.pos[m].written, !.request = {s}]
        BY <1>16, <4>1
      <4>3. a.pos[m].written \in FinalEnd(m)..a.processed
        <5>1. a.pos[m].written \in FinalEnd(m)..book.processed /\ a.pos[m].written <= now
          BY <4>1, <4>2
        <5>2. a.processed = now
          BY <1>70
        <5> QED  BY <1>1, <1>2, <3>2, <5>1, <5>2
      <4> QED  BY <4>1, <4>2, <4>3, Zenon
    <3> QED  BY <3>3, <3>4
  <2>4. \A m \in Marks : FinalEnd(m)' = FinalEnd(m)
    BY <1>0 DEF FinalEnd, Created
  <2>5. \A m \in Writeoffs(a) : m \in Marks
    BY DEF Writeoffs
  <2> QED  BY <1>0, <2>1, <2>2, <2>3, <2>4, <2>5 DEF RecordsInOrder
<1>22. Discovery'
  <2>1. \A m \in Marks : Created(m)' = Created(m)
    BY <1>0 DEF Created
  <2>2. CreatedMarks' = CreatedMarks
    BY <2>1 DEF CreatedMarks
  <2>3. ASSUME NEW m \in Marks, a.pos[m].status # "NONE" PROVE book.pos[m].status # "NONE"
    <3>1. CASE m \in planned
      BY <1>5, <3>1
    <3>2. CASE m \notin planned
      BY <1>7, <2>3, <3>2
    <3> QED  BY <3>1, <3>2
  <2> QED  BY <1>1, <1>7, <1>12, <2>1, <2>2, <2>3 DEF Discovery
<1>23. Punctual'
  <2>1. PICK m \in planned : TRUE
    BY <1>4
  <2>2. m \in Writeoffs(book)' /\ book'.pos[m].written = book'.processed
    BY <1>7, <1>12, <1>15, <2>1 DEF Writeoffs
  <2> QED  BY <2>2 DEF Punctual
<1>24. \A m \in Marks : Sound(mark, signal, m, book.pos[m])'
  <2>1. ASSUME NEW m \in Marks PROVE Sound(mark, signal, m, a.pos[m])
    <3>1. Sound(mark, signal, m, book.pos[m])
      BY DEF AccountInv
    <3>2. CASE m \in planned
      <4> DEFINE p == book.pos[m]
                 q == a.pos[m]
      <4>1. /\ q \in Positions /\ q.status = "WRITTEN_OFF" /\ q.exit = p.exit /\ q.entry = p.entry
            /\ q.repaired = p.repaired /\ q.asked = p.asked /\ q.seen = p.seen
            /\ q.entryQuote = p.entryQuote /\ q.exitQuote = p.exitQuote
        BY <1>8, <3>2
      <4>2. Unsold(q)
        BY <1>9, <3>2
      <4> HIDE DEF q, p
      <4>3. Asked(signal, m, p) /\ Filled(mark, m, p) /\ Exited(mark, signal, m, p)
        BY <3>1 DEF Sound, p
      <4>4. Asked(signal, m, q) /\ Filled(mark, m, q) /\ Exited(mark, signal, m, q)
        BY <4>1, <4>3 DEF Asked, Filled, Exited
      <4> QED  BY <4>1, <4>2, <4>4 DEF Sound, q
    <3>3. CASE m \notin planned
      BY <1>7, <3>1, <3>3
    <3> QED  BY <3>2, <3>3
  <2>2. \A m \in Marks : Sound(mark', signal', m, book'.pos[m])
    BY <1>0, <1>12, <2>1
  <2> QED  BY <1>0, <2>2 DEF Sound
<1> QED  BY <1>19, <1>20, <1>21, <1>22, <1>23, <1>24 DEF AccountInv

\* A tick of the clock keeps the invariant.
LEMMA PassStep == ASSUME AccountInv, Pass PROVE AccountInv'
<1>1. /\ clock' = clock + 1 /\ UNCHANGED <<scan, command, requests, mark, signal, book, snapshot>>
  BY DEF Pass
<1>2. clock \in Nat /\ scan \in (0..clock) \cup {None} /\ command.now \in (0..clock) \cup {None}
      /\ command.request \subseteq requests
  BY DEF AccountInv, TypeOK
<1>3. /\ clock' \in Nat /\ clock <= clock' /\ scan' \in (0..clock') \cup {None}
      /\ command'.now \in (0..clock') \cup {None} /\ command'.request \subseteq requests'
  BY <1>1, <1>2
<1>4. OfMarks'
  BY <1>1 DEF AccountInv, OfMarks
<1> QED  BY <1>1, <1>3, <1>4, QuietStep

\* A scanner that reads its clock keeps the invariant.
LEMMA ReadClockStep == ASSUME AccountInv, ReadClock PROVE AccountInv'
<1>1. /\ scan' = clock /\ UNCHANGED <<clock, command, requests, mark, signal, book, snapshot>>
  BY DEF ReadClock
<1>2. clock \in Nat /\ command.now \in (0..clock) \cup {None} /\ command.request \subseteq requests
  BY DEF AccountInv, TypeOK
<1>3. /\ clock' \in Nat /\ clock <= clock' /\ scan' \in (0..clock') \cup {None}
      /\ command'.now \in (0..clock') \cup {None} /\ command'.request \subseteq requests'
  BY <1>1, <1>2
<1>4. OfMarks'
  BY <1>1 DEF AccountInv, OfMarks
<1> QED  BY <1>1, <1>3, <1>4, QuietStep

\* A prepared request is a copy of ended positions.
LEMMA PrepareStep ==
  ASSUME AccountInv, NEW targets \in SUBSET Marks, NEW ref, Prepare(targets, ref)
  PROVE  AccountInv'
<1> DEFINE r == [ref |-> ref, original |-> [m \in targets |-> book.pos[m]]]
<1>1. /\ requests' = requests \cup {r}
      /\ UNCHANGED <<clock, scan, command, mark, signal, book, snapshot>>
  BY DEF Prepare
<1>2. clock \in Nat /\ scan \in (0..clock) \cup {None} /\ command.now \in (0..clock) \cup {None}
      /\ command.request \subseteq requests
  BY DEF AccountInv, TypeOK
<1>3. OfMarks'
  <2>1. DOMAIN r.original = targets
    OBVIOUS
  <2> QED  BY <1>1, <2>1 DEF AccountInv, OfMarks
<1> HIDE DEF r
<1>4. /\ clock' \in Nat /\ clock <= clock' /\ scan' \in (0..clock') \cup {None}
      /\ command'.now \in (0..clock') \cup {None} /\ command'.request \subseteq requests'
      /\ requests \subseteq requests'
  BY <1>1, <1>2
<1> QED  BY <1>1, <1>3, <1>4, QuietStep

\* Sending or abandoning a request keeps the invariant.
LEMMA CommandStep ==
  ASSUME AccountInv, \/ \E r \in requests : Send(r)
                     \/ Abandon
                     \/ command' = Idle /\ UNCHANGED <<clock, scan, requests, mark, signal, book, snapshot>>
  PROVE  AccountInv'
<1>1. UNCHANGED <<clock, scan, requests, mark, signal, book, snapshot>>
  BY DEF Send, Abandon
<1>2. clock \in Nat /\ scan \in (0..clock) \cup {None}
  BY DEF AccountInv, TypeOK
<1>3. command'.now \in (0..clock') \cup {None} /\ command'.request \subseteq requests'
  <2>1. CASE command' = Idle
    BY <2>1 DEF Idle
  <2>2. CASE \E r \in requests : Send(r)
    BY <1>1, <1>2, <2>2 DEF Send
  <2> QED  BY <2>1, <2>2 DEF Abandon
<1>4. OfMarks'
  BY <1>1 DEF AccountInv, OfMarks
<1>5. clock' \in Nat /\ clock <= clock' /\ scan' \in (0..clock') \cup {None}
  BY <1>1, <1>2
<1> QED  BY <1>1, <1>3, <1>4, <1>5, QuietStep

\* Applying or refusing a request keeps the invariant.
LEMMA ApplyStep == ASSUME AccountInv, Apply PROVE AccountInv'
<1>1. PICK r \in command.request :
        /\ command' = Idle
        /\ IF /\ ~Late(command.now)
              /\ \A m \in DOMAIN r.original :
                   book.pos[m].request = {r} \/ Applicable(r, m, command.now)
           THEN /\ book' = WrittenOff(r, command.now)
                /\ snapshot' = IF book'.pos = book.pos THEN snapshot
                               ELSE Recorded(book', command.now)
           ELSE UNCHANGED <<book, snapshot>>
        /\ UNCHANGED <<clock, scan, requests, mark, signal>>
  BY DEF Apply
<1> DEFINE planned == {m \in DOMAIN r.original : book.pos[m].request # {r}}
           all == /\ ~Late(command.now)
                  /\ \A m \in DOMAIN r.original :
                       book.pos[m].request = {r} \/ Applicable(r, m, command.now)
<1>2. CASE ~all
  <2>1. UNCHANGED <<clock, scan, requests, mark, signal, book, snapshot>>
    BY <1>1, <1>2
  <2> QED  BY <1>1, <2>1, CommandStep
<1>3. CASE all /\ planned = {}
  <2>1. book' = WrittenOff(r, command.now)
        /\ snapshot' = IF book'.pos = book.pos THEN snapshot ELSE Recorded(book', command.now)
    BY <1>1, <1>3
  <2>2. book' = [book EXCEPT !.pos = [m \in Marks |-> book.pos[m]],
                             !.realized = book.realized - Debits(book, {}), !.processed = book.processed]
    <3>1. WrittenOff(r, command.now) =
            [book EXCEPT !.pos = [m \in Marks |->
                    IF m \in planned
                    THEN [book.pos[m] EXCEPT !.status = "WRITTEN_OFF", !.written = command.now, !.request = {r}]
                    ELSE book.pos[m]],
                  !.realized = book.realized - Debits(book, planned),
                  !.processed = IF planned = {} THEN book.processed ELSE command.now]
      BY DEF WrittenOff
    <3> HIDE DEF planned
    <3> QED  BY <1>3, <2>1, <3>1
  <2>3. Debits(book, {}) = 0
    BY FS_EmptySet, TotalEquation DEF Debits
  <2>4. book \in BookType
    BY DEF AccountInv, Solid
  <2>5. book' = book
    <3>1. book.pos = [m \in Marks |-> book.pos[m]] /\ book.realized - 0 = book.realized
      BY <2>4 DEF BookType
    <3> QED  BY <2>2, <2>3, <2>4, <3>1 DEF BookType
  <2>6. snapshot' = snapshot
    BY <2>1, <2>5
  <2>7. UNCHANGED <<clock, scan, requests, mark, signal, book, snapshot>>
    BY <1>1, <2>5, <2>6
  <2> QED  BY <1>1, <2>7, CommandStep
<1>4. CASE all /\ planned # {}
  <2>1. book' = WrittenOff(r, command.now)
        /\ snapshot' = IF book'.pos = book.pos THEN snapshot ELSE Recorded(book', command.now)
    BY <1>1, <1>4
  <2> QED  BY <1>1, <1>4, <2>1, WriteoffStep
<1> QED  BY <1>2, <1>3, <1>4

\* Every step keeps the invariant.
LEMMA InvStep == AccountInv /\ [Next]_vars => AccountInv'
<1> SUFFICES ASSUME AccountInv, [Next]_vars PROVE AccountInv'
  OBVIOUS
<1>1. CASE Pass
  BY <1>1, PassStep
<1>2. CASE ReadClock
  BY <1>2, ReadClockStep
<1>3. ASSUME NEW new \in Arrivals, NEW end \in Endings, NEW market \in Markets, NEW age \in Ages,
             NEW feed \in Feeds, NEW fails \in BOOLEAN, Scan(new, end, market, age, feed, fails)
      PROVE  AccountInv'
  BY <1>3, ScanSkips, ScanAdvances
<1>4. ASSUME NEW targets \in SUBSET Marks, NEW ref \in Refs, Prepare(targets, ref) PROVE AccountInv'
  BY <1>4, PrepareStep
<1>5. CASE (\E r \in requests : Send(r)) \/ Abandon
  BY <1>5, CommandStep
<1>6. CASE Apply
  BY <1>6, ApplyStep
<1>7. CASE UNCHANGED vars
  <2>1. /\ UNCHANGED <<mark, signal, book, snapshot>> /\ requests' = requests /\ clock' = clock
        /\ scan' = scan /\ command' = command
    BY <1>7 DEF vars
  <2>2. /\ clock' \in Nat /\ clock <= clock' /\ scan' \in (0..clock') \cup {None}
        /\ command'.now \in (0..clock') \cup {None} /\ command'.request \subseteq requests'
        /\ OfMarks'
    BY <2>1 DEF AccountInv, TypeOK, OfMarks
  <2> QED  BY <2>1, <2>2, QuietStep
<1> QED  BY <1>1, <1>2, <1>3, <1>4, <1>5, <1>6, <1>7 DEF Next
-----------------------------------------------------------------------------
(* The theorems *)

\* AccountInv holds always: the account's ledger, positions and requests are sound
\* whatever the scanner and the operator's command race.
THEOREM AccountInvariant == Spec => []AccountInv
<1> QED  BY InvInit, InvStep, PTL DEF Spec

\* Amounts and stamps keep their types, whatever the passes and the commands do.
THEOREM TypeCorrect == Spec => []TypeOK
<1>1. AccountInv => TypeOK
  BY DEF AccountInv
<1> QED  BY <1>1, AccountInvariant, PTL

\* The cash is accounted for at every moment: a loss is booked once however often its
\* request is sent, a write-off moves no cash, and neither the slots nor the fees of
\* closing what is held run out.
THEOREM MoneyIsConserved == Spec => []MoneyConserved
<1> QED  BY AccountInvariant, InvImplies, PTL

\* The latest observation knows exactly the write-offs of its time, in whatever order
\* the scanner and the operator get the lock, and a write-off is of a prepared request.
THEOREM RecordsStayInOrder == Spec => []RecordsInOrder
<1>1. AccountInv => RecordsInOrder
  BY DEF AccountInv
<1> QED  BY <1>1, AccountInvariant, PTL

\* Fills and exits have the quotes and the bars the rules ask for, and a pass leaves
\* nothing open past its session nor a slot to an ended contract.
THEOREM ExitsHaveEvidence == Spec => []ExitsEvidenced
<1> QED  BY AccountInvariant, InvImplies, PTL
=============================================================================
