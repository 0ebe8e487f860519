---------------------------- MODULE TotalsProofs ----------------------------
(***************************************************************************)
(* Sums over sets of rows and passes over rows: what the account proofs    *)
(* need of them, by the well-founded orders of subsets and of naturals.    *)
(***************************************************************************)
EXTENDS Totals, NaturalsInduction, FiniteSetTheorems, WellFoundedInduction, TLAPS

-----------------------------------------------------------------------------
(* Induction over the subsets of a finite set, over sets instead of formulas *)

\* A set of subsets that holds whatever has all its strict subsets in it holds all.
LEMMA SubsetsInduct ==
  ASSUME NEW S, IsFiniteSet(S), NEW Good,
         \A T \in SUBSET S : (\A U \in SUBSET T : U # T => U \in Good) => T \in Good
  PROVE  SUBSET S \subseteq Good
<1> DEFINE Bad == (SUBSET S) \ Good
<1>1. SUFFICES ASSUME Bad # {} PROVE FALSE
  OBVIOUS
<1>2. IsWellFoundedOn(StrictSubsetOrdering(S), SUBSET S)
  BY FS_StrictSubsetOrderingWellFounded, FS_FiniteSubsetsOfFinite
<1>3. Bad \subseteq SUBSET S
  OBVIOUS
<1> HIDE DEF Bad
<1>4. PICK T \in Bad : \A U \in Bad : <<U, T>> \notin StrictSubsetOrdering(S)
  BY <1>1, <1>2, <1>3, WFMin
<1>5. ASSUME NEW U \in SUBSET T, U # T PROVE U \in Good
  <2>1. <<U, T>> \in StrictSubsetOrdering(S)
    BY <1>3, <1>4, <1>5 DEF StrictSubsetOrdering
  <2> QED  BY <1>3, <1>4, <2>1 DEF Bad
<1>6. T \in SUBSET S /\ T \notin Good
  BY <1>4 DEF Bad
<1>7. \A U \in SUBSET T : U # T => U \in Good
  BY <1>5
<1> QED  BY <1>6, <1>7

\* The same for the numbers up to n.
LEMMA NumbersInduct ==
  ASSUME NEW n \in Nat, NEW Good, 0 \in Good, \A i \in 1..n : i - 1 \in Good => i \in Good
  PROVE  0..n \subseteq Good
<1> DEFINE Bad == 0..n \ Good
<1>1. SUFFICES ASSUME Bad # {} PROVE FALSE
  OBVIOUS
<1>2. Bad \in SUBSET Nat
  OBVIOUS
<1> HIDE DEF Bad
<1>3. PICK i \in Bad : \A j \in Bad : <<j, i>> \notin OpToRel(<, Nat)
  BY <1>1, <1>2, NatLessThanWellFounded, WFMin
<1>4. \A j \in Bad : ~(j < i)
  BY <1>2, <1>3 DEF OpToRel
<1>5. i \in 0..n /\ i \notin Good /\ i \in Nat
  BY <1>2, <1>3 DEF Bad
<1>6. i \in 1..n /\ i - 1 \in 0..n
  BY <1>5
<1>7. i - 1 \notin Bad
  BY <1>4, <1>6
<1>8. i - 1 \in Good
  BY <1>6, <1>7 DEF Bad
<1> QED  BY <1>5, <1>6, <1>8
-----------------------------------------------------------------------------
(* Total *)

\* The recursion of Total, as a function on the subsets of S.
Chosen(s) == CHOOSE x \in s : TRUE
Adds(h, amount, S) ==
  h = [s \in SUBSET S |-> IF s = {} THEN 0 ELSE amount[Chosen(s)] + h[s \ {Chosen(s)}]]

\* The member that the fold chooses is a member.
LEMMA ChosenIn == ASSUME NEW s, s # {} PROVE Chosen(s) \in s
  BY DEF Chosen

\* Solutions for two sets agree on their common subsets.
LEMMA SolutionsAgree ==
  ASSUME NEW amount, NEW S, IsFiniteSet(S), NEW T \in SUBSET S, NEW g, NEW h,
         Adds(g, amount, S), Adds(h, amount, T)
  PROVE  g[T] = h[T]
<1> DEFINE Good == {s \in SUBSET T : g[s] = h[s]}
<1>1. IsFiniteSet(T)
  BY FS_Subset
<1>2. ASSUME NEW s \in SUBSET T, \A u \in SUBSET s : u # s => u \in Good
      PROVE  s \in Good
  <2>1. CASE s = {}
    BY <2>1 DEF Adds
  <2>2. CASE s # {}
    <3>1. Chosen(s) \in s
      BY <2>2, ChosenIn
    <3>2. s \ {Chosen(s)} \in Good
      BY <1>2, <3>1
    <3>3. /\ g[s] = amount[Chosen(s)] + g[s \ {Chosen(s)}]
          /\ h[s] = amount[Chosen(s)] + h[s \ {Chosen(s)}]
      BY <2>2 DEF Adds
    <3> QED  BY <3>2, <3>3
  <2> QED  BY <2>1, <2>2
<1> HIDE DEF Good
<1>3. SUBSET T \subseteq Good
  BY <1>1, <1>2, SubsetsInduct
<1> QED  BY <1>3 DEF Good

\* The fold's recursion has a solution on every subset.
LEMMA SolutionExists ==
  ASSUME NEW amount, NEW S, IsFiniteSet(S)
  PROVE  \E h : Adds(h, amount, S)
<1> DEFINE Good == {T \in SUBSET S : \E h : Adds(h, amount, T)}
           Sol(T) == CHOOSE h : Adds(h, amount, T)
<1>1. ASSUME NEW T \in SUBSET S, \A U \in SUBSET T : U # T => U \in Good
      PROVE  T \in Good
  <2> DEFINE rest == T \ {Chosen(T)}
             top == IF T = {} THEN 0 ELSE amount[Chosen(T)] + Sol(rest)[rest]
             h == [s \in SUBSET T |-> IF s = T THEN top ELSE Sol(s)[s]]
  <2>1. ASSUME NEW s \in SUBSET T, s # T PROVE Adds(Sol(s), amount, s) /\ IsFiniteSet(s)
    BY <1>1, <2>1, FS_Subset
  <2>2. ASSUME NEW s \in SUBSET T
        PROVE  h[s] = IF s = {} THEN 0 ELSE amount[Chosen(s)] + h[s \ {Chosen(s)}]
    <3>1. CASE s = T
      <4>1. T # {} => rest \in SUBSET T /\ rest # T
        BY ChosenIn
      <4> HIDE DEF Sol, Chosen
      <4> QED  BY <3>1, <4>1
    <3>2. CASE s # T /\ s = {}
      <4> HIDE DEF Sol
      <4>1. Adds(Sol(s), amount, s) /\ h[s] = Sol(s)[s]
        BY <2>1, <3>2
      <4> HIDE DEF h
      <4> QED  BY <3>2, <4>1 DEF Adds
    <3>3. CASE s # T /\ s # {}
      <4> DEFINE u == s \ {Chosen(s)}
      <4>1. Chosen(s) \in s /\ u \in SUBSET s /\ u \in SUBSET T /\ u # T
        BY <3>3, ChosenIn
      <4> HIDE DEF Sol, u
      <4>2. h[s] = Sol(s)[s] /\ h[u] = Sol(u)[u]
        BY <3>3, <4>1
      <4> HIDE DEF h
      <4>3. Adds(Sol(s), amount, s) /\ IsFiniteSet(s) /\ Adds(Sol(u), amount, u)
        BY <2>1, <3>3, <4>1
      <4>4. Sol(s)[s] = amount[Chosen(s)] + Sol(s)[u]
        BY <3>3, <4>3 DEF Adds, u
      <4>5. Sol(s)[u] = Sol(u)[u]
        BY <4>1, <4>3, SolutionsAgree
      <4> QED  BY <3>3, <4>2, <4>4, <4>5 DEF u
    <3> QED  BY <3>1, <3>2, <3>3
  <2>3. h = [s \in SUBSET T |-> h[s]]
    OBVIOUS
  <2> HIDE DEF h
  <2>4. Adds(h, amount, T)
    BY <2>2, <2>3 DEF Adds
  <2> QED  BY <2>4
<1> HIDE DEF Good
<1>2. SUBSET S \subseteq Good
  BY <1>1, SubsetsInduct
<1> QED  BY <1>2 DEF Good

\* Total is that solution.
LEMMA TotalIsSolution ==
  ASSUME NEW amount, NEW S, IsFiniteSet(S)
  PROVE  \E h : Adds(h, amount, S) /\ Total(amount, S) = h[S]
<1> DEFINE it == CHOOSE iter : iter = [s \in SUBSET S |-> IF s = {} THEN 0
                   ELSE LET x == CHOOSE x \in s : TRUE IN amount[x] + iter[s \ {x}]]
<1>1. Total(amount, S) = it[S]
  BY DEF Total, MapThenFoldSet
<1>2. \E h : h = [s \in SUBSET S |-> IF s = {} THEN 0
                   ELSE LET x == CHOOSE x \in s : TRUE IN amount[x] + h[s \ {x}]]
  <2>1. PICK h : Adds(h, amount, S)
    BY SolutionExists
  <2> QED  BY <2>1 DEF Adds, Chosen
<1>3. it = [s \in SUBSET S |-> IF s = {} THEN 0
                   ELSE LET x == CHOOSE x \in s : TRUE IN amount[x] + it[s \ {x}]]
  BY <1>2, Zenon
<1> HIDE DEF it
<1>4. Adds(it, amount, S)
  BY <1>3 DEF Adds, Chosen
<1> QED BY <1>1, <1>4

\* The equation of Total.
LEMMA TotalEquation ==
  ASSUME NEW amount, NEW S, IsFiniteSet(S)
  PROVE  /\ S = {} => Total(amount, S) = 0
         /\ S # {} => Total(amount, S) = amount[Chosen(S)] + Total(amount, S \ {Chosen(S)})
<1>1. PICK h : Adds(h, amount, S) /\ Total(amount, S) = h[S]
  BY TotalIsSolution
<1>2. S = {} => Total(amount, S) = 0
  BY <1>1 DEF Adds
<1>3. ASSUME S # {} PROVE Total(amount, S) = amount[Chosen(S)] + Total(amount, S \ {Chosen(S)})
  <2> DEFINE T == S \ {Chosen(S)}
  <2>1. IsFiniteSet(T) /\ T \in SUBSET S
    BY FS_Subset
  <2> HIDE DEF T
  <2>2. PICK g : Adds(g, amount, T) /\ Total(amount, T) = g[T]
    BY <2>1, TotalIsSolution
  <2>3. h[T] = g[T]
    BY <1>1, <2>1, <2>2, SolutionsAgree
  <2>4. h[S] = amount[Chosen(S)] + h[T]
    BY <1>1, <1>3 DEF Adds, T
  <2> QED  BY <1>1, <2>2, <2>3, <2>4 DEF T
<1> QED  BY <1>2, <1>3

\* A sum of integers is an integer.
LEMMA TotalInt ==
  ASSUME NEW S, IsFiniteSet(S), NEW amount, \A x \in S : amount[x] \in Int
  PROVE  Total(amount, S) \in Int
<1> DEFINE Good == {T \in SUBSET S : Total(amount, T) \in Int}
<1>1. ASSUME NEW T \in SUBSET S, \A U \in SUBSET T : U # T => U \in Good
      PROVE  T \in Good
  <2>1. IsFiniteSet(T)
    BY FS_Subset
  <2>2. CASE T = {}
    <3>1. Total(amount, T) = 0
      BY <2>1, <2>2, TotalEquation
    <3> QED  BY <3>1
  <2>3. CASE T # {}
    <3>1. Chosen(T) \in T
      BY <2>3, ChosenIn
    <3>2. T \ {Chosen(T)} \in Good
      BY <1>1, <3>1
    <3>3. Total(amount, T) = amount[Chosen(T)] + Total(amount, T \ {Chosen(T)})
      BY <2>1, <2>3, TotalEquation
    <3> QED  BY <3>1, <3>2, <3>3
  <2> QED  BY <2>2, <2>3
<1> HIDE DEF Good
<1>2. SUBSET S \subseteq Good
  BY <1>1, SubsetsInduct
<1> QED  BY <1>2 DEF Good

\* Any element may be taken out first.
LEMMA TotalWithout ==
  ASSUME NEW S, IsFiniteSet(S), NEW amount, \A x \in S : amount[x] \in Int
  PROVE  \A x \in S : Total(amount, S) = amount[x] + Total(amount, S \ {x})
<1> DEFINE Good == {T \in SUBSET S : \A x \in T : Total(amount, T) = amount[x] + Total(amount, T \ {x})}
<1>1. ASSUME NEW T \in SUBSET S, \A U \in SUBSET T : U # T => U \in Good
      PROVE  T \in Good
  <2>1. SUFFICES ASSUME NEW x \in T PROVE Total(amount, T) = amount[x] + Total(amount, T \ {x})
    OBVIOUS
  <2> DEFINE f == Chosen(T)
  <2>2. f \in T
    BY ChosenIn
  <2>3. Total(amount, T) = amount[f] + Total(amount, T \ {f})
    BY FS_Subset, TotalEquation
  <2> HIDE DEF f
  <2>4. CASE x # f
    <3> DEFINE rest == (T \ {f}) \ {x}
    <3>1. T \ {f} \in Good /\ T \ {x} \in Good /\ x \in T \ {f} /\ f \in T \ {x}
      BY <1>1, <2>2, <2>4
    <3>2. (T \ {x}) \ {f} = rest
      OBVIOUS
    <3>3. /\ Total(amount, T \ {f}) = amount[x] + Total(amount, rest)
          /\ Total(amount, T \ {x}) = amount[f] + Total(amount, rest)
      BY <3>1, <3>2
    <3>4. amount[x] \in Int /\ amount[f] \in Int /\ Total(amount, rest) \in Int
      <4>1. IsFiniteSet(rest)
        BY FS_Subset
      <4> QED  BY <2>2, <4>1, TotalInt
    <3> HIDE DEF rest
    <3> QED  BY <2>3, <3>3, <3>4
  <2> QED  BY <2>3, <2>4
<1> HIDE DEF Good
<1>2. SUBSET S \subseteq Good
  BY <1>1, SubsetsInduct
<1> QED  BY <1>2 DEF Good

\* One row more.
LEMMA TotalWith ==
  ASSUME NEW S, IsFiniteSet(S), NEW amount, NEW x, x \notin S,
         \A y \in S \cup {x} : amount[y] \in Int
  PROVE  Total(amount, S \cup {x}) = amount[x] + Total(amount, S)
<1>1. IsFiniteSet(S \cup {x})
  BY FS_AddElement
<1>2. (S \cup {x}) \ {x} = S
  OBVIOUS
<1> QED  BY <1>1, <1>2, TotalWithout

\* Only the amounts of the summed rows matter.
LEMMA TotalSame ==
  ASSUME NEW S, IsFiniteSet(S), NEW a, NEW b, \A x \in S : a[x] = b[x]
  PROVE  Total(a, S) = Total(b, S)
<1> DEFINE Good == {T \in SUBSET S : Total(a, T) = Total(b, T)}
<1>1. ASSUME NEW T \in SUBSET S, \A U \in SUBSET T : U # T => U \in Good
      PROVE  T \in Good
  <2>1. IsFiniteSet(T)
    BY FS_Subset
  <2>2. CASE T = {}
    BY <2>1, <2>2, TotalEquation
  <2>3. CASE T # {}
    <3>1. Chosen(T) \in T
      BY <2>3, ChosenIn
    <3>2. T \ {Chosen(T)} \in Good
      BY <1>1, <3>1
    <3>3. /\ Total(a, T) = a[Chosen(T)] + Total(a, T \ {Chosen(T)})
          /\ Total(b, T) = b[Chosen(T)] + Total(b, T \ {Chosen(T)})
      BY <2>1, <2>3, TotalEquation
    <3> QED  BY <3>1, <3>2, <3>3
  <2> QED  BY <2>2, <2>3
<1> HIDE DEF Good
<1>2. SUBSET S \subseteq Good
  BY <1>1, SubsetsInduct
<1> QED  BY <1>2 DEF Good

\* A sum of natural numbers is one.
LEMMA TotalNat ==
  ASSUME NEW S, IsFiniteSet(S), NEW amount, \A x \in S : amount[x] \in Nat
  PROVE  Total(amount, S) \in Nat
<1> DEFINE Good == {T \in SUBSET S : Total(amount, T) \in Nat}
<1>1. ASSUME NEW T \in SUBSET S, \A U \in SUBSET T : U # T => U \in Good
      PROVE  T \in Good
  <2>1. IsFiniteSet(T)
    BY FS_Subset
  <2>2. CASE T = {}
    <3>1. Total(amount, T) = 0
      BY <2>1, <2>2, TotalEquation
    <3>2. 0 \in Nat
      OBVIOUS
    <3> QED  BY <3>1, <3>2
  <2>3. CASE T # {}
    <3>1. Chosen(T) \in T
      BY <2>3, ChosenIn
    <3>2. T \ {Chosen(T)} \in Good
      BY <1>1, <3>1
    <3>3. Total(amount, T) = amount[Chosen(T)] + Total(amount, T \ {Chosen(T)})
      BY <2>1, <2>3, TotalEquation
    <3> QED  BY <3>1, <3>2, <3>3
  <2> QED  BY <2>2, <2>3
<1> HIDE DEF Good
<1>2. SUBSET S \subseteq Good
  BY <1>1, SubsetsInduct
<1> QED  BY <1>2 DEF Good

\* A sum of equal amounts.
LEMMA TotalConstant ==
  ASSUME NEW S, IsFiniteSet(S), NEW amount, NEW c \in Nat, \A x \in S : amount[x] = c
  PROVE  Total(amount, S) = c * Cardinality(S)
<1> DEFINE Good == {T \in SUBSET S : Total(amount, T) = c * Cardinality(T)}
<1>1. ASSUME NEW T \in SUBSET S, \A U \in SUBSET T : U # T => U \in Good
      PROVE  T \in Good
  <2>1. IsFiniteSet(T)
    BY FS_Subset
  <2>2. CASE T = {}
    <3>1. Total(amount, T) = 0 /\ Cardinality(T) = 0
      BY <2>1, <2>2, TotalEquation, FS_EmptySet
    <3> QED  BY <3>1
  <2>3. CASE T # {}
    <3> DEFINE U == T \ {Chosen(T)}
    <3>1. Chosen(T) \in T
      BY <2>3, ChosenIn
    <3>2. U \in Good /\ IsFiniteSet(U) /\ Cardinality(U) = Cardinality(T) - 1
      BY <1>1, <2>1, <3>1, FS_RemoveElement
    <3>3. Total(amount, T) = amount[Chosen(T)] + Total(amount, U)
      BY <2>1, <2>3, TotalEquation
    <3>4. Cardinality(T) \in Nat /\ Cardinality(U) \in Nat
      BY <2>1, <3>2, FS_CardinalityType
    <3> DEFINE t == Cardinality(T)
    <3>5. Total(amount, T) = c + c * (t - 1)
      BY <3>1, <3>2, <3>3
    <3>6. c * t = c + c * (t - 1)
      BY <3>4
    <3> QED  BY <3>5, <3>6
  <2> QED  BY <2>2, <2>3
<1> HIDE DEF Good
<1>2. SUBSET S \subseteq Good
  BY <1>1, SubsetsInduct
<1> QED  BY <1>2 DEF Good

\* A sum over a set splits at any subset.
LEMMA TotalSplit ==
  ASSUME NEW S, IsFiniteSet(S), NEW amount, \A x \in S : amount[x] \in Int, NEW R \in SUBSET S
  PROVE  Total(amount, S) = Total(amount, R) + Total(amount, S \ R)
<1> DEFINE Good == {T \in SUBSET S : Total(amount, S) = Total(amount, T) + Total(amount, S \ T)}
<1>1. ASSUME NEW T \in SUBSET S, \A U \in SUBSET T : U # T => U \in Good
      PROVE  T \in Good
  <2>1. CASE T = {}
    <3>1. IsFiniteSet(T) /\ S \ T = S
      BY <2>1, FS_EmptySet
    <3>2. Total(amount, T) = 0 /\ Total(amount, S) \in Int
      BY <2>1, <3>1, TotalEquation, TotalInt
    <3> QED  BY <3>1, <3>2
  <2>2. CASE T # {}
    <3>1. PICK x : x \in T
      BY <2>2
    <3> DEFINE U == T \ {x}
               V == S \ T
    <3>2. U \in Good /\ U \cup {x} = T /\ V \cup {x} = S \ U /\ x \notin U /\ x \notin V
      BY <1>1, <3>1
    <3>3. IsFiniteSet(U) /\ IsFiniteSet(V) /\ U \in SUBSET S /\ V \in SUBSET S /\ x \in S
      BY <3>1, FS_Subset
    <3> HIDE DEF U, V
    <3>4. /\ Total(amount, T) = amount[x] + Total(amount, U)
          /\ Total(amount, S \ U) = amount[x] + Total(amount, V)
      <4>1. /\ \A y \in U \cup {x} : amount[y] \in Int
            /\ \A y \in V \cup {x} : amount[y] \in Int
        BY <3>3
      <4>2. Total(amount, U \cup {x}) = amount[x] + Total(amount, U)
        BY <3>2, <3>3, <4>1, TotalWith
      <4>3. Total(amount, V \cup {x}) = amount[x] + Total(amount, V)
        BY <3>2, <3>3, <4>1, TotalWith
      <4> QED  BY <3>2, <4>2, <4>3
    <3>5. Total(amount, U) \in Int /\ Total(amount, V) \in Int /\ amount[x] \in Int
      <4>1. (\A y \in U : amount[y] \in Int) /\ (\A y \in V : amount[y] \in Int)
        BY <3>3
      <4> QED  BY <3>3, <4>1, TotalInt
    <3>6. Total(amount, S) = Total(amount, U) + Total(amount, S \ U)
      BY <3>2
    <3> QED  BY <3>4, <3>5, <3>6 DEF V
  <2> QED  BY <2>1, <2>2
<1> HIDE DEF Good
<1>2. SUBSET S \subseteq Good
  BY <1>1, SubsetsInduct
<1> QED  BY <1>2 DEF Good

\* What x adds to the sum over S.
Part(amount, S, x) == IF x \in S THEN amount[x] ELSE 0

\* One row changes its amount, and whether it is summed.
LEMMA TotalMoved ==
  ASSUME NEW M, IsFiniteSet(M), NEW S \in SUBSET M, NEW T \in SUBSET M, NEW x \in M, NEW a, NEW b,
         \A y \in M : a[y] \in Int /\ b[y] \in Int,
         \A y \in M : y # x => a[y] = b[y] /\ (y \in S <=> y \in T)
  PROVE  Total(b, T) = Total(a, S) - Part(a, S, x) + Part(b, T, x)
<1> DEFINE R == S \ {x}
<1>1. /\ IsFiniteSet(R) /\ IsFiniteSet(S) /\ IsFiniteSet(T)
      /\ R = T \ {x} /\ R \in SUBSET M /\ \A y \in R : a[y] = b[y]
      /\ (x \notin S => S = R) /\ (x \notin T => T = R)
  BY FS_Subset
<1> HIDE DEF R
<1>2. Total(a, R) = Total(b, R) /\ Total(a, R) \in Int
  BY <1>1, TotalSame, TotalInt
<1>3. Total(a, S) = (IF x \in S THEN a[x] ELSE 0) + Total(a, R)
  <2>1. CASE x \in S
    <3>1. Total(a, S) = a[x] + Total(a, S \ {x})
      BY <1>1, <2>1, TotalWithout
    <3> QED  BY <2>1, <3>1 DEF R
  <2>2. CASE x \notin S
    <3>1. S = R
      BY <1>1, <2>2
    <3> QED  BY <1>2, <2>2, <3>1
  <2> QED  BY <2>1, <2>2
<1>4. Total(b, T) = (IF x \in T THEN b[x] ELSE 0) + Total(b, R)
  <2>1. CASE x \in T
    <3>1. Total(b, T) = b[x] + Total(b, T \ {x})
      BY <1>1, <2>1, TotalWithout
    <3>2. T \ {x} = R
      BY <1>1
    <3> QED  BY <2>1, <3>1, <3>2
  <2>2. CASE x \notin T
    <3>1. T = R
      BY <1>1, <2>2
    <3> QED  BY <1>2, <2>2, <3>1
  <2> QED  BY <2>1, <2>2
<1>5. a[x] \in Int /\ b[x] \in Int
  OBVIOUS
<1> QED  BY <1>2, <1>3, <1>4, <1>5 DEF Part

\* One element enters a set, or leaves it.
LEMMA CountMoved ==
  ASSUME NEW M, IsFiniteSet(M), NEW S \in SUBSET M, NEW T \in SUBSET M, NEW x \in M,
         \A y \in M : y # x => (y \in S <=> y \in T)
  PROVE  /\ Cardinality(S) \in Nat /\ Cardinality(T) \in Nat
         /\ Cardinality(T) = Cardinality(S) - (IF x \in S THEN 1 ELSE 0) + (IF x \in T THEN 1 ELSE 0)
<1>1. IsFiniteSet(S) /\ IsFiniteSet(T) /\ Cardinality(S) \in Nat /\ Cardinality(T) \in Nat
  BY FS_Subset, FS_CardinalityType
<1>2. CASE x \in S <=> x \in T
  <2>1. S = T
    BY <1>2
  <2> QED  BY <1>1, <2>1
<1>3. CASE x \in S /\ x \notin T
  <2>1. T = S \ {x}
    BY <1>3
  <2> QED  BY <1>1, <1>3, <2>1, FS_RemoveElement
<1>4. CASE x \notin S /\ x \in T
  <2>1. T = S \cup {x}
    BY <1>4
  <2> QED  BY <1>1, <1>4, <2>1, FS_AddElement
<1> QED  BY <1>2, <1>3, <1>4

\* The sum of sums.
LEMMA TotalSum ==
  ASSUME NEW S, IsFiniteSet(S), NEW a, NEW b, NEW c,
         \A x \in S : a[x] \in Int /\ b[x] \in Int /\ c[x] = a[x] + b[x]
  PROVE  Total(c, S) = Total(a, S) + Total(b, S)
<1> DEFINE Good == {T \in SUBSET S : Total(c, T) = Total(a, T) + Total(b, T)}
<1>1. ASSUME NEW T \in SUBSET S, \A U \in SUBSET T : U # T => U \in Good
      PROVE  T \in Good
  <2>1. IsFiniteSet(T)
    BY FS_Subset
  <2>2. CASE T = {}
    <3>1. Total(a, T) = 0 /\ Total(b, T) = 0 /\ Total(c, T) = 0
      BY <2>1, <2>2, TotalEquation
    <3> QED  BY <3>1
  <2>3. CASE T # {}
    <3> DEFINE t == Chosen(T)
               U == T \ {t}
    <3>1. t \in T
      BY <2>3, ChosenIn
    <3>2. U \in Good /\ IsFiniteSet(U) /\ U \in SUBSET S
      BY <1>1, <2>1, <3>1, FS_Subset
    <3>3. /\ Total(a, T) = a[t] + Total(a, U) /\ Total(b, T) = b[t] + Total(b, U)
          /\ Total(c, T) = c[t] + Total(c, U)
      BY <2>1, <2>3, TotalEquation
    <3>4. Total(a, U) \in Int /\ Total(b, U) \in Int
      <4>1. (\A x \in U : a[x] \in Int) /\ (\A x \in U : b[x] \in Int)
        BY <3>2
      <4> QED  BY <3>2, <4>1, TotalInt
    <3>5. Total(c, U) = Total(a, U) + Total(b, U)
      BY <3>2
    <3>6. a[t] \in Int /\ b[t] \in Int /\ c[t] = a[t] + b[t]
      BY <3>1
    <3> HIDE DEF t, U
    <3> QED  BY <3>3, <3>4, <3>5, <3>6
  <2> QED  BY <2>2, <2>3
<1> HIDE DEF Good
<1>2. SUBSET S \subseteq Good
  BY <1>1, SubsetsInduct
<1> QED  BY <1>2 DEF Good

\* Smaller amounts, a smaller sum.
LEMMA TotalAtMost ==
  ASSUME NEW S, IsFiniteSet(S), NEW a, NEW b,
         \A x \in S : a[x] \in Int /\ b[x] \in Int /\ a[x] <= b[x]
  PROVE  Total(a, S) <= Total(b, S)
<1> DEFINE Good == {T \in SUBSET S : Total(a, T) <= Total(b, T)}
<1>1. ASSUME NEW T \in SUBSET S, \A U \in SUBSET T : U # T => U \in Good
      PROVE  T \in Good
  <2>1. IsFiniteSet(T)
    BY FS_Subset
  <2>2. CASE T = {}
    <3>1. Total(a, T) = 0 /\ Total(b, T) = 0
      BY <2>1, <2>2, TotalEquation
    <3> QED  BY <3>1
  <2>3. CASE T # {}
    <3> DEFINE t == Chosen(T)
               U == T \ {t}
    <3>1. t \in T
      BY <2>3, ChosenIn
    <3>2. U \in Good /\ IsFiniteSet(U) /\ U \in SUBSET S
      BY <1>1, <2>1, <3>1, FS_Subset
    <3>3. /\ Total(a, T) = a[t] + Total(a, U) /\ Total(b, T) = b[t] + Total(b, U)
      BY <2>1, <2>3, TotalEquation
    <3>4. Total(a, U) \in Int /\ Total(b, U) \in Int
      <4>1. (\A x \in U : a[x] \in Int) /\ (\A x \in U : b[x] \in Int)
        BY <3>2
      <4> QED  BY <3>2, <4>1, TotalInt
    <3>5. Total(a, U) <= Total(b, U)
      BY <3>2
    <3>6. a[t] \in Int /\ b[t] \in Int /\ a[t] <= b[t]
      BY <3>1
    <3> HIDE DEF t, U
    <3> QED  BY <3>3, <3>4, <3>5, <3>6
  <2> QED  BY <2>2, <2>3
<1> HIDE DEF Good
<1>2. SUBSET S \subseteq Good
  BY <1>1, SubsetsInduct
<1> QED  BY <1>2 DEF Good

\* The sum over a subset, as a sum over all.
LEMMA TotalOf ==
  ASSUME NEW S, IsFiniteSet(S), NEW R \in SUBSET S, NEW a, NEW b,
         \A x \in S : a[x] \in Int /\ b[x] = IF x \in R THEN a[x] ELSE 0
  PROVE  Total(b, S) = Total(a, R) /\ Total(a, R) \in Int
<1>1. IsFiniteSet(R) /\ IsFiniteSet(S \ R)
  BY FS_Subset
<1>2. \A x \in S : b[x] \in Int
  OBVIOUS
<1>3. Total(b, S) = Total(b, R) + Total(b, S \ R)
  BY <1>2, TotalSplit
<1>4. Total(b, R) = Total(a, R)
  <2>1. \A x \in R : b[x] = a[x]
    OBVIOUS
  <2> QED  BY <1>1, <2>1, TotalSame
<1>5. Total(b, S \ R) = 0
  <2>1. \A x \in S \ R : b[x] = 0
    OBVIOUS
  <2>2. Total(b, S \ R) = 0 * Cardinality(S \ R) /\ Cardinality(S \ R) \in Nat
    <3>1. Total(b, S \ R) = 0 * Cardinality(S \ R)
      BY <1>1, <2>1, TotalConstant
    <3> QED  BY <1>1, <3>1, FS_CardinalityType
  <2> QED  BY <2>2
<1>6. Total(a, R) \in Int
  <2>1. \A x \in R : a[x] \in Int
    OBVIOUS
  <2> QED  BY <1>1, <2>1, TotalInt
<1> QED  BY <1>3, <1>4, <1>5, <1>6
=============================================================================
