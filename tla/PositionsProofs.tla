--------------------------- MODULE PositionsProofs ---------------------------
(***************************************************************************)
(* Theorems about Positions for any contents of the tables, any rows and     *)
(* amounts, and any number of edits.                                         *)
(***************************************************************************)
EXTENDS Positions, FiniteSetTheorems, SequenceTheorems, WellFoundedInduction,
        TLAPS

-----------------------------------------------------------------------------
(* Induction, for statements about the members of a set.                     *)

LEMMA Least ==
  ASSUME NEW T \in SUBSET Nat, T # {}
  PROVE  \E n \in T : \A m \in T : n <= m
<1> DEFINE R == OpToRel(<, Nat)
<1>1. IsWellFoundedOn(R, Nat)
  BY NatLessThanWellFounded
<1>2. R = {ss \in Nat \X Nat : ss[1] < ss[2]}
  BY DEF OpToRel
<1> HIDE DEF R
<1>3. PICK n \in T : \A m \in T : ~(<<m, n>> \in R)
  BY <1>1, WFMin
<1>4. ASSUME NEW m \in T PROVE n <= m
  <2>1. <<m, n>> \in Nat \X Nat /\ <<m, n>>[1] = m /\ <<m, n>>[2] = n
    OBVIOUS
  <2>2. ~(m < n)
    BY <1>2, <1>3, <2>1
  <2>3. QED
    BY <2>2
<1>5. QED
  BY <1>4

(* A set of numbers that has 0, and n + 1 with n, has them all.              *)
LEMMA Induction ==
  ASSUME NEW S, 0 \in S, \A n \in Nat : n \in S => n + 1 \in S
  PROVE  Nat \subseteq S
<1> SUFFICES ASSUME Nat \ S # {} PROVE FALSE
  OBVIOUS
<1>1. PICK n \in Nat \ S : \A m \in Nat \ S : n <= m
  BY Least
<1>2. n # 0 /\ n - 1 \in Nat /\ n - 1 \in S
  BY <1>1
<1>3. QED
  BY <1>1, <1>2

-----------------------------------------------------------------------------
(* Sums over finite sets: SumFunction picks one element after the other.     *)

Pick(s) == CHOOSE x \in s : TRUE
Sums(f, S, g) ==
  /\ g = [s \in SUBSET S |-> g[s]]
  /\ \A s \in SUBSET S : g[s] = IF s = {} THEN 0 ELSE f[Pick(s)] + g[s \ {Pick(s)}]

LEMMA PickFacts ==
  ASSUME NEW S, IsFiniteSet(S)
  PROVE  /\ \A s \in SUBSET S : IsFiniteSet(s) /\ Cardinality(s) \in Nat
         /\ \A s \in SUBSET S : Cardinality(s) = 0 => s = {}
         /\ \A s \in SUBSET S : s # {} =>
              /\ Pick(s) \in s /\ s \ {Pick(s)} \in SUBSET S
              /\ Cardinality(s \ {Pick(s)}) = Cardinality(s) - 1
<1>1. \A s \in SUBSET S : IsFiniteSet(s) /\ Cardinality(s) \in Nat
  BY FS_Subset, FS_CardinalityType
<1>2. \A s \in SUBSET S : s # {} => Pick(s) \in s /\ s \ {Pick(s)} \in SUBSET S
  BY DEF Pick
<1>3. \A s \in SUBSET S : s # {} => Cardinality(s \ {Pick(s)}) = Cardinality(s) - 1
  BY <1>1, <1>2, FS_RemoveElement
<1>4. QED
  BY <1>1, <1>2, <1>3, FS_EmptySet

(* The recursion has a solution on the subsets of at most n elements, for    *)
(* every n.                                                                  *)
LEMMA SumExists ==
  ASSUME NEW f, NEW S, IsFiniteSet(S)
  PROVE  \E g : Sums(f, S, g)
<1> DEFINE Small(n) == {s \in SUBSET S : Cardinality(s) <= n}
           Good(n, g) == \A s \in Small(n) :
                 g[s] = IF s = {} THEN 0 ELSE f[Pick(s)] + g[s \ {Pick(s)}]
           OK == {n \in Nat : \E g : Good(n, g)}
<1>1. 0 \in OK
  <2>1. \A s \in Small(0) : s = {}
    BY PickFacts
  <2>2. Good(0, [s \in SUBSET S |-> 0])
    BY <2>1
  <2>3. QED
    BY <2>2
<1>2. ASSUME NEW n \in Nat, n \in OK PROVE n + 1 \in OK
  <2>1. PICK g : Good(n, g)
    BY <1>2
  <2> DEFINE h == [s \in SUBSET S |-> IF s = {} THEN 0 ELSE f[Pick(s)] + g[s \ {Pick(s)}]]
  <2>2. \A s \in Small(n) : h[s] = g[s]
    BY <2>1
  <2>3. ASSUME NEW s \in Small(n + 1), s # {} PROVE s \ {Pick(s)} \in Small(n)
    BY <2>3, PickFacts
  <2>4. Good(n + 1, h)
    BY <2>2, <2>3
  <2> HIDE DEF h, Good
  <2>5. \E g2 : Good(n + 1, g2)
    BY <2>4
  <2>6. QED
    BY <2>5
<1>3. Nat \subseteq OK
  <2> HIDE DEF OK
  <2>1. QED
    BY <1>1, <1>2, Induction
<1>4. Cardinality(S) \in OK
  BY <1>3, PickFacts
<1>5. PICK g : Good(Cardinality(S), g)
  BY <1>4
<1>6. Small(Cardinality(S)) = SUBSET S
  BY FS_Subset, PickFacts
<1>7. Sums(f, S, [s \in SUBSET S |-> g[s]])
  BY <1>5, <1>6, PickFacts DEF Sums
<1>8. QED
  BY <1>7

LEMMA SumDef ==
  ASSUME NEW f, IsFiniteSet(DOMAIN f)
  PROVE  \E g : Sums(f, DOMAIN f, g) /\ SumFunction(f) = g[DOMAIN f]
<1> DEFINE S == DOMAIN f
           iter == CHOOSE g : g = [s \in SUBSET S |-> IF s = {} THEN 0
                     ELSE LET x == CHOOSE x \in s : TRUE IN f[x] + g[s \ {x}]]
<1>1. PICK g : Sums(f, S, g)
  BY SumExists
<1>2. g = [s \in SUBSET S |-> IF s = {} THEN 0
             ELSE LET x == CHOOSE x \in s : TRUE IN f[x] + g[s \ {x}]]
  BY <1>1 DEF Sums, Pick
<1>3. iter = [s \in SUBSET S |-> IF s = {} THEN 0
                ELSE LET x == CHOOSE x \in s : TRUE IN f[x] + iter[s \ {x}]]
  BY <1>2
<1>4. SumFunction(f) = iter[S]
  BY DEF SumFunction, SumFunctionOnSet, FoldFunctionOnSet, MapThenFoldSet
<1>5. Sums(f, S, iter)
  BY <1>3 DEF Sums, Pick
<1>6. QED
  BY <1>4, <1>5

(* A sum of whole numbers is one.                                            *)
LEMMA SumType ==
  ASSUME NEW S, IsFiniteSet(S), NEW f \in [S -> Int]
  PROVE  SumFunction(f) \in Int
<1>1. PICK g : Sums(f, S, g) /\ SumFunction(f) = g[S]
  BY SumDef
<1> DEFINE OK == {n \in Nat : \A s \in SUBSET S : Cardinality(s) <= n => g[s] \in Int}
<1>6. \A s \in SUBSET S : s = {} => g[s] = 0
  BY <1>1 DEF Sums
<1>2. 0 \in OK
  <2>1. \A s \in SUBSET S : Cardinality(s) <= 0 => s = {}
    BY PickFacts
  <2>2. QED
    BY <1>6, <2>1
<1>3. ASSUME NEW n \in Nat, n \in OK PROVE n + 1 \in OK
  <2>1. ASSUME NEW s \in SUBSET S, Cardinality(s) <= n + 1, s # {} PROVE g[s] \in Int
    <3>1. /\ Pick(s) \in S /\ s \ {Pick(s)} \in SUBSET S
          /\ Cardinality(s \ {Pick(s)}) <= n
      BY <2>1, PickFacts
    <3>2. g[s \ {Pick(s)}] \in Int /\ f[Pick(s)] \in Int
      BY <1>3, <3>1
    <3>3. g[s] = f[Pick(s)] + g[s \ {Pick(s)}]
      BY <1>1, <2>1 DEF Sums
    <3>4. QED
      BY <3>2, <3>3
  <2>2. \A s \in SUBSET S : Cardinality(s) <= n + 1 => g[s] \in Int
    BY <1>6, <2>1
  <2>3. QED
    BY <2>2
<1>4. Cardinality(S) \in OK
  <2>1. Nat \subseteq OK
    <3> HIDE DEF OK
    <3>1. QED
      BY <1>2, <1>3, Induction
  <2>2. QED
    BY <2>1, PickFacts
<1>5. QED
  BY <1>1, <1>4

(* The sum of differences is the difference of the sums.                     *)
LEMMA SumMinus ==
  ASSUME NEW S, IsFiniteSet(S), NEW f \in [S -> Int], NEW e \in [S -> Int]
  PROVE  SumFunction([x \in S |-> f[x] - e[x]]) = SumFunction(f) - SumFunction(e)
<1> DEFINE d == [x \in S |-> f[x] - e[x]]
<1>1. PICK F : Sums(f, S, F) /\ SumFunction(f) = F[S]
  BY SumDef
<1>2. PICK E : Sums(e, S, E) /\ SumFunction(e) = E[S]
  BY SumDef
<1>3. PICK D : Sums(d, S, D) /\ SumFunction(d) = D[S]
  <2>1. DOMAIN d = S
    OBVIOUS
  <2> HIDE DEF d
  <2>2. QED
    BY <2>1, SumDef
<1>4. \A x \in S : d[x] = f[x] - e[x]
  OBVIOUS
<1> HIDE DEF d
<1> DEFINE OK == {n \in Nat : \A s \in SUBSET S : Cardinality(s) <= n =>
                    F[s] \in Int /\ E[s] \in Int /\ D[s] = F[s] - E[s]}
<1>5. \A s \in SUBSET S : s = {} => F[s] = 0 /\ E[s] = 0 /\ D[s] = 0
  BY <1>1, <1>2, <1>3 DEF Sums
<1>6. 0 \in OK
  <2>1. \A s \in SUBSET S : Cardinality(s) <= 0 => s = {}
    BY PickFacts
  <2>2. QED
    BY <1>5, <2>1
<1>7. ASSUME NEW n \in Nat, n \in OK PROVE n + 1 \in OK
  <2>1. ASSUME NEW s \in SUBSET S, Cardinality(s) <= n + 1, s # {}
        PROVE  F[s] \in Int /\ E[s] \in Int /\ D[s] = F[s] - E[s]
    <3> DEFINE x == Pick(s)
               u == s \ {x}
    <3>1. x \in S /\ u \in SUBSET S /\ Cardinality(u) <= n
      BY <2>1, PickFacts
    <3>2. F[s] = f[x] + F[u] /\ E[s] = e[x] + E[u] /\ D[s] = d[x] + D[u]
      BY <1>1, <1>2, <1>3, <2>1 DEF Sums
    <3> HIDE DEF x, u
    <3>3. F[u] \in Int /\ E[u] \in Int /\ D[u] = F[u] - E[u]
      BY <1>7, <3>1
    <3>4. f[x] \in Int /\ e[x] \in Int /\ d[x] = f[x] - e[x]
      BY <1>4, <3>1
    <3>5. QED
      BY <3>2, <3>3, <3>4
  <2>2. \A s \in SUBSET S : Cardinality(s) <= n + 1 =>
          F[s] \in Int /\ E[s] \in Int /\ D[s] = F[s] - E[s]
    BY <1>5, <2>1
  <2>3. QED
    BY <2>2
<1>8. Cardinality(S) \in OK
  <2>1. Nat \subseteq OK
    <3> HIDE DEF OK
    <3>1. QED
      BY <1>6, <1>7, Induction
  <2>2. QED
    BY <2>1, PickFacts
<1>9. QED
  BY <1>1, <1>2, <1>3, <1>8 DEF d

-----------------------------------------------------------------------------
(* The first gap of a ladder is the lowest step that is not met.             *)

Ladder(n) == [1 .. n -> BOOLEAN]

(* The list of gaps among the first i steps, for every i.                    *)
Lists(gates, n, g) ==
  /\ g = [i \in 0 .. n |-> g[i]]
  /\ \A i \in 0 .. n : g[i] = IF i = 0 THEN <<>>
                             ELSE IF gates[i] THEN g[i - 1] ELSE Append(g[i - 1], i)

LEMMA ListsExist ==
  ASSUME NEW n \in Nat, NEW gates
  PROVE  \E g : Lists(gates, n, g)
<1> DEFINE Good(m, g) == \A i \in 0 .. m : g[i] = IF i = 0 THEN <<>>
                             ELSE IF gates[i] THEN g[i - 1] ELSE Append(g[i - 1], i)
           OK == {j \in Nat : \E g : Good(j, g)}
<1>1. 0 \in OK
  <2>1. Good(0, [i \in {0} |-> <<>>])
    OBVIOUS
  <2> HIDE DEF Good
  <2>2. QED
    BY <2>1
<1>2. ASSUME NEW k \in Nat, k \in OK PROVE k + 1 \in OK
  <2>1. PICK g : Good(k, g)
    BY <1>2
  <2> DEFINE h == [i \in 0 .. k + 1 |-> IF i = 0 THEN <<>>
                     ELSE IF gates[i] THEN g[i - 1] ELSE Append(g[i - 1], i)]
  <2>2. \A i \in 0 .. k : h[i] = g[i]
    BY <2>1
  <2>3. Good(k + 1, h)
    <3>1. \A i \in 0 .. k + 1 : h[i] = IF i = 0 THEN <<>>
             ELSE IF gates[i] THEN g[i - 1] ELSE Append(g[i - 1], i)
      OBVIOUS
    <3> HIDE DEF h
    <3>2. ASSUME NEW i \in 0 .. k + 1, i # 0 PROVE h[i - 1] = g[i - 1]
      <4>1. i - 1 \in 0 .. k
        BY <3>2
      <4>2. QED
        BY <2>2, <4>1
    <3>3. QED
      BY <3>1, <3>2
  <2> HIDE DEF h, Good
  <2>4. \E g2 : Good(k + 1, g2)
    BY <2>3
  <2>5. QED
    BY <2>4
<1>3. n \in OK
  <2> HIDE DEF OK
  <2>1. QED
    BY <1>1, <1>2, Induction
<1>4. PICK g : Good(n, g)
  BY <1>3
<1>5. Lists(gates, n, [i \in 0 .. n |-> g[i]])
  BY <1>4 DEF Lists
<1>6. QED
  BY <1>5

LEMMA GapsDef ==
  ASSUME NEW n \in Nat, NEW gates, Len(gates) = n
  PROVE  \E g : Lists(gates, n, g) /\ OpenGaps(gates) = g[n]
<1> DEFINE gaps == CHOOSE g : g = [i \in 0 .. Len(gates) |-> IF i = 0 THEN <<>>
                     ELSE IF gates[i] THEN g[i - 1] ELSE Append(g[i - 1], i)]
<1>1. PICK g : Lists(gates, n, g)
  BY ListsExist
<1>2. g = [i \in 0 .. Len(gates) |-> IF i = 0 THEN <<>>
             ELSE IF gates[i] THEN g[i - 1] ELSE Append(g[i - 1], i)]
  BY <1>1 DEF Lists
<1>3. gaps = [i \in 0 .. Len(gates) |-> IF i = 0 THEN <<>>
                ELSE IF gates[i] THEN gaps[i - 1] ELSE Append(gaps[i - 1], i)]
  BY <1>2
<1>4. Lists(gates, n, gaps)
  BY <1>3 DEF Lists
<1>5. OpenGaps(gates) = gaps[Len(gates)]
  BY DEF OpenGaps
<1>6. QED
  BY <1>4, <1>5

(* m is the lowest step not met, or the last one.                            *)
IsLowest(gates, n, m) ==
  \/ m = n /\ \A i \in 1 .. n : gates[i]
  \/ m \in 1 .. n /\ ~gates[m] /\ \A j \in 1 .. m - 1 : gates[j]

LEMMA FirstGap ==
  ASSUME NEW n \in Nat, NEW gates \in Ladder(n)
  PROVE  IsLowest(gates, n, StepOf(OpenGaps(gates), n))
<1>1. Len(gates) = n
  BY DEF Ladder
<1>2. PICK g : Lists(gates, n, g) /\ OpenGaps(gates) = g[n]
  BY <1>1, GapsDef
<1> DEFINE First(i) ==
             /\ g[i] \in Seq(Nat)
             /\ g[i] = <<>> => \A j \in 1 .. i : gates[j]
             /\ g[i] # <<>> => /\ g[i][1] \in 1 .. i /\ ~gates[g[i][1]]
                               /\ \A j \in 1 .. g[i][1] - 1 : gates[j]
           OK == {k \in Nat : k <= n => First(k)}
<1>3. 0 \in OK
  <2>1. g[0] = <<>>
    BY <1>2 DEF Lists
  <2>2. <<>> \in Seq(Nat) /\ 1 .. 0 = {}
    OBVIOUS
  <2>3. First(0)
    BY <2>1, <2>2
  <2> HIDE DEF First
  <2>4. QED
    BY <2>3
<1>4. ASSUME NEW i \in Nat, i \in OK PROVE i + 1 \in OK
  <2>1. SUFFICES ASSUME i + 1 <= n PROVE First(i + 1)
    OBVIOUS
  <2>2. First(i) /\ i + 1 \in 1 .. n
    BY <1>4, <2>1
  <2>3. g[i + 1] = IF gates[i + 1] THEN g[i] ELSE Append(g[i], i + 1)
    BY <1>2, <2>1 DEF Lists
  <2>4. CASE gates[i + 1]
    BY <2>2, <2>3, <2>4
  <2>5. CASE ~gates[i + 1] /\ g[i] = <<>>
    <3>1. g[i + 1] = <<i + 1>>
      BY <2>3, <2>5
    <3>2. \A j \in 1 .. i : gates[j]
      BY <2>2, <2>5
    <3>3. QED
      BY <2>5, <3>1, <3>2
  <2>6. CASE ~gates[i + 1] /\ g[i] # <<>>
    <3>1. g[i] \in Seq(Nat) /\ g[i + 1] = Append(g[i], i + 1)
      BY <2>2, <2>3, <2>6
    <3>2. g[i + 1] \in Seq(Nat) /\ g[i + 1] # <<>> /\ g[i + 1][1] = g[i][1]
      BY <2>6, <3>1
    <3>3. QED
      BY <2>2, <2>6, <3>2
  <2>7. QED
    BY <2>4, <2>5, <2>6
<1>5. First(n)
  <2>1. Nat \subseteq OK
    <3> HIDE DEF OK
    <3>1. QED
      BY <1>3, <1>4, Induction
  <2>2. QED
    BY <2>1
<1>6. QED
  BY <1>2, <1>5 DEF IsLowest, StepOf

LEMMA LowestIs ==
  ASSUME NEW n \in Nat \ {0}, NEW gates \in Ladder(n), NEW m, IsLowest(gates, n, m)
  PROVE  Lowest(gates) = m /\ m \in 1 .. n
<1>1. DOMAIN gates = 1 .. n /\ Len(gates) = n
  BY DEF Ladder
<1>2. CASE \A i \in 1 .. n : gates[i]
  BY <1>1, <1>2 DEF Lowest, IsLowest
<1>3. CASE m \in 1 .. n /\ ~gates[m] /\ \A j \in 1 .. m - 1 : gates[j]
  <2>1. \A i \in 1 .. n : ~gates[i] /\ (\A j \in 1 .. i - 1 : gates[j]) => i = m
    BY <1>3
  <2>2. Lowest(gates) = CHOOSE i \in DOMAIN gates : ~gates[i] /\ \A j \in 1 .. (i - 1) : gates[j]
    BY <1>1, <1>3 DEF Lowest
  <2>3. QED
    BY <1>1, <1>3, <2>1, <2>2
<1>4. QED
  BY <1>2, <1>3 DEF IsLowest

(* Every consumer tells the lowest step of the ladder it was given.          *)
THEOREM StepIsLowest ==
  ASSUME NEW n \in Nat \ {0}, NEW gates \in Ladder(n)
  PROVE  /\ StepOf(OpenGaps(gates), n) = Lowest(gates) /\ Lowest(gates) \in 1 .. n
         /\ gates # <<>> /\ SnapshotStepOf(gates, n) = Lowest(gates)
<1>1. gates # <<>>
  BY DEF Ladder
<1>2. StepOf(OpenGaps(gates), n) = Lowest(gates) /\ Lowest(gates) \in 1 .. n
  BY FirstGap, LowestIs
<1>3. QED
  BY <1>1, <1>2 DEF SnapshotStepOf

(* Whoever meets more gates is at least as far.                              *)
LEMMA LowestMonotone ==
  ASSUME NEW n \in Nat \ {0}, NEW a \in Ladder(n), NEW b \in Ladder(n),
         \A i \in 1 .. n : a[i] => b[i]
  PROVE  Lowest(a) <= Lowest(b)
<1> DEFINE p == StepOf(OpenGaps(a), n)
           q == StepOf(OpenGaps(b), n)
<1>1. IsLowest(a, n, p) /\ IsLowest(b, n, q)
  BY FirstGap
<1>2. Lowest(a) = p /\ p \in 1 .. n /\ Lowest(b) = q /\ q \in 1 .. n
  BY <1>1, LowestIs
<1> HIDE DEF p, q
<1>3. p <= q
  BY <1>1, <1>2 DEF IsLowest
<1>4. QED
  BY <1>2, <1>3

-----------------------------------------------------------------------------
(* The rows of a table, and what is summed over them.                        *)

LEMMA TableFacts ==
  ASSUME NEW t \in DOMAIN AmountsOf, NEW rows \in Contents[t], NEW S \in SUBSET rows
  PROVE  /\ IsFiniteSet(S)
         /\ \A c \in AmountsOf[t] : \A r \in S :
              Amount(r[c]) \in Int /\ (r[c] = NULL \/ r[c] \in Int)
<1>1. IsFiniteSet(rows) /\ \A r \in rows : \A c \in AmountsOf[t] : r[c] = NULL \/ r[c] \in Int
  BY PositionsAssumption
<1>2. IsFiniteSet(S)
  BY <1>1, FS_Subset
<1>3. QED
  BY <1>1, <1>2 DEF Amount

LEMMA ColumnSum ==
  ASSUME NEW t \in DOMAIN AmountsOf, NEW rows \in Contents[t], NEW S \in SUBSET rows,
         NEW c \in AmountsOf[t]
  PROVE  /\ [r \in S |-> Amount(r[c])] \in [S -> Int]
         /\ SumFunction([r \in S |-> Amount(r[c])]) \in Int
<1>1. IsFiniteSet(S) /\ \A r \in S : Amount(r[c]) \in Int
  BY TableFacts
<1>2. [r \in S |-> Amount(r[c])] \in [S -> Int]
  BY <1>1
<1>3. QED
  BY <1>1, <1>2, SumType

LEMMA TablesWithAmounts ==
  /\ DOMAIN AmountsOf = {"accounts", "assets", "real_estate", "retirement", "debts", "expenses",
                         "business"}
  /\ AmountsOf["accounts"] = {"balance"} /\ AmountsOf["assets"] = {"value"}
  /\ AmountsOf["real_estate"] = {"value", "mortgage", "equity"}
  /\ AmountsOf["retirement"] = {"balance", "ytd"} /\ AmountsOf["debts"] = {"balance"}
  /\ AmountsOf["expenses"] = {"amount"} /\ AmountsOf["business"] = {"net"}
BY DEF AmountsOf

LEMMA MeasureTypes ==
  /\ \A rows \in Contents["accounts"] : Cash(rows) \in Int /\ Brokerage(rows) \in Int
  /\ \A rows \in Contents["debts"] : Dear(rows) \in Int
  /\ \A rows \in Contents["retirement"] : \A kinds : YTD(rows, kinds) \in Int
  /\ \A rows \in Contents["business"] : Ventures(rows) \in Int
  /\ \A rows \in Contents["expenses"] : Spending(rows) \in Int
  /\ \A rows \in Contents["real_estate"] : Equity(rows) \in Int
<1>1. ASSUME NEW rows \in Contents["accounts"] PROVE Cash(rows) \in Int /\ Brokerage(rows) \in Int
  <2>1. \A S \in SUBSET rows : SumFunction([r \in S |-> Amount(r["balance"])]) \in Int
    BY TablesWithAmounts, ColumnSum
  <2>2. QED
    BY <2>1 DEF Cash, Brokerage, Total, Kinds
<1>2. ASSUME NEW rows \in Contents["debts"] PROVE Dear(rows) \in Int
  <2>1. \A S \in SUBSET rows : SumFunction([r \in S |-> Amount(r["balance"])]) \in Int
    BY TablesWithAmounts, ColumnSum
  <2>2. QED
    BY <2>1 DEF Dear, Total
<1>3. ASSUME NEW rows \in Contents["retirement"], NEW kinds PROVE YTD(rows, kinds) \in Int
  <2>1. \A S \in SUBSET rows : SumFunction([r \in S |-> Amount(r["ytd"])]) \in Int
    BY TablesWithAmounts, ColumnSum
  <2>2. QED
    BY <2>1 DEF YTD, Total, Kinds
<1>4. ASSUME NEW rows \in Contents["business"] PROVE Ventures(rows) \in Int
  <2> DEFINE f == [r \in rows |-> Amount(IF Amount(r.net) > 0 THEN r.net ELSE 0)]
  <2>1. /\ IsFiniteSet(rows)
        /\ \A r \in rows : Amount(r.net) \in Int /\ (r.net = NULL \/ r.net \in Int)
    BY TablesWithAmounts, TableFacts
  <2>2. \A r \in rows : Amount(IF Amount(r.net) > 0 THEN r.net ELSE 0) \in Int
    BY <2>1 DEF Amount
  <2>3. f \in [rows -> Int]
    BY <2>2
  <2>4. Ventures(rows) = SumFunction(f)
    BY DEF Ventures, Total
  <2> HIDE DEF f
  <2>5. QED
    BY <2>1, <2>3, <2>4, SumType
<1>5. ASSUME NEW rows \in Contents["expenses"] PROVE Spending(rows) \in Int
  <2>1. \A S \in SUBSET rows : SumFunction([r \in S |-> Amount(r["amount"])]) \in Int
    BY TablesWithAmounts, ColumnSum
  <2>2. QED
    BY <2>1, PositionsAssumption DEF Spending, Total
<1>6. ASSUME NEW rows \in Contents["real_estate"] PROVE Equity(rows) \in Int
  <2> DEFINE of(r) == CASE r.equity # NULL -> r.equity
                        [] r.equity = NULL /\ r.value # NULL /\ r.value > Amount(r.mortgage) ->
                             r.value - Amount(r.mortgage)
                        [] OTHER -> 0
             f == [r \in rows |-> Amount(of(r))]
  <2>1. IsFiniteSet(rows) /\ \A r \in rows : /\ (r.equity = NULL \/ r.equity \in Int)
                                            /\ (r.value = NULL \/ r.value \in Int)
                                            /\ Amount(r.mortgage) \in Int
    BY TablesWithAmounts, TableFacts
  <2>2. ASSUME NEW r \in rows PROVE of(r) \in Int
    <3>1. CASE r.equity # NULL
      BY <2>1, <3>1
    <3>2. CASE r.equity = NULL /\ r.value # NULL /\ r.value > Amount(r.mortgage)
      <4>1. of(r) = r.value - Amount(r.mortgage)
        BY <3>2
      <4>2. QED
        BY <2>1, <3>2, <4>1
    <3>3. CASE r.equity = NULL /\ ~(r.value # NULL /\ r.value > Amount(r.mortgage))
      <4>1. of(r) = 0
        BY <3>3
      <4>2. QED
        BY <4>1
    <3>4. QED
      BY <3>1, <3>2, <3>3
  <2>3. f \in [rows -> Int]
    <3> HIDE DEF of
    <3>1. QED
      BY <2>2 DEF Amount
  <2>4. Equity(rows) = SumFunction(f)
    BY DEF Equity, Total
  <2> HIDE DEF f
  <2>5. QED
    BY <2>1, <2>3, <2>4, SumType
<1>7. QED
  BY <1>1, <1>2, <1>3, <1>4, <1>5, <1>6

(* The net worth summed over assets and debts is the one summed by table.    *)
THEOREM NetWorthSums ==
  ASSUME NEW got, got.balances \in Contents["accounts"], got.things \in Contents["assets"],
         got.homes \in Contents["real_estate"], got.pensions \in Contents["retirement"],
         got.owed \in Contents["debts"], got.mortgages \in Contents["real_estate"]
  PROVE  /\ NetWorth(got) \in Int
         /\ \A v : /\ v["accounts"] = got.balances /\ v["assets"] = got.things
                   /\ v["real_estate"] = got.homes /\ v["retirement"] = got.pensions
                   /\ v["debts"] = got.owed /\ v["real_estate"] = got.mortgages
                   => NetWorth(got) = Worth(v)
<1> DEFINE col(rows, c) == SumFunction([r \in rows |-> Amount(r[c])])
<1>1. /\ col(got.balances, "balance") \in Int /\ col(got.things, "value") \in Int
      /\ col(got.homes, "value") \in Int /\ col(got.pensions, "balance") \in Int
      /\ col(got.owed, "balance") \in Int /\ col(got.mortgages, "mortgage") \in Int
  <2>1. ASSUME NEW t \in DOMAIN AmountsOf, NEW rows \in Contents[t], NEW c \in AmountsOf[t]
        PROVE  col(rows, c) \in Int
    BY ColumnSum
  <2> HIDE DEF col
  <2>2. QED
    BY <2>1, TablesWithAmounts
<1>2. NetWorth(got) = col(got.balances, "balance") + col(got.things, "value")
                       + col(got.homes, "value") + col(got.pensions, "balance")
                       - col(got.owed, "balance") - col(got.mortgages, "mortgage")
  BY DEF NetWorth, Total
<1>3. ASSUME NEW rows \in Contents["real_estate"]
      PROVE  SumFunction([r \in rows |-> Amount(r.value) - Amount(r.mortgage)])
               = col(rows, "value") - col(rows, "mortgage")
  <2> DEFINE f == [r \in rows |-> Amount(r["value"])]
             e == [r \in rows |-> Amount(r["mortgage"])]
  <2>1. f \in [rows -> Int] /\ e \in [rows -> Int] /\ IsFiniteSet(rows)
    BY TablesWithAmounts, ColumnSum, TableFacts
  <2>2. [r \in rows |-> Amount(r.value) - Amount(r.mortgage)] = [r \in rows |-> f[r] - e[r]]
    OBVIOUS
  <2>3. col(rows, "value") = SumFunction(f) /\ col(rows, "mortgage") = SumFunction(e)
    OBVIOUS
  <2> HIDE DEF f, e, col
  <2>4. QED
    BY <2>1, <2>2, <2>3, SumMinus
<1>4. ASSUME NEW v, v["accounts"] = got.balances, v["assets"] = got.things,
             v["real_estate"] = got.homes, v["retirement"] = got.pensions,
             v["debts"] = got.owed, v["real_estate"] = got.mortgages
      PROVE  NetWorth(got) = Worth(v)
  <2>1. Worth(v) = col(got.balances, "balance") + col(got.pensions, "balance")
                    + col(got.things, "value")
                    + SumFunction([r \in got.homes |-> Amount(r.value) - Amount(r.mortgage)])
                    - col(got.owed, "balance")
    BY <1>4 DEF Worth, Sum
  <2>2. got.homes = got.mortgages
    BY <1>4
  <2>3. SumFunction([r \in got.homes |-> Amount(r.value) - Amount(r.mortgage)])
          = col(got.homes, "value") - col(got.mortgages, "mortgage")
    BY <1>3, <2>2
  <2> HIDE DEF col
  <2>4. QED
    BY <1>1, <1>2, <2>1, <2>3
<1>5. QED
  <2> HIDE DEF col
  <2>1. NetWorth(got) \in Int
    BY <1>1, <1>2
  <2>2. QED
    BY <1>4, <2>1

-----------------------------------------------------------------------------
(* The SELECTs and the ladders built from them.                              *)

WealthName == {Wealth[i] : i \in DOMAIN Wealth}
IncomeName == {Income[i] : i \in DOMAIN Income}

LEMMA NameFacts ==
  /\ WealthName = {"balances", "things", "homes", "pensions", "owed", "mortgages", "spending",
                   "cash", "dear", "ira", "hsa", "brokerage", "equity", "ventures"}
  /\ IncomeName = {"streams", "economics", "benchmarks", "careers", "deductions", "milestones"}
  /\ Name = WealthName \cup IncomeName /\ WealthName \cap IncomeName = {}
  /\ \A n \in Name : TableOf[n] \in Table
<1>1. WealthName = {"balances", "things", "homes", "pensions", "owed", "mortgages", "spending",
                    "cash", "dear", "ira", "hsa", "brokerage", "equity", "ventures"}
  <2>1. DOMAIN Wealth = 1 .. 14
    BY DEF Wealth
  <2>2. QED
    BY <2>1 DEF WealthName, Wealth
<1>2. IncomeName = {"streams", "economics", "benchmarks", "careers", "deductions", "milestones"}
  <2>1. DOMAIN Income = 1 .. 6
    BY DEF Income
  <2>2. QED
    BY <2>1 DEF IncomeName, Income
<1>3. Name = WealthName \cup IncomeName
  BY <1>1, <1>2 DEF Name, TableOf
<1>4. WealthName \cap IncomeName = {}
  BY <1>1, <1>2
<1>5. \A n \in Name : TableOf[n] \in Table
  BY DEF Table
<1>6. QED
  BY <1>1, <1>2, <1>3, <1>4, <1>5

LEMMA SelectFacts ==
  /\ Len(Wealth) = 14 /\ Len(Selects) = 20
  /\ \A i \in 1 .. 14 : Selects[i] \in WealthName
  /\ \A i \in 15 .. 20 : Selects[i] \in IncomeName
  /\ WealthName = {Selects[i] : i \in 1 .. 14} /\ IncomeName = {Selects[i] : i \in 15 .. 20}
<1>1. Len(Wealth) = 14 /\ DOMAIN Wealth = 1 .. 14 /\ Len(Income) = 6 /\ DOMAIN Income = 1 .. 6
  BY DEF Wealth, Income
<1>2. /\ Len(Selects) = 20
      /\ \A i \in 1 .. 14 : Selects[i] = Wealth[i]
      /\ \A i \in 15 .. 20 : Selects[i] = Income[i - 14]
  <2>1. Wealth \in Seq(Name)
    BY NameFacts DEF Wealth
  <2>2. Income \in Seq(Name)
    BY NameFacts DEF Income
  <2>3. /\ Len(Wealth \o Income) = Len(Wealth) + Len(Income)
        /\ \A i \in 1 .. Len(Wealth) + Len(Income) : (Wealth \o Income)[i] =
             IF i <= Len(Wealth) THEN Wealth[i] ELSE Income[i - Len(Wealth)]
    BY <2>1, <2>2, ConcatProperties, ZenonT(30)
  <2>4. Selects = Wealth \o Income
    BY DEF Selects
  <2>5. \A i \in 15 .. 20 : i \in 1 .. 14 + 6 /\ ~(i <= 14)
    OBVIOUS
  <2>6. \A i \in 1 .. 14 : i \in 1 .. 14 + 6 /\ i <= 14
    OBVIOUS
  <2>7. Len(Selects) = 14 + 6 /\ \A i \in 1 .. 14 + 6 : Selects[i] =
          IF i <= 14 THEN Wealth[i] ELSE Income[i - 14]
    BY <1>1, <2>3, <2>4, Zenon
  <2>8. QED
    BY <2>5, <2>6, <2>7
<1>3. \A i \in 1 .. 6 : i + 14 \in 15 .. 20 /\ (i + 14) - 14 = i
  OBVIOUS
<1>4. \A i \in 15 .. 20 : i - 14 \in 1 .. 6
  OBVIOUS
<1>5. QED
  BY <1>1, <1>2, <1>3, <1>4 DEF WealthName, IncomeName

(* Rows of the tables that the SELECTs read, for some of the SELECTs.        *)
RowsOf(got, names) == \A n \in names : got[n] \in Contents[TableOf[n]]

LEMMA WealthRows ==
  ASSUME NEW got, RowsOf(got, WealthName)
  PROVE  /\ got.balances \in Contents["accounts"] /\ got.things \in Contents["assets"]
         /\ got.homes \in Contents["real_estate"] /\ got.pensions \in Contents["retirement"]
         /\ got.owed \in Contents["debts"] /\ got.mortgages \in Contents["real_estate"]
         /\ got.spending \in Contents["expenses"] /\ got.cash \in Contents["accounts"]
         /\ got.dear \in Contents["debts"] /\ got.ira \in Contents["retirement"]
         /\ got.hsa \in Contents["retirement"] /\ got.brokerage \in Contents["accounts"]
         /\ got.equity \in Contents["real_estate"] /\ got.ventures \in Contents["business"]
BY NameFacts DEF RowsOf, TableOf

LEMMA FiveGates ==
  ASSUME NEW p \in BOOLEAN, NEW q \in BOOLEAN, NEW r \in BOOLEAN, NEW s \in BOOLEAN,
         NEW t \in BOOLEAN
  PROVE  <<p, q, r, s, t>> \in Ladder(5)
BY DEF Ladder

LEMMA GatesAreLadders ==
  /\ \A got : RowsOf(got, WealthName) => WealthGates(got) \in Ladder(6)
  /\ \A got : IncomeGates(got) \in Ladder(5)
<1>1. ASSUME NEW got, RowsOf(got, WealthName) PROVE WealthGates(got) \in Ladder(6)
  <2>1. /\ Cash(got.cash) \in Int /\ Spending(got.spending) \in Int /\ Dear(got.dear) \in Int
        /\ YTD(got.ira, IRAKinds) \in Int /\ YTD(got.hsa, {"hsa"}) \in Int
        /\ Brokerage(got.brokerage) \in Int /\ Equity(got.equity) \in Int
        /\ Ventures(got.ventures) \in Int
    BY <1>1, WealthRows, MeasureTypes
  <2>2. WealthGates(got) = [i \in 1 .. 6 |-> WealthGates(got)[i]]
    BY DEF WealthGates
  <2>3. /\ WealthGates(got)[1] \in BOOLEAN /\ WealthGates(got)[2] \in BOOLEAN
        /\ WealthGates(got)[3] \in BOOLEAN /\ WealthGates(got)[4] \in BOOLEAN
        /\ WealthGates(got)[5] \in BOOLEAN /\ WealthGates(got)[6] \in BOOLEAN
    BY <2>1, PositionsAssumption DEF WealthGates
  <2>4. \A i \in 1 .. 6 : WealthGates(got)[i] \in BOOLEAN
    BY <2>3
  <2>5. QED
    BY <2>2, <2>4 DEF Ladder
<1>2. ASSUME NEW got PROVE IncomeGates(got) \in Ladder(5)
  BY FiveGates DEF IncomeGates
<1>3. QED
  BY <1>1, <1>2

LEMMA GatesAre ==
  ASSUME NEW got, RowsOf(got, WealthName)
  PROVE  /\ WealthGates(got)[1] <=> Cash(got.cash) >= 3 * Spending(got.spending)
         /\ WealthGates(got)[2] <=> Dear(got.dear) = 0
         /\ WealthGates(got)[3] <=> YTD(got.ira, IRAKinds) + YTD(got.hsa, {"hsa"}) >= TaxTarget
         /\ WealthGates(got)[4] <=> Brokerage(got.brokerage) > 0
         /\ WealthGates(got)[5] <=> Equity(got.equity) > 0
         /\ WealthGates(got)[6] <=> Ventures(got.ventures) > 0
BY DEF WealthGates

(* A ladder depends on its own SELECTs only.                                 *)
LEMMA GatesOfSelects ==
  ASSUME NEW a, NEW b
  PROVE  /\ (\A n \in WealthName : a[n] = b[n]) =>
              WealthGates(a) = WealthGates(b) /\ NetWorth(a) = NetWorth(b)
         /\ (\A n \in IncomeName : a[n] = b[n]) => IncomeGates(a) = IncomeGates(b)
<1>1. ASSUME \A n \in WealthName : a[n] = b[n]
      PROVE  WealthGates(a) = WealthGates(b) /\ NetWorth(a) = NetWorth(b)
  <2>1. /\ a.balances = b.balances /\ a.things = b.things /\ a.homes = b.homes
        /\ a.pensions = b.pensions /\ a.owed = b.owed /\ a.mortgages = b.mortgages
        /\ a.spending = b.spending /\ a.cash = b.cash /\ a.dear = b.dear /\ a.ira = b.ira
        /\ a.hsa = b.hsa /\ a.brokerage = b.brokerage /\ a.equity = b.equity
        /\ a.ventures = b.ventures
    BY <1>1, NameFacts
  <2>2. QED
    BY <2>1 DEF WealthGates, NetWorth
<1>2. ASSUME \A n \in IncomeName : a[n] = b[n] PROVE IncomeGates(a) = IncomeGates(b)
  <2>1. /\ a.streams = b.streams /\ a.economics = b.economics /\ a.benchmarks = b.benchmarks
        /\ a.careers = b.careers /\ a.deductions = b.deductions /\ a.milestones = b.milestones
    BY <1>2, NameFacts
  <2>2. QED
    BY <2>1 DEF IncomeGates
<1>3. QED
  BY <1>1, <1>2

(* The step of an empty ladder: as if no gate were open.                     *)
LEMMA EmptyLadder ==
  ASSUME NEW top
  PROVE  StepOf(OpenGaps(<<>>), top) = top /\ SnapshotStepOf(<<>>, top) = 0
<1>1. PICK g : Lists(<<>>, 0, g) /\ OpenGaps(<<>>) = g[0]
  BY GapsDef
<1>2. OpenGaps(<<>>) = <<>>
  BY <1>1 DEF Lists
<1>3. QED
  BY <1>2 DEF StepOf, SnapshotStepOf

(* What a reading without edits returns, and what the answer of it should be.*)
LEMMA QuietRows ==
  ASSUME NEW v, \A t \in Table : v[t] \in Contents[t]
  PROVE  /\ RowsOf(Quietly(v), Name) /\ \A n \in Name : Quietly(v)[n] = v[TableOf[n]]
         /\ WealthMet(v) \in Ladder(6) /\ IncomeMet(v) \in Ladder(5)
         /\ Lowest(WealthMet(v)) \in 1 .. 6 /\ Lowest(IncomeMet(v)) \in 1 .. 5
<1>1. \A n \in Name : Quietly(v)[n] = v[TableOf[n]]
  BY DEF Quietly
<1>2. RowsOf(Quietly(v), Name)
  BY <1>1, NameFacts DEF RowsOf
<1>3. WealthMet(v) \in Ladder(6) /\ IncomeMet(v) \in Ladder(5)
  BY <1>2, NameFacts, GatesAreLadders DEF RowsOf, WealthMet, IncomeMet
<1>4. QED
  BY <1>1, <1>2, <1>3, StepIsLowest

LEMMA QuietWorth ==
  ASSUME NEW v, \A t \in Table : v[t] \in Contents[t], NEW got,
         \A n \in WealthName : got[n] = v[TableOf[n]]
  PROVE  NetWorth(got) = Worth(v)
<1>1. RowsOf(got, WealthName)
  BY NameFacts DEF RowsOf
<1>2. /\ v["accounts"] = got.balances /\ v["assets"] = got.things
      /\ v["real_estate"] = got.homes /\ v["retirement"] = got.pensions
      /\ v["debts"] = got.owed /\ v["real_estate"] = got.mortgages
  BY NameFacts DEF TableOf
<1>3. QED
  BY <1>1, <1>2, WealthRows, NetWorthSums

-----------------------------------------------------------------------------
(* Better vaults meet more gates.                                            *)

Ranked == {"cash", "spending", "dear", "ira", "hsa", "brokerage", "equity", "ventures"}

(* What the gate reads from the rows of a SELECT; more is better.            *)
Rank(n, rows) ==
  CASE n = "cash" -> Cash(rows)
    [] n = "spending" -> -Spending(rows)
    [] n = "dear" -> -AbsOf(Dear(rows))
    [] n = "ira" -> YTD(rows, IRAKinds)
    [] n = "hsa" -> YTD(rows, {"hsa"})
    [] n = "brokerage" -> Brokerage(rows)
    [] n = "equity" -> Equity(rows)
    [] n = "ventures" -> Ventures(rows)

LEMMA RankIs ==
  ASSUME NEW rows
  PROVE  /\ Rank("cash", rows) = Cash(rows) /\ Rank("spending", rows) = -Spending(rows)
         /\ Rank("dear", rows) = -AbsOf(Dear(rows)) /\ Rank("ira", rows) = YTD(rows, IRAKinds)
         /\ Rank("hsa", rows) = YTD(rows, {"hsa"}) /\ Rank("brokerage", rows) = Brokerage(rows)
         /\ Rank("equity", rows) = Equity(rows) /\ Rank("ventures", rows) = Ventures(rows)
BY DEF Rank

LEMMA RankType ==
  ASSUME NEW n \in Ranked, NEW rows \in Contents[TableOf[n]]
  PROVE  Rank(n, rows) \in Int
<1>1. /\ n = "cash" => rows \in Contents["accounts"]
      /\ n = "spending" => rows \in Contents["expenses"]
      /\ n = "dear" => rows \in Contents["debts"]
      /\ n = "ira" => rows \in Contents["retirement"]
      /\ n = "hsa" => rows \in Contents["retirement"]
      /\ n = "brokerage" => rows \in Contents["accounts"]
      /\ n = "equity" => rows \in Contents["real_estate"]
      /\ n = "ventures" => rows \in Contents["business"]
  BY DEF TableOf
<1>2. \A k \in Int : -AbsOf(k) \in Int /\ -k \in Int
  BY DEF AbsOf
<1>3. QED
  BY <1>1, <1>2, RankIs, MeasureTypes DEF Ranked

LEMMA ImprovesIs ==
  ASSUME NEW v, NEW w
  PROVE  Improves(v, w) <=> \A n \in Ranked : Rank(n, v[TableOf[n]]) <= Rank(n, w[TableOf[n]])
<1>1. Improves(v, w) <=>
        /\ Cash(v["accounts"]) <= Cash(w["accounts"])
        /\ -Spending(v["expenses"]) <= -Spending(w["expenses"])
        /\ -AbsOf(Dear(v["debts"])) <= -AbsOf(Dear(w["debts"]))
        /\ YTD(v["retirement"], IRAKinds) <= YTD(w["retirement"], IRAKinds)
        /\ YTD(v["retirement"], {"hsa"}) <= YTD(w["retirement"], {"hsa"})
        /\ Brokerage(v["accounts"]) <= Brokerage(w["accounts"])
        /\ Equity(v["real_estate"]) <= Equity(w["real_estate"])
        /\ Ventures(v["business"]) <= Ventures(w["business"])
  <2>1. DOMAIN Measures(v) = 1 .. 8
    BY DEF Measures
  <2>2. Improves(v, w) <=> \A i \in 1 .. 8 : Measures(v)[i] <= Measures(w)[i]
    BY <2>1 DEF Improves
  <2>3. Improves(v, w) <=>
          /\ Measures(v)[1] <= Measures(w)[1] /\ Measures(v)[2] <= Measures(w)[2]
          /\ Measures(v)[3] <= Measures(w)[3] /\ Measures(v)[4] <= Measures(w)[4]
          /\ Measures(v)[5] <= Measures(w)[5] /\ Measures(v)[6] <= Measures(w)[6]
          /\ Measures(v)[7] <= Measures(w)[7] /\ Measures(v)[8] <= Measures(w)[8]
    BY <2>2
  <2>4. QED
    BY <2>3 DEF Measures
<1>2. (\A n \in Ranked : Rank(n, v[TableOf[n]]) <= Rank(n, w[TableOf[n]])) <=>
        /\ Rank("cash", v["accounts"]) <= Rank("cash", w["accounts"])
        /\ Rank("spending", v["expenses"]) <= Rank("spending", w["expenses"])
        /\ Rank("dear", v["debts"]) <= Rank("dear", w["debts"])
        /\ Rank("ira", v["retirement"]) <= Rank("ira", w["retirement"])
        /\ Rank("hsa", v["retirement"]) <= Rank("hsa", w["retirement"])
        /\ Rank("brokerage", v["accounts"]) <= Rank("brokerage", w["accounts"])
        /\ Rank("equity", v["real_estate"]) <= Rank("equity", w["real_estate"])
        /\ Rank("ventures", v["business"]) <= Rank("ventures", w["business"])
  BY DEF Ranked, TableOf
<1>3. QED
  BY <1>1, <1>2, RankIs

LEMMA GatesMonotone ==
  ASSUME NEW a, NEW b, RowsOf(a, WealthName), RowsOf(b, WealthName),
         \A n \in Ranked : Rank(n, a[n]) <= Rank(n, b[n])
  PROVE  /\ \A i \in 1 .. 6 : WealthGates(a)[i] => WealthGates(b)[i]
         /\ Lowest(WealthGates(a)) <= Lowest(WealthGates(b))
<1>1. /\ Cash(a.cash) <= Cash(b.cash) /\ -Spending(a.spending) <= -Spending(b.spending)
      /\ -AbsOf(Dear(a.dear)) <= -AbsOf(Dear(b.dear))
      /\ YTD(a.ira, IRAKinds) <= YTD(b.ira, IRAKinds) /\ YTD(a.hsa, {"hsa"}) <= YTD(b.hsa, {"hsa"})
      /\ Brokerage(a.brokerage) <= Brokerage(b.brokerage) /\ Equity(a.equity) <= Equity(b.equity)
      /\ Ventures(a.ventures) <= Ventures(b.ventures)
  BY RankIs DEF Ranked
<1>2. ASSUME NEW g, RowsOf(g, WealthName)
      PROVE  /\ Cash(g.cash) \in Int /\ Spending(g.spending) \in Int /\ Dear(g.dear) \in Int
             /\ YTD(g.ira, IRAKinds) \in Int /\ YTD(g.hsa, {"hsa"}) \in Int
             /\ Brokerage(g.brokerage) \in Int /\ Equity(g.equity) \in Int
             /\ Ventures(g.ventures) \in Int
  BY <1>2, WealthRows, MeasureTypes
<1>3. Dear(a.dear) = 0 => Dear(b.dear) = 0
  <2>1. \A k, m \in Int : -AbsOf(k) <= -AbsOf(m) /\ k = 0 => m = 0
    BY DEF AbsOf
  <2>2. QED
    BY <1>1, <1>2, <2>1
<1>4. /\ Cash(a.cash) >= 3 * Spending(a.spending) => Cash(b.cash) >= 3 * Spending(b.spending)
      /\ YTD(a.ira, IRAKinds) + YTD(a.hsa, {"hsa"}) >= TaxTarget =>
           YTD(b.ira, IRAKinds) + YTD(b.hsa, {"hsa"}) >= TaxTarget
      /\ Brokerage(a.brokerage) > 0 => Brokerage(b.brokerage) > 0
      /\ Equity(a.equity) > 0 => Equity(b.equity) > 0
      /\ Ventures(a.ventures) > 0 => Ventures(b.ventures) > 0
  BY <1>1, <1>2, PositionsAssumption
<1>5. \A i \in 1 .. 6 : WealthGates(a)[i] => WealthGates(b)[i]
  <2>1. /\ (WealthGates(a)[1] => WealthGates(b)[1]) /\ (WealthGates(a)[2] => WealthGates(b)[2])
        /\ (WealthGates(a)[3] => WealthGates(b)[3]) /\ (WealthGates(a)[4] => WealthGates(b)[4])
        /\ (WealthGates(a)[5] => WealthGates(b)[5]) /\ (WealthGates(a)[6] => WealthGates(b)[6])
    BY <1>3, <1>4, GatesAre
  <2>2. QED
    BY <2>1
<1>6. QED
  BY <1>5, GatesAreLadders, LowestMonotone

-----------------------------------------------------------------------------
(* The inductive invariant.                                                  *)

(* The first SELECT of the ladder being read.                                *)
Start(next) == IF next <= Len(Wealth) THEN 1 ELSE Len(Wealth) + 1

Fields == {"kind", "next", "got", "wealth", "income"}

Rows(r) == DOMAIN r.got \subseteq Name /\ RowsOf(r.got, DOMAIN r.got)

(* A computation under way: what it has read, and the ladder it has built.   *)
Reading(r) ==
  /\ DOMAIN r = Fields
  /\ r.kind \in Kind /\ r.next \in FirstOf(r.kind) .. LastOf(r.kind)
  /\ Rows(r)
  /\ \A i \in Start(r.next) .. r.next - 1 : Selects[i] \in DOMAIN r.got
  /\ r.income = <<>>
  /\ \/ r.wealth = <<>> /\ (r.kind \in {"allocation", "both"} => r.next <= Len(Wealth))
     \/ /\ r.wealth = WealthGates(r.got) /\ r.next > Len(Wealth) /\ r.kind \in {"both", "chat"}
        /\ WealthName \subseteq DOMAIN r.got

(* Without edits it has read the vault.                                      *)
Fresh(r) == \A n \in DOMAIN r.got : r.got[n] = vault[TableOf[n]]

(* While edits only improve, what it has read lies between the vault at its  *)
(* start and the vault.                                                      *)
Bounded(r) ==
  \A n \in DOMAIN r.got \cap Ranked :
    /\ Rank(n, before.vault[TableOf[n]]) <= Rank(n, r.got[n])
    /\ Rank(n, r.got[n]) <= Rank(n, vault[TableOf[n]])

Steps(v) == [wealth |-> Lowest(WealthMet(v)), income |-> Lowest(IncomeMet(v))]

History ==
  /\ DOMAIN before = {"vault", "edited", "improved", "fresh"}
  /\ before.edited \in BOOLEAN /\ before.improved \in BOOLEAN /\ before.fresh \in BOOLEAN
  /\ DOMAIN before.vault = Table /\ \A t \in Table : before.vault[t] \in Contents[t]

(* What the reading owes to the vault and to the history.                    *)
True(r) ==
  /\ ~before.edited => Fresh(r)
  /\ before.improved => Improves(before.vault, vault) /\ Bounded(r)

IInv ==
  /\ TypeOK /\ History
  /\ reading = NoReading \/ Reading(reading)
  /\ True(reading)
  /\ before.fresh => stored = Steps(vault)

(* The same after a SELECT, before the computation goes on: its ladder is    *)
(* built, or cannot be.                                                      *)
Built(r) ==
  /\ DOMAIN r = Fields
  /\ r.kind \in Kind /\ r.next \in FirstOf(r.kind) .. LastOf(r.kind)
  /\ Rows(r)
  /\ r.next \notin {Len(Wealth), Len(Selects)} =>
       \A i \in Start(r.next) .. r.next : Selects[i] \in DOMAIN r.got
  /\ \/ r.wealth = <<>> /\ (r.kind \in {"allocation", "both"} => r.next < Len(Wealth))
     \/ /\ r.wealth = WealthGates(r.got) /\ r.next >= Len(Wealth)
        /\ r.kind \in {"allocation", "both", "chat"} /\ WealthName \subseteq DOMAIN r.got
  /\ \/ r.income = <<>> /\ (r.kind \in {"income", "both"} => r.next < Len(Selects))
     \/ /\ r.income = IncomeGates(r.got) /\ r.next = Len(Selects)
        /\ IncomeName \subseteq DOMAIN r.got

LEMMA Ends ==
  /\ FirstOf("income") = 15 /\ FirstOf("allocation") = 1 /\ FirstOf("both") = 1
  /\ FirstOf("chat") = 1
  /\ LastOf("allocation") = 14 /\ LastOf("income") = 20 /\ LastOf("both") = 20
  /\ LastOf("chat") = 20
  /\ \A i \in 1 .. 14 : Start(i) = 1
  /\ \A i \in 15 .. 20 : Start(i) = 15
BY SelectFacts DEF FirstOf, LastOf, Start

LEMMA NextType ==
  ASSUME NEW r, r.kind \in Kind, r.next \in FirstOf(r.kind) .. LastOf(r.kind)
  PROVE  r.next \in 1 .. 20 /\ (r.kind = "allocation" => r.next \in 1 .. 14)
                            /\ (r.kind = "income" => r.next \in 15 .. 20)
BY Ends DEF Kind

LEMMA NoReadingFacts ==
  /\ DOMAIN NoReading = Fields
  /\ NoReading.kind = "none" /\ NoReading.next = 0 /\ NoReading.got = <<>>
  /\ NoReading.wealth = <<>> /\ NoReading.income = <<>>
  /\ DOMAIN NoReading.got = {}
BY DEF NoReading, Fields

(* The part of the type invariant about the computation.                     *)
ReadingOK(r) ==
  /\ r.kind \in Kind \cup {"none"} /\ r.next \in 0 .. Len(Selects)
  /\ DOMAIN r.got \subseteq Name
  /\ r.wealth \in Gates /\ r.income \in Gates

LEMMA ReadingsAreOK ==
  ASSUME NEW r, r = NoReading \/ Reading(r)
  PROVE  ReadingOK(r)
<1>1. CASE r = NoReading
  BY <1>1, NoReadingFacts, SelectFacts DEF ReadingOK, Gates
<1>2. CASE Reading(r)
  <2>1. r.next \in 0 .. Len(Selects)
    BY <1>2, NextType, SelectFacts DEF Reading
  <2>2. r.wealth \in Gates
    BY <1>2, GatesAreLadders DEF Reading, Rows, RowsOf, Gates, Ladder
  <2>3. QED
    BY <1>2, <2>1, <2>2 DEF Reading, Rows, ReadingOK, Gates
<1>3. QED
  BY <1>1, <1>2

(* The ladders of a computation, if built, are what its caller is due.       *)
LEMMA LaddersAreDue ==
  ASSUME TypeOK, History, NEW r, Built(r), True(r)
  PROVE  /\ r.wealth = <<>> \/ (r.wealth \in Ladder(6) /\ NetWorth(r.got) \in Int)
         /\ r.income = <<>> \/ r.income \in Ladder(5)
         /\ ~before.edited =>
              /\ r.wealth # <<>> => r.wealth = WealthMet(vault) /\ NetWorth(r.got) = Worth(vault)
              /\ r.income # <<>> => r.income = IncomeMet(vault)
         /\ before.improved /\ r.wealth # <<>> =>
              /\ Lowest(WealthMet(before.vault)) <= Lowest(r.wealth)
              /\ Lowest(r.wealth) <= Lowest(WealthMet(vault))
<1>1. \A t \in Table : vault[t] \in Contents[t] /\ before.vault[t] \in Contents[t]
  BY DEF TypeOK, History
<1>2. ASSUME r.wealth # <<>>
      PROVE  /\ r.wealth = WealthGates(r.got) /\ RowsOf(r.got, WealthName)
             /\ WealthName \subseteq DOMAIN r.got
  BY <1>2 DEF Built, Rows, RowsOf
<1>3. ASSUME r.wealth # <<>> PROVE r.wealth \in Ladder(6) /\ NetWorth(r.got) \in Int
  BY <1>2, <1>3, GatesAreLadders, WealthRows, NetWorthSums
<1>4. ASSUME r.income # <<>>
      PROVE  /\ r.income = IncomeGates(r.got) /\ IncomeName \subseteq DOMAIN r.got
             /\ r.income \in Ladder(5)
  BY <1>4, GatesAreLadders DEF Built
<1>5. ASSUME ~before.edited, r.wealth # <<>>
      PROVE  r.wealth = WealthMet(vault) /\ NetWorth(r.got) = Worth(vault)
  <2>1. \A n \in WealthName : r.got[n] = vault[TableOf[n]]
    BY <1>2, <1>5 DEF True, Fresh
  <2>2. \A n \in WealthName : r.got[n] = Quietly(vault)[n]
    BY <1>1, <2>1, QuietRows, NameFacts
  <2>3. QED
    BY <1>1, <1>2, <1>5, <2>1, <2>2, GatesOfSelects, QuietWorth DEF WealthMet
<1>6. ASSUME ~before.edited, r.income # <<>> PROVE r.income = IncomeMet(vault)
  <2>1. \A n \in IncomeName : r.got[n] = Quietly(vault)[n]
    BY <1>1, <1>4, <1>6, QuietRows, NameFacts DEF True, Fresh
  <2>2. QED
    BY <1>4, <1>6, <2>1, GatesOfSelects DEF IncomeMet
<1>7. ASSUME before.improved, r.wealth # <<>>
      PROVE  /\ Lowest(WealthMet(before.vault)) <= Lowest(r.wealth)
             /\ Lowest(r.wealth) <= Lowest(WealthMet(vault))
  <2> DEFINE a == Quietly(before.vault)
             b == r.got
             c == Quietly(vault)
  <2>1. Ranked \subseteq WealthName /\ Ranked \subseteq Name
    BY NameFacts DEF Ranked
  <2>2. /\ RowsOf(a, WealthName) /\ RowsOf(c, WealthName)
        /\ \A n \in Ranked : a[n] = before.vault[TableOf[n]] /\ c[n] = vault[TableOf[n]]
    BY <1>1, <2>1, QuietRows, NameFacts DEF RowsOf
  <2>3. \A n \in Ranked : Rank(n, a[n]) <= Rank(n, b[n]) /\ Rank(n, b[n]) <= Rank(n, c[n])
    BY <1>2, <1>7, <2>1, <2>2 DEF True, Bounded
  <2> HIDE DEF a, b, c
  <2>4. /\ Lowest(WealthGates(a)) <= Lowest(WealthGates(b))
        /\ Lowest(WealthGates(b)) <= Lowest(WealthGates(c))
    BY <1>2, <1>7, <2>2, <2>3, GatesMonotone DEF b
  <2>5. QED
    BY <1>2, <1>7, <2>4 DEF a, b, c, WealthMet
<1>8. QED
  BY <1>3, <1>4, <1>5, <1>6, <1>7

(* What a consumer makes of them.                                            *)
LEMMA ToldIs ==
  ASSUME NEW r, Answer(r), r.kind \in Kind,
         r.wealth = <<>> \/ (r.wealth \in Ladder(6) /\ NetWorth(r.got) \in Int),
         r.income = <<>> \/ r.income \in Ladder(5)
  PROVE  /\ told'.kind = r.kind /\ told'.ok \in BOOLEAN /\ told'.worth \in Int
         /\ told'.wealth \subseteq Step /\ told'.income \subseteq 0 .. 5
         /\ told'.ok => /\ r.kind # "income" => r.wealth # <<>> /\ told'.worth = NetWorth(r.got)
                        /\ r.kind # "allocation" => r.income # <<>>
                        /\ \A s \in told'.wealth : r.wealth # <<>> /\ s = Lowest(r.wealth)
                        /\ \A s \in told'.income : r.income # <<>> /\ s = Lowest(r.income)
<1> DEFINE ws == {StepOf(OpenGaps(r.wealth), 6), SnapshotStepOf(r.wealth, 6)}
           is == {StepOf(OpenGaps(r.income), 5), SnapshotStepOf(r.income, 5)}
<1>1. /\ told'.kind = r.kind
      /\ told'.ok <=> /\ r.kind = "income" \/ r.wealth # <<>>
                      /\ r.kind = "allocation" \/ r.income # <<>>
      /\ told'.worth = IF r.wealth = <<>> THEN 0 ELSE NetWorth(r.got)
      /\ told'.wealth \subseteq ws /\ (r.kind = "income" => told'.wealth = {})
      /\ told'.income \subseteq is /\ (r.kind = "allocation" => told'.income = {})
  BY DEF Answer, Kind
<1>2. told'.ok \in BOOLEAN
  BY DEF Answer
<1>3. ws \subseteq Step /\ (r.wealth # <<>> => ws = {Lowest(r.wealth)})
  <2>1. CASE r.wealth = <<>>
    BY <2>1, EmptyLadder DEF Step
  <2>2. CASE r.wealth \in Ladder(6)
    BY <2>2, StepIsLowest DEF Step
  <2>3. QED
    BY <2>1, <2>2
<1>4. is \subseteq 0 .. 5 /\ (r.income # <<>> => is = {Lowest(r.income)})
  <2>1. CASE r.income = <<>>
    BY <2>1, EmptyLadder
  <2>2. CASE r.income \in Ladder(5)
    BY <2>2, StepIsLowest
  <2>3. QED
    BY <2>1, <2>2
<1> HIDE DEF ws, is
<1>5. told'.worth \in Int
  BY <1>1
<1>6. told'.wealth \subseteq Step /\ told'.income \subseteq 0 .. 5
  BY <1>1, <1>3, <1>4
<1>7. ASSUME told'.ok
      PROVE  /\ r.kind # "income" => r.wealth # <<>> /\ told'.worth = NetWorth(r.got)
             /\ r.kind # "allocation" => r.income # <<>>
  BY <1>1, <1>7
<1>8. ASSUME told'.ok, NEW s \in told'.wealth PROVE r.wealth # <<>> /\ s = Lowest(r.wealth)
  BY <1>1, <1>3, <1>7, <1>8
<1>9. ASSUME told'.ok, NEW s \in told'.income PROVE r.income # <<>> /\ s = Lowest(r.income)
  BY <1>1, <1>4, <1>7, <1>9
<1>10. QED
  BY <1>1, <1>2, <1>5, <1>6, <1>7, <1>8, <1>9

(* The properties of an answer, step by step.                                *)
Exact ==
  Told /\ ~before.edited =>
       /\ told'.wealth \subseteq {Lowest(WealthMet(vault))}
       /\ told'.income \subseteq {Lowest(IncomeMet(vault))}
       /\ told'.kind # "income" => told'.worth = Worth(vault)
       /\ before'.fresh =>
            stored' = [wealth |-> Lowest(WealthMet(vault)), income |-> Lowest(IncomeMet(vault))]

Between ==
  Told /\ before.improved =>
       \A s \in told'.wealth :
         Lowest(WealthMet(before.vault)) <= s /\ s <= Lowest(WealthMet(vault))

LEMMA NothingTold == ASSUME told' = told \/ ~told'.ok PROVE Exact /\ Between
BY DEF Exact, Between, Told

LEMMA AnswerStep ==
  ASSUME IInv, NEW r, Built(r), True(r), r.next = LastOf(r.kind), Answer(r),
         UNCHANGED <<vault, lost, edits>>
  PROVE  IInv' /\ Exact /\ Between
<1>1. TypeOK /\ History /\ r.kind \in Kind /\ vault' = vault /\ lost' = lost /\ edits' = edits
  BY DEF IInv, Built
<1>2. reading' = NoReading
  BY DEF Answer
<1>3. /\ told'.kind = r.kind /\ told'.ok \in BOOLEAN /\ told'.worth \in Int
      /\ told'.wealth \subseteq Step /\ told'.income \subseteq 0 .. 5
      /\ told'.ok => /\ r.kind # "income" => r.wealth # <<>> /\ told'.worth = NetWorth(r.got)
                     /\ r.kind # "allocation" => r.income # <<>>
                     /\ \A s \in told'.wealth : r.wealth # <<>> /\ s = Lowest(r.wealth)
                     /\ \A s \in told'.income : r.income # <<>> /\ s = Lowest(r.income)
  <2>1. /\ r.wealth = <<>> \/ (r.wealth \in Ladder(6) /\ NetWorth(r.got) \in Int)
        /\ r.income = <<>> \/ r.income \in Ladder(5)
    BY <1>1, LaddersAreDue
  <2>2. QED
    BY <1>1, <2>1, ToldIs
<1>4. r.kind = "both" => r.wealth \in Ladder(6) /\ r.income \in Ladder(5)
  <2>1. SUFFICES ASSUME r.kind = "both" PROVE r.wealth \in Ladder(6) /\ r.income \in Ladder(5)
    OBVIOUS
  <2>2. r.next = 20 /\ Len(Wealth) = 14 /\ Len(Selects) = 20
    BY <2>1, Ends, SelectFacts
  <2>3. /\ r.wealth = WealthGates(r.got) /\ WealthName \subseteq DOMAIN r.got
        /\ r.income = IncomeGates(r.got)
    BY <2>1, <2>2 DEF Built
  <2>4. RowsOf(r.got, WealthName)
    BY <2>3 DEF Built, Rows, RowsOf
  <2>5. QED
    BY <2>3, <2>4, GatesAreLadders
<1>5. \/ stored' = stored /\ before' = before
      \/ /\ r.kind = "both" /\ before' = [before EXCEPT !.fresh = ~before.edited]
         /\ stored' = [wealth |-> Lowest(r.wealth), income |-> Lowest(r.income)]
         /\ Lowest(r.wealth) \in 1 .. 6 /\ Lowest(r.income) \in 1 .. 5
  BY <1>4, StepIsLowest DEF Answer
<1>6. stored' \in [wealth : Step, income : 0 .. 5]
  BY <1>1, <1>5 DEF TypeOK, Step
<1>7. /\ DOMAIN before' = {"vault", "edited", "improved", "fresh"}
      /\ before'.vault = before.vault /\ before'.edited = before.edited
      /\ before'.improved = before.improved /\ before'.fresh \in BOOLEAN
  BY <1>1, <1>5 DEF History
<1>8. before'.fresh => stored' = Steps(vault)
  <2>1. CASE stored' = stored /\ before' = before
    BY <2>1 DEF IInv
  <2>2. CASE /\ r.kind = "both" /\ before'.fresh = ~before.edited
             /\ stored' = [wealth |-> Lowest(r.wealth), income |-> Lowest(r.income)]
    <3>1. ~before.edited => r.wealth = WealthMet(vault) /\ r.income = IncomeMet(vault)
      <4>1. r.wealth # <<>> /\ r.income # <<>>
        BY <1>4, <2>2, StepIsLowest
      <4>2. QED
        BY <1>1, <4>1, LaddersAreDue
    <3>2. QED
      BY <2>2, <3>1 DEF Steps
  <2>3. QED
    BY <1>1, <1>5, <2>1, <2>2 DEF History
<1>9. TypeOK'
  BY <1>1, <1>2, <1>3, <1>6, ReadingsAreOK DEF TypeOK, ReadingOK
<1>10. History'
  BY <1>1, <1>7 DEF History
<1>11. True(reading)'
  BY <1>1, <1>2, <1>7, NoReadingFacts DEF True, Fresh, Bounded, IInv
<1>12. (before.fresh => stored = Steps(vault))'
  BY <1>1, <1>8 DEF Steps
<1>13. Exact
  <2>1. ASSUME Told, ~before.edited
        PROVE  /\ told'.wealth \subseteq {Lowest(WealthMet(vault))}
               /\ told'.income \subseteq {Lowest(IncomeMet(vault))}
               /\ told'.kind # "income" => told'.worth = Worth(vault)
    BY <1>1, <1>3, <2>1, LaddersAreDue DEF Told
  <2>2. QED
    BY <1>8, <2>1 DEF Exact, Steps
<1>14. Between
  BY <1>1, <1>3, LaddersAreDue DEF Between, Told
<1>15. QED
  BY <1>2, <1>9, <1>10, <1>11, <1>12, <1>13, <1>14 DEF IInv

(* Going on to the next SELECT.                                              *)
LEMMA GoesOn ==
  ASSUME IInv, NEW r, Built(r), True(r), r.next # LastOf(r.kind),
         reading' = [r EXCEPT !.next = @ + 1],
         UNCHANGED <<vault, lost, edits, stored, told, before>>
  PROVE  IInv'
<1> DEFINE i == r.next
<1>1. /\ DOMAIN reading' = Fields /\ reading'.kind = r.kind /\ reading'.next = i + 1
      /\ reading'.got = r.got /\ reading'.wealth = r.wealth /\ reading'.income = r.income
  BY DEF Built, Fields
<1>2. /\ r.kind \in Kind /\ i \in 1 .. 20 /\ Len(Wealth) = 14 /\ Len(Selects) = 20
      /\ i + 1 \in FirstOf(r.kind) .. LastOf(r.kind) /\ i # 20
      /\ (r.kind = "allocation" => i + 1 <= 14)
  <2>1. /\ r.kind \in Kind /\ i \in 1 .. 20 /\ Len(Wealth) = 14 /\ Len(Selects) = 20
        /\ i \in FirstOf(r.kind) .. LastOf(r.kind) /\ i # LastOf(r.kind)
    BY NextType, SelectFacts DEF Built
  <2>2. r.kind = "allocation" \/ r.kind = "income" \/ r.kind = "both" \/ r.kind = "chat"
    BY <2>1 DEF Kind
  <2>3. CASE r.kind = "allocation"
    BY <2>1, <2>3, Ends
  <2>4. CASE r.kind # "allocation"
    <3>1. LastOf(r.kind) = 20 /\ FirstOf(r.kind) \in {1, 15}
      BY <2>2, <2>4, Ends
    <3>2. QED
      BY <2>1, <2>4, <3>1
  <2>5. QED
    BY <2>3, <2>4
<1>3. \A j \in Start(i + 1) .. i : Selects[j] \in DOMAIN r.got
  <2>1. CASE i = 14
    <3>1. Start(i + 1) = 15
      BY <2>1, Ends
    <3>2. QED
      BY <2>1, <3>1
  <2>2. CASE i # 14
    <3>1. Start(i + 1) = Start(i)
      BY <1>2, <2>2, Ends
    <3>2. \A j \in Start(i) .. i : Selects[j] \in DOMAIN r.got
      BY <1>2, <2>2 DEF Built
    <3>3. QED
      BY <3>1, <3>2
  <2>3. QED
    BY <2>1, <2>2
<1>4. r.income = <<>>
  BY <1>2 DEF Built
<1>5. \/ r.wealth = <<>> /\ (r.kind \in {"allocation", "both"} => i + 1 <= 14)
      \/ /\ r.wealth = WealthGates(r.got) /\ i + 1 > 14 /\ r.kind \in {"both", "chat"}
         /\ WealthName \subseteq DOMAIN r.got
  BY <1>2 DEF Built
<1>6. Reading(reading)'
  <2>1. Rows(reading')
    BY <1>1 DEF Built, Rows
  <2>2. Reading(reading')
    <3> DEFINE q == reading'
    <3>1. /\ DOMAIN q = Fields /\ q.kind \in Kind /\ q.next \in FirstOf(q.kind) .. LastOf(q.kind)
          /\ Rows(q) /\ q.income = <<>>
      BY <1>1, <1>2, <1>4, <2>1
    <3>2. \A j \in Start(q.next) .. q.next - 1 : Selects[j] \in DOMAIN q.got
      BY <1>1, <1>2, <1>3
    <3>3. \/ q.wealth = <<>> /\ (q.kind \in {"allocation", "both"} => q.next <= Len(Wealth))
          \/ /\ q.wealth = WealthGates(q.got) /\ q.next > Len(Wealth)
             /\ q.kind \in {"both", "chat"} /\ WealthName \subseteq DOMAIN q.got
      BY <1>1, <1>2, <1>5
    <3> HIDE DEF q
    <3>4. Reading(q)
      BY <3>1, <3>2, <3>3 DEF Reading
    <3>5. QED
      BY <3>4 DEF q
  <2>3. QED
    BY <2>2
<1>7. TypeOK'
  BY <1>6, ReadingsAreOK DEF IInv, TypeOK, ReadingOK
<1>8. True(reading)'
  BY <1>1 DEF True, Fresh, Bounded
<1>9. History' /\ (before.fresh => stored = Steps(vault))'
  BY DEF IInv, History, Steps
<1>10. QED
  BY <1>6, <1>7, <1>8, <1>9 DEF IInv

LEMMA ProceedStep ==
  ASSUME IInv, NEW r, Built(r), True(r), Proceed(r), UNCHANGED <<vault, lost, edits>>
  PROVE  IInv' /\ Exact /\ Between
<1>1. CASE r.next = LastOf(r.kind)
  BY <1>1, AnswerStep DEF Proceed
<1>2. CASE r.next # LastOf(r.kind)
  <2>1. reading' = [r EXCEPT !.next = @ + 1] /\ UNCHANGED <<stored, told, before>>
    BY <1>2 DEF Proceed
  <2>2. QED
    BY <1>2, <2>1, GoesOn, NothingTold
<1>3. QED
  BY <1>1, <1>2

-----------------------------------------------------------------------------
(* Every step keeps the invariant and answers as due.                        *)

LEMMA ImprovesFacts ==
  ASSUME NEW u, NEW v, NEW w, \A t \in Table : /\ u[t] \in Contents[t] /\ v[t] \in Contents[t]
                                               /\ w[t] \in Contents[t]
  PROVE  Improves(u, u) /\ (Improves(u, v) /\ Improves(v, w) => Improves(u, w))
<1>1. ASSUME NEW n \in Ranked
      PROVE  /\ Rank(n, u[TableOf[n]]) \in Int /\ Rank(n, v[TableOf[n]]) \in Int
             /\ Rank(n, w[TableOf[n]]) \in Int
  BY NameFacts, RankType DEF Ranked
<1>2. QED
  BY <1>1, ImprovesIs

LEMMA InitInv ==
  ASSUME Init PROVE IInv
<1>1. \A t \in Table : vault[t] \in Contents[t]
  BY PositionsAssumption DEF Init
<1>2. DOMAIN vault = Table
  BY PositionsAssumption DEF Init
<1>3. /\ WealthMet(vault) \in Ladder(6) /\ IncomeMet(vault) \in Ladder(5)
      /\ Lowest(WealthMet(vault)) \in 1 .. 6 /\ Lowest(IncomeMet(vault)) \in 1 .. 5
  BY <1>1, QuietRows
<1>4. stored = Steps(vault)
  BY <1>3, StepIsLowest DEF Init, Steps, WealthMet, IncomeMet
<1>5. stored \in [wealth : Step, income : 0 .. 5]
  BY <1>3, <1>4 DEF Steps, Step
<1>6. /\ before.vault = vault /\ before.edited = FALSE /\ before.improved = TRUE
      /\ before.fresh = TRUE /\ DOMAIN before = {"vault", "edited", "improved", "fresh"}
      /\ reading = NoReading /\ lost \subseteq Losable /\ edits = 0
  BY DEF Init
<1>7. /\ told.kind = "none" /\ told.ok = FALSE /\ told.wealth = {} /\ told.income = {}
      /\ told.worth = 0
  BY DEF Init, NoAnswer
<1>8. TypeOK
  <2>1. ReadingOK(reading)
    BY <1>6, ReadingsAreOK
  <2>2. edits \in 0 .. MaxEdits
    BY <1>6, PositionsAssumption
  <2>3. told.kind \in Kind \cup {"none"} /\ told.worth \in Int
    BY <1>7
  <2>4. told.ok \in BOOLEAN
    BY <1>7, Zenon
  <2>5. QED
    BY <1>1, <1>2, <1>5, <1>6, <1>7, <2>1, <2>2, <2>3, <2>4 DEF TypeOK, ReadingOK
<1>9. History
  BY <1>1, <1>2, <1>6 DEF History
<1>10. True(reading)
  BY <1>1, <1>6, NoReadingFacts, ImprovesFacts DEF True, Fresh, Bounded
<1>11. QED
  BY <1>4, <1>6, <1>8, <1>9, <1>10 DEF IInv

LEMMA EditStep ==
  ASSUME IInv, Edit PROVE IInv' /\ Exact /\ Between
<1>1. TypeOK /\ History /\ UNCHANGED <<lost, reading, stored, told>>
  BY DEF IInv, Edit
<1>2. PICK t \in Table : \E rows \in Contents[t] :
        /\ vault' = [vault EXCEPT ![t] = rows]
        /\ before' = [before EXCEPT !.edited = TRUE, !.fresh = FALSE,
                        !.improved = @ /\ Improves(vault, [vault EXCEPT ![t] = rows])]
  BY DEF Edit
<1>3. /\ DOMAIN vault' = Table /\ \A s \in Table : vault'[s] \in Contents[s]
      /\ edits' \in 0 .. MaxEdits
  BY <1>1, <1>2, PositionsAssumption DEF TypeOK, Edit
<1>4. /\ DOMAIN before' = {"vault", "edited", "improved", "fresh"}
      /\ before'.vault = before.vault /\ before'.edited = TRUE /\ before'.fresh = FALSE
      /\ before'.improved <=> before.improved /\ Improves(vault, vault')
      /\ before'.improved \in BOOLEAN
  BY <1>1, <1>2 DEF History
<1>5. TypeOK'
  BY <1>1, <1>3 DEF TypeOK
<1>6. History'
  BY <1>1, <1>4 DEF History
<1>7. True(reading)'
  <2>1. ASSUME before'.improved PROVE Improves(before'.vault, vault') /\ Bounded(reading)'
    <3>1. /\ before.improved /\ Improves(vault, vault')
          /\ Improves(before.vault, vault) /\ Bounded(reading)
      BY <1>4, <2>1 DEF IInv, True
    <3>2. Improves(before'.vault, vault')
      BY <1>1, <1>3, <1>4, <3>1, ImprovesFacts DEF TypeOK, History
    <3>3. ASSUME NEW n \in DOMAIN reading.got \cap Ranked
          PROVE  /\ Rank(n, before'.vault[TableOf[n]]) <= Rank(n, reading.got[n])
                 /\ Rank(n, reading.got[n]) <= Rank(n, vault'[TableOf[n]])
      <4>1. reading.got[n] \in Contents[TableOf[n]]
        BY NoReadingFacts DEF IInv, Reading, Rows, RowsOf
      <4>2. n \in Name /\ TableOf[n] \in Table
        BY NameFacts DEF Ranked
      <4>3. /\ Rank(n, reading.got[n]) \in Int /\ Rank(n, vault[TableOf[n]]) \in Int
            /\ Rank(n, vault'[TableOf[n]]) \in Int
        BY <1>1, <1>3, <4>1, <4>2, RankType DEF TypeOK
      <4>4. Rank(n, vault[TableOf[n]]) <= Rank(n, vault'[TableOf[n]])
        BY <3>1, ImprovesIs
      <4>5. QED
        BY <1>4, <3>1, <4>3, <4>4 DEF Bounded
    <3>4. QED
      BY <1>1, <3>2, <3>3 DEF Bounded
  <2>2. QED
    BY <1>4, <2>1 DEF True
<1>8. reading' = NoReading \/ Reading(reading)'
  BY <1>1 DEF IInv, Reading, Rows
<1>9. QED
  BY <1>1, <1>4, <1>5, <1>6, <1>7, <1>8, NothingTold DEF IInv

LEMMA BeginStep ==
  ASSUME IInv, Begin PROVE IInv' /\ Exact /\ Between
<1>1. TypeOK /\ History /\ UNCHANGED <<vault, lost, edits, stored, told>>
  BY DEF IInv, Begin
<1>2. PICK k \in Kind : reading' = [NoReading EXCEPT !.kind = k, !.next = FirstOf(k)]
  BY DEF Begin
<1>3. /\ DOMAIN reading' = Fields /\ reading'.kind = k /\ reading'.next = FirstOf(k)
      /\ reading'.got = <<>> /\ reading'.wealth = <<>> /\ reading'.income = <<>>
      /\ DOMAIN reading'.got = {}
  BY <1>2, NoReadingFacts DEF Fields
<1>4. /\ DOMAIN before' = {"vault", "edited", "improved", "fresh"}
      /\ before'.vault = vault /\ before'.edited = FALSE /\ before'.improved = TRUE
      /\ before'.fresh = before.fresh
  BY <1>1 DEF History, Begin
<1>5. Reading(reading')
  <2>1. /\ FirstOf(k) \in FirstOf(k) .. LastOf(k) /\ Start(FirstOf(k)) = FirstOf(k)
        /\ FirstOf(k) - 1 < FirstOf(k) /\ FirstOf(k) \in Nat
        /\ k \in {"allocation", "both"} => FirstOf(k) <= Len(Wealth)
    BY Ends, SelectFacts DEF Kind
  <2>2. \A i \in Start(FirstOf(k)) .. FirstOf(k) - 1 : Selects[i] \in DOMAIN reading'.got
    BY <2>1
  <2>3. QED
    BY <1>3, <2>1, <2>2 DEF Reading, Rows, RowsOf
<1>6. TypeOK'
  BY <1>1, <1>5, ReadingsAreOK DEF TypeOK, ReadingOK
<1>7. History'
  BY <1>1, <1>4 DEF History, TypeOK
<1>8. True(reading)'
  BY <1>1, <1>3, <1>4, ImprovesFacts DEF True, Fresh, Bounded, TypeOK
<1>9. (before.fresh => stored = Steps(vault))'
  BY <1>1, <1>4 DEF IInv, Steps
<1>10. QED
  BY <1>1, <1>5, <1>6, <1>7, <1>8, <1>9, NothingTold DEF IInv, Reading, Rows

(* The rows of one more SELECT leave what was owed as it was.                *)
LEMMA SelectStep ==
  ASSUME IInv, Select PROVE IInv' /\ Exact /\ Between
<1> DEFINE i == reading.next
           n == Selects[i]
           got == [m \in DOMAIN reading.got \cup {n} |->
                     IF m = n THEN vault[TableOf[m]] ELSE reading.got[m]]
           r == [reading EXCEPT !.got = got]
           q == CASE i = Len(Wealth) -> [r EXCEPT !.wealth = WealthGates(got)]
                  [] i = Len(Selects) -> [r EXCEPT !.income = IncomeGates(got)]
                  [] OTHER -> r
<1>1. Proceed(q) /\ Reading(reading) /\ UNCHANGED <<vault, lost, edits>>
  BY DEF Select, IInv
<1>2. /\ DOMAIN reading = Fields /\ reading.kind \in Kind /\ i \in 1 .. 20
      /\ i \in FirstOf(reading.kind) .. LastOf(reading.kind)
      /\ Len(Wealth) = 14 /\ Len(Selects) = 20 /\ (reading.kind = "allocation" => i \in 1 .. 14)
      /\ (reading.kind = "income" => i \in 15 .. 20)
  BY <1>1, NextType, SelectFacts DEF Reading
<1>3. n \in Name /\ (i <= 14 => n \in WealthName) /\ (i > 14 => n \in IncomeName)
  BY <1>2, SelectFacts, NameFacts
<1>4. /\ DOMAIN got = DOMAIN reading.got \cup {n}
      /\ got[n] = vault[TableOf[n]]
      /\ \A m \in DOMAIN reading.got : m # n => got[m] = reading.got[m]
  OBVIOUS
<1>5. /\ DOMAIN q = Fields /\ q.kind = reading.kind /\ q.next = i /\ q.got = got
      /\ q.wealth = (IF i = 14 THEN WealthGates(got) ELSE reading.wealth)
      /\ q.income = (IF i = 20 THEN IncomeGates(got) ELSE <<>>)
  <2>1. /\ DOMAIN r = Fields /\ r.kind = reading.kind /\ r.next = i /\ r.got = got
        /\ r.wealth = reading.wealth /\ r.income = <<>>
    BY <1>1, <1>2 DEF Reading, Fields
  <2> HIDE DEF r, got, i
  <2>2. CASE i = 14
    BY <1>2, <2>1, <2>2 DEF Fields
  <2>3. CASE i = 20
    BY <1>2, <2>1, <2>3 DEF Fields
  <2>4. CASE i # 14 /\ i # 20
    BY <1>2, <2>1, <2>4
  <2>5. QED
    BY <2>2, <2>3, <2>4
<1> HIDE DEF q, r, got, i, n
<1>6. Rows(q)
  <2>1. \A m \in DOMAIN reading.got : m \in Name /\ reading.got[m] \in Contents[TableOf[m]]
    BY <1>1 DEF Reading, Rows, RowsOf
  <2>2. vault[TableOf[n]] \in Contents[TableOf[n]]
    BY <1>3, NameFacts DEF IInv, TypeOK
  <2>3. QED
    BY <1>3, <1>4, <1>5, <2>1, <2>2 DEF Rows, RowsOf
<1>7. \A j \in Start(i) .. i : Selects[j] \in DOMAIN got
  <2>1. \A j \in Start(i) .. i - 1 : Selects[j] \in DOMAIN reading.got
    BY <1>1 DEF Reading, i
  <2>2. Start(i) \in Nat
    BY <1>2, Ends
  <2>3. \A j \in Start(i) .. i : j = i \/ j \in Start(i) .. i - 1
    BY <1>2, <2>2
  <2>4. QED
    BY <1>4, <2>1, <2>3 DEF n
<1>8. \/ q.wealth = <<>> /\ (q.kind \in {"allocation", "both"} => i < 14)
      \/ /\ q.wealth = WealthGates(got) /\ i >= 14
         /\ q.kind \in {"allocation", "both", "chat"} /\ WealthName \subseteq DOMAIN got
  <2>1. CASE i < 14
    <3>1. reading.wealth = <<>>
      BY <1>1, <1>2, <2>1 DEF Reading, i
    <3>2. QED
      BY <1>5, <2>1, <3>1
  <2>2. CASE i = 14
    <3>1. WealthName \subseteq DOMAIN got
      BY <1>7, <2>2, Ends, SelectFacts
    <3>2. reading.kind \in {"allocation", "both", "chat"}
      BY <1>2, <2>2 DEF Kind
    <3>3. QED
      BY <1>5, <2>2, <3>1, <3>2
  <2>3. CASE i > 14 /\ reading.wealth = <<>>
    <3>1. ~(reading.kind \in {"allocation", "both"})
      BY <1>1, <1>2, <2>3, GatesAreLadders, StepIsLowest DEF Reading, i, Rows, RowsOf
    <3>2. QED
      BY <1>2, <1>5, <2>3, <3>1
  <2>4. CASE i > 14 /\ reading.wealth # <<>>
    <3>1. /\ reading.wealth = WealthGates(reading.got) /\ reading.kind \in {"both", "chat"}
          /\ WealthName \subseteq DOMAIN reading.got
      BY <1>1, <2>4 DEF Reading
    <3>2. \A m \in WealthName : m # n /\ got[m] = reading.got[m]
      BY <1>3, <1>4, <2>4, <3>1, NameFacts
    <3>3. WealthGates(reading.got) = WealthGates(got)
      BY <3>2, GatesOfSelects
    <3>4. q.wealth = reading.wealth /\ i >= 14 /\ WealthName \subseteq DOMAIN got
      BY <1>2, <1>4, <1>5, <2>4, <3>1
    <3>5. QED
      BY <1>5, <3>1, <3>3, <3>4
  <2>5. QED
    BY <1>2, <2>1, <2>2, <2>3, <2>4
<1>9. \/ q.income = <<>> /\ (q.kind \in {"income", "both"} => i < 20)
      \/ q.income = IncomeGates(got) /\ i = 20 /\ IncomeName \subseteq DOMAIN got
  <2>1. CASE i = 20
    <3>1. IncomeName \subseteq DOMAIN got
      BY <1>7, <2>1, Ends, SelectFacts
    <3>2. QED
      BY <1>5, <2>1, <3>1
  <2>2. CASE i # 20
    BY <1>2, <1>5, <2>2
  <2>3. QED
    BY <2>1, <2>2
<1>10. Built(q)
  <2>1. q.kind \in Kind /\ q.next \in FirstOf(q.kind) .. LastOf(q.kind)
    BY <1>2, <1>5
  <2>2. \A j \in Start(q.next) .. q.next : Selects[j] \in DOMAIN q.got
    BY <1>5, <1>7
  <2>3. \/ q.wealth = <<>> /\ (q.kind \in {"allocation", "both"} => q.next < Len(Wealth))
        \/ /\ q.wealth = WealthGates(q.got) /\ q.next >= Len(Wealth)
           /\ q.kind \in {"allocation", "both", "chat"} /\ WealthName \subseteq DOMAIN q.got
    BY <1>2, <1>5, <1>8
  <2>4. \/ q.income = <<>> /\ (q.kind \in {"income", "both"} => q.next < Len(Selects))
        \/ /\ q.income = IncomeGates(q.got) /\ q.next = Len(Selects)
           /\ IncomeName \subseteq DOMAIN q.got
    BY <1>2, <1>5, <1>9
  <2>5. QED
    BY <1>5, <1>6, <2>1, <2>2, <2>3, <2>4 DEF Built
<1>11. True(q)
  <2>1. ASSUME ~before.edited PROVE Fresh(q)
    <3>1. Fresh(reading)
      BY <2>1 DEF IInv, True
    <3>2. QED
      BY <1>4, <1>5, <3>1 DEF Fresh
  <2>2. ASSUME before.improved PROVE Improves(before.vault, vault) /\ Bounded(q)
    <3>1. Improves(before.vault, vault) /\ Bounded(reading)
      BY <2>2 DEF IInv, True
    <3>2. ASSUME n \in Ranked
          PROVE  /\ Rank(n, before.vault[TableOf[n]]) <= Rank(n, got[n])
                 /\ Rank(n, got[n]) <= Rank(n, vault[TableOf[n]])
      <4>1. Rank(n, before.vault[TableOf[n]]) <= Rank(n, vault[TableOf[n]])
        BY <3>1, <3>2, ImprovesIs
      <4>2. vault[TableOf[n]] \in Contents[TableOf[n]]
        BY <1>3, NameFacts DEF IInv, TypeOK
      <4>3. Rank(n, vault[TableOf[n]]) \in Int
        BY <3>2, <4>2, RankType
      <4>4. QED
        BY <1>4, <4>1, <4>3
    <3>3. QED
      BY <1>4, <1>5, <3>1, <3>2 DEF Bounded
  <2>3. QED
    BY <2>1, <2>2 DEF True
<1>12. QED
  BY <1>1, <1>10, <1>11, ProceedStep

LEMMA RaiseStep ==
  ASSUME IInv, Raise PROVE IInv' /\ Exact /\ Between
<1>1. Reading(reading) /\ UNCHANGED <<vault, lost, edits>>
  BY DEF Raise, IInv
<1>2. CASE reading.kind = "chat"
  <2> DEFINE q == [reading EXCEPT !.next =
                     IF reading.next <= Len(Wealth) THEN Len(Wealth) ELSE Len(Selects)]
  <2>1. Proceed(q)
    BY <1>2 DEF Raise
  <2>2. /\ DOMAIN q = Fields /\ q.kind = "chat" /\ q.got = reading.got /\ q.wealth = reading.wealth
        /\ q.income = <<>>
        /\ q.next = (IF reading.next <= Len(Wealth) THEN Len(Wealth) ELSE Len(Selects))
    BY <1>1, <1>2 DEF Reading, Fields
  <2> HIDE DEF q
  <2>3. q.next \in {14, 20} /\ Len(Wealth) = 14 /\ Len(Selects) = 20
    BY <2>2, SelectFacts
  <2>4. \/ q.wealth = <<>>
        \/ q.wealth = WealthGates(q.got) /\ q.next = 20 /\ WealthName \subseteq DOMAIN q.got
    BY <1>1, <2>2, <2>3 DEF Reading
  <2>5. q.kind \in Kind /\ q.next \in FirstOf(q.kind) .. LastOf(q.kind) /\ Rows(q)
    BY <1>1, <2>2, <2>3, Ends DEF Kind, Reading, Rows
  <2>6. Built(q)
    BY <2>2, <2>3, <2>4, <2>5 DEF Built
  <2>7. True(q)
    BY <2>2 DEF True, Fresh, Bounded, IInv
  <2>8. QED
    BY <1>1, <2>1, <2>6, <2>7, ProceedStep
<1>3. CASE reading.kind # "chat"
  <2>1. /\ reading' = NoReading /\ told' = [NoAnswer EXCEPT !.kind = reading.kind]
        /\ stored' = stored /\ before' = before
    BY <1>3 DEF Raise
  <2>2. /\ told'.kind = reading.kind /\ told'.ok = FALSE /\ told'.wealth = {}
        /\ told'.income = {} /\ told'.worth = 0
    BY <2>1 DEF NoAnswer
  <2>3. told'.ok \in BOOLEAN /\ reading.kind \in Kind
    BY <1>1, <2>2, Zenon DEF Reading
  <2>4. ReadingOK(reading')
    BY <2>1, ReadingsAreOK
  <2>5. TypeOK'
    BY <1>1, <2>1, <2>2, <2>3, <2>4 DEF IInv, TypeOK, ReadingOK
  <2>6. History' /\ (before.fresh => stored = Steps(vault))'
    BY <1>1, <2>1 DEF IInv, History, Steps
  <2>7. True(reading)'
    BY <1>1, <2>1, NoReadingFacts DEF IInv, True, Fresh, Bounded
  <2>8. QED
    BY <2>1, <2>2, <2>5, <2>6, <2>7, NothingTold DEF IInv
<1>4. QED
  BY <1>2, <1>3

LEMMA NextInv ==
  ASSUME IInv, [Next]_vars PROVE IInv' /\ Exact /\ Between
<1>1. CASE Next
  BY <1>1, EditStep, BeginStep, SelectStep, RaiseStep DEF Next
<1>2. CASE UNCHANGED vars
  <2>1. IInv'
    BY <1>2 DEF vars, IInv, TypeOK, History, Reading, Rows, RowsOf, True, Fresh, Bounded, Steps
  <2>2. QED
    BY <1>2, <2>1, NothingTold DEF vars
<1>3. QED
  BY <1>1, <1>2

LEMMA Invariance == Spec => []IInv
<1>1. Init => IInv
  BY InitInv
<1>2. IInv /\ [Next]_vars => IInv'
  BY NextInv
<1>3. QED
  BY <1>1, <1>2, PTL DEF Spec

(* The state is well typed: a ladder has six or five gates, the answer and   *)
(* the stored snapshot name steps that exist, and the net worth is a number. *)
THEOREM TypeCorrect == Spec => []TypeOK
<1>1. IInv => TypeOK
  BY DEF IInv
<1>2. QED
  BY <1>1, Invariance, PTL

(* When nothing commits during the SELECTs, every consumer names the lowest  *)
(* step whose gate the vault does not meet and its net worth; so does the    *)
(* snapshot made since the last edit.                                        *)
THEOREM QuietAnswersAreExact == Spec => QuietReadIsExact
<1> DEFINE A == Told /\ ~before.edited =>
                  /\ told'.wealth \subseteq {Lowest(WealthMet(vault))}
                  /\ told'.income \subseteq {Lowest(IncomeMet(vault))}
                  /\ told'.kind # "income" => told'.worth = Worth(vault)
                  /\ before'.fresh =>
                       stored' = [wealth |-> Lowest(WealthMet(vault)),
                                  income |-> Lowest(IncomeMet(vault))]
<1>1. IInv /\ [Next]_vars => [A]_vars
  BY NextInv DEF Exact
<1>2. QED
  BY <1>1, Invariance, PTL DEF Spec, QuietReadIsExact

(* As long as every edit improves matters, the step told lies between those  *)
(* of the vault before and after the SELECTs, though what they returned may  *)
(* be a vault that never was.                                                *)
THEOREM AnswersLieBetween == Spec => BetweenIfImproving
<1> DEFINE A == Told /\ before.improved =>
                  \A s \in told'.wealth :
                    Lowest(WealthMet(before.vault)) <= s /\ s <= Lowest(WealthMet(vault))
<1>1. IInv /\ [Next]_vars => [A]_vars
  BY NextInv DEF Between
<1>2. QED
  BY <1>1, Invariance, PTL DEF Spec, BetweenIfImproving

=============================================================================
