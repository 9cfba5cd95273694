----------------------------- MODULE BankProofs -----------------------------
(***************************************************************************)
(* The ledger implements the bank, and its stored balances are what the     *)
(* posted transfers add up to, for any finite set of wallets and any        *)
(* transactions and requests.  Sums over finite sets are reasoned about by  *)
(* induction on their cardinality.                                          *)
(***************************************************************************)
EXTENDS LedgerBank, LedgerProofs, FiniteSetTheorems

-----------------------------------------------------------------------------
(* Induction                                                               *)

\* WFMin, which needs no operator for a parameter, is what induction is drawn
\* from here.
LEMMA LeastNat ==
  ASSUME NEW N, N \subseteq Nat, N # {}
  PROVE  \E n \in N : \A m \in N : n <= m
<1> DEFINE R == OpToRel(<, Nat)
<1>1. IsWellFoundedOn(R, Nat)
  BY NatLessThanWellFounded
<1>2. \A m, n \in Nat : m < n => <<m, n>> \in R
  BY DEF OpToRel
<1> HIDE DEF R
<1>3. PICK n \in N : \A m \in N : ~(<<m, n>> \in R)
  BY <1>1, WFMin
<1>4. \A m \in N : ~(m < n)
  BY <1>2, <1>3
<1>5. \A m \in N : n <= m
  BY <1>4
<1>6. QED
  BY <1>5

\* Induction over the natural numbers, for the set of those a claim holds of.
LEMMA Numbers ==
  ASSUME NEW N \in SUBSET Nat, 0 \in N, \A n \in N : n + 1 \in N
  PROVE  \A n \in Nat : n \in N
<1> SUFFICES ASSUME Nat \ N # {} PROVE FALSE
  OBVIOUS
<1>1. PICK n \in Nat \ N : \A m \in Nat \ N : n <= m
  BY LeastNat
<1>2. n # 0 /\ n - 1 \in Nat
  BY <1>1
<1>3. n - 1 \in N
  BY <1>1, <1>2
<1>4. n = (n - 1) + 1
  BY <1>1
<1>5. QED
  BY <1>1, <1>3, <1>4

\* Removing an element of a finite set leaves one element less.
LEMMA OneLess ==
  ASSUME NEW S, IsFiniteSet(S), NEW x \in S, NEW n \in Nat, Cardinality(S) <= n + 1
  PROVE  IsFiniteSet(S \ {x}) /\ Cardinality(S \ {x}) <= n
<1>1. IsFiniteSet(S \ {x}) /\ Cardinality(S \ {x}) = Cardinality(S) - 1
  BY FS_RemoveElement
<1>2. Cardinality(S) \in Nat
  BY FS_CardinalityType
<1>3. QED
  BY <1>1, <1>2

\* What holds of the empty set and is kept when an element is added holds of
\* every finite set; A collects the sets it holds of.
LEMMA Sets ==
  ASSUME NEW S, IsFiniteSet(S), NEW A \in SUBSET SUBSET S,
         {} \in A, \A s \in A : \A x \in S \ s : s \cup {x} \in A
  PROVE  S \in A
<1> DEFINE N == {n \in Nat : \A s \in SUBSET S : Cardinality(s) <= n => s \in A}
<1>1. \A s \in SUBSET S : IsFiniteSet(s) /\ Cardinality(s) \in Nat
  BY FS_Subset, FS_CardinalityType
<1>2. 0 \in N
  <2>1. \A s \in SUBSET S : Cardinality(s) <= 0 => s = {}
    BY <1>1, FS_EmptySet
  <2>2. QED
    BY <2>1
<1>3. ASSUME NEW n \in N PROVE n + 1 \in N
  <2>1. ASSUME NEW s \in SUBSET S, Cardinality(s) <= n + 1, s # {} PROVE s \in A
    <3>1. PICK x \in s : TRUE
      BY <2>1
    <3>2. Cardinality(s \ {x}) <= n
      BY <1>1, <2>1, OneLess
    <3>3. s \ {x} \in A
      BY <3>2
    <3>4. s = (s \ {x}) \cup {x} /\ x \in S \ (s \ {x})
      OBVIOUS
    <3>5. QED
      BY <3>3, <3>4
  <2>2. \A s \in SUBSET S : Cardinality(s) <= n + 1 => s \in A
    BY <2>1
  <2>3. QED
    BY <2>2
<1>4. \A n \in Nat : n \in N
  <2> HIDE DEF N
  <2>1. N \in SUBSET Nat
    BY DEF N
  <2>2. QED
    BY <1>2, <1>3, <2>1, Numbers
<1>5. QED
  BY <1>1, <1>4

-----------------------------------------------------------------------------
(* Sums                                                                    *)

Any(s) == CHOOSE x \in s : TRUE

\* One step of the fold that MapThenSumSet is defined by.
Folds(g, f, s) == g[s] = IF s = {} THEN 0 ELSE f[Any(s)] + g[s \ {Any(s)}]

IsFold(g, f, S) ==
  g = [s \in SUBSET S |-> IF s = {} THEN 0 ELSE f[Any(s)] + g[s \ {Any(s)}]]

\* A set that is not empty has the element that CHOOSE picks.
LEMMA AnyElement == \A s : s # {} => Any(s) \in s
  BY DEF Any

\* The recursive function that a fold is exists: CHOOSE has something to choose.
LEMMA FoldExists ==
  ASSUME NEW S, IsFiniteSet(S), NEW f
  PROVE  \E g : IsFold(g, f, S)
<1> DEFINE N == {n \in Nat : \E g : \A s \in SUBSET S : Cardinality(s) <= n => Folds(g, f, s)}
<1>1. \A s \in SUBSET S : IsFiniteSet(s) /\ Cardinality(s) \in Nat
  BY FS_Subset, FS_CardinalityType
<1>2. 0 \in N
  <2> DEFINE g == [s \in SUBSET S |-> 0]
  <2>1. \A s \in SUBSET S : Cardinality(s) <= 0 => s = {}
    BY <1>1, FS_EmptySet
  <2>2. \A s \in SUBSET S : Cardinality(s) <= 0 => Folds(g, f, s)
    BY <2>1 DEF Folds
  <2>3. QED
    BY <2>2
<1>3. ASSUME NEW n \in N PROVE n + 1 \in N
  <2>1. PICK g : \A s \in SUBSET S : Cardinality(s) <= n => Folds(g, f, s)
    OBVIOUS
  <2> DEFINE h == [s \in SUBSET S |-> IF s = {} THEN 0 ELSE f[Any(s)] + g[s \ {Any(s)}]]
  <2>2. ASSUME NEW s \in SUBSET S, Cardinality(s) <= n + 1 PROVE Folds(h, f, s)
    <3>1. CASE s = {}
      BY <3>1 DEF Folds
    <3>2. CASE s # {}
      <4> DEFINE u == s \ {Any(s)}
      <4>1. u \in SUBSET S /\ Cardinality(u) <= n
        BY <1>1, <2>2, <3>2, OneLess, AnyElement
      <4>2. g[u] = h[u]
        BY <2>1, <4>1 DEF Folds
      <4>3. h[s] = f[Any(s)] + g[u]
        BY <3>2
      <4>4. QED
        BY <3>2, <4>2, <4>3 DEF Folds
    <3>3. QED
      BY <3>1, <3>2
  <2> HIDE DEF h
  <2>3. \A s \in SUBSET S : Cardinality(s) <= n + 1 => Folds(h, f, s)
    BY <2>2
  <2>4. QED
    BY <2>3
<1>4. \A n \in Nat : n \in N
  <2> HIDE DEF N
  <2>1. N \in SUBSET Nat
    BY DEF N
  <2>2. QED
    BY <1>2, <1>3, <2>1, Numbers
<1>5. PICK g : \A s \in SUBSET S : Folds(g, f, s)
  <2>1. \A s \in SUBSET S : Cardinality(s) <= Cardinality(S)
    BY FS_Subset
  <2>2. Cardinality(S) \in N
    BY <1>1, <1>4
  <2>3. QED
    BY <2>1, <2>2
<1>6. IsFold([s \in SUBSET S |-> g[s]], f, S)
  BY <1>5 DEF Folds, IsFold
<1>7. QED
  BY <1>6

\* Two folds of functions that agree on a set agree on its subsets.
LEMMA FoldsAgree ==
  ASSUME NEW S, NEW U \in SUBSET S, IsFiniteSet(S), NEW f, NEW h, \A x \in U : f[x] = h[x],
         NEW g, IsFold(g, f, S), NEW k, IsFold(k, h, U)
  PROVE  \A s \in SUBSET U : g[s] = k[s]
<1> DEFINE N == {n \in Nat : \A s \in SUBSET U : Cardinality(s) <= n => g[s] = k[s]}
<1>1. \A s \in SUBSET U : IsFiniteSet(s) /\ Cardinality(s) \in Nat
  BY FS_Subset, FS_CardinalityType
<1>2. \A s \in SUBSET U : /\ g[s] = IF s = {} THEN 0 ELSE f[Any(s)] + g[s \ {Any(s)}]
                          /\ k[s] = IF s = {} THEN 0 ELSE h[Any(s)] + k[s \ {Any(s)}]
  BY DEF IsFold
<1>3. 0 \in N
  <2>1. \A s \in SUBSET U : Cardinality(s) <= 0 => s = {}
    BY <1>1, FS_EmptySet
  <2>2. QED
    BY <1>2, <2>1
<1>4. ASSUME NEW n \in N PROVE n + 1 \in N
  <2>1. ASSUME NEW s \in SUBSET U, Cardinality(s) <= n + 1 PROVE g[s] = k[s]
    <3>1. CASE s = {}
      BY <1>2, <3>1
    <3>2. CASE s # {}
      <4>1. Cardinality(s \ {Any(s)}) <= n /\ Any(s) \in U
        BY <1>1, <2>1, <3>2, OneLess, AnyElement
      <4>2. QED
        BY <1>2, <3>2, <4>1
    <3>3. QED
      BY <3>1, <3>2
  <2>2. QED
    BY <2>1
<1>5. \A n \in Nat : n \in N
  <2> HIDE DEF N
  <2>1. N \in SUBSET Nat
    BY DEF N
  <2>2. QED
    BY <1>3, <1>4, <2>1, Numbers
<1>6. QED
  BY <1>1, <1>5

\* A fold of integers does not depend on the order in which elements are chosen.
LEMMA FoldAnyOrder ==
  ASSUME NEW S, IsFiniteSet(S), NEW f, \A x \in S : f[x] \in Int, NEW g, IsFold(g, f, S)
  PROVE  \A s \in SUBSET S : g[s] \in Int /\ \A x \in s : g[s] = f[x] + g[s \ {x}]
<1> DEFINE N == {n \in Nat : \A s \in SUBSET S : Cardinality(s) <= n =>
                   g[s] \in Int /\ \A x \in s : g[s] = f[x] + g[s \ {x}]}
<1>1. \A s \in SUBSET S : IsFiniteSet(s) /\ Cardinality(s) \in Nat
  BY FS_Subset, FS_CardinalityType
<1>2. \A s \in SUBSET S : g[s] = IF s = {} THEN 0 ELSE f[Any(s)] + g[s \ {Any(s)}]
  BY DEF IsFold
<1>3. 0 \in N
  <2>1. \A s \in SUBSET S : Cardinality(s) <= 0 => s = {}
    BY <1>1, FS_EmptySet
  <2>2. g[{}] = 0
    BY <1>2
  <2>3. ASSUME NEW s \in SUBSET S, Cardinality(s) <= 0
        PROVE  g[s] \in Int /\ \A x \in s : g[s] = f[x] + g[s \ {x}]
    <3>1. s = {}
      BY <2>1, <2>3
    <3>2. QED
      BY <2>2, <3>1
  <2>4. QED
    BY <2>3
<1>4. ASSUME NEW n \in N PROVE n + 1 \in N
  <2>1. ASSUME NEW s \in SUBSET S, Cardinality(s) <= n + 1
        PROVE  g[s] \in Int /\ \A x \in s : g[s] = f[x] + g[s \ {x}]
    <3>1. CASE s = {}
      BY <1>2, <3>1
    <3>2. CASE s # {}
      <4> DEFINE y == Any(s)
      <4>1. y \in s /\ g[s] = f[y] + g[s \ {y}]
        BY <1>2, <3>2, AnyElement
      <4>2. \A x \in s : Cardinality(s \ {x}) <= n
        BY <1>1, <2>1, OneLess
      <4>3. \A x \in s : g[s \ {x}] \in Int /\ \A z \in s \ {x} : g[s \ {x}] = f[z] + g[(s \ {x}) \ {z}]
        BY <4>2
      <4> HIDE DEF y
      <4>4. ASSUME NEW x \in s, x # y PROVE g[s] = f[x] + g[s \ {x}]
        <5>1. g[s \ {y}] = f[x] + g[(s \ {y}) \ {x}] /\ g[s \ {x}] = f[y] + g[(s \ {x}) \ {y}]
          BY <4>1, <4>3, <4>4
        <5>2. (s \ {y}) \ {x} = (s \ {x}) \ {y}
          OBVIOUS
        <5>3. g[(s \ {x}) \ {y}] \in Int /\ f[x] \in Int /\ f[y] \in Int
          <6>1. (s \ {x}) \ {y} \in SUBSET S /\ Cardinality((s \ {x}) \ {y}) <= n
            <7>1. IsFiniteSet(s \ {x}) /\ y \in s \ {x}
              BY <1>1, <4>1, <4>4
            <7>2. Cardinality(s \ {x}) <= n + 1
              <8>1. Cardinality(s \ {x}) \in Nat
                BY <1>1
              <8>2. QED
                BY <4>2, <8>1
            <7>3. QED
              BY <7>1, <7>2, OneLess
          <6>2. QED
            BY <4>1, <6>1
        <5>4. g[s \ {y}] = f[x] + g[(s \ {x}) \ {y}]
          BY <5>1, <5>2
        <5>5. g[s] = f[y] + (f[x] + g[(s \ {x}) \ {y}])
          BY <4>1, <5>4
        <5>6. g[s \ {x}] = f[y] + g[(s \ {x}) \ {y}]
          BY <5>1
        <5>7. QED
          BY <5>3, <5>5, <5>6
      <4>5. g[s] \in Int
        <5>1. f[y] \in Int /\ g[s \ {y}] \in Int
          BY <4>1, <4>3
        <5>2. QED
          BY <4>1, <5>1
      <4>6. QED
        BY <4>1, <4>4, <4>5
    <3>3. QED
      BY <3>1, <3>2
  <2>2. QED
    BY <2>1
<1>5. \A n \in Nat : n \in N
  <2> HIDE DEF N
  <2>1. N \in SUBSET Nat
    BY DEF N
  <2>2. QED
    BY <1>3, <1>4, <2>1, Numbers
<1>6. QED
  BY <1>1, <1>5

\* The sum of the values of f at the elements of a finite set.
Total(f, S) == (CHOOSE g : IsFold(g, f, S))[S]

\* Whichever fold is taken, and over whichever larger set, its values are totals.
LEMMA TotalIsFold ==
  ASSUME NEW S, IsFiniteSet(S), NEW f, NEW g, IsFold(g, f, S)
  PROVE  \A s \in SUBSET S : g[s] = Total(f, s)
<1> SUFFICES ASSUME NEW s \in SUBSET S PROVE g[s] = Total(f, s)
  OBVIOUS
<1>1. IsFiniteSet(s)
  BY FS_Subset
<1> DEFINE k == CHOOSE k : IsFold(k, f, s)
<1>2. IsFold(k, f, s)
  BY <1>1, FoldExists
<1> HIDE DEF k
<1>3. g[s] = k[s]
  BY <1>2, FoldsAgree
<1>4. QED
  BY <1>3 DEF k, Total

\* A sum with an element more.
LEMMA TotalAdds ==
  ASSUME NEW S, IsFiniteSet(S), NEW f, \A x \in S : f[x] \in Int
  PROVE  /\ Total(f, {}) = 0
         /\ Total(f, S) \in Int
         /\ \A x \in S : Total(f, S) = f[x] + Total(f, S \ {x})
<1>1. PICK g : IsFold(g, f, S)
  BY FoldExists
<1>2. \A s \in SUBSET S : g[s] = Total(f, s)
  BY <1>1, TotalIsFold
<1>3. g[{}] = 0
  BY <1>1 DEF IsFold
<1>4. g[S] \in Int /\ \A x \in S : g[S] = f[x] + g[S \ {x}]
  BY <1>1, FoldAnyOrder
<1>5. QED
  BY <1>2, <1>3, <1>4

\* Equal values, equal sums.
LEMMA TotalsAgree ==
  ASSUME NEW S, IsFiniteSet(S), NEW f, NEW h, \A x \in S : f[x] = h[x]
  PROVE  Total(f, S) = Total(h, S)
<1>1. PICK g, k : IsFold(g, f, S) /\ IsFold(k, h, S)
  BY FoldExists
<1>2. \A s \in SUBSET S : g[s] = k[s]
  BY <1>1, FoldsAgree
<1>3. QED
  BY <1>1, <1>2, TotalIsFold

-----------------------------------------------------------------------------
(* Sums of amounts                                                         *)

\* The sum that a balance of the bank is made of.
Sum(R) == MapThenSumSet(LAMBDA r : r.amount, R)

\* MapThenSumSet of the amounts is the total of the function from rows to amounts.
LEMMA SumIsTotal ==
  ASSUME NEW R, IsFiniteSet(R)
  PROVE  Sum(R) = Total([r \in R |-> r.amount], R)
<1> DEFINE f == [r \in R |-> r.amount]
           g == CHOOSE g : g = [s \in SUBSET R |-> IF s = {} THEN 0 ELSE Any(s).amount + g[s \ {Any(s)}]]
<1>1. Sum(R) = g[R]
  BY DEF Sum, MapThenSumSet, MapThenFoldSet, Any
<1>2. \A s \in SUBSET R : s # {} => f[Any(s)] = Any(s).amount
  BY AnyElement
<1> HIDE DEF f
<1>3. PICK h : IsFold(h, f, R)
  BY FoldExists
<1>4. h = [s \in SUBSET R |-> IF s = {} THEN 0 ELSE Any(s).amount + h[s \ {Any(s)}]]
  BY <1>2, <1>3 DEF IsFold
<1>5. g = [s \in SUBSET R |-> IF s = {} THEN 0 ELSE Any(s).amount + g[s \ {Any(s)}]]
  BY <1>4
<1> HIDE DEF g
<1>6. IsFold(g, f, R)
  BY <1>2, <1>5 DEF IsFold
<1>7. g[R] = Total(f, R)
  BY <1>6, TotalIsFold
<1>8. QED
  BY <1>1, <1>7 DEF f

\* A sum of amounts with a row, or a transfer, more.
LEMMA SumAdds ==
  ASSUME NEW R, IsFiniteSet(R), \A r \in R : r.amount \in Int,
         NEW x, x \notin R, x.amount \in Int
  PROVE  /\ Sum({}) = 0
         /\ Sum(R) \in Int
         /\ Sum(R \cup {x}) = Sum(R) + x.amount
<1> DEFINE X == R \cup {x}
           f == [r \in R |-> r.amount]
           g == [r \in X |-> r.amount]
<1>1. IsFiniteSet({}) /\ IsFiniteSet(X)
  BY FS_EmptySet, FS_AddElement
<1>2. Sum({}) = 0
  <2>1. Sum({}) = Total([r \in {} |-> r.amount], {})
    BY <1>1, SumIsTotal
  <2>2. QED
    BY <1>1, <2>1, TotalAdds
<1>3. Sum(R) = Total(f, R) /\ Sum(X) = Total(g, X)
  BY <1>1, SumIsTotal
<1>4. /\ \A r \in R : f[r] = g[r] /\ f[r] \in Int
      /\ \A r \in X : g[r] \in Int
      /\ g[x] = x.amount /\ X \ {x} = R /\ x \in X
  OBVIOUS
<1> HIDE DEF f, g, X
<1>5. Total(f, R) \in Int /\ Total(f, R) = Total(g, R)
  BY <1>4, TotalAdds, TotalsAgree
<1>6. Total(g, X) = g[x] + Total(g, R)
  BY <1>1, <1>4, TotalAdds
<1>7. QED
  BY <1>2, <1>3, <1>4, <1>5, <1>6 DEF X

-----------------------------------------------------------------------------
(* A history in order adds up                                              *)

\* A finite set of rows has a latest one.
LEMMA FiniteHasLatest ==
  ASSUME NEW R \in SUBSET Row, IsFiniteSet(R)
  PROVE  HasLatest(R)
<1> DEFINE A == {s \in SUBSET R : HasLatest(s)}
<1>1. {} \in A
  BY DEF HasLatest
<1>2. ASSUME NEW s \in A, NEW x \in R \ s PROVE s \cup {x} \in A
  <2>1. \A r \in s \cup {x} : r.created_at \in Int
    BY DEF Row
  <2>2. CASE s = {}
    BY <2>1, <2>2 DEF HasLatest
  <2>3. CASE s # {}
    <3>1. PICK r \in s : \A q \in s : q.created_at <= r.created_at
      BY <2>3 DEF HasLatest
    <3>2. CASE x.created_at <= r.created_at
      BY <3>1, <3>2 DEF HasLatest
    <3>3. CASE ~(x.created_at <= r.created_at)
      <4>1. \A q \in s \cup {x} : q.created_at <= x.created_at
        BY <2>1, <3>1, <3>3
      <4>2. QED
        BY <4>1 DEF HasLatest
    <3>4. QED
      BY <3>2, <3>3
  <2>4. QED
    BY <2>2, <2>3
<1> HIDE DEF A
<1>3. A \in SUBSET SUBSET R
  BY DEF A
<1>4. R \in A
  BY <1>1, <1>2, <1>3, Sets
<1>5. QED
  BY <1>4 DEF A

\* Without its latest row a history is still in order.
LEMMA WithoutLatest ==
  ASSUME NEW R \in SUBSET Row, IsFiniteSet(R), R # {}, Ordered(R), Chained(R)
  PROVE  /\ Latest(R) \in R
         /\ Earlier(R, Latest(R)) = R \ {Latest(R)}
         /\ Ordered(R \ {Latest(R)}) /\ Chained(R \ {Latest(R)})
<1> DEFINE x == Latest(R)
<1>1. x \in R /\ \A q \in R : q.created_at <= x.created_at
  BY FiniteHasLatest, LatestIsLast
<1> HIDE DEF x
<1>2. \A r \in R : r.created_at \in Int
  BY DEF Row
<1>3. Earlier(R, x) = R \ {x}
  BY <1>1, <1>2 DEF Earlier, Ordered
<1>4. Ordered(R \ {x})
  BY DEF Ordered
<1>5. ASSUME NEW r \in R \ {x} PROVE Earlier(R \ {x}, r) = Earlier(R, r)
  <2>1. ~(x.created_at < r.created_at)
    BY <1>1, <1>2
  <2>2. QED
    BY <2>1 DEF Earlier
<1>6. Chained(R \ {x})
  BY <1>5 DEF Chained
<1>7. QED
  BY <1>1, <1>3, <1>4, <1>6 DEF x

\* The balance in the latest row is the sum of all amounts.
LEMMA BalanceIsSum ==
  ASSUME NEW R \in SUBSET Row, IsFiniteSet(R), Ordered(R), Chained(R)
  PROVE  BalanceOf(R) = Sum(R)
<1> DEFINE N == {n \in Nat : \A S \in SUBSET R :
                   Cardinality(S) <= n /\ Ordered(S) /\ Chained(S) => BalanceOf(S) = Sum(S)}
<1>1. \A S \in SUBSET R : IsFiniteSet(S) /\ Cardinality(S) \in Nat
  BY FS_Subset, FS_CardinalityType
<1>2. \A r \in R : r.amount \in Int
  BY DEF Row
<1>3. BalanceOf({}) = Sum({})
  <2>1. IsFiniteSet({})
    BY FS_EmptySet
  <2>2. Sum({}) = Total([r \in {} |-> r.amount], {})
    BY <2>1, SumIsTotal
  <2>3. Total([r \in {} |-> r.amount], {}) = 0
    BY <2>1, TotalAdds
  <2>4. QED
    BY <2>2, <2>3 DEF BalanceOf
<1>4. 0 \in N
  <2>1. \A S \in SUBSET R : Cardinality(S) <= 0 => S = {}
    BY <1>1, FS_EmptySet
  <2>2. QED
    BY <1>3, <2>1
<1>5. ASSUME NEW n \in N PROVE n + 1 \in N
  <2>1. ASSUME NEW S \in SUBSET R, Cardinality(S) <= n + 1, Ordered(S), Chained(S), S # {}
        PROVE  BalanceOf(S) = Sum(S)
    <3> DEFINE x == Latest(S)
               T == S \ {x}
    <3>1. x \in S /\ Earlier(S, x) = T /\ Ordered(T) /\ Chained(T)
      BY <1>1, <2>1, WithoutLatest
    <3>2. Cardinality(T) <= n
      BY <1>1, <2>1, <3>1, OneLess
    <3>3. BalanceOf(T) = Sum(T)
      BY <3>1, <3>2
    <3>4. BalanceOf(S) = BalanceOf(T) + x.amount
      BY <2>1, <3>1 DEF BalanceOf, Chained
    <3> HIDE DEF x
    <3>5. IsFiniteSet(T) /\ x \notin T /\ S = T \cup {x}
      BY <1>1, <3>1
    <3>6. Sum(T \cup {x}) = Sum(T) + x.amount
      <4> HIDE DEF T
      <4>1. T \subseteq R /\ x \in R
        BY <3>1 DEF T
      <4>2. QED
        BY <1>2, <3>5, <4>1, SumAdds
    <3>7. QED
      BY <3>3, <3>4, <3>5, <3>6
  <2>2. \A S \in SUBSET R : Cardinality(S) <= n + 1 /\ Ordered(S) /\ Chained(S) => BalanceOf(S) = Sum(S)
    BY <1>3, <2>1
  <2>3. QED
    BY <2>2
<1>6. \A n \in Nat : n \in N
  <2> HIDE DEF N
  <2>1. N \in SUBSET Nat
    BY DEF N
  <2>2. QED
    BY <1>4, <1>5, <2>1, Numbers
<1>7. QED
  BY <1>1, <1>6

-----------------------------------------------------------------------------
(* The rows of a header are one transfer                                   *)

\* Requests consist of transfers.
LEMMA AskedIsTransfer == Asked \subseteq Transfer
<1> SUFFICES ASSUME NEW req \in Request, NEW i \in 1..Len(req) PROVE req[i] \in Transfer
  BY DEF Asked
<1>1. req \in Seq(Transfer)
  BY RequestAssumption
<1>2. QED
  BY <1>1

RowsOf(K) == {r \in ledger : r.key \in K}
PostedOf(K) == {tr \in Posted : tr.key \in K}

\* The two rows of a header, and the one transfer they record.
LEMMA OneTransfer ==
  ASSUME BankInv, NEW k \in headers
  PROVE  \E d, c \in ledger :
           /\ d.key = k /\ Legs(d, c)
           /\ RowsOf({k}) = {d, c}
           /\ PostedOf({k}) = {Recorded(d, c)}
<1>1. PICK d, c \in ledger : d.key = k /\ Legs(d, c) /\ \A r \in ledger : r.key = k => r \in {d, c}
  BY DEF BankInv, IInv, DoubleEntry
<1>2. RowsOf({k}) = {d, c}
  BY <1>1 DEF RowsOf, Legs
<1>3. d.amount \in Int /\ c.amount \in Int
  BY DEF BankInv, IInv, TypeOK, Row
<1>4. Recorded(d, c) \in PostedOf({k})
  <2>1. Recorded(d, c) \in Asked
    BY <1>1 DEF BankInv, AskedInv
  <2>2. /\ Recorded(d, c).key = d.key /\ Recorded(d, c).sender = d.wallet
        /\ Recorded(d, c).receiver = c.wallet /\ Recorded(d, c).amount = c.amount
    BY DEF Recorded
  <2>3. QED
    BY <1>1, <2>1, <2>2 DEF Posted, PostedOf
<1>5. ASSUME NEW tr \in PostedOf({k}) PROVE tr = Recorded(d, c)
  <2>1. tr \in Transfer /\ tr.key = k
    BY AskedIsTransfer DEF PostedOf, Posted
  <2>2. PICK e, f \in ledger :
          /\ e.key = tr.key /\ Legs(e, f)
          /\ e.wallet = tr.sender /\ f.wallet = tr.receiver /\ f.amount = tr.amount
    BY DEF PostedOf, Posted
  <2>3. e \in {d, c} /\ f \in {d, c}
    BY <1>1, <2>1, <2>2 DEF Legs
  <2>4. e = d /\ f = c
    BY <1>1, <1>3, <2>2, <2>3 DEF Legs
  <2>5. QED
    BY <2>1, <2>2, <2>4, <1>1 DEF Recorded, Transfer
<1>6. PostedOf({k}) = {Recorded(d, c)}
  BY <1>4, <1>5
<1>7. QED
  BY <1>1, <1>2, <1>6

\* A transfer more in a journal counts for its two wallets.
LEMMA BalanceAdds ==
  ASSUME NEW J, IsFiniteSet(J), J \subseteq Transfer, NEW tr \in Transfer, tr \notin J,
         NEW w \in Wallet
  PROVE  /\ B!Balance(J, w) \in Int
         /\ B!Balance(J \cup {tr}, w) = B!Balance(J, w)
              + (IF tr.receiver = w THEN tr.amount ELSE 0) - (IF tr.sender = w THEN tr.amount ELSE 0)
<1> DEFINE In(S) == {x \in S : x.receiver = w}
           Out(S) == {x \in S : x.sender = w}
<1>1. \A S : B!Balance(S, w) = Sum(In(S)) - Sum(Out(S))
  BY DEF B!Balance, Sum, B!MapThenSumSet, B!MapThenFoldSet, MapThenSumSet, MapThenFoldSet
<1>2. \A x \in J : x.amount \in Int
  BY DEF Transfer
<1>3. IsFiniteSet(In(J)) /\ IsFiniteSet(Out(J))
  BY FS_Subset
<1>4. tr.amount \in Int /\ tr \notin In(J) /\ tr \notin Out(J)
  BY DEF Transfer
<1>5. /\ In(J \cup {tr}) = IF tr.receiver = w THEN In(J) \cup {tr} ELSE In(J)
      /\ Out(J \cup {tr}) = IF tr.sender = w THEN Out(J) \cup {tr} ELSE Out(J)
  OBVIOUS
<1>6. /\ Sum(In(J)) \in Int /\ Sum(In(J) \cup {tr}) = Sum(In(J)) + tr.amount
      /\ Sum(Out(J)) \in Int /\ Sum(Out(J) \cup {tr}) = Sum(Out(J)) + tr.amount
  BY <1>2, <1>3, <1>4, SumAdds
<1> HIDE DEF In, Out
<1>7. Sum(In(J \cup {tr})) = Sum(In(J)) + (IF tr.receiver = w THEN tr.amount ELSE 0)
  BY <1>4, <1>5, <1>6
<1>8. Sum(Out(J \cup {tr})) = Sum(Out(J)) + (IF tr.sender = w THEN tr.amount ELSE 0)
  BY <1>4, <1>5, <1>6
<1>9. QED
  BY <1>1, <1>4, <1>6, <1>7, <1>8

\* A row more in a table counts for its own wallet.
LEMMA RowAdds ==
  ASSUME NEW R, IsFiniteSet(R), R \subseteq Row, NEW x \in Row, x \notin R, NEW w \in Wallet
  PROVE  /\ Sum(Of(R, w)) \in Int
         /\ Sum(Of(R \cup {x}, w)) = Sum(Of(R, w)) + (IF x.wallet = w THEN x.amount ELSE 0)
<1>1. /\ IsFiniteSet(Of(R, w)) /\ \A r \in Of(R, w) : r.amount \in Int
      /\ x.amount \in Int /\ x \notin Of(R, w)
  BY FS_Subset DEF Of, Row
<1>2. Sum(Of(R, w)) \in Int /\ Sum(Of(R, w) \cup {x}) = Sum(Of(R, w)) + x.amount
  BY <1>1, SumAdds
<1>3. Of(R \cup {x}, w) = IF x.wallet = w THEN Of(R, w) \cup {x} ELSE Of(R, w)
  BY DEF Of
<1>4. QED
  BY <1>1, <1>2, <1>3

\* Wallet by wallet, rows and transfers add up to the same.
LEMMA RowsAreTransfers ==
  ASSUME BankInv, NEW w \in Wallet
  PROVE  Sum(Of(ledger, w)) = B!Balance(Posted, w)
<1> DEFINE A == {K \in SUBSET headers :
                   /\ IsFiniteSet(PostedOf(K))
                   /\ Sum(Of(RowsOf(K), w)) = B!Balance(PostedOf(K), w)}
<1>1. ledger \subseteq Row /\ IsFiniteSet(ledger) /\ IsFiniteSet(headers) /\ Posted \subseteq Transfer
  BY AskedIsTransfer DEF BankInv, IInv, TypeOK, FiniteInv, Posted
<1>2. {} \in A
  <2>1. RowsOf({}) = {} /\ PostedOf({}) = {} /\ Of({}, w) = {}
    BY DEF RowsOf, PostedOf, Of
  <2>2. IsFiniteSet({}) /\ Sum({}) \in Int
    <3>1. IsFiniteSet({})
      BY FS_EmptySet
    <3>2. Sum({}) = Total([r \in {} |-> r.amount], {})
      BY <3>1, SumIsTotal
    <3>3. Total([r \in {} |-> r.amount], {}) = 0
      BY <3>1, TotalAdds
    <3>4. QED
      BY <3>1, <3>2, <3>3
  <2>3. B!Balance({}, w) = Sum({}) - Sum({})
    <3>1. {x \in {} : x.receiver = w} = {} /\ {x \in {} : x.sender = w} = {}
      OBVIOUS
    <3>2. B!Balance({}, w) = Sum({x \in {} : x.receiver = w}) - Sum({x \in {} : x.sender = w})
      BY DEF B!Balance, Sum, B!MapThenSumSet, B!MapThenFoldSet, MapThenSumSet, MapThenFoldSet
    <3>3. QED
      BY <3>1, <3>2
  <2>4. Sum({}) = 0
    <3>1. Sum({}) = Total([r \in {} |-> r.amount], {})
      BY <2>2, SumIsTotal
    <3>2. QED
      BY <2>2, <3>1, TotalAdds
  <2>5. QED
    BY <2>1, <2>2, <2>3, <2>4
<1>3. ASSUME NEW K \in A, NEW k \in headers \ K PROVE K \cup {k} \in A
  <2>1. PICK d, c \in ledger :
          /\ d.key = k /\ Legs(d, c)
          /\ RowsOf({k}) = {d, c}
          /\ PostedOf({k}) = {Recorded(d, c)}
    BY OneTransfer
  <2> DEFINE R == RowsOf(K)
             J == PostedOf(K)
             tr == Recorded(d, c)
  <2>2. /\ RowsOf(K \cup {k}) = (R \cup {d}) \cup {c}
        /\ PostedOf(K \cup {k}) = J \cup {tr}
    BY <2>1 DEF RowsOf, PostedOf
  <2>3. /\ R \subseteq Row /\ IsFiniteSet(R) /\ IsFiniteSet(R \cup {d}) /\ R \cup {d} \subseteq Row
        /\ d \in Row /\ c \in Row
        /\ d \notin R /\ c \notin R \cup {d}
    <3>1. IsFiniteSet(R) /\ R \subseteq Row
      BY <1>1, FS_Subset DEF RowsOf
    <3>2. IsFiniteSet(R \cup {d})
      BY <3>1, FS_AddElement
    <3>3. d \notin R /\ c \notin R /\ c # d
      BY <2>1 DEF RowsOf, Legs
    <3>4. QED
      BY <1>1, <3>1, <3>2, <3>3
  <2>4. /\ J \subseteq Transfer /\ tr \in Transfer /\ tr \notin J
        /\ tr.sender = d.wallet /\ tr.receiver = c.wallet
        /\ tr.amount = c.amount /\ d.amount = -tr.amount /\ tr.amount \in Int
    <3>1. tr \in Posted /\ tr.key = k
      BY <2>1 DEF PostedOf
    <3>2. d.amount \in Int /\ c.amount \in Int
      BY <2>3 DEF Row
    <3>3. QED
      BY <1>1, <2>1, <3>1, <3>2 DEF PostedOf, Recorded, Legs
  <2>5. /\ IsFiniteSet(J) /\ IsFiniteSet(J \cup {tr})
        /\ Sum(Of(R, w)) = B!Balance(J, w)
    BY FS_AddElement
  <2> HIDE DEF R, J, tr, A
  <2>6. /\ Sum(Of(R, w)) \in Int
        /\ Sum(Of(R \cup {d}, w)) = Sum(Of(R, w)) + (IF d.wallet = w THEN d.amount ELSE 0)
    BY <2>3, RowAdds
  <2>7. Sum(Of((R \cup {d}) \cup {c}, w))
          = Sum(Of(R \cup {d}, w)) + (IF c.wallet = w THEN c.amount ELSE 0)
    BY <2>3, RowAdds
  <2>8. B!Balance(J \cup {tr}, w) = B!Balance(J, w)
          + (IF tr.receiver = w THEN tr.amount ELSE 0) - (IF tr.sender = w THEN tr.amount ELSE 0)
    BY <2>4, <2>5, BalanceAdds
  <2>9. Sum(Of(RowsOf(K \cup {k}), w)) = B!Balance(PostedOf(K \cup {k}), w)
    <3>1. Sum(Of((R \cup {d}) \cup {c}, w)) = B!Balance(J \cup {tr}, w)
      BY <2>4, <2>5, <2>6, <2>7, <2>8
    <3>2. QED
      BY <2>2, <3>1 DEF R, J, tr
  <2>10. K \cup {k} \in SUBSET headers
    BY DEF A
  <2>11. QED
    BY <2>2, <2>5, <2>9, <2>10 DEF A
<1> HIDE DEF A
<1>4. headers \in A
  <2>1. A \in SUBSET SUBSET headers
    BY DEF A
  <2>2. QED
    BY <1>1, <1>2, <1>3, <2>1, Sets
<1>5. RowsOf(headers) = ledger /\ PostedOf(headers) = Posted
  <2>1. \A r \in ledger : r.key \in headers
    BY DEF BankInv, IInv, DoubleEntry
  <2>2. QED
    BY <2>1 DEF RowsOf, PostedOf, Posted, Legs
<1>6. QED
  BY <1>4, <1>5 DEF A

-----------------------------------------------------------------------------
(* The invariant                                                           *)

\* What a step of t does to the tables and to its own rows.
Keeps == UNCHANGED <<ledger, headers>>

\* A step ends the transaction, leaves its rows alone, or is one of the three that write.
LEMMA ActShape ==
  ASSUME TypeOK, NEW t \in Txn, Act(t)
  PROVE  \/ Keeps /\ rows'[t] = {} /\ keys'[t] = {} /\ todo'[t] = <<>>
         \/ Keeps /\ rows'[t] = rows[t] /\ keys'[t] = keys[t] /\ todo'[t] = todo[t]
         \/ Keeps /\ rows'[t] = rows[t] /\ keys'[t] = keys[t] /\ todo'[t] \in Request
         \/ Keeps /\ rows'[t] = rows[t] /\ keys'[t] = keys[t] \cup {Current(t).key} /\ todo'[t] = todo[t]
         \/ CreateDebitEntry(t)
         \/ CreateCreditEntry(t)
         \/ Commit(t)
<1>1. ASSUME Rollback(t)
      PROVE  Keeps /\ rows'[t] = {} /\ keys'[t] = {} /\ todo'[t] = <<>>
  BY <1>1 DEF Rollback, End, Keeps, TypeOK
<1>2. RejectAmount(t) \/ InsufficientFunds(t) \/ UniqueViolation(t) \/ Fail(t) => Rollback(t)
  BY EndingSteps
<1>3. ASSUME LockFirst(t) \/ LockSecond(t) \/ ReadSenderBalance(t) \/ ReadReceiverBalance(t)
      PROVE  Keeps /\ rows'[t] = rows[t] /\ keys'[t] = keys[t] /\ todo'[t] = todo[t]
  BY <1>3 DEF LockFirst, LockSecond, ReadSenderBalance, ReadReceiverBalance, Keeps
<1>4. ASSUME Begin(t)
      PROVE  Keeps /\ rows'[t] = rows[t] /\ keys'[t] = keys[t] /\ todo'[t] \in Request
  BY <1>4 DEF Begin, Keeps, TypeOK
<1>5. ASSUME CreateTransactionHeader(t)
      PROVE  /\ Keeps /\ rows'[t] = rows[t] /\ keys'[t] = keys[t] \cup {Current(t).key}
             /\ todo'[t] = todo[t]
  BY <1>5 DEF CreateTransactionHeader, Keeps, TypeOK
<1>6. QED
  BY <1>1, <1>2, <1>3, <1>4, <1>5 DEF Act, Step

\* The row that a debit writes.
LEMMA DebitShape ==
  ASSUME TypeOK, NEW t \in Txn, CreateDebitEntry(t)
  PROVE  \E x : /\ x.wallet = Current(t).sender
                /\ x.amount = -Current(t).amount
                /\ x.key = Current(t).key
                /\ rows'[t] = rows[t] \cup {x}
                /\ Keeps /\ keys'[t] = keys[t] /\ todo'[t] = todo[t] /\ pc[t] = "debit"
<1> DEFINE x == [wallet |-> Current(t).sender, amount |-> -Current(t).amount,
                 balance_after |-> seen[t].sender - Current(t).amount,
                 key |-> Current(t).key, created_at |-> CreatedAt(t)]
<1>1. rows'[t] = rows[t] \cup {x}
  BY DEF CreateDebitEntry, Insert, TypeOK
<1>2. x.wallet = Current(t).sender /\ x.amount = -Current(t).amount /\ x.key = Current(t).key
  OBVIOUS
<1>3. Keeps /\ keys'[t] = keys[t] /\ todo'[t] = todo[t] /\ pc[t] = "debit"
  BY DEF CreateDebitEntry, Keeps
<1> HIDE DEF x
<1>4. QED
  BY <1>1, <1>2, <1>3

\* The row that a credit writes; the transfer in hand is done with it.
LEMMA CreditShape ==
  ASSUME TypeOK, NEW t \in Txn, CreateCreditEntry(t)
  PROVE  \E x : /\ x.wallet = Current(t).receiver
                /\ x.amount = Current(t).amount
                /\ x.key = Current(t).key
                /\ rows'[t] = rows[t] \cup {x}
                /\ Keeps /\ keys'[t] = keys[t] /\ todo'[t] = Tail(todo[t]) /\ pc[t] = "credit"
<1> DEFINE x == [wallet |-> Current(t).receiver, amount |-> Current(t).amount,
                 balance_after |-> seen[t].receiver + Current(t).amount,
                 key |-> Current(t).key, created_at |-> CreatedAt(t)]
<1>1. rows'[t] = rows[t] \cup {x}
  BY DEF CreateCreditEntry, Insert, TypeOK
<1>2. x.wallet = Current(t).receiver /\ x.amount = Current(t).amount /\ x.key = Current(t).key
  OBVIOUS
<1>3. Keeps /\ keys'[t] = keys[t] /\ todo'[t] = Tail(todo[t]) /\ pc[t] = "credit"
  BY DEF CreateCreditEntry, Keeps, TypeOK
<1> HIDE DEF x
<1>4. QED
  BY <1>1, <1>2, <1>3

\* A commit adds what the transaction wrote, and leaves it nothing.
LEMMA CommitShape ==
  ASSUME TypeOK, NEW t \in Txn, Commit(t)
  PROVE  /\ ledger' = ledger \cup rows[t] /\ headers' = headers \cup keys[t]
         /\ rows'[t] = {} /\ keys'[t] = {} /\ todo'[t] = <<>>
  BY DEF Commit, End, TypeOK

\* Tables stay finite.
LEMMA FiniteStep ==
  ASSUME BankInv, NEW t \in Txn, Act(t)
  PROVE  FiniteInv'
<1>1. /\ TypeOK /\ IsFiniteSet(ledger) /\ IsFiniteSet(headers)
      /\ \A u \in Txn : IsFiniteSet(rows[u]) /\ IsFiniteSet(keys[u])
  BY DEF BankInv, IInv, FiniteInv
<1>2. /\ IsFiniteSet({})
      /\ \A x : IsFiniteSet(rows[t] \cup {x}) /\ IsFiniteSet(keys[t] \cup {x})
      /\ IsFiniteSet(ledger \cup rows[t]) /\ IsFiniteSet(headers \cup keys[t])
  BY <1>1, FS_EmptySet, FS_AddElement, FS_Union
<1>3. /\ IsFiniteSet(ledger') /\ IsFiniteSet(headers')
      /\ IsFiniteSet(rows'[t]) /\ IsFiniteSet(keys'[t])
  <2>1. CASE Keeps /\ rows'[t] \in {{}, rows[t]} /\ keys'[t] \in {{}, keys[t], keys[t] \cup {Current(t).key}}
    BY <1>1, <1>2, <2>1 DEF Keeps
  <2>2. CASE CreateDebitEntry(t) \/ CreateCreditEntry(t)
    <3>1. Keeps /\ keys'[t] = keys[t] /\ \E x : rows'[t] = rows[t] \cup {x}
      BY <1>1, <2>2, DebitShape, CreditShape
    <3>2. QED
      BY <1>1, <1>2, <3>1 DEF Keeps
  <2>3. CASE Commit(t)
    BY <1>1, <1>2, <2>3, CommitShape
  <2>4. QED
    BY <1>1, <2>1, <2>2, <2>3, ActShape
<1>4. ASSUME NEW u \in Txn PROVE IsFiniteSet(rows'[u]) /\ IsFiniteSet(keys'[u])
  <2>1. CASE u = t
    BY <1>3, <2>1
  <2>2. CASE u # t
    <3>1. rows'[u] = rows[u] /\ keys'[u] = keys[u]
      BY <1>1, <2>2, Frame
    <3>2. QED
      BY <1>1, <3>1
  <2>3. QED
    BY <2>1, <2>2
<1>5. QED
  BY <1>3, <1>4 DEF FiniteInv

\* What is recorded has been asked for, in a set of rows.
AllAsked(R) == \A d, c \in R : Legs(d, c) => Recorded(d, c) \in Asked

\* What a request consists of is asked for.
LEMMA RequestsAsked ==
  ASSUME NEW req \in Request, NEW i \in 1..Len(req)
  PROVE  req[i] \in Asked
  BY DEF Asked

\* A debit completes no transfer.
LEMMA DebitAsked ==
  ASSUME BankInv, NEW t \in Txn, CreateDebitEntry(t)
  PROVE  AllAsked(rows'[t])
<1>1. TypeOK /\ KeyInv(t) /\ AllAsked(rows[t])
  BY DEF BankInv, IInv, TxnInv, AskedInv, AllAsked
<1>2. PICK x : x.key = Current(t).key /\ rows'[t] = rows[t] \cup {x} /\ pc[t] = "debit"
  BY <1>1, DebitShape
<1>3. \A r \in rows[t] : r.key # x.key
  BY <1>1, <1>2 DEF KeyInv
<1>4. ASSUME NEW d \in rows'[t], NEW c \in rows'[t], Legs(d, c) PROVE d \in rows[t] /\ c \in rows[t]
  <2>1. d.key = c.key /\ d # c
    BY <1>4 DEF Legs
  <2>2. QED
    BY <1>2, <1>3, <2>1
<1>5. QED
  BY <1>1, <1>4 DEF AllAsked

\* A credit completes the transfer in hand, which was asked for.
LEMMA CreditAsked ==
  ASSUME BankInv, NEW t \in Txn, CreateCreditEntry(t)
  PROVE  AllAsked(rows'[t]) /\ \A i \in 1..Len(todo'[t]) : todo'[t][i] \in Asked
<1>1. /\ TypeOK /\ KeyInv(t) /\ ControlInv(t) /\ AllAsked(rows[t])
      /\ \A i \in 1..Len(todo[t]) : todo[t][i] \in Asked
  BY DEF BankInv, IInv, TxnInv, AskedInv, AllAsked
<1> DEFINE tr == Current(t)
<1>2. PICK x : /\ x.wallet = tr.receiver /\ x.amount = tr.amount /\ x.key = tr.key
               /\ rows'[t] = rows[t] \cup {x} /\ todo'[t] = Tail(todo[t]) /\ pc[t] = "credit"
  BY <1>1, CreditShape
<1>3. todo[t] \in Seq(Transfer) /\ todo[t] # <<>> /\ tr \in Transfer /\ tr.amount > 0
  BY <1>1, <1>2, CurrentIsTransfer DEF BankInv, ControlInv, Posting, Holding
<1>4. tr \in Asked
  <2>1. tr = todo[t][1] /\ 1 \in 1..Len(todo[t])
    BY <1>3 DEF Current
  <2>2. QED
    BY <1>1, <2>1
<1>5. \A i \in 1..Len(todo'[t]) : todo'[t][i] \in Asked
  <2>1. \A i \in 1..Len(Tail(todo[t])) : Tail(todo[t])[i] = todo[t][i + 1] /\ i + 1 \in 1..Len(todo[t])
    BY <1>3
  <2>2. QED
    BY <1>1, <1>2, <2>1
<1>6. PICK e \in rows[t] : /\ e.key = tr.key /\ e.wallet = tr.sender /\ e.amount = -tr.amount
                           /\ \A r \in rows[t] : r.key = e.key => r = e
  BY <1>1, <1>2 DEF KeyInv
<1>7. ASSUME NEW d \in rows'[t], NEW c \in rows'[t], Legs(d, c)
      PROVE  Recorded(d, c) \in Asked
  <2>1. CASE d \in rows[t] /\ c \in rows[t]
    BY <1>1, <1>7, <2>1 DEF AllAsked
  <2>2. CASE d = x
    <3>1. x.amount < 0
      BY <1>7, <2>2 DEF Legs
    <3>2. tr.amount \in Int
      BY <1>3 DEF Transfer
    <3>3. QED
      BY <1>2, <1>3, <3>1, <3>2
  <2>3. CASE d \in rows[t] /\ c = x
    <3>1. d = e
      BY <1>2, <1>6, <1>7, <2>3 DEF Legs
    <3>2. Recorded(d, c) = tr
      BY <1>2, <1>3, <1>6, <2>3, <3>1 DEF Recorded, Transfer
    <3>3. QED
      BY <1>4, <3>2
  <2>4. QED
    BY <1>2, <2>1, <2>2, <2>3
<1>8. QED
  BY <1>5, <1>7 DEF AllAsked

\* A commit pairs no row of one transaction with a row of another.
LEMMA CommitAsked ==
  ASSUME BankInv, NEW t \in Txn, Commit(t)
  PROVE  AllAsked(ledger')
<1>1. TypeOK /\ KeyInv(t) /\ DoubleEntry /\ AllAsked(ledger) /\ AllAsked(rows[t])
  BY DEF BankInv, IInv, TxnInv, AskedInv, AllAsked
<1>2. ledger' = ledger \cup rows[t]
  BY <1>1, CommitShape
<1>3. \A r \in ledger, q \in rows[t] : r.key # q.key
  BY <1>1 DEF KeyInv, DoubleEntry
<1>4. QED
  BY <1>1, <1>2, <1>3 DEF AllAsked, Legs

\* Nothing is posted that nobody has asked for.
LEMMA AskedStep ==
  ASSUME BankInv, NEW t \in Txn, Act(t)
  PROVE  AskedInv'
<1>1. /\ TypeOK /\ AllAsked(ledger)
      /\ \A u \in Txn : AllAsked(rows[u]) /\ \A i \in 1..Len(todo[u]) : todo[u][i] \in Asked
  BY DEF BankInv, IInv, AskedInv, AllAsked
<1>2. AllAsked({}) /\ \A i \in 1..Len(<<>>) : <<>>[i] \in Asked
  BY DEF AllAsked
<1>3. /\ AllAsked(ledger') /\ AllAsked(rows'[t])
      /\ \A i \in 1..Len(todo'[t]) : todo'[t][i] \in Asked
  <2>1. CASE Keeps /\ rows'[t] = {} /\ todo'[t] = <<>>
    BY <1>1, <1>2, <2>1 DEF Keeps
  <2>2. CASE Keeps /\ rows'[t] = rows[t] /\ todo'[t] = todo[t]
    BY <1>1, <2>2 DEF Keeps
  <2>3. CASE Keeps /\ rows'[t] = rows[t] /\ todo'[t] \in Request
    BY <1>1, <2>3, RequestsAsked DEF Keeps
  <2>4. CASE CreateDebitEntry(t)
    <3>1. Keeps /\ todo'[t] = todo[t]
      BY <1>1, <2>4, DebitShape
    <3>2. QED
      BY <1>1, <2>4, <3>1, DebitAsked DEF Keeps
  <2>5. CASE CreateCreditEntry(t)
    <3>1. Keeps
      BY <1>1, <2>5, CreditShape
    <3>2. QED
      BY <1>1, <2>5, <3>1, CreditAsked DEF Keeps
  <2>6. CASE Commit(t)
    <3>1. rows'[t] = {} /\ todo'[t] = <<>>
      BY <1>1, <2>6, CommitShape
    <3>2. QED
      BY <1>2, <2>6, <3>1, CommitAsked
  <2>7. QED
    BY <1>1, <2>1, <2>2, <2>3, <2>4, <2>5, <2>6, ActShape
<1>4. ASSUME NEW u \in Txn
      PROVE  AllAsked(rows'[u]) /\ \A i \in 1..Len(todo'[u]) : todo'[u][i] \in Asked
  <2>1. CASE u = t
    BY <1>3, <2>1
  <2>2. CASE u # t
    <3>1. rows'[u] = rows[u] /\ todo'[u] = todo[u]
      BY <1>1, <2>2, Frame
    <3>2. QED
      BY <1>1, <3>1
  <2>3. QED
    BY <2>1, <2>2
<1>5. Asked' = Asked
  BY DEF Asked
<1>6. QED
  BY <1>3, <1>4, <1>5 DEF AskedInv, AllAsked, Recorded, Legs

\* It holds at the start.
LEMMA BankInit == Init => BankInv
<1> SUFFICES ASSUME Init PROVE BankInv
  OBVIOUS
<1>1. IInv
  BY InitInv
<1>2. AskedInv
  BY DEF Init, AskedInv
<1>3. FiniteInv
  BY FS_EmptySet DEF Init, FiniteInv
<1>4. QED
  BY <1>1, <1>2, <1>3 DEF BankInv

\* Every step, stuttering included, keeps it.
LEMMA BankNext == BankInv /\ [Next]_vars => BankInv'
<1> SUFFICES ASSUME BankInv, [Next]_vars PROVE BankInv'
  OBVIOUS
<1>1. IInv'
  BY NextInv DEF BankInv
<1>2. ASSUME NEW t \in Txn, Act(t) PROVE AskedInv' /\ FiniteInv'
  BY <1>2, AskedStep, FiniteStep
<1>3. ASSUME UNCHANGED vars PROVE AskedInv' /\ FiniteInv'
  BY <1>3 DEF vars, BankInv, AskedInv, FiniteInv, Asked, Recorded, Legs
<1>4. QED
  BY <1>1, <1>2, <1>3 DEF BankInv, Next, Act, Quiet

\* Only transfers that were asked for are posted, and the tables are finite; with
\* IInv, what the sums and the refinement need.
THEOREM BankInvariance == Spec => []BankInv
BY BankInit, BankNext, PTL DEF Spec

-----------------------------------------------------------------------------
(* The balances                                                            *)

\* The snapshot in a wallet's latest row is its balance at the bank.
LEMMA SnapshotIsBalance ==
  ASSUME BankInv, NEW w \in Wallet
  PROVE  BalanceOf(Of(ledger, w)) = B!Balance(Posted, w)
<1>1. GoodHistory(Of(ledger, w)) /\ ledger \subseteq Row /\ IsFiniteSet(ledger)
  BY DEF BankInv, IInv, CommittedInv, TypeOK, FiniteInv
<1>2. Of(ledger, w) \in SUBSET Row /\ IsFiniteSet(Of(ledger, w))
  BY <1>1, FS_Subset DEF Of
<1>3. BalanceOf(Of(ledger, w)) = Sum(Of(ledger, w))
  BY <1>1, <1>2, BalanceIsSum DEF GoodHistory
<1>4. QED
  BY <1>3, RowsAreTransfers

\* Sums of nothing but zeros.
LEMMA ZeroTotal ==
  ASSUME NEW S, IsFiniteSet(S), NEW f, \A x \in S : f[x] = 0
  PROVE  Total(f, S) = 0
<1> DEFINE A == {s \in SUBSET S : Total(f, s) = 0}
<1>1. {} \in A
  BY FS_EmptySet, TotalAdds
<1>2. ASSUME NEW s \in A, NEW x \in S \ s PROVE s \cup {x} \in A
  <2> DEFINE u == s \cup {x}
  <2>1. u \in SUBSET S /\ IsFiniteSet(u) /\ x \in u /\ u \ {x} = s
    BY FS_Subset
  <2> HIDE DEF u
  <2>2. \A y \in u : f[y] = 0 /\ f[y] \in Int
    BY <2>1
  <2>3. Total(f, u) = f[x] + Total(f, u \ {x})
    BY <2>1, <2>2, TotalAdds
  <2>4. f[x] = 0 /\ Total(f, s) = 0
    OBVIOUS
  <2>5. Total(f, u) = 0
    BY <2>1, <2>3, <2>4
  <2>6. QED
    BY <2>1, <2>5 DEF u
<1> HIDE DEF A
<1>3. A \in SUBSET SUBSET S
  BY DEF A
<1>4. S \in A
  BY <1>1, <1>2, <1>3, Sets
<1>5. QED
  BY <1>4 DEF A

\* What moves from one element to another changes no sum.
LEMMA TotalMoves ==
  ASSUME NEW S, IsFiniteSet(S), NEW f, NEW h,
         \A z \in S : f[z] \in Int /\ h[z] \in Int,
         NEW x \in S, NEW y \in S, x # y,
         h[x] + h[y] = f[x] + f[y], \A z \in S \ {x, y} : h[z] = f[z]
  PROVE  Total(h, S) = Total(f, S)
<1> DEFINE T == S \ {x}
           U == T \ {y}
<1>1. IsFiniteSet(T) /\ IsFiniteSet(U) /\ y \in T
  BY FS_Subset
<1>2. \A z \in U : h[z] = f[z] /\ f[z] \in Int
  OBVIOUS
<1>3. \A z \in T : f[z] \in Int /\ h[z] \in Int
  OBVIOUS
<1>4. Total(f, S) = f[x] + Total(f, T) /\ Total(h, S) = h[x] + Total(h, T)
  BY TotalAdds
<1> HIDE DEF T
<1>5. Total(f, T) = f[y] + Total(f, U) /\ Total(h, T) = h[y] + Total(h, U)
  BY <1>1, <1>3, TotalAdds
<1> HIDE DEF U
<1>6. Total(h, U) = Total(f, U) /\ Total(f, U) \in Int
  BY <1>1, <1>2, TotalAdds, TotalsAgree
<1>7. /\ f[x] \in Int /\ f[y] \in Int /\ h[x] \in Int /\ h[y] \in Int
      /\ h[x] + h[y] = f[x] + f[y]
  OBVIOUS
<1>8. QED
  BY <1>4, <1>5, <1>6, <1>7

\* The amounts of all rows in a table, wallet by wallet.
PerWallet(R) == [w \in Wallet |-> Sum(Of(R, w))]

\* The debit and the credit of a transfer cancel.
LEMMA LegsCancel ==
  ASSUME NEW R, IsFiniteSet(R), R \subseteq Row, NEW d \in Row, NEW c \in Row, Legs(d, c),
         d \notin R, c \notin R
  PROVE  Total(PerWallet((R \cup {d}) \cup {c}), Wallet) = Total(PerWallet(R), Wallet)
<1> DEFINE f == PerWallet(R)
           h == PerWallet((R \cup {d}) \cup {c})
<1>1. /\ d.wallet \in Wallet /\ c.wallet \in Wallet /\ d.wallet # c.wallet
      /\ c.amount \in Int /\ d.amount = -c.amount
  <2>1. d.amount \in Int /\ c.amount \in Int /\ d.wallet \in Wallet /\ c.wallet \in Wallet
    BY DEF Row
  <2>2. QED
    BY <2>1 DEF Legs
<1>2. IsFiniteSet(R \cup {d}) /\ R \cup {d} \subseteq Row /\ c \notin R \cup {d}
  BY <1>1, FS_AddElement
<1>3. ASSUME NEW w \in Wallet
      PROVE  /\ f[w] \in Int
             /\ h[w] = f[w] + (IF d.wallet = w THEN d.amount ELSE 0)
                            + (IF c.wallet = w THEN c.amount ELSE 0)
  <2>1. /\ Sum(Of(R, w)) \in Int
        /\ Sum(Of(R \cup {d}, w)) = Sum(Of(R, w)) + (IF d.wallet = w THEN d.amount ELSE 0)
    BY RowAdds
  <2>2. Sum(Of((R \cup {d}) \cup {c}, w))
          = Sum(Of(R \cup {d}, w)) + (IF c.wallet = w THEN c.amount ELSE 0)
    BY <1>2, RowAdds
  <2>3. f[w] = Sum(Of(R, w)) /\ h[w] = Sum(Of((R \cup {d}) \cup {c}, w))
    BY DEF PerWallet
  <2>4. QED
    BY <2>1, <2>2, <2>3
<1> HIDE DEF f, h
<1> DEFINE x == d.wallet
           y == c.wallet
<1>4. /\ x \in Wallet /\ y \in Wallet /\ x # y
      /\ \A w \in Wallet : f[w] \in Int /\ h[w] \in Int
      /\ h[x] + h[y] = f[x] + f[y]
      /\ \A w \in Wallet \ {x, y} : h[w] = f[w]
  BY <1>1, <1>3
<1> HIDE DEF x, y
<1>5. Total(h, Wallet) = Total(f, Wallet)
  BY <1>4, TotalMoves, FinitelyManyWallets
<1>6. QED
  BY <1>5 DEF f, h

\* The rows of all wallets add up to zero.
LEMMA LedgerSumsToZero ==
  ASSUME BankInv
  PROVE  Total(PerWallet(ledger), Wallet) = 0
<1> DEFINE A == {K \in SUBSET headers : Total(PerWallet(RowsOf(K)), Wallet) = 0}
<1>1. ledger \subseteq Row /\ IsFiniteSet(ledger) /\ IsFiniteSet(headers)
  BY DEF BankInv, IInv, TypeOK, FiniteInv
<1>2. {} \in A
  <2>1. Sum({}) = 0
    <3>1. IsFiniteSet({})
      BY FS_EmptySet
    <3>2. Sum({}) = Total([r \in {} |-> r.amount], {})
      BY <3>1, SumIsTotal
    <3>3. QED
      BY <3>1, <3>2, TotalAdds
  <2>2. \A w \in Wallet : PerWallet(RowsOf({}))[w] = 0
    <3>1. \A w \in Wallet : Of(RowsOf({}), w) = {}
      BY DEF Of, RowsOf
    <3>2. QED
      BY <2>1, <3>1 DEF PerWallet
  <2>3. Total(PerWallet(RowsOf({})), Wallet) = 0
    BY <2>2, ZeroTotal, FinitelyManyWallets
  <2>4. QED
    BY <2>3
<1>3. ASSUME NEW K \in A, NEW k \in headers \ K PROVE K \cup {k} \in A
  <2>1. PICK d, c \in ledger : d.key = k /\ Legs(d, c) /\ RowsOf({k}) = {d, c}
    BY OneTransfer
  <2> DEFINE R == RowsOf(K)
  <2>2. RowsOf(K \cup {k}) = (R \cup {d}) \cup {c}
    BY <2>1 DEF RowsOf
  <2>3. IsFiniteSet(R) /\ R \subseteq Row /\ d \in Row /\ c \in Row
    BY <1>1, FS_Subset DEF RowsOf
  <2>4. d \notin R /\ c \notin R
    BY <2>1 DEF RowsOf, Legs
  <2> HIDE DEF R
  <2>5. Total(PerWallet((R \cup {d}) \cup {c}), Wallet) = Total(PerWallet(R), Wallet)
    BY <2>1, <2>3, <2>4, LegsCancel
  <2>6. Total(PerWallet(RowsOf(K \cup {k})), Wallet) = 0
    BY <2>2, <2>5 DEF R
  <2>7. QED
    BY <2>6
<1> HIDE DEF A
<1>4. headers \in A
  <2>1. A \in SUBSET SUBSET headers
    BY DEF A
  <2>2. QED
    BY <1>1, <1>2, <1>3, <2>1, Sets
<1>5. RowsOf(headers) = ledger
  BY DEF BankInv, IInv, DoubleEntry, RowsOf
<1>6. QED
  BY <1>4, <1>5 DEF A

\* The balances of all wallets add up to zero.
LEMMA BalancesSumToZero ==
  ASSUME BankInv
  PROVE  MapThenSumSet(LAMBDA w : BalanceOf(Of(ledger, w)), Wallet) = 0
<1> DEFINE f == [w \in Wallet |-> BalanceOf(Of(ledger, w))]
           g == CHOOSE g : g = [s \in SUBSET Wallet |->
                  IF s = {} THEN 0 ELSE BalanceOf(Of(ledger, Any(s))) + g[s \ {Any(s)}]]
<1>1. MapThenSumSet(LAMBDA w : BalanceOf(Of(ledger, w)), Wallet) = g[Wallet]
  BY DEF MapThenSumSet, MapThenFoldSet, Any
<1>2. \A s \in SUBSET Wallet : s # {} => f[Any(s)] = BalanceOf(Of(ledger, Any(s)))
  BY AnyElement
<1>3. \A w \in Wallet : f[w] = PerWallet(ledger)[w]
  BY RowsAreTransfers, SnapshotIsBalance DEF PerWallet
<1> HIDE DEF f
<1>4. PICK h : IsFold(h, f, Wallet)
  BY FoldExists, FinitelyManyWallets
<1>5. h = [s \in SUBSET Wallet |->
             IF s = {} THEN 0 ELSE BalanceOf(Of(ledger, Any(s))) + h[s \ {Any(s)}]]
  BY <1>2, <1>4 DEF IsFold
<1>6. g = [s \in SUBSET Wallet |->
             IF s = {} THEN 0 ELSE BalanceOf(Of(ledger, Any(s))) + g[s \ {Any(s)}]]
  BY <1>5
<1> HIDE DEF g
<1>7. IsFold(g, f, Wallet)
  BY <1>2, <1>6 DEF IsFold
<1>8. g[Wallet] = Total(f, Wallet)
  BY <1>7, TotalIsFold, FinitelyManyWallets
<1>9. Total(f, Wallet) = Total(PerWallet(ledger), Wallet)
  BY <1>3, TotalsAgree, FinitelyManyWallets
<1>10. QED
  BY <1>1, <1>8, <1>9, LedgerSumsToZero

\* The balance that GetWalletBalanceSnapshot returns for a wallet is what the
\* posted transfers add up to, and all balances together are zero: no interleaving,
\* rollback or repeated request makes or loses money.
THEOREM BalancesAreRight == Spec => []BalancesAgree
<1>1. BankInv => BalancesAgree
  BY SnapshotIsBalance, BalancesSumToZero DEF BalancesAgree
<1>2. QED
  BY <1>1, BankInvariance, PTL

-----------------------------------------------------------------------------
(* The refinement                                                          *)

\* What the bank asks of a journal.
Sound ==
  /\ Posted \subseteq Transfer /\ Posted \subseteq Asked
  /\ \A tr \in Posted : tr.amount > 0
  /\ B!KeysUnique(Posted)
  /\ B!Covered(Posted)

\* The posted transfers satisfy it.
LEMMA JournalSound == BankInv => Sound
<1> SUFFICES ASSUME BankInv PROVE Sound
  OBVIOUS
<1>1. Posted \subseteq Asked /\ Posted \subseteq Transfer
  BY AskedIsTransfer DEF Posted
<1>2. \A r \in ledger : r \in Row /\ r.amount \in Int
  BY DEF BankInv, IInv, TypeOK, Row
<1>3. \A tr \in Posted : tr.amount > 0
  BY <1>2 DEF Posted, Legs
<1>4. B!KeysUnique(Posted)
  <2> SUFFICES ASSUME NEW t1 \in Posted, NEW t2 \in Posted, t1.key = t2.key PROVE t1 = t2
    BY DEF B!KeysUnique
  <2>1. t1.key \in headers
    BY DEF Posted, BankInv, IInv, DoubleEntry
  <2>2. PICK d, c \in ledger : PostedOf({t1.key}) = {Recorded(d, c)}
    BY <2>1, OneTransfer
  <2>3. t1 \in PostedOf({t1.key}) /\ t2 \in PostedOf({t1.key})
    BY DEF PostedOf
  <2>4. QED
    BY <2>2, <2>3
<1>5. ASSUME NEW w \in Wallet \ System PROVE B!Balance(Posted, w) >= 0
  <2>1. Of(ledger, w) \in SUBSET Row /\ HasLatest(Of(ledger, w))
    BY <1>2 DEF Of, BankInv, IInv, CommittedInv, GoodHistory
  <2>2. \A r \in Of(ledger, w) : r.balance_after >= 0
    BY DEF Of, BankInv, IInv, CommittedInv, NeverOverdrawn
  <2>3. BalanceOf(Of(ledger, w)) >= 0
    BY <2>1, <2>2, BalanceNonNegative
  <2>4. QED
    BY <2>3, SnapshotIsBalance
<1>6. B!Covered(Posted)
  BY <1>5 DEF B!Covered
<1>7. QED
  BY <1>1, <1>3, <1>4, <1>6 DEF Sound

\* A journal that grows soundly is one batch posted, or nothing.
LEMMA GrowthPosts ==
  ASSUME Posted \subseteq Posted', Sound'
  PROVE  [B!Next]_Posted
<1> DEFINE batch == Posted' \ Posted
<1>1. CASE batch = {}
  BY <1>1
<1>2. CASE batch # {}
  <2>1. Posted \cup batch = Posted' /\ batch \subseteq Posted' /\ batch \cap Posted = {}
    OBVIOUS
  <2>2. Asked' = Asked
    BY DEF Asked
  <2>3. /\ Posted' \subseteq Asked
        /\ \A tr \in Posted' : tr.amount > 0
        /\ B!KeysUnique(Posted')
        /\ B!Covered(Posted')
    <3>1. Posted' \subseteq Asked /\ \A tr \in Posted' : tr.amount > 0
      BY <2>2 DEF Sound
    <3>2. B!KeysUnique(Posted')
      BY DEF Sound, B!KeysUnique
    <3>3. B!Covered(Posted')
      BY DEF Sound, B!Covered, B!Balance, B!MapThenSumSet, B!MapThenFoldSet
    <3>4. QED
      BY <3>1, <3>2, <3>3
  <2> HIDE DEF batch
  <2>4. B!Post(batch)
    BY <1>2, <2>1, <2>3 DEF B!Post
  <2>5. QED
    BY <2>1, <2>3, <2>4 DEF B!Next
<1>3. QED
  BY <1>1, <1>2

\* No step takes back what was posted.
LEMMA PostedGrows ==
  ASSUME BankInv, [Next]_vars
  PROVE  Posted \subseteq Posted'
<1>1. ledger \subseteq ledger'
  <2>1. ASSUME NEW t \in Txn, Act(t) PROVE ledger \subseteq ledger'
    BY <2>1, LedgerGrows DEF Commit
  <2>2. QED
    BY <2>1 DEF Next, Act, Quiet, vars
<1>2. Asked' = Asked
  BY DEF Asked
<1>3. QED
  BY <1>1, <1>2 DEF Posted, Legs

\* Every step of the ledger is one of the bank, or changes nothing it can see.
LEMMA BankStep == BankInv /\ BankInv' /\ [Next]_vars => [B!Next]_Posted
<1>1. BankInv' => Sound'
  BY JournalSound, PTL
<1>2. QED
  BY <1>1, PostedGrows, GrowthPosts

\* Whatever the interleaving, and whichever statements fail, the committed rows are
\* those of a journal to which whole batches of transfers are added, each transfer
\* once, none of them overdrawing a personal wallet.
THEOREM Refinement == Spec => ImplementsBank
<1>1. Init => B!Init
  BY DEF Init, B!Init, Posted
<1>2. QED
  BY <1>1, BankStep, BankInvariance, PTL DEF Spec, ImplementsBank, B!Spec

=============================================================================
