--------------------------- MODULE ReadPathProofs ---------------------------
(***************************************************************************)
(* Proofs about ReadPath, for every table, plan, batch size and number of  *)
(* moves of the other clients: its type invariant, that a scan fetches     *)
(* every stable match once, that totals and pages are right, and that an   *)
(* internal error needs a failed call, a release or a plan that cannot run.*)
(*                                                                         *)
(* First come the lemmas about the operators ReadPath is built from: ranks *)
(* in a finite total order, the order compareRows makes of the rows, what  *)
(* a stable sort, a window and a page of a query return.                   *)
(***************************************************************************)
EXTENDS ReadPath, FiniteSetTheorems, SequenceTheorems, TLAPS

(***************************************************************************)
(* Least elements and ranks.                                               *)
(***************************************************************************)
\* The minimum of a set of numbers is one of them and none is smaller.
LEMMA MinLeast ==
  ASSUME NEW T, T \subseteq Nat, T # {}
  PROVE  Min(T) \in T /\ \A y \in T : Min(T) <= y
<1>1. PICK x \in T : \A y \in T : ~(<<y, x>> \in OpToRel(<, Nat))
  BY NatLessThanWellFounded, WFMin, Zenon
<1>2. \A y \in T : ~(y < x)
  BY <1>1 DEF OpToRel
<1>3. \E z \in T : \A y \in T : z <= y
  BY <1>2
<1>4. QED
  BY <1>3 DEF Min

\* The smaller of two numbers, and the size of a page of at most l out of m.
LEMMA MinOfTwo ==
  ASSUME NEW a \in Int, NEW b \in Int
  PROVE  Min({a, b}) = IF a <= b THEN a ELSE b
<1>1. \E x \in {a, b} : \A y \in {a, b} : x <= y
  OBVIOUS
<1>2. Min({a, b}) \in {a, b} /\ \A y \in {a, b} : Min({a, b}) <= y
  BY <1>1 DEF Min
<1>3. QED
  BY <1>2

LEMMA PageSize ==
  ASSUME NEW l \in Nat, NEW m \in Int
  PROVE  Max({0, Min({l, m})}) = IF m <= 0 THEN 0 ELSE IF l <= m THEN l ELSE m
<1> DEFINE s == Min({l, m})
<1>1. s = IF l <= m THEN l ELSE m
  BY MinOfTwo
<1>2. s \in Int
  BY <1>1
<1> HIDE DEF s
<1>3. \E x \in {0, s} : \A y \in {0, s} : x >= y
  BY <1>2
<1>4. Max({0, s}) \in {0, s} /\ \A y \in {0, s} : Max({0, s}) >= y
  BY <1>3 DEF Max
<1>5. Max({0, s}) = IF s <= 0 THEN 0 ELSE s
  BY <1>2, <1>4
<1>6. QED
  BY <1>1, <1>5 DEF s

\* A relation that orders a set in a line, and an element's place in the line.
Linear(S, R) ==
  /\ \A x \in S : <<x, x>> \notin R
  /\ \A x, y \in S : x # y => <<x, y>> \in R \/ <<y, x>> \in R
  /\ \A x, y, z \in S : <<x, y>> \in R /\ <<y, z>> \in R => <<x, z>> \in R

Below(S, R, x) == {y \in S : <<y, x>> \in R}
Rank(S, R, x) == Cardinality(Below(S, R, x))

\* An element's rank counts those before it, so it is less than their number.
LEMMA RankType ==
  ASSUME NEW S, NEW R, IsFiniteSet(S), Linear(S, R), NEW x \in S
  PROVE  IsFiniteSet(Below(S, R, x)) /\ Rank(S, R, x) \in 0..(Cardinality(S) - 1)
<1>1. Below(S, R, x) \in SUBSET (S \ {x})
  BY DEF Below, Linear
<1>2. IsFiniteSet(S \ {x}) /\ Cardinality(S \ {x}) = Cardinality(S) - 1
  BY FS_RemoveElement
<1>3. IsFiniteSet(Below(S, R, x)) /\ Rank(S, R, x) <= Cardinality(S \ {x})
  BY <1>1, <1>2, FS_Subset DEF Rank
<1>4. Rank(S, R, x) \in Nat /\ Cardinality(S) \in Nat
  BY <1>3, FS_CardinalityType DEF Rank
<1>5. QED
  BY <1>2, <1>3, <1>4

\* What comes before has the smaller rank.
LEMMA RankMonotone ==
  ASSUME NEW S, NEW R, IsFiniteSet(S), Linear(S, R), NEW x \in S, NEW y \in S, <<x, y>> \in R
  PROVE  Rank(S, R, x) < Rank(S, R, y)
<1>1. Below(S, R, x) \in SUBSET Below(S, R, y)
  BY DEF Below, Linear
<1>2. x \in Below(S, R, y) /\ x \notin Below(S, R, x)
  BY DEF Below, Linear
<1>3. /\ IsFiniteSet(Below(S, R, y))
      /\ Rank(S, R, x) \in 0..(Cardinality(S) - 1) /\ Rank(S, R, y) \in 0..(Cardinality(S) - 1)
  BY RankType
<1>4. Rank(S, R, x) <= Rank(S, R, y) /\ Rank(S, R, x) # Rank(S, R, y)
  BY <1>1, <1>2, <1>3, FS_Subset DEF Rank
<1>5. Cardinality(S) \in Nat
  BY FS_CardinalityType
<1>6. QED
  BY <1>3, <1>4, <1>5

LEMMA RankOrder ==
  ASSUME NEW S, NEW R, IsFiniteSet(S), Linear(S, R), NEW x \in S, NEW y \in S
  PROVE  /\ <<x, y>> \in R <=> Rank(S, R, x) < Rank(S, R, y)
         /\ Rank(S, R, x) = Rank(S, R, y) => x = y
<1>1. Rank(S, R, x) \in Int /\ Rank(S, R, y) \in Int
  BY RankType
<1>2. <<x, y>> \in R => Rank(S, R, x) < Rank(S, R, y)
  BY RankMonotone
<1>3. <<y, x>> \in R => Rank(S, R, y) < Rank(S, R, x)
  BY RankMonotone
<1>4. x # y => <<x, y>> \in R \/ <<y, x>> \in R
  BY DEF Linear
<1>5. QED
  BY <1>1, <1>2, <1>3, <1>4

\* Every place in the line is taken.
LEMMA RankOnto ==
  ASSUME NEW S, NEW R, IsFiniteSet(S), Linear(S, R), NEW n \in 0..(Cardinality(S) - 1)
  PROVE  \E x \in S : Rank(S, R, x) = n
<1> SUFFICES ASSUME \A x \in S : Rank(S, R, x) # n PROVE FALSE
  OBVIOUS
<1> DEFINE c == Cardinality(S)
           T == (0..(c - 1)) \ {n}
           f == [x \in S |-> Rank(S, R, x)]
<1>1. c \in Nat
  BY FS_CardinalityType
<1>2. IsFiniteSet(T) /\ Cardinality(T) < c
  <2>1. IsFiniteSet(0..(c - 1)) /\ Cardinality(0..(c - 1)) = c
    BY <1>1, FS_Interval
  <2>2. n \in 0..(c - 1)
    OBVIOUS
  <2> HIDE DEF c
  <2>3. IsFiniteSet(T) /\ Cardinality(T) = c - 1
    BY <2>1, <2>2, FS_RemoveElement
  <2>4. QED
    BY <1>1, <2>3
<1>3. f \in [S -> T]
  BY RankType
<1>4. \A x, y \in S : f[x] = f[y] => x = y
  BY RankOrder
<1> HIDE DEF T, f
<1>5. \E x, y \in S : x # y /\ f[x] = f[y]
  BY <1>2, <1>3, FS_PigeonHole
<1>6. QED
  BY <1>4, <1>5

\* So many elements have a rank less than n as there are numbers less than n,
\* as far as the elements go.
LEMMA LowestCount ==
  ASSUME NEW S, NEW R, IsFiniteSet(S), Linear(S, R), NEW n \in Nat
  PROVE  Cardinality({x \in S : Rank(S, R, x) < n}) = IF n <= Cardinality(S) THEN n ELSE Cardinality(S)
<1> DEFINE c == Cardinality(S)
           m == IF n <= c THEN n ELSE c
           L == {x \in S : Rank(S, R, x) < n}
           f == [x \in L |-> Rank(S, R, x)]
<1>1. c \in Nat /\ m \in Nat /\ m <= c /\ m <= n
  BY FS_CardinalityType
<1>2. f \in [L -> 0..(m - 1)]
  BY <1>1, RankType
<1>3. \A x, y \in L : f[x] = f[y] => x = y
  BY RankOrder
<1>4. \A k \in 0..(m - 1) : \E x \in L : f[x] = k
  <2>1. SUFFICES ASSUME NEW k \in 0..(m - 1) PROVE \E x \in L : f[x] = k
    OBVIOUS
  <2>2. k \in 0..(c - 1) /\ k < n
    BY <1>1
  <2>3. PICK x \in S : Rank(S, R, x) = k
    BY <2>2, RankOnto
  <2>4. QED
    BY <2>2, <2>3
<1> HIDE DEF f
<1>5. f \in Bijection(L, 0..(m - 1))
  BY <1>2, <1>3, <1>4 DEF Bijection, Injection, IsInjective, Surjection
<1>6. IsFiniteSet(L)
  BY FS_Subset
<1>7. Cardinality(0..(m - 1)) = Cardinality(L)
  BY <1>5, <1>6, FS_Bijection DEF ExistsBijection
<1>8. Cardinality(L) = m
  <2> HIDE DEF m
  <2>1. Cardinality(0..(m - 1)) = m
    BY <1>1, FS_Interval
  <2>2. QED
    BY <1>7, <2>1
<1>9. QED
  BY <1>8

(***************************************************************************)
(* The order of compareRows.                                               *)
(***************************************************************************)
Clause == [field: SortFields, desc: BOOLEAN]

\* A field's values are compared as the numbers some weight gives them.
LEMMA ScalarWeight ==
  ASSUME NEW f \in SortFields
  PROVE  \E w \in [Values -> Int] : \A x, y \in Values : CompareScalar(f, x, y) = Sign(w[x] - w[y])
<1>1. CASE ComparedByValue(f)
  <2> DEFINE w == [v \in Values |-> v]
  <2>1. w \in [Values -> Int]
    BY ReadAssumption
  <2>2. \A x, y \in Values : CompareScalar(f, x, y) = Sign(w[x] - w[y])
    BY <1>1 DEF CompareScalar
  <2>3. QED
    BY <2>1, <2>2
<1>2. CASE ~ComparedByValue(f)
  <2>1. TextRank \in [Values -> Int]
    BY ReadAssumption
  <2>2. \A x, y \in Values : CompareScalar(f, x, y) = Sign(TextRank[x] - TextRank[y])
    BY <1>2 DEF CompareScalar
  <2>3. QED
    BY <2>1, <2>2
<1>3. QED
  BY <1>1, <1>2

\* One clause orders the rows by a field, with the missing values last.
LEMMA ClauseLaws ==
  ASSUME NEW c \in Clause, NEW a \in Row, NEW b \in Row, NEW d \in Row
  PROVE  /\ CompareClause(c, a, b) \in {-1, 0, 1}
         /\ CompareClause(c, a, a) = 0
         /\ CompareClause(c, a, b) = -CompareClause(c, b, a)
         /\ CompareClause(c, a, b) <= 0 /\ CompareClause(c, b, d) <= 0 =>
              /\ CompareClause(c, a, d) <= 0
              /\ CompareClause(c, a, d) = 0 => CompareClause(c, a, b) = 0 /\ CompareClause(c, b, d) = 0
<1>1. c.field \in SortFields /\ c.desc \in BOOLEAN
  BY DEF Clause
<1>2. PICK w \in [Values -> Int] : \A x, y \in Values : CompareScalar(c.field, x, y) = Sign(w[x] - w[y])
  BY <1>1, ScalarWeight
<1> DEFINE x == a[c.field]
           y == b[c.field]
           z == d[c.field]
           Cmp(u, v) == IF u = Null THEN (IF v = Null THEN 0 ELSE 1)
                        ELSE IF v = Null THEN -1
                        ELSE IF c.desc THEN -Sign(w[u] - w[v]) ELSE Sign(w[u] - w[v])
<1>3. x \in Values \cup {Null} /\ y \in Values \cup {Null} /\ z \in Values \cup {Null}
  BY <1>1 DEF Row
<1>4. /\ CompareClause(c, a, b) = Cmp(x, y) /\ CompareClause(c, b, a) = Cmp(y, x)
      /\ CompareClause(c, a, a) = Cmp(x, x)
      /\ CompareClause(c, b, d) = Cmp(y, z) /\ CompareClause(c, a, d) = Cmp(x, z)
  BY <1>2, <1>3 DEF CompareClause
<1> HIDE DEF x, y, z
<1>5. /\ Cmp(x, y) \in {-1, 0, 1} /\ Cmp(x, x) = 0 /\ Cmp(x, y) = -Cmp(y, x)
  <2>1. \A u, v \in Values : /\ Sign(w[u] - w[v]) \in {-1, 0, 1} /\ Sign(w[u] - w[u]) = 0
                              /\ Sign(w[u] - w[v]) = -Sign(w[v] - w[u])
    BY <1>2 DEF Sign
  <2>2. CASE x = Null \/ y = Null
    BY <1>1, <1>3, <2>1, <2>2
  <2>3. CASE x \in Values /\ y \in Values
    BY <1>1, <2>1, <2>3, ReadAssumption
  <2>4. QED
    BY <1>3, <2>2, <2>3
<1>6. Cmp(x, y) <= 0 /\ Cmp(y, z) <= 0 =>
        Cmp(x, z) <= 0 /\ (Cmp(x, z) = 0 => Cmp(x, y) = 0 /\ Cmp(y, z) = 0)
  BY <1>2, <1>3 DEF Sign
<1>7. QED
  BY <1>4, <1>5, <1>6

\* The comparison by the n-th clause of the plan.
By(n, a, b) == CompareClause(plan.sort[n], a, b)

LEMMA SortType ==
  ASSUME plan \in PlanType
  PROVE  /\ plan.sort \in Seq(Clause) /\ Len(plan.sort) \in Nat /\ DOMAIN plan.sort = 1..Len(plan.sort)
         /\ \A n \in 1..Len(plan.sort) : plan.sort[n] \in Clause
<1>1. plan.sort \in Seq(Clause)
  BY DEF PlanType, Clause
<1>2. QED
  BY <1>1

\* The first clause that tells two rows apart decides.
LEMMA RowsByClause ==
  ASSUME plan \in PlanType, NEW a \in Row, NEW b \in Row
  PROVE  /\ CompareRows(a, b) \in {-1, 0, 1}
         /\ CompareRows(a, b) < 0 <=>
              \E n \in 1..Len(plan.sort) : By(n, a, b) < 0 /\ \A m \in 1..(n - 1) : By(m, a, b) = 0
         /\ CompareRows(a, b) = 0 <=> \A n \in 1..Len(plan.sort) : By(n, a, b) = 0
<1>1. /\ plan.sort \in Seq(Clause) /\ Len(plan.sort) \in Nat /\ DOMAIN plan.sort = 1..Len(plan.sort)
      /\ \A n \in 1..Len(plan.sort) : plan.sort[n] \in Clause
  BY SortType
<1>2. \A n \in 1..Len(plan.sort) : By(n, a, b) \in {-1, 0, 1}
  BY <1>1, ClauseLaws DEF By
<1> DEFINE differ == {n \in 1..Len(plan.sort) : By(n, a, b) # 0}
<1>3. CompareRows(a, b) = IF differ = {} THEN 0 ELSE By(Min(differ), a, b)
  BY <1>1 DEF CompareRows, By
<1>4. CASE differ = {}
  BY <1>1, <1>2, <1>3, <1>4
<1>5. CASE differ # {}
  <2> DEFINE k == Min(differ)
  <2>1. k \in differ /\ \A y \in differ : k <= y
    <3>1. differ \subseteq Nat
      BY <1>1
    <3> HIDE DEF differ
    <3>2. QED
      BY <1>5, <3>1, MinLeast
  <2>2. CompareRows(a, b) = By(k, a, b)
    BY <1>3, <1>5
  <2> HIDE DEF k
  <2>3. k \in 1..Len(plan.sort) /\ By(k, a, b) # 0 /\ \A m \in 1..(k - 1) : By(m, a, b) = 0
    <3>1. k \in 1..Len(plan.sort) /\ By(k, a, b) # 0
      BY <2>1
    <3>2. ASSUME NEW m \in 1..(k - 1), By(m, a, b) # 0 PROVE FALSE
      <4>1. m \in 1..Len(plan.sort) /\ m < k
        BY <1>1, <3>1
      <4>2. k <= m
        BY <2>1, <3>2, <4>1
      <4>3. QED
        BY <1>1, <3>1, <4>1, <4>2
    <3>3. QED
      BY <3>1, <3>2
  <2>4. ASSUME NEW n \in 1..Len(plan.sort), By(n, a, b) < 0, \A m \in 1..(n - 1) : By(m, a, b) = 0
        PROVE  n = k
    <3>1. By(n, a, b) # 0
      BY <1>2, <2>4
    <3>2. k <= n /\ ~(k < n)
      BY <1>1, <2>1, <2>3, <2>4, <3>1
    <3>3. QED
      BY <1>1, <2>3, <3>2
  <2>5. QED
    BY <1>2, <2>2, <2>3, <2>4
<1>6. QED
  BY <1>4, <1>5

\* Comparing rows is a weak order: it is symmetric, and carries over.
LEMMA RowsLaws ==
  ASSUME plan \in PlanType, NEW a \in Row, NEW b \in Row, NEW d \in Row
  PROVE  /\ CompareRows(a, a) = 0
         /\ CompareRows(a, b) = 0 <=> CompareRows(b, a) = 0
         /\ CompareRows(a, b) < 0 \/ CompareRows(a, b) = 0 \/ CompareRows(b, a) < 0
         /\ ~(CompareRows(a, b) < 0 /\ CompareRows(b, a) < 0)
         /\ CompareRows(a, b) <= 0 /\ CompareRows(b, d) <= 0 =>
              /\ CompareRows(a, d) <= 0
              /\ CompareRows(a, d) = 0 => CompareRows(a, b) = 0 /\ CompareRows(b, d) = 0
<1> DEFINE N == Len(plan.sort)
<1>1. N \in Nat /\ \A n \in 1..N : plan.sort[n] \in Clause
  BY SortType
<1>2. \A n \in 1..N : /\ By(n, a, b) \in {-1, 0, 1} /\ By(n, b, d) \in {-1, 0, 1} /\ By(n, a, d) \in {-1, 0, 1}
                      /\ By(n, b, a) \in {-1, 0, 1}
                      /\ By(n, a, a) = 0 /\ By(n, a, b) = -By(n, b, a)
                      /\ By(n, a, b) <= 0 /\ By(n, b, d) <= 0 =>
                           /\ By(n, a, d) <= 0
                           /\ By(n, a, d) = 0 => By(n, a, b) = 0 /\ By(n, b, d) = 0
  BY <1>1, ClauseLaws DEF By
<1> DEFINE Less(u, v) == \E n \in 1..N : By(n, u, v) < 0 /\ \A m \in 1..(n - 1) : By(m, u, v) = 0
           Same(u, v) == \A n \in 1..N : By(n, u, v) = 0
<1>3. /\ CompareRows(a, a) = 0 <=> Same(a, a)
      /\ CompareRows(a, b) \in {-1, 0, 1} /\ CompareRows(b, a) \in {-1, 0, 1}
      /\ CompareRows(b, d) \in {-1, 0, 1} /\ CompareRows(a, d) \in {-1, 0, 1}
      /\ CompareRows(a, b) < 0 <=> Less(a, b)
      /\ CompareRows(a, b) = 0 <=> Same(a, b)
      /\ CompareRows(b, a) < 0 <=> Less(b, a)
      /\ CompareRows(b, a) = 0 <=> Same(b, a)
      /\ CompareRows(b, d) < 0 <=> Less(b, d)
      /\ CompareRows(b, d) = 0 <=> Same(b, d)
      /\ CompareRows(a, d) < 0 <=> Less(a, d)
      /\ CompareRows(a, d) = 0 <=> Same(a, d)
  BY RowsByClause
<1>4. Same(a, a) /\ (Same(a, b) <=> Same(b, a))
  BY <1>2
<1>5. Less(a, b) \/ Same(a, b) \/ Less(b, a)
  <2> SUFFICES ASSUME ~Same(a, b) PROVE Less(a, b) \/ Less(b, a)
    OBVIOUS
  <2> DEFINE differ == {n \in 1..N : By(n, a, b) # 0}
  <2>1. differ \subseteq Nat /\ differ # {}
    BY <1>1
  <2>2. PICK k \in differ : \A y \in differ : k <= y
    BY <2>1, MinLeast
  <2>3. \A m \in 1..(k - 1) : By(m, a, b) = 0 /\ By(m, b, a) = 0
    BY <1>1, <1>2, <2>2
  <2>4. k \in 1..N /\ (By(k, a, b) < 0 \/ By(k, b, a) < 0)
    BY <1>2, <2>2
  <2>5. QED
    BY <2>3, <2>4
<1>6. ~(Less(a, b) /\ Less(b, a))
  BY <1>1, <1>2
<1>7. ASSUME Less(a, b) \/ Same(a, b), Less(b, d) \/ Same(b, d)
      PROVE  /\ Less(a, d) \/ Same(a, d)
             /\ Less(a, b) \/ Less(b, d) => Less(a, d)
  <2>1. CASE Same(a, b) /\ Same(b, d)
    <3>1. Same(a, d)
      <4>1. SUFFICES ASSUME NEW n \in 1..N PROVE By(n, a, d) = 0
        OBVIOUS
      <4>2. plan.sort[n] \in Clause /\ By(n, b, a) = 0 /\ By(n, d, b) = 0
        BY <1>1, <1>2, <2>1, ClauseLaws DEF By
      <4>3. By(n, d, a) <= 0 /\ By(n, a, d) = -By(n, d, a)
        BY <4>2, ClauseLaws DEF By
      <4>4. By(n, a, d) <= 0 /\ By(n, a, d) \in {-1, 0, 1}
        BY <1>2, <2>1
      <4>5. By(n, d, a) \in {-1, 0, 1}
        BY <4>2, ClauseLaws DEF By
      <4>6. QED
        BY <4>3, <4>4, <4>5
    <3>2. QED
      BY <1>1, <1>2, <2>1, <3>1
  <2>2. CASE Less(a, b) \/ Less(b, d)
    <3>1. PICK k \in 1..N : /\ \A m \in 1..(k - 1) : By(m, a, b) = 0 /\ By(m, b, d) = 0
                            /\ By(k, a, b) <= 0 /\ By(k, b, d) <= 0
                            /\ By(k, a, b) < 0 \/ By(k, b, d) < 0
      <4>1. CASE Less(a, b) /\ Same(b, d)
        BY <1>1, <1>2, <4>1
      <4>2. CASE Same(a, b) /\ Less(b, d)
        BY <1>1, <1>2, <4>2
      <4>3. CASE Less(a, b) /\ Less(b, d)
        <5>1. PICK i \in 1..N : By(i, a, b) < 0 /\ \A m \in 1..(i - 1) : By(m, a, b) = 0
          BY <4>3
        <5>2. PICK j \in 1..N : By(j, b, d) < 0 /\ \A m \in 1..(j - 1) : By(m, b, d) = 0
          BY <4>3
        <5>3. CASE i < j
          BY <1>1, <1>2, <5>1, <5>2, <5>3
        <5>4. CASE j < i
          BY <1>1, <1>2, <5>1, <5>2, <5>4
        <5>5. CASE i = j
          BY <1>1, <1>2, <5>1, <5>2, <5>5
        <5>6. QED
          BY <1>1, <5>3, <5>4, <5>5
      <4>4. QED
        BY <1>7, <2>2, <4>1, <4>2, <4>3
    <3>2. By(k, a, d) < 0
      BY <1>2, <3>1
    <3>3. ASSUME NEW m \in 1..(k - 1) PROVE By(m, a, d) = 0
      <4>1. m \in 1..N /\ plan.sort[m] \in Clause /\ By(m, a, b) = 0 /\ By(m, b, d) = 0
        BY <1>1, <3>1
      <4>2. By(m, b, a) = 0 /\ By(m, d, b) = 0
        BY <4>1, ClauseLaws DEF By
      <4>3. By(m, d, a) <= 0 /\ By(m, a, d) = -By(m, d, a) /\ By(m, d, a) \in {-1, 0, 1}
        BY <4>1, <4>2, ClauseLaws DEF By
      <4>4. By(m, a, d) <= 0
        BY <1>2, <4>1
      <4>5. QED
        BY <4>3, <4>4
    <3>4. Less(a, d)
      BY <3>2, <3>3
    <3>5. QED
      BY <3>4
  <2>3. QED
    BY <1>7, <2>1, <2>2
<1>8. /\ ~(Less(a, b) /\ Same(a, b)) /\ ~(Less(b, d) /\ Same(b, d)) /\ ~(Less(a, d) /\ Same(a, d))
  BY <1>2
<1> HIDE DEF Less, Same
<1>9. QED
  BY <1>3, <1>4, <1>5, <1>6, <1>7, <1>8

(***************************************************************************)
(* The stable sort and the window.                                         *)
(***************************************************************************)
BeforeRel(s) == {p \in (1..Len(s)) \X (1..Len(s)) : Before(s, p[1], p[2])}

\* The stable sort puts the rows in a line: ties are broken by position.
LEMMA BeforeLinear ==
  ASSUME plan \in PlanType, NEW s \in Seq(Entity)
  PROVE  Linear(1..Len(s), BeforeRel(s))
<1> DEFINE I == 1..Len(s)
<1>1. Len(s) \in Nat /\ \A i \in I : s[i] \in Entity
  OBVIOUS
<1>2. \A i \in I : s[i][2] \in Row
  BY <1>1 DEF Entity
<1>3. \A i, j \in I : CompareRows(s[i][2], s[j][2]) \in {-1, 0, 1}
  BY <1>2, RowsByClause
<1>4. \A i, j \in I : <<i, j>> \in BeforeRel(s) <=>
        \/ CompareRows(s[i][2], s[j][2]) < 0
        \/ CompareRows(s[i][2], s[j][2]) = 0 /\ i < j
  BY DEF BeforeRel, Before
<1>5. ASSUME NEW i \in I PROVE <<i, i>> \notin BeforeRel(s)
  BY <1>1, <1>2, <1>4, RowsLaws
<1>6. ASSUME NEW i \in I, NEW j \in I, i # j PROVE <<i, j>> \in BeforeRel(s) \/ <<j, i>> \in BeforeRel(s)
  <2>1. /\ CompareRows(s[i][2], s[j][2]) = 0 <=> CompareRows(s[j][2], s[i][2]) = 0
        /\ \/ CompareRows(s[i][2], s[j][2]) < 0 \/ CompareRows(s[i][2], s[j][2]) = 0
           \/ CompareRows(s[j][2], s[i][2]) < 0
    BY <1>2, RowsLaws
  <2>2. i < j \/ j < i
    BY <1>6
  <2>3. QED
    BY <1>4, <2>1, <2>2
<1>7. ASSUME NEW i \in I, NEW j \in I, NEW k \in I, <<i, j>> \in BeforeRel(s), <<j, k>> \in BeforeRel(s)
      PROVE  <<i, k>> \in BeforeRel(s)
  <2> DEFINE x == CompareRows(s[i][2], s[j][2])
             y == CompareRows(s[j][2], s[k][2])
             z == CompareRows(s[i][2], s[k][2])
  <2>1. x \in {-1, 0, 1} /\ y \in {-1, 0, 1} /\ z \in {-1, 0, 1}
    BY <1>3
  <2>2. (x < 0 \/ (x = 0 /\ i < j)) /\ (y < 0 \/ (y = 0 /\ j < k))
    BY <1>4, <1>7
  <2>3. x <= 0 /\ y <= 0 => z <= 0 /\ (z = 0 => x = 0 /\ y = 0)
    BY <1>2, RowsLaws
  <2>4. <<i, k>> \in BeforeRel(s) <=> z < 0 \/ (z = 0 /\ i < k)
    BY <1>4
  <2> HIDE DEF x, y, z
  <2>5. QED
    BY <2>1, <2>2, <2>3, <2>4
<1>8. QED
  BY <1>5, <1>6, <1>7 DEF Linear

\* The n-th row of the sorted sequence is the one with n - 1 rows before it.
LEMMA SortedRows ==
  ASSUME plan \in PlanType, NEW s \in Seq(Entity)
  PROVE  /\ SliceStable(s) \in Seq(Entity) /\ Len(SliceStable(s)) = Len(s)
         /\ \A n \in 1..Len(s) : \E i \in 1..Len(s) :
              /\ SliceStable(s)[n] = s[i]
              /\ Cardinality({j \in 1..Len(s) : Before(s, j, i)}) = n - 1
<1> DEFINE I == 1..Len(s)
           R == BeforeRel(s)
           t == SliceStable(s)
<1>1. Len(s) \in Nat /\ DOMAIN s = I /\ \A i \in I : s[i] \in Entity
  OBVIOUS
<1>2. IsFiniteSet(I) /\ Cardinality(I) = Len(s)
  <2> DEFINE N == Len(s)
  <2>1. N \in Nat
    OBVIOUS
  <2> HIDE DEF N
  <2>2. IsFiniteSet(1..N) /\ Cardinality(1..N) = N
    BY <2>1, FS_Interval
  <2>3. QED
    BY <2>2 DEF N
<1>3. Linear(I, R)
  BY BeforeLinear
<1>4. \A i \in I : {j \in I : Before(s, j, i)} = Below(I, R, i)
  BY DEF Below, BeforeRel
<1>5. \A i \in I : Place(s, i) = 1 + Rank(I, R, i) /\ Rank(I, R, i) \in Nat
  <2> SUFFICES ASSUME NEW i \in I PROVE Place(s, i) = 1 + Rank(I, R, i) /\ Rank(I, R, i) \in Nat
    OBVIOUS
  <2> HIDE DEF I, R
  <2>1. Place(s, i) = 1 + Rank(I, R, i)
    BY <1>1, <1>4 DEF Place, Rank
  <2>2. Rank(I, R, i) \in Nat
    BY <1>2, <1>3, RankType
  <2>3. QED
    BY <2>1, <2>2
<1> HIDE DEF I, R
<1>6. ASSUME NEW n \in I PROVE \E i \in I : t[n] = s[i] /\ Rank(I, R, i) = n - 1
  <2>1. n - 1 \in 0..(Cardinality(I) - 1)
    BY <1>1, <1>2 DEF I
  <2>2. \E i \in I : Rank(I, R, i) = n - 1
    BY <1>2, <1>3, <2>1, RankOnto
  <2>3. \E i \in I : Place(s, i) = n
    BY <1>5, <2>1, <2>2 DEF I
  <2> DEFINE at == CHOOSE i \in I : Place(s, i) = n
  <2>4. at \in I /\ Place(s, at) = n
    BY <2>3
  <2>5. t[n] = s[at]
    BY <1>1 DEF SliceStable
  <2> HIDE DEF at
  <2>6. Rank(I, R, at) = n - 1
    <3>1. n \in Int
      BY <1>1 DEF I
    <3>2. QED
      BY <1>5, <2>4, <3>1
  <2>7. QED
    BY <2>4, <2>5, <2>6
<1>7. \A n \in I : t[n] \in Entity
  BY <1>1, <1>6
<1>8. t \in [I -> Entity]
  BY <1>1, <1>7 DEF SliceStable
<1>9. t \in Seq(Entity) /\ Len(t) = Len(s)
  BY <1>1, <1>8 DEF I
<1>10. \A n \in I : \E i \in I : t[n] = s[i] /\ Cardinality({j \in I : Before(s, j, i)}) = n - 1
  BY <1>4, <1>6 DEF Rank
<1>11. QED
  BY <1>9, <1>10 DEF I

\* A window has the rows after the offset, at most limit of them.
LEMMA WindowRows ==
  ASSUME NEW s \in Seq(Entity), NEW offset \in Nat, NEW limit \in Nat
  PROVE  LET w == Window(s, offset, limit)
             left == Len(s) - offset
         IN  /\ w \in Seq(Entity)
             /\ Len(w) = IF left <= 0 THEN 0 ELSE IF limit <= left THEN limit ELSE left
             /\ \A n \in 1..Len(w) : offset + n \in 1..Len(s) /\ w[n] = s[offset + n]
<1> DEFINE w == Window(s, offset, limit)
           left == Len(s) - offset
<1>1. Len(s) \in Nat /\ \A i \in 1..Len(s) : s[i] \in Entity
  OBVIOUS
<1>2. CASE limit = 0 \/ offset >= Len(s)
  <2>1. w = <<>>
    BY <1>2 DEF Window
  <2>2. w \in Seq(Entity) /\ Len(w) = 0
    BY <2>1
  <2> HIDE DEF w
  <2>3. QED
    BY <1>1, <1>2, <2>2 DEF w
<1>3. CASE ~(limit = 0 \/ offset >= Len(s))
  <2> DEFINE last == Min({offset + limit, Len(s)})
  <2>1. last = IF offset + limit <= Len(s) THEN offset + limit ELSE Len(s)
    BY <1>1, MinOfTwo
  <2>2. w = SubSeq(s, offset + 1, last)
    BY <1>3 DEF Window
  <2> HIDE DEF last
  <2>3. last \in 1..Len(s) /\ offset + 1 \in 1..Len(s) /\ offset + 1 <= last
    BY <1>1, <1>3, <2>1
  <2>4. /\ w \in Seq(Entity) /\ Len(w) = last - offset
        /\ \A n \in 1..Len(w) : offset + n \in 1..Len(s) /\ w[n] = s[offset + n]
    <3> DEFINE first == offset + 1
    <3>1. first \in Int /\ last \in Int /\ first <= last /\ \A i \in first..last : s[i] \in Entity
      BY <1>1, <2>3
    <3> HIDE DEF first, w
    <3>2. /\ w \in Seq(Entity) /\ Len(w) = last - first + 1
          /\ \A i \in 1..(last - first + 1) : w[i] = s[first + i - 1]
      BY <2>2, <3>1, SubSeqProperties DEF first
    <3>3. last - first + 1 = last - offset /\ \A i \in 1..(last - offset) : first + i - 1 = offset + i
      BY <1>1, <2>3 DEF first
    <3>4. \A i \in 1..(last - offset) : offset + i \in 1..Len(s)
      BY <1>1, <2>3
    <3>5. QED
      BY <3>2, <3>3, <3>4
  <2> HIDE DEF w
  <2>5. QED
    BY <1>1, <1>3, <2>1, <2>4 DEF w
<1>4. QED
  BY <1>2, <1>3

(***************************************************************************)
(* Pages of a query.                                                       *)
(***************************************************************************)
\* A function that tells a set's elements apart keeps their number.
LEMMA InjectiveImage ==
  ASSUME NEW J, IsFiniteSet(J), NEW f, \A x, y \in J : f[x] = f[y] => x = y
  PROVE  IsFiniteSet({f[x] : x \in J}) /\ Cardinality({f[x] : x \in J}) = Cardinality(J)
<1> DEFINE T == {f[x] : x \in J}
           g == [x \in J |-> f[x]]
<1>1. g \in [J -> T] /\ (\A x, y \in J : g[x] = g[y] => x = y) /\ \A u \in T : \E x \in J : g[x] = u
  OBVIOUS
<1> HIDE DEF g
<1>2. g \in Bijection(J, T)
  BY <1>1 DEF Bijection, Injection, IsInjective, Surjection
<1>3. QED
  BY <1>2, FS_Bijection DEF ExistsBijection

KeyOrder == {p \in Keys \X Keys : p[1] < p[2]}

\* The matches form a finite set that the keys order, of entities of its own.
LEMMA MatchingFinite ==
  ASSUME table \in [Keys -> Row \cup {NoRow}]
  PROVE  /\ Matching \subseteq Keys /\ IsFiniteSet(Matching) /\ Cardinality(Matching) \in Nat
         /\ Linear(Matching, KeyOrder)
         /\ \A k \in Matching : table[k] \in Row /\ <<k, table[k]>> \in Entity
<1>1. Matching \in SUBSET Keys
  BY DEF Matching
<1>2. IsFiniteSet(Matching) /\ Cardinality(Matching) \in Nat
  BY <1>1, FS_Subset, FS_CardinalityType, ReadAssumption
<1>3. Linear(Matching, KeyOrder)
  BY <1>1, ReadAssumption DEF Linear, KeyOrder
<1>4. \A k \in Matching : table[k] \in Row /\ <<k, table[k]>> \in Entity
  BY DEF Matching, Accepts, Entity
<1>5. QED
  BY <1>1, <1>2, <1>3, <1>4

\* As many entities as keys.
LEMMA FoundCount ==
  ASSUME NEW J, IsFiniteSet(J)
  PROVE  IsFiniteSet(Found(J)) /\ Cardinality(Found(J)) = Cardinality(J)
<1> DEFINE f == [k \in J |-> <<k, table[k]>>]
<1>1. \A x, y \in J : f[x] = f[y] => x = y
  OBVIOUS
<1>2. Found(J) = {f[x] : x \in J}
  BY DEF Found
<1> HIDE DEF f
<1>3. QED
  BY <1>1, <1>2, InjectiveImage

\* The keys of rows in key order.
Ascending(s) == \A i, j \in 1..Len(s) : i < j => s[i][1] < s[j][1]
KeysOf(s, n) == {s[i][1] : i \in 1..n}

LEMMA KeysCount ==
  ASSUME NEW s \in Seq(Entity), Ascending(s), NEW n \in 0..Len(s)
  PROVE  IsFiniteSet(KeysOf(s, n)) /\ Cardinality(KeysOf(s, n)) = n
<1> DEFINE f == [i \in 1..n |-> s[i][1]]
<1>1. Len(s) \in Nat /\ n \in Nat /\ \A i \in 1..Len(s) : s[i][1] \in Int
  <2>1. Len(s) \in Nat /\ n \in Nat /\ \A i \in 1..Len(s) : s[i] \in Entity
    OBVIOUS
  <2>2. \A e \in Entity : e[1] \in Int
    BY ReadAssumption DEF Entity
  <2>3. QED
    BY <2>1, <2>2
<1>2. \A i, j \in 1..n : f[i] = f[j] => i = j
  <2> SUFFICES ASSUME NEW i \in 1..n, NEW j \in 1..n, i # j PROVE s[i][1] # s[j][1]
    OBVIOUS
  <2>1. i \in 1..Len(s) /\ j \in 1..Len(s) /\ (i < j \/ j < i)
    BY <1>1
  <2>2. QED
    BY <1>1, <2>1 DEF Ascending
<1>3. KeysOf(s, n) = {f[i] : i \in 1..n}
  BY DEF KeysOf
<1>4. IsFiniteSet(1..n) /\ Cardinality(1..n) = n
  BY <1>1, FS_Interval
<1> HIDE DEF f
<1>5. QED
  BY <1>2, <1>3, <1>4, InjectiveImage

\* What a query answers: the first of the matching entities it asks for.
LEMMA PageRows ==
  ASSUME table \in [Keys -> Row \cup {NoRow}], NEW K, K \subseteq Matching, NEW n \in Nat,
         NEW page \in QueryPages(K, n)
  PROVE  /\ page \in Seq(Entity) /\ Len(page) \in 0..n /\ DOMAIN page = 1..Len(page)
         /\ Ascending(page)
         /\ \A i \in 1..Len(page) : page[i][1] \in K /\ page[i] = <<page[i][1], table[page[i][1]]>>
         /\ \A k \in K : \/ \E i \in 1..Len(page) : page[i] = <<k, table[k]>>
                         \/ Len(page) = n /\ \A i \in 1..Len(page) : page[i][1] < k
<1>1. PICK m \in 0..n : page \in [1..m -> Found(K)]
  BY DEF QueryPages, FirstPages
<1>2. IsFirst(page, Found(K), n)
  BY DEF QueryPages, FirstPages
<1>3. \A e \in Found(K) : e \in Entity /\ e[1] \in K /\ e = <<e[1], table[e[1]]>>
  BY MatchingFinite DEF Found
<1>4. m \in Nat /\ page \in [1..m -> Entity]
  BY <1>1, <1>3
<1>5. page \in Seq(Entity) /\ Len(page) = m /\ DOMAIN page = 1..Len(page)
  BY <1>4
<1>6. Ascending(page)
  BY <1>2, <1>5 DEF IsFirst, Ascending
<1>7. \A i \in 1..Len(page) : page[i][1] \in K /\ page[i] = <<page[i][1], table[page[i][1]]>>
  BY <1>1, <1>3, <1>5
<1>8. ASSUME NEW k \in K
      PROVE  \/ \E i \in 1..Len(page) : page[i] = <<k, table[k]>>
             \/ Len(page) = n /\ \A i \in 1..Len(page) : page[i][1] < k
  <2> DEFINE e == <<k, table[k]>>
  <2>1. e \in Found(K) /\ e[1] = k
    BY DEF Found
  <2> HIDE DEF e
  <2>2. \/ \E i \in 1..Len(page) : page[i] = e
        \/ Len(page) = n /\ \A i \in 1..Len(page) : page[i][1] < e[1]
    BY <1>2, <1>5, <2>1 DEF IsFirst
  <2>3. QED
    BY <2>1, <2>2 DEF e
<1>9. QED
  BY <1>1, <1>5, <1>6, <1>7, <1>8

\* The matches a query skips are those of the lowest ranks.
LEMMA SkippedCount ==
  ASSUME table \in [Keys -> Row \cup {NoRow}], NEW n \in Nat
  PROVE  /\ \A k \in Matching : {j \in Matching : j < k} = Below(Matching, KeyOrder, k)
         /\ Skipped(n) = {k \in Matching : Rank(Matching, KeyOrder, k) < n}
         /\ IsFiniteSet(Skipped(n)) /\ Skipped(n) \subseteq Matching
         /\ Cardinality(Skipped(n)) = IF n <= Cardinality(Matching) THEN n ELSE Cardinality(Matching)
<1>1. /\ Matching \subseteq Keys /\ IsFiniteSet(Matching) /\ Linear(Matching, KeyOrder)
  BY MatchingFinite
<1>2. \A k \in Matching : {j \in Matching : j < k} = Below(Matching, KeyOrder, k)
  BY <1>1 DEF Below, KeyOrder
<1>3. Skipped(n) = {k \in Matching : Rank(Matching, KeyOrder, k) < n}
  BY <1>2 DEF Skipped, Rank
<1>4. IsFiniteSet(Skipped(n)) /\ Skipped(n) \in SUBSET Matching
  BY <1>1, <1>3, FS_Subset
<1>5. QED
  BY <1>1, <1>2, <1>3, <1>4, LowestCount

\* A page without sort terms is the right one; when it is not full, and not
\* empty past the last match, its length and the offset give the matches.
LEMMA PageIsRight ==
  ASSUME table \in [Keys -> Row \cup {NoRow}], plan \in PlanType, plan.sort = <<>>,
         NEW page \in QueryPages(Matching \ Skipped(plan.offset), plan.limit)
  PROVE  /\ IsPage(page)
         /\ Len(page) < plan.limit /\ (plan.offset = 0 \/ page # <<>>) =>
              plan.offset + Len(page) = Cardinality(Matching)
<1> DEFINE M == Matching
           c == Cardinality(M)
           o == plan.offset
           S == Skipped(o)
           L == Len(page)
<1>1. /\ M \subseteq Keys /\ IsFiniteSet(M) /\ c \in Nat /\ Linear(M, KeyOrder)
      /\ o \in Nat /\ plan.limit \in Nat
  BY MatchingFinite DEF PlanType
<1>2. /\ \A k \in M : {j \in M : j < k} = Below(M, KeyOrder, k)
      /\ S = {k \in M : Rank(M, KeyOrder, k) < o}
      /\ IsFiniteSet(S) /\ S \subseteq M
      /\ Cardinality(S) = IF o <= c THEN o ELSE c
  BY <1>1, SkippedCount
<1>3. /\ page \in Seq(Entity) /\ L \in 0..plan.limit /\ DOMAIN page = 1..L
      /\ Ascending(page)
      /\ \A i \in 1..L : page[i][1] \in M \ S /\ page[i] = <<page[i][1], table[page[i][1]]>>
      /\ \A k \in M \ S : \/ \E i \in 1..L : page[i] = <<k, table[k]>>
                          \/ L = plan.limit /\ \A i \in 1..L : page[i][1] < k
  <2>1. M \ S \subseteq M
    OBVIOUS
  <2>2. QED
    BY <1>1, <2>1, PageRows
<1>4. IsFiniteSet(M \ S) /\ Cardinality(M \ S) = c - Cardinality(S)
  <2>1. M \cap S = S
    BY <1>2
  <2>2. QED
    BY <1>1, <2>1, FS_Difference
<1>5. L \in Nat /\ IsFiniteSet(KeysOf(page, L)) /\ Cardinality(KeysOf(page, L)) = L
  <2>1. L \in Nat /\ L \in 0..L
    BY <1>1, <1>3
  <2>2. QED
    BY <1>3, <2>1, KeysCount
<1>6. KeysOf(page, L) \in SUBSET (M \ S)
  BY <1>3 DEF KeysOf
<1>7. L < plan.limit => KeysOf(page, L) = M \ S
  <2>1. ASSUME L < plan.limit, NEW k \in M \ S PROVE k \in KeysOf(page, L)
    <3>1. PICK i \in 1..L : page[i] = <<k, table[k]>>
      BY <1>1, <1>3, <1>5, <2>1
    <3>2. page[i][1] = k
      BY <3>1
    <3>3. QED
      BY <3>2 DEF KeysOf
  <2>2. QED
    BY <1>6, <2>1
<1> HIDE DEF M, c, o, S, L
<1>8. L <= Cardinality(M \ S) /\ (L < plan.limit => L = Cardinality(M \ S))
  BY <1>4, <1>5, <1>6, <1>7, FS_Subset
<1>9. L = Max({0, Min({plan.limit, c - o})})
  <2>1. L = IF c - o <= 0 THEN 0 ELSE IF plan.limit <= c - o THEN plan.limit ELSE c - o
    BY <1>1, <1>2, <1>3, <1>4, <1>8
  <2>2. c - o \in Int
    BY <1>1
  <2>3. QED
    BY <1>1, <2>1, <2>2, PageSize
<1>10. ASSUME NEW n \in 1..L
       PROVE  page[n] \in Found(M) /\ Cardinality({e \in Found(M) : Precedes(e, page[n])}) = o + n - 1
  <2> DEFINE k == page[n][1]
             B == {j \in M : j < k}
  <2>1. k \in M /\ k \notin S /\ page[n] = <<k, table[k]>>
    BY <1>3
  <2>2. B = S \cup KeysOf(page, n - 1)
    <3>1. ASSUME NEW j \in S PROVE j \in B
      <4>1. Rank(M, KeyOrder, j) < o /\ ~(Rank(M, KeyOrder, k) < o) /\ j \in M
        BY <1>2, <2>1
      <4>2. Rank(M, KeyOrder, j) \in Int /\ Rank(M, KeyOrder, k) \in Int
        BY <1>1, <2>1, <4>1, RankType
      <4>3. Rank(M, KeyOrder, j) < Rank(M, KeyOrder, k)
        BY <1>1, <4>1, <4>2
      <4>4. <<j, k>> \in KeyOrder
        BY <1>1, <2>1, <4>1, <4>3, RankOrder
      <4>5. QED
        BY <4>1, <4>4 DEF KeyOrder
    <3>2. ASSUME NEW i \in 1..(n - 1) PROVE page[i][1] \in B
      <4>1. i \in 1..L /\ n \in 1..L /\ i < n
        BY <1>5
      <4>2. page[i][1] \in M /\ page[i][1] < page[n][1]
        BY <1>3, <4>1 DEF Ascending, L
      <4>3. QED
        BY <4>2
    <3>3. ASSUME NEW j \in B, j \notin S PROVE j \in KeysOf(page, n - 1)
      <4>1. j \in M \ S /\ j < k /\ j \in Int /\ k \in Int
        BY <1>1, <2>1, <3>3, ReadAssumption
      <4>2. PICK i \in 1..L : page[i] = <<j, table[j]>>
        BY <1>3, <4>1
      <4>3. page[i][1] = j
        BY <4>2
      <4>4. ~(n < i) /\ n # i
        BY <1>3, <4>1, <4>3 DEF Ascending, L
      <4>5. i \in 1..(n - 1)
        BY <1>5, <4>4
      <4>6. QED
        BY <4>3, <4>5 DEF KeysOf
    <3>4. QED
      BY <3>1, <3>2, <3>3 DEF KeysOf
  <2>3. S \cap KeysOf(page, n - 1) = {}
    <3>1. \A i \in 1..(n - 1) : i \in 1..L
      BY <1>5
    <3>2. QED
      BY <1>3, <3>1 DEF KeysOf
  <2>4. IsFiniteSet(KeysOf(page, n - 1)) /\ Cardinality(KeysOf(page, n - 1)) = n - 1
    <3>1. n - 1 \in 0..Len(page)
      BY <1>5 DEF L
    <3>2. QED
      BY <1>3, <3>1, KeysCount
  <2>5. Cardinality(S) = o
    <3>1. Rank(M, KeyOrder, k) \in 0..(c - 1) /\ ~(Rank(M, KeyOrder, k) < o)
      BY <1>1, <1>2, <2>1, RankType DEF c
    <3>2. QED
      BY <1>1, <1>2, <3>1
  <2> HIDE DEF k, B
  <2>6. IsFiniteSet(B) /\ Cardinality(B) = o + n - 1
    <3> DEFINE K == KeysOf(page, n - 1)
    <3>1. B = S \cup K /\ IsFiniteSet(S) /\ IsFiniteSet(K) /\ Cardinality(K) = n - 1 /\ n \in Int
      BY <1>2, <1>5, <2>2, <2>4
    <3>2. Cardinality(S \cap K) = 0
      BY <2>3, FS_EmptySet
    <3> HIDE DEF K
    <3>3. IsFiniteSet(B) /\ Cardinality(B) = Cardinality(S) + Cardinality(K) - Cardinality(S \cap K)
      BY <3>1, FS_Union
    <3>4. QED
      BY <1>1, <2>5, <3>1, <3>2, <3>3
  <2>7. \A e \in Found(M) : Precedes(e, page[n]) <=> e[1] < k
    <3>1. DOMAIN plan.sort = {} /\ Len(plan.sort) = 0
      OBVIOUS
    <3>2. QED
      BY <3>1 DEF Precedes, k
  <2>8. {e \in Found(M) : Precedes(e, page[n])} = Found(B)
    BY <2>7 DEF Found, B
  <2>9. page[n] \in Found(M)
    BY <2>1 DEF Found
  <2>10. QED
    BY <2>6, <2>8, <2>9, FoundCount
<1>11. IsPage(page)
  BY <1>3, <1>9, <1>10 DEF IsPage, M, c, o, L
<1>12. L < plan.limit /\ (o = 0 \/ page # <<>>) => o + L = c
  <2>1. page # <<>> => L > 0
    BY <1>3, <1>5 DEF L
  <2>2. QED
    BY <1>1, <1>2, <1>4, <1>5, <1>8, <2>1
<1>13. QED
  BY <1>11, <1>12 DEF M, c, o, L

\* The reference order tells rows apart as the clauses do when they compare
\* values by value.
LEMMA DifferenceSign ==
  ASSUME NEW c \in Clause, ComparedByValue(c.field), NEW a \in Row, NEW b \in Row
  PROVE  /\ Difference(c, a, b) < 0 <=> CompareClause(c, a, b) < 0
         /\ Difference(c, a, b) = 0 <=> CompareClause(c, a, b) = 0
<1> DEFINE x == a[c.field]
           y == b[c.field]
<1>1. x \in Values \cup {Null} /\ y \in Values \cup {Null} /\ c.desc \in BOOLEAN
  BY DEF Row, Clause
<1>2. CASE x = Null \/ y = Null
  BY <1>1, <1>2 DEF Difference, CompareClause
<1>3. CASE x \in Values /\ y \in Values
  <2>1. x \in Int /\ y \in Int /\ x # Null /\ y # Null
    BY <1>3, ReadAssumption
  <2>2. CompareClause(c, a, b) = IF c.desc THEN -Sign(x - y) ELSE Sign(x - y)
    BY <2>1 DEF CompareClause, CompareScalar
  <2>3. Difference(c, a, b) = IF x = y THEN 0 ELSE IF c.desc THEN y - x ELSE x - y
    BY <2>1 DEF Difference
  <2> HIDE DEF x, y
  <2>4. CASE c.desc
    <3>1. CompareClause(c, a, b) = -Sign(x - y) /\ Difference(c, a, b) = IF x = y THEN 0 ELSE y - x
      BY <2>2, <2>3, <2>4
    <3>2. CASE x < y
      <4>1. Sign(x - y) = -1 /\ Difference(c, a, b) = y - x
        BY <2>1, <3>1, <3>2 DEF Sign
      <4>2. QED
        BY <2>1, <3>1, <3>2, <4>1
    <3>3. CASE y < x
      <4>1. Sign(x - y) = 1 /\ Difference(c, a, b) = y - x
        BY <2>1, <3>1, <3>3 DEF Sign
      <4>2. QED
        BY <2>1, <3>1, <3>3, <4>1
    <3>4. CASE x = y
      <4>1. Sign(x - y) = 0 /\ Difference(c, a, b) = 0
        BY <2>1, <3>1, <3>4 DEF Sign
      <4>2. QED
        BY <3>1, <4>1
    <3>5. QED
      BY <2>1, <3>2, <3>3, <3>4
  <2>5. CASE ~c.desc
    <3>1. CompareClause(c, a, b) = Sign(x - y) /\ Difference(c, a, b) = IF x = y THEN 0 ELSE x - y
      BY <2>2, <2>3, <2>5
    <3>2. QED
      BY <2>1, <3>1 DEF Sign
  <2>6. QED
    BY <2>4, <2>5
<1>4. QED
  BY <1>1, <1>2, <1>3

\* On rows in key order the stable sort is the reference order.
LEMMA BeforePrecedes ==
  ASSUME plan \in PlanType, \A n \in DOMAIN plan.sort : ComparedByValue(plan.sort[n].field),
         NEW s \in Seq(Entity), Ascending(s), NEW i \in 1..Len(s), NEW j \in 1..Len(s)
  PROVE  Before(s, i, j) <=> Precedes(s[i], s[j])
<1> DEFINE N == Len(plan.sort)
           a == s[i][2]
           b == s[j][2]
           Diff(n) == Difference(plan.sort[n], a, b)
<1>1. N \in Nat /\ DOMAIN plan.sort = 1..N /\ \A n \in 1..N : plan.sort[n] \in Clause
  BY SortType
<1>2. s[i] \in Entity /\ s[j] \in Entity /\ Len(s) \in Nat
  OBVIOUS
<1>3. a \in Row /\ b \in Row /\ s[i][1] \in Int /\ s[j][1] \in Int
  BY <1>2, ReadAssumption DEF Entity
<1>4. \A n \in 1..N : (Diff(n) < 0 <=> By(n, a, b) < 0) /\ (Diff(n) = 0 <=> By(n, a, b) = 0)
  BY <1>1, <1>3, DifferenceSign DEF By
<1>5. /\ CompareRows(a, b) < 0 <=> \E n \in 1..N : By(n, a, b) < 0 /\ \A m \in 1..(n - 1) : By(m, a, b) = 0
      /\ CompareRows(a, b) = 0 <=> \A n \in 1..N : By(n, a, b) = 0
  BY <1>3, RowsByClause
<1>6. i < j <=> s[i][1] < s[j][1]
  <2>1. i \in Int /\ j \in Int /\ (i < j \/ i = j \/ j < i)
    BY <1>2
  <2>2. (i < j => s[i][1] < s[j][1]) /\ (j < i => s[j][1] < s[i][1])
    BY DEF Ascending
  <2>3. QED
    BY <1>3, <2>1, <2>2
<1>7. Before(s, i, j) <=> CompareRows(a, b) < 0 \/ (CompareRows(a, b) = 0 /\ i < j)
  BY DEF Before
<1>8. Precedes(s[i], s[j]) <=>
        \/ \E n \in 1..N : Diff(n) < 0 /\ \A m \in 1..(n - 1) : Diff(m) = 0
        \/ (\A m \in 1..N : Diff(m) = 0) /\ s[i][1] < s[j][1]
  <2>1. N + 1 - 1 = N
    BY <1>1
  <2>2. QED
    BY <1>1, <2>1 DEF Precedes
<1> HIDE DEF N, a, b, Diff
<1>9. \A n \in 1..N : \A m \in 1..(n - 1) : m \in 1..N
  BY <1>1
<1>10. (\E n \in 1..N : Diff(n) < 0 /\ \A m \in 1..(n - 1) : Diff(m) = 0) <=>
       (\E n \in 1..N : By(n, a, b) < 0 /\ \A m \in 1..(n - 1) : By(m, a, b) = 0)
  BY <1>4, <1>9
<1>11. QED
  BY <1>4, <1>5, <1>6, <1>7, <1>8, <1>10

\* The window of the sorted matches is the right page.
LEMMA SortIsRight ==
  ASSUME table \in [Keys -> Row \cup {NoRow}], plan \in PlanType,
         \A n \in DOMAIN plan.sort : ComparedByValue(plan.sort[n].field),
         NEW s \in Seq(Entity), Ascending(s), {s[i] : i \in 1..Len(s)} = Found(Matching)
  PROVE  IsPage(Window(SliceStable(s), plan.offset, plan.limit))
<1> DEFINE I == 1..Len(s)
           F == Found(Matching)
           t == SliceStable(s)
           w == Window(t, plan.offset, plan.limit)
<1>1. Len(s) \in Nat /\ (\A i \in I : s[i] \in Entity) /\ plan.offset \in Nat /\ plan.limit \in Nat
  BY DEF PlanType
<1>2. \A i, j \in I : s[i] = s[j] => i = j
  <2> SUFFICES ASSUME NEW i \in I, NEW j \in I, i # j PROVE s[i] # s[j]
    OBVIOUS
  <2>1. i < j \/ j < i
    OBVIOUS
  <2>2. \A e \in Entity : e[1] \in Int
    BY ReadAssumption DEF Entity
  <2>3. s[i][1] \in Int /\ s[j][1] \in Int /\ s[i][1] # s[j][1]
    BY <1>1, <2>1, <2>2 DEF Ascending
  <2>4. QED
    BY <2>3
<1>3. IsFiniteSet(I) /\ Cardinality(I) = Len(s)
  <2> DEFINE N == Len(s)
  <2>1. N \in Nat
    BY <1>1
  <2> HIDE DEF N
  <2>2. IsFiniteSet(1..N) /\ Cardinality(1..N) = N
    BY <2>1, FS_Interval
  <2>3. QED
    BY <2>2 DEF N
<1>4. ASSUME NEW J, J \subseteq I
      PROVE  IsFiniteSet(J) /\ Cardinality({s[i] : i \in J}) = Cardinality(J)
  <2>1. IsFiniteSet(J)
    BY <1>3, <1>4, FS_Subset
  <2>2. \A i, j \in J : s[i] = s[j] => i = j
    BY <1>2, <1>4
  <2>3. QED
    BY <2>1, <2>2, InjectiveImage
<1>5. Cardinality(Matching) = Len(s)
  <2>1. Cardinality({s[i] : i \in I}) = Len(s)
    BY <1>3, <1>4
  <2>2. IsFiniteSet(Matching) /\ Cardinality(F) = Cardinality(Matching)
    BY MatchingFinite, FoundCount
  <2>3. QED
    BY <2>1, <2>2
<1>6. /\ t \in Seq(Entity) /\ Len(t) = Len(s)
      /\ \A n \in I : \E i \in I : t[n] = s[i] /\ Cardinality({j \in I : Before(s, j, i)}) = n - 1
  BY SortedRows
<1> HIDE DEF t
<1>7. /\ w \in Seq(Entity)
      /\ Len(w) = IF Len(t) - plan.offset <= 0 THEN 0
                  ELSE IF plan.limit <= Len(t) - plan.offset THEN plan.limit ELSE Len(t) - plan.offset
      /\ \A n \in 1..Len(w) : plan.offset + n \in 1..Len(t) /\ w[n] = t[plan.offset + n]
  BY <1>1, <1>6, WindowRows
<1> HIDE DEF w
<1>8. Len(w) = Max({0, Min({plan.limit, Cardinality(Matching) - plan.offset})})
  <2> DEFINE left == Cardinality(Matching) - plan.offset
  <2>1. left \in Int /\ left = Len(t) - plan.offset
    BY <1>1, <1>5, <1>6
  <2> HIDE DEF left
  <2>2. Len(w) = Max({0, Min({plan.limit, left})})
    BY <1>1, <1>7, <2>1, PageSize
  <2>3. QED
    BY <2>2 DEF left
<1>9. ASSUME NEW n \in 1..Len(w)
      PROVE  w[n] \in F /\ Cardinality({e \in F : Precedes(e, w[n])}) = plan.offset + n - 1
  <2>1. plan.offset + n \in I /\ w[n] = t[plan.offset + n]
    BY <1>6, <1>7
  <2> DEFINE m == plan.offset + n
  <2>2. PICK i \in I : w[n] = s[i] /\ Cardinality({j \in I : Before(s, j, i)}) = m - 1
    <3>1. m \in I /\ w[n] = t[m]
      BY <2>1
    <3> HIDE DEF m
    <3>2. QED
      BY <1>6, <3>1
  <2> DEFINE J == {j \in I : Before(s, j, i)}
  <2>3. \A j \in I : Before(s, j, i) <=> Precedes(s[j], s[i])
    BY BeforePrecedes
  <2>4. {e \in F : Precedes(e, w[n])} = {s[j] : j \in J}
    BY <2>2, <2>3
  <2>5. Cardinality({s[j] : j \in J}) = Cardinality(J)
    BY <1>4
  <2>6. w[n] \in F
    BY <2>2
  <2>7. Cardinality({e \in F : Precedes(e, w[n])}) = plan.offset + n - 1
    <3>1. Cardinality({e \in F : Precedes(e, w[n])}) = m - 1
      BY <2>2, <2>4, <2>5
    <3>2. n \in Int
      BY <1>7
    <3>3. QED
      BY <1>1, <3>1, <3>2
  <2>8. QED
    BY <2>6, <2>7, Zenon
<1>10. DOMAIN w = 1..Len(w)
  BY <1>7
<1>11. IsPage(w)
  BY <1>8, <1>9, <1>10 DEF IsPage
<1>12. QED
  BY <1>11 DEF w, t

(***************************************************************************)
(* The inductive invariant.                                                *)
(***************************************************************************)
\* Which shape of execution each call belongs to, and what was fetched by then.
Shaped ==
  /\ pc = "done" <=> reply # "none"
  /\ pc \in {"start", "describe", "page", "ann"} => rows = <<>>
  /\ pc = "describe" => ~plan.noMatch
  /\ pc = "ann" => plan.knn
  /\ pc \in {"page", "scan", "count"} => ~plan.knn /\ ~plan.noMatch
  /\ pc = "page" => plan.sort = <<>> /\ plan.limit > 0
  /\ pc = "scan" => plan.sort # <<>> /\ plan.limit > 0
  /\ pc = "count" => plan.sort = <<>>
  /\ pc = "describe" => ~(plan.knn /\ (plan.sort # <<>> \/ plan.limit = 0))
  /\ pc \in {"page", "scan", "count", "ann"} => ~Unrunnable

\* What matches now, and what was fetched, matched at some moment.
Marked ==
  /\ pc # "start" => Matching \subseteq ever
  /\ \A i \in 1..Len(rows) : rows[i][1] \in ever

\* A fetched row that nobody wrote since still stands in the collection.
Current == \A i \in 1..Len(rows) : rows[i][1] \notin touched => rows[i] \in Found(Matching)

\* The page that waits for its count is right as long as nobody writes.
Counted == pc = "count" /\ touched = {} => IsPage(rows)

\* A retry finds the collection loaded, unless somebody released it again.
Retried == attempt = "retry" => loaded \/ faulted

RInv ==
  /\ TypeOK /\ Shaped /\ Marked /\ Current /\ Counted /\ Retried
  /\ FetchedOnce /\ NothingSkipped /\ TotalBracketed /\ RightPage /\ ErrorNeedsFault

\* The types in the form the steps use them.
LEMMA ReadTyped ==
  ASSUME TypeOK
  PROVE  /\ table \in [Keys -> Row \cup {NoRow}]
         /\ plan \in PlanType /\ plan.limit \in Nat /\ plan.offset \in Nat
         /\ rows \in Seq(Entity) /\ Len(rows) \in Nat /\ DOMAIN rows = 1..Len(rows)
         /\ \A i \in 1..Len(rows) : rows[i] \in Entity /\ rows[i][1] \in Keys /\ rows[i][1] \in Int
         /\ IsFiniteSet(ever) /\ Cardinality(ever) \in Nat
<1>1. table \in [Keys -> Row \cup {NoRow}] /\ plan \in PlanType /\ rows \in Seq(Entity)
  BY ReadAssumption DEF TypeOK
<1>2. plan.limit \in Nat /\ plan.offset \in Nat
  BY <1>1 DEF PlanType
<1>3. Len(rows) \in Nat /\ DOMAIN rows = 1..Len(rows) /\ \A i \in 1..Len(rows) : rows[i] \in Entity
  BY <1>1
<1>4. \A e \in Entity : e[1] \in Keys /\ e[1] \in Int
  BY ReadAssumption DEF Entity
<1>5. ever \in SUBSET Keys
  BY DEF TypeOK
<1>6. IsFiniteSet(ever)
  BY <1>5, FS_Subset, ReadAssumption
<1>7. Cardinality(ever) \in Nat
  BY <1>6, FS_CardinalityType
<1>8. QED
  BY <1>1, <1>2, <1>3, <1>4, <1>6, <1>7

\* The matches depend on the collection and the plan only.
LEMMA MatchFrame ==
  ASSUME UNCHANGED <<table, plan>>
  PROVE  Matching' = Matching /\ Found(Matching)' = Found(Matching)
<1>1. Matching' = Matching
  BY DEF Matching, Accepts
<1>2. QED
  BY <1>1 DEF Found

LEMMA PageFrame ==
  ASSUME UNCHANGED <<table, plan>>, NEW x
  PROVE  /\ hits' = x => (IsPage(hits)' <=> IsPage(x))
         /\ rows' = x => (IsPage(rows)' <=> IsPage(x))
<1>1. Matching' = Matching /\ Found(Matching)' = Found(Matching)
  BY MatchFrame
<1>2. \A d, e : Precedes(d, e)' = Precedes(d, e)
  BY DEF Precedes, Difference
<1>3. QED
  BY <1>1, <1>2 DEF IsPage

\* A search of size 0 has the empty page.
LEMMA EmptyPage ==
  ASSUME table \in [Keys -> Row \cup {NoRow}], plan \in PlanType, plan.limit = 0
  PROVE  IsPage(<<>>)
<1> DEFINE m == Cardinality(Matching) - plan.offset
<1>1. m \in Int
  BY MatchingFinite DEF PlanType
<1> HIDE DEF m
<1>2. Max({0, Min({0, m})}) = 0
  BY <1>1, PageSize
<1>3. Len(<<>>) = 0 /\ DOMAIN <<>> = {}
  OBVIOUS
<1>4. QED
  BY <1>2, <1>3 DEF IsPage, m

LEMMA ReadInit == Init => RInv
<1> SUFFICES ASSUME Init PROVE RInv
  OBVIOUS
<1>1. TypeOK
  <2>1. rows \in Seq(Entity) /\ hits \in Seq(Entity) /\ total \in Nat
    BY DEF Init
  <2>2. faulted \in BOOLEAN /\ table \in [Keys -> Row \cup {NoRow}]
    BY ReadAssumption DEF Init
  <2>3. QED
    BY <2>1, <2>2 DEF Init, TypeOK
<1>2. Len(rows) = 0 /\ DOMAIN rows = {}
  BY DEF Init
<1>3. Shaped /\ Marked /\ Current /\ Counted /\ Retried
  BY <1>2 DEF Init, Shaped, Marked, Current, Counted, Retried
<1>4. FetchedOnce /\ NothingSkipped /\ TotalBracketed /\ RightPage /\ ErrorNeedsFault
  BY <1>2 DEF Init, FetchedOnce, NothingSkipped, TotalBracketed, RightPage, ErrorNeedsFault
<1>5. QED
  BY <1>1, <1>3, <1>4 DEF RInv

(***************************************************************************)
(* The steps.                                                              *)
(***************************************************************************)
\* What has been fetched stays as it was found.
LEMMA RowsFrame ==
  ASSUME RInv, UNCHANGED <<table, plan, rows, touched, ever>>, pc # "start" \/ pc' = pc
  PROVE  Marked' /\ Current' /\ FetchedOnce'
<1>1. Matching' = Matching /\ Found(Matching)' = Found(Matching)
  BY MatchFrame
<1>2. QED
  BY <1>1 DEF RInv, Marked, Current, FetchedOnce

\* The auto-load, a release, or nothing at all.
LEMMA LoadInv ==
  ASSUME RInv, UNCHANGED <<table, exists, plan, pc, rows, hits, total, reply, touched, ever>>,
         loaded' \in BOOLEAN, attempt' \in {"first", "load", "retry"},
         faulted' \in BOOLEAN, faulted => faulted', Retried'
  PROVE  RInv'
<1>1. Matching' = Matching /\ Found(Matching)' = Found(Matching)
  BY MatchFrame
<1>2. Marked' /\ Current' /\ FetchedOnce'
  BY RowsFrame
<1>3. TypeOK'
  BY DEF RInv, TypeOK
<1>4. Shaped'
  BY DEF RInv, Shaped, Unrunnable
<1>5. Counted' /\ RightPage'
  <2>1. (IsPage(rows)' <=> IsPage(rows)) /\ (IsPage(hits)' <=> IsPage(hits))
    BY PageFrame
  <2>2. QED
    BY <2>1 DEF RInv, Counted, RightPage, ComparedByValue
<1>6. NothingSkipped'
  BY <1>1 DEF RInv, NothingSkipped
<1>7. TotalBracketed'
  BY <1>1 DEF RInv, TotalBracketed, CountsMatches, Misleading
<1>8. ErrorNeedsFault'
  BY DEF RInv, ErrorNeedsFault, TypeOK, Unrunnable
<1>9. QED
  BY <1>2, <1>3, <1>4, <1>5, <1>6, <1>7, <1>8 DEF RInv

\* The search ends with an error of the given kind.
LEMMA FailInv ==
  ASSUME RInv, pc \notin {"start", "done"}, NEW status \in {"notfound", "error"}, Fail(status),
         UNCHANGED <<table, loaded, exists, plan, attempt, rows, touched, ever>>,
         faulted' \in BOOLEAN, faulted => faulted',
         status = "error" => faulted' \/ Unrunnable
  PROVE  RInv'
<1>1. pc' = "done" /\ reply' = status /\ hits' = <<>> /\ total' = 0
  BY DEF Fail, Answer
<1>2. Marked' /\ Current' /\ FetchedOnce'
  BY RowsFrame
<1>3. TypeOK'
  <2>1. hits' \in Seq(Entity) /\ total' \in Nat
    BY <1>1
  <2>2. QED
    BY <1>1, <2>1 DEF RInv, TypeOK
<1>4. Shaped' /\ Counted' /\ NothingSkipped' /\ TotalBracketed' /\ RightPage' /\ ErrorNeedsFault'
  BY <1>1 DEF RInv, Shaped, Counted, NothingSkipped, TotalBracketed, RightPage, ErrorNeedsFault, Unrunnable
<1>5. Retried'
  BY DEF RInv, Retried, TypeOK
<1>6. QED
  BY <1>2, <1>3, <1>4, <1>5 DEF RInv

\* The first test of the plan; the search's history begins.
LEMMA StartInv ==
  ASSUME RInv, Start PROVE RInv'
<1>1. /\ pc = "start" /\ rows = <<>> /\ reply = "none"
      /\ touched' = {} /\ ever' = Matching
      /\ UNCHANGED <<table, loaded, exists, plan, attempt, rows, faulted>>
  BY DEF Start, RInv, Shaped
<1>2. \/ /\ pc' = "done" /\ hits' = <<>> /\ total' = 0
         /\ \/ reply' = "error" /\ Unrunnable
            \/ reply' = "ok" /\ ~Unrunnable /\ (plan.noMatch \/ plan.knn)
      \/ /\ pc' = "describe" /\ ~plan.noMatch /\ ~(plan.knn /\ (plan.sort # <<>> \/ plan.limit = 0))
         /\ UNCHANGED <<reply, hits, total>>
  BY <1>1 DEF Start, Answer, Fail, Unrunnable
<1>3. TypeOK'
  <2>1. hits' \in Seq(Entity) /\ total' \in Nat
    <3>1. <<>> \in Seq(Entity) /\ hits \in Seq(Entity) /\ total \in Nat
      BY DEF RInv, TypeOK
    <3>2. CASE hits' = <<>> /\ total' = 0
      BY <3>1, <3>2
    <3>3. CASE hits' = hits /\ total' = total
      BY <3>1, <3>3
    <3>4. QED
      BY <1>2, <3>2, <3>3
  <2>2. ever' \subseteq Keys /\ touched' \subseteq Keys
    BY <1>1 DEF Matching
  <2>3. QED
    BY <1>1, <1>2, <2>1, <2>2 DEF RInv, TypeOK
<1>4. Len(rows') = 0 /\ DOMAIN rows' = {} /\ Matching' = Matching
  BY <1>1, MatchFrame
<1>5. Shaped' /\ Marked' /\ Current' /\ Counted' /\ FetchedOnce'
  BY <1>1, <1>2, <1>4 DEF Shaped, Marked, Current, Counted, FetchedOnce
<1>6. NothingSkipped' /\ TotalBracketed' /\ RightPage' /\ ErrorNeedsFault'
  BY <1>1, <1>2 DEF NothingSkipped, TotalBracketed, RightPage, ErrorNeedsFault, Unrunnable
<1>7. Retried'
  BY <1>1 DEF RInv, Retried
<1>8. QED
  BY <1>3, <1>5, <1>6, <1>7 DEF RInv

\* The schema is there, or not; the shape of the execution is chosen.
LEMMA DescribeInv ==
  ASSUME RInv, Describe PROVE RInv'
<1>1. /\ pc = "describe" /\ rows = <<>> /\ reply = "none" /\ ~plan.noMatch
      /\ UNCHANGED <<table, loaded, exists, plan, attempt, rows, touched, ever, faulted>>
  BY DEF Describe, RInv, Shaped
<1>2. table \in [Keys -> Row \cup {NoRow}] /\ plan \in PlanType /\ plan.limit \in Nat
  BY ReadTyped DEF RInv
<1>3. Len(rows') = 0 /\ DOMAIN rows' = {}
  BY <1>1
<1>4. Marked' /\ Current' /\ FetchedOnce' /\ Retried'
  BY <1>1, RowsFrame DEF RInv, Retried
<1>5. CASE ~exists \/ plan.bad
  <2>1. Fail("notfound") \/ (Fail("error") /\ plan.bad)
    BY <1>5 DEF Describe
  <2>2. faulted' \in BOOLEAN /\ (faulted => faulted')
    BY <1>1 DEF RInv, TypeOK
  <2>3. plan.bad => Unrunnable
    BY <1>1 DEF RInv, Shaped, Unrunnable
  <2>4. QED
    BY <1>1, <2>1, <2>2, <2>3, FailInv
<1>6. CASE exists /\ ~plan.bad /\ ~plan.knn /\ plan.limit = 0 /\ plan.sort # <<>>
  <2>1. pc' = "done" /\ reply' = "ok" /\ hits' = <<>> /\ total' = 0
    BY <1>6 DEF Describe, Answer
  <2>2. TypeOK'
    <3>1. hits' \in Seq(Entity) /\ total' \in Nat
      BY <2>1
    <3>2. QED
      BY <1>1, <2>1, <3>1 DEF RInv, TypeOK
  <2>3. RightPage'
    <3>1. IsPage(<<>>)
      BY <1>2, <1>6, EmptyPage
    <3>2. IsPage(hits)'
      BY <1>1, <2>1, <3>1, PageFrame
    <3>3. QED
      BY <3>2 DEF RightPage
  <2>4. Shaped' /\ Counted' /\ NothingSkipped' /\ TotalBracketed' /\ ErrorNeedsFault'
    BY <1>1, <1>6, <2>1 DEF Shaped, Counted, NothingSkipped, TotalBracketed, Misleading, ErrorNeedsFault, Unrunnable
  <2>5. QED
    BY <1>4, <2>2, <2>3, <2>4 DEF RInv
<1>7. CASE exists /\ ~plan.bad /\ (plan.knn \/ plan.limit # 0 \/ plan.sort = <<>>)
  <2>1. /\ \/ pc' = "ann" /\ plan.knn
           \/ pc' = "count" /\ ~plan.knn /\ plan.limit = 0 /\ plan.sort = <<>>
           \/ pc' = "page" /\ ~plan.knn /\ plan.limit > 0 /\ plan.sort = <<>>
           \/ pc' = "scan" /\ ~plan.knn /\ plan.limit > 0 /\ plan.sort # <<>>
        /\ UNCHANGED <<reply, hits, total>>
    BY <1>1, <1>2, <1>7 DEF Describe
  <2>2. TypeOK'
    BY <1>1, <2>1 DEF RInv, TypeOK, Calls
  <2>3. Counted'
    <3>1. plan.limit = 0 => IsPage(<<>>)
      BY <1>2, EmptyPage
    <3>2. plan.limit = 0 => IsPage(rows)'
      BY <1>1, <3>1, PageFrame
    <3>3. QED
      BY <2>1, <3>2 DEF Counted
  <2>4. Shaped' /\ NothingSkipped'
    <3>1. ~Unrunnable'
      BY <1>1, <1>7 DEF RInv, Shaped, Unrunnable
    <3>2. QED
      BY <1>1, <1>3, <2>1, <3>1 DEF Shaped, NothingSkipped
  <2>5. TotalBracketed' /\ RightPage' /\ ErrorNeedsFault'
    BY <1>1, <2>1 DEF TotalBracketed, RightPage, ErrorNeedsFault
  <2>6. QED
    BY <1>4, <2>2, <2>3, <2>4, <2>5 DEF RInv
<1>8. QED
  BY <1>5, <1>6, <1>7

\* A count asked for after a full page, or instead of one.
LEMMA CountInv ==
  ASSUME RInv, Count PROVE RInv'
<1>1. /\ pc = "count" /\ plan.sort = <<>> /\ attempt' = "first"
      /\ pc' = "done" /\ reply' = "ok" /\ hits' = rows /\ total' = Cardinality(Matching)
      /\ UNCHANGED <<table, loaded, exists, plan, rows, touched, ever, faulted>>
  BY DEF Count, Answer, RInv, Shaped
<1>2. Marked' /\ Current' /\ FetchedOnce'
  BY <1>1, RowsFrame
<1>3. IsFiniteSet(Matching) /\ Cardinality(Matching) \in Nat /\ IsFiniteSet(ever) /\ Matching \subseteq ever
  BY <1>1, ReadTyped, MatchingFinite DEF RInv, Marked
<1>4. TypeOK'
  BY <1>1, <1>3 DEF RInv, TypeOK
<1>5. RightPage'
  <2>1. touched = {} => IsPage(rows)
    BY <1>1 DEF RInv, Counted
  <2>2. touched = {} => IsPage(hits)'
    BY <1>1, <2>1, PageFrame
  <2>3. QED
    BY <1>1, <2>2 DEF RightPage
<1>6. TotalBracketed'
  <2>1. Cardinality(Matching \ touched) <= Cardinality(Matching) /\ Cardinality(Matching) <= Cardinality(ever)
    BY <1>3, FS_Subset
  <2>2. Matching' = Matching
    BY <1>1, MatchFrame
  <2>3. CountsMatches'
    BY <1>1, <2>1, <2>2 DEF CountsMatches
  <2>4. QED
    BY <2>3 DEF TotalBracketed
<1>7. Shaped' /\ Counted' /\ NothingSkipped' /\ ErrorNeedsFault' /\ Retried'
  BY <1>1 DEF RInv, Shaped, Counted, NothingSkipped, ErrorNeedsFault, Retried, Unrunnable
<1>8. QED
  BY <1>2, <1>4, <1>5, <1>6, <1>7 DEF RInv

\* A page of a search without sort terms.
LEMMA PageInv ==
  ASSUME RInv, Page PROVE RInv'
<1>1. /\ pc = "page" /\ reply = "none" /\ ~plan.knn /\ plan.sort = <<>> /\ plan.limit > 0 /\ attempt' = "first"
      /\ UNCHANGED <<table, loaded, exists, plan, touched, ever, faulted>>
  BY DEF Page, RInv, Shaped
<1>2. PICK page \in QueryPages(Matching \ Skipped(plan.offset), plan.limit) :
        /\ rows' = page
        /\ IF Len(page) < plan.limit
           THEN Answer("ok", page, plan.offset + Len(page))
           ELSE pc' = "count" /\ UNCHANGED <<hits, total, reply>>
  BY DEF Page
<1>3. /\ table \in [Keys -> Row \cup {NoRow}] /\ plan \in PlanType /\ plan.limit \in Nat /\ plan.offset \in Nat
      /\ IsFiniteSet(ever) /\ IsFiniteSet(Matching) /\ Matching \subseteq ever
  BY <1>1, ReadTyped, MatchingFinite DEF RInv, Marked
<1>4. /\ page \in Seq(Entity) /\ Len(page) \in Nat /\ Len(page) <= plan.limit /\ DOMAIN page = 1..Len(page)
      /\ Ascending(page)
      /\ \A i \in 1..Len(page) : page[i][1] \in Matching /\ page[i] = <<page[i][1], table[page[i][1]]>>
  <2> DEFINE K == Matching \ Skipped(plan.offset)
             l == plan.limit
  <2>1. K \subseteq Matching /\ page \in QueryPages(K, l) /\ l \in Nat
    BY <1>3
  <2> HIDE DEF K, l
  <2>2. /\ page \in Seq(Entity) /\ Len(page) \in 0..l /\ DOMAIN page = 1..Len(page)
        /\ Ascending(page)
        /\ \A i \in 1..Len(page) : page[i][1] \in K /\ page[i] = <<page[i][1], table[page[i][1]]>>
    <3>1. table \in [Keys -> Row \cup {NoRow}]
      BY <1>3
    <3>2. QED
      BY <2>1, <3>1, PageRows
  <2>3. QED
    BY <2>1, <2>2 DEF l
<1>5. /\ IsPage(page)
      /\ Len(page) < plan.limit /\ (plan.offset = 0 \/ page # <<>>) =>
           plan.offset + Len(page) = Cardinality(Matching)
  BY <1>1, <1>3, PageIsRight
<1>6. Matching' = Matching /\ Found(Matching)' = Found(Matching) /\ IsPage(rows)'
  <2>1. Matching' = Matching /\ Found(Matching)' = Found(Matching)
    BY <1>1, MatchFrame
  <2>2. IsPage(rows)' <=> IsPage(page)
    BY <1>1, <1>2, PageFrame
  <2>3. QED
    BY <1>5, <2>1, <2>2
<1>7. Marked'
  BY <1>1, <1>2, <1>3, <1>4, <1>6 DEF Marked
<1>8. Current'
  <2>1. \A i \in 1..Len(page) : page[i] \in Found(Matching)
    BY <1>4 DEF Found
  <2>2. QED
    BY <1>2, <1>6, <2>1 DEF Current
<1>9. FetchedOnce'
  BY <1>2, <1>4 DEF FetchedOnce, Ascending
<1>10. CASE Len(page) < plan.limit
  <2>1. pc' = "done" /\ reply' = "ok" /\ hits' = page /\ total' = plan.offset + Len(page)
    BY <1>2, <1>10 DEF Answer
  <2>2. TypeOK'
    <3>1. total' \in Nat
      BY <1>3, <1>4, <2>1
    <3>2. QED
      BY <1>1, <1>2, <1>4, <2>1, <3>1 DEF RInv, TypeOK
  <2>3. IsPage(hits)'
    BY <1>1, <1>5, <2>1, PageFrame
  <2>4. TotalBracketed'
    <3>1. SUFFICES ASSUME ~Misleading' PROVE CountsMatches'
      BY DEF TotalBracketed
    <3>2. plan.offset = 0 \/ page # <<>>
      BY <1>1, <1>2, <1>3, <3>1 DEF Misleading
    <3>3. total' = Cardinality(Matching)
      BY <1>5, <1>10, <2>1, <3>2
    <3>4. Cardinality(Matching \ touched) <= Cardinality(Matching) /\ Cardinality(Matching) <= Cardinality(ever)
      BY <1>3, FS_Subset
    <3>5. QED
      BY <1>1, <1>6, <3>3, <3>4 DEF CountsMatches
  <2>5. Shaped' /\ Counted' /\ NothingSkipped' /\ RightPage' /\ ErrorNeedsFault' /\ Retried'
    BY <1>1, <2>1, <2>3 DEF RInv, Shaped, Counted, NothingSkipped, RightPage, ErrorNeedsFault, Retried, Unrunnable
  <2>6. QED
    BY <1>7, <1>8, <1>9, <2>2, <2>4, <2>5 DEF RInv
<1>11. CASE ~(Len(page) < plan.limit)
  <2>1. pc' = "count" /\ UNCHANGED <<hits, total, reply>>
    BY <1>2, <1>11
  <2>2. TypeOK'
    BY <1>1, <1>2, <1>4, <2>1 DEF RInv, TypeOK, Calls
  <2>3. Shaped'
    BY <1>1, <2>1 DEF RInv, Shaped, Unrunnable
  <2>4. Counted' /\ NothingSkipped' /\ TotalBracketed' /\ RightPage' /\ ErrorNeedsFault' /\ Retried'
    BY <1>1, <1>6, <2>1 DEF Counted, NothingSkipped, TotalBracketed, RightPage, ErrorNeedsFault, Retried
  <2>5. QED
    BY <1>7, <1>8, <1>9, <2>2, <2>3, <2>4 DEF RInv
<1>12. QED
  BY <1>10, <1>11

\* A vector search: its hits are matches, each at most once.
LEMMA AnnInv ==
  ASSUME RInv, Ann PROVE RInv'
<1> DEFINE n == Max({0, Min({plan.limit, Cardinality(Matching) - plan.offset})})
<1>1. /\ pc = "ann" /\ plan.knn /\ attempt' = "first"
      /\ UNCHANGED <<table, loaded, exists, plan, touched, ever, faulted>>
  BY DEF Ann, RInv, Shaped
<1>2. PICK hs \in [1..n -> Found(Matching)] : rows' = hs /\ Answer("ok", hs, n)
  BY DEF Ann
<1>3. /\ table \in [Keys -> Row \cup {NoRow}] /\ Matching \subseteq ever
      /\ \A k \in Matching : <<k, table[k]>> \in Entity
      /\ plan.limit \in Nat /\ Cardinality(Matching) - plan.offset \in Int
  BY <1>1, ReadTyped, MatchingFinite DEF RInv, Marked
<1>4. n \in Nat
  BY <1>3, PageSize
<1> HIDE DEF n
<1>5. \A e \in Found(Matching) : e \in Entity /\ e[1] \in ever
  BY <1>3 DEF Found
<1>6. hs \in [1..n -> Entity]
  BY <1>5
<1>7. hs \in Seq(Entity) /\ Len(hs) = n
  BY <1>4, <1>6
<1>8. pc' = "done" /\ reply' = "ok" /\ hits' = hs /\ total' = n
  BY <1>2 DEF Answer
<1>9. TypeOK'
  BY <1>1, <1>2, <1>4, <1>7, <1>8 DEF RInv, TypeOK
<1>10. Matching' = Matching /\ Found(Matching)' = Found(Matching)
  BY <1>1, MatchFrame
<1>11. Marked' /\ Current'
  BY <1>1, <1>2, <1>3, <1>5, <1>7, <1>10 DEF Marked, Current
<1>12. Shaped' /\ Counted' /\ FetchedOnce' /\ NothingSkipped' /\ TotalBracketed' /\ RightPage'
  BY <1>1, <1>8 DEF Shaped, Counted, FetchedOnce, NothingSkipped, TotalBracketed, RightPage
<1>13. ErrorNeedsFault' /\ Retried'
  BY <1>1, <1>8 DEF RInv, Shaped, ErrorNeedsFault, Retried, Unrunnable
<1>14. QED
  BY <1>9, <1>11, <1>12, <1>13 DEF RInv

\* Another client writes a row while the search is under way.
LEMMA PutInv ==
  ASSUME RInv, Put PROVE RInv'
<1>1. PICK k \in Keys, row \in Writes : /\ table' = [table EXCEPT ![k] = row]
                                        /\ touched' = touched \cup {k}
                                        /\ ever' = IF Accepts(row) THEN ever \cup {k} ELSE ever
  BY DEF Put
<1>2. /\ pc # "done" /\ reply = "none"
      /\ UNCHANGED <<loaded, exists, plan, pc, attempt, rows, hits, total, reply, faulted>>
  BY DEF Put, RInv, Shaped
<1>3. /\ table \in [Keys -> Row \cup {NoRow}] /\ row \in Row
      /\ \A i \in 1..Len(rows) : rows[i][1] \in Keys /\ rows[i] \in Entity
      /\ DOMAIN rows = 1..Len(rows)
  BY ReadTyped, ReadAssumption DEF RInv
<1>4. /\ \A j \in Keys : j # k => table'[j] = table[j] /\ (j \in Matching' <=> j \in Matching)
      /\ k \in Matching' <=> Accepts(row)
  BY <1>1, <1>2, <1>3 DEF Matching, Accepts
<1>5. TypeOK'
  <2>1. table' \in [Keys -> Row \cup {NoRow}]
    BY <1>1, <1>3
  <2>2. QED
    BY <1>1, <1>2, <2>1 DEF RInv, TypeOK
<1>6. Matching \subseteq Keys /\ Matching' \subseteq Keys
  BY DEF Matching
<1>7. Marked'
  <2>1. ever \subseteq ever'
    BY <1>1
  <2>2. pc # "start" => Matching' \subseteq ever'
    BY <1>1, <1>4, <1>6, <2>1 DEF RInv, Marked
  <2>3. QED
    BY <1>2, <2>1, <2>2 DEF RInv, Marked
<1>8. Current'
  <2> SUFFICES ASSUME NEW i \in 1..Len(rows), rows[i][1] \notin touched'
               PROVE  rows[i] \in Found(Matching)'
    BY <1>2 DEF Current
  <2>1. rows[i][1] # k /\ rows[i] \in Found(Matching)
    BY <1>1 DEF RInv, Current
  <2>2. PICK j \in Matching : rows[i] = <<j, table[j]>>
    BY <2>1 DEF Found
  <2>3. j # k /\ j \in Matching' /\ table'[j] = table[j]
    BY <1>4, <1>6, <2>1, <2>2
  <2>4. QED
    BY <2>2, <2>3 DEF Found
<1>9. NothingSkipped'
  <2>1. SUFFICES ASSUME pc = "scan", NEW j \in Matching', j \notin touched'
                 PROVE  \/ \E i \in DOMAIN rows : rows[i] = <<j, table'[j]>>
                        \/ pc = "scan" /\ \A i \in DOMAIN rows : rows[i][1] < j
    BY <1>2 DEF NothingSkipped
  <2>2. j # k /\ j \in Matching /\ j \notin touched /\ table'[j] = table[j]
    BY <1>1, <1>4, <1>6, <2>1
  <2>3. QED
    BY <2>1, <2>2 DEF RInv, NothingSkipped
<1>10. Counted'
  BY <1>1 DEF Counted
<1>11. Shaped' /\ FetchedOnce' /\ Retried'
  BY <1>2 DEF RInv, Shaped, FetchedOnce, Retried, Unrunnable
<1>12. TotalBracketed' /\ RightPage' /\ ErrorNeedsFault'
  BY <1>2 DEF TotalBracketed, RightPage, ErrorNeedsFault
<1>13. QED
  BY <1>5, <1>7, <1>8, <1>9, <1>10, <1>11, <1>12 DEF RInv

\* One batch of scanAll: it continues the rows in key order, leaves out none of
\* the matches the cursor passes, and the last one makes the answer.
LEMMA ScanInv ==
  ASSUME RInv, Scan PROVE RInv'
<1> DEFINE K == {k \in Matching : PastCursor(k)}
           N == Len(rows)
<1>1. /\ pc = "scan" /\ reply = "none" /\ ~plan.knn /\ ~plan.noMatch /\ plan.sort # <<>> /\ plan.limit > 0
      /\ attempt' = "first"
      /\ UNCHANGED <<table, loaded, exists, plan, touched, ever, faulted>>
  BY DEF Scan, RInv, Shaped
<1>2. PICK batch \in QueryPages(K, BatchSize) :
        /\ rows' = rows \o batch
        /\ IF Len(batch) < BatchSize
           THEN Answer("ok", Window(SliceStable(rows'), plan.offset, plan.limit), Len(rows'))
           ELSE UNCHANGED <<pc, hits, total, reply>>
  BY DEF Scan
<1>3. /\ table \in [Keys -> Row \cup {NoRow}] /\ plan \in PlanType /\ plan.limit \in Nat /\ plan.offset \in Nat
      /\ rows \in Seq(Entity) /\ N \in Nat /\ DOMAIN rows = 1..N
      /\ \A i \in 1..N : rows[i][1] \in Int
      /\ Matching \subseteq ever /\ Matching \subseteq Keys /\ Keys \subseteq Int /\ BatchSize \in Nat
  BY <1>1, ReadTyped, MatchingFinite, ReadAssumption DEF RInv, Marked
<1>4. Ascending(rows)
  BY <1>1, <1>3 DEF RInv, FetchedOnce, Ascending
<1>5. \A k \in Matching : k \in K <=> \A i \in 1..N : rows[i][1] < k
  <2>1. CASE rows = <<>>
    BY <2>1 DEF PastCursor
  <2>2. CASE rows # <<>>
    <3>1. N \in 1..N /\ N > 0
      BY <1>3, <2>2
    <3>2. ASSUME NEW i \in 1..N PROVE rows[i][1] <= rows[N][1]
      <4>1. N \in Nat /\ rows[i][1] \in Int /\ rows[N][1] \in Int
        BY <1>3, <3>1
      <4>2. i < N => rows[i][1] < rows[N][1]
        BY <1>4, <3>1 DEF Ascending
      <4> HIDE DEF N
      <4>3. i = N \/ i < N
        BY <4>1
      <4>4. QED
        BY <4>1, <4>2, <4>3
    <3>3. \A i \in 1..N : rows[i][1] <= rows[N][1]
      BY <3>2
    <3>4. ASSUME NEW k \in Matching, rows[N][1] < k, NEW i \in 1..N PROVE rows[i][1] < k
      <4>1. rows[i][1] \in Int /\ rows[N][1] \in Int /\ k \in Int /\ rows[i][1] <= rows[N][1]
        BY <1>3, <3>1, <3>3
      <4>2. QED
        BY <3>4, <4>1
    <3>5. \A k \in Matching : k \in K <=> rows[N][1] < k
      BY <2>2 DEF PastCursor
    <3>6. QED
      BY <3>1, <3>4, <3>5
  <2>3. QED
    BY <2>1, <2>2
<1>6. /\ batch \in Seq(Entity) /\ Len(batch) \in 0..BatchSize
      /\ Ascending(batch)
      /\ \A i \in 1..Len(batch) : batch[i][1] \in K /\ batch[i] = <<batch[i][1], table[batch[i][1]]>>
      /\ \A k \in K : \/ \E i \in 1..Len(batch) : batch[i] = <<k, table[k]>>
                      \/ Len(batch) = BatchSize /\ \A i \in 1..Len(batch) : batch[i][1] < k
  <2>1. K \subseteq Matching /\ table \in [Keys -> Row \cup {NoRow}] /\ BatchSize \in Nat
    BY <1>3
  <2> HIDE DEF K
  <2> DEFINE b == BatchSize
  <2>2. b \in Nat /\ batch \in QueryPages(K, b)
    BY <2>1
  <2> HIDE DEF b
  <2>3. /\ batch \in Seq(Entity) /\ Len(batch) \in 0..b /\ DOMAIN batch = 1..Len(batch)
        /\ Ascending(batch)
        /\ \A i \in 1..Len(batch) : batch[i][1] \in K /\ batch[i] = <<batch[i][1], table[batch[i][1]]>>
        /\ \A k \in K : \/ \E i \in 1..Len(batch) : batch[i] = <<k, table[k]>>
                        \/ Len(batch) = b /\ \A i \in 1..Len(batch) : batch[i][1] < k
    BY <2>1, <2>2, PageRows
  <2>4. QED
    BY <2>3 DEF b
<1> DEFINE B == Len(batch)
<1>7. B \in Nat /\ \A i \in 1..B : batch[i][1] \in Matching /\ batch[i][1] \in Int
  <2>1. B \in Nat
    BY <1>6
  <2>2. K \subseteq Matching /\ Matching \subseteq Int
    BY <1>3
  <2> HIDE DEF K
  <2>3. \A i \in 1..B : batch[i][1] \in K
    BY <1>6
  <2>4. QED
    BY <2>1, <2>2, <2>3
<1> HIDE DEF K
<1>8. /\ rows' \in Seq(Entity) /\ Len(rows') = N + B /\ DOMAIN rows' = 1..(N + B)
      /\ \A i \in 1..N : rows'[i] = rows[i]
      /\ \A i \in 1..B : rows'[N + i] = batch[i]
      /\ \A i \in 1..(N + B) : i \in 1..N \/ (i - N \in 1..B /\ i = N + (i - N))
  <2>1. /\ rows' \in Seq(Entity) /\ Len(rows') = N + B
        /\ \A i \in 1..(N + B) : rows'[i] = IF i <= N THEN rows[i] ELSE batch[i - N]
    BY <1>2, <1>3, <1>6, ConcatProperties
  <2>2. DOMAIN rows' = 1..(N + B)
    BY <2>1
  <2>3. \A i \in 1..N : i \in 1..(N + B) /\ i <= N
    BY <1>3, <1>7
  <2>4. N \in Nat /\ B \in Nat
    BY <1>3, <1>7
  <2>5. \A i \in 1..(N + B) : i \in 1..N \/ (i - N \in 1..B /\ i = N + (i - N))
    BY <1>3, <1>7
  <2> HIDE DEF N, B
  <2>6. \A i \in 1..N : rows'[i] = rows[i]
    BY <2>1, <2>3
  <2>7. ASSUME NEW i \in 1..B PROVE rows'[N + i] = batch[i]
    <3> DEFINE n == N + i
    <3>1. n \in 1..(N + B) /\ ~(n <= N) /\ n - N = i
      BY <2>4
    <3> HIDE DEF n
    <3>2. rows'[n] = batch[n - N]
      BY <2>1, <3>1
    <3>3. QED
      BY <3>1, <3>2 DEF n
  <2>8. QED
    BY <2>1, <2>2, <2>5, <2>6, <2>7
<1>9. \A i \in 1..N, j \in 1..B : rows[i][1] < batch[j][1]
  BY <1>5, <1>6, <1>7
<1> HIDE DEF N, B
<1>10. \A i, j \in 1..(N + B) : i < j => rows'[i][1] < rows'[j][1]
  <2> SUFFICES ASSUME NEW i \in 1..(N + B), NEW j \in 1..(N + B), i < j PROVE rows'[i][1] < rows'[j][1]
    OBVIOUS
  <2>1. CASE j \in 1..N
    <3>1. i \in 1..N
      BY <1>3, <1>7, <2>1
    <3>2. QED
      BY <1>4, <1>8, <2>1, <3>1 DEF Ascending, N
  <2>2. CASE i \in 1..N /\ j - N \in 1..B
    <3>1. rows'[i] = rows[i]
      BY <1>8, <2>2
    <3>2. j \notin 1..N => rows'[j] = batch[j - N]
      BY <1>8, <2>2
    <3>3. N \in Nat /\ B \in Nat
      BY <1>3, <1>7 DEF N
    <3>4. j \notin 1..N
      BY <2>2, <3>3
    <3>5. QED
      BY <1>9, <2>2, <3>1, <3>2, <3>4
  <2>3. CASE i - N \in 1..B /\ j - N \in 1..B
    <3>1. rows'[i] = batch[i - N] /\ rows'[j] = batch[j - N] /\ i - N < j - N
      BY <1>3, <1>7, <1>8, <2>3
    <3>2. QED
      BY <1>6, <2>3, <3>1 DEF Ascending, B
  <2>4. QED
    BY <1>8, <2>1, <2>2, <2>3
<1>11. Matching' = Matching /\ Found(Matching)' = Found(Matching)
  BY <1>1, MatchFrame
<1>12. FetchedOnce'
  BY <1>8, <1>10 DEF FetchedOnce
<1>13. Marked'
  <2>1. \A i \in 1..N : rows[i][1] \in ever
    BY DEF RInv, Marked, N
  <2>2. \A i \in 1..(N + B) : rows'[i][1] \in ever
    BY <1>3, <1>7, <1>8, <2>1
  <2>3. QED
    BY <1>1, <1>3, <1>8, <1>11, <2>2 DEF Marked
<1>14. Current'
  <2>1. \A i \in 1..N : rows[i][1] \notin touched => rows[i] \in Found(Matching)
    BY DEF RInv, Current, N
  <2>2. \A i \in 1..B : batch[i] \in Found(Matching)
    BY <1>6, <1>7 DEF Found, B
  <2>3. \A i \in 1..(N + B) : rows'[i][1] \notin touched => rows'[i] \in Found(Matching)
    BY <1>8, <2>1, <2>2
  <2>4. QED
    BY <1>1, <1>8, <1>11, <2>3 DEF Current
\* A stable match is among the rows now, or past a cursor that goes on.
<1>15. ASSUME NEW k \in Matching, k \notin touched
       PROVE  \/ \E i \in 1..(N + B) : rows'[i] = <<k, table[k]>>
              \/ B = BatchSize /\ \A i \in 1..(N + B) : rows'[i][1] < k
  <2>1. CASE \E i \in 1..N : rows[i] = <<k, table[k]>>
    <3>1. PICK i \in 1..N : rows[i] = <<k, table[k]>>
      BY <2>1
    <3>2. i \in 1..(N + B) /\ rows'[i] = rows[i]
      BY <1>3, <1>7, <1>8
    <3>3. QED
      BY <3>1, <3>2
  <2>2. CASE \A i \in 1..N : rows[i][1] < k
    <3>1. k \in K
      BY <1>5, <2>2 DEF N
    <3>2. CASE \E i \in 1..B : batch[i] = <<k, table[k]>>
      <4>1. PICK i \in 1..B : batch[i] = <<k, table[k]>>
        BY <3>2
      <4>2. N + i \in 1..(N + B) /\ rows'[N + i] = batch[i]
        BY <1>3, <1>7, <1>8
      <4>3. QED
        BY <4>1, <4>2
    <3>3. CASE B = BatchSize /\ \A i \in 1..B : batch[i][1] < k
      <4>1. \A i \in 1..(N + B) : rows'[i][1] < k
        BY <1>8, <2>2, <3>3
      <4>2. QED
        BY <3>3, <4>1
    <3>4. QED
      BY <1>6, <3>1, <3>2, <3>3 DEF B
  <2>3. QED
    BY <1>1, <1>3, <1>15, <2>1, <2>2 DEF RInv, NothingSkipped
<1>16. ASSUME B < BatchSize PROVE RInv'
  <2>1. /\ pc' = "done" /\ reply' = "ok" /\ total' = N + B
        /\ hits' = Window(SliceStable(rows'), plan.offset, plan.limit)
    BY <1>2, <1>8, <1>16 DEF Answer, B
  <2>2. \A k \in Matching \ touched : \E i \in 1..(N + B) : rows'[i] = <<k, table[k]>>
    <3>1. B \in Nat /\ BatchSize \in Nat /\ B # BatchSize
      BY <1>3, <1>7, <1>16
    <3>2. QED
      BY <1>15, <3>1
  <2>3. TypeOK'
    <3> DEFINE t == SliceStable(rows')
    <3>1. t \in Seq(Entity)
      BY <1>3, <1>8, SortedRows
    <3> HIDE DEF t
    <3>2. Window(t, plan.offset, plan.limit) \in Seq(Entity)
      BY <1>3, <3>1, WindowRows
    <3>3. hits' \in Seq(Entity) /\ total' \in Nat
      BY <1>3, <1>7, <2>1, <3>2 DEF t
    <3>4. QED
      BY <1>1, <1>8, <2>1, <3>3 DEF RInv, TypeOK
  <2>4. NothingSkipped'
    BY <1>1, <1>8, <1>11, <2>2 DEF NothingSkipped
  <2> DEFINE s == rows'
  <2>5. s \in Seq(Entity) /\ Ascending(s) /\ Len(s) = N + B
    BY <1>8, <1>10 DEF Ascending
  <2> HIDE DEF s
  <2>6. TotalBracketed'
    <3> DEFINE A == KeysOf(s, N + B)
    <3>1. IsFiniteSet(A) /\ Cardinality(A) = N + B
      <4>1. N + B \in 0..Len(s)
        BY <1>3, <1>7, <2>5
      <4>2. QED
        BY <2>5, <4>1, KeysCount
    <3>2. Matching \ touched \in SUBSET A
      <4>1. ASSUME NEW k \in Matching \ touched PROVE k \in A
        <5>1. PICK i \in 1..(N + B) : s[i] = <<k, table[k]>>
          BY <2>2 DEF s
        <5>2. s[i][1] = k
          BY <5>1
        <5>3. QED
          BY <5>2 DEF KeysOf
      <4>2. QED
        BY <4>1
    <3>3. A \in SUBSET ever /\ IsFiniteSet(ever)
      <4>1. \A i \in 1..(N + B) : s[i][1] \in ever
        BY <1>1, <1>8, <1>13 DEF Marked, s
      <4>2. QED
        BY <4>1, ReadTyped DEF KeysOf, RInv
    <3> HIDE DEF A
    <3>4. Cardinality(Matching \ touched) <= N + B /\ N + B <= Cardinality(ever)
      BY <3>1, <3>2, <3>3, FS_Subset
    <3>5. CountsMatches'
      BY <1>1, <1>11, <2>1, <3>4 DEF CountsMatches
    <3>6. QED
      BY <3>5 DEF TotalBracketed
  <2>7. RightPage'
    <3> SUFFICES ASSUME touched = {}, \A n \in DOMAIN plan.sort : ComparedByValue(plan.sort[n].field)
                 PROVE  IsPage(hits)'
      BY <1>1 DEF RightPage, ComparedByValue
    <3>1. {s[i] : i \in 1..Len(s)} = Found(Matching)
      <4>1. \A i \in 1..(N + B) : s[i] \in Found(Matching)
        BY <1>1, <1>8, <1>11, <1>14 DEF Current, s
      <4>2. \A k \in Matching : \E i \in 1..(N + B) : s[i] = <<k, table[k]>>
        BY <2>2 DEF s
      <4>3. QED
        BY <2>5, <4>1, <4>2 DEF Found
    <3>2. IsPage(Window(SliceStable(s), plan.offset, plan.limit))
      BY <1>3, <2>5, <3>1, SortIsRight
    <3>3. QED
      BY <1>1, <2>1, <3>2, PageFrame DEF s
  <2>8. Shaped' /\ Counted' /\ ErrorNeedsFault' /\ Retried'
    BY <1>1, <2>1 DEF RInv, Shaped, Counted, ErrorNeedsFault, Retried, Unrunnable
  <2>9. QED
    BY <1>12, <1>13, <1>14, <2>3, <2>4, <2>6, <2>7, <2>8 DEF RInv
<1>17. ASSUME ~(B < BatchSize) PROVE RInv'
  <2>1. pc' = "scan" /\ UNCHANGED <<hits, total, reply>>
    BY <1>1, <1>2, <1>17 DEF B
  <2>2. TypeOK'
    BY <1>1, <1>8, <2>1 DEF RInv, TypeOK
  <2>3. NothingSkipped'
    BY <1>1, <1>8, <1>11, <1>15, <2>1 DEF NothingSkipped
  <2>4. Shaped'
    BY <1>1, <2>1 DEF RInv, Shaped, Unrunnable
  <2>5. Counted' /\ TotalBracketed' /\ RightPage' /\ ErrorNeedsFault' /\ Retried'
    BY <1>1, <2>1 DEF Counted, TotalBracketed, RightPage, ErrorNeedsFault, Retried
  <2>6. QED
    BY <1>12, <1>13, <1>14, <2>2, <2>3, <2>4, <2>5 DEF RInv
<1>18. QED
  BY <1>16, <1>17

\* Every step of a search and of the other clients keeps the invariant.
LEMMA ReadNext == RInv /\ [Next]_vars => RInv'
<1> SUFFICES ASSUME RInv, [Next]_vars PROVE RInv'
  OBVIOUS
<1>1. /\ loaded \in BOOLEAN /\ attempt \in {"first", "load", "retry"}
      /\ faulted \in BOOLEAN
  BY DEF RInv, TypeOK
<1>2. ASSUME Refused PROVE RInv'
  <2>1. /\ UNCHANGED <<table, loaded, exists, plan, pc, rows, hits, total, reply, touched, ever, faulted>>
        /\ attempt' = "load"
    BY <1>2 DEF Refused
  <2>2. Retried'
    BY <2>1 DEF Retried
  <2>3. QED
    BY <1>1, <2>1, <2>2, LoadInv
<1>3. ASSUME Load PROVE RInv'
  <2>1. /\ UNCHANGED <<table, exists, plan, pc, rows, hits, total, reply, touched, ever, faulted>>
        /\ attempt' = "retry" /\ loaded' = TRUE
    BY <1>3 DEF Load
  <2>2. Retried'
    BY <2>1 DEF Retried
  <2>3. QED
    BY <1>1, <2>1, <2>2, LoadInv
<1>4. ASSUME Release PROVE RInv'
  <2>1. /\ UNCHANGED <<table, exists, plan, pc, attempt, rows, hits, total, reply, touched, ever>>
        /\ loaded' = FALSE /\ faulted' = TRUE
    BY <1>4 DEF Release
  <2>2. Retried'
    BY <2>1 DEF Retried
  <2>3. QED
    BY <1>1, <2>1, <2>2, LoadInv
<1>5. ASSUME UNCHANGED vars PROVE RInv'
  <2>1. UNCHANGED <<table, loaded, exists, plan, pc, attempt, rows, hits, total, reply, touched, ever, faulted>>
    BY <1>5 DEF vars
  <2>2. Retried'
    BY <2>1 DEF RInv, Retried
  <2>3. QED
    BY <1>1, <2>1, <2>2, LoadInv
<1>6. ASSUME RefusedAgain PROVE RInv'
  <2>1. /\ pc \in Calls /\ ~loaded /\ attempt = "retry" /\ Fail("error")
        /\ UNCHANGED <<table, loaded, exists, plan, attempt, rows, touched, ever, faulted>>
    BY <1>6 DEF RefusedAgain
  <2>2. faulted'
    BY <2>1 DEF RInv, Retried
  <2>3. pc \notin {"start", "done"}
    BY <2>1 DEF Calls
  <2>4. QED
    BY <1>1, <2>1, <2>2, <2>3, FailInv
<1>7. ASSUME CallFails PROVE RInv'
  <2>1. /\ pc \in Calls \cup {"describe"} /\ Fail("error")
        /\ faulted' = TRUE
        /\ UNCHANGED <<table, loaded, exists, plan, attempt, rows, touched, ever>>
    BY <1>7 DEF CallFails
  <2>2. pc \notin {"start", "done"}
    BY <2>1 DEF Calls
  <2>3. QED
    BY <2>1, <2>2, FailInv
<1>8. QED
  BY <1>2, <1>3, <1>4, <1>5, <1>6, <1>7, StartInv, DescribeInv, PageInv, ScanInv, CountInv, AnnInv, PutInv
  DEF Next, SearchStep, Done

(***************************************************************************)
(* The theorems.                                                           *)
(***************************************************************************)
LEMMA ReadInvariant == Spec => []RInv
BY ReadInit, ReadNext, PTL DEF Spec

\* The state of a search keeps its types: the rows fetched and the hits answered
\* are entities of the collection, and its total is a natural number.
THEOREM SearchTyped == Spec => []TypeOK
<1>1. RInv => TypeOK
  BY DEF RInv
<1>2. QED
  BY <1>1, ReadInvariant, PTL

\* scanAll and queryPage never fetch an entity twice: with any batch size, and
\* any writes of other clients between two batches, the rows stand in strictly
\* ascending key order.
THEOREM ScanFetchesOnce == Spec => []FetchedOnce
<1>1. RInv => FetchedOnce
  BY DEF RInv
<1>2. QED
  BY <1>1, ReadInvariant, PTL

\* scanAll loses no row: a match that nobody writes during the search is among
\* the rows, or still ahead of a cursor that goes on.
THEOREM ScanSkipsNothing == Spec => []NothingSkipped
<1>1. RInv => NothingSkipped
  BY DEF RInv
<1>2. QED
  BY <1>1, ReadInvariant, PTL

\* The total Search answers, from the length of an underfilled page, from a scan
\* or from a count of its own, lies between the rows that matched throughout the
\* search and the rows that matched at some moment of it.
THEOREM TotalsBracketed == Spec => []TotalBracketed
<1>1. RInv => TotalBracketed
  BY DEF RInv
<1>2. QED
  BY <1>1, ReadInvariant, PTL

\* An undisturbed Search answers the right page, whichever way it was taken: the
\* store's own offset and limit, or scanAll, sort.SliceStable and window.
THEOREM PagesRight == Spec => []RightPage
<1>1. RInv => RightPage
  BY DEF RInv
<1>2. QED
  BY <1>1, ReadInvariant, PTL

\* queryOpt and searchOpt hide an unloaded collection: Search answers an internal
\* error only after a call failed, after somebody released the collection, or for
\* a plan it has no execution for, and such a plan it never answers.
THEOREM ErrorsHaveFaults == Spec => []ErrorNeedsFault
<1>1. RInv => ErrorNeedsFault
  BY DEF RInv
<1>2. QED
  BY <1>1, ReadInvariant, PTL
=============================================================================
