---------------------------- MODULE EsQueryProofs ----------------------------
(***************************************************************************)
(* The theorems of EsQuery, for queries of every depth: a planned search   *)
(* selects the rows its query matches, it is refused for a cause only, its *)
(* filter has a text, and its hits show the fields that _source asks for.  *)
(*                                                                         *)
(* Every function of EsQuery is first shown to be what its recursive       *)
(* definition says, level by level as in ExprProofs.  What negated relies  *)
(* on is a set of expressions that is closed under it (Proper); the        *)
(* induction over queries then follows a query through parse, fold and     *)
(* build at once.                                                          *)
(***************************************************************************)
EXTENDS EsQuery, ExprProofs

(***************************************************************************)
(* Levels.                                                                 *)
(***************************************************************************)
\* The queries one level above those of S.
QueriesOver(S) ==
  Clauses \cup [k : {"bool"}, must : Seq(S), should : Seq(S), mustNot : Seq(S), msm : Nat]

IsQueryLevels(f, N) == f = [n \in 0..N |-> IF n = 0 THEN Clauses ELSE QueriesOver(f[n - 1])]

\* The levels are what their recursive definition says.
LEMMA QueryLevelSteps ==
  /\ QueryLevels[0] = Clauses
  /\ \A n \in 0..Depth : n # 0 => QueryLevels[n] = QueriesOver(QueryLevels[n - 1])
<1> DEFINE T == {N \in Nat : \E f : IsQueryLevels(f, N)}
<1>1. 0 \in T
  <2> DEFINE f == [n \in 0..0 |-> Clauses]
  <2>1. f = [n \in 0..0 |-> IF n = 0 THEN Clauses ELSE QueriesOver(f[n - 1])]
    OBVIOUS
  <2>2. IsQueryLevels(f, 0)
    BY <2>1 DEF IsQueryLevels
  <2>3. QED
    BY <2>2
<1>2. ASSUME NEW N \in 0..Depth, N # 0, N - 1 \in T PROVE N \in T
  <2>1. PICK f : IsQueryLevels(f, N - 1)
    BY <1>2
  <2> DEFINE g == [n \in 0..N |-> IF n = 0 THEN Clauses ELSE QueriesOver(f[n - 1])]
  <2>2. N \in Nat /\ N - 1 \in Nat
    BY <1>2, QueryAssumption
  <2>3. ASSUME NEW n \in 0..(N - 1) PROVE f[n] = IF n = 0 THEN Clauses ELSE QueriesOver(f[n - 1])
    BY <2>1 DEF IsQueryLevels
  <2>4. ASSUME NEW n \in 0..N, n # 0 PROVE g[n - 1] = f[n - 1]
    <3>1. n - 1 \in 0..(N - 1) /\ n - 1 \in 0..N
      BY <2>2, <2>4
    <3>2. QED
      BY <2>3, <3>1
  <2>5. \A n \in 0..N : (IF n = 0 THEN Clauses ELSE QueriesOver(f[n - 1])) = IF n = 0 THEN Clauses ELSE QueriesOver(g[n - 1])
    <3> HIDE DEF g
    <3>1. QED
      BY <2>4
  <2>6. g = [n \in 0..N |-> IF n = 0 THEN Clauses ELSE QueriesOver(g[n - 1])]
    <3> DEFINE A(n) == IF n = 0 THEN Clauses ELSE QueriesOver(f[n - 1])
               B(n) == IF n = 0 THEN Clauses ELSE QueriesOver(g[n - 1])
    <3>1. g = [n \in 0..N |-> A(n)] /\ \A n \in 0..N : A(n) = B(n)
      BY <2>5
    <3> HIDE DEF A, B, g
    <3>2. g = [n \in 0..N |-> B(n)]
      BY <3>1
    <3>3. QED
      BY <3>2 DEF B
  <2> HIDE DEF g
  <2>7. IsQueryLevels(g, N)
    BY <2>6 DEF IsQueryLevels
  <2>8. QED
    BY <2>2, <2>7
<1>3. Depth \in Nat /\ Depth \in 0..Depth
  BY QueryAssumption
<1>4. Depth \in T
  <2> HIDE DEF T
  <2>1. QED
    BY <1>1, <1>2, <1>3, Climb
<1>5. IsQueryLevels(QueryLevels, Depth)
  <2>1. QueryLevels = CHOOSE f : IsQueryLevels(f, Depth)
    BY DEF QueryLevels, IsQueryLevels, QueriesOver
  <2>2. QED
    BY <1>4, <2>1
<1>6. \A n \in 0..Depth : QueryLevels[n] = IF n = 0 THEN Clauses ELSE QueriesOver(QueryLevels[n - 1])
  BY <1>5 DEF IsQueryLevels
<1>7. QED
  BY <1>3, <1>6

\* Every level holds the levels below it.
LEMMA QueryGrow ==
  /\ \A n \in 0..Depth : n # 0 => QueryLevels[n - 1] \subseteq QueryLevels[n]
  /\ \A n \in 0..Depth : QueryLevels[n] \subseteq Queries
<1>1. Depth \in Nat
  BY QueryAssumption
<1> DEFINE T == {n \in 0..Depth : n # 0 => QueryLevels[n - 1] \subseteq QueryLevels[n]}
<1>2. 0 \in T
  BY <1>1
<1>3. ASSUME NEW n \in 0..Depth, n # 0, n - 1 \in T PROVE n \in T
  <2>1. QueryLevels[n] = QueriesOver(QueryLevels[n - 1])
    BY <1>3, QueryLevelSteps
  <2>2. CASE n = 1
    BY <2>1, <2>2, QueryLevelSteps DEF QueriesOver
  <2>3. CASE n # 1
    <3> DEFINE a == QueryLevels[(n - 1) - 1]
               b == QueryLevels[n - 1]
    <3>1. n - 1 \in 0..Depth /\ n - 1 # 0
      BY <1>1, <1>3, <2>3
    <3>2. b = QueriesOver(a) /\ a \subseteq b
      BY <1>3, <3>1, QueryLevelSteps
    <3>3. QueriesOver(a) \subseteq QueriesOver(b)
      <4> HIDE DEF a, b
      <4>1. Seq(a) \subseteq Seq(b)
        BY <3>2
      <4>2. [k : {"bool"}, must : Seq(a), should : Seq(a), mustNot : Seq(a), msm : Nat]
              \subseteq [k : {"bool"}, must : Seq(b), should : Seq(b), mustNot : Seq(b), msm : Nat]
        BY <4>1
      <4>3. QED
        BY <4>2 DEF QueriesOver
    <3>4. QED
      BY <2>1, <3>2, <3>3
  <2>4. QED
    BY <2>2, <2>3
<1>4. \A n \in 0..Depth : n \in T
  <2> HIDE DEF T
  <2>1. QED
    BY <1>1, <1>2, <1>3, Climb
<1> DEFINE D == {k \in 0..Depth : QueryLevels[Depth - k] \subseteq Queries}
<1>5. 0 \in D
  BY <1>1 DEF Queries
<1>6. ASSUME NEW k \in 0..Depth, k # 0, k - 1 \in D PROVE k \in D
  <2>1. Depth - (k - 1) \in 0..Depth /\ Depth - (k - 1) # 0 /\ (Depth - (k - 1)) - 1 = Depth - k
    BY <1>1, <1>6
  <2>2. QueryLevels[Depth - k] \subseteq QueryLevels[Depth - (k - 1)]
    BY <1>4, <2>1
  <2>3. QED
    BY <1>6, <2>2
<1>7. \A k \in 0..Depth : k \in D
  <2> HIDE DEF D
  <2>1. QED
    BY <1>1, <1>5, <1>6, Climb
<1>8. ASSUME NEW n \in 0..Depth PROVE QueryLevels[n] \subseteq Queries
  <2>1. Depth - n \in 0..Depth /\ Depth - (Depth - n) = n
    BY <1>1
  <2>2. QED
    BY <1>7, <2>1
<1>9. QED
  BY <1>4, <1>8

\* What a query of n levels is made of.
LEMMA QueryParts ==
  ASSUME NEW n \in 0..Depth, NEW q \in QueryLevels[n]
  PROVE  /\ q.k \in {"all", "none", "term", "terms", "match", "range", "exists", "bool"}
         /\ q.k # "bool" => q \in Clauses
         /\ q.k = "bool" =>
              /\ n # 0 /\ n - 1 \in 0..Depth
              /\ q.must \in Seq(QueryLevels[n - 1]) /\ q.should \in Seq(QueryLevels[n - 1])
              /\ q.mustNot \in Seq(QueryLevels[n - 1]) /\ q.msm \in Nat
              /\ q = Bool(q.must, q.should, q.mustNot, q.msm)
<1>1. ASSUME q \in Clauses
      PROVE  q.k \in {"all", "none", "term", "terms", "match", "range", "exists"}
  BY <1>1 DEF Clauses
<1>2. CASE n = 0
  BY <1>1, <1>2, QueryLevelSteps
<1>3. CASE n # 0
  <2> DEFINE G == Seq(QueryLevels[n - 1])
  <2>1. q \in Clauses \cup [k : {"bool"}, must : G, should : G, mustNot : G, msm : Nat]
    BY <1>3, QueryLevelSteps DEF QueriesOver
  <2>2. n - 1 \in 0..Depth
    BY <1>3, QueryAssumption
  <2> HIDE DEF G
  <2>3. CASE q \in Clauses
    BY <1>1, <2>3
  <2>4. CASE q \in [k : {"bool"}, must : G, should : G, mustNot : G, msm : Nat]
    <3>1. /\ q.k = "bool" /\ q.must \in G /\ q.should \in G /\ q.mustNot \in G /\ q.msm \in Nat
          /\ q = [k |-> "bool", must |-> q.must, should |-> q.should, mustNot |-> q.mustNot, msm |-> q.msm]
      BY <2>4
    <3>2. QED
      BY <1>3, <2>2, <3>1 DEF G, Bool
  <2>5. QED
    BY <2>1, <2>3, <2>4
<1>4. QED
  BY <1>2, <1>3

\* What makes a query of n levels.
LEMMA QueryMade ==
  ASSUME NEW n \in 0..Depth
  PROVE  /\ Clauses \subseteq QueryLevels[n]
         /\ n # 0 => \A a, b, c \in Seq(QueryLevels[n - 1]) : \A m \in Nat :
                       Bool(a, b, c, m) \in QueryLevels[n]
<1>1. CASE n = 0
  BY <1>1, QueryLevelSteps
<1>2. CASE n # 0
  <2> DEFINE S == QueryLevels[n - 1]
  <2>1. QueryLevels[n] = QueriesOver(S)
    BY <1>2, QueryLevelSteps
  <2> HIDE DEF S
  <2>2. \A a, b, c \in Seq(S) : \A m \in Nat : Bool(a, b, c, m) \in QueriesOver(S)
    BY DEF QueriesOver, Bool
  <2>3. QED
    BY <2>1, <2>2 DEF S, QueriesOver
<1>3. QED
  BY <1>1, <1>2

(***************************************************************************)
(* The functions, step by step.                                            *)
(***************************************************************************)
\* One step of Parse, f being what it makes of the parts.
ParseStepOf(f, q) ==
  CASE q.k = "bool" -> Pin(Bool(Mapped(f, q.must), Mapped(f, q.should), Mapped(f, q.mustNot), q.msm))
    [] q.k = "terms" -> IF q.vs = {} THEN MatchNone ELSE q
    [] OTHER -> q

IsParse(f, S) == f = [q \in S |-> ParseStepOf(f, q)]

LEMMA ParseLocal ==
  ASSUME NEW n \in 0..Depth, NEW q \in QueryLevels[n], NEW f, NEW g,
         n # 0 => \A y \in QueryLevels[n - 1] : f[y] = g[y]
  PROVE  ParseStepOf(f, q) = ParseStepOf(g, q)
<1>1. CASE q.k = "bool"
  <2>1. /\ n # 0 /\ q.must \in Seq(QueryLevels[n - 1]) /\ q.should \in Seq(QueryLevels[n - 1])
        /\ q.mustNot \in Seq(QueryLevels[n - 1])
    BY <1>1, QueryParts
  <2>2. \A s \in {q.must, q.should, q.mustNot} : \A i \in DOMAIN s : f[s[i]] = g[s[i]]
    BY <2>1
  <2>3. /\ Mapped(f, q.must) = Mapped(g, q.must) /\ Mapped(f, q.should) = Mapped(g, q.should)
        /\ Mapped(f, q.mustNot) = Mapped(g, q.mustNot)
    BY <2>2 DEF Mapped
  <2>4. QED
    BY <1>1, <2>3 DEF ParseStepOf
<1>2. CASE q.k # "bool"
  BY <1>2, QueryParts DEF ParseStepOf
<1>3. QED
  BY <1>1, <1>2

\* Parse is what its recursive definition says.
LEMMA ParseSteps ==
  \A x \in Queries : Parse[x] = ParseStepOf(Parse, x)
<1> DEFINE T == {n \in 0..Depth : \E f : IsParse(f, QueryLevels[n])}
<1>1. Depth \in Nat /\ Depth \in 0..Depth /\ 0 \in 0..Depth
  BY QueryAssumption
<1>2. 0 \in T
  <2> DEFINE S == QueryLevels[0]
             f == [x \in S |-> ParseStepOf(<<>>, x)]
  <2>1. \A x \in S : ParseStepOf(<<>>, x) = ParseStepOf(f, x)
    <3> HIDE DEF f
    <3>1. QED
      BY <1>1, ParseLocal
  <2>2. f = [x \in S |-> ParseStepOf(f, x)]
    <3> DEFINE A(x) == ParseStepOf(<<>>, x)
               B(x) == ParseStepOf(f, x)
    <3>1. f = [x \in S |-> A(x)] /\ \A x \in S : A(x) = B(x)
      BY <2>1
    <3> HIDE DEF A, B, f, S
    <3>2. f = [x \in S |-> B(x)]
      BY <3>1
    <3>3. QED
      BY <3>2 DEF B
  <2> HIDE DEF f
  <2>3. IsParse(f, QueryLevels[0])
    BY <2>2 DEF IsParse
  <2>4. QED
    BY <1>1, <2>3
<1>3. ASSUME NEW n \in 0..Depth, n # 0, n - 1 \in T PROVE n \in T
  <2>1. PICK f : IsParse(f, QueryLevels[n - 1])
    BY <1>3
  <2> DEFINE S == QueryLevels[n]
             g == [x \in S |-> ParseStepOf(f, x)]
  <2>2. QueryLevels[n - 1] \subseteq S
    BY <1>3, QueryGrow
  <2>3. \A y \in QueryLevels[n - 1] : f[y] = ParseStepOf(f, y)
    BY <2>1 DEF IsParse
  <2>4. \A y \in QueryLevels[n - 1] : g[y] = f[y]
    BY <2>2, <2>3
  <2>5. \A x \in S : ParseStepOf(f, x) = ParseStepOf(g, x)
    <3> HIDE DEF g
    <3>1. QED
      BY <2>4, ParseLocal
  <2>6. g = [x \in S |-> ParseStepOf(g, x)]
    <3> DEFINE A(x) == ParseStepOf(f, x)
               B(x) == ParseStepOf(g, x)
    <3>1. g = [x \in S |-> A(x)] /\ \A x \in S : A(x) = B(x)
      BY <2>5
    <3> HIDE DEF A, B, g, S
    <3>2. g = [x \in S |-> B(x)]
      BY <3>1
    <3>3. QED
      BY <3>2 DEF B
  <2> HIDE DEF g
  <2>7. IsParse(g, QueryLevels[n])
    BY <2>6 DEF IsParse
  <2>8. QED
    BY <2>7
<1>4. Depth \in T
  <2> HIDE DEF T
  <2>1. QED
    BY <1>1, <1>2, <1>3, Climb
<1>5. IsParse(Parse, Queries)
  <2>1. Parse = CHOOSE f : IsParse(f, Queries)
    BY DEF Parse, IsParse, ParseStepOf
  <2>2. \E f : IsParse(f, Queries)
    BY <1>4 DEF Queries
  <2>3. QED
    BY <2>1, <2>2
<1>6. QED
  BY <1>5 DEF IsParse

\* One step of fold.
FoldStepOf(f, q) ==
  IF q.k # "bool" THEN q
  ELSE FoldBool(Bool(Mapped(f, q.must), Mapped(f, q.should), Mapped(f, q.mustNot), q.msm))

IsFold(f, S) == f = [q \in S |-> FoldStepOf(f, q)]

LEMMA FoldLocal ==
  ASSUME NEW n \in 0..Depth, NEW q \in QueryLevels[n], NEW f, NEW g,
         n # 0 => \A y \in QueryLevels[n - 1] : f[y] = g[y]
  PROVE  FoldStepOf(f, q) = FoldStepOf(g, q)
<1>1. CASE q.k = "bool"
  <2>1. /\ n # 0 /\ q.must \in Seq(QueryLevels[n - 1]) /\ q.should \in Seq(QueryLevels[n - 1])
        /\ q.mustNot \in Seq(QueryLevels[n - 1])
    BY <1>1, QueryParts
  <2>2. \A s \in {q.must, q.should, q.mustNot} : \A i \in DOMAIN s : f[s[i]] = g[s[i]]
    BY <2>1
  <2>3. /\ Mapped(f, q.must) = Mapped(g, q.must) /\ Mapped(f, q.should) = Mapped(g, q.should)
        /\ Mapped(f, q.mustNot) = Mapped(g, q.mustNot)
    BY <2>2 DEF Mapped
  <2>4. QED
    BY <1>1, <2>3 DEF FoldStepOf
<1>2. CASE q.k # "bool"
  BY <1>2, QueryParts DEF FoldStepOf
<1>3. QED
  BY <1>1, <1>2

\* Fold is what its recursive definition says.
LEMMA FoldSteps ==
  \A x \in Queries : Fold[x] = FoldStepOf(Fold, x)
<1> DEFINE T == {n \in 0..Depth : \E f : IsFold(f, QueryLevels[n])}
<1>1. Depth \in Nat /\ Depth \in 0..Depth /\ 0 \in 0..Depth
  BY QueryAssumption
<1>2. 0 \in T
  <2> DEFINE S == QueryLevels[0]
             f == [x \in S |-> FoldStepOf(<<>>, x)]
  <2>1. \A x \in S : FoldStepOf(<<>>, x) = FoldStepOf(f, x)
    <3> HIDE DEF f
    <3>1. QED
      BY <1>1, FoldLocal
  <2>2. f = [x \in S |-> FoldStepOf(f, x)]
    <3> DEFINE A(x) == FoldStepOf(<<>>, x)
               B(x) == FoldStepOf(f, x)
    <3>1. f = [x \in S |-> A(x)] /\ \A x \in S : A(x) = B(x)
      BY <2>1
    <3> HIDE DEF A, B, f, S
    <3>2. f = [x \in S |-> B(x)]
      BY <3>1
    <3>3. QED
      BY <3>2 DEF B
  <2> HIDE DEF f
  <2>3. IsFold(f, QueryLevels[0])
    BY <2>2 DEF IsFold
  <2>4. QED
    BY <1>1, <2>3
<1>3. ASSUME NEW n \in 0..Depth, n # 0, n - 1 \in T PROVE n \in T
  <2>1. PICK f : IsFold(f, QueryLevels[n - 1])
    BY <1>3
  <2> DEFINE S == QueryLevels[n]
             g == [x \in S |-> FoldStepOf(f, x)]
  <2>2. QueryLevels[n - 1] \subseteq S
    BY <1>3, QueryGrow
  <2>3. \A y \in QueryLevels[n - 1] : f[y] = FoldStepOf(f, y)
    BY <2>1 DEF IsFold
  <2>4. \A y \in QueryLevels[n - 1] : g[y] = f[y]
    BY <2>2, <2>3
  <2>5. \A x \in S : FoldStepOf(f, x) = FoldStepOf(g, x)
    <3> HIDE DEF g
    <3>1. QED
      BY <2>4, FoldLocal
  <2>6. g = [x \in S |-> FoldStepOf(g, x)]
    <3> DEFINE A(x) == FoldStepOf(f, x)
               B(x) == FoldStepOf(g, x)
    <3>1. g = [x \in S |-> A(x)] /\ \A x \in S : A(x) = B(x)
      BY <2>5
    <3> HIDE DEF A, B, g, S
    <3>2. g = [x \in S |-> B(x)]
      BY <3>1
    <3>3. QED
      BY <3>2 DEF B
  <2> HIDE DEF g
  <2>7. IsFold(g, QueryLevels[n])
    BY <2>6 DEF IsFold
  <2>8. QED
    BY <2>7
<1>4. Depth \in T
  <2> HIDE DEF T
  <2>1. QED
    BY <1>1, <1>2, <1>3, Climb
<1>5. IsFold(Fold, Queries)
  <2>1. Fold = CHOOSE f : IsFold(f, Queries)
    BY DEF Fold, IsFold, FoldStepOf
  <2>2. \E f : IsFold(f, Queries)
    BY <1>4 DEF Queries
  <2>3. QED
    BY <2>1, <2>2
<1>6. QED
  BY <1>5 DEF IsFold

\* One step of buildExpr.
BuildStepOf(f, q) ==
  IF q.k # "bool" THEN LeafExpr(q)
  ELSE BoolExpr(Mapped(f, q.must), Mapped(f, q.should), Mapped(f, q.mustNot))

IsBuild(f, S) == f = [q \in S |-> BuildStepOf(f, q)]

LEMMA BuildLocal ==
  ASSUME NEW n \in 0..Depth, NEW q \in QueryLevels[n], NEW f, NEW g,
         n # 0 => \A y \in QueryLevels[n - 1] : f[y] = g[y]
  PROVE  BuildStepOf(f, q) = BuildStepOf(g, q)
<1>1. CASE q.k = "bool"
  <2>1. /\ n # 0 /\ q.must \in Seq(QueryLevels[n - 1]) /\ q.should \in Seq(QueryLevels[n - 1])
        /\ q.mustNot \in Seq(QueryLevels[n - 1])
    BY <1>1, QueryParts
  <2>2. \A s \in {q.must, q.should, q.mustNot} : \A i \in DOMAIN s : f[s[i]] = g[s[i]]
    BY <2>1
  <2>3. /\ Mapped(f, q.must) = Mapped(g, q.must) /\ Mapped(f, q.should) = Mapped(g, q.should)
        /\ Mapped(f, q.mustNot) = Mapped(g, q.mustNot)
    BY <2>2 DEF Mapped
  <2>4. QED
    BY <1>1, <2>3 DEF BuildStepOf
<1>2. CASE q.k # "bool"
  BY <1>2, QueryParts DEF BuildStepOf
<1>3. QED
  BY <1>1, <1>2

\* BuildExpr is what its recursive definition says.
LEMMA BuildSteps ==
  \A x \in Queries : BuildExpr[x] = BuildStepOf(BuildExpr, x)
<1> DEFINE T == {n \in 0..Depth : \E f : IsBuild(f, QueryLevels[n])}
<1>1. Depth \in Nat /\ Depth \in 0..Depth /\ 0 \in 0..Depth
  BY QueryAssumption
<1>2. 0 \in T
  <2> DEFINE S == QueryLevels[0]
             f == [x \in S |-> BuildStepOf(<<>>, x)]
  <2>1. \A x \in S : BuildStepOf(<<>>, x) = BuildStepOf(f, x)
    <3> HIDE DEF f
    <3>1. QED
      BY <1>1, BuildLocal
  <2>2. f = [x \in S |-> BuildStepOf(f, x)]
    <3> DEFINE A(x) == BuildStepOf(<<>>, x)
               B(x) == BuildStepOf(f, x)
    <3>1. f = [x \in S |-> A(x)] /\ \A x \in S : A(x) = B(x)
      BY <2>1
    <3> HIDE DEF A, B, f, S
    <3>2. f = [x \in S |-> B(x)]
      BY <3>1
    <3>3. QED
      BY <3>2 DEF B
  <2> HIDE DEF f
  <2>3. IsBuild(f, QueryLevels[0])
    BY <2>2 DEF IsBuild
  <2>4. QED
    BY <1>1, <2>3
<1>3. ASSUME NEW n \in 0..Depth, n # 0, n - 1 \in T PROVE n \in T
  <2>1. PICK f : IsBuild(f, QueryLevels[n - 1])
    BY <1>3
  <2> DEFINE S == QueryLevels[n]
             g == [x \in S |-> BuildStepOf(f, x)]
  <2>2. QueryLevels[n - 1] \subseteq S
    BY <1>3, QueryGrow
  <2>3. \A y \in QueryLevels[n - 1] : f[y] = BuildStepOf(f, y)
    BY <2>1 DEF IsBuild
  <2>4. \A y \in QueryLevels[n - 1] : g[y] = f[y]
    BY <2>2, <2>3
  <2>5. \A x \in S : BuildStepOf(f, x) = BuildStepOf(g, x)
    <3> HIDE DEF g
    <3>1. QED
      BY <2>4, BuildLocal
  <2>6. g = [x \in S |-> BuildStepOf(g, x)]
    <3> DEFINE A(x) == BuildStepOf(f, x)
               B(x) == BuildStepOf(g, x)
    <3>1. g = [x \in S |-> A(x)] /\ \A x \in S : A(x) = B(x)
      BY <2>5
    <3> HIDE DEF A, B, g, S
    <3>2. g = [x \in S |-> B(x)]
      BY <3>1
    <3>3. QED
      BY <3>2 DEF B
  <2> HIDE DEF g
  <2>7. IsBuild(g, QueryLevels[n])
    BY <2>6 DEF IsBuild
  <2>8. QED
    BY <2>7
<1>4. Depth \in T
  <2> HIDE DEF T
  <2>1. QED
    BY <1>1, <1>2, <1>3, Climb
<1>5. IsBuild(BuildExpr, Queries)
  <2>1. BuildExpr = CHOOSE f : IsBuild(f, Queries)
    BY DEF BuildExpr, IsBuild, BuildStepOf
  <2>2. \E f : IsBuild(f, Queries)
    BY <1>4 DEF Queries
  <2>3. QED
    BY <2>1, <2>2
<1>6. QED
  BY <1>5 DEF IsBuild

\* One step of AsksForSeveral.
SeveralStep(f, q) ==
  q.k = "bool" /\ (\/ q.should # <<>> /\ q.msm > 1
                   \/ \E s \in {q.must, q.should, q.mustNot} :
                        \E i \in DOMAIN s : f[s[i]])

IsSeveral(f, S) == f = [q \in S |-> SeveralStep(f, q)]

LEMMA SeveralLocal ==
  ASSUME NEW n \in 0..Depth, NEW q \in QueryLevels[n], NEW f, NEW g,
         n # 0 => \A y \in QueryLevels[n - 1] : f[y] = g[y]
  PROVE  SeveralStep(f, q) = SeveralStep(g, q)
<1>1. CASE q.k = "bool"
  <2>1. /\ n # 0 /\ q.must \in Seq(QueryLevels[n - 1]) /\ q.should \in Seq(QueryLevels[n - 1])
        /\ q.mustNot \in Seq(QueryLevels[n - 1])
    BY <1>1, QueryParts
  <2>2. \A s \in {q.must, q.should, q.mustNot} : \A i \in DOMAIN s : f[s[i]] = g[s[i]]
    BY <2>1
  <2>3. \A s \in {q.must, q.should, q.mustNot} : (\E i \in DOMAIN s : f[s[i]]) <=> (\E i \in DOMAIN s : g[s[i]])
    BY <2>2
  <2>4. QED
    BY <1>1, <2>3 DEF SeveralStep
<1>2. CASE q.k # "bool"
  BY <1>2, QueryParts DEF SeveralStep
<1>3. QED
  BY <1>1, <1>2

\* AsksForSeveral is what its recursive definition says.
LEMMA SeveralSteps ==
  \A x \in Queries : AsksForSeveral[x] = SeveralStep(AsksForSeveral, x)
<1> DEFINE T == {n \in 0..Depth : \E f : IsSeveral(f, QueryLevels[n])}
<1>1. Depth \in Nat /\ Depth \in 0..Depth /\ 0 \in 0..Depth
  BY QueryAssumption
<1>2. 0 \in T
  <2> DEFINE S == QueryLevels[0]
             f == [x \in S |-> SeveralStep(<<>>, x)]
  <2>1. \A x \in S : SeveralStep(<<>>, x) = SeveralStep(f, x)
    <3> HIDE DEF f
    <3>1. QED
      BY <1>1, SeveralLocal
  <2>2. f = [x \in S |-> SeveralStep(f, x)]
    <3> DEFINE A(x) == SeveralStep(<<>>, x)
               B(x) == SeveralStep(f, x)
    <3>1. f = [x \in S |-> A(x)] /\ \A x \in S : A(x) = B(x)
      BY <2>1
    <3> HIDE DEF A, B, f, S
    <3>2. f = [x \in S |-> B(x)]
      BY <3>1
    <3>3. QED
      BY <3>2 DEF B
  <2> HIDE DEF f
  <2>3. IsSeveral(f, QueryLevels[0])
    BY <2>2 DEF IsSeveral
  <2>4. QED
    BY <1>1, <2>3
<1>3. ASSUME NEW n \in 0..Depth, n # 0, n - 1 \in T PROVE n \in T
  <2>1. PICK f : IsSeveral(f, QueryLevels[n - 1])
    BY <1>3
  <2> DEFINE S == QueryLevels[n]
             g == [x \in S |-> SeveralStep(f, x)]
  <2>2. QueryLevels[n - 1] \subseteq S
    BY <1>3, QueryGrow
  <2>3. \A y \in QueryLevels[n - 1] : f[y] = SeveralStep(f, y)
    BY <2>1 DEF IsSeveral
  <2>4. \A y \in QueryLevels[n - 1] : g[y] = f[y]
    BY <2>2, <2>3
  <2>5. \A x \in S : SeveralStep(f, x) = SeveralStep(g, x)
    <3> HIDE DEF g
    <3>1. QED
      BY <2>4, SeveralLocal
  <2>6. g = [x \in S |-> SeveralStep(g, x)]
    <3> DEFINE A(x) == SeveralStep(f, x)
               B(x) == SeveralStep(g, x)
    <3>1. g = [x \in S |-> A(x)] /\ \A x \in S : A(x) = B(x)
      BY <2>5
    <3> HIDE DEF A, B, g, S
    <3>2. g = [x \in S |-> B(x)]
      BY <3>1
    <3>3. QED
      BY <3>2 DEF B
  <2> HIDE DEF g
  <2>7. IsSeveral(g, QueryLevels[n])
    BY <2>6 DEF IsSeveral
  <2>8. QED
    BY <2>7
<1>4. Depth \in T
  <2> HIDE DEF T
  <2>1. QED
    BY <1>1, <1>2, <1>3, Climb
<1>5. IsSeveral(AsksForSeveral, Queries)
  <2>1. AsksForSeveral = CHOOSE f : IsSeveral(f, Queries)
    BY DEF AsksForSeveral, IsSeveral, SeveralStep
  <2>2. \E f : IsSeveral(f, Queries)
    BY <1>4 DEF Queries
  <2>3. QED
    BY <2>1, <2>2
<1>6. QED
  BY <1>5 DEF IsSeveral

\* One step of HasBad.
HasBadStep(f, q) ==
  IF q.k # "bool" THEN Bad \in Coerced(q)
  ELSE \E s \in {q.must, q.should, q.mustNot} : \E i \in DOMAIN s : f[s[i]]

IsHasBad(f, S) == f = [q \in S |-> HasBadStep(f, q)]

LEMMA HasBadLocal ==
  ASSUME NEW n \in 0..Depth, NEW q \in QueryLevels[n], NEW f, NEW g,
         n # 0 => \A y \in QueryLevels[n - 1] : f[y] = g[y]
  PROVE  HasBadStep(f, q) = HasBadStep(g, q)
<1>1. CASE q.k = "bool"
  <2>1. /\ n # 0 /\ q.must \in Seq(QueryLevels[n - 1]) /\ q.should \in Seq(QueryLevels[n - 1])
        /\ q.mustNot \in Seq(QueryLevels[n - 1])
    BY <1>1, QueryParts
  <2>2. \A s \in {q.must, q.should, q.mustNot} : \A i \in DOMAIN s : f[s[i]] = g[s[i]]
    BY <2>1
  <2>3. \A s \in {q.must, q.should, q.mustNot} : (\E i \in DOMAIN s : f[s[i]]) <=> (\E i \in DOMAIN s : g[s[i]])
    BY <2>2
  <2>4. QED
    BY <1>1, <2>3 DEF HasBadStep
<1>2. CASE q.k # "bool"
  BY <1>2, QueryParts DEF HasBadStep
<1>3. QED
  BY <1>1, <1>2

\* HasBad is what its recursive definition says.
LEMMA HasBadSteps ==
  \A x \in Queries : HasBad[x] = HasBadStep(HasBad, x)
<1> DEFINE T == {n \in 0..Depth : \E f : IsHasBad(f, QueryLevels[n])}
<1>1. Depth \in Nat /\ Depth \in 0..Depth /\ 0 \in 0..Depth
  BY QueryAssumption
<1>2. 0 \in T
  <2> DEFINE S == QueryLevels[0]
             f == [x \in S |-> HasBadStep(<<>>, x)]
  <2>1. \A x \in S : HasBadStep(<<>>, x) = HasBadStep(f, x)
    <3> HIDE DEF f
    <3>1. QED
      BY <1>1, HasBadLocal
  <2>2. f = [x \in S |-> HasBadStep(f, x)]
    <3> DEFINE A(x) == HasBadStep(<<>>, x)
               B(x) == HasBadStep(f, x)
    <3>1. f = [x \in S |-> A(x)] /\ \A x \in S : A(x) = B(x)
      BY <2>1
    <3> HIDE DEF A, B, f, S
    <3>2. f = [x \in S |-> B(x)]
      BY <3>1
    <3>3. QED
      BY <3>2 DEF B
  <2> HIDE DEF f
  <2>3. IsHasBad(f, QueryLevels[0])
    BY <2>2 DEF IsHasBad
  <2>4. QED
    BY <1>1, <2>3
<1>3. ASSUME NEW n \in 0..Depth, n # 0, n - 1 \in T PROVE n \in T
  <2>1. PICK f : IsHasBad(f, QueryLevels[n - 1])
    BY <1>3
  <2> DEFINE S == QueryLevels[n]
             g == [x \in S |-> HasBadStep(f, x)]
  <2>2. QueryLevels[n - 1] \subseteq S
    BY <1>3, QueryGrow
  <2>3. \A y \in QueryLevels[n - 1] : f[y] = HasBadStep(f, y)
    BY <2>1 DEF IsHasBad
  <2>4. \A y \in QueryLevels[n - 1] : g[y] = f[y]
    BY <2>2, <2>3
  <2>5. \A x \in S : HasBadStep(f, x) = HasBadStep(g, x)
    <3> HIDE DEF g
    <3>1. QED
      BY <2>4, HasBadLocal
  <2>6. g = [x \in S |-> HasBadStep(g, x)]
    <3> DEFINE A(x) == HasBadStep(f, x)
               B(x) == HasBadStep(g, x)
    <3>1. g = [x \in S |-> A(x)] /\ \A x \in S : A(x) = B(x)
      BY <2>5
    <3> HIDE DEF A, B, g, S
    <3>2. g = [x \in S |-> B(x)]
      BY <3>1
    <3>3. QED
      BY <3>2 DEF B
  <2> HIDE DEF g
  <2>7. IsHasBad(g, QueryLevels[n])
    BY <2>6 DEF IsHasBad
  <2>8. QED
    BY <2>7
<1>4. Depth \in T
  <2> HIDE DEF T
  <2>1. QED
    BY <1>1, <1>2, <1>3, Climb
<1>5. IsHasBad(HasBad, Queries)
  <2>1. HasBad = CHOOSE f : IsHasBad(f, Queries)
    BY DEF HasBad, IsHasBad, HasBadStep
  <2>2. \E f : IsHasBad(f, Queries)
    BY <1>4 DEF Queries
  <2>3. QED
    BY <2>1, <2>2
<1>6. QED
  BY <1>5 DEF IsHasBad

\* One step of Matches.
MatchStep(f, q, row) ==
  CASE q.k = "all" -> TRUE
    [] q.k = "none" -> FALSE
    [] q.k = "exists" -> row[q.f] # Null
    [] q.k = "term" -> row[q.f] # Null /\ row[q.f] = q.v
    [] q.k = "terms" -> row[q.f] # Null /\ row[q.f] \in q.vs
    [] q.k = "range" ->
         row[q.f] # Null /\ \A i \in DOMAIN q.bs : Holds(q.bs[i].op, row[q.f], q.bs[i].v)
    [] q.k = "match" ->
         /\ row[q.f] # Null
         /\ IF q.f \notin TextField THEN row[q.f] = q.toks[1]
            ELSE IF q.op = "and" THEN q.toks # <<>> /\ ToSet(q.toks) \subseteq row[q.f]
            ELSE ToSet(q.toks) \cap row[q.f] # {}
    [] OTHER ->
         LET matching(s) == {i \in DOMAIN s : f[s[i]]}
             need == IF q.must = <<>> /\ q.msm = 0 THEN 1 ELSE q.msm
         IN /\ matching(q.must) = DOMAIN q.must
            /\ matching(q.mustNot) = {}
            /\ q.should = <<>> \/ Cardinality(matching(q.should)) >= need

IsMatch(f, S, row) == f = [q \in S |-> MatchStep(f, q, row)]

Meanings(row) == CHOOSE f : IsMatch(f, Queries, row)

LEMMA MatchLocal ==
  ASSUME NEW row, NEW n \in 0..Depth, NEW q \in QueryLevels[n], NEW f, NEW g,
         n # 0 => \A y \in QueryLevels[n - 1] : f[y] = g[y]
  PROVE  MatchStep(f, q, row) = MatchStep(g, q, row)
<1>1. CASE q.k = "bool"
  <2>1. /\ n # 0 /\ q.must \in Seq(QueryLevels[n - 1]) /\ q.should \in Seq(QueryLevels[n - 1])
        /\ q.mustNot \in Seq(QueryLevels[n - 1])
    BY <1>1, QueryParts
  <2>2. \A s \in {q.must, q.should, q.mustNot} : \A i \in DOMAIN s : f[s[i]] = g[s[i]]
    BY <2>1
  <2>3. \A s \in {q.must, q.should, q.mustNot} : {i \in DOMAIN s : f[s[i]]} = {i \in DOMAIN s : g[s[i]]}
    BY <2>2
  <2>4. QED
    BY <1>1, <2>3 DEF MatchStep
<1>2. CASE q.k # "bool"
  BY <1>2, QueryParts DEF MatchStep
<1>3. QED
  BY <1>1, <1>2

\* Matches is what its recursive definition says.
LEMMA MatchSteps ==
  ASSUME NEW row
  PROVE  \A x \in Queries : Meanings(row)[x] = MatchStep(Meanings(row), x, row)
<1> DEFINE T == {n \in 0..Depth : \E f : IsMatch(f, QueryLevels[n], row)}
<1>1. Depth \in Nat /\ Depth \in 0..Depth /\ 0 \in 0..Depth
  BY QueryAssumption
<1>2. 0 \in T
  <2> DEFINE S == QueryLevels[0]
             f == [x \in S |-> MatchStep(<<>>, x, row)]
  <2>1. \A x \in S : MatchStep(<<>>, x, row) = MatchStep(f, x, row)
    <3> HIDE DEF f
    <3>1. QED
      BY <1>1, MatchLocal
  <2>2. f = [x \in S |-> MatchStep(f, x, row)]
    <3> DEFINE A(x) == MatchStep(<<>>, x, row)
               B(x) == MatchStep(f, x, row)
    <3>1. f = [x \in S |-> A(x)] /\ \A x \in S : A(x) = B(x)
      BY <2>1
    <3> HIDE DEF A, B, f, S
    <3>2. f = [x \in S |-> B(x)]
      BY <3>1
    <3>3. QED
      BY <3>2 DEF B
  <2> HIDE DEF f
  <2>3. IsMatch(f, QueryLevels[0], row)
    BY <2>2 DEF IsMatch
  <2>4. QED
    BY <1>1, <2>3
<1>3. ASSUME NEW n \in 0..Depth, n # 0, n - 1 \in T PROVE n \in T
  <2>1. PICK f : IsMatch(f, QueryLevels[n - 1], row)
    BY <1>3
  <2> DEFINE S == QueryLevels[n]
             g == [x \in S |-> MatchStep(f, x, row)]
  <2>2. QueryLevels[n - 1] \subseteq S
    BY <1>3, QueryGrow
  <2>3. \A y \in QueryLevels[n - 1] : f[y] = MatchStep(f, y, row)
    BY <2>1 DEF IsMatch
  <2>4. \A y \in QueryLevels[n - 1] : g[y] = f[y]
    BY <2>2, <2>3
  <2>5. \A x \in S : MatchStep(f, x, row) = MatchStep(g, x, row)
    <3> HIDE DEF g
    <3>1. QED
      BY <2>4, MatchLocal
  <2>6. g = [x \in S |-> MatchStep(g, x, row)]
    <3> DEFINE A(x) == MatchStep(f, x, row)
               B(x) == MatchStep(g, x, row)
    <3>1. g = [x \in S |-> A(x)] /\ \A x \in S : A(x) = B(x)
      BY <2>5
    <3> HIDE DEF A, B, g, S
    <3>2. g = [x \in S |-> B(x)]
      BY <3>1
    <3>3. QED
      BY <3>2 DEF B
  <2> HIDE DEF g
  <2>7. IsMatch(g, QueryLevels[n], row)
    BY <2>6 DEF IsMatch
  <2>8. QED
    BY <2>7
<1>4. Depth \in T
  <2> HIDE DEF T
  <2>1. QED
    BY <1>1, <1>2, <1>3, Climb
<1>5. IsMatch(Meanings(row), Queries, row)
  <2>1. Meanings(row) = CHOOSE f : IsMatch(f, Queries, row)
    BY DEF Meanings, IsMatch, MatchStep
  <2>2. \E f : IsMatch(f, Queries, row)
    BY <1>4 DEF Queries
  <2>3. QED
    BY <2>1, <2>2
<1>6. QED
  BY <1>5 DEF IsMatch

LEMMA MatchesIs ==
  ASSUME NEW row, NEW q
  PROVE  Matches(q, row) = Meanings(row)[q]
BY DEF Matches, Meanings, IsMatch, MatchStep

\* One step of negated.
NegateStep(f, x) ==
  CASE x.e = "and" -> IF x.cs = <<>> THEN Never ELSE Or(Mapped(f, x.cs))
    [] x.e = "or" -> IF x.cs = <<>> THEN Never ELSE And(Mapped(f, x.cs))
    [] x.e = "not" -> x.c
    [] x.e = "notnull" -> IsNull(x.f)
    [] x.e = "isnull" -> NotNull(x.f)
    [] OTHER -> Complement(x)

IsNegate(f, S) == f = [x \in S |-> NegateStep(f, x)]

LEMMA NegateLocal ==
  ASSUME NEW n \in 0..Nesting, NEW x \in ExprLevels[n], NEW f, NEW g,
         n # 0 => \A y \in ExprLevels[n - 1] : f[y] = g[y]
  PROVE  NegateStep(f, x) = NegateStep(g, x)
<1>1. CASE x.e \in {"and", "or"}
  <2>1. x.cs \in Seq(ExprLevels[n - 1]) /\ n # 0
    BY <1>1, ExprParts
  <2>2. \A i \in DOMAIN x.cs : f[x.cs[i]] = g[x.cs[i]]
    BY <2>1
  <2>3. Mapped(f, x.cs) = Mapped(g, x.cs)
    BY <2>2 DEF Mapped
  <2>4. QED
    BY <1>1, <2>3 DEF NegateStep
<1>2. CASE x.e \notin {"and", "or"}
  BY <1>2, ExprParts DEF NegateStep
<1>3. QED
  BY <1>1, <1>2

\* Negated is what its recursive definition says.
LEMMA NegateSteps ==
  \A x \in Exprs : Negated[x] = NegateStep(Negated, x)
<1> DEFINE T == {n \in 0..Nesting : \E f : IsNegate(f, ExprLevels[n])}
<1>1. Nesting \in Nat /\ Nesting \in 0..Nesting /\ 0 \in 0..Nesting
  BY NestingAssumption
<1>2. 0 \in T
  <2> DEFINE S == ExprLevels[0]
             f == [x \in S |-> NegateStep(<<>>, x)]
  <2>1. \A x \in S : NegateStep(<<>>, x) = NegateStep(f, x)
    <3> HIDE DEF f
    <3>1. QED
      BY <1>1, NegateLocal
  <2>2. f = [x \in S |-> NegateStep(f, x)]
    <3> DEFINE A(x) == NegateStep(<<>>, x)
               B(x) == NegateStep(f, x)
    <3>1. f = [x \in S |-> A(x)] /\ \A x \in S : A(x) = B(x)
      BY <2>1
    <3> HIDE DEF A, B, f, S
    <3>2. f = [x \in S |-> B(x)]
      BY <3>1
    <3>3. QED
      BY <3>2 DEF B
  <2> HIDE DEF f
  <2>3. IsNegate(f, ExprLevels[0])
    BY <2>2 DEF IsNegate
  <2>4. QED
    BY <1>1, <2>3
<1>3. ASSUME NEW n \in 0..Nesting, n # 0, n - 1 \in T PROVE n \in T
  <2>1. PICK f : IsNegate(f, ExprLevels[n - 1])
    BY <1>3
  <2> DEFINE S == ExprLevels[n]
             g == [x \in S |-> NegateStep(f, x)]
  <2>2. ExprLevels[n - 1] \subseteq S
    BY <1>3, ExprGrow
  <2>3. \A y \in ExprLevels[n - 1] : f[y] = NegateStep(f, y)
    BY <2>1 DEF IsNegate
  <2>4. \A y \in ExprLevels[n - 1] : g[y] = f[y]
    BY <2>2, <2>3
  <2>5. \A x \in S : NegateStep(f, x) = NegateStep(g, x)
    <3> HIDE DEF g
    <3>1. QED
      BY <2>4, NegateLocal
  <2>6. g = [x \in S |-> NegateStep(g, x)]
    <3> DEFINE A(x) == NegateStep(f, x)
               B(x) == NegateStep(g, x)
    <3>1. g = [x \in S |-> A(x)] /\ \A x \in S : A(x) = B(x)
      BY <2>5
    <3> HIDE DEF A, B, g, S
    <3>2. g = [x \in S |-> B(x)]
      BY <3>1
    <3>3. QED
      BY <3>2 DEF B
  <2> HIDE DEF g
  <2>7. IsNegate(g, ExprLevels[n])
    BY <2>6 DEF IsNegate
  <2>8. QED
    BY <2>7
<1>4. Nesting \in T
  <2> HIDE DEF T
  <2>1. QED
    BY <1>1, <1>2, <1>3, Climb
<1>5. IsNegate(Negated, Exprs)
  <2>1. Negated = CHOOSE f : IsNegate(f, Exprs)
    BY DEF Negated, IsNegate, NegateStep
  <2>2. \E f : IsNegate(f, Exprs)
    BY <1>4 DEF Exprs
  <2>3. QED
    BY <2>1, <2>2
<1>6. QED
  BY <1>5 DEF IsNegate

(***************************************************************************)
(* Negation.                                                               *)
(***************************************************************************)
\* The kinds of leaf.
LEMMA AtomKinds ==
  ASSUME NEW a \in Atoms
  PROVE  \/ a = Nil
         \/ a = Never
         \/ a.e = "cmp" /\ a.op \in Operators /\ a.f \in Names /\ a.v \in Values /\ a = Compare(a.op, a.f, a.v)
         \/ a.e = "in" /\ a.f \in Names /\ a.vs \in SUBSET Values /\ a = InList(a.f, a.vs)
         \/ a.e = "text" /\ a.f \in Names /\ a.toks \in SUBSET Values /\ a = TextMatch(a.f, a.toks)
         \/ a.e = "notnull" /\ a.f \in Names /\ a = NotNull(a.f)
         \/ a.e = "isnull" /\ a.f \in Names /\ a = IsNull(a.f)
<1>1. CASE a \in [e : {"nil", "never"}]
  BY <1>1 DEF Nil, Never
<1>2. CASE a \in [e : {"cmp"}, op : Operators, f : Names, v : Values]
  BY <1>2 DEF Compare
<1>3. CASE a \in [e : {"in"}, f : Names, vs : SUBSET Values]
  <2> DEFINE V == SUBSET Values
  <2> HIDE DEF V
  <2>1. a \in [e : {"in"}, f : Names, vs : V]
    BY <1>3 DEF V
  <2>2. a.e = "in" /\ a.f \in Names /\ a.vs \in V /\ a = [e |-> "in", f |-> a.f, vs |-> a.vs]
    BY <2>1
  <2>3. QED
    BY <2>2 DEF InList, V
<1>4. CASE a \in [e : {"text"}, f : Names, toks : SUBSET Values]
  <2> DEFINE V == SUBSET Values
  <2> HIDE DEF V
  <2>1. a \in [e : {"text"}, f : Names, toks : V]
    BY <1>4 DEF V
  <2>2. a.e = "text" /\ a.f \in Names /\ a.toks \in V /\ a = [e |-> "text", f |-> a.f, toks |-> a.toks]
    BY <2>1
  <2>3. QED
    BY <2>2 DEF TextMatch, V
<1>5. CASE a \in [e : {"notnull", "isnull"}, f : Names]
  BY <1>5 DEF NotNull, IsNull
<1>6. QED
  BY <1>1, <1>2, <1>3, <1>4, <1>5 DEF Atoms

\* The leaves with a constructor.
LEMMA AtomsMade ==
  /\ Nil \in Atoms /\ Never \in Atoms /\ Never # Nil
  /\ \A op \in Operators, f \in Names, v \in Values : Compare(op, f, v) \in Atoms \ {Nil}
  /\ \A f \in Names, vs \in SUBSET Values : InList(f, vs) \in Atoms \ {Nil} /\ TextMatch(f, vs) \in Atoms \ {Nil}
  /\ \A f \in Names : NotNull(f) \in Atoms \ {Nil} /\ IsNull(f) \in Atoms \ {Nil}
<1>1. Nil \in Atoms /\ Never \in Atoms /\ Never # Nil
  BY DEF Atoms, Nil, Never
<1>2. \A op \in Operators, f \in Names, v \in Values : Compare(op, f, v) \in Atoms \ {Nil}
  BY DEF Atoms, Nil, Compare
<1>3. \A f \in Names, vs \in SUBSET Values : InList(f, vs) \in Atoms \ {Nil} /\ TextMatch(f, vs) \in Atoms \ {Nil}
  BY DEF Atoms, Nil, InList, TextMatch
<1>4. \A f \in Names : NotNull(f) \in Atoms \ {Nil} /\ IsNull(f) \in Atoms \ {Nil}
  BY DEF Atoms, Nil, NotNull, IsNull
<1>5. QED
  BY <1>1, <1>2, <1>3, <1>4

\* A leaf comes out unknown exactly if it looks at a missing cell.
LEMMA AtomVerdicts ==
  ASSUME NEW row \in Rows, NEW a \in Atoms
  PROVE  /\ FieldOf(a) \cap Nullable = {} => Eval(a, row) \in {"true", "false"}
         /\ FieldOf(a) \cap Nullable # {} =>
              /\ a.f \in Names /\ a # Nil
              /\ row[a.f] = Null => Eval(a, row) = "unknown"
              /\ row[a.f] # Null => Eval(a, row) \in {"true", "false"}
<1>1. CASE a \in {Nil, Never}
  <2>1. FieldOf(a) = {}
    BY <1>1 DEF FieldOf, Nil, Never
  <2>2. QED
    BY <1>1, <2>1, EvalAtoms
<1>2. CASE a.e \in {"notnull", "isnull"}
  <2>1. FieldOf(a) = {}
    BY <1>2 DEF FieldOf
  <2>2. a.f \in Names /\ a \in {NotNull(a.f), IsNull(a.f)}
    BY <1>2, AtomKinds DEF Nil, Never
  <2>3. Eval(NotNull(a.f), row) = Truth(row[a.f] # Null) /\ Eval(IsNull(a.f), row) = Truth(row[a.f] = Null)
    BY <2>2, EvalAtoms
  <2>4. QED
    BY <2>1, <2>2, <2>3 DEF Truth
<1>3. CASE a.e \in {"cmp", "in", "text"}
  <2>1. FieldOf(a) = {a.f}
    BY <1>3 DEF FieldOf
  <2>2. a.f \in Names /\ a # Nil
    BY <1>3, AtomKinds DEF Nil, Never
  <2>3. /\ row[a.f] = Null => Eval(a, row) = "unknown"
        /\ row[a.f] # Null => Eval(a, row) \in {"true", "false"}
    <3>1. CASE a.e = "cmp"
      <4>1. a.op \in Operators /\ a.v \in Values /\ a = Compare(a.op, a.f, a.v)
        BY <3>1, AtomKinds DEF Nil, Never
      <4>2. Eval(Compare(a.op, a.f, a.v), row) = IF row[a.f] = Null THEN "unknown" ELSE Truth(Holds(a.op, row[a.f], a.v))
        BY <2>2, <4>1, EvalAtoms
      <4>3. QED
        BY <4>1, <4>2 DEF Truth
    <3>2. CASE a.e = "in"
      <4>1. a.vs \in SUBSET Values /\ a = InList(a.f, a.vs)
        BY <3>2, AtomKinds DEF Nil, Never
      <4>2. Eval(InList(a.f, a.vs), row) = IF row[a.f] = Null THEN "unknown" ELSE Truth(row[a.f] \in a.vs)
        BY <2>2, <4>1, EvalAtoms
      <4>3. QED
        BY <4>1, <4>2 DEF Truth
    <3>3. CASE a.e = "text"
      <4>1. a.toks \in SUBSET Values /\ a = TextMatch(a.f, a.toks)
        BY <3>3, AtomKinds DEF Nil, Never
      <4>2. Eval(TextMatch(a.f, a.toks), row) = IF row[a.f] = Null THEN "unknown" ELSE Truth(row[a.f] \cap a.toks # {})
        BY <2>2, <4>1, EvalAtoms
      <4>3. QED
        BY <4>1, <4>2 DEF Truth
    <3>4. QED
      BY <1>3, <3>1, <3>2, <3>3
  <2>4. row[a.f] = Null => a.f \in Nullable
    BY <2>2, QueryAssumption
  <2>5. QED
    BY <2>1, <2>2, <2>3, <2>4
<1>4. QED
  BY <1>1, <1>2, <1>3, AtomKinds

\* The sets of expressions that are closed under what boolExpr and negated make:
\* a negation stands over a leaf that is never unknown, or next to the test that
\* says it is not.
Closed(S) ==
  /\ Atoms \ {Nil} \subseteq S
  /\ \A a \in Atoms \ {Nil} : FieldOf(a) \cap Nullable = {} => Not(a) \in S
  /\ \A a \in Atoms : FieldOf(a) \cap Nullable # {} => Or(<<IsNull(a.f), Not(a)>>) \in S
  /\ \A cs \in Seq(S) : cs # <<>> =>
       (And(cs) \in Exprs => And(cs) \in S) /\ (Or(cs) \in Exprs => Or(cs) \in S)

Proper(x) == x \in Exprs /\ \A S \in SUBSET Exprs : Closed(S) => x \in S

LEMMA Room ==
  /\ Nesting \in Nat /\ 0 \in 0..Nesting /\ 1 \in 0..Nesting /\ 2 \in 0..Nesting
  /\ \A n \in 0..Nesting : n \in Nat
BY NestingAssumption, QueryAssumption

\* A nullable leaf has a field, and its complement is an expression of two levels.
LEMMA SealedMade ==
  ASSUME NEW a \in Atoms, FieldOf(a) \cap Nullable # {}, NEW n \in 0..Nesting, n + 2 <= Nesting
  PROVE  /\ a.f \in Names /\ a # Nil
         /\ <<IsNull(a.f), Not(a)>> \in Seq(ExprLevels[n + 1])
         /\ Or(<<IsNull(a.f), Not(a)>>) \in ExprLevels[n + 2]
         /\ <<NotNull(a.f), a>> \in Seq(ExprLevels[n + 1])
         /\ And(<<NotNull(a.f), a>>) \in ExprLevels[n + 2]
<1>1. a.e \in {"cmp", "in", "text"}
  BY DEF FieldOf
<1>2. a.f \in Names /\ a # Nil
  BY <1>1, AtomKinds DEF Nil, Never
<1>3. n + 1 \in 0..Nesting /\ n + 2 \in 0..Nesting /\ (n + 2) - 1 = n + 1 /\ (n + 1) - 1 = n /\ n + 1 # 0 /\ n + 2 # 0
  BY Room
<1> DEFINE S == ExprLevels[n + 1]
<1>4. IsNull(a.f) \in S /\ NotNull(a.f) \in S /\ a \in S
  BY <1>2, <1>3, AtomsMade, ExprMade
<1>5. Not(a) \in S
  BY <1>3, ExprMade
<1>6. <<IsNull(a.f), Not(a)>> \in Seq(S) /\ <<NotNull(a.f), a>> \in Seq(S)
  <2> HIDE DEF S
  <2>1. QED
    BY <1>4, <1>5
<1>7. QED
  BY <1>2, <1>3, <1>6, ExprMade

\* What is proper.
LEMMA ProperMade ==
  /\ \A a \in Atoms \ {Nil} : Proper(a)
  /\ \A a \in Atoms \ {Nil} : FieldOf(a) \cap Nullable = {} => Proper(Not(a))
  /\ \A a \in Atoms : FieldOf(a) \cap Nullable # {} => Proper(Or(<<IsNull(a.f), Not(a)>>))
  /\ \A cs : DOMAIN cs = 1..Len(cs) /\ cs \in Seq(Exprs) /\ cs # <<>> /\ (\A i \in DOMAIN cs : Proper(cs[i])) =>
       (And(cs) \in Exprs => Proper(And(cs))) /\ (Or(cs) \in Exprs => Proper(Or(cs)))
<1>1. Atoms \subseteq Exprs
  BY Room, ExprMade, ExprGrow
<1>2. \A a \in Atoms \ {Nil} : Proper(a)
  BY <1>1 DEF Proper, Closed
<1>3. ASSUME NEW a \in Atoms \ {Nil}, FieldOf(a) \cap Nullable = {} PROVE Proper(Not(a))
  <2>1. Not(a) \in ExprLevels[1]
    <3>1. 1 \in 0..Nesting /\ 1 # 0 /\ 1 - 1 = 0 /\ a \in ExprLevels[0]
      BY Room, ExprMade
    <3>2. QED
      BY <3>1, ExprMade
  <2>2. Not(a) \in Exprs
    BY <2>1, Room, ExprGrow
  <2>3. QED
    BY <1>3, <2>2 DEF Proper, Closed
<1>4. ASSUME NEW a \in Atoms, FieldOf(a) \cap Nullable # {} PROVE Proper(Or(<<IsNull(a.f), Not(a)>>))
  <2>1. 0 + 2 <= Nesting /\ 0 + 2 \in 0..Nesting
    BY Room
  <2>2. Or(<<IsNull(a.f), Not(a)>>) \in ExprLevels[0 + 2]
    BY <1>4, <2>1, Room, SealedMade
  <2>3. Or(<<IsNull(a.f), Not(a)>>) \in Exprs
    BY <2>1, <2>2, ExprGrow
  <2>4. QED
    BY <1>4, <2>3 DEF Proper, Closed
<1>5. ASSUME NEW cs \in Seq(Exprs), cs # <<>>, \A i \in DOMAIN cs : Proper(cs[i])
      PROVE  (And(cs) \in Exprs => Proper(And(cs))) /\ (Or(cs) \in Exprs => Proper(Or(cs)))
  <2>1. ASSUME NEW S \in SUBSET Exprs, Closed(S) PROVE cs \in Seq(S)
    <3>1. \A i \in DOMAIN cs : cs[i] \in S
      BY <1>5, <2>1 DEF Proper
    <3>2. QED
      BY <1>5, <3>1
  <2>2. QED
    BY <1>5, <2>1 DEF Proper, Closed
<1>6. QED
  BY <1>2, <1>3, <1>4, <1>5

\* What negated makes of each kind.
LEMMA NegateShapes ==
  /\ \A a \in Atoms : a.e \notin {"notnull", "isnull"} => Negated[a] = Complement(a)
  /\ \A f \in Names : Negated[NotNull(f)] = IsNull(f) /\ Negated[IsNull(f)] = NotNull(f)
  /\ \A c : Not(c) \in Exprs => Negated[Not(c)] = c
  /\ \A cs : And(cs) \in Exprs /\ cs # <<>> => Negated[And(cs)] = Or(Mapped(Negated, cs))
  /\ \A cs : Or(cs) \in Exprs /\ cs # <<>> => Negated[Or(cs)] = And(Mapped(Negated, cs))
<1>1. Atoms \subseteq Exprs
  BY Room, ExprMade, ExprGrow
<1>2. ASSUME NEW a \in Atoms, a.e \notin {"notnull", "isnull"} PROVE Negated[a] = Complement(a)
  <2>1. a.e \notin {"and", "or", "not"}
    BY DEF Atoms
  <2>2. NegateStep(Negated, a) = Complement(a)
    BY <1>2, <2>1 DEF NegateStep
  <2>3. QED
    BY <1>1, <2>2, NegateSteps
<1>3. ASSUME NEW f \in Names PROVE Negated[NotNull(f)] = IsNull(f) /\ Negated[IsNull(f)] = NotNull(f)
  <2>1. NegateStep(Negated, NotNull(f)) = IsNull(f) /\ NegateStep(Negated, IsNull(f)) = NotNull(f)
    <3>1. NotNull(f).e = "notnull" /\ NotNull(f).f = f /\ IsNull(f).e = "isnull" /\ IsNull(f).f = f
      BY DEF NotNull, IsNull
    <3>2. QED
      BY <3>1 DEF NegateStep
  <2>2. QED
    BY <1>1, <2>1, AtomsMade, NegateSteps
<1>4. ASSUME NEW c, Not(c) \in Exprs PROVE Negated[Not(c)] = c
  <2>1. Not(c).e = "not" /\ Not(c).c = c
    BY DEF Not
  <2>2. NegateStep(Negated, Not(c)) = c
    BY <2>1 DEF NegateStep
  <2>3. QED
    BY <1>4, <2>2, NegateSteps
<1>5. ASSUME NEW cs, And(cs) \in Exprs, cs # <<>> PROVE Negated[And(cs)] = Or(Mapped(Negated, cs))
  <2>1. And(cs).e = "and" /\ And(cs).cs = cs
    BY DEF And
  <2>2. NegateStep(Negated, And(cs)) = Or(Mapped(Negated, cs))
    BY <1>5, <2>1 DEF NegateStep
  <2>3. QED
    BY <1>5, <2>2, NegateSteps
<1>6. ASSUME NEW cs, Or(cs) \in Exprs, cs # <<>> PROVE Negated[Or(cs)] = And(Mapped(Negated, cs))
  <2>1. Or(cs).e = "or" /\ Or(cs).cs = cs
    BY DEF Or
  <2>2. NegateStep(Negated, Or(cs)) = And(Mapped(Negated, cs))
    BY <1>6, <2>1 DEF NegateStep
  <2>3. QED
    BY <1>6, <2>2, NegateSteps
<1>7. QED
  BY <1>2, <1>3, <1>4, <1>5, <1>6

\* Mapping a function over a list.
LEMMA MappedSeq ==
  ASSUME NEW S, NEW s, s \in Seq(S), NEW f, NEW R, \A i \in DOMAIN s : f[s[i]] \in R
  PROVE  /\ Mapped(f, s) \in Seq(R) /\ Len(Mapped(f, s)) = Len(s) /\ DOMAIN Mapped(f, s) = DOMAIN s
         /\ \A i \in DOMAIN s : Mapped(f, s)[i] = f[s[i]]
         /\ Mapped(f, s) = <<>> <=> s = <<>>
         /\ \A y : Some(Mapped(f, s), y) <=> \E i \in DOMAIN s : f[s[i]] = y
<1> DEFINE t == [i \in DOMAIN s |-> f[s[i]]]
<1>1. DOMAIN s = 1..Len(s) /\ Len(s) \in Nat
  OBVIOUS
<1>2. t \in [1..Len(s) -> R]
  BY <1>1
<1>3. \A i \in DOMAIN s : t[i] = f[s[i]]
  OBVIOUS
<1>4. Mapped(f, s) = t
  BY DEF Mapped
<1> HIDE DEF t
<1>5. t \in Seq(R) /\ Len(t) = Len(s) /\ DOMAIN t = DOMAIN s
  BY <1>1, <1>2
<1>6. t = <<>> <=> s = <<>>
  BY <1>1, <1>5
<1>7. QED
  BY <1>3, <1>4, <1>5, <1>6 DEF Some

\* negated x is an expression again, and passes a row if and only if x does not.
Turns(x) ==
  \A n \in 0..Nesting : x \in ExprLevels[n] /\ n + 2 <= Nesting =>
    /\ Negated[x] \in ExprLevels[n + 2] /\ Proper(Negated[x])
    /\ \A row \in Rows : Eval(Negated[x], row) = "true" <=> Eval(x, row) # "true"

LEMMA AtomTurns ==
  ASSUME NEW a \in Atoms, a # Nil
  PROVE  Turns(a)
<1>1. SUFFICES ASSUME NEW n \in 0..Nesting, n + 2 <= Nesting
               PROVE  /\ Negated[a] \in ExprLevels[n + 2] /\ Proper(Negated[a])
                      /\ \A row \in Rows : Eval(Negated[a], row) = "true" <=> Eval(a, row) # "true"
  BY DEF Turns
<1>2. n + 1 \in 0..Nesting /\ n + 2 \in 0..Nesting /\ (n + 2) - 1 = n + 1 /\ n + 2 # 0
  BY <1>1, Room
<1>3. Atoms \subseteq Exprs /\ Atoms \subseteq ExprLevels[n + 1] /\ Atoms \subseteq ExprLevels[n + 2]
  BY <1>2, Room, ExprMade, ExprGrow
<1>4. CASE a.e \in {"notnull", "isnull"}
  <2>1. a.f \in Names /\ a \in {NotNull(a.f), IsNull(a.f)}
    BY <1>4, AtomKinds DEF Nil, Never
  <2>2. NotNull(a.f) \in Atoms \ {Nil} /\ IsNull(a.f) \in Atoms \ {Nil}
    BY <2>1, AtomsMade
  <2>3. /\ a = NotNull(a.f) => Negated[a] = IsNull(a.f)
        /\ a = IsNull(a.f) => Negated[a] = NotNull(a.f)
    BY <2>1, NegateShapes
  <2>4. Proper(NotNull(a.f)) /\ Proper(IsNull(a.f))
    BY <2>2, ProperMade
  <2>5. \A row : Eval(NotNull(a.f), row) = "true" <=> Eval(IsNull(a.f), row) # "true"
    BY <2>1, EvalAtoms DEF Truth
  <2>6. QED
    BY <1>3, <2>1, <2>2, <2>3, <2>4, <2>5
<1>5. CASE a.e \notin {"notnull", "isnull"} /\ FieldOf(a) \cap Nullable = {}
  <2>1. Negated[a] = Not(a)
    BY <1>5, NegateShapes DEF Complement
  <2>2. Not(a) \in ExprLevels[n + 2] /\ Not(a) \in Exprs
    BY <1>2, <1>3, ExprMade, ExprGrow
  <2>3. Proper(Not(a))
    BY <1>5, ProperMade
  <2>4. ASSUME NEW row \in Rows PROVE Eval(Not(a), row) = "true" <=> Eval(a, row) # "true"
    <3>1. Eval(Not(a), row) = Not3(Eval(a, row)) /\ Eval(a, row) \in {"true", "false"}
      BY <1>5, <2>2, EvalSteps, AtomVerdicts
    <3>2. QED
      BY <3>1 DEF Not3
  <2>5. QED
    BY <2>1, <2>2, <2>3, <2>4
<1>6. CASE a.e \notin {"notnull", "isnull"} /\ FieldOf(a) \cap Nullable # {}
  <2> DEFINE cs == <<IsNull(a.f), Not(a)>>
  <2>1. Negated[a] = Or(cs)
    BY <1>6, NegateShapes DEF Complement
  <2>2. a.f \in Names /\ Or(cs) \in ExprLevels[n + 2] /\ Or(cs) \in Exprs
    BY <1>1, <1>2, <1>6, SealedMade, ExprGrow
  <2>3. Proper(Or(cs))
    BY <1>6, ProperMade
  <2>4. Not(a) \in Exprs
    BY <1>2, <1>3, ExprMade, ExprGrow
  <2>5. ASSUME NEW row \in Rows PROVE Eval(Or(cs), row) = "true" <=> Eval(a, row) # "true"
    <3>1. Eval(Or(cs), row) = Or3({Eval(cs[i], row) : i \in DOMAIN cs})
      <4> HIDE DEF cs
      <4>1. QED
        BY <2>2, EvalSteps
    <3>2. DOMAIN cs = {1, 2} /\ cs[1] = IsNull(a.f) /\ cs[2] = Not(a)
      OBVIOUS
    <3> HIDE DEF cs
    <3>3. Eval(Or(cs), row) = "true" <=> Eval(IsNull(a.f), row) = "true" \/ Eval(Not(a), row) = "true"
      BY <3>1, <3>2, Kleene
    <3>4. Eval(IsNull(a.f), row) = Truth(row[a.f] = Null) /\ Eval(Not(a), row) = Not3(Eval(a, row))
      BY <2>2, <2>4, EvalAtoms, EvalSteps
    <3>5. /\ row[a.f] = Null => Eval(a, row) = "unknown"
          /\ row[a.f] # Null => Eval(a, row) \in {"true", "false"}
      BY <1>6, AtomVerdicts
    <3>6. QED
      BY <3>3, <3>4, <3>5 DEF Truth, Not3
  <2>6. QED
    BY <2>1, <2>2, <2>3, <2>5
<1>7. QED
  BY <1>4, <1>5, <1>6

LEMMA NotTurns ==
  ASSUME NEW a \in Atoms, a # Nil, FieldOf(a) \cap Nullable = {}
  PROVE  Solid[Not(a)] /\ Turns(Not(a))
<1>1. Proper(Not(a)) /\ Proper(a) /\ Not(a) \in Exprs
  BY ProperMade DEF Proper
<1>2. Negated[Not(a)] = a
  BY <1>1, NegateShapes
<1>3. Solid[Not(a)]
  BY <1>1, SolidAtoms, SolidShapes
<1>4. ASSUME NEW n \in 0..Nesting, n + 2 <= Nesting PROVE a \in ExprLevels[n + 2]
  BY <1>4, Room, ExprMade
<1>5. ASSUME NEW row \in Rows PROVE Eval(a, row) = "true" <=> Eval(Not(a), row) # "true"
  <2>1. Eval(Not(a), row) = Not3(Eval(a, row)) /\ Eval(a, row) \in {"true", "false"}
    BY <1>1, EvalSteps, AtomVerdicts
  <2>2. QED
    BY <2>1 DEF Not3
<1>6. QED
  BY <1>1, <1>2, <1>3, <1>4, <1>5 DEF Turns

LEMMA SealedTurns ==
  ASSUME NEW a \in Atoms, FieldOf(a) \cap Nullable # {}
  PROVE  Solid[Or(<<IsNull(a.f), Not(a)>>)] /\ Turns(Or(<<IsNull(a.f), Not(a)>>))
<1> DEFINE cs == <<IsNull(a.f), Not(a)>>
           ds == <<NotNull(a.f), a>>
           x == Or(cs)
<1>1. 0 + 2 <= Nesting /\ 0 \in 0..Nesting /\ 0 + 2 \in 0..Nesting
  BY Room
<1>2. a.f \in Names /\ a # Nil /\ x \in Exprs /\ And(ds) \in Exprs
  <2>1. a.f \in Names /\ a # Nil /\ Or(cs) \in ExprLevels[0 + 2] /\ And(ds) \in ExprLevels[0 + 2]
    BY <1>1, SealedMade
  <2>2. QED
    BY <1>1, <2>1, ExprGrow
<1>3. DOMAIN cs = {1, 2} /\ cs[1] = IsNull(a.f) /\ cs[2] = Not(a) /\ cs # <<>>
  OBVIOUS
<1>4. DOMAIN ds = {1, 2} /\ ds[1] = NotNull(a.f) /\ ds[2] = a /\ ds # <<>>
  OBVIOUS
<1>5. Not(a) \in Exprs
  <2>1. 1 \in 0..Nesting /\ 1 # 0 /\ 1 - 1 = 0 /\ a \in ExprLevels[0]
    BY Room, ExprMade
  <2>2. QED
    BY <2>1, ExprMade, ExprGrow
<1>6. Negated[IsNull(a.f)] = NotNull(a.f) /\ Negated[Not(a)] = a
  BY <1>2, <1>5, NegateShapes
<1>7. Mapped(Negated, cs) = ds
  BY <1>6 DEF Mapped
<1>8. Negated[x] = And(ds)
  <2> HIDE DEF cs, ds
  <2>1. QED
    BY <1>2, <1>3, <1>7, NegateShapes
<1>9. Solid[x]
  <2>1. Solid[IsNull(a.f)] /\ Solid[Not(a)]
    BY <1>2, <1>5, AtomsMade, SolidAtoms, SolidShapes
  <2> HIDE DEF cs
  <2>2. QED
    BY <1>2, <1>3, <2>1, SolidShapes
<1>10. Proper(And(ds))
  <2>1. Proper(NotNull(a.f)) /\ Proper(a) /\ NotNull(a.f) \in Exprs /\ a \in Exprs
    BY <1>2, AtomsMade, ProperMade DEF Proper
  <2>2. ds \in Seq(Exprs) /\ DOMAIN ds = 1..Len(ds)
    <3> DEFINE E == Exprs
    <3> HIDE DEF E
    <3>1. NotNull(a.f) \in E /\ a \in E
      BY <2>1 DEF E
    <3>2. ds \in Seq(E) /\ DOMAIN ds = 1..Len(ds)
      BY <3>1
    <3>3. QED
      BY <3>2 DEF E
  <2> HIDE DEF ds
  <2>3. \A i \in DOMAIN ds : Proper(ds[i])
    BY <1>4, <2>1
  <2>4. QED
    BY <1>2, <1>4, <2>2, <2>3, ProperMade
<1>11. ASSUME NEW row \in Rows PROVE Eval(And(ds), row) = "true" <=> Eval(x, row) # "true"
  <2> HIDE DEF cs, ds
  <2>1. Eval(And(ds), row) = And3({Eval(ds[i], row) : i \in DOMAIN ds})
    BY <1>2, EvalSteps
  <2>2. Eval(x, row) = Or3({Eval(cs[i], row) : i \in DOMAIN cs})
    BY <1>2, EvalSteps
  <2>3. /\ Eval(NotNull(a.f), row) = Truth(row[a.f] # Null)
        /\ Eval(IsNull(a.f), row) = Truth(row[a.f] = Null)
        /\ Eval(Not(a), row) = Not3(Eval(a, row))
    BY <1>2, <1>5, EvalAtoms, EvalSteps
  <2>4. /\ row[a.f] = Null => Eval(a, row) = "unknown"
        /\ row[a.f] # Null => Eval(a, row) \in {"true", "false"}
    BY AtomVerdicts
  <2>5. Eval(x, row) = "true" <=> Eval(IsNull(a.f), row) = "true" \/ Eval(Not(a), row) = "true"
    BY <1>3, <2>2, Kleene
  <2>6. {Eval(ds[i], row) : i \in DOMAIN ds} = {Eval(NotNull(a.f), row), Eval(a, row)}
    BY <1>4
  <2>7. CASE row[a.f] = Null
    <3>1. Eval(IsNull(a.f), row) = "true" /\ Eval(NotNull(a.f), row) = "false"
      BY <2>3, <2>7 DEF Truth
    <3>2. And3({Eval(NotNull(a.f), row), Eval(a, row)}) = "false"
      BY <3>1, Kleene
    <3>3. QED
      BY <2>1, <2>5, <2>6, <3>1, <3>2
  <2>8. CASE row[a.f] # Null /\ Eval(a, row) = "true"
    <3>1. Eval(IsNull(a.f), row) = "false" /\ Eval(NotNull(a.f), row) = "true" /\ Eval(Not(a), row) = "false"
      BY <2>3, <2>8 DEF Truth, Not3
    <3>2. And3({Eval(NotNull(a.f), row), Eval(a, row)}) = "true"
      BY <2>8, <3>1 DEF And3
    <3>3. QED
      BY <2>1, <2>5, <2>6, <3>1, <3>2
  <2>9. CASE row[a.f] # Null /\ Eval(a, row) = "false"
    <3>1. Eval(Not(a), row) = "true"
      BY <2>3, <2>9 DEF Not3
    <3>2. And3({Eval(NotNull(a.f), row), Eval(a, row)}) = "false"
      BY <2>9, Kleene
    <3>3. QED
      BY <2>1, <2>5, <2>6, <3>1, <3>2
  <2>10. QED
    BY <2>4, <2>7, <2>8, <2>9
<1>12. ASSUME NEW n \in 0..Nesting, n + 2 <= Nesting PROVE And(ds) \in ExprLevels[n + 2]
  BY <1>12, SealedMade
<1> HIDE DEF x, ds
<1>13. Turns(x)
  BY <1>8, <1>10, <1>11, <1>12 DEF Turns
<1>14. QED
  BY <1>9, <1>13 DEF x

\* A join holds of a row if all its members do, or some member does.
LEMMA JoinVerdicts ==
  ASSUME NEW row, NEW cs, \A i \in DOMAIN cs : cs[i] \in Exprs
  PROVE  /\ And(cs) \in Exprs => (Eval(And(cs), row) = "true" <=> \A i \in DOMAIN cs : Eval(cs[i], row) = "true")
         /\ Or(cs) \in Exprs => (Eval(Or(cs), row) = "true" <=> \E i \in DOMAIN cs : Eval(cs[i], row) = "true")
<1> DEFINE V == {Eval(cs[i], row) : i \in DOMAIN cs}
<1>1. \A i \in DOMAIN cs : Eval(cs[i], row) \in Three
  BY EvalSteps
<1>2. V \in SUBSET Three
  BY <1>1
<1>3. "true" \in V <=> \E i \in DOMAIN cs : Eval(cs[i], row) = "true"
  OBVIOUS
<1>4. (\A v \in V : v = "true") <=> \A i \in DOMAIN cs : Eval(cs[i], row) = "true"
  OBVIOUS
<1>5. And(cs) \in Exprs => Eval(And(cs), row) = And3(V)
  BY EvalSteps
<1>6. Or(cs) \in Exprs => Eval(Or(cs), row) = Or3(V)
  BY EvalSteps
<1> HIDE DEF V
<1>7. And3(V) = "true" <=> \A v \in V : v = "true"
  BY <1>2 DEF And3, Three
<1>8. Or3(V) = "true" <=> "true" \in V
  BY <1>2 DEF Or3, Three
<1>9. QED
  BY <1>3, <1>4, <1>5, <1>6, <1>7, <1>8

LEMMA JoinTurns ==
  ASSUME NEW cs \in Seq(Exprs), cs # <<>>, \A i \in DOMAIN cs : Turns(cs[i])
  PROVE  (And(cs) \in Exprs => Turns(And(cs))) /\ (Or(cs) \in Exprs => Turns(Or(cs)))
<1>1. ASSUME And(cs) \in Exprs PROVE Turns(And(cs))
  <2>1. SUFFICES ASSUME NEW n \in 0..Nesting, And(cs) \in ExprLevels[n], n + 2 <= Nesting
                 PROVE  /\ Negated[And(cs)] \in ExprLevels[n + 2] /\ Proper(Negated[And(cs)])
                        /\ \A row \in Rows : Eval(Negated[And(cs)], row) = "true" <=> Eval(And(cs), row) # "true"
    BY DEF Turns
  <2>2. And(cs).e \in {"and", "or"} /\ And(cs).cs = cs
    BY DEF And
  <2>3. n # 0 /\ cs \in Seq(ExprLevels[n - 1])
    BY <2>1, <2>2, ExprParts
  <2>4. n - 1 \in 0..Nesting /\ (n - 1) + 2 = n + 1 /\ n + 1 \in 0..Nesting /\ n + 2 \in 0..Nesting /\ (n + 2) - 1 = n + 1 /\ n + 2 # 0
    BY <2>1, <2>3, Room
  <2>5. ASSUME NEW i \in DOMAIN cs
        PROVE  /\ cs[i] \in Exprs /\ Negated[cs[i]] \in ExprLevels[n + 1] /\ Negated[cs[i]] \in Exprs /\ Proper(Negated[cs[i]])
               /\ \A row \in Rows : Eval(Negated[cs[i]], row) = "true" <=> Eval(cs[i], row) # "true"
    <3>1. cs[i] \in ExprLevels[n - 1]
      BY <2>3
    <3>2. Turns(cs[i]) /\ (n - 1) + 2 <= Nesting
      BY <2>4
    <3>3. /\ Negated[cs[i]] \in ExprLevels[(n - 1) + 2] /\ Proper(Negated[cs[i]])
          /\ \A row \in Rows : Eval(Negated[cs[i]], row) = "true" <=> Eval(cs[i], row) # "true"
      BY <2>4, <3>1, <3>2 DEF Turns
    <3>4. QED
      BY <2>4, <3>1, <3>3, ExprGrow
  <2> DEFINE M == Mapped(Negated, cs)
             L == ExprLevels[n + 1]
  <2>6. /\ M \in Seq(L) /\ DOMAIN M = DOMAIN cs /\ M # <<>> /\ \A i \in DOMAIN cs : M[i] = Negated[cs[i]]
    <3> HIDE DEF L
    <3>1. \A i \in DOMAIN cs : Negated[cs[i]] \in L
      BY <2>5 DEF L
    <3>2. QED
      BY <2>3, <3>1, MappedSeq
  <2>7. M \in Seq(Exprs) /\ DOMAIN M = 1..Len(M)
    <3>1. \A i \in DOMAIN M : M[i] \in Exprs
      BY <2>5, <2>6
    <3> HIDE DEF M, L
    <3>2. QED
      BY <2>6, <3>1
  <2> HIDE DEF M
  <2>8. Or(M) \in ExprLevels[n + 2] /\ Or(M) \in Exprs
    BY <2>4, <2>6, ExprMade, ExprGrow
  <2>9. Negated[And(cs)] = Or(M)
    BY <1>1, NegateShapes DEF M
  <2>10. Proper(Or(M))
    BY <2>5, <2>6, <2>7, <2>8, ProperMade
  <2>11. ASSUME NEW row \in Rows PROVE Eval(Or(M), row) = "true" <=> Eval(And(cs), row) # "true"
    <3>1. Eval(Or(M), row) = "true" <=> \E i \in DOMAIN M : Eval(M[i], row) = "true"
      BY <2>5, <2>6, <2>8, JoinVerdicts
    <3>2. Eval(And(cs), row) = "true" <=> \A i \in DOMAIN cs : Eval(cs[i], row) = "true"
      BY <1>1, <2>5, JoinVerdicts
    <3>3. \A i \in DOMAIN M : Eval(M[i], row) = "true" <=> Eval(cs[i], row) # "true"
      BY <2>5, <2>6
    <3>4. QED
      BY <2>6, <3>1, <3>2, <3>3
  <2>12. QED
    BY <2>8, <2>9, <2>10, <2>11
<1>2. ASSUME Or(cs) \in Exprs PROVE Turns(Or(cs))
  <2>1. SUFFICES ASSUME NEW n \in 0..Nesting, Or(cs) \in ExprLevels[n], n + 2 <= Nesting
                 PROVE  /\ Negated[Or(cs)] \in ExprLevels[n + 2] /\ Proper(Negated[Or(cs)])
                        /\ \A row \in Rows : Eval(Negated[Or(cs)], row) = "true" <=> Eval(Or(cs), row) # "true"
    BY DEF Turns
  <2>2. Or(cs).e \in {"and", "or"} /\ Or(cs).cs = cs
    BY DEF Or
  <2>3. n # 0 /\ cs \in Seq(ExprLevels[n - 1])
    BY <2>1, <2>2, ExprParts
  <2>4. n - 1 \in 0..Nesting /\ (n - 1) + 2 = n + 1 /\ n + 1 \in 0..Nesting /\ n + 2 \in 0..Nesting /\ (n + 2) - 1 = n + 1 /\ n + 2 # 0
    BY <2>1, <2>3, Room
  <2>5. ASSUME NEW i \in DOMAIN cs
        PROVE  /\ cs[i] \in Exprs /\ Negated[cs[i]] \in ExprLevels[n + 1] /\ Negated[cs[i]] \in Exprs /\ Proper(Negated[cs[i]])
               /\ \A row \in Rows : Eval(Negated[cs[i]], row) = "true" <=> Eval(cs[i], row) # "true"
    <3>1. cs[i] \in ExprLevels[n - 1]
      BY <2>3
    <3>2. Turns(cs[i]) /\ (n - 1) + 2 <= Nesting
      BY <2>4
    <3>3. /\ Negated[cs[i]] \in ExprLevels[(n - 1) + 2] /\ Proper(Negated[cs[i]])
          /\ \A row \in Rows : Eval(Negated[cs[i]], row) = "true" <=> Eval(cs[i], row) # "true"
      BY <2>4, <3>1, <3>2 DEF Turns
    <3>4. QED
      BY <2>4, <3>1, <3>3, ExprGrow
  <2> DEFINE M == Mapped(Negated, cs)
             L == ExprLevels[n + 1]
  <2>6. /\ M \in Seq(L) /\ DOMAIN M = DOMAIN cs /\ M # <<>> /\ \A i \in DOMAIN cs : M[i] = Negated[cs[i]]
    <3> HIDE DEF L
    <3>1. \A i \in DOMAIN cs : Negated[cs[i]] \in L
      BY <2>5 DEF L
    <3>2. QED
      BY <2>3, <3>1, MappedSeq
  <2>7. M \in Seq(Exprs) /\ DOMAIN M = 1..Len(M)
    <3>1. \A i \in DOMAIN M : M[i] \in Exprs
      BY <2>5, <2>6
    <3> HIDE DEF M, L
    <3>2. QED
      BY <2>6, <3>1
  <2> HIDE DEF M
  <2>8. And(M) \in ExprLevels[n + 2] /\ And(M) \in Exprs
    BY <2>4, <2>6, ExprMade, ExprGrow
  <2>9. Negated[Or(cs)] = And(M)
    BY <1>2, NegateShapes DEF M
  <2>10. Proper(And(M))
    BY <2>5, <2>6, <2>7, <2>8, ProperMade
  <2>11. ASSUME NEW row \in Rows PROVE Eval(And(M), row) = "true" <=> Eval(Or(cs), row) # "true"
    <3>1. Eval(And(M), row) = "true" <=> \A i \in DOMAIN M : Eval(M[i], row) = "true"
      BY <2>5, <2>6, <2>8, JoinVerdicts
    <3>2. Eval(Or(cs), row) = "true" <=> \E i \in DOMAIN cs : Eval(cs[i], row) = "true"
      BY <1>2, <2>5, JoinVerdicts
    <3>3. \A i \in DOMAIN M : Eval(M[i], row) = "true" <=> Eval(cs[i], row) # "true"
      BY <2>5, <2>6
    <3>4. QED
      BY <2>6, <3>1, <3>2, <3>3
  <2>12. QED
    BY <2>8, <2>9, <2>10, <2>11
<1>3. QED
  BY <1>1, <1>2

\* A proper expression has a text, and negated turns it.
LEMMA ProperTurns ==
  ASSUME NEW x, Proper(x)
  PROVE  x \in Exprs /\ Solid[x] /\ Turns(x)
<1> DEFINE S == {y \in Exprs : Solid[y] /\ Turns(y)}
<1>1. Atoms \ {Nil} \subseteq S
  <2>1. Atoms \subseteq Exprs
    BY Room, ExprMade, ExprGrow
  <2>2. QED
    BY <2>1, SolidAtoms, AtomTurns
<1>2. \A a \in Atoms \ {Nil} : FieldOf(a) \cap Nullable = {} => Not(a) \in S
  BY ProperMade, NotTurns DEF Proper
<1>3. \A a \in Atoms : FieldOf(a) \cap Nullable # {} => Or(<<IsNull(a.f), Not(a)>>) \in S
  BY ProperMade, SealedTurns DEF Proper
<1>4. ASSUME NEW cs \in Seq(S), cs # <<>>
      PROVE  (And(cs) \in Exprs => And(cs) \in S) /\ (Or(cs) \in Exprs => Or(cs) \in S)
  <2>1. \A i \in DOMAIN cs : cs[i] \in S
    BY <1>4
  <2>2. cs \in Seq(Exprs)
    <3>1. \A i \in DOMAIN cs : cs[i] \in Exprs
      BY <2>1
    <3> HIDE DEF S
    <3>2. QED
      BY <1>4, <3>1
  <2>3. \A i \in DOMAIN cs : Solid[cs[i]] /\ Turns(cs[i])
    BY <2>1
  <2> HIDE DEF S
  <2>4. (And(cs) \in Exprs => Turns(And(cs))) /\ (Or(cs) \in Exprs => Turns(Or(cs)))
    BY <1>4, <2>2, <2>3, JoinTurns
  <2>5. (And(cs) \in Exprs => Solid[And(cs)]) /\ (Or(cs) \in Exprs => Solid[Or(cs)])
    BY <1>4, <2>3, SolidShapes
  <2>6. QED
    BY <2>4, <2>5 DEF S
<1>5. S \in SUBSET Exprs
  OBVIOUS
<1>6. x \in S
  <2> HIDE DEF S
  <2>1. Closed(S)
    BY <1>1, <1>2, <1>3, <1>4 DEF Closed
  <2>2. QED
    BY <1>5, <2>1 DEF Proper
<1>7. QED
  BY <1>6

\* The bounds of a range.
Tests == [op : Operators, v : Values]

\* The kinds of leaf of a query.
LEMMA ClauseKinds ==
  ASSUME NEW q \in Clauses
  PROVE  /\ q.k \in {"all", "none", "term", "terms", "match", "range", "exists"}
         /\ q.k = "all" => q = MatchAll
         /\ q.k = "none" => q = MatchNone
         /\ q.k = "term" => q.f \in Names /\ q.v \in Values
         /\ q.k = "terms" => q.f \in Names /\ q.vs \in SUBSET Values
         /\ q.k = "match" => /\ q.f \in Names /\ q.toks \in Seq(Values) /\ q.op \in {"and", "or"}
                             /\ (q.f \notin TextField => q.toks # <<>>)
         /\ q.k = "range" => q.f \in Names /\ q.bs \in Seq(Tests) /\ q.bs # <<>>
         /\ q.k = "exists" => q.f \in Names
<1> DEFINE TV == Seq(Values)
           BV == Seq(Tests)
           PV == SUBSET Values
<1>1. TextField \subseteq Names
  BY QueryAssumption
<1>2. q \in [k : {"all", "none"}]
      \/ q \in [k : {"term"}, f : Names, v : Values]
      \/ q \in [k : {"terms"}, f : Names, vs : PV]
      \/ q \in [k : {"match"}, f : TextField, toks : TV, op : {"and", "or"}]
      \/ q \in [k : {"match"}, f : Names \ TextField, toks : TV \ {<<>>}, op : {"and", "or"}]
      \/ q \in [k : {"range"}, f : Names, bs : BV \ {<<>>}]
      \/ q \in [k : {"exists"}, f : Names]
  BY DEF Clauses, Tests
<1> HIDE DEF TV, BV, PV
<1>3. CASE q \in [k : {"all", "none"}]
  BY <1>3 DEF MatchAll, MatchNone
<1>4. CASE q \in [k : {"term"}, f : Names, v : Values]
  BY <1>4
<1>5. CASE q \in [k : {"terms"}, f : Names, vs : PV]
  BY <1>5 DEF PV
<1>6. CASE q \in [k : {"match"}, f : TextField, toks : TV, op : {"and", "or"}]
  <2>1. q.k = "match" /\ q.f \in TextField /\ q.toks \in TV /\ q.op \in {"and", "or"}
    BY <1>6
  <2>2. QED
    BY <1>1, <2>1 DEF TV
<1>7. CASE q \in [k : {"match"}, f : Names \ TextField, toks : TV \ {<<>>}, op : {"and", "or"}]
  <2>1. q.k = "match" /\ q.f \in Names \ TextField /\ q.toks \in TV \ {<<>>} /\ q.op \in {"and", "or"}
    BY <1>7
  <2>2. QED
    BY <2>1 DEF TV
<1>8. CASE q \in [k : {"range"}, f : Names, bs : BV \ {<<>>}]
  <2>1. q.k = "range" /\ q.f \in Names /\ q.bs \in BV \ {<<>>}
    BY <1>8
  <2>2. QED
    BY <2>1 DEF BV
<1>9. CASE q \in [k : {"exists"}, f : Names]
  BY <1>9
<1>10. QED
  BY <1>2, <1>3, <1>4, <1>5, <1>6, <1>7, <1>8, <1>9

\* A proper expression is a filter: neither nil nor an error.
LEMMA ProperIs ==
  ASSUME NEW x, Proper(x)
  PROVE  x # Nil /\ x # Error
<1>1. x \in Exprs /\ Solid[x]
  BY ProperTurns
<1>2. Nil \in Exprs /\ ~Solid[Nil]
  <2>1. Nil \in Exprs
    BY AtomsMade, Room, ExprMade, ExprGrow
  <2>2. QED
    BY <2>1, SolidSteps DEF SolidStep, Nil
<1>3. Error \notin Exprs
  BY ExprParts, Room DEF Exprs, Error
<1>4. QED
  BY <1>1, <1>2, <1>3

\* What a leaf means.
LEMMA LeafMeans ==
  ASSUME NEW row, NEW q \in Clauses
  PROVE  /\ q \in Queries /\ q.k # "bool" /\ (Matches(q, row) <=> MatchStep(<<>>, q, row))
         /\ q.k \in {"all", "none"} \/ q \notin {MatchAll, MatchNone}
<1>1. q \in Queries
  BY QueryMade, QueryGrow, QueryAssumption
<1>2. q.k \in {"all", "none", "term", "terms", "match", "range", "exists"}
  BY ClauseKinds
<1>3. MatchStep(Meanings(row), q, row) = MatchStep(<<>>, q, row)
  BY <1>2 DEF MatchStep
<1>4. QED
  BY <1>1, <1>2, <1>3, MatchSteps, MatchesIs DEF MatchAll, MatchNone

\* Looking for the leaf of one comparison.
LEMMA TestMeans ==
  ASSUME NEW row, NEW f \in Names
  PROVE  /\ \A op \in Operators, v \in Values :
              Eval(Compare(op, f, v), row) = "true" <=> row[f] # Null /\ Holds(op, row[f], v)
         /\ \A vs \in SUBSET Values : Eval(InList(f, vs), row) = "true" <=> row[f] # Null /\ row[f] \in vs
         /\ \A ts \in SUBSET Values : Eval(TextMatch(f, ts), row) = "true" <=> row[f] # Null /\ row[f] \cap ts # {}
         /\ Eval(NotNull(f), row) = "true" <=> row[f] # Null
<1>1. \A b : Truth(b) = "true" <=> b
  BY DEF Truth
<1>2. \A op \in Operators, v \in Values :
        Eval(Compare(op, f, v), row) = "true" <=> row[f] # Null /\ Holds(op, row[f], v)
  <2>1. SUFFICES ASSUME NEW op \in Operators, NEW v \in Values
                 PROVE  Eval(Compare(op, f, v), row) = "true" <=> row[f] # Null /\ Holds(op, row[f], v)
    OBVIOUS
  <2>2. Eval(Compare(op, f, v), row) = IF row[f] = Null THEN "unknown" ELSE Truth(Holds(op, row[f], v))
    BY EvalAtoms
  <2> DEFINE h == Holds(op, row[f], v)
  <2> HIDE DEF h
  <2>3. Eval(Compare(op, f, v), row) = IF row[f] = Null THEN "unknown" ELSE Truth(h)
    BY <2>2 DEF h
  <2>4. Eval(Compare(op, f, v), row) = "true" <=> row[f] # Null /\ h
    BY <2>3 DEF Truth
  <2>5. QED
    BY <2>4 DEF h
<1>3. \A vs \in SUBSET Values : Eval(InList(f, vs), row) = "true" <=> row[f] # Null /\ row[f] \in vs
  <2>1. SUFFICES ASSUME NEW vs \in SUBSET Values
                 PROVE  Eval(InList(f, vs), row) = "true" <=> row[f] # Null /\ row[f] \in vs
    OBVIOUS
  <2>2. Eval(InList(f, vs), row) = IF row[f] = Null THEN "unknown" ELSE Truth(row[f] \in vs)
    BY EvalAtoms
  <2>3. QED
    BY <2>2 DEF Truth
<1>4. \A ts \in SUBSET Values : Eval(TextMatch(f, ts), row) = "true" <=> row[f] # Null /\ row[f] \cap ts # {}
  <2>1. SUFFICES ASSUME NEW ts \in SUBSET Values
                 PROVE  Eval(TextMatch(f, ts), row) = "true" <=> row[f] # Null /\ row[f] \cap ts # {}
    OBVIOUS
  <2>2. Eval(TextMatch(f, ts), row) = IF row[f] = Null THEN "unknown" ELSE Truth(row[f] \cap ts # {})
    BY EvalAtoms
  <2>3. QED
    BY <2>2 DEF Truth
<1>5. Eval(NotNull(f), row) = "true" <=> row[f] # Null
  <2>1. Eval(NotNull(f), row) = Truth(row[f] # Null)
    BY EvalAtoms
  <2>2. QED
    BY <2>1 DEF Truth
<1>6. QED
  BY <1>2, <1>3, <1>4, <1>5

\* The leaf x stands for the clause q.
StandsFor(x, q) ==
  /\ Proper(x) /\ x \in ExprLevels[1]
  /\ \A row \in Rows : Eval(x, row) = "true" <=> Matches(q, row)

\* A leaf is a filter of one level.
LEMMA AtomStands ==
  ASSUME NEW a \in Atoms \ {Nil}
  PROVE  Proper(a) /\ a \in ExprLevels[1]
BY ProperMade, ExprMade, Room

\* The tests that the bounds of a range, or the tokens of a text, become.
LEMMA TestsStand ==
  ASSUME NEW q \in Clauses, NEW cs \in Seq(Atoms \ {Nil}), cs # <<>>,
         \A row \in Rows : (\A i \in DOMAIN cs : Eval(cs[i], row) = "true") <=> Matches(q, row)
  PROVE  StandsFor(And(cs), q)
<1>1. 1 \in 0..Nesting /\ 1 - 1 = 0 /\ ExprLevels[0] = Atoms /\ ExprLevels[1] \subseteq Exprs /\ Atoms \subseteq Exprs
  BY Room, ExprLevelSteps, ExprGrow
<1>2. \A i \in DOMAIN cs : cs[i] \in Atoms \ {Nil}
  OBVIOUS
<1>3. cs \in Seq(Atoms) /\ cs \in Seq(Exprs) /\ DOMAIN cs = 1..Len(cs)
  <2>1. \A i \in DOMAIN cs : cs[i] \in Atoms /\ cs[i] \in Exprs
    BY <1>1, <1>2
  <2>2. QED
    BY <2>1
<1>4. And(cs) \in ExprLevels[1] /\ And(cs) \in Exprs
  BY <1>1, <1>3, ExprMade
<1>5. Proper(And(cs))
  BY <1>2, <1>3, <1>4, ProperMade
<1>6. ASSUME NEW row \in Rows PROVE Eval(And(cs), row) = "true" <=> Matches(q, row)
  <2>1. \A i \in DOMAIN cs : cs[i] \in Exprs
    BY <1>1, <1>2
  <2>2. QED
    BY <1>4, <2>1, JoinVerdicts
<1>7. QED
  BY <1>4, <1>5, <1>6 DEF StandsFor

LEMMA MatchStands ==
  ASSUME NEW q \in Clauses, q.k = "match", Bad \notin Coerced(q)
  PROVE  StandsFor(MatchExpr(q), q)
<1>1. /\ q.f \in Names /\ q.toks \in Seq(Values) /\ q.op \in {"and", "or"}
      /\ (q.f \notin TextField => q.toks # <<>>)
  BY ClauseKinds
<1>2. ASSUME NEW row \in Rows
      PROVE  Matches(q, row) <=>
               /\ row[q.f] # Null
               /\ IF q.f \notin TextField THEN row[q.f] = q.toks[1]
                  ELSE IF q.op = "and" THEN q.toks # <<>> /\ ToSet(q.toks) \subseteq row[q.f]
                  ELSE ToSet(q.toks) \cap row[q.f] # {}
  BY LeafMeans DEF MatchStep
<1>3. CASE q.f \notin TextField
  <2>1. q.toks[1] \in Values
    BY <1>1, <1>3
  <2>2. MatchExpr(q) = Compare("=", q.f, q.toks[1]) /\ "=" \in Operators
    BY <1>3 DEF MatchExpr, Operators
  <2>3. ASSUME NEW row \in Rows PROVE Eval(Compare("=", q.f, q.toks[1]), row) = "true" <=> Matches(q, row)
    <3>1. Holds("=", row[q.f], q.toks[1]) <=> row[q.f] = q.toks[1]
      BY DEF Holds
    <3>2. QED
      BY <1>1, <1>2, <1>3, <2>1, <2>2, <3>1, TestMeans
  <2>4. QED
    BY <1>1, <2>1, <2>2, <2>3, AtomsMade, AtomStands DEF StandsFor
<1>4. CASE q.f \in TextField /\ q.toks = <<>>
  <2>1. MatchExpr(q) = Never
    BY <1>4 DEF MatchExpr
  <2>2. ASSUME NEW row \in Rows PROVE Eval(Never, row) = "true" <=> Matches(q, row)
    <3>1. ToSet(q.toks) = {}
      BY <1>4 DEF ToSet
    <3>2. Eval(Never, row) # "true"
      BY EvalAtoms
    <3>3. QED
      BY <1>2, <1>4, <3>1, <3>2
  <2>3. QED
    BY <2>1, <2>2, AtomsMade, AtomStands DEF StandsFor
<1>5. CASE q.f \in TextField /\ q.toks # <<>> /\ q.op = "and"
  <2> DEFINE cs == [i \in DOMAIN q.toks |-> TextMatch(q.f, {q.toks[i]})]
             A == Atoms \ {Nil}
  <2>1. MatchExpr(q) = And(cs)
    BY <1>5 DEF MatchExpr
  <2>2. DOMAIN q.toks = 1..Len(q.toks) /\ Len(q.toks) \in Nat /\ 1 \in DOMAIN q.toks /\ \A i \in DOMAIN q.toks : q.toks[i] \in Values
    BY <1>1, <1>5
  <2>3. \A i \in DOMAIN q.toks : TextMatch(q.f, {q.toks[i]}) \in A
    BY <1>1, <2>2, AtomsMade
  <2>4. cs \in Seq(A) /\ DOMAIN cs = DOMAIN q.toks /\ cs # <<>> /\ \A i \in DOMAIN cs : cs[i] = TextMatch(q.f, {q.toks[i]})
    <3> HIDE DEF A
    <3>1. DOMAIN cs = DOMAIN q.toks /\ \A i \in DOMAIN cs : cs[i] = TextMatch(q.f, {q.toks[i]})
      OBVIOUS
    <3>2. cs \in Seq(A)
      BY <2>2, <2>3
    <3>3. QED
      BY <2>2, <3>1, <3>2
  <2>5. ASSUME NEW row \in Rows PROVE (\A i \in DOMAIN cs : Eval(cs[i], row) = "true") <=> Matches(q, row)
    <3> HIDE DEF cs, A
    <3>1. \A i \in DOMAIN cs : Eval(cs[i], row) = "true" <=> row[q.f] # Null /\ row[q.f] \cap {q.toks[i]} # {}
      <4>1. SUFFICES ASSUME NEW i \in DOMAIN cs
                     PROVE  Eval(cs[i], row) = "true" <=> row[q.f] # Null /\ row[q.f] \cap {q.toks[i]} # {}
        OBVIOUS
      <4> DEFINE ts == {q.toks[i]}
      <4>2. ts \in SUBSET Values /\ cs[i] = TextMatch(q.f, ts)
        BY <2>2, <2>4
      <4> HIDE DEF ts
      <4>3. Eval(cs[i], row) = "true" <=> row[q.f] # Null /\ row[q.f] \cap ts # {}
        BY <1>1, <4>2, TestMeans
      <4>4. QED
        BY <4>3 DEF ts
    <3>2. \A i \in DOMAIN cs : Eval(cs[i], row) = "true" <=> row[q.f] # Null /\ q.toks[i] \in row[q.f]
      BY <3>1
    <3>3. ToSet(q.toks) \subseteq row[q.f] <=> \A i \in DOMAIN q.toks : q.toks[i] \in row[q.f]
      BY DEF ToSet
    <3>4. QED
      BY <1>2, <1>5, <2>2, <2>4, <3>2, <3>3
  <2> HIDE DEF cs
  <2>6. QED
    BY <2>1, <2>4, <2>5, TestsStand
<1>6. CASE q.f \in TextField /\ q.toks # <<>> /\ q.op = "or"
  <2> DEFINE ts == ToSet(q.toks)
  <2>1. MatchExpr(q) = TextMatch(q.f, ts)
    BY <1>6 DEF MatchExpr
  <2>2. ts \in SUBSET Values
    BY <1>1 DEF ToSet
  <2> HIDE DEF ts
  <2>3. ASSUME NEW row \in Rows PROVE Eval(TextMatch(q.f, ts), row) = "true" <=> Matches(q, row)
    <3>1. Eval(TextMatch(q.f, ts), row) = "true" <=> row[q.f] # Null /\ row[q.f] \cap ts # {}
      BY <1>1, <2>2, TestMeans
    <3>2. Matches(q, row) <=> row[q.f] # Null /\ ts \cap row[q.f] # {}
      BY <1>2, <1>6 DEF ts
    <3>3. ts \cap row[q.f] = row[q.f] \cap ts
      OBVIOUS
    <3>4. QED
      BY <3>1, <3>2, <3>3
  <2>4. QED
    BY <1>1, <2>1, <2>2, <2>3, AtomsMade, AtomStands DEF StandsFor
<1>7. QED
  BY <1>1, <1>3, <1>4, <1>5, <1>6

LEMMA RangeStands ==
  ASSUME NEW q \in Clauses, q.k = "range"
  PROVE  StandsFor(RangeExpr(q), q)
<1> DEFINE cs == [i \in DOMAIN q.bs |-> Compare(q.bs[i].op, q.f, q.bs[i].v)]
           A == Atoms \ {Nil}
<1>1. q.f \in Names /\ q.bs \in Seq(Tests) /\ q.bs # <<>>
  BY ClauseKinds
<1>2. DOMAIN q.bs = 1..Len(q.bs) /\ Len(q.bs) \in Nat /\ Len(q.bs) # 0 /\ 1 \in DOMAIN q.bs /\ \A i \in DOMAIN q.bs : q.bs[i] \in Tests
  BY <1>1
<1>3. \A i \in DOMAIN q.bs : q.bs[i].op \in Operators /\ q.bs[i].v \in Values
  BY <1>2 DEF Tests
<1>4. \A i \in DOMAIN q.bs : Compare(q.bs[i].op, q.f, q.bs[i].v) \in A
  BY <1>1, <1>3, AtomsMade
<1>5. DOMAIN cs = DOMAIN q.bs /\ \A i \in DOMAIN cs : cs[i] = Compare(q.bs[i].op, q.f, q.bs[i].v)
  OBVIOUS
<1>6. cs \in Seq(A) /\ Len(cs) = Len(q.bs)
  <2> HIDE DEF A
  <2>1. QED
    BY <1>2, <1>4
<1>7. RangeExpr(q) = IF Len(cs) = 1 THEN cs[1] ELSE And(cs)
  BY DEF RangeExpr
<1> HIDE DEF cs
<1>8. ASSUME NEW row \in Rows PROVE (\A i \in DOMAIN cs : Eval(cs[i], row) = "true") <=> Matches(q, row)
  <2>1. Matches(q, row) <=> row[q.f] # Null /\ \A i \in DOMAIN q.bs : Holds(q.bs[i].op, row[q.f], q.bs[i].v)
    BY LeafMeans DEF MatchStep
  <2>2. \A i \in DOMAIN cs : Eval(cs[i], row) = "true" <=> row[q.f] # Null /\ Holds(q.bs[i].op, row[q.f], q.bs[i].v)
    BY <1>1, <1>3, <1>5, TestMeans
  <2>3. \A i \in DOMAIN q.bs : Eval(cs[i], row) = "true" <=> row[q.f] # Null /\ Holds(q.bs[i].op, row[q.f], q.bs[i].v)
    BY <1>5, <2>2
  <2> DEFINE H(i) == Holds(q.bs[i].op, row[q.f], q.bs[i].v)
             E(i) == Eval(cs[i], row) = "true"
  <2>4. Matches(q, row) <=> row[q.f] # Null /\ \A i \in DOMAIN q.bs : H(i)
    BY <2>1
  <2>5. \A i \in DOMAIN q.bs : E(i) <=> row[q.f] # Null /\ H(i)
    BY <2>3
  <2> HIDE DEF H, E
  <2>6. (\A i \in DOMAIN q.bs : E(i)) <=> Matches(q, row)
    BY <1>2, <2>4, <2>5
  <2>7. QED
    BY <1>5, <2>6 DEF E
<1>9. cs # <<>>
  BY <1>2, <1>5
<1>10. CASE Len(cs) = 1
  <2>1. DOMAIN cs = {1}
    BY <1>2, <1>5, <1>6, <1>10
  <2>2. cs[1] \in A
    <3> HIDE DEF A
    <3>1. QED
      BY <1>6, <2>1
  <2>3. \A row \in Rows : Eval(cs[1], row) = "true" <=> Matches(q, row)
    BY <1>8, <2>1
  <2>4. QED
    BY <1>7, <1>10, <2>2, <2>3, AtomStands DEF StandsFor
<1>11. CASE Len(cs) # 1
  BY <1>6, <1>7, <1>8, <1>9, <1>11, TestsStand
<1>12. QED
  BY <1>10, <1>11

\* What a leaf is lowered to: nothing for match_all, an error for a value that does
\* not fit, and else an expression that stands for it.
LEMMA LeafBuilt ==
  ASSUME NEW q \in Clauses
  PROVE  /\ Bad \in Coerced(q) => LeafExpr(q) = Error
         /\ q = MatchAll => LeafExpr(q) = Nil
         /\ Bad \notin Coerced(q) /\ q # MatchAll => StandsFor(LeafExpr(q), q)
<1>1. Bad \in Coerced(q) => LeafExpr(q) = Error
  BY DEF LeafExpr
<1>2. q = MatchAll => LeafExpr(q) = Nil
  <2>1. MatchAll.k = "all"
    BY DEF MatchAll
  <2>2. Coerced(MatchAll) = {}
    BY <2>1 DEF Coerced
  <2>3. QED
    BY <2>1, <2>2 DEF LeafExpr
<1>3. ASSUME Bad \notin Coerced(q), q # MatchAll PROVE StandsFor(LeafExpr(q), q)
  <2>1. CASE q = MatchNone
    <3>1. LeafExpr(q) = Never
      BY <2>1 DEF LeafExpr, Coerced, MatchNone
    <3>2. q.k = "none"
      BY <2>1 DEF MatchNone
    <3>3. \A row \in Rows : ~Matches(q, row) /\ Eval(Never, row) # "true"
      <4>1. \A row \in Rows : ~MatchStep(<<>>, q, row)
        BY <3>2 DEF MatchStep
      <4>2. QED
        BY <4>1, LeafMeans, EvalAtoms
    <3>4. QED
      BY <3>1, <3>3, AtomsMade, AtomStands DEF StandsFor
  <2>2. CASE q.k = "term"
    <3>1. q.f \in Names /\ q.v \in Values
      BY <2>2, ClauseKinds
    <3>2. LeafExpr(q) = Compare("=", q.f, q.v) /\ "=" \in Operators
      BY <1>3, <2>2 DEF LeafExpr, Operators
    <3>3. ASSUME NEW row \in Rows PROVE Eval(Compare("=", q.f, q.v), row) = "true" <=> Matches(q, row)
      <4>1. Matches(q, row) <=> row[q.f] # Null /\ row[q.f] = q.v
        BY <2>2, LeafMeans DEF MatchStep
      <4>2. Holds("=", row[q.f], q.v) <=> row[q.f] = q.v
        BY DEF Holds
      <4>3. QED
        BY <3>1, <3>2, <4>1, <4>2, TestMeans
    <3>4. QED
      BY <3>1, <3>2, <3>3, AtomsMade, AtomStands DEF StandsFor
  <2>3. CASE q.k = "terms"
    <3>1. q.f \in Names /\ q.vs \in SUBSET Values
      BY <2>3, ClauseKinds
    <3>2. LeafExpr(q) = InList(q.f, q.vs)
      BY <1>3, <2>3 DEF LeafExpr
    <3>3. ASSUME NEW row \in Rows PROVE Eval(InList(q.f, q.vs), row) = "true" <=> Matches(q, row)
      <4>1. Matches(q, row) <=> row[q.f] # Null /\ row[q.f] \in q.vs
        BY <2>3, LeafMeans DEF MatchStep
      <4>2. QED
        BY <3>1, <4>1, TestMeans
    <3>4. QED
      BY <3>1, <3>2, <3>3, AtomsMade, AtomStands DEF StandsFor
  <2>4. CASE q.k = "match"
    <3>1. LeafExpr(q) = MatchExpr(q)
      BY <1>3, <2>4 DEF LeafExpr
    <3>2. QED
      BY <1>3, <2>4, <3>1, MatchStands
  <2>5. CASE q.k = "range"
    <3>1. LeafExpr(q) = RangeExpr(q)
      BY <1>3, <2>5 DEF LeafExpr
    <3>2. QED
      BY <2>5, <3>1, RangeStands
  <2>6. CASE q.k = "exists"
    <3>1. q.f \in Names
      BY <2>6, ClauseKinds
    <3>2. LeafExpr(q) = NotNull(q.f)
      BY <1>3, <2>6 DEF LeafExpr
    <3>3. ASSUME NEW row \in Rows PROVE Eval(NotNull(q.f), row) = "true" <=> Matches(q, row)
      <4>1. Matches(q, row) <=> row[q.f] # Null
        BY <2>6, LeafMeans DEF MatchStep
      <4>2. QED
        BY <3>1, <4>1, TestMeans
    <3>4. QED
      BY <3>1, <3>2, <3>3, AtomsMade, AtomStands DEF StandsFor
  <2>7. QED
    BY <1>3, <2>1, <2>2, <2>3, <2>4, <2>5, <2>6, ClauseKinds
<1>4. QED
  BY <1>1, <1>2, <1>3

(***************************************************************************)
(* boolExpr.                                                               *)
(***************************************************************************)
\* The proper expressions of m levels.
Filters(m) == {x \in ExprLevels[m] : Proper(x)}

\* A step of levels at a time.
LEMMA FiltersGrow ==
  ASSUME NEW m \in Nat, m + 1 <= Nesting
  PROVE  /\ m \in 0..Nesting /\ m + 1 \in 0..Nesting
         /\ Filters(m) \subseteq Filters(m + 1) /\ Filters(m) \subseteq Exprs
         /\ Seq(Filters(m)) \subseteq Seq(Filters(m + 1))
<1>1. m \in 0..Nesting /\ m + 1 \in 0..Nesting /\ m + 1 # 0 /\ (m + 1) - 1 = m
  BY Room
<1>2. ExprLevels[m] \subseteq ExprLevels[m + 1] /\ ExprLevels[m] \subseteq Exprs
  BY <1>1, ExprGrow
<1>3. Filters(m) \subseteq Filters(m + 1) /\ Filters(m) \subseteq Exprs
  BY <1>2 DEF Filters
<1>4. QED
  BY <1>1, <1>3

\* The rows that pass all of a list.
AllOf(cs, row) == \A i \in DOMAIN cs : Eval(cs[i], row) = "true"
AnyOf(cs, row) == \E i \in DOMAIN cs : Eval(cs[i], row) = "true"

\* A group becomes nothing, or one expression that stands for it.
LEMMA JoinMade ==
  ASSUME NEW m \in Nat, m + 1 <= Nesting, NEW cs \in Seq(Filters(m)), NEW op \in {"and", "or"}
  PROVE  /\ Join(cs, op) \in Seq(Filters(m + 1)) /\ Len(Join(cs, op)) <= 1
         /\ Join(cs, op) = <<>> <=> cs = <<>>
         /\ op = "and" => \A row : AllOf(Join(cs, op), row) <=> AllOf(cs, row)
         /\ op = "or" => \A row : AllOf(Join(cs, op), row) <=> cs = <<>> \/ AnyOf(cs, row)
<1>1. /\ m \in 0..Nesting /\ m + 1 \in 0..Nesting /\ (m + 1) - 1 = m /\ m + 1 # 0
      /\ Filters(m) \subseteq Filters(m + 1) /\ Filters(m) \subseteq Exprs /\ cs \in Seq(Filters(m + 1))
  BY FiltersGrow
<1>2. Len(cs) \in Nat /\ DOMAIN cs = 1..Len(cs) /\ \A i \in DOMAIN cs : cs[i] \in Filters(m)
  OBVIOUS
<1>3. CASE Len(cs) <= 1
  <2>1. Join(cs, op) = cs
    BY <1>3 DEF Join
  <2>2. ASSUME NEW row PROVE AllOf(cs, row) <=> cs = <<>> \/ AnyOf(cs, row)
    <3>1. CASE Len(cs) = 0
      BY <3>1 DEF AllOf, AnyOf
    <3>2. CASE Len(cs) = 1
      BY <1>2, <3>2 DEF AllOf, AnyOf
    <3>3. QED
      BY <1>2, <1>3, <3>1, <3>2
  <2>3. QED
    BY <1>1, <1>3, <2>1, <2>2
<1>4. CASE Len(cs) > 1
  <2> DEFINE x == IF op = "and" THEN And(cs) ELSE Or(cs)
  <2>1. Join(cs, op) = <<x>>
    BY <1>2, <1>4 DEF Join
  <2>2. cs \in Seq(ExprLevels[m]) /\ cs \in Seq(Exprs) /\ cs # <<>> /\ \A i \in DOMAIN cs : cs[i] \in Exprs /\ Proper(cs[i])
    <3>1. \A i \in DOMAIN cs : cs[i] \in ExprLevels[m] /\ cs[i] \in Exprs /\ Proper(cs[i])
      BY <1>1, <1>2 DEF Filters
    <3>2. QED
      BY <1>2, <1>4, <3>1
  <2>3. And(cs) \in ExprLevels[m + 1] /\ Or(cs) \in ExprLevels[m + 1] /\ And(cs) \in Exprs /\ Or(cs) \in Exprs
    BY <1>1, <2>2, ExprMade, ExprGrow
  <2>4. And(cs) \in Filters(m + 1) /\ Or(cs) \in Filters(m + 1)
    BY <1>2, <2>2, <2>3, ProperMade DEF Filters
  <2>5. x \in Filters(m + 1)
    BY <2>4
  <2>6. ASSUME NEW row
        PROVE  /\ Eval(And(cs), row) = "true" <=> AllOf(cs, row)
               /\ Eval(Or(cs), row) = "true" <=> AnyOf(cs, row)
    BY <2>2, <2>3, JoinVerdicts DEF AllOf, AnyOf
  <2>7. /\ op = "and" => \A row : Eval(x, row) = "true" <=> AllOf(cs, row)
        /\ op = "or" => \A row : Eval(x, row) = "true" <=> AnyOf(cs, row)
    BY <2>6
  <2> HIDE DEF x
  <2>8. <<x>> \in Seq(Filters(m + 1)) /\ Len(<<x>>) = 1 /\ <<x>> # <<>>
    BY <2>5
  <2>9. ASSUME NEW row PROVE AllOf(<<x>>, row) <=> Eval(x, row) = "true"
    BY DEF AllOf
  <2>10. QED
    BY <2>1, <2>2, <2>7, <2>8, <2>9
<1>5. QED
  BY <1>2, <1>3, <1>4

\* Two lists in a row.
LEMMA ConcatAll ==
  ASSUME NEW S, NEW a \in Seq(S), NEW b \in Seq(S)
  PROVE  /\ a \o b \in Seq(S) /\ (a \o b = <<>> <=> a = <<>> /\ b = <<>>)
         /\ \A row : AllOf(a \o b, row) <=> AllOf(a, row) /\ AllOf(b, row)
<1> DEFINE c == a \o b
<1>1. /\ c \in Seq(S) /\ Len(a) \in Nat /\ Len(b) \in Nat /\ Len(c) = Len(a) + Len(b)
      /\ DOMAIN a = 1..Len(a) /\ DOMAIN b = 1..Len(b) /\ DOMAIN c = 1..Len(c)
  OBVIOUS
<1>2. \A i \in 1..Len(a) : c[i] = a[i]
  OBVIOUS
<1>3. \A i \in 1..Len(b) : c[Len(a) + i] = b[i]
  OBVIOUS
<1> HIDE DEF c
<1>4. ASSUME NEW row PROVE AllOf(c, row) <=> AllOf(a, row) /\ AllOf(b, row)
  <2> DEFINE E(x) == Eval(x, row) = "true"
  <2>1. AllOf(c, row) = (\A i \in DOMAIN c : E(c[i])) /\ AllOf(a, row) = (\A i \in DOMAIN a : E(a[i])) /\ AllOf(b, row) = (\A i \in DOMAIN b : E(b[i]))
    BY DEF AllOf
  <2> HIDE DEF E
  <2>2. ASSUME \A i \in DOMAIN c : E(c[i]) PROVE (\A i \in DOMAIN a : E(a[i])) /\ \A i \in DOMAIN b : E(b[i])
    <3>1. \A i \in DOMAIN a : i \in DOMAIN c
      BY <1>1
    <3>2. \A i \in DOMAIN b : Len(a) + i \in DOMAIN c
      BY <1>1
    <3>3. QED
      BY <1>1, <1>2, <1>3, <2>2, <3>1, <3>2
  <2>3. ASSUME \A i \in DOMAIN a : E(a[i]), \A i \in DOMAIN b : E(b[i]), NEW i \in DOMAIN c PROVE E(c[i])
    <3>1. CASE i <= Len(a)
      BY <1>1, <1>2, <2>3, <3>1
    <3>2. CASE i > Len(a)
      <4>1. i - Len(a) \in DOMAIN b /\ Len(a) + (i - Len(a)) = i
        BY <1>1, <2>3, <3>2
      <4>2. QED
        BY <1>1, <1>3, <2>3, <4>1
    <3>3. QED
      BY <1>1, <3>1, <3>2
  <2>4. QED
    BY <2>1, <2>2, <2>3
<1>5. c = <<>> <=> a = <<>> /\ b = <<>>
  <2>1. c = <<>> <=> Len(c) = 0
    BY <1>1
  <2>2. (a = <<>> <=> Len(a) = 0) /\ (b = <<>> <=> Len(b) = 0)
    BY <1>1
  <2>3. QED
    BY <1>1, <2>1, <2>2
<1>6. QED
  BY <1>1, <1>4, <1>5 DEF c

\* What buildExpr returns at m levels.
Lowered(m) == {Nil, Error} \cup Filters(m)

\* Leaving out the clauses without a filter.
LEMMA Dropped ==
  ASSUME NEW m, NEW s \in Seq(Lowered(m)), ~Some(s, Error)
  PROVE  /\ Without(s, Nil) \in Seq(Filters(m))
         /\ Without(s, Nil) = <<>> <=> \A i \in DOMAIN s : s[i] = Nil
         /\ \A row : AllOf(Without(s, Nil), row) <=> \A i \in DOMAIN s : s[i] = Nil \/ Eval(s[i], row) = "true"
         /\ \A row : AnyOf(Without(s, Nil), row) <=> \E i \in DOMAIN s : s[i] # Nil /\ Eval(s[i], row) = "true"
<1> DEFINE w == Without(s, Nil)
           L == Lowered(m)
<1>1. w \in Seq(L) /\ \A y : Some(w, y) <=> Some(s, y) /\ y # Nil
  <2> HIDE DEF L
  <2>1. s \in Seq(L)
    BY DEF L
  <2>2. QED
    BY <2>1, WithoutKeeps
<1>2. \A i \in DOMAIN s : s[i] \in L /\ s[i] # Error
  BY DEF Some
<1> HIDE DEF w, L
<1>3. \A i \in DOMAIN w : \E j \in DOMAIN s : s[j] = w[i] /\ s[j] # Nil
  BY <1>1 DEF Some
<1>4. \A j \in DOMAIN s : s[j] # Nil => \E i \in DOMAIN w : w[i] = s[j]
  BY <1>1 DEF Some
<1>5. \A i \in DOMAIN w : w[i] \in Filters(m)
  BY <1>2, <1>3 DEF L, Lowered
<1>6. w \in Seq(Filters(m))
  BY <1>1, <1>5
<1>7. w = <<>> <=> \A i \in DOMAIN s : s[i] = Nil
  <2>1. w = <<>> <=> DOMAIN w = {}
    BY <1>1
  <2>2. QED
    BY <1>3, <1>4, <2>1
<1>8. ASSUME NEW row PROVE AllOf(w, row) <=> \A i \in DOMAIN s : s[i] = Nil \/ Eval(s[i], row) = "true"
  BY <1>3, <1>4 DEF AllOf
<1>9. ASSUME NEW row PROVE AnyOf(w, row) <=> \E i \in DOMAIN s : s[i] # Nil /\ Eval(s[i], row) = "true"
  BY <1>3, <1>4 DEF AnyOf
<1>10. QED
  BY <1>6, <1>7, <1>8, <1>9 DEF w

\* The complements of a list.
LEMMA Turned ==
  ASSUME NEW m \in Nat, m + 2 <= Nesting, NEW s \in Seq(Filters(m))
  PROVE  /\ Mapped(Negated, s) \in Seq(Filters(m + 2))
         /\ Mapped(Negated, s) = <<>> <=> s = <<>>
         /\ \A row \in Rows : AllOf(Mapped(Negated, s), row) <=> \A i \in DOMAIN s : Eval(s[i], row) # "true"
<1> DEFINE F == Filters(m)
           G == Filters(m + 2)
<1>1. m \in 0..Nesting
  BY Room
<1>2. ASSUME NEW x \in F
      PROVE  Negated[x] \in G /\ \A row \in Rows : Eval(Negated[x], row) = "true" <=> Eval(x, row) # "true"
  <2>1. Proper(x) /\ x \in ExprLevels[m]
    BY DEF Filters
  <2>2. Turns(x)
    BY <2>1, ProperTurns
  <2>3. QED
    BY <1>1, <2>1, <2>2 DEF Turns, Filters
<1> HIDE DEF F, G
<1>3. s \in Seq(F) /\ \A i \in DOMAIN s : s[i] \in F
  BY DEF F
<1>4. /\ Mapped(Negated, s) \in Seq(G) /\ DOMAIN Mapped(Negated, s) = DOMAIN s
      /\ \A i \in DOMAIN s : Mapped(Negated, s)[i] = Negated[s[i]]
      /\ Mapped(Negated, s) = <<>> <=> s = <<>>
  <2>1. \A i \in DOMAIN s : Negated[s[i]] \in G
    BY <1>2, <1>3
  <2>2. QED
    BY <1>3, <2>1, MappedSeq
<1>5. ASSUME NEW row \in Rows PROVE AllOf(Mapped(Negated, s), row) <=> \A i \in DOMAIN s : Eval(s[i], row) # "true"
  BY <1>2, <1>3, <1>4 DEF AllOf
<1>6. QED
  BY <1>4, <1>5 DEF G

\* A group that a row passes.
PassAll(s, row) == \A i \in DOMAIN s : s[i] = Nil \/ Eval(s[i], row) = "true"
PassNone(s, row) == \A i \in DOMAIN s : s[i] = Nil \/ Eval(s[i], row) # "true"
PassAny(s, row) ==
  (\A i \in DOMAIN s : s[i] = Nil) \/ \E i \in DOMAIN s : s[i] # Nil /\ Eval(s[i], row) = "true"

\* The expression of a bool says what its groups say.
LEMMA BoolBuilt ==
  ASSUME NEW m \in Nat, m + 3 <= Nesting, NEW must \in Seq(Lowered(m)), NEW should \in Seq(Lowered(m)),
         NEW mustNot \in Seq(Lowered(m)),
         ~Some(must, Error), ~Some(should, Error), ~Some(mustNot, Error)
  PROVE  LET x == BoolExpr(must, should, mustNot)
         IN \/ /\ x = Nil
               /\ \A g \in {must, should, mustNot} : \A i \in DOMAIN g : g[i] = Nil
            \/ /\ x \in Filters(m + 3)
               /\ \A row \in Rows : Eval(x, row) = "true" <=>
                    PassAll(must, row) /\ PassAny(should, row) /\ PassNone(mustNot, row)
<1> DEFINE a == Without(must, Nil)
           b == Without(should, Nil)
           c == Without(mustNot, Nil)
           A == Join(a, "and")
           B == Join(b, "or")
           C == Mapped(Negated, c)
           ch == A \o B \o C
           W == Join(ch, "and")
           x == BoolExpr(must, should, mustNot)
<1>1. x = IF W = <<>> THEN Nil ELSE W[1]
  BY DEF BoolExpr
<1>2. /\ m + 1 \in Nat /\ m + 2 \in Nat /\ m + 1 <= Nesting /\ m + 2 <= Nesting /\ (m + 1) + 1 = m + 2
      /\ (m + 2) + 1 = m + 3 /\ (m + 1) + 1 <= Nesting /\ (m + 2) + 1 <= Nesting
  BY Room
<1> HIDE DEF x, W, ch, A, B, C, a, b, c
<1>3. /\ a \in Seq(Filters(m)) /\ (a = <<>> <=> \A i \in DOMAIN must : must[i] = Nil)
      /\ \A row : AllOf(a, row) <=> PassAll(must, row)
  BY Dropped DEF a, PassAll
<1>4. /\ b \in Seq(Filters(m)) /\ (b = <<>> <=> \A i \in DOMAIN should : should[i] = Nil)
      /\ \A row : b = <<>> \/ AnyOf(b, row) <=> PassAny(should, row)
  BY Dropped DEF b, PassAny
<1>5. /\ c \in Seq(Filters(m)) /\ (c = <<>> <=> \A i \in DOMAIN mustNot : mustNot[i] = Nil)
      /\ \A row : (\A i \in DOMAIN c : Eval(c[i], row) # "true") <=> PassNone(mustNot, row)
  <2>1. c \in Seq(Filters(m)) /\ (c = <<>> <=> \A i \in DOMAIN mustNot : mustNot[i] = Nil)
    BY Dropped DEF c
  <2>2. ASSUME NEW row PROVE ~AnyOf(c, row) <=> PassNone(mustNot, row)
    BY Dropped DEF c, PassNone
  <2>3. QED
    BY <2>1, <2>2 DEF AnyOf
<1>6. A \in Seq(Filters(m + 1)) /\ (A = <<>> <=> a = <<>>) /\ \A row : AllOf(A, row) <=> AllOf(a, row)
  BY <1>2, <1>3, JoinMade DEF A
<1>7. B \in Seq(Filters(m + 1)) /\ (B = <<>> <=> b = <<>>) /\ \A row : AllOf(B, row) <=> b = <<>> \/ AnyOf(b, row)
  BY <1>2, <1>4, JoinMade DEF B
<1>8. /\ C \in Seq(Filters(m + 2)) /\ (C = <<>> <=> c = <<>>)
      /\ \A row \in Rows : AllOf(C, row) <=> \A i \in DOMAIN c : Eval(c[i], row) # "true"
  BY <1>2, <1>5, Turned DEF C
<1>9. A \in Seq(Filters(m + 2)) /\ B \in Seq(Filters(m + 2))
  <2>1. Seq(Filters(m + 1)) \subseteq Seq(Filters((m + 1) + 1))
    BY <1>2, FiltersGrow
  <2>2. QED
    BY <1>2, <1>6, <1>7, <2>1
<1>10. /\ ch \in Seq(Filters(m + 2)) /\ (ch = <<>> <=> A = <<>> /\ B = <<>> /\ C = <<>>)
       /\ \A row : AllOf(ch, row) <=> AllOf(A, row) /\ AllOf(B, row) /\ AllOf(C, row)
  <2> DEFINE ab == A \o B
  <2>1. /\ ab \in Seq(Filters(m + 2)) /\ (ab = <<>> <=> A = <<>> /\ B = <<>>)
        /\ \A row : AllOf(ab, row) <=> AllOf(A, row) /\ AllOf(B, row)
    BY <1>9, ConcatAll
  <2> HIDE DEF ab
  <2>2. /\ ab \o C \in Seq(Filters(m + 2)) /\ (ab \o C = <<>> <=> ab = <<>> /\ C = <<>>)
        /\ \A row : AllOf(ab \o C, row) <=> AllOf(ab, row) /\ AllOf(C, row)
    BY <1>8, <2>1, ConcatAll
  <2>3. ch = ab \o C
    BY DEF ch, ab
  <2>4. QED
    BY <2>1, <2>2, <2>3
<1>11. /\ W \in Seq(Filters(m + 3)) /\ Len(W) <= 1 /\ (W = <<>> <=> ch = <<>>)
       /\ \A row : AllOf(W, row) <=> AllOf(ch, row)
  BY <1>2, <1>10, JoinMade DEF W
<1>12. CASE W = <<>>
  <2>1. x = Nil /\ a = <<>> /\ b = <<>> /\ c = <<>>
    BY <1>1, <1>6, <1>7, <1>8, <1>10, <1>11, <1>12
  <2>2. \A g \in {must, should, mustNot} : \A i \in DOMAIN g : g[i] = Nil
    BY <1>3, <1>4, <1>5, <2>1
  <2>3. QED
    BY <2>1, <2>2 DEF x
<1>13. CASE W # <<>>
  <2>1. DOMAIN W = {1} /\ W[1] \in Filters(m + 3) /\ x = W[1]
    <3>1. Len(W) = 1
      <4>1. Len(W) \in Nat /\ Len(W) # 0
        BY <1>11, <1>13
      <4>2. Len(W) <= 1
        BY <1>11
      <4>3. \A k \in Nat : k # 0 /\ k <= 1 => k = 1
        OBVIOUS
      <4>4. QED
        BY <4>1, <4>2, <4>3, Zenon
    <3>2. QED
      BY <1>1, <1>11, <1>13, <3>1
  <2>2. ASSUME NEW row \in Rows
        PROVE  Eval(x, row) = "true" <=> PassAll(must, row) /\ PassAny(should, row) /\ PassNone(mustNot, row)
    <3>1. Eval(x, row) = "true" <=> AllOf(W, row)
      BY <2>1 DEF AllOf
    <3>2. QED
      BY <1>3, <1>4, <1>5, <1>6, <1>7, <1>8, <1>10, <1>11, <3>1
  <2>3. QED
    BY <2>1, <2>2 DEF x
<1>14. QED
  BY <1>12, <1>13

\* The room there is for what n levels of a query become.
LEMMA RoomFor ==
  ASSUME NEW n \in 0..Depth
  PROVE  /\ n \in Nat /\ 3 * n + 1 \in Nat /\ 3 * n + 1 <= Nesting
         /\ n # 0 => /\ n - 1 \in 0..Depth /\ 3 * (n - 1) + 1 \in Nat
                     /\ (3 * (n - 1) + 1) + 3 = 3 * n + 1 /\ (3 * (n - 1) + 1) + 3 <= Nesting
<1>1. Depth \in Nat /\ Nesting \in Nat /\ Nesting >= 3 * Depth + 1
  BY QueryAssumption, NestingAssumption
<1>2. QED
  BY <1>1

\* Every query is lowered to an error, to nothing, or to an expression that is
\* proper.
LEMMA BuildTyped ==
  \A n \in 0..Depth : \A q \in QueryLevels[n] : BuildExpr[q] \in Lowered(3 * n + 1)
<1> DEFINE T == {n \in 0..Depth : \A q \in QueryLevels[n] : BuildExpr[q] \in Lowered(3 * n + 1)}
<1>1. Depth \in Nat /\ 0 \in 0..Depth
  BY QueryAssumption
<1>2. \A n \in 0..Depth : \A q \in QueryLevels[n] : BuildExpr[q] = BuildStepOf(BuildExpr, q)
  BY QueryGrow, BuildSteps
<1>3. ASSUME NEW n \in 0..Depth, NEW q \in Clauses PROVE LeafExpr(q) \in Lowered(3 * n + 1)
  <2>1. LeafExpr(q) \in {Nil, Error} \/ (Proper(LeafExpr(q)) /\ LeafExpr(q) \in ExprLevels[1])
    BY LeafBuilt DEF StandsFor
  <2>2. ExprLevels[1] \subseteq ExprLevels[3 * n + 1]
    <3>1. CASE n = 0
      BY <3>1
    <3>2. CASE n # 0
      <4>1. 3 * n + 1 \in 0..Nesting /\ 3 * n + 1 # 0 /\ (3 * n + 1) - 1 = 3 * n
        BY RoomFor, Room
      <4>2. /\ 3 * n \in 0..Nesting /\ 3 * n - 1 \in 0..Nesting /\ 3 * n # 0 /\ 3 * n - 1 # 0
        BY <3>2, RoomFor, Room
      <4>3. 1 \in 0..Nesting /\ 1 # 0 /\ 1 - 1 = 0
        BY Room
      <4>4. ExprLevels[1] = ExprsOver(Atoms) /\ ExprLevels[3 * n + 1] = ExprsOver(ExprLevels[3 * n])
        BY <4>1, <4>3, ExprLevelSteps
      <4>5. Atoms \subseteq ExprLevels[3 * n]
        BY <4>2, ExprMade
      <4>6. ASSUME NEW S, Atoms \subseteq S PROVE ExprsOver(Atoms) \subseteq ExprsOver(S)
        <5>1. Seq(Atoms) \subseteq Seq(S)
          BY <4>6
        <5>2. [e : {"and", "or"}, cs : Seq(Atoms)] \subseteq [e : {"and", "or"}, cs : Seq(S)]
          BY <5>1
        <5>3. [e : {"not"}, c : Atoms] \subseteq [e : {"not"}, c : S]
          BY <4>6
        <5>4. QED
          BY <5>2, <5>3 DEF ExprsOver
      <4>7. QED
        BY <4>4, <4>5, <4>6
    <3>3. QED
      BY <3>1, <3>2
  <2>3. QED
    BY <2>1, <2>2 DEF Lowered, Filters
<1>4. 0 \in T
  <2>1. ASSUME NEW q \in QueryLevels[0] PROVE BuildExpr[q] \in Lowered(3 * 0 + 1)
    <3>1. q \in Clauses /\ q.k # "bool"
      BY <1>1, QueryParts
    <3>2. BuildExpr[q] = LeafExpr(q)
      BY <1>1, <1>2, <3>1 DEF BuildStepOf
    <3>3. QED
      BY <1>1, <1>3, <3>1, <3>2
  <2>2. QED
    BY <1>1, <2>1
<1>5. ASSUME NEW n \in 0..Depth, n # 0, n - 1 \in T PROVE n \in T
  <2> DEFINE m == 3 * (n - 1) + 1
             L == Lowered(m)
             S == QueryLevels[n - 1]
  <2>1. /\ n - 1 \in 0..Depth /\ m \in Nat /\ m + 3 = 3 * n + 1 /\ m + 3 <= Nesting
    BY <1>5, RoomFor
  <2>2. \A c \in S : BuildExpr[c] \in L
    BY <1>5
  <2>3. ASSUME NEW q \in QueryLevels[n] PROVE BuildExpr[q] \in Lowered(3 * n + 1)
    <3>1. BuildExpr[q] = BuildStepOf(BuildExpr, q)
      BY <1>2
    <3>2. CASE q.k # "bool"
      BY <1>3, <3>1, <3>2, QueryParts DEF BuildStepOf
    <3>3. CASE q.k = "bool"
      <4> DEFINE a == Mapped(BuildExpr, q.must)
                 b == Mapped(BuildExpr, q.should)
                 c == Mapped(BuildExpr, q.mustNot)
      <4>1. q.must \in Seq(S) /\ q.should \in Seq(S) /\ q.mustNot \in Seq(S)
        BY <3>3, QueryParts
      <4>2. BuildExpr[q] = BoolExpr(a, b, c)
        BY <3>1, <3>3 DEF BuildStepOf
      <4>3. a \in Seq(L) /\ b \in Seq(L) /\ c \in Seq(L)
        <5> HIDE DEF L, S
        <5>1. ASSUME NEW s \in Seq(S) PROVE Mapped(BuildExpr, s) \in Seq(L)
          <6>1. \A i \in DOMAIN s : BuildExpr[s[i]] \in L
            BY <2>2
          <6>2. QED
            BY <6>1, MappedSeq
        <5>2. QED
          BY <4>1, <5>1
      <4> HIDE DEF a, b, c, S, m
      <4>4. CASE \E g \in {a, b, c} : Some(g, Error)
        <5>1. BoolExpr(a, b, c) = Error
          BY <4>4 DEF BoolExpr
        <5>2. QED
          BY <4>2, <5>1 DEF Lowered
      <4>5. CASE ~\E g \in {a, b, c} : Some(g, Error)
        <5>1. ~Some(a, Error) /\ ~Some(b, Error) /\ ~Some(c, Error)
          BY <4>5
        <5>2. BoolExpr(a, b, c) = Nil \/ BoolExpr(a, b, c) \in Filters(m + 3)
          BY <2>1, <4>3, <5>1, BoolBuilt
        <5>3. QED
          BY <2>1, <4>2, <5>2 DEF Lowered
      <4>6. QED
        BY <4>4, <4>5
    <3>4. QED
      BY <3>2, <3>3
  <2>4. QED
    BY <2>3
<1>6. QED
  <2> HIDE DEF T
  <2>1. \A n \in 0..Depth : n \in T
    BY <1>1, <1>4, <1>5, Climb
  <2>2. QED
    BY <2>1 DEF T

(***************************************************************************)
(* A query through parse, fold and build.                                  *)
(***************************************************************************)
Kept(q) == Fold[Parse[q]]

\* What becomes of a query of n levels: folding it is refused for a minimum above
\* one, a verdict that is known is the query's, and the expression it is lowered
\* to says what the query means.
Carried(n, q) ==
  /\ Parse[q] \in QueryLevels[n]
  /\ Kept(q) = Error => AsksForSeveral[q]
  /\ Kept(q) # Error => Kept(q) \in QueryLevels[n]
  /\ Kept(q) = MatchNone => \A row \in Rows : ~Matches(q, row)
  /\ Kept(q) = MatchAll => \A row \in Rows : Matches(q, row)
  /\ Kept(q) \notin {Error, MatchNone, MatchAll} =>
       /\ BuildExpr[Kept(q)] # Nil
       /\ BuildExpr[Kept(q)] = Error => HasBad[q]
       /\ BuildExpr[Kept(q)] # Error =>
            \A row \in Rows : Eval(BuildExpr[Kept(q)], row) = "true" <=> Matches(q, row)
  /\ BuildExpr[Parse[q]] = Error => HasBad[q]

LEMMA NodesDiffer ==
  /\ MatchAll # MatchNone /\ MatchAll # Error /\ MatchNone # Error /\ Nil # Error
  /\ MatchAll \in Clauses /\ MatchNone \in Clauses
  /\ \A n \in 0..Depth : Error \notin QueryLevels[n]
<1>1. MatchAll.k = "all" /\ MatchNone.k = "none" /\ Error.k = "error" /\ Error.e = "error" /\ Nil.e = "nil"
  BY DEF MatchAll, MatchNone, Error, Nil
<1>2. MatchAll \in Clauses /\ MatchNone \in Clauses
  BY DEF MatchAll, MatchNone, Clauses
<1>3. ASSUME NEW n \in 0..Depth PROVE Error \notin QueryLevels[n]
  BY <1>1, QueryParts
<1>4. QED
  BY <1>1, <1>2, <1>3

LEMMA LeafCarried ==
  ASSUME NEW n \in 0..Depth, NEW q \in Clauses
  PROVE  Carried(n, q)
<1>1. q \in Queries /\ q \in QueryLevels[n] /\ MatchNone \in QueryLevels[n] /\ q.k # "bool"
  <2>1. q \in QueryLevels[n] /\ MatchNone \in QueryLevels[n]
    BY NodesDiffer, QueryMade
  <2>2. QED
    BY <2>1, QueryGrow, ClauseKinds
<1>2. Parse[q] = IF q.k = "terms" /\ q.vs = {} THEN MatchNone ELSE q
  BY <1>1, ParseSteps DEF ParseStepOf
<1>3. ASSUME NEW p \in Clauses PROVE Fold[p] = p /\ BuildExpr[p] = LeafExpr(p)
  <2>1. p \in Queries /\ p.k # "bool"
    BY QueryMade, QueryGrow, ClauseKinds
  <2>2. QED
    BY <2>1, FoldSteps, BuildSteps DEF FoldStepOf, BuildStepOf
<1>4. HasBad[q] = (Bad \in Coerced(q))
  BY <1>1, HasBadSteps DEF HasBadStep
<1>5. CASE q.k = "terms" /\ q.vs = {}
  <2>1. Parse[q] = MatchNone /\ Kept(q) = MatchNone
    BY <1>2, <1>3, <1>5, NodesDiffer DEF Kept
  <2>2. ASSUME NEW row \in Rows PROVE ~Matches(q, row)
    BY <1>5, LeafMeans DEF MatchStep
  <2>3. BuildExpr[MatchNone] # Error
    <3>1. MatchNone.k = "none"
      BY DEF MatchNone
    <3>2. Coerced(MatchNone) = {}
      BY <3>1 DEF Coerced
    <3>3. StandsFor(LeafExpr(MatchNone), MatchNone)
      BY <3>2, LeafBuilt, NodesDiffer
    <3>4. QED
      BY <1>3, <3>3, ProperIs, NodesDiffer DEF StandsFor
  <2>4. QED
    BY <1>1, <2>1, <2>2, <2>3, NodesDiffer DEF Carried
<1>6. CASE ~(q.k = "terms" /\ q.vs = {})
  <2>1. Parse[q] = q /\ Kept(q) = q /\ BuildExpr[q] = LeafExpr(q) /\ q # Error
    BY <1>1, <1>2, <1>3, <1>6, NodesDiffer DEF Kept
  <2>2. q = MatchNone => \A row \in Rows : ~Matches(q, row)
    <3>1. SUFFICES ASSUME q = MatchNone, NEW row \in Rows PROVE ~Matches(q, row)
      OBVIOUS
    <3>2. q.k = "none"
      BY <3>1 DEF MatchNone
    <3>3. ~MatchStep(<<>>, q, row)
      BY <3>2 DEF MatchStep
    <3>4. QED
      BY <3>3, LeafMeans
  <2>3. q = MatchAll => \A row \in Rows : Matches(q, row)
    <3>1. SUFFICES ASSUME q = MatchAll, NEW row \in Rows PROVE Matches(q, row)
      OBVIOUS
    <3>2. q.k = "all"
      BY <3>1 DEF MatchAll
    <3>3. MatchStep(<<>>, q, row)
      BY <3>2 DEF MatchStep
    <3>4. QED
      BY <3>3, LeafMeans
  <2>4. CASE Bad \in Coerced(q)
    <3>1. LeafExpr(q) = Error /\ HasBad[q]
      BY <1>4, <2>4, LeafBuilt
    <3>2. QED
      BY <1>1, <2>1, <2>2, <2>3, <3>1, NodesDiffer DEF Carried
  <2>5. CASE Bad \notin Coerced(q) /\ q # MatchAll
    <3>1. StandsFor(LeafExpr(q), q)
      BY <2>5, LeafBuilt
    <3>2. LeafExpr(q) # Nil /\ LeafExpr(q) # Error
      BY <3>1, ProperIs DEF StandsFor
    <3>3. QED
      BY <1>1, <2>1, <2>2, <2>3, <3>1, <3>2 DEF Carried, StandsFor
  <2>6. CASE q = MatchAll
    <3>1. LeafExpr(q) = Nil
      BY <2>6, LeafBuilt
    <3>2. QED
      BY <1>1, <2>1, <2>2, <2>3, <2>6, <3>1, NodesDiffer DEF Carried
  <2>7. QED
    BY <2>4, <2>5, <2>6
<1>7. QED
  BY <1>5, <1>6

\* The minimum that parseBool leaves.
Pinned(q) == IF q.should # <<>> /\ q.must = <<>> /\ q.msm < 1 THEN 1 ELSE q.msm

LEMMA BoolParsed ==
  ASSUME NEW n \in 0..Depth, NEW q \in QueryLevels[n], q.k = "bool", n # 0,
         \A c \in QueryLevels[n - 1] : Parse[c] \in QueryLevels[n - 1]
  PROVE  /\ Pinned(q) \in Nat
         /\ Parse[q] = Bool(Mapped(Parse, q.must), Mapped(Parse, q.should), Mapped(Parse, q.mustNot), Pinned(q))
         /\ Parse[q] \in QueryLevels[n]
         /\ \A s \in {q.must, q.should, q.mustNot} : Mapped(Parse, s) \in Seq(QueryLevels[n - 1])
<1> DEFINE S == QueryLevels[n - 1]
<1> HIDE DEF S
<1>1. q.must \in Seq(S) /\ q.should \in Seq(S) /\ q.mustNot \in Seq(S) /\ q.msm \in Nat /\ q \in Queries
  BY QueryParts, QueryGrow DEF S
<1>2. ASSUME NEW s \in Seq(S) PROVE Mapped(Parse, s) \in Seq(S) /\ (Mapped(Parse, s) = <<>> <=> s = <<>>)
  <2>1. \A i \in DOMAIN s : Parse[s[i]] \in S
    BY DEF S
  <2>2. QED
    BY <2>1, MappedSeq
<1> DEFINE a == Mapped(Parse, q.must)
           b == Mapped(Parse, q.should)
           c == Mapped(Parse, q.mustNot)
<1>3. Parse[q] = Pin(Bool(a, b, c, q.msm))
  BY <1>1, ParseSteps DEF ParseStepOf
<1>4. /\ a \in Seq(S) /\ b \in Seq(S) /\ c \in Seq(S)
      /\ (a = <<>> <=> q.must = <<>>) /\ (b = <<>> <=> q.should = <<>>)
  BY <1>1, <1>2
<1> HIDE DEF a, b, c
<1>5. Pin(Bool(a, b, c, q.msm)) = Bool(a, b, c, IF b # <<>> /\ a = <<>> /\ q.msm < 1 THEN 1 ELSE q.msm)
  BY DEF Pin, Bool
<1>6. Pinned(q) \in Nat
  BY <1>1 DEF Pinned
<1>7. Parse[q] = Bool(a, b, c, Pinned(q))
  BY <1>3, <1>4, <1>5 DEF Pinned
<1>8. Parse[q] \in QueryLevels[n]
  BY <1>4, <1>6, <1>7, QueryMade DEF S
<1>9. QED
  BY <1>1, <1>2, <1>6, <1>7, <1>8 DEF S, a, b, c

\* What a bool means.
LEMMA BoolMeans ==
  ASSUME NEW n \in 0..Depth, NEW q \in QueryLevels[n], q.k = "bool", NEW row
  PROVE  Matches(q, row) <=>
           /\ \A i \in DOMAIN q.must : Matches(q.must[i], row)
           /\ \A i \in DOMAIN q.mustNot : ~Matches(q.mustNot[i], row)
           /\ q.should = <<>> \/ Cardinality({i \in DOMAIN q.should : Matches(q.should[i], row)}) >= Pinned(q)
<1> DEFINE f == Meanings(row)
           need == IF q.must = <<>> /\ q.msm = 0 THEN 1 ELSE q.msm
           C == Cardinality({i \in DOMAIN q.should : f[q.should[i]]})
<1>1. q \in Queries /\ q.msm \in Nat
  BY QueryGrow, QueryParts
<1>2. Matches(q, row) <=> MatchStep(f, q, row)
  BY <1>1, MatchSteps, MatchesIs
<1>3. MatchStep(f, q, row) <=>
        /\ {i \in DOMAIN q.must : f[q.must[i]]} = DOMAIN q.must
        /\ {i \in DOMAIN q.mustNot : f[q.mustNot[i]]} = {}
        /\ q.should = <<>> \/ C >= need
  BY DEF MatchStep
<1>4. q.should # <<>> => need = Pinned(q)
  BY <1>1 DEF Pinned
<1>5. C = Cardinality({i \in DOMAIN q.should : Matches(q.should[i], row)})
  BY MatchesIs
<1>6. /\ {i \in DOMAIN q.must : f[q.must[i]]} = DOMAIN q.must <=> \A i \in DOMAIN q.must : Matches(q.must[i], row)
      /\ {i \in DOMAIN q.mustNot : f[q.mustNot[i]]} = {} <=> \A i \in DOMAIN q.mustNot : ~Matches(q.mustNot[i], row)
  BY MatchesIs
<1> HIDE DEF f, need, C
<1>7. QED
  BY <1>2, <1>3, <1>4, <1>5, <1>6

\* A group that is lowered.
LEMMA BuiltGroup ==
  ASSUME NEW n \in 0..Depth, NEW v \in Seq(QueryLevels[n])
  PROVE  /\ Mapped(BuildExpr, v) \in Seq(Lowered(3 * n + 1)) /\ DOMAIN Mapped(BuildExpr, v) = DOMAIN v
         /\ Mapped(BuildExpr, v) = <<>> <=> v = <<>>
         /\ \A i \in DOMAIN v : Mapped(BuildExpr, v)[i] = BuildExpr[v[i]]
<1> DEFINE S == QueryLevels[n]
           L == Lowered(3 * n + 1)
<1>1. \A i \in DOMAIN v : BuildExpr[v[i]] \in L
  BY BuildTyped
<1> HIDE DEF S, L
<1>2. v \in Seq(S)
  BY DEF S
<1>3. Mapped(BuildExpr, v) \in Seq(L)
  BY <1>1, <1>2, MappedSeq
<1>4. DOMAIN Mapped(BuildExpr, v) = DOMAIN v /\ \A i \in DOMAIN v : Mapped(BuildExpr, v)[i] = BuildExpr[v[i]]
  BY DEF Mapped
<1>5. Mapped(BuildExpr, v) = <<>> <=> v = <<>>
  BY <1>2, <1>3, <1>4
<1>6. QED
  BY <1>3, <1>4, <1>5 DEF L

\* A folded group: the clauses that fold to d are left out, the others lowered.
Rest(s, d) == Without([i \in DOMAIN s |-> Kept(s[i])], d)

LEMMA RestCarried ==
  ASSUME NEW n \in 0..Depth, NEW s \in Seq(QueryLevels[n]), NEW d, d # Error,
         \A i \in DOMAIN s : Carried(n, s[i]),
         \A i \in DOMAIN s : Kept(s[i]) = d \/ Kept(s[i]) \notin {Error, MatchNone, MatchAll}
  PROVE  LET w == Rest(s, d)
             B == Mapped(BuildExpr, w)
         IN /\ w \in Seq(QueryLevels[n])
            /\ B \in Seq(Lowered(3 * n + 1)) /\ DOMAIN B = DOMAIN w /\ (B = <<>> <=> w = <<>>)
            /\ \A i \in DOMAIN B : B[i] # Nil
            /\ Some(B, Error) => \E i \in DOMAIN s : HasBad[s[i]]
            /\ w = <<>> <=> \A j \in DOMAIN s : Kept(s[j]) = d
            /\ ~Some(B, Error) => \A row \in Rows :
                 /\ \A i \in DOMAIN B : \E j \in DOMAIN s :
                      Kept(s[j]) # d /\ (Eval(B[i], row) = "true" <=> Matches(s[j], row))
                 /\ \A j \in DOMAIN s : Kept(s[j]) # d =>
                      \E i \in DOMAIN B : Eval(B[i], row) = "true" <=> Matches(s[j], row)
<1> DEFINE S == QueryLevels[n]
           E == S \cup {Error, d}
           K == [i \in DOMAIN s |-> Kept(s[i])]
           w == Rest(s, d)
           B == Mapped(BuildExpr, w)
           L == Lowered(3 * n + 1)
<1>2. \A i \in DOMAIN s : Kept(s[i]) \in E
  BY DEF Carried
<1>3. DOMAIN K = DOMAIN s /\ \A i \in DOMAIN s : K[i] = Kept(s[i])
  OBVIOUS
<1>4. K \in Seq(E)
  <2> HIDE DEF E
  <2>1. QED
    BY <1>2
<1>5. w \in Seq(E) /\ \A y : Some(w, y) <=> Some(K, y) /\ y # d
  <2> HIDE DEF E, K
  <2>1. Rest(s, d) = Without(K, d)
    BY DEF Rest, K
  <2>2. QED
    BY <1>4, <2>1, WithoutKeeps
<1> HIDE DEF K, w
<1>6. \A i \in DOMAIN w : \E j \in DOMAIN s : w[i] = Kept(s[j]) /\ Kept(s[j]) # d
  <2>1. SUFFICES ASSUME NEW i \in DOMAIN w PROVE \E j \in DOMAIN s : w[i] = Kept(s[j]) /\ Kept(s[j]) # d
    OBVIOUS
  <2>2. Some(w, w[i])
    BY DEF Some
  <2>3. Some(K, w[i]) /\ w[i] # d
    BY <1>5, <2>2
  <2>4. QED
    BY <1>3, <2>3 DEF Some
<1>7. \A j \in DOMAIN s : Kept(s[j]) # d => \E i \in DOMAIN w : w[i] = Kept(s[j])
  BY <1>3, <1>5 DEF Some
<1>8. ASSUME NEW j \in DOMAIN s, Kept(s[j]) # d
      PROVE  /\ Kept(s[j]) \in S /\ BuildExpr[Kept(s[j])] # Nil /\ BuildExpr[Kept(s[j])] \in L
             /\ BuildExpr[Kept(s[j])] = Error => HasBad[s[j]]
             /\ BuildExpr[Kept(s[j])] # Error =>
                  \A row \in Rows : Eval(BuildExpr[Kept(s[j])], row) = "true" <=> Matches(s[j], row)
  <2>1. Kept(s[j]) \notin {Error, MatchNone, MatchAll} /\ Carried(n, s[j])
    BY <1>8
  <2>2. Kept(s[j]) \in S
    BY <2>1 DEF Carried
  <2>3. BuildExpr[Kept(s[j])] \in L
    BY <2>2, BuildTyped
  <2>4. QED
    BY <2>1, <2>2, <2>3 DEF Carried
<1> HIDE DEF S, L
<1>9. w \in Seq(S)
  <2>1. \A i \in DOMAIN w : w[i] \in S
    BY <1>6, <1>8
  <2> HIDE DEF E
  <2>2. QED
    BY <1>5, <2>1
<1>10. /\ B \in Seq(L) /\ DOMAIN B = DOMAIN w /\ (B = <<>> <=> w = <<>>)
       /\ \A i \in DOMAIN w : B[i] = BuildExpr[w[i]]
  <2>1. /\ Mapped(BuildExpr, w) \in Seq(L) /\ DOMAIN Mapped(BuildExpr, w) = DOMAIN w
        /\ (Mapped(BuildExpr, w) = <<>> <=> w = <<>>)
        /\ \A i \in DOMAIN w : Mapped(BuildExpr, w)[i] = BuildExpr[w[i]]
    BY <1>9, BuiltGroup DEF S, L
  <2>2. QED
    BY <2>1
<1> HIDE DEF B
<1>11. \A i \in DOMAIN B : \E j \in DOMAIN s : B[i] = BuildExpr[Kept(s[j])] /\ Kept(s[j]) # d
  BY <1>6, <1>10
<1>12. \A j \in DOMAIN s : Kept(s[j]) # d => \E i \in DOMAIN B : B[i] = BuildExpr[Kept(s[j])]
  BY <1>7, <1>10
<1>13. \A i \in DOMAIN B : B[i] # Nil
  BY <1>8, <1>11
<1>14. Some(B, Error) => \E i \in DOMAIN s : HasBad[s[i]]
  BY <1>8, <1>11 DEF Some
<1>15. w = <<>> <=> \A j \in DOMAIN s : Kept(s[j]) = d
  <2>1. w = <<>> <=> DOMAIN w = {}
    BY <1>9
  <2>2. QED
    BY <1>6, <1>7, <2>1
<1>16. ASSUME ~Some(B, Error), NEW row \in Rows
       PROVE  /\ \A i \in DOMAIN B : \E j \in DOMAIN s :
                   Kept(s[j]) # d /\ (Eval(B[i], row) = "true" <=> Matches(s[j], row))
              /\ \A j \in DOMAIN s : Kept(s[j]) # d =>
                   \E i \in DOMAIN B : Eval(B[i], row) = "true" <=> Matches(s[j], row)
  <2>1. \A i \in DOMAIN B : B[i] # Error
    BY <1>16 DEF Some
  <2>2. ASSUME NEW i \in DOMAIN B
        PROVE  \E j \in DOMAIN s : Kept(s[j]) # d /\ (Eval(B[i], row) = "true" <=> Matches(s[j], row))
    <3>1. PICK j \in DOMAIN s : B[i] = BuildExpr[Kept(s[j])] /\ Kept(s[j]) # d
      BY <1>11
    <3>2. Eval(B[i], row) = "true" <=> Matches(s[j], row)
      BY <1>8, <2>1, <3>1
    <3>3. QED
      BY <3>1, <3>2
  <2>3. ASSUME NEW j \in DOMAIN s, Kept(s[j]) # d
        PROVE  \E i \in DOMAIN B : Eval(B[i], row) = "true" <=> Matches(s[j], row)
    <3>1. PICK i \in DOMAIN B : B[i] = BuildExpr[Kept(s[j])]
      BY <1>12, <2>3
    <3>2. Eval(B[i], row) = "true" <=> Matches(s[j], row)
      BY <1>8, <2>1, <2>3, <3>1
    <3>3. QED
      BY <3>2
  <2>4. QED
    BY <2>2, <2>3
<1>17. QED
  BY <1>9, <1>10, <1>13, <1>14, <1>15, <1>16 DEF w, B, S, L

\* Nothing is left of a group whose clauses all fold to d.
LEMMA RestEmpty ==
  ASSUME NEW n \in 0..Depth, NEW s \in Seq(QueryLevels[n]), NEW d \in {MatchAll, MatchNone},
         \A i \in DOMAIN s : Carried(n, s[i]),
         \A i \in DOMAIN s : Kept(s[i]) = d \/ Kept(s[i]) \notin {Error, MatchNone, MatchAll}
  PROVE  Rest(s, d) = <<>> <=> \A j \in DOMAIN s : Kept(s[j]) = d
<1>1. d # Error
  BY NodesDiffer
<1>2. QED
  BY <1>1, RestCarried

\* The folded clauses of a group.
Folded(s) == [i \in DOMAIN s |-> Kept(s[i])]

LEMMA FoldedSeq ==
  ASSUME NEW n \in 0..Depth, NEW s \in Seq(QueryLevels[n]), \A i \in DOMAIN s : Carried(n, s[i])
  PROVE  /\ Folded(s) \in Seq(QueryLevels[n] \cup {Error}) /\ DOMAIN Folded(s) = DOMAIN s
         /\ \A i \in DOMAIN s : Folded(s)[i] = Kept(s[i])
         /\ \A y : Some(Folded(s), y) <=> \E i \in DOMAIN s : Kept(s[i]) = y
         /\ Folded(s) = <<>> <=> s = <<>>
<1> DEFINE E == QueryLevels[n] \cup {Error}
<1>1. \A i \in DOMAIN s : Kept(s[i]) \in E
  BY DEF Carried
<1> HIDE DEF E
<1>2. DOMAIN s = 1..Len(s) /\ Len(s) \in Nat
  OBVIOUS
<1>3. Folded(s) \in Seq(E)
  BY <1>1, <1>2 DEF Folded
<1>4. DOMAIN Folded(s) = DOMAIN s /\ \A i \in DOMAIN s : Folded(s)[i] = Kept(s[i])
  BY DEF Folded
<1>5. \A y : Some(Folded(s), y) <=> \E i \in DOMAIN s : Kept(s[i]) = y
  BY <1>4 DEF Some
<1>6. Folded(s) = <<>> <=> s = <<>>
  BY <1>3, <1>4
<1>7. QED
  BY <1>3, <1>4, <1>5, <1>6 DEF E

\* fold on a bool.
LEMMA BoolFolded ==
  ASSUME NEW n \in 0..Depth, NEW q \in QueryLevels[n], q.k = "bool", n # 0,
         \A c \in QueryLevels[n - 1] : Carried(n - 1, c)
  PROVE  Kept(q) = FoldBool(Bool(Folded(q.must), Folded(q.should), Folded(q.mustNot), Pinned(q)))
<1> DEFINE a == Mapped(Parse, q.must)
           b == Mapped(Parse, q.should)
           c == Mapped(Parse, q.mustNot)
<1>1. Parse[q] = Bool(a, b, c, Pinned(q)) /\ Parse[q] \in QueryLevels[n]
  BY BoolParsed DEF Carried
<1>2. Parse[q] \in Queries
  BY <1>1, QueryGrow
<1>3. ASSUME NEW s PROVE Mapped(Fold, Mapped(Parse, s)) = Folded(s)
  BY DEF Mapped, Folded, Kept
<1>4. Mapped(Fold, a) = Folded(q.must) /\ Mapped(Fold, b) = Folded(q.should) /\ Mapped(Fold, c) = Folded(q.mustNot)
  BY <1>3
<1> HIDE DEF a, b, c
<1>5. LET p == Bool(a, b, c, Pinned(q))
      IN p.k = "bool" /\ p.must = a /\ p.should = b /\ p.mustNot = c /\ p.msm = Pinned(q)
  BY DEF Bool
<1>6. Fold[Parse[q]] = FoldBool(Bool(Mapped(Fold, a), Mapped(Fold, b), Mapped(Fold, c), Pinned(q)))
  BY <1>1, <1>2, <1>5, FoldSteps DEF FoldStepOf
<1>7. QED
  BY <1>4, <1>6 DEF Kept

\* The rows that match some of a group, counted.
Count(s, row) == Cardinality({i \in DOMAIN s : Matches(s[i], row)})

LEMMA Counted ==
  ASSUME NEW n \in 0..Depth, NEW s \in Seq(QueryLevels[n]), \A i \in DOMAIN s : Carried(n, s[i]),
         NEW row \in Rows
  PROVE  /\ Count(s, row) \in Nat
         /\ Count(s, row) >= 1 <=> \E i \in DOMAIN s : Matches(s[i], row)
         /\ Count(s, row) <= Len(Rest(s, MatchNone))
<1> DEFINE M == {i \in DOMAIN s : Matches(s[i], row)}
           E == QueryLevels[n] \cup {Error}
           K == Folded(s)
<1>1. K \in Seq(E) /\ DOMAIN K = DOMAIN s /\ \A i \in DOMAIN s : K[i] = Kept(s[i])
  BY FoldedSeq
<1>2. Rest(s, MatchNone) = Without(K, MatchNone)
  BY DEF Rest, Folded
<1>3. \A i \in M : Kept(s[i]) # MatchNone
  BY DEF Carried
<1>4. M \in SUBSET {i \in DOMAIN K : K[i] # MatchNone}
  BY <1>1, <1>3
<1>5. M # {} <=> \E i \in DOMAIN s : Matches(s[i], row)
  OBVIOUS
<1>6. Count(s, row) = Cardinality(M)
  BY DEF Count
<1> HIDE DEF M, E, K
<1>7. IsFiniteSet(M) /\ Cardinality(M) \in Nat /\ Cardinality(M) <= Len(Without(K, MatchNone))
  BY <1>1, <1>4, WithoutCounts
<1>8. Cardinality(M) = 0 <=> M = {}
  BY <1>7, FS_EmptySet
<1>9. QED
  BY <1>2, <1>5, <1>6, <1>7, <1>8

\* What becomes of the should group keeps what it asks for: m of its clauses.
LEMMA ShouldCarried ==
  ASSUME NEW n \in 0..Depth, NEW s \in Seq(QueryLevels[n]), \A i \in DOMAIN s : Carried(n, s[i]),
         NEW m \in Nat, ~Some(Folded(s), Error)
  PROVE  LET r == FoldShould(Folded(s), m)
         IN /\ r.err \in BOOLEAN /\ r.none \in BOOLEAN
            /\ r.err => s # <<>> /\ m > 1
            /\ r.none => s # <<>> /\ \A row \in Rows : ~(Count(s, row) >= m)
            /\ ~r.err /\ ~r.none =>
                 \/ /\ r.should = <<>>
                    /\ s = <<>> \/ \A row \in Rows : Count(s, row) >= m
                 \/ /\ r.should = Rest(s, MatchNone) /\ r.should # <<>> /\ s # <<>>
                    /\ \A i \in DOMAIN s : Kept(s[i]) # MatchAll
                    /\ m = 1
<1> DEFINE K == Folded(s)
           left == Rest(s, MatchNone)
           E == QueryLevels[n] \cup {Error}
           res(err, none, t) == [err |-> err, none |-> none, should |-> t]
           r == FoldShould(K, m)
<1>1. /\ K \in Seq(E) /\ DOMAIN K = DOMAIN s /\ (\A i \in DOMAIN s : K[i] = Kept(s[i]))
      /\ (\A y : Some(K, y) <=> \E i \in DOMAIN s : Kept(s[i]) = y) /\ (K = <<>> <=> s = <<>>)
  BY FoldedSeq
<1>2. left = Without(K, MatchNone)
  BY DEF Rest, Folded
<1>3. r = IF Some(K, MatchAll) /\ m = 1 THEN res(FALSE, FALSE, <<>>)
          ELSE IF left # <<>> /\ m = 0 THEN res(FALSE, FALSE, <<>>)
          ELSE IF left # <<>> /\ m > Len(left) THEN res(FALSE, TRUE, <<>>)
          ELSE IF left # <<>> /\ m > 1 THEN res(TRUE, FALSE, <<>>)
          ELSE IF left = <<>> /\ Some(K, MatchNone) /\ m >= 1 THEN res(FALSE, TRUE, <<>>)
          ELSE res(FALSE, FALSE, left)
  BY <1>2 DEF FoldShould
<1> HIDE DEF K, left, E, r
<1>4. left \in Seq(E) /\ Len(left) \in Nat /\ \A y : Some(left, y) <=> Some(K, y) /\ y # MatchNone
  BY <1>1, <1>2, WithoutKeeps
<1>5. left # <<>> => s # <<>>
  <2>1. s = <<>> => \A y : ~Some(K, y)
    BY <1>1
  <2>2. left # <<>> => Some(left, left[1])
    BY <1>4 DEF Some
  <2>3. QED
    BY <1>4, <2>1, <2>2
<1>6. left = <<>> => \A i \in DOMAIN s : Kept(s[i]) = MatchNone
  <2>1. left = <<>> => \A y : ~Some(left, y)
    BY DEF Some
  <2>2. QED
    BY <1>1, <1>4, <2>1
<1>7. \A row \in Rows : /\ Count(s, row) \in Nat
                        /\ Count(s, row) >= 1 <=> \E i \in DOMAIN s : Matches(s[i], row)
                        /\ Count(s, row) <= Len(left)
  BY Counted DEF left
<1>8. CASE Some(K, MatchAll) /\ m = 1
  <2>1. r = res(FALSE, FALSE, <<>>)
    BY <1>3, <1>8
  <2>2. \A row \in Rows : Count(s, row) >= m
    BY <1>1, <1>7, <1>8 DEF Carried
  <2>3. QED
    BY <2>1, <2>2 DEF r, K
<1>9. CASE ~(Some(K, MatchAll) /\ m = 1) /\ left # <<>> /\ m = 0
  <2>1. r = res(FALSE, FALSE, <<>>)
    BY <1>3, <1>9
  <2>2. \A row \in Rows : Count(s, row) >= m
    BY <1>7, <1>9
  <2>3. QED
    BY <2>1, <2>2 DEF r, K
<1>10. CASE ~(Some(K, MatchAll) /\ m = 1) /\ left # <<>> /\ m # 0 /\ m > Len(left)
  <2>1. r = res(FALSE, TRUE, <<>>)
    BY <1>3, <1>10
  <2>2. \A row \in Rows : ~(Count(s, row) >= m)
    BY <1>4, <1>7, <1>10
  <2>3. QED
    BY <1>5, <1>10, <2>1, <2>2 DEF r, K
<1>11. CASE ~(Some(K, MatchAll) /\ m = 1) /\ left # <<>> /\ m # 0 /\ ~(m > Len(left)) /\ m > 1
  <2>1. r = res(TRUE, FALSE, <<>>)
    BY <1>3, <1>11
  <2>2. QED
    BY <1>5, <1>11, <2>1 DEF r, K
<1>12. CASE left = <<>> /\ Some(K, MatchNone) /\ m >= 1
  <2>1. ~Some(K, MatchAll)
    BY <1>1, <1>6, <1>12, NodesDiffer
  <2>2. r = res(FALSE, TRUE, <<>>)
    BY <1>3, <1>12, <2>1
  <2>3. \A row \in Rows : ~(Count(s, row) >= m)
    <3>1. Len(left) = 0
      BY <1>12
    <3>2. QED
      BY <1>7, <1>12, <3>1
  <2>4. s # <<>>
    BY <1>1, <1>12
  <2>5. QED
    BY <2>2, <2>3, <2>4 DEF r, K
<1>13. CASE ~(Some(K, MatchAll) /\ m = 1) /\ left # <<>> /\ m # 0 /\ ~(m > Len(left)) /\ ~(m > 1)
  <2>1. r = res(FALSE, FALSE, left) /\ m = 1
    BY <1>3, <1>13
  <2>2. \A i \in DOMAIN s : Kept(s[i]) # MatchAll
    BY <1>1, <1>13, <2>1
  <2>3. QED
    BY <1>5, <1>13, <2>1, <2>2 DEF r, K, left
<1>14. CASE ~(Some(K, MatchAll) /\ m = 1) /\ left = <<>> /\ ~(Some(K, MatchNone) /\ m >= 1)
  <2>1. r = res(FALSE, FALSE, <<>>)
    BY <1>3, <1>14
  <2>2. s = <<>> \/ \A row \in Rows : Count(s, row) >= m
    <3>1. CASE Some(K, MatchNone)
      BY <1>7, <1>14, <3>1
    <3>2. CASE ~Some(K, MatchNone)
      <4>1. DOMAIN s = {}
        BY <1>1, <1>6, <1>14, <3>2
      <4>2. QED
        BY <4>1
    <3>3. QED
      BY <3>1, <3>2
  <2>3. QED
    BY <2>1, <2>2 DEF r, K
<1>15. QED
  BY <1>8, <1>9, <1>10, <1>11, <1>12, <1>13, <1>14

\* Refusals of a bool come from its clauses.
LEMMA BoolFaults ==
  ASSUME NEW n \in 0..Depth, NEW q \in QueryLevels[n], q.k = "bool"
  PROVE  /\ \A s \in {q.must, q.should, q.mustNot} : \A i \in DOMAIN s : HasBad[s[i]] => HasBad[q]
         /\ \A s \in {q.must, q.should, q.mustNot} : \A i \in DOMAIN s : AsksForSeveral[s[i]] => AsksForSeveral[q]
         /\ q.should # <<>> /\ q.msm > 1 => AsksForSeveral[q]
<1>1. q \in Queries
  BY QueryGrow
<1>2. HasBad[q] = HasBadStep(HasBad, q) /\ AsksForSeveral[q] = SeveralStep(AsksForSeveral, q)
  BY <1>1, HasBadSteps, SeveralSteps
<1>3. HasBadStep(HasBad, q) <=> \E s \in {q.must, q.should, q.mustNot} : \E i \in DOMAIN s : HasBad[s[i]]
  BY DEF HasBadStep
<1>4. SeveralStep(AsksForSeveral, q) <=>
        \/ q.should # <<>> /\ q.msm > 1
        \/ \E s \in {q.must, q.should, q.mustNot} : \E i \in DOMAIN s : AsksForSeveral[s[i]]
  BY DEF SeveralStep
<1>5. QED
  BY <1>2, <1>3, <1>4

\* boolExpr returns an error only with one from a clause.
LEMMA BoolRaises ==
  ASSUME NEW m \in Nat, m + 3 <= Nesting, NEW a \in Seq(Lowered(m)), NEW b \in Seq(Lowered(m)), NEW c \in Seq(Lowered(m)),
         BoolExpr(a, b, c) = Error
  PROVE  \E g \in {a, b, c} : Some(g, Error)
<1>1. SUFFICES ASSUME ~Some(a, Error), ~Some(b, Error), ~Some(c, Error) PROVE FALSE
  OBVIOUS
<1>2. BoolExpr(a, b, c) = Nil \/ BoolExpr(a, b, c) \in Filters(m + 3)
  BY <1>1, BoolBuilt
<1>3. QED
  BY <1>2, ProperIs, NodesDiffer DEF Filters

\* The expression of an unfolded bool.
LEMMA UnfoldedFault ==
  ASSUME NEW n \in 0..Depth, NEW q \in QueryLevels[n], q.k = "bool", n # 0,
         \A c \in QueryLevels[n - 1] : Carried(n - 1, c), BuildExpr[Parse[q]] = Error
  PROVE  HasBad[q]
<1> DEFINE S == QueryLevels[n - 1]
           m == 3 * (n - 1) + 1
           L == Lowered(m)
           P(s) == Mapped(Parse, s)
           B(s) == Mapped(BuildExpr, Mapped(Parse, s))
<1>1. /\ n - 1 \in 0..Depth /\ m \in Nat /\ m + 3 <= Nesting
      /\ q.must \in Seq(S) /\ q.should \in Seq(S) /\ q.mustNot \in Seq(S)
  BY RoomFor, QueryParts
<1>2. ASSUME NEW s \in {q.must, q.should, q.mustNot}
      PROVE  B(s) \in Seq(L) /\ (Some(B(s), Error) => \E i \in DOMAIN s : HasBad[s[i]])
  <2>1. P(s) \in Seq(S)
    BY BoolParsed DEF Carried
  <2>2. B(s) \in Seq(L) /\ DOMAIN B(s) = DOMAIN P(s) /\ \A i \in DOMAIN P(s) : B(s)[i] = BuildExpr[P(s)[i]]
    BY <1>1, <2>1, BuiltGroup
  <2>3. DOMAIN P(s) = DOMAIN s /\ \A i \in DOMAIN s : P(s)[i] = Parse[s[i]]
    BY DEF Mapped
  <2>4. \A i \in DOMAIN s : s[i] \in S
    BY <1>1
  <2> HIDE DEF B, P, L
  <2>5. Some(B(s), Error) => \E i \in DOMAIN s : HasBad[s[i]]
    BY <2>2, <2>3, <2>4 DEF Some, Carried
  <2>6. QED
    BY <2>2, <2>5
<1>3. Parse[q] = Bool(P(q.must), P(q.should), P(q.mustNot), Pinned(q)) /\ Parse[q] \in Queries
  BY BoolParsed, QueryGrow DEF Carried
<1> HIDE DEF P, S, m
<1>4. LET p == Bool(P(q.must), P(q.should), P(q.mustNot), Pinned(q))
      IN p.k = "bool" /\ p.must = P(q.must) /\ p.should = P(q.should) /\ p.mustNot = P(q.mustNot)
  BY DEF Bool
<1>5. BuildExpr[Parse[q]] = BoolExpr(B(q.must), B(q.should), B(q.mustNot))
  BY <1>3, <1>4, BuildSteps DEF BuildStepOf, P
<1> HIDE DEF B, L
<1>6. BoolExpr(B(q.must), B(q.should), B(q.mustNot)) = Error
  BY <1>5
<1>7. \E g \in {B(q.must), B(q.should), B(q.mustNot)} : Some(g, Error)
  BY <1>1, <1>2, <1>6, BoolRaises DEF L
<1>8. \E s \in {q.must, q.should, q.mustNot} : \E i \in DOMAIN s : HasBad[s[i]]
  BY <1>2, <1>7
<1>9. QED
  BY <1>8, BoolFaults

\* The three groups, lowered, ask of a row what the clauses ask.
LEMMA GroupsCarried ==
  ASSUME NEW n \in 0..Depth, NEW s \in Seq(QueryLevels[n]), \A i \in DOMAIN s : Carried(n, s[i]),
         ~Some(Folded(s), Error), NEW row \in Rows
  PROVE  /\ ~Some(Folded(s), MatchNone) /\ ~Some(Mapped(BuildExpr, Rest(s, MatchAll)), Error) =>
              (PassAll(Mapped(BuildExpr, Rest(s, MatchAll)), row) <=> \A i \in DOMAIN s : Matches(s[i], row))
         /\ ~Some(Folded(s), MatchAll) /\ ~Some(Mapped(BuildExpr, Rest(s, MatchNone)), Error) =>
              (PassNone(Mapped(BuildExpr, Rest(s, MatchNone)), row) <=> \A i \in DOMAIN s : ~Matches(s[i], row))
         /\ ~Some(Folded(s), MatchAll) /\ ~Some(Mapped(BuildExpr, Rest(s, MatchNone)), Error)
              /\ Rest(s, MatchNone) # <<>> =>
              (PassAny(Mapped(BuildExpr, Rest(s, MatchNone)), row) <=> \E i \in DOMAIN s : Matches(s[i], row))
<1>1. \A y : Some(Folded(s), y) <=> \E i \in DOMAIN s : Kept(s[i]) = y
  BY FoldedSeq
<1>2. \A i \in DOMAIN s : /\ Kept(s[i]) = MatchNone => ~Matches(s[i], row)
                          /\ Kept(s[i]) = MatchAll => Matches(s[i], row)
                          /\ Kept(s[i]) # Error
  BY <1>1 DEF Carried
<1>3. ASSUME ~Some(Folded(s), MatchNone), ~Some(Mapped(BuildExpr, Rest(s, MatchAll)), Error)
      PROVE  PassAll(Mapped(BuildExpr, Rest(s, MatchAll)), row) <=> \A i \in DOMAIN s : Matches(s[i], row)
  <2> DEFINE B == Mapped(BuildExpr, Rest(s, MatchAll))
  <2>1. \A i \in DOMAIN s : Kept(s[i]) = MatchAll \/ Kept(s[i]) \notin {Error, MatchNone, MatchAll}
    BY <1>1, <1>2, <1>3
  <2>2. /\ \A i \in DOMAIN B : B[i] # Nil
        /\ \A i \in DOMAIN B : \E j \in DOMAIN s :
             Kept(s[j]) # MatchAll /\ (Eval(B[i], row) = "true" <=> Matches(s[j], row))
        /\ \A j \in DOMAIN s : Kept(s[j]) # MatchAll =>
             \E i \in DOMAIN B : Eval(B[i], row) = "true" <=> Matches(s[j], row)
    BY <1>3, <2>1, RestCarried, NodesDiffer
  <2> HIDE DEF B
  <2>3. PassAll(B, row) <=> \A i \in DOMAIN s : Matches(s[i], row)
    BY <1>2, <2>2 DEF PassAll
  <2>4. QED
    BY <2>3 DEF B
<1> DEFINE C == Mapped(BuildExpr, Rest(s, MatchNone))
<1>4. ASSUME ~Some(Folded(s), MatchAll), ~Some(C, Error)
      PROVE  /\ C = <<>> <=> Rest(s, MatchNone) = <<>>
             /\ \A i \in DOMAIN C : C[i] # Nil
             /\ \A i \in DOMAIN C : \E j \in DOMAIN s :
                  Kept(s[j]) # MatchNone /\ (Eval(C[i], row) = "true" <=> Matches(s[j], row))
             /\ \A j \in DOMAIN s : Kept(s[j]) # MatchNone =>
                  \E i \in DOMAIN C : Eval(C[i], row) = "true" <=> Matches(s[j], row)
             /\ C \in Seq(Lowered(3 * n + 1))
  <2>1. \A i \in DOMAIN s : Kept(s[i]) = MatchNone \/ Kept(s[i]) \notin {Error, MatchNone, MatchAll}
    BY <1>1, <1>2, <1>4
  <2>2. QED
    BY <1>4, <2>1, RestCarried, NodesDiffer
<1> HIDE DEF C
<1>5. ~Some(Folded(s), MatchAll) /\ ~Some(C, Error) =>
        (PassNone(C, row) <=> \A i \in DOMAIN s : ~Matches(s[i], row))
  BY <1>2, <1>4 DEF PassNone
<1>6. ~Some(Folded(s), MatchAll) /\ ~Some(C, Error) /\ Rest(s, MatchNone) # <<>> =>
        (PassAny(C, row) <=> \E i \in DOMAIN s : Matches(s[i], row))
  <2>1. ~Some(Folded(s), MatchAll) /\ ~Some(C, Error) /\ Rest(s, MatchNone) # <<>> => DOMAIN C # {}
    BY <1>4
  <2>2. QED
    BY <1>2, <1>4, <2>1 DEF PassAny
<1>7. QED
  BY <1>3, <1>5, <1>6 DEF C

\* What a bool folds to, when none of its clauses is an error.
LEMMA FoldCases ==
  ASSUME NEW M, NEW H, NEW N, NEW m
  PROVE  LET b == Bool(M, H, N, m)
             r == FoldShould(H, m)
             f == FoldBool(b)
             w == Without(M, MatchAll)
             z == Without(N, MatchNone)
         IN /\ (\E g \in {M, H, N} : Some(g, Error)) => f = Error
            /\ ~(\E g \in {M, H, N} : Some(g, Error)) =>
                 /\ Some(M, MatchNone) \/ Some(N, MatchAll) => f = MatchNone
                 /\ ~(Some(M, MatchNone) \/ Some(N, MatchAll)) =>
                      /\ r.err => f = Error
                      /\ ~r.err /\ r.none => f = MatchNone
                      /\ ~r.err /\ ~r.none =>
                           /\ w = <<>> /\ r.should = <<>> /\ z = <<>> => f = MatchAll
                           /\ ~(w = <<>> /\ r.should = <<>> /\ z = <<>>) => f = Bool(w, r.should, z, m)
<1> DEFINE b == Bool(M, H, N, m)
<1>1. b.must = M /\ b.should = H /\ b.mustNot = N /\ b.msm = m
  BY DEF Bool
<1> DEFINE r == FoldShould(H, m)
           w == Without(M, MatchAll)
           z == Without(N, MatchNone)
           t == Bool(w, r.should, z, m)
<1>2. t.must = w /\ t.should = r.should /\ t.mustNot = z
  BY DEF Bool
<1>3. FoldBool(b) =
        IF \E g \in {M, H, N} : Some(g, Error) THEN Error
        ELSE IF Some(M, MatchNone) \/ Some(N, MatchAll) THEN MatchNone
        ELSE IF r.err THEN Error
        ELSE IF r.none THEN MatchNone
        ELSE IF w = <<>> /\ r.should = <<>> /\ z = <<>> THEN MatchAll
        ELSE t
  <2> HIDE DEF b
  <2>1. FoldBool(b) =
          IF \E g \in {b.must, b.should, b.mustNot} : Some(g, Error) THEN Error
          ELSE IF Some(b.must, MatchNone) \/ Some(b.mustNot, MatchAll) THEN MatchNone
          ELSE IF FoldShould(b.should, b.msm).err THEN Error
          ELSE IF FoldShould(b.should, b.msm).none THEN MatchNone
          ELSE LET fo == Bool(Without(b.must, MatchAll), FoldShould(b.should, b.msm).should, Without(b.mustNot, MatchNone), b.msm)
               IN IF fo.must = <<>> /\ fo.should = <<>> /\ fo.mustNot = <<>> THEN MatchAll ELSE fo
    BY DEF FoldBool
  <2>2. QED
    BY <1>1, <1>2, <2>1
<1> HIDE DEF r, w, z, t, b
<1>4. QED
  BY <1>3 DEF r, w, z, t, b

\* A bool that folds to a bool.
LEMMA FoldedCarried ==
  ASSUME NEW n \in 0..Depth, NEW q \in QueryLevels[n], q.k = "bool", n # 0,
         \A c \in QueryLevels[n - 1] : Carried(n - 1, c),
         \A g \in {q.must, q.should, q.mustNot} : ~Some(Folded(g), Error),
         ~Some(Folded(q.must), MatchNone), ~Some(Folded(q.mustNot), MatchAll),
         NEW h,
         \/ /\ h = <<>>
            /\ q.should = <<>> \/ \A row \in Rows : Count(q.should, row) >= Pinned(q)
         \/ /\ h = Rest(q.should, MatchNone) /\ h # <<>> /\ q.should # <<>>
            /\ \A i \in DOMAIN q.should : Kept(q.should[i]) # MatchAll
            /\ Pinned(q) = 1,
         ~(Rest(q.must, MatchAll) = <<>> /\ h = <<>> /\ Rest(q.mustNot, MatchNone) = <<>>),
         NEW f, f = Bool(Rest(q.must, MatchAll), h, Rest(q.mustNot, MatchNone), Pinned(q))
  PROVE  /\ f \in QueryLevels[n]
         /\ BuildExpr[f] # Nil
         /\ BuildExpr[f] = Error => HasBad[q]
         /\ BuildExpr[f] # Error => \A row \in Rows : Eval(BuildExpr[f], row) = "true" <=> Matches(q, row)
<1> DEFINE S == QueryLevels[n - 1]
           m == 3 * (n - 1) + 1
           L == Lowered(m)
           w == Rest(q.must, MatchAll)
           z == Rest(q.mustNot, MatchNone)
           A == Mapped(BuildExpr, w)
           B == Mapped(BuildExpr, h)
           C == Mapped(BuildExpr, z)
           x == BuildExpr[f]
<1>1. /\ n - 1 \in 0..Depth /\ m \in Nat /\ m + 3 <= Nesting
      /\ q.must \in Seq(S) /\ q.should \in Seq(S) /\ q.mustNot \in Seq(S) /\ q.msm \in Nat
      /\ Pinned(q) \in Nat
  BY RoomFor, QueryParts, BoolParsed DEF Carried
<1>2. ASSUME NEW s \in {q.must, q.should, q.mustNot}
      PROVE  /\ s \in Seq(S) /\ \A i \in DOMAIN s : s[i] \in S /\ Carried(n - 1, s[i]) /\ Kept(s[i]) # Error
             /\ \A y : Some(Folded(s), y) <=> \E i \in DOMAIN s : Kept(s[i]) = y
  <2>1. s \in Seq(S) /\ \A i \in DOMAIN s : s[i] \in S
    BY <1>1
  <2>2. \A i \in DOMAIN s : Carried(n - 1, s[i])
    BY <2>1
  <2>3. \A y : Some(Folded(s), y) <=> \E i \in DOMAIN s : Kept(s[i]) = y
    BY <1>1, <2>1, <2>2, FoldedSeq
  <2>4. QED
    BY <2>1, <2>2, <2>3
<1>3. ASSUME NEW s \in {q.must, q.should, q.mustNot}, NEW d \in {MatchAll, MatchNone}, 
             \A i \in DOMAIN s : Kept(s[i]) = d \/ Kept(s[i]) \notin {MatchNone, MatchAll}
      PROVE  LET y == Rest(s, d)
                 X == Mapped(BuildExpr, y)
             IN /\ y \in Seq(S) /\ X \in Seq(L) /\ (X = <<>> <=> y = <<>>) /\ (X = <<>> <=> DOMAIN X = {})
                /\ \A i \in DOMAIN X : X[i] # Nil
                /\ Some(X, Error) => HasBad[q]
  <2> DEFINE y == Rest(s, d)
             X == Mapped(BuildExpr, y)
  <2>1. \A i \in DOMAIN s : Kept(s[i]) = d \/ Kept(s[i]) \notin {Error, MatchNone, MatchAll}
    BY <1>2, <1>3
  <2>2. d # Error
    BY NodesDiffer
  <2>3. s \in Seq(QueryLevels[n - 1]) /\ \A i \in DOMAIN s : Carried(n - 1, s[i])
    BY <1>2
  <2>4. /\ y \in Seq(S) /\ X \in Seq(L) /\ (X = <<>> <=> y = <<>>) /\ (\A i \in DOMAIN X : X[i] # Nil)
        /\ Some(X, Error) => \E i \in DOMAIN s : HasBad[s[i]]
    BY <1>1, <2>1, <2>2, <2>3, RestCarried, ZenonT(40)
  <2> HIDE DEF X, y, L, S
  <2>5. X = <<>> <=> DOMAIN X = {}
    BY <2>4
  <2>6. Some(X, Error) => HasBad[q]
    BY <2>4, BoolFaults
  <2>7. QED
    BY <2>4, <2>5, <2>6 DEF X, y
<1>4. /\ w \in Seq(S) /\ A \in Seq(L) /\ (A = <<>> <=> w = <<>>) /\ (A = <<>> <=> DOMAIN A = {})
      /\ \A i \in DOMAIN A : A[i] # Nil
      /\ Some(A, Error) => HasBad[q]
  <2>1. \A i \in DOMAIN q.must : Kept(q.must[i]) = MatchAll \/ Kept(q.must[i]) \notin {MatchNone, MatchAll}
    BY <1>2
  <2>2. QED
    BY <1>3, <2>1
<1>5. /\ z \in Seq(S) /\ C \in Seq(L) /\ (C = <<>> <=> z = <<>>) /\ (C = <<>> <=> DOMAIN C = {})
      /\ \A i \in DOMAIN C : C[i] # Nil
      /\ Some(C, Error) => HasBad[q]
  <2>1. \A i \in DOMAIN q.mustNot : Kept(q.mustNot[i]) = MatchNone \/ Kept(q.mustNot[i]) \notin {MatchNone, MatchAll}
    BY <1>2
  <2>2. QED
    BY <1>3, <2>1
<1>6. /\ h \in Seq(S) /\ B \in Seq(L) /\ (B = <<>> <=> h = <<>>) /\ (B = <<>> <=> DOMAIN B = {})
      /\ \A i \in DOMAIN B : B[i] # Nil
      /\ Some(B, Error) => HasBad[q]
  <2>1. CASE h = <<>>
    <3>1. B = <<>> /\ DOMAIN B = {}
      BY <2>1 DEF Mapped
    <3>2. ~Some(B, Error) /\ \A i \in DOMAIN B : B[i] # Nil
      BY <3>1 DEF Some
    <3> HIDE DEF S, L, B
    <3>3. h \in Seq(S) /\ B \in Seq(L)
      BY <2>1, <3>1
    <3>4. QED
      BY <2>1, <3>1, <3>2, <3>3
  <2>2. CASE h = Rest(q.should, MatchNone) /\ \A i \in DOMAIN q.should : Kept(q.should[i]) # MatchAll
    <3>1. \A i \in DOMAIN q.should : Kept(q.should[i]) = MatchNone \/ Kept(q.should[i]) \notin {MatchNone, MatchAll}
      BY <2>2
    <3>2. QED
      BY <1>3, <2>2, <3>1
  <2>3. QED
    BY <2>1, <2>2
<1>7. f \in QueryLevels[n]
  BY <1>1, <1>4, <1>5, <1>6, QueryMade
<1>8. x = BoolExpr(A, B, C)
  <2>1. f.k = "bool" /\ f.must = w /\ f.should = h /\ f.mustNot = z
    BY DEF Bool
  <2>2. f \in Queries
    BY <1>7, QueryGrow
  <2>3. QED
    BY <2>1, <2>2, BuildSteps DEF BuildStepOf
<1> HIDE DEF S, m, L, w, z, A, B, C, x
<1>9. CASE Some(A, Error) \/ Some(B, Error) \/ Some(C, Error)
  <2>1. x = Error
    BY <1>8, <1>9 DEF BoolExpr
  <2>2. HasBad[q]
    BY <1>4, <1>5, <1>6, <1>9
  <2>3. QED
    BY <1>7, <2>1, <2>2, NodesDiffer DEF x
<1>10. CASE ~Some(A, Error) /\ ~Some(B, Error) /\ ~Some(C, Error)
  <2>1. \/ /\ x = Nil
           /\ \A g \in {A, B, C} : \A i \in DOMAIN g : g[i] = Nil
        \/ /\ x \in Filters(m + 3)
           /\ \A row \in Rows : Eval(x, row) = "true" <=>
                PassAll(A, row) /\ PassAny(B, row) /\ PassNone(C, row)
    <3>1. A \in Seq(Lowered(m)) /\ B \in Seq(Lowered(m)) /\ C \in Seq(Lowered(m))
      BY <1>4, <1>5, <1>6 DEF L
    <3>2. QED
      BY <1>1, <1>8, <1>10, <3>1, BoolBuilt, SMTT(40)
  <2>2. ~\A g \in {A, B, C} : \A i \in DOMAIN g : g[i] = Nil
    <3>1. A # <<>> \/ B # <<>> \/ C # <<>>
      BY <1>4, <1>5, <1>6 DEF w, z
    <3>2. DOMAIN A # {} \/ DOMAIN B # {} \/ DOMAIN C # {}
      BY <1>4, <1>5, <1>6, <3>1
    <3>3. QED
      BY <1>4, <1>5, <1>6, <3>2
  <2>3. x \in Filters(m + 3) /\ x # Nil /\ x # Error
    BY <2>1, <2>2, ProperIs DEF Filters
  <2>4. ASSUME NEW row \in Rows PROVE Eval(x, row) = "true" <=> Matches(q, row)
    <3>1. Eval(x, row) = "true" <=> PassAll(A, row) /\ PassAny(B, row) /\ PassNone(C, row)
      BY <2>1, <2>2
    <3>2. Matches(q, row) <=>
            /\ \A i \in DOMAIN q.must : Matches(q.must[i], row)
            /\ \A i \in DOMAIN q.mustNot : ~Matches(q.mustNot[i], row)
            /\ q.should = <<>> \/ Count(q.should, row) >= Pinned(q)
      BY BoolMeans, ZenonT(40) DEF Count
    <3>3. PassAll(A, row) <=> \A i \in DOMAIN q.must : Matches(q.must[i], row)
      BY <1>1, <1>2, <1>10, GroupsCarried DEF A, w, S
    <3>4. PassNone(C, row) <=> \A i \in DOMAIN q.mustNot : ~Matches(q.mustNot[i], row)
      BY <1>1, <1>2, <1>10, GroupsCarried DEF C, z, S
    <3>5. PassAny(B, row) <=> q.should = <<>> \/ Count(q.should, row) >= Pinned(q)
      <4>1. CASE h = <<>> /\ (q.should = <<>> \/ \A r \in Rows : Count(q.should, r) >= Pinned(q))
        <5>1. B = <<>>
          BY <1>6, <4>1
        <5>2. QED
          BY <4>1, <5>1 DEF PassAny
      <4>2. CASE /\ h = Rest(q.should, MatchNone) /\ h # <<>> /\ q.should # <<>>
                 /\ \A i \in DOMAIN q.should : Kept(q.should[i]) # MatchAll
                 /\ Pinned(q) = 1
        <5>1. ~Some(Folded(q.should), MatchAll)
          BY <1>2, <4>2
        <5>2. PassAny(B, row) <=> \E i \in DOMAIN q.should : Matches(q.should[i], row)
          BY <1>1, <1>2, <1>10, <4>2, <5>1, GroupsCarried DEF B, S
        <5>3. Count(q.should, row) >= 1 <=> \E i \in DOMAIN q.should : Matches(q.should[i], row)
          BY <1>1, <1>2, Counted DEF S
        <5>4. QED
          BY <4>2, <5>2, <5>3
      <4>3. QED
        BY <4>1, <4>2
    <3>6. QED
      BY <3>1, <3>2, <3>3, <3>4, <3>5
  <2>5. QED
    BY <1>7, <2>3, <2>4 DEF x
<1>11. QED
  BY <1>9, <1>10

LEMMA BoolCarried ==
  ASSUME NEW n \in 0..Depth, NEW q \in QueryLevels[n], q.k = "bool", n # 0,
         \A c \in QueryLevels[n - 1] : Carried(n - 1, c)
  PROVE  Carried(n, q)
<1> DEFINE S == QueryLevels[n - 1]
           M == Folded(q.must)
           H == Folded(q.should)
           N == Folded(q.mustNot)
           m == Pinned(q)
           r == FoldShould(H, m)
           w == Without(M, MatchAll)
           z == Without(N, MatchNone)
           f == FoldBool(Bool(M, H, N, m))
<1>1. /\ n - 1 \in 0..Depth
      /\ q.must \in Seq(S) /\ q.should \in Seq(S) /\ q.mustNot \in Seq(S) /\ q.msm \in Nat
      /\ m \in Nat /\ Parse[q] \in QueryLevels[n]
  BY RoomFor, QueryParts, BoolParsed DEF Carried
<1>2. ASSUME NEW s \in {q.must, q.should, q.mustNot}
      PROVE  /\ s \in Seq(S) /\ \A i \in DOMAIN s : s[i] \in S /\ Carried(n - 1, s[i])
             /\ \A y : Some(Folded(s), y) <=> \E i \in DOMAIN s : Kept(s[i]) = y
  <2>1. s \in Seq(S) /\ \A i \in DOMAIN s : s[i] \in S
    BY <1>1
  <2>2. \A i \in DOMAIN s : Carried(n - 1, s[i])
    BY <2>1
  <2>3. \A y : Some(Folded(s), y) <=> \E i \in DOMAIN s : Kept(s[i]) = y
    BY <1>1, <2>1, <2>2, FoldedSeq
  <2>4. QED
    BY <2>1, <2>2, <2>3
<1>3. Kept(q) = f
  BY BoolFolded
<1>4. BuildExpr[Parse[q]] = Error => HasBad[q]
  BY UnfoldedFault
<1>5. /\ (\E g \in {M, H, N} : Some(g, Error)) => f = Error
      /\ ~(\E g \in {M, H, N} : Some(g, Error)) =>
           /\ Some(M, MatchNone) \/ Some(N, MatchAll) => f = MatchNone
           /\ ~(Some(M, MatchNone) \/ Some(N, MatchAll)) =>
                /\ r.err => f = Error
                /\ ~r.err /\ r.none => f = MatchNone
                /\ ~r.err /\ ~r.none =>
                     /\ w = <<>> /\ r.should = <<>> /\ z = <<>> => f = MatchAll
                     /\ ~(w = <<>> /\ r.should = <<>> /\ z = <<>>) => f = Bool(w, r.should, z, m)
  BY FoldCases
<1>6. w = Rest(q.must, MatchAll) /\ z = Rest(q.mustNot, MatchNone)
  BY DEF Rest, Folded
<1> HIDE DEF f, r, w, z, m, S
<1>7. ASSUME NEW row \in Rows
      PROVE  Matches(q, row) <=>
               /\ \A i \in DOMAIN q.must : Matches(q.must[i], row)
               /\ \A i \in DOMAIN q.mustNot : ~Matches(q.mustNot[i], row)
               /\ q.should = <<>> \/ Count(q.should, row) >= m
  BY BoolMeans, SMTT(40) DEF Count, m
<1>8. CASE \E g \in {M, H, N} : Some(g, Error)
  <2>1. PICK s \in {q.must, q.should, q.mustNot} : Some(Folded(s), Error)
    BY <1>8
  <2>2. PICK i \in DOMAIN s : Kept(s[i]) = Error
    BY <1>2, <2>1
  <2>3. AsksForSeveral[s[i]]
    BY <1>2, <2>2 DEF Carried
  <2>4. AsksForSeveral[q]
    BY <2>3, BoolFaults
  <2>5. Kept(q) = Error
    BY <1>3, <1>5, <1>8
  <2>6. QED
    BY <1>1, <1>4, <2>4, <2>5, NodesDiffer DEF Carried
<1>9. CASE ~(\E g \in {M, H, N} : Some(g, Error)) /\ (Some(M, MatchNone) \/ Some(N, MatchAll))
  <2>1. Kept(q) = MatchNone
    BY <1>3, <1>5, <1>9
  <2>2. ASSUME NEW row \in Rows PROVE ~Matches(q, row)
    <3>1. CASE Some(M, MatchNone)
      <4>1. PICK i \in DOMAIN q.must : Kept(q.must[i]) = MatchNone
        BY <1>2, <3>1
      <4>2. ~Matches(q.must[i], row)
        BY <1>2, <4>1 DEF Carried
      <4>3. QED
        BY <1>7, <4>2
    <3>2. CASE Some(N, MatchAll)
      <4>1. PICK i \in DOMAIN q.mustNot : Kept(q.mustNot[i]) = MatchAll
        BY <1>2, <3>2
      <4>2. Matches(q.mustNot[i], row)
        BY <1>2, <4>1 DEF Carried
      <4>3. QED
        BY <1>7, <4>2
    <3>3. QED
      BY <1>9, <3>1, <3>2
  <2>3. MatchNone \in QueryLevels[n]
    BY NodesDiffer, QueryMade
  <2>4. QED
    BY <1>1, <1>4, <2>1, <2>2, <2>3, NodesDiffer DEF Carried
<1>10. CASE ~(\E g \in {M, H, N} : Some(g, Error)) /\ ~(Some(M, MatchNone) \/ Some(N, MatchAll))
  <2>1. /\ r.err \in BOOLEAN /\ r.none \in BOOLEAN
        /\ r.err => q.should # <<>> /\ m > 1
        /\ r.none => q.should # <<>> /\ \A row \in Rows : ~(Count(q.should, row) >= m)
        /\ ~r.err /\ ~r.none =>
             \/ /\ r.should = <<>>
                /\ q.should = <<>> \/ \A row \in Rows : Count(q.should, row) >= m
             \/ /\ r.should = Rest(q.should, MatchNone) /\ r.should # <<>> /\ q.should # <<>>
                /\ \A i \in DOMAIN q.should : Kept(q.should[i]) # MatchAll
                /\ m = 1
    <3>1. q.should \in Seq(QueryLevels[n - 1]) /\ (\A i \in DOMAIN q.should : Carried(n - 1, q.should[i])) /\ ~Some(Folded(q.should), Error)
      BY <1>2, <1>10 DEF S
    <3>2. QED
      BY <1>1, <3>1, ShouldCarried DEF r
  <2>2. CASE r.err
    <3>1. Kept(q) = Error
      BY <1>3, <1>5, <1>10, <2>2
    <3>2. q.should # <<>> /\ q.msm > 1
      BY <1>1, <2>1, <2>2 DEF m, Pinned
    <3>3. AsksForSeveral[q]
      BY <3>2, BoolFaults
    <3>4. QED
      BY <1>1, <1>4, <3>1, <3>3, NodesDiffer DEF Carried
  <2>3. CASE ~r.err /\ r.none
    <3>1. Kept(q) = MatchNone
      BY <1>3, <1>5, <1>10, <2>3
    <3>2. \A row \in Rows : ~Matches(q, row)
      BY <1>7, <2>1, <2>3
    <3>3. MatchNone \in QueryLevels[n]
      BY NodesDiffer, QueryMade
    <3>4. QED
      BY <1>1, <1>4, <3>1, <3>2, <3>3, NodesDiffer DEF Carried
  <2>4. CASE ~r.err /\ ~r.none /\ w = <<>> /\ r.should = <<>> /\ z = <<>>
    <3>1. Kept(q) = MatchAll
      BY <1>3, <1>5, <1>10, <2>4
    <3>2. \A i \in DOMAIN q.must : Kept(q.must[i]) = MatchAll
      <4>1. \A i \in DOMAIN q.must : Kept(q.must[i]) = MatchAll \/ Kept(q.must[i]) \notin {Error, MatchNone, MatchAll}
        BY <1>2, <1>10
      <4>2. q.must \in Seq(QueryLevels[n - 1]) /\ (\A i \in DOMAIN q.must : Carried(n - 1, q.must[i]))
        BY <1>2 DEF S
      <4>3. Rest(q.must, MatchAll) = <<>> <=> \A j \in DOMAIN q.must : Kept(q.must[j]) = MatchAll
        BY <1>1, <4>1, <4>2, RestEmpty
      <4>4. QED
        BY <1>6, <2>4, <4>3
    <3>3. \A i \in DOMAIN q.mustNot : Kept(q.mustNot[i]) = MatchNone
      <4>1. \A i \in DOMAIN q.mustNot : Kept(q.mustNot[i]) = MatchNone \/ Kept(q.mustNot[i]) \notin {Error, MatchNone, MatchAll}
        BY <1>2, <1>10
      <4>2. q.mustNot \in Seq(QueryLevels[n - 1]) /\ (\A i \in DOMAIN q.mustNot : Carried(n - 1, q.mustNot[i]))
        BY <1>2 DEF S
      <4>3. Rest(q.mustNot, MatchNone) = <<>> <=> \A j \in DOMAIN q.mustNot : Kept(q.mustNot[j]) = MatchNone
        BY <1>1, <4>1, <4>2, RestEmpty
      <4>4. QED
        BY <1>6, <2>4, <4>3
    <3>4. q.should = <<>> \/ \A row \in Rows : Count(q.should, row) >= m
      BY <2>1, <2>4
    <3>5. ASSUME NEW row \in Rows PROVE Matches(q, row)
      <4>1. \A i \in DOMAIN q.must : Matches(q.must[i], row)
        BY <1>2, <3>2 DEF Carried
      <4>2. \A i \in DOMAIN q.mustNot : ~Matches(q.mustNot[i], row)
        BY <1>2, <3>3 DEF Carried
      <4>3. QED
        BY <1>7, <3>4, <4>1, <4>2
    <3>6. MatchAll \in QueryLevels[n]
      BY NodesDiffer, QueryMade
    <3>7. QED
      BY <1>1, <1>4, <3>1, <3>5, <3>6, NodesDiffer DEF Carried
  <2>5. CASE ~r.err /\ ~r.none /\ ~(w = <<>> /\ r.should = <<>> /\ z = <<>>)
    <3> DEFINE h == r.should
    <3>1. Kept(q) = Bool(Rest(q.must, MatchAll), h, Rest(q.mustNot, MatchNone), m)
      BY <1>3, <1>5, <1>6, <1>10, <2>5
    <3>2. \A g \in {q.must, q.should, q.mustNot} : ~Some(Folded(g), Error)
      BY <1>10
    <3>3. ~Some(Folded(q.must), MatchNone) /\ ~Some(Folded(q.mustNot), MatchAll)
      BY <1>10
    <3>4. \/ /\ h = <<>>
             /\ q.should = <<>> \/ \A row \in Rows : Count(q.should, row) >= Pinned(q)
          \/ /\ h = Rest(q.should, MatchNone) /\ h # <<>> /\ q.should # <<>>
             /\ \A i \in DOMAIN q.should : Kept(q.should[i]) # MatchAll
             /\ Pinned(q) = 1
      BY <2>1, <2>5 DEF m
    <3>5. ~(Rest(q.must, MatchAll) = <<>> /\ h = <<>> /\ Rest(q.mustNot, MatchNone) = <<>>)
      BY <1>6, <2>5
    <3> HIDE DEF h
    <3>6. /\ Kept(q) \in QueryLevels[n]
          /\ BuildExpr[Kept(q)] # Nil
          /\ BuildExpr[Kept(q)] = Error => HasBad[q]
          /\ BuildExpr[Kept(q)] # Error => \A row \in Rows : Eval(BuildExpr[Kept(q)], row) = "true" <=> Matches(q, row)
      BY <3>1, <3>2, <3>3, <3>4, <3>5, FoldedCarried DEF m
    <3>7. Kept(q) \notin {Error, MatchNone, MatchAll}
      <4>1. Kept(q).k = "bool"
        BY <3>1 DEF Bool
      <4>2. QED
        BY <4>1 DEF Error, MatchNone, MatchAll
    <3>8. QED
      BY <1>1, <1>4, <3>6, <3>7 DEF Carried
  <2>6. QED
    BY <2>2, <2>3, <2>4, <2>5
<1>11. QED
  BY <1>8, <1>9, <1>10

\* Every query is carried over.
LEMMA QueryCarried ==
  \A n \in 0..Depth : \A q \in QueryLevels[n] : Carried(n, q)
<1> DEFINE T == {n \in 0..Depth : \A q \in QueryLevels[n] : Carried(n, q)}
<1>1. Depth \in Nat /\ 0 \in 0..Depth
  BY QueryAssumption
<1>2. 0 \in T
  BY <1>1, QueryLevelSteps, LeafCarried
<1>3. ASSUME NEW n \in 0..Depth, n # 0, n - 1 \in T PROVE n \in T
  <2>1. \A c \in QueryLevels[n - 1] : Carried(n - 1, c)
    BY <1>3
  <2>2. ASSUME NEW q \in QueryLevels[n] PROVE Carried(n, q)
    BY <1>3, <2>1, BoolCarried, LeafCarried, QueryParts
  <2>3. QED
    BY <2>2
<1>4. \A n \in 0..Depth : n \in T
  <2> HIDE DEF T
  <2>1. QED
    BY <1>1, <1>2, <1>3, Climb
<1>5. QED
  BY <1>4

(***************************************************************************)
(* The members around the query.                                           *)
(***************************************************************************)
\* What a division leaves.
LEMMA Remainders ==
  ASSUME NEW a \in Nat, NEW b \in Nat, b # 0
  PROVE  a % b \in Nat /\ a % b <= a /\ (a < b => a % b = a)
<1>1. /\ a \div b \in Int /\ a % b \in 0..(b - 1) /\ a = b * (a \div b) + (a % b)
  OBVIOUS
<1> DEFINE d == a \div b
           r == a % b
<1> HIDE DEF d, r
<1>2. d \in Int /\ r \in Nat /\ r < b /\ a = b * d + r
  BY <1>1 DEF d, r
<1>3. d >= 0
  <2>1. SUFFICES ASSUME d < 0 PROVE FALSE
    BY <1>2
  <2>2. b * d <= b * (-1)
    BY <1>2, <2>1
  <2>3. QED
    BY <1>2, <2>2
<1>4. b * d >= 0
  BY <1>2, <1>3
<1>5. r <= a
  BY <1>2, <1>4
<1>6. a < b => d = 0
  <2>1. SUFFICES ASSUME a < b, d >= 1 PROVE FALSE
    BY <1>2, <1>3
  <2>2. b * d >= b
    BY <1>2, <2>1
  <2>3. QED
    BY <1>2, <2>1, <2>2
<1>7. a < b => r = a
  <2>1. d = 0 => b * d = 0
    BY <1>2
  <2>2. QED
    BY <1>2, <1>6, <2>1
<1>8. QED
  BY <1>2, <1>5, <1>7 DEF r

\* A sum of counts that wraps around does not grow.
LEMMA WrapBelow ==
  ASSUME NEW x \in Nat
  PROVE  Wrap(x) \in Int /\ Wrap(x) <= x /\ (x <= MaxInt => Wrap(x) = x)
<1>1. MaxInt \in Nat /\ x + MaxInt + 1 \in Nat /\ 2 * MaxInt + 2 \in Nat /\ 2 * MaxInt + 2 # 0
  BY PagingAssumption
<1> DEFINE a == x + MaxInt + 1
           b == 2 * MaxInt + 2
           r == a % b
<1>2. r \in Nat /\ r <= a /\ (a < b => r = a)
  <2> HIDE DEF a, b
  <2>1. a \in Nat /\ b \in Nat /\ b # 0
    BY <1>1 DEF a, b
  <2>2. QED
    BY <2>1, Remainders
<1>3. Wrap(x) = r - MaxInt - 1
  BY DEF Wrap
<1>4. x <= MaxInt => a < b
  BY <1>1
<1> HIDE DEF r
<1>5. QED
  BY <1>1, <1>2, <1>3, <1>4

\* What a body is made of.
LEMMA BodyParts ==
  ASSUME NEW b \in Bodies
  PROVE  /\ b.query \in QueryLevels[Depth - 1] /\ b.knn \in BOOLEAN /\ b.both \in BOOLEAN
         /\ b.from \in SUBSET ({Bad} \cup Int) /\ b.size \in SUBSET ({Bad} \cup Int) /\ b.k \in SUBSET ({Bad} \cup Int)
         /\ b.sort \in Seq([f : Fields \cup {Score}, form : {"plain", "options"},
                           order : {"asc", "desc", "other"}])
         /\ b.source \in [fetch : BOOLEAN, includes : Seq(Patterns), excludes : Seq(Patterns)]
<1> DEFINE Q == QueryLevels[Depth - 1]
           O == SUBSET ({Bad} \cup Int)
           T == Seq([f : Fields \cup {Score}, form : {"plain", "options"},
                     order : {"asc", "desc", "other"}])
           R == [fetch : BOOLEAN, includes : Seq(Patterns), excludes : Seq(Patterns)]
<1>1. b \in [query : Q, knn : BOOLEAN, both : BOOLEAN, from : O, size : O, k : O, sort : T, source : R]
  BY BodiesAssumption
<1> HIDE DEF Q, O, T, R
<1>2. /\ b.query \in Q /\ b.knn \in BOOLEAN /\ b.both \in BOOLEAN /\ b.from \in O /\ b.size \in O /\ b.k \in O
      /\ b.sort \in T /\ b.source \in R
  BY <1>1
<1>3. QED
  BY <1>2 DEF Q, O, T, R

\* A count that is not refused.
LEMMA CountIs ==
  ASSUME NEW o \in SUBSET ({Bad} \cup Int), NEW least \in Nat, ~BadCount(o, least), NEW d \in Nat
  PROVE  Or0(o, d) \in Nat
<1>1. \A v \in o : v \in Int /\ v # Bad /\ ~(v < least)
  BY DEF BadCount
<1>2. \A v \in o : v \in Nat
  BY <1>1
<1>3. QED
  BY <1>2 DEF Or0

\* Whatever parsePaging refuses is at fault, although it adds with a wrap.
LEMMA PagingIs ==
  ASSUME NEW b \in Bodies
  PROVE  PagingRefused(b) =>
              \/ \E o \in {b.from, b.size} : \E v \in o : v = Bad \/ v < 0
              \/ Or0(b.from, 0) + Or0(b.size, DefaultSize) > Window
<1> DEFINE f == Or0(b.from, 0)
           s == Or0(b.size, DefaultSize)
<1>1. CASE BadCount(b.from, 0) \/ BadCount(b.size, 0)
  <2>1. \E o \in {b.from, b.size} : \E v \in o : v = Bad \/ v < 0
    BY <1>1 DEF BadCount
  <2>2. PagingRefused(b)
    BY <1>1 DEF PagingRefused
  <2>3. QED
    BY <2>1, <2>2
<1>2. CASE ~BadCount(b.from, 0) /\ ~BadCount(b.size, 0)
  <2>1. f \in Nat /\ s \in Nat /\ Window \in Nat /\ MaxInt \in Nat
    BY <1>2, BodyParts, CountIs, PagingAssumption
  <2>2. PagingRefused(b) <=> Wrap(f + s) > Window
    BY <1>2 DEF PagingRefused
  <2> HIDE DEF f, s
  <2> DEFINE x == f + s
  <2>3. x \in Nat
    BY <2>1
  <2> HIDE DEF x
  <2>4. Wrap(x) \in Int /\ Wrap(x) <= x /\ (x <= MaxInt => Wrap(x) = x)
    BY <2>3, WrapBelow
  <2>5. Wrap(x) > Window => x > Window
    BY <2>1, <2>3, <2>4
  <2>6. QED
    BY <2>2, <2>5 DEF x, f, s
<1>3. QED
  BY <1>1, <1>2

\* A search is refused while it is parsed only for a member at fault.
LEMMA MembersAtFault ==
  ASSUME body \in Bodies,
         PagingRefused(body) \/ SortRefused(body) \/ SourceRefused(body.source) \/ KnnRefused(body)
  PROVE  MemberAtFault
<1>1. CASE PagingRefused(body)
  BY <1>1, PagingIs DEF MemberAtFault
<1>2. CASE SortRefused(body)
  <2>1. PICK c \in ToSet(body.sort) : c.order \notin {"asc", "desc"}
    BY <1>2 DEF SortRefused
  <2>2. c \in ToSet(body.sort)
    BY <2>1
  <2> DEFINE K == [f : Fields \cup {Score}, form : {"plain", "options"},
                   order : {"asc", "desc", "other"}]
  <2>3. body.sort \in Seq(K)
    BY BodyParts
  <2>4. c \in K
    <3> HIDE DEF K
    <3>1. QED
      BY <2>2, <2>3 DEF ToSet
  <2>5. c.order = "other"
    BY <2>1, <2>4
  <2>6. QED
    BY <2>2, <2>5 DEF MemberAtFault
<1>3. CASE SourceRefused(body.source)
  BY <1>3 DEF MemberAtFault
<1>4. CASE KnnRefused(body)
  <2>1. SortKeys(body) # {} => body.sort # <<>>
    <3>1. body.sort = <<>> => ToSet(body.sort) = {}
      BY DEF ToSet
    <3>2. QED
      BY <3>1 DEF SortKeys
  <2>2. BadCount(body.k, 1) => \E v \in body.k : v = Bad \/ v < 1
    BY DEF BadCount
  <2>3. QED
    BY <1>4, <2>1, <2>2 DEF KnnRefused, MemberAtFault, knn
<1>5. QED
  BY <1>1, <1>2, <1>3, <1>4

\* What _source asks for is what the hits show.
LEMMA SourceCleaned ==
  ASSUME NEW src \in [fetch : BOOLEAN, includes : Seq(Patterns), excludes : Seq(Patterns)],
         Star \in ToSet(src.includes) => ToSet(src.includes) = {Star}, Star \notin ToSet(src.excludes)
  PROVE  ResolveSource(Cleaned(src)) =
           {f \in Fields :
              /\ src.fetch
              /\ ToSet(src.includes) = {} \/ \E p \in ToSet(src.includes) : PatternMatches(p, f)
              /\ ~\E p \in ToSet(src.excludes) : PatternMatches(p, f)}
<1> DEFINE i == Without(src.includes, Star)
           e == Without(src.excludes, Star)
<1>1. src.fetch \in BOOLEAN /\ src.includes \in Seq(Patterns) /\ src.excludes \in Seq(Patterns)
  <2> DEFINE P == Seq(Patterns)
  <2>1. src \in [fetch : BOOLEAN, includes : P, excludes : P]
    OBVIOUS
  <2> HIDE DEF P
  <2>2. src.fetch \in BOOLEAN /\ src.includes \in P /\ src.excludes \in P
    BY <2>1
  <2>3. QED
    BY <2>2 DEF P
<1>2. Cleaned(src).fetch = src.fetch /\ Cleaned(src).includes = i /\ Cleaned(src).excludes = e
  BY DEF Cleaned
<1>3. i \in Seq(Patterns) /\ e \in Seq(Patterns)
  BY <1>1, WithoutKeeps
<1>4. /\ \A y : Some(i, y) <=> Some(src.includes, y) /\ y # Star
      /\ \A y : Some(e, y) <=> Some(src.excludes, y) /\ y # Star
  BY <1>1, WithoutKeeps
<1> HIDE DEF i, e
<1>5. \A s, y : y \in ToSet(s) <=> Some(s, y)
  BY DEF ToSet, Some
<1>6. \A y : y \in ToSet(e) <=> y \in ToSet(src.excludes)
  BY <1>4, <1>5
<1>7. \A y : y \in ToSet(i) <=> y \in ToSet(src.includes) /\ y # Star
  BY <1>4, <1>5
<1>8. i = <<>> <=> \A y : y \notin ToSet(i)
  <2>1. i = <<>> <=> DOMAIN i = {}
    BY <1>3
  <2>2. \A y : y \in ToSet(i) <=> \E j \in DOMAIN i : i[j] = y
    BY <1>5 DEF Some
  <2>3. QED
    BY <2>1, <2>2
<1>9. \A f : Name(f) # Star
  BY DEF Name, Star
<1>10. ASSUME NEW f \in Fields
       PROVE  /\ (i = <<>> \/ Name(f) \in ToSet(i)) <=>
                   (ToSet(src.includes) = {} \/ \E p \in ToSet(src.includes) : PatternMatches(p, f))
              /\ Name(f) \notin ToSet(e) <=> ~\E p \in ToSet(src.excludes) : PatternMatches(p, f)
  <2>1. Name(f) \notin ToSet(e) <=> ~\E p \in ToSet(src.excludes) : PatternMatches(p, f)
    BY <1>6 DEF PatternMatches
  <2>2. CASE Star \in ToSet(src.includes)
    <3>1. ToSet(src.includes) = {Star}
      BY <2>2
    <3>2. i = <<>>
      BY <1>7, <1>8, <3>1
    <3>3. \E p \in ToSet(src.includes) : PatternMatches(p, f)
      BY <2>2 DEF PatternMatches
    <3>4. QED
      BY <2>1, <3>2, <3>3
  <2>3. CASE Star \notin ToSet(src.includes)
    <3>1. i = <<>> <=> ToSet(src.includes) = {}
      BY <1>7, <1>8, <2>3
    <3>2. Name(f) \in ToSet(i) <=> \E p \in ToSet(src.includes) : PatternMatches(p, f)
      BY <1>7, <1>9, <2>3 DEF PatternMatches
    <3>3. QED
      BY <2>1, <3>1, <3>2
  <2>4. QED
    BY <2>2, <2>3
<1>11. ResolveSource(Cleaned(src)) =
         {f \in Fields : src.fetch /\ (i = <<>> \/ Name(f) \in ToSet(i)) /\ Name(f) \notin ToSet(e)}
  BY <1>1, <1>2 DEF ResolveSource
<1>12. QED
  BY <1>10, <1>11

(***************************************************************************)
(* The translation.                                                        *)
(***************************************************************************)
\* The tree that is parsed, and the one that is lowered.
Root(b) == IF b.knn THEN Bool(<<Parse[b.query]>>, <<>>, <<>>, 0) ELSE Parse[b.query]
Trunk(b) == IF b.knn THEN Root(b) ELSE Kept(b.query)

\* How far the translation has come, and with what.
EsInv ==
  /\ body \in Bodies
  /\ stage \in {"written", "parsed", "folded", "planned", "refused"}
  /\ stage \in {"parsed", "folded", "planned"} =>
       source = Cleaned(body.source)
  /\ stage = "parsed" => node = Root(body)
  /\ stage \in {"folded", "planned"} => node = Trunk(body) /\ node # Error
  /\ stage = "planned" =>
       /\ noMatch = (node = MatchNone)
       /\ expr = (IF node = MatchNone THEN Nil ELSE BuildExpr[node]) /\ expr # Error
  /\ RefusedForCause

\* The trees of a body.
LEMMA Trunks ==
  ASSUME NEW b \in Bodies
  PROVE  /\ Depth - 1 \in 0..Depth /\ Depth \in 0..Depth
         /\ Carried(Depth - 1, b.query) /\ b.knn \in BOOLEAN
         /\ b.knn => /\ Root(b) \in QueryLevels[Depth] /\ Root(b) \notin {Error, MatchNone}
                     /\ BuildExpr[Root(b)] = Error => HasBad[b.query]
         /\ Trunk(b) # Error => Trunk(b) \in QueryLevels[Depth]
<1>1. Depth - 1 \in 0..Depth /\ Depth \in 0..Depth /\ Depth # 0
  BY QueryAssumption
<1>2. b.query \in QueryLevels[Depth - 1] /\ b.knn \in BOOLEAN
  BY BodyParts
<1>3. Carried(Depth - 1, b.query)
  BY <1>1, <1>2, QueryCarried
<1> DEFINE S == QueryLevels[Depth - 1]
           p == Parse[b.query]
           m == 3 * (Depth - 1) + 1
           L == Lowered(m)
<1>4. p \in S
  BY <1>3 DEF Carried
<1>5. ASSUME b.knn
      PROVE  /\ Root(b) \in QueryLevels[Depth] /\ Root(b) \notin {Error, MatchNone}
             /\ BuildExpr[Root(b)] = Error => HasBad[b.query]
  <2>1. Root(b) = Bool(<<p>>, <<>>, <<>>, 0)
    BY <1>5 DEF Root
  <2>2. <<p>> \in Seq(S) /\ <<>> \in Seq(S) /\ 0 \in Nat
    <3> HIDE DEF S, p
    <3>1. QED
      BY <1>4
  <2>3. Root(b) \in QueryLevels[Depth]
    BY <1>1, <2>1, <2>2, QueryMade
  <2>4. Root(b).k = "bool" /\ Root(b).must = <<p>> /\ Root(b).should = <<>> /\ Root(b).mustNot = <<>>
    BY <2>1 DEF Bool
  <2>5. Root(b) \notin {Error, MatchNone}
    BY <2>4 DEF Error, MatchNone
  <2>6. BuildExpr[Root(b)] = BoolExpr(Mapped(BuildExpr, <<p>>), Mapped(BuildExpr, <<>>), Mapped(BuildExpr, <<>>))
    <3>1. Root(b) \in Queries
      BY <1>1, <2>3, QueryGrow
    <3>2. QED
      BY <2>4, <3>1, BuildSteps DEF BuildStepOf
  <2>7. Mapped(BuildExpr, <<p>>) = <<BuildExpr[p]>> /\ Mapped(BuildExpr, <<>>) = <<>>
    <3> HIDE DEF p
    <3>1. QED
      BY DEF Mapped
  <2>8. BuildExpr[p] \in L /\ m \in Nat /\ m + 3 <= Nesting
    BY <1>1, <1>4, BuildTyped, RoomFor
  <2>9. ASSUME BuildExpr[Root(b)] = Error PROVE HasBad[b.query]
    <3> DEFINE y == BuildExpr[p]
    <3> HIDE DEF y, L, m
    <3>1. BoolExpr(<<y>>, <<>>, <<>>) = Error
      BY <2>6, <2>7, <2>9 DEF y
    <3>2. y \in L
      BY <2>8 DEF y
    <3>3. <<y>> \in Seq(L) /\ <<>> \in Seq(L)
      BY <3>2
    <3>4. \E g \in {<<y>>, <<>>, <<>>} : Some(g, Error)
      BY <2>8, <3>1, <3>3, BoolRaises, ZenonT(40) DEF L
    <3>5. y = Error
      BY <3>4 DEF Some
    <3>6. QED
      BY <1>3, <3>5 DEF Carried, y
  <2>10. QED
    BY <2>3, <2>5, <2>9
<1>6. ASSUME ~b.knn, Trunk(b) # Error PROVE Trunk(b) \in QueryLevels[Depth]
  <2>1. Trunk(b) = Kept(b.query)
    BY <1>6 DEF Trunk
  <2>2. Kept(b.query) \in S
    BY <1>3, <1>6, <2>1 DEF Carried
  <2>3. QED
    BY <1>1, <2>1, <2>2, QueryGrow
<1>7. Trunk(b) # Error => Trunk(b) \in QueryLevels[Depth]
  BY <1>2, <1>5, <1>6 DEF Trunk
<1>8. QED
  BY <1>1, <1>2, <1>3, <1>5, <1>7

LEMMA InitEsInv == Init => EsInv
BY DEF Init, EsInv, RefusedForCause

LEMMA NextEsInv == EsInv /\ [Next]_vars => EsInv'
<1> SUFFICES ASSUME EsInv, [Next]_vars PROVE EsInv'
  OBVIOUS
<1>1. body \in Bodies
  BY DEF EsInv
<1>2. CASE ParseStep
  <2>1. body' = body /\ expr' = expr /\ noMatch' = noMatch
    BY <1>2 DEF ParseStep
  <2> DEFINE bad == PagingRefused(body) \/ SortRefused(body) \/ SourceRefused(body.source) \/ KnnRefused(body)
  <2>2. CASE bad
    <3>1. stage' = "refused"
      BY <1>2, <2>2 DEF ParseStep
    <3>2. MemberAtFault
      BY <1>1, <2>2, MembersAtFault
    <3>3. MemberAtFault'
      BY <2>1, <3>2 DEF MemberAtFault, knn
    <3>4. QED
      BY <1>1, <2>1, <3>1, <3>3 DEF EsInv, RefusedForCause
  <2>3. CASE ~bad
    <3>1. /\ stage' = "parsed"
          /\ node' = IF knn THEN Bool(<<Parse[query]>>, <<>>, <<>>, 0) ELSE Parse[query]
          /\ page' = [offset |-> Or0(body.from, 0),
                      limit |-> Or0(IF knn THEN body.k ELSE {}, Or0(body.size, DefaultSize))]
          /\ source' = Cleaned(body.source)
      BY <1>2, <2>3 DEF ParseStep
    <3>2. node' = Root(body)
      BY <3>1 DEF Root, knn, query
    <3>3. QED
      BY <1>1, <2>1, <3>1, <3>2 DEF EsInv, RefusedForCause, knn
  <2>4. QED
    BY <2>2, <2>3
<1>3. CASE FoldStep
  <2>1. /\ body' = body /\ expr' = expr /\ noMatch' = noMatch /\ page' = page /\ source' = source
        /\ stage = "parsed" /\ node = Root(body)
    BY <1>3 DEF FoldStep, EsInv
  <2>2. CASE knn \/ Fold[node] # Error
    <3>1. stage' = "folded" /\ node' = (IF knn THEN node ELSE Fold[node])
      BY <1>3, <2>2 DEF FoldStep
    <3>2. node' = Trunk(body)
      BY <2>1, <3>1 DEF Trunk, Root, Kept, knn
    <3>3. node' # Error
      <4>1. CASE knn
        BY <1>1, <2>1, <3>1, <4>1, Trunks DEF knn
      <4>2. CASE ~knn
        BY <2>2, <3>1, <4>2
      <4>3. QED
        BY <4>1, <4>2
    <3>4. QED
      BY <1>1, <2>1, <3>1, <3>2, <3>3 DEF EsInv, RefusedForCause, knn
  <2>3. CASE ~(knn \/ Fold[node] # Error)
    <3>1. stage' = "refused"
      BY <1>3, <2>3 DEF FoldStep
    <3>2. Kept(body.query) = Error
      BY <2>1, <2>3 DEF Root, Kept, knn
    <3>3. AsksForSeveral[body.query]
      BY <1>1, <3>2, Trunks DEF Carried
    <3>4. QED
      BY <1>1, <2>1, <3>1, <3>3 DEF EsInv, RefusedForCause, query
  <2>4. QED
    BY <2>2, <2>3
<1>4. CASE BuildStep
  <2>1. /\ body' = body /\ node' = node /\ page' = page /\ source' = source /\ noMatch' = (node = MatchNone)
        /\ stage = "folded" /\ node = Trunk(body) /\ node # Error
    BY <1>4 DEF BuildStep, EsInv
  <2>2. CASE node # MatchNone /\ BuildExpr[node] = Error
    <3>1. stage' = "refused"
      BY <1>4, <2>2 DEF BuildStep
    <3>2. HasBad[body.query]
      <4>1. CASE body.knn
        BY <1>1, <2>1, <2>2, <4>1, Trunks DEF Trunk
      <4>2. CASE ~body.knn
        <5>1. node = Kept(body.query)
          BY <2>1, <4>2 DEF Trunk
        <5>2. node # MatchAll
          <6>1. BuildExpr[MatchAll] = Nil
            <7>1. MatchAll \in Queries /\ MatchAll.k = "all"
              BY NodesDiffer, LeafMeans DEF MatchAll
            <7>2. BuildExpr[MatchAll] = LeafExpr(MatchAll)
              BY <7>1, BuildSteps DEF BuildStepOf
            <7>3. QED
              BY <7>2, LeafBuilt, NodesDiffer
          <6>2. QED
            BY <2>2, <6>1, NodesDiffer
        <5>3. QED
          BY <1>1, <2>1, <2>2, <5>1, <5>2, Trunks DEF Carried
      <4>3. QED
        BY <4>1, <4>2
    <3>3. QED
      BY <1>1, <2>1, <3>1, <3>2 DEF EsInv, RefusedForCause, query
  <2>3. CASE ~(node # MatchNone /\ BuildExpr[node] = Error)
    <3>1. stage' = "planned" /\ expr' = (IF node = MatchNone THEN Nil ELSE BuildExpr[node])
      BY <1>4, <2>3 DEF BuildStep
    <3>2. expr' # Error
      BY <2>3, <3>1, NodesDiffer
    <3>3. QED
      BY <1>1, <2>1, <3>1, <3>2 DEF EsInv, RefusedForCause, knn
  <2>4. QED
    BY <2>2, <2>3
<1>5. CASE Finished \/ UNCHANGED vars
  <2>1. UNCHANGED vars
    BY <1>5 DEF Finished
  <2>2. QED
    BY <2>1 DEF vars, EsInv, RefusedForCause, MemberAtFault, knn, query
<1>6. QED
  BY <1>2, <1>3, <1>4, <1>5 DEF Next

LEMMA EsHolds == Spec => []EsInv
BY InitEsInv, NextEsInv, PTL DEF Spec

\* What is planned: nothing to filter by, or an expression that is proper.
LEMMA PlannedExpr ==
  ASSUME EsInv, stage = "planned"
  PROVE  expr \in Exprs /\ (expr = Nil \/ Solid[expr])
<1>1. Nil \in Exprs
  BY AtomsMade, Room, ExprMade, ExprGrow
<1>2. CASE node = MatchNone
  BY <1>1, <1>2 DEF EsInv
<1>3. CASE node # MatchNone
  <2>1. expr = BuildExpr[node] /\ expr # Error /\ node = Trunk(body) /\ node # Error /\ body \in Bodies
    BY <1>3 DEF EsInv
  <2>2. node \in QueryLevels[Depth] /\ Depth \in 0..Depth
    BY <2>1, Trunks
  <2>3. expr \in Lowered(3 * Depth + 1)
    BY <2>1, <2>2, BuildTyped
  <2>4. expr = Nil \/ Proper(expr)
    BY <2>1, <2>3 DEF Lowered, Filters
  <2>5. QED
    BY <1>1, <2>4, ProperTurns
<1>4. QED
  BY <1>2, <1>3

\* A planned search selects exactly the rows that its query matches in
\* Elasticsearch, however deep its bools nest and whatever cells are null: what
\* parse, fold and buildExpr do to the clauses loses no row and adds none.
THEOREM TranslationIsFaithful == Spec => []TranslationFaithful
<1>1. EsInv => TranslationFaithful
  <2>1. SUFFICES ASSUME EsInv, stage = "planned", ~knn, NEW row \in Rows
                 PROVE  Selected(row) <=> Matches(query, row)
    BY DEF TranslationFaithful
  <2>2. /\ body \in Bodies /\ node = Kept(body.query) /\ node # Error
        /\ noMatch = (node = MatchNone) /\ expr = (IF node = MatchNone THEN Nil ELSE BuildExpr[node]) /\ expr # Error
    BY <2>1 DEF EsInv, Trunk, knn
  <2>3. Carried(Depth - 1, body.query)
    BY <2>2, Trunks
  <2>4. Selects(expr, row) <=> Eval(expr, row) = "true"
    BY <2>1, PlannedExpr, SolidSelects
  <2>5. CASE node = MatchNone
    <3>1. ~Matches(body.query, row)
      BY <2>2, <2>3, <2>5 DEF Carried
    <3>2. QED
      BY <2>2, <2>5, <3>1 DEF Selected, query
  <2>6. CASE node = MatchAll
    <3>1. Matches(body.query, row)
      BY <2>2, <2>3, <2>6 DEF Carried
    <3>2. expr = Nil
      <4>1. MatchAll \in Queries /\ MatchAll.k = "all"
        BY NodesDiffer, LeafMeans DEF MatchAll
      <4>2. BuildExpr[MatchAll] = LeafExpr(MatchAll)
        BY <4>1, BuildSteps DEF BuildStepOf
      <4>3. BuildExpr[MatchAll] = Nil
        BY <4>2, LeafBuilt, NodesDiffer
      <4>4. QED
        BY <2>2, <2>6, <4>3
    <3>3. Eval(expr, row) = "true" /\ noMatch = FALSE
      BY <2>2, <2>6, <3>2, EvalAtoms, NodesDiffer
    <3>4. QED
      BY <2>4, <3>1, <3>3 DEF Selected, query
  <2>7. CASE node \notin {MatchNone, MatchAll}
    <3>1. noMatch = FALSE /\ expr = BuildExpr[Kept(body.query)]
      BY <2>2, <2>7
    <3>2. Eval(expr, row) = "true" <=> Matches(body.query, row)
      BY <2>2, <2>3, <2>7, <3>1 DEF Carried
    <3>3. QED
      BY <2>4, <3>1, <3>2 DEF Selected, query
  <2>8. QED
    BY <2>5, <2>6, <2>7
<1>2. QED
  BY <1>1, EsHolds, PTL

\* A search is refused only for a minimum_should_match above one, a value that
\* does not fit its field, or another member at fault.
THEOREM RefusalsHaveCause == Spec => []RefusedForCause
<1>1. EsInv => RefusedForCause
  BY DEF EsInv
<1>2. QED
  BY <1>1, EsHolds, PTL

\* The filter of every plan has a text that Milvus parses, the unfolded filters of
\* knn clauses included.
THEOREM PlansRender == Spec => []PlanRenders
<1>1. EsInv => PlanRenders
  BY PlannedExpr, SolidSelects DEF PlanRenders
<1>2. QED
  BY <1>1, EsHolds, PTL

\* A hit shows the fields that _source asks for, a "*" among other patterns aside.
THEOREM SourceIsFaithful == Spec => []SourceFaithful
<1>1. EsInv => SourceFaithful
  <2>1. SUFFICES ASSUME EsInv, stage = "planned",
                        Star \in ToSet(body.source.includes) => ToSet(body.source.includes) = {Star},
                        Star \notin ToSet(body.source.excludes)
                 PROVE  ResolveSource(source) =
                          {f \in Fields :
                             /\ body.source.fetch
                             /\ ToSet(body.source.includes) = {} \/ \E p \in ToSet(body.source.includes) : PatternMatches(p, f)
                             /\ ~\E p \in ToSet(body.source.excludes) : PatternMatches(p, f)}
    BY DEF SourceFaithful
  <2>2. body \in Bodies /\ source = Cleaned(body.source)
    BY <2>1 DEF EsInv
  <2>3. body.source \in [fetch : BOOLEAN, includes : Seq(Patterns), excludes : Seq(Patterns)]
    BY <2>2, BodyParts
  <2>4. QED
    BY <2>1, <2>2, <2>3, SourceCleaned
<1>2. QED
  BY <1>1, EsHolds, PTL
==============================================================================
