--------------------------- MODULE PgSelectProofs ----------------------------
(***************************************************************************)
(* The theorems of PgSelect, for conditions of every depth: a planned      *)
(* WHERE passes the rows SQL passes, its text can be parsed, and the rows  *)
(* that arrive answer the statement.                                       *)
(*                                                                         *)
(* Every function of PgWhere is first shown to be what its recursive       *)
(* definition says, level by level as in ExprProofs.  The induction over   *)
(* conditions then follows a condition through all four steps at once.     *)
(***************************************************************************)
EXTENDS PgSelect, ExprProofs

(***************************************************************************)
(* Levels.                                                                 *)
(***************************************************************************)
\* The conditions one level above those of S.
CondsOver(S) == Predicates \cup [w : {"not"}, x : S] \cup [w : {"and", "or"}, xs : Seq(S)]

IsCondLevels(f, N) == f = [n \in 0..N |-> IF n = 0 THEN Predicates ELSE CondsOver(f[n - 1])]

\* The levels are what their recursive definition says.
LEMMA CondLevelSteps ==
  /\ Levels[0] = Predicates
  /\ \A n \in 0..Depth : n # 0 => Levels[n] = CondsOver(Levels[n - 1])
<1> DEFINE T == {N \in Nat : \E f : IsCondLevels(f, N)}
<1>1. 0 \in T
  <2> DEFINE f == [n \in 0..0 |-> Predicates]
  <2>1. f = [n \in 0..0 |-> IF n = 0 THEN Predicates ELSE CondsOver(f[n - 1])]
    OBVIOUS
  <2>2. IsCondLevels(f, 0)
    BY <2>1 DEF IsCondLevels
  <2>3. QED
    BY <2>2
<1>2. ASSUME NEW N \in 0..Depth, N # 0, N - 1 \in T PROVE N \in T
  <2>1. PICK f : IsCondLevels(f, N - 1)
    BY <1>2
  <2> DEFINE g == [n \in 0..N |-> IF n = 0 THEN Predicates ELSE CondsOver(f[n - 1])]
  <2>2. N \in Nat /\ N - 1 \in Nat
    BY <1>2, WhereAssumption
  <2>3. ASSUME NEW n \in 0..(N - 1) PROVE f[n] = IF n = 0 THEN Predicates ELSE CondsOver(f[n - 1])
    BY <2>1 DEF IsCondLevels
  <2>4. ASSUME NEW n \in 0..N, n # 0 PROVE g[n - 1] = f[n - 1]
    <3>1. n - 1 \in 0..(N - 1) /\ n - 1 \in 0..N
      BY <2>2, <2>4
    <3>2. QED
      BY <2>3, <3>1
  <2>5. \A n \in 0..N : (IF n = 0 THEN Predicates ELSE CondsOver(f[n - 1])) = IF n = 0 THEN Predicates ELSE CondsOver(g[n - 1])
    <3> HIDE DEF g
    <3>1. QED
      BY <2>4
  <2>6. g = [n \in 0..N |-> IF n = 0 THEN Predicates ELSE CondsOver(g[n - 1])]
    <3> DEFINE A(n) == IF n = 0 THEN Predicates ELSE CondsOver(f[n - 1])
               B(n) == IF n = 0 THEN Predicates ELSE CondsOver(g[n - 1])
    <3>1. g = [n \in 0..N |-> A(n)] /\ \A n \in 0..N : A(n) = B(n)
      BY <2>5
    <3> HIDE DEF A, B, g
    <3>2. g = [n \in 0..N |-> B(n)]
      BY <3>1
    <3>3. QED
      BY <3>2 DEF B
  <2> HIDE DEF g
  <2>7. IsCondLevels(g, N)
    BY <2>6 DEF IsCondLevels
  <2>8. QED
    BY <2>2, <2>7
<1>3. Depth \in Nat /\ Depth \in 0..Depth
  BY WhereAssumption
<1>4. Depth \in T
  <2> HIDE DEF T
  <2>1. QED
    BY <1>1, <1>2, <1>3, Climb
<1>5. IsCondLevels(Levels, Depth)
  <2>1. Levels = CHOOSE f : IsCondLevels(f, Depth)
    BY DEF Levels, IsCondLevels, CondsOver
  <2>2. QED
    BY <1>4, <2>1
<1>6. \A n \in 0..Depth : Levels[n] = IF n = 0 THEN Predicates ELSE CondsOver(Levels[n - 1])
  BY <1>5 DEF IsCondLevels
<1>7. QED
  BY <1>3, <1>6

\* Every level holds the levels below it.
LEMMA CondGrow ==
  /\ \A n \in 0..Depth : n # 0 => Levels[n - 1] \subseteq Levels[n]
  /\ \A n \in 0..Depth : Levels[n] \subseteq Conditions
<1>1. Depth \in Nat
  BY WhereAssumption
<1> DEFINE T == {n \in 0..Depth : n # 0 => Levels[n - 1] \subseteq Levels[n]}
<1>2. 0 \in T
  BY <1>1
<1>3. ASSUME NEW n \in 0..Depth, n # 0, n - 1 \in T PROVE n \in T
  <2>1. Levels[n] = CondsOver(Levels[n - 1])
    BY <1>3, CondLevelSteps
  <2>2. CASE n = 1
    BY <2>1, <2>2, CondLevelSteps DEF CondsOver
  <2>3. CASE n # 1
    <3> DEFINE a == Levels[(n - 1) - 1]
               b == Levels[n - 1]
    <3>1. n - 1 \in 0..Depth /\ n - 1 # 0
      BY <1>1, <1>3, <2>3
    <3>2. b = CondsOver(a) /\ a \subseteq b
      BY <1>3, <3>1, CondLevelSteps
    <3>3. CondsOver(a) \subseteq CondsOver(b)
      <4> HIDE DEF a, b
      <4>1. Seq(a) \subseteq Seq(b)
        BY <3>2
      <4>2. [w : {"not"}, x : a] \subseteq [w : {"not"}, x : b]
        BY <3>2
      <4>3. [w : {"and", "or"}, xs : Seq(a)] \subseteq [w : {"and", "or"}, xs : Seq(b)]
        BY <4>1
      <4>4. QED
        BY <4>2, <4>3 DEF CondsOver
    <3>4. QED
      BY <2>1, <3>2, <3>3
  <2>4. QED
    BY <2>2, <2>3
<1>4. \A n \in 0..Depth : n \in T
  <2> HIDE DEF T
  <2>1. QED
    BY <1>1, <1>2, <1>3, Climb
<1> DEFINE D == {k \in 0..Depth : Levels[Depth - k] \subseteq Conditions}
<1>5. 0 \in D
  BY <1>1 DEF Conditions
<1>6. ASSUME NEW k \in 0..Depth, k # 0, k - 1 \in D PROVE k \in D
  <2>1. Depth - (k - 1) \in 0..Depth /\ Depth - (k - 1) # 0 /\ (Depth - (k - 1)) - 1 = Depth - k
    BY <1>1, <1>6
  <2>2. Levels[Depth - k] \subseteq Levels[Depth - (k - 1)]
    BY <1>4, <2>1
  <2>3. QED
    BY <1>6, <2>2
<1>7. \A k \in 0..Depth : k \in D
  <2> HIDE DEF D
  <2>1. QED
    BY <1>1, <1>5, <1>6, Climb
<1>8. ASSUME NEW n \in 0..Depth PROVE Levels[n] \subseteq Conditions
  <2>1. Depth - n \in 0..Depth /\ Depth - (Depth - n) = n
    BY <1>1
  <2>2. QED
    BY <1>7, <2>1
<1>9. QED
  BY <1>4, <1>8

\* What an condition of n levels is made of.
LEMMA CondParts ==
  ASSUME NEW n \in 0..Depth, NEW p \in Levels[n]
  PROVE  /\ p.w \in {"true", "false", "const", "column", "compare", "in", "between", "null", "not", "and", "or"}
         /\ p.w \notin {"not", "and", "or"} => p \in Predicates
         /\ p.w = "not" => n # 0 /\ p.x \in Levels[n - 1] /\ p = NotW(p.x)
         /\ p.w \in {"and", "or"} =>
              n # 0 /\ p.xs \in Seq(Levels[n - 1]) /\ p = [w |-> p.w, xs |-> p.xs]
<1>1. ASSUME p \in Predicates
      PROVE  p.w \in {"true", "false", "const", "column", "compare", "in", "between", "null"}
  BY <1>1 DEF Predicates
<1>2. CASE n = 0
  BY <1>1, <1>2, CondLevelSteps
<1>3. CASE n # 0
  <2> DEFINE S == Levels[n - 1]
  <2>1. p \in CondsOver(S)
    BY <1>3, CondLevelSteps
  <2> HIDE DEF S
  <2>2. CASE p \in Predicates
    BY <1>1, <2>2
  <2>3. CASE p \in [w : {"not"}, x : S]
    <3>1. p.w = "not" /\ p.x \in S /\ p = [w |-> "not", x |-> p.x]
      BY <2>3
    <3>2. QED
      BY <1>3, <3>1 DEF S, NotW
  <2>4. CASE p \in [w : {"and", "or"}, xs : Seq(S)]
    <3>1. p.w \in {"and", "or"} /\ p.xs \in Seq(S) /\ p = [w |-> p.w, xs |-> p.xs]
      BY <2>4
    <3>2. QED
      BY <1>3, <3>1 DEF S
  <2>5. QED
    BY <2>1, <2>2, <2>3, <2>4 DEF CondsOver
<1>4. QED
  BY <1>2, <1>3

\* What makes an condition of n levels.
LEMMA CondMade ==
  ASSUME NEW n \in 0..Depth
  PROVE  /\ Predicates \subseteq Levels[n]
         /\ n # 0 => \A x \in Levels[n - 1] : NotW(x) \in Levels[n]
         /\ n # 0 => \A xs \in Seq(Levels[n - 1]) :
                       AndW(xs) \in Levels[n] /\ OrW(xs) \in Levels[n]
<1>1. CASE n = 0
  BY <1>1, CondLevelSteps
<1>2. CASE n # 0
  <2> DEFINE S == Levels[n - 1]
  <2>1. Levels[n] = CondsOver(S)
    BY <1>2, CondLevelSteps
  <2> HIDE DEF S
  <2>2. \A x \in S : NotW(x) \in CondsOver(S)
    BY DEF CondsOver, NotW
  <2>3. \A xs \in Seq(S) : AndW(xs) \in CondsOver(S) /\ OrW(xs) \in CondsOver(S)
    BY DEF CondsOver, AndW, OrW
  <2>4. QED
    BY <2>1, <2>2, <2>3 DEF S, CondsOver
<1>3. QED
  BY <1>1, <1>2

(***************************************************************************)
(* The functions, step by step.                                            *)
(***************************************************************************)
\* One step of Parse, f being what it makes of the parts.
ParseStepOf(f, p) ==
  CASE p.w = "not" -> NotW(f[p.x])
    [] p.w \in {"and", "or"} -> [w |-> p.w, xs |-> [i \in DOMAIN p.xs |-> f[p.xs[i]]]]
    [] p.w \in {"const", "column"} -> BarePredicate(p)
    [] p.w = "compare" -> CombineComparison(p)
    [] p.w = "in" -> ParseInTail(p)
    [] p.w = "between" -> ParseBetweenTail(p)
    [] OTHER -> p

IsParse(f, S) == f = [p \in S |-> ParseStepOf(f, p)]

LEMMA ParseLocal ==
  ASSUME NEW n \in 0..Depth, NEW p \in Levels[n], NEW f, NEW g,
         n # 0 => \A y \in Levels[n - 1] : f[y] = g[y]
  PROVE  ParseStepOf(f, p) = ParseStepOf(g, p)
<1>1. CASE p.w = "not"
  <2>1. f[p.x] = g[p.x]
    BY <1>1, CondParts
  <2>2. QED
    BY <1>1, <2>1 DEF ParseStepOf
<1>2. CASE p.w \in {"and", "or"}
  <2>1. p.xs \in Seq(Levels[n - 1]) /\ n # 0
    BY <1>2, CondParts
  <2>2. \A i \in DOMAIN p.xs : f[p.xs[i]] = g[p.xs[i]]
    BY <2>1
  <2>3. [i \in DOMAIN p.xs |-> f[p.xs[i]]] = [i \in DOMAIN p.xs |-> g[p.xs[i]]]
    BY <2>2
  <2>4. QED
    BY <1>2, <2>3 DEF ParseStepOf
<1>3. CASE p.w \notin {"not", "and", "or"}
  BY <1>3, CondParts DEF ParseStepOf
<1>4. QED
  BY <1>1, <1>2, <1>3

\* Parse is what its recursive definition says.
LEMMA ParseSteps ==
  \A x \in Conditions : Parse[x] = ParseStepOf(Parse, x)
<1> DEFINE T == {n \in 0..Depth : \E f : IsParse(f, Levels[n])}
<1>1. Depth \in Nat /\ Depth \in 0..Depth /\ 0 \in 0..Depth
  BY WhereAssumption
<1>2. 0 \in T
  <2> DEFINE S == Levels[0]
             f == [x \in S |-> ParseStepOf(<<>>, x)]
  <2>1. \A x \in S : ParseStepOf(<<>>, x) = ParseStepOf(f, x)
    <3> HIDE DEF f
    <3>1. QED
      BY <1>1, ParseLocal
  <2>2. f = [x \in S |-> ParseStepOf(f, x)]
    <3> DEFINE A(x) == ParseStepOf(<<>>, x)
               B(x) == ParseStepOf(f, x)
    <3>1. f = [x \in S |-> A(x)] /\ \A x \in S : A(x) = B(x)
      BY <2>1
    <3> HIDE DEF A, B, f, S
    <3>2. f = [x \in S |-> B(x)]
      BY <3>1
    <3>3. QED
      BY <3>2 DEF B
  <2> HIDE DEF f
  <2>3. IsParse(f, Levels[0])
    BY <2>2 DEF IsParse
  <2>4. QED
    BY <1>1, <2>3
<1>3. ASSUME NEW n \in 0..Depth, n # 0, n - 1 \in T PROVE n \in T
  <2>1. PICK f : IsParse(f, Levels[n - 1])
    BY <1>3
  <2> DEFINE S == Levels[n]
             g == [x \in S |-> ParseStepOf(f, x)]
  <2>2. Levels[n - 1] \subseteq S
    BY <1>3, CondGrow
  <2>3. \A y \in Levels[n - 1] : f[y] = ParseStepOf(f, y)
    BY <2>1 DEF IsParse
  <2>4. \A y \in Levels[n - 1] : g[y] = f[y]
    BY <2>2, <2>3
  <2>5. \A x \in S : ParseStepOf(f, x) = ParseStepOf(g, x)
    <3> HIDE DEF g
    <3>1. QED
      BY <2>4, ParseLocal
  <2>6. g = [x \in S |-> ParseStepOf(g, x)]
    <3> DEFINE A(x) == ParseStepOf(f, x)
               B(x) == ParseStepOf(g, x)
    <3>1. g = [x \in S |-> A(x)] /\ \A x \in S : A(x) = B(x)
      BY <2>5
    <3> HIDE DEF A, B, g, S
    <3>2. g = [x \in S |-> B(x)]
      BY <3>1
    <3>3. QED
      BY <3>2 DEF B
  <2> HIDE DEF g
  <2>7. IsParse(g, Levels[n])
    BY <2>6 DEF IsParse
  <2>8. QED
    BY <2>7
<1>4. Depth \in T
  <2> HIDE DEF T
  <2>1. QED
    BY <1>1, <1>2, <1>3, Climb
<1>5. IsParse(Parse, Conditions)
  <2>1. Parse = CHOOSE f : IsParse(f, Conditions)
    BY DEF Parse, IsParse, ParseStepOf
  <2>2. \E f : IsParse(f, Conditions)
    BY <1>4 DEF Conditions
  <2>3. QED
    BY <2>1, <2>2
<1>6. QED
  BY <1>5 DEF IsParse

\* One step of stripWhere.
StripStep(f, p) ==
  CASE p.w = "not" -> NotW(f[p.x])
    [] p.w \in {"and", "or"} -> [w |-> p.w, xs |-> [i \in DOMAIN p.xs |-> f[p.xs[i]]]]
    [] p.w \in {"true", "false"} -> p
    [] OTHER -> [p EXCEPT !.c = <<Bare, p.c[2]>>]

IsStrip(f, S) == f = [p \in S |-> StripStep(f, p)]

LEMMA StripLocal ==
  ASSUME NEW n \in 0..Depth, NEW p \in Levels[n], NEW f, NEW g,
         n # 0 => \A y \in Levels[n - 1] : f[y] = g[y]
  PROVE  StripStep(f, p) = StripStep(g, p)
<1>1. CASE p.w = "not"
  <2>1. f[p.x] = g[p.x]
    BY <1>1, CondParts
  <2>2. QED
    BY <1>1, <2>1 DEF StripStep
<1>2. CASE p.w \in {"and", "or"}
  <2>1. p.xs \in Seq(Levels[n - 1]) /\ n # 0
    BY <1>2, CondParts
  <2>2. \A i \in DOMAIN p.xs : f[p.xs[i]] = g[p.xs[i]]
    BY <2>1
  <2>3. [i \in DOMAIN p.xs |-> f[p.xs[i]]] = [i \in DOMAIN p.xs |-> g[p.xs[i]]]
    BY <2>2
  <2>4. QED
    BY <1>2, <2>3 DEF StripStep
<1>3. CASE p.w \notin {"not", "and", "or"}
  BY <1>3, CondParts DEF StripStep
<1>4. QED
  BY <1>1, <1>2, <1>3

\* StripWhere is what its recursive definition says.
LEMMA StripSteps ==
  \A x \in Conditions : StripWhere[x] = StripStep(StripWhere, x)
<1> DEFINE T == {n \in 0..Depth : \E f : IsStrip(f, Levels[n])}
<1>1. Depth \in Nat /\ Depth \in 0..Depth /\ 0 \in 0..Depth
  BY WhereAssumption
<1>2. 0 \in T
  <2> DEFINE S == Levels[0]
             f == [x \in S |-> StripStep(<<>>, x)]
  <2>1. \A x \in S : StripStep(<<>>, x) = StripStep(f, x)
    <3> HIDE DEF f
    <3>1. QED
      BY <1>1, StripLocal
  <2>2. f = [x \in S |-> StripStep(f, x)]
    <3> DEFINE A(x) == StripStep(<<>>, x)
               B(x) == StripStep(f, x)
    <3>1. f = [x \in S |-> A(x)] /\ \A x \in S : A(x) = B(x)
      BY <2>1
    <3> HIDE DEF A, B, f, S
    <3>2. f = [x \in S |-> B(x)]
      BY <3>1
    <3>3. QED
      BY <3>2 DEF B
  <2> HIDE DEF f
  <2>3. IsStrip(f, Levels[0])
    BY <2>2 DEF IsStrip
  <2>4. QED
    BY <1>1, <2>3
<1>3. ASSUME NEW n \in 0..Depth, n # 0, n - 1 \in T PROVE n \in T
  <2>1. PICK f : IsStrip(f, Levels[n - 1])
    BY <1>3
  <2> DEFINE S == Levels[n]
             g == [x \in S |-> StripStep(f, x)]
  <2>2. Levels[n - 1] \subseteq S
    BY <1>3, CondGrow
  <2>3. \A y \in Levels[n - 1] : f[y] = StripStep(f, y)
    BY <2>1 DEF IsStrip
  <2>4. \A y \in Levels[n - 1] : g[y] = f[y]
    BY <2>2, <2>3
  <2>5. \A x \in S : StripStep(f, x) = StripStep(g, x)
    <3> HIDE DEF g
    <3>1. QED
      BY <2>4, StripLocal
  <2>6. g = [x \in S |-> StripStep(g, x)]
    <3> DEFINE A(x) == StripStep(f, x)
               B(x) == StripStep(g, x)
    <3>1. g = [x \in S |-> A(x)] /\ \A x \in S : A(x) = B(x)
      BY <2>5
    <3> HIDE DEF A, B, g, S
    <3>2. g = [x \in S |-> B(x)]
      BY <3>1
    <3>3. QED
      BY <3>2 DEF B
  <2> HIDE DEF g
  <2>7. IsStrip(g, Levels[n])
    BY <2>6 DEF IsStrip
  <2>8. QED
    BY <2>7
<1>4. Depth \in T
  <2> HIDE DEF T
  <2>1. QED
    BY <1>1, <1>2, <1>3, Climb
<1>5. IsStrip(StripWhere, Conditions)
  <2>1. StripWhere = CHOOSE f : IsStrip(f, Conditions)
    BY DEF StripWhere, IsStrip, StripStep
  <2>2. \E f : IsStrip(f, Conditions)
    BY <1>4 DEF Conditions
  <2>3. QED
    BY <2>1, <2>2
<1>6. QED
  BY <1>5 DEF IsStrip

\* One step of fold.
FoldStepOf(f, p) ==
  CASE p.w = "and" -> FoldAnd([i \in DOMAIN p.xs |-> f[p.xs[i]]])
    [] p.w = "or" -> FoldOr([i \in DOMAIN p.xs |-> f[p.xs[i]]])
    [] p.w = "not" -> FoldNot(f[p.x])
    [] OTHER -> p

IsFold(f, S) == f = [p \in S |-> FoldStepOf(f, p)]

LEMMA FoldLocal ==
  ASSUME NEW n \in 0..Depth, NEW p \in Levels[n], NEW f, NEW g,
         n # 0 => \A y \in Levels[n - 1] : f[y] = g[y]
  PROVE  FoldStepOf(f, p) = FoldStepOf(g, p)
<1>1. CASE p.w = "not"
  <2>1. f[p.x] = g[p.x]
    BY <1>1, CondParts
  <2>2. QED
    BY <1>1, <2>1 DEF FoldStepOf
<1>2. CASE p.w \in {"and", "or"}
  <2>1. p.xs \in Seq(Levels[n - 1]) /\ n # 0
    BY <1>2, CondParts
  <2>2. \A i \in DOMAIN p.xs : f[p.xs[i]] = g[p.xs[i]]
    BY <2>1
  <2>3. [i \in DOMAIN p.xs |-> f[p.xs[i]]] = [i \in DOMAIN p.xs |-> g[p.xs[i]]]
    BY <2>2
  <2>4. QED
    BY <1>2, <2>3 DEF FoldStepOf
<1>3. CASE p.w \notin {"not", "and", "or"}
  BY <1>3, CondParts DEF FoldStepOf
<1>4. QED
  BY <1>1, <1>2, <1>3

\* Fold is what its recursive definition says.
LEMMA FoldSteps ==
  \A x \in Conditions : Fold[x] = FoldStepOf(Fold, x)
<1> DEFINE T == {n \in 0..Depth : \E f : IsFold(f, Levels[n])}
<1>1. Depth \in Nat /\ Depth \in 0..Depth /\ 0 \in 0..Depth
  BY WhereAssumption
<1>2. 0 \in T
  <2> DEFINE S == Levels[0]
             f == [x \in S |-> FoldStepOf(<<>>, x)]
  <2>1. \A x \in S : FoldStepOf(<<>>, x) = FoldStepOf(f, x)
    <3> HIDE DEF f
    <3>1. QED
      BY <1>1, FoldLocal
  <2>2. f = [x \in S |-> FoldStepOf(f, x)]
    <3> DEFINE A(x) == FoldStepOf(<<>>, x)
               B(x) == FoldStepOf(f, x)
    <3>1. f = [x \in S |-> A(x)] /\ \A x \in S : A(x) = B(x)
      BY <2>1
    <3> HIDE DEF A, B, f, S
    <3>2. f = [x \in S |-> B(x)]
      BY <3>1
    <3>3. QED
      BY <3>2 DEF B
  <2> HIDE DEF f
  <2>3. IsFold(f, Levels[0])
    BY <2>2 DEF IsFold
  <2>4. QED
    BY <1>1, <2>3
<1>3. ASSUME NEW n \in 0..Depth, n # 0, n - 1 \in T PROVE n \in T
  <2>1. PICK f : IsFold(f, Levels[n - 1])
    BY <1>3
  <2> DEFINE S == Levels[n]
             g == [x \in S |-> FoldStepOf(f, x)]
  <2>2. Levels[n - 1] \subseteq S
    BY <1>3, CondGrow
  <2>3. \A y \in Levels[n - 1] : f[y] = FoldStepOf(f, y)
    BY <2>1 DEF IsFold
  <2>4. \A y \in Levels[n - 1] : g[y] = f[y]
    BY <2>2, <2>3
  <2>5. \A x \in S : FoldStepOf(f, x) = FoldStepOf(g, x)
    <3> HIDE DEF g
    <3>1. QED
      BY <2>4, FoldLocal
  <2>6. g = [x \in S |-> FoldStepOf(g, x)]
    <3> DEFINE A(x) == FoldStepOf(f, x)
               B(x) == FoldStepOf(g, x)
    <3>1. g = [x \in S |-> A(x)] /\ \A x \in S : A(x) = B(x)
      BY <2>5
    <3> HIDE DEF A, B, g, S
    <3>2. g = [x \in S |-> B(x)]
      BY <3>1
    <3>3. QED
      BY <3>2 DEF B
  <2> HIDE DEF g
  <2>7. IsFold(g, Levels[n])
    BY <2>6 DEF IsFold
  <2>8. QED
    BY <2>7
<1>4. Depth \in T
  <2> HIDE DEF T
  <2>1. QED
    BY <1>1, <1>2, <1>3, Climb
<1>5. IsFold(Fold, Conditions)
  <2>1. Fold = CHOOSE f : IsFold(f, Conditions)
    BY DEF Fold, IsFold, FoldStepOf
  <2>2. \E f : IsFold(f, Conditions)
    BY <1>4 DEF Conditions
  <2>3. QED
    BY <2>1, <2>2
<1>6. QED
  BY <1>5 DEF IsFold

\* One step of buildWhere.
BuildStepOf(f, p) ==
  LET fld == p.c[2]
  IN CASE p.w = "not" -> Not(f[p.x])
       [] p.w = "and" -> And([i \in DOMAIN p.xs |-> f[p.xs[i]]])
       [] p.w = "or" -> Or([i \in DOMAIN p.xs |-> f[p.xs[i]]])
       [] p.w = "true" -> Nil
       [] p.w = "false" -> Never
       [] p.w = "column" -> Compare("=", fld, Yes)
       [] p.w = "compare" -> Compare(p.op, fld, p.v)
       [] p.w = "in" -> Lowered(InList(fld, p.vs), p.neg)
       [] p.w = "between" ->
            Lowered(And(<<Compare(">=", fld, p.lo), Compare("<=", fld, p.hi)>>), p.neg)
       [] OTHER -> IF p.neg THEN NotNull(fld) ELSE IsNull(fld)

IsBuild(f, S) == f = [p \in S |-> BuildStepOf(f, p)]

LEMMA BuildLocal ==
  ASSUME NEW n \in 0..Depth, NEW p \in Levels[n], NEW f, NEW g,
         n # 0 => \A y \in Levels[n - 1] : f[y] = g[y]
  PROVE  BuildStepOf(f, p) = BuildStepOf(g, p)
<1>1. CASE p.w = "not"
  <2>1. f[p.x] = g[p.x]
    BY <1>1, CondParts
  <2>2. QED
    BY <1>1, <2>1 DEF BuildStepOf
<1>2. CASE p.w \in {"and", "or"}
  <2>1. p.xs \in Seq(Levels[n - 1]) /\ n # 0
    BY <1>2, CondParts
  <2>2. \A i \in DOMAIN p.xs : f[p.xs[i]] = g[p.xs[i]]
    BY <2>1
  <2>3. [i \in DOMAIN p.xs |-> f[p.xs[i]]] = [i \in DOMAIN p.xs |-> g[p.xs[i]]]
    BY <2>2
  <2>4. QED
    BY <1>2, <2>3 DEF BuildStepOf
<1>3. CASE p.w \notin {"not", "and", "or"}
  BY <1>3, CondParts DEF BuildStepOf
<1>4. QED
  BY <1>1, <1>2, <1>3

\* BuildWhere is what its recursive definition says.
LEMMA BuildSteps ==
  \A x \in Conditions : BuildWhere[x] = BuildStepOf(BuildWhere, x)
<1> DEFINE T == {n \in 0..Depth : \E f : IsBuild(f, Levels[n])}
<1>1. Depth \in Nat /\ Depth \in 0..Depth /\ 0 \in 0..Depth
  BY WhereAssumption
<1>2. 0 \in T
  <2> DEFINE S == Levels[0]
             f == [x \in S |-> BuildStepOf(<<>>, x)]
  <2>1. \A x \in S : BuildStepOf(<<>>, x) = BuildStepOf(f, x)
    <3> HIDE DEF f
    <3>1. QED
      BY <1>1, BuildLocal
  <2>2. f = [x \in S |-> BuildStepOf(f, x)]
    <3> DEFINE A(x) == BuildStepOf(<<>>, x)
               B(x) == BuildStepOf(f, x)
    <3>1. f = [x \in S |-> A(x)] /\ \A x \in S : A(x) = B(x)
      BY <2>1
    <3> HIDE DEF A, B, f, S
    <3>2. f = [x \in S |-> B(x)]
      BY <3>1
    <3>3. QED
      BY <3>2 DEF B
  <2> HIDE DEF f
  <2>3. IsBuild(f, Levels[0])
    BY <2>2 DEF IsBuild
  <2>4. QED
    BY <1>1, <2>3
<1>3. ASSUME NEW n \in 0..Depth, n # 0, n - 1 \in T PROVE n \in T
  <2>1. PICK f : IsBuild(f, Levels[n - 1])
    BY <1>3
  <2> DEFINE S == Levels[n]
             g == [x \in S |-> BuildStepOf(f, x)]
  <2>2. Levels[n - 1] \subseteq S
    BY <1>3, CondGrow
  <2>3. \A y \in Levels[n - 1] : f[y] = BuildStepOf(f, y)
    BY <2>1 DEF IsBuild
  <2>4. \A y \in Levels[n - 1] : g[y] = f[y]
    BY <2>2, <2>3
  <2>5. \A x \in S : BuildStepOf(f, x) = BuildStepOf(g, x)
    <3> HIDE DEF g
    <3>1. QED
      BY <2>4, BuildLocal
  <2>6. g = [x \in S |-> BuildStepOf(g, x)]
    <3> DEFINE A(x) == BuildStepOf(f, x)
               B(x) == BuildStepOf(g, x)
    <3>1. g = [x \in S |-> A(x)] /\ \A x \in S : A(x) = B(x)
      BY <2>5
    <3> HIDE DEF A, B, g, S
    <3>2. g = [x \in S |-> B(x)]
      BY <3>1
    <3>3. QED
      BY <3>2 DEF B
  <2> HIDE DEF g
  <2>7. IsBuild(g, Levels[n])
    BY <2>6 DEF IsBuild
  <2>8. QED
    BY <2>7
<1>4. Depth \in T
  <2> HIDE DEF T
  <2>1. QED
    BY <1>1, <1>2, <1>3, Climb
<1>5. IsBuild(BuildWhere, Conditions)
  <2>1. BuildWhere = CHOOSE f : IsBuild(f, Conditions)
    BY DEF BuildWhere, IsBuild, BuildStepOf
  <2>2. \E f : IsBuild(f, Conditions)
    BY <1>4 DEF Conditions
  <2>3. QED
    BY <2>1, <2>2
<1>6. QED
  BY <1>5 DEF IsBuild

\* One step of HoldsNull.
HoldsNullStep(f, p) ==
  CASE p.w = "not" -> f[p.x]
    [] p.w \in {"and", "or"} -> \E i \in DOMAIN p.xs : f[p.xs[i]]
    [] p.w = "const" -> p.v = "unknown"
    [] p.w = "compare" -> p.v = Null
    [] p.w = "in" -> Null \in p.vs
    [] p.w = "between" -> Null \in {p.lo, p.hi}
    [] OTHER -> FALSE

IsHoldsNull(f, S) == f = [p \in S |-> HoldsNullStep(f, p)]

LEMMA HoldsNullLocal ==
  ASSUME NEW n \in 0..Depth, NEW p \in Levels[n], NEW f, NEW g,
         n # 0 => \A y \in Levels[n - 1] : f[y] = g[y]
  PROVE  HoldsNullStep(f, p) = HoldsNullStep(g, p)
<1>1. CASE p.w = "not"
  <2>1. f[p.x] = g[p.x]
    BY <1>1, CondParts
  <2>2. QED
    BY <1>1, <2>1 DEF HoldsNullStep
<1>2. CASE p.w \in {"and", "or"}
  <2>1. p.xs \in Seq(Levels[n - 1]) /\ n # 0
    BY <1>2, CondParts
  <2>2. \A i \in DOMAIN p.xs : f[p.xs[i]] = g[p.xs[i]]
    BY <2>1
  <2>3. (\E i \in DOMAIN p.xs : f[p.xs[i]]) <=> (\E i \in DOMAIN p.xs : g[p.xs[i]])
    BY <2>2
  <2>4. QED
    BY <1>2, <2>3 DEF HoldsNullStep
<1>3. CASE p.w \notin {"not", "and", "or"}
  BY <1>3, CondParts DEF HoldsNullStep
<1>4. QED
  BY <1>1, <1>2, <1>3

\* HoldsNull is what its recursive definition says.
LEMMA HoldsNullSteps ==
  \A x \in Conditions : HoldsNull[x] = HoldsNullStep(HoldsNull, x)
<1> DEFINE T == {n \in 0..Depth : \E f : IsHoldsNull(f, Levels[n])}
<1>1. Depth \in Nat /\ Depth \in 0..Depth /\ 0 \in 0..Depth
  BY WhereAssumption
<1>2. 0 \in T
  <2> DEFINE S == Levels[0]
             f == [x \in S |-> HoldsNullStep(<<>>, x)]
  <2>1. \A x \in S : HoldsNullStep(<<>>, x) = HoldsNullStep(f, x)
    <3> HIDE DEF f
    <3>1. QED
      BY <1>1, HoldsNullLocal
  <2>2. f = [x \in S |-> HoldsNullStep(f, x)]
    <3> DEFINE A(x) == HoldsNullStep(<<>>, x)
               B(x) == HoldsNullStep(f, x)
    <3>1. f = [x \in S |-> A(x)] /\ \A x \in S : A(x) = B(x)
      BY <2>1
    <3> HIDE DEF A, B, f, S
    <3>2. f = [x \in S |-> B(x)]
      BY <3>1
    <3>3. QED
      BY <3>2 DEF B
  <2> HIDE DEF f
  <2>3. IsHoldsNull(f, Levels[0])
    BY <2>2 DEF IsHoldsNull
  <2>4. QED
    BY <1>1, <2>3
<1>3. ASSUME NEW n \in 0..Depth, n # 0, n - 1 \in T PROVE n \in T
  <2>1. PICK f : IsHoldsNull(f, Levels[n - 1])
    BY <1>3
  <2> DEFINE S == Levels[n]
             g == [x \in S |-> HoldsNullStep(f, x)]
  <2>2. Levels[n - 1] \subseteq S
    BY <1>3, CondGrow
  <2>3. \A y \in Levels[n - 1] : f[y] = HoldsNullStep(f, y)
    BY <2>1 DEF IsHoldsNull
  <2>4. \A y \in Levels[n - 1] : g[y] = f[y]
    BY <2>2, <2>3
  <2>5. \A x \in S : HoldsNullStep(f, x) = HoldsNullStep(g, x)
    <3> HIDE DEF g
    <3>1. QED
      BY <2>4, HoldsNullLocal
  <2>6. g = [x \in S |-> HoldsNullStep(g, x)]
    <3> DEFINE A(x) == HoldsNullStep(f, x)
               B(x) == HoldsNullStep(g, x)
    <3>1. g = [x \in S |-> A(x)] /\ \A x \in S : A(x) = B(x)
      BY <2>5
    <3> HIDE DEF A, B, g, S
    <3>2. g = [x \in S |-> B(x)]
      BY <3>1
    <3>3. QED
      BY <3>2 DEF B
  <2> HIDE DEF g
  <2>7. IsHoldsNull(g, Levels[n])
    BY <2>6 DEF IsHoldsNull
  <2>8. QED
    BY <2>7
<1>4. Depth \in T
  <2> HIDE DEF T
  <2>1. QED
    BY <1>1, <1>2, <1>3, Climb
<1>5. IsHoldsNull(HoldsNull, Conditions)
  <2>1. HoldsNull = CHOOSE f : IsHoldsNull(f, Conditions)
    BY DEF HoldsNull, IsHoldsNull, HoldsNullStep
  <2>2. \E f : IsHoldsNull(f, Conditions)
    BY <1>4 DEF Conditions
  <2>3. QED
    BY <2>1, <2>2
<1>6. QED
  BY <1>5 DEF IsHoldsNull

\* One step of NegatesNull.
NegatesNullStep(f, p) ==
  CASE p.w \in {"and", "or"} -> \E i \in DOMAIN p.xs : f[p.xs[i]]
    [] p.w = "not" -> HoldsNull[p.x]
    [] p.w = "between" -> p.neg /\ HoldsNull[p]
    [] OTHER -> FALSE

IsNegatesNull(f, S) == f = [p \in S |-> NegatesNullStep(f, p)]

LEMMA NegatesNullLocal ==
  ASSUME NEW n \in 0..Depth, NEW p \in Levels[n], NEW f, NEW g,
         n # 0 => \A y \in Levels[n - 1] : f[y] = g[y]
  PROVE  NegatesNullStep(f, p) = NegatesNullStep(g, p)
<1>1. CASE p.w = "not"
  <2>1. f[p.x] = g[p.x]
    BY <1>1, CondParts
  <2>2. QED
    BY <1>1, <2>1 DEF NegatesNullStep
<1>2. CASE p.w \in {"and", "or"}
  <2>1. p.xs \in Seq(Levels[n - 1]) /\ n # 0
    BY <1>2, CondParts
  <2>2. \A i \in DOMAIN p.xs : f[p.xs[i]] = g[p.xs[i]]
    BY <2>1
  <2>3. (\E i \in DOMAIN p.xs : f[p.xs[i]]) <=> (\E i \in DOMAIN p.xs : g[p.xs[i]])
    BY <2>2
  <2>4. QED
    BY <1>2, <2>3 DEF NegatesNullStep
<1>3. CASE p.w \notin {"not", "and", "or"}
  BY <1>3, CondParts DEF NegatesNullStep
<1>4. QED
  BY <1>1, <1>2, <1>3

\* NegatesNull is what its recursive definition says.
LEMMA NegatesNullSteps ==
  \A x \in Conditions : NegatesNull[x] = NegatesNullStep(NegatesNull, x)
<1> DEFINE T == {n \in 0..Depth : \E f : IsNegatesNull(f, Levels[n])}
<1>1. Depth \in Nat /\ Depth \in 0..Depth /\ 0 \in 0..Depth
  BY WhereAssumption
<1>2. 0 \in T
  <2> DEFINE S == Levels[0]
             f == [x \in S |-> NegatesNullStep(<<>>, x)]
  <2>1. \A x \in S : NegatesNullStep(<<>>, x) = NegatesNullStep(f, x)
    <3> HIDE DEF f
    <3>1. QED
      BY <1>1, NegatesNullLocal
  <2>2. f = [x \in S |-> NegatesNullStep(f, x)]
    <3> DEFINE A(x) == NegatesNullStep(<<>>, x)
               B(x) == NegatesNullStep(f, x)
    <3>1. f = [x \in S |-> A(x)] /\ \A x \in S : A(x) = B(x)
      BY <2>1
    <3> HIDE DEF A, B, f, S
    <3>2. f = [x \in S |-> B(x)]
      BY <3>1
    <3>3. QED
      BY <3>2 DEF B
  <2> HIDE DEF f
  <2>3. IsNegatesNull(f, Levels[0])
    BY <2>2 DEF IsNegatesNull
  <2>4. QED
    BY <1>1, <2>3
<1>3. ASSUME NEW n \in 0..Depth, n # 0, n - 1 \in T PROVE n \in T
  <2>1. PICK f : IsNegatesNull(f, Levels[n - 1])
    BY <1>3
  <2> DEFINE S == Levels[n]
             g == [x \in S |-> NegatesNullStep(f, x)]
  <2>2. Levels[n - 1] \subseteq S
    BY <1>3, CondGrow
  <2>3. \A y \in Levels[n - 1] : f[y] = NegatesNullStep(f, y)
    BY <2>1 DEF IsNegatesNull
  <2>4. \A y \in Levels[n - 1] : g[y] = f[y]
    BY <2>2, <2>3
  <2>5. \A x \in S : NegatesNullStep(f, x) = NegatesNullStep(g, x)
    <3> HIDE DEF g
    <3>1. QED
      BY <2>4, NegatesNullLocal
  <2>6. g = [x \in S |-> NegatesNullStep(g, x)]
    <3> DEFINE A(x) == NegatesNullStep(f, x)
               B(x) == NegatesNullStep(g, x)
    <3>1. g = [x \in S |-> A(x)] /\ \A x \in S : A(x) = B(x)
      BY <2>5
    <3> HIDE DEF A, B, g, S
    <3>2. g = [x \in S |-> B(x)]
      BY <3>1
    <3>3. QED
      BY <3>2 DEF B
  <2> HIDE DEF g
  <2>7. IsNegatesNull(g, Levels[n])
    BY <2>6 DEF IsNegatesNull
  <2>8. QED
    BY <2>7
<1>4. Depth \in T
  <2> HIDE DEF T
  <2>1. QED
    BY <1>1, <1>2, <1>3, Climb
<1>5. IsNegatesNull(NegatesNull, Conditions)
  <2>1. NegatesNull = CHOOSE f : IsNegatesNull(f, Conditions)
    BY DEF NegatesNull, IsNegatesNull, NegatesNullStep
  <2>2. \E f : IsNegatesNull(f, Conditions)
    BY <1>4 DEF Conditions
  <2>3. QED
    BY <2>1, <2>2
<1>6. QED
  BY <1>5 DEF IsNegatesNull

\* One step of Sql.
SqlStep(f, p, row) ==
  LET cell == row[p.c[2]]
  IN CASE p.w = "const" -> p.v
       [] p.w \in {"true", "false"} -> p.w
       [] p.w = "column" -> Test("=", cell, Yes)
       [] p.w = "compare" -> IF p.flipped THEN Test(p.op, p.v, cell) ELSE Test(p.op, cell, p.v)
       [] p.w = "in" -> Turned(IF cell = Null THEN "unknown" ELSE Or3({Test("=", cell, v) : v \in p.vs}), p.neg)
       [] p.w = "between" -> Turned(And3({Test(">=", cell, p.lo), Test("<=", cell, p.hi)}), p.neg)
       [] p.w = "null" -> Truth((cell = Null) # p.neg)
       [] p.w = "not" -> Not3(f[p.x])
       [] p.w = "and" -> And3({f[p.xs[i]] : i \in DOMAIN p.xs})
       [] OTHER -> Or3({f[p.xs[i]] : i \in DOMAIN p.xs})

IsSql(f, S, row) == f = [p \in S |-> SqlStep(f, p, row)]

Meanings(row) == CHOOSE f : IsSql(f, Conditions, row)

LEMMA SqlLocal ==
  ASSUME NEW row, NEW n \in 0..Depth, NEW p \in Levels[n], NEW f, NEW g,
         n # 0 => \A y \in Levels[n - 1] : f[y] = g[y]
  PROVE  SqlStep(f, p, row) = SqlStep(g, p, row)
<1>1. CASE p.w = "not"
  <2>1. f[p.x] = g[p.x]
    BY <1>1, CondParts
  <2>2. QED
    BY <1>1, <2>1 DEF SqlStep
<1>2. CASE p.w \in {"and", "or"}
  <2>1. p.xs \in Seq(Levels[n - 1]) /\ n # 0
    BY <1>2, CondParts
  <2>2. \A i \in DOMAIN p.xs : f[p.xs[i]] = g[p.xs[i]]
    BY <2>1
  <2>3. {f[p.xs[i]] : i \in DOMAIN p.xs} = {g[p.xs[i]] : i \in DOMAIN p.xs}
    BY <2>2
  <2>4. QED
    BY <1>2, <2>3 DEF SqlStep
<1>3. CASE p.w \notin {"not", "and", "or"}
  BY <1>3, CondParts DEF SqlStep
<1>4. QED
  BY <1>1, <1>2, <1>3

\* Sql is what its recursive definition says.
LEMMA SqlSteps ==
  ASSUME NEW row
  PROVE  \A x \in Conditions : Meanings(row)[x] = SqlStep(Meanings(row), x, row)
<1> DEFINE T == {n \in 0..Depth : \E f : IsSql(f, Levels[n], row)}
<1>1. Depth \in Nat /\ Depth \in 0..Depth /\ 0 \in 0..Depth
  BY WhereAssumption
<1>2. 0 \in T
  <2> DEFINE S == Levels[0]
             f == [x \in S |-> SqlStep(<<>>, x, row)]
  <2>1. \A x \in S : SqlStep(<<>>, x, row) = SqlStep(f, x, row)
    <3> HIDE DEF f
    <3>1. QED
      BY <1>1, SqlLocal
  <2>2. f = [x \in S |-> SqlStep(f, x, row)]
    <3> DEFINE A(x) == SqlStep(<<>>, x, row)
               B(x) == SqlStep(f, x, row)
    <3>1. f = [x \in S |-> A(x)] /\ \A x \in S : A(x) = B(x)
      BY <2>1
    <3> HIDE DEF A, B, f, S
    <3>2. f = [x \in S |-> B(x)]
      BY <3>1
    <3>3. QED
      BY <3>2 DEF B
  <2> HIDE DEF f
  <2>3. IsSql(f, Levels[0], row)
    BY <2>2 DEF IsSql
  <2>4. QED
    BY <1>1, <2>3
<1>3. ASSUME NEW n \in 0..Depth, n # 0, n - 1 \in T PROVE n \in T
  <2>1. PICK f : IsSql(f, Levels[n - 1], row)
    BY <1>3
  <2> DEFINE S == Levels[n]
             g == [x \in S |-> SqlStep(f, x, row)]
  <2>2. Levels[n - 1] \subseteq S
    BY <1>3, CondGrow
  <2>3. \A y \in Levels[n - 1] : f[y] = SqlStep(f, y, row)
    BY <2>1 DEF IsSql
  <2>4. \A y \in Levels[n - 1] : g[y] = f[y]
    BY <2>2, <2>3
  <2>5. \A x \in S : SqlStep(f, x, row) = SqlStep(g, x, row)
    <3> HIDE DEF g
    <3>1. QED
      BY <2>4, SqlLocal
  <2>6. g = [x \in S |-> SqlStep(g, x, row)]
    <3> DEFINE A(x) == SqlStep(f, x, row)
               B(x) == SqlStep(g, x, row)
    <3>1. g = [x \in S |-> A(x)] /\ \A x \in S : A(x) = B(x)
      BY <2>5
    <3> HIDE DEF A, B, g, S
    <3>2. g = [x \in S |-> B(x)]
      BY <3>1
    <3>3. QED
      BY <3>2 DEF B
  <2> HIDE DEF g
  <2>7. IsSql(g, Levels[n], row)
    BY <2>6 DEF IsSql
  <2>8. QED
    BY <2>7
<1>4. Depth \in T
  <2> HIDE DEF T
  <2>1. QED
    BY <1>1, <1>2, <1>3, Climb
<1>5. IsSql(Meanings(row), Conditions, row)
  <2>1. Meanings(row) = CHOOSE f : IsSql(f, Conditions, row)
    BY DEF Meanings, IsSql, SqlStep
  <2>2. \E f : IsSql(f, Conditions, row)
    BY <1>4 DEF Conditions
  <2>3. QED
    BY <2>1, <2>2
<1>6. QED
  BY <1>5 DEF IsSql

LEMMA SqlIs ==
  ASSUME NEW row, NEW p
  PROVE  Sql(p, row) = Meanings(row)[p]
BY DEF Sql, Meanings, IsSql, SqlStep

(***************************************************************************)
(* Predicates.                                                             *)
(***************************************************************************)
\* What a predicate of each kind holds.
LEMMA PredicateParts ==
  ASSUME NEW p \in Predicates
  PROVE  /\ p.w = "true" => p = True
         /\ p.w = "false" => p = False
         /\ p.w = "const" => p.v \in Three
         /\ p.w = "column" => p.c \in ColumnRefs /\ p = Column(p.c)
         /\ p.w = "compare" => /\ p.c \in ColumnRefs /\ p.op \in Operators /\ p.v \in Literals
                               /\ p.flipped \in BOOLEAN
         /\ p.w = "in" => /\ p.c \in ColumnRefs /\ p.vs \in SUBSET Literals /\ p.neg \in BOOLEAN
         /\ p.w = "between" => /\ p.c \in ColumnRefs /\ p.lo \in Literals /\ p.hi \in Literals
                               /\ p.neg \in BOOLEAN /\ p = Between(p.c, p.lo, p.hi, p.neg)
         /\ p.w = "null" => p.c \in ColumnRefs /\ p.neg \in BOOLEAN /\ p = NullTest(p.c, p.neg)
<1>1. CASE p \in [w : {"true", "false"}]
  BY <1>1 DEF True, False
<1>2. CASE p \in [w : {"const"}, v : {"true", "false", "unknown"}]
  BY <1>2 DEF Three
<1>3. CASE p \in [w : {"column"}, c : ColumnRefs]
  <2>1. p.w = "column" /\ p.c \in ColumnRefs /\ p = [w |-> "column", c |-> p.c]
    BY <1>3
  <2>2. QED
    BY <2>1 DEF Column
<1>4. CASE p \in [w : {"compare"}, c : ColumnRefs, op : Operators, v : Literals, flipped : BOOLEAN]
  BY <1>4
<1>5. CASE p \in [w : {"in"}, c : ColumnRefs, vs : SUBSET Literals, neg : BOOLEAN]
  BY <1>5
<1>6. CASE p \in [w : {"between"}, c : ColumnRefs, lo : Literals, hi : Literals, neg : BOOLEAN]
  <2>1. /\ p.w = "between" /\ p.c \in ColumnRefs /\ p.lo \in Literals /\ p.hi \in Literals
        /\ p.neg \in BOOLEAN /\ p = [w |-> "between", c |-> p.c, lo |-> p.lo, hi |-> p.hi, neg |-> p.neg]
    BY <1>6
  <2>2. QED
    BY <2>1 DEF Between
<1>7. CASE p \in [w : {"null"}, c : ColumnRefs, neg : BOOLEAN]
  <2>1. p.w = "null" /\ p.c \in ColumnRefs /\ p.neg \in BOOLEAN /\ p = [w |-> "null", c |-> p.c, neg |-> p.neg]
    BY <1>7
  <2>2. QED
    BY <2>1 DEF NullTest
<1>8. QED
  BY <1>1, <1>2, <1>3, <1>4, <1>5, <1>6, <1>7 DEF Predicates

\* The predicates that Parse and stripWhere make.
LEMMA PredicatesMade ==
  ASSUME NEW c \in ColumnRefs
  PROVE  /\ True \in Predicates /\ False \in Predicates
         /\ Column(c) \in Predicates
         /\ \A op \in Operators, v \in Literals : ColumnOp(c, op, v) \in Predicates
         /\ \A vs \in SUBSET Literals, neg \in BOOLEAN : In(c, vs, neg) \in Predicates
         /\ \A lo \in Literals, hi \in Literals, neg \in BOOLEAN : Between(c, lo, hi, neg) \in Predicates
         /\ \A neg \in BOOLEAN : NullTest(c, neg) \in Predicates
<1>1. True \in Predicates /\ False \in Predicates /\ Column(c) \in Predicates
  BY DEF Predicates, True, False, Column
<1>2. \A op \in Operators, v \in Literals : ColumnOp(c, op, v) \in Predicates
  BY DEF Predicates, ColumnOp
<1>3. \A vs \in SUBSET Literals, neg \in BOOLEAN : In(c, vs, neg) \in Predicates
  BY DEF Predicates, In
<1>4. \A lo \in Literals, hi \in Literals, neg \in BOOLEAN : Between(c, lo, hi, neg) \in Predicates
  BY DEF Predicates, Between
<1>5. \A neg \in BOOLEAN : NullTest(c, neg) \in Predicates
  BY DEF Predicates, NullTest
<1>6. QED
  BY <1>1, <1>2, <1>3, <1>4, <1>5

\* What buildWhere makes of the kinds of tree.
LEMMA BuildShapes ==
  /\ BuildWhere[True] = Nil /\ BuildWhere[False] = Never
  /\ \A x : NotW(x) \in Conditions => BuildWhere[NotW(x)] = Not(BuildWhere[x])
  /\ \A xs : AndW(xs) \in Conditions => BuildWhere[AndW(xs)] = And([i \in DOMAIN xs |-> BuildWhere[xs[i]]])
  /\ \A xs : OrW(xs) \in Conditions => BuildWhere[OrW(xs)] = Or([i \in DOMAIN xs |-> BuildWhere[xs[i]]])
<1>1. True \in Conditions /\ False \in Conditions
  <2>1. True \in Predicates /\ False \in Predicates
    BY DEF Predicates, True, False
  <2>2. QED
    BY <2>1, CondMade, WhereAssumption DEF Conditions
<1>2. BuildWhere[True] = Nil /\ BuildWhere[False] = Never
  <2>1. BuildStepOf(BuildWhere, True) = Nil /\ BuildStepOf(BuildWhere, False) = Never
    BY DEF BuildStepOf, True, False
  <2>2. QED
    BY <1>1, <2>1, BuildSteps
<1>3. ASSUME NEW x, NotW(x) \in Conditions PROVE BuildWhere[NotW(x)] = Not(BuildWhere[x])
  <2>1. NotW(x).w = "not" /\ NotW(x).x = x
    BY DEF NotW
  <2>2. BuildStepOf(BuildWhere, NotW(x)) = Not(BuildWhere[x])
    BY <2>1 DEF BuildStepOf
  <2>3. QED
    BY <1>3, <2>2, BuildSteps
<1>4. ASSUME NEW xs, AndW(xs) \in Conditions
      PROVE  BuildWhere[AndW(xs)] = And([i \in DOMAIN xs |-> BuildWhere[xs[i]]])
  <2>1. AndW(xs).w = "and" /\ AndW(xs).xs = xs
    BY DEF AndW
  <2>2. BuildStepOf(BuildWhere, AndW(xs)) = And([i \in DOMAIN xs |-> BuildWhere[xs[i]]])
    BY <2>1 DEF BuildStepOf
  <2>3. QED
    BY <1>4, <2>2, BuildSteps
<1>5. ASSUME NEW xs, OrW(xs) \in Conditions
      PROVE  BuildWhere[OrW(xs)] = Or([i \in DOMAIN xs |-> BuildWhere[xs[i]]])
  <2>1. OrW(xs).w = "or" /\ OrW(xs).xs = xs
    BY DEF OrW
  <2>2. BuildStepOf(BuildWhere, OrW(xs)) = Or([i \in DOMAIN xs |-> BuildWhere[xs[i]]])
    BY <2>1 DEF BuildStepOf
  <2>3. QED
    BY <1>5, <2>2, BuildSteps
<1>6. QED
  BY <1>2, <1>3, <1>4, <1>5

\* A tree of n levels that Plan can be left with: it is true, or its expression
\* has a text.
Ready(n, q) ==
  /\ q \in Levels[n]
  /\ BuildWhere[q] \in ExprLevels[n + 2]
  /\ q = True \/ Solid[BuildWhere[q]]

Verdict(q, row) == Eval(BuildWhere[q], row)

LEMMA Reach ==
  ASSUME NEW n \in 0..Depth
  PROVE  /\ n \in Nat /\ n + 2 \in 0..Nesting /\ n + 2 # 0 /\ (n + 2) - 1 = n + 1 /\ n + 1 \in 0..Nesting
         /\ n # 0 => n - 1 \in 0..Depth /\ (n - 1) + 2 = n + 1
BY WhereAssumption, NestingAssumption

\* Dropping what does not count from a conjunction or a disjunction.
LEMMA Dropped ==
  ASSUME NEW S, NEW D, D \subseteq S
  PROVE  /\ S \ {"true"} \subseteq D => And3(S) = And3(D)
         /\ S \ {"false"} \subseteq D => Or3(S) = Or3(D)
<1>1. ASSUME S \ {"true"} \subseteq D PROVE And3(S) = And3(D)
  <2>1. ("false" \in S <=> "false" \in D) /\ ("unknown" \in S <=> "unknown" \in D)
    BY <1>1
  <2>2. QED
    BY <2>1 DEF And3
<1>2. ASSUME S \ {"false"} \subseteq D PROVE Or3(S) = Or3(D)
  <2>1. ("true" \in S <=> "true" \in D) /\ ("unknown" \in S <=> "unknown" \in D)
    BY <1>2
  <2>2. QED
    BY <2>1 DEF Or3
<1>3. QED
  BY <1>1, <1>2

\* The constants are ready at every level.
LEMMA ConstantsReady ==
  ASSUME NEW row, NEW n \in 0..Depth
  PROVE  /\ Ready(n, True) /\ Verdict(True, row) = "true"
         /\ Ready(n, False) /\ Verdict(False, row) = "false"
         /\ True # False
<1>1. True \in Predicates /\ False \in Predicates
  BY DEF Predicates, True, False
<1>2. True \in Levels[n] /\ False \in Levels[n]
  BY <1>1, CondMade
<1>3. Nil \in Atoms /\ Never \in Atoms /\ Never # Nil
  BY DEF Atoms, Nil, Never
<1>4. Nil \in ExprLevels[n + 2] /\ Never \in ExprLevels[n + 2]
  BY <1>3, Reach, ExprMade
<1>5. Solid[Never]
  BY <1>3, SolidAtoms
<1>6. True # False
  BY DEF True, False
<1>7. QED
  BY <1>2, <1>4, <1>5, <1>6, BuildShapes, EvalAtoms DEF Ready, Verdict

\* A predicate that holds a null test.
LEMMA NullReady ==
  ASSUME NEW row, NEW n \in 0..Depth, NEW c \in ColumnRefs, NEW neg \in BOOLEAN
  PROVE  /\ Ready(n, NullTest(c, neg))
         /\ Verdict(NullTest(c, neg), row) = Truth((row[c[2]] = Null) # neg)
<1> DEFINE q == NullTest(c, neg)
           x == IF neg THEN NotNull(c[2]) ELSE IsNull(c[2])
<1>1. q \in Levels[n] /\ q \in Conditions
  BY PredicatesMade, CondMade, CondGrow
<1>2. BuildWhere[q] = x
  <2>1. q.w = "null" /\ q.neg = neg /\ q.c = c
    BY DEF NullTest
  <2> HIDE DEF q
  <2>2. BuildStepOf(BuildWhere, q) = x
    BY <2>1 DEF BuildStepOf
  <2>3. QED
    BY <1>1, <2>2, BuildSteps
<1>3. c[2] \in Names
  BY DEF ColumnRefs
<1>4. x \in Atoms /\ x # Nil
  <2>1. NotNull(c[2]) \in Atoms /\ IsNull(c[2]) \in Atoms
    BY <1>3 DEF Atoms, NotNull, IsNull
  <2>2. NotNull(c[2]) # Nil /\ IsNull(c[2]) # Nil
    BY DEF NotNull, IsNull, Nil
  <2>3. QED
    BY <2>1, <2>2
<1>5. x \in ExprLevels[n + 2] /\ Solid[x]
  BY <1>4, Reach, ExprMade, SolidAtoms
<1>6. Eval(x, row) = Truth((row[c[2]] = Null) # neg)
  <2>1. CASE neg
    <3>1. Eval(NotNull(c[2]), row) = Truth(row[c[2]] # Null)
      BY <1>3, EvalAtoms
    <3>2. Truth(row[c[2]] # Null) = Truth((row[c[2]] = Null) # neg)
      BY <2>1 DEF Truth
    <3>3. QED
      BY <2>1, <3>1, <3>2
  <2>2. CASE ~neg
    <3>1. Eval(IsNull(c[2]), row) = Truth(row[c[2]] = Null)
      BY <1>3, EvalAtoms
    <3>2. Truth(row[c[2]] = Null) = Truth((row[c[2]] = Null) # neg)
      BY <2>2 DEF Truth
    <3>3. QED
      BY <2>2, <3>1, <3>2
  <2>3. QED
    BY <2>1, <2>2
<1> HIDE DEF q, x
<1>7. QED
  BY <1>1, <1>2, <1>5, <1>6 DEF Ready, Verdict, q

\* foldNot keeps the meaning.
LEMMA FoldNotReady ==
  ASSUME NEW row, NEW n \in 0..Depth, n # 0, NEW q, Ready(n - 1, q)
  PROVE  Ready(n, FoldNot(q)) /\ Verdict(FoldNot(q), row) = Not3(Verdict(q, row))
<1>1. /\ n - 1 \in 0..Depth /\ (n - 1) + 2 = n + 1 /\ n + 1 \in 0..Nesting
      /\ n + 2 \in 0..Nesting /\ n + 2 # 0 /\ (n + 2) - 1 = n + 1
  BY Reach
<1>2. q \in Levels[n - 1] /\ BuildWhere[q] \in ExprLevels[n + 1] /\ (q = True \/ Solid[BuildWhere[q]])
  BY <1>1 DEF Ready
<1>3. CASE q = False
  <2>1. FoldNot(q) = True
    BY <1>3 DEF FoldNot
  <2>2. QED
    BY <1>1, <1>3, <2>1, ConstantsReady DEF Not3
<1>4. CASE q = True
  <2>1. FoldNot(q) = False
    BY <1>4, ConstantsReady DEF FoldNot
  <2>2. QED
    BY <1>1, <1>4, <2>1, ConstantsReady DEF Not3
<1>5. CASE q # False /\ q # True /\ q.w = "null"
  <2>1. q \in Predicates
    BY <1>1, <1>2, <1>5, CondParts
  <2>2. q.c \in ColumnRefs /\ q.neg \in BOOLEAN /\ q = NullTest(q.c, q.neg)
    BY <1>5, <2>1, PredicateParts
  <2>3. FoldNot(q) = NullTest(q.c, ~q.neg) /\ (~q.neg) \in BOOLEAN
    BY <1>5, <2>2 DEF FoldNot
  <2> DEFINE cell == row[q.c[2]]
  <2>4. Ready(n, NullTest(q.c, ~q.neg)) /\ Verdict(NullTest(q.c, ~q.neg), row) = Truth((cell = Null) # (~q.neg))
    BY <2>2, <2>3, NullReady
  <2>5. Verdict(NullTest(q.c, q.neg), row) = Truth((cell = Null) # q.neg)
    BY <2>2, NullReady
  <2>6. Truth((cell = Null) # (~q.neg)) = Not3(Truth((cell = Null) # q.neg))
    <3> HIDE DEF cell
    <3>1. CASE q.neg = TRUE
      BY <3>1 DEF Truth, Not3
    <3>2. CASE q.neg = FALSE
      BY <3>2 DEF Truth, Not3
    <3>3. QED
      BY <2>2, <3>1, <3>2
  <2>7. QED
    BY <2>2, <2>3, <2>4, <2>5, <2>6
<1>6. CASE q # False /\ q # True /\ q.w # "null"
  <2>1. FoldNot(q) = NotW(q)
    BY <1>6 DEF FoldNot
  <2>2. NotW(q) \in Levels[n] /\ NotW(q) \in Conditions
    BY <1>2, CondMade, CondGrow
  <2>3. BuildWhere[NotW(q)] = Not(BuildWhere[q])
    BY <2>2, BuildShapes
  <2>4. Not(BuildWhere[q]) \in ExprLevels[n + 2] /\ Not(BuildWhere[q]) \in Exprs
    BY <1>1, <1>2, ExprMade, ExprGrow
  <2>5. Solid[Not(BuildWhere[q])]
    BY <1>2, <1>6, <2>4, SolidShapes
  <2>6. Eval(Not(BuildWhere[q]), row) = Not3(Eval(BuildWhere[q], row))
    BY <2>4, EvalSteps
  <2>7. QED
    BY <2>1, <2>2, <2>3, <2>4, <2>5, <2>6 DEF Ready, Verdict
<1>7. QED
  BY <1>3, <1>4, <1>5, <1>6

\* The verdicts on the members of a list of trees.
VerdictsOn(xs, row) == {Verdict(xs[i], row) : i \in DOMAIN xs}

LEMMA VerdictsOnSome ==
  ASSUME NEW row, NEW xs, NEW v
  PROVE  v \in VerdictsOn(xs, row) <=> \E y : Some(xs, y) /\ v = Verdict(y, row)
BY DEF VerdictsOn, Some

\* The lists of trees that are left: those of more than one member become a join.
LEMMA JoinReady ==
  ASSUME NEW row, NEW n \in 0..Depth, n # 0, NEW keep \in Seq(Levels[n - 1]), keep # <<>>,
         \A y : Some(keep, y) => Ready(n - 1, y) /\ y # True
  PROVE  /\ Ready(n, AndW(keep)) /\ Verdict(AndW(keep), row) = And3(VerdictsOn(keep, row))
         /\ Ready(n, OrW(keep)) /\ Verdict(OrW(keep), row) = Or3(VerdictsOn(keep, row))
         /\ Len(keep) = 1 => /\ Ready(n, keep[1])
                             /\ Verdict(keep[1], row) = And3(VerdictsOn(keep, row))
                             /\ Verdict(keep[1], row) = Or3(VerdictsOn(keep, row))
<1> DEFINE cs == [i \in DOMAIN keep |-> BuildWhere[keep[i]]]
           S == ExprLevels[n + 1]
<1>1. /\ n - 1 \in 0..Depth /\ (n - 1) + 2 = n + 1 /\ n + 1 \in 0..Nesting
      /\ n + 2 \in 0..Nesting /\ n + 2 # 0 /\ (n + 2) - 1 = n + 1
  BY Reach
<1>2. ASSUME NEW i \in DOMAIN keep PROVE keep[i] \in Levels[n - 1] /\ BuildWhere[keep[i]] \in S /\ Solid[BuildWhere[keep[i]]]
  <2>1. Ready(n - 1, keep[i]) /\ keep[i] # True
    BY DEF Some
  <2>2. QED
    BY <1>1, <2>1 DEF Ready
<1>3. DOMAIN keep = 1..Len(keep) /\ Len(keep) \in Nat /\ Len(keep) # 0
  OBVIOUS
<1>4. cs \in Seq(S) /\ DOMAIN cs = DOMAIN keep /\ Len(cs) = Len(keep) /\ cs # <<>>
  <2>1. \A i \in 1..Len(keep) : BuildWhere[keep[i]] \in S
    BY <1>2, <1>3
  <2> HIDE DEF S
  <2>2. cs \in [1..Len(keep) -> S]
    BY <1>3, <2>1
  <2> HIDE DEF cs
  <2>3. cs \in Seq(S) /\ Len(cs) = Len(keep) /\ DOMAIN cs = 1..Len(keep)
    BY <1>3, <2>2
  <2>4. QED
    BY <1>3, <2>3
<1>5. \A i \in DOMAIN cs : cs[i] = BuildWhere[keep[i]] /\ Solid[cs[i]]
  BY <1>2
<1>6. AndW(keep) \in Levels[n] /\ OrW(keep) \in Levels[n] /\ AndW(keep) \in Conditions /\ OrW(keep) \in Conditions
  BY CondMade, CondGrow
<1>7. BuildWhere[AndW(keep)] = And(cs) /\ BuildWhere[OrW(keep)] = Or(cs)
  BY <1>6, BuildShapes
<1> HIDE DEF cs
<1>8. And(cs) \in ExprLevels[n + 2] /\ Or(cs) \in ExprLevels[n + 2] /\ And(cs) \in Exprs /\ Or(cs) \in Exprs
  BY <1>1, <1>4, ExprMade, ExprGrow
<1>9. Solid[And(cs)] /\ Solid[Or(cs)]
  BY <1>4, <1>5, <1>8, SolidShapes
<1>10. {Eval(cs[i], row) : i \in DOMAIN cs} = VerdictsOn(keep, row)
  BY <1>4, <1>5 DEF VerdictsOn, Verdict
<1>11. Eval(And(cs), row) = And3(VerdictsOn(keep, row)) /\ Eval(Or(cs), row) = Or3(VerdictsOn(keep, row))
  BY <1>8, <1>10, EvalSteps
<1>12. /\ Ready(n, AndW(keep)) /\ Verdict(AndW(keep), row) = And3(VerdictsOn(keep, row))
       /\ Ready(n, OrW(keep)) /\ Verdict(OrW(keep), row) = Or3(VerdictsOn(keep, row))
  BY <1>6, <1>7, <1>8, <1>9, <1>11 DEF Ready, Verdict
<1>13. ASSUME Len(keep) = 1
       PROVE  /\ Ready(n, keep[1])
              /\ Verdict(keep[1], row) = And3(VerdictsOn(keep, row))
              /\ Verdict(keep[1], row) = Or3(VerdictsOn(keep, row))
  <2>1. DOMAIN keep = {1}
    BY <1>3, <1>13
  <2>2. keep[1] \in Levels[n - 1] /\ BuildWhere[keep[1]] \in S /\ Solid[BuildWhere[keep[1]]]
    BY <1>2, <2>1
  <2>3. Levels[n - 1] \subseteq Levels[n] /\ S \subseteq ExprLevels[n + 2] /\ S \subseteq Exprs
    BY <1>1, CondGrow, ExprGrow
  <2>4. Ready(n, keep[1])
    BY <2>2, <2>3 DEF Ready
  <2>5. Verdict(keep[1], row) \in Three
    BY <2>2, <2>3, EvalSteps DEF Verdict
  <2>6. VerdictsOn(keep, row) = {Verdict(keep[1], row)}
    BY <2>1 DEF VerdictsOn
  <2>7. QED
    BY <2>4, <2>5, <2>6 DEF And3, Or3, Three
<1>14. QED
  BY <1>12, <1>13

\* foldAnd keeps the meaning.
LEMMA FoldAndReady ==
  ASSUME NEW row, NEW n \in 0..Depth, n # 0, NEW xs \in Seq(Levels[n - 1]),
         \A i \in DOMAIN xs : Ready(n - 1, xs[i])
  PROVE  Ready(n, FoldAnd(xs)) /\ Verdict(FoldAnd(xs), row) = And3(VerdictsOn(xs, row))
<1> DEFINE keep == Without(xs, True)
<1>1. \A y : Some(xs, y) => Ready(n - 1, y)
  BY DEF Some
<1>2. /\ keep \in Seq(Levels[n - 1])
      /\ \A y : Some(keep, y) <=> Some(xs, y) /\ y # True
  BY WithoutKeeps
<1>3. FoldAnd(xs) = IF Some(xs, False) THEN False
                  ELSE IF keep = <<>> THEN True
                  ELSE IF Len(keep) = 1 THEN keep[1] ELSE AndW(keep)
  BY DEF FoldAnd
<1> HIDE DEF keep
<1>4. VerdictsOn(keep, row) \subseteq VerdictsOn(xs, row)
  BY <1>2, VerdictsOnSome
<1>5. VerdictsOn(xs, row) \ {"true"} \subseteq VerdictsOn(keep, row)
  <2>1. SUFFICES ASSUME NEW v \in VerdictsOn(xs, row), v # "true" PROVE v \in VerdictsOn(keep, row)
    OBVIOUS
  <2>2. PICK y : Some(xs, y) /\ v = Verdict(y, row)
    BY VerdictsOnSome
  <2>3. y # True
    BY <2>1, <2>2, ConstantsReady
  <2>4. QED
    BY <1>2, <2>2, <2>3, VerdictsOnSome
<1>6. And3(VerdictsOn(xs, row)) = And3(VerdictsOn(keep, row))
  BY <1>4, <1>5, Dropped
<1>7. CASE Some(xs, False)
  <2>1. "false" \in VerdictsOn(xs, row)
    BY <1>7, VerdictsOnSome, ConstantsReady
  <2>2. And3(VerdictsOn(xs, row)) = "false"
    BY <2>1 DEF And3
  <2>3. QED
    BY <1>3, <1>7, <2>2, ConstantsReady
<1>8. CASE ~Some(xs, False) /\ keep = <<>>
  <2>1. VerdictsOn(keep, row) = {}
    BY <1>8 DEF VerdictsOn
  <2>2. And3({}) = "true"
    BY DEF And3
  <2>3. QED
    BY <1>3, <1>6, <1>8, <2>1, <2>2, ConstantsReady
<1>9. CASE ~Some(xs, False) /\ keep # <<>>
  <2>1. \A y : Some(keep, y) => Ready(n - 1, y) /\ y # True
    BY <1>1, <1>2, <1>9
  <2>2. CASE Len(keep) = 1
    BY <1>2, <1>3, <1>6, <1>9, <2>1, <2>2, JoinReady
  <2>3. CASE Len(keep) # 1
    BY <1>2, <1>3, <1>6, <1>9, <2>1, <2>3, JoinReady
  <2>4. QED
    BY <2>2, <2>3
<1>10. QED
  BY <1>7, <1>8, <1>9

\* foldOr keeps the meaning.
LEMMA FoldOrReady ==
  ASSUME NEW row, NEW n \in 0..Depth, n # 0, NEW xs \in Seq(Levels[n - 1]),
         \A i \in DOMAIN xs : Ready(n - 1, xs[i])
  PROVE  Ready(n, FoldOr(xs)) /\ Verdict(FoldOr(xs), row) = Or3(VerdictsOn(xs, row))
<1> DEFINE keep == Without(xs, False)
<1>1. \A y : Some(xs, y) => Ready(n - 1, y)
  BY DEF Some
<1>2. /\ keep \in Seq(Levels[n - 1])
      /\ \A y : Some(keep, y) <=> Some(xs, y) /\ y # False
  BY WithoutKeeps
<1>3. FoldOr(xs) = IF Some(xs, True) THEN True
                  ELSE IF keep = <<>> THEN False
                  ELSE IF Len(keep) = 1 THEN keep[1] ELSE OrW(keep)
  BY DEF FoldOr
<1> HIDE DEF keep
<1>4. VerdictsOn(keep, row) \subseteq VerdictsOn(xs, row)
  BY <1>2, VerdictsOnSome
<1>5. VerdictsOn(xs, row) \ {"false"} \subseteq VerdictsOn(keep, row)
  <2>1. SUFFICES ASSUME NEW v \in VerdictsOn(xs, row), v # "false" PROVE v \in VerdictsOn(keep, row)
    OBVIOUS
  <2>2. PICK y : Some(xs, y) /\ v = Verdict(y, row)
    BY VerdictsOnSome
  <2>3. y # False
    BY <2>1, <2>2, ConstantsReady
  <2>4. QED
    BY <1>2, <2>2, <2>3, VerdictsOnSome
<1>6. Or3(VerdictsOn(xs, row)) = Or3(VerdictsOn(keep, row))
  BY <1>4, <1>5, Dropped
<1>7. CASE Some(xs, True)
  <2>1. "true" \in VerdictsOn(xs, row)
    BY <1>7, VerdictsOnSome, ConstantsReady
  <2>2. Or3(VerdictsOn(xs, row)) = "true"
    BY <2>1 DEF Or3
  <2>3. QED
    BY <1>3, <1>7, <2>2, ConstantsReady
<1>8. CASE ~Some(xs, True) /\ keep = <<>>
  <2>1. VerdictsOn(keep, row) = {}
    BY <1>8 DEF VerdictsOn
  <2>2. Or3({}) = "false"
    BY DEF Or3
  <2>3. QED
    BY <1>3, <1>6, <1>8, <2>1, <2>2, ConstantsReady
<1>9. CASE ~Some(xs, True) /\ keep # <<>>
  <2>1. \A y : Some(keep, y) => Ready(n - 1, y) /\ y # True
    BY <1>1, <1>2, <1>9
  <2>2. CASE Len(keep) = 1
    BY <1>2, <1>3, <1>6, <1>9, <2>1, <2>2, JoinReady
  <2>3. CASE Len(keep) # 1
    BY <1>2, <1>3, <1>6, <1>9, <2>1, <2>3, JoinReady
  <2>4. QED
    BY <2>2, <2>3
<1>10. QED
  BY <1>7, <1>8, <1>9

(***************************************************************************)
(* A predicate on its way through the translation.                         *)
(***************************************************************************)
\* The tree that Plan is left with.
Final(p) == Fold[StripWhere[Parse[p]]]

\* What the translation of a condition of n levels comes to.
Follows(n, p, row) ==
  /\ Parse[p] \in Levels[n] /\ StripWhere[Parse[p]] \in Levels[n]
  /\ Ready(n, Final(p))
  /\ ~HoldsNull[p] => Verdict(Final(p), row) = Sql(p, row)
  /\ ~NegatesNull[p] => (Verdict(Final(p), row) = "true" <=> Sql(p, row) = "true")

\* SQL's verdicts are among the three.
LEMMA SqlThree ==
  ASSUME NEW row, NEW p \in Conditions
  PROVE  Sql(p, row) \in Three /\ Sql(p, row) = SqlStep(Meanings(row), p, row)
<1>1. Sql(p, row) = SqlStep(Meanings(row), p, row)
  BY SqlIs, SqlSteps
<1>2. /\ p.w \in {"true", "false", "const", "column", "compare", "in", "between", "null", "not", "and", "or"}
      /\ p.w \notin {"not", "and", "or"} => p \in Predicates
  BY CondParts, WhereAssumption DEF Conditions
<1>3. \A op, a, b : Test(op, a, b) \in Three
  BY Kleene DEF Test, Three
<1>4. \A neg : \A v \in Three : Turned(v, neg) \in Three
  BY Kleene DEF Turned
<1>5. p.w = "const" => p.v \in Three
  BY <1>2, PredicateParts
<1> DEFINE f == Meanings(row)
<1> HIDE DEF f
<1>6. SqlStep(f, p, row) \in Three
  <2>1. CASE p.w \in {"true", "false", "const"}
    BY <1>5, <2>1 DEF SqlStep, Three
  <2>2. CASE p.w \in {"column", "compare"}
    BY <1>3, <2>2 DEF SqlStep
  <2>3. CASE p.w = "in"
    <3>1. (IF row[p.c[2]] = Null THEN "unknown" ELSE Or3({Test("=", row[p.c[2]], v) : v \in p.vs})) \in Three
      BY Kleene DEF Three
    <3>2. QED
      BY <1>4, <2>3, <3>1 DEF SqlStep
  <2>4. CASE p.w = "between"
    <3>1. And3({Test(">=", row[p.c[2]], p.lo), Test("<=", row[p.c[2]], p.hi)}) \in Three
      BY Kleene
    <3>2. QED
      BY <1>4, <2>4, <3>1 DEF SqlStep
  <2>5. CASE p.w \in {"null", "not", "and", "or"}
    BY <2>5, Kleene DEF SqlStep
  <2>6. QED
    BY <1>2, <2>1, <2>2, <2>3, <2>4, <2>5
<1>7. QED
  BY <1>1, <1>6 DEF f

\* A predicate that Parse leaves alone is stripped, and that is all.
LEMMA StripLeaf ==
  ASSUME NEW n \in 0..Depth, NEW q \in Predicates
  PROVE  /\ q.w \in {"true", "false"} => StripWhere[q] = q
         /\ q.w \notin {"true", "false", "const"} => StripWhere[q] = [q EXCEPT !.c = <<Bare, q.c[2]>>]
         /\ Fold[q] = q
<1>1. q \in Conditions
  BY CondMade, CondGrow
<1>2. q.w \notin {"not", "and", "or"}
  BY DEF Predicates
<1>3. StripWhere[q] = StripStep(StripWhere, q) /\ Fold[q] = FoldStepOf(Fold, q)
  BY <1>1, StripSteps, FoldSteps
<1>4. Fold[q] = q
  BY <1>2, <1>3 DEF FoldStepOf
<1>5. q.w \in {"true", "false"} => StripWhere[q] = q
  BY <1>3 DEF StripStep
<1>6. q.w \notin {"true", "false", "const"} => StripWhere[q] = [q EXCEPT !.c = <<Bare, q.c[2]>>]
  BY <1>2, <1>3 DEF StripStep
<1>7. QED
  BY <1>4, <1>5, <1>6

\* The predicates that NULL or a constant decides.
LEMMA ConstantLeaf ==
  ASSUME NEW row, NEW n \in 0..Depth, NEW p \in Predicates, Parse[p] \in {True, False}
  PROVE  /\ Parse[p] \in Levels[n] /\ StripWhere[Parse[p]] \in Levels[n]
         /\ Final(p) = Parse[p] /\ Ready(n, Final(p))
         /\ Parse[p] = True => Verdict(Final(p), row) = "true"
         /\ Parse[p] = False => Verdict(Final(p), row) = "false"
<1>1. True \in Predicates /\ False \in Predicates /\ True.w = "true" /\ False.w = "false"
  BY DEF Predicates, True, False
<1>2. True \in Levels[n] /\ False \in Levels[n]
  BY <1>1, CondMade
<1>3. StripWhere[Parse[p]] = Parse[p] /\ Fold[Parse[p]] = Parse[p]
  BY <1>1, StripLeaf
<1>4. QED
  BY <1>2, <1>3, ConstantsReady DEF Final

\* A surviving predicate: q is what is left of p, x what buildWhere makes of it.
LEMMA LeafFollows ==
  ASSUME NEW row, NEW n \in 0..Depth, NEW p, NEW r \in Predicates, NEW q \in Predicates, NEW x,
         Parse[p] = r, StripWhere[r] = q, BuildWhere[q] = x,
         x \in ExprLevels[n + 2], Solid[x],
         ~HoldsNull[p] => Eval(x, row) = Sql(p, row),
         ~NegatesNull[p] => (Eval(x, row) = "true" <=> Sql(p, row) = "true")
  PROVE  Follows(n, p, row)
<1>1. r \in Levels[n] /\ q \in Levels[n]
  BY CondMade
<1>2. Final(p) = q
  BY StripLeaf DEF Final
<1>3. Ready(n, q) /\ Verdict(q, row) = Eval(x, row)
  BY <1>1 DEF Ready, Verdict
<1>4. QED
  BY <1>1, <1>2, <1>3 DEF Follows

\* The expressions that a predicate lowers to.
LEMMA LoweredShapes ==
  ASSUME NEW row, NEW n \in 0..Depth, NEW x \in Atoms, x # Nil, NEW neg \in BOOLEAN
  PROVE  /\ Lowered(x, neg) \in ExprLevels[n + 2] /\ Solid[Lowered(x, neg)]
         /\ Eval(Lowered(x, neg), row) = Turned(Eval(x, row), neg)
<1>1. n + 2 \in 0..Nesting /\ n + 2 # 0 /\ (n + 2) - 1 \in 0..Nesting
  BY Reach
<1>2. x \in ExprLevels[n + 2] /\ x \in ExprLevels[(n + 2) - 1] /\ Solid[x]
  BY <1>1, ExprMade, SolidAtoms
<1>3. Not(x) \in ExprLevels[n + 2] /\ Not(x) \in Exprs
  BY <1>1, <1>2, ExprMade, ExprGrow
<1>4. Solid[Not(x)] /\ Eval(Not(x), row) = Not3(Eval(x, row))
  BY <1>2, <1>3, SolidShapes, EvalSteps
<1>5. QED
  BY <1>2, <1>3, <1>4 DEF Lowered, Turned

LEMMA BetweenShapes ==
  ASSUME NEW row, NEW n \in 0..Depth, NEW a \in Atoms, a # Nil, NEW b \in Atoms, b # Nil, NEW neg \in BOOLEAN
  PROVE  /\ Lowered(And(<<a, b>>), neg) \in ExprLevels[n + 2] /\ Solid[Lowered(And(<<a, b>>), neg)]
         /\ Eval(Lowered(And(<<a, b>>), neg), row) = Turned(And3({Eval(a, row), Eval(b, row)}), neg)
<1> DEFINE cs == <<a, b>>
<1>1. n + 2 \in 0..Nesting /\ n + 2 # 0 /\ (n + 2) - 1 = n + 1 /\ n + 1 \in 0..Nesting /\ n + 1 # 0 /\ (n + 1) - 1 = n
      /\ n \in 0..Nesting
  BY WhereAssumption, NestingAssumption
<1>2. a \in ExprLevels[n] /\ b \in ExprLevels[n] /\ Solid[a] /\ Solid[b]
  BY <1>1, ExprMade, SolidAtoms
<1>3. cs \in Seq(ExprLevels[n]) /\ cs # <<>> /\ DOMAIN cs = {1, 2} /\ cs[1] = a /\ cs[2] = b
  <2>1. cs \in Seq(ExprLevels[n])
    <3> DEFINE S == ExprLevels[n]
    <3>1. a \in S /\ b \in S
      BY <1>2
    <3> HIDE DEF S
    <3>2. <<a, b>> \in Seq(S)
      BY <3>1
    <3>3. QED
      BY <3>2 DEF S
  <2>2. cs[1] = a /\ cs[2] = b /\ Len(cs) = 2
    OBVIOUS
  <2>3. DOMAIN cs = 1..2 /\ 1..2 = {1, 2}
    BY <2>1, <2>2
  <2>4. QED
    BY <2>1, <2>2, <2>3
<1> HIDE DEF cs
<1>4. And(cs) \in ExprLevels[n + 1] /\ And(cs) \in ExprLevels[n + 2] /\ And(cs) \in Exprs
  <2>1. And(cs) \in ExprLevels[n + 1]
    BY <1>1, <1>3, ExprMade
  <2>2. QED
    BY <1>1, <2>1, ExprGrow
<1>5. Not(And(cs)) \in ExprLevels[n + 2] /\ Not(And(cs)) \in Exprs
  BY <1>1, <1>4, ExprMade, ExprGrow
<1>6. Solid[And(cs)]
  BY <1>2, <1>3, <1>4, SolidShapes
<1>7. Solid[Not(And(cs))]
  BY <1>5, <1>6, SolidShapes
<1>8. {Eval(cs[i], row) : i \in DOMAIN cs} = {Eval(a, row), Eval(b, row)}
  BY <1>3
<1>9. Eval(And(cs), row) = And3({Eval(a, row), Eval(b, row)})
  BY <1>4, <1>8, EvalSteps
<1>10. Eval(Not(And(cs)), row) = Not3(Eval(And(cs), row))
  BY <1>5, EvalSteps
<1>11. QED
  BY <1>4, <1>5, <1>6, <1>7, <1>9, <1>10 DEF Lowered, Turned, cs

\* The comparisons.
LEMMA CompareEval ==
  ASSUME NEW row, NEW op \in Operators, NEW f \in Names, NEW v \in Values
  PROVE  /\ Compare(op, f, v) \in Atoms /\ Compare(op, f, v) # Nil
         /\ v # Null => Eval(Compare(op, f, v), row) = Test(op, row[f], v)
<1>1. Compare(op, f, v) \in Atoms
  BY DEF Compare, Atoms
<1>2. Compare(op, f, v) # Nil
  BY DEF Compare, Nil
<1>3. Eval(Compare(op, f, v), row) = IF row[f] = Null THEN "unknown" ELSE Truth(Holds(op, row[f], v))
  BY EvalAtoms
<1>4. QED
  BY <1>1, <1>2, <1>3 DEF Test

\* A comparison turned around.
LEMMA Flipped ==
  ASSUME NEW op \in Operators, NEW a, NEW b
  PROVE  FlipComparison(op) \in Operators /\ Test(FlipComparison(op), a, b) = Test(op, b, a)
<1>1. FlipComparison(op) \in Operators
  BY DEF FlipComparison, Operators
<1>2. CASE op = "="
  <2>1. FlipComparison(op) = "="
    BY <1>2 DEF FlipComparison
  <2>2. Holds("=", a, b) = Holds("=", b, a)
    BY DEF Holds
  <2>3. QED
    BY <1>1, <1>2, <2>1, <2>2 DEF Test
<1>3. CASE op = "<>"
  <2>1. FlipComparison(op) = "<>"
    BY <1>3 DEF FlipComparison
  <2>2. Holds("<>", a, b) = Holds("<>", b, a)
    BY DEF Holds
  <2>3. QED
    BY <1>1, <1>3, <2>1, <2>2 DEF Test
<1>4. CASE op = "<"
  <2>1. FlipComparison(op) = ">" /\ Holds(">", a, b) = Holds("<", b, a)
    BY <1>4 DEF FlipComparison, Holds
  <2>2. QED
    BY <1>1, <1>4, <2>1 DEF Test
<1>5. CASE op = ">"
  <2>1. FlipComparison(op) = "<" /\ Holds("<", a, b) = Holds(">", b, a)
    BY <1>5 DEF FlipComparison, Holds
  <2>2. QED
    BY <1>1, <1>5, <2>1 DEF Test
<1>6. CASE op = "<="
  <2>1. FlipComparison(op) = ">=" /\ Holds(">=", a, b) = Holds("<=", b, a)
    BY <1>6 DEF FlipComparison, Holds
  <2>2. QED
    BY <1>1, <1>6, <2>1 DEF Test
<1>7. CASE op = ">="
  <2>1. FlipComparison(op) = "<=" /\ Holds("<=", a, b) = Holds(">=", b, a)
    BY <1>7 DEF FlipComparison, Holds
  <2>2. QED
    BY <1>1, <1>7, <2>1 DEF Test
<1>8. QED
  BY <1>2, <1>3, <1>4, <1>5, <1>6, <1>7 DEF Operators

\* What the functions make of a predicate.
LEMMA PredicateSteps ==
  ASSUME NEW row, NEW p \in Predicates
  PROVE  /\ p \in Conditions
         /\ Parse[p] = ParseStepOf(Parse, p)
         /\ HoldsNull[p] = HoldsNullStep(HoldsNull, p)
         /\ NegatesNull[p] = NegatesNullStep(NegatesNull, p)
         /\ BuildWhere[p] = BuildStepOf(BuildWhere, p)
         /\ Sql(p, row) = SqlStep(Meanings(row), p, row) /\ Sql(p, row) \in Three
<1>1. p \in Conditions
  BY CondMade, WhereAssumption DEF Conditions
<1>2. QED
  BY <1>1, ParseSteps, HoldsNullSteps, NegatesNullSteps, BuildSteps, SqlThree

\* A reference stripped of its qualifier.
LEMMA Stripped ==
  ASSUME NEW c \in ColumnRefs
  PROVE  <<Bare, c[2]>> \in ColumnRefs /\ <<Bare, c[2]>>[2] = c[2] /\ c[2] \in Names
BY WhereAssumption DEF ColumnRefs

\* TRUE, FALSE and NULL by themselves, and what is true or false already.
LEMMA ConstFollows ==
  ASSUME NEW row, NEW n \in 0..Depth, NEW p \in Predicates, p.w \in {"true", "false", "const"}
  PROVE  Follows(n, p, row)
<1>1. CASE p.w = "true"
  <2>1. Parse[p] = True /\ Sql(p, row) = "true"
    BY <1>1, PredicateSteps, PredicateParts DEF ParseStepOf, SqlStep
  <2>2. QED
    BY <2>1, ConstantLeaf DEF Follows
<1>2. CASE p.w = "false"
  <2>1. Parse[p] = False /\ Sql(p, row) = "false"
    BY <1>2, PredicateSteps, PredicateParts DEF ParseStepOf, SqlStep
  <2>2. True # False
    BY ConstantsReady
  <2>3. QED
    BY <2>1, <2>2, ConstantLeaf DEF Follows
<1>3. CASE p.w = "const"
  <2>1. p.v \in Three /\ Sql(p, row) = p.v
    BY <1>3, PredicateSteps, PredicateParts DEF SqlStep
  <2>2. Parse[p] = IF p.v = "true" THEN True ELSE False
    BY <1>3, PredicateSteps DEF ParseStepOf, BarePredicate
  <2>3. HoldsNull[p] = (p.v = "unknown")
    BY <1>3, PredicateSteps DEF HoldsNullStep
  <2>4. True # False
    BY ConstantsReady
  <2>5. CASE p.v = "true"
    BY <2>1, <2>2, <2>4, <2>5, ConstantLeaf DEF Follows
  <2>6. CASE p.v # "true"
    <3>1. Parse[p] = False
      BY <2>2, <2>6
    <3>2. Verdict(Final(p), row) = "false"
      BY <3>1, ConstantLeaf
    <3>3. ~HoldsNull[p] => p.v = "false"
      BY <2>1, <2>3, <2>6 DEF Three
    <3>4. QED
      BY <2>1, <2>6, <3>1, <3>2, <3>3, ConstantLeaf DEF Follows
  <2>7. QED
    BY <2>5, <2>6
<1>4. QED
  BY <1>1, <1>2, <1>3

\* A boolean column, and a null test.
LEMMA ColumnFollows ==
  ASSUME NEW row, NEW n \in 0..Depth, NEW p \in Predicates, p.w = "column"
  PROVE  Follows(n, p, row)
<1> DEFINE f == p.c[2]
           q == Column(<<Bare, f>>)
           x == Compare("=", f, Yes)
<1>1. p.c \in ColumnRefs /\ p = Column(p.c)
  BY PredicateParts
<1>2. <<Bare, f>> \in ColumnRefs /\ <<Bare, f>>[2] = f /\ f \in Names
  BY <1>1, Stripped
<1>3. Parse[p] = p
  BY PredicateSteps DEF ParseStepOf, BarePredicate
<1>4. q \in Predicates /\ StripWhere[p] = q
  <2>1. q \in Predicates
    BY <1>2, PredicatesMade
  <2>2. StripWhere[p] = [p EXCEPT !.c = <<Bare, f>>]
    BY StripLeaf
  <2>3. [Column(p.c) EXCEPT !.c = <<Bare, f>>] = Column(<<Bare, f>>)
    BY DEF Column
  <2>4. QED
    BY <1>1, <2>1, <2>2, <2>3
<1>5. BuildWhere[q] = x
  <2>1. q.w = "column" /\ q.c[2] = f
    BY <1>2 DEF Column
  <2>2. BuildStepOf(BuildWhere, q) = x
    <3> HIDE DEF q
    <3>1. QED
      BY <2>1 DEF BuildStepOf
  <2>3. QED
    BY <1>4, <2>2, PredicateSteps
<1>6. x \in Atoms /\ x # Nil /\ Eval(x, row) = Test("=", row[f], Yes)
  <2>1. "=" \in Operators
    BY DEF Operators
  <2>2. QED
    BY <1>2, <2>1, CompareEval, WhereAssumption
<1>7. Sql(p, row) = Test("=", row[f], Yes)
  BY PredicateSteps DEF SqlStep
<1>8. x \in ExprLevels[n + 2] /\ Solid[x]
  BY <1>6, Reach, ExprMade, SolidAtoms
<1> HIDE DEF q, x, f
<1>9. QED
  BY <1>3, <1>4, <1>5, <1>6, <1>7, <1>8, LeafFollows

LEMMA NullFollows ==
  ASSUME NEW row, NEW n \in 0..Depth, NEW p \in Predicates, p.w = "null"
  PROVE  Follows(n, p, row)
<1> DEFINE f == p.c[2]
           q == NullTest(<<Bare, f>>, p.neg)
<1>1. p.c \in ColumnRefs /\ p.neg \in BOOLEAN /\ p = NullTest(p.c, p.neg)
  BY PredicateParts
<1>2. <<Bare, f>> \in ColumnRefs /\ <<Bare, f>>[2] = f /\ f \in Names
  BY <1>1, Stripped
<1>3. Parse[p] = p
  BY PredicateSteps DEF ParseStepOf
<1>4. q \in Predicates /\ StripWhere[p] = q
  <2>1. q \in Predicates
    BY <1>1, <1>2, PredicatesMade
  <2>2. StripWhere[p] = [p EXCEPT !.c = <<Bare, f>>]
    BY StripLeaf
  <2>3. [NullTest(p.c, p.neg) EXCEPT !.c = <<Bare, f>>] = NullTest(<<Bare, f>>, p.neg)
    BY DEF NullTest
  <2>4. QED
    BY <1>1, <2>1, <2>2, <2>3
<1>5. Ready(n, q) /\ Verdict(q, row) = Truth((row[f] = Null) # p.neg)
  BY <1>1, <1>2, NullReady
<1>6. Sql(p, row) = Truth((row[f] = Null) # p.neg)
  BY PredicateSteps DEF SqlStep
<1> HIDE DEF q, f
<1>7. p \in Levels[n] /\ q \in Levels[n] /\ Final(p) = q
  BY <1>3, <1>4, CondMade, StripLeaf DEF Final
<1>8. QED
  BY <1>3, <1>4, <1>5, <1>6, <1>7 DEF Follows

\* A comparison: NULL decides it, or the flipped operator stands for it.
LEMMA CompareFollows ==
  ASSUME NEW row, NEW n \in 0..Depth, NEW p \in Predicates, p.w = "compare"
  PROVE  Follows(n, p, row)
<1> DEFINE f == p.c[2]
           op == IF p.flipped THEN FlipComparison(p.op) ELSE p.op
           r == ColumnOp(p.c, op, p.v)
           q == ColumnOp(<<Bare, f>>, op, p.v)
           x == Compare(op, f, p.v)
<1>1. p.c \in ColumnRefs /\ p.op \in Operators /\ p.v \in Literals /\ p.flipped \in BOOLEAN
  BY PredicateParts
<1>2. <<Bare, f>> \in ColumnRefs /\ <<Bare, f>>[2] = f /\ f \in Names
  BY <1>1, Stripped
<1>3. Parse[p] = IF p.v = Null THEN False ELSE r
  BY PredicateSteps DEF ParseStepOf, CombineComparison
<1>4. Sql(p, row) = IF p.flipped THEN Test(p.op, p.v, row[f]) ELSE Test(p.op, row[f], p.v)
  BY PredicateSteps DEF SqlStep
<1>5. HoldsNull[p] = (p.v = Null)
  BY PredicateSteps DEF HoldsNullStep
<1>6. CASE p.v = Null
  <2>1. Sql(p, row) = "unknown"
    BY <1>4, <1>6 DEF Test
  <2>2. True # False
    BY ConstantsReady
  <2>3. QED
    BY <1>3, <1>5, <1>6, <2>1, <2>2, ConstantLeaf DEF Follows
<1>7. CASE p.v # Null
  <2>1. op \in Operators /\ Sql(p, row) = Test(op, row[f], p.v)
    BY <1>1, <1>4, Flipped
  <2>2. p.v \in Values
    BY <1>1, <1>7, WhereAssumption
  <2> HIDE DEF op
  <2>3. r \in Predicates /\ q \in Predicates
    BY <1>1, <1>2, <2>1, PredicatesMade
  <2>4. StripWhere[r] = q
    <3>1. r.w = "compare" /\ r.c = p.c
      BY DEF ColumnOp
    <3>2. StripWhere[r] = [r EXCEPT !.c = <<Bare, f>>]
      BY <2>3, <3>1, StripLeaf
    <3>3. [ColumnOp(p.c, op, p.v) EXCEPT !.c = <<Bare, f>>] = ColumnOp(<<Bare, f>>, op, p.v)
      <4> DEFINE z == FALSE
                 d == <<Bare, f>>
                 c == p.c
                 v == p.v
      <4>1. /\ ColumnOp(c, op, v) = [w |-> "compare", c |-> c, op |-> op, v |-> v, flipped |-> z]
            /\ ColumnOp(d, op, v) = [w |-> "compare", c |-> d, op |-> op, v |-> v, flipped |-> z]
        BY DEF ColumnOp
      <4> HIDE DEF z, d, c, v
      <4>2. [ColumnOp(c, op, v) EXCEPT !.c = d] = ColumnOp(d, op, v)
        BY <4>1
      <4>3. QED
        BY <4>2 DEF d, c, v
    <3>4. QED
      BY <3>2, <3>3
  <2>5. BuildWhere[q] = x
    <3>1. q.w = "compare" /\ q.c[2] = f /\ q.op = op /\ q.v = p.v
      BY <1>2 DEF ColumnOp
    <3>2. BuildStepOf(BuildWhere, q) = x
      <4> HIDE DEF q
      <4>1. QED
        BY <3>1 DEF BuildStepOf
    <3>3. QED
      BY <2>3, <3>2, PredicateSteps
  <2>6. x \in Atoms /\ x # Nil /\ Eval(x, row) = Test(op, row[f], p.v)
    BY <1>2, <1>7, <2>1, <2>2, CompareEval
  <2>7. x \in ExprLevels[n + 2] /\ Solid[x]
    BY <2>6, Reach, ExprMade, SolidAtoms
  <2> HIDE DEF q, r, x, f
  <2>8. Parse[p] = r
    BY <1>3, <1>7
  <2>9. Eval(x, row) = Sql(p, row)
    BY <2>1, <2>6
  <2>10. QED
    BY <2>3, <2>4, <2>5, <2>7, <2>8, <2>9, LeafFollows
<1>8. QED
  BY <1>6, <1>7

\* IN: a NULL member adds nothing, and empties NOT IN.
LEMMA InFollows ==
  ASSUME NEW row, NEW n \in 0..Depth, NEW p \in Predicates, p.w = "in"
  PROVE  Follows(n, p, row)
<1> DEFINE f == p.c[2]
           cell == row[f]
           vs == p.vs \ {Null}
           r == In(p.c, vs, p.neg)
           q == In(<<Bare, f>>, vs, p.neg)
           x == InList(f, vs)
           tests == {Test("=", cell, v) : v \in p.vs}
           inside == IF cell = Null THEN "unknown" ELSE Or3(tests)
<1>1. p.c \in ColumnRefs /\ p.vs \in SUBSET Literals /\ p.neg \in BOOLEAN
  BY PredicateParts
<1>2. <<Bare, f>> \in ColumnRefs /\ <<Bare, f>>[2] = f /\ f \in Names
  BY <1>1, Stripped
<1>3. Parse[p] = IF p.neg /\ Null \in p.vs THEN False ELSE r
  BY PredicateSteps DEF ParseStepOf, ParseInTail
<1>4. Sql(p, row) = Turned(inside, p.neg)
  BY PredicateSteps, ZenonT(40) DEF SqlStep
<1>5. HoldsNull[p] = (Null \in p.vs) /\ inside \in Three
  BY PredicateSteps, Kleene DEF HoldsNullStep, Three
<1>6. vs \in SUBSET Values /\ vs \in SUBSET Literals
  BY <1>1, WhereAssumption
<1>7. /\ x \in Atoms /\ x # Nil
      /\ Eval(x, row) = IF cell = Null THEN "unknown" ELSE Truth(cell \in vs)
  <2>1. x \in Atoms
    BY <1>2, <1>6 DEF Atoms, InList
  <2>2. x # Nil
    BY DEF InList, Nil
  <2>3. QED
    BY <1>2, <1>6, <2>1, <2>2, EvalAtoms
<1>8. \A v \in p.vs : Test("=", cell, v) = IF cell = Null \/ v = Null THEN "unknown" ELSE Truth(cell = v)
  <2>1. \A a, b : Holds("=", a, b) = (a = b)
    BY DEF Holds
  <2>2. QED
    BY <2>1 DEF Test
<1>9. cell # Null => ("true" \in tests <=> cell \in vs)
  BY <1>8 DEF Truth
<1>10. cell # Null /\ Null \notin p.vs => tests \subseteq {"true", "false"}
  BY <1>8 DEF Truth
<1>11. inside = "true" <=> Eval(x, row) = "true"
  <2>1. CASE cell = Null
    BY <1>7, <2>1
  <2>2. CASE cell # Null
    <3>1. inside = "true" <=> "true" \in tests
      BY <2>2 DEF Or3
    <3>2. QED
      BY <1>7, <1>9, <2>2, <3>1 DEF Truth
  <2>3. QED
    BY <2>1, <2>2
<1>12. Null \notin p.vs => inside = Eval(x, row)
  <2>1. SUFFICES ASSUME Null \notin p.vs PROVE inside = Eval(x, row)
    OBVIOUS
  <2>2. CASE cell = Null
    BY <1>7, <2>2
  <2>3. CASE cell # Null
    <3>1. "unknown" \notin tests
      BY <1>10, <2>1, <2>3
    <3>2. inside = IF cell \in vs THEN "true" ELSE "false"
      BY <1>9, <2>3, <3>1 DEF Or3
    <3>3. QED
      BY <1>7, <2>3, <3>2 DEF Truth
  <2>4. QED
    BY <2>2, <2>3
<1>13. Null \in p.vs /\ cell # Null => inside # "false"
  <2>1. ASSUME Null \in p.vs, cell # Null PROVE "unknown" \in tests
    <3>1. Test("=", cell, Null) = "unknown"
      BY <1>8, <2>1
    <3>2. QED
      BY <2>1, <3>1
  <2>2. QED
    BY <2>1 DEF Or3
<1> HIDE DEF tests, inside
<1>14. CASE p.neg /\ Null \in p.vs
  <2>1. inside # "false"
    <3>1. CASE cell = Null
      BY <3>1 DEF inside
    <3>2. CASE cell # Null
      BY <1>13, <1>14, <3>2
    <3>3. QED
      BY <3>1, <3>2
  <2>2. Sql(p, row) # "true"
    BY <1>4, <1>5, <1>14, <2>1, Kleene DEF Turned
  <2>3. True # False
    BY ConstantsReady
  <2>4. QED
    BY <1>3, <1>5, <1>14, <2>2, <2>3, ConstantLeaf DEF Follows
<1>15. CASE ~(p.neg /\ Null \in p.vs)
  <2> DEFINE y == Lowered(x, p.neg)
  <2> HIDE DEF vs
  <2>1. r \in Predicates /\ q \in Predicates
    BY <1>1, <1>2, <1>6, PredicatesMade
  <2>2. StripWhere[r] = q
    <3>1. r.w = "in" /\ r.c = p.c
      BY DEF In
    <3>2. StripWhere[r] = [r EXCEPT !.c = <<Bare, f>>]
      BY <2>1, <3>1, StripLeaf
    <3>3. [In(p.c, vs, p.neg) EXCEPT !.c = <<Bare, f>>] = In(<<Bare, f>>, vs, p.neg)
      BY DEF In
    <3>4. QED
      BY <3>2, <3>3
  <2>3. BuildWhere[q] = y
    <3>1. q.w = "in" /\ q.c[2] = f /\ q.vs = vs /\ q.neg = p.neg
      BY <1>2 DEF In
    <3>2. BuildStepOf(BuildWhere, q) = y
      <4> HIDE DEF q
      <4>1. QED
        BY <3>1 DEF BuildStepOf
    <3>3. QED
      BY <2>1, <3>2, PredicateSteps
  <2> HIDE DEF x
  <2>4. y \in ExprLevels[n + 2] /\ Solid[y] /\ Eval(y, row) = Turned(Eval(x, row), p.neg)
    BY <1>1, <1>7, LoweredShapes
  <2>5. ~HoldsNull[p] => Eval(y, row) = Sql(p, row)
    BY <1>4, <1>5, <1>12, <2>4
  <2>6. Eval(y, row) = "true" <=> Sql(p, row) = "true"
    <3>1. CASE Null \notin p.vs
      BY <1>4, <1>12, <2>4, <3>1
    <3>2. CASE ~p.neg
      BY <1>4, <1>11, <2>4, <3>2 DEF Turned
    <3>3. QED
      BY <1>15, <3>1, <3>2
  <2>7. Parse[p] = r
    BY <1>3, <1>15
  <2> HIDE DEF y, q, r
  <2>8. QED
    BY <2>1, <2>2, <2>3, <2>4, <2>5, <2>6, <2>7, LeafFollows
<1>16. QED
  BY <1>14, <1>15

\* BETWEEN: a NULL bound passes nothing.
LEMMA BetweenFollows ==
  ASSUME NEW row, NEW n \in 0..Depth, NEW p \in Predicates, p.w = "between"
  PROVE  Follows(n, p, row)
<1> DEFINE f == p.c[2]
           cell == row[f]
           q == Between(<<Bare, f>>, p.lo, p.hi, p.neg)
           a == Compare(">=", f, p.lo)
           b == Compare("<=", f, p.hi)
           y == Lowered(And(<<a, b>>), p.neg)
           both == {Test(">=", cell, p.lo), Test("<=", cell, p.hi)}
<1>1. /\ p.c \in ColumnRefs /\ p.lo \in Literals /\ p.hi \in Literals /\ p.neg \in BOOLEAN
      /\ p = Between(p.c, p.lo, p.hi, p.neg)
  BY PredicateParts
<1>2. <<Bare, f>> \in ColumnRefs /\ <<Bare, f>>[2] = f /\ f \in Names
  BY <1>1, Stripped
<1>3. Parse[p] = IF Null \in {p.lo, p.hi} THEN False ELSE p
  BY PredicateSteps DEF ParseStepOf, ParseBetweenTail
<1>4. Sql(p, row) = Turned(And3(both), p.neg)
  BY PredicateSteps DEF SqlStep
<1>5. HoldsNull[p] = (Null \in {p.lo, p.hi}) /\ NegatesNull[p] = (p.neg /\ HoldsNull[p])
  BY PredicateSteps DEF HoldsNullStep, NegatesNullStep
<1>6. CASE Null \in {p.lo, p.hi}
  <2>1. "unknown" \in both
    BY <1>6 DEF Test
  <2> HIDE DEF both
  <2>2. And3(both) # "true"
    BY <2>1 DEF And3
  <2>3. ~p.neg => Sql(p, row) # "true"
    BY <1>4, <2>2 DEF Turned
  <2>4. True # False
    BY ConstantsReady
  <2>5. Parse[p] = False /\ HoldsNull[p] /\ (NegatesNull[p] \/ ~p.neg)
    BY <1>3, <1>5, <1>6
  <2>6. QED
    BY <2>3, <2>4, <2>5, ConstantLeaf DEF Follows
<1>7. CASE Null \notin {p.lo, p.hi}
  <2>1. p.lo \in Values /\ p.hi \in Values /\ p.lo # Null /\ p.hi # Null
    BY <1>1, <1>7, WhereAssumption
  <2>2. q \in Predicates
    BY <1>1, <1>2, PredicatesMade
  <2>3. StripWhere[p] = q
    <3>1. StripWhere[p] = [p EXCEPT !.c = <<Bare, f>>]
      BY StripLeaf
    <3>2. [Between(p.c, p.lo, p.hi, p.neg) EXCEPT !.c = <<Bare, f>>] = Between(<<Bare, f>>, p.lo, p.hi, p.neg)
      BY DEF Between
    <3>3. QED
      BY <1>1, <3>1, <3>2
  <2>4. BuildWhere[q] = y
    <3>1. q.w = "between" /\ q.c[2] = f /\ q.lo = p.lo /\ q.hi = p.hi /\ q.neg = p.neg
      BY <1>2 DEF Between
    <3>2. BuildStepOf(BuildWhere, q) = y
      <4> HIDE DEF q
      <4>1. QED
        BY <3>1 DEF BuildStepOf
    <3>3. QED
      BY <2>2, <3>2, PredicateSteps
  <2>5. /\ a \in Atoms /\ a # Nil /\ Eval(a, row) = Test(">=", cell, p.lo)
        /\ b \in Atoms /\ b # Nil /\ Eval(b, row) = Test("<=", cell, p.hi)
    <3>1. ">=" \in Operators /\ "<=" \in Operators
      BY DEF Operators
    <3>2. QED
      BY <1>2, <2>1, <3>1, CompareEval
  <2> HIDE DEF a, b
  <2>6. /\ y \in ExprLevels[n + 2] /\ Solid[y]
        /\ Eval(y, row) = Turned(And3({Eval(a, row), Eval(b, row)}), p.neg)
    BY <1>1, <2>5, BetweenShapes
  <2>7. Eval(y, row) = Sql(p, row)
    BY <1>4, <2>5, <2>6
  <2>8. Parse[p] = p
    BY <1>3, <1>7
  <2> HIDE DEF y, q
  <2>9. QED
    BY <2>2, <2>3, <2>4, <2>6, <2>7, <2>8, LeafFollows
<1>8. QED
  BY <1>6, <1>7

(***************************************************************************)
(* The whole condition.                                                    *)
(***************************************************************************)
LEMMA NotFollows ==
  ASSUME NEW row, NEW n \in 0..Depth, NEW p \in Levels[n], p.w = "not", Follows(n - 1, p.x, row)
  PROVE  Follows(n, p, row)
<1>1. n # 0 /\ p.x \in Levels[n - 1] /\ p = NotW(p.x) /\ p \in Conditions
  BY CondParts, CondGrow
<1>2. Parse[p] = NotW(Parse[p.x])
  BY <1>1, ParseSteps DEF ParseStepOf
<1>3. Parse[p.x] \in Levels[n - 1] /\ StripWhere[Parse[p.x]] \in Levels[n - 1] /\ Ready(n - 1, Final(p.x))
  BY DEF Follows
<1>4. Parse[p] \in Levels[n] /\ Parse[p] \in Conditions
  BY <1>1, <1>2, <1>3, CondMade, CondGrow
<1>5. StripWhere[Parse[p]] = NotW(StripWhere[Parse[p.x]])
  <2> DEFINE q == NotW(Parse[p.x])
  <2>1. q.w = "not" /\ q.x = Parse[p.x]
    BY DEF NotW
  <2> HIDE DEF q
  <2>2. StripStep(StripWhere, q) = NotW(StripWhere[Parse[p.x]])
    BY <2>1 DEF StripStep
  <2>3. QED
    BY <1>2, <1>4, <2>2, StripSteps DEF q
<1>6. StripWhere[Parse[p]] \in Levels[n] /\ StripWhere[Parse[p]] \in Conditions
  BY <1>1, <1>3, <1>5, CondMade, CondGrow
<1>7. Final(p) = FoldNot(Final(p.x))
  <2> DEFINE q == NotW(StripWhere[Parse[p.x]])
  <2>1. q.w = "not" /\ q.x = StripWhere[Parse[p.x]]
    BY DEF NotW
  <2> HIDE DEF q
  <2>2. FoldStepOf(Fold, q) = FoldNot(Final(p.x))
    BY <2>1 DEF FoldStepOf, Final
  <2>3. QED
    BY <1>5, <1>6, <2>2, FoldSteps DEF q, Final
<1>8. Ready(n, Final(p)) /\ Verdict(Final(p), row) = Not3(Verdict(Final(p.x), row))
  BY <1>1, <1>3, <1>7, FoldNotReady
<1>9. HoldsNull[p] = HoldsNull[p.x] /\ NegatesNull[p] = HoldsNull[p.x]
  BY <1>1, HoldsNullSteps, NegatesNullSteps DEF HoldsNullStep, NegatesNullStep
<1>10. Sql(p, row) = Not3(Sql(p.x, row))
  BY <1>1, SqlThree, SqlIs DEF SqlStep
<1>11. ~HoldsNull[p.x] => Verdict(Final(p.x), row) = Sql(p.x, row)
  BY DEF Follows
<1>12. QED
  BY <1>4, <1>6, <1>8, <1>9, <1>10, <1>11 DEF Follows

\* A list of trees that a function was mapped over.
LEMMA MappedList ==
  ASSUME NEW S, NEW xs \in Seq(S), NEW T, NEW f, \A i \in DOMAIN xs : f[xs[i]] \in T
  PROVE  /\ [i \in DOMAIN xs |-> f[xs[i]]] \in Seq(T)
         /\ DOMAIN [i \in DOMAIN xs |-> f[xs[i]]] = DOMAIN xs
<1> DEFINE ys == [i \in DOMAIN xs |-> f[xs[i]]]
<1>1. DOMAIN xs = 1..Len(xs) /\ Len(xs) \in Nat
  OBVIOUS
<1>2. ys \in [1..Len(xs) -> T]
  BY <1>1
<1> HIDE DEF ys
<1>3. ys \in Seq(T) /\ DOMAIN ys = 1..Len(xs)
  BY <1>1, <1>2
<1>4. QED
  BY <1>1, <1>3 DEF ys

LEMMA JoinFollows ==
  ASSUME NEW row, NEW n \in 0..Depth, NEW p \in Levels[n], p.w \in {"and", "or"},
         \A i \in DOMAIN p.xs : Follows(n - 1, p.xs[i], row)
  PROVE  Follows(n, p, row)
<1> DEFINE xs == p.xs
           ps == [i \in DOMAIN xs |-> Parse[xs[i]]]
           ss == [i \in DOMAIN ps |-> StripWhere[ps[i]]]
           fs == [i \in DOMAIN ss |-> Fold[ss[i]]]
           S == Levels[n - 1]
           sqls == {Sql(xs[i], row) : i \in DOMAIN xs}
<1>1. n # 0 /\ xs \in Seq(S) /\ p = [w |-> p.w, xs |-> xs] /\ p \in Conditions
  BY CondParts, CondGrow
<1>2. \A i \in DOMAIN xs : /\ Parse[xs[i]] \in S /\ StripWhere[Parse[xs[i]]] \in S
                           /\ Ready(n - 1, Final(xs[i]))
  BY DEF Follows
<1>3. ps \in Seq(S) /\ DOMAIN ps = DOMAIN xs /\ \A i \in DOMAIN xs : ps[i] = Parse[xs[i]]
  BY <1>1, <1>2, MappedList
<1>4. Parse[p] = [w |-> p.w, xs |-> ps]
  BY <1>1, ParseSteps DEF ParseStepOf
<1> HIDE DEF ps
<1>5. ss \in Seq(S) /\ DOMAIN ss = DOMAIN xs /\ \A i \in DOMAIN xs : ss[i] = StripWhere[Parse[xs[i]]]
  BY <1>2, <1>3, MappedList, SMTT(40)
<1>6. Parse[p] \in Levels[n] /\ Parse[p] \in Conditions
  <2>1. AndW(ps) \in Levels[n] /\ OrW(ps) \in Levels[n]
    BY <1>1, <1>3, CondMade
  <2>2. Parse[p] \in {AndW(ps), OrW(ps)}
    BY <1>4 DEF AndW, OrW
  <2>3. QED
    BY <2>1, <2>2, CondGrow
<1>7. StripWhere[Parse[p]] = [w |-> p.w, xs |-> ss]
  <2> DEFINE q == [w |-> p.w, xs |-> ps]
  <2>1. q.w = p.w /\ q.xs = ps
    OBVIOUS
  <2> HIDE DEF q
  <2>2. StripStep(StripWhere, q) = [w |-> p.w, xs |-> ss]
    BY <2>1 DEF StripStep
  <2>3. QED
    BY <1>4, <1>6, <2>2, StripSteps DEF q
<1> HIDE DEF ss
<1>8. StripWhere[Parse[p]] \in Levels[n] /\ StripWhere[Parse[p]] \in Conditions
  <2>1. AndW(ss) \in Levels[n] /\ OrW(ss) \in Levels[n]
    BY <1>1, <1>5, CondMade
  <2>2. StripWhere[Parse[p]] \in {AndW(ss), OrW(ss)}
    BY <1>7 DEF AndW, OrW
  <2>3. QED
    BY <2>1, <2>2, CondGrow
<1>9. DOMAIN fs = DOMAIN xs /\ \A i \in DOMAIN xs : fs[i] = Final(xs[i])
  BY <1>5 DEF Final
<1>10. fs \in Seq(S) /\ \A i \in DOMAIN fs : Ready(n - 1, fs[i])
  <2>1. \A i \in DOMAIN ss : Fold[ss[i]] \in S
    BY <1>2, <1>5, <1>9 DEF Ready, Final
  <2>2. fs \in Seq(S)
    BY <1>5, <2>1, MappedList
  <2>3. QED
    BY <1>2, <1>9, <2>2
<1>11. Final(p) = IF p.w = "and" THEN FoldAnd(fs) ELSE FoldOr(fs)
  <2> DEFINE q == [w |-> p.w, xs |-> ss]
  <2>1. q.w = p.w /\ q.xs = ss
    OBVIOUS
  <2> HIDE DEF q
  <2>2. FoldStepOf(Fold, q) = IF p.w = "and" THEN FoldAnd(fs) ELSE FoldOr(fs)
    BY <2>1 DEF FoldStepOf
  <2>3. QED
    BY <1>7, <1>8, <2>2, FoldSteps DEF q, Final
<1> HIDE DEF fs
<1> DEFINE vs == VerdictsOn(fs, row)
<1>12. /\ Ready(n, Final(p))
       /\ Verdict(Final(p), row) = IF p.w = "and" THEN And3(vs) ELSE Or3(vs)
  BY <1>1, <1>10, <1>11, FoldAndReady, FoldOrReady
<1>13. vs = {Verdict(Final(xs[i]), row) : i \in DOMAIN xs}
  BY <1>9 DEF VerdictsOn
<1>14. Sql(p, row) = IF p.w = "and" THEN And3(sqls) ELSE Or3(sqls)
  <2>1. {Meanings(row)[xs[i]] : i \in DOMAIN xs} = sqls
    BY SqlIs
  <2>2. Sql(p, row) = SqlStep(Meanings(row), p, row)
    BY <1>1, SqlThree
  <2>3. QED
    BY <2>1, <2>2 DEF SqlStep
<1>15. HoldsNull[p] = (\E i \in DOMAIN xs : HoldsNull[xs[i]])
  BY <1>1, HoldsNullSteps DEF HoldsNullStep
<1>16. NegatesNull[p] = (\E i \in DOMAIN xs : NegatesNull[xs[i]])
  BY <1>1, NegatesNullSteps DEF NegatesNullStep
<1>17. vs \in SUBSET Three /\ sqls \in SUBSET Three
  <2>1. ASSUME NEW i \in DOMAIN xs PROVE Verdict(Final(xs[i]), row) \in Three /\ Sql(xs[i], row) \in Three
    <3>1. n - 1 \in 0..Depth /\ (n - 1) + 2 \in 0..Nesting
      BY <1>1, Reach
    <3>2. xs[i] \in S
      BY <1>1
    <3>3. xs[i] \in Conditions
      BY <3>1, <3>2, CondGrow
    <3>4. BuildWhere[Final(xs[i])] \in Exprs
      BY <1>2, <3>1, ExprGrow DEF Ready
    <3>5. QED
      BY <3>3, <3>4, SqlThree, EvalSteps DEF Verdict
  <2>2. QED
    BY <1>13, <2>1
<1>18. ASSUME ~HoldsNull[p] PROVE Verdict(Final(p), row) = Sql(p, row)
  <2>1. \A i \in DOMAIN xs : Verdict(Final(xs[i]), row) = Sql(xs[i], row)
    BY <1>15, <1>18 DEF Follows
  <2>2. vs = sqls
    BY <1>13, <2>1
  <2>3. QED
    BY <1>12, <1>14, <2>2
<1>19. ASSUME ~NegatesNull[p] PROVE Verdict(Final(p), row) = "true" <=> Sql(p, row) = "true"
  <2>1. \A i \in DOMAIN xs : Verdict(Final(xs[i]), row) = "true" <=> Sql(xs[i], row) = "true"
    BY <1>16, <1>19 DEF Follows
  <2>2. "true" \in vs <=> "true" \in sqls
    BY <1>13, <2>1
  <2>3. (\A v \in vs : v = "true") <=> (\A v \in sqls : v = "true")
    BY <1>13, <2>1
  <2> HIDE DEF vs, sqls
  <2>4. (And3(vs) = "true" <=> And3(sqls) = "true") /\ (Or3(vs) = "true" <=> Or3(sqls) = "true")
    BY <1>17, <2>2, <2>3, Kleene
  <2>5. QED
    BY <1>12, <1>14, <2>4
<1>20. QED
  BY <1>6, <1>8, <1>12, <1>18, <1>19 DEF Follows

\* Every condition comes through.
LEMMA ConditionFollows ==
  ASSUME NEW row, NEW p \in Conditions
  PROVE  Follows(Depth, p, row)
<1> DEFINE T == {n \in 0..Depth : \A q \in Levels[n] : Follows(n, q, row)}
<1>1. Depth \in Nat /\ Depth \in 0..Depth /\ 0 \in 0..Depth
  BY WhereAssumption
<1>2. ASSUME NEW n \in 0..Depth, NEW q \in Predicates PROVE Follows(n, q, row)
  <2>1. q.w \in {"true", "false", "const", "column", "compare", "in", "between", "null"}
    BY DEF Predicates
  <2>2. QED
    BY <2>1, ConstFollows, ColumnFollows, CompareFollows, InFollows, BetweenFollows, NullFollows
<1>3. 0 \in T
  <2>1. Levels[0] = Predicates
    BY CondLevelSteps
  <2>2. QED
    BY <1>1, <1>2, <2>1
<1>4. ASSUME NEW n \in 0..Depth, n # 0, n - 1 \in T PROVE n \in T
  <2>1. SUFFICES ASSUME NEW q \in Levels[n] PROVE Follows(n, q, row)
    OBVIOUS
  <2>2. CASE q.w = "not"
    <3>1. q.x \in Levels[n - 1]
      BY <2>2, CondParts
    <3>2. Follows(n - 1, q.x, row)
      BY <1>4, <3>1
    <3>3. QED
      BY <2>2, <3>2, NotFollows
  <2>3. CASE q.w \in {"and", "or"}
    <3>1. q.xs \in Seq(Levels[n - 1])
      BY <2>3, CondParts
    <3>2. \A i \in DOMAIN q.xs : q.xs[i] \in Levels[n - 1]
      BY <3>1
    <3>3. \A i \in DOMAIN q.xs : Follows(n - 1, q.xs[i], row)
      BY <1>4, <3>2
    <3>4. QED
      BY <2>3, <3>3, JoinFollows
  <2>4. CASE q.w \notin {"not", "and", "or"}
    BY <1>2, <2>4, CondParts
  <2>5. QED
    BY <2>2, <2>3, <2>4
<1>5. Depth \in T
  <2> HIDE DEF T
  <2>1. QED
    BY <1>1, <1>3, <1>4, Climb
<1>6. QED
  BY <1>5 DEF Conditions

\* So a planned WHERE has a text, and the plan passes the rows SQL passes.
LEMMA WhereComesThrough ==
  ASSUME NEW p \in Conditions, NEW row
  PROVE  /\ Rendered[BuildWhere[Final(p)]] # Garbled
         /\ ~NegatesNull[p] => (Selects(BuildWhere[Final(p)], row) <=> Sql(p, row) = "true")
         /\ ~NegatesNull[p] /\ Final(p) = False => Sql(p, row) # "true"
<1> DEFINE q == Final(p)
           x == BuildWhere[q]
<1>1. Follows(Depth, p, row)
  BY ConditionFollows
<1>2. Depth + 2 \in 0..Nesting
  BY WhereAssumption, NestingAssumption
<1>3. x \in Exprs /\ (q = True \/ Solid[x])
  BY <1>1, <1>2, ExprGrow DEF Follows, Ready
<1>4. x = Nil \/ Solid[x]
  BY <1>3, BuildShapes
<1>5. Rendered[x] # Garbled /\ (Selects(x, row) <=> Eval(x, row) = "true")
  BY <1>3, <1>4, SolidSelects
<1>6. ~NegatesNull[p] => (Eval(x, row) = "true" <=> Sql(p, row) = "true")
  BY <1>1 DEF Follows, Verdict
<1>7. q = False => Eval(x, row) = "false"
  BY BuildShapes, EvalAtoms
<1>8. QED
  BY <1>5, <1>6, <1>7

(***************************************************************************)
(* The plan.                                                               *)
(***************************************************************************)
LEMMA StatementParts ==
  ASSUME NEW s \in Statements
  PROVE  /\ s.where \in Conditions
         /\ s.limit \in SUBSET ({Bad} \cup Int) /\ s.offset \in SUBSET ({Bad} \cup Int)
         /\ {"where", "limit", "offset", "columns", "order"} \subseteq DOMAIN s
<1> DEFINE O == Seq([ref : ColumnRefs, desc : BOOLEAN, op : STRING, vector : {"", Bad}])
           C == Seq(ColumnRefs)
           A == SUBSET Qualifiers
           I == SUBSET ({Bad} \cup Int)
<1>1. s \in [columns : C, alias : A, where : Conditions, order : O, limit : I, offset : I, beyond : BOOLEAN]
  BY SelectAssumption
<1> HIDE DEF O, C, A, I
<1>2. s.where \in Conditions /\ s.limit \in I /\ s.offset \in I
  BY <1>1
<1>3. {"where", "limit", "offset", "columns", "order"} \subseteq DOMAIN s
  BY <1>1
<1>4. QED
  BY <1>2, <1>3 DEF I

\* The page is that of the statement, which was held against the window.
Paged ==
  /\ ~SyntaxRefused(stmt) /\ ~WindowRefused(stmt)
  /\ plan.offset = Value(stmt.offset, 0) /\ plan.limit = Value(stmt.limit, 0)

\* How far the translation has come, and what it has in hand.
PlanInv ==
  /\ stmt \in Statements
  /\ stage \in {"written", "parsed", "folded", "planned", "refused"}
  /\ stage \in {"written", "parsed", "folded"} => noMatch = FALSE /\ expr = Nil
  /\ stage = "parsed" => /\ tree = StripWhere[Parse[stmt.where]]
                         /\ ~SyntaxRefused(stmt)
                         /\ select.limit = stmt.limit /\ select.offset = stmt.offset
  /\ stage = "folded" => tree = Final(stmt.where) /\ Paged
  /\ stage = "planned" => /\ Paged
                          /\ \/ noMatch = TRUE /\ expr = Nil /\ Final(stmt.where) = False
                             \/ noMatch = FALSE /\ expr = BuildWhere[Final(stmt.where)]

LEMMA PlanInit == Init => PlanInv
BY DEF Init, PlanInv

LEMMA PlanNext == PlanInv /\ [Next]_vars => PlanInv'
<1>1. SUFFICES ASSUME PlanInv, [Next]_vars PROVE PlanInv'
  OBVIOUS
<1>2. CASE ParseStep
  <2>1. CASE stage' = "refused"
    BY <1>1, <1>2, <2>1 DEF PlanInv, ParseStep
  <2>2. CASE stage' # "refused"
    <3>1. /\ stage = "written" /\ stage' = "parsed" /\ stmt' = stmt
          /\ noMatch' = noMatch /\ expr' = expr
          /\ ~SyntaxRefused(stmt)
          /\ tree' = StripWhere[Parse[stmt.where]]
      BY <1>2, <2>2 DEF ParseStep, Refuse
    <3>2. select'.limit = stmt.limit /\ select'.offset = stmt.offset
      <4> DEFINE cols == StripColumns(stmt.columns)
                 ord == StripOrder(stmt.order)
      <4>1. select' = [stmt EXCEPT !.columns = cols, !.order = ord]
        BY <1>2, <2>2 DEF ParseStep, Refuse
      <4>2. {"where", "limit", "offset", "columns", "order"} \subseteq DOMAIN stmt
        BY <1>1, StatementParts DEF PlanInv
      <4> HIDE DEF cols, ord
      <4>3. QED
        BY <4>1, <4>2
    <3>3. SyntaxRefused(stmt)' = SyntaxRefused(stmt)
      BY <3>1 DEF SyntaxRefused, BadCount, OrderRefused
    <3>4. QED
      BY <1>1, <3>1, <3>2, <3>3 DEF PlanInv
  <2>3. QED
    BY <2>1, <2>2
<1>3. CASE PlanStep
  <2>1. CASE stage' = "refused"
    BY <1>1, <1>3, <2>1 DEF PlanInv, PlanStep
  <2>2. CASE stage' # "refused"
    <3>1. /\ stage = "parsed" /\ stmt' = stmt /\ expr' = expr
          /\ ~WindowRefused(select) /\ plan' = Lower(select) /\ tree' = Fold[tree]
          /\ noMatch' = (tree' = False) /\ stage' = IF noMatch' THEN "planned" ELSE "folded"
      BY <1>3, <2>2 DEF PlanStep, Refuse
    <3>2. /\ tree = StripWhere[Parse[stmt.where]] /\ expr = Nil /\ ~SyntaxRefused(stmt)
          /\ select.limit = stmt.limit /\ select.offset = stmt.offset /\ stmt \in Statements
      BY <1>1, <3>1 DEF PlanInv
    <3>3. tree' = Final(stmt.where)
      BY <3>1, <3>2 DEF Final
    <3>4. Paged'
      <4>1. plan'.offset = Value(select.offset, 0) /\ plan'.limit = Value(select.limit, 0)
        BY <3>1 DEF Lower
      <4>2. ~WindowRefused(stmt)
        BY <3>1, <3>2 DEF WindowRefused
      <4>3. QED
        BY <3>1, <3>2, <4>1, <4>2 DEF Paged, SyntaxRefused, WindowRefused, BadCount, OrderRefused
    <3>5. Final(stmt'.where) = Final(stmt.where)
      BY <3>1
    <3>6. CASE tree' = False
      <4>1. noMatch' = TRUE /\ stage' = "planned"
        BY <3>1, <3>6
      <4>2. QED
        BY <3>1, <3>2, <3>3, <3>4, <3>5, <3>6, <4>1 DEF PlanInv
    <3>7. CASE tree' # False
      <4>1. noMatch' = FALSE /\ stage' = "folded"
        BY <3>1, <3>7
      <4>2. QED
        BY <3>1, <3>2, <3>3, <3>4, <3>5, <4>1 DEF PlanInv
    <3>8. QED
      BY <3>6, <3>7
  <2>3. QED
    BY <2>1, <2>2
<1>4. CASE BuildStep
  <2>1. CASE stage' = "refused"
    BY <1>1, <1>4, <2>1 DEF PlanInv, BuildStep
  <2>2. CASE stage' # "refused"
    <3>1. /\ stage = "folded" /\ stage' = "planned" /\ expr' = BuildWhere[tree]
          /\ stmt' = stmt /\ plan' = plan /\ noMatch' = noMatch
      BY <1>4, <2>2 DEF BuildStep, Refuse
    <3>2. tree = Final(stmt.where) /\ Paged /\ noMatch = FALSE /\ stmt \in Statements
      BY <1>1, <3>1 DEF PlanInv
    <3>3. Paged'
      BY <3>1, <3>2 DEF Paged, SyntaxRefused, WindowRefused, BadCount, OrderRefused
    <3>4. QED
      BY <3>1, <3>2, <3>3 DEF PlanInv
  <2>3. QED
    BY <2>1, <2>2
<1>5. CASE Finished \/ UNCHANGED vars
  BY <1>1, <1>5 DEF Finished, vars, PlanInv, Paged, SyntaxRefused, WindowRefused, BadCount, OrderRefused, Final
<1>6. QED
  BY <1>1, <1>2, <1>3, <1>4, <1>5 DEF Next

LEMMA PlanAlways == Spec => []PlanInv
BY PlanInit, PlanNext, PTL DEF Spec

LEMMA WhereExact == PlanInv => WhereFaithful
<1>1. SUFFICES ASSUME PlanInv, stage = "planned", ~NegatesNull[stmt.where], NEW row \in Rows
               PROVE  (~noMatch /\ Selects(expr, row)) <=> Sql(stmt.where, row) = "true"
  BY DEF WhereFaithful, Exact
<1>2. stmt.where \in Conditions
  BY <1>1, StatementParts DEF PlanInv
<1>3. CASE noMatch = TRUE /\ Final(stmt.where) = False
  BY <1>1, <1>2, <1>3, WhereComesThrough
<1>4. CASE noMatch = FALSE /\ expr = BuildWhere[Final(stmt.where)]
  BY <1>1, <1>2, <1>4, WhereComesThrough
<1>5. QED
  BY <1>1, <1>3, <1>4 DEF PlanInv

\* A planned WHERE passes exactly the rows for which SQL finds the condition true,
\* for conditions of every depth and rows of every kind (resolveQualifiers, fold and
\* buildWhere).
THEOREM WherePassesSqlRows == Spec => []WhereFaithful
BY WhereExact, PlanAlways, PTL

\* No plan carries a filter that Milvus cannot parse: what fold leaves has no empty
\* part, so Render writes no empty parentheses.
THEOREM WhereHasText == Spec => []PlanRenders
<1>1. PlanInv => PlanRenders
  <2>1. SUFFICES ASSUME PlanInv, stage = "planned" PROVE Rendered[expr] # Garbled
    BY DEF PlanRenders
  <2>2. stmt.where \in Conditions
    BY <2>1, StatementParts DEF PlanInv
  <2>3. CASE expr = Nil
    <3>1. Nil \in Exprs
      <4>1. Nil \in Atoms
        BY DEF Nil, Atoms
      <4>2. QED
        BY <4>1, ExprMade, NestingAssumption DEF Exprs
    <3>2. QED
      BY <2>3, <3>1, SolidSelects
  <2>4. CASE expr = BuildWhere[Final(stmt.where)]
    BY <2>2, <2>4, WhereComesThrough
  <2>5. QED
    BY <2>1, <2>3, <2>4 DEF PlanInv
<1>2. QED
  BY <1>1, PlanAlways, PTL

\* A sum that does not leave the integers is what it is.
LEMMA Remainder ==
  ASSUME NEW a \in Nat, NEW b \in Nat \ {0}, a < b
  PROVE  a % b = a
OBVIOUS

LEMMA WrapFits ==
  ASSUME NEW x \in Nat, x <= MaxInt
  PROVE  Wrap(x) = x
<1>1. MaxInt \in Nat
  BY SelectAssumption
<1>2. x + MaxInt + 1 \in Nat /\ 2 * MaxInt + 2 \in Nat \ {0} /\ x + MaxInt + 1 < 2 * MaxInt + 2
  BY <1>1
<1>3. (x + MaxInt + 1) % (2 * MaxInt + 2) = x + MaxInt + 1
  BY <1>2, Remainder
<1>4. QED
  BY <1>1, <1>3 DEF Wrap

LEMMA CountFits ==
  ASSUME NEW o \in SUBSET ({Bad} \cup Int), ~BadCount(o)
  PROVE  Value(o, 0) \in Nat
<1>1. CASE o = {}
  BY <1>1 DEF Value
<1>2. CASE o # {}
  <2>1. Value(o, 0) \in o
    BY <1>2 DEF Value
  <2>2. QED
    BY <2>1 DEF BadCount
<1>3. QED
  BY <1>1, <1>2

(***************************************************************************)
(* Ranks.                                                                  *)
(***************************************************************************)
\* A relation that orders a set in a line, and an element's place in the line.
Linear(S, R) ==
  /\ \A x \in S : <<x, x>> \notin R
  /\ \A x, y \in S : x # y => <<x, y>> \in R \/ <<y, x>> \in R
  /\ \A x, y, z \in S : <<x, y>> \in R /\ <<y, z>> \in R => <<x, z>> \in R

Below(S, R, x) == {y \in S : <<y, x>> \in R}
Rank(S, R, x) == Cardinality(Below(S, R, x))

\* An element's rank counts those before it, so it is less than their number.
LEMMA RankType ==
  ASSUME NEW S, NEW R, IsFiniteSet(S), Linear(S, R), NEW x \in S
  PROVE  IsFiniteSet(Below(S, R, x)) /\ Rank(S, R, x) \in 0..(Cardinality(S) - 1)
<1>1. Below(S, R, x) \in SUBSET (S \ {x})
  BY DEF Below, Linear
<1>2. IsFiniteSet(S \ {x}) /\ Cardinality(S \ {x}) = Cardinality(S) - 1
  BY FS_RemoveElement
<1>3. IsFiniteSet(Below(S, R, x)) /\ Rank(S, R, x) <= Cardinality(S \ {x})
  BY <1>1, <1>2, FS_Subset DEF Rank
<1>4. Rank(S, R, x) \in Nat /\ Cardinality(S) \in Nat
  BY <1>3, FS_CardinalityType DEF Rank
<1>5. QED
  BY <1>2, <1>3, <1>4

\* What comes before has the smaller rank.
LEMMA RankMonotone ==
  ASSUME NEW S, NEW R, IsFiniteSet(S), Linear(S, R), NEW x \in S, NEW y \in S, <<x, y>> \in R
  PROVE  Rank(S, R, x) < Rank(S, R, y)
<1>1. Below(S, R, x) \in SUBSET Below(S, R, y)
  BY DEF Below, Linear
<1>2. x \in Below(S, R, y) /\ x \notin Below(S, R, x)
  BY DEF Below, Linear
<1>3. /\ IsFiniteSet(Below(S, R, y))
      /\ Rank(S, R, x) \in 0..(Cardinality(S) - 1) /\ Rank(S, R, y) \in 0..(Cardinality(S) - 1)
  BY RankType
<1>4. Rank(S, R, x) <= Rank(S, R, y) /\ Rank(S, R, x) # Rank(S, R, y)
  BY <1>1, <1>2, <1>3, FS_Subset DEF Rank
<1>5. Cardinality(S) \in Nat
  BY FS_CardinalityType
<1>6. QED
  BY <1>3, <1>4, <1>5

LEMMA RankOrder ==
  ASSUME NEW S, NEW R, IsFiniteSet(S), Linear(S, R), NEW x \in S, NEW y \in S
  PROVE  /\ <<x, y>> \in R <=> Rank(S, R, x) < Rank(S, R, y)
         /\ Rank(S, R, x) = Rank(S, R, y) => x = y
<1>1. Rank(S, R, x) \in Int /\ Rank(S, R, y) \in Int
  BY RankType
<1>2. <<x, y>> \in R => Rank(S, R, x) < Rank(S, R, y)
  BY RankMonotone
<1>3. <<y, x>> \in R => Rank(S, R, y) < Rank(S, R, x)
  BY RankMonotone
<1>4. x # y => <<x, y>> \in R \/ <<y, x>> \in R
  BY DEF Linear
<1>5. QED
  BY <1>1, <1>2, <1>3, <1>4

\* Every place in the line is taken.
LEMMA RankOnto ==
  ASSUME NEW S, NEW R, IsFiniteSet(S), Linear(S, R), NEW n \in 0..(Cardinality(S) - 1)
  PROVE  \E x \in S : Rank(S, R, x) = n
<1> SUFFICES ASSUME \A x \in S : Rank(S, R, x) # n PROVE FALSE
  OBVIOUS
<1> DEFINE c == Cardinality(S)
           T == (0..(c - 1)) \ {n}
           f == [x \in S |-> Rank(S, R, x)]
<1>1. c \in Nat
  BY FS_CardinalityType
<1>2. IsFiniteSet(T) /\ Cardinality(T) < c
  <2>1. IsFiniteSet(0..(c - 1)) /\ Cardinality(0..(c - 1)) = c
    BY <1>1, FS_Interval
  <2>2. n \in 0..(c - 1)
    OBVIOUS
  <2> HIDE DEF c
  <2>3. IsFiniteSet(T) /\ Cardinality(T) = c - 1
    BY <2>1, <2>2, FS_RemoveElement
  <2>4. QED
    BY <1>1, <2>3
<1>3. f \in [S -> T]
  BY RankType
<1>4. \A x, y \in S : f[x] = f[y] => x = y
  BY RankOrder
<1> HIDE DEF T, f
<1>5. \E x, y \in S : x # y /\ f[x] = f[y]
  BY <1>2, <1>3, FS_PigeonHole
<1>6. QED
  BY <1>4, <1>5

(***************************************************************************)
(* Sorting.                                                                *)
(***************************************************************************)
\* An order in which some rows may be on a par.
Weak(E) ==
  /\ \A x, y \in DOMAIN Table : <<x, y>> \in E => <<y, x>> \notin E
  /\ \A x, y, z \in DOMAIN Table : <<x, z>> \in E => <<x, y>> \in E \/ <<y, z>> \in E

LEMMA TableDomain ==
  /\ Len(Table) \in Nat /\ DOMAIN Table = 1..Len(Table) /\ IsFiniteSet(DOMAIN Table)
  /\ \A i \in DOMAIN Table : i \in Int /\ Table[i] \in Rows
<1>1. Table \in Seq(Rows)
  BY SelectAssumption
<1>2. Len(Table) \in Nat /\ DOMAIN Table = 1..Len(Table) /\ \A i \in DOMAIN Table : i \in Int /\ Table[i] \in Rows
  BY <1>1
<1>3. IsFiniteSet(1..Len(Table))
  BY <1>2, FS_Interval
<1>4. QED
  BY <1>2, <1>3

\* The terms of an order, one after the other, make an order.
LEMMA LexicographicWeak ==
  ASSUME NEW n \in Nat, NEW terms, DOMAIN terms = 1..n, \A k \in 1..n : Weak(terms[k])
  PROVE  Weak(Lexicographic(terms))
<1> DEFINE L == Lexicographic(terms)
           Apart(x, y, k) == <<x, y>> \in terms[k] \/ <<y, x>> \in terms[k]
<1>1. \A x, y \in DOMAIN Table :
        <<x, y>> \in L <=> \E k \in 1..n : <<x, y>> \in terms[k] /\ \A l \in 1..(k - 1) : ~Apart(x, y, l)
  BY DEF Lexicographic, Places
<1> HIDE DEF L
<1>2. ASSUME NEW x \in DOMAIN Table, NEW y \in DOMAIN Table, <<x, y>> \in L, <<y, x>> \in L PROVE FALSE
  <2>1. PICK k \in 1..n : <<x, y>> \in terms[k] /\ \A l \in 1..(k - 1) : ~Apart(x, y, l)
    BY <1>1, <1>2
  <2>2. PICK m \in 1..n : <<y, x>> \in terms[m] /\ \A l \in 1..(m - 1) : ~Apart(y, x, l)
    BY <1>1, <1>2
  <2>3. ~(k < m) /\ ~(m < k)
    <3>1. k < m => k \in 1..(m - 1)
      OBVIOUS
    <3>2. m < k => m \in 1..(k - 1)
      OBVIOUS
    <3>3. QED
      BY <2>1, <2>2, <3>1, <3>2
  <2>4. k = m
    BY <2>3
  <2>5. QED
    BY <2>1, <2>2, <2>4 DEF Weak
<1>3. ASSUME NEW x \in DOMAIN Table, NEW y \in DOMAIN Table, NEW z \in DOMAIN Table, <<x, z>> \in L
      PROVE  <<x, y>> \in L \/ <<y, z>> \in L
  <2>1. PICK k \in 1..n : <<x, z>> \in terms[k] /\ \A l \in 1..(k - 1) : ~Apart(x, z, l)
    BY <1>1, <1>3
  <2> DEFINE T == {l \in 1..n : Apart(x, y, l) \/ Apart(y, z, l)}
  <2>2. k \in T
    BY <2>1 DEF Weak
  <2>3. PICK m \in T : \A l \in T : m <= l
    <3>1. T \subseteq Nat /\ T # {}
      BY <2>2
    <3> HIDE DEF T
    <3>2. QED
      BY <3>1, Least
  <2>4. m \in 1..n /\ m <= k /\ (Apart(x, y, m) \/ Apart(y, z, m))
    BY <2>2, <2>3
  <2>5. \A l \in 1..(m - 1) : ~Apart(x, y, l) /\ ~Apart(y, z, l)
    <3>1. SUFFICES ASSUME NEW l \in 1..(m - 1) PROVE l \notin T
      BY <2>4
    <3>2. ~(m <= l)
      BY <2>4
    <3>3. QED
      BY <2>3, <3>2
  <2>6. <<x, y>> \in terms[m] \/ <<y, z>> \in terms[m]
    <3>1. CASE m = k
      BY <2>1, <2>4, <3>1 DEF Weak
    <3>2. CASE m # k
      <4>1. m \in 1..(k - 1)
        BY <2>4, <3>2
      <4>2. <<x, z>> \notin terms[m] /\ <<z, x>> \notin terms[m]
        BY <2>1, <4>1
      <4>3. QED
        BY <2>4, <4>2 DEF Weak
    <3>3. QED
      BY <3>1, <3>2
  <2>7. QED
    BY <1>1, <2>4, <2>5, <2>6
<1>4. QED
  BY <1>2, <1>3 DEF Weak, L

\* The order with ties by key.
Tied(S, E) == {p \in S \X S : <<p[1], p[2]>> \in E \/ (<<p[2], p[1]>> \notin E /\ p[1] < p[2])}

LEMMA TiedLinear ==
  ASSUME NEW E, Weak(E), NEW S \in SUBSET DOMAIN Table
  PROVE  Linear(S, Tied(S, E))
<1>1. \A x \in S : x \in DOMAIN Table /\ x \in Int
  BY TableDomain
<1>2. \A x, y \in S : <<x, y>> \in Tied(S, E) <=> <<x, y>> \in E \/ (<<y, x>> \notin E /\ x < y)
  BY DEF Tied
<1>3. \A x \in S : <<x, x>> \notin Tied(S, E)
  BY <1>1, <1>2 DEF Weak
<1>4. \A x, y \in S : x # y => <<x, y>> \in Tied(S, E) \/ <<y, x>> \in Tied(S, E)
  BY <1>1, <1>2
<1>5. ASSUME NEW x \in S, NEW y \in S, NEW z \in S, <<x, y>> \in Tied(S, E), <<y, z>> \in Tied(S, E)
      PROVE  <<x, z>> \in Tied(S, E)
  <2>1. <<y, x>> \notin E /\ <<z, y>> \notin E
    BY <1>1, <1>2, <1>5 DEF Weak
  <2>2. <<z, x>> \notin E
    BY <1>1, <2>1 DEF Weak
  <2>3. CASE <<x, z>> \in E
    BY <1>2, <2>3
  <2>4. CASE <<x, z>> \notin E
    <3>1. <<x, y>> \notin E /\ <<y, z>> \notin E
      BY <1>1, <2>1, <2>4 DEF Weak
    <3>2. x < y /\ y < z
      BY <1>2, <1>5, <3>1
    <3>3. x < z
      BY <1>1, <3>2
    <3>4. QED
      BY <1>2, <2>2, <3>3
  <2>5. QED
    BY <2>3, <2>4
<1>6. QED
  BY <1>3, <1>4, <1>5 DEF Linear

\* Every row comes once, and as many are ahead of it and behind it as its place says.
LEMMA InOrderRows ==
  ASSUME NEW E, Weak(E), NEW S \in SUBSET DOMAIN Table
  PROVE  /\ Cardinality(S) \in Nat /\ IsFiniteSet(S)
         /\ InOrder(S, E) \in Seq(S) /\ Len(InOrder(S, E)) = Cardinality(S)
         /\ \A k \in 1..Cardinality(S) : Rank(S, Tied(S, E), InOrder(S, E)[k]) = k - 1
<1> DEFINE c == Cardinality(S)
           s == InOrder(S, E)
           R == Tied(S, E)
           rank(i) == Cardinality({j \in S : <<j, i>> \in E \/ (<<i, j>> \notin E /\ j < i)})
<1>1. IsFiniteSet(S) /\ c \in Nat
  BY TableDomain, FS_Subset, FS_CardinalityType
<1>2. Linear(S, R)
  BY TiedLinear
<1>3. ASSUME NEW i \in S PROVE rank(i) = Rank(S, R, i)
  <2>1. {j \in S : <<j, i>> \in E \/ (<<i, j>> \notin E /\ j < i)} = Below(S, R, i)
    BY DEF Below, Tied
  <2>2. QED
    BY <2>1 DEF Rank
<1>4. s = [k \in 1..c |-> CHOOSE i \in S : rank(i) = k - 1]
  BY DEF InOrder
<1> HIDE DEF s, R
<1>5. ASSUME NEW k \in 1..c PROVE s[k] \in S /\ Rank(S, R, s[k]) = k - 1
  <2>1. k - 1 \in 0..(Cardinality(S) - 1)
    BY <1>1
  <2>2. \E i \in S : rank(i) = k - 1
    <3>1. \E i \in S : Rank(S, R, i) = k - 1
      BY <1>1, <1>2, <2>1, RankOnto
    <3> HIDE DEF rank
    <3>2. QED
      BY <1>3, <3>1
  <2>3. s[k] = CHOOSE i \in S : rank(i) = k - 1
    BY <1>4
  <2> HIDE DEF rank
  <2>4. s[k] \in S /\ rank(s[k]) = k - 1
    BY <2>2, <2>3
  <2>5. QED
    BY <1>3, <2>4
<1>6. DOMAIN s = 1..c /\ s \in [1..c -> S]
  <2> DEFINE at(k) == CHOOSE i \in S : rank(i) = k - 1
  <2>1. s = [k \in 1..c |-> at(k)]
    BY <1>4
  <2> HIDE DEF at, c
  <2>2. DOMAIN s = 1..c /\ \A k \in 1..c : s[k] = at(k)
    BY <2>1
  <2>3. \A k \in 1..c : at(k) \in S
    BY <1>5, <2>2
  <2>4. QED
    BY <2>1, <2>2, <2>3
<1>7. s \in Seq(S) /\ Len(s) = c
  <2> HIDE DEF c
  <2>1. QED
    BY <1>1, <1>6
<1>8. QED
  BY <1>1, <1>5, <1>7 DEF s, R

\* The place of a row in an order that has it on a par with others.
LEMMA PlaceInOrder ==
  ASSUME NEW E, Weak(E), NEW S \in SUBSET DOMAIN Table, NEW k \in 1..Cardinality(S), NEW a \in S,
         Rank(S, Tied(S, E), a) = k - 1
  PROVE  /\ Cardinality({i \in S : <<i, a>> \in E}) < k
         /\ Cardinality({i \in S : <<a, i>> \in E}) <= Cardinality(S) - k
<1> DEFINE R == Tied(S, E)
           B == Below(S, R, a)
           U == {i \in S : <<i, a>> \in E}
           V == {i \in S : <<a, i>> \in E}
           W == (S \ {a}) \ B
<1>1. IsFiniteSet(S) /\ Cardinality(S) \in Nat
  BY InOrderRows
<1>2. Linear(S, R)
  BY TiedLinear
<1>3. IsFiniteSet(B) /\ Cardinality(B) = k - 1
  BY <1>1, <1>2, RankType DEF Rank
<1>4. U \in SUBSET B
  BY DEF Below, Tied
<1>5. V \in SUBSET W
  <2>1. \A x \in S : x \in DOMAIN Table
    OBVIOUS
  <2>2. <<a, a>> \notin E
    BY <2>1 DEF Weak
  <2>3. \A i \in V : i \notin B
    BY <2>1 DEF Below, Tied, Weak
  <2>4. QED
    BY <2>2, <2>3
<1>6. B \in SUBSET (S \ {a})
  BY <1>2 DEF Below, Linear
<1> HIDE DEF B, U, V, R
<1>7. IsFiniteSet(S \ {a}) /\ Cardinality(S \ {a}) = Cardinality(S) - 1
  BY <1>1, FS_RemoveElement
<1>8. IsFiniteSet(W) /\ Cardinality(W) = Cardinality(S) - 1 - (k - 1)
  <2> DEFINE X == S \ {a}
  <2>1. IsFiniteSet(X) /\ B \subseteq X /\ IsFiniteSet(B)
    BY <1>3, <1>6, <1>7
  <2> HIDE DEF X
  <2>2. X \cap B = B
    BY <2>1
  <2>3. IsFiniteSet(X \ B) /\ Cardinality(X \ B) = Cardinality(X) - Cardinality(X \cap B)
    BY <2>1, FS_Difference
  <2>4. QED
    BY <1>3, <1>7, <2>2, <2>3 DEF X
<1> HIDE DEF W
<1>9. Cardinality(U) <= k - 1 /\ IsFiniteSet(U)
  BY <1>3, <1>4, FS_Subset
<1>10. Cardinality(V) <= Cardinality(S) - k
  <2>1. Cardinality(V) <= Cardinality(W)
    BY <1>5, <1>8, FS_Subset
  <2>2. k \in Nat /\ Cardinality(S) - 1 - (k - 1) = Cardinality(S) - k
    BY <1>1
  <2>3. QED
    BY <1>8, <2>1, <2>2
<1>11. Cardinality(U) \in Nat
  BY <1>9, FS_CardinalityType
<1>12. QED
  BY <1>9, <1>10, <1>11 DEF U, V

(***************************************************************************)
(* Pages.                                                                  *)
(***************************************************************************)
LEMMA MinOfTwo ==
  ASSUME NEW a \in Int, NEW b \in Int
  PROVE  Min({a, b}) = IF a <= b THEN a ELSE b
<1>1. \E x \in {a, b} : \A y \in {a, b} : x <= y
  OBVIOUS
<1>2. Min({a, b}) \in {a, b} /\ \A y \in {a, b} : Min({a, b}) <= y
  BY <1>1 DEF Min
<1>3. QED
  BY <1>2

LEMMA PageSize ==
  ASSUME NEW l \in Nat, NEW m \in Int
  PROVE  Min({l, Max({0, m})}) = IF m <= 0 THEN 0 ELSE IF l <= m THEN l ELSE m
<1> DEFINE s == Max({0, m})
<1>1. \E x \in {0, m} : \A y \in {0, m} : x >= y
  OBVIOUS
<1>2. s \in {0, m} /\ \A y \in {0, m} : s >= y
  BY <1>1 DEF Max
<1>3. s = IF m <= 0 THEN 0 ELSE m
  BY <1>2
<1> HIDE DEF s
<1>4. s \in Int
  BY <1>3
<1>5. Min({l, s}) = IF l <= s THEN l ELSE s
  BY <1>4, MinOfTwo
<1>6. QED
  BY <1>3, <1>5 DEF s

\* A page has the rows after the offset, at most limit of them.
IsPage(p, s, offset, limit) ==
  /\ Len(p) = Min({limit, Max({0, Len(s) - offset})})
  /\ limit = 0 \/ offset >= Len(s) => p = <<>>
  /\ \A k \in 1..Len(p) : offset + k \in 1..Len(s) /\ p[k] = s[offset + k]

LEMMA PageIs ==
  ASSUME NEW S, NEW s \in Seq(S), NEW offset \in Nat, NEW limit \in Nat
  PROVE  PageOf(s, offset, limit) \in Seq(S) /\ IsPage(PageOf(s, offset, limit), s, offset, limit)
<1> DEFINE p == PageOf(s, offset, limit)
           last == Min({offset + limit, Len(s)})
           first == offset + 1
           left == Len(s) - offset
<1>1. Len(s) \in Nat /\ \A i \in 1..Len(s) : s[i] \in S
  OBVIOUS
<1>2. last = IF offset + limit <= Len(s) THEN offset + limit ELSE Len(s)
  <2> DEFINE e == offset + limit
             n == Len(s)
  <2>1. e \in Int /\ n \in Int
    BY <1>1
  <2> HIDE DEF e, n
  <2>2. Min({e, n}) = IF e <= n THEN e ELSE n
    BY <2>1, MinOfTwo
  <2>3. QED
    BY <2>2 DEF e, n
<1>3. Min({limit, Max({0, left})}) = IF left <= 0 THEN 0 ELSE IF limit <= left THEN limit ELSE left
  <2>1. left \in Int
    BY <1>1
  <2> HIDE DEF left
  <2>2. QED
    BY <2>1, PageSize
<1>4. p = SubSeq(s, first, last)
  BY DEF PageOf
<1>5. first \in Int /\ last \in Int /\ first >= 1 /\ last <= Len(s)
  BY <1>1, <1>2
<1>6. \A i \in first..last : s[i] \in S
  BY <1>1, <1>5
<1> HIDE DEF p
<1>7. /\ p \in Seq(S) /\ Len(p) = IF first <= last THEN last - first + 1 ELSE 0
      /\ \A i \in 1..(last - first + 1) : p[i] = s[first + i - 1]
  <2> HIDE DEF first, last
  <2>1. QED
    BY <1>4, <1>5, <1>6, SubSeqProperties
<1> HIDE DEF last
<1>8. Len(p) = Min({limit, Max({0, left})})
  BY <1>1, <1>2, <1>3, <1>7
<1>9. limit = 0 \/ offset >= Len(s) => p = <<>>
  <2>1. limit = 0 \/ offset >= Len(s) => Len(p) = 0
    BY <1>1, <1>3, <1>8
  <2>2. QED
    BY <1>7, <2>1
<1>10. ASSUME NEW k \in 1..Len(p) PROVE offset + k \in 1..Len(s) /\ p[k] = s[offset + k]
  <2>1. k \in 1..(last - first + 1) /\ first + k - 1 = offset + k
    BY <1>5, <1>7
  <2>2. offset + k \in 1..Len(s)
    BY <1>1, <1>5, <2>1
  <2>3. QED
    BY <1>7, <2>1, <2>2
<1>11. QED
  BY <1>7, <1>8, <1>9, <1>10 DEF p, IsPage

(***************************************************************************)
(* The terms of ORDER BY.                                                  *)
(***************************************************************************)
OrderTerms == [ref : ColumnRefs, desc : BOOLEAN, op : STRING, vector : {"", Bad}]

\* The pairs of rows that a term, a sort clause or a search tells apart.
Term(t) == {p \in Places : SqlAhead(t, Table[p[1]], Table[p[2]])}
ClauseOf(c) == {p \in Places : Ahead(c, Table[p[1]], Table[p[2]])}
NearOf(specs) == {p \in Places : \E spec \in specs : Nearer(spec, Table[p[1]], Table[p[2]])}

LEMMA LessWeak ==
  ASSUME NEW f \in ToSet(Fields) \ VectorFields
  PROVE  /\ \A x, y \in DOMAIN Table :
              SqlLess(f, Table[x][f], Table[y][f]) => ~SqlLess(f, Table[y][f], Table[x][f])
         /\ \A x, y, z \in DOMAIN Table :
              SqlLess(f, Table[x][f], Table[z][f]) =>
                SqlLess(f, Table[x][f], Table[y][f]) \/ SqlLess(f, Table[y][f], Table[z][f])
<1> DEFINE C == {Null} \cup IF f \in BoolFields THEN {Yes, No} ELSE Int
<1>1. \A x \in DOMAIN Table : Table[x][f] \in C
  BY TableAssumption
<1>2. /\ \A a, b \in C : SqlLess(f, a, b) => ~SqlLess(f, b, a)
      /\ \A a, b, c \in C : SqlLess(f, a, c) => SqlLess(f, a, b) \/ SqlLess(f, b, c)
  <2>1. CASE f \in BoolFields
    BY <2>1, TableAssumption DEF SqlLess, LessCell
  <2>2. CASE f \notin BoolFields
    <3>1. \A a \in C : a # Null => a \in Int
      BY <2>2
    <3>2. QED
      BY <2>2, <3>1 DEF SqlLess, LessCell
  <2>3. QED
    BY <2>1, <2>2
<1> HIDE DEF C
<1>3. QED
  BY <1>1, <1>2

LEMMA ColumnTermWeak ==
  ASSUME NEW t \in OrderTerms, t.op = "", t.ref[2] \in ToSet(Fields) \ VectorFields
  PROVE  Weak(Term(t))
<1> DEFINE f == t.ref[2]
           Less(x, y) == SqlLess(f, Table[x][f], Table[y][f])
<1>1. \A x, y \in DOMAIN Table : <<x, y>> \in Term(t) <=> IF t.desc THEN Less(y, x) ELSE Less(x, y)
  BY DEF Term, Places, SqlAhead
<1>2. /\ \A x, y \in DOMAIN Table : Less(x, y) => ~Less(y, x)
      /\ \A x, y, z \in DOMAIN Table : Less(x, z) => Less(x, y) \/ Less(y, z)
  BY LessWeak
<1> HIDE DEF Less
<1>3. QED
  BY <1>1, <1>2 DEF Weak

\* A vector cell has a distance under each operator.
LEMMA DistanceIs ==
  ASSUME NEW f \in VectorFields, NEW i \in DOMAIN Table, NEW op \in {"<->", "<=>", "<#>"}
  PROVE  /\ \A g \in {"L2", "COSINE", "IP"} : Table[i][f][g] \in Int
         /\ Distance(op, Table[i][f]) \in Int
         /\ op = "<->" => DistanceMetrics[op] = "L2" /\ Distance(op, Table[i][f]) = Table[i][f]["L2"]
         /\ op = "<=>" => DistanceMetrics[op] = "COSINE" /\ Distance(op, Table[i][f]) = 1 - Table[i][f]["COSINE"]
         /\ op = "<#>" => DistanceMetrics[op] = "IP" /\ Distance(op, Table[i][f]) = -Table[i][f]["IP"]
<1>1. f \in ToSet(Fields)
  BY SelectAssumption
<1>2. Table[i][f] \in [{"L2", "COSINE", "IP"} -> Int]
  BY <1>1, TableAssumption DEF Metrics
<1>3. \A g \in {"L2", "COSINE", "IP"} : Table[i][f][g] \in Int
  BY <1>2
<1>4. CASE op = "<->"
  BY <1>3, <1>4 DEF Distance, DistanceMetrics
<1>5. CASE op = "<=>"
  BY <1>3, <1>5 DEF Distance, DistanceMetrics
<1>6. CASE op = "<#>"
  BY <1>3, <1>6 DEF Distance, DistanceMetrics
<1>7. QED
  BY <1>3, <1>4, <1>5, <1>6

LEMMA DistanceTermWeak ==
  ASSUME NEW t \in OrderTerms, t.op \in {"<->", "<=>", "<#>"}, t.ref[2] \in VectorFields
  PROVE  Weak(Term(t))
<1> DEFINE f == t.ref[2]
           d(i) == Distance(t.op, Table[i][f])
<1>1. \A x, y \in DOMAIN Table : <<x, y>> \in Term(t) <=> d(x) < d(y)
  BY DEF Term, Places, SqlAhead
<1>2. \A x \in DOMAIN Table : d(x) \in Int
  BY DistanceIs
<1> HIDE DEF d
<1>3. QED
  BY <1>1, <1>2 DEF Weak

\* What the store calls near is near in SQL.
LEMMA NearIsTerm ==
  ASSUME NEW t \in OrderTerms, t.op \in {"<->", "<=>", "<#>"}, t.ref[2] \in VectorFields
  PROVE  NearOf({[field |-> t.ref[2], metric |-> DistanceMetrics[t.op]]}) = Term(t)
<1> DEFINE f == t.ref[2]
           m == DistanceMetrics[t.op]
           spec == [field |-> f, metric |-> m]
           d(i) == Distance(t.op, Table[i][f])
<1>1. ASSUME NEW x \in DOMAIN Table, NEW y \in DOMAIN Table
      PROVE  Nearer(spec, Table[x], Table[y]) <=> SqlAhead(t, Table[x], Table[y])
  <2>1. SqlAhead(t, Table[x], Table[y]) <=> d(x) < d(y)
    BY DEF SqlAhead
  <2>2. Nearer(spec, Table[x], Table[y]) <=> IF m = "L2" THEN Table[x][f][m] < Table[y][f][m]
                                             ELSE Table[x][f][m] > Table[y][f][m]
    BY DEF Nearer
  <2> HIDE DEF d, spec, m
  <2>3. CASE t.op = "<->"
    <3>1. m = "L2" /\ d(x) = Table[x][f]["L2"] /\ d(y) = Table[y][f]["L2"]
      BY <2>3, DistanceIs DEF d, m
    <3>2. QED
      BY <2>1, <2>2, <3>1
  <2>4. CASE t.op = "<=>"
    <3>1. m = "COSINE" /\ d(x) = 1 - Table[x][f]["COSINE"] /\ d(y) = 1 - Table[y][f]["COSINE"]
      BY <2>4, DistanceIs DEF d, m
    <3>2. Table[x][f]["COSINE"] \in Int /\ Table[y][f]["COSINE"] \in Int
      BY DistanceIs
    <3>3. QED
      BY <2>1, <2>2, <3>1, <3>2
  <2>5. CASE t.op = "<#>"
    <3>1. m = "IP" /\ d(x) = -Table[x][f]["IP"] /\ d(y) = -Table[y][f]["IP"]
      BY <2>5, DistanceIs DEF d, m
    <3>2. Table[x][f]["IP"] \in Int /\ Table[y][f]["IP"] \in Int
      BY DistanceIs
    <3>3. QED
      BY <2>1, <2>2, <3>1, <3>2
  <2>6. QED
    BY <2>3, <2>4, <2>5
<1> HIDE DEF spec
<1>2. NearOf({spec}) = Term(t)
  BY <1>1 DEF NearOf, Term, Places
<1>3. QED
  BY <1>2 DEF spec

\* A sort clause is the term it was written as, unless it turns around missing cells.
LEMMA ClauseIsTerm ==
  ASSUME NEW t \in OrderTerms, t.op = "",
         t.desc => \A k \in DOMAIN Table : Table[k][t.ref[2]] # Null
  PROVE  ClauseOf([t EXCEPT !.ref = Strip(@)]) = Term(t)
<1> DEFINE c == [t EXCEPT !.ref = Strip(@)]
           f == t.ref[2]
<1>1. c.ref = f /\ c.desc = t.desc
  BY DEF OrderTerms, Strip
<1> HIDE DEF c
<1>2. ASSUME NEW x \in DOMAIN Table, NEW y \in DOMAIN Table
      PROVE  Ahead(c, Table[x], Table[y]) <=> SqlAhead(t, Table[x], Table[y])
  BY <1>1, <1>2 DEF Ahead, SqlAhead, SqlLess
<1>3. QED
  BY <1>2 DEF ClauseOf, Term, Places, c

(***************************************************************************)
(* The plan at work.                                                       *)
(***************************************************************************)
\* The statement is the one that was written with its references stripped, and the
\* plan is what Lower makes of it.
LowerInv ==
  /\ stmt \in Statements
  /\ stage \in {"parsed", "folded", "planned"} =>
       /\ ~SyntaxRefused(stmt)
       /\ select.columns = StripColumns(stmt.columns) /\ select.order = StripOrder(stmt.order)
  /\ stage \in {"folded", "planned"} => plan = Lower(select) /\ ~SearchRefused(select.order)

LEMMA LowerInit == Init => LowerInv
BY DEF Init, LowerInv

LEMMA LowerNext == LowerInv /\ [Next]_vars => LowerInv'
<1>1. SUFFICES ASSUME LowerInv, [Next]_vars PROVE LowerInv'
  OBVIOUS
<1>2. CASE ParseStep
  <2>1. CASE stage' = "refused"
    BY <1>1, <1>2, <2>1 DEF LowerInv, ParseStep
  <2>2. CASE stage' # "refused"
    <3>1. stage' = "parsed" /\ stmt' = stmt /\ ~SyntaxRefused(stmt)
      BY <1>2, <2>2 DEF ParseStep, Refuse
    <3>2. select'.columns = StripColumns(stmt.columns) /\ select'.order = StripOrder(stmt.order)
      <4> DEFINE cols == StripColumns(stmt.columns)
                 ord == StripOrder(stmt.order)
      <4>1. select' = [stmt EXCEPT !.columns = cols, !.order = ord]
        BY <1>2, <2>2 DEF ParseStep, Refuse
      <4>2. {"where", "limit", "offset", "columns", "order"} \subseteq DOMAIN stmt
        BY <1>1, StatementParts DEF LowerInv
      <4> HIDE DEF cols, ord
      <4>3. select'.columns = cols /\ select'.order = ord
        BY <4>1, <4>2
      <4>4. QED
        BY <4>3 DEF cols, ord
    <3>3. SyntaxRefused(stmt)' = SyntaxRefused(stmt)
      BY <3>1 DEF SyntaxRefused, BadCount, OrderRefused
    <3>4. QED
      BY <1>1, <3>1, <3>2, <3>3 DEF LowerInv
  <2>3. QED
    BY <2>1, <2>2
<1>3. CASE PlanStep
  <2>1. CASE stage' = "refused"
    BY <1>1, <1>3, <2>1 DEF LowerInv, PlanStep
  <2>2. CASE stage' # "refused"
    <3>1. /\ stage = "parsed" /\ stmt' = stmt /\ select' = select
          /\ plan' = Lower(select) /\ ~SearchRefused(select.order) /\ stage' \in {"planned", "folded"}
      BY <1>3, <2>2 DEF PlanStep, Refuse
    <3>2. SyntaxRefused(stmt)' = SyntaxRefused(stmt)
      BY <3>1 DEF SyntaxRefused, BadCount, OrderRefused
    <3>3. Lower(select)' = Lower(select) /\ SearchRefused(select.order)' = SearchRefused(select.order)
      BY <3>1, Zenon
    <3>4. QED
      BY <1>1, <3>1, <3>2, <3>3 DEF LowerInv
  <2>3. QED
    BY <2>1, <2>2
<1>4. CASE UNCHANGED <<stmt, select, plan>> /\ ((stage' \in {"planned", "refused"} /\ stage = "folded") \/ stage' = stage)
  <2>1. SyntaxRefused(stmt)' = SyntaxRefused(stmt)
    BY <1>4 DEF SyntaxRefused, BadCount, OrderRefused
  <2>2. Lower(select)' = Lower(select) /\ SearchRefused(select.order)' = SearchRefused(select.order)
    BY <1>4, Zenon
  <2>3. QED
    BY <1>1, <1>4, <2>1, <2>2 DEF LowerInv
<1>5. CASE BuildStep
  BY <1>4, <1>5 DEF BuildStep, Refuse
<1>6. CASE Finished \/ UNCHANGED vars
  BY <1>4, <1>6 DEF Finished, vars
<1>7. QED
  BY <1>1, <1>2, <1>3, <1>5, <1>6 DEF Next

LEMMA LowerAlways == Spec => []LowerInv
BY LowerInit, LowerNext, PTL DEF Spec

LEMMA OrderParts ==
  ASSUME NEW s \in Statements
  PROVE  s.order \in Seq(OrderTerms) /\ s.columns \in Seq(ColumnRefs)
<1> DEFINE O == Seq(OrderTerms)
           C == Seq(ColumnRefs)
           A == SUBSET Qualifiers
           I == SUBSET ({Bad} \cup Int)
<1>1. s \in [columns : C, alias : A, where : Conditions, order : O, limit : I, offset : I, beyond : BOOLEAN]
  BY SelectAssumption DEF OrderTerms
<1> HIDE DEF O, C, A, I
<1>2. s.order \in O /\ s.columns \in C
  BY <1>1
<1>3. QED
  BY <1>2 DEF O, C

Hits == {i \in DOMAIN Table : Selects(expr, Table[i])}
SqlOrder == Lexicographic([k \in DOMAIN stmt.order |-> Term(stmt.order[k])])

\* What Executed is in terms of the above.
LEMMA ExecutedUnfolds ==
  Executed =
    IF noMatch THEN <<>>
    ELSE IF plan.sort = <<>> THEN PageOf(InOrder(Hits, NearOf(plan.search)), plan.offset, plan.limit)
    ELSE IF ~\A i \in DOMAIN plan.sort : plan.sort[i].ref \in ToSet(Fields) \ VectorFields THEN Failed
    ELSE WindowRows(InOrder(Hits, Lexicographic([k \in DOMAIN plan.sort |-> ClauseOf(plan.sort[k])])),
                    plan.offset, plan.limit)
BY DEF Executed, Hits, NearOf, ClauseOf

\* No order, or one term: the terms are their own order.
LEMMA FewTerms ==
  /\ Weak({}) /\ NearOf({}) = {}
  /\ \A terms : DOMAIN terms = {} => Lexicographic(terms) = {}
  /\ \A terms : DOMAIN terms = {1} /\ terms[1] \subseteq Places => Lexicographic(terms) = terms[1]
<1>1. Weak({}) /\ NearOf({}) = {}
  BY DEF Weak, NearOf
<1>2. \A terms : DOMAIN terms = {} => Lexicographic(terms) = {}
  BY DEF Lexicographic
<1>3. ASSUME NEW terms, DOMAIN terms = {1}, terms[1] \subseteq Places PROVE Lexicographic(terms) = terms[1]
  BY <1>3 DEF Lexicographic
<1>4. QED
  BY <1>1, <1>2, <1>3

\* The order of a planned statement: columns only, or one distance to a vector field,
\* which the plan searches by the metric of its operator.
LEMMA SearchIs ==
  ASSUME LowerInv, stage = "planned"
  PROVE  \/ (\A i \in DOMAIN stmt.order : stmt.order[i].op = "") /\ plan.search = {}
         \/ /\ DOMAIN stmt.order = {1} /\ stmt.order[1] \in OrderTerms /\ plan.sort = <<>>
            /\ stmt.order[1].op \in {"<->", "<=>", "<#>"} /\ stmt.order[1].ref[2] \in VectorFields
            /\ plan.search = {[field |-> stmt.order[1].ref[2], metric |-> DistanceMetrics[stmt.order[1].op]]}
<1> DEFINE O == stmt.order
           one == /\ DOMAIN O = {1} /\ O[1] \in OrderTerms /\ plan.sort = <<>>
                  /\ O[1].op \in {"<->", "<=>", "<#>"} /\ O[1].ref[2] \in VectorFields
                  /\ plan.search = {[field |-> O[1].ref[2], metric |-> DistanceMetrics[O[1].op]]}
<1>1. O \in Seq(OrderTerms) /\ Len(O) \in Nat /\ DOMAIN O = 1..Len(O) /\ \A i \in DOMAIN O : O[i] \in OrderTerms
  <2>1. O \in Seq(OrderTerms)
    BY OrderParts DEF LowerInv
  <2> HIDE DEF O
  <2>2. QED
    BY <2>1
<1>2. /\ select.order = StripOrder(O) /\ ~OrderRefused(O) /\ ~SearchRefused(select.order)
      /\ plan = Lower(select)
  BY DEF LowerInv, SyntaxRefused
<1> DEFINE P == StripOrder(O)
<1> HIDE DEF O
<1>3. DOMAIN P = DOMAIN O /\ \A i \in DOMAIN O : P[i] = [O[i] EXCEPT !.ref = Strip(@)]
  BY DEF StripOrder
<1>4. \A i \in DOMAIN O : P[i].op = O[i].op /\ P[i].ref = O[i].ref[2] /\ P[i].vector = O[i].vector
  <2> SUFFICES ASSUME NEW i \in DOMAIN O
               PROVE  P[i].op = O[i].op /\ P[i].ref = O[i].ref[2] /\ P[i].vector = O[i].vector
    OBVIOUS
  <2>1. O[i] \in OrderTerms
    BY <1>1
  <2>2. P[i] = [O[i] EXCEPT !.ref = Strip(@)]
    BY <1>3
  <2> HIDE DEF P
  <2>3. QED
    BY <2>1, <2>2 DEF OrderTerms, Strip
<1>5. /\ plan.sort = (IF \A i \in DOMAIN O : O[i].op = "" THEN P ELSE <<>>)
      /\ plan.search = {[field |-> d.ref, metric |-> DistanceMetrics[d.op]] : d \in {t \in ToSet(P) : t.op # ""}}
  <2> DEFINE ds == {t \in ToSet(P) : t.op # ""}
             X == {[field |-> d.ref, metric |-> DistanceMetrics[d.op]] : d \in ds}
  <2>1. plan.sort = (IF ds = {} THEN P ELSE <<>>) /\ plan.search = X
    BY <1>2 DEF Lower, IsDistance
  <2>2. ds = {} <=> \A i \in DOMAIN O : O[i].op = ""
    <3> HIDE DEF P
    <3>1. QED
      BY <1>3, <1>4 DEF ToSet
  <2>3. QED
    BY <2>1, <2>2
<1>6. ASSUME NEW j \in DOMAIN O, O[j].op # "" PROVE one
  <2>1. Len(O) = 1 /\ j = 1 /\ DOMAIN O = {1}
    <3>1. ~(Len(O) > 1)
      BY <1>2, <1>6, Zenon DEF OrderRefused
    <3>2. j \in 1..Len(O)
      BY <1>1, <1>6
    <3>3. Len(O) = 1 /\ j = 1
      BY <1>1, <3>1, <3>2
    <3>4. QED
      BY <1>1, <3>3
  <2> DEFINE t == O[1]
  <2>2. t \in OrderTerms /\ t.op # "" /\ P[1].op = t.op /\ P[1].ref = t.ref[2]
    BY <1>1, <1>4, <1>6, <2>1
  <2>3. t.op \in {"<->", "<=>", "<#>"} /\ t.ref[2] \in VectorFields
    <3>1. DOMAIN DistanceMetrics = {"<->", "<=>", "<#>"}
      BY DEF DistanceMetrics
    <3> HIDE DEF P, t
    <3>2. P[1].op \in DOMAIN DistanceMetrics /\ P[1].ref \in VectorFields
      BY <1>2, <1>3, <2>1, <2>2 DEF SearchRefused, P
    <3>3. QED
      BY <2>2, <3>1, <3>2
  <2>4. plan.sort = <<>>
    BY <1>5, <1>6
  <2>5. plan.search = {[field |-> t.ref[2], metric |-> DistanceMetrics[t.op]]}
    <3> DEFINE ds == {u \in ToSet(P) : u.op # ""}
    <3>1. ds = {P[1]}
      <4> HIDE DEF P, t
      <4>1. ToSet(P) = {P[1]}
        BY <1>3, <2>1 DEF ToSet
      <4>2. QED
        BY <2>2, <4>1
    <3>2. plan.search = {[field |-> d.ref, metric |-> DistanceMetrics[d.op]] : d \in ds}
      BY <1>5
    <3> HIDE DEF ds, P, t
    <3>3. plan.search = {[field |-> P[1].ref, metric |-> DistanceMetrics[P[1].op]]}
      BY <3>1, <3>2
    <3>4. QED
      BY <2>2, <3>3
  <2>6. QED
    BY <2>1, <2>2, <2>3, <2>4, <2>5
<1>7. CASE \A i \in DOMAIN O : O[i].op = ""
  <2>1. {u \in ToSet(P) : u.op # ""} = {}
    <3> HIDE DEF P
    <3>1. QED
      BY <1>3, <1>4, <1>7 DEF ToSet
  <2>2. plan.search = {}
    BY <1>5, <2>1
  <2>3. QED
    BY <1>7, <2>2 DEF O
<1>8. QED
  BY <1>6, <1>7 DEF O

\* A planned statement fails over a vector in ORDER BY or a page that leaves the
\* integers; otherwise its answer is a page of the passing rows in SQL's order.
LEMMA ExecutedIs ==
  ASSUME LowerInv, stage = "planned", UnknownColumns = {}, ~DescendingOverNull, noMatch = FALSE,
         Value(stmt.offset, 0) = plan.offset, Value(stmt.limit, 0) = plan.limit,
         plan.offset \in Nat, plan.limit \in Nat
  PROVE  \/ /\ \/ \E i \in DOMAIN stmt.order :
                    stmt.order[i].op = "" /\ stmt.order[i].ref[2] \in VectorFields
               \/ Value(stmt.offset, 0) + Value(stmt.limit, 0) > MaxInt
            /\ Executed = Failed
         \/ /\ Weak(SqlOrder)
            /\ Executed = PageOf(InOrder(Hits, SqlOrder), plan.offset, plan.limit)
<1> DEFINE O == stmt.order
           cause == \/ \E i \in DOMAIN O : O[i].op = "" /\ O[i].ref[2] \in VectorFields
                    \/ Value(stmt.offset, 0) + Value(stmt.limit, 0) > MaxInt
           goal == \/ cause /\ Executed = Failed
                   \/ Weak(SqlOrder) /\ Executed = PageOf(InOrder(Hits, SqlOrder), plan.offset, plan.limit)
<1>1. O \in Seq(OrderTerms) /\ Len(O) \in Nat /\ DOMAIN O = 1..Len(O) /\ \A i \in DOMAIN O : O[i] \in OrderTerms
  <2>1. O \in Seq(OrderTerms)
    BY OrderParts DEF LowerInv
  <2> HIDE DEF O
  <2>2. QED
    BY <2>1
<1>2. /\ select.order = StripOrder(O) /\ ~OrderRefused(O) /\ ~SearchRefused(select.order)
      /\ plan = Lower(select)
  BY DEF LowerInv, SyntaxRefused
<1> DEFINE P == StripOrder(O)
<1> HIDE DEF O
<1> SUFFICES goal
  BY DEF O
<1>3. DOMAIN P = DOMAIN O /\ \A i \in DOMAIN O : P[i] = [O[i] EXCEPT !.ref = Strip(@)]
  BY DEF StripOrder
<1>4. \A i \in DOMAIN O : P[i].op = O[i].op /\ P[i].ref = O[i].ref[2] /\ P[i].vector = O[i].vector
  <2> SUFFICES ASSUME NEW i \in DOMAIN O
               PROVE  P[i].op = O[i].op /\ P[i].ref = O[i].ref[2] /\ P[i].vector = O[i].vector
    OBVIOUS
  <2>1. O[i] \in OrderTerms
    BY <1>1
  <2>2. P[i] = [O[i] EXCEPT !.ref = Strip(@)]
    BY <1>3
  <2> HIDE DEF P
  <2>3. QED
    BY <2>1, <2>2 DEF OrderTerms, Strip
<1>5. \A i \in DOMAIN O : O[i].ref[2] \in ToSet(Fields)
  BY DEF UnknownColumns, References, O
<1>6. /\ plan.sort = (IF \A i \in DOMAIN O : O[i].op = "" THEN P ELSE <<>>)
      /\ plan.search = {[field |-> d.ref, metric |-> DistanceMetrics[d.op]] : d \in {t \in ToSet(P) : t.op # ""}}
  <2> DEFINE ds == {t \in ToSet(P) : t.op # ""}
             X == {[field |-> d.ref, metric |-> DistanceMetrics[d.op]] : d \in ds}
  <2>1. plan.sort = (IF ds = {} THEN P ELSE <<>>) /\ plan.search = X
    BY <1>2 DEF Lower, IsDistance
  <2>2. ds = {} <=> \A i \in DOMAIN O : O[i].op = ""
    <3> HIDE DEF P
    <3>1. QED
      BY <1>3, <1>4 DEF ToSet
  <2>3. QED
    BY <2>1, <2>2
<1>7. \A i \in DOMAIN O : O[i].desc => \A k \in DOMAIN Table : Table[k][O[i].ref[2]] # Null
  BY DEF DescendingOverNull, O
<1>8. ASSUME NEW j \in DOMAIN O, O[j].op # "" PROVE goal
  <2> DEFINE t == O[1]
  <2>1. DOMAIN O = {1} /\ t \in OrderTerms /\ plan.sort = <<>>
    BY <1>8, SearchIs DEF O
  <2>2. t.op \in {"<->", "<=>", "<#>"} /\ t.ref[2] \in VectorFields
    BY <1>8, SearchIs DEF O
  <2>3. t.op # ""
    BY <2>2
  <2>4. plan.search = {[field |-> t.ref[2], metric |-> DistanceMetrics[t.op]]}
    BY <1>8, SearchIs DEF O
  <2>5. NearOf(plan.search) = Term(t) /\ Weak(Term(t))
    BY <2>1, <2>2, <2>3, <2>4, NearIsTerm, DistanceTermWeak
  <2>6. SqlOrder = Term(t)
    <3> DEFINE terms == [k \in DOMAIN O |-> Term(O[k])]
    <3>1. DOMAIN terms = {1} /\ terms[1] = Term(t)
      BY <2>1
    <3>2. Term(t) \subseteq Places
      BY DEF Term
    <3> HIDE DEF terms, t
    <3>3. Lexicographic(terms) = Term(t)
      BY <3>1, <3>2, FewTerms
    <3>4. QED
      BY <3>3 DEF SqlOrder, terms, O
  <2>7. QED
    BY <2>1, <2>5, <2>6, ExecutedUnfolds
<1>9. CASE O = <<>>
  <2>1. DOMAIN O = {} /\ Len(O) = 0
    BY <1>9
  <2>2. plan.sort = <<>> /\ plan.search = {}
    <3>1. ToSet(P) = {}
      BY <1>3, <2>1 DEF ToSet
    <3>2. plan.search = {}
      BY <1>6, <3>1
    <3>3. P = <<>>
      <4>1. DOMAIN P = {} /\ P = [i \in DOMAIN O |-> [O[i] EXCEPT !.ref = Strip(@)]]
        BY <1>3, <2>1 DEF StripOrder
      <4>2. QED
        BY <2>1, <4>1
    <3>4. QED
      BY <1>6, <3>2, <3>3
  <2>3. SqlOrder = {}
    <3> DEFINE terms == [k \in DOMAIN O |-> Term(O[k])]
    <3>1. DOMAIN terms = {}
      BY <2>1
    <3>2. QED
      BY <3>1, FewTerms DEF SqlOrder, O
  <2>4. QED
    BY <2>2, <2>3, ExecutedUnfolds, FewTerms
<1>10. CASE O # <<>> /\ \A i \in DOMAIN O : O[i].op = ""
  <2>1. plan.sort = P
    BY <1>6, <1>10
  <2>2. P # <<>>
    <3>1. Len(O) # 0
      BY <1>1, <1>10, EmptySeq
    <3>2. 1 \in DOMAIN P
      BY <1>1, <1>3, <3>1
    <3> HIDE DEF P
    <3>3. QED
      BY <3>2
  <2> DEFINE clauses == [k \in DOMAIN P |-> ClauseOf(P[k])]
             sortable == \A i \in DOMAIN P : P[i].ref \in ToSet(Fields) \ VectorFields
  <2>3. Executed = IF ~sortable THEN Failed
                   ELSE WindowRows(InOrder(Hits, Lexicographic(clauses)), plan.offset, plan.limit)
    BY <2>1, <2>2, ExecutedUnfolds
  <2>4. CASE ~sortable
    <3>1. \E i \in DOMAIN O : O[i].ref[2] \in VectorFields
      <4> HIDE DEF P
      <4>1. QED
        BY <1>3, <1>4, <1>5, <2>4
    <3>2. QED
      BY <1>10, <2>3, <2>4, <3>1
  <2>5. CASE sortable
    <3> DEFINE terms == [k \in DOMAIN O |-> Term(O[k])]
    <3>1. \A k \in DOMAIN O : ClauseOf(P[k]) = Term(O[k])
      BY <1>1, <1>3, <1>7, <1>10, ClauseIsTerm
    <3>2. clauses = terms
      <4> HIDE DEF P
      <4>1. QED
        BY <1>3, <3>1
    <3>3. \A k \in DOMAIN O : Weak(Term(O[k]))
      <4>1. \A k \in DOMAIN O : O[k].ref[2] \in ToSet(Fields) \ VectorFields
        <5> HIDE DEF P
        <5>1. QED
          BY <1>3, <1>4, <2>5
      <4>2. QED
        BY <1>1, <1>10, <4>1, ColumnTermWeak
    <3>4. SqlOrder = Lexicographic(terms)
      BY DEF SqlOrder, O
    <3>5. Weak(SqlOrder)
      <4>1. DOMAIN terms = 1..Len(O) /\ \A k \in 1..Len(O) : Weak(terms[k])
        BY <1>1, <3>3
      <4> HIDE DEF terms
      <4>2. QED
        BY <1>1, <3>4, <4>1, LexicographicWeak
    <3> DEFINE s == InOrder(Hits, SqlOrder)
    <3>6. Executed = WindowRows(s, plan.offset, plan.limit)
      BY <2>3, <2>5, <3>2, <3>4
    <3>7. Hits \in SUBSET DOMAIN Table
      BY DEF Hits
    <3>8. s \in Seq(Hits)
      BY <3>5, <3>7, InOrderRows
    <3>9. plan.offset = Value(stmt.offset, 0) /\ plan.limit = Value(stmt.limit, 0) /\ plan.offset \in Nat /\ plan.limit \in Nat
      OBVIOUS
    <3> HIDE DEF s
    <3>10. CASE plan.limit = 0 \/ plan.offset >= Len(s)
      <4>1. Executed = <<>>
        BY <3>6, <3>10 DEF WindowRows
      <4>2. PageOf(s, plan.offset, plan.limit) = <<>>
        BY <3>8, <3>9, <3>10, PageIs, ZenonT(40) DEF IsPage
      <4>3. QED
        BY <3>5, <4>1, <4>2 DEF s
    <3>11. CASE ~(plan.limit = 0 \/ plan.offset >= Len(s)) /\ Wrap(plan.offset + plan.limit) < plan.offset
      <4>1. Executed = Failed
        BY <3>6, <3>11 DEF WindowRows
      <4>2. plan.offset + plan.limit > MaxInt
        <5>1. SUFFICES ASSUME ~(plan.offset + plan.limit > MaxInt) PROVE FALSE
          OBVIOUS
        <5>2. plan.offset + plan.limit \in Nat /\ plan.offset + plan.limit <= MaxInt
          <6>1. MaxInt \in Nat
            BY SelectAssumption
          <6>2. QED
            BY <3>9, <5>1, <6>1
        <5>3. Wrap(plan.offset + plan.limit) = plan.offset + plan.limit
          BY <5>2, WrapFits
        <5>4. QED
          BY <3>9, <3>11, <5>3
      <4>3. QED
        BY <3>9, <4>1, <4>2
    <3>12. CASE ~(plan.limit = 0 \/ plan.offset >= Len(s)) /\ ~(Wrap(plan.offset + plan.limit) < plan.offset)
      <4>1. Executed = PageOf(s, plan.offset, plan.limit)
        BY <3>6, <3>12 DEF WindowRows
      <4>2. QED
        BY <3>5, <4>1 DEF s
    <3>13. QED
      BY <3>10, <3>11, <3>12
  <2>6. QED
    BY <2>4, <2>5
<1>11. QED
  BY <1>8, <1>9, <1>10

CellsOf(row) ==
  IF stmt.columns = <<>> THEN [k \in DOMAIN Fields |-> row[Fields[k]]]
  ELSE [k \in DOMAIN stmt.columns |-> row[stmt.columns[k][2]]]

\* A data row has the cells that the select list names, or all of them.
LEMMA DataRowIs ==
  ASSUME LowerInv, stage = "planned", UnknownColumns = {}, NEW row
  PROVE  DataRow(row) = CellsOf(row)
<1> DEFINE C == stmt.columns
           P == StripColumns(C)
           source == {f \in ToSet(Fields) : P = <<>> \/ f \in ToSet(P)}
           cols == IF P = <<>> THEN Fields ELSE P
<1>1. C \in Seq(ColumnRefs)
  BY OrderParts DEF LowerInv
<1>2. select.columns = P /\ plan.includes = P
  <2>1. select.columns = P /\ plan = Lower(select)
    BY DEF LowerInv
  <2>2. QED
    BY <2>1 DEF Lower
<1>3. DataRow(row) = [k \in DOMAIN cols |-> IF cols[k] \in source THEN row[cols[k]] ELSE Null]
  BY <1>2 DEF DataRow, Columns
<1>4. DOMAIN P = DOMAIN C /\ \A k \in DOMAIN C : P[k] = C[k][2]
  BY DEF StripColumns, Strip
<1>5. \A k \in DOMAIN C : C[k][2] \in ToSet(Fields)
  BY DEF UnknownColumns, References, ToSet
<1>6. CASE C = <<>>
  <2>1. P = <<>>
    <3>1. DOMAIN C = {}
      BY <1>6
    <3>2. P = [k \in DOMAIN C |-> Strip(C[k])]
      BY DEF StripColumns
    <3>3. QED
      BY <3>1, <3>2
  <2>2. cols = Fields /\ source = ToSet(Fields)
    BY <2>1
  <2>3. \A k \in DOMAIN Fields : Fields[k] \in source
    BY <2>2 DEF ToSet
  <2> HIDE DEF cols, source, P
  <2>4. DataRow(row) = [k \in DOMAIN Fields |-> row[Fields[k]]]
    BY <1>3, <2>2, <2>3
  <2>5. QED
    BY <1>6, <2>4 DEF CellsOf
<1>7. CASE C # <<>>
  <2>1. P # <<>>
    <3>1. Len(C) \in Nat \ {0} /\ DOMAIN C = 1..Len(C)
      BY <1>1, <1>7, EmptySeq
    <3>2. 1 \in DOMAIN P
      BY <1>4, <3>1
    <3> HIDE DEF P
    <3>3. QED
      BY <3>2
  <2>2. cols = P /\ source = {f \in ToSet(Fields) : f \in ToSet(P)}
    BY <2>1
  <2> HIDE DEF cols, source, P
  <2>3. \A k \in DOMAIN C : cols[k] \in source /\ cols[k] = C[k][2]
    BY <1>4, <1>5, <2>2 DEF ToSet
  <2>4. DataRow(row) = [k \in DOMAIN C |-> row[C[k][2]]]
    BY <1>3, <1>4, <2>2, <2>3
  <2>5. QED
    BY <1>7, <2>4 DEF CellsOf
<1>8. QED
  BY <1>6, <1>7

Passing == {i \in DOMAIN Table : Sql(stmt.where, Table[i]) = "true"}
PlaceOf(k) == Value(stmt.offset, 0) + k
AnswerIs(answer) ==
  /\ Len(answer) = Min({Value(stmt.limit, 0), Max({0, Cardinality(Passing) - Value(stmt.offset, 0)})})
  /\ ToSet(answer) \subseteq Passing /\ IsInjective(answer)
  /\ \A k \in DOMAIN answer :
       /\ Cardinality({i \in Passing : <<i, answer[k]>> \in SqlOrder}) < PlaceOf(k)
       /\ Cardinality({i \in Passing : <<answer[k], i>> \in SqlOrder}) <= Cardinality(Passing) - PlaceOf(k)
       /\ DataRow(Table[answer[k]]) = CellsOf(Table[answer[k]])
FailureIs ==
  \/ \E i \in DOMAIN stmt.order : stmt.order[i].op = "" /\ stmt.order[i].ref[2] \in VectorFields
  \/ Value(stmt.offset, 0) + Value(stmt.limit, 0) > MaxInt

\* A page of the passing rows in SQL's order is an answer.
LEMMA PageAnswers ==
  ASSUME LowerInv, stage = "planned", UnknownColumns = {}, Weak(SqlOrder),
         NEW offset \in Nat, NEW limit \in Nat,
         Value(stmt.offset, 0) = offset, Value(stmt.limit, 0) = limit
  PROVE  LET page == PageOf(InOrder(Passing, SqlOrder), offset, limit)
         IN  page # Failed /\ AnswerIs(page)
<1> DEFINE E == SqlOrder
           S == Passing
           s == InOrder(S, E)
           c == Cardinality(S)
           p == PageOf(s, offset, limit)
<1>1. S \in SUBSET DOMAIN Table
  BY DEF Passing
<1> HIDE DEF S, E
<1>2. /\ c \in Nat /\ IsFiniteSet(S) /\ s \in Seq(S) /\ Len(s) = c
      /\ \A k \in 1..c : Rank(S, Tied(S, E), s[k]) = k - 1
  BY <1>1, InOrderRows DEF E
<1> HIDE DEF s
<1>3. /\ p \in Seq(S) /\ Len(p) = Min({limit, Max({0, c - offset})})
      /\ \A k \in 1..Len(p) : offset + k \in 1..c /\ p[k] = s[offset + k]
  <2> HIDE DEF c
  <2>1. /\ p \in Seq(S) /\ Len(p) = Min({limit, Max({0, Len(s) - offset})})
        /\ \A k \in 1..Len(p) : offset + k \in 1..Len(s) /\ p[k] = s[offset + k]
    <3>1. s \in Seq(S)
      BY <1>2
    <3>2. QED
      <4>1. p \in Seq(S) /\ IsPage(p, s, offset, limit)
        BY <3>1, PageIs
      <4> HIDE DEF p
      <4>2. QED
        BY <4>1 DEF IsPage
  <2>2. Len(s) = c
    BY <1>2
  <2> HIDE DEF p
  <2>3. QED
    BY <2>1, <2>2
<1> HIDE DEF p, c
<1>4. Len(p) \in Nat /\ DOMAIN p = 1..Len(p) /\ \A k \in 1..Len(p) : p[k] \in S
  <2>1. p \in Seq(S)
    BY <1>3
  <2>2. QED
    BY <2>1
<1>5. p # Failed
  <2>1. \A x \in S : x # 0
    BY <1>1, TableDomain
  <2>2. SUFFICES ASSUME p = Failed PROVE FALSE
    OBVIOUS
  <2>3. Len(Failed) = 1 /\ Failed[1] = 0
    BY DEF Failed
  <2>4. 1 \in 1..Len(p) /\ p[1] = 0
    BY <2>2, <2>3
  <2>5. QED
    BY <1>4, <2>1, <2>4
<1>6. ToSet(p) \subseteq S
  BY <1>4 DEF ToSet
<1>7. IsInjective(p)
  <2>1. SUFFICES ASSUME NEW a \in 1..Len(p), NEW b \in 1..Len(p), p[a] = p[b] PROVE a = b
    BY <1>4 DEF IsInjective
  <2>2. Rank(S, Tied(S, E), p[a]) = offset + a - 1 /\ Rank(S, Tied(S, E), p[b]) = offset + b - 1
    <3>1. p[a] = s[offset + a] /\ p[b] = s[offset + b] /\ offset + a \in 1..c /\ offset + b \in 1..c
      BY <1>3
    <3>2. \A k \in 1..c : Rank(S, Tied(S, E), s[k]) = k - 1
      BY <1>2
    <3>3. Rank(S, Tied(S, E), s[offset + a]) = offset + a - 1 /\ Rank(S, Tied(S, E), s[offset + b]) = offset + b - 1
      BY <3>1, <3>2
    <3>4. QED
      BY <3>1, <3>3
  <2>3. offset + a - 1 = offset + b - 1
    BY <2>1, <2>2
  <2>4. QED
    BY <2>3
<1>8. ASSUME NEW k \in DOMAIN p
      PROVE  /\ Cardinality({i \in S : <<i, p[k]>> \in E}) < offset + k
             /\ Cardinality({i \in S : <<p[k], i>> \in E}) <= c - (offset + k)
             /\ DataRow(Table[p[k]]) = CellsOf(Table[p[k]])
  <2>1. k \in 1..Len(p)
    BY <1>4, <1>8
  <2>2. offset + k \in 1..c /\ p[k] \in S /\ Rank(S, Tied(S, E), p[k]) = (offset + k) - 1
    <3>1. \A i \in 1..c : Rank(S, Tied(S, E), s[i]) = i - 1
      BY <1>2
    <3>2. offset + k \in 1..c /\ p[k] = s[offset + k] /\ p[k] \in S
      BY <1>3, <1>4, <2>1
    <3>3. Rank(S, Tied(S, E), s[offset + k]) = (offset + k) - 1
      BY <3>1, <3>2
    <3>4. QED
      BY <3>2, <3>3
  <2>3. Weak(E)
    BY DEF E
  <2> DEFINE m == offset + k
             a == p[k]
  <2> HIDE DEF m, a
  <2>4. m \in 1..Cardinality(S) /\ a \in S /\ Rank(S, Tied(S, E), a) = m - 1
    BY <2>2 DEF m, a, c
  <2>5. /\ Cardinality({i \in S : <<i, a>> \in E}) < m
        /\ Cardinality({i \in S : <<a, i>> \in E}) <= Cardinality(S) - m
    BY <1>1, <2>3, <2>4, PlaceInOrder
  <2>6. DataRow(Table[p[k]]) = CellsOf(Table[p[k]])
    BY DataRowIs
  <2>7. QED
    BY <2>5, <2>6 DEF m, a, c
<1>9. AnswerIs(p)
  <2>1. \A k \in DOMAIN p : PlaceOf(k) = offset + k
    BY DEF PlaceOf
  <2>2. /\ Len(p) = Min({Value(stmt.limit, 0), Max({0, Cardinality(Passing) - Value(stmt.offset, 0)})})
        /\ ToSet(p) \subseteq Passing /\ IsInjective(p)
    BY <1>3, <1>6, <1>7 DEF c, S
  <2>3. \A k \in DOMAIN p :
          /\ Cardinality({i \in Passing : <<i, p[k]>> \in SqlOrder}) < PlaceOf(k)
          /\ Cardinality({i \in Passing : <<p[k], i>> \in SqlOrder}) <= Cardinality(Passing) - PlaceOf(k)
          /\ DataRow(Table[p[k]]) = CellsOf(Table[p[k]])
    BY <1>8, <2>1 DEF S, E, c
  <2>4. QED
    BY <2>2, <2>3 DEF AnswerIs
<1>10. QED
  BY <1>5, <1>9 DEF p, s, S, E

\* The metric of an operator is the index's exactly if the index measures by it.
LEMMA MetricsAgree ==
  ASSUME NEW f \in VectorFields, NEW op \in {"<->", "<=>", "<#>"}
  PROVE  op = Measures(f) <=> DistanceMetrics[op] = IndexMetric[f]
<1>1. IndexMetric[f] \in {"L2", "COSINE", "IP"}
  BY IndexAssumption DEF Metrics
<1>2. DistanceMetrics["<->"] = "L2" /\ DistanceMetrics["<=>"] = "COSINE" /\ DistanceMetrics["<#>"] = "IP"
  BY DEF DistanceMetrics
<1>3. CASE IndexMetric[f] = "L2"
  BY <1>2, <1>3 DEF Measures
<1>4. CASE IndexMetric[f] = "COSINE"
  BY <1>2, <1>4 DEF Measures
<1>5. CASE IndexMetric[f] = "IP"
  BY <1>2, <1>5 DEF Measures
<1>6. QED
  BY <1>1, <1>3, <1>4, <1>5

\* A distance that the index does not measure is asked of the server, or nothing is.
LEMMA OtherArrives ==
  ASSUME LowerInv, stage = "planned", OtherMetric, noMatch \in BOOLEAN,
         plan.offset \in Nat, plan.limit \in Nat
  PROVE  Mismatched \/ Executed = <<>>
<1>1. PICK i \in DOMAIN stmt.order :
        stmt.order[i].op # "" /\ stmt.order[i].op # Measures(stmt.order[i].ref[2])
  BY DEF OtherMetric
<1> DEFINE t == stmt.order[1]
<1>2. /\ i = 1 /\ plan.sort = <<>> /\ t.op \in {"<->", "<=>", "<#>"} /\ t.ref[2] \in VectorFields
      /\ plan.search = {[field |-> t.ref[2], metric |-> DistanceMetrics[t.op]]}
  BY <1>1, SearchIs
<1>3. DistanceMetrics[t.op] # IndexMetric[t.ref[2]]
  BY <1>1, <1>2, MetricsAgree
<1>4. CASE noMatch
  BY <1>4, ExecutedUnfolds
<1>5. CASE ~noMatch /\ plan.limit = 0
  <2> DEFINE s == InOrder(Hits, NearOf(plan.search))
  <2>1. Executed = PageOf(s, plan.offset, plan.limit)
    BY <1>2, <1>5, ExecutedUnfolds
  <2>2. s \in Seq(Hits)
    <3>1. NearOf(plan.search) = Term(t) /\ Weak(Term(t))
      <4>1. t \in OrderTerms /\ t.op # ""
        BY <1>1, <1>2, SearchIs
      <4>2. QED
        BY <1>2, <4>1, NearIsTerm, DistanceTermWeak
    <3>2. Hits \in SUBSET DOMAIN Table
      BY DEF Hits
    <3>3. QED
      BY <3>1, <3>2, InOrderRows
  <2> HIDE DEF s
  <2>3. PageOf(s, plan.offset, plan.limit) = <<>>
    <3>1. IsPage(PageOf(s, plan.offset, plan.limit), s, plan.offset, plan.limit)
      BY <2>2, PageIs
    <3>2. plan.limit = 0
      BY <1>5
    <3>3. QED
      BY <3>1, <3>2, ZenonT(40) DEF IsPage
  <2>4. QED
    BY <2>1, <2>3
<1>6. CASE ~noMatch /\ plan.limit # 0
  <2> DEFINE spec == [field |-> t.ref[2], metric |-> DistanceMetrics[t.op]]
  <2>1. spec.metric = DistanceMetrics[t.op] /\ spec.field = t.ref[2] /\ plan.search = {spec}
    BY <1>2
  <2> HIDE DEF spec, t
  <2>2. spec \in plan.search /\ spec.metric # IndexMetric[spec.field]
    BY <1>3, <2>1
  <2>3. QED
    BY <1>6, <2>2 DEF Mismatched
<1>7. QED
  BY <1>4, <1>5, <1>6

\* A distance that the index measures, or no distance, is served.
LEMMA OwnArrives ==
  ASSUME LowerInv, stage = "planned", ~OtherMetric
  PROVE  ~Mismatched
<1>1. SUFFICES ASSUME NEW spec \in plan.search PROVE spec.metric = IndexMetric[spec.field]
  BY DEF Mismatched
<1> DEFINE t == stmt.order[1]
<1>2. /\ DOMAIN stmt.order = {1} /\ t.op \in {"<->", "<=>", "<#>"} /\ t.ref[2] \in VectorFields
      /\ plan.search = {[field |-> t.ref[2], metric |-> DistanceMetrics[t.op]]}
  BY <1>1, SearchIs
<1>3. t.op = Measures(t.ref[2])
  BY <1>2 DEF OtherMetric
<1>4. spec.field = t.ref[2] /\ spec.metric = DistanceMetrics[t.op]
  BY <1>1, <1>2
<1>5. QED
  BY <1>2, <1>3, <1>4, MetricsAgree

LEMMA AnswerUnfolds ==
  ASSUME (stage = "planned" /\ UnknownColumns = {} /\ ~NegatesNull[stmt.where] /\ ~DescendingOverNull) =>
           \A answer \in Arrivals :
             IF OtherMetric THEN answer \in {Failed, <<>>}
             ELSE IF answer = Failed THEN FailureIs ELSE AnswerIs(answer)
  PROVE  AnswerFaithful
BY DEF AnswerFaithful, FailureIs, AnswerIs, Passing, PlaceOf, CellsOf, SqlOrder, Term

\* What arrives is an answer of the statement, for tables and pages of every size,
\* orders of any number of terms and conditions of every depth (Plan, and the sort,
\* the window and the projection of the store).
THEOREM AnswersAreFaithful == Spec => []AnswerFaithful
<1>1. PlanInv /\ LowerInv => AnswerFaithful
  <2>1. SUFFICES ASSUME PlanInv, LowerInv, stage = "planned", UnknownColumns = {},
                        ~NegatesNull[stmt.where], ~DescendingOverNull
                 PROVE  \A answer \in Arrivals :
                          IF OtherMetric THEN answer \in {Failed, <<>>}
                          ELSE IF answer = Failed THEN FailureIs ELSE AnswerIs(answer)
    BY AnswerUnfolds
  <2>2. Exact
    BY <2>1, WhereExact DEF WhereFaithful
  <2> DEFINE offset == Value(stmt.offset, 0)
             limit == Value(stmt.limit, 0)
  <2>3. plan.offset = offset /\ plan.limit = limit /\ offset \in Nat /\ limit \in Nat
    <3>1. stmt.limit \in SUBSET ({Bad} \cup Int) /\ stmt.offset \in SUBSET ({Bad} \cup Int)
      BY <2>1, StatementParts DEF PlanInv
    <3>2. ~BadCount(stmt.limit) /\ ~BadCount(stmt.offset) /\ plan.offset = offset /\ plan.limit = limit
      BY <2>1 DEF PlanInv, Paged, SyntaxRefused
    <3>3. QED
      BY <3>1, <3>2, CountFits
  <2> DEFINE right == IF Executed = Failed THEN FailureIs ELSE AnswerIs(Executed)
  <2>4. ASSUME noMatch = TRUE PROVE right
    <3>1. Executed = <<>>
      BY <2>4, ExecutedUnfolds
    <3>2. Passing = {}
      BY <2>2, <2>4, TableDomain DEF Exact, Passing
    <3>3. Executed # Failed
      <4>1. Len(<<>>) = 0 /\ Len(Failed) = 1
        BY DEF Failed
      <4>2. QED
        BY <3>1, <4>1
    <3>4. Cardinality(Passing) = 0
      BY <3>2, FS_EmptySet
    <3> HIDE DEF offset, limit
    <3>5. Min({limit, Max({0, 0 - offset})}) = 0
      BY <2>3, PageSize
    <3>6. ToSet(<<>>) = {} /\ IsInjective(<<>>) /\ DOMAIN <<>> = {}
      BY DEF ToSet, IsInjective
    <3>7. AnswerIs(<<>>)
      BY <3>2, <3>4, <3>5, <3>6 DEF AnswerIs, offset, limit
    <3>8. QED
      BY <3>1, <3>3, <3>7
  <2>5. ASSUME noMatch = FALSE PROVE right
    <3>1. Hits = Passing
      BY <2>2, <2>5, TableDomain DEF Exact, Hits, Passing
    <3>2. CASE FailureIs /\ Executed = Failed
      BY <3>2
    <3>3. CASE Weak(SqlOrder) /\ Executed = PageOf(InOrder(Hits, SqlOrder), plan.offset, plan.limit)
      BY <2>1, <2>3, <3>1, <3>3, PageAnswers
    <3>4. QED
      BY <2>1, <2>3, <2>5, <3>2, <3>3, ExecutedIs DEF FailureIs
  <2>6. noMatch \in BOOLEAN
    BY <2>1 DEF PlanInv
  <2>7. right
    BY <2>4, <2>5, <2>6
  <2> HIDE DEF right
  <2>8. CASE OtherMetric
    <3>1. Mismatched \/ Executed = <<>>
      BY <2>1, <2>3, <2>6, <2>8, OtherArrives
    <3>2. QED
      BY <2>8, <3>1 DEF Arrivals
  <2>9. CASE ~OtherMetric
    <3>1. Arrivals = {Executed}
      BY <2>1, <2>9, OwnArrives DEF Arrivals
    <3>2. QED
      BY <2>7, <2>9, <3>1 DEF right
  <2>10. QED
    BY <2>8, <2>9
<1>2. QED
  BY <1>1, PlanAlways, LowerAlways, PTL
==============================================================================
