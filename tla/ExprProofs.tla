----------------------------- MODULE ExprProofs ------------------------------
(***************************************************************************)
(* Lemmas about filter expressions of any nesting: what the recursive      *)
(* functions of MilvusExpr compute, kind by kind, and what Without keeps.  *)
(*                                                                         *)
(* Induction goes through the least level at which a claim fails.  That a  *)
(* recursive function exists at all is part of it: what is defined on the  *)
(* expressions of n levels extends to those of n + 1.                      *)
(***************************************************************************)
EXTENDS MilvusExpr, FiniteSetTheorems, SequenceTheorems, WellFoundedInduction, TLAPS

\* A set of numbers that is not empty has a least one.
LEMMA Least ==
  ASSUME NEW T, T \subseteq Nat, T # {}
  PROVE  \E x \in T : \A y \in T : x <= y
<1>1. PICK x \in T : \A y \in T : ~(<<y, x>> \in OpToRel(<, Nat))
  BY NatLessThanWellFounded, WFMin, Zenon
<1>2. \A y \in T : ~(y < x)
  BY <1>1 DEF OpToRel
<1>3. QED
  BY <1>2

\* What holds of 0 and of a number whenever of the one before holds up to N: T is
\* the set of numbers of which it holds.
LEMMA Climb ==
  ASSUME NEW N \in Nat, NEW T, 0 \in T, \A n \in 0..N : n # 0 /\ n - 1 \in T => n \in T
  PROVE  \A n \in 0..N : n \in T
<1> DEFINE U == {n \in 0..N : n \notin T}
<1>1. SUFFICES ASSUME U # {} PROVE FALSE
  OBVIOUS
<1>2. PICK m \in U : \A y \in U : m <= y
  <2>1. U \subseteq Nat
    OBVIOUS
  <2> HIDE DEF U
  <2>2. QED
    BY <1>1, <2>1, Least
<1>3. m \in 0..N /\ m # 0 /\ m - 1 \in 0..N /\ m - 1 \notin U
  BY <1>2
<1>4. m - 1 \in T
  BY <1>3
<1>5. QED
  BY <1>2, <1>3, <1>4

(***************************************************************************)
(* Levels.                                                                 *)
(***************************************************************************)
\* The expressions one level above those of S.
ExprsOver(S) == Atoms \cup [e : {"not"}, c : S] \cup [e : {"and", "or"}, cs : Seq(S)]

IsLevels(f, N) == f = [n \in 0..N |-> IF n = 0 THEN Atoms ELSE ExprsOver(f[n - 1])]

\* The levels are what their recursive definition says.
LEMMA ExprLevelSteps ==
  /\ ExprLevels[0] = Atoms
  /\ \A n \in 0..Nesting : n # 0 => ExprLevels[n] = ExprsOver(ExprLevels[n - 1])
<1> DEFINE T == {N \in Nat : \E f : IsLevels(f, N)}
<1>1. 0 \in T
  <2> DEFINE f == [n \in 0..0 |-> Atoms]
  <2>1. f = [n \in 0..0 |-> IF n = 0 THEN Atoms ELSE ExprsOver(f[n - 1])]
    OBVIOUS
  <2>2. IsLevels(f, 0)
    BY <2>1 DEF IsLevels
  <2>3. QED
    BY <2>2
<1>2. ASSUME NEW N \in 0..Nesting, N # 0, N - 1 \in T PROVE N \in T
  <2>1. PICK f : IsLevels(f, N - 1)
    BY <1>2
  <2> DEFINE g == [n \in 0..N |-> IF n = 0 THEN Atoms ELSE ExprsOver(f[n - 1])]
  <2>2. N \in Nat /\ N - 1 \in Nat
    BY <1>2, NestingAssumption
  <2>3. ASSUME NEW n \in 0..(N - 1) PROVE f[n] = IF n = 0 THEN Atoms ELSE ExprsOver(f[n - 1])
    BY <2>1 DEF IsLevels
  <2>4. ASSUME NEW n \in 0..N, n # 0 PROVE g[n - 1] = f[n - 1]
    <3>1. n - 1 \in 0..(N - 1) /\ n - 1 \in 0..N
      BY <2>2, <2>4
    <3>2. QED
      BY <2>3, <3>1
  <2>5. \A n \in 0..N : (IF n = 0 THEN Atoms ELSE ExprsOver(f[n - 1])) = IF n = 0 THEN Atoms ELSE ExprsOver(g[n - 1])
    <3> HIDE DEF g
    <3>1. QED
      BY <2>4
  <2>6. g = [n \in 0..N |-> IF n = 0 THEN Atoms ELSE ExprsOver(g[n - 1])]
    <3> DEFINE A(n) == IF n = 0 THEN Atoms ELSE ExprsOver(f[n - 1])
               B(n) == IF n = 0 THEN Atoms ELSE ExprsOver(g[n - 1])
    <3>1. g = [n \in 0..N |-> A(n)] /\ \A n \in 0..N : A(n) = B(n)
      BY <2>5
    <3> HIDE DEF A, B, g
    <3>2. g = [n \in 0..N |-> B(n)]
      BY <3>1
    <3>3. QED
      BY <3>2 DEF B
  <2> HIDE DEF g
  <2>7. IsLevels(g, N)
    BY <2>6 DEF IsLevels
  <2>8. QED
    BY <2>2, <2>7
<1>3. Nesting \in Nat /\ Nesting \in 0..Nesting
  BY NestingAssumption
<1>4. Nesting \in T
  <2> HIDE DEF T
  <2>1. QED
    BY <1>1, <1>2, <1>3, Climb
<1>5. IsLevels(ExprLevels, Nesting)
  <2>1. ExprLevels = CHOOSE f : IsLevels(f, Nesting)
    BY DEF ExprLevels, IsLevels, ExprsOver
  <2>2. QED
    BY <1>4, <2>1
<1>6. \A n \in 0..Nesting : ExprLevels[n] = IF n = 0 THEN Atoms ELSE ExprsOver(ExprLevels[n - 1])
  BY <1>5 DEF IsLevels
<1>7. QED
  BY <1>3, <1>6

\* Every level holds the levels below it.
LEMMA ExprGrow ==
  /\ \A n \in 0..Nesting : n # 0 => ExprLevels[n - 1] \subseteq ExprLevels[n]
  /\ \A n \in 0..Nesting : ExprLevels[n] \subseteq Exprs
<1>1. Nesting \in Nat
  BY NestingAssumption
<1> DEFINE T == {n \in 0..Nesting : n # 0 => ExprLevels[n - 1] \subseteq ExprLevels[n]}
<1>2. 0 \in T
  BY <1>1
<1>3. ASSUME NEW n \in 0..Nesting, n # 0, n - 1 \in T PROVE n \in T
  <2>1. ExprLevels[n] = ExprsOver(ExprLevels[n - 1])
    BY <1>3, ExprLevelSteps
  <2>2. CASE n = 1
    BY <2>1, <2>2, ExprLevelSteps DEF ExprsOver
  <2>3. CASE n # 1
    <3> DEFINE a == ExprLevels[(n - 1) - 1]
               b == ExprLevels[n - 1]
    <3>1. n - 1 \in 0..Nesting /\ n - 1 # 0
      BY <1>1, <1>3, <2>3
    <3>2. b = ExprsOver(a) /\ a \subseteq b
      BY <1>3, <3>1, ExprLevelSteps
    <3>3. ExprsOver(a) \subseteq ExprsOver(b)
      <4> HIDE DEF a, b
      <4>1. Seq(a) \subseteq Seq(b)
        BY <3>2
      <4>2. [e : {"not"}, c : a] \subseteq [e : {"not"}, c : b]
        BY <3>2
      <4>3. [e : {"and", "or"}, cs : Seq(a)] \subseteq [e : {"and", "or"}, cs : Seq(b)]
        BY <4>1
      <4>4. QED
        BY <4>2, <4>3 DEF ExprsOver
    <3>4. QED
      BY <2>1, <3>2, <3>3
  <2>4. QED
    BY <2>2, <2>3
<1>4. \A n \in 0..Nesting : n \in T
  <2> HIDE DEF T
  <2>1. QED
    BY <1>1, <1>2, <1>3, Climb
<1> DEFINE D == {k \in 0..Nesting : ExprLevels[Nesting - k] \subseteq Exprs}
<1>5. 0 \in D
  BY <1>1 DEF Exprs
<1>6. ASSUME NEW k \in 0..Nesting, k # 0, k - 1 \in D PROVE k \in D
  <2>1. Nesting - (k - 1) \in 0..Nesting /\ Nesting - (k - 1) # 0 /\ (Nesting - (k - 1)) - 1 = Nesting - k
    BY <1>1, <1>6
  <2>2. ExprLevels[Nesting - k] \subseteq ExprLevels[Nesting - (k - 1)]
    BY <1>4, <2>1
  <2>3. QED
    BY <1>6, <2>2
<1>7. \A k \in 0..Nesting : k \in D
  <2> HIDE DEF D
  <2>1. QED
    BY <1>1, <1>5, <1>6, Climb
<1>8. ASSUME NEW n \in 0..Nesting PROVE ExprLevels[n] \subseteq Exprs
  <2>1. Nesting - n \in 0..Nesting /\ Nesting - (Nesting - n) = n
    BY <1>1
  <2>2. QED
    BY <1>7, <2>1
<1>9. QED
  BY <1>4, <1>8

\* What an expression of n levels is made of.
LEMMA ExprParts ==
  ASSUME NEW n \in 0..Nesting, NEW x \in ExprLevels[n]
  PROVE  /\ x.e \in {"nil", "never", "cmp", "in", "text", "notnull", "isnull", "not", "and", "or"}
         /\ x.e \notin {"not", "and", "or"} => x \in Atoms
         /\ x.e = "not" => n # 0 /\ x.c \in ExprLevels[n - 1] /\ x = Not(x.c)
         /\ x.e \in {"and", "or"} =>
              n # 0 /\ x.cs \in Seq(ExprLevels[n - 1]) /\ x = [e |-> x.e, cs |-> x.cs]
<1>1. ASSUME x \in Atoms
      PROVE  x.e \in {"nil", "never", "cmp", "in", "text", "notnull", "isnull"}
  BY <1>1 DEF Atoms
<1>2. CASE n = 0
  BY <1>1, <1>2, ExprLevelSteps
<1>3. CASE n # 0
  <2> DEFINE S == ExprLevels[n - 1]
  <2>1. x \in ExprsOver(S)
    BY <1>3, ExprLevelSteps
  <2> HIDE DEF S
  <2>2. CASE x \in Atoms
    BY <1>1, <2>2
  <2>3. CASE x \in [e : {"not"}, c : S]
    <3>1. x.e = "not" /\ x.c \in S /\ x = [e |-> "not", c |-> x.c]
      BY <2>3
    <3>2. QED
      BY <1>3, <3>1 DEF S, Not
  <2>4. CASE x \in [e : {"and", "or"}, cs : Seq(S)]
    <3>1. x.e \in {"and", "or"} /\ x.cs \in Seq(S) /\ x = [e |-> x.e, cs |-> x.cs]
      BY <2>4
    <3>2. QED
      BY <1>3, <3>1 DEF S
  <2>5. QED
    BY <2>1, <2>2, <2>3, <2>4 DEF ExprsOver
<1>4. QED
  BY <1>2, <1>3

\* What makes an expression of n levels.
LEMMA ExprMade ==
  ASSUME NEW n \in 0..Nesting
  PROVE  /\ Atoms \subseteq ExprLevels[n]
         /\ n # 0 => \A c \in ExprLevels[n - 1] : Not(c) \in ExprLevels[n]
         /\ n # 0 => \A cs \in Seq(ExprLevels[n - 1]) :
                       And(cs) \in ExprLevels[n] /\ Or(cs) \in ExprLevels[n]
<1>1. CASE n = 0
  BY <1>1, ExprLevelSteps
<1>2. CASE n # 0
  <2> DEFINE S == ExprLevels[n - 1]
  <2>1. ExprLevels[n] = ExprsOver(S)
    BY <1>2, ExprLevelSteps
  <2> HIDE DEF S
  <2>2. \A c \in S : Not(c) \in ExprsOver(S)
    BY DEF ExprsOver, Not
  <2>3. \A cs \in Seq(S) : And(cs) \in ExprsOver(S) /\ Or(cs) \in ExprsOver(S)
    BY DEF ExprsOver, And, Or
  <2>4. QED
    BY <2>1, <2>2, <2>3 DEF S, ExprsOver
<1>3. QED
  BY <1>1, <1>2

(***************************************************************************)
(* Rendering and evaluation.                                               *)
(***************************************************************************)
\* One step of renderExpr, f being what it makes of the parts.
RenderStep(f, x) ==
  CASE x.e = "not" ->
         IF x.c.e = "notnull" THEN IsNull(x.c.f)
         ELSE IF f[x.c] \in {Nil, Garbled} THEN Garbled ELSE Not(f[x.c])
    [] x.e \in {"and", "or"} ->
         LET cs == [i \in DOMAIN x.cs |-> f[x.cs[i]]]
         IN IF cs = <<>> THEN Nil
            ELSE IF Len(cs) = 1 THEN cs[1]
            ELSE IF Some(cs, Nil) \/ Some(cs, Garbled) THEN Garbled
            ELSE [e |-> x.e, cs |-> cs]
    [] OTHER -> x

IsRendering(f, S) == f = [x \in S |-> RenderStep(f, x)]

LEMMA RenderLocal ==
  ASSUME NEW n \in 0..Nesting, NEW x \in ExprLevels[n], NEW f, NEW g,
         n # 0 => \A y \in ExprLevels[n - 1] : f[y] = g[y]
  PROVE  RenderStep(f, x) = RenderStep(g, x)
<1>1. CASE x.e = "not"
  <2>1. f[x.c] = g[x.c]
    BY <1>1, ExprParts
  <2>2. QED
    BY <1>1, <2>1 DEF RenderStep
<1>2. CASE x.e \in {"and", "or"}
  <2>1. x.cs \in Seq(ExprLevels[n - 1]) /\ n # 0
    BY <1>2, ExprParts
  <2>2. \A i \in DOMAIN x.cs : f[x.cs[i]] = g[x.cs[i]]
    BY <2>1
  <2>3. [i \in DOMAIN x.cs |-> f[x.cs[i]]] = [i \in DOMAIN x.cs |-> g[x.cs[i]]]
    BY <2>2
  <2>4. QED
    BY <1>2, <2>3 DEF RenderStep
<1>3. CASE x.e \notin {"not", "and", "or"}
  BY <1>3 DEF RenderStep
<1>4. QED
  BY <1>1, <1>2, <1>3

\* Rendered is what its recursive definition says.
LEMMA RenderedSteps ==
  \A x \in Exprs : Rendered[x] = RenderStep(Rendered, x)
<1> DEFINE T == {n \in 0..Nesting : \E f : IsRendering(f, ExprLevels[n])}
<1>1. Nesting \in Nat /\ Nesting \in 0..Nesting /\ 0 \in 0..Nesting
  BY NestingAssumption
<1>2. 0 \in T
  <2> DEFINE S == ExprLevels[0]
             f == [x \in S |-> RenderStep(<<>>, x)]
  <2>1. \A x \in S : RenderStep(<<>>, x) = RenderStep(f, x)
    <3> HIDE DEF f
    <3>1. QED
      BY <1>1, RenderLocal
  <2>2. f = [x \in S |-> RenderStep(f, x)]
    <3> DEFINE A(x) == RenderStep(<<>>, x)
               B(x) == RenderStep(f, x)
    <3>1. f = [x \in S |-> A(x)] /\ \A x \in S : A(x) = B(x)
      BY <2>1
    <3> HIDE DEF A, B, f, S
    <3>2. f = [x \in S |-> B(x)]
      BY <3>1
    <3>3. QED
      BY <3>2 DEF B
  <2> HIDE DEF f
  <2>3. IsRendering(f, ExprLevels[0])
    BY <2>2 DEF IsRendering
  <2>4. QED
    BY <1>1, <2>3
<1>3. ASSUME NEW n \in 0..Nesting, n # 0, n - 1 \in T PROVE n \in T
  <2>1. PICK f : IsRendering(f, ExprLevels[n - 1])
    BY <1>3
  <2> DEFINE S == ExprLevels[n]
             g == [x \in S |-> RenderStep(f, x)]
  <2>2. ExprLevels[n - 1] \subseteq S
    BY <1>3, ExprGrow
  <2>3. \A y \in ExprLevels[n - 1] : f[y] = RenderStep(f, y)
    BY <2>1 DEF IsRendering
  <2>4. \A y \in ExprLevels[n - 1] : g[y] = f[y]
    BY <2>2, <2>3
  <2>5. \A x \in S : RenderStep(f, x) = RenderStep(g, x)
    <3> HIDE DEF g
    <3>1. QED
      BY <2>4, RenderLocal
  <2>6. g = [x \in S |-> RenderStep(g, x)]
    <3> DEFINE A(x) == RenderStep(f, x)
               B(x) == RenderStep(g, x)
    <3>1. g = [x \in S |-> A(x)] /\ \A x \in S : A(x) = B(x)
      BY <2>5
    <3> HIDE DEF A, B, g, S
    <3>2. g = [x \in S |-> B(x)]
      BY <3>1
    <3>3. QED
      BY <3>2 DEF B
  <2> HIDE DEF g
  <2>7. IsRendering(g, ExprLevels[n])
    BY <2>6 DEF IsRendering
  <2>8. QED
    BY <2>7
<1>4. Nesting \in T
  <2> HIDE DEF T
  <2>1. QED
    BY <1>1, <1>2, <1>3, Climb
<1>5. IsRendering(Rendered, Exprs)
  <2>1. Rendered = CHOOSE f : IsRendering(f, Exprs)
    BY DEF Rendered, IsRendering, RenderStep
  <2>2. \E f : IsRendering(f, Exprs)
    BY <1>4 DEF Exprs
  <2>3. QED
    BY <2>1, <2>2
<1>6. QED
  BY <1>5 DEF IsRendering

\* One step of Milvus's evaluation, f being its verdicts on the parts.
EvalStep(f, x, row) ==
  CASE x.e = "nil" -> "true"
    [] x.e = "never" -> "false"
    [] x.e = "notnull" -> Truth(row[x.f] # Null)
    [] x.e = "isnull" -> Truth(row[x.f] = Null)
    [] x.e \in {"cmp", "in", "text"} ->
         IF row[x.f] = Null THEN "unknown"
         ELSE Truth(CASE x.e = "cmp" -> Holds(x.op, row[x.f], x.v)
                      [] x.e = "in" -> row[x.f] \in x.vs
                      [] OTHER -> row[x.f] \cap x.toks # {})
    [] x.e = "not" -> Not3(f[x.c])
    [] x.e = "and" -> And3({f[x.cs[i]] : i \in DOMAIN x.cs})
    [] OTHER -> Or3({f[x.cs[i]] : i \in DOMAIN x.cs})

IsEvaluation(f, S, row) == f = [x \in S |-> EvalStep(f, x, row)]

\* The verdicts on all expressions.
Verdicts(row) == CHOOSE f : IsEvaluation(f, Exprs, row)

LEMMA EvalLocal ==
  ASSUME NEW row, NEW n \in 0..Nesting, NEW x \in ExprLevels[n], NEW f, NEW g,
         n # 0 => \A y \in ExprLevels[n - 1] : f[y] = g[y]
  PROVE  EvalStep(f, x, row) = EvalStep(g, x, row)
<1>1. CASE x.e = "not"
  <2>1. f[x.c] = g[x.c]
    BY <1>1, ExprParts
  <2>2. QED
    BY <1>1, <2>1 DEF EvalStep
<1>2. CASE x.e \in {"and", "or"}
  <2>1. x.cs \in Seq(ExprLevels[n - 1]) /\ n # 0
    BY <1>2, ExprParts
  <2>2. \A i \in DOMAIN x.cs : f[x.cs[i]] = g[x.cs[i]]
    BY <2>1
  <2>3. {f[x.cs[i]] : i \in DOMAIN x.cs} = {g[x.cs[i]] : i \in DOMAIN x.cs}
    BY <2>2
  <2>4. QED
    BY <1>2, <2>3 DEF EvalStep
<1>3. CASE x.e \notin {"not", "and", "or"}
  BY <1>3, ExprParts DEF EvalStep
<1>4. QED
  BY <1>1, <1>2, <1>3

\* The verdicts are what the recursive definition of Eval says.
LEMMA VerdictSteps ==
  ASSUME NEW row
  PROVE  \A x \in Exprs : Verdicts(row)[x] = EvalStep(Verdicts(row), x, row)
<1> DEFINE T == {n \in 0..Nesting : \E f : IsEvaluation(f, ExprLevels[n], row)}
<1>1. Nesting \in Nat /\ Nesting \in 0..Nesting /\ 0 \in 0..Nesting
  BY NestingAssumption
<1>2. 0 \in T
  <2> DEFINE S == ExprLevels[0]
             f == [x \in S |-> EvalStep(<<>>, x, row)]
  <2>1. \A x \in S : EvalStep(<<>>, x, row) = EvalStep(f, x, row)
    <3> HIDE DEF f
    <3>1. QED
      BY <1>1, EvalLocal
  <2>2. f = [x \in S |-> EvalStep(f, x, row)]
    <3> DEFINE A(x) == EvalStep(<<>>, x, row)
               B(x) == EvalStep(f, x, row)
    <3>1. f = [x \in S |-> A(x)] /\ \A x \in S : A(x) = B(x)
      BY <2>1
    <3> HIDE DEF A, B, f, S
    <3>2. f = [x \in S |-> B(x)]
      BY <3>1
    <3>3. QED
      BY <3>2 DEF B
  <2> HIDE DEF f
  <2>3. IsEvaluation(f, ExprLevels[0], row)
    BY <2>2 DEF IsEvaluation
  <2>4. QED
    BY <1>1, <2>3
<1>3. ASSUME NEW n \in 0..Nesting, n # 0, n - 1 \in T PROVE n \in T
  <2>1. PICK f : IsEvaluation(f, ExprLevels[n - 1], row)
    BY <1>3
  <2> DEFINE S == ExprLevels[n]
             g == [x \in S |-> EvalStep(f, x, row)]
  <2>2. ExprLevels[n - 1] \subseteq S
    BY <1>3, ExprGrow
  <2>3. \A y \in ExprLevels[n - 1] : f[y] = EvalStep(f, y, row)
    BY <2>1 DEF IsEvaluation
  <2>4. \A y \in ExprLevels[n - 1] : g[y] = f[y]
    BY <2>2, <2>3
  <2>5. \A x \in S : EvalStep(f, x, row) = EvalStep(g, x, row)
    <3> HIDE DEF g
    <3>1. QED
      BY <2>4, EvalLocal
  <2>6. g = [x \in S |-> EvalStep(g, x, row)]
    <3> DEFINE A(x) == EvalStep(f, x, row)
               B(x) == EvalStep(g, x, row)
    <3>1. g = [x \in S |-> A(x)] /\ \A x \in S : A(x) = B(x)
      BY <2>5
    <3> HIDE DEF A, B, g, S
    <3>2. g = [x \in S |-> B(x)]
      BY <3>1
    <3>3. QED
      BY <3>2 DEF B
  <2> HIDE DEF g
  <2>7. IsEvaluation(g, ExprLevels[n], row)
    BY <2>6 DEF IsEvaluation
  <2>8. QED
    BY <2>7
<1>4. Nesting \in T
  <2> HIDE DEF T
  <2>1. QED
    BY <1>1, <1>2, <1>3, Climb
<1>5. IsEvaluation(Verdicts(row), Exprs, row)
  <2>1. Verdicts(row) = CHOOSE f : IsEvaluation(f, Exprs, row)
    BY DEF Verdicts, IsEvaluation, EvalStep
  <2>2. \E f : IsEvaluation(f, Exprs, row)
    BY <1>4 DEF Exprs
  <2>3. QED
    BY <2>1, <2>2
<1>6. QED
  BY <1>5 DEF IsEvaluation

Three == {"true", "false", "unknown"}

\* Kleene's connectives on the verdicts.
LEMMA Kleene ==
  /\ \A b : Truth(b) \in Three
  /\ \A v : Not3(v) \in Three
  /\ \A v \in Three : Not3(v) = "true" <=> v = "false"
  /\ \A v \in Three : Not3(v) = "false" <=> v = "true"
  /\ \A v \in Three : Not3(Not3(v)) = v
  /\ \A S : And3(S) \in Three /\ Or3(S) \in Three
  /\ \A S : And3(S) = "false" <=> "false" \in S
  /\ \A S \in SUBSET Three : And3(S) = "true" <=> \A v \in S : v = "true"
  /\ \A S : Or3(S) = "true" <=> "true" \in S
  /\ \A S \in SUBSET Three : Or3(S) = "false" <=> \A v \in S : v = "false"
<1>1. \A b : Truth(b) \in Three
  BY DEF Truth, Three
<1>2. /\ \A v : Not3(v) \in Three
      /\ \A v \in Three : Not3(v) = "true" <=> v = "false"
      /\ \A v \in Three : Not3(v) = "false" <=> v = "true"
      /\ \A v \in Three : Not3(Not3(v)) = v
  BY DEF Not3, Three
<1>3. \A S : And3(S) \in Three /\ (And3(S) = "false" <=> "false" \in S)
  BY DEF And3, Three
<1>4. \A S \in SUBSET Three : And3(S) = "true" <=> \A v \in S : v = "true"
  BY DEF And3, Three
<1>5. \A S : Or3(S) \in Three /\ (Or3(S) = "true" <=> "true" \in S)
  BY DEF Or3, Three
<1>6. \A S \in SUBSET Three : Or3(S) = "false" <=> \A v \in S : v = "false"
  BY DEF Or3, Three
<1>7. QED
  BY <1>1, <1>2, <1>3, <1>4, <1>5, <1>6

LEMMA EvalIs ==
  ASSUME NEW row, NEW x
  PROVE  Eval(x, row) = Verdicts(row)[x]
BY DEF Eval, Verdicts, IsEvaluation, EvalStep

\* Verdicts are among the three, and those on compound expressions come from those
\* on the parts.
LEMMA EvalSteps ==
  ASSUME NEW row
  PROVE  /\ \A x \in Exprs : Eval(x, row) \in Three
         /\ \A c : Not(c) \in Exprs => Eval(Not(c), row) = Not3(Eval(c, row))
         /\ \A cs : And(cs) \in Exprs => Eval(And(cs), row) = And3({Eval(cs[i], row) : i \in DOMAIN cs})
         /\ \A cs : Or(cs) \in Exprs => Eval(Or(cs), row) = Or3({Eval(cs[i], row) : i \in DOMAIN cs})
<1> DEFINE f == Verdicts(row)
<1>1. \A x : Eval(x, row) = f[x]
  BY EvalIs
<1>2. \A x \in Exprs : f[x] = EvalStep(f, x, row)
  BY VerdictSteps
<1> HIDE DEF f
<1>3. ASSUME NEW x \in Exprs PROVE Eval(x, row) \in Three
  <2>1. x.e \in {"nil", "never", "cmp", "in", "text", "notnull", "isnull", "not", "and", "or"}
    BY ExprParts, NestingAssumption DEF Exprs
  <2>2. EvalStep(f, x, row) \in Three
    BY <2>1, Kleene DEF EvalStep, Three
  <2>3. QED
    BY <1>1, <1>2, <2>2
<1>4. ASSUME NEW c, Not(c) \in Exprs PROVE Eval(Not(c), row) = Not3(Eval(c, row))
  <2>1. Not(c).e = "not" /\ Not(c).c = c
    BY DEF Not
  <2>2. EvalStep(f, Not(c), row) = Not3(f[c])
    BY <2>1 DEF EvalStep
  <2>3. QED
    BY <1>1, <1>2, <1>4, <2>2
<1>5. ASSUME NEW cs, And(cs) \in Exprs
      PROVE  Eval(And(cs), row) = And3({Eval(cs[i], row) : i \in DOMAIN cs})
  <2>1. And(cs).e = "and" /\ And(cs).cs = cs
    BY DEF And
  <2>2. EvalStep(f, And(cs), row) = And3({f[cs[i]] : i \in DOMAIN cs})
    BY <2>1 DEF EvalStep
  <2>3. {f[cs[i]] : i \in DOMAIN cs} = {Eval(cs[i], row) : i \in DOMAIN cs}
    BY <1>1
  <2>4. QED
    BY <1>1, <1>2, <1>5, <2>2, <2>3
<1>6. ASSUME NEW cs, Or(cs) \in Exprs
      PROVE  Eval(Or(cs), row) = Or3({Eval(cs[i], row) : i \in DOMAIN cs})
  <2>1. Or(cs).e = "or" /\ Or(cs).cs = cs
    BY DEF Or
  <2>2. EvalStep(f, Or(cs), row) = Or3({f[cs[i]] : i \in DOMAIN cs})
    BY <2>1 DEF EvalStep
  <2>3. {f[cs[i]] : i \in DOMAIN cs} = {Eval(cs[i], row) : i \in DOMAIN cs}
    BY <1>1
  <2>4. QED
    BY <1>1, <1>2, <1>6, <2>2, <2>3
<1>7. QED
  BY <1>3, <1>4, <1>5, <1>6

\* The verdicts on the leaves.
LEMMA EvalAtoms ==
  ASSUME NEW row
  PROVE  /\ Eval(Nil, row) = "true" /\ Eval(Never, row) = "false"
         /\ \A f \in Names : /\ Eval(NotNull(f), row) = Truth(row[f] # Null)
                             /\ Eval(IsNull(f), row) = Truth(row[f] = Null)
         /\ \A op \in Operators, f \in Names, v \in Values :
              Eval(Compare(op, f, v), row) = IF row[f] = Null THEN "unknown" ELSE Truth(Holds(op, row[f], v))
         /\ \A f \in Names, vs \in SUBSET Values :
              Eval(InList(f, vs), row) = IF row[f] = Null THEN "unknown" ELSE Truth(row[f] \in vs)
         /\ \A f \in Names, toks \in SUBSET Values :
              Eval(TextMatch(f, toks), row) =
                IF row[f] = Null THEN "unknown" ELSE Truth(row[f] \cap toks # {})
<1> DEFINE g == Verdicts(row)
<1>1. \A x : Eval(x, row) = g[x]
  BY EvalIs
<1>2. \A x \in Exprs : g[x] = EvalStep(g, x, row)
  BY VerdictSteps
<1>3. Atoms \subseteq Exprs
  BY ExprMade, NestingAssumption DEF Exprs
<1> HIDE DEF g
<1>4. \A x \in Atoms : Eval(x, row) = EvalStep(g, x, row)
  BY <1>1, <1>2, <1>3
<1>5. Eval(Nil, row) = "true" /\ Eval(Never, row) = "false"
  <2>1. Nil \in Atoms /\ Never \in Atoms
    BY DEF Atoms, Nil, Never
  <2>2. EvalStep(g, Nil, row) = "true" /\ EvalStep(g, Never, row) = "false"
    BY DEF EvalStep, Nil, Never
  <2>3. QED
    BY <1>4, <2>1, <2>2
<1>6. ASSUME NEW f \in Names
      PROVE  Eval(NotNull(f), row) = Truth(row[f] # Null) /\ Eval(IsNull(f), row) = Truth(row[f] = Null)
  <2>1. NotNull(f) \in Atoms /\ IsNull(f) \in Atoms
    BY DEF Atoms, NotNull, IsNull
  <2>2. EvalStep(g, NotNull(f), row) = Truth(row[f] # Null) /\ EvalStep(g, IsNull(f), row) = Truth(row[f] = Null)
    BY DEF EvalStep, NotNull, IsNull
  <2>3. QED
    BY <1>4, <2>1, <2>2
<1>7. ASSUME NEW op \in Operators, NEW f \in Names, NEW v \in Values
      PROVE  Eval(Compare(op, f, v), row) = IF row[f] = Null THEN "unknown" ELSE Truth(Holds(op, row[f], v))
  <2>1. Compare(op, f, v) \in Atoms
    BY DEF Atoms, Compare
  <2>2. EvalStep(g, Compare(op, f, v), row) = IF row[f] = Null THEN "unknown" ELSE Truth(Holds(op, row[f], v))
    BY DEF EvalStep, Compare
  <2>3. QED
    BY <1>4, <2>1, <2>2
<1>8. ASSUME NEW f \in Names, NEW vs \in SUBSET Values
      PROVE  Eval(InList(f, vs), row) = IF row[f] = Null THEN "unknown" ELSE Truth(row[f] \in vs)
  <2>1. InList(f, vs) \in Atoms
    BY DEF Atoms, InList
  <2>2. EvalStep(g, InList(f, vs), row) = IF row[f] = Null THEN "unknown" ELSE Truth(row[f] \in vs)
    BY DEF EvalStep, InList
  <2>3. QED
    BY <1>4, <2>1, <2>2
<1>9. ASSUME NEW f \in Names, NEW toks \in SUBSET Values
      PROVE  Eval(TextMatch(f, toks), row) =
               IF row[f] = Null THEN "unknown" ELSE Truth(row[f] \cap toks # {})
  <2>1. TextMatch(f, toks) \in Atoms
    BY DEF Atoms, TextMatch
  <2>2. EvalStep(g, TextMatch(f, toks), row) =
          IF row[f] = Null THEN "unknown" ELSE Truth(row[f] \cap toks # {})
    BY DEF EvalStep, TextMatch
  <2>3. QED
    BY <1>4, <2>1, <2>2
<1>10. QED
  BY <1>5, <1>6, <1>7, <1>8, <1>9

(***************************************************************************)
(* Solid expressions: no part of them is empty.                            *)
(***************************************************************************)
SolidStep(f, x) ==
  CASE x.e = "not" -> f[x.c]
    [] x.e \in {"and", "or"} -> x.cs # <<>> /\ \A i \in DOMAIN x.cs : f[x.cs[i]]
    [] OTHER -> x # Nil

IsSolidity(f, S) == f = [x \in S |-> SolidStep(f, x)]
Solid == CHOOSE f : IsSolidity(f, Exprs)

LEMMA SolidLocal ==
  ASSUME NEW n \in 0..Nesting, NEW x \in ExprLevels[n], NEW f, NEW g,
         n # 0 => \A y \in ExprLevels[n - 1] : f[y] = g[y]
  PROVE  SolidStep(f, x) = SolidStep(g, x)
<1>1. CASE x.e = "not"
  <2>1. f[x.c] = g[x.c]
    BY <1>1, ExprParts
  <2>2. QED
    BY <1>1, <2>1 DEF SolidStep
<1>2. CASE x.e \in {"and", "or"}
  <2>1. x.cs \in Seq(ExprLevels[n - 1]) /\ n # 0
    BY <1>2, ExprParts
  <2>2. \A i \in DOMAIN x.cs : f[x.cs[i]] = g[x.cs[i]]
    BY <2>1
  <2>3. QED
    BY <1>2, <2>2 DEF SolidStep
<1>3. CASE x.e \notin {"not", "and", "or"}
  BY <1>3 DEF SolidStep
<1>4. QED
  BY <1>1, <1>2, <1>3

\* Solid is what its recursive definition says.
LEMMA SolidSteps ==
  \A x \in Exprs : Solid[x] = SolidStep(Solid, x)
<1> DEFINE T == {n \in 0..Nesting : \E f : IsSolidity(f, ExprLevels[n])}
<1>1. Nesting \in Nat /\ Nesting \in 0..Nesting /\ 0 \in 0..Nesting
  BY NestingAssumption
<1>2. 0 \in T
  <2> DEFINE S == ExprLevels[0]
             f == [x \in S |-> SolidStep(<<>>, x)]
  <2>1. \A x \in S : SolidStep(<<>>, x) = SolidStep(f, x)
    <3> HIDE DEF f
    <3>1. QED
      BY <1>1, SolidLocal
  <2>2. f = [x \in S |-> SolidStep(f, x)]
    <3> DEFINE A(x) == SolidStep(<<>>, x)
               B(x) == SolidStep(f, x)
    <3>1. f = [x \in S |-> A(x)] /\ \A x \in S : A(x) = B(x)
      BY <2>1
    <3> HIDE DEF A, B, f, S
    <3>2. f = [x \in S |-> B(x)]
      BY <3>1
    <3>3. QED
      BY <3>2 DEF B
  <2> HIDE DEF f
  <2>3. IsSolidity(f, ExprLevels[0])
    BY <2>2 DEF IsSolidity
  <2>4. QED
    BY <1>1, <2>3
<1>3. ASSUME NEW n \in 0..Nesting, n # 0, n - 1 \in T PROVE n \in T
  <2>1. PICK f : IsSolidity(f, ExprLevels[n - 1])
    BY <1>3
  <2> DEFINE S == ExprLevels[n]
             g == [x \in S |-> SolidStep(f, x)]
  <2>2. ExprLevels[n - 1] \subseteq S
    BY <1>3, ExprGrow
  <2>3. \A y \in ExprLevels[n - 1] : f[y] = SolidStep(f, y)
    BY <2>1 DEF IsSolidity
  <2>4. \A y \in ExprLevels[n - 1] : g[y] = f[y]
    BY <2>2, <2>3
  <2>5. \A x \in S : SolidStep(f, x) = SolidStep(g, x)
    <3> HIDE DEF g
    <3>1. QED
      BY <2>4, SolidLocal
  <2>6. g = [x \in S |-> SolidStep(g, x)]
    <3> DEFINE A(x) == SolidStep(f, x)
               B(x) == SolidStep(g, x)
    <3>1. g = [x \in S |-> A(x)] /\ \A x \in S : A(x) = B(x)
      BY <2>5
    <3> HIDE DEF A, B, g, S
    <3>2. g = [x \in S |-> B(x)]
      BY <3>1
    <3>3. QED
      BY <3>2 DEF B
  <2> HIDE DEF g
  <2>7. IsSolidity(g, ExprLevels[n])
    BY <2>6 DEF IsSolidity
  <2>8. QED
    BY <2>7
<1>4. Nesting \in T
  <2> HIDE DEF T
  <2>1. QED
    BY <1>1, <1>2, <1>3, Climb
<1>5. IsSolidity(Solid, Exprs)
  <2>1. Solid = CHOOSE f : IsSolidity(f, Exprs)
    BY DEF Solid, IsSolidity, SolidStep
  <2>2. \E f : IsSolidity(f, Exprs)
    BY <1>4 DEF Exprs
  <2>3. QED
    BY <2>1, <2>2
<1>6. QED
  BY <1>5 DEF IsSolidity

\* A solid expression has a text, and the text means what the expression does.
LEMMA SolidRendered ==
  ASSUME NEW row
  PROVE  \A n \in 0..Nesting : \A x \in ExprLevels[n] : Solid[x] =>
           /\ Rendered[x] \in ExprLevels[n] /\ Rendered[x] \notin {Nil, Garbled}
           /\ Eval(Rendered[x], row) = Eval(x, row)
<1> DEFINE Good(n, x) == /\ Rendered[x] \in ExprLevels[n] /\ Rendered[x] \notin {Nil, Garbled}
                         /\ Eval(Rendered[x], row) = Eval(x, row)
           T == {n \in 0..Nesting : \A x \in ExprLevels[n] : Solid[x] => Good(n, x)}
<1>1. Nesting \in Nat
  BY NestingAssumption
<1>2. ASSUME NEW n \in 0..Nesting, NEW x \in ExprLevels[n]
      PROVE  x \in Exprs /\ Rendered[x] = RenderStep(Rendered, x) /\ Solid[x] = SolidStep(Solid, x)
  BY ExprGrow, RenderedSteps, SolidSteps
<1>3. ASSUME NEW n \in 0..Nesting, NEW x \in ExprLevels[n], x.e \notin {"not", "and", "or"}, Solid[x]
      PROVE  Good(n, x)
  <2>1. Rendered[x] = x
    BY <1>2, <1>3 DEF RenderStep
  <2>2. x # Nil
    BY <1>2, <1>3 DEF SolidStep
  <2>3. x # Garbled
    <3>1. x.e # "garbled"
      BY ExprParts
    <3>2. QED
      BY <3>1 DEF Garbled
  <2>4. QED
    BY <2>1, <2>2, <2>3
<1>4. 0 \in T
  <2>1. 0 \in 0..Nesting
    BY <1>1
  <2>2. ASSUME NEW x \in ExprLevels[0] PROVE x.e \notin {"not", "and", "or"}
    BY <2>1, ExprParts
  <2>3. QED
    BY <1>3, <2>1, <2>2
<1>5. ASSUME NEW n \in 0..Nesting, n # 0, n - 1 \in T PROVE n \in T
  <2>1. SUFFICES ASSUME NEW x \in ExprLevels[n], Solid[x] PROVE Good(n, x)
    OBVIOUS
  <2>2. n - 1 \in 0..Nesting
    BY <1>1, <1>5
  <2>3. \A y \in ExprLevels[n - 1] : Solid[y] => Good(n - 1, y)
    BY <1>5
  <2>4. CASE x.e = "not"
    <3>1. x.c \in ExprLevels[n - 1] /\ x = Not(x.c)
      BY <2>4, ExprParts
    <3>2. Solid[x.c]
      BY <1>2, <2>1, <2>4 DEF SolidStep
    <3>3. Good(n - 1, x.c)
      BY <2>3, <3>1, <3>2
    <3>4. x \in Exprs /\ Eval(x, row) = Not3(Eval(x.c, row))
      BY <1>2, <3>1, EvalSteps
    <3>5. CASE x.c.e = "notnull"
      <4>1. x.c \in Atoms
        BY <2>2, <3>1, <3>5, ExprParts
      <4>2. x.c.f \in Names /\ x.c = NotNull(x.c.f)
        BY <3>5, <4>1 DEF Atoms, NotNull
      <4>3. Rendered[x] = IsNull(x.c.f)
        BY <1>2, <2>4, <3>5 DEF RenderStep
      <4>4. IsNull(x.c.f) \in Atoms
        BY <4>2 DEF Atoms, IsNull
      <4>5. IsNull(x.c.f) \in ExprLevels[n] /\ IsNull(x.c.f) \notin {Nil, Garbled}
        BY <4>4, ExprMade DEF IsNull, Nil, Garbled
      <4>6. Eval(IsNull(x.c.f), row) = Truth(row[x.c.f] = Null) /\ Eval(x.c, row) = Truth(row[x.c.f] # Null)
        BY <4>2, EvalAtoms
      <4>7. Truth(row[x.c.f] = Null) = Not3(Truth(row[x.c.f] # Null))
        BY DEF Truth, Not3
      <4>8. QED
        BY <3>4, <4>3, <4>5, <4>6, <4>7
    <3>6. CASE x.c.e # "notnull"
      <4> DEFINE r == Rendered[x.c]
      <4>1. Rendered[x] = Not(r)
        BY <1>2, <2>4, <3>3, <3>6 DEF RenderStep
      <4>2. Not(r) \in ExprLevels[n] /\ Not(r) \in Exprs
        BY <3>3, ExprMade, <1>5, ExprGrow
      <4>3. Eval(Not(r), row) = Not3(Eval(r, row))
        BY <4>2, EvalSteps
      <4>4. Not(r) \notin {Nil, Garbled}
        BY DEF Not, Nil, Garbled
      <4>5. QED
        BY <3>3, <3>4, <4>1, <4>2, <4>3, <4>4
    <3>7. QED
      BY <3>5, <3>6
  <2>5. CASE x.e \in {"and", "or"}
    <3> DEFINE cs == [i \in DOMAIN x.cs |-> Rendered[x.cs[i]]]
               S == ExprLevels[n - 1]
    <3>1. x.cs \in Seq(S) /\ x = [e |-> x.e, cs |-> x.cs]
      BY <2>5, ExprParts
    <3>2. x.cs # <<>> /\ \A i \in DOMAIN x.cs : Solid[x.cs[i]]
      BY <1>2, <2>1, <2>5 DEF SolidStep
    <3>3. \A i \in DOMAIN x.cs : x.cs[i] \in S
      BY <3>1
    <3>4. \A i \in DOMAIN x.cs : Good(n - 1, x.cs[i])
      BY <2>3, <3>2, <3>3
    <3>5. Len(x.cs) \in Nat /\ DOMAIN x.cs = 1..Len(x.cs) /\ Len(x.cs) # 0
      BY <3>1, <3>2
    <3>6. cs \in Seq(S) /\ Len(cs) = Len(x.cs) /\ DOMAIN cs = DOMAIN x.cs /\ \A i \in DOMAIN cs : cs[i] \in S
      <4> HIDE DEF S
      <4>1. \A i \in 1..Len(x.cs) : Rendered[x.cs[i]] \in S
        BY <3>4, <3>5 DEF S
      <4>2. cs \in [1..Len(x.cs) -> S]
        BY <3>5, <4>1
      <4> HIDE DEF cs
      <4>3. QED
        BY <3>5, <4>2
    <3>7. \A i \in DOMAIN cs : cs[i] \notin {Nil, Garbled} /\ Eval(cs[i], row) = Eval(x.cs[i], row)
      BY <3>4
    <3>8. Rendered[x] = IF cs = <<>> THEN Nil ELSE IF Len(cs) = 1 THEN cs[1]
                        ELSE IF Some(cs, Nil) \/ Some(cs, Garbled) THEN Garbled ELSE [e |-> x.e, cs |-> cs]
      BY <1>2, <2>5 DEF RenderStep
    <3>9. {Eval(cs[i], row) : i \in DOMAIN cs} = {Eval(x.cs[i], row) : i \in DOMAIN x.cs}
      BY <3>6, <3>7
    <3>10. x \in Exprs
      BY <1>2
    <3> HIDE DEF cs
    <3>11. ~Some(cs, Nil) /\ ~Some(cs, Garbled) /\ cs # <<>>
      BY <3>5, <3>6, <3>7 DEF Some
    <3>12. CASE Len(cs) = 1
      <4>1. Rendered[x] = cs[1] /\ DOMAIN cs = {1}
        BY <3>5, <3>6, <3>8, <3>11, <3>12
      <4>2. cs[1] \in ExprLevels[n] /\ cs[1] \in Exprs
        <5>1. cs[1] \in S
          BY <3>6, <4>1
        <5>2. QED
          BY <5>1, <1>5, ExprGrow
      <4>3. {Eval(cs[i], row) : i \in DOMAIN cs} = {Eval(cs[1], row)}
        BY <4>1
      <4>4. Eval(cs[1], row) \in Three
        BY <4>2, EvalSteps
      <4>5. And3({Eval(cs[1], row)}) = Eval(cs[1], row) /\ Or3({Eval(cs[1], row)}) = Eval(cs[1], row)
        BY <4>4 DEF And3, Or3, Three
      <4>6. Eval(x, row) = Eval(cs[1], row)
        <5>1. CASE x.e = "and"
          <6>1. x = And(x.cs)
            BY <3>1, <5>1 DEF And
          <6>2. Eval(x, row) = And3({Eval(x.cs[i], row) : i \in DOMAIN x.cs})
            BY <3>10, <6>1, EvalSteps
          <6>3. QED
            BY <3>9, <4>3, <4>5, <6>2
        <5>2. CASE x.e = "or"
          <6>1. x = Or(x.cs)
            BY <3>1, <5>2 DEF Or
          <6>2. Eval(x, row) = Or3({Eval(x.cs[i], row) : i \in DOMAIN x.cs})
            BY <3>10, <6>1, EvalSteps
          <6>3. QED
            BY <3>9, <4>3, <4>5, <6>2
        <5>3. QED
          BY <2>5, <5>1, <5>2
      <4>7. QED
        BY <3>7, <4>1, <4>2, <4>6
    <3>13. CASE Len(cs) # 1
      <4> DEFINE y == [e |-> x.e, cs |-> cs]
      <4>1. Rendered[x] = y
        BY <3>8, <3>11, <3>13
      <4>2. And(cs) \in ExprLevels[n] /\ Or(cs) \in ExprLevels[n] /\ And(cs) \in Exprs /\ Or(cs) \in Exprs
        BY <1>5, <3>6, ExprMade, ExprGrow
      <4>3. CASE x.e = "and"
        <5>1. x = And(x.cs) /\ y = And(cs)
          BY <3>1, <4>3 DEF And
        <5>2. Eval(x, row) = And3({Eval(x.cs[i], row) : i \in DOMAIN x.cs})
          BY <3>10, <5>1, EvalSteps
        <5>3. Eval(And(cs), row) = And3({Eval(cs[i], row) : i \in DOMAIN cs})
          BY <4>2, EvalSteps
        <5>4. And(cs) \notin {Nil, Garbled}
          BY DEF And, Nil, Garbled
        <5>5. QED
          BY <3>9, <4>1, <4>2, <5>1, <5>2, <5>3, <5>4
      <4>4. CASE x.e = "or"
        <5>1. x = Or(x.cs) /\ y = Or(cs)
          BY <3>1, <4>4 DEF Or
        <5>2. Eval(x, row) = Or3({Eval(x.cs[i], row) : i \in DOMAIN x.cs})
          BY <3>10, <5>1, EvalSteps
        <5>3. Eval(Or(cs), row) = Or3({Eval(cs[i], row) : i \in DOMAIN cs})
          BY <4>2, EvalSteps
        <5>4. Or(cs) \notin {Nil, Garbled}
          BY DEF Or, Nil, Garbled
        <5>5. QED
          BY <3>9, <4>1, <4>2, <5>1, <5>2, <5>3, <5>4
      <4>5. QED
        BY <2>5, <4>3, <4>4
    <3>14. QED
      BY <3>12, <3>13
  <2>6. CASE x.e \notin {"not", "and", "or"}
    BY <1>3, <2>1, <2>6
  <2>7. QED
    BY <2>4, <2>5, <2>6
<1>6. \A n \in 0..Nesting : n \in T
  <2> HIDE DEF T
  <2>1. QED
    BY <1>1, <1>4, <1>5, Climb
<1>7. QED
  BY <1>6

\* So a plan with a solid filter, or with none, selects the rows the filter is true for.
LEMMA SolidSelects ==
  ASSUME NEW row, NEW x \in Exprs, x = Nil \/ Solid[x]
  PROVE  Rendered[x] # Garbled /\ (Selects(x, row) <=> Eval(x, row) = "true")
<1>1. CASE x = Nil
  <2>1. Rendered[x] = Nil /\ Nil # Garbled
    BY <1>1, RenderedSteps DEF RenderStep, Nil, Garbled
  <2>2. QED
    BY <1>1, <2>1 DEF Selects
<1>2. CASE Solid[x]
  <2>1. Rendered[x] \notin {Nil, Garbled} /\ Eval(Rendered[x], row) = Eval(x, row)
    BY <1>2, SolidRendered, NestingAssumption DEF Exprs
  <2>2. QED
    BY <2>1 DEF Selects
<1>3. QED
  BY <1>1, <1>2

(***************************************************************************)
(* Lists.                                                                  *)
(***************************************************************************)
IsFilter(u, s, x) ==
  u = [n \in 0..Len(s) |-> IF n = 0 THEN <<>> ELSE IF s[n] = x THEN u[n - 1] ELSE Append(u[n - 1], s[n])]

\* Without keeps the members other than x, and nothing else.
LEMMA WithoutKeeps ==
  ASSUME NEW S, NEW s \in Seq(S), NEW x
  PROVE  /\ Without(s, x) \in Seq(S) /\ Len(Without(s, x)) <= Len(s)
         /\ \A y : Some(Without(s, x), y) <=> Some(s, y) /\ y # x
         /\ \E u : IsFilter(u, s, x) /\ Without(s, x) = u[Len(s)]
<1> DEFINE F(u, n) == IF n = 0 THEN <<>> ELSE IF s[n] = x THEN u[n - 1] ELSE Append(u[n - 1], s[n])
           Kept(n, t) == /\ t \in Seq(S) /\ Len(t) <= n
                         /\ \A y : (\E i \in DOMAIN t : t[i] = y) <=> (\E i \in 1..n : s[i] = y) /\ y # x
           Run(u, n) == u = [m \in 0..n |-> F(u, m)] /\ \A m \in 0..n : Kept(m, u[m])
           T == {n \in 0..Len(s) : \E u : Run(u, n)}
<1>1. Len(s) \in Nat /\ DOMAIN s = 1..Len(s)
  OBVIOUS
<1>2. 0 \in T
  <2> DEFINE u == [m \in 0..0 |-> <<>>]
  <2>1. u = [m \in 0..0 |-> F(u, m)]
    OBVIOUS
  <2>2. Kept(0, <<>>)
    OBVIOUS
  <2>3. Run(u, 0)
    <3> HIDE DEF Kept
    <3>1. \A m \in 0..0 : u[m] = <<>> /\ m = 0
      OBVIOUS
    <3>2. QED
      BY <2>1, <2>2, <3>1
  <2> HIDE DEF u, Kept, F
  <2>4. \E q : Run(q, 0)
    BY <2>3
  <2>5. 0 \in 0..Len(s)
    BY <1>1
  <2> HIDE DEF Run
  <2>6. QED
    BY <2>4, <2>5
<1>3. ASSUME NEW n \in 0..Len(s), n # 0, n - 1 \in T PROVE n \in T
  <2>1. PICK u : Run(u, n - 1)
    BY <1>3
  <2> DEFINE w == [m \in 0..n |-> F(u, m)]
  <2>2. n \in Nat /\ n - 1 \in 0..(n - 1) /\ n \in DOMAIN s /\ s[n] \in S
    BY <1>1, <1>3
  <2>3. \A m \in 0..(n - 1) : u[m] = F(u, m)
    BY <2>1
  <2>4. \A m \in 0..(n - 1) : w[m] = u[m]
    <3> HIDE DEF F
    <3>1. \A m \in 0..(n - 1) : m \in 0..n
      BY <2>2
    <3>2. QED
      BY <2>3, <3>1
  <2>5. \A m \in 0..n : F(u, m) = F(w, m)
    <3>1. \A m \in 0..n : m # 0 => m - 1 \in 0..(n - 1)
      BY <2>2
    <3>2. \A m \in 0..n : m # 0 => u[m - 1] = w[m - 1]
      BY <2>4, <3>1
    <3> HIDE DEF w
    <3>3. QED
      BY <3>2
  <2>6. w = [m \in 0..n |-> F(w, m)]
    <3> DEFINE A(m) == F(u, m)
               B(m) == F(w, m)
    <3>1. w = [m \in 0..n |-> A(m)] /\ \A m \in 0..n : A(m) = B(m)
      BY <2>5
    <3> HIDE DEF A, B, w
    <3>2. w = [m \in 0..n |-> B(m)]
      BY <3>1
    <3>3. QED
      BY <3>2 DEF B
  <2>7. Kept(n - 1, u[n - 1])
    BY <2>1, <2>2
  <2>8. Kept(n, w[n])
    <3>1. w[n] = IF s[n] = x THEN u[n - 1] ELSE Append(u[n - 1], s[n])
      BY <1>3, <2>2
    <3> DEFINE t == u[n - 1]
    <3> HIDE DEF t, w
    <3>2. t \in Seq(S) /\ Len(t) \in Nat /\ Len(t) <= n - 1
      BY <2>7 DEF t
    <3>3. \A y : (\E i \in DOMAIN t : t[i] = y) <=> (\E i \in 1..(n - 1) : s[i] = y) /\ y # x
      BY <2>7 DEF t
    <3>4. \A y : (\E i \in 1..n : s[i] = y) <=> (\E i \in 1..(n - 1) : s[i] = y) \/ s[n] = y
      <4>1. 1..n = 1..(n - 1) \cup {n}
        BY <1>3, <2>2
      <4>2. QED
        BY <4>1
    <3>5. CASE s[n] = x
      <4>1. w[n] = t
        BY <3>1, <3>5 DEF t
      <4>2. \A y : (\E i \in DOMAIN t : t[i] = y) <=> (\E i \in 1..n : s[i] = y) /\ y # x
        BY <3>3, <3>4, <3>5
      <4>3. Len(t) <= n
        BY <2>2, <3>2
      <4>4. QED
        BY <3>2, <4>1, <4>2, <4>3
    <3>6. CASE s[n] # x
      <4> DEFINE a == Append(t, s[n])
      <4>1. w[n] = a
        BY <3>1, <3>6 DEF t
      <4>2. a \in Seq(S) /\ Len(a) = Len(t) + 1 /\ DOMAIN a = 1..(Len(t) + 1) /\ DOMAIN t = 1..Len(t)
        BY <2>2, <3>2
      <4>3. a[Len(t) + 1] = s[n] /\ \A i \in 1..Len(t) : a[i] = t[i]
        BY <2>2, <3>2
      <4> HIDE DEF a
      <4>4. \A y : (\E i \in DOMAIN a : a[i] = y) <=> (\E i \in DOMAIN t : t[i] = y) \/ s[n] = y
        <5>1. 1..(Len(t) + 1) = 1..Len(t) \cup {Len(t) + 1}
          BY <3>2
        <5>2. QED
          BY <4>2, <4>3, <5>1
      <4>5. Len(a) <= n
        BY <2>2, <3>2, <4>2
      <4>6. \A y : (\E i \in DOMAIN a : a[i] = y) <=> (\E i \in 1..n : s[i] = y) /\ y # x
        BY <3>3, <3>4, <3>6, <4>4
      <4>7. QED
        BY <4>1, <4>2, <4>5, <4>6
    <3>7. QED
      BY <3>5, <3>6
  <2>9. \A m \in 0..n : Kept(m, w[m])
    <3>1. \A m \in 0..(n - 1) : Kept(m, w[m])
      <4> HIDE DEF w, Kept
      <4>1. QED
        BY <2>1, <2>4
    <3>2. \A m \in 0..n : m \in 0..(n - 1) \/ m = n
      BY <2>2
    <3> HIDE DEF w, Kept
    <3>3. QED
      BY <2>8, <3>1, <3>2
  <2> HIDE DEF w, Kept, F
  <2>10. QED
    BY <2>6, <2>9
<1>4. Len(s) \in T
  <2> HIDE DEF T
  <2>1. \A n \in 0..Len(s) : n \in T
    BY <1>1, <1>2, <1>3, Climb
  <2>2. Len(s) \in 0..Len(s)
    BY <1>1
  <2>3. QED
    BY <2>1, <2>2
<1>5. PICK v : IsFilter(v, s, x)
  <2>1. PICK u : Run(u, Len(s))
    BY <1>4
  <2>2. IsFilter(u, s, x)
    BY <2>1 DEF IsFilter
  <2>3. QED
    BY <2>2
<1> DEFINE z == CHOOSE u : IsFilter(u, s, x)
<1>6. IsFilter(z, s, x)
  BY <1>5
<1>7. Without(s, x) = z[Len(s)]
  BY DEF Without, IsFilter
<1> HIDE DEF z
<1>8. \A m \in 0..Len(s) : z[m] = F(z, m)
  BY <1>6 DEF IsFilter
<1> DEFINE K == {m \in 0..Len(s) : Kept(m, z[m])}
<1>9. Kept(Len(s), z[Len(s)])
  <2>1. PICK u : Run(u, Len(s))
    BY <1>4
  <2>2. \A m \in 0..Len(s) : u[m] = F(u, m) /\ Kept(m, u[m])
    BY <2>1
  <2> DEFINE E == {m \in 0..Len(s) : z[m] = u[m]}
  <2>3. 0 \in E
    <3>1. 0 \in 0..Len(s)
      BY <1>1
    <3>2. QED
      BY <1>8, <2>2, <3>1
  <2>4. ASSUME NEW m \in 0..Len(s), m # 0, m - 1 \in E PROVE m \in E
    <3>1. z[m - 1] = u[m - 1]
      BY <2>4
    <3>2. F(z, m) = F(u, m)
      BY <3>1
    <3> HIDE DEF F, Kept
    <3>3. QED
      BY <1>8, <2>2, <3>2
  <2>5. \A m \in 0..Len(s) : m \in E
    <3> HIDE DEF E
    <3>1. QED
      BY <1>1, <2>3, <2>4, Climb
  <2>6. z[Len(s)] = u[Len(s)] /\ Len(s) \in 0..Len(s)
    BY <1>1, <2>5
  <2> HIDE DEF Kept, F
  <2>7. QED
    BY <2>2, <2>6
<1>10. /\ Without(s, x) \in Seq(S) /\ Len(Without(s, x)) <= Len(s)
       /\ \A y : Some(Without(s, x), y) <=> Some(s, y) /\ y # x
  BY <1>1, <1>7, <1>9 DEF Some
<1>11. \E u : IsFilter(u, s, x) /\ Without(s, x) = u[Len(s)]
  BY <1>6, <1>7
<1>12. QED
  BY <1>10, <1>11

\* Without keeps as many members as differ from x.
LEMMA WithoutCounts ==
  ASSUME NEW S, NEW s \in Seq(S), NEW x, NEW M \in SUBSET {i \in DOMAIN s : s[i] # x}
  PROVE  IsFiniteSet(M) /\ Cardinality(M) \in Nat /\ Cardinality(M) <= Len(Without(s, x))
<1>1. Len(s) \in Nat /\ DOMAIN s = 1..Len(s)
  OBVIOUS
<1>2. PICK u : IsFilter(u, s, x) /\ Without(s, x) = u[Len(s)]
  BY WithoutKeeps
<1>3. \A n \in 0..Len(s) : u[n] = IF n = 0 THEN <<>> ELSE IF s[n] = x THEN u[n - 1] ELSE Append(u[n - 1], s[n])
  BY <1>2 DEF IsFilter
<1> DEFINE C(n) == {i \in 1..n : s[i] # x}
           Ok(n) == u[n] \in Seq(S) /\ IsFiniteSet(C(n)) /\ Cardinality(C(n)) <= Len(u[n])
           T == {n \in 0..Len(s) : Ok(n)}
<1>4. 0 \in T
  <2>1. 0 \in 0..Len(s) /\ C(0) = {} /\ u[0] = <<>>
    BY <1>1, <1>3
  <2> HIDE DEF C
  <2>2. <<>> \in Seq(S) /\ Len(<<>>) = 0
    OBVIOUS
  <2>3. Cardinality(C(0)) <= Len(u[0]) /\ IsFiniteSet(C(0)) /\ u[0] \in Seq(S)
    <3>1. Cardinality({}) = 0 /\ IsFiniteSet({})
      BY FS_EmptySet
    <3>2. Cardinality(C(0)) = 0 /\ IsFiniteSet(C(0))
      BY <2>1, <3>1, Zenon
    <3>3. u[0] \in Seq(S) /\ Len(u[0]) = 0
      BY <2>1, <2>2
    <3>4. QED
      BY <3>2, <3>3
  <2>4. QED
    BY <2>1, <2>3
<1>5. ASSUME NEW n \in 0..Len(s), n # 0, n - 1 \in T PROVE n \in T
  <2>1. n \in DOMAIN s /\ s[n] \in S /\ n \in Nat
    BY <1>1, <1>5
  <2>2. u[n - 1] \in Seq(S) /\ IsFiniteSet(C(n - 1)) /\ Cardinality(C(n - 1)) <= Len(u[n - 1]) /\ Len(u[n - 1]) \in Nat
    BY <1>5
  <2>3. u[n] = IF s[n] = x THEN u[n - 1] ELSE Append(u[n - 1], s[n])
    BY <1>3, <1>5
  <2>4. C(n) = (IF s[n] = x THEN C(n - 1) ELSE C(n - 1) \cup {n}) /\ n \notin C(n - 1)
    BY <2>1
  <2> HIDE DEF C
  <2>5. ASSUME s[n] = x PROVE Ok(n)
    BY <2>2, <2>3, <2>4, <2>5
  <2>6. ASSUME s[n] # x PROVE Ok(n)
    <3> DEFINE t == u[n - 1]
               D == C(n - 1)
    <3> HIDE DEF t, D
    <3>1. t \in Seq(S) /\ IsFiniteSet(D) /\ Cardinality(D) <= Len(t) /\ n \notin D
      BY <2>2, <2>4 DEF t, D
    <3>2. IsFiniteSet(D \cup {n}) /\ Cardinality(D \cup {n}) = Cardinality(D) + 1 /\ Cardinality(D) \in Nat
      BY <3>1, FS_AddElement, FS_CardinalityType
    <3>3. Append(t, s[n]) \in Seq(S) /\ Len(Append(t, s[n])) = Len(t) + 1 /\ Len(t) \in Nat
      BY <2>1, <3>1
    <3>4. u[n] = Append(t, s[n]) /\ C(n) = D \cup {n}
      BY <2>3, <2>4, <2>6 DEF t, D
    <3>5. Cardinality(C(n)) <= Len(u[n])
      BY <3>1, <3>2, <3>3, <3>4
    <3>6. QED
      BY <3>2, <3>3, <3>4, <3>5
  <2>7. Ok(n)
    BY <2>5, <2>6
  <2>8. QED
    BY <2>7
<1>6. Len(s) \in T
  <2> HIDE DEF T
  <2>1. \A n \in 0..Len(s) : n \in T
    BY <1>1, <1>4, <1>5, Climb
  <2>2. QED
    BY <1>1, <2>1
<1>7. IsFiniteSet(C(Len(s))) /\ Cardinality(C(Len(s))) <= Len(u[Len(s)]) /\ M \subseteq C(Len(s))
  BY <1>1, <1>6
<1>8. u[Len(s)] \in Seq(S) /\ Len(u[Len(s)]) \in Nat
  BY <1>6
<1> HIDE DEF C, T
<1>9. IsFiniteSet(M) /\ Cardinality(M) <= Cardinality(C(Len(s))) /\ Cardinality(M) \in Nat /\ Cardinality(C(Len(s))) \in Nat
  BY <1>7, FS_Subset, FS_CardinalityType
<1>10. QED
  BY <1>2, <1>7, <1>8, <1>9

\* The atoms are solid unless nil.
LEMMA SolidAtoms ==
  ASSUME NEW x \in Atoms, x # Nil
  PROVE  Solid[x] = TRUE
<1>1. x \in Exprs /\ x.e \notin {"not", "and", "or"}
  <2>1. x \in Exprs
    BY ExprMade, NestingAssumption DEF Exprs
  <2>2. x.e \notin {"not", "and", "or"}
    BY DEF Atoms
  <2>3. QED
    BY <2>1, <2>2
<1>2. SolidStep(Solid, x) = TRUE
  BY <1>1 DEF SolidStep
<1>3. QED
  BY <1>1, <1>2, SolidSteps

LEMMA SolidShapes ==
  /\ \A c : Not(c) \in Exprs => (Solid[Not(c)] <=> Solid[c])
  /\ \A cs : And(cs) \in Exprs => (Solid[And(cs)] <=> cs # <<>> /\ \A i \in DOMAIN cs : Solid[cs[i]])
  /\ \A cs : Or(cs) \in Exprs => (Solid[Or(cs)] <=> cs # <<>> /\ \A i \in DOMAIN cs : Solid[cs[i]])
<1>1. ASSUME NEW c, Not(c) \in Exprs PROVE Solid[Not(c)] <=> Solid[c]
  <2>1. Not(c).e = "not" /\ Not(c).c = c
    BY DEF Not
  <2>2. SolidStep(Solid, Not(c)) = Solid[c]
    BY <2>1 DEF SolidStep
  <2>3. QED
    BY <1>1, <2>2, SolidSteps
<1>2. ASSUME NEW cs, And(cs) \in Exprs
      PROVE  Solid[And(cs)] <=> cs # <<>> /\ \A i \in DOMAIN cs : Solid[cs[i]]
  <2>1. And(cs).e = "and" /\ And(cs).cs = cs
    BY DEF And
  <2>2. SolidStep(Solid, And(cs)) <=> cs # <<>> /\ \A i \in DOMAIN cs : Solid[cs[i]]
    BY <2>1 DEF SolidStep
  <2>3. QED
    BY <1>2, <2>2, SolidSteps
<1>3. ASSUME NEW cs, Or(cs) \in Exprs
      PROVE  Solid[Or(cs)] <=> cs # <<>> /\ \A i \in DOMAIN cs : Solid[cs[i]]
  <2>1. Or(cs).e = "or" /\ Or(cs).cs = cs
    BY DEF Or
  <2>2. SolidStep(Solid, Or(cs)) <=> cs # <<>> /\ \A i \in DOMAIN cs : Solid[cs[i]]
    BY <2>1 DEF SolidStep
  <2>3. QED
    BY <1>3, <2>2, SolidSteps
<1>4. QED
  BY <1>1, <1>2, <1>3
==============================================================================
