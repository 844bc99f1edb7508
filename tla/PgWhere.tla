------------------------------- MODULE PgWhere -------------------------------
(***************************************************************************)
(* translate/pg: the conditions of a WHERE clause, on their way to the     *)
(* boolean expression that Milvus evaluates.                               *)
(*                                                                         *)
(* The predicates are parsed (a NULL literal is resolved on the spot), the *)
(* qualifiers of their columns are stripped, fold removes the constants    *)
(* and buildWhere lowers the tree.  Sql is what the condition means in     *)
(* SQL's three-valued logic: a WHERE passes the rows for which it is true. *)
(***************************************************************************)
EXTENDS MilvusExpr

CONSTANTS
  Bad,        \* a literal coerceValue refuses for its column
  Bare,       \* in place of a qualifier: none
  Qualifiers, \* what may stand before a column
  Yes, No,    \* the cells of a boolean field
  Literals,   \* the literals a condition may compare with, NULL and Bad among them
  Depth       \* how deep conditions nest

\* A negated BETWEEN lowers to two levels more than it is written with.
ASSUME WhereAssumption ==
  /\ Depth \in Nat /\ Nesting >= Depth + 2
  /\ Bare \in Qualifiers /\ Yes \in Values /\ Yes # Null /\ Literals \ {Null} \subseteq Values

(***************************************************************************)
(* Conditions as written.  A column is a reference <<qualifier, name>>, a  *)
(* literal is a value, Null (the NULL keyword) or Bad.                     *)
(***************************************************************************)
Const(v) == [w |-> "const", v |-> v]               \* "true", "false" or "unknown"
Column(c) == [w |-> "column", c |-> c]
ColumnOp(c, op, v) == [w |-> "compare", c |-> c, op |-> op, v |-> v, flipped |-> FALSE]
LiteralOp(v, op, c) == [w |-> "compare", c |-> c, op |-> op, v |-> v, flipped |-> TRUE]
In(c, vs, neg) == [w |-> "in", c |-> c, vs |-> vs, neg |-> neg]
Between(c, lo, hi, neg) == [w |-> "between", c |-> c, lo |-> lo, hi |-> hi, neg |-> neg]
NullTest(c, neg) == [w |-> "null", c |-> c, neg |-> neg]
NotW(x) == [w |-> "not", x |-> x]
AndW(xs) == [w |-> "and", xs |-> xs]
OrW(xs) == [w |-> "or", xs |-> xs]

\* The where tree (expr.go): a nil whereExpr is the constant true.
True == [w |-> "true"]
False == [w |-> "false"]

ColumnRefs == Qualifiers \X Names

\* One predicate, and the conditions of so many levels over them.
Predicates ==
  [w : {"true", "false"}]
  \cup [w : {"const"}, v : {"true", "false", "unknown"}]
  \cup [w : {"column"}, c : ColumnRefs]
  \cup [w : {"compare"}, c : ColumnRefs, op : Operators, v : Literals, flipped : BOOLEAN]
  \cup [w : {"in"}, c : ColumnRefs, vs : SUBSET Literals, neg : BOOLEAN]
  \cup [w : {"between"}, c : ColumnRefs, lo : Literals, hi : Literals, neg : BOOLEAN]
  \cup [w : {"null"}, c : ColumnRefs, neg : BOOLEAN]

Levels[n \in 0..Depth] ==
  IF n = 0 THEN Predicates
  ELSE Predicates \cup [w : {"not"}, x : Levels[n - 1]] \cup [w : {"and", "or"}, xs : Seq(Levels[n - 1])]

Conditions == Levels[Depth]

(***************************************************************************)
(* Parsing one predicate.                                                  *)
(***************************************************************************)
\* (mutant) A literal-first comparison keeps its operator.
FlipComparisonNot(op) == op

FlipComparison(op) ==
  CASE op = "<" -> ">" [] op = ">" -> "<" [] op = "<=" -> ">=" [] op = ">=" -> "<="
    [] OTHER -> op

\* combineComparison: a NULL side never passes a row.
CombineComparison(p) ==
  IF p.v = Null THEN False
  ELSE ColumnOp(p.c, IF p.flipped THEN FlipComparison(p.op) ELSE p.op, p.v)

\* parseInTail: a NULL member adds nothing to IN and empties NOT IN.
ParseInTail(p) == IF p.neg /\ Null \in p.vs THEN False ELSE In(p.c, p.vs \ {Null}, p.neg)

\* parseBetweenTail: a NULL bound passes nothing, whether negated or not.
ParseBetweenTail(p) == IF Null \in {p.lo, p.hi} THEN False ELSE p

\* barePredicate: TRUE, FALSE, NULL or a boolean column.
BarePredicate(p) == IF p.w = "column" THEN p ELSE IF p.v = "true" THEN True ELSE False

Parse[p \in Conditions] ==
  CASE p.w = "not" -> NotW(Parse[p.x])
    [] p.w \in {"and", "or"} -> [w |-> p.w, xs |-> [i \in DOMAIN p.xs |-> Parse[p.xs[i]]]]
    [] p.w \in {"const", "column"} -> BarePredicate(p)
    [] p.w = "compare" -> CombineComparison(p)
    [] p.w = "in" -> ParseInTail(p)
    [] p.w = "between" -> ParseBetweenTail(p)
    [] OTHER -> p

(***************************************************************************)
(* resolveQualifiers: the references of a condition, and the condition     *)
(* with its references stripped to names.  A predicate that NULL has       *)
(* decided has lost its column already.                                    *)
(***************************************************************************)
Refs[p \in Conditions] ==
  CASE p.w \in {"true", "false"} -> {}
    [] p.w = "not" -> Refs[p.x]
    [] p.w \in {"and", "or"} -> UNION {Refs[p.xs[i]] : i \in DOMAIN p.xs}
    [] OTHER -> {p.c}

StripWhere[p \in Conditions] ==
  CASE p.w = "not" -> NotW(StripWhere[p.x])
    [] p.w \in {"and", "or"} -> [w |-> p.w, xs |-> [i \in DOMAIN p.xs |-> StripWhere[p.xs[i]]]]
    [] p.w \in {"true", "false"} -> p
    [] OTHER -> [p EXCEPT !.c = <<Bare, p.c[2]>>]

(***************************************************************************)
(* Folding.                                                                *)
(***************************************************************************)
\* (mutant) A true part stays in the conjunction.
FoldAndKeeps(xs) == IF Some(xs, False) THEN False ELSE IF Len(xs) = 1 THEN xs[1] ELSE AndW(xs)

FoldAnd(xs) ==
  LET keep == Without(xs, True)
  IN IF Some(xs, False) THEN False
     ELSE IF keep = <<>> THEN True
     ELSE IF Len(keep) = 1 THEN keep[1] ELSE AndW(keep)

FoldOr(xs) ==
  LET keep == Without(xs, False)
  IN IF Some(xs, True) THEN True
     ELSE IF keep = <<>> THEN False
     ELSE IF Len(keep) = 1 THEN keep[1] ELSE OrW(keep)

FoldNot(x) ==
  IF x = False THEN True
  ELSE IF x = True THEN False
  ELSE IF x.w = "null" THEN NullTest(x.c, ~x.neg)
  ELSE NotW(x)

Fold[p \in Conditions] ==
  CASE p.w = "and" -> FoldAnd([i \in DOMAIN p.xs |-> Fold[p.xs[i]]])
    [] p.w = "or" -> FoldOr([i \in DOMAIN p.xs |-> Fold[p.xs[i]]])
    [] p.w = "not" -> FoldNot(Fold[p.x])
    [] OTHER -> p

(***************************************************************************)
(* Lowering.                                                               *)
(***************************************************************************)
Lowered(x, neg) == IF neg THEN Not(x) ELSE x

BuildWhere[p \in Conditions] ==
  LET f == p.c[2]
  IN CASE p.w = "not" -> Not(BuildWhere[p.x])
       [] p.w = "and" -> And([i \in DOMAIN p.xs |-> BuildWhere[p.xs[i]]])
       [] p.w = "or" -> Or([i \in DOMAIN p.xs |-> BuildWhere[p.xs[i]]])
       [] p.w = "true" -> Nil
       [] p.w = "false" -> Never
       [] p.w = "column" -> Compare("=", f, Yes)
       [] p.w = "compare" -> Compare(p.op, f, p.v)
       [] p.w = "in" -> Lowered(InList(f, p.vs), p.neg)
       [] p.w = "between" ->
            Lowered(And(<<Compare(">=", f, p.lo), Compare("<=", f, p.hi)>>), p.neg)
       [] OTHER -> IF p.neg THEN NotNull(f) ELSE IsNull(f)

\* A literal that survived folding does not fit its column: buildWhere's error.
HasBad[p \in Conditions] ==
  CASE p.w = "compare" -> p.v = Bad
    [] p.w = "in" -> Bad \in p.vs
    [] p.w = "between" -> Bad \in {p.lo, p.hi}
    [] p.w = "not" -> HasBad[p.x]
    [] p.w \in {"and", "or"} -> \E i \in DOMAIN p.xs : HasBad[p.xs[i]]
    [] OTHER -> FALSE

(***************************************************************************)
(* What a condition means in SQL (the reference).                          *)
(***************************************************************************)
Test(op, a, b) == IF Null \in {a, b} THEN "unknown" ELSE Truth(Holds(op, a, b))
Turned(v, neg) == IF neg THEN Not3(v) ELSE v

Sql(where, row) ==
  LET sql[p \in Conditions] ==
        LET cell == row[p.c[2]]
        IN CASE p.w = "const" -> p.v
             [] p.w \in {"true", "false"} -> p.w
             [] p.w = "column" -> Test("=", cell, Yes)
             [] p.w = "compare" -> IF p.flipped THEN Test(p.op, p.v, cell) ELSE Test(p.op, cell, p.v)
             [] p.w = "in" -> Turned(IF cell = Null THEN "unknown" ELSE Or3({Test("=", cell, v) : v \in p.vs}), p.neg)
             [] p.w = "between" -> Turned(And3({Test(">=", cell, p.lo), Test("<=", cell, p.hi)}), p.neg)
             [] p.w = "null" -> Truth((cell = Null) # p.neg)
             [] p.w = "not" -> Not3(sql[p.x])
             [] p.w = "and" -> And3({sql[p.xs[i]] : i \in DOMAIN p.xs})
             [] OTHER -> Or3({sql[p.xs[i]] : i \in DOMAIN p.xs})
  IN sql[where]

\* A NULL literal stands in a condition, and it stands where its unknown could be
\* negated.
HoldsNull[p \in Conditions] ==
  CASE p.w = "not" -> HoldsNull[p.x]
    [] p.w \in {"and", "or"} -> \E i \in DOMAIN p.xs : HoldsNull[p.xs[i]]
    [] p.w = "const" -> p.v = "unknown"
    [] p.w = "compare" -> p.v = Null
    [] p.w = "in" -> Null \in p.vs
    [] p.w = "between" -> Null \in {p.lo, p.hi}
    [] OTHER -> FALSE

NegatesNull[p \in Conditions] ==
  CASE p.w \in {"and", "or"} -> \E i \in DOMAIN p.xs : NegatesNull[p.xs[i]]
    [] p.w = "not" -> HoldsNull[p.x]
    [] p.w = "between" -> p.neg /\ HoldsNull[p]
    [] OTHER -> FALSE
=============================================================================
