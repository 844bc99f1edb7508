----------------------------- MODULE MilvusExpr -----------------------------
(***************************************************************************)
(* The boolean expressions both frontends lower a filter to                *)
(* (internal/translate/expr.go), what Render makes of them, and how Milvus *)
(* evaluates the result: three-valued, a comparison with a null cell being *)
(* unknown.                                                                *)
(***************************************************************************)
EXTENDS Integers, Sequences

CONSTANTS
  Null,     \* a missing cell
  Names,    \* the names of fields
  Values,   \* literals, cells and tokens
  Nesting   \* how deep expressions nest

ASSUME NestingAssumption == Nesting \in Nat

Nil == [e |-> "nil"]      \* a nil Expr: no filter
Never == [e |-> "never"]
Compare(op, f, v) == [e |-> "cmp", op |-> op, f |-> f, v |-> v]
InList(f, vs) == [e |-> "in", f |-> f, vs |-> vs]
TextMatch(f, toks) == [e |-> "text", f |-> f, toks |-> toks]
NotNull(f) == [e |-> "notnull", f |-> f]
IsNull(f) == [e |-> "isnull", f |-> f]
Not(c) == [e |-> "not", c |-> c]
And(cs) == [e |-> "and", cs |-> cs]
Or(cs) == [e |-> "or", cs |-> cs]

Operators == {"=", "<>", "<", "<=", ">", ">="}

\* The leaves, and the expressions of so many levels over them.
Atoms ==
  [e : {"nil", "never"}]
  \cup [e : {"cmp"}, op : Operators, f : Names, v : Values]
  \cup [e : {"in"}, f : Names, vs : SUBSET Values]
  \cup [e : {"text"}, f : Names, toks : SUBSET Values]
  \cup [e : {"notnull", "isnull"}, f : Names]

ExprLevels[n \in 0..Nesting] ==
  IF n = 0 THEN Atoms
  ELSE Atoms \cup [e : {"not"}, c : ExprLevels[n - 1]] \cup [e : {"and", "or"}, cs : Seq(ExprLevels[n - 1])]

Exprs == ExprLevels[Nesting]

\* The members of a list other than x: a loop that appends those it keeps.
Without(s, x) ==
  LET upTo[n \in 0..Len(s)] ==
        IF n = 0 THEN <<>> ELSE IF s[n] = x THEN upTo[n - 1] ELSE Append(upTo[n - 1], s[n])
  IN upTo[Len(s)]

Some(s, x) == \E i \in DOMAIN s : s[i] = x

\* A text Milvus does not parse: an empty pair of parentheses in it.
Garbled == [e |-> "garbled"]

\* renderExpr and renderJoin: the tree that the text stands for.  A negated
\* NotNull is written as is null, a join of one as its member, a join of none as
\* nothing at all.
Rendered[x \in Exprs] ==
  CASE x.e = "not" ->
         IF x.c.e = "notnull" THEN IsNull(x.c.f)
         ELSE IF Rendered[x.c] \in {Nil, Garbled} THEN Garbled ELSE Not(Rendered[x.c])
    [] x.e \in {"and", "or"} ->
         LET cs == [i \in DOMAIN x.cs |-> Rendered[x.cs[i]]]
         IN IF cs = <<>> THEN Nil
            ELSE IF Len(cs) = 1 THEN cs[1]
            ELSE IF Some(cs, Nil) \/ Some(cs, Garbled) THEN Garbled
            ELSE [e |-> x.e, cs |-> cs]
    [] OTHER -> x

Truth(b) == IF b THEN "true" ELSE "false"

Holds(op, a, b) ==
  CASE op = "=" -> a = b [] op = "<>" -> a # b
    [] op = "<" -> a < b [] op = "<=" -> a <= b
    [] op = ">" -> b < a [] op = ">=" -> b <= a

\* Kleene's connectives on "true", "false" and "unknown".
Not3(v) == CASE v = "true" -> "false" [] v = "false" -> "true" [] OTHER -> "unknown"
And3(vs) ==
  IF "false" \in vs THEN "false" ELSE IF "unknown" \in vs THEN "unknown" ELSE "true"
Or3(vs) ==
  IF "true" \in vs THEN "true" ELSE IF "unknown" \in vs THEN "unknown" ELSE "false"

\* Milvus's verdict on a row (external).
Eval(expr, row) ==
  LET eval[x \in Exprs] ==
        CASE x.e = "nil" -> "true"
          [] x.e = "never" -> "false"
          [] x.e = "notnull" -> Truth(row[x.f] # Null)
          [] x.e = "isnull" -> Truth(row[x.f] = Null)
          [] x.e \in {"cmp", "in", "text"} ->
               IF row[x.f] = Null THEN "unknown"
               ELSE Truth(CASE x.e = "cmp" -> Holds(x.op, row[x.f], x.v)
                            [] x.e = "in" -> row[x.f] \in x.vs
                            [] OTHER -> row[x.f] \cap x.toks # {})
          [] x.e = "not" -> Not3(eval[x.c])
          [] x.e = "and" -> And3({eval[x.cs[i]] : i \in DOMAIN x.cs})
          [] OTHER -> Or3({eval[x.cs[i]] : i \in DOMAIN x.cs})
  IN eval[expr]

\* The rows a plan selects; a text that does not parse selects none.
Selects(expr, row) ==
  Rendered[expr] # Garbled /\ Eval(Rendered[expr], row) = "true"
=============================================================================
