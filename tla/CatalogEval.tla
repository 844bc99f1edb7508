----------------------------- MODULE CatalogEval -----------------------------
(***************************************************************************)
(* internal/catalog: the engine behind pg_catalog and information_schema.  *)
(*                                                                         *)
(* A query is parsed into a tree, its output columns are inferred from the *)
(* static table definitions, and at execution the sources are joined from  *)
(* left to right, filtered, projected, made distinct, sorted and windowed. *)
(* A scalar subquery runs the same pipeline once per enclosing row.        *)
(***************************************************************************)
EXTENDS Integers, FiniteSets, SequencesExt

CONSTANTS
  Tables,    \* table name -> [cols, types, rows]: the virtual tables of one snapshot
  Params,    \* the bound parameters, as text cells
  Texts,     \* the strings of the model, in byte order
  Numerals,  \* the strings ParseFloat reads -> their value
  Likes      \* <<string, pattern>>: what the regexp of likeMatch accepts

(***************************************************************************)
(* Cells: NULL, number, text, boolean or array.  "err" is an error return  *)
(* and "panic" a run-time panic, recovered only around the whole statement.*)
(***************************************************************************)
Cell(k, i, t) == [k |-> k, i |-> i, t |-> t]
Null == Cell("null", 0, "")
Num(i) == Cell("num", i, "")
Txt(t) == Cell("text", 0, t)
Bool(b) == Cell("bool", IF b THEN 1 ELSE 0, "")
Arr(xs) == [k |-> "arr", i |-> 0, t |-> "", xs |-> xs]
Err == Cell("err", 0, "")
Panic == Cell("panic", 0, "")

IsNull(v) == v.k = "null"
IsBad(v) == v.k \in {"err", "panic"}
Truth(v) == v = Bool(TRUE)

(***************************************************************************)
(* Queries.  A node has an operator, a qualifier, a NOT, a quantifier, a   *)
(* literal and its operands; a subquery node also has a statement.         *)
(***************************************************************************)
Node(n, op, xs) == [n |-> n, op |-> op, tbl |-> "", neg |-> FALSE, quant |-> "", v |-> Null, xs |-> xs]
None == Node("none", "", <<>>)
Lit(v) == [Node("lit", "", <<>>) EXCEPT !.v = v]
Param(i) == [Node("param", "", <<>>) EXCEPT !.v = Num(i)]
Col(t, c) == [Node("col", c, <<>>) EXCEPT !.tbl = t]
Bin(op, l, r) == Node("bin", op, <<l, r>>)
Quantified(op, l, q, r) == [Bin(op, l, r) EXCEPT !.quant = q]
Negated(e) == [e EXCEPT !.neg = TRUE]              \* NOT LIKE, NOT IN, NOT BETWEEN, IS NOT NULL
NotE(e) == Node("not", "", <<e>>)
InE(e, list) == Node("in", "", <<e>> \o list)
BetweenE(e, lo, hi) == Node("between", "", <<e, lo, hi>>)
IsNullE(e) == Node("isnull", "", <<e>>)
IsE(e, word) == Node("is", word, <<e>>)            \* IS TRUE, IS FALSE
CaseE(operand, cond, then, else) == Node("case", "", <<operand, cond, then, else>>)
CastE(e, target) == Node("cast", target, <<e>>)
SubscriptE(e, i) == Node("subscript", "", <<e, i>>)
CallE(f, args) == Node("call", f, args)
QueryE(n, st) == [n |-> n, op |-> "", tbl |-> "", neg |-> FALSE, quant |-> "", v |-> Null, xs |-> <<>>, st |-> st]

IsQuery(e) == e.n \in {"scalar", "array"}
Item(e, name) == [e |-> e, name |-> name, star |-> FALSE, tbl |-> ""]
Star(t) == [e |-> None, name |-> "", star |-> TRUE, tbl |-> t]
Source(table, alias, kind, on) == [table |-> table, alias |-> alias, kind |-> kind, on |-> on]
OrderBy(e, desc) == [e |-> e, desc |-> desc]

\* Every expression a statement holds, for the walks of the parser and of Prepare.
Parts(st) ==
  {st.from[i].on : i \in DOMAIN st.from} \cup {st.items[i].e : i \in DOMAIN st.items}
    \cup {st.where} \cup {st.order[i].e : i \in DOMAIN st.order}

(***************************************************************************)
(* Parsing.  What a tree says before (as the client wrote it) and after.   *)
(***************************************************************************)
\* parseComparison: ANY and ALL are one quantifier and keep the operator as
\* written, IS TRUE and IS FALSE are dropped, BETWEEN keeps its bounds in a
\* tail, and != is <>.
ParseComparison(e) ==
  CASE e.n = "is" -> e.xs[1]
    [] e.n = "between" ->
         [Bin("BETWEEN", e.xs[1], Node("tail", "", <<e.xs[2], e.xs[3]>>)) EXCEPT !.neg = e.neg]
    [] e.n = "bin" /\ e.quant # "" -> [e EXCEPT !.quant = "ANY"]
    [] e.n = "bin" /\ e.op = "!=" -> [e EXCEPT !.op = "<>"]
    [] OTHER -> e

RECURSIVE ParseExpr(_), ParseSelect(_)
ParseExpr(e) ==
  IF IsQuery(e) THEN [e EXCEPT !.st = ParseSelect(@)]
  ELSE ParseComparison([e EXCEPT !.xs = [i \in DOMAIN @ |-> ParseExpr(@[i])]])

ParseSelect(st) ==
  [st EXCEPT !.items = [i \in DOMAIN @ |-> [@[i] EXCEPT !.e = ParseExpr(@)]],
             !.from = [i \in DOMAIN @ |-> [@[i] EXCEPT !.on = ParseExpr(@)]],
             !.where = ParseExpr(@),
             !.order = [i \in DOMAIN @ |-> [@[i] EXCEPT !.e = ParseExpr(@)]],
             !.limit = ParseExpr(@), !.offset = ParseExpr(@)]

\* What the grammar has no rule for: a clause after the statement (UNION and
\* GROUP BY are no keywords of the lexer, FOR is one), EXISTS and SOME.
RECURSIVE Unparsed(_), UnparsedSelect(_)
Unparsed(e) ==
  \/ e.n = "exists" \/ e.quant = "SOME"
  \/ \E i \in DOMAIN e.xs : Unparsed(e.xs[i])
  \/ IsQuery(e) /\ UnparsedSelect(e.st)
UnparsedSelect(st) == st.tail # "" \/ \E e \in Parts(st) \cup {st.limit, st.offset} : Unparsed(e)

(***************************************************************************)
(* The function whitelist and what Prepare checks.                         *)
(***************************************************************************)
Functions ==
  [version             |-> [args |-> 0,  ret |-> "text", does |-> "version"],
   obj_description     |-> [args |-> -1, ret |-> "text", does |-> "null"],
   pg_table_is_visible |-> [args |-> 1,  ret |-> "bool", does |-> "true"],
   pg_table_size       |-> [args |-> 1,  ret |-> "num",  does |-> "zero"],
   current_schemas     |-> [args |-> 1,  ret |-> "arr",  does |-> "schemas"],
   cardinality         |-> [args |-> 1,  ret |-> "num",  does |-> "length"]]

RECURSIVE ValidateFunctions(_), ValidateSubquery(_)
ValidateFunctions(e) ==
  /\ e.n = "call" => e.op \in DOMAIN Functions
  /\ \A i \in DOMAIN e.xs : ValidateFunctions(e.xs[i])
  /\ IsQuery(e) => ValidateSubquery(e.st)
ValidateSubquery(st) ==
  /\ \A i \in DOMAIN st.from : st.from[i].table \in DOMAIN Tables
  /\ \A e \in Parts(st) : ValidateFunctions(e)

\* Prepare also refuses RIGHT and FULL joins, of the statement itself only.
Validated(st) ==
  ValidateSubquery(st) /\ \A i \in DOMAIN st.from : st.from[i].kind \notin {"right", "full"}

(***************************************************************************)
(* Output columns.                                                         *)
(***************************************************************************)
Has(src, c) == Contains(Tables[src.table].cols, c)
At(src, c) == SelectInSeq(Tables[src.table].cols, LAMBDA x : x = c)

\* The first source that knows the column gives its type; text otherwise.
ColumnType(e, from) ==
  LET src == SelectSeq(from, LAMBDA s : (e.tbl = "" \/ s.alias = e.tbl) /\ Has(s, e.op))
  IN IF src = <<>> THEN "text" ELSE Tables[src[1].table].types[At(src[1], e.op)]

Comparisons == {"=", "<>", "<", ">", "<=", ">="}

RECURSIVE InferOID(_, _)
InferOID(e, from) ==
  CASE e.n = "lit" -> IF e.v.k \in {"bool", "num"} THEN e.v.k ELSE "text"
    [] e.n = "col" -> ColumnType(e, from)
    [] e.n = "call" -> Functions[e.op].ret
    [] e.n = "bin" -> IF e.op \in Comparisons \cup {"AND", "OR", "BETWEEN"} THEN "bool" ELSE "num"
    [] e.n \in {"isnull", "in"} -> "bool"
    [] e.n = "case" -> InferOID(e.xs[3], from)
    [] e.n = "cast" -> IF e.op = "bool" THEN "bool" ELSE IF e.op \in {"int4", "oid"} THEN "num" ELSE "text"
    [] e.n \in {"not", "minus"} -> "num"
    [] OTHER -> "text"

Starred(item, from) == SelectSeq(from, LAMBDA s : item.tbl \in {"", s.alias})

OfItem(item, from) ==
  IF ~item.star THEN <<[name |-> item.name, type |-> InferOID(item.e, from)]>>
  ELSE FlattenSeq([i \in DOMAIN Starred(item, from) |->
         LET def == Tables[Starred(item, from)[i].table]
         IN [j \in DOMAIN def.cols |-> [name |-> def.cols[j], type |-> def.types[j]]]])

InferColumns(st) == FlattenSeq([i \in DOMAIN st.items |-> OfItem(st.items[i], st.from)])
StarsExpand(st) == \A i \in DOMAIN st.items : st.items[i].star => Starred(st.items[i], st.from) # <<>>

(***************************************************************************)
(* Values.                                                                 *)
(***************************************************************************)
Sign(n) == IF n < 0 THEN -1 ELSE IF n > 0 THEN 1 ELSE 0
Rank(t) == SelectInSeq(Texts, LAMBDA x : x = t)

ToFloatOK(v) == v.k = "num" \/ (v.k = "text" /\ v.t \in DOMAIN Numerals)
ToFloat(v) == IF v.k = "num" THEN v.i ELSE Numerals[v.t]

RECURSIVE TextOf(_)
TextOf(v) ==
  CASE v.k = "null" -> ""
    [] v.k = "text" -> v.t
    [] v.k = "num" -> CHOOSE t \in DOMAIN Numerals : Numerals[t] = v.i
    [] v.k = "bool" -> IF v.i = 1 THEN "t" ELSE "f"
    [] v.k = "arr" ->
         LET parts == [i \in DOMAIN v.xs |-> (IF i = 1 THEN "" ELSE ",") \o TextOf(v.xs[i])]
         IN FoldLeft(LAMBDA acc, x : acc \o x, "{", parts) \o "}"

CompareValues(a, b) ==
  CASE IsNull(a) /\ IsNull(b) -> 0
    [] IsNull(a) -> 1
    [] IsNull(b) -> -1
    [] OTHER ->
         IF ToFloatOK(a) /\ ToFloatOK(b) /\ "num" \in {a.k, b.k}
         THEN Sign(ToFloat(a) - ToFloat(b))
         ELSE Sign(Rank(TextOf(a)) - Rank(TextOf(b)))

LikeMatch(v, p) == ~IsNull(v) /\ ~IsNull(p) /\ <<TextOf(v), TextOf(p)>> \in Likes

CoerceCast(v, target) ==
  CASE target = "int4" -> IF ToFloatOK(v) THEN Num(ToFloat(v)) ELSE Null
    [] target = "bool" -> IF IsNull(v) THEN Null ELSE Bool(Truth(v))
    [] OTHER -> Txt(TextOf(v))

\* (mutant) Booleans are rendered as text.
CoerceBoolText(type, v) ==
  CASE IsNull(v) -> Null
    [] type = "num" /\ ToFloatOK(v) -> Num(ToFloat(v))
    [] type = "arr" /\ v.k = "arr" -> v
    [] OTHER -> Txt(TextOf(v))

\* The one place that widens a cell to what its column's codec encodes.
Coerce(type, v) ==
  CASE IsNull(v) -> Null
    [] type = "bool" -> IF v.k = "bool" THEN v ELSE Null
    [] type = "num" /\ ToFloatOK(v) -> Num(ToFloat(v))
    [] type = "arr" /\ v.k = "arr" -> v
    [] OTHER -> Txt(TextOf(v))

(***************************************************************************)
(* Evaluation against one row combination: the row of each source joined   *)
(* so far, <<>> for the all-null row of a LEFT join, and the context of    *)
(* the enclosing statement when there is one.                              *)
(***************************************************************************)
Ctx(from, combo, up) == [from |-> from, combo |-> combo, up |-> up]

RowSet(rows) == [bad |-> "", rows |-> rows]
Failed(v) == [bad |-> v.k, rows |-> <<>>]

\* The cell of column c in source i: indexing past the combination panics.
CellAt(ctx, i, c) ==
  IF i > Len(ctx.combo) THEN Panic
  ELSE IF ctx.combo[i] = <<>> THEN Null
  ELSE ctx.combo[i][At(ctx.from[i], c)]

RECURSIVE EvalColumn(_, _)
EvalColumn(e, ctx) ==
  LET Outer == IF ctx.up = <<>> THEN Err ELSE EvalColumn(e, ctx.up[1])
      known == {i \in DOMAIN ctx.from : Has(ctx.from[i], e.op)}
      named == {i \in DOMAIN ctx.from : ctx.from[i].alias = e.tbl}
  IN IF e.tbl = ""
     THEN IF known = {} THEN Outer
          ELSE IF Cardinality(known) > 1 THEN Err
          ELSE CellAt(ctx, CHOOSE i \in known : TRUE, e.op)
     ELSE IF named = {} THEN Outer
          ELSE IF Max(named) \notin known THEN Err
          ELSE CellAt(ctx, Max(named), e.op)

CallFunction(f, args) ==
  LET def == Functions[f]
  IN CASE def.args >= 0 /\ Len(args) # def.args -> Err
       [] def.does = "version" -> Txt("version")
       [] def.does = "null" -> Null
       [] def.does = "true" -> Bool(TRUE)
       [] def.does = "zero" -> Num(0)
       [] def.does = "schemas" ->
            Arr(IF args[1] = Bool(FALSE) THEN <<Txt("public")>> ELSE <<Txt("pg_catalog"), Txt("public")>>)
       [] def.does = "length" -> Num(IF args[1].k = "arr" THEN Len(args[1].xs) ELSE 0)

\* What a comparison operator makes of the order of its operands.
Decides(op, cmp) ==
  CASE op = "=" -> cmp = 0
    [] op = "<>" -> cmp # 0
    [] op = "<" -> cmp < 0
    [] op = ">" -> cmp > 0
    [] op = "<=" -> cmp <= 0
    [] op = ">=" -> cmp >= 0

\* The comparison family, LIKE and arithmetic, once both operands are known.
EvalBinary(e, l, r) ==
  CASE e.op \in Comparisons ->
         Bool(IF e.quant = "ANY"
              THEN r.k = "arr" /\ \E i \in DOMAIN r.xs : CompareValues(l, r.xs[i]) = 0
              ELSE Decides(e.op, CompareValues(l, r)))
    [] e.op = "like" -> Bool(LikeMatch(l, r) # e.neg)
    [] e.op = "||" -> Txt(TextOf(l) \o TextOf(r))
    [] e.op \in {"+", "-"} ->
         IF ~ToFloatOK(l) \/ ~ToFloatOK(r) THEN Err
         ELSE Num(ToFloat(l) + (IF e.op = "+" THEN 1 ELSE -1) * ToFloat(r))
    [] OTHER -> Err

\* Operands are evaluated from left to right; the first failure is the result.
FirstBad(vs) == vs[SelectInSeq(vs, IsBad)]
AnyBad(vs) == \E i \in DOMAIN vs : IsBad(vs[i])

Subscript(base, idx) ==
  IF base.k # "arr" \/ ~ToFloatOK(idx) THEN Err
  ELSE IF ToFloat(idx) \in DOMAIN base.xs THEN base.xs[ToFloat(idx)] ELSE Null

\* Whether the single branch of a CASE is taken.
CaseTaken(e, operand, cond) ==
  IF e.xs[1].n = "none" THEN Truth(cond) ELSE CompareValues(operand, cond) = 0

IsConnective(e) == e.n = "bin" /\ e.op \in {"AND", "OR"}

\* The nodes that look at their operands one after the other.
InTurn(e, vs) ==
  CASE e.n = "in" ->
         LET hit == {i \in 2..Len(vs) : IsBad(vs[i]) \/ CompareValues(vs[1], vs[i]) = 0}
         IN IF IsBad(vs[1]) THEN vs[1]
            ELSE IF hit # {} /\ IsBad(vs[Min(hit)]) THEN vs[Min(hit)]
            ELSE Bool((hit # {}) # e.neg)
    [] e.n = "case" ->
         IF IsBad(vs[1]) THEN vs[1]
         ELSE IF IsBad(vs[2]) THEN vs[2]
         ELSE IF CaseTaken(e, vs[1], vs[2]) THEN vs[3] ELSE vs[4]
    [] IsConnective(e) ->
         IF IsBad(vs[1]) \/ (Truth(vs[1]) = (e.op = "AND") /\ IsBad(vs[2])) THEN FirstBad(vs)
         ELSE Bool(IF e.op = "AND" THEN Truth(vs[1]) /\ Truth(vs[2]) ELSE Truth(vs[1]) \/ Truth(vs[2]))

\* The nodes whose operands are all evaluated first.
Strict(e, vs) ==
  CASE e.n = "call" -> CallFunction(e.op, vs)
    [] e.n = "isnull" -> Bool(IsNull(vs[1]) # e.neg)
    [] e.n = "bin" -> EvalBinary(e, vs[1], vs[2])
    [] e.n = "not" -> Bool(~Truth(vs[1]))
    [] e.n = "minus" -> IF ToFloatOK(vs[1]) THEN Num(-ToFloat(vs[1])) ELSE Err
    [] e.n = "cast" -> CoerceCast(vs[1], e.op)
    [] e.n = "subscript" -> Subscript(vs[1], vs[2])
    [] OTHER -> Err

Operands(e, vs) ==
  CASE e.n \in {"in", "case"} \/ IsConnective(e) -> InTurn(e, vs)
    [] e.n = "call" /\ e.op \notin DOMAIN Functions -> Err
    [] OTHER -> IF AnyBad(vs) THEN FirstBad(vs) ELSE Strict(e, vs)

\* A scalar subquery is its first cell, ARRAY(...) the first cell of every row.
SubqueryCell(e, out) ==
  IF out.bad # "" THEN Cell(out.bad, 0, "")
  ELSE IF e.n = "array" THEN Arr([i \in DOMAIN out.rows |-> out.rows[i][1]])
  ELSE IF out.rows = <<>> THEN Null ELSE out.rows[1][1]

RECURSIVE Eval(_, _), RunQuery(_, _)
Eval(e, ctx) ==
  CASE e.n = "none" -> Null
    [] e.n = "lit" -> e.v
    [] e.n = "param" -> IF e.v.i \in DOMAIN Params THEN Params[e.v.i] ELSE Err
    [] e.n = "col" -> EvalColumn(e, ctx)
    [] IsQuery(e) -> SubqueryCell(e, RunQuery(e.st, <<ctx>>))
    [] OTHER -> Operands(e, [i \in DOMAIN e.xs |-> Eval(e.xs[i], ctx)])

(***************************************************************************)
(* The pipeline of runQuery.                                               *)
(***************************************************************************)
\* (mutant) An unmatched combination of a LEFT join is dropped.
ExtendInner(c, s, rows) == [i \in DOMAIN rows |-> Append(c, rows[i])]

\* The combinations one source adds to c, given its matching rows.
Extend(c, s, rows) ==
  IF s.kind = "left" /\ rows = <<>> THEN <<Append(c, <<>>)>>
  ELSE [i \in DOMAIN rows |-> Append(c, rows[i])]

\* The result of a step that evaluated vs on the way, unless one of them failed.
Unless(vs, result) == IF AnyBad(vs) THEN Failed(FirstBad(vs)) ELSE RowSet(result)

\* Op(v), with v evaluated once.
Given(v, Op(_)) == CHOOSE r \in {Op(x) : x \in {v}} : TRUE

\* The rows of source s that extend the combinations in prev, given the
\* verdict of its ON condition on each pair.
Joined(prev, s, verdicts) ==
  LET rows == Tables[s.table].rows
      hits(i) == SelectSeq([j \in DOMAIN rows |-> j], LAMBDA j : Truth(verdicts[i][j]))
  IN Unless(FlattenSeq(verdicts),
            FlattenSeq([i \in DOMAIN prev |-> Extend(prev[i], s, [h \in DOMAIN hits(i) |-> rows[hits(i)[h]]])]))

On(st, n, c, up) == IF st.from[n].on = None THEN Bool(TRUE) ELSE Eval(st.from[n].on, Ctx(st.from, c, up))

JoinSource(st, n, prev, up) ==
  LET rows == Tables[st.from[n].table].rows
  IN Given([i \in DOMAIN prev |-> [j \in DOMAIN rows |-> On(st, n, Append(prev[i], rows[j]), up)]],
           LAMBDA verdicts : Joined(prev, st.from[n], verdicts))

RECURSIVE JoinRows(_, _, _)
JoinRows(st, n, up) ==
  IF n = 0 THEN RowSet(<<<<>>>>)
  ELSE Given(JoinRows(st, n - 1, up),
             LAMBDA out : IF out.bad # "" THEN out ELSE JoinSource(st, n, out.rows, up))

Where(st, c, up) == IF st.where = None THEN Bool(TRUE) ELSE Eval(st.where, Ctx(st.from, c, up))

\* The combinations whose verdict is true.
Kept(combos, verdicts) ==
  Unless(verdicts, LET hits == SelectSeq([i \in DOMAIN combos |-> i], LAMBDA i : Truth(verdicts[i]))
                   IN [h \in DOMAIN hits |-> combos[hits[h]]])

FilterRows(st, combos, up) == Kept(combos, [i \in DOMAIN combos |-> Where(st, combos[i], up)])

\* A star expands to every column of its sources, in source order.
ProjectItem(item, from, c, up) ==
  IF ~item.star THEN <<Eval(item.e, Ctx(from, c, up))>>
  ELSE FlattenSeq([i \in DOMAIN from |->
         IF item.tbl \notin {"", from[i].alias} THEN <<>>
         ELSE [j \in DOMAIN Tables[from[i].table].cols |-> IF c[i] = <<>> THEN Null ELSE c[i][j]]])

Projected(rows) == Unless(FlattenSeq(rows), rows)

Project(st, combos, up) ==
  Projected([c \in DOMAIN combos |->
               FlattenSeq([i \in DOMAIN st.items |-> ProjectItem(st.items[i], st.from, combos[c], up)])])

\* fmt.Sprint of a row: one flat text, the cells with a blank between them and
\* NULL as <nil>.  Where a cell ends is lost in it, and so is what was NULL.
Spread(texts) ==
  "[" \o FoldLeft(LAMBDA acc, t : acc \o t, "",
                  [i \in DOMAIN texts |-> (IF i = 1 THEN "" ELSE " ") \o texts[i]]) \o "]"

RECURSIVE SprintCell(_)
SprintCell(v) ==
  CASE v.k = "null" -> "<nil>"
    [] v.k = "bool" -> IF v.i = 1 THEN "true" ELSE "false"
    [] v.k = "arr" -> Spread([i \in DOMAIN v.xs |-> SprintCell(v.xs[i])])
    [] OTHER -> TextOf(v)

Printed(row) == Spread([i \in DOMAIN row |-> SprintCell(row[i])])

DistinctRows(rows) ==
  FoldLeft(LAMBDA seen, r : IF \E i \in DOMAIN seen : Printed(seen[i]) = Printed(r) THEN seen ELSE Append(seen, r),
           <<>>, rows)

\* The key of output row r: a position, an output column's name, or the
\* expression over the combination of the same number.
SortKey(st, cols, term, r, combo, up) ==
  LET byName == {i \in DOMAIN cols : cols[i].name = term.e.op}
  IN CASE term.e.n = "lit" /\ term.e.v.k = "num" /\ term.e.v.i \in DOMAIN cols -> r[term.e.v.i]
       [] term.e.n = "col" /\ term.e.tbl = "" /\ byName # {} -> r[Max(byName)]
       [] OTHER -> Eval(term.e, Ctx(st.from, combo, up))

\* Whether row a sorts before row b: the first key that differs decides.
KeysBefore(order, ka, kb) ==
  \E t \in DOMAIN order :
    /\ \A u \in 1..(t - 1) : CompareValues(ka[u], kb[u]) = 0
    /\ IF order[t].desc THEN CompareValues(ka[t], kb[t]) > 0 ELSE CompareValues(ka[t], kb[t]) < 0

\* The rows in a stable order of their keys.
Ordered(st, rows, keys) ==
  LET Before(a, b) == \/ KeysBefore(st.order, keys[a], keys[b])
                      \/ ~KeysBefore(st.order, keys[b], keys[a]) /\ a < b
      order == SortSeq([r \in DOMAIN rows |-> r], Before)
  IN Unless(FlattenSeq(keys), [i \in DOMAIN rows |-> rows[order[i]]])

SortRows(st, rows, combos, up) ==
  IF ~StarsExpand(st) THEN Failed(Err)
  ELSE Ordered(st, rows, [r \in DOMAIN rows |-> [t \in DOMAIN st.order |->
                            SortKey(st, InferColumns(st), st.order[t], rows[r], combos[r], up)]])

\* LIMIT and OFFSET: an error or a value that is no number reads as absent.
ConstInt(e, v) == IF e # None /\ v.k = "num" THEN v.i ELSE -1

\* (mutant) The limit is counted from the first row, not from the offset.
WindowRowsFromFirst(rows, offset, limit) ==
  LET kept == IF limit >= 0 /\ limit < Len(rows) THEN SubSeq(rows, 1, limit) ELSE rows
  IN IF offset > 0 THEN SubSeq(kept, offset + 1, Len(kept)) ELSE kept

WindowRows(rows, offset, limit) ==
  LET rest == IF offset > 0 THEN SubSeq(rows, offset + 1, Len(rows)) ELSE rows
  IN IF limit >= 0 /\ limit < Len(rest) THEN SubSeq(rest, 1, limit) ELSE rest

WindowAt(st, rows, limit, offset) ==
  IF (st.limit # None /\ limit = Panic) \/ (st.offset # None /\ offset = Panic) THEN Failed(Panic)
  ELSE RowSet(WindowRows(rows, ConstInt(st.offset, offset), ConstInt(st.limit, limit)))

Windowed(st, rows, up) ==
  Given(<<Eval(st.limit, Ctx(st.from, <<>>, up)), Eval(st.offset, Ctx(st.from, <<>>, up))>>,
        LAMBDA bounds : WindowAt(st, rows, bounds[1], bounds[2]))

\* One step of the statement on what the steps before it left: combinations
\* from join and filter, rows beside them from then on.
RunStep(st, up, left, step) ==
  CASE step = "filter" -> FilterRows(st, left.combos, up)
    [] step = "project" -> Project(st, left.combos, up)
    [] step = "distinct" -> RowSet(IF st.distinct THEN DistinctRows(left.rows) ELSE left.rows)
    [] step = "sort" -> SortRows(st, left.rows, left.combos, up)
    [] step = "window" -> Windowed(st, left.rows, up)

\* A failure of one step ends the statement.
Left(combos, out) == [bad |-> out.bad, rows |-> out.rows, combos |-> combos]
Advance(left, step, out) == Left(IF step = "filter" THEN out.rows ELSE left.combos, out)

RunQuery(st, up) ==
  FoldLeft(LAMBDA left, step : IF left.bad # "" THEN left ELSE Advance(left, step, RunStep(st, up, left, step)),
           Given(JoinRows(st, Len(st.from), up), LAMBDA joined : Left(joined.rows, joined)),
           <<"filter", "project", "distinct", "sort", "window">>)
=============================================================================
