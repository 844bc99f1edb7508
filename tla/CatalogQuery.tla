----------------------------- MODULE CatalogQuery ----------------------------
(***************************************************************************)
(* One introspection query from its text to the rows on the wire:          *)
(* catalog.Prepare, Statement.Exec and the cell conversion of execCatalog, *)
(* beside what SQL says the same query means.                              *)
(***************************************************************************)
EXTENDS CatalogEval

CONSTANT Queries   \* the statements a client may send, as written

VARIABLES
  query,   \* the statement as written
  stmt,    \* the statement as parsed
  cols,    \* the described output columns
  combos,  \* the row combinations left by joinRows and filterRows
  rows,    \* the projected rows
  stage    \* written, prepared, joined, filtered, projected, distinct, sorted, windowed,
           \* sent; refused by Prepare or failed on the way

vars == <<query, stmt, cols, combos, rows, stage>>

Init ==
  /\ query \in Queries
  /\ stmt = query
  /\ cols = <<>> /\ combos = <<>> /\ rows = <<>>
  /\ stage = "written"

\* Prepare answers an error before any provider call.
Refusable(st) == UnparsedSelect(query) \/ ~Validated(st) \/ ~StarsExpand(st)

Refuse ==
  /\ stage = "written"
  /\ Refusable(ParseSelect(query))
  /\ stage' = "refused"
  /\ UNCHANGED <<query, stmt, cols, combos, rows>>

Prepare ==
  /\ stage = "written"
  /\ ~Refusable(ParseSelect(query))
  /\ stmt' = ParseSelect(query)
  /\ cols' = InferColumns(stmt')
  /\ stage' = "prepared"
  /\ UNCHANGED <<query, combos, rows>>

\* An error or a recovered panic ends the statement.
Reach(result, next) == stage' = IF result.bad = "" THEN next ELSE "failed"

Join ==
  /\ stage = "prepared"
  /\ \E out \in {JoinRows(stmt, Len(stmt.from), <<>>)} : combos' = out.rows /\ Reach(out, "joined")
  /\ UNCHANGED <<query, stmt, cols, rows>>

Filter ==
  /\ stage = "joined"
  /\ \E out \in {FilterRows(stmt, combos, <<>>)} : combos' = out.rows /\ Reach(out, "filtered")
  /\ UNCHANGED <<query, stmt, cols, rows>>

ProjectList ==
  /\ stage = "filtered"
  /\ \E out \in {Project(stmt, combos, <<>>)} : rows' = out.rows /\ Reach(out, "projected")
  /\ UNCHANGED <<query, stmt, cols, combos>>

Dedupe ==
  /\ stage = "projected"
  /\ rows' = IF stmt.distinct THEN DistinctRows(rows) ELSE rows
  /\ stage' = "distinct"
  /\ UNCHANGED <<query, stmt, cols, combos>>

Sort ==
  /\ stage = "distinct"
  /\ \E out \in {SortRows(stmt, rows, combos, <<>>)} : rows' = out.rows /\ Reach(out, "sorted")
  /\ UNCHANGED <<query, stmt, cols, combos>>

Window ==
  /\ stage = "sorted"
  /\ \E out \in {Windowed(stmt, rows, <<>>)} : rows' = out.rows /\ Reach(out, "windowed")
  /\ UNCHANGED <<query, stmt, cols, combos>>

Deliver ==
  /\ stage = "windowed"
  /\ rows' = [r \in DOMAIN rows |-> [c \in DOMAIN cols |-> Coerce(cols[c].type, rows[r][c])]]
  /\ stage' = "sent"
  /\ UNCHANGED <<query, stmt, cols, combos>>

Next == Refuse \/ Prepare \/ Join \/ Filter \/ ProjectList \/ Dedupe \/ Sort \/ Window \/ Deliver

Spec == Init /\ [][Next]_vars

(***************************************************************************)
(* What the query means: SQL's three-valued logic over the statement as    *)
(* written, NULL standing for unknown.                                     *)
(***************************************************************************)
Equal(a, b) ==
  IF a.k = b.k THEN a = b
  ELSE ToFloatOK(a) /\ ToFloatOK(b) /\ ToFloat(a) = ToFloat(b)

Less(a, b) ==
  IF "num" \in {a.k, b.k} THEN ToFloatOK(a) /\ ToFloatOK(b) /\ ToFloat(a) < ToFloat(b)
  ELSE IF a.k = "bool" THEN a.i < b.i
  ELSE Rank(a.t) < Rank(b.t)

Unknown(vs, v) == IF \E x \in vs : IsNull(x) THEN Null ELSE v

Compared(op, a, b) ==
  Unknown({a, b}, Bool(CASE op = "=" -> Equal(a, b)
                         [] op \in {"<>", "!="} -> ~Equal(a, b)
                         [] op = "<" -> Less(a, b)
                         [] op = ">" -> Less(b, a)
                         [] op = "<=" -> Less(a, b) \/ Equal(a, b)
                         [] op = ">=" -> Less(b, a) \/ Equal(a, b)))

\* The three-valued connectives over a set of truth values.
All(vs) == IF Bool(FALSE) \in vs THEN Bool(FALSE) ELSE Unknown(vs, Bool(TRUE))
Some(vs) == IF Bool(TRUE) \in vs THEN Bool(TRUE) ELSE Unknown(vs, Bool(FALSE))
Flip(v) == Unknown({v}, Bool(v.i = 0))
FlipIf(b, v) == IF b THEN Flip(v) ELSE v

RowsOf(s) == Tables[s.table].rows
ComboOf(st, t) == [i \in DOMAIN t |-> IF t[i] = 0 THEN <<>> ELSE RowsOf(st.from[i])[t[i]]]

Sum(op, a, b) == ToFloat(a) + (IF op = "+" THEN 1 ELSE -1) * ToFloat(b)

MeaningBinary(e, l, r) ==
  CASE e.quant # "" ->
         IF r.k # "arr" THEN Null
         ELSE LET each == {Compared(e.op, l, r.xs[i]) : i \in DOMAIN r.xs}
              IN IF e.quant = "ALL" THEN All(each) ELSE Some(each)
    [] e.quant = "" /\ e.op = "AND" -> All({l, r})
    [] e.quant = "" /\ e.op = "OR" -> Some({l, r})
    [] e.quant = "" /\ e.op = "like" -> FlipIf(e.neg, Unknown({l, r}, Bool(LikeMatch(l, r))))
    [] e.quant = "" /\ e.op = "||" -> Unknown({l, r}, Txt(TextOf(l) \o TextOf(r)))
    [] e.quant = "" /\ e.op \in {"+", "-"} -> Unknown({l, r}, Num(Sum(e.op, l, r)))
    [] OTHER -> Compared(e.op, l, r)

MeaningOf(e, vs) ==
  CASE e.n = "call" -> CallFunction(e.op, vs)
    [] e.n = "isnull" -> Bool(IsNull(vs[1]) # e.neg)
    [] e.n = "is" -> Bool((vs[1] = Bool(e.op = "TRUE")) # e.neg)
    [] e.n = "in" -> FlipIf(e.neg, Some({Compared("=", vs[1], vs[i]) : i \in 2..Len(vs)}))
    [] e.n = "between" ->
         FlipIf(e.neg, All({Compared(">=", vs[1], vs[2]), Compared("<=", vs[1], vs[3])}))
    [] e.n = "bin" -> MeaningBinary(e, vs[1], vs[2])
    [] e.n = "not" -> Flip(vs[1])
    [] e.n = "minus" -> Unknown({vs[1]}, Num(-ToFloat(vs[1])))
    [] e.n = "case" ->
         IF Truth(IF e.xs[1].n = "none" THEN vs[2] ELSE Compared("=", vs[1], vs[2])) THEN vs[3] ELSE vs[4]
    [] e.n = "cast" ->
         Unknown({vs[1]}, IF e.op = "int4" THEN Num(ToFloat(vs[1]))
                          ELSE IF e.op = "bool" THEN vs[1] ELSE Txt(TextOf(vs[1])))
    [] e.n = "subscript" -> IF ToFloat(vs[2]) \in DOMAIN vs[1].xs THEN vs[1].xs[ToFloat(vs[2])] ELSE Null

\* Row numbers in the order of the tables.
Earlier(s, t) == \E k \in DOMAIN s : s[k] < t[k] /\ SubSeq(s, 1, k - 1) = SubSeq(t, 1, k - 1)

\* What a subquery is, given the first cells of its rows, tagged with their tuples.
MeaningQuery(e, tagged) ==
  LET cells == SetToSortSeq(tagged, LAMBDA s, t : Earlier(s[1], t[1]))
  IN IF e.n = "array" THEN Arr([i \in DOMAIN cells |-> cells[i][2]])
     ELSE IF cells = <<>> THEN Null ELSE cells[1][2]

Propagated(e, vs) == IF AnyBad(vs) THEN FirstBad(vs) ELSE MeaningOf(e, vs)

RECURSIVE Meaning(_, _), Tuples(_, _, _)
MeaningAt(e, st, t, up) == IF e = None THEN Bool(TRUE) ELSE Meaning(e, Ctx(st.from, ComboOf(st, t), up))

Meaning(e, ctx) ==
  CASE e.n = "none" -> Null
    [] e.n = "lit" -> e.v
    [] e.n = "param" -> IF e.v.i \in DOMAIN Params THEN Params[e.v.i] ELSE Err
    [] e.n = "col" -> EvalColumn(e, ctx)
    [] IsQuery(e) ->
         MeaningQuery(e, {<<t, MeaningAt(e.st.items[1].e, e.st, t, <<ctx>>)>> :
                            t \in {u \in Tuples(e.st, Len(e.st.from), <<ctx>>) :
                                     Truth(MeaningAt(e.st.where, e.st, u, <<ctx>>))}})
    [] OTHER -> Propagated(e, [i \in DOMAIN e.xs |-> Meaning(e.xs[i], ctx)])

\* The joined combinations as tuples of row numbers, 0 for the null row that
\* a LEFT join pairs with a combination nothing matches.
Tuples(st, n, up) ==
  IF n = 0 THEN {<<>>} ELSE
  LET s == st.from[n]
      hits(t) == {j \in DOMAIN RowsOf(s) : Truth(MeaningAt(s.on, st, Append(t, j), up))}
      orNone(js) == IF s.kind = "left" /\ js = {} THEN {0} ELSE js
  IN UNION {{Append(t, j) : j \in orNone(hits(t))} : t \in Tuples(st, n - 1, up)}

At0(t) == Ctx(query.from, ComboOf(query, t), <<>>)
Selected == {t \in Tuples(query, Len(query.from), <<>>) : Truth(MeaningAt(query.where, query, t, <<>>))}

Shown(t) ==
  FlattenSeq([i \in DOMAIN query.items |->
    LET item == query.items[i] IN
    IF ~item.star THEN <<Meaning(item.e, At0(t))>>
    ELSE FlattenSeq([s \in DOMAIN query.from |->
           IF item.tbl \notin {"", query.from[s].alias} THEN <<>>
           ELSE IF t[s] = 0 THEN [c \in DOMAIN Tables[query.from[s].table].cols |-> Null]
           ELSE RowsOf(query.from[s])[t[s]]])])

\* What ORDER BY compares: an output position, an output name, an expression.
KeyOf(t, shown, term) ==
  LET named == {c \in DOMAIN cols : term.e.n = "col" /\ term.e.tbl = "" /\ cols[c].name = term.e.op}
  IN IF term.e.n = "lit" /\ term.e.v.k = "num" /\ term.e.v.i \in DOMAIN cols THEN shown[term.e.v.i]
     ELSE IF named # {} THEN shown[Max(named)]
     ELSE Meaning(term.e, At0(t))

\* The rows selected, each with its cells and its sort keys.
Answered ==
  {[t |-> t, row |-> Shown(t), keys |-> [k \in DOMAIN query.order |-> KeyOf(t, Shown(t), query.order[k])]] :
     t \in Selected}

\* NULLs come last in an ascending and first in a descending order.
KeyBefore(a, b) == IF IsNull(b) THEN ~IsNull(a) ELSE ~IsNull(a) /\ Less(a, b)
SortsBefore(x, y) ==
  \E k \in DOMAIN query.order :
    /\ \A j \in 1..(k - 1) : x.keys[j] = y.keys[j]
    /\ IF query.order[k].desc THEN KeyBefore(y.keys[k], x.keys[k]) ELSE KeyBefore(x.keys[k], y.keys[k])

(***************************************************************************)
(* Where the engine's shortcuts do not show.  Clear(e, ctx, exact): on     *)
(* this row, evaluating e meets no comparison whose NULL operand the       *)
(* engine reads as a value; with ~exact only whether e is true matters, so *)
(* an = with one NULL, which the engine calls false, is clear too.         *)
(***************************************************************************)
\* One node whose operands mean vs; below[x]: they are clear with exactness x.
ClearNode(e, vs, below, exact) ==
  LET nulls == {i \in DOMAIN vs : IsNull(vs[i])}
      Below(x) == \A i \in DOMAIN vs : below[x][i] /\ ~IsBad(vs[i])
      Connective == e.n = "bin" /\ e.op \in {"AND", "OR"}
  IN CASE e.n = "in" -> Below(TRUE) /\ (nulls = {} \/ (~exact /\ ~e.neg /\ 1 \notin nulls))
       [] Connective -> Below(exact) /\ (exact => nulls = {})
       [] e.n = "bin" /\ e.quant # "" ->
            /\ Below(TRUE) /\ nulls = {} /\ e.op = "=" /\ e.quant = "ANY"
            /\ \A i \in DOMAIN vs[2].xs : ~IsNull(vs[2].xs[i])
       [] e.n = "bin" /\ e.quant = "" /\ e.op = "=" ->
            Below(TRUE) /\ (nulls = {} \/ (~exact /\ Cardinality(nulls) = 1))
       [] e.n = "bin" /\ e.op = "like" -> Below(TRUE) /\ (nulls = {} \/ (~exact /\ ~e.neg))
       [] e.n \in {"call", "isnull"} -> Below(TRUE)
       [] e.n \in {"is", "between"} -> FALSE
       [] e.n = "case" ->
            /\ IF e.xs[1].n = "none" THEN below[FALSE][2]
               ELSE below[TRUE][1] /\ below[TRUE][2] /\ nulls \cap {1, 2} = {}
            /\ below[exact][3] /\ below[exact][4]
       [] e.n = "cast" ->
            /\ Below(TRUE) /\ nulls = {}
            /\ e.op = "bool" => vs[1].k = "bool"
            /\ e.op = "int4" => ToFloatOK(vs[1])
       [] OTHER -> Below(TRUE) /\ nulls = {}

RECURSIVE Clear(_, _, _), ClearQuery(_, _)
Clear(e, ctx, exact) ==
  CASE e.n \in {"none", "lit", "param", "col"} -> TRUE
    [] IsQuery(e) ->
         /\ ClearQuery(e.st, <<ctx>>)
         /\ e.n = "scalar" => Cardinality(Tuples(e.st, Len(e.st.from), <<ctx>>)) <= 1
    [] OTHER ->
         ClearNode(e, [i \in DOMAIN e.xs |-> Meaning(e.xs[i], ctx)],
                   [x \in BOOLEAN |-> [i \in DOMAIN e.xs |-> Clear(e.xs[i], ctx, x)]], exact)

ConstantWindow(st) == \A e \in {st.limit, st.offset} : e.n \in {"none", "lit"}

ClearJoin(st, up) ==
  \A n \in DOMAIN st.from :
    /\ st.from[n].kind \notin {"right", "full"}
    /\ \A t \in Tuples(st, n - 1, up), j \in DOMAIN RowsOf(st.from[n]) :
         Clear(st.from[n].on, Ctx(st.from, ComboOf(st, Append(t, j)), up), FALSE)

ClearQuery(st, up) ==
  /\ ClearJoin(st, up)
  /\ ConstantWindow(st) /\ st.limit = None /\ st.offset = None /\ ~st.distinct /\ st.order = <<>>
  /\ \A t \in Tuples(st, Len(st.from), up) :
       LET ctx == Ctx(st.from, ComboOf(st, t), up)
       IN Clear(st.where, ctx, FALSE) /\ \A i \in DOMAIN st.items : Clear(st.items[i].e, ctx, TRUE)

ClearHere ==
  /\ ClearJoin(query, <<>>)
  /\ \A t \in Tuples(query, Len(query.from), <<>>) : Clear(query.where, At0(t), FALSE)
  /\ \A t \in Selected :
       /\ \A i \in DOMAIN query.items : Clear(query.items[i].e, At0(t), TRUE)
       /\ \A k \in DOMAIN query.order : Clear(query.order[k].e, At0(t), TRUE)

(***************************************************************************)
(* Properties.                                                             *)
(***************************************************************************)
\* Different rows of one flat text, which DISTINCT takes for one row.
Alike(row, other) == row # other /\ Printed(row) = Printed(other)

\* joinRows, filterRows, project and distinctRows produce exactly the rows SQL
\* selects, each as often as SQL does (once under DISTINCT), whenever the
\* query meets none of the engine's NULL shortcuts.  DISTINCT may also lose a
\* row, but only to one it keeps that prints as the same flat text.
RowsFaithful ==
  stage = "distinct" /\ ClearHere =>
    LET answer == {<<t, Shown(t)>> : t \in Selected}
        selected == {x[2] : x \in answer}
    IN /\ ToSet(rows) \subseteq selected
       /\ \A row \in selected \ ToSet(rows) :
            query.distinct /\ \E kept \in ToSet(rows) : Alike(kept, row)
       /\ \A row \in ToSet(rows) :
            Cardinality({r \in DOMAIN rows : rows[r] = row})
              = IF query.distinct THEN 1 ELSE Cardinality({x \in answer : x[2] = row})

\* The rows sent are the window's part of the answer in an order it allows.
IsPage(answer) ==
  LET skip == IF query.offset = None THEN 0 ELSE query.offset.v.i
      total == Cardinality(answer)
      rest == Max({0, total - skip})
  IN /\ Len(rows) = IF query.limit = None THEN rest ELSE Min({rest, query.limit.v.i})
     /\ \A r \in DOMAIN rows :
          \E x \in answer :
            /\ x.row = rows[r]
            /\ Cardinality({y \in answer : SortsBefore(y, x)}) < skip + r
            /\ skip + r <= total - Cardinality({y \in answer : SortsBefore(x, y)})

\* sortRows and windowRows answer the page SQL answers: the answer has as many
\* rows as the window holds, and the row at each position is one the order
\* allows at that position of the whole result.  LIMIT and OFFSET must be
\* constants; DISTINCT queries are left out, since their rows no longer line
\* up with the combinations an ORDER BY expression is evaluated against.
PageFaithful ==
  stage = "windowed" /\ ClearHere /\ ConstantWindow(query) /\ ~query.distinct => IsPage(Answered)

\* Expressions whose described type is not the type of their value: inferOID
\* reads the lower-case like, NOT and || as numbers, and CASE by its first branch.
RECURSIVE TypedRight(_)
TypedRight(e) ==
  /\ ~(e.n = "bin" /\ e.op \in {"like", "||"})
  /\ e.n \notin {"not", "between", "is"}
  /\ ~(e.n = "cast" /\ e.op = "oid")
  /\ e.n = "case" => /\ TypedRight(e.xs[3]) /\ TypedRight(e.xs[4])
                     /\ InferOID(e.xs[3], query.from) = InferOID(e.xs[4], query.from)

\* Every delivered cell has the kind its column was described with before the
\* query ran, and Coerce turns no value into NULL: a column described as a
\* boolean is never silently emptied.
DescribedAsDelivered ==
  stage = "sent" =>
    \A i \in DOMAIN query.items :
      (\A j \in 1..i : ~query.items[j].star) /\ TypedRight(query.items[i].e) =>
        \A r \in DOMAIN rows :
          /\ rows[r][i].k \in {"null", cols[i].type}
          /\ IsNull(rows[r][i]) => \E t \in DOMAIN combos :
               IsNull(Eval(stmt.items[i].e, Ctx(stmt.from, combos[t], <<>>)))
=============================================================================
