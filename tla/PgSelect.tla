------------------------------- MODULE PgSelect ------------------------------
(***************************************************************************)
(* translate/pg: a SELECT becomes a plan.  Parse reads the statement and   *)
(* strips the qualifiers of its columns, Plan holds LIMIT and OFFSET       *)
(* against the result window, lowers ORDER BY to a sort or a vector search *)
(* and WHERE to a filter.                                                  *)
(*                                                                         *)
(* The plan is then executed on a table nobody changes (ReadPath is about  *)
(* the tables that do), and the rows that arrive are held against what the *)
(* statement means in SQL.                                                 *)
(***************************************************************************)
EXTENDS PgWhere, SequencesExt

CONSTANTS
  Statements,    \* the statements as written
  Fields,        \* the fields of the collection, in storage order
  VectorFields,  \* those that hold vectors
  IndexMetric,   \* [VectorFields -> Metrics]: the metric each one is indexed with
  BoolFields,    \* those that hold booleans
  Table,         \* its rows in key order; a vector cell holds its score per metric
  Rows,          \* the rows a condition is evaluated on
  TableName,     \* the name in FROM
  MaxInt,        \* the largest int
  Window         \* maxResultWindow

ASSUME SelectAssumption ==
  /\ MaxInt \in Nat /\ Window \in 0..MaxInt
  /\ VectorFields \cup BoolFields \subseteq ToSet(Fields) /\ Table \in Seq(Rows)
  /\ Statements \subseteq
       [columns : Seq(ColumnRefs), alias : SUBSET Qualifiers, where : Conditions,
        order : Seq([ref : ColumnRefs, desc : BOOLEAN, op : STRING, vector : {"", Bad}]),
        limit : SUBSET ({Bad} \cup Int), offset : SUBSET ({Bad} \cup Int), beyond : BOOLEAN]

Metrics == {"L2", "COSINE", "IP"}

ASSUME IndexAssumption == IndexMetric \in [VectorFields -> Metrics]

\* What the cells of a field hold.
ASSUME TableAssumption ==
  /\ Yes # No
  /\ \A i \in DOMAIN Table : \A f \in ToSet(Fields) :
       Table[i][f] \in IF f \in VectorFields THEN [Metrics -> Int]
                       ELSE {Null} \cup IF f \in BoolFields THEN {Yes, No} ELSE Int

(***************************************************************************)
(* Statements.  An optional clause is a set of at most one value; a count  *)
(* that is no integer is Bad.                                              *)
(***************************************************************************)
\* An ORDER BY term: a column, or a column at a distance from a vector.
ByColumn(ref, desc) == [ref |-> ref, desc |-> desc, op |-> "", vector |-> ""]
ByDistance(ref, op, vector, desc) == [ref |-> ref, desc |-> desc, op |-> op, vector |-> vector]

\* columns is empty for SELECT *; beyond: some part of the statement is outside
\* the subset, or no SQL.
Statement(columns, alias, where, order, limit, offset) ==
  [columns |-> columns, alias |-> alias, where |-> where, order |-> order,
   limit |-> limit, offset |-> offset, beyond |-> FALSE]

Value(o, default) == IF o = {} THEN default ELSE CHOOSE v \in o : TRUE

Wrap(x) == ((x + MaxInt + 1) % (2 * MaxInt + 2)) - MaxInt - 1

(***************************************************************************)
(* Parse.                                                                  *)
(***************************************************************************)
\* parseIntCount fails, or the count is negative.
BadCount(o) == \E v \in o : v = Bad \/ v < 0

\* parseOrderBy: a distance stands alone and comes nearest first.
OrderRefused(order) ==
  \E i \in DOMAIN order : order[i].op # "" /\ (Len(order) > 1 \/ order[i].desc)

\* parseSelect and the row cap that Parse asks for.
SyntaxRefused(s) ==
  \/ s.beyond
  \/ OrderRefused(s.order)
  \/ BadCount(s.limit) \/ BadCount(s.offset)
  \/ s.limit = {}

\* resolveQualifiers: a qualifier is the table or its alias.
OwnReferences(s, refs) == \A r \in refs : r[1] \in {Bare, TableName} \cup s.alias

Strip(ref) == ref[2]
StripColumns(columns) == [i \in DOMAIN columns |-> Strip(columns[i])]
StripOrder(order) == [i \in DOMAIN order |-> [order[i] EXCEPT !.ref = Strip(@)]]

\* The references that are left when the predicates are parsed.
References(s) ==
  ToSet(s.columns) \cup {s.order[i].ref : i \in DOMAIN s.order} \cup Refs[Parse[s.where]]

(***************************************************************************)
(* Plan.                                                                   *)
(***************************************************************************)
\* (mutant) The negative inner product is taken for a distance.
DistanceMetricsPlain == [op \in {"<->", "<=>", "<#>"} |-> IF op = "<=>" THEN "COSINE" ELSE "L2"]

DistanceMetrics == [op \in {"<->", "<=>", "<#>"} |->
                      CASE op = "<->" -> "L2" [] op = "<=>" -> "COSINE" [] op = "<#>" -> "IP"]

\* searchSpec: the operator has no metric, the field is no vector field, or the
\* literal is no vector.
SearchRefused(order) ==
  \E i \in DOMAIN order :
    /\ order[i].op # ""
    /\ \/ order[i].op \notin DOMAIN DistanceMetrics
       \/ order[i].ref \notin VectorFields
       \/ order[i].vector = Bad

WindowRefused(s) == Wrap(Value(s.offset, 0) + Value(s.limit, 0)) > Window

IsDistance(t) == t.op # ""

\* A distance is the whole order: it becomes the search, columns become the sort.
Lower(s) ==
  LET distances == {t \in ToSet(s.order) : IsDistance(t)}
  IN [offset |-> Value(s.offset, 0), limit |-> Value(s.limit, 0), includes |-> s.columns,
      sort |-> IF distances = {} THEN s.order ELSE <<>>,
      search |-> {[field |-> d.ref, metric |-> DistanceMetrics[d.op]] : d \in distances}]

VARIABLES
  stmt,     \* the statement as written
  select,   \* the Select: the statement with its references stripped
  tree,     \* its where tree, folded by Plan
  plan,     \* the plan without its filter
  noMatch,  \* the plan's NoMatch
  expr,     \* the plan's Expr
  stage     \* how far the translation has come

vars == <<stmt, select, tree, plan, noMatch, expr, stage>>

Init ==
  /\ stmt \in Statements
  /\ select = stmt /\ tree = True
  /\ plan = [offset |-> 0, limit |-> 0, includes |-> <<>>, sort |-> <<>>, search |-> {}]
  /\ noMatch = FALSE /\ expr = Nil
  /\ stage = "written"

Refuse == stage' = "refused" /\ UNCHANGED <<select, tree, plan, noMatch, expr>>

ParseStep ==
  /\ stage = "written"
  /\ IF SyntaxRefused(stmt) \/ ~OwnReferences(stmt, References(stmt))
     THEN Refuse
     ELSE /\ select' = [stmt EXCEPT !.columns = StripColumns(@), !.order = StripOrder(@)]
          /\ tree' = StripWhere[Parse[stmt.where]]
          /\ stage' = "parsed"
          /\ UNCHANGED <<plan, noMatch, expr>>
  /\ UNCHANGED stmt

\* Plan up to the folded WHERE.
PlanStep ==
  /\ stage = "parsed"
  /\ IF WindowRefused(select) \/ SearchRefused(select.order)
     THEN Refuse
     ELSE /\ plan' = Lower(select)
          /\ tree' = Fold[tree]
          /\ noMatch' = (tree' = False)
          /\ stage' = IF noMatch' THEN "planned" ELSE "folded"
          /\ UNCHANGED <<select, expr>>
  /\ UNCHANGED stmt

BuildStep ==
  /\ stage = "folded"
  /\ IF HasBad[tree]
     THEN Refuse
     ELSE stage' = "planned" /\ expr' = BuildWhere[tree] /\ UNCHANGED <<select, tree, plan, noMatch>>
  /\ UNCHANGED stmt

Finished == stage \in {"planned", "refused"} /\ UNCHANGED vars

Next == ParseStep \/ PlanStep \/ BuildStep \/ Finished

Spec == Init /\ [][Next]_vars

(***************************************************************************)
(* The plan at work on Table: indices of the rows that arrive.             *)
(***************************************************************************)
Places == (DOMAIN Table) \X (DOMAIN Table)

\* The members of S in the order of the pairs before, ties by key.
InOrder(S, before) ==
  LET rank(i) == Cardinality({j \in S : <<j, i>> \in before \/ (<<i, j>> \notin before /\ j < i)})
  IN [k \in 1 .. Cardinality(S) |-> CHOOSE i \in S : rank(i) = k - 1]

\* The first term that tells two rows apart decides.
Lexicographic(terms) ==
  {p \in Places :
     \E k \in DOMAIN terms :
       /\ p \in terms[k]
       /\ \A l \in 1 .. k - 1 : p \notin terms[l] /\ <<p[2], p[1]>> \notin terms[l]}

\* compareScalar of two cells of one field.
LessCell(f, x, y) == IF f \in BoolFields THEN x = No /\ y = Yes ELSE x < y

\* compareRows, one clause: a missing cell comes last.
Ahead(c, a, b) ==
  LET x == a[c.ref]
      y == b[c.ref]
  IN x # Null /\ (y = Null \/ IF c.desc THEN LessCell(c.ref, y, x) ELSE LessCell(c.ref, x, y))

\* What a metric calls near (external).
Nearer(spec, a, b) ==
  LET x == a[spec.field][spec.metric]
      y == b[spec.field][spec.metric]
  IN IF spec.metric = "L2" THEN x < y ELSE x > y

PageOf(s, offset, limit) == SubSeq(s, offset + 1, Min({offset + limit, Len(s)}))

Failed == <<0>>

\* window: the end of the slice is an int.
WindowRows(s, offset, limit) ==
  IF limit = 0 \/ offset >= Len(s) THEN <<>>
  ELSE IF Wrap(offset + limit) < offset THEN Failed
  ELSE PageOf(s, offset, limit)

Executed ==
  LET hits == {i \in DOMAIN Table : Selects(expr, Table[i])}
      sort == plan.sort
      \* isSortableType, and what buildProjection knows
      sortable == \A i \in DOMAIN sort : sort[i].ref \in ToSet(Fields) \ VectorFields
      clause(c) == {p \in Places : Ahead(c, Table[p[1]], Table[p[2]])}
      sorted == InOrder(hits, Lexicographic([k \in DOMAIN sort |-> clause(sort[k])]))
      near == {p \in Places : \E spec \in plan.search : Nearer(spec, Table[p[1]], Table[p[2]])}
  IN IF noMatch THEN <<>>
     ELSE IF sort = <<>> THEN PageOf(InOrder(hits, near), plan.offset, plan.limit)
     ELSE IF ~sortable THEN Failed
     ELSE WindowRows(sorted, plan.offset, plan.limit)

\* vectorSearch sends the metric along, unless LIMIT 0 leaves nothing to send.
Mismatched ==
  /\ ~noMatch /\ plan.limit # 0
  /\ \E spec \in plan.search : spec.metric # IndexMetric[spec.field]

\* What may arrive: a server that is asked for a metric which is not its index's
\* refuses the search, or answers it with no rows (external).
Arrivals == IF Mismatched THEN {Failed, <<>>} ELSE {Executed}

\* Columns: what the statement was described with.
Columns == IF select.columns = <<>> THEN Fields ELSE select.columns

\* A data row: a column that is not in the hit's source is NULL.
DataRow(row) ==
  LET source == {f \in ToSet(Fields) : plan.includes = <<>> \/ f \in ToSet(plan.includes)}
  IN [k \in DOMAIN Columns |-> IF Columns[k] \in source THEN row[Columns[k]] ELSE Null]

(***************************************************************************)
(* What a statement means in SQL (the reference).                          *)
(***************************************************************************)
\* pgvector: <=> is one minus the cosine, <#> the negative inner product.
Distance(op, cell) ==
  CASE op = "<->" -> cell["L2"] [] op = "<=>" -> 1 - cell["COSINE"] [] op = "<#>" -> -cell["IP"]

\* The operator whose distances the index of a field knows, and an ORDER BY that
\* asks for another.
Measures(f) == CASE IndexMetric[f] = "L2" -> "<->" [] IndexMetric[f] = "COSINE" -> "<=>"
                 [] IndexMetric[f] = "IP" -> "<#>"
OtherMetric ==
  \E i \in DOMAIN stmt.order :
    stmt.order[i].op # "" /\ stmt.order[i].op # Measures(stmt.order[i].ref[2])

\* NULL is greater than every value, in both directions.
SqlLess(f, x, y) == x # Null /\ (y = Null \/ LessCell(f, x, y))

SqlAhead(t, a, b) ==
  LET f == t.ref[2]
      x == a[f]
      y == b[f]
  IN IF t.op # "" THEN Distance(t.op, x) < Distance(t.op, y)
     ELSE IF t.desc THEN SqlLess(f, y, x) ELSE SqlLess(f, x, y)

\* Names of columns the collection does not have, and the columns ORDER BY
\* turns around although some cell is missing.
UnknownColumns == {r \in References(stmt) : r[2] \notin ToSet(Fields)}
DescendingOverNull ==
  \E i \in DOMAIN stmt.order :
    stmt.order[i].desc /\ \E k \in DOMAIN Table : Table[k][stmt.order[i].ref[2]] = Null

Exact == \A row \in Rows : (~noMatch /\ Selects(expr, row)) <=> Sql(stmt.where, row) = "true"

\* A planned WHERE passes exactly the rows for which SQL finds the condition
\* true, null cells included, as long as no NULL literal is negated.
WhereFaithful ==
  stage = "planned" /\ ~NegatesNull[stmt.where] => Exact

\* No plan carries a filter whose text Milvus cannot parse.
PlanRenders ==
  stage = "planned" => Rendered[expr] # Garbled

\* What arrives is an answer of the statement: as many of the passing rows as
\* OFFSET and LIMIT leave, each at a place where ORDER BY allows it, and the
\* cells that the select list names.  It fails only over a vector as a sort column
\* or a sum of OFFSET and LIMIT that leaves the integers.  A distance that the
\* field's index does not measure brings an error or no row, never the rows that
\* are near by another distance.  Three things are left out: columns that do not
\* exist, a negated NULL literal, and DESC over missing cells, which the store
\* sorts last and SQL first.
AnswerFaithful ==
  LET passing == {i \in DOMAIN Table : Sql(stmt.where, Table[i]) = "true"}
      term(t) == {p \in Places : SqlAhead(t, Table[p[1]], Table[p[2]])}
      before == Lexicographic([k \in DOMAIN stmt.order |-> term(stmt.order[k])])
      place(k) == Value(stmt.offset, 0) + k
      cells(row) == IF stmt.columns = <<>> THEN [k \in DOMAIN Fields |-> row[Fields[k]]]
                    ELSE [k \in DOMAIN stmt.columns |-> row[stmt.columns[k][2]]]
  IN (/\ stage = "planned" /\ UnknownColumns = {}
      /\ ~NegatesNull[stmt.where] /\ ~DescendingOverNull)
     => \A answer \in Arrivals :
        IF OtherMetric THEN answer \in {Failed, <<>>}
        ELSE IF answer = Failed
        THEN \/ \E i \in DOMAIN stmt.order : stmt.order[i].op = "" /\ stmt.order[i].ref[2] \in VectorFields
             \/ Value(stmt.offset, 0) + Value(stmt.limit, 0) > MaxInt
        ELSE
        /\ Len(answer) = Min({Value(stmt.limit, 0), Max({0, Cardinality(passing) - Value(stmt.offset, 0)})})
        /\ ToSet(answer) \subseteq passing /\ IsInjective(answer)
        /\ \A k \in DOMAIN answer :
             /\ Cardinality({i \in passing : <<i, answer[k]>> \in before}) < place(k)
             /\ Cardinality({i \in passing : <<answer[k], i>> \in before}) <= Cardinality(passing) - place(k)
             /\ DataRow(Table[answer[k]]) = cells(Table[answer[k]])
=============================================================================
