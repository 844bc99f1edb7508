--------------------------- MODULE MCCatalogQuery ----------------------------
(***************************************************************************)
(* Queries of the shapes psql and pgjdbc send over three tables: classes,  *)
(* their attributes (one class has none) and an empty table of comments.   *)
(* The text "10" sorts before "2", and parameters are bound as text.       *)
(***************************************************************************)
EXTENDS CatalogQuery

MCTables ==
  [pg_class |->
     [cols |-> <<"oid", "relname", "relacl">>, types |-> <<"num", "text", "text">>,
      rows |-> << <<Num(2), Txt("beta"), Null>>, <<Num(10), Txt("alpha"), Null>>, <<Num(3), Txt("beta"), Null>> >>],
   pg_attribute |->
     [cols |-> <<"attrelid", "attname", "attnum", "attnotnull">>, types |-> <<"num", "text", "num", "bool">>,
      rows |-> << <<Num(2), Txt("id"), Num(1), Bool(TRUE)>>, <<Num(2), Txt("vec"), Num(2), Bool(FALSE)>>,
                  <<Num(10), Txt("id"), Num(1), Bool(FALSE)>> >>],
   pg_description |->
     [cols |-> <<"objoid", "description">>, types |-> <<"num", "text">>, rows |-> <<>>]]

MCParams == <<Txt("2"), Txt("10"), Null>>
MCTexts == <<"", "-1", "0", "1", "10", "2", "3", "4", "8", "9", "alpha", "b%", "beta", "f", "id", "pg_catalog",
             "public", "t", "vec">>
MCNumerals ==
  [t \in {"-1", "0", "1", "10", "11", "12", "2", "3", "4", "5", "20", "-2", "-3", "-10"} |->
     CASE t = "-1" -> -1 [] t = "0" -> 0 [] t = "1" -> 1 [] t = "10" -> 10 [] t = "11" -> 11 [] t = "12" -> 12
       [] t = "2" -> 2 [] t = "3" -> 3 [] t = "4" -> 4 [] t = "5" -> 5 [] t = "20" -> 20
       [] t = "-2" -> -2 [] t = "-3" -> -3 [] t = "-10" -> -10]
MCLikes == {<<"beta", "b%">>}

C(kind, on) == Source("pg_class", "c", kind, on)
A(kind, on) == Source("pg_attribute", "a", kind, on)
D(kind, on) == Source("pg_description", "d", kind, on)
oid == Col("c", "oid")
name == Col("", "relname")
att == Col("a", "attname")
OfClass == Bin("=", Col("a", "attrelid"), oid)
Described == Bin("=", Col("d", "objoid"), oid)

Sel(items, from, where, order) ==
  [items |-> items, from |-> from, where |-> where, order |-> order, limit |-> None, offset |-> None,
   distinct |-> FALSE, tail |-> ""]

Froms ==
  { <<C("first", None)>>, <<C("first", None), A("join", OfClass)>>, <<C("first", None), A("left", OfClass)>>,
    <<C("first", None), A("cross", None), D("left", Described)>>, <<C("first", None), D("left", Described)>>,
    <<C("first", None), D("left", Described), A("left", Bin("AND", OfClass, Col("a", "attnotnull")))>> }

OddFroms ==
  { <<C("first", None), A("right", OfClass)>>, <<Source("orders", "o", "first", None)>>, <<>>,
    <<C("first", None), Source("pg_class", "b", "join", Bin("=", Col("b", "oid"), oid))>>,
    <<C("first", None), A("join", Bin("=", Col("", "description"), oid)), D("join", None)>> }

AttributesOf(what, kind) ==
  QueryE(kind, Sel(<<Item(what, "x")>>, <<Source("pg_attribute", "x", "first", None)>>,
                   Bin("=", Col("x", "attrelid"), oid), <<>>))

Simple ==
  { Bin("=", oid, Param(1)), Bin("<", oid, Param(2)), Bin("<=", Param(2), oid), Bin("=", oid, Param(3)),
    Bin("!=", oid, Lit(Num(2))), Bin("=", name, Lit(Txt("beta"))), Bin(">", name, Lit(Txt("alpha"))),
    Bin("like", name, Lit(Txt("b%"))), Negated(Bin("like", name, Lit(Txt("b%")))),
    InE(oid, <<Lit(Num(2)), Param(2)>>), Negated(InE(oid, <<Lit(Num(2)), Lit(Num(3))>>)),
    InE(oid, <<Lit(Num(2)), Lit(Null)>>), IsNullE(Col("c", "relacl")), Negated(IsNullE(Col("c", "relacl"))),
    BetweenE(oid, Lit(Num(1)), Lit(Num(3))), Quantified("=", oid, "ANY", AttributesOf(Col("x", "attrelid"), "array")),
    Quantified("=", Lit(Txt("public")), "ANY", CallE("current_schemas", <<Lit(Bool(TRUE))>>)),
    Quantified("<", oid, "ALL", AttributesOf(Col("x", "attnum"), "array")), Quantified("=", oid, "SOME", None),
    Bin("=", Lit(Txt("id")), AttributesOf(Col("x", "attname"), "scalar")), CallE("pg_table_is_visible", <<oid>>),
    CallE("pg_sleep", <<oid>>), CallE("cardinality", <<>>), Param(9), Col("", "missing"), Col("z", "oid"),
    Bin("=", Bin("+", oid, Lit(Num(1))), Lit(Num(3))), Node("exists", "", <<>>) }

OfAttribute ==
  { Negated(IsNullE(att)), IsNullE(att), Col("", "attnotnull"), NotE(Col("a", "attnotnull")),
    IsE(Col("a", "attnotnull"), "FALSE"), Bin(">", Col("a", "attnum"), Lit(Num(1))), Bin("=", att, Lit(Txt("id"))),
    Bin("<>", att, Lit(Txt("id"))), Bin("=", att, Col("c", "relacl")) }

Preds == Simple \cup OfAttribute
Few == {Bin("=", oid, Param(1)), Bin("=", name, Lit(Txt("beta"))), Col("a", "attnotnull"), IsNullE(att)}
Wheres ==
  Preds \cup {NotE(p) : p \in Preds}
    \cup {Bin(op, p, q) : op \in {"AND", "OR"}, p \in Few, q \in Preds}

Outputs ==
  { Bin("+", oid, Lit(Num(1))), Bin("-", Col("a", "attnum"), Lit(Num(1))), Node("minus", "", <<oid>>), IsNullE(att),
    Bin("=", name, Lit(Txt("beta"))), Bin("like", name, Lit(Txt("b%"))), NotE(Col("a", "attnotnull")),
    Bin("||", name, att), CastE(oid, "text"), CastE(Param(1), "int4"), CastE(Col("a", "attnotnull"), "bool"),
    CastE(name, "bool"), CastE(att, "text"), CastE(oid, "oid"),
    CaseE(None, Col("a", "attnotnull"), Lit(Txt("t")), Lit(Txt("f"))),
    CaseE(name, Lit(Txt("beta")), oid, Lit(Null)), CaseE(None, IsNullE(att), Lit(Num(0)), att),
    SubscriptE(CallE("current_schemas", <<Lit(Bool(FALSE))>>), Lit(Num(1))),
    CallE("version", <<>>), CallE("obj_description", <<oid, Lit(Txt("pg_class"))>>), CallE("pg_table_size", <<oid>>),
    CallE("cardinality", <<AttributesOf(Col("x", "attnum"), "array")>>),
    CallE("current_schemas", <<Lit(Bool(FALSE))>>),
    QueryE("scalar", Sel(<<Item(Col("d", "description"), "x")>>, <<D("first", None)>>, Described, <<>>)),
    QueryE("scalar", Sel(<<Item(Col("x", "relname"), "x")>>, <<Source("pg_class", "x", "first", None)>>,
                         Bin("=", Col("x", "oid"), Col("a", "attrelid")), <<>>)),
    QueryE("scalar", Sel(<<Item(att, "x")>>, <<C("first", None), A("full", OfClass)>>, None, <<>>)),
    Col("", "relname"), Col("", "oid"), Col("c", "relacl"), att }

Columns == <<Item(oid, "oid"), Item(name, "label")>>
WithAttribute == <<Item(name, "relname"), Item(att, "attname")>>

\* Two columns under DISTINCT: rows with a cell in common, rows that print as
\* one text with the blank in either cell, and NULL beside the text <nil>.
IfBeta(x, y) == CaseE(None, Bin("=", name, Lit(Txt("beta"))), Lit(x), Lit(y))
Pairs ==
  { WithAttribute, <<Item(name, "relname"), Item(Col("a", "attnotnull"), "x")>>,
    <<Item(IfBeta(Txt("x y"), Txt("x")), "x"), Item(IfBeta(Txt("z"), Txt("y z")), "y")>>,
    <<Item(IfBeta(Null, Txt("<nil>")), "x"), Item(att, "y")>> }

Orders ==
  { <<OrderBy(name, FALSE)>>, <<OrderBy(Lit(Num(1)), TRUE)>>, <<OrderBy(Lit(Num(9)), FALSE)>>,
    <<OrderBy(Col("", "label"), TRUE), OrderBy(oid, FALSE)>>, <<OrderBy(Col("a", "attnum"), FALSE)>>,
    <<OrderBy(att, TRUE), OrderBy(Col("", "relname"), FALSE)>>, <<OrderBy(Col("c", "relacl"), FALSE), OrderBy(oid, TRUE)>>,
    <<OrderBy(CastE(oid, "text"), FALSE)>> }

Windows ==
  {<<None, None>>, <<Lit(Num(2)), None>>, <<None, Lit(Num(1))>>, <<Lit(Num(1)), Lit(Num(1))>>, <<Lit(Num(0)), None>>,
   <<None, Lit(Num(9))>>, <<Param(1), None>>, <<oid, None>>}

Paged(st, w) == [st EXCEPT !.limit = w[1], !.offset = w[2]]

MCQueries ==
  {Sel(Columns, f, w, <<>>) : f \in Froms, w \in Wheres}
    \cup {Sel(<<Item(e, "x")>>, f, None, <<>>) : f \in Froms, e \in Outputs}
    \cup {Sel(<<Star(t)>>, f, None, <<>>) : f \in Froms \cup OddFroms, t \in {"", "a", "z"}}
    \cup {Paged(Sel(i, f, None, o), w) : i \in {Columns, WithAttribute}, f \in Froms, o \in Orders, w \in Windows}
    \cup {[Sel(<<Item(name, "relname")>>, f, None, o) EXCEPT !.distinct = TRUE] : f \in Froms, o \in Orders \cup {<<>>}}
    \cup {[Sel(i, f, None, <<>>) EXCEPT !.distinct = TRUE] : i \in Pairs, f \in Froms}
    \cup {Sel(Columns, f, None, <<>>) : f \in OddFroms}
    \cup {[Sel(Columns, f, None, <<>>) EXCEPT !.tail = "UNION"] : f \in Froms}
=============================================================================
