----------------------------- MODULE MCPgSelect ------------------------------
(***************************************************************************)
(* Conditions of up to four levels over a nullable number n, a required    *)
(* number m and a nullable boolean b; statements with every ORDER BY, page *)
(* and select list over a few of the conditions.  The vector fields v, u   *)
(* and w hold the same vectors under three indexes, one per metric.        *)
(***************************************************************************)
EXTENDS PgSelect

CONSTANTS n, m, b, v, u, w, z, items, i, other

N == <<Bare, n>>
M == <<Bare, m>>
B == <<Bare, b>>
V == <<Bare, v>>
MCIndexMetric == (v :> "L2") @@ (u :> "COSINE") @@ (w :> "IP")

Scores(l2, cosine, ip) == ("L2" :> l2) @@ ("COSINE" :> cosine) @@ ("IP" :> ip)
Row(x, y, t, s) == (n :> x) @@ (m :> y) @@ (b :> t) @@ [f \in {v, u, w} |-> s]

\* The three metrics order the rows differently; the last two are equally far.
MCTable ==
  << Row(2, 1, Yes, Scores(3, 1, 2)), Row(Null, 1, No, Scores(1, 0, 3)),
     Row(1, 2, Null, Scores(2, 2, 1)), Row(2, 2, Yes, Scores(2, 2, 1)) >>

MCFields == <<n, m, b, v, u, w>>
MCRows ==
  {Row(x, y, t, Scores(0, 0, 0)) : x \in {1, 2, 3, Null}, y \in {1, 2}, t \in {Yes, No, Null}} \cup ToSet(MCTable)

Leaves ==
  { Const("true"), Const("false"), Const("unknown"), Column(B),
    ColumnOp(N, "=", 1), ColumnOp(N, "<>", 2), ColumnOp(N, "<", 3), ColumnOp(M, ">=", 2),
    ColumnOp(N, "=", Null), ColumnOp(M, "=", Bad),
    LiteralOp(2, "<", N), LiteralOp(2, ">=", N), LiteralOp(Null, "=", M),
    In(N, {1, 2}, FALSE), In(N, {1, Null}, FALSE), In(N, {1, 2}, TRUE), In(M, {1, Null}, TRUE),
    Between(N, 1, 2, FALSE), Between(N, 2, 3, TRUE), Between(M, 1, Null, FALSE),
    Between(N, 2, Null, TRUE), NullTest(N, FALSE), NullTest(B, TRUE) }

Few == {Const("true"), Const("unknown"), ColumnOp(N, "=", 1), In(N, {1, Null}, FALSE), NullTest(N, FALSE)}

Pairs(S, L) == {AndW(<<s, l>>) : s \in S, l \in L} \cup {OrW(<<s, l>>) : s \in S, l \in L}
Nots(S) == {NotW(s) : s \in S}

Level1 == Nots(Leaves) \cup Pairs(Leaves, Leaves)
Level2 == Nots(Level1) \cup Pairs(Nots(Leaves), Few) \cup Pairs(Pairs(Few, Few), Few)
Level3 == Nots(Pairs(Pairs(Nots(Few), Few), Few)) \cup Pairs(Nots(Pairs(Few, Few)), {Column(B)})

Wheres == Leaves \cup Level1 \cup Level2 \cup Level3

All == Const("true")
SomeWheres == {All, ColumnOp(N, "=", 2), NotW(ColumnOp(N, "=", 1)), Column(B), Const("false")}

Orders ==
  { <<>>, <<ByColumn(N, FALSE)>>, <<ByColumn(N, TRUE)>>, <<ByColumn(M, TRUE)>>,
    <<ByColumn(M, FALSE), ByColumn(N, FALSE)>>, <<ByColumn(B, FALSE), ByColumn(M, TRUE)>>,
    <<ByColumn(V, FALSE)>>, <<ByColumn(<<Bare, z>>, FALSE)>>,
    <<ByDistance(V, "<->", "", FALSE), ByColumn(M, FALSE)>>, <<ByDistance(V, "<->", "", TRUE)>>,
    <<ByDistance(M, "<->", "", FALSE)>>, <<ByDistance(V, "<->", Bad, FALSE)>> }
  \cup {<<ByDistance(<<Bare, f>>, op, "", FALSE)>> : f \in {v, u, w}, op \in {"<->", "<=>", "<#>", "<+>"}}

Limits == {{}, {-1}, {0}, {1}, {2}, {4}, {5}, {MaxInt}, {Bad}}
Offsets == {{}, {-1}, {0}, {1}, {3}, {4}, {MaxInt}}

Qualified(q) == { <<q, n>>, <<q, b>> }
Lists == {<<>>, <<B, N>>, <<M, M>>, <<<<Bare, z>>>>} \cup {<<r>> : r \in UNION {Qualified(q) : q \in {items, i, other}}}

MCStatements ==
  {Statement(<<>>, {}, c, <<>>, {2}, {}) : c \in Wheres}
  \cup {Statement(<<N>>, {}, c, o, l, f) : c \in SomeWheres, o \in Orders, l \in Limits, f \in Offsets}
  \cup {Statement(s, a, c, <<ByColumn(r, FALSE)>>, {2}, {1}) :
           s \in Lists, a \in {{}, {i}}, r \in {N, <<items, n>>, <<i, n>>, <<other, n>>},
           c \in {All, ColumnOp(<<items, n>>, ">", 1), ColumnOp(<<other, n>>, "=", 2),
                  AndW(<<Column(<<i, b>>), NullTest(<<i, n>>, TRUE)>>), ColumnOp(<<other, n>>, "=", Null)}}
  \cup {[Statement(<<N>>, {}, All, <<>>, {1}, {}) EXCEPT !.beyond = TRUE]}
=============================================================================
