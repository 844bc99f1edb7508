------------------------------ MODULE MCEsQuery ------------------------------
(***************************************************************************)
(* Queries of up to three levels over a nullable number n, a required      *)
(* number m and a nullable text t.                                         *)
(***************************************************************************)
EXTENDS EsQuery, TLC

CONSTANTS n, m, t, x, y

MCFields == {n, m, t}
MCRows ==
  {(n :> a) @@ (m :> b) @@ (t :> c) :
     a \in {1, 2, Null}, b \in {1, 2}, c \in {{}, {x}, {x, y}, Null}}

Between(f, lo, hi) == Bounds(f, <<[op |-> ">=", v |-> lo], [op |-> "<", v |-> hi]>>)

\* Every kind of leaf.
AllLeaves ==
  { MatchAll, MatchNone, Term(n, 1), Term(m, 1), Term(n, Bad), Terms(n, {}), Terms(n, {1, 2}),
    Match(m, <<2>>, "or"), Match(t, <<x, y>>, "and"), Match(t, <<x, y>>, "or"),
    Match(t, <<>>, "or"), Between(n, 1, 2), Between(m, 2, 3),
    Bounds(n, <<[op |-> ">", v |-> 1]>>), Bounds(m, <<[op |-> "<=", v |-> 1]>>), Exists(n) }

Leaves == {MatchAll, MatchNone, Term(n, 1), Between(n, 1, 2), Match(t, <<x, y>>, "and"), Exists(n)}

\* The bools with one clause from S and at most one from L.
Bools(S, L) ==
  LET one(s) == {<<p>> : p \in s}
      two == {<<p, q>> : p \in S, q \in L}
      none == {<<>>}
  IN {Bool(a, b, c, msm) : a \in one(S), b \in one(L) \cup none, c \in none, msm \in {0, 1}}
     \cup {Bool(a, b, c, msm) : a \in one(S), b \in none, c \in one(L), msm \in {0, 1}}
     \cup {Bool(a, b, c, msm) : a \in none \cup one(L), b \in one(S), c \in none, msm \in 0..2}
     \cup {Bool(a, b, c, msm) : a \in none, b \in one(S), c \in one(L), msm \in {0, 1}}
     \cup {Bool(a, b, c, 0) : a \in none \cup one(L), b \in none, c \in one(S)}
     \cup {Bool(a, b, c, msm) : a \in none, b \in one(L), c \in one(S), msm \in {0, 1}}
     \cup {Bool(<<>>, s, <<>>, msm) : s \in two, msm \in 0..3}

Inner == {MatchAll, MatchNone, Term(n, 1), Match(t, <<x, y>>, "and")}
Level1 == Bools(AllLeaves, Leaves)
Level2 == Bools(Bools(Inner, {MatchNone, Between(n, 1, 2)}), {MatchAll, Term(n, 1)})
Negations == Bools({Bool(<<>>, <<>>, <<b>>, 0) : b \in Bools(Inner, {Term(m, 1)})}, {Exists(n)})
MCQueries == AllLeaves \cup Level1 \cup Level2 \cup Negations

KnnQueries == Bools(Leaves, Leaves)

\* The members around a query, by themselves and two at a time.
AllFields == [fetch |-> TRUE, includes |-> <<>>, excludes |-> <<>>]
Body(q, isKnn) ==
  [query |-> q, knn |-> isKnn, both |-> FALSE, from |-> {}, size |-> {}, k |-> {},
   sort |-> <<>>, source |-> AllFields]

Counts == {{}, {Bad}} \cup {{i} : i \in {-1, 0, 1, 2, 4, 5, 12, 15}}
Sorts == {<<>>} \cup
  {<<[f |-> g, form |-> w, order |-> o]>> :
     g \in {n, Score}, w \in {"plain", "options"}, o \in {"asc", "desc", "other"}}
Shown == Patterns \ {Name(t)}
PatternLists == {<<>>} \cup {<<p>> : p \in Shown} \cup {<<p, q>> : p \in Shown, q \in Shown}
Sources ==
  {[fetch |-> fetch, includes |-> i, excludes |-> e] :
     fetch \in BOOLEAN, i \in PatternLists, e \in PatternLists}

Members ==
  LET body0 == {Body(q, isKnn) : q \in {MatchAll, Term(n, 1)}, isKnn \in BOOLEAN}
  IN {[b EXCEPT !.from = i, !.size = j, !.k = c] :
        b \in body0, i \in Counts, j \in Counts, c \in {{}, {0}, {1}, {5}}}
     \cup {[b EXCEPT !.sort = o, !.both = w, !.size = j] :
        b \in body0, o \in Sorts, w \in BOOLEAN, j \in {{}, {1}, {5}}}
     \cup {[b EXCEPT !.source = o] : b \in body0, o \in Sources}

MCBodies == {Body(q, isKnn) : q \in MCQueries, isKnn \in BOOLEAN} \cup Members
KnnBodies == {Body(q, TRUE) : q \in KnnQueries}
=============================================================================
