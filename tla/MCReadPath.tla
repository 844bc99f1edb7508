----------------------------- MODULE MCReadPath -----------------------------
(***************************************************************************)
(* Small instances of ReadPath: four keys, three sort fields (one narrow), *)
(* batches of two rows, so that a scan of all matches takes up to three    *)
(* calls.                                                                  *)
(***************************************************************************)
EXTENDS ReadPath, TLC

CONSTANTS f, g, h

MCKeys == 1..4
MCFields == {f, g, h}
MCValues == {2, 9, 10}
\* "10" < "2" < "9"
MCTextRank == (2 :> 2) @@ (9 :> 3) @@ (10 :> 1)
MCKind == (f :> "int64") @@ (g :> "float64") @@ (h :> "int8")

Cells(x, y) == (f :> x) @@ (g :> y) @@ (h :> x)
MCDist == [r \in Row |-> IF r[f] = Null THEN 0 ELSE r[f]]

MCTables ==
  { [k \in MCKeys |-> CASE k = 1 -> Cells(9, 2) [] k = 2 -> Cells(Null, 2)
                        [] k = 3 -> Cells(9, 2) [] OTHER -> Cells(10, Null)],
    [k \in MCKeys |-> CASE k = 1 -> Cells(10, 9) [] k = 2 -> Cells(2, 9)
                        [] k = 3 -> Cells(9, 10) [] OTHER -> NoRow],
    [k \in MCKeys |-> IF k = 2 THEN Cells(2, 9) ELSE NoRow] }

MCWrites == {Cells(10, 2), Cells(2, 10)}

Asc(x) == [field |-> x, desc |-> FALSE]
Desc(x) == [field |-> x, desc |-> TRUE]

Plan(where, sort, offset, limit) ==
  [noMatch |-> FALSE, knn |-> FALSE, bad |-> FALSE,
   where |-> where, sort |-> sort, offset |-> offset, limit |-> limit]

NotTen == {r \in Row : r[g] # 10}

MCPlans ==
  { Plan(Row, <<>>, 0, 2), Plan(Row, <<>>, 1, 3), Plan(NotTen, <<>>, 0, 0),
    Plan(NotTen, <<>>, 3, 1),
    Plan(Row, <<Asc(f)>>, 0, 3), Plan(NotTen, <<Desc(f), Asc(g)>>, 1, 2),
    Plan(Row, <<Desc(g)>>, 0, 4), Plan(Row, <<Asc(g), Desc(f)>>, 3, 2),
    Plan(Row, <<Asc(f)>>, 0, 0), Plan(NotTen, <<Desc(h), Asc(g)>>, 0, 3),
    [Plan(Row, <<>>, 0, 2) EXCEPT !.noMatch = TRUE],
    [Plan(Row, <<>>, 0, 2) EXCEPT !.bad = TRUE],
    [Plan(NotTen, <<>>, 1, 2) EXCEPT !.knn = TRUE],
    [Plan(Row, <<>>, 0, 0) EXCEPT !.knn = TRUE],
    [Plan(Row, <<Asc(f)>>, 0, 2) EXCEPT !.knn = TRUE] }
=============================================================================
