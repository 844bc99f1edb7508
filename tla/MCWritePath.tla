---------------------------- MODULE MCWritePath ----------------------------
(***************************************************************************)
(* Small instances of WritePath: five keys of which k1 and k3 hold a row,  *)
(* one nullable and one required field, and a request of every kind.       *)
(***************************************************************************)
EXTENDS WritePath, TLC

CONSTANTS k1, k2, k3, k4, k5, a, b, v1, v2

MCKeys == {k1, k2, k3, k4, k5}
MCNewIds == {k4, k5}
MCFields == {a, b}
MCValues == {v1, v2}
\* Two values and two keys that are one float64.
MCRound == [v \in MCValues |-> v1]
MCRoundKey == [k \in MCKeys |-> IF k = k3 THEN k1 ELSE k]

Cells(x, y) == (a :> x) @@ (b :> y)

MCPreloaded ==
  [k \in MCKeys |-> CASE k = k1 -> Cells(v1, v1)
                     [] k = k3 -> Cells(Null, v1)
                     [] OTHER -> NoRow]

Blank == [op |-> "index", bad |-> FALSE, url |-> NoKey, pk |-> NoKey,
          doc |-> Cells(Absent, Absent), where |-> {}, rows |-> {}]

Es(op, url, pk, doc) == [Blank EXCEPT !.op = op, !.url = url, !.pk = pk, !.doc = doc]
PgInsert(rs) == [Blank EXCEPT !.op = "pginsert", !.rows = rs]
PgUpdate(pk, doc, where) ==
  [Blank EXCEPT !.op = "pgupdate", !.pk = pk, !.doc = doc, !.where = where]

WhereB(v) == {h \in MCKeys \X Row : h[2][b] = v}

MCInputs ==
  { Es("index", k1, NoKey, Cells(Absent, v2)),     \* replaces the row whole
    Es("index", k2, NoKey, Cells(v1, v1)),
    Es("index", NoKey, NoKey, Cells(v2, v1)),      \* generated or assigned id
    Es("index", k2, k1, Cells(v1, v1)),            \* disagreeing key
    Es("create", k2, k2, Cells(v2, v2)),
    Es("create", k1, NoKey, Cells(v1, v1)),        \* taken
    Es("create", k2, NoKey, Cells(v1, Absent)),    \* required field missing
    Es("update", k1, NoKey, Cells(v2, Absent)),
    Es("update", k1, k1, Cells(v1, Absent)),       \* a noop at first
    Es("update", k1, NoKey, Cells(Absent, v2)),
    Es("update", k1, k3, Cells(v2, Absent)),       \* disagreeing as a text, the same as a float64
    Es("update", k1, k2, Cells(v2, Absent)),       \* disagreeing key
    Es("update", k2, NoKey, Cells(Null, Bad)),
    Es("update", BadId, NoKey, Cells(v1, v1)),
    [Blank EXCEPT !.bad = TRUE],
    PgInsert({<<k2, Cells(v2, v1)>>, <<k3, Cells(Null, v1)>>}),
    PgInsert({<<k2, Cells(v1, v1)>>, <<k3, Cells(v1, Bad)>>}),
    PgInsert({<<NoKey, Cells(v1, v1)>>}),
    PgUpdate(NoKey, Cells(v2, Absent), WhereB(v1)),
    PgUpdate(NoKey, Cells(Absent, v2), WhereB(v1)),
    PgUpdate(NoKey, Cells(Absent, Null), WhereB(v1)),
    PgUpdate(k2, Cells(Absent, Absent), WhereB(v1)),
    PgUpdate(NoKey, Cells(v1, v1), {}) }

Plain(auto, str) ==
  [autoID |-> auto, stringPk |-> str, nullable |-> {a},
   kind |-> (a :> "string") @@ (b :> "float64")]

MCSchemas == {Plain(FALSE, TRUE), [Plain(FALSE, FALSE) EXCEPT !.kind[b] = "int64"], Plain(TRUE, FALSE)}

\* Two clients that create the same document.
CreateInputs == {Es("create", k2, NoKey, Cells(v1, v1)), Es("create", k2, k2, Cells(v2, v2))}

\* Updates of rows whose field b is an int8.
UpdateInputs ==
  { Es("update", k1, NoKey, Cells(v2, Absent)),
    PgUpdate(NoKey, Cells(v2, Absent), WhereB(v1)) }
NarrowSchemas == {[Plain(FALSE, TRUE) EXCEPT !.kind[b] = "int8"]}
=============================================================================
