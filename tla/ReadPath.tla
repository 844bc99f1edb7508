------------------------------ MODULE ReadPath ------------------------------
(***************************************************************************)
(* MilvusExecutor.Search (internal/store/milvus.go): one search over one   *)
(* collection while other clients write to it and release it.              *)
(*                                                                         *)
(* A search is a sequence of store calls (describe, the pages of a cursor  *)
(* scan, a count) and each call sees the table of its own moment.  A call  *)
(* that meets an unloaded collection loads it and is retried once.         *)
(* Milvus is external: a query answers its matches in primary key order    *)
(* (what the cursor of scanAll relies on), count answers their number,     *)
(* and an ANN search answers matches nearest first.                        *)
(***************************************************************************)
EXTENDS Integers, Sequences, FiniteSets, FiniteSetsExt

CONSTANTS
  Keys,         \* primary keys, integers
  SortFields,   \* the fields besides the key
  Values,       \* cell values, integers
  TextRank,     \* [Values -> Int]: the order of the values' decimal texts
  Kind,         \* [SortFields -> STRING]: the native type of each field
  Dist,         \* [Row -> Nat]: the distance of a row's vector to the query's
  Tables,       \* the contents the collection may have at first
  Writes,       \* rows other clients may write, a subset of Row
  Plans,        \* the plans considered, see PlanType
  BatchSize,    \* scanBatchSize
  Null, NoRow

Row == [SortFields -> Values \cup {Null}]
Entity == Keys \X Row
Kinds == {"string", "int8", "int16", "int32", "int64", "float32", "float64", "bool"}

\* where: the rows the filter accepts; knn: the plan carries a vector; bad:
\* buildProjection or Render refuses it.
PlanType ==
  [noMatch: BOOLEAN, knn: BOOLEAN, bad: BOOLEAN, where: SUBSET Row,
   sort: Seq([field: SortFields, desc: BOOLEAN]), offset: Nat, limit: Nat]

ASSUME ReadAssumption ==
  /\ Keys \subseteq Int /\ IsFiniteSet(Keys)
  /\ Values \subseteq Int
  /\ Null \notin Values
  /\ NoRow \notin Row
  /\ TextRank \in [Values -> Int]
  /\ Kind \in [SortFields -> Kinds]
  /\ Dist \in [Row -> Nat]
  /\ Tables \subseteq [Keys -> Row \cup {NoRow}]
  /\ Writes \subseteq Row
  /\ Plans \subseteq PlanType
  /\ BatchSize \in Nat \ {0}

VARIABLES
  table,    \* [Keys -> Row \cup {NoRow}]: the collection
  loaded,   \* whether Milvus has it in memory
  exists,   \* whether there is such a collection
  plan,     \* the plan of the search
  pc,       \* the call the search is in
  attempt,  \* where queryOpt stands: first try, auto-load, retry
  rows,     \* the rows fetched so far, in fetch order
  hits,     \* the answer's hits
  total,    \* the answer's total
  reply,    \* how the search ended
  touched,  \* history: the keys written since the search began
  ever,     \* history: the keys that matched at some moment of the search
  faulted   \* history: whether a call failed or somebody released the collection

world == <<table, loaded, exists>>
search == <<plan, pc, attempt, rows, hits, total, reply>>
ghosts == <<touched, ever, faulted>>
vars == <<table, loaded, exists, plan, pc, attempt, rows, hits, total, reply,
          touched, ever, faulted>>

Calls == {"page", "scan", "count", "ann"}

TypeOK ==
  /\ table \in [Keys -> Row \cup {NoRow}]
  /\ loaded \in BOOLEAN /\ exists \in BOOLEAN
  /\ plan \in Plans
  /\ pc \in {"start", "describe", "done"} \cup Calls
  /\ attempt \in {"first", "load", "retry"}
  /\ rows \in Seq(Entity) /\ hits \in Seq(Entity)
  /\ total \in Nat
  /\ reply \in {"none", "ok", "notfound", "error"}
  /\ touched \subseteq Keys /\ ever \subseteq Keys
  /\ faulted \in BOOLEAN

(***************************************************************************)
(* Milvus's side of a query.                                               *)
(***************************************************************************)
Accepts(row) == row # NoRow /\ row \in plan.where
Matching == {k \in Keys : Accepts(table[k])}
Found(K) == {<<k, table[k]>> : k \in K}

\* The first n of the entities E in key order (external).
IsFirst(page, E, n) ==
  /\ \A i, j \in DOMAIN page : i < j => page[i][1] < page[j][1]
  /\ \A e \in E : \/ \E i \in DOMAIN page : page[i] = e
                  \/ Len(page) = n /\ \A i \in DOMAIN page : page[i][1] < e[1]

FirstPages(E, n) == {page \in UNION {[1..m -> E] : m \in 0..n} : IsFirst(page, E, n)}

\* Offset skips the lowest keys, limit keeps the next ones (external).
Skipped(n) == {k \in Matching : Cardinality({j \in Matching : j < k}) < n}
QueryPages(K, n) == FirstPages(Found(K), n)

(***************************************************************************)
(* Ordering: compareRows, compareScalar, sort.SliceStable, window.         *)
(***************************************************************************)
Sign(n) == IF n < 0 THEN -1 ELSE IF n > 0 THEN 1 ELSE 0

\* compareScalar knows string, int64, float64 and bool; any other Go type (the
\* int8, int16, int32 and float32 that narrow columns read back as) is compared
\* by its text.
ComparedByValue(f) == Kind[f] \in {"string", "int64", "float64", "bool"}

CompareScalar(f, a, b) ==
  IF ComparedByValue(f) THEN Sign(a - b) ELSE Sign(TextRank[a] - TextRank[b])

\* (mutant) The direction also turns the place of the missing values round.
CompareClauseNullsTurn(c, a, b) ==
  LET x == a[c.field]
      y == b[c.field]
      cmp == CASE x = Null /\ y = Null -> 0
               [] x = Null /\ y # Null -> 1
               [] x # Null /\ y = Null -> -1
               [] OTHER -> CompareScalar(c.field, x, y)
  IN IF c.desc THEN -cmp ELSE cmp

\* One sort clause: a missing value is last whatever the direction.
CompareClause(c, a, b) ==
  LET x == a[c.field]
      y == b[c.field]
  IN CASE x = Null /\ y = Null -> 0
       [] x = Null /\ y # Null -> 1
       [] x # Null /\ y = Null -> -1
       [] OTHER -> IF c.desc THEN -CompareScalar(c.field, x, y) ELSE CompareScalar(c.field, x, y)

\* The first clause that tells the rows apart decides.
CompareRows(a, b) ==
  LET differ == {n \in DOMAIN plan.sort : CompareClause(plan.sort[n], a, b) # 0}
  IN IF differ = {} THEN 0 ELSE CompareClause(plan.sort[Min(differ)], a, b)

\* sort.SliceStable: equal rows keep the order in which they were fetched.
Before(s, i, j) ==
  LET c == CompareRows(s[i][2], s[j][2])
  IN c < 0 \/ (c = 0 /\ i < j)

Place(s, i) == 1 + Cardinality({j \in DOMAIN s : Before(s, j, i)})

SliceStable(s) == [n \in DOMAIN s |-> s[CHOOSE i \in DOMAIN s : Place(s, i) = n]]

Window(s, offset, limit) ==
  IF limit = 0 \/ offset >= Len(s) THEN <<>>
  ELSE SubSeq(s, offset + 1, Min({offset + limit, Len(s)}))

(***************************************************************************)
(* The steps of a search.                                                  *)
(***************************************************************************)
Answer(status, hs, n) ==
  /\ pc' = "done"
  /\ reply' = status
  /\ hits' = hs
  /\ total' = n

Fail(status) == Answer(status, <<>>, 0)

\* The search begins: NoMatch sends nothing, and so does a vector search with
\* scalar sort terms, which is an internal error, or with limit 0.
Start ==
  /\ pc = "start"
  /\ touched' = {} /\ ever' = Matching
  /\ CASE plan.noMatch -> Answer("ok", <<>>, 0)
       [] ~plan.noMatch /\ plan.knn /\ plan.sort # <<>> -> Fail("error")
       [] ~plan.noMatch /\ plan.knn /\ plan.sort = <<>> /\ plan.limit = 0 -> Answer("ok", <<>>, 0)
       [] OTHER -> pc' = "describe" /\ UNCHANGED <<reply, hits, total>>
  /\ UNCHANGED <<table, loaded, exists, plan, attempt, rows, faulted>>

\* The schema is there: the plan is checked against it (what buildProjection and
\* Render refuse is an internal error to both fronts) and the shape of the
\* execution chosen.  Sort with limit 0 fetches nothing, and still trusts the
\* rows it did not fetch for the total.
Describe ==
  /\ pc = "describe"
  /\ CASE ~exists -> Fail("notfound")
       [] exists /\ plan.bad -> Fail("error")
       [] exists /\ ~plan.bad /\ ~plan.knn /\ plan.limit = 0 /\ plan.sort # <<>> ->
            Answer("ok", <<>>, 0)
       [] OTHER ->
            /\ pc' = CASE plan.knn -> "ann"
                       [] ~plan.knn /\ plan.limit = 0 -> "count"
                       [] ~plan.knn /\ plan.limit > 0 /\ plan.sort = <<>> -> "page"
                       [] OTHER -> "scan"
            /\ UNCHANGED <<reply, hits, total>>
  /\ UNCHANGED <<table, loaded, exists, plan, attempt, rows, touched, ever, faulted>>

\* (mutant) An unloaded collection is an error like any other.
RefusedFatal ==
  /\ pc \in Calls /\ ~loaded /\ attempt = "first"
  /\ Fail("error")
  /\ UNCHANGED <<table, loaded, exists, plan, attempt, rows, touched, ever, faulted>>

\* queryOpt and searchOpt: "not loaded" on the first try starts an auto-load.
Refused ==
  /\ pc \in Calls /\ ~loaded /\ attempt = "first"
  /\ attempt' = "load"
  /\ UNCHANGED <<table, loaded, exists, plan, pc, rows, hits, total, reply, touched, ever, faulted>>

\* loadAndWait returns once the collection is in memory.
Load ==
  /\ pc \in Calls /\ attempt = "load"
  /\ loaded' = TRUE
  /\ attempt' = "retry"
  /\ UNCHANGED <<table, exists, plan, pc, rows, hits, total, reply, touched, ever, faulted>>

\* "not loaded" on the retry: the collection was released again meanwhile.
RefusedAgain ==
  /\ pc \in Calls /\ ~loaded /\ attempt = "retry"
  /\ Fail("error")
  /\ UNCHANGED <<table, loaded, exists, plan, attempt, rows, touched, ever, faulted>>

\* A call the store answers.
Served == loaded /\ attempt # "load"

\* queryPage with the plan's offset and limit, and totalMatches: an underfilled
\* page tells the total, a full one asks for it.
Page ==
  /\ pc = "page" /\ Served
  /\ attempt' = "first"
  /\ \E page \in QueryPages(Matching \ Skipped(plan.offset), plan.limit) :
       /\ rows' = page
       /\ IF Len(page) < plan.limit
          THEN Answer("ok", page, plan.offset + Len(page))
          ELSE pc' = "count" /\ UNCHANGED <<hits, total, reply>>
  /\ UNCHANGED <<table, loaded, exists, plan, touched, ever, faulted>>

\* (mutant) The cursor asks for the last key again.
PastCursorInclusive(k) == rows = <<>> \/ rows[Len(rows)][1] <= k

\* The cursor of scanAll: only keys past the last one fetched.
PastCursor(k) == rows = <<>> \/ rows[Len(rows)][1] < k

\* (mutant) The scan takes a full batch for the last one.
ScanShort ==
  /\ pc = "scan" /\ Served
  /\ attempt' = "first"
  /\ \E batch \in QueryPages({k \in Matching : PastCursor(k)}, BatchSize) :
       /\ rows' = rows \o batch
       /\ Answer("ok", Window(SliceStable(rows'), plan.offset, plan.limit), Len(rows'))
  /\ UNCHANGED <<table, loaded, exists, plan, touched, ever, faulted>>

\* (mutant) A full batch leaves the cursor where it was.
ScanStays ==
  /\ pc = "scan" /\ Served
  /\ attempt' = "first"
  /\ \E batch \in QueryPages({k \in Matching : PastCursor(k)}, BatchSize) :
       IF Len(batch) < BatchSize
       THEN /\ rows' = rows \o batch
            /\ Answer("ok", Window(SliceStable(rows'), plan.offset, plan.limit), Len(rows'))
       ELSE UNCHANGED <<rows, pc, hits, total, reply>>
  /\ UNCHANGED <<table, loaded, exists, plan, touched, ever, faulted>>

\* One step of scanAll; a batch that is not full ends it, and the sort and the
\* window give the answer.
Scan ==
  /\ pc = "scan" /\ Served
  /\ attempt' = "first"
  /\ \E batch \in QueryPages({k \in Matching : PastCursor(k)}, BatchSize) :
       /\ rows' = rows \o batch
       /\ IF Len(batch) < BatchSize
          THEN Answer("ok", Window(SliceStable(rows'), plan.offset, plan.limit), Len(rows'))
          ELSE UNCHANGED <<pc, hits, total, reply>>
  /\ UNCHANGED <<table, loaded, exists, plan, touched, ever, faulted>>

\* (mutant) The count is the length of the page.
CountPage ==
  /\ pc = "count" /\ Served
  /\ attempt' = "first"
  /\ Answer("ok", rows, Len(rows))
  /\ UNCHANGED <<table, loaded, exists, plan, rows, touched, ever, faulted>>

\* (mutant) A count the store does not answer is taken for minus one.
CountUnset ==
  /\ pc = "count" /\ Served
  /\ attempt' = "first"
  /\ Answer("ok", rows, Cardinality(Matching) - (IF Matching = {} THEN 1 ELSE 0))
  /\ UNCHANGED <<table, loaded, exists, plan, rows, touched, ever, faulted>>

\* count over the same filter, a call of its own.
Count ==
  /\ pc = "count" /\ Served
  /\ attempt' = "first"
  /\ Answer("ok", rows, Cardinality(Matching))
  /\ UNCHANGED <<table, loaded, exists, plan, rows, touched, ever, faulted>>

\* vectorSearch: the window of the matches nearest first, ties in any order; the
\* total is the number of hits (external: the ANN ranking).  A metric that is not
\* the index's is PgSelect's.
Ann ==
  LET n == Max({0, Min({plan.limit, Cardinality(Matching) - plan.offset})})
  IN
  /\ pc = "ann" /\ Served
  /\ attempt' = "first"
  /\ \E hs \in [1..n -> Found(Matching)] :
       /\ \A i, j \in 1..n : i < j => hs[i] # hs[j] /\ Dist[hs[i][2]] <= Dist[hs[j][2]]
       /\ rows' = hs
       /\ Answer("ok", hs, n)
  /\ UNCHANGED <<table, loaded, exists, plan, touched, ever, faulted>>

\* A call fails, for a reason other than "not loaded"; a metric that the server
\* refuses is one.
CallFails ==
  /\ pc \in Calls \cup {"describe"}
  /\ Fail("error")
  /\ faulted' = TRUE
  /\ UNCHANGED <<table, loaded, exists, plan, attempt, rows, touched, ever>>

(***************************************************************************)
(* The other clients.                                                      *)
(***************************************************************************)
\* An Insert or an Upsert of one row, as often as they like.
Put ==
  /\ pc \notin {"start", "done"}
  /\ \E k \in Keys, row \in Writes :
       /\ table' = [table EXCEPT ![k] = row]
       /\ touched' = touched \cup {k}
       /\ ever' = IF Accepts(row) THEN ever \cup {k} ELSE ever
  /\ UNCHANGED <<loaded, exists, plan, pc, attempt, rows, hits, total, reply, faulted>>

\* Somebody releases the collection from memory.
Release ==
  /\ pc \notin {"start", "done"} /\ loaded
  /\ loaded' = FALSE
  /\ faulted' = TRUE
  /\ UNCHANGED <<table, exists, plan, pc, attempt, rows, hits, total, reply, touched, ever>>

Init ==
  /\ table \in Tables
  /\ loaded \in BOOLEAN /\ exists \in BOOLEAN
  /\ plan \in Plans
  /\ pc = "start" /\ attempt = "first"
  /\ rows = <<>> /\ hits = <<>> /\ total = 0 /\ reply = "none"
  /\ touched = {} /\ ever = {} /\ faulted = FALSE

SearchStep ==
  \/ Start \/ Describe \/ Refused \/ Load \/ RefusedAgain
  \/ Page \/ Scan \/ Count \/ Ann

Done == pc = "done" /\ UNCHANGED vars

Next == SearchStep \/ CallFails \/ Put \/ Release \/ Done

\* The handler's goroutine is runnable and the store's calls return: the weak
\* fairness of SearchStep, which some step of the search can take until it has
\* answered (that condition is spelled out, ENABLED costs TLC a sort each time).
Fairness == []<>(pc = "done") \/ []<><<SearchStep>>_vars

Spec == Init /\ [][Next]_vars /\ Fairness

(***************************************************************************)
(* Properties.                                                             *)
(***************************************************************************)
\* No entity is fetched twice: the rows of a scan or a page stand in strictly
\* ascending key order, also across batches between which others wrote.
FetchedOnce ==
  ~plan.knn => \A i, j \in DOMAIN rows : i < j => rows[i][1] < rows[j][1]

\* What the cursor has passed is what the scan has: a row that matches and that
\* nobody writes during the search is not skipped between two batches.
NothingSkipped ==
  pc = "scan" \/ (reply = "ok" /\ ~plan.noMatch /\ ~plan.knn /\ plan.sort # <<>> /\ plan.limit > 0) =>
    \A k \in Matching \ touched :
      \/ \E i \in DOMAIN rows : rows[i] = <<k, table[k]>>
      \/ pc = "scan" /\ \A i \in DOMAIN rows : rows[i][1] < k

\* The totals the two shortcuts of totalMatches get wrong: an empty page past
\* the last match, and a sorted search of size 0.
Misleading ==
  \/ plan.sort # <<>> /\ plan.limit = 0
  \/ plan.sort = <<>> /\ plan.limit > 0 /\ plan.offset > 0 /\ rows = <<>>

CountsMatches ==
  /\ Cardinality(Matching \ touched) <= total
  /\ total <= Cardinality(ever)

\* hits.total of a scalar search is at least the number of rows that matched
\* throughout it and at most the number that matched at some moment of it,
\* although the page and the count are calls of their own.
TotalBracketed ==
  reply = "ok" /\ ~plan.noMatch /\ ~plan.knn /\ ~Misleading => CountsMatches

\* The reference order of a sorted search: by the clauses as numbers, missing
\* values last, then by key.
Difference(c, a, b) ==
  LET x == a[c.field]
      y == b[c.field]
  IN CASE x = y -> 0
       [] x # y /\ y = Null -> -1
       [] x # y /\ x = Null -> 1
       [] OTHER -> IF c.desc THEN y - x ELSE x - y

Precedes(d, e) ==
  LET cmp(n) == Difference(plan.sort[n], d[2], e[2])
      tied(n) == \A m \in 1..(n - 1) : cmp(m) = 0
  IN \/ \E n \in DOMAIN plan.sort : tied(n) /\ cmp(n) < 0
     \/ tied(Len(plan.sort) + 1) /\ d[1] < e[1]

IsPage(hs) ==
  /\ Len(hs) = Max({0, Min({plan.limit, Cardinality(Matching) - plan.offset})})
  /\ \A n \in DOMAIN hs :
       /\ hs[n] \in Found(Matching)
       /\ Cardinality({e \in Found(Matching) : Precedes(e, hs[n])}) = plan.offset + n - 1

\* A search nobody disturbed answers the right page: its n-th hit is the match
\* that exactly offset + n - 1 matches precede, and the page is as long as the
\* matches allow.  Sorts on fields that are compared by their text are left out.
RightPage ==
  (/\ reply = "ok" /\ touched = {} /\ ~plan.knn /\ ~plan.noMatch
   /\ \A n \in DOMAIN plan.sort : ComparedByValue(plan.sort[n].field)) =>
    IsPage(hits)

\* A plan the store has no execution for: a vector with scalar sort terms, or
\* one that buildProjection (a sort on a field without an order) or Render
\* refuses.  Search finds out after the translation accepted it, so the client
\* is told of an internal error.
Unrunnable ==
  /\ ~plan.noMatch
  /\ \/ plan.knn /\ plan.sort # <<>>
     \/ plan.bad /\ ~(plan.knn /\ plan.limit = 0)

\* The auto-load hides that a collection is not in memory: an internal error
\* means that a call failed, that somebody released the collection meanwhile, or
\* that the plan has no execution; and such a plan is never answered with rows.
ErrorNeedsFault ==
  /\ reply = "error" => faulted \/ Unrunnable
  /\ reply = "ok" => ~Unrunnable

\* Every search ends, although others may write and release without end: each
\* batch moves the cursor past a key, and each call is retried once.  (Keys is
\* finite; a client that inserts ever higher keys, faster than the batches come,
\* keeps scanAll going for as long as it does.)
EverySearchAnswered == pc = "start" ~> pc = "done"
=============================================================================
