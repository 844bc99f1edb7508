# Lyrebird in TLA+

Lyrebird is a gateway: Elasticsearch (HTTP) and PostgreSQL (wire) clients on one
side, a Milvus cluster on the other. It keeps no data of its own. What makes it
hard is that it imitates two systems with strong promises (exclusive creates,
merges, exact totals, sorted pages, three-valued logic, transactions, system
catalogs, draining on a signal) on top of one that offers none of them: every
promise is kept by a sequence of store calls with other clients in between, or by a
translation that must not change the meaning of a query or of a value.

This directory holds modules that model the gateway from its Go source, TLC
configurations for small instances, and theorems checked by TLAPS.

## 1. Inventory

| Component | Source (`src/…`) | State | Operations | What makes it correct |
|---|---|---|---|---|
| ES document API | `internal/esserver/write.go` | per request: the resolved id, the fetched row, the merged row | index, create, update | a create is exclusive; an update leaves other cells alone; a noop changes nothing; an answer tells what happened |
| PG writes | `internal/pgserver/write.go` | per statement: the rows of the scan | INSERT, UPDATE | the same, for every matched row; nothing else is touched |
| Write parsing | `internal/translate/pg/write.go`, `internal/translate/es/write.go` | none | ParseInsert, ParseUpdate, ParseDocument | a literal reaches the column it was written for, as what it says |
| Strict write | `internal/store/write.go` | none | Insert, Upsert | a batch is validated as a whole before anything is sent; a column lines its values up with its rows |
| Search execution | `internal/store/milvus.go` | per search: the rows, the cursor, the attempt | Search (page, scan, count, ANN), auto-load | no row twice, none skipped, the right page, totals that were true at some moment |
| ES query translation | `internal/translate/es` | the body, the query tree | parse, fold, buildExpr, paging, `_source` | the filter selects what the query matches; a search is refused only for a cause |
| PG SELECT translation | `internal/translate/pg` | the statement, the where tree | Parse, Plan | the rows that arrive are an answer of the statement |
| Filter expressions | `internal/translate/expr.go` | none | Render | a plan's filter is a text Milvus parses |
| Database views, client pool | `internal/store/cluster.go` | the pool, its mutex | Database, clientFor | one client per database; nobody waits for good |
| Process lifecycle | `cmd/gateway/main.go`, `serve` in `internal/pgserver/server.go` | both fronts, the context, pgErr, runErr | boot, serve, signal, drain, exit | a signal ends the process; work in flight is drained; the status is truthful |
| PG wire server, sessions | `internal/pgserver` | the string, its prepared statements | parse, parseOne, the statement bodies | statements run in order up to the first error; each fails only for a cause |
| Catalog SQL engine | `internal/catalog` | per execution: the snapshot | Prepare, Exec | introspection queries follow SQL over one picture of the cluster |
| ES HTTP front | `internal/esserver` (search, ddl, catalog) | none | routing, envelopes | – |
| Development executor, fixtures | `internal/store/executor.go`, `internal/milvustest` | none | log and answer empty | – |

How they interact: both fronts are goroutines of one process and share one
`store.Cluster`. An ES handler calls `es.Translate` and then `Search`, or the
document API calls `Search` and then `Insert` or `Upsert`. A PG statement is tried
as a session word, as a catalog query, as a write and as a read; it asks
`Database` for the client of its connection's database, translates, and calls the
same executor. Catalog queries call `ListCollections` and `Collection` while they
build their tables. There is no lock and no transaction above Milvus: between two
store calls of one request anything may happen to the collection. The fronts
share the client pool (behind `poolMu`) and, at the end, the context that a signal
cancels.

Hard behaviours, listed one by one with their lines under `hazards` in
`PROJECT.json`: check-then-insert and read-modify-write without a transaction;
calls whose effect outlives their lost answer; a cursor scan under concurrent
writes; a count that is a later call than the page; auto-load racing a release;
a read described against a schema that is replaced before it runs; a catalog
whose collections come and go while it is listed; null cells under negation in
four dialects of logic; constants folded in one position and used in another;
sums, integers and floats at the edge of their width; a mutex held across a dial
that has no deadline; a drain racing its deadline, a hanging dial and a second
signal.

## 2. Modules

| Module | Models | Kind |
|---|---|---|
| `WritePath` | ES document API, PG INSERT and UPDATE, strict write | state machine, one action per await of the store |
| `DocStore` | what the write path promises | abstract specification, implemented by `WritePath` |
| `StrictWrite` | write parsing, cell conversion, columns | state machine, one action per stage |
| `ReadPath` | `MilvusExecutor.Search` | state machine, one action per store call |
| `MilvusExpr` | the expression tree, `Render`, Milvus's evaluation | recursive functions |
| `EsQuery` | `translate/es`: a search body to a plan | parse, fold, build over recursive functions |
| `PgWhere` | `translate/pg`: conditions | recursive functions |
| `PgSelect` | `translate/pg`: a SELECT to a plan, and the rows it answers with | parse, plan, build; extends `PgWhere` |
| `CatalogEval` | the catalog engine's parser and evaluator | recursive operators |
| `CatalogQuery` | `Prepare` and the stages of an execution, against SQL | state machine; extends `CatalogEval` |
| `CatalogSnapshot` | how virtual tables are built from a changing cluster | actions |
| `PgSession` | a session: strings of statements, their bodies | state machine, composed with `CatalogSnapshot` |
| `ClientPool` | `Database`, `clientFor` | actions of the PG connections |
| `Gateway` | the process, composed with `ClientPool` | state machine |
| `…Proofs` | theorems, section 4 | TLAPS |
| `MC…` | instances | constants only |

### WritePath and DocStore

A handler has a phase `pc[r]`: `idle`, then `lookup` (ES index and create, in
`documentExists`), `fetch` (ES update, in `fetchDocument`) or `scan` (UPDATE, in
`Search`), then `write` (in `Insert` or `Upsert`), then `done`. Everything between
two awaits is one action: parsing, id resolution and validation run in the action
that ends in the next await. The store is a bag of rows under each key, because
Milvus's Insert does not look at keys: that two rows may share a key is the point.
A cell is a value, `Null`, `Absent` (not named in the request) or `Bad` (any of the
classes `validateWriteCells` rejects). Three history variables say what the
properties need: whether a request's write took effect, which keys others wrote
since it read, and which keys were inserted without a check that still held.
`WriteAnswerLost` is the call that takes effect and reports an error.

`DocStore` is what is left of that when awaits and bookkeeping are gone: a request
arrives, may look at rows the store holds, and either commits the rows its command
asks for, in one step, or declines. It is refused only without effect and told of
success only with it. `WritePath` implements it under the mapping
`Docs == INSTANCE DocStore WITH data <- rows, cmd <- in, read <- hits, status <- …`,
where `StatusOf` reads a request's status off its phase and its reply. The
specification promises no isolation, because the gateway has none.

### StrictWrite

One write from its text to the columns that are sent. A literal or a JSON value
keeps its kind and its spelling (an integer text, a text with a fraction, a string
that parses as JSON); fetched cells keep their Go types. The reference takes the
comments at their word: whatever a read returned can be written back, and a JSON
field takes any JSON value. Where the code turns such a value away, `TurnedAway` and
`KeyCounted` name it, and `RefusedExactly` says that it does so every time. `WriteLiteral` and
`DecodeWriteValue` lower them, `writeValue`, `ToInt64` and `ToFloat64` convert them,
and `Compact` builds a nullable column with its validity mask. A row is a Go map:
its cells are checked in any order. Numbers are counted in quarters, and integer
and float formats are scaled down so that every edge (the bounds of an integer
type, the last float that tells integers apart, overflow to infinity, float32
inside float64) is a few units away from zero. The formats are constants and no
number is bounded: `Two` is a recursive function and `Ulp` finds the binade of any
number, so the theorems hold for mantissas and exponents of any width. What is
left out of IEEE 754 is fractions finer than a quarter, subnormals among them.

### ReadPath

One search against a table that others change (`Put`) and release (`Release`).
`attempt` is where `queryOpt` stands in try, load, retry. `Page`, `Scan`, `Count`
and `Ann` are the four call shapes; `Scan` is one batch of the cursor. Sorting
(`CompareClause`, `SliceStable`) and `Window` are part of the action that ends the
scan. A plan the store has no execution for (a vector with sort terms, a sort on a
field without an order, an expression without a text) ends in an internal error, as
it does in both fronts. `NothingSkipped` is about the searches that scan. A page is
any sequence that satisfies `IsFirst`: the first n matches in key order, which is
what the cursor relies on.

### EsQuery, PgWhere, PgSelect, MilvusExpr

A query, a condition or an expression is a tree of records. The trees of at most
`Depth` (for expressions `Nesting`) levels are a set, built level by level, and
`Parse`, `Fold` and `BuildExpr` (`BuildWhere`) are recursive functions on it, named
after the code's functions. Both constants are arbitrary; the assumptions only ask
that `Nesting` leaves room for the levels that lowering adds (`negated` puts up to
two around a leaf, a bool one around its groups). `Rendered` is the tree that
the rendered text stands for: `not (x is not null)` becomes `x is null`, a join of
one its member, a join of none or a negation of nothing an unparsable text. `Eval`
is Milvus's three-valued evaluation. The reference is `Matches` for ES (a clause
matched or it did not) and `Sql` for PG (Kleene).

`EsQuery` takes the whole body: from, size and k as integers up to `MaxInt` held
against `Window`, sort keys, `_source` patterns and the knn clause, whose filter
skips `fold`. `must` and `filter` are one group (the code treats them alike). Text
analysis is a set of tokens. A value that `coerceValue` refuses is `Bad`.

`PgSelect` takes the whole statement: select list, alias and qualifiers, WHERE,
ORDER BY with its distance operators, LIMIT and OFFSET. It then executes the plan
on a table nobody changes (`Executed`; `ReadPath` is about those that do) and holds
the rows against what the statement means in SQL. A vector cell holds its score
under each metric, since that is all a search and a distance operator see of it.
Each vector field has an index with one metric (`IndexMetric`): a search by another
is refused by the server or comes back empty (`Arrivals`), as the comment at
`milvus.go:252` and `docs/design.md` say of it.

### CatalogEval, CatalogQuery

A statement is a tree of nodes. `ParseSelect` is what the engine's parser makes of
it, `Prepare` describes the columns, and an execution joins, filters, projects,
makes distinct, sorts and windows, one action per stage of `runQuery`; a scalar
subquery runs the same stages inside an expression. A cell has a kind (NULL,
number, text, boolean, array); `compareValues`, `equalValues` and the casts act on
kinds and, where the code goes through decimal text, on texts in byte order. An
error and a panic are values that travel up. The reference, `Meaning` and
`Tuples`, is SQL on the tree as the client wrote it. The engine takes shortcuts
with NULL; `Clear` says, row by row, where they cannot show, and the properties
hold there. DISTINCT compares what `fmt.Sprint` makes of a row, one flat text
(`Printed`).

### CatalogSnapshot, PgSession

`CatalogSnapshot` has one action per store call of an execution (`List`,
`Describe`) and the DDL of other clients (`Create`, `Drop`). A list comes in any
order; the OID of a collection is its position in it. `PgSession` adds the session:
`Receive` a string, parse every statement of it (a read is planned against the
schema of that moment), then run them one store call at a time. `Fail` ends the
string where it stands; `Reexecute` is the extended protocol running a prepared
statement again. What a write does to rows is `WritePath`'s subject; here only
whether it reached the store counts. An UPDATE whose scan finds no row, or whose
WHERE folds to false, completes without validating or sending anything (`vacant`).
A column of a collection is a number, a text, or something else (JSON, a vector)
that cannot be sorted on; that ORDER BY names such a column comes out only when
the statement runs. A catalog query may hold an expression that raises on every row
it meets (a division by zero, an ambiguous column, a recovered panic): it fails
if its tables have rows.

### ClientPool and Gateway

`ClientFor` takes the mutex and either returns the pooled client or starts a dial
with the mutex held; `DialDone` and `DialFails` release it. `Gateway` adds main,
the PG front, the goroutine around `httpSrv.Shutdown` and the signal. `ProcessEnds`
cuts off whatever is in flight. A signal is handled between `NotifyContext` and
`stop()`; before and after, it kills the process. net/http and psql-wire are
external: `Shutdown` closes the listener at once and waits for what is in flight or
for its deadline; `ListenAndServe` returns as soon as `Shutdown` is called.

## 3. Runs

| Run | States | Shows |
|---|---|---|
| `write_path` | 38 thousand | two concurrent requests of 23 kinds, over a string, a numeric and an auto-generated key |
| `strict_write` | 109 thousand | every spelling of a value against every type, batches with absent and null cells, UPDATEs over fetched rows |
| `read_path` | 362 thousand | 15 plans over 3 tables of four keys, with any number of writes, releases and failures at any point |
| `es_query` | 99 thousand | every leaf, two-clause bools of leaves, nested and doubly negated bools on 24 rows; every combination of from, size, k and `_source` |
| `pg_select` | 35 thousand | every predicate, pairs, negations and their combinations to four levels on 24 rows; every ORDER BY, page and select list on a table of 4, with an index for each of the three metrics |
| `catalog_query` | 24 thousand | queries of the shapes psql and pgjdbc send: joins, subqueries, ANY, CASE, casts, ORDER BY, DISTINCT, LIMIT over three tables |
| `pg_session` | 364 thousand | strings of up to three statements, with DDL and failures at any point; updates of no rows, conditions that fold to false, sorts without an order, catalog expressions that raise |
| `gateway` | 113 thousand | four connections (two to one database, one to another, one to the default), one ES request |
| `create_race` | violation | two creates of a free id both answer 201 |
| `narrow_update` | violation | an update of a row with an int8 cell is refused |
| `knn_filter` | violation | the filter of a knn clause is lowered unfolded |
| `es_drain` | violation | a signal cuts off ES requests inside their ten seconds |

The violations are disagreements between the code and its own comments; each is
quoted under `findings`. The passing properties state what does hold next to
them: duplicates come *only* from the two races, totals are bracketed *except* for
the two shortcuts named in `Misleading`, WHERE is exact *unless* a NULL literal is
negated, PG statements *are* drained. Section 5 lists the exceptions, those that
contradict a comment or a document with its line.

Properties, by run:

- `write_path`: `DuplicatesOnlyFromRaces`, `AnswerTellsEffect`,
  `NoopMeansUnchanged`, `WritesOnlyAddressed`, `UpdateReachesMatches` (an UPDATE
  below `updateScanLimit` leaves no match out), `UndisturbedMerge`,
  `EveryRequestAnswered`, and `ImplementsDocStore`, the refinement.
- `strict_write`: `ColumnsCarryRows` (what the columns read back as, row by row),
  `RefusedExactly` (a write is sent if and only if every cell has a storage form,
  the named disagreements aside).
- `read_path`: `FetchedOnce`, `NothingSkipped`, `TotalBracketed`, `RightPage`,
  `ErrorNeedsFault` (an internal error needs a failed call, a release or a plan
  without an execution), `EverySearchAnswered`.
- `es_query`: `TranslationFaithful`, `RefusedForCause`, `PlanRenders`,
  `SourceFaithful`.
- `pg_select`: `WhereFaithful`, `PlanRenders`, `AnswerFaithful`.
- `catalog_query`: `RowsFaithful`, `PageFaithful`, `DescribedAsDelivered`.
- `pg_session`: `CatalogCoherent`, `AppliedPrefix`, `FailsForCause`,
  `StringAnswered`.
- `gateway`: `OneClientPerDatabase`, `ExitStatusTruthful`, `PgDrainHonoured`,
  `ProcessStops`, `PoolServes`.

`write_path`, `read_path`, `pg_session` and `gateway` also check `TypeOK`.

### Bounds

- Two requests: every race in the write path is between one handler's read and
  another's write, and the theorems cover any number. Five keys: two held, one
  free, two to be generated. One nullable and one required field, two values.
  `ScanLimit` is 2 while two rows match, so that the limit is reached.
- Batches of two rows over four keys: a scan takes one to three calls, with full
  last batches among them. What others do is not bounded: they write any of the keys
  and release the collection as often as they like, and any call may fail. Four keys
  do bound the scan, so that `EverySearchAnswered` says that each batch moves the
  cursor, not that a client cannot insert ever higher keys faster than the batches
  come; `scanAll` would follow such a client for as long as it goes on.
- The values 2, 9 and 10 are the smallest whose decimal texts order differently.
- Query depth: `fold` and `negated` act on one level and its children, so three
  levels show each identity below and above every other.
- `Depth` is 4 for ES queries (those of the bodies have a level less, for the bool
  that `parseKnn` puts around a filter) and 5 for conditions; `Nesting` is the least
  the assumptions allow.
- `MaxInt` is 15 and `Window` 4: a count may be 0, fill the window exactly, exceed it
  by one, or be the largest int, whose sum with another wraps. `DefaultSize` is 2.
- `Mantissa` 3 and `Exponent` 5 for float64, 2 and 4 for float32, integers of a few
  bits: the smallest formats in which float64 cannot hold every int64, float32 not
  every float64, and an int8 less than an int16.
- `MaxGen` is 3: a collection is created, dropped and created again with another
  type, or two collections live side by side and one is replaced. Two names, one of
  them that of a virtual table. Three statements: one before and one after the one
  that fails.
- The catalog tables have a class without attributes, an empty table, equal names
  and OIDs whose decimal texts sort against their values.
- In `write_path` two values and two keys have the same float64 (`Round`,
  `RoundKey`), so that a comparison that does not tell them apart happens; how a
  number past what a float64 holds is converted is in `strict_write`.

### Fairness

- `WritePath`, `ReadPath`: weak fairness of a handler's own steps (in `ReadPath` it
  is spelled out: a search is answered, or takes steps, again and again). A started
  handler is a runnable goroutine, and each store call returns, with an answer or
  with an error. Nothing is assumed of arrivals, of other clients or of failures.
- `PgSession`: weak fairness of parsing and of running, for the same reason.
  Failures and DDL are not fair: `StringAnswered` holds although collections may
  keep changing and although no failure comes to a session's help.
- `Gateway`: weak fairness of main, of the two fronts and of the two deadlines
  (timers fire), strong fairness of taking the mutex (`sync.Mutex` hands over to a
  waiter that starves). Nothing is assumed of Milvus: a dial or a statement may
  hang for good, and `ProcessStops` holds all the same. `PoolServes` takes "no
  dial lasts forever" as its own hypothesis: without it the property is false,
  since the mutex is held across a dial with no deadline.

## 4. Proofs

Every theorem holds for all values of the constants that satisfy the named
assumption of its module. The inductive invariants, part by part, were also
checked with TLC on the instances.

`WritePathProofs` (any set of requests, keys, fields, values and schemas that
satisfies `ConstantsAssumption`):

- `TypeCorrect`: `Spec => []TypeOK`.
- `RacesOnly`: `Spec => []DuplicatesOnlyFromRaces`. Not inductive by itself: a
  handler about to insert must know that its key is free unless somebody wrote it
  since (`LookupHolds`), and an Upsert must not name a key twice
  (`UpsertNamesKeysOnce`). `IInv` adds both and `HandlerShape`, which says what is
  set in which phase. The arithmetic of the bags is in lemmas of its own: a row
  inserted under a free key is single, an upserted key holds what the batch names.
- `AnswersTruthful`: `Spec => []AnswerTellsEffect`, from the same invariant.

Its second part is about what a write does to the rows. `IInv` does not say what is in
the batch that waits for its store call, so a second invariant, `PlanInv`, does:
the batch is what the request makes of the key and of the rows it fetched, and
those rows still stand where nobody wrote since.

- `NoopsTruthful`: `Spec => []NoopMeansUnchanged`.
- `OnlyAddressedWritten`: `Spec => WritesOnlyAddressed`.
- `UpdatesReachMatches`: `Spec => UpdateReachesMatches`. A page shorter than its limit
  holds every key that matches (`Pages`), and the batch holds the SET of each.
- `MergesKeepCells`: `Spec => UndisturbedMerge`.
- `HandlersImplementDocStore`: `Spec => ImplementsDocStore`.

For the last one, the initial states map to initial states; a start maps to
`Arrive`, a read that keeps rows to `Look`, a write that takes effect to `Commit`,
whether its answer arrives or not, a refusal or a failed call to `Decline`, and a lookup that lets its
request go on to a stutter. It needs `IInv` for the statuses and `PlanInv` for the rows
that are committed.

`StrictWriteProofs` (any schemas, requests and formats that satisfy
`FormatsAssumption`, `SchemasAssumption` and `RequestsAssumption`). Its first part
is about single values. Induction over a number is done by hand, through the least
counterexample (`Least`), so that the recursive functions `Two` and the loop of
`Compact` can be reasoned about. From powers of two follow the binade of a number,
that rounding is exact up to half a unit and leaves floats alone, and that the tops
of the formats are floats; from there, for each type, that `WriteValue` of what
lowering made of a value succeeds if and only if the reference says the value has a
storage form (`HasForm`) that the code does not turn away (`TurnedAway`; `Keeps` is the
two together), and that the cell it makes `Means` that value.
`CompactKeeps` says where the cell of a row is among the compact values: at the
number of cells up to it.

The second part has two invariants. `SInv` relates the tables that `validateWriteCells`
fills to the rows, for every set of cells looked at so far; the point is that no two
columns of a row go to the same field, so no cell overwrites another and the order
cannot show. `Provenance` says where the rows come from: the targets are the
request's columns without their qualifiers, and once the values are lowered every
row is what the groups, or the groups over the fetched rows, make.

- `VerdictByContent`: `Spec => []DecidedByContent`. A write passes if and only if
  nothing in it is at fault, where a fault is stated without tables and order.
- `ColumnsHoldRows`: `Spec => []ColumnsFromRows`. The columns compact the cells the
  rows hold, and the mask marks the rows that hold one.
- `WritesJudgedExactly`: `Spec => []RefusedExactly`. The first of these, joined with
  `Provenance`: a request without fault in its rows is `Sendable` (`Acceptable`, with
  nothing the code turns away: `SendableAcceptable`), one that the parsers or the
  lowering refuse is not, and one that gives an automatic key a value never is
  (`KeyTurnedAway`).
- `RowsSurvive`: `Spec => []ColumnsCarryRows`. The second, joined with `Provenance`,
  `CompactKeeps` and the lemmas about values.

`ReadPathProofs` (any tables, plans and batch size, `ReadAssumption`). Its first part holds the lemmas about
the operators: `CompareClause` and `CompareRows` are a total preorder, `Before` a
linear order of the positions, hence `Place` a bijection and `SliceStable` a
permutation whose n-th row has n - 1 rows before it; the n-th row of a page in key
order has n - 1 matches below it. From there `SortIsRight` and `PageIsRight` count
the matches that the reference order `Precedes` puts before a hit. The second part
has the invariant `RInv`: which call belongs to which shape (`Shaped`), that a fetched
row nobody wrote since still stands (`Current`) and that its key matched at some
moment (`Marked`), that a page waiting for its count is right (`Counted`) and that a
retry finds the collection loaded unless it was released (`Retried`).

- `SearchTyped`: `Spec => []TypeOK`.
- `ScanFetchesOnce`, `ScanSkipsNothing`: `Spec => []FetchedOnce`,
  `Spec => []NothingSkipped`. A batch continues the rows in key order, and a stable
  match is either in it or past the new cursor.
- `TotalsBracketed`: `Spec => []TotalBracketed`, by counting keys.
- `PagesRight`: `Spec => []RightPage`.
- `ErrorsHaveFaults`: `Spec => []ErrorNeedsFault`. Its converse half, that a plan
  without an execution is never answered, follows a search from `Start` to its call.

`PgSessionProofs` (any strings, names and generations, `SessionAssumption`).
`SnapInv` is about the catalog under construction: the recorded list was the
catalog at a moment since the execution began, and what is described so far was
there. `IInv` adds the session: the statement at hand follows the completed ones
(`SessionShape`), plans are fresh while nobody touches the collections
(`PlansFresh`), a list is made for the table that is built next (`RunShape`).

- `SessionTyped`: `Spec => []TypeOK`.
- `WritesFollowAnswers`: `Spec => []AppliedPrefix`.
- `FailuresHaveCauses`: `Spec => []FailsForCause`.
- `TablesCoherent`: `Spec => []CatalogCoherent`.

`GatewayProofs` (any set of connections, databases and ES requests):

- `OneClient`: `Spec => []OneClientPerDatabase`. `PoolShape` says who dials: the
  holder of the mutex, and a database without a client.
- `StatusTruthful`: `Spec => []ExitStatusTruthful`. `LifeShape` follows the way
  from the signal to the context, to `Shutdown`, to `ErrServerClosed`.
- `DrainHonoured`: `Spec => []PgDrainHonoured`. `DrainShape`: from the moment
  `pgErr` carries nil no statement is in flight, and none can begin.
- `GatewayTyped`: `Spec => []TypeOK`.

`ExprProofs`, `PgSelectProofs` and `EsQueryProofs` are about the two translations, for
trees of every depth, groups of every length, and any rows, fields and values
(`NestingAssumption`, `WhereAssumption`, `SelectAssumption`, `TableAssumption`,
`PagingAssumption`, `QueryAssumption`, `BodiesAssumption`). They are inductions over
trees, done by hand.
The set of levels up to which a claim holds is a set of numbers, and `Climb` (through
the least counterexample) says that it holds all of them. The first claim is always
that the recursive function exists: what satisfies the equation on the trees of n
levels extends to those of n + 1. Only then may its equation be used, kind by kind.

`ExprProofs` does this for expressions: `Rendered`, `Eval`, `Without`. An expression
is `Solid` if it holds no empty join and no nil below the root; a solid expression has
a text, and the text selects what the tree does.

`PgSelectProofs`: the claim that can be carried from the parts of a condition to the
whole is `Follows`. After parse, stripping, fold and build the condition is a constant
or a solid expression, its verdict is SQL's if it holds no NULL literal, and is
"true" for the same rows if no NULL literal is negated. The second half alone is not
inductive (under NOT it needs to know false from null), which is why the first is
there. `PlanInv` ties the stages of a statement to those functions.

- `WherePassesSqlRows`: `Spec => []WhereFaithful`.
- `WhereHasText`: `Spec => []PlanRenders`.
- `AnswersAreFaithful`: `Spec => []AnswerFaithful`. Every term of ORDER BY is an order
  in which rows may be on a par (`Weak`), and so are the terms taken one after the
  other (`LexicographicWeak`). With ties by key it is a line, in which the k-th row
  has k - 1 before it (`InOrderRows`). `LowerInv` ties the plan to the statement;
  under it the sort clauses, or the metric of the search, tell the same rows apart
  as SQL does (`ClauseIsTerm`, `NearIsTerm`), so the page holds the passing rows of
  its places. A search by another metric than the index's never gets there. `TableAssumption` says what the cells of a field may hold.

`EsQueryProofs`: `negated` is right only on what `buildExpr` makes, as it keeps the
null cells of a leaf by what the leaf is. `Proper` is the least set closed under what
`buildExpr` and `negated` build (`Closed`); on it `Turns` says that the negation passes
exactly the rows the expression does not, null cells included. The claim carried
through the tree is `Carried`: fold fails on a query only if it asks for several
should clauses, folds it to a constant only if it matches every row or none, and
otherwise leaves a query whose expression, unless a value does not fit its field,
passes the rows the query matches. That the expression is proper and has at most
three levels for each of the query's is a lemma about any query (`BuildTyped`). A group is then a sequence of carried clauses, of which fold drops the
constants, and the should group is counted against minimum_should_match. `EsInv` ties
the stages of a search to these functions and to its body.

- `TranslationIsFaithful`: `Spec => []TranslationFaithful`.
- `RefusalsHaveCause`: `Spec => []RefusedForCause`.
- `PlansRender`: `Spec => []PlanRenders`. The filter of a knn clause skips fold, so
  this part follows an unfolded query too.
- `SourceIsFaithful`: `Spec => []SourceFaithful`.

What the proofs taught about the model: a plan that matches nothing is answered
without a scan, so `NothingSkipped` has to leave it out; the rounding of `numberEqual`
also blurs the key inside an `_update` document, so `KeyBlurred` names it; the
types of a session need every write to name a collection of `Names`, which is now
part of `SessionAssumption`. For `RefusedExactly`, the entries of a JSON
vector are rounded twice (to float64, then to float32), so the reference has to do
the same, as one rounding may stay below the top of float32 where two do not; and the
vector texts of an UPDATE's SET are read before it is known whether any row takes
them, or whether a later assignment to the same field replaces them. For
`TranslationFaithful`, a row may hold a null cell only where the schema says the
field is nullable: `negated` asks the schema, never the row. And a range has a bound
and a match on a field without analyzer a token, which the parser sees to: without
that, a range would be an empty join, and its text garbled.

Only model-checked:

- liveness (`EveryRequestAnswered`, `EverySearchAnswered`, `StringAnswered`,
  `ProcessStops`, `PoolServes`), which is out of the prover's reach;
- `RowsFaithful`, `PageFaithful` and `DescribedAsDelivered` of `CatalogQuery`, whose
  evaluator is a family of mutually recursive operators, out of the prover's reach;
- the four violations, which are counterexamples.

## 5. Known exceptions

Where the code departs from SQL, from ES or from its own comments without a run of
its own. A property that would fail there says so in its hypothesis.

- Reads: a page past the end reports its offset as the total (`milvus.go:306`); a
  sort on an int8, int16, int32 or float32 field orders by decimal text
  (`milvus.go:824`). `Misleading` and `ComparedByValue` name them.
- SELECT: `NOT (c = NULL)` and other negated NULL literals pass every row
  (`translate/pg/expr.go:149`); `ORDER BY … DESC` puts missing cells last, SQL puts
  them first; a column that does not exist is answered as NULL; the table's name
  still qualifies columns when there is an alias; a qualifier in a comparison
  with NULL is not looked at; `OFFSET` and `LIMIT` whose sum leaves int64 pass the
  window check, and the slice of a sorted result then panics (recovered); ORDER BY over a vector or JSON column is
  planned and fails when it runs; a distance that is not the index's is an error
  or an empty answer, whichever the server makes of it.
- ES searches: from + size wraps in the same way; the k of a knn clause is never
  held against the window; `*` in `_source` next to other includes, or among
  excludes, is dropped.
- Writes, against the repository's own words: an `_update` whose document names
  another key than the URL writes the row of that key if the two have one float64
  (`KeyBlurred`), where `docs/design.md:444-448` promises a 400 for a disagreement;
  a fetched int8 or int16 cannot be written back, where `store/write.go:252-256` says
  it can (`TurnedAway`, and the run `narrow_update`); a JSON field refuses the scalars
  of a document, and reads its strings as JSON texts of their own, where
  `store/write.go:324` says "JSON fields accept any JSON value" (`TurnedAway`); an
  INSERT without columns into a collection with a generated key never succeeds,
  where `translate/pg/write.go:23-25` takes "every writable field" (`KeyCounted`);
  a numeric text with a fraction goes through float64, so a fraction too fine for it
  rounds away and an int64 column takes what is left, where `store/write.go:393`
  says "free of silent truncation" (`Means` tolerates half a unit).
- Writes, otherwise: `numberEqual` compares int64 cells as float64, so beyond 2^53 an
  `_update` may be answered noop although its value differs (`Blurred`); an integer
  spelled with a point or an exponent is refused from 2^53 on; a JSON string that
  parses is stored as the parsed value; `SET a = …, t.a = …` passes the duplicate
  check and the last one wins; an UPDATE that matches nothing answers `UPDATE 0`
  without validating its SET, other than that its vector texts must be readable; an
  UPDATE that fills `updateScanLimit` rewrites that many rows and reports that number;
  a vector entry of a document is rounded to float64 and then to float32, and may
  miss the nearest float32 by one.
- Catalog engine: `BETWEEN` always fails; comparisons read NULL as a value;
  `IS TRUE` and `IS FALSE` are dropped; `ALL` is taken for `ANY`, and a quantified
  comparison for `=`; `LIMIT $1` is ignored; `DISTINCT` with ORDER BY over an
  expression sorts rows by other rows' keys; `DISTINCT` takes rows for one that print
  as the same flat text, `("a b", "c")` and `("a", "b c")`, or NULL and `<nil>`
  (`eval.go:294`; `RowsFaithful` lets it lose exactly those, `Alike`); `compareValues` is not transitive on
  keys of mixed kinds; RIGHT and FULL joins in a subquery run as inner joins; an ON
  that names a later source panics (recovered); `NULL::text` is the empty text and a
  text cast to bool is false; `like`, `NOT` and `||` are described as numbers; the
  OIDs of constraints and indexes come from the length of a name and collide;
  `tables` and `columns` list the cluster themselves although `eval.go` speaks of
  one snapshot; a collection with the name of a virtual table cannot be selected
  from.

## 6. Not modelled

- The character level: JSON and SQL lexing, decimal and date formats, the layout
  of responses, the text encoding of a cell, logging.
- Type and OID tables, generated settings, the bodies of most catalog functions,
  the development executor, test fixtures.
- The ES HTTP front: its handlers keep no state and call what is modelled.
- Milvus, net/http, psql-wire and the SDK beyond the behaviour named above.

## 7. Plan

1. `WritePath`: the write path, its races and answers. Done, with proofs.
2. `ReadPath`: search under concurrent writes. Done.
3. `MilvusExpr`, `EsQuery`, `PgWhere`: the translations. Done.
4. `ClientPool`, `Gateway`: the process. Done, with proofs.
5. The disagreements with the comments as runs of their own. Done.
6. `PgSession` and `CatalogSnapshot`. Done.
7. Paging of both frontends, in `EsQuery` and `PgSelect`. Done.
8. `StrictWrite`. Done.
9. `CatalogEval`, `CatalogQuery`. Done.
10. `DocStore` and the refinement. Done.
11. Proofs: `PgSession` and `CatalogSnapshot`. Done.
12. Proofs: the action properties of `WritePath` and the refinement of `DocStore`.
    Done.
13. Proofs: `ReadPath`. Done.
14. Proofs: the order of the cells in `StrictWrite`. Done.
15. Proofs: the values of `StrictWrite`, that is `RefusedExactly` and
    `ColumnsCarryRows`. Done.
16. Proofs: filter expressions and the WHERE and paging of a SELECT. Done.
17. Proofs: ES queries through parse, fold and build, their paging and `_source`.
    Done.
18. Proofs: the rows a SELECT answers with (`AnswerFaithful`). Done.
19. Proofs: `CatalogEval` as recursive functions over levels. Left.
