------------------------------ MODULE PgSession ------------------------------
(***************************************************************************)
(* A PostgreSQL session: internal/pgserver server.go, session.go, query.go,*)
(* catalog.go and the statement bodies of write.go, over the catalog       *)
(* snapshot and the collections.                                           *)
(*                                                                         *)
(* A query string holds several statements.  All of them are parsed, the   *)
(* reads against the schema of that moment, before the first one runs; the *)
(* wire library then runs them in order up to the first error and may run  *)
(* a single prepared statement again later.  There is no transaction, and  *)
(* other clients create and drop collections all along.                    *)
(***************************************************************************)
EXTENDS CatalogSnapshot

CONSTANTS
  TypeOf,    \* generation -> the type of the column statements use
  Strings    \* the query strings: sequences of statements

\* "other": a JSON or vector column, or none of that name.
Types == {"number", "text", "other"}

\* name: the table; tables: the virtual tables of a catalog query in FROM
\* order; params: bound parameters; bad: refused whatever the store holds
\* (syntax, SHOW of an unknown setting, a function that is not whitelisted);
\* filters: the column types the WHERE clause suits; never: it folds to false;
\* orders: ORDER BY the column; fits: the column types the written literals
\* suit; raises: an expression of a catalog query fails on every row it meets
\* (a division by zero, an ambiguous column, a recovered panic).
Statement ==
  [kind: {"session", "catalog", "select", "insert", "update"}, name: Names \cup Virtual,
   tables: Seq(Virtual), params: BOOLEAN, bad: BOOLEAN, filters: SUBSET Types, never: BOOLEAN,
   orders: BOOLEAN, fits: SUBSET Types, raises: BOOLEAN]

ASSUME SessionAssumption ==
  /\ TypeOf \in [Gens -> Types]
  /\ Strings \subseteq Seq(Statement)
  /\ \A s \in Strings : s # <<>>
  /\ \A s \in Strings : \A i \in DOMAIN s : s[i].kind \in {"insert", "update"} => s[i].name \in Names

VARIABLES
  phase,     \* of the session
  string,    \* the statements of the string being served
  part,      \* the statement being parsed or run
  plans,     \* the prepared statements, in order
  step,      \* how far the running statement's body is
  applied,   \* history: the statements whose write reached the store
  vacant,    \* the updates whose scan found no row
  answered,  \* how many statements of this run completed
  faulted,   \* history: a store call of this string failed
  touched    \* history: the collections created or dropped since it arrived

sessionVars == <<phase, string, part, plans, step, applied, vacant, answered, faulted>>
vars == <<snapshotVars, sessionVars, touched>>

Routes == {"ack", "catalog", "read", "insert", "update"}
Plan == [route: Routes, tables: Seq(Virtual), gen: 0..MaxGen]
Steps == {"start", "scan", "send"}
Resting == {"idle", "done", "failed", "refused"}

TypeOK ==
  /\ SnapshotTypeOK
  /\ phase \in Resting \cup {"parse", "run"}
  /\ string \in Strings \cup {<<>>}
  /\ part \in Nat /\ answered \in Nat
  /\ plans \in Seq(Plan)
  /\ step \in Steps
  /\ applied \subseteq Nat /\ vacant \subseteq Nat
  /\ faulted \in BOOLEAN
  /\ touched \subseteq Names
  /\ phase = "parse" => part = Len(plans) + 1 /\ Len(plans) < Len(string)
  /\ phase = "run" => part \in 1..Len(string) /\ Len(plans) = Len(string)

Init ==
  /\ SnapshotInit
  /\ phase = "idle" /\ string = <<>> /\ part = 0 /\ plans = <<>>
  /\ step = "start" /\ applied = {} /\ vacant = {} /\ answered = 0
  /\ faulted = FALSE /\ touched = {}

(***************************************************************************)
(* Parsing: parse and parseOne.                                            *)
(***************************************************************************)
Receive(s) ==
  /\ phase \in Resting
  /\ phase' = "parse" /\ string' = s /\ part' = 1 /\ plans' = <<>>
  /\ step' = "start" /\ applied' = {} /\ vacant' = {} /\ answered' = 0
  /\ faulted' = FALSE /\ touched' = {}
  /\ UNCHANGED snapshotVars

\* parseOne tries session words, then the catalog engine, then writes, then
\* reads.  A select from a virtual table's name is a catalog query, also when
\* a collection bears that name.
RouteOf(st) ==
  CASE st.kind = "session" -> "ack"
    [] st.kind = "catalog" \/ (st.kind = "select" /\ st.name \in Virtual) -> "catalog"
    [] st.kind = "insert" -> "insert"
    [] st.kind = "update" -> "update"
    [] OTHER -> "read"

TablesOf(st) == IF st.kind = "catalog" THEN st.tables ELSE IF st.kind = "select" THEN <<st.name>> ELSE <<>>

\* The first error refuses the whole string.
RefuseString ==
  /\ phase' = "refused"
  /\ UNCHANGED <<string, part, plans, step, applied, vacant, answered, touched, snapshotVars>>

\* (mutant) The plan is appended but the same statement is parsed again.
PlanPartAgain(route, tables, gen) ==
  /\ plans' = Append(plans, [route |-> route, tables |-> tables, gen |-> gen])
  /\ IF part = Len(string) THEN phase' = "run" /\ Fresh ELSE UNCHANGED <<phase, snapshotVars>>
  /\ UNCHANGED <<string, part, step, applied, vacant, answered, faulted, touched>>

\* The next statement of the string has a plan; after the last one they run.
PlanPart(route, tables, gen) ==
  /\ plans' = Append(plans, [route |-> route, tables |-> tables, gen |-> gen])
  /\ IF part = Len(string)
     THEN phase' = "run" /\ part' = 1 /\ Fresh
     ELSE part' = part + 1 /\ UNCHANGED <<phase, snapshotVars>>
  /\ UNCHANGED <<string, step, applied, vacant, answered, faulted, touched>>

Parsing(routes) == phase = "parse" /\ RouteOf(string[part]) \in routes

ParseRejected ==
  /\ phase = "parse" /\ string[part].bad
  /\ UNCHANGED faulted
  /\ RefuseString

\* Acknowledgements and catalog queries are prepared without the store.
ParseLocal ==
  /\ Parsing({"ack", "catalog"}) /\ ~string[part].bad
  /\ PlanPart(RouteOf(string[part]), TablesOf(string[part]), 0)

\* INSERT and UPDATE only resolve the database view.
ParseWrite ==
  /\ Parsing({"insert", "update"}) /\ ~string[part].bad
  /\ PlanPart(RouteOf(string[part]), <<>>, 0)

\* The collection exists and its column suits the WHERE clause, or takes what
\* is written.
Suits(n) == colls[n] # 0 /\ (string[part].never \/ TypeOf[colls[n]] \in string[part].filters)
Takes(n) == colls[n] # 0 /\ TypeOf[colls[n]] \in string[part].fits

\* (mutant) The collection need not exist.
ParseReadUnchecked ==
  /\ Parsing({"read"}) /\ ~string[part].bad
  /\ PlanPart("read", <<>>, colls[string[part].name])

\* A read is planned, and its columns described, against the schema of now.
\* That the column can be sorted on is not looked at.
ParseRead ==
  /\ Parsing({"read"}) /\ ~string[part].bad
  /\ Suits(string[part].name)
  /\ PlanPart("read", <<>>, colls[string[part].name])

\* No such relation, or a plan the schema does not allow.
ParseReadRefused ==
  /\ Parsing({"read"}) /\ ~string[part].bad
  /\ ~Suits(string[part].name)
  /\ UNCHANGED faulted
  /\ RefuseString

\* The database view or the schema lookup fails.
ParseFault ==
  /\ Parsing({"insert", "update", "read"}) /\ ~string[part].bad
  /\ faulted' = TRUE
  /\ RefuseString

(***************************************************************************)
(* Running.                                                                *)
(***************************************************************************)
\* The running statement completed; the next one starts with a snapshot of its own.
Complete ==
  /\ answered' = answered + 1
  /\ step' = "start"
  /\ IF part = Len(string) THEN phase' = "done" /\ part' = part ELSE phase' = phase /\ part' = part + 1
  /\ Fresh
  /\ UNCHANGED <<string, plans, vacant, faulted>>

\* (mutant) The statements after a failed one run all the same.
FailContinues ==
  /\ IF part = Len(string) THEN phase' = "failed" /\ part' = part ELSE phase' = phase /\ part' = part + 1
  /\ step' = "start"
  /\ UNCHANGED <<string, plans, vacant, answered>>

\* The running statement failed: the rest of the string is not run, and
\* nothing is undone.
Fail ==
  /\ phase' = "failed"
  /\ step' = "start"
  /\ UNCHANGED <<string, part, plans, vacant, answered>>

Running(route) == phase = "run" /\ plans[part].route = route

RunAck ==
  /\ Running("ack")
  /\ Complete
  /\ UNCHANGED <<applied, touched>>

\* The table bindSources or a special case builds next.
Unbuilt == {i \in DOMAIN plans[part].tables : plans[part].tables[i] \notin built}
Current == plans[part].tables[CHOOSE i \in Unbuilt : \A j \in Unbuilt : i <= j]

CatalogStep ==
  /\ Running("catalog") /\ Unbuilt # {}
  /\ \/ \E order \in Orders(Present) : List(Current, order)
     \/ Describe
     \/ Shape(Current)
     \/ Reuse(Current)
  /\ UNCHANGED <<sessionVars, touched>>

\* The join has rows for the expressions to be evaluated on.
HasRows ==
  \A i \in DOMAIN plans[part].tables :
    plans[part].tables[i] \in Static \/ body[plans[part].tables[i]] # {}

CatalogDone ==
  /\ Running("catalog") /\ Unbuilt = {}
  /\ string[part].raises => ~HasRows
  /\ Complete
  /\ UNCHANGED <<applied, touched>>

\* The tables are there and an expression fails on their rows.
CatalogRaises ==
  /\ Running("catalog") /\ Unbuilt = {}
  /\ string[part].raises /\ HasRows
  /\ Fail
  /\ UNCHANGED <<applied, faulted, touched, snapshotVars>>

\* (mutant) The execution waits for a vanished collection to come back.
CatalogVanishedWaits ==
  /\ Running("catalog") /\ Vanished /\ Present = Names
  /\ Fail
  /\ UNCHANGED <<applied, faulted, touched, snapshotVars>>

\* A listed collection is gone when it is described, or a call fails.
CatalogVanished ==
  /\ Running("catalog") /\ Vanished
  /\ Fail
  /\ UNCHANGED <<applied, faulted, touched, snapshotVars>>

CatalogFault ==
  /\ Running("catalog") /\ Unbuilt # {} /\ (listing \/ NeedsList(Current))
  /\ Fail
  /\ faulted' = TRUE
  /\ UNCHANGED <<applied, touched, snapshotVars>>

\* A parameter bound to a collection statement is refused before any call.
ParamsRefused ==
  /\ phase = "run" /\ plans[part].route \in {"read", "insert", "update"}
  /\ string[part].params
  /\ Fail
  /\ UNCHANGED <<applied, faulted, touched, snapshotVars>>

\* Search with the plan of parse time.  The column cannot be sorted on; a cell
\* of a described number that is now something else does not encode.
Unsortable(n) == string[part].orders /\ colls[n] # 0 /\ TypeOf[colls[n]] = "other"
Encodes(described, g) == g # 0 /\ (TypeOf[described] # "number" \/ TypeOf[g] = "number")

\* A condition that folds to false is answered without the store.
ReadAnswers ==
  /\ Running("read") /\ ~string[part].params
  /\ string[part].never \/ (colls[string[part].name] # 0 /\ ~Unsortable(string[part].name))
  /\ Complete
  /\ UNCHANGED <<applied, touched>>

ReadFails ==
  /\ Running("read") /\ ~string[part].params /\ ~string[part].never
  /\ Unsortable(string[part].name) \/ ~Encodes(plans[part].gen, colls[string[part].name])
  /\ Fail
  /\ UNCHANGED <<applied, faulted, touched, snapshotVars>>

\* The write bodies: the schema first, the rows to rewrite for an UPDATE,
\* then one batch, validated again by the store before it is sent.
Writing == phase = "run" /\ plans[part].route \in {"insert", "update"} /\ ~string[part].params

WriteSchema ==
  /\ Writing /\ step = "start"
  /\ colls[string[part].name] # 0
  /\ \/ plans[part].route = "insert" /\ step' = "send"
     \/ plans[part].route = "update" /\ Suits(string[part].name) /\ step' = "scan"
  /\ UNCHANGED <<phase, string, part, plans, applied, vacant, answered, faulted, touched, snapshotVars>>

UpdateScan ==
  /\ Writing /\ step = "scan"
  /\ \/ vacant' = vacant \cup {part} /\ (string[part].never \/ colls[string[part].name] # 0)
     \/ UNCHANGED vacant /\ ~string[part].never /\ colls[string[part].name] # 0
  /\ step' = "send"
  /\ UNCHANGED <<phase, string, part, plans, applied, answered, faulted, touched, snapshotVars>>

\* No row to write is written at once: nothing is validated and nothing sent.
WriteSend ==
  /\ Writing /\ step = "send"
  /\ \/ part \in vacant /\ UNCHANGED applied
     \/ part \notin vacant /\ Takes(string[part].name) /\ applied' = applied \cup {part}
  /\ Complete
  /\ UNCHANGED touched

\* No such relation, a condition or literals that do not line up with the
\* columns, or a cell the schema does not take.
WriteRefused ==
  /\ Writing
  /\ \/ step = "start" /\ ~Takes(string[part].name)
     \/ step = "start" /\ plans[part].route = "update" /\ ~Suits(string[part].name)
     \/ step = "scan" /\ colls[string[part].name] = 0 /\ ~string[part].never
     \/ step = "send" /\ part \notin vacant /\ ~Takes(string[part].name)
  /\ Fail
  /\ UNCHANGED <<applied, faulted, touched, snapshotVars>>

\* The body is at a store call.
Calling ==
  /\ phase = "run" /\ ~string[part].params
  /\ \/ plans[part].route = "read" /\ ~string[part].never
     \/ plans[part].route \in {"insert", "update"} /\ step = "start"
     \/ plans[part].route \in {"insert", "update"} /\ step = "scan" /\ ~string[part].never
     \/ plans[part].route \in {"insert", "update"} /\ step = "send" /\ part \notin vacant

\* A store call fails, or Milvus refuses it (a distance the index does not
\* serve, a name it does not know); a write whose answer is lost may have been
\* applied.
StoreFault ==
  /\ Calling
  /\ applied' \in {applied} \cup (IF Writing /\ step = "send" /\ Takes(string[part].name)
                                  THEN {applied \cup {part}} ELSE {})
  /\ Fail
  /\ faulted' = TRUE
  /\ UNCHANGED <<touched, snapshotVars>>

\* The extended protocol executes a prepared statement again.
Reexecute ==
  /\ phase \in {"done", "failed"} /\ Len(string) = 1
  /\ phase' = "run" /\ part' = 1 /\ applied' = {} /\ vacant' = {} /\ answered' = 0 /\ faulted' = FALSE
  /\ Fresh
  /\ UNCHANGED <<string, plans, step, touched>>

(***************************************************************************)
(* The specification.                                                      *)
(***************************************************************************)
Parse == ParseRejected \/ ParseLocal \/ ParseWrite \/ ParseRead \/ ParseReadRefused

Run ==
  \/ RunAck \/ CatalogStep \/ CatalogDone \/ CatalogRaises \/ CatalogVanished \/ ParamsRefused
  \/ ReadAnswers \/ ReadFails \/ WriteSchema \/ UpdateScan \/ WriteSend \/ WriteRefused

Faults == ParseFault \/ CatalogFault \/ StoreFault

DDL ==
  \E n \in Names :
    /\ Create(n) \/ Drop(n)
    /\ touched' = touched \cup {n}
    /\ UNCHANGED sessionVars

Next == (\E s \in Strings : Receive(s)) \/ Parse \/ Run \/ Faults \/ Reexecute \/ DDL

\* A handler goroutine that can go on does, and every store call returns: its
\* answer is taken, and no failure has to come to its help.
Spec == Init /\ [][Next]_vars /\ WF_vars(Parse) /\ WF_vars(Run)

(***************************************************************************)
(* Properties.                                                             *)
(***************************************************************************)
\* Within one execution the virtual tables agree on the OIDs of collections,
\* leave out none that lived unchanged through it, and show none that did not
\* exist ("pg_class.oid must match pg_attribute.attrelid within one answer").
CatalogCoherent == OidsAgree /\ SeenTrue

Writes == {i \in DOMAIN string : string[i].kind \in {"insert", "update"}}

\* A string refused while it is parsed changed nothing; otherwise the writes
\* that reached the store are exactly those of the completed statements that
\* found a row to write, plus at most the one that failed on a store call: never
\* one past the failure, whatever BEGIN and ROLLBACK around them say, and never
\* an UPDATE of no rows.
AppliedPrefix ==
  /\ phase \in {"parse", "refused"} => applied = {}
  /\ phase \in {"run", "done", "failed"} =>
       /\ {i \in Writes : i <= answered} \ vacant \subseteq applied
       /\ applied \subseteq {i \in Writes : i <= answered + 1} \ vacant
       /\ phase # "failed" \/ ~faulted => applied \subseteq 1..answered

\* Once a string is accepted, a statement of it fails only for a cause: a
\* failed store call, DDL since the string arrived, a bound parameter, a sort
\* on a column that cannot be sorted, a write the collection does not take, or
\* a catalog expression that raises.
FailsForCause ==
  phase = "failed" =>
    \/ faulted
    \/ touched # {}
    \/ string[part].params
    \/ string[part].kind = "select" /\ Unsortable(string[part].name)
    \/ string[part].kind = "update" /\ ~Suits(string[part].name)
    \/ string[part].kind \in {"insert", "update"} /\ ~Takes(string[part].name)
    \/ string[part].kind \in {"select", "catalog"} /\ string[part].raises

\* Every string is answered: neither the store's DDL nor a long list of
\* collections keeps a session from completing or refusing it.
StringAnswered == phase \in {"parse", "run"} ~> phase \in Resting
=============================================================================
