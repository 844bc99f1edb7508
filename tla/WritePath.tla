------------------------------ MODULE WritePath ------------------------------
(***************************************************************************)
(* The write path of the gateway over one collection: the ES document API  *)
(* (internal/esserver/write.go), the PG INSERT and UPDATE statements       *)
(* (internal/pgserver/write.go) and the strict write they share            *)
(* (internal/store/write.go).                                              *)
(*                                                                         *)
(* Every request is a handler of its own goroutine.  A handler awaits the  *)
(* store several times (existence check or fetch, then the write), and     *)
(* other handlers run between those awaits: one action per await.  Milvus  *)
(* is external: Insert adds rows without looking at their keys, Upsert     *)
(* replaces every row of the keys it names, and both are atomic.           *)
(***************************************************************************)
EXTENDS Integers, FiniteSets

CONSTANTS
  Req,        \* the requests, one handler each
  Inputs,     \* the requests' contents, see InputType
  Keys,       \* primary key values
  NewIds,     \* those of Keys that generateDocumentID may draw
  Fields,     \* the fields besides the primary key
  Values,     \* cell values
  Round,      \* [Values -> Values]: a number's image as a float64
  RoundKey,   \* [Keys -> Keys]: the same for numeric keys
  Preloaded,  \* [Keys -> Row \cup {NoRow}]: what the collection holds at first
  Schemas,    \* the collection schemas considered
  ScanLimit,  \* updateScanLimit: how many rows one UPDATE fetches
  Null, Absent, Bad, NoKey, BadId, NoRow, NoInput

Cell == Values \cup {Null}
Row == [Fields -> Cell]

\* A row on its way to the store: a field may be left out (Absent), and Bad is
\* a cell of any class validateWriteCells rejects.
Doc == [Fields -> Cell \cup {Absent, Bad}]

Kinds == {"string", "int8", "int16", "int32", "int64",
          "float32", "float64", "bool", "json", "float_vector", "array"}

SchemaType ==
  [autoID: BOOLEAN, stringPk: BOOLEAN, kind: [Fields -> Kinds], nullable: SUBSET Fields]

Ops == {"index", "create", "update", "pginsert", "pgupdate"}

\* url: the id of the URL; pk: the primary key inside the document or SET;
\* where: the rows a WHERE accepts; rows: the VALUES of an INSERT;
\* bad: refused before any store call (parameters, body, decode, arity).
InputType ==
  [op: Ops, bad: BOOLEAN, url: Keys \cup {NoKey, BadId}, pk: Keys \cup {NoKey},
   doc: Doc, where: SUBSET (Keys \X Row), rows: SUBSET ((Keys \cup {NoKey}) \X Doc)]

ASSUME ConstantsAssumption ==
  /\ Inputs \subseteq InputType
  /\ Schemas \subseteq SchemaType
  /\ NewIds \subseteq Keys
  /\ Round \in [Values -> Values]
  /\ RoundKey \in [Keys -> Keys]
  /\ Preloaded \in [Keys -> Row \cup {NoRow}]
  /\ ScanLimit \in Nat
  /\ Null \notin Values
  /\ Absent \notin Values \cup {Null}
  /\ Bad \notin Values \cup {Null, Absent}
  /\ NoKey \notin Keys
  /\ BadId \notin Keys \cup {NoKey}
  /\ NoRow \notin Row
  /\ NoInput \notin Inputs

VARIABLES
  schema,     \* the collection's schema
  rows,       \* [Keys -> [Row -> Nat]]: the store, a bag of rows under each key
  pc,         \* where each handler stands
  in,         \* its request
  key,        \* the id it resolved
  hits,       \* the rows it read
  batch,      \* the rows it will write
  upsert,     \* whether it will Upsert (TRUE) or Insert
  reply,      \* what it answered
  applied,    \* history: its write took effect in the store
  disturbed,  \* history: the keys others wrote since it read
  raced       \* history: keys inserted without a check that still held

store == <<schema, rows>>
handler == <<pc, in, key, hits, batch, upsert, reply>>
history == <<applied, disturbed, raced>>
vars == <<schema, rows, pc, in, key, hits, batch, upsert, reply, applied, disturbed, raced>>

Phases == {"idle", "lookup", "fetch", "scan", "write", "done"}

ClientErrors == {"rejected", "conflict", "missing"}
Successes == {"created", "updated", "noop", "inserted", "scanned"}
Replies == {"none", "error"} \cup ClientErrors \cup Successes

TypeOK ==
  /\ schema \in Schemas
  /\ rows \in [Keys -> [Row -> Nat]]
  /\ pc \in [Req -> Phases]
  /\ in \in [Req -> Inputs \cup {NoInput}]
  /\ key \in [Req -> Keys \cup {NoKey}]
  /\ hits \in [Req -> SUBSET (Keys \X Row)]
  /\ batch \in [Req -> SUBSET ((Keys \cup {NoKey}) \X Doc)]
  /\ upsert \in [Req -> BOOLEAN]
  /\ reply \in [Req -> Replies]
  /\ applied \in [Req -> BOOLEAN]
  /\ disturbed \in [Req -> SUBSET Keys]
  /\ raced \subseteq Keys

(***************************************************************************)
(* The rows of the store.                                                  *)
(***************************************************************************)
Holds(k, v) == rows[k][v] > 0
HasKey(k) == \E v \in Row : Holds(k, v)
HeldKeys == {k \in Keys : HasKey(k)}

\* One row under the key at most, and that row once.
SingleRow(bag) ==
  /\ \A v \in Row : bag[v] <= 1
  /\ \A v, w \in Row : bag[v] > 0 /\ bag[w] > 0 => v = w

(***************************************************************************)
(* Strict validation: validateWriteCells and writeValue.                   *)
(***************************************************************************)
CellAccepted(f, c) ==
  CASE c = Bad -> FALSE
    [] c \in {Null, Absent} -> f \in schema.nullable
    [] OTHER -> schema.kind[f] # "array"

\* An auto-generated key must not be supplied, any other key must be.
RowAccepted(b) ==
  /\ (b[1] = NoKey) <=> schema.autoID
  /\ \A f \in Fields : CellAccepted(f, b[2][f])

ValidateWriteCells(B) == \A b \in B : RowAccepted(b)

\* columnOf: a field the row does not supply is stored as null.
Stored(d) == [f \in Fields |-> IF d[f] \in Values THEN d[f] ELSE Null]

\* A fetched cell in the hands of writeValue: toInt64 knows int64, int and
\* int32 but not the int8 and int16 that those columns read back as.
Refetched(f, c) ==
  IF c # Null /\ schema.kind[f] \in {"int8", "int16"} THEN Bad ELSE c

\* (mutant) The cells the request leaves out are not carried over.
OverlayBlank(old, doc) ==
  [f \in Fields |-> IF doc[f] # Absent THEN doc[f] ELSE Null]

\* The stored row overlaid with the cells the request names.
Overlay(old, doc) ==
  [f \in Fields |-> IF doc[f] # Absent THEN doc[f] ELSE Refetched(f, old[f])]

(***************************************************************************)
(* Equality of cells across the stored and the written encodings.          *)
(***************************************************************************)
\* (mutant) A null on either side compares as equal.
ValuesEqualLoose(f, a, b) == Null \in {a, b} \/ a = b

ValuesEqual(f, a, b) ==
  \/ a = Null /\ b = Null
  \/ /\ a \in Values /\ b \in Values
     /\ schema.kind[f] \in {"string", "bool", "int64", "float64", "float_vector", "json"}
     /\ IF schema.kind[f] = "int64" THEN Round[a] = Round[b] ELSE a = b

KeysEqual(a, b) == IF schema.stringPk THEN a = b ELSE RoundKey[a] = RoundKey[b]

RowsEqual(old, doc) ==
  \A f \in Fields : ValuesEqual(f, old[f], IF doc[f] = Absent THEN old[f] ELSE doc[f])

(***************************************************************************)
(* Handler steps.                                                          *)
(***************************************************************************)
Finish(r, status) ==
  /\ pc' = [pc EXCEPT ![r] = "done"]
  /\ reply' = [reply EXCEPT ![r] = status]

\* A request ends before anything was sent to the store.
Refuse(r, status) ==
  /\ Finish(r, status)
  /\ UNCHANGED <<key, hits, batch, upsert>>

\* generateDocumentID: 15 random bytes, so an id nobody has and no client names
\* (BOUND: as many requests get one as NewIds has elements).
FreshKey(k) == k \in NewIds /\ ~HasKey(k) /\ \A q \in Req : key[q] # k

\* The request's id disagrees with itself or with the schema: a 400.  A numeric
\* key inside the document is compared as the int64 of its float64.
IdRejected(i) ==
  IF schema.autoID THEN i.url # NoKey
  ELSE \/ i.url = NoKey /\ (~schema.stringPk \/ i.pk # NoKey)
       \/ i.url = BadId
       \/ /\ i.url \in Keys /\ i.pk # NoKey
          /\ i.url # (IF schema.stringPk THEN i.pk ELSE RoundKey[i.pk])

\* The id to write under: none for an auto-generated key, the URL's, or a new one.
ResolveDocumentID(i) ==
  IF schema.autoID THEN {NoKey}
  ELSE {k \in Keys : IF i.url = NoKey THEN FreshKey(k) ELSE k = i.url}

\* (mutant) The document's key is not held against the URL id.
UpdateKeyUnchecked(i) == {k \in Keys : k = i.url}

\* parseDocumentID and the check of the document's key against the URL id.
UpdateKey(i) ==
  {k \in Keys : k = i.url /\ (i.pk # NoKey => KeysEqual(k, i.pk))}

\* indexDocument and createDocument up to the existence check: an auto-generated
\* key has none.
StartIndex(r, i) ==
  /\ i.op \in {"index", "create"}
  /\ \/ /\ i.bad \/ IdRejected(i)
        /\ Refuse(r, "rejected")
     \/ /\ ~i.bad /\ ~IdRejected(i)
        /\ \E k \in ResolveDocumentID(i) :
             /\ key' = [key EXCEPT ![r] = k]
             /\ IF schema.autoID
                THEN /\ pc' = [pc EXCEPT ![r] = "write"]
                     /\ batch' = [batch EXCEPT ![r] = {<<i.pk, i.doc>>}]
                ELSE /\ pc' = [pc EXCEPT ![r] = "lookup"]
                     /\ UNCHANGED batch
        /\ UNCHANGED <<hits, upsert, reply>>

\* updateDocument up to the fetch.
StartUpdate(r, i) ==
  /\ i.op = "update"
  /\ \/ /\ i.bad \/ UpdateKey(i) = {}
        /\ Refuse(r, "rejected")
     \/ /\ ~i.bad
        /\ \E k \in UpdateKey(i) : key' = [key EXCEPT ![r] = k]
        /\ pc' = [pc EXCEPT ![r] = "fetch"]
        /\ UNCHANGED <<hits, batch, upsert, reply>>

\* writeInsertStatement up to exec.Insert: schema, then Rows.
StartPgInsert(r, i) ==
  /\ i.op = "pginsert"
  /\ \/ i.bad /\ Refuse(r, "rejected")
     \/ /\ ~i.bad
        /\ pc' = [pc EXCEPT ![r] = "write"]
        /\ batch' = [batch EXCEPT ![r] = i.rows]
        /\ UNCHANGED <<key, hits, upsert, reply>>

\* writeUpdateStatement up to exec.Search: schema, then Lower.
StartPgUpdate(r, i) ==
  /\ i.op = "pgupdate"
  /\ \/ i.bad /\ Refuse(r, "rejected")
     \/ /\ ~i.bad
        /\ pc' = [pc EXCEPT ![r] = "scan"]
        /\ UNCHANGED <<key, hits, batch, upsert, reply>>

\* A request arrives and runs to its first await of rows.
Start(r) ==
  /\ pc[r] = "idle"
  /\ \E i \in Inputs :
       /\ i.url = BadId => ~schema.stringPk
       /\ in' = [in EXCEPT ![r] = i]
       /\ \/ StartIndex(r, i)
          \/ StartUpdate(r, i)
          \/ StartPgInsert(r, i)
          \/ StartPgUpdate(r, i)
  /\ UNCHANGED <<schema, rows, applied, disturbed, raced>>

\* Reading the store opens the window in which others may disturb the key.
ReadNow(r) == disturbed' = [disturbed EXCEPT ![r] = {}]

\* (mutant) The existence check looks, and does not use what it saw.
LookupBlind(r) ==
  /\ pc[r] = "lookup"
  /\ pc' = [pc EXCEPT ![r] = "write"]
  /\ batch' = [batch EXCEPT ![r] = {<<key[r], in[r].doc>>}]
  /\ ReadNow(r)
  /\ UNCHANGED <<schema, rows, in, key, hits, upsert, reply, applied, raced>>

\* documentExists, and the choice between conflict, Insert and Upsert.
Lookup(r) ==
  /\ pc[r] = "lookup"
  /\ ReadNow(r)
  /\ IF HasKey(key[r]) /\ in[r].op = "create"
     THEN Refuse(r, "conflict")
     ELSE /\ pc' = [pc EXCEPT ![r] = "write"]
          /\ upsert' = [upsert EXCEPT ![r] = HasKey(key[r])]
          /\ batch' = [batch EXCEPT ![r] = {<<key[r], in[r].doc>>}]
          /\ UNCHANGED <<key, hits, reply>>
  /\ UNCHANGED <<schema, rows, in, applied, raced>>

\* (mutant) updateDocument has no answer for a missing row.
FetchMissingSilent(r) ==
  /\ pc[r] = "fetch"
  /\ FALSE
  /\ UNCHANGED vars

\* fetchDocument finds no row: a 404.
FetchMissing(r) ==
  /\ pc[r] = "fetch"
  /\ ~HasKey(key[r])
  /\ ReadNow(r)
  /\ Refuse(r, "missing")
  /\ UNCHANGED <<schema, rows, in, applied, raced>>

\* fetchDocument (one row of the key, whichever the store returns first), the
\* merge and the noop check.
Fetch(r) ==
  LET i == in[r]
      newKey == IF i.pk = NoKey THEN key[r] ELSE i.pk
  IN
  /\ pc[r] = "fetch"
  /\ ReadNow(r)
  /\ \E old \in Row :
       /\ Holds(key[r], old)
       /\ hits' = [hits EXCEPT ![r] = {<<key[r], old>>}]
       /\ IF RowsEqual(old, i.doc)
          THEN Finish(r, "noop") /\ UNCHANGED <<batch, upsert>>
          ELSE /\ pc' = [pc EXCEPT ![r] = "write"]
               /\ upsert' = [upsert EXCEPT ![r] = TRUE]
               /\ batch' = [batch EXCEPT ![r] = {<<newKey, Overlay(old, i.doc)>>}]
               /\ UNCHANGED reply
  /\ UNCHANGED <<schema, rows, in, key, applied, raced>>

Matching(i) == {h \in i.where : Holds(h[1], h[2])}

\* (mutant) The search of an UPDATE asks for one row less than the limit.
PagesShort(M) ==
  {H \in SUBSET M : /\ \A h, g \in H : h[1] = g[1] => h = g
                    /\ Cardinality(H) < ScanLimit
                    /\ Cardinality(H) < ScanLimit - 1 => {h[1] : h \in H} = {h[1] : h \in M}}

\* A page of a query without sort: one row for a key, any of the matching keys,
\* and no more of them than the limit.
Pages(M) ==
  LET found == {h[1] : h \in M}
  IN {H \in SUBSET M :
        /\ \A h, g \in H : h[1] = g[1] => h = g
        /\ \/ {h[1] : h \in H} = found /\ Cardinality(found) <= ScanLimit
           \/ Cardinality(H) = ScanLimit}

\* (mutant) One row map is reused for all hits.
ScanShared(r) ==
  LET i == in[r]
      newKey(h) == IF i.pk = NoKey THEN h[1] ELSE i.pk
  IN
  /\ pc[r] = "scan"
  /\ ReadNow(r)
  /\ \E H \in Pages(Matching(i)) :
       /\ hits' = [hits EXCEPT ![r] = H]
       /\ \/ H = {} /\ batch' = [batch EXCEPT ![r] = {}]
          \/ \E last \in H :
               batch' = [batch EXCEPT ![r] = {<<newKey(h), Overlay(last[2], i.doc)>> : h \in H}]
  /\ pc' = [pc EXCEPT ![r] = "write"]
  /\ upsert' = [upsert EXCEPT ![r] = TRUE]
  /\ UNCHANGED <<schema, rows, in, key, reply, applied, raced>>

\* exec.Search of an UPDATE and the SET overlay on every hit.
Scan(r) ==
  LET i == in[r]
      newKey(h) == IF i.pk = NoKey THEN h[1] ELSE i.pk
  IN
  /\ pc[r] = "scan"
  /\ ReadNow(r)
  /\ \E H \in Pages(Matching(i)) :
       /\ hits' = [hits EXCEPT ![r] = H]
       /\ batch' = [batch EXCEPT ![r] = {<<newKey(h), Overlay(h[2], i.doc)>> : h \in H}]
  /\ pc' = [pc EXCEPT ![r] = "write"]
  /\ upsert' = [upsert EXCEPT ![r] = TRUE]
  /\ UNCHANGED <<schema, rows, in, key, reply, applied, raced>>

\* A store call fails before the write: Collection or Schema at the start, or
\* the query (NoMatch sends none).
ReadFails(r) ==
  /\ \/ /\ pc[r] = "idle"
        /\ \E i \in Inputs : in' = [in EXCEPT ![r] = i]
     \/ /\ pc[r] \in {"lookup", "fetch"} \/ (pc[r] = "scan" /\ in[r].where # {})
        /\ UNCHANGED in
  /\ Refuse(r, "error")
  /\ UNCHANGED <<schema, rows, applied, disturbed, raced>>

(***************************************************************************)
(* The write: validate everything, then send once.                         *)
(***************************************************************************)
KeysOf(L) == {b[1] : b \in L}

\* Milvus's Insert: no look at what the keys hold (external).
InsertRows(L) ==
  [k \in Keys |-> [v \in Row |-> rows[k][v] + (IF <<k, v>> \in L THEN 1 ELSE 0)]]

\* Milvus's Upsert: the rows replace whatever their keys hold (external).
UpsertRows(L) ==
  [k \in Keys |-> IF k \in KeysOf(L)
                  THEN [v \in Row |-> IF <<k, v>> \in L THEN 1 ELSE 0]
                  ELSE rows[k]]

\* (mutant) Nobody assigns the auto-generated key.
LandingsUnassigned(B) == {{<<b[1], Stored(b[2])>> : b \in B}}

\* What a batch becomes in the store; an auto-generated key is one nobody has.
Landings(B) ==
  IF schema.autoID
  THEN {{<<g[b], Stored(b[2])>> : b \in B} :
           g \in {h \in [B -> Keys \ HeldKeys] : \A a, b \in B : h[a] = h[b] => a = b}}
  ELSE {{<<b[1], Stored(b[2])>> : b \in B}}

\* Milvus takes no Upsert batch that names a key twice: an UPDATE that SETs the
\* primary key builds one when it matched several rows (external).
KeyTwice(r) == in[r].pk # NoKey /\ \E h, g \in hits[r] : h # g

SuccessOf(r) ==
  CASE in[r].op \in {"index", "create"} -> IF upsert[r] THEN "updated" ELSE "created"
    [] in[r].op = "update" -> "updated"
    [] in[r].op = "pginsert" -> "inserted"
    [] OTHER -> "scanned"

\* The keys r inserts although nothing it knows says that they are free.
Unchecked(r, L) ==
  IF upsert[r] \/ schema.autoID THEN {}
  ELSE IF in[r].op = "pginsert" THEN KeysOf(L)
  ELSE KeysOf(L) \cap disturbed[r]

Apply(r, L) ==
  /\ rows' = IF upsert[r] THEN UpsertRows(L) ELSE InsertRows(L)
  /\ applied' = [applied EXCEPT ![r] = TRUE]
  /\ disturbed' = [q \in Req |-> IF q = r THEN disturbed[q] ELSE disturbed[q] \cup KeysOf(L)]
  /\ raced' = raced \cup Unchecked(r, L)

\* (mutant) The good rows of a batch are sent before a bad one is met.
WriteRejectedPartly(r) ==
  /\ pc[r] = "write"
  /\ ~ValidateWriteCells(batch[r])
  /\ Finish(r, "rejected")
  /\ \E L \in Landings({b \in batch[r] : RowAccepted(b)}) : Apply(r, L)
  /\ UNCHANGED <<schema, in, key, hits, batch, upsert>>

\* One row breaks the schema: nothing is sent.
WriteRejected(r) ==
  /\ pc[r] = "write"
  /\ ~ValidateWriteCells(batch[r])
  /\ Refuse(r, "rejected")
  /\ UNCHANGED <<schema, rows, in, applied, disturbed, raced>>

\* The store takes the whole batch and says so.
WriteApplied(r) ==
  /\ pc[r] = "write"
  /\ ValidateWriteCells(batch[r])
  /\ ~KeyTwice(r)
  /\ \E L \in Landings(batch[r]) : Apply(r, L)
  /\ Finish(r, SuccessOf(r))
  /\ UNCHANGED <<schema, in, key, hits, batch, upsert>>

\* Describe or the call fails and nothing is written.
WriteFailed(r) ==
  /\ pc[r] = "write"
  /\ batch[r] # {}
  /\ Refuse(r, "error")
  /\ UNCHANGED <<schema, rows, in, applied, disturbed, raced>>

\* The call takes effect but its answer is lost: the handler reports an error.
WriteAnswerLost(r) ==
  /\ pc[r] = "write"
  /\ batch[r] # {}
  /\ ValidateWriteCells(batch[r])
  /\ ~KeyTwice(r)
  /\ \E L \in Landings(batch[r]) : Apply(r, L)
  /\ Finish(r, "error")
  /\ UNCHANGED <<schema, in, key, hits, batch, upsert>>

Init ==
  /\ schema \in Schemas
  /\ rows = [k \in Keys |-> [v \in Row |-> IF Preloaded[k] = v THEN 1 ELSE 0]]
  /\ pc = [r \in Req |-> "idle"]
  /\ in = [r \in Req |-> NoInput]
  /\ key = [r \in Req |-> NoKey]
  /\ hits = [r \in Req |-> {}]
  /\ batch = [r \in Req |-> {}]
  /\ upsert = [r \in Req |-> FALSE]
  /\ reply = [r \in Req |-> "none"]
  /\ applied = [r \in Req |-> FALSE]
  /\ disturbed = [r \in Req |-> {}]
  /\ raced = {}

\* One step of r's handler after its request arrived.
HandlerStep(r) ==
  \/ Lookup(r) \/ FetchMissing(r) \/ Fetch(r) \/ Scan(r)
  \/ WriteRejected(r) \/ WriteApplied(r) \/ WriteFailed(r) \/ WriteAnswerLost(r)

AllDone == (\A r \in Req : pc[r] = "done") /\ UNCHANGED vars

Next ==
  \/ \E r \in Req : Start(r) \/ HandlerStep(r) \/ ReadFails(r)
  \/ AllDone

\* A handler that was started is a runnable goroutine and its store calls return.
Fairness == \A r \in Req : WF_vars(HandlerStep(r))

Spec == Init /\ [][Next]_vars /\ Fairness

(***************************************************************************)
(* Properties.                                                             *)
(***************************************************************************)

\* A key holds more than one row only if some request inserted it without an
\* existence check that still held when the Insert landed: a PG INSERT (which
\* makes no check) or an ES write overtaken between documentExists and Insert.
DuplicatesOnlyFromRaces ==
  \A k \in Keys : SingleRow(rows[k]) \/ k \in raced

\* What a request is told is what happened to the store: a 4xx (or its SQLSTATE)
\* and a noop mean that no row of the batch was written, any other success that
\* all were.  An internal error leaves it open.
AnswerTellsEffect ==
  \A r \in Req :
    /\ reply[r] \in ClientErrors \cup {"noop"} => ~applied[r]
    /\ reply[r] \in Successes \ {"noop"} => applied[r]

\* Two int64 values that are one float64.
Blurred(f, c, d) ==
  schema.kind[f] = "int64" /\ c \in Values /\ d \in Values /\ Round[c] = Round[d]

\* A noop answer means that the stored row already had every cell the document
\* named, the detect_noop default of updateDocument.  The one exception is an
\* int64 whose float64 is also that of the stored value: equality does not tell
\* the two apart, and the update is lost.
NoopMeansUnchanged ==
  \A r \in Req : reply[r] = "noop" =>
    \A h \in hits[r], f \in Fields :
      in[r].doc[f] \in {Absent, h[2][f]} \/ Blurred(f, in[r].doc[f], h[2][f])

\* The keys whose rows a step may change when it carries out r's write: the id of
\* the URL (or the one generated or assigned for it) for the ES API, the keys of
\* the VALUES for INSERT, the matched keys or the one it SETs for UPDATE.
Addressed(r) ==
  CASE in[r].op \in {"index", "create"} ->
         IF schema.autoID THEN Keys \ HeldKeys ELSE {key[r]}
    [] in[r].op = "update" -> {in[r].url}
    [] in[r].op = "pginsert" -> {b[1] : b \in in[r].rows} \cup
                                (IF schema.autoID THEN Keys \ HeldKeys ELSE {})
    [] OTHER -> IF in[r].pk # NoKey THEN {in[r].pk} ELSE {h[1] : h \in hits[r]}

\* An _update whose document names another numeric key than the URL, one with
\* the same float64: docs/design.md promises a 400 for every disagreement, the
\* code compares float64s, sees none, and writes the row of the document's key.
KeyBlurred(r) ==
  /\ in[r].op = "update" /\ ~schema.stringPk
  /\ in[r].pk \in Keys /\ in[r].pk # in[r].url
  /\ RoundKey[in[r].pk] = RoundKey[in[r].url]

\* A write leaves every row alone that its request does not address, with the
\* one exception KeyBlurred names, where the code breaks what the docs promise.
WritesOnlyAddressed ==
  [][\A r \in Req : applied'[r] /\ ~applied[r] /\ ~KeyBlurred(r) =>
       \A k \in Keys \ Addressed(r) : rows'[k] = rows[k]]_vars

\* An UPDATE that fetched fewer rows than updateScanLimit reached them all: when
\* it lands, every row that satisfies its WHERE, and that nobody wrote since the
\* scan, gets the cells of the SET.  Only an UPDATE that fills the limit may
\* leave matches as they were, and its count is then exactly that limit.
UpdateReachesMatches ==
  [][\A r \in Req :
       /\ applied'[r] /\ ~applied[r]
       /\ in[r].op = "pgupdate" /\ in[r].pk = NoKey
       /\ Cardinality(hits[r]) < ScanLimit
       => \A h \in in[r].where :
            h[1] \notin disturbed[r] /\ rows[h[1]][h[2]] > 0 =>
              \A w \in Row : rows'[h[1]][w] > 0 =>
                \A f \in Fields : in[r].doc[f] # Absent => w[f] = Stored(in[r].doc)[f]]_vars

\* The read-modify-write of _update and UPDATE, when nobody wrote the row since
\* it was fetched: the cells the request does not name stay as they are in the
\* store, although the row is written back whole.
UndisturbedMerge ==
  [][\A r \in Req :
       /\ applied'[r] /\ ~applied[r]
       /\ in[r].op \in {"update", "pgupdate"} /\ in[r].pk = NoKey
       => \A h \in hits[r] :
            h[1] \notin disturbed[r] /\ SingleRow(rows[h[1]]) =>
              \A v, w \in Row :
                rows[h[1]][v] > 0 /\ rows'[h[1]][w] > 0 =>
                  \A f \in Fields : in[r].doc[f] = Absent => w[f] = v[f]]_vars

\* Every request that arrives is answered.
EveryRequestAnswered ==
  \A r \in Req : pc[r] # "idle" ~> pc[r] = "done"

\* The comment on createDocument: the document is indexed only if the id is
\* free, and otherwise the answer is a 409.
CreateExclusive ==
  \A q, r \in Req :
    /\ q # r /\ in[q] # NoInput /\ in[r] # NoInput
    /\ in[q].op = "create" /\ in[r].op = "create" /\ key[q] \in Keys
    /\ reply[q] = "created" /\ reply[r] = "created"
    => key[q] # key[r]

\* The comment on writeValue: a read-modify-write can upsert exactly what it
\* fetched, so an update whose own cells are acceptable is not refused.
RmwAcceptsFetched ==
  \A r \in Req :
    reply[r] = "rejected" /\ hits[r] # {} =>
      \E f \in Fields : in[r].doc[f] # Absent /\ ~CellAccepted(f, in[r].doc[f])

(***************************************************************************)
(* The refinement: what a client can tell of the handlers.                 *)
(***************************************************************************)
StatusOf(r) ==
  CASE pc[r] = "idle" -> "new"
    [] pc[r] # "idle" /\ pc[r] # "done" -> "pending"
    [] pc[r] = "done" /\ reply[r] \in ClientErrors -> "refused"
    [] pc[r] = "done" /\ reply[r] = "noop" -> "unchanged"
    [] pc[r] = "done" /\ reply[r] \in Successes \ {"noop"} -> "ok"
    [] OTHER -> "failed"

Docs == INSTANCE DocStore WITH
  data <- rows, cmd <- in, read <- hits, status <- [r \in Req |-> StatusOf(r)],
  Commands <- Inputs, NoCommand <- NoInput

\* The handlers implement the document store: each request, in whatever order the
\* awaits of all of them interleave and whichever store call fails, lands the
\* rows its command asks for once and whole or leaves the store alone, and its
\* answer says which.
ImplementsDocStore == Docs!Spec

(***************************************************************************)
(* The inductive invariant behind DuplicatesOnlyFromRaces: what a handler  *)
(* about to write knows of the keys in its batch.                          *)
(***************************************************************************)
HandlerShape ==
  \A r \in Req :
    /\ pc[r] = "idle" => ~upsert[r]
    /\ pc[r] # "idle" => in[r] \in Inputs
    /\ pc[r] \in {"lookup", "fetch"} => key[r] \in Keys
    /\ pc[r] # "done" => reply[r] = "none" /\ ~applied[r]

\* An Upsert the store takes names each key once.
UpsertNamesKeysOnce ==
  \A r \in Req : pc[r] = "write" /\ upsert[r] /\ ~KeyTwice(r) =>
    \A b, c \in batch[r] : b[1] = c[1] => b = c

\* An ES handler about to Insert looked its key up, and the key is free as long
\* as no other request wrote it since.
LookupHolds ==
  \A r \in Req :
    pc[r] = "write" /\ ~upsert[r] /\ ~schema.autoID /\ in[r].op # "pginsert" =>
      /\ batch[r] = {<<key[r], in[r].doc>>}
      /\ key[r] \in Keys \ disturbed[r] => ~HasKey(key[r])

IInv ==
  /\ TypeOK
  /\ HandlerShape
  /\ UpsertNamesKeysOnce
  /\ LookupHolds
  /\ DuplicatesOnlyFromRaces
  /\ AnswerTellsEffect
=============================================================================
