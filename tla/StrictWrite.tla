----------------------------- MODULE StrictWrite -----------------------------
(***************************************************************************)
(* A write from its text to the columns that Milvus receives.              *)
(*                                                                         *)
(* translate/pg/write.go parses INSERT and UPDATE and lowers their         *)
(* literals, translate/es/write.go decodes a document, pgserver/write.go   *)
(* merges an UPDATE into the rows it fetched, and store/write.go checks    *)
(* every cell against the schema before it builds one column per field.    *)
(* A row is a Go map, so the cells are checked in any order.  A nullable   *)
(* column is compact: the values that are there, and a validity mask.      *)
(*                                                                         *)
(* Numbers are counted in quarters, so that a text can have a fraction;    *)
(* the integer and floating-point formats are scaled down to a few bits    *)
(* and keep their relation to each other.                                  *)
(***************************************************************************)
EXTENDS Integers, Sequences, FiniteSets, SequencesExt

CONSTANTS
  Metas,      \* the schemas
  RequestsTo(_), \* the writes to a schema: operation, columns, values, fetched rows
  Table,      \* the collection the requests name
  Bits,       \* the width of every integer type
  Mantissa,   \* bits of a float64 mantissa
  Mantissa32, \* bits of a float32 mantissa
  Exponent,   \* the largest exponent of a float64, and
  Exponent32  \* of a float32

\* No integer type is wider than an int64, which is wider than a mantissa; a
\* float64 holds whatever a float32 does, and integers of its whole mantissa.
ASSUME FormatsAssumption ==
  /\ Mantissa \in Nat /\ Mantissa32 \in 1..Mantissa
  /\ Exponent \in Nat \ {0, 1} /\ Exponent32 \in 0..Exponent
  /\ "int64" \in DOMAIN Bits /\ DOMAIN Bits \subseteq {"int8", "int16", "int32", "int64"}
  /\ Bits["int64"] \in Nat /\ Mantissa < Bits["int64"]
  /\ \A t \in DOMAIN Bits : Bits[t] \in 1..Bits["int64"]

(***************************************************************************)
(* Values.  A literal or a JSON value as written, and the Go values of a   *)
(* WriteRow: what lowering makes of it, or what a read returned.           *)
(***************************************************************************)
Nil == [t |-> "nil"]
Bool(b) == [t |-> "bool", b |-> b]
Number(integer, q) == [t |-> "number", integer |-> integer, q |-> q]
String(len, json, items) == [t |-> "string", len |-> len, json |-> json, items |-> items]
Array(items) == [t |-> "array", items |-> items]
Object == [t |-> "object"]
Unsupported == [t |-> "unsupported"]   \* DEFAULT, a column, a bind parameter
Vector(items) == [t |-> "vector", items |-> items]
Raw(v) == [t |-> "raw", v |-> v]
Float(t, q) == [t |-> t, q |-> q]
Whole(t, n) == [t |-> t, n |-> n]

Num(q) == [k |-> "num", q |-> q]
Inf == [k |-> "inf"]

Ref(name) == [of |-> "", name |-> name]
Qualified(table, name) == [of |-> table, name |-> name]

(***************************************************************************)
(* Numbers.                                                                *)
(***************************************************************************)
\* A result, and the error that stands in its place.
Yes(c) == [ok |-> TRUE, cell |-> c]
No == [ok |-> FALSE]

Size(x) == IF x < 0 THEN -x ELSE x

\* The powers of two.
Two[n \in Nat] == IF n = 0 THEN 1 ELSE 2 * Two[n - 1]

FloatTop == (Two[Mantissa] - 1) * Two[Exponent]
Float32Top == (Two[Mantissa32] - 1) * Two[Exponent32]

\* The distance between neighbours among the floats around a quarters.
Ulp(a, bits) ==
  Two[CHOOSE e \in 0..a : a < Two[bits + e] /\ (e = 0 \/ 2 * a >= Two[bits + e])]

\* Rounding to the nearest float, ties to even.
RoundSize(a, bits) ==
  LET u == Ulp(a, bits)
      low == a \div u
      rest == 2 * (a - low * u)
  IN IF rest > u \/ (rest = u /\ low % 2 = 1) THEN (low + 1) * u ELSE low * u

Nearest(q, bits) == IF q < 0 THEN -RoundSize(-q, bits) ELSE RoundSize(q, bits)

\* strconv.ParseFloat(text, 64): a number beyond the format is an error.
ParseFloat(q) ==
  LET x == Nearest(q, Mantissa) IN IF Size(x) <= FloatTop THEN Yes(x) ELSE No

\* (mutant) The upper bound is one too high.
InBoundsLoose(native, n) == n \in -Two[Bits[native] - 1] .. Two[Bits[native] - 1]

\* intBoundaries.
InBounds(native, n) == n \in -Two[Bits[native] - 1] .. Two[Bits[native] - 1] - 1

\* An integer that a float64 holds for certain.
Integral(q) == q % 4 = 0 /\ Size(q) < 4 * Two[Mantissa]

\* An integer text of 64 bits, a Go integer, or an integral float.
ToInt64(v) ==
  CASE v.t = "number" ->
         IF v.integer /\ InBounds("int64", v.q \div 4) THEN Yes(v.q \div 4)
         ELSE IF ParseFloat(v.q).ok /\ Integral(ParseFloat(v.q).cell)
              THEN Yes(ParseFloat(v.q).cell \div 4) ELSE No
    [] v.t \in {"int64", "int32"} -> Yes(v.n)
    [] v.t = "float64" -> IF Integral(v.q) THEN Yes(v.q \div 4) ELSE No
    [] OTHER -> No

ToFloat64(v) ==
  CASE v.t = "number" -> ParseFloat(v.q)
    [] v.t \in {"float64", "float32"} -> Yes(v.q)
    [] v.t = "int64" -> Yes(Nearest(4 * v.n, Mantissa))
    [] OTHER -> No

(***************************************************************************)
(* Lowering a value for a column (writeLiteral, decodeWriteValue).         *)
(***************************************************************************)
\* A vector entry as a float32; an entry that is no number has no value.
SqlEntry(i) ==
  CASE i.k = "num" ->
         LET x == Nearest(i.q, Mantissa32) IN IF Size(x) <= Float32Top THEN Yes(Num(x)) ELSE No
    [] i.k = "inf" -> Yes(Inf)
    [] OTHER -> No

JsonEntry(i) ==
  CASE i.k = "num" /\ ParseFloat(i.q).ok ->
         LET x == Nearest(ParseFloat(i.q).cell, Mantissa32)
         IN Yes(IF Size(x) <= Float32Top THEN Num(x) ELSE Inf)
    [] OTHER -> No

Entries(es) ==
  IF \A i \in DOMAIN es : es[i].ok THEN Yes(Vector([i \in DOMAIN es |-> es[i].cell])) ELSE No

WriteLiteral(v, isVector) ==
  IF v.t = "string" /\ isVector
  THEN IF v.items = <<>> THEN No ELSE Entries([i \in DOMAIN v.items |-> SqlEntry(v.items[i])])
  ELSE Yes(v)

DecodeWriteValue(v, isVector) ==
  CASE v.t = "array" -> IF ~isVector THEN Yes(Raw(v))
                      ELSE Entries([i \in DOMAIN v.items |-> JsonEntry(v.items[i])])
    [] v.t = "object" -> IF isVector THEN No ELSE Yes(Raw(v))
    [] OTHER -> Yes(v)

(***************************************************************************)
(* writeValue: one cell against its field.                                 *)
(***************************************************************************)
WriteValue(f, v) ==
  IF v = Nil THEN IF f.nullable THEN Yes(Nil) ELSE No
  ELSE CASE f.native = "string" ->
              IF v.t = "string" /\ (f.max = 0 \/ v.len <= f.max) THEN Yes(v) ELSE No
         [] f.native \in DOMAIN Bits ->
              LET n == ToInt64(v)
              IN IF n.ok /\ InBounds(f.native, n.cell) THEN Yes(Whole(f.native, n.cell)) ELSE No
         [] f.native = "float32" ->
              LET x == ToFloat64(v)
              IN IF x.ok /\ Size(x.cell) <= Float32Top
                 THEN Yes(Float("float32", Nearest(x.cell, Mantissa32))) ELSE No
         [] f.native = "float64" ->
              LET x == ToFloat64(v)
              IN IF x.ok THEN Yes(Float("float64", x.cell)) ELSE No
         [] f.native = "bool" -> IF v.t = "bool" THEN Yes(v) ELSE No
         [] f.native = "json" ->
              IF v.t = "raw" THEN Yes(v)
              ELSE IF v.t = "string" /\ v.json THEN Yes(Raw(v)) ELSE No
         [] f.native = "float_vector" ->
              IF /\ v.t = "vector"
                 /\ f.dim = 0 \/ Len(v.items) = f.dim
                 /\ \A i \in DOMAIN v.items : v.items[i] # Inf
              THEN Yes(v) ELSE No
         [] OTHER -> No

Writable == {"string", "float32", "float64", "bool", "json", "float_vector"} \cup DOMAIN Bits

(***************************************************************************)
(* The requests.                                                           *)
(***************************************************************************)
IsSequence(s) == s \in Seq(ToSet(s))

\* A column as a statement names it, with its qualifier.
IsColumn(c) == c = [of |-> c.of, name |-> c.name]

IsEntry(e) == (e.k = "num" => e.q \in Int) /\ (e.k = "inf" => e = Inf)

\* A value as it can be written in SQL or in JSON.
Written(op, v) ==
  /\ v.t \in {"nil", "bool", "number", "string"}
             \cup IF op = "index" THEN {"array", "object"} ELSE {"unsupported"}
  /\ v.t = "nil" => v = Nil
  /\ v.t = "number" => /\ v.q \in Int /\ v.integer \in BOOLEAN
                       /\ v.integer => v.q % 4 = 0
  /\ v.t \in {"string", "array"} => IsSequence(v.items) /\ \A k \in DOMAIN v.items : IsEntry(v.items[k])

IsFloat(q, bits, top) == q \in Int /\ Nearest(q, bits) = q /\ Size(q) <= top

\* A value as a read returns it for field f: of the field's type.
Held(f, v) ==
  \/ v = Nil
  \/ f.native \in DOMAIN Bits /\ v = Whole(f.native, v.n) /\ InBounds(f.native, v.n)
  \/ f.native = "float64" /\ v = Float("float64", v.q) /\ IsFloat(v.q, Mantissa, FloatTop)
  \/ f.native = "float32" /\ v = Float("float32", v.q) /\ IsFloat(v.q, Mantissa32, Float32Top)
  \/ f.native = "float_vector" /\ v = Vector(v.items) /\ IsSequence(v.items)
     /\ \A k \in DOMAIN v.items :
          v.items[k] = Num(v.items[k].q) /\ IsFloat(v.items[k].q, Mantissa32, Float32Top)
  \/ f.native = "json" /\ v.t = "raw"
  \/ f.native \in {"string", "bool"} /\ v.t = f.native
  \/ f.native \notin Writable /\ v.t = "opaque"

\* Fields have names of their own, and what a schema function computes is no field
\* (catalogMeta).
ASSUME SchemasAssumption ==
  \A meta \in Metas :
    /\ IsSequence(meta.fields)
    /\ \A i, j \in DOMAIN meta.fields : meta.fields[i].name = meta.fields[j].name => i = j
    /\ \A i \in DOMAIN meta.fields : meta.fields[i].name \notin meta.outputs

\* A statement has a group of values at least, an UPDATE and a document just one;
\* a document is a Go map, with no member twice; a read returns fields of the
\* collection, each at most once.
ASSUME RequestsAssumption ==
  \A meta \in Metas : \A q \in RequestsTo(meta) :
    /\ q.meta = meta /\ q.op \in {"insert", "update", "index"}
    /\ IsSequence(q.cols) /\ IsSequence(q.groups) /\ IsSequence(q.fetched)
    /\ Len(q.groups) > 0 /\ (q.op # "insert" => Len(q.groups) = 1)
    /\ \A i \in DOMAIN q.cols : IsColumn(q.cols[i])
    /\ q.op = "index" => \A i, j \in DOMAIN q.cols : q.cols[i] = q.cols[j] => i = j
    /\ \A g \in DOMAIN q.groups :
         IsSequence(q.groups[g]) /\ \A i \in DOMAIN q.groups[g] : Written(q.op, q.groups[g][i])
    /\ \A r \in DOMAIN q.fetched : \A c \in DOMAIN q.fetched[r] :
         \E i \in DOMAIN meta.fields :
           c = Ref(meta.fields[i].name) /\ Held(meta.fields[i], q.fetched[r][c])

(***************************************************************************)
(* The state of a write.                                                   *)
(***************************************************************************)
VARIABLES
  req,     \* the request
  targets, \* the column that each value goes to
  rows,    \* the WriteRows
  todo,    \* the cells that validateWriteCells has not looked at: row, column
  cells,   \* by field and row; Nil until a value is taken over
  present, \* by field and row: the row supplied the field
  cols,    \* the columns sent, by field
  phase

vars == <<req, targets, rows, todo, cells, present, cols, phase>>

Fields == req.meta.fields
FieldNo(name) == {i \in DOMAIN Fields : Fields[i].name = name}
IsVector(c) == c.of = "" /\ \E i \in FieldNo(c.name) : Fields[i].native = "float_vector"

Init ==
  /\ \E meta \in Metas : req \in RequestsTo(meta)
  /\ targets = <<>> /\ rows = <<>> /\ todo = {}
  /\ cells = <<>> /\ present = <<>> /\ cols = <<>>
  /\ phase = "text"

Twice(s) == \E i, j \in DOMAIN s : i < j /\ s[i] = s[j]
Literals(groups) == \A g \in ToSet(groups) : Unsupported \notin ToSet(g)
SameArity(groups) == \A g \in ToSet(groups) : Len(g) = Len(groups[1])
Strip(c) == IF c.of = Table THEN Ref(c.name) ELSE c

\* What the parsers refuse.
MiswordedInsert == Twice(req.cols) \/ ~Literals(req.groups) \/ ~SameArity(req.groups)
MiswordedUpdate ==
  \/ Twice(req.cols) \/ ~Literals(req.groups)
  \/ \E c \in ToSet(req.cols) : Strip(c).of # ""

\* ParseInsert.  Without a column list the values go to the schema's fields in
\* order, an automatic key among them (Rows looks that up).
ParseInsert ==
  /\ phase = "text" /\ req.op = "insert"
  /\ IF MiswordedInsert
     THEN phase' = "refused" /\ UNCHANGED targets
     ELSE /\ phase' = "parsed"
          /\ targets' = IF req.cols # <<>> THEN req.cols
                        ELSE [i \in DOMAIN Fields |-> Ref(Fields[i].name)]
  /\ UNCHANGED <<req, rows, todo, cells, present, cols>>

\* ParseUpdate: duplicates are looked for before the qualifiers come off.
ParseUpdate ==
  /\ phase = "text" /\ req.op = "update"
  /\ IF MiswordedUpdate
     THEN phase' = "refused" /\ UNCHANGED targets
     ELSE phase' = "parsed" /\ targets' = [i \in DOMAIN req.cols |-> Strip(req.cols[i])]
  /\ UNCHANGED <<req, rows, todo, cells, present, cols>>

\* decodeBody: the members of a document.
DecodeBody ==
  /\ phase = "text" /\ req.op = "index"
  /\ phase' = "parsed" /\ targets' = req.cols
  /\ UNCHANGED <<req, rows, todo, cells, present, cols>>

Lowered(v, c) ==
  IF req.op = "index" THEN DecodeWriteValue(v, IsVector(c)) ELSE WriteLiteral(v, IsVector(c))

\* The map that the values of one group make; a later value overwrites an
\* earlier one of the same column.
RowOf(group) ==
  [c \in ToSet(targets) |->
     Lowered(group[CHOOSE i \in DOMAIN targets :
                     targets[i] = c /\ \A j \in DOMAIN targets : targets[j] = c => j <= i], c).cell]

Over(set, row) == [c \in DOMAIN set \cup DOMAIN row |-> IF c \in DOMAIN set THEN set[c] ELSE row[c]]

\* Every group has a value for each column, and each of them lowers.
Lowerable ==
  \A g \in ToSet(req.groups) :
    Len(g) = Len(targets) /\ \A i \in DOMAIN g : Lowered(g[i], targets[i]).ok

\* The rows of the groups, or the fetched rows with the one group merged in.
AllRows ==
  IF req.op = "update"
  THEN [r \in DOMAIN req.fetched |-> Over(RowOf(req.groups[1]), req.fetched[r])]
  ELSE [r \in DOMAIN req.groups |-> RowOf(req.groups[r])]

\* Insert.Rows, DecodeDocument, or Lower and the merge into the fetched rows.
Lower ==
  /\ phase = "parsed"
  /\ IF ~Lowerable
     THEN phase' = "refused" /\ UNCHANGED <<rows, todo, cells, present>>
     ELSE /\ rows' = AllRows
          /\ todo' = UNION {{r} \X DOMAIN AllRows[r] : r \in DOMAIN AllRows}
          /\ cells' = [i \in DOMAIN Fields |-> [r \in DOMAIN AllRows |-> Nil]]
          /\ present' = [i \in DOMAIN Fields |-> [r \in DOMAIN AllRows |-> FALSE]]
          /\ phase' = IF AllRows = <<>> THEN "empty" ELSE "lowered"
  /\ UNCHANGED <<req, targets, cols>>

\* byName: the columns that a schema function computes are none of them.
Known(c) == c.of = "" /\ c.name \notin req.meta.outputs /\ FieldNo(c.name) # {}
Target(c) == CHOOSE i \in FieldNo(c.name) : TRUE

\* Unknown columns, automatic keys and values without a storage form are refused.
Storable(c, v) ==
  Known(c) /\ ~Fields[Target(c)].auto /\ WriteValue(Fields[Target(c)], v).ok

\* One cell of the first row that has cells left.
CheckCell(r, c) ==
  /\ phase = "lowered"
  /\ <<r, c>> \in todo /\ \A p \in todo : r <= p[1]
  /\ IF Storable(c, rows[r][c])
     THEN /\ cells' = [cells EXCEPT ![Target(c)][r] = WriteValue(Fields[Target(c)], rows[r][c]).cell]
          /\ present' = [present EXCEPT ![Target(c)][r] = TRUE]
          /\ UNCHANGED phase
     ELSE phase' = "refused" /\ UNCHANGED <<cells, present>>
  /\ todo' = todo \ {<<r, c>>}
  /\ UNCHANGED <<req, targets, rows, cols>>

\* The required fields, and those that some row leaves out.
Required == {i \in DOMAIN Fields : ~Fields[i].auto /\ ~Fields[i].nullable}
Missing == {i \in Required : \E r \in DOMAIN rows : ~present[i][r]}

CheckMissing ==
  /\ phase = "lowered" /\ todo = {}
  /\ phase' = IF Missing = {} THEN "valid" ELSE "refused"
  /\ UNCHANGED <<req, targets, rows, todo, cells, present, cols>>

\* (mutant) Null cells keep a place among the values.
CompactAll(s) == s

\* compact: a loop that appends the cells that are there.
Compact(s) ==
  LET upTo[n \in 0..Len(s)] ==
        IF n = 0 THEN <<>> ELSE IF s[n] = Nil THEN upTo[n - 1] ELSE Append(upTo[n - 1], s[n])
  IN upTo[Len(s)]

\* columnOf and plainColumnOf.
ColumnOf(i) ==
  IF Fields[i].nullable
  THEN [values |-> Compact(cells[i]),
        valid |-> [r \in DOMAIN rows |-> present[i][r] /\ cells[i][r] # Nil]]
  ELSE [values |-> Compact(cells[i]), valid |-> <<>>]

\* writeColumns: automatic keys and types without an encoding are not sent.
WriteColumns ==
  /\ phase = "valid"
  /\ cols' = [i \in {j \in DOMAIN Fields : ~Fields[j].auto /\ Fields[j].native \in Writable}
              |-> ColumnOf(i)]
  /\ phase' = "sent"
  /\ UNCHANGED <<req, targets, rows, todo, cells, present>>

Next ==
  \/ ParseInsert \/ ParseUpdate \/ DecodeBody \/ Lower
  \/ \E p \in todo : CheckCell(p[1], p[2])
  \/ CheckMissing \/ WriteColumns

Spec == Init /\ [][Next]_vars

(***************************************************************************)
(* What the request asks for (the reference).                              *)
(***************************************************************************)
Absent == [t |-> "absent"]

\* The places of the request's values that aim at field i.
Places(i) ==
  IF req.op = "insert" /\ req.cols = <<>> THEN {i} \cap DOMAIN req.groups[1]
  ELSE {p \in DOMAIN req.cols : /\ req.cols[p].name = Fields[i].name
                               /\ req.cols[p].of \in IF req.op = "update" THEN {"", Table} ELSE {""}}

RowNumbers == IF req.op = "update" THEN DOMAIN req.fetched ELSE DOMAIN req.groups

\* What row r is to hold in field i: of several assignments the last, and in an
\* UPDATE otherwise what the row held.
Wanted(r, i) ==
  LET kept == Ref(Fields[i].name)
      group == IF req.op = "update" THEN 1 ELSE r
      last == CHOOSE p \in Places(i) : \A q \in Places(i) : q <= p
  IN IF Places(i) # {} THEN req.groups[group][last]
     ELSE IF req.op = "update" /\ kept \in DOMAIN req.fetched[r] THEN req.fetched[r][kept]
     ELSE Absent

Near(x, q, bits) == Size(x - q) <= Ulp(Size(q), bits)

\* Cell c is the value w in the storage of field f.  A number written as an
\* integer is stored as that integer; one with a fraction may lose what a
\* float64 has no room for.
Means(f, w, c) ==
  IF w \in {Absent, Nil} THEN c = Nil
  ELSE CASE f.native \in DOMAIN Bits ->
              /\ c.t = f.native
              /\ IF w.t # "number" THEN c.n = w.n
                 ELSE IF w.integer THEN 4 * c.n = w.q
                 ELSE 2 * Size(4 * c.n - w.q) <= Ulp(Size(w.q), Mantissa)
         [] f.native \in {"float32", "float64"} ->
              /\ c.t = f.native
              /\ IF w.t = "number"
                 THEN Near(c.q, w.q, IF f.native = "float32" THEN Mantissa32 ELSE Mantissa)
                 ELSE c.q = w.q
         [] f.native = "json" -> c = IF w.t = "raw" THEN w ELSE Raw(w)
         [] f.native = "float_vector" ->
              /\ DOMAIN c.items = DOMAIN w.items
              /\ \A k \in DOMAIN c.items : Near(c.items[k].q, w.items[k].q, Mantissa32)
         [] OTHER -> c = w

\* How Milvus reads a column.
Read(i, r) ==
  LET col == cols[i]
  IN IF col.valid = <<>> THEN col.values[r]
     ELSE IF col.valid[r] THEN col.values[Cardinality({s \in 1..r : col.valid[s]})] ELSE Nil

\* The columns that are sent read back, row by row, as what the request asks for:
\* a compact column lines its values up with its mask, whatever rows left the
\* field out or set it to NULL, and no field that is not sent was given a value.
ColumnsCarryRows ==
  phase = "sent" =>
    \A i \in DOMAIN Fields : \A r \in RowNumbers :
      IF i \in DOMAIN cols THEN Means(Fields[i], Wanted(r, i), Read(i, r))
      ELSE Wanted(r, i) \in {Absent, Nil}

\* The number is an integer of the field's width; with a fraction in its text,
\* the float64 nearest to it is, and is below what a float64 tells apart.
FitsInteger(f, w) ==
  LET x == IF w.integer THEN w.q ELSE Nearest(w.q, Mantissa)
      range == Two[Bits[f.native]]
  IN /\ x % 4 = 0 /\ -range <= x \div 2 /\ x \div 2 < range
     /\ (w.integer \/ Size(x) < 4 * Two[Mantissa])

\* A vector entry is a number of a float32; in JSON a float64 comes in between.
FitsEntry(e) ==
  /\ e.k = "num"
  /\ LET x == IF req.op = "index" THEN Nearest(e.q, Mantissa) ELSE e.q
     IN Size(Nearest(x, Mantissa32)) <= Float32Top

\* Value w has a storage form in field f: whatever a read returned has one
\* (store/write.go:252-256), and in a JSON field every JSON value, of which SQL
\* has a text encoding only (:324-331).
HasForm(f, w) ==
  CASE f.native \in DOMAIN Bits ->
         IF w.t = "number" THEN FitsInteger(f, w) ELSE w.t \in {"int8", "int16", "int32", "int64"}
    [] f.native \in {"float32", "float64"} ->
         \/ w.t \in {"float32", "float64"}
         \/ /\ w.t = "number"
            /\ Size(Nearest(w.q, Mantissa)) <= IF f.native = "float32" THEN Float32Top ELSE FloatTop
    [] f.native = "string" -> w.t = "string" /\ (f.max = 0 \/ w.len <= f.max)
    [] f.native = "bool" -> w.t = "bool"
    [] f.native = "json" ->
         \/ w.t \in {"raw", "array", "object"} \/ (w.t = "string" /\ w.json)
         \/ req.op = "index" /\ w.t \in {"string", "number", "bool"}
    [] f.native = "float_vector" ->
         /\ w.t = "vector" \/ w.t = (IF req.op = "index" THEN "array" ELSE "string")
         /\ w.t = "string" => w.items # <<>>
         /\ f.dim = 0 \/ Len(w.items) = f.dim
         /\ \A k \in DOMAIN w.items : FitsEntry(w.items[k])
    [] OTHER -> FALSE

Fits(f, w) ==
  IF w = Absent THEN f.auto \/ f.nullable
  ELSE ~f.auto /\ IF w = Nil THEN f.nullable ELSE HasForm(f, w)

\* A text written for a vector column is a list of numbers, infinite ones included.
Readable(w) ==
  w.t = "string" =>
    w.items # <<>> /\ \A k \in DOMAIN w.items : w.items[k].k = "inf" \/ FitsEntry(w.items[k])

Width == IF req.op = "insert" /\ req.cols = <<>> THEN Len(Fields) ELSE Len(req.cols)

\* Every column named is a field of the table, none twice as it is spelled, every
\* column has a value in every row and every value fits.  Without a list of
\* columns every field of the schema has a value (see KeyCounted).  The texts that an UPDATE
\* assigns to a vector are read even if no row takes them.
Acceptable ==
  /\ Literals(req.groups)
  /\ \A g \in ToSet(req.groups) : Len(g) = Width
  /\ \A p \in DOMAIN req.cols : \E i \in DOMAIN Fields : p \in Places(i)
  /\ ~Twice(req.cols)
  /\ \A i \in DOMAIN Fields : \A r \in RowNumbers : Fits(Fields[i], Wanted(r, i))
  /\ req.op = "update" =>
       \A i \in DOMAIN Fields : \A p \in Places(i) :
         Fields[i].native = "float_vector" => Readable(req.groups[1][p])

\* Where the code departs from its comments and turns such a value away: a
\* fetched int8 or int16 cell (toInt64 has no case for them), and in a document a
\* scalar for a JSON field, unless it is a string whose own text parses as JSON.
TurnedAway(f, w) ==
  \/ f.native \in DOMAIN Bits /\ w.t \in {"int8", "int16"}
  \/ /\ f.native = "json" /\ req.op = "index"
     /\ w.t \in {"number", "bool"} \/ (w.t = "string" /\ ~w.json)

SomeTurnedAway == \E i \in DOMAIN Fields : \E r \in RowNumbers : TurnedAway(Fields[i], Wanted(r, i))

\* "every writable field, in storage order" (translate/pg/write.go:23-25): the
\* code counts an automatic key among them, which no value may be given to.
KeyCounted == req.op = "insert" /\ req.cols = <<>> /\ \E i \in DOMAIN Fields : Fields[i].auto

\* A write is sent if the schema allows every cell of it, and refused if and only
\* if some cell is at fault: whatever the row or the column, in whatever order
\* the cells are looked at, nothing is let through and nothing is turned away
\* that another row, column or spelling of the same value would decide otherwise.
\* The exceptions are the values TurnedAway names, each time they occur, and that
\* no INSERT without columns gets past an automatic key.
RefusedExactly ==
  /\ phase = "sent" => Acceptable /\ ~SomeTurnedAway /\ ~KeyCounted
  /\ phase = "refused" => ~Acceptable \/ SomeTurnedAway
=============================================================================
