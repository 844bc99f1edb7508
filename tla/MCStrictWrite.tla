---------------------------- MODULE MCStrictWrite ----------------------------
(***************************************************************************)
(* A key, a field of every type, and a field whose type has no encoding;   *)
(* integers of three and five bits, floats of two and three.               *)
(***************************************************************************)
EXTENDS StrictWrite, TLC

MCTable == "t"
MCBits == [int8 |-> 3, int64 |-> 5]

Field(name, native, auto, nullable) ==
  [name |-> name, native |-> native, auto |-> auto, nullable |-> nullable,
   max |-> IF native = "string" THEN 2 ELSE 0, dim |-> IF native = "float_vector" THEN 2 ELSE 0]

Natives == {"int8", "int64", "string", "float32", "float64", "bool", "json", "float_vector"}

MCMetas ==
  {[fields |-> <<Field("id", "int64", auto, FALSE), Field("f", native, FALSE, nullable),
                 Field("u", "sparse", FALSE, TRUE)>>,
    outputs |-> {"o"}] :
     auto \in BOOLEAN, native \in Natives, nullable \in BOOLEAN}

\* Integer texts around the bounds of both widths; texts with a fraction around
\* what a float64 holds; beyond both float formats.
Numbers ==
  {Number(TRUE, 4 * k) : k \in {-17, -5, -4, 3, 4, 8, 15, 16}}
  \cup {Number(FALSE, q) : q \in {-12, 6, 7, 9, 12, 13, 18, 30, 33, 60, 300}}

Word == [k |-> "word"]
Items == {<<Num(4), Num(5)>>, <<Num(4)>>, <<Num(4), Word>>, <<Num(4), Num(53)>>, <<Num(4), Num(100)>>}
Texts ==
  {String(len, json, <<>>) : len \in {1, 3}, json \in BOOLEAN}
  \cup {String(2, FALSE, s) : s \in Items \cup {<<Inf, Num(4)>>}}

Sql == Numbers \cup Texts \cup {Nil, Bool(TRUE), Unsupported}
Json == Numbers \cup {Nil, Bool(TRUE), Object, String(1, TRUE, <<>>), String(3, FALSE, <<>>)}
        \cup {Array(s) : s \in Items \cup {<<>>}}

One == Number(TRUE, 4)

\* A value that fits, as a literal, as JSON and as a read returns it.
Good(native) ==
  CASE native = "string" -> String(1, FALSE, <<>>)
    [] native = "bool" -> Bool(FALSE)
    [] native = "json" -> String(1, TRUE, <<>>)
    [] native = "float_vector" -> String(2, FALSE, <<Num(1), Num(2)>>)
    [] OTHER -> One

Stored(native) ==
  CASE native \in {"int8", "int64"} -> Whole(native, 1)
    [] native \in {"float32", "float64"} -> Float(native, 3)
    [] native = "json" -> Raw(Object)
    [] native = "float_vector" -> Vector(<<Num(1), Num(2)>>)
    [] OTHER -> Good(native)

Request(meta, op, cs, groups, fetched) ==
  [meta |-> meta, op |-> op, cols |-> cs, groups |-> groups, fetched |-> fetched]

f == Ref("f")
id == Ref("id")
Dotted == Qualified("t", "f")

Inserts(meta, g) ==
  {Request(meta, "insert", cs, <<v>>, <<>>) :
     cs \in {<<f>>, <<Dotted>>}, v \in {<<w>> : w \in Sql}}
  \cup {Request(meta, "insert", cs, <<<<v, One>>, w>>, <<>>) :
     cs \in {<<f, id>>, <<f, f>>}, v \in Sql,
     w \in {<<g, One>>, <<Nil, Number(TRUE, 8)>>, <<g>>}}
  \cup {Request(meta, "insert", <<id, f, Ref(c)>>, <<<<One, g, Nil>>, <<One, Nil, v>>>>, <<>>) :
     c \in {"u", "o", "z"}, v \in {Nil, g}}
  \cup {Request(meta, "insert", <<>>, <<v>>, <<>>) : v \in {<<One, g, Nil>>, <<One, g>>}}
  \cup {Request(meta, "insert", <<f>>, <<<<v>>, <<w>>, <<g>>>>, <<>>) : v \in {Nil, g}, w \in {Nil, g}}

Old(meta, v) == (f :> v) @@ (Ref("u") :> Nil) @@ (id :> Whole("int64", 1))

Updates(meta, g) ==
  LET stored == {Old(meta, Stored(meta.fields[2].native))}
                \cup IF meta.fields[2].nullable THEN {Old(meta, Nil)} ELSE {}
      set(cs, group, fetched) == Request(meta, "update", cs, <<group>>, fetched)
      fetches == {<<>>} \cup {<<a>> : a \in stored} \cup {<<a, b>> : a \in stored, b \in stored}
  IN {set(cs, <<v>>, r) : cs \in {<<f>>, <<Dotted>>, <<Qualified("s", "f")>>},
                           v \in Sql, r \in {<<>>} \cup {<<a>> : a \in stored}}
     \cup {set(<<f, Dotted>>, v, r) :
             v \in {<<g, Nil>>, <<Nil, g>>} \cup {<<w, g>> : w \in Texts}, r \in fetches}
     \cup {set(<<id>>, <<v>>, r) : v \in {One, Nil}, r \in fetches}
     \cup {set(<<f>>, <<g>>, <<(Ref("u") :> [t |-> "opaque"]) @@ a>>) : a \in stored}

Documents(meta) ==
  {Request(meta, "index", cs, <<v>>, <<>>) : cs \in {<<f>>, <<Ref("z")>>}, v \in {<<w>> : w \in Json}}
  \cup {Request(meta, "index", <<id, f>>, <<<<One, w>>>>, <<>>) : w \in Json}

MCRequestsTo(m) ==
  Inserts(m, Good(m.fields[2].native)) \cup Updates(m, Good(m.fields[2].native)) \cup Documents(m)
=============================================================================
