----------------------------- MODULE MCPgSession -----------------------------
(***************************************************************************)
(* Two collection names, one of them that of a virtual table, three        *)
(* generations, and strings of up to three statements of every family.     *)
(***************************************************************************)
EXTENDS PgSession

St(kind, name) ==
  [kind |-> kind, name |-> name, tables |-> <<>>, params |-> FALSE, bad |-> FALSE,
   filters |-> Types, never |-> FALSE, orders |-> FALSE, fits |-> Types, raises |-> FALSE]
Catalog(tables) == [St("catalog", "pg_type") EXCEPT !.tables = tables]
Numeric(st) == [st EXCEPT !.fits = {"number"}]
Where(types, st) == [st EXCEPT !.filters = types]
Never(st) == [st EXCEPT !.never = TRUE]
Ordered(st) == [st EXCEPT !.orders = TRUE]
Raising(st) == [st EXCEPT !.raises = TRUE]
Bound(st) == [st EXCEPT !.params = TRUE]
Bad(st) == [st EXCEPT !.bad = TRUE]

Begin == St("session", "pg_type")
Read == St("select", "books")
Insert == St("insert", "books")
Update == St("update", "books")

MCNames == {"books", "tables"}
MCTypeOf == <<"number", "text", "other">>
MCStrings ==
  { <<Read>>, <<Bound(Read)>>, <<Where({"number"}, Read), Insert>>,
    <<Ordered(Read), Insert>>, <<Never(Ordered(Read))>>, <<Numeric(Never(Update)), Insert>>, <<St("select", "tables")>>, <<St("insert", "tables")>>,
    <<Begin, Insert, Update>>, <<Begin, Insert, Bad(Insert)>>, <<Numeric(Insert), Numeric(Where({"number", "other"}, Update)), Begin>>,
    <<Insert, Catalog(<<"tables", "columns">>)>>, <<Insert, Raising(Catalog(<<"pg_type", "tables">>))>>,
    <<Catalog(<<"pg_class", "pg_attribute", "pg_type">>)>>,
    <<Catalog(<<"jdbc_columns">>), Catalog(<<"pg_index", "tables", "pg_class">>)>> }
=============================================================================
