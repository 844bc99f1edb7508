--------------------------- MODULE CatalogSnapshot ---------------------------
(***************************************************************************)
(* What one execution of an introspection query sees of the cluster:       *)
(* snapshot.table, snapshot.collectionMetas and the row generators of      *)
(* internal/catalog/tables.go and special.go.                              *)
(*                                                                         *)
(* A virtual table is built by store calls, one list and one describe per  *)
(* collection, and collections come and go between those calls.  A list    *)
(* answers the collections in any order.  The tables that number the       *)
(* collections share one list per execution; information_schema makes its  *)
(* own.                                                                    *)
(***************************************************************************)
EXTENDS Integers, Sequences, FiniteSets

CONSTANTS
  Names,     \* collection names
  MaxGen     \* bound: collections created over a behaviour

ASSUME SnapshotAssumption == IsFiniteSet(Names) /\ MaxGen \in Nat

Gens == 1..MaxGen

\* The virtual tables by how their rows come about: from the shared metadata
\* (pg_class, pg_attribute, pg_constraint, pg_index and the pgjdbc cases), from
\* a list of names of their own (tables), from a list and descriptions of
\* their own (columns), or without the collections (pg_type, pg_settings...).
Shared == {"pg_class", "pg_attribute", "pg_constraint", "pg_index", "jdbc_columns", "jdbc_keys"}
Listed == {"tables"}
Described == {"columns"}
Static == {"pg_type"}
Virtual == Shared \cup Listed \cup Described \cup Static

VARIABLES
  colls,      \* name -> the generation that bears it, 0 when there is none
  lastGen,    \* the latest generation
  todo,       \* the listed names still to be described
  got,        \* the descriptions made from the present list, in order
  listing,    \* a table is being built from a list
  metas,      \* snapshot.metas: <<name, generation>>, numbered by position
  metasDone,
  built,      \* the tables of this execution
  body,       \* table -> its rows, as <<name, generation, OID>>
  seen        \* history: name -> the generations it bore during this execution

snapVars == <<todo, got, listing, metas, metasDone, built, body>>
snapshotVars == <<colls, lastGen, snapVars, seen>>

Meta == Names \X Gens
Present == {n \in Names : colls[n] # 0}

SnapshotTypeOK ==
  /\ colls \in [Names -> 0..MaxGen]
  /\ lastGen \in 0..MaxGen
  /\ todo \in Seq(Names)
  /\ got \in Seq(Meta)
  /\ listing \in BOOLEAN
  /\ metas \in Seq(Meta)
  /\ metasDone \in BOOLEAN
  /\ built \subseteq Virtual
  /\ body \in [Virtual -> SUBSET (Names \X (0..MaxGen) \X Nat)]
  /\ seen \in [Names -> SUBSET (0..MaxGen)]

SnapshotInit ==
  /\ colls = [n \in Names |-> 0]
  /\ lastGen = 0
  /\ todo = <<>> /\ got = <<>> /\ listing = FALSE
  /\ metas = <<>> /\ metasDone = FALSE
  /\ built = {} /\ body = [t \in Virtual |-> {}]
  /\ seen = [n \in Names |-> {}]

(***************************************************************************)
(* The control plane: DDL of other clients, at any time.                   *)
(***************************************************************************)
Create(n) ==
  /\ colls[n] = 0
  /\ lastGen < MaxGen
  /\ lastGen' = lastGen + 1
  /\ colls' = [colls EXCEPT ![n] = lastGen']
  /\ seen' = [seen EXCEPT ![n] = @ \cup {lastGen'}]
  /\ UNCHANGED snapVars

Drop(n) ==
  /\ colls[n] # 0
  /\ colls' = [colls EXCEPT ![n] = 0]
  /\ seen' = [seen EXCEPT ![n] = @ \cup {0}]
  /\ UNCHANGED <<lastGen, snapVars>>

(***************************************************************************)
(* One execution.                                                          *)
(***************************************************************************)
\* Statement.Exec: an empty snapshot.
Fresh ==
  /\ todo' = <<>> /\ got' = <<>> /\ listing' = FALSE
  /\ metas' = <<>> /\ metasDone' = FALSE
  /\ built' = {} /\ body' = [t \in Virtual |-> {}]
  /\ seen' = [n \in Names |-> {colls[n]}]
  /\ UNCHANGED <<colls, lastGen>>

\* The orders in which a list may name a set of collections.
Orders(S) == {s \in [1..Cardinality(S) -> S] : \A i, j \in DOMAIN s : s[i] = s[j] => i = j}

\* The rows a table makes of an ordered list of metadata: the OID of a
\* collection is its position.
Numbered(ms) == {<<ms[i][1], ms[i][2], i>> : i \in DOMAIN ms}

\* (mutant) The shared metadata is read anew for every table.
NeedsListForgetful(t) == t \in Shared \cup Listed \cup Described

\* collectionMetas asks the store once; tables and columns ask for themselves.
NeedsList(t) == t \in Listed \cup Described \/ (t \in Shared /\ ~metasDone)

\* ListCollections.  tables is complete with it.
List(t, order) ==
  /\ t \notin built /\ ~listing /\ NeedsList(t)
  /\ order \in Orders(Present)
  /\ IF t \in Listed
     THEN /\ built' = built \cup {t}
          /\ body' = [body EXCEPT ![t] = {<<n, 0, 0>> : n \in Present}]
          /\ UNCHANGED <<todo, got, listing>>
     ELSE todo' = order /\ got' = <<>> /\ listing' = TRUE /\ UNCHANGED <<built, body>>
  /\ UNCHANGED <<colls, lastGen, metas, metasDone, seen>>

\* Provider.Collection for the next name; a vanished one fails the statement.
Describable == listing /\ todo # <<>> /\ colls[Head(todo)] # 0
Vanished == listing /\ todo # <<>> /\ colls[Head(todo)] = 0

Describe ==
  /\ Describable
  /\ got' = Append(got, <<Head(todo), colls[Head(todo)]>>)
  /\ todo' = Tail(todo)
  /\ UNCHANGED <<colls, lastGen, listing, metas, metasDone, built, body, seen>>

\* Every listed collection is described: the table has its rows.
Shape(t) ==
  /\ t \notin built /\ listing /\ todo = <<>>
  /\ listing' = FALSE
  /\ built' = built \cup {t}
  /\ body' = [body EXCEPT ![t] = Numbered(got)]
  /\ IF t \in Shared THEN metas' = got /\ metasDone' = TRUE ELSE UNCHANGED <<metas, metasDone>>
  /\ UNCHANGED <<colls, lastGen, todo, got, seen>>

\* A table that needs no call: static rows, or the metadata already at hand.
Reuse(t) ==
  /\ t \notin built /\ ~listing /\ ~NeedsList(t)
  /\ built' = built \cup {t}
  /\ body' = [body EXCEPT ![t] = IF t \in Shared THEN Numbered(metas) ELSE {}]
  /\ UNCHANGED <<colls, lastGen, todo, got, listing, metas, metasDone, seen>>

(***************************************************************************)
(* Properties of a snapshot.                                               *)
(***************************************************************************)
\* "pg_class.oid must match pg_attribute.attrelid within one answer": the
\* tables that number collections give a collection one number, and a number
\* to one collection.
OidsAgree ==
  \A t, u \in built \cap Shared : \A r \in body[t], s \in body[u] :
    r[3] = s[3] <=> (r[1] = s[1] /\ r[2] = s[2])

\* A collection that lived unchanged through the whole execution is in every
\* table of it, and a table names only collections that existed at some time
\* during it, as they were at that time.
SeenTrue ==
  \A t \in built \ Static :
    /\ \A n \in Names : \A g \in Gens : seen[n] = {g} => \E r \in body[t] : r[1] = n
    /\ \A r \in body[t] :
         IF t \in Listed THEN seen[r[1]] # {0} ELSE r[2] \in seen[r[1]]
=============================================================================
