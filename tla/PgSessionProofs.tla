--------------------------- MODULE PgSessionProofs ---------------------------
(***************************************************************************)
(* Proofs about PgSession, for every set of collection names, number of    *)
(* generations and set of query strings: its type invariant, what a string *)
(* leaves behind in the store, why a statement may fail, and that the      *)
(* virtual tables of one execution agree with each other and the cluster.  *)
(***************************************************************************)
EXTENDS PgSession, FiniteSetTheorems, SequenceTheorems, TLAPS

(***************************************************************************)
(* The inductive invariant of the snapshot.                                *)
(***************************************************************************)
\* The present generation of every collection is on record.
Recorded == \A n \in Names : colls[n] \in seen[n]

\* A list of metadata names a collection once, as it was at some time of the
\* execution.
TrueMetas(ms) ==
  /\ \A i \in 1..Len(ms) : ms[i][2] \in seen[ms[i][1]]
  /\ \A i, j \in 1..Len(ms) : ms[i][1] = ms[j][1] => i = j

NamesOf(ms) == {ms[i][1] : i \in 1..Len(ms)}
Unchanged(n) == \E g \in Gens : seen[n] = {g}

\* What is listed and what is described already name every collection once that
\* did not change.
ListTrue ==
  /\ TrueMetas(got)
  /\ \A i, j \in 1..Len(todo) : todo[i] = todo[j] => i = j
  /\ \A i \in 1..Len(todo) : todo[i] \notin NamesOf(got)
  /\ \A n \in Names : Unchanged(n) => n \in NamesOf(got) \/ \E i \in 1..Len(todo) : todo[i] = n

\* The shared tables come from one list of that kind.
MetasTrue ==
  /\ metasDone => /\ TrueMetas(metas)
                  /\ \A n \in Names : Unchanged(n) => n \in NamesOf(metas)
  /\ \A t \in built \cap Shared : metasDone /\ body[t] = Numbered(metas)

SnapInv ==
  /\ listing \/ built # {} \/ metasDone => Recorded
  /\ listing => ListTrue
  /\ MetasTrue
  /\ SeenTrue

\* The kinds of virtual tables exclude each other.
LEMMA TableKinds ==
  /\ Shared \cap Listed = {} /\ Shared \cap Described = {} /\ Shared \cap Static = {}
  /\ Listed \cap Described = {} /\ Listed \cap Static = {} /\ Described \cap Static = {}
BY DEF Shared, Listed, Described, Static

\* A list in some order names every collection that is there, and once.
LEMMA OrderComplete ==
  ASSUME NEW S, IsFiniteSet(S), NEW order \in Orders(S)
  PROVE  /\ order \in Seq(S)
         /\ Len(order) = Cardinality(S)
         /\ \A i, j \in 1..Len(order) : order[i] = order[j] => i = j
         /\ \A n \in S : \E i \in 1..Len(order) : order[i] = n
<1> DEFINE c == Cardinality(S)
<1>1. c \in Nat
  BY FS_CardinalityType
<1>2. order \in [1..c -> S] /\ \A i, j \in 1..c : order[i] = order[j] => i = j
  BY DEF Orders
<1> HIDE DEF c
<1>3. order \in Seq(S) /\ Len(order) = c
  BY <1>1, <1>2
<1>4. ASSUME NEW n \in S, \A i \in 1..c : order[i] # n PROVE FALSE
  <2>1. order \in [1..c -> S \ {n}]
    BY <1>2, <1>4
  <2>2. IsFiniteSet(S \ {n}) /\ Cardinality(S \ {n}) = c - 1
    BY <1>4, FS_RemoveElement DEF c
  <2>3. IsFiniteSet(1..c) /\ Cardinality(1..c) = c
    BY <1>1, FS_Interval
  <2>4. Cardinality(S \ {n}) < Cardinality(1..c)
    BY <1>1, <2>2, <2>3
  <2>5. \E x, y \in 1..c : x # y /\ order[x] = order[y]
    BY <2>1, <2>2, <2>3, <2>4, FS_PigeonHole
  <2>6. QED
    BY <1>2, <2>5
<1>5. QED
  BY <1>2, <1>3, <1>4 DEF c

\* The collections there are form a finite set.
LEMMA PresentFinite == IsFiniteSet(Present)
<1>1. Present \in SUBSET Names
  BY DEF Present
<1>2. QED
  BY <1>1, SnapshotAssumption, FS_Subset

\* Numbering gives rows.
LEMMA NumberedType ==
  ASSUME NEW ms \in Seq(Meta)
  PROVE  Numbered(ms) \in SUBSET (Names \X (0..MaxGen) \X Nat)
<1>1. DOMAIN ms = 1..Len(ms) /\ Len(ms) \in Nat /\ \A i \in 1..Len(ms) : ms[i] \in Names \X Gens
  BY DEF Meta
<1>2. ASSUME NEW i \in 1..Len(ms)
      PROVE  <<ms[i][1], ms[i][2], i>> \in Names \X (0..MaxGen) \X Nat
  BY <1>1, SnapshotAssumption DEF Gens
<1>3. QED
  BY <1>1, <1>2 DEF Numbered

\* A new execution starts with an empty snapshot.
LEMMA FreshSnap ==
  ASSUME SnapshotTypeOK, Fresh
  PROVE  SnapshotTypeOK' /\ SnapInv' /\ Recorded' /\ ~listing' /\ todo' = <<>>
<1>1. SnapshotTypeOK'
  <2>1. todo' \in Seq(Names) /\ got' \in Seq(Meta) /\ metas' \in Seq(Meta)
    BY DEF Fresh
  <2>2. seen' \in [Names -> SUBSET (0..MaxGen)]
    BY DEF Fresh, SnapshotTypeOK
  <2>3. QED
    BY <2>1, <2>2 DEF SnapshotTypeOK, Fresh
<1>2. Recorded'
  BY DEF SnapshotTypeOK, Fresh, Recorded
<1>3. MetasTrue' /\ SeenTrue' /\ ~listing' /\ todo' = <<>>
  BY DEF Fresh, MetasTrue, SeenTrue
<1>4. QED
  BY <1>1, <1>2, <1>3 DEF SnapInv

LEMMA SnapFrame ==
  ASSUME SnapshotTypeOK, SnapInv, UNCHANGED snapshotVars
  PROVE  SnapshotTypeOK' /\ SnapInv' /\ (Recorded => Recorded')
<1> USE DEF snapshotVars, snapVars
<1>1. SnapshotTypeOK'
  BY DEF SnapshotTypeOK
<1>2. (Recorded => Recorded') /\ SeenTrue'
  BY DEF Recorded, SnapInv, SeenTrue
<1>3. listing => ListTrue'
  BY DEF SnapInv, ListTrue, TrueMetas, NamesOf, Unchanged
<1>4. MetasTrue'
  BY DEF SnapInv, MetasTrue, TrueMetas, NamesOf, Unchanged, Numbered
<1>5. QED
  BY <1>1, <1>2, <1>3, <1>4 DEF SnapInv

\* DDL during an execution only adds to what collections were: a collection that
\* did not change since had not changed before, and what was true stays so.
LEMMA DdlSnap ==
  ASSUME SnapshotTypeOK, SnapInv, NEW n \in Names, Create(n) \/ Drop(n)
  PROVE  SnapshotTypeOK' /\ SnapInv' /\ (Recorded => Recorded')
<1> USE SnapshotAssumption
<1>1. /\ seen \in [Names -> SUBSET (0..MaxGen)] /\ colls \in [Names -> 0..MaxGen]
      /\ built \subseteq Virtual /\ body \in [Virtual -> SUBSET (Names \X (0..MaxGen) \X Nat)]
      /\ got \in Seq(Meta) /\ metas \in Seq(Meta)
  BY DEF SnapshotTypeOK
<1>2. PICK g \in 0..MaxGen : /\ colls' = [colls EXCEPT ![n] = g]
                             /\ seen' = [seen EXCEPT ![n] = @ \cup {g}]
                             /\ lastGen' \in 0..MaxGen
                             /\ UNCHANGED snapVars
  <2>1. CASE Create(n)
    <3>1. lastGen + 1 \in 0..MaxGen
      BY <2>1 DEF Create, SnapshotTypeOK
    <3>2. QED
      BY <2>1, <3>1 DEF Create
  <2>2. CASE Drop(n)
    <3>1. 0 \in 0..MaxGen /\ lastGen \in 0..MaxGen
      BY DEF SnapshotTypeOK
    <3>2. QED
      BY <2>2, <3>1 DEF Drop
  <2>3. QED
    BY <2>1, <2>2
<1>3. SnapshotTypeOK'
  BY <1>1, <1>2 DEF SnapshotTypeOK, snapVars
<1>4. \A m \in Names : seen[m] \subseteq seen'[m]
  BY <1>1, <1>2
<1>5. Recorded => Recorded'
  BY <1>1, <1>2 DEF Recorded
<1>6. ASSUME Recorded, NEW m \in Names, Unchanged(m)' PROVE Unchanged(m)
  <2>1. PICK h \in Gens : seen'[m] = {h}
    BY <1>6 DEF Unchanged
  <2>2. colls[m] \in seen[m]
    BY <1>6 DEF Recorded
  <2>3. seen[m] = {h}
    BY <1>4, <2>1, <2>2
  <2>4. QED
    BY <2>3 DEF Unchanged
<1>7. ASSUME NEW ms \in Seq(Meta), TrueMetas(ms) PROVE TrueMetas(ms)'
  <2>1. \A i \in 1..Len(ms) : ms[i][1] \in Names
    BY DEF Meta
  <2>2. QED
    BY <1>4, <1>7, <2>1 DEF TrueMetas
<1>8. ASSUME listing PROVE ListTrue'
  <2>1. Recorded /\ ListTrue
    BY <1>8 DEF SnapInv
  <2>2. TrueMetas(got)' /\ got' = got /\ todo' = todo
    BY <1>1, <1>2, <1>7, <2>1 DEF ListTrue, TrueMetas, snapVars
  <2>3. NamesOf(got)' = NamesOf(got)
    BY <2>2 DEF NamesOf
  <2>4. QED
    BY <1>6, <2>1, <2>2, <2>3 DEF ListTrue
<1>9. MetasTrue'
  <2>1. UNCHANGED <<metas, metasDone, built, body>> /\ (metasDone => Recorded) /\ MetasTrue
    BY <1>2 DEF snapVars, SnapInv
  <2>2. metasDone => TrueMetas(metas)'
    BY <1>1, <1>7, <2>1 DEF MetasTrue, TrueMetas
  <2>3. NamesOf(metas)' = NamesOf(metas) /\ Numbered(metas)' = Numbered(metas)
    BY <2>1 DEF NamesOf, Numbered
  <2>4. QED
    BY <1>6, <2>1, <2>2, <2>3 DEF MetasTrue
<1>10. SeenTrue'
  <2>1. UNCHANGED <<built, body>> /\ SeenTrue
    BY <1>2 DEF snapVars, SnapInv
  <2> SUFFICES ASSUME NEW t \in built \ Static
               PROVE  /\ \A m \in Names : \A h \in Gens : seen'[m] = {h} => \E r \in body[t] : r[1] = m
                      /\ \A r \in body[t] :
                           IF t \in Listed THEN seen'[r[1]] # {0} ELSE r[2] \in seen'[r[1]]
    BY <2>1 DEF SeenTrue
  <2>2. Recorded
    BY DEF SnapInv
  <2>3. ASSUME NEW m \in Names, NEW h \in Gens, seen'[m] = {h}
        PROVE  \E r \in body[t] : r[1] = m
    BY <1>6, <2>1, <2>2, <2>3 DEF SeenTrue, Unchanged
  <2>4. ASSUME NEW r \in body[t]
        PROVE  IF t \in Listed THEN seen'[r[1]] # {0} ELSE r[2] \in seen'[r[1]]
    <3>1. r[1] \in Names
      BY <1>1
    <3>2. CASE t \in Listed
      <4>1. seen[r[1]] # {0} /\ seen[r[1]] # {}
        BY <2>1, <2>2, <3>1, <3>2 DEF SeenTrue, Recorded
      <4>2. PICK h \in seen[r[1]] : h # 0
        BY <4>1
      <4>3. h \in seen'[r[1]]
        BY <1>4, <3>1
      <4>4. QED
        BY <3>2, <4>2, <4>3
    <3>3. CASE t \notin Listed
      BY <1>4, <2>1, <3>1, <3>3 DEF SeenTrue
    <3>4. QED
      BY <3>2, <3>3
  <2>5. QED
    BY <2>3, <2>4
<1>11. UNCHANGED <<listing, built, metasDone>>
  BY <1>2 DEF snapVars
<1>12. QED
  BY <1>3, <1>5, <1>8, <1>9, <1>10, <1>11 DEF SnapInv

(***************************************************************************)
(* The steps of one execution.                                             *)
(***************************************************************************)

\* ListCollections: the list names every collection that is there.
LEMMA ListSnap ==
  ASSUME SnapshotTypeOK, SnapInv, Recorded, NEW t \in Virtual, NEW order \in Orders(Present),
         List(t, order)
  PROVE  /\ SnapshotTypeOK' /\ SnapInv' /\ Recorded'
         /\ t \in Listed => UNCHANGED <<listing, todo, metasDone>>
         /\ t \notin Listed => /\ listing' /\ UNCHANGED <<built, metasDone>>
                               /\ todo' \in Seq(Present)
<1> USE SnapshotAssumption
<1>1. /\ order \in Seq(Present) /\ Len(order) \in Nat
      /\ \A i, j \in 1..Len(order) : order[i] = order[j] => i = j
      /\ \A n \in Present : \E i \in 1..Len(order) : order[i] = n
  BY PresentFinite, OrderComplete
<1>2. order \in Seq(Names)
  BY <1>1 DEF Present
<1>3. UNCHANGED <<colls, lastGen, metas, metasDone, seen>>
  BY DEF List
<1>4. ASSUME NEW n \in Names, Unchanged(n) PROVE n \in Present
  BY <1>4 DEF Unchanged, Recorded, Present, Gens
<1>5. CASE t \in Listed
  <2>1. /\ built' = built \cup {t}
        /\ body' = [body EXCEPT ![t] = {<<n, 0, 0>> : n \in Present}]
        /\ UNCHANGED <<todo, got, listing>>
    BY <1>5 DEF List
  <2>2. SnapshotTypeOK'
    <3>1. {<<n, 0, 0>> : n \in Present} \in SUBSET (Names \X (0..MaxGen) \X Nat)
      BY DEF Present
    <3>2. QED
      BY <1>3, <2>1, <3>1 DEF SnapshotTypeOK
  <2>3. MetasTrue'
    <3>1. built' \cap Shared = built \cap Shared /\ \A u \in built \cap Shared : body'[u] = body[u]
      BY <1>5, <2>1, TableKinds DEF SnapshotTypeOK
    <3>2. QED
      BY <1>3, <3>1 DEF SnapInv, MetasTrue, TrueMetas, NamesOf, Unchanged, Numbered
  <2>4. SeenTrue'
    <3> SUFFICES ASSUME NEW u \in built' \ Static
                 PROVE  /\ \A n \in Names : \A g \in Gens : seen[n] = {g} => \E r \in body'[u] : r[1] = n
                        /\ \A r \in body'[u] :
                             IF u \in Listed THEN seen[r[1]] # {0} ELSE r[2] \in seen[r[1]]
      BY <1>3 DEF SeenTrue
    <3>1. CASE u = t
      <4>1. body'[u] = {<<n, 0, 0>> : n \in Present}
        BY <2>1, <3>1 DEF SnapshotTypeOK
      <4>2. ASSUME NEW n \in Names, NEW g \in Gens, seen[n] = {g}
            PROVE  \E r \in body'[u] : r[1] = n
        <5>1. <<n, 0, 0>> \in body'[u]
          BY <1>4, <4>1, <4>2 DEF Unchanged
        <5>2. QED
          BY <5>1
      <4>3. ASSUME NEW r \in body'[u] PROVE seen[r[1]] # {0}
        BY <4>1 DEF Present, Recorded
      <4>4. QED
        BY <1>5, <3>1, <4>2, <4>3
    <3>2. CASE u # t
      <4>1. u \in built \ Static /\ body'[u] = body[u]
        BY <2>1, <3>2 DEF SnapshotTypeOK
      <4>2. QED
        BY <4>1 DEF SnapInv, SeenTrue
    <3>3. QED
      BY <3>1, <3>2
  <2>5. Recorded' /\ (listing => ListTrue')
    BY <1>3, <2>1 DEF SnapInv, Recorded, ListTrue, TrueMetas, NamesOf, Unchanged
  <2>6. QED
    BY <1>3, <1>5, <2>1, <2>2, <2>3, <2>4, <2>5 DEF SnapInv
<1>6. CASE t \notin Listed
  <2>1. todo' = order /\ got' = <<>> /\ listing' = TRUE /\ UNCHANGED <<built, body>>
    BY <1>6 DEF List
  <2>2. SnapshotTypeOK'
    BY <1>2, <1>3, <2>1 DEF SnapshotTypeOK
  <2>3. ListTrue'
    <3>1. Len(got') = 0
      BY <2>1
    <3>2. \A n \in Names : Unchanged(n)' = Unchanged(n)
      BY <1>3 DEF Unchanged
    <3>3. TrueMetas(got)' /\ NamesOf(got)' = {}
      BY <3>1 DEF TrueMetas, NamesOf
    <3>4. \A n \in Names : Unchanged(n)' => \E i \in 1..Len(todo') : todo'[i] = n
      BY <1>1, <1>4, <2>1, <3>2
    <3>5. QED
      BY <1>1, <2>1, <3>3, <3>4 DEF ListTrue
  <2>4. MetasTrue' /\ SeenTrue' /\ Recorded'
    BY <1>3, <2>1 DEF SnapInv, MetasTrue, SeenTrue, Recorded, TrueMetas, NamesOf, Unchanged, Numbered
  <2>5. QED
    BY <1>1, <1>3, <1>6, <2>1, <2>2, <2>3, <2>4 DEF SnapInv
<1>7. QED
  BY <1>5, <1>6

\* Provider.Collection: the next name of the list becomes metadata.
LEMMA DescribeSnap ==
  ASSUME SnapshotTypeOK, SnapInv, Recorded, Describe
  PROVE  /\ SnapshotTypeOK' /\ SnapInv' /\ Recorded'
         /\ UNCHANGED <<colls, built, metasDone>>
         /\ listing /\ Len(todo') \in Nat /\ \A i \in 1..Len(todo') : \E j \in 1..Len(todo) : todo'[i] = todo[j]
<1> USE SnapshotAssumption
<1>1. /\ listing /\ todo # <<>> /\ colls[Head(todo)] # 0
      /\ got' = Append(got, <<Head(todo), colls[Head(todo)]>>)
      /\ todo' = Tail(todo)
      /\ UNCHANGED <<colls, lastGen, listing, metas, metasDone, built, body, seen>>
  BY DEF Describe, Describable
<1>2. todo \in Seq(Names) /\ got \in Seq(Meta) /\ Len(todo) \in Nat /\ Len(got) \in Nat
  BY DEF SnapshotTypeOK
<1>3. /\ Head(todo) \in Names /\ Head(todo) = todo[1] /\ 1 \in 1..Len(todo)
      /\ todo' \in Seq(Names) /\ Len(todo') = Len(todo) - 1
      /\ \A i \in 1..Len(todo') : todo'[i] = todo[i + 1]
  BY <1>1, <1>2, HeadTailProperties
<1> DEFINE m == <<Head(todo), colls[Head(todo)]>>
<1>4. m \in Meta /\ m[1] = todo[1] /\ m[2] = colls[todo[1]]
  BY <1>1, <1>3 DEF SnapshotTypeOK, Meta, Gens
<1> HIDE DEF m
<1>5. /\ got' \in Seq(Meta) /\ Len(got') = Len(got) + 1
      /\ \A i \in 1..Len(got) : got'[i] = got[i]
      /\ got'[Len(got) + 1] = m
  BY <1>1, <1>2, <1>4, AppendProperties DEF m
<1>6. SnapshotTypeOK'
  BY <1>1, <1>3, <1>5 DEF SnapshotTypeOK
<1>7. ListTrue /\ TrueMetas(got)
  BY <1>1 DEF SnapInv, ListTrue
<1>8. \A i \in 1..Len(got) : got[i][1] # todo[1]
  BY <1>3, <1>7 DEF ListTrue, NamesOf
<1>9. TrueMetas(got)'
  <2>1. ASSUME NEW i \in 1..Len(got') PROVE got'[i][2] \in seen[got'[i][1]]
    <3>1. CASE i \in 1..Len(got)
      BY <1>5, <1>7, <3>1 DEF TrueMetas
    <3>2. CASE i = Len(got) + 1
      BY <1>3, <1>4, <1>5, <3>2 DEF Recorded
    <3>3. QED
      BY <1>2, <1>5, <3>1, <3>2
  <2>2. ASSUME NEW i \in 1..Len(got'), NEW j \in 1..Len(got'), got'[i][1] = got'[j][1]
        PROVE  i = j
    <3>1. (i \in 1..Len(got) \/ i = Len(got) + 1) /\ (j \in 1..Len(got) \/ j = Len(got) + 1)
      BY <1>2, <1>5
    <3>2. QED
      BY <1>4, <1>5, <1>7, <1>8, <2>2, <3>1 DEF TrueMetas
  <2>3. QED
    BY <1>1, <2>1, <2>2 DEF TrueMetas
<1>10. NamesOf(got)' = NamesOf(got) \cup {todo[1]}
  <2>1. ASSUME NEW n \in NamesOf(got)' PROVE n \in NamesOf(got) \cup {todo[1]}
    <3>1. PICK i \in 1..Len(got') : n = got'[i][1]
      BY <2>1 DEF NamesOf
    <3>2. i \in 1..Len(got) \/ i = Len(got) + 1
      BY <1>2, <1>5
    <3>3. QED
      BY <1>4, <1>5, <3>1, <3>2 DEF NamesOf
  <2>2. ASSUME NEW n \in NamesOf(got) PROVE n \in NamesOf(got)'
    <3>1. PICK i \in 1..Len(got) : n = got[i][1]
      BY <2>2 DEF NamesOf
    <3>2. i \in 1..Len(got')
      BY <1>2, <1>5
    <3>3. QED
      BY <1>5, <3>1, <3>2 DEF NamesOf
  <2>3. todo[1] \in NamesOf(got)'
    <3>1. Len(got) + 1 \in 1..Len(got')
      BY <1>2, <1>5
    <3>2. QED
      BY <1>4, <1>5, <3>1 DEF NamesOf
  <2>4. QED
    BY <2>1, <2>2, <2>3
<1>11. \A i \in 1..Len(todo') : i + 1 \in 1..Len(todo) /\ i + 1 # 1
  BY <1>2, <1>3
<1>12. ListTrue'
  <2>1. ASSUME NEW i \in 1..Len(todo'), NEW j \in 1..Len(todo'), todo'[i] = todo'[j]
        PROVE  i = j
    <3>1. i + 1 = j + 1
      BY <1>3, <1>7, <1>11, <2>1 DEF ListTrue
    <3>2. QED
      BY <3>1
  <2>2. ASSUME NEW i \in 1..Len(todo') PROVE todo'[i] \notin NamesOf(got)'
    <3>1. todo'[i] = todo[i + 1] /\ i + 1 \in 1..Len(todo) /\ i + 1 # 1
      BY <1>3, <1>11
    <3>2. todo[i + 1] # todo[1] /\ todo[i + 1] \notin NamesOf(got)
      BY <1>3, <1>7, <3>1 DEF ListTrue
    <3>3. QED
      BY <1>10, <3>1, <3>2
  <2>3. ASSUME NEW n \in Names, Unchanged(n)'
        PROVE  n \in NamesOf(got)' \/ \E i \in 1..Len(todo') : todo'[i] = n
    <3>1. Unchanged(n)
      BY <1>1, <2>3 DEF Unchanged
    <3>2. CASE n \in NamesOf(got)
      BY <1>10, <3>2
    <3>3. CASE \E i \in 1..Len(todo) : todo[i] = n
      <4>1. PICK i \in 1..Len(todo) : todo[i] = n
        BY <3>3
      <4>2. CASE i = 1
        BY <1>10, <4>1, <4>2
      <4>3. CASE i # 1
        <5>1. i - 1 \in 1..Len(todo') /\ (i - 1) + 1 = i
          BY <1>2, <1>3, <4>3
        <5>2. todo'[i - 1] = todo[i]
          BY <1>3, <5>1
        <5>3. QED
          BY <4>1, <5>1, <5>2
      <4>4. QED
        BY <4>2, <4>3
    <3>4. QED
      BY <1>7, <3>1, <3>2, <3>3 DEF ListTrue
  <2>4. QED
    BY <1>9, <2>1, <2>2, <2>3 DEF ListTrue
<1>13. MetasTrue' /\ SeenTrue' /\ Recorded'
  BY <1>1 DEF SnapInv, MetasTrue, SeenTrue, Recorded, TrueMetas, NamesOf, Unchanged, Numbered
<1>14. \A i \in 1..Len(todo') : \E j \in 1..Len(todo) : todo'[i] = todo[j]
  BY <1>3, <1>11
<1>15. QED
  BY <1>1, <1>2, <1>3, <1>6, <1>12, <1>13, <1>14 DEF SnapInv

\* The rows numbered from a true and complete list are true and complete.
LEMMA NumberedTrue ==
  ASSUME SnapshotTypeOK, NEW ms \in Seq(Meta), TrueMetas(ms),
         \A n \in Names : Unchanged(n) => n \in NamesOf(ms)
  PROVE  /\ \A n \in Names : \A g \in Gens : seen[n] = {g} => \E r \in Numbered(ms) : r[1] = n
         /\ \A r \in Numbered(ms) : r[2] \in seen[r[1]] /\ seen[r[1]] # {0}
<1>1. DOMAIN ms = 1..Len(ms) /\ \A i \in 1..Len(ms) : ms[i] \in Names \X Gens
  BY DEF Meta
<1>2. ASSUME NEW n \in Names, NEW g \in Gens, seen[n] = {g}
      PROVE  \E r \in Numbered(ms) : r[1] = n
  <2>1. PICK i \in 1..Len(ms) : n = ms[i][1]
    BY <1>2 DEF Unchanged, NamesOf
  <2>2. <<ms[i][1], ms[i][2], i>> \in Numbered(ms)
    BY <1>1 DEF Numbered
  <2>3. QED
    BY <2>1, <2>2
<1>3. ASSUME NEW r \in Numbered(ms) PROVE r[2] \in seen[r[1]] /\ seen[r[1]] # {0}
  <2>1. PICK i \in 1..Len(ms) : r = <<ms[i][1], ms[i][2], i>>
    BY <1>1 DEF Numbered
  <2>2. r[1] = ms[i][1] /\ r[2] = ms[i][2]
    BY <2>1
  <2>3. r[2] \in seen[r[1]]
    BY <2>2 DEF TrueMetas
  <2>4. r[2] # 0
    BY <1>1, <2>2, SnapshotAssumption DEF Gens
  <2>5. QED
    BY <2>3, <2>4
<1>4. QED
  BY <1>2, <1>3

\* A table built of rows that are true and complete keeps the snapshot true.
LEMMA BuildSeen ==
  ASSUME SnapshotTypeOK, SeenTrue, NEW t \in Virtual, NEW rows,
         built' = built \cup {t}, body' = [body EXCEPT ![t] = rows], seen' = seen,
         t \notin Static =>
           /\ \A n \in Names : \A g \in Gens : seen[n] = {g} => \E r \in rows : r[1] = n
           /\ \A r \in rows : r[2] \in seen[r[1]] /\ seen[r[1]] # {0}
  PROVE  SeenTrue'
<1> SUFFICES ASSUME NEW u \in built' \ Static
             PROVE  /\ \A n \in Names : \A g \in Gens : seen[n] = {g} => \E r \in body'[u] : r[1] = n
                    /\ \A r \in body'[u] :
                         IF u \in Listed THEN seen[r[1]] # {0} ELSE r[2] \in seen[r[1]]
  BY DEF SeenTrue
<1>1. CASE u = t
  <2>1. body'[u] = rows
    BY <1>1 DEF SnapshotTypeOK
  <2>2. QED
    BY <1>1, <2>1
<1>2. CASE u # t
  <2>1. u \in built \ Static /\ body'[u] = body[u]
    BY <1>2 DEF SnapshotTypeOK
  <2>2. QED
    BY <2>1 DEF SeenTrue
<1>3. QED
  BY <1>1, <1>2

\* Every listed collection is described: the table takes the list, and so does
\* the shared metadata if the table is the first that needs it.
LEMMA ShapeSnap ==
  ASSUME SnapshotTypeOK, SnapInv, Recorded, NEW t \in Virtual, Shape(t), NeedsList(t)
  PROVE  SnapshotTypeOK' /\ SnapInv' /\ Recorded' /\ ~listing' /\ UNCHANGED <<colls, todo>>
<1>1. /\ listing /\ todo = <<>> /\ ~listing'
      /\ built' = built \cup {t}
      /\ body' = [body EXCEPT ![t] = Numbered(got)]
      /\ IF t \in Shared THEN metas' = got /\ metasDone' = TRUE ELSE UNCHANGED <<metas, metasDone>>
      /\ UNCHANGED <<colls, lastGen, todo, got, seen>>
  BY DEF Shape
<1>2. /\ got \in Seq(Meta) /\ TrueMetas(got)
      /\ \A n \in Names : Unchanged(n) => n \in NamesOf(got)
  BY <1>1 DEF SnapshotTypeOK, SnapInv, ListTrue
<1>3. SnapshotTypeOK'
  <2>1. Numbered(got) \in SUBSET (Names \X (0..MaxGen) \X Nat)
    BY <1>2, NumberedType
  <2>2. body' \in [Virtual -> SUBSET (Names \X (0..MaxGen) \X Nat)]
    BY <1>1, <2>1 DEF SnapshotTypeOK
  <2>3. metas' \in Seq(Meta) /\ metasDone' \in BOOLEAN
    BY <1>1 DEF SnapshotTypeOK
  <2>4. listing' \in BOOLEAN
    BY DEF Shape
  <2>5. QED
    BY <1>1, <2>2, <2>3, <2>4 DEF SnapshotTypeOK
<1>4. SeenTrue'
  BY <1>1, <1>2, NumberedTrue, BuildSeen DEF SnapInv
<1>5. MetasTrue'
  <2>1. \A n \in Names : Unchanged(n)' = Unchanged(n)
    BY <1>1 DEF Unchanged
  <2>2. CASE t \in Shared
    <3>1. built \cap Shared = {}
      BY <2>2, TableKinds DEF NeedsList, SnapInv, MetasTrue
    <3>2. built' \cap Shared = {t} /\ body'[t] = Numbered(got) /\ metas' = got
      BY <1>1, <2>2, <3>1 DEF SnapshotTypeOK
    <3>3. TrueMetas(metas)' /\ NamesOf(metas)' = NamesOf(got) /\ Numbered(metas)' = Numbered(got)
      BY <1>1, <1>2, <3>2 DEF TrueMetas, NamesOf, Numbered
    <3>4. QED
      BY <1>1, <1>2, <2>1, <2>2, <3>2, <3>3 DEF MetasTrue
  <2>3. CASE t \notin Shared
    <3>1. built' \cap Shared = built \cap Shared /\ \A u \in built \cap Shared : body'[u] = body[u]
      BY <1>1, <2>3 DEF SnapshotTypeOK
    <3>2. QED
      BY <1>1, <2>1, <2>3, <3>1 DEF SnapInv, MetasTrue, TrueMetas, NamesOf, Numbered
  <2>4. QED
    BY <2>2, <2>3
<1>6. Recorded'
  BY <1>1 DEF Recorded
<1>7. QED
  BY <1>1, <1>3, <1>4, <1>5, <1>6 DEF SnapInv

\* A table from the metadata at hand, or from none.
LEMMA ReuseSnap ==
  ASSUME SnapshotTypeOK, SnapInv, Recorded, NEW t \in Virtual, Reuse(t)
  PROVE  SnapshotTypeOK' /\ SnapInv' /\ Recorded' /\ ~listing' /\ UNCHANGED <<colls, todo>>
<1> DEFINE rows == IF t \in Shared THEN Numbered(metas) ELSE {}
<1>1. /\ ~listing /\ ~NeedsList(t)
      /\ built' = built \cup {t}
      /\ body' = [body EXCEPT ![t] = rows]
      /\ UNCHANGED <<colls, lastGen, todo, got, listing, metas, metasDone, seen>>
  BY DEF Reuse
<1>2. t \in Shared \cup Static /\ (t \in Shared => metasDone)
  BY <1>1 DEF NeedsList, Virtual
<1>3. metas \in Seq(Meta)
  BY DEF SnapshotTypeOK
<1>4. t \in Shared => TrueMetas(metas) /\ \A n \in Names : Unchanged(n) => n \in NamesOf(metas)
  BY <1>2 DEF SnapInv, MetasTrue
<1>5. SnapshotTypeOK'
  <2>1. rows \in SUBSET (Names \X (0..MaxGen) \X Nat)
    BY <1>3, NumberedType
  <2>2. QED
    BY <1>1, <2>1 DEF SnapshotTypeOK
<1>6. SeenTrue'
  <2>1. t \notin Static => rows = Numbered(metas) /\ t \in Shared
    BY <1>2
  <2> HIDE DEF rows
  <2>2. t \notin Static =>
          /\ \A n \in Names : \A g \in Gens : seen[n] = {g} => \E r \in rows : r[1] = n
          /\ \A r \in rows : r[2] \in seen[r[1]] /\ seen[r[1]] # {0}
    BY <1>3, <1>4, <2>1, NumberedTrue
  <2>3. QED
    BY <1>1, <2>2, BuildSeen DEF SnapInv
<1>7. MetasTrue'
  <2>1. \A u \in built' \cap Shared : metasDone /\ body'[u] = Numbered(metas)
    BY <1>1, <1>2 DEF SnapInv, MetasTrue, SnapshotTypeOK
  <2>2. Numbered(metas)' = Numbered(metas) /\ NamesOf(metas)' = NamesOf(metas)
    BY <1>1 DEF Numbered, NamesOf
  <2>3. QED
    BY <1>1, <2>1, <2>2 DEF SnapInv, MetasTrue, TrueMetas, Unchanged
<1>8. Recorded'
  BY <1>1 DEF Recorded
<1>9. QED
  BY <1>1, <1>5, <1>6, <1>7, <1>8 DEF SnapInv

\* Tables that come from one list agree on the numbers of the collections.
LEMMA SnapOids ==
  ASSUME SnapshotTypeOK, SnapInv PROVE OidsAgree
<1> SUFFICES ASSUME NEW t \in built \cap Shared, NEW u \in built \cap Shared,
                    NEW r \in body[t], NEW s \in body[u]
             PROVE  r[3] = s[3] <=> (r[1] = s[1] /\ r[2] = s[2])
  BY DEF OidsAgree
<1>1. r \in Numbered(metas) /\ s \in Numbered(metas) /\ TrueMetas(metas)
  BY DEF SnapInv, MetasTrue
<1>2. metas \in Seq(Meta) /\ DOMAIN metas = 1..Len(metas)
  BY DEF SnapshotTypeOK
<1>3. PICK i \in 1..Len(metas) : r = <<metas[i][1], metas[i][2], i>>
  BY <1>1, <1>2 DEF Numbered
<1>4. PICK j \in 1..Len(metas) : s = <<metas[j][1], metas[j][2], j>>
  BY <1>1, <1>2 DEF Numbered
<1>5. QED
  BY <1>1, <1>3, <1>4 DEF TrueMetas

\* A set of numbers that is not empty has a smallest one.
LEMMA SmallestOf ==
  ASSUME NEW T, T \subseteq Nat, T # {}
  PROVE  \E x \in T : \A y \in T : x <= y
<1>1. PICK x \in T : \A y \in T : ~(<<y, x>> \in OpToRel(<, Nat))
  BY NatLessThanWellFounded, WFMin, Zenon
<1>2. \A y \in T : ~(y < x)
  BY <1>1 DEF OpToRel
<1>3. \A y \in T : x <= y
  BY <1>2
<1>4. QED
  BY <1>3

(***************************************************************************)
(* The inductive invariant of the session.                                 *)
(***************************************************************************)
\* The statement at hand is the one after those that completed, and every plan
\* was made for the statement at its place.
SessionShape ==
  /\ phase = "parse" => answered = 0
  /\ phase \in {"run", "failed"} => part = answered + 1
  /\ phase \in {"run", "done", "failed"} => Len(plans) = Len(string)
  /\ Len(plans) <= Len(string)
  /\ \A i \in 1..Len(plans) : plans[i].route = RouteOf(string[i])

\* As long as nobody touched the collections, they are what reads were planned
\* against and what the list that is being described says.
PlansFresh ==
  touched = {} =>
    /\ \A i \in 1..Len(plans) : plans[i].route = "read" =>
         plans[i].gen # 0 /\ colls[string[i].name] = plans[i].gen
    /\ phase = "run" => \A i \in 1..Len(todo) : colls[todo[i]] # 0

\* A list is made for the table that the running catalog query builds next.
RunShape ==
  phase = "run" =>
    /\ Recorded
    /\ listing => plans[part].route = "catalog" /\ Unbuilt # {} /\ NeedsList(Current)

IInv ==
  /\ TypeOK
  /\ SessionShape
  /\ AppliedPrefix
  /\ PlansFresh
  /\ FailsForCause
  /\ RunShape
  /\ SnapInv

\* The types in the form the steps use them.
LEMMA Typed ==
  ASSUME TypeOK
  PROVE  /\ SnapshotTypeOK
         /\ string \in Seq(Statement) /\ Len(string) \in Nat
         /\ plans \in Seq(Plan) /\ Len(plans) \in Nat
         /\ \A i \in 1..Len(string) : string[i] \in Statement
         /\ \A i \in 1..Len(plans) : plans[i] \in Plan
         /\ Writes \subseteq Nat /\ Writes \subseteq 1..Len(string)
<1>1. string \in Seq(Statement)
  <2>1. CASE string \in Strings
    BY <2>1, SessionAssumption
  <2>2. CASE string = <<>>
    BY <2>2, EmptySeq
  <2>3. QED
    BY <2>1, <2>2 DEF TypeOK
<1>2. plans \in Seq(Plan)
  BY DEF TypeOK
<1>3. Len(string) \in Nat /\ DOMAIN string = 1..Len(string) /\ \A i \in 1..Len(string) : string[i] \in Statement
  BY <1>1, LenProperties
<1>4. Len(plans) \in Nat /\ \A i \in 1..Len(plans) : plans[i] \in Plan
  BY <1>2, LenProperties
<1>5. Writes \subseteq 1..Len(string)
  BY <1>3 DEF Writes
<1>6. QED
  BY <1>1, <1>2, <1>3, <1>4, <1>5 DEF TypeOK

\* Which statements take which route, and what their plans hold.
LEMMA Routed ==
  ASSUME NEW st \in Statement
  PROVE  /\ RouteOf(st) \in Routes
         /\ RouteOf(st) \in {"insert", "update"} <=> st.kind \in {"insert", "update"}
         /\ RouteOf(st) \in {"ack", "catalog"} => TablesOf(st) \in Seq(Virtual)
         /\ RouteOf(st) = "update" <=> st.kind = "update"
         /\ RouteOf(st) = "read" => st.name \in Names /\ st.kind = "select"
         /\ RouteOf(st) = "catalog" => st.kind \in {"select", "catalog"}
<1>1. /\ st.kind \in {"session", "catalog", "select", "insert", "update"}
      /\ st.name \in Names \cup Virtual /\ st.tables \in Seq(Virtual)
  BY DEF Statement
<1>2. RouteOf(st) \in Routes
  BY <1>1 DEF RouteOf, Routes
<1>3. RouteOf(st) \in {"insert", "update"} <=> st.kind \in {"insert", "update"}
  BY <1>1 DEF RouteOf
<1>4. /\ RouteOf(st) = "read" => st.name \in Names /\ st.kind = "select"
      /\ RouteOf(st) = "catalog" => st.kind \in {"select", "catalog"}
      /\ RouteOf(st) = "update" <=> st.kind = "update"
  BY <1>1 DEF RouteOf
<1>5. ASSUME RouteOf(st) \in {"ack", "catalog"} PROVE TablesOf(st) \in Seq(Virtual)
  <2>1. CASE st.kind = "catalog"
    BY <1>1, <2>1 DEF TablesOf
  <2>2. CASE st.kind = "select"
    <3>1. st.name \in Virtual
      BY <1>5, <2>2 DEF RouteOf
    <3>2. QED
      BY <2>2, <3>1 DEF TablesOf
  <2>3. CASE st.kind \notin {"catalog", "select"}
    BY <2>3 DEF TablesOf
  <2>4. QED
    BY <2>1, <2>2, <2>3
<1>6. QED
  BY <1>2, <1>3, <1>4, <1>5

LEMMA InitInv == Init => IInv
<1> SUFFICES ASSUME Init PROVE IInv
  OBVIOUS
<1> USE SnapshotAssumption
<1>1. SnapshotTypeOK
  <2>1. todo \in Seq(Names) /\ got \in Seq(Meta) /\ metas \in Seq(Meta)
    BY DEF Init, SnapshotInit
  <2>2. colls \in [Names -> 0..MaxGen] /\ lastGen \in 0..MaxGen
    BY DEF Init, SnapshotInit
  <2>3. body \in [Virtual -> SUBSET (Names \X (0..MaxGen) \X Nat)]
    BY DEF Init, SnapshotInit
  <2>4. seen \in [Names -> SUBSET (0..MaxGen)]
    BY DEF Init, SnapshotInit
  <2>5. listing \in BOOLEAN /\ metasDone \in BOOLEAN /\ built \subseteq Virtual
    BY DEF Init, SnapshotInit
  <2>6. QED
    BY <2>1, <2>2, <2>3, <2>4, <2>5 DEF SnapshotTypeOK
<1>2. SnapInv
  BY DEF Init, SnapshotInit, SnapInv, MetasTrue, SeenTrue
<1>3. TypeOK
  <2>1. plans \in Seq(Plan) /\ part \in Nat /\ answered \in Nat
    BY DEF Init
  <2>2. QED
    BY <1>1, <2>1 DEF Init, TypeOK, Resting, Steps
<1>4. SessionShape /\ AppliedPrefix /\ PlansFresh /\ FailsForCause /\ RunShape
  BY DEF Init, SessionShape, AppliedPrefix, PlansFresh, FailsForCause, RunShape
<1>5. QED
  BY <1>2, <1>3, <1>4 DEF IInv

\* A string arrives at a session at rest.
LEMMA ReceiveInv ==
  ASSUME IInv, NEW s \in Strings, Receive(s) PROVE IInv'
<1>1. /\ phase' = "parse" /\ string' = s /\ part' = 1 /\ plans' = <<>>
      /\ step' = "start" /\ applied' = {} /\ vacant' = {} /\ answered' = 0
      /\ faulted' = FALSE /\ touched' = {}
      /\ UNCHANGED snapshotVars
  BY DEF Receive
<1>2. SnapshotTypeOK' /\ SnapInv'
  BY <1>1, SnapFrame DEF IInv, TypeOK
<1>3. s \in Seq(Statement) /\ Len(s) \in Nat /\ Len(s) > 0 /\ Len(plans') = 0 /\ plans' \in Seq(Plan)
  BY <1>1, SessionAssumption, EmptySeq
<1>4. TypeOK'
  <2>1. phase' \in Resting \cup {"parse", "run"} /\ faulted' \in BOOLEAN
    BY <1>1
  <2>2. part' = Len(plans') + 1 /\ Len(plans') < Len(string') /\ phase' # "run"
    BY <1>1, <1>3
  <2>3. part' \in Nat /\ answered' \in Nat /\ applied' \subseteq Nat /\ vacant' \subseteq Nat /\ touched' \subseteq Names
    BY <1>1
  <2>4. string' \in Strings \cup {<<>>} /\ step' \in Steps
    BY <1>1 DEF Steps
  <2>5. QED
    BY <1>2, <1>3, <2>1, <2>2, <2>3, <2>4 DEF TypeOK
<1>5. SessionShape' /\ AppliedPrefix' /\ PlansFresh' /\ FailsForCause' /\ RunShape'
  BY <1>1, <1>3 DEF SessionShape, AppliedPrefix, PlansFresh, FailsForCause, RunShape
<1>6. QED
  BY <1>2, <1>4, <1>5 DEF IInv

\* A statement that does not parse refuses the string, without effect.
LEMMA RefuseInv ==
  ASSUME IInv, phase = "parse", RefuseString, faulted' \in BOOLEAN PROVE IInv'
<1>1. /\ phase' = "refused"
      /\ UNCHANGED <<string, part, plans, step, applied, vacant, answered, touched, snapshotVars>>
  BY DEF RefuseString
<1>2. SnapshotTypeOK' /\ SnapInv'
  BY <1>1, SnapFrame DEF IInv, TypeOK
<1>3. TypeOK'
  BY <1>1, <1>2 DEF IInv, TypeOK, Resting
<1>4. SessionShape' /\ AppliedPrefix' /\ FailsForCause' /\ RunShape'
  BY <1>1 DEF IInv, SessionShape, AppliedPrefix, FailsForCause, RunShape, RouteOf
<1>5. PlansFresh'
  BY <1>1 DEF IInv, PlansFresh, snapshotVars
<1>6. QED
  BY <1>2, <1>3, <1>4, <1>5 DEF IInv

\* A statement gets its plan; after the last one the string runs.
LEMMA PlanPartInv ==
  ASSUME IInv, phase = "parse", NEW route, NEW tables \in Seq(Virtual), NEW gen \in 0..MaxGen,
         route = RouteOf(string[part]), PlanPart(route, tables, gen),
         route = "read" => gen # 0 /\ colls[string[part].name] = gen
  PROVE  IInv'
<1> DEFINE p == [route |-> route, tables |-> tables, gen |-> gen]
<1>1. /\ plans' = Append(plans, p)
      /\ UNCHANGED <<string, step, applied, vacant, answered, faulted, touched>>
      /\ IF part = Len(string)
         THEN phase' = "run" /\ part' = 1 /\ Fresh
         ELSE part' = part + 1 /\ UNCHANGED <<phase, snapshotVars>>
  BY DEF PlanPart
<1>2. /\ SnapshotTypeOK /\ plans \in Seq(Plan) /\ Len(plans) \in Nat /\ Len(string) \in Nat
      /\ part = Len(plans) + 1 /\ part \in 1..Len(string) /\ applied = {} /\ answered = 0
      /\ \A i \in 1..Len(string) : string[i] \in Statement
  BY Typed DEF IInv, TypeOK, SessionShape, AppliedPrefix
<1>3. p \in Plan
  BY <1>2, Routed DEF Plan
<1>4. p.route = route /\ p.gen = gen
  OBVIOUS
<1> HIDE DEF p
<1>5. /\ plans' \in Seq(Plan) /\ Len(plans') = Len(plans) + 1
      /\ \A i \in 1..Len(plans) : plans'[i] = plans[i]
      /\ plans'[Len(plans) + 1] = p
  BY <1>1, <1>2, <1>3, AppendProperties
<1>6. \A i \in 1..Len(plans') : i \in 1..Len(plans) \/ i = part
  BY <1>2, <1>5
<1>7. SnapshotTypeOK' /\ SnapInv' /\ colls' = colls /\ (phase' = "run" => Recorded' /\ ~listing' /\ todo' = <<>>)
  <2>1. CASE part = Len(string)
    BY <1>1, <1>2, <2>1, FreshSnap DEF Fresh
  <2>2. CASE part # Len(string)
    BY <1>1, <1>2, <2>2, SnapFrame DEF IInv, snapshotVars
  <2>3. QED
    BY <2>1, <2>2
<1>8. TypeOK'
  <2>1. CASE part = Len(string)
    BY <1>1, <1>2, <1>5, <1>7, <2>1 DEF IInv, TypeOK
  <2>2. CASE part # Len(string)
    BY <1>1, <1>2, <1>5, <1>7, <2>2 DEF IInv, TypeOK
  <2>3. QED
    BY <2>1, <2>2
<1>9. SessionShape'
  <2>1. ASSUME NEW i \in 1..Len(plans') PROVE plans'[i].route = RouteOf(string'[i])
    BY <1>1, <1>2, <1>4, <1>5, <1>6 DEF IInv, SessionShape
  <2>2. \A i \in 1..Len(plans') : RouteOf(string[i])' = RouteOf(string[i])
    BY <1>1 DEF RouteOf
  <2>3. Len(plans') <= Len(string') /\ (phase' = "run" => Len(plans') = Len(string') /\ part' = answered' + 1)
    BY <1>1, <1>2, <1>5
  <2>4. phase' \in {"parse", "run"} /\ answered' = 0
    BY <1>1, <1>2
  <2>5. QED
    BY <1>1, <2>1, <2>2, <2>3, <2>4 DEF SessionShape
<1>10. PlansFresh'
  <2> SUFFICES ASSUME touched = {}
               PROVE  /\ \A i \in 1..Len(plans') : plans'[i].route = "read" =>
                           plans'[i].gen # 0 /\ colls[string[i].name] = plans'[i].gen
                      /\ phase' = "run" => \A i \in 1..Len(todo') : colls[todo'[i]] # 0
    BY <1>1, <1>7 DEF PlansFresh
  <2>1. ASSUME NEW i \in 1..Len(plans'), plans'[i].route = "read"
        PROVE  plans'[i].gen # 0 /\ colls[string[i].name] = plans'[i].gen
    BY <1>2, <1>4, <1>5, <1>6, <2>1 DEF IInv, PlansFresh
  <2>2. phase' = "run" => Len(todo') = 0
    BY <1>7
  <2>3. QED
    BY <2>1, <2>2
<1>11. AppliedPrefix'
  <2>1. Writes' \subseteq 1..Len(string) /\ applied' = {} /\ answered' = 0
    BY <1>1, <1>2, Typed DEF IInv, Writes
  <2>2. \A i \in Writes' : ~(i <= answered')
    BY <1>2, <2>1
  <2>3. ({i \in Writes : i <= answered} \ vacant)' \subseteq applied'
    BY <2>2
  <2>4. applied' \subseteq ({i \in Writes : i <= answered + 1} \ vacant)' /\ applied' \subseteq 1..answered'
    BY <2>1
  <2>5. QED
    BY <2>1, <2>3, <2>4 DEF AppliedPrefix
<1>12. FailsForCause' /\ RunShape'
  BY <1>1, <1>7 DEF FailsForCause, RunShape
<1>13. QED
  BY <1>7, <1>8, <1>9, <1>10, <1>11, <1>12 DEF IInv

\* The running statement completes: its write, if it is one, is applied.
LEMMA CompleteInv ==
  ASSUME IInv, phase = "run", Complete, UNCHANGED touched,
         part \in Writes \ vacant => applied' = applied \cup {part},
         part \notin Writes \ vacant => applied' = applied
  PROVE  IInv'
<1>1. /\ answered' = answered + 1 /\ step' = "start"
      /\ IF part = Len(string) THEN phase' = "done" /\ part' = part ELSE phase' = phase /\ part' = part + 1
      /\ Fresh
      /\ UNCHANGED <<string, plans, vacant, faulted, touched>>
  BY DEF Complete
<1>2. /\ SnapshotTypeOK /\ Len(plans) = Len(string) /\ Len(string) \in Nat /\ part \in 1..Len(string)
      /\ part = answered + 1 /\ answered \in Nat /\ Writes \subseteq 1..Len(string)
  BY Typed DEF IInv, TypeOK, SessionShape
<1>3. SnapshotTypeOK' /\ SnapInv' /\ Recorded' /\ ~listing' /\ Len(todo') = 0 /\ colls' = colls
  BY <1>1, <1>2, FreshSnap DEF Fresh
<1>4. phase' \in {"run", "done"} /\ part' \in Nat /\ answered' \in Nat
      /\ (phase' = "run" => part' \in 1..Len(string) /\ part' = answered' + 1)
  BY <1>1, <1>2
<1>5. applied' \subseteq Nat
  BY <1>2 DEF IInv, TypeOK
<1>6. TypeOK'
  <2>1. phase' \in Resting \cup {"parse", "run"} /\ phase' # "parse"
    BY <1>4 DEF Resting
  <2>2. QED
    BY <1>1, <1>2, <1>3, <1>4, <1>5, <2>1 DEF IInv, TypeOK, Steps
<1>7. SessionShape'
  <2>1. \A i \in 1..Len(plans) : plans'[i].route = RouteOf(string[i])'
    BY <1>1 DEF IInv, SessionShape, RouteOf
  <2>2. QED
    BY <1>1, <1>2, <1>4, <2>1 DEF SessionShape
<1>8. AppliedPrefix'
  <2>1. Writes' = Writes
    BY <1>1 DEF Writes
  <2>2. /\ \A i \in Writes \ vacant : i <= answered => i \in applied
        /\ \A i \in applied : i \in Writes \ vacant /\ i \in 1..answered
    BY <1>2 DEF IInv, AppliedPrefix
  <2>3. \A i \in Writes' \ vacant' : i <= answered' => i \in applied'
    BY <1>1, <1>2, <2>1, <2>2
  <2>4. \A i \in applied' : i \in Writes' \ vacant' /\ i <= answered' + 1 /\ i \in 1..answered'
    BY <1>1, <1>2, <2>1, <2>2
  <2>5. /\ ({i \in Writes : i <= answered} \ vacant)' \subseteq applied'
        /\ applied' \subseteq ({i \in Writes : i <= answered + 1} \ vacant)'
        /\ applied' \subseteq 1..answered'
    BY <2>3, <2>4
  <2>6. QED
    BY <1>4, <2>5 DEF AppliedPrefix
<1>9. PlansFresh'
  BY <1>1, <1>3 DEF IInv, PlansFresh
<1>10. FailsForCause' /\ RunShape'
  BY <1>3, <1>4 DEF FailsForCause, RunShape
<1>11. QED
  BY <1>3, <1>6, <1>7, <1>8, <1>9, <1>10 DEF IInv

\* The running statement fails, for a cause; only a failed store call leaves
\* open whether its write is applied.
LEMMA FailInv ==
  ASSUME IInv, phase = "run", Fail, faulted' \in BOOLEAN, UNCHANGED <<touched, snapshotVars>>,
         \/ applied' = applied
         \/ faulted' /\ part \in Writes \ vacant /\ applied' = applied \cup {part},
         \/ faulted'
         \/ touched # {}
         \/ string[part].params
         \/ string[part].kind = "select" /\ Unsortable(string[part].name)
         \/ string[part].kind = "update" /\ ~Suits(string[part].name)
         \/ string[part].kind \in {"insert", "update"} /\ ~Takes(string[part].name)
         \/ string[part].kind \in {"select", "catalog"} /\ string[part].raises
  PROVE  IInv'
<1>1. phase' = "failed" /\ step' = "start" /\ UNCHANGED <<string, part, plans, vacant, answered, touched, colls>>
  BY DEF Fail, snapshotVars
<1>2. /\ SnapshotTypeOK /\ Len(plans) = Len(string) /\ Len(string) \in Nat /\ part \in 1..Len(string)
      /\ part = answered + 1 /\ answered \in Nat /\ Writes \subseteq 1..Len(string)
  BY Typed DEF IInv, TypeOK, SessionShape
<1>3. SnapshotTypeOK' /\ SnapInv'
  BY <1>2, SnapFrame DEF IInv
<1>4. TypeOK'
  <2>1. phase' \in Resting \cup {"parse", "run"} /\ phase' \notin {"parse", "run"}
    BY <1>1 DEF Resting
  <2>2. applied' \subseteq Nat
    BY <1>2 DEF IInv, TypeOK
  <2>3. QED
    BY <1>1, <1>3, <2>1, <2>2 DEF IInv, TypeOK, Steps
<1>5. SessionShape'
  <2>1. \A i \in 1..Len(plans) : plans'[i].route = RouteOf(string[i])'
    BY <1>1 DEF IInv, SessionShape, RouteOf
  <2>2. QED
    BY <1>1, <1>2, <2>1 DEF SessionShape
<1>6. AppliedPrefix'
  <2>1. Writes' = Writes
    BY <1>1 DEF Writes
  <2>2. /\ \A i \in Writes \ vacant : i <= answered => i \in applied
        /\ \A i \in applied : i \in Writes \ vacant /\ i \in 1..answered
    BY <1>2 DEF IInv, AppliedPrefix
  <2>3. \A i \in Writes' \ vacant' : i <= answered' => i \in applied'
    BY <1>1, <1>2, <2>1, <2>2
  <2>4. \A i \in applied' : i \in Writes' \ vacant' /\ i <= answered' + 1 /\ (~faulted' => i \in 1..answered')
    BY <1>1, <1>2, <2>1, <2>2
  <2>5. /\ ({i \in Writes : i <= answered} \ vacant)' \subseteq applied'
        /\ applied' \subseteq ({i \in Writes : i <= answered + 1} \ vacant)'
        /\ ~faulted' => applied' \subseteq 1..answered'
    BY <2>3, <2>4
  <2>6. QED
    BY <1>1, <2>5 DEF AppliedPrefix
<1>7. PlansFresh'
  BY <1>1 DEF IInv, PlansFresh
<1>8. FailsForCause'
  <2>1. UNCHANGED <<Suits(string[part].name), Takes(string[part].name), Unsortable(string[part].name)>>
    BY <1>1 DEF Suits, Takes, Unsortable
  <2>2. QED
    BY <1>1, <2>1 DEF FailsForCause
<1>9. RunShape'
  BY <1>1 DEF RunShape
<1>10. QED
  BY <1>3, <1>4, <1>5, <1>6, <1>7, <1>8, <1>9 DEF IInv

\* At most the scan of the running statement finds no row.
VacantStep == vacant' = vacant \/ (phase = "run" /\ vacant' = vacant \cup {part})

\* What a change of the snapshot or of the collections leaves to be shown.
LEMMA SessionFrame ==
  ASSUME IInv, UNCHANGED <<phase, string, part, plans, applied, answered, faulted>>,
         VacantStep,
         step' \in Steps, SnapshotTypeOK',
         touched' \subseteq Names, touched' # {} \/ (UNCHANGED <<touched, colls>>)
  PROVE  TypeOK' /\ SessionShape' /\ AppliedPrefix' /\ FailsForCause'
<1>1. TypeOK'
  BY DEF IInv, TypeOK, VacantStep
<1>2. SessionShape'
  <2>1. \A i \in 1..Len(plans) : plans'[i].route = RouteOf(string[i])'
    BY DEF IInv, SessionShape, RouteOf
  <2>2. QED
    BY <2>1 DEF IInv, SessionShape
<1>3. AppliedPrefix'
  <2>1. Writes' = Writes
    BY DEF Writes
  <2>2. CASE vacant' = vacant
    <3>1. /\ ({i \in Writes : i <= answered} \ vacant)' = {i \in Writes : i <= answered} \ vacant
          /\ ({i \in Writes : i <= answered + 1} \ vacant)' = {i \in Writes : i <= answered + 1} \ vacant
      BY <2>1, <2>2
    <3>2. QED
      BY <3>1 DEF IInv, AppliedPrefix
  <2>3. CASE phase = "run" /\ vacant' = vacant \cup {part}
    <3>1. part = answered + 1 /\ answered \in Nat
      BY <2>3 DEF IInv, TypeOK, SessionShape
    <3>2. /\ {i \in Writes : i <= answered} \ vacant \subseteq applied
          /\ applied \subseteq {i \in Writes : i <= answered + 1} \ vacant
          /\ applied \subseteq 1..answered
      BY <2>3 DEF IInv, AppliedPrefix
    <3>3. part \notin applied
      BY <3>1, <3>2
    <3>4. /\ ({i \in Writes : i <= answered} \ vacant)' \subseteq applied'
          /\ applied' \subseteq ({i \in Writes : i <= answered + 1} \ vacant)'
      BY <2>1, <2>3, <3>2, <3>3
    <3>5. QED
      BY <2>3, <3>2, <3>4 DEF AppliedPrefix
  <2>4. QED
    BY <2>2, <2>3 DEF VacantStep
<1>4. FailsForCause'
  <2>1. colls' = colls =>
          UNCHANGED <<Suits(string[part].name), Takes(string[part].name), Unsortable(string[part].name)>>
    BY DEF Suits, Takes, Unsortable
  <2>2. QED
    BY <2>1 DEF IInv, FailsForCause
<1>5. QED
  BY <1>1, <1>2, <1>3, <1>4

\* The body of a write goes on, or nothing happens.
LEMMA WriteStepInv ==
  ASSUME IInv, UNCHANGED <<phase, string, part, plans, applied, answered, faulted, touched, snapshotVars>>,
         VacantStep, step' \in Steps
  PROVE  IInv'
<1>1. SnapshotTypeOK' /\ SnapInv' /\ (Recorded => Recorded')
  BY SnapFrame DEF IInv, TypeOK
<1>2. UNCHANGED <<colls, todo, listing, metasDone, built>>
  BY DEF snapshotVars, snapVars
<1>3. TypeOK' /\ SessionShape' /\ AppliedPrefix' /\ FailsForCause'
  <2>1. touched' \subseteq Names
    BY DEF IInv, TypeOK
  <2>2. QED
    BY <1>1, <1>2, <2>1, SessionFrame
<1>4. PlansFresh'
  BY <1>2 DEF IInv, PlansFresh
<1>5. RunShape'
  <2>1. Unbuilt' = Unbuilt
    BY <1>2 DEF Unbuilt
  <2>2. Current' = Current
    BY <2>1 DEF Current
  <2>3. NeedsList(Current)' = NeedsList(Current)
    BY <1>2, <2>2 DEF NeedsList
  <2>4. QED
    BY <1>1, <1>2, <2>1, <2>3 DEF IInv, RunShape
<1>6. QED
  BY <1>1, <1>3, <1>4, <1>5 DEF IInv

\* The table a catalog query builds next is one of its virtual tables.
LEMMA CurrentTable ==
  ASSUME TypeOK, phase = "run", Unbuilt # {}
  PROVE  Current \in Virtual
<1>1. plans[part] \in Plan
  BY Typed DEF TypeOK
<1>2. plans[part].tables \in Seq(Virtual)
  BY <1>1 DEF Plan
<1>3. Unbuilt \subseteq 1..Len(plans[part].tables) /\ Unbuilt \subseteq Nat
  BY <1>2 DEF Unbuilt
<1>4. \E i \in Unbuilt : \A j \in Unbuilt : i <= j
  BY <1>3, SmallestOf
<1> DEFINE first == CHOOSE i \in Unbuilt : \A j \in Unbuilt : i <= j
<1>5. first \in Unbuilt
  BY <1>4
<1> HIDE DEF first
<1>6. plans[part].tables[first] \in Virtual
  BY <1>2, <1>3, <1>5
<1>7. QED
  BY <1>6 DEF Current, first

\* A catalog query builds the snapshot of its execution.
LEMMA CatalogStepInv ==
  ASSUME IInv, CatalogStep PROVE IInv'
<1>1. /\ phase = "run" /\ plans[part].route = "catalog" /\ Unbuilt # {}
      /\ UNCHANGED <<phase, string, part, plans, step, applied, vacant, answered, faulted, touched>>
  BY DEF CatalogStep, Running, sessionVars
<1>2. TypeOK /\ SnapshotTypeOK /\ SnapInv /\ Recorded /\ (listing => NeedsList(Current))
  BY <1>1 DEF IInv, TypeOK, RunShape
<1>3. Current \in Virtual
  BY <1>1, <1>2, CurrentTable
<1> DEFINE Kept == UNCHANGED <<built, metasDone>> /\ listing' /\ NeedsList(Current)
           Goal == /\ SnapshotTypeOK' /\ SnapInv' /\ Recorded' /\ colls' = colls
                   /\ ~listing' \/ Kept
                   /\ touched = {} => \A i \in 1..Len(todo') : colls[todo'[i]] # 0
<1>4. touched = {} => \A i \in 1..Len(todo) : colls[todo[i]] # 0
  BY <1>1 DEF IInv, PlansFresh
<1>5. ASSUME NEW order \in Orders(Present), List(Current, order) PROVE Goal
  <2>1. /\ SnapshotTypeOK' /\ SnapInv' /\ Recorded'
        /\ Current \in Listed => UNCHANGED <<listing, todo, metasDone>>
        /\ Current \notin Listed => listing' /\ UNCHANGED <<built, metasDone>> /\ todo' \in Seq(Present)
    BY <1>2, <1>3, <1>5, ListSnap
  <2>2. colls' = colls /\ ~listing /\ NeedsList(Current)
    BY <1>5 DEF List
  <2>3. CASE Current \in Listed
    BY <1>4, <2>1, <2>2, <2>3
  <2>4. CASE Current \notin Listed
    <3>1. \A i \in 1..Len(todo') : todo'[i] \in Present
      BY <2>1, <2>4
    <3>2. \A i \in 1..Len(todo') : colls[todo'[i]] # 0
      BY <3>1 DEF Present
    <3>3. QED
      BY <2>1, <2>2, <2>4, <3>2
  <2>5. QED
    BY <2>3, <2>4
<1>6. ASSUME Describe PROVE Goal
  <2>1. /\ SnapshotTypeOK' /\ SnapInv' /\ Recorded' /\ UNCHANGED <<colls, built, metasDone>>
        /\ listing /\ \A i \in 1..Len(todo') : \E j \in 1..Len(todo) : todo'[i] = todo[j]
    BY <1>2, <1>6, DescribeSnap
  <2>2. listing'
    BY <1>6, <2>1 DEF Describe
  <2>3. touched = {} => \A i \in 1..Len(todo') : colls[todo'[i]] # 0
    BY <1>4, <2>1
  <2>4. QED
    BY <1>2, <2>1, <2>2, <2>3
<1>7. ASSUME Shape(Current) PROVE Goal
  <2>1. NeedsList(Current)
    BY <1>2, <1>7 DEF Shape
  <2>2. SnapshotTypeOK' /\ SnapInv' /\ Recorded' /\ ~listing' /\ UNCHANGED <<colls, todo>>
    BY <1>2, <1>3, <1>7, <2>1, ShapeSnap
  <2>3. QED
    BY <1>4, <2>2
<1>8. ASSUME Reuse(Current) PROVE Goal
  <2>1. SnapshotTypeOK' /\ SnapInv' /\ Recorded' /\ ~listing' /\ UNCHANGED <<colls, todo>>
    BY <1>2, <1>3, <1>8, ReuseSnap
  <2>2. QED
    BY <1>4, <2>1
<1>9. Goal
  BY <1>5, <1>6, <1>7, <1>8 DEF CatalogStep
<1>10. TypeOK' /\ SessionShape' /\ AppliedPrefix' /\ FailsForCause'
  <2>1. touched' \subseteq Names /\ step' \in Steps /\ VacantStep
    BY <1>1, <1>2 DEF TypeOK, VacantStep
  <2>2. QED
    BY <1>1, <1>9, <2>1, SessionFrame
<1>11. PlansFresh'
  BY <1>1, <1>9 DEF IInv, PlansFresh
<1>12. RunShape'
  <2>1. ASSUME listing' PROVE plans'[part'].route = "catalog" /\ Unbuilt' # {} /\ NeedsList(Current)'
    <3>1. UNCHANGED <<built, metasDone>> /\ NeedsList(Current)
      BY <1>9, <2>1
    <3>2. Unbuilt' = Unbuilt
      BY <1>1, <3>1 DEF Unbuilt
    <3>3. Current' = Current
      BY <1>1, <3>2 DEF Current
    <3>4. NeedsList(Current)'
      BY <3>1, <3>3 DEF NeedsList
    <3>5. QED
      BY <1>1, <3>2, <3>4
  <2>2. QED
    BY <1>9, <2>1 DEF RunShape
<1>13. QED
  BY <1>9, <1>10, <1>11, <1>12 DEF IInv

\* A prepared statement runs again, with an empty snapshot.
LEMMA ReexecuteInv ==
  ASSUME IInv, Reexecute PROVE IInv'
<1>1. /\ phase \in {"done", "failed"} /\ Len(string) = 1
      /\ phase' = "run" /\ part' = 1 /\ applied' = {} /\ vacant' = {} /\ answered' = 0 /\ faulted' = FALSE
      /\ Fresh
      /\ UNCHANGED <<string, plans, step, touched>>
  BY DEF Reexecute
<1>2. SnapshotTypeOK /\ Len(plans) = 1 /\ Writes \subseteq 1..1
  BY <1>1, Typed DEF IInv, TypeOK, SessionShape
<1>3. SnapshotTypeOK' /\ SnapInv' /\ Recorded' /\ ~listing' /\ Len(todo') = 0 /\ colls' = colls
  BY <1>1, <1>2, FreshSnap DEF Fresh
<1>4. TypeOK'
  <2>1. phase' \in Resting \cup {"parse", "run"} /\ phase' # "parse"
    BY <1>1
  <2>2. part' \in 1..Len(string') /\ part' \in Nat /\ answered' \in Nat /\ Len(plans') = Len(string')
    BY <1>1, <1>2
  <2>3. applied' \subseteq Nat /\ vacant' \subseteq Nat /\ faulted' \in BOOLEAN
    BY <1>1
  <2>4. QED
    BY <1>1, <1>3, <2>1, <2>2, <2>3 DEF IInv, TypeOK
<1>5. SessionShape'
  <2>1. \A i \in 1..Len(plans) : plans'[i].route = RouteOf(string[i])'
    BY <1>1 DEF IInv, SessionShape, RouteOf
  <2>2. QED
    BY <1>1, <1>2, <2>1 DEF SessionShape
<1>6. AppliedPrefix'
  <2>1. \A i \in Writes' : ~(i <= answered')
    BY <1>1, <1>2 DEF Writes
  <2>2. /\ ({i \in Writes : i <= answered} \ vacant)' \subseteq applied'
        /\ applied' \subseteq ({i \in Writes : i <= answered + 1} \ vacant)' /\ applied' \subseteq 1..answered'
    BY <1>1, <2>1
  <2>3. QED
    BY <1>1, <2>2 DEF AppliedPrefix
<1>7. PlansFresh'
  BY <1>1, <1>3 DEF IInv, PlansFresh
<1>8. FailsForCause' /\ RunShape'
  BY <1>1, <1>3 DEF FailsForCause, RunShape
<1>9. QED
  BY <1>3, <1>4, <1>5, <1>6, <1>7, <1>8 DEF IInv

\* Other clients create and drop collections at any time.
LEMMA DdlInv ==
  ASSUME IInv, DDL PROVE IInv'
<1>1. PICK n \in Names : /\ Create(n) \/ Drop(n)
                         /\ touched' = touched \cup {n}
                         /\ UNCHANGED sessionVars
  BY DEF DDL
<1>2. SnapshotTypeOK' /\ SnapInv' /\ (Recorded => Recorded')
  BY <1>1, DdlSnap DEF IInv, TypeOK
<1>3. UNCHANGED <<listing, metasDone, built, phase, string, part, plans, step, applied, vacant, answered, faulted>>
  BY <1>1 DEF Create, Drop, snapVars, sessionVars
<1>4. TypeOK' /\ SessionShape' /\ AppliedPrefix' /\ FailsForCause' /\ touched' # {}
  <2>1. touched' \subseteq Names /\ touched' # {} /\ step' \in Steps /\ VacantStep
    BY <1>1, <1>3 DEF IInv, TypeOK, VacantStep
  <2>2. QED
    BY <1>2, <1>3, <2>1, SessionFrame
<1>5. PlansFresh'
  BY <1>4 DEF PlansFresh
<1>6. RunShape'
  <2>1. Unbuilt' = Unbuilt
    BY <1>3 DEF Unbuilt
  <2>2. Current' = Current
    BY <1>3, <2>1 DEF Current
  <2>3. NeedsList(Current)' = NeedsList(Current)
    BY <1>3, <2>2 DEF NeedsList
  <2>4. QED
    BY <1>2, <1>3, <2>1, <2>3 DEF IInv, RunShape
<1>7. QED
  BY <1>2, <1>4, <1>5, <1>6 DEF IInv

\* Every step of the session keeps the invariant.
LEMMA ParseInv ==
  ASSUME IInv, Parse \/ ParseFault PROVE IInv'
<1>1. phase = "parse"
  BY DEF Parse, ParseFault, ParseRejected, ParseLocal, ParseWrite, ParseRead, ParseReadRefused, Parsing
<1>2. /\ string[part] \in Statement /\ faulted \in BOOLEAN
      /\ colls \in [Names -> 0..MaxGen] /\ 0 \in 0..MaxGen
  <2>1. part \in 1..Len(string) /\ faulted \in BOOLEAN /\ colls \in [Names -> 0..MaxGen]
    BY <1>1, Typed DEF IInv, TypeOK, SnapshotTypeOK
  <2>2. QED
    BY <2>1, Typed, SnapshotAssumption DEF IInv
<1> DEFINE route == RouteOf(string[part])
<1>3. CASE ParseRejected \/ ParseReadRefused \/ ParseFault
  BY <1>1, <1>2, <1>3, RefuseInv DEF ParseRejected, ParseReadRefused, ParseFault
<1>4. CASE ParseLocal
  <2>1. route \in {"ack", "catalog"} /\ PlanPart(route, TablesOf(string[part]), 0)
    BY <1>4 DEF ParseLocal, Parsing
  <2>2. TablesOf(string[part]) \in Seq(Virtual) /\ route # "read"
    BY <1>2, <2>1, Routed
  <2>3. QED
    BY <1>1, <1>2, <2>1, <2>2, PlanPartInv
<1>5. CASE ParseWrite
  <2>1. route \in {"insert", "update"} /\ PlanPart(route, <<>>, 0)
    BY <1>5 DEF ParseWrite, Parsing
  <2>2. <<>> \in Seq(Virtual) /\ route # "read"
    BY <2>1
  <2>3. QED
    BY <1>1, <1>2, <2>1, <2>2, PlanPartInv
<1>6. CASE ParseRead
  <2>1. /\ route = "read" /\ PlanPart(route, <<>>, colls[string[part].name])
        /\ colls[string[part].name] # 0
    BY <1>6 DEF ParseRead, Parsing, Suits
  <2>2. string[part].name \in Names /\ <<>> \in Seq(Virtual)
    BY <1>2, <2>1, Routed
  <2>3. colls[string[part].name] \in 0..MaxGen
    BY <1>2, <2>2
  <2>4. QED
    BY <1>1, <2>1, <2>2, <2>3, PlanPartInv
<1>7. QED
  BY <1>3, <1>4, <1>5, <1>6 DEF Parse

LEMMA RunInv ==
  ASSUME IInv, Run \/ CatalogFault \/ StoreFault PROVE IInv'
<1>1. phase = "run"
  BY DEF Run, CatalogFault, StoreFault, RunAck, CatalogStep, CatalogDone, CatalogRaises, CatalogVanished, ParamsRefused,
         Calling, ReadAnswers, ReadFails, WriteSchema, UpdateScan, WriteSend, WriteRefused, Running, Writing
<1>2. /\ part \in 1..Len(string) /\ part \in 1..Len(plans) /\ string[part] \in Statement
      /\ plans[part].route = RouteOf(string[part]) /\ faulted \in BOOLEAN
      /\ DOMAIN string = 1..Len(string) /\ SnapshotTypeOK
  <2>1. part \in 1..Len(string) /\ Len(plans) = Len(string) /\ faulted \in BOOLEAN
    BY <1>1 DEF IInv, TypeOK
  <2>2. QED
    BY <2>1, Typed DEF IInv, SessionShape
<1>3. /\ part \in Writes <=> plans[part].route \in {"insert", "update"}
      /\ part \in Writes <=> string[part].kind \in {"insert", "update"}
      /\ plans[part].route = "update" => string[part].kind = "update"
  BY <1>2, Routed DEF Writes
<1>4. CASE RunAck \/ CatalogDone \/ ReadAnswers
  <2>1. Complete /\ UNCHANGED <<applied, touched>> /\ plans[part].route \in {"ack", "catalog", "read"}
    BY <1>4 DEF RunAck, CatalogDone, ReadAnswers, Running
  <2>2. part \notin Writes
    BY <1>3, <2>1
  <2>3. QED
    BY <1>1, <2>1, <2>2, CompleteInv
<1>5. CASE WriteSend
  <2>1. /\ Complete /\ UNCHANGED touched /\ part \in Writes
        /\ \/ part \in vacant /\ UNCHANGED applied
           \/ part \notin vacant /\ applied' = applied \cup {part}
    BY <1>3, <1>5 DEF WriteSend, Writing
  <2>2. QED
    BY <1>1, <2>1, CompleteInv
<1>6. CASE CatalogStep
  BY <1>6, CatalogStepInv
<1>7. CASE CatalogVanished
  <2>1. Fail /\ UNCHANGED <<applied, faulted, touched, snapshotVars>>
    BY <1>7 DEF CatalogVanished
  <2>2. touched # {}
    <3>1. listing /\ todo # <<>> /\ colls[Head(todo)] = 0
      BY <1>7 DEF CatalogVanished, Vanished
    <3>2. Head(todo) = todo[1] /\ 1 \in 1..Len(todo)
      BY <1>2, <3>1 DEF SnapshotTypeOK
    <3>3. QED
      BY <1>1, <3>1, <3>2 DEF IInv, PlansFresh
  <2>3. QED
    BY <1>1, <1>2, <2>1, <2>2, FailInv
<1>8. CASE CatalogFault
  BY <1>1, <1>8, FailInv DEF CatalogFault
<1>9. CASE ParamsRefused
  BY <1>1, <1>2, <1>9, FailInv DEF ParamsRefused
<1>10. CASE ReadFails
  <2>1. /\ Fail /\ UNCHANGED <<applied, faulted, touched, snapshotVars>>
        /\ plans[part].route = "read"
        /\ Unsortable(string[part].name) \/ ~Encodes(plans[part].gen, colls[string[part].name])
    BY <1>10 DEF ReadFails, Running
  <2>2. CASE Unsortable(string[part].name)
    <3>1. string[part].kind = "select"
      BY <1>2, <2>1, Routed
    <3>2. QED
      BY <1>1, <1>2, <2>1, <2>2, <3>1, FailInv
  <2>3. CASE ~Encodes(plans[part].gen, colls[string[part].name])
    <3>1. ASSUME touched = {} PROVE FALSE
      <4>1. plans[part].gen # 0 /\ colls[string[part].name] = plans[part].gen
        BY <1>2, <2>1, <3>1 DEF IInv, PlansFresh
      <4>2. QED
        BY <2>3, <4>1 DEF Encodes
    <3>2. QED
      BY <1>1, <1>2, <2>1, <3>1, FailInv
  <2>4. QED
    BY <2>1, <2>2, <2>3
<1>11. CASE WriteSchema \/ UpdateScan
  <2>1. step' \in Steps
    BY <1>11 DEF WriteSchema, UpdateScan, Steps
  <2>2. VacantStep
    BY <1>1, <1>11 DEF WriteSchema, UpdateScan, VacantStep
  <2>3. UNCHANGED <<phase, string, part, plans, applied, answered, faulted, touched, snapshotVars>>
    BY <1>11 DEF WriteSchema, UpdateScan
  <2>4. QED
    BY <2>1, <2>2, <2>3, WriteStepInv
<1>12. CASE WriteRefused
  <2>1. Fail /\ UNCHANGED <<applied, faulted, touched, snapshotVars>> /\ part \in Writes
    BY <1>3, <1>12 DEF WriteRefused, Writing
  <2>2. \/ string[part].kind = "update" /\ ~Suits(string[part].name)
        \/ ~Takes(string[part].name)
    BY <1>3, <1>12 DEF WriteRefused, Takes
  <2>3. QED
    BY <1>1, <1>2, <1>3, <2>1, <2>2, FailInv
<1>13. CASE StoreFault
  <2>1. /\ Fail /\ faulted' = TRUE /\ UNCHANGED <<touched, snapshotVars>>
        /\ applied' = applied \/ (Writing /\ step = "send" /\ applied' = applied \cup {part})
    BY <1>13 DEF StoreFault
  <2>2. Writing /\ step = "send" => part \in Writes \ vacant
    BY <1>3, <1>13 DEF StoreFault, Calling, Writing
  <2>3. QED
    BY <1>1, <2>1, <2>2, FailInv
<1>14. CASE CatalogRaises
  <2>1. /\ Fail /\ UNCHANGED <<applied, faulted, touched, snapshotVars>>
        /\ plans[part].route = "catalog" /\ string[part].raises
    BY <1>14 DEF CatalogRaises, Running
  <2>2. string[part].kind \in {"select", "catalog"}
    BY <1>2, <2>1, Routed
  <2>3. QED
    BY <1>1, <1>2, <2>1, <2>2, FailInv
<1>15. QED
  BY <1>4, <1>5, <1>6, <1>7, <1>8, <1>9, <1>10, <1>11, <1>12, <1>13, <1>14 DEF Run

LEMMA NextInv == IInv /\ [Next]_vars => IInv'
<1> SUFFICES ASSUME IInv, [Next]_vars PROVE IInv'
  OBVIOUS
<1>1. CASE \E s \in Strings : Receive(s)
  BY <1>1, ReceiveInv
<1>2. CASE Parse \/ ParseFault
  BY <1>2, ParseInv
<1>3. CASE Run \/ CatalogFault \/ StoreFault
  BY <1>3, RunInv
<1>4. CASE Reexecute
  BY <1>4, ReexecuteInv
<1>5. CASE DDL
  BY <1>5, DdlInv
<1>6. CASE UNCHANGED vars
  <2>1. step' \in Steps /\ VacantStep
    BY <1>6 DEF vars, sessionVars, IInv, TypeOK, VacantStep
  <2>2. QED
    BY <1>6, <2>1, WriteStepInv DEF vars, sessionVars
<1>7. QED
  BY <1>1, <1>2, <1>3, <1>4, <1>5, <1>6 DEF Next, Faults

(***************************************************************************)
(* The theorems.                                                           *)
(***************************************************************************)
\* The inductive invariant holds in every reachable state.
LEMMA SessionInvariant == Spec => []IInv
<1>1. QED
  BY InitInv, NextInv, PTL DEF Spec

\* The state of a session has its type: a string is parsed statement by
\* statement and runs only when every statement of it has a plan (parse and
\* execute of pgserver/session.go).
THEOREM SessionTyped == Spec => []TypeOK
<1>1. IInv => TypeOK
  BY DEF IInv
<1>2. QED
  BY SessionInvariant, <1>1, PTL

\* What a string leaves behind is the writes of its completed statements that
\* found a row, and at most the one whose answer was lost: none of a refused
\* string, none past a failure, none of an UPDATE that matched nothing, for strings of any length and whatever DDL goes on meanwhile.
THEOREM WritesFollowAnswers == Spec => []AppliedPrefix
<1>1. IInv => AppliedPrefix
  BY DEF IInv
<1>2. QED
  BY SessionInvariant, <1>1, PTL

\* A statement of an accepted string fails only for a failed call, a bound
\* parameter, DDL since the string arrived, a sort on a column that cannot be
\* sorted, a write its collection refuses or a catalog expression that raises.
THEOREM FailuresHaveCauses == Spec => []FailsForCause
<1>1. IInv => FailsForCause
  BY DEF IInv
<1>2. QED
  BY SessionInvariant, <1>1, PTL

\* The virtual tables of one execution agree on OIDs, miss no collection that
\* lived through it and invent none, for any list order and any DDL between the
\* store calls (snapshot.table and collectionMetas of catalog/tables.go).
THEOREM TablesCoherent == Spec => []CatalogCoherent
<1>1. IInv => CatalogCoherent
  BY SnapOids DEF IInv, TypeOK, SnapInv, CatalogCoherent
<1>2. QED
  BY SessionInvariant, <1>1, PTL
=============================================================================
