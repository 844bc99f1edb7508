-------------------------- MODULE WritePathProofs ---------------------------
(***************************************************************************)
(* Proofs about WritePath, for every set of requests, keys, fields and     *)
(* values: its type invariant, that duplicate rows come from races only,   *)
(* that a request's answer tells what happened to the store, and what a    *)
(* write does to it: a noop was one, a write changes only the keys its     *)
(* request addresses, and a merge that nobody disturbed keeps the cells    *)
(* its request does not name.                                              *)
(***************************************************************************)
EXTENDS WritePath, TLAPS

\* columnOf turns a document into a row of the collection.
LEMMA StoredType ==
  ASSUME NEW d \in Doc PROVE Stored(d) \in Row
BY DEF Stored, Row, Cell

\* A fetched row overlaid with a document is a document again.
LEMMA OverlayType ==
  ASSUME NEW old \in Row, NEW doc \in Doc PROVE Overlay(old, doc) \in Doc
BY DEF Overlay, Refetched, Row, Doc, Cell

\* What a validated batch becomes is a set of rows under proper keys.
LEMMA LandingType ==
  ASSUME NEW B \in SUBSET ((Keys \cup {NoKey}) \X Doc),
         ValidateWriteCells(B), NEW L \in Landings(B)
  PROVE  L \in SUBSET (Keys \X Row)
<1>1. CASE schema.autoID
  <2>1. PICK g \in [B -> Keys \ HeldKeys] : L = {<<g[b], Stored(b[2])>> : b \in B}
    BY <1>1 DEF Landings
  <2>2. ASSUME NEW b \in B PROVE <<g[b], Stored(b[2])>> \in Keys \X Row
    <3>1. b[2] \in Doc
      OBVIOUS
    <3>2. QED
      BY <2>1, <3>1, StoredType
  <2>3. QED
    BY <2>1, <2>2
<1>2. CASE ~schema.autoID
  <2>1. L = {<<b[1], Stored(b[2])>> : b \in B}
    BY <1>2 DEF Landings
  <2>2. ASSUME NEW b \in B PROVE <<b[1], Stored(b[2])>> \in Keys \X Row
    <3>1. b[1] \in Keys /\ b[2] \in Doc
      BY <1>2 DEF ValidateWriteCells, RowAccepted
    <3>2. QED
      BY <3>1, StoredType
  <2>3. QED
    BY <2>1, <2>2
<1>3. QED
  BY <1>1, <1>2

\* The store's rows stay a bag per key under Insert and Upsert.
LEMMA BagType ==
  ASSUME rows \in [Keys -> [Row -> Nat]], NEW L
  PROVE  /\ InsertRows(L) \in [Keys -> [Row -> Nat]]
         /\ UpsertRows(L) \in [Keys -> [Row -> Nat]]
<1>1. InsertRows(L) \in [Keys -> [Row -> Nat]]
  <2>1. ASSUME NEW k \in Keys, NEW v \in Row
        PROVE  rows[k][v] + (IF <<k, v>> \in L THEN 1 ELSE 0) \in Nat
    <3>1. rows[k][v] \in Nat
      OBVIOUS
    <3>2. (IF <<k, v>> \in L THEN 1 ELSE 0) \in Nat
      OBVIOUS
    <3>3. QED
      BY <3>1, <3>2
  <2>2. QED
    BY <2>1 DEF InsertRows
<1>2. UpsertRows(L) \in [Keys -> [Row -> Nat]]
  BY DEF UpsertRows
<1>3. QED
  BY <1>1, <1>2

\* Carrying out a write keeps the variables it changes in their types.
LEMMA ApplyType ==
  ASSUME TypeOK, NEW r \in Req, NEW L \in SUBSET (Keys \X Row), Apply(r, L)
  PROVE  /\ rows' \in [Keys -> [Row -> Nat]]
         /\ applied' \in [Req -> BOOLEAN]
         /\ disturbed' \in [Req -> SUBSET Keys]
         /\ raced' \subseteq Keys
<1>1. KeysOf(L) \subseteq Keys
  BY DEF KeysOf
<1>2. rows' \in [Keys -> [Row -> Nat]]
  BY BagType DEF TypeOK, Apply
<1>3. applied' \in [Req -> BOOLEAN]
  BY DEF TypeOK, Apply
<1>4. disturbed' \in [Req -> SUBSET Keys]
  BY <1>1 DEF TypeOK, Apply
<1>5. raced' \subseteq Keys
  BY <1>1 DEF TypeOK, Apply, Unchecked
<1>6. QED
  BY <1>2, <1>3, <1>4, <1>5

(***************************************************************************)
(* The steps that only read: they change one handler and leave the store   *)
(* and what was written as they are.                                       *)
(***************************************************************************)

\* The invariant holds at first.
LEMMA InitInv == Init => IInv
<1> SUFFICES ASSUME Init PROVE IInv
  OBVIOUS
<1> USE DEF Init
<1>1. TypeOK
  <2>1. rows \in [Keys -> [Row -> Nat]]
    OBVIOUS
  <2>2. pc \in [Req -> Phases] /\ reply \in [Req -> Replies]
    BY DEF Phases, Replies
  <2>3. QED
    BY <2>1, <2>2 DEF TypeOK
<1>2. HandlerShape
  BY DEF HandlerShape
<1>3. UpsertNamesKeysOnce /\ LookupHolds
  BY DEF UpsertNamesKeysOnce, LookupHolds
<1>4. DuplicatesOnlyFromRaces
  <2>1. ASSUME NEW k \in Keys PROVE SingleRow(rows[k])
    BY DEF SingleRow
  <2>2. QED
    BY <2>1 DEF DuplicatesOnlyFromRaces
<1>5. AnswerTellsEffect
  BY DEF AnswerTellsEffect, ClientErrors, Successes
<1>6. QED
  BY <1>1, <1>2, <1>3, <1>4, <1>5 DEF IInv

\* A step that leaves rows and raced alone makes no duplicates.
LEMMA DuplicatesFrame ==
  ASSUME DuplicatesOnlyFromRaces, UNCHANGED <<rows, raced>>
  PROVE  DuplicatesOnlyFromRaces'
BY DEF DuplicatesOnlyFromRaces, SingleRow

\* The arrival of a request, up to its first await of rows.
LEMMA StartInv ==
  ASSUME IInv, NEW r \in Req, Start(r) PROVE IInv'
<1> USE ConstantsAssumption
<1>0. PICK i \in Inputs :
        /\ in' = [in EXCEPT ![r] = i]
        /\ \/ StartIndex(r, i) \/ StartUpdate(r, i)
           \/ StartPgInsert(r, i) \/ StartPgUpdate(r, i)
  BY DEF Start
<1>1. /\ pc[r] = "idle" /\ ~upsert[r] /\ reply[r] = "none" /\ ~applied[r]
      /\ UNCHANGED <<schema, rows, applied, disturbed, raced, hits>>
      /\ UNCHANGED upsert
  BY <1>0 DEF Start, StartIndex, StartUpdate, StartPgInsert, StartPgUpdate, Refuse, IInv, HandlerShape
<1>2. i \in InputType
  OBVIOUS
<1>3. \/ /\ pc' = [pc EXCEPT ![r] = "done"]
         /\ reply' = [reply EXCEPT ![r] = "rejected"]
         /\ UNCHANGED <<key, batch>>
      \/ /\ UNCHANGED reply
         /\ \/ /\ \E k \in Keys : key' = [key EXCEPT ![r] = k]
               /\ pc' = [pc EXCEPT ![r] = "lookup"] \/ pc' = [pc EXCEPT ![r] = "fetch"]
               /\ UNCHANGED batch
            \/ /\ key' = [key EXCEPT ![r] = NoKey]
               /\ schema.autoID
               /\ pc' = [pc EXCEPT ![r] = "write"]
               /\ batch' = [batch EXCEPT ![r] = {<<i.pk, i.doc>>}]
            \/ /\ i.op = "pginsert"
               /\ pc' = [pc EXCEPT ![r] = "write"]
               /\ batch' = [batch EXCEPT ![r] = i.rows]
               /\ UNCHANGED key
            \/ /\ pc' = [pc EXCEPT ![r] = "scan"]
               /\ UNCHANGED <<key, batch>>
  <2>1. CASE StartIndex(r, i)
    <3>1. CASE i.bad \/ IdRejected(i)
      BY <2>1, <3>1 DEF StartIndex, Refuse, Finish
    <3>2. CASE ~(i.bad \/ IdRejected(i))
      <4>1. PICK k \in ResolveDocumentID(i) : key' = [key EXCEPT ![r] = k]
        BY <2>1, <3>2 DEF StartIndex
      <4>2. IF schema.autoID THEN k = NoKey ELSE k \in Keys
        BY <4>1 DEF ResolveDocumentID
      <4>3. QED
        BY <2>1, <3>2, <4>1, <4>2 DEF StartIndex
    <3>3. QED
      BY <3>1, <3>2
  <2>2. CASE StartUpdate(r, i)
    BY <2>2 DEF StartUpdate, Refuse, Finish, UpdateKey
  <2>3. CASE StartPgInsert(r, i)
    BY <2>3 DEF StartPgInsert, Refuse, Finish
  <2>4. CASE StartPgUpdate(r, i)
    BY <2>4 DEF StartPgUpdate, Refuse, Finish
  <2>5. QED
    BY <1>0, <2>1, <2>2, <2>3, <2>4
<1>4. TypeOK'
  <2>1. i.rows \in SUBSET ((Keys \cup {NoKey}) \X Doc) /\ <<i.pk, i.doc>> \in (Keys \cup {NoKey}) \X Doc
    BY <1>2 DEF InputType
  <2>2. batch' \in [Req -> SUBSET ((Keys \cup {NoKey}) \X Doc)]
    BY <1>3, <2>1 DEF IInv, TypeOK
  <2>3. key' \in [Req -> Keys \cup {NoKey}]
    BY <1>3 DEF IInv, TypeOK
  <2>4. pc' \in [Req -> Phases] /\ reply' \in [Req -> Replies]
    BY <1>3 DEF IInv, TypeOK, Phases, Replies, ClientErrors
  <2>5. QED
    BY <1>0, <1>1, <2>2, <2>3, <2>4 DEF IInv, TypeOK
<1>5. HandlerShape'
  <2>1. ASSUME NEW q \in Req, q # r
        PROVE  pc'[q] = pc[q] /\ in'[q] = in[q] /\ key'[q] = key[q] /\ reply'[q] = reply[q]
    BY <1>0, <1>3, <2>1 DEF IInv, TypeOK
  <2>2. /\ in'[r] = i /\ pc'[r] # "idle"
        /\ pc'[r] \in {"lookup", "fetch"} => key'[r] \in Keys
        /\ pc'[r] # "done" => reply'[r] = "none"
    BY <1>0, <1>1, <1>3 DEF IInv, TypeOK
  <2>3. QED
    BY <1>1, <2>1, <2>2 DEF IInv, HandlerShape
<1>6. UpsertNamesKeysOnce'
  <2>1. ASSUME NEW q \in Req, q # r
        PROVE  pc'[q] = pc[q] /\ in'[q] = in[q] /\ batch'[q] = batch[q]
    BY <1>0, <1>3, <2>1 DEF IInv, TypeOK
  <2>2. QED
    BY <1>1, <2>1 DEF IInv, UpsertNamesKeysOnce, KeyTwice
<1>7. LookupHolds'
  <2>1. ASSUME NEW q \in Req, q # r
        PROVE  pc'[q] = pc[q] /\ in'[q] = in[q] /\ batch'[q] = batch[q] /\ key'[q] = key[q]
    BY <1>0, <1>3, <2>1 DEF IInv, TypeOK
  <2>2. pc'[r] = "write" => schema'.autoID \/ in'[r].op = "pginsert"
    BY <1>0, <1>1, <1>3 DEF IInv, TypeOK
  <2>3. QED
    BY <1>1, <2>1, <2>2 DEF IInv, LookupHolds, HasKey, Holds
<1>8. AnswerTellsEffect'
  BY <1>1, <1>3 DEF IInv, TypeOK, AnswerTellsEffect, ClientErrors, Successes
<1>9. QED
  BY <1>1, <1>4, <1>5, <1>6, <1>7, <1>8, DuplicatesFrame DEF IInv

\* A store call that fails before the write.
LEMMA ReadFailsInv ==
  ASSUME IInv, NEW r \in Req, ReadFails(r) PROVE IInv'
<1>1. /\ pc' = [pc EXCEPT ![r] = "done"]
      /\ reply' = [reply EXCEPT ![r] = "error"]
      /\ UNCHANGED <<schema, rows, key, hits, batch, upsert, applied, disturbed, raced>>
      /\ (\E i \in Inputs : in' = [in EXCEPT ![r] = i]) \/ (pc[r] # "idle" /\ UNCHANGED in)
  BY DEF ReadFails, Refuse, Finish
<1>2. TypeOK'
  BY <1>1 DEF IInv, TypeOK, Phases, Replies
<1>3. HandlerShape'
  BY <1>1 DEF IInv, TypeOK, HandlerShape
<1>4. UpsertNamesKeysOnce'
  BY <1>1 DEF IInv, TypeOK, UpsertNamesKeysOnce, KeyTwice
<1>5. LookupHolds'
  BY <1>1 DEF IInv, TypeOK, LookupHolds, HasKey, Holds
<1>6. AnswerTellsEffect'
  BY <1>1 DEF IInv, TypeOK, AnswerTellsEffect, ClientErrors, Successes
<1>7. QED
  BY <1>1, <1>2, <1>3, <1>4, <1>5, <1>6, DuplicatesFrame DEF IInv

\* The existence check of the ES index API.
LEMMA LookupInv ==
  ASSUME IInv, NEW r \in Req, Lookup(r) PROVE IInv'
<1> USE ConstantsAssumption
<1>1. /\ pc[r] = "lookup" /\ key[r] \in Keys /\ in[r] \in InputType
      /\ reply[r] = "none" /\ ~applied[r]
  BY DEF Lookup, IInv, HandlerShape
<1>2. UNCHANGED <<schema, rows, in, key, hits, applied, raced>>
  BY DEF Lookup, Refuse
<1>3. disturbed' = [disturbed EXCEPT ![r] = {}]
  BY DEF Lookup, ReadNow
<1>4. \/ /\ pc' = [pc EXCEPT ![r] = "done"]
         /\ reply' = [reply EXCEPT ![r] = "conflict"]
         /\ UNCHANGED <<batch, upsert>>
      \/ /\ pc' = [pc EXCEPT ![r] = "write"]
         /\ upsert' = [upsert EXCEPT ![r] = HasKey(key[r])]
         /\ batch' = [batch EXCEPT ![r] = {<<key[r], in[r].doc>>}]
         /\ UNCHANGED reply
  BY DEF Lookup, Refuse, Finish
<1>5. TypeOK'
  <2>1. HasKey(key[r]) \in BOOLEAN
    BY DEF HasKey
  <2>2. upsert' \in [Req -> BOOLEAN]
    BY <1>4, <2>1 DEF IInv, TypeOK
  <2>3. {<<key[r], in[r].doc>>} \in SUBSET ((Keys \cup {NoKey}) \X Doc)
    BY <1>1 DEF InputType
  <2>4. batch' \in [Req -> SUBSET ((Keys \cup {NoKey}) \X Doc)]
    BY <1>4, <2>3 DEF IInv, TypeOK
  <2>5. pc' \in [Req -> Phases] /\ reply' \in [Req -> Replies]
    BY <1>4 DEF IInv, TypeOK, Phases, Replies, ClientErrors
  <2>6. QED
    BY <1>2, <1>3, <2>2, <2>4, <2>5 DEF IInv, TypeOK
<1>6. HandlerShape'
  BY <1>1, <1>2, <1>4 DEF IInv, TypeOK, HandlerShape
<1>7. UpsertNamesKeysOnce'
  <2>1. ASSUME NEW q \in Req, q # r
        PROVE  pc'[q] = pc[q] /\ upsert'[q] = upsert[q] /\ batch'[q] = batch[q]
    BY <1>4, <2>1 DEF IInv, TypeOK
  <2>2. pc'[r] = "write" => batch'[r] = {<<key[r], in[r].doc>>}
    BY <1>4 DEF IInv, TypeOK
  <2>3. QED
    BY <1>2, <2>1, <2>2 DEF IInv, UpsertNamesKeysOnce, KeyTwice
<1>8. LookupHolds'
  <2>1. ASSUME NEW q \in Req, q # r
        PROVE  /\ pc'[q] = pc[q] /\ upsert'[q] = upsert[q] /\ batch'[q] = batch[q]
               /\ disturbed'[q] = disturbed[q]
    BY <1>3, <1>4, <2>1 DEF IInv, TypeOK
  <2>2. pc'[r] = "write" => /\ batch'[r] = {<<key[r], in[r].doc>>}
                            /\ ~upsert'[r] => ~HasKey(key[r])
    BY <1>4 DEF IInv, TypeOK
  <2>3. ASSUME NEW k PROVE HasKey(k)' = HasKey(k)
    BY <1>2 DEF HasKey, Holds
  <2>4. QED
    BY <1>2, <2>1, <2>2, <2>3 DEF IInv, LookupHolds
<1>9. AnswerTellsEffect'
  BY <1>1, <1>2, <1>4 DEF IInv, TypeOK, AnswerTellsEffect, ClientErrors, Successes
<1>10. QED
  BY <1>2, <1>5, <1>6, <1>7, <1>8, <1>9, DuplicatesFrame DEF IInv

\* The _update of a document that is not there.
LEMMA FetchMissingInv ==
  ASSUME IInv, NEW r \in Req, FetchMissing(r) PROVE IInv'
<1>1. /\ pc[r] = "fetch" /\ ~applied[r]
      /\ pc' = [pc EXCEPT ![r] = "done"]
      /\ reply' = [reply EXCEPT ![r] = "missing"]
      /\ disturbed' = [disturbed EXCEPT ![r] = {}]
      /\ UNCHANGED <<schema, rows, in, key, hits, batch, upsert, applied, raced>>
  BY DEF FetchMissing, Refuse, Finish, ReadNow, IInv, HandlerShape
<1>2. TypeOK'
  BY <1>1 DEF IInv, TypeOK, Phases, Replies, ClientErrors
<1>3. HandlerShape'
  BY <1>1 DEF IInv, TypeOK, HandlerShape
<1>4. UpsertNamesKeysOnce'
  BY <1>1 DEF IInv, TypeOK, UpsertNamesKeysOnce, KeyTwice
<1>5. LookupHolds'
  BY <1>1 DEF IInv, TypeOK, LookupHolds, HasKey, Holds
<1>6. AnswerTellsEffect'
  BY <1>1 DEF IInv, TypeOK, AnswerTellsEffect, ClientErrors, Successes
<1>7. QED
  BY <1>1, <1>2, <1>3, <1>4, <1>5, <1>6, DuplicatesFrame DEF IInv

\* The fetch, merge and noop check of _update.
LEMMA FetchInv ==
  ASSUME IInv, NEW r \in Req, Fetch(r) PROVE IInv'
<1> USE ConstantsAssumption
<1>1. /\ pc[r] = "fetch" /\ key[r] \in Keys /\ in[r] \in InputType
      /\ reply[r] = "none" /\ ~applied[r]
  BY DEF Fetch, IInv, HandlerShape
<1>2. UNCHANGED <<schema, rows, in, key, applied, raced>>
  BY DEF Fetch
<1>3. disturbed' = [disturbed EXCEPT ![r] = {}]
  BY DEF Fetch, ReadNow
<1>4. PICK old \in Row :
        /\ hits' = [hits EXCEPT ![r] = {<<key[r], old>>}]
        /\ \/ /\ pc' = [pc EXCEPT ![r] = "done"]
              /\ reply' = [reply EXCEPT ![r] = "noop"]
              /\ UNCHANGED <<batch, upsert>>
           \/ /\ pc' = [pc EXCEPT ![r] = "write"]
              /\ upsert' = [upsert EXCEPT ![r] = TRUE]
              /\ batch' = [batch EXCEPT ![r] =
                   {<<IF in[r].pk = NoKey THEN key[r] ELSE in[r].pk, Overlay(old, in[r].doc)>>}]
              /\ UNCHANGED reply
  BY DEF Fetch, Finish
<1> DEFINE row == <<IF in[r].pk = NoKey THEN key[r] ELSE in[r].pk, Overlay(old, in[r].doc)>>
<1>5. TypeOK'
  <2>1. row \in (Keys \cup {NoKey}) \X Doc
    <3>1. in[r].pk \in Keys \cup {NoKey} /\ in[r].doc \in Doc
      BY <1>1 DEF InputType
    <3>2. QED
      BY <1>1, <3>1, OverlayType
  <2>2. batch' \in [Req -> SUBSET ((Keys \cup {NoKey}) \X Doc)]
    BY <1>4, <2>1 DEF IInv, TypeOK
  <2>3. hits' \in [Req -> SUBSET (Keys \X Row)]
    BY <1>1, <1>4 DEF IInv, TypeOK
  <2>4. /\ pc' \in [Req -> Phases] /\ reply' \in [Req -> Replies]
        /\ upsert' \in [Req -> BOOLEAN]
    BY <1>4 DEF IInv, TypeOK, Phases, Replies, Successes
  <2>5. QED
    BY <1>2, <1>3, <2>2, <2>3, <2>4 DEF IInv, TypeOK
<1>6. HandlerShape'
  BY <1>1, <1>2, <1>4 DEF IInv, TypeOK, HandlerShape
<1> HIDE DEF row
<1>7. UpsertNamesKeysOnce'
  <2>1. ASSUME NEW q \in Req, q # r
        PROVE  /\ pc'[q] = pc[q] /\ upsert'[q] = upsert[q] /\ batch'[q] = batch[q]
               /\ hits'[q] = hits[q]
    BY <1>4, <2>1 DEF IInv, TypeOK
  <2>2. pc'[r] = "write" => batch'[r] = {row}
    BY <1>4 DEF IInv, TypeOK, row
  <2>3. QED
    BY <1>2, <2>1, <2>2 DEF IInv, UpsertNamesKeysOnce, KeyTwice
<1>8. LookupHolds'
  <2>1. ASSUME NEW q \in Req, q # r
        PROVE  /\ pc'[q] = pc[q] /\ upsert'[q] = upsert[q] /\ batch'[q] = batch[q]
               /\ disturbed'[q] = disturbed[q]
    BY <1>3, <1>4, <2>1 DEF IInv, TypeOK
  <2>2. pc'[r] = "write" => upsert'[r]
    BY <1>4 DEF IInv, TypeOK
  <2>3. ASSUME NEW k PROVE HasKey(k)' = HasKey(k)
    BY <1>2 DEF HasKey, Holds
  <2>4. QED
    BY <1>2, <2>1, <2>2, <2>3 DEF IInv, LookupHolds
<1>9. AnswerTellsEffect'
  BY <1>1, <1>2, <1>4 DEF IInv, TypeOK, AnswerTellsEffect, ClientErrors, Successes
<1>10. QED
  BY <1>2, <1>5, <1>6, <1>7, <1>8, <1>9, DuplicatesFrame DEF IInv

\* The scan of an UPDATE: hits of different keys give rows of different keys
\* unless the primary key itself is SET.
LEMMA ScanInv ==
  ASSUME IInv, NEW r \in Req, Scan(r) PROVE IInv'
<1> USE ConstantsAssumption
<1>1. /\ pc[r] = "scan" /\ in[r] \in InputType
      /\ reply[r] = "none" /\ ~applied[r]
  BY DEF Scan, IInv, HandlerShape
<1>2. /\ UNCHANGED <<schema, rows, in, key, reply, applied, raced>>
      /\ pc' = [pc EXCEPT ![r] = "write"]
      /\ upsert' = [upsert EXCEPT ![r] = TRUE]
  BY DEF Scan
<1>3. disturbed' = [disturbed EXCEPT ![r] = {}]
  BY DEF Scan, ReadNow
<1> DEFINE newKey(h) == IF in[r].pk = NoKey THEN h[1] ELSE in[r].pk
           row(h) == <<newKey(h), Overlay(h[2], in[r].doc)>>
<1>4. PICK H \in Pages(Matching(in[r])) :
        /\ hits' = [hits EXCEPT ![r] = H]
        /\ batch' = [batch EXCEPT ![r] = {row(h) : h \in H}]
  BY DEF Scan
<1>5. H \in SUBSET (Keys \X Row) /\ \A h, g \in H : h[1] = g[1] => h = g
  BY <1>1 DEF Pages, Matching, InputType
<1>6. TypeOK'
  <2>1. ASSUME NEW h \in H PROVE row(h) \in (Keys \cup {NoKey}) \X Doc
    <3>1. in[r].pk \in Keys \cup {NoKey} /\ in[r].doc \in Doc
      BY <1>1 DEF InputType
    <3>2. h[1] \in Keys /\ h[2] \in Row
      BY <1>5
    <3>3. QED
      BY <3>1, <3>2, OverlayType
  <2>2. {row(h) : h \in H} \in SUBSET ((Keys \cup {NoKey}) \X Doc)
    BY <2>1
  <2> HIDE DEF row
  <2>3. batch' \in [Req -> SUBSET ((Keys \cup {NoKey}) \X Doc)]
    BY <1>4, <2>2 DEF IInv, TypeOK
  <2>4. QED
    BY <1>2, <1>3, <1>4, <1>5, <2>3 DEF IInv, TypeOK, Phases
<1>7. HandlerShape'
  BY <1>1, <1>2 DEF IInv, TypeOK, HandlerShape
<1>8. UpsertNamesKeysOnce'
  <2>1. ASSUME NEW q \in Req, q # r
        PROVE  /\ pc'[q] = pc[q] /\ upsert'[q] = upsert[q] /\ batch'[q] = batch[q]
               /\ hits'[q] = hits[q]
    BY <1>2, <1>4, <2>1 DEF IInv, TypeOK
  <2>2. batch'[r] = {row(h) : h \in H} /\ hits'[r] = H /\ in'[r] = in[r]
    BY <1>2, <1>4 DEF IInv, TypeOK
  <2>3. ASSUME ~KeyTwice(r)', NEW b \in batch'[r], NEW c \in batch'[r], b[1] = c[1]
        PROVE  b = c
    <3>1. PICK h \in H : b = row(h)
      BY <2>2
    <3>2. PICK g \in H : c = row(g)
      BY <2>2
    <3>3. h = g
      BY <1>5, <2>2, <2>3, <3>1, <3>2 DEF KeyTwice
    <3>4. QED
      BY <3>1, <3>2, <3>3
  <2>4. QED
    BY <1>2, <2>1, <2>3 DEF IInv, UpsertNamesKeysOnce, KeyTwice
<1>9. LookupHolds'
  <2>1. ASSUME NEW q \in Req, q # r
        PROVE  /\ pc'[q] = pc[q] /\ upsert'[q] = upsert[q] /\ batch'[q] = batch[q]
               /\ disturbed'[q] = disturbed[q]
    BY <1>2, <1>3, <1>4, <2>1 DEF IInv, TypeOK
  <2>2. upsert'[r]
    BY <1>2 DEF IInv, TypeOK
  <2>3. ASSUME NEW k PROVE HasKey(k)' = HasKey(k)
    BY <1>2 DEF HasKey, Holds
  <2>4. QED
    BY <1>2, <2>1, <2>2, <2>3 DEF IInv, LookupHolds
<1>10. AnswerTellsEffect'
  BY <1>2 DEF IInv, AnswerTellsEffect
<1>11. QED
  BY <1>2, <1>6, <1>7, <1>8, <1>9, <1>10, DuplicatesFrame DEF IInv

(***************************************************************************)
(* The write.                                                              *)
(***************************************************************************)

\* A write that ends without touching the store.
LEMMA WriteRefusedInv ==
  ASSUME IInv, NEW r \in Req, WriteRejected(r) \/ WriteFailed(r) PROVE IInv'
<1>1. /\ pc[r] = "write" /\ ~applied[r]
      /\ pc' = [pc EXCEPT ![r] = "done"]
      /\ \/ reply' = [reply EXCEPT ![r] = "rejected"]
         \/ reply' = [reply EXCEPT ![r] = "error"]
      /\ UNCHANGED <<schema, rows, in, key, hits, batch, upsert, applied, disturbed, raced>>
  BY DEF WriteRejected, WriteFailed, Refuse, Finish, IInv, HandlerShape
<1>2. TypeOK'
  BY <1>1 DEF IInv, TypeOK, Phases, Replies, ClientErrors
<1>3. HandlerShape'
  BY <1>1 DEF IInv, TypeOK, HandlerShape
<1>4. UpsertNamesKeysOnce'
  BY <1>1 DEF IInv, TypeOK, UpsertNamesKeysOnce, KeyTwice
<1>5. LookupHolds'
  BY <1>1 DEF IInv, TypeOK, LookupHolds, HasKey, Holds
<1>6. AnswerTellsEffect'
  BY <1>1 DEF IInv, TypeOK, AnswerTellsEffect, ClientErrors, Successes
<1>7. QED
  BY <1>1, <1>2, <1>3, <1>4, <1>5, <1>6, DuplicatesFrame DEF IInv

\* A batch that names each key once lands as one row per key; so does any batch
\* whose keys the store assigns.
LEMMA LandingOnce ==
  ASSUME NEW B, NEW L \in Landings(B),
         schema.autoID \/ \A b, c \in B : b[1] = c[1] => b = c
  PROVE  \A x, y \in L : x[1] = y[1] => x = y
<1>1. CASE schema.autoID
  BY <1>1 DEF Landings
<1>2. CASE ~schema.autoID
  BY <1>2 DEF Landings
<1>3. QED
  BY <1>1, <1>2

\* Keys the store assigns are free.
LEMMA AssignedFree ==
  ASSUME NEW B, NEW L \in Landings(B), schema.autoID
  PROVE  \A x \in L : x[1] \in Keys /\ ~HasKey(x[1])
BY DEF Landings, HeldKeys

\* A key under which exactly the rows of the batch stand holds one row, when the
\* batch names each key once.
LEMMA OneIsSingle ==
  ASSUME NEW bag, NEW L, NEW k,
         \A v \in Row : bag[v] = IF <<k, v>> \in L THEN 1 ELSE 0,
         \A x, y \in L : x[1] = y[1] => x = y
  PROVE  SingleRow(bag)
<1>1. \A v \in Row : bag[v] <= 1
  <2>1. TAKE v \in Row
  <2>2. bag[v] = 1 \/ bag[v] = 0
    OBVIOUS
  <2>3. QED
    BY <2>2
<1>2. ASSUME NEW v \in Row, NEW w \in Row, bag[v] > 0, bag[w] > 0
      PROVE  v = w
  <2>1. <<k, v>> \in L /\ <<k, w>> \in L
    BY <1>2
  <2>2. <<k, v>>[1] = <<k, w>>[1]
    OBVIOUS
  <2>3. <<k, v>> = <<k, w>>
    BY <2>1, <2>2
  <2>4. QED
    BY <2>3
<1>3. QED
  BY <1>1, <1>2 DEF SingleRow

\* Under a free key an Insert of one row leaves one row, and under a key the
\* batch does not name both calls leave what is there.
LEMMA BagAfter ==
  ASSUME rows \in [Keys -> [Row -> Nat]], NEW L \in SUBSET (Keys \X Row), NEW k \in Keys
  PROVE  /\ k \notin KeysOf(L) => InsertRows(L)[k] = rows[k] /\ UpsertRows(L)[k] = rows[k]
         /\ ~HasKey(k) /\ (\A x, y \in L : x[1] = y[1] => x = y) => SingleRow(InsertRows(L)[k])
         /\ k \in KeysOf(L) /\ (\A x, y \in L : x[1] = y[1] => x = y) => SingleRow(UpsertRows(L)[k])
<1>1. ASSUME k \notin KeysOf(L)
      PROVE  InsertRows(L)[k] = rows[k] /\ UpsertRows(L)[k] = rows[k]
  <2>1. \A v \in Row : <<k, v>> \notin L
    BY <1>1 DEF KeysOf
  <2>2. InsertRows(L)[k] = [v \in Row |-> rows[k][v]]
    BY <2>1 DEF InsertRows
  <2>3. QED
    BY <1>1, <2>2 DEF UpsertRows
<1>2. ASSUME ~HasKey(k), \A x, y \in L : x[1] = y[1] => x = y
      PROVE  SingleRow(InsertRows(L)[k])
  <2>1. \A v \in Row : rows[k][v] = 0
    BY <1>2 DEF HasKey, Holds
  <2>2. \A v \in Row : InsertRows(L)[k][v] = IF <<k, v>> \in L THEN 1 ELSE 0
    BY <2>1 DEF InsertRows
  <2>3. QED
    BY <1>2, <2>2, OneIsSingle
<1>3. ASSUME k \in KeysOf(L), \A x, y \in L : x[1] = y[1] => x = y
      PROVE  SingleRow(UpsertRows(L)[k])
  <2>1. \A v \in Row : UpsertRows(L)[k][v] = IF <<k, v>> \in L THEN 1 ELSE 0
    BY <1>3 DEF UpsertRows
  <2>2. QED
    BY <1>3, <2>1, OneIsSingle
<1>4. QED
  BY <1>1, <1>2, <1>3

\* The heart of the matter: a batch that lands duplicates no key whose check
\* still held, and tells every other handler which keys it wrote.
LEMMA ApplyInv ==
  ASSUME IInv, NEW r \in Req, pc[r] = "write", ~KeyTwice(r),
         ValidateWriteCells(batch[r]),
         NEW L \in Landings(batch[r]), Apply(r, L),
         NEW status \in {"error", "created", "updated", "inserted", "scanned"}, Finish(r, status),
         UNCHANGED <<schema, in, key, hits, batch, upsert>>
  PROVE  IInv'
<1> USE ConstantsAssumption
<1>1. L \in SUBSET (Keys \X Row)
  BY LandingType DEF IInv, TypeOK
<1>2. /\ pc' = [pc EXCEPT ![r] = "done"]
      /\ reply' = [reply EXCEPT ![r] = status]
      /\ applied' = [applied EXCEPT ![r] = TRUE]
  BY DEF Finish, Apply
<1>3. /\ rows \in [Keys -> [Row -> Nat]]
      /\ rows' = IF upsert[r] THEN UpsertRows(L) ELSE InsertRows(L)
      /\ \A k \in Keys \ KeysOf(L) : rows'[k] = rows[k]
  BY <1>1, BagAfter DEF Apply, IInv, TypeOK
<1>4. TypeOK'
  <2>1. pc' \in [Req -> Phases] /\ reply' \in [Req -> Replies]
    BY <1>2 DEF IInv, TypeOK, Phases, Replies, Successes
  <2>2. QED
    BY <1>1, <2>1, ApplyType DEF IInv, TypeOK
<1>5. HandlerShape'
  BY <1>2 DEF IInv, TypeOK, HandlerShape
<1>6. UpsertNamesKeysOnce'
  BY <1>2 DEF IInv, TypeOK, UpsertNamesKeysOnce, KeyTwice
<1>7. LookupHolds'
  <2>1. ASSUME NEW q \in Req, q # r
        PROVE  pc'[q] = pc[q] /\ disturbed'[q] = disturbed[q] \cup KeysOf(L)
    BY <1>2, <2>1 DEF IInv, TypeOK, Apply
  <2>2. pc'[r] = "done"
    BY <1>2 DEF IInv, TypeOK
  <2>3. ASSUME NEW k \in Keys \ KeysOf(L) PROVE HasKey(k)' = HasKey(k)
    BY <1>3, <2>3 DEF HasKey, Holds
  <2>4. QED
    BY <2>1, <2>2, <2>3 DEF IInv, LookupHolds
<1>8. DuplicatesOnlyFromRaces'
  <2> SUFFICES ASSUME NEW k \in Keys PROVE SingleRow(rows'[k]) \/ k \in raced'
    BY DEF DuplicatesOnlyFromRaces, SingleRow
  <2>1. raced' = raced \cup Unchecked(r, L)
    BY DEF Apply
  <2>2. CASE k \notin KeysOf(L)
    BY <1>3, <2>1, <2>2 DEF IInv, DuplicatesOnlyFromRaces
  <2>3. CASE k \in KeysOf(L) /\ upsert[r]
    <3>1. \A x, y \in L : x[1] = y[1] => x = y
      BY <2>3, LandingOnce DEF IInv, UpsertNamesKeysOnce
    <3>2. QED
      BY <1>1, <1>3, <2>3, <3>1, BagAfter
  <2>4. CASE k \in KeysOf(L) /\ ~upsert[r] /\ schema.autoID
    <3>1. \A x, y \in L : x[1] = y[1] => x = y
      BY <2>4, LandingOnce
    <3>2. ~HasKey(k)
      BY <2>4, AssignedFree DEF KeysOf
    <3>3. QED
      BY <1>1, <1>3, <2>4, <3>1, <3>2, BagAfter
  <2>5. CASE k \in KeysOf(L) /\ ~upsert[r] /\ ~schema.autoID /\ in[r].op = "pginsert"
    BY <2>1, <2>5 DEF Unchecked
  <2>6. CASE k \in KeysOf(L) /\ ~upsert[r] /\ ~schema.autoID /\ in[r].op # "pginsert"
    <3>1. batch[r] = {<<key[r], in[r].doc>>}
      BY <2>6 DEF IInv, LookupHolds
    <3>2. L = {<<key[r], Stored(in[r].doc)>>}
      BY <2>6, <3>1 DEF Landings
    <3>3. k = key[r] /\ \A x, y \in L : x[1] = y[1] => x = y
      BY <2>6, <3>2 DEF KeysOf
    <3>4. CASE k \in disturbed[r]
      BY <2>1, <2>6, <3>4 DEF Unchecked
    <3>5. CASE k \notin disturbed[r]
      <4>1. ~HasKey(k)
        BY <2>6, <3>3, <3>5 DEF IInv, LookupHolds
      <4>2. QED
        BY <1>1, <1>3, <2>6, <3>3, <4>1, BagAfter
    <3>6. QED
      BY <3>4, <3>5
  <2>7. QED
    BY <2>2, <2>3, <2>4, <2>5, <2>6
<1>9. AnswerTellsEffect'
  BY <1>2 DEF IInv, TypeOK, AnswerTellsEffect, ClientErrors, Successes
<1>10. QED
  BY <1>4, <1>5, <1>6, <1>7, <1>8, <1>9 DEF IInv

\* Every step keeps the invariant.
LEMMA NextInv == IInv /\ [Next]_vars => IInv'
<1> SUFFICES ASSUME IInv, [Next]_vars PROVE IInv'
  OBVIOUS
<1>1. ASSUME NEW r \in Req, Start(r) PROVE IInv'
  BY <1>1, StartInv
<1>2. ASSUME NEW r \in Req, ReadFails(r) PROVE IInv'
  BY <1>2, ReadFailsInv
<1>3. ASSUME NEW r \in Req, Lookup(r) PROVE IInv'
  BY <1>3, LookupInv
<1>4. ASSUME NEW r \in Req, FetchMissing(r) PROVE IInv'
  BY <1>4, FetchMissingInv
<1>5. ASSUME NEW r \in Req, Fetch(r) PROVE IInv'
  BY <1>5, FetchInv
<1>6. ASSUME NEW r \in Req, Scan(r) PROVE IInv'
  BY <1>6, ScanInv
<1>7. ASSUME NEW r \in Req, WriteRejected(r) \/ WriteFailed(r) PROVE IInv'
  BY <1>7, WriteRefusedInv
<1>8. ASSUME NEW r \in Req, WriteApplied(r) PROVE IInv'
  <2>1. SuccessOf(r) \in {"error", "created", "updated", "inserted", "scanned"}
    BY DEF SuccessOf
  <2>2. PICK L \in Landings(batch[r]) : Apply(r, L)
    BY <1>8 DEF WriteApplied
  <2>3. QED
    BY <1>8, <2>1, <2>2, ApplyInv DEF WriteApplied
<1>9. ASSUME NEW r \in Req, WriteAnswerLost(r) PROVE IInv'
  <2>1. PICK L \in Landings(batch[r]) : Apply(r, L)
    BY <1>9 DEF WriteAnswerLost
  <2>2. QED
    BY <1>9, <2>1, ApplyInv DEF WriteAnswerLost
<1>10. CASE UNCHANGED vars
  BY <1>10 DEF vars, IInv, TypeOK, HandlerShape, UpsertNamesKeysOnce, KeyTwice, LookupHolds,
       HasKey, Holds, DuplicatesOnlyFromRaces, SingleRow, AnswerTellsEffect
<1>11. QED
  BY <1>1, <1>2, <1>3, <1>4, <1>5, <1>6, <1>7, <1>8, <1>9, <1>10
     DEF Next, HandlerStep, AllDone

\* The variables keep their types in every behaviour: each handler holds only
\* rows, keys and documents of the collection.
THEOREM TypeCorrect == Spec => []TypeOK
<1>1. IInv => TypeOK
  BY DEF IInv
<1>2. QED
  BY <1>1, InitInv, NextInv, PTL DEF Spec

\* Duplicate rows of a key come only from an Insert whose existence check was
\* missing (PG INSERT) or overtaken (ES index and create).
THEOREM RacesOnly == Spec => []DuplicatesOnlyFromRaces
<1>1. IInv => DuplicatesOnlyFromRaces
  BY DEF IInv
<1>2. QED
  BY <1>1, InitInv, NextInv, PTL DEF Spec

\* A request answered with a client error or a noop changed nothing, and one
\* answered with any other success had its whole batch written.
THEOREM AnswersTruthful == Spec => []AnswerTellsEffect
<1>1. IInv => AnswerTellsEffect
  BY DEF IInv
<1>2. QED
  BY <1>1, InitInv, NextInv, PTL DEF Spec

(***************************************************************************)
(* What a write does to the store rests on a second inductive invariant:   *)
(* how the batch a handler is about to send relates to its request and to  *)
(* the rows it read.  From both invariants follows that WritePath          *)
(* implements DocStore.                                                    *)
(***************************************************************************)
\* Which operation waits where, and under which id.
Waits(r) ==
  /\ pc[r] = "lookup" => /\ in[r].op \in {"index", "create"}
                         /\ ~schema.autoID
                         /\ in[r].url \in Keys => key[r] = in[r].url
  /\ pc[r] = "fetch" => in[r].op = "update" /\ key[r] \in UpdateKey(in[r])
  /\ pc[r] = "scan" => in[r].op = "pgupdate"

\* An ES document goes under the URL's id, under a new one, or under one the
\* store assigns.
DocumentPlanned(r) ==
  pc[r] = "write" /\ in[r].op \in {"index", "create"} =>
    IF schema.autoID
    THEN batch[r] = {<<in[r].pk, in[r].doc>>} /\ ~upsert[r] /\ in[r].url = NoKey
    ELSE /\ batch[r] = {<<key[r], in[r].doc>>} /\ key[r] \in Keys
         /\ in[r].url \in Keys => key[r] = in[r].url

\* An INSERT sends its VALUES.
InsertPlanned(r) ==
  pc[r] = "write" /\ in[r].op = "pginsert" => batch[r] = in[r].rows /\ ~upsert[r]

\* What a merge sends for a row it read.
Merged(i, h) == <<IF i.pk = NoKey THEN h[1] ELSE i.pk, Overlay(h[2], i.doc)>>

\* A merge sends the rows it read overlaid with its cells, and what it read still
\* stands under every key that no other request wrote since.
MergePlanned(r) ==
  pc[r] = "write" /\ in[r].op \in {"update", "pgupdate"} =>
    /\ upsert[r]
    /\ batch[r] = {Merged(in[r], h) : h \in hits[r]}
    /\ \A h, g \in hits[r] : h[1] = g[1] => h = g
    /\ \A h \in hits[r] : h[1] \notin disturbed[r] => Holds(h[1], h[2])
    /\ in[r].op = "update" =>
         key[r] \in UpdateKey(in[r]) /\ \A h \in hits[r] : h[1] = key[r]

NoopUnchanged(r) ==
  reply[r] = "noop" =>
    \A h \in hits[r], f \in Fields :
      in[r].doc[f] \in {Absent, h[2][f]} \/ Blurred(f, in[r].doc[f], h[2][f])

\* An UPDATE whose page was not full read a row of every key that matches and
\* that no other request wrote since.
ScanCovers(r) ==
  pc[r] = "write" /\ in[r].op = "pgupdate" /\ Cardinality(hits[r]) < ScanLimit =>
    \A h \in in[r].where :
      h[1] \notin disturbed[r] /\ Holds(h[1], h[2]) => \E g \in hits[r] : g[1] = h[1]

Plan(r) ==
  /\ Waits(r)
  /\ DocumentPlanned(r)
  /\ InsertPlanned(r)
  /\ MergePlanned(r)
  /\ ScanCovers(r)
  /\ NoopUnchanged(r)

PlanInv == \A r \in Req : Plan(r)

\* The steps of one handler.
Step(r) == Start(r) \/ HandlerStep(r) \/ ReadFails(r)

\* What the step of another handler leaves alone.
Framed(q) ==
  /\ schema' = schema
  /\ pc'[q] = pc[q] /\ in'[q] = in[q] /\ key'[q] = key[q] /\ hits'[q] = hits[q]
  /\ batch'[q] = batch[q] /\ upsert'[q] = upsert[q] /\ reply'[q] = reply[q]
  /\ applied'[q] = applied[q]
  /\ disturbed[q] \subseteq disturbed'[q]
  /\ \A k \in Keys \ disturbed'[q] : rows'[k] = rows[k]

\* A handler's step changes its own handler and, when it writes, the keys it tells
\* all others of.
LEMMA StepFrame ==
  ASSUME IInv, NEW r \in Req, NEW q \in Req, q # r, Step(r)
  PROVE  Framed(q)
<1> USE ConstantsAssumption
<1>1. CASE Start(r)
  <2>1. PICK i \in Inputs :
          /\ in' = [in EXCEPT ![r] = i]
          /\ \/ StartIndex(r, i) \/ StartUpdate(r, i)
             \/ StartPgInsert(r, i) \/ StartPgUpdate(r, i)
    BY <1>1 DEF Start
  <2>2. UNCHANGED <<schema, rows, applied, disturbed, raced>>
    BY <1>1 DEF Start
  <2>3. CASE StartIndex(r, i)
    BY <2>1, <2>2, <2>3 DEF StartIndex, Refuse, Finish, IInv, TypeOK, Framed
  <2>4. CASE StartUpdate(r, i)
    BY <2>1, <2>2, <2>4 DEF StartUpdate, Refuse, Finish, IInv, TypeOK, Framed
  <2>5. CASE StartPgInsert(r, i) \/ StartPgUpdate(r, i)
    BY <2>1, <2>2, <2>5 DEF StartPgInsert, StartPgUpdate, Refuse, Finish, IInv, TypeOK, Framed
  <2>6. QED
    BY <2>1, <2>3, <2>4, <2>5
<1>2. CASE ReadFails(r)
  BY <1>2 DEF ReadFails, Refuse, Finish, IInv, TypeOK, Framed
<1>3. CASE Lookup(r)
  BY <1>3 DEF Lookup, ReadNow, Refuse, Finish, IInv, TypeOK, Framed
<1>4. CASE FetchMissing(r)
  BY <1>4 DEF FetchMissing, ReadNow, Refuse, Finish, IInv, TypeOK, Framed
<1>5. CASE Fetch(r)
  BY <1>5 DEF Fetch, ReadNow, Finish, IInv, TypeOK, Framed
<1>6. CASE Scan(r)
  BY <1>6 DEF Scan, ReadNow, IInv, TypeOK, Framed
<1>7. CASE WriteRejected(r) \/ WriteFailed(r)
  BY <1>7 DEF WriteRejected, WriteFailed, Refuse, Finish, IInv, TypeOK, Framed
<1>8. CASE WriteApplied(r) \/ WriteAnswerLost(r)
  <2>1. PICK L \in Landings(batch[r]) : Apply(r, L)
    BY <1>8 DEF WriteApplied, WriteAnswerLost
  <2>2. ValidateWriteCells(batch[r])
    BY <1>8 DEF WriteApplied, WriteAnswerLost
  <2>3. L \in SUBSET (Keys \X Row)
    BY <2>1, <2>2, LandingType DEF IInv, TypeOK
  <2>4. \A k \in Keys \ KeysOf(L) : rows'[k] = rows[k]
    BY <2>1, <2>3, BagAfter DEF Apply, IInv, TypeOK
  <2>5. disturbed'[q] = disturbed[q] \cup KeysOf(L) /\ applied'[q] = applied[q]
    BY <2>1 DEF Apply, IInv, TypeOK
  <2>6. /\ schema' = schema
        /\ pc'[q] = pc[q] /\ in'[q] = in[q] /\ key'[q] = key[q] /\ hits'[q] = hits[q]
        /\ batch'[q] = batch[q] /\ upsert'[q] = upsert[q] /\ reply'[q] = reply[q]
    BY <1>8 DEF WriteApplied, WriteAnswerLost, Finish, IInv, TypeOK
  <2>7. QED
    BY <2>4, <2>5, <2>6 DEF Framed
<1>9. QED
  BY <1>1, <1>2, <1>3, <1>4, <1>5, <1>6, <1>7, <1>8 DEF Step, HandlerStep

\* The plans of the handlers that do not move hold on.
LEMMA PlanFrame ==
  ASSUME IInv, NEW q \in Req, Plan(q), Framed(q)
  PROVE  Plan(q)'
<1> USE DEF Framed
<1>1. hits[q] \subseteq Keys \X Row
  BY DEF IInv, TypeOK
<1>2. Waits(q)'
  BY DEF Plan, Waits, UpdateKey, KeysEqual
<1>3. DocumentPlanned(q)' /\ InsertPlanned(q)'
  BY DEF Plan, DocumentPlanned, InsertPlanned
<1>4. MergePlanned(q)'
  <2> SUFFICES ASSUME pc[q] = "write", in[q].op \in {"update", "pgupdate"}
               PROVE  /\ upsert[q]
                      /\ batch[q] = {Merged(in[q], h)' : h \in hits[q]}
                      /\ \A h, g \in hits[q] : h[1] = g[1] => h = g
                      /\ \A h \in hits[q] : h[1] \notin disturbed'[q] => Holds(h[1], h[2])'
                      /\ in[q].op = "update" =>
                           key[q] \in UpdateKey(in[q])' /\ \A h \in hits[q] : h[1] = key[q]
    BY DEF MergePlanned, Merged, UpdateKey, Overlay, Refetched
  <2>1. ASSUME NEW h \in hits[q], h[1] \notin disturbed'[q] PROVE Holds(h[1], h[2])'
    <3>1. Holds(h[1], h[2]) /\ h[1] \in Keys
      BY <1>1, <2>1 DEF Plan, MergePlanned
    <3>2. QED
      BY <2>1, <3>1 DEF Holds
  <2>2. \A h \in hits[q] : Merged(in[q], h)' = Merged(in[q], h)
    BY DEF Merged, Overlay, Refetched
  <2>3. UpdateKey(in[q])' = UpdateKey(in[q])
    BY DEF UpdateKey, KeysEqual
  <2>4. QED
    BY <2>1, <2>2, <2>3 DEF Plan, MergePlanned
<1>5. NoopUnchanged(q)'
  BY DEF Plan, NoopUnchanged, Blurred
<1>6. ScanCovers(q)'
  <2> SUFFICES ASSUME pc[q] = "write", in[q].op = "pgupdate", Cardinality(hits[q]) < ScanLimit,
                      NEW h \in in[q].where, h[1] \notin disturbed'[q], Holds(h[1], h[2])'
               PROVE  \E g \in hits[q] : g[1] = h[1]
    BY DEF ScanCovers
  <2>1. h[1] \in Keys
    BY ConstantsAssumption DEF IInv, TypeOK, HandlerShape, InputType
  <2>2. Holds(h[1], h[2]) /\ h[1] \notin disturbed[q]
    BY <2>1 DEF Holds
  <2>3. QED
    BY <2>2 DEF Plan, ScanCovers
<1>7. QED
  BY <1>2, <1>3, <1>4, <1>5, <1>6 DEF Plan

(***************************************************************************)
(* The handler that moves.                                                 *)
(***************************************************************************)

\* The arrival of a request.
LEMMA StartPlan ==
  ASSUME IInv, NEW r \in Req, Start(r) PROVE Plan(r)'
<1> USE ConstantsAssumption
<1>1. PICK i \in Inputs :
        /\ in' = [in EXCEPT ![r] = i]
        /\ \/ StartIndex(r, i) \/ StartUpdate(r, i)
           \/ StartPgInsert(r, i) \/ StartPgUpdate(r, i)
  BY DEF Start
<1>2. /\ in'[r] = i /\ schema' = schema /\ reply[r] = "none" /\ ~upsert[r]
      /\ UpdateKey(i)' = UpdateKey(i)
  BY <1>1 DEF Start, IInv, TypeOK, HandlerShape, UpdateKey, KeysEqual
<1>3. CASE StartIndex(r, i)
  <2>1. CASE i.bad \/ IdRejected(i)
    <3>1. pc'[r] = "done" /\ reply'[r] = "rejected"
      BY <1>3, <2>1 DEF StartIndex, Refuse, Finish, IInv, TypeOK
    <3>2. QED
      BY <3>1 DEF Plan, Waits, DocumentPlanned, InsertPlanned, MergePlanned, ScanCovers, NoopUnchanged
  <2>2. CASE ~(i.bad \/ IdRejected(i))
    <3>1. PICK k \in ResolveDocumentID(i) : key' = [key EXCEPT ![r] = k]
      BY <1>3, <2>2 DEF StartIndex
    <3>2. /\ i.op \in {"index", "create"}
          /\ UNCHANGED <<upsert, reply>>
          /\ IF schema.autoID
             THEN /\ pc' = [pc EXCEPT ![r] = "write"]
                  /\ batch' = [batch EXCEPT ![r] = {<<i.pk, i.doc>>}]
             ELSE pc' = [pc EXCEPT ![r] = "lookup"]
      BY <1>3, <2>2 DEF StartIndex
    <3>3. /\ reply'[r] = "none" /\ ~upsert'[r] /\ key'[r] = k
          /\ schema.autoID => pc'[r] = "write" /\ batch'[r] = {<<i.pk, i.doc>>}
          /\ ~schema.autoID => pc'[r] = "lookup"
      BY <1>2, <3>1, <3>2 DEF IInv, TypeOK
    <3>4. IF schema.autoID THEN i.url = NoKey ELSE i.url \in Keys => k = i.url
      BY <2>2, <3>1 DEF IdRejected, ResolveDocumentID
    <3>5. QED
      BY <1>2, <3>2, <3>3, <3>4
         DEF Plan, Waits, DocumentPlanned, InsertPlanned, MergePlanned, ScanCovers, NoopUnchanged
  <2>3. QED
    BY <2>1, <2>2
<1>4. CASE StartUpdate(r, i)
  <2>1. /\ i.op = "update" /\ reply'[r] \in {"none", "rejected"}
        /\ \/ pc'[r] = "done"
           \/ pc'[r] = "fetch" /\ key'[r] \in UpdateKey(i)
    BY <1>2, <1>4 DEF StartUpdate, Refuse, Finish, IInv, TypeOK, UpdateKey
  <2>2. QED
    BY <1>2, <2>1 DEF Plan, Waits, DocumentPlanned, InsertPlanned, MergePlanned, ScanCovers, NoopUnchanged
<1>5. CASE StartPgInsert(r, i)
  <2>1. /\ i.op = "pginsert" /\ reply'[r] \in {"none", "rejected"} /\ ~upsert'[r]
        /\ \/ pc'[r] = "done"
           \/ pc'[r] = "write" /\ batch'[r] = i.rows
    BY <1>2, <1>5 DEF StartPgInsert, Refuse, Finish, IInv, TypeOK
  <2>2. QED
    BY <1>2, <2>1 DEF Plan, Waits, DocumentPlanned, InsertPlanned, MergePlanned, ScanCovers, NoopUnchanged
<1>6. CASE StartPgUpdate(r, i)
  <2>1. i.op = "pgupdate" /\ reply'[r] \in {"none", "rejected"} /\ pc'[r] \in {"done", "scan"}
    BY <1>2, <1>6 DEF StartPgUpdate, Refuse, Finish, IInv, TypeOK
  <2>2. QED
    BY <1>2, <2>1 DEF Plan, Waits, DocumentPlanned, InsertPlanned, MergePlanned, ScanCovers, NoopUnchanged
<1>7. QED
  BY <1>1, <1>3, <1>4, <1>5, <1>6

\* A handler that ends, and not in a noop, has no plan left.
LEMMA DonePlan ==
  ASSUME NEW r \in Req, pc'[r] = "done", reply'[r] # "noop" PROVE Plan(r)'
BY DEF Plan, Waits, DocumentPlanned, InsertPlanned, MergePlanned, ScanCovers, NoopUnchanged

\* The existence check decides between Insert and Upsert of the one document.
LEMMA LookupPlan ==
  ASSUME IInv, NEW r \in Req, Plan(r), Lookup(r) PROVE Plan(r)'
<1>1. /\ pc[r] = "lookup" /\ key[r] \in Keys /\ reply[r] = "none"
      /\ in[r].op \in {"index", "create"} /\ ~schema.autoID
      /\ in[r].url \in Keys => key[r] = in[r].url
  BY DEF Lookup, IInv, HandlerShape, Plan, Waits
<1>2. UNCHANGED <<schema, in, key>>
  BY DEF Lookup, Refuse
<1>3. CASE HasKey(key[r]) /\ in[r].op = "create"
  BY <1>3, DonePlan DEF Lookup, Refuse, Finish, IInv, TypeOK
<1>4. CASE ~(HasKey(key[r]) /\ in[r].op = "create")
  <2>1. /\ pc'[r] = "write" /\ batch'[r] = {<<key[r], in[r].doc>>} /\ reply'[r] = "none"
    BY <1>1, <1>4 DEF Lookup, IInv, TypeOK
  <2>2. QED
    BY <1>1, <1>2, <2>1
       DEF Plan, Waits, DocumentPlanned, InsertPlanned, MergePlanned, ScanCovers, NoopUnchanged
<1>5. QED
  BY <1>3, <1>4

\* Cells that compare as equal are equal, or they are int64 values of one float64.
LEMMA EqualCells ==
  ASSUME NEW old \in Row, NEW doc \in Doc, RowsEqual(old, doc), NEW f \in Fields
  PROVE  doc[f] \in {Absent, old[f]} \/ Blurred(f, doc[f], old[f])
BY DEF RowsEqual, ValuesEqual, Blurred

\* The fetch of _update: a noop, or one row to send.
LEMMA FetchPlan ==
  ASSUME IInv, NEW r \in Req, Plan(r), Fetch(r) PROVE Plan(r)'
<1> USE ConstantsAssumption
<1>1. /\ pc[r] = "fetch" /\ key[r] \in Keys /\ reply[r] = "none" /\ in[r] \in InputType
      /\ in[r].op = "update" /\ key[r] \in UpdateKey(in[r])
  BY DEF Fetch, IInv, HandlerShape, Plan, Waits
<1>2. /\ UNCHANGED <<schema, rows, in, key>>
      /\ disturbed'[r] = {}
  BY DEF Fetch, ReadNow, IInv, TypeOK
<1>3. PICK old \in Row :
        /\ Holds(key[r], old)
        /\ hits' = [hits EXCEPT ![r] = {<<key[r], old>>}]
        /\ IF RowsEqual(old, in[r].doc)
           THEN Finish(r, "noop") /\ UNCHANGED <<batch, upsert>>
           ELSE /\ pc' = [pc EXCEPT ![r] = "write"]
                /\ upsert' = [upsert EXCEPT ![r] = TRUE]
                /\ batch' = [batch EXCEPT ![r] =
                     {<<IF in[r].pk = NoKey THEN key[r] ELSE in[r].pk, Overlay(old, in[r].doc)>>}]
                /\ UNCHANGED reply
  BY DEF Fetch
<1>4. hits'[r] = {<<key[r], old>>} /\ <<key[r], old>>[1] = key[r] /\ <<key[r], old>>[2] = old
  BY <1>3 DEF IInv, TypeOK
<1>5. CASE RowsEqual(old, in[r].doc)
  <2>1. pc'[r] = "done"
    BY <1>3, <1>5 DEF Finish, IInv, TypeOK
  <2>2. in[r].doc \in Doc
    BY <1>1 DEF InputType
  <2>3. ASSUME NEW f \in Fields
        PROVE  in[r].doc[f] \in {Absent, old[f]} \/ Blurred(f, in[r].doc[f], old[f])'
    BY <1>2, <1>5, <2>2, EqualCells DEF Blurred
  <2>4. NoopUnchanged(r)'
    BY <1>2, <1>4, <2>3 DEF NoopUnchanged, Blurred
  <2>5. QED
    BY <2>1, <2>4 DEF Plan, Waits, DocumentPlanned, InsertPlanned, MergePlanned, ScanCovers
<1>6. CASE ~RowsEqual(old, in[r].doc)
  <2>1. pc'[r] = "write" /\ upsert'[r] /\ reply'[r] = "none"
    BY <1>1, <1>3, <1>6 DEF IInv, TypeOK
  <2>2. batch'[r] = {<<IF in[r].pk = NoKey THEN key[r] ELSE in[r].pk, Overlay(old, in[r].doc)>>}
    BY <1>3, <1>6 DEF IInv, TypeOK
  <2>3. batch'[r] = {Merged(in[r], h) : h \in hits'[r]}
    BY <1>4, <2>2 DEF Merged
  <2>4. \A h \in hits'[r] : Merged(in[r], h)' = Merged(in[r], h)
    BY <1>2 DEF Merged, Overlay, Refetched
  <2>5. UpdateKey(in[r])' = UpdateKey(in[r])
    BY <1>2 DEF UpdateKey, KeysEqual
  <2>6. \A h \in hits'[r] : Holds(h[1], h[2])'
    BY <1>2, <1>3, <1>4 DEF Holds
  <2>7. MergePlanned(r)'
    BY <1>1, <1>2, <1>4, <2>1, <2>3, <2>4, <2>5, <2>6 DEF MergePlanned
  <2>8. QED
    BY <1>1, <1>2, <2>1, <2>7 DEF Plan, Waits, DocumentPlanned, InsertPlanned, ScanCovers, NoopUnchanged
<1>7. QED
  BY <1>5, <1>6

\* The scan of an UPDATE: the rows it read stand in the store.
LEMMA ScanPlan ==
  ASSUME IInv, NEW r \in Req, Plan(r), Scan(r) PROVE Plan(r)'
<1> USE ConstantsAssumption
<1>1. pc[r] = "scan" /\ reply[r] = "none" /\ in[r] \in InputType /\ in[r].op = "pgupdate"
  BY DEF Scan, IInv, HandlerShape, Plan, Waits
<1>2. /\ UNCHANGED <<schema, rows, in, key, reply>>
      /\ disturbed'[r] = {} /\ pc'[r] = "write" /\ upsert'[r]
  BY DEF Scan, ReadNow, IInv, TypeOK
<1>3. PICK H \in Pages(Matching(in[r])) :
        /\ hits' = [hits EXCEPT ![r] = H]
        /\ batch' = [batch EXCEPT ![r] =
             {<<IF in[r].pk = NoKey THEN h[1] ELSE in[r].pk, Overlay(h[2], in[r].doc)>> : h \in H}]
  BY DEF Scan
<1>4. hits'[r] = H /\ batch'[r] = {Merged(in[r], h) : h \in H}
  BY <1>3 DEF IInv, TypeOK, Merged
<1>5. /\ \A h, g \in H : h[1] = g[1] => h = g
      /\ \A h \in H : Holds(h[1], h[2])
  BY DEF Pages, Matching
<1>6. \A h \in H : Merged(in[r], h)' = Merged(in[r], h) /\ Holds(h[1], h[2])' = Holds(h[1], h[2])
  BY <1>2 DEF Merged, Overlay, Refetched, Holds
<1>7. MergePlanned(r)'
  BY <1>1, <1>2, <1>4, <1>5, <1>6 DEF MergePlanned
<1>8. ScanCovers(r)'
  <2> SUFFICES ASSUME Cardinality(H) < ScanLimit,
                      NEW h \in in[r].where, Holds(h[1], h[2])
               PROVE  \E g \in H : g[1] = h[1]
    BY <1>2, <1>4 DEF ScanCovers, Holds
  <2>1. h \in Matching(in[r])
    BY DEF Matching
  <2>2. Cardinality(H) # ScanLimit
    <3>1. ASSUME Cardinality(H) = ScanLimit PROVE FALSE
      <4>1. ScanLimit < ScanLimit
        BY <3>1
      <4>2. QED
        BY <4>1
    <3>2. QED
      BY <3>1
  <2>3. {g[1] : g \in H} = {g[1] : g \in Matching(in[r])}
    BY <2>2 DEF Pages
  <2>4. h[1] \in {g[1] : g \in H}
    BY <2>1, <2>3
  <2>5. QED
    BY <2>4
<1>9. QED
  BY <1>1, <1>2, <1>7, <1>8 DEF Plan, Waits, DocumentPlanned, InsertPlanned, NoopUnchanged

\* Every step of a handler leaves it with a plan for its request.
LEMMA StepPlan ==
  ASSUME IInv, NEW r \in Req, Plan(r), Step(r) PROVE Plan(r)'
<1>1. CASE ReadFails(r)
  BY <1>1, DonePlan DEF ReadFails, Refuse, Finish, IInv, TypeOK
<1>2. CASE FetchMissing(r)
  BY <1>2, DonePlan DEF FetchMissing, Refuse, Finish, IInv, TypeOK
<1>3. CASE WriteRejected(r) \/ WriteFailed(r)
  BY <1>3, DonePlan DEF WriteRejected, WriteFailed, Refuse, Finish, IInv, TypeOK
<1>4. CASE WriteApplied(r) \/ WriteAnswerLost(r)
  <2>1. SuccessOf(r) # "noop"
    BY DEF SuccessOf
  <2>2. QED
    BY <1>4, <2>1, DonePlan DEF WriteApplied, WriteAnswerLost, Finish, IInv, TypeOK
<1>5. QED
  BY <1>1, <1>2, <1>3, <1>4, StartPlan, LookupPlan, FetchPlan, ScanPlan DEF Step, HandlerStep

\* The second invariant holds at first and is kept by every step.
LEMMA InitPlan == Init => PlanInv
BY DEF Init, PlanInv, Plan, Waits, DocumentPlanned, InsertPlanned, MergePlanned, ScanCovers, NoopUnchanged

LEMMA NextPlan == IInv /\ PlanInv /\ [Next]_vars => PlanInv'
<1> SUFFICES ASSUME IInv, PlanInv, [Next]_vars PROVE PlanInv'
  OBVIOUS
<1>1. ASSUME NEW r \in Req, Step(r) PROVE PlanInv'
  <2>1. ASSUME NEW q \in Req PROVE Plan(q)'
    <3>1. CASE q = r
      BY <1>1, <3>1, StepPlan DEF PlanInv
    <3>2. CASE q # r
      BY <1>1, <3>2, StepFrame, PlanFrame DEF PlanInv
    <3>3. QED
      BY <3>1, <3>2
  <2>2. QED
    BY <2>1 DEF PlanInv
<1>2. CASE UNCHANGED vars
  <2>1. \A q \in Req : Framed(q)
    BY <1>2 DEF vars, Framed
  <2>2. QED
    BY <2>1, PlanFrame DEF PlanInv
<1>3. QED
  BY <1>1, <1>2 DEF Next, AllDone, Step

(***************************************************************************)
(* What lands.                                                             *)
(***************************************************************************)

\* A stored row with the cells of a document replaced.
Patch(old, doc) == [f \in Fields |-> IF doc[f] = Absent THEN old[f] ELSE Stored(doc)[f]]

\* A merged row that passes the strict validation is stored as the old row with
\* the named cells replaced: a fetched cell that writeValue does not know is
\* refused, so none is lost on the way.
LEMMA MergeStored ==
  ASSUME NEW old \in Row, NEW doc \in Doc,
         \A f \in Fields : CellAccepted(f, Overlay(old, doc)[f])
  PROVE  Stored(Overlay(old, doc)) = Patch(old, doc)
<1> USE ConstantsAssumption
<1>1. ASSUME NEW f \in Fields PROVE Stored(Overlay(old, doc))[f] = Patch(old, doc)[f]
  <2>1. Overlay(old, doc)[f] # Bad
    BY <1>1 DEF CellAccepted
  <2>2. Stored(Overlay(old, doc))[f]
          = IF Overlay(old, doc)[f] \in Values THEN Overlay(old, doc)[f] ELSE Null
    BY <1>1 DEF Stored
  <2>3. CASE doc[f] = Absent
    <3>1. Overlay(old, doc)[f] = Refetched(f, old[f])
      BY <2>3 DEF Overlay
    <3>2. Overlay(old, doc)[f] = old[f]
      BY <2>1, <3>1 DEF Refetched
    <3>3. old[f] \in Values \cup {Null}
      BY DEF Row, Cell
    <3>4. QED
      BY <2>2, <2>3, <3>2, <3>3 DEF Patch
  <2>4. CASE doc[f] # Absent
    <3>1. Overlay(old, doc)[f] = doc[f]
      BY <2>4 DEF Overlay
    <3>2. QED
      BY <2>2, <2>4, <3>1 DEF Patch, Stored
  <2>5. QED
    BY <2>3, <2>4
<1>2. QED
  BY <1>1 DEF Stored, Patch

\* What a merge lands: one patched row for each row it read.
PatchedHit(i, h) == <<IF i.pk = NoKey THEN h[1] ELSE i.pk, Patch(h[2], i.doc)>>

LEMMA MergeLanding ==
  ASSUME IInv, NEW r \in Req, Plan(r), pc[r] = "write",
         in[r].op \in {"update", "pgupdate"},
         ValidateWriteCells(batch[r]), NEW L \in Landings(batch[r])
  PROVE  /\ L = {PatchedHit(in[r], h) : h \in hits[r]}
         /\ hits[r] # {} => ~schema.autoID
<1> USE ConstantsAssumption
<1>1. /\ in[r].pk \in Keys \cup {NoKey} /\ in[r].doc \in Doc
      /\ hits[r] \subseteq Keys \X Row
  BY DEF IInv, TypeOK, HandlerShape, InputType
<1>2. batch[r] = {Merged(in[r], h) : h \in hits[r]}
  BY DEF Plan, MergePlanned
<1>3. ASSUME NEW h \in hits[r]
      PROVE  /\ ~schema.autoID
             /\ <<Merged(in[r], h)[1], Stored(Merged(in[r], h)[2])>> = PatchedHit(in[r], h)
  <2>1. RowAccepted(Merged(in[r], h))
    BY <1>2 DEF ValidateWriteCells
  <2>2. h[1] \in Keys /\ h[2] \in Row
    BY <1>1
  <2>3. Merged(in[r], h)[1] \in Keys /\ Merged(in[r], h)[2] = Overlay(h[2], in[r].doc)
    BY <1>1, <2>2 DEF Merged
  <2>4. ~schema.autoID
    BY <2>1, <2>3 DEF RowAccepted
  <2>5. Stored(Overlay(h[2], in[r].doc)) = Patch(h[2], in[r].doc)
    BY <1>1, <2>1, <2>2, <2>3, MergeStored DEF RowAccepted
  <2>6. QED
    BY <2>3, <2>4, <2>5 DEF PatchedHit, Merged
<1>4. CASE hits[r] = {}
  <2>1. batch[r] = {}
    BY <1>2, <1>4
  <2>2. L = {}
    BY <2>1 DEF Landings
  <2>3. QED
    BY <1>4, <2>2
<1>5. CASE hits[r] # {}
  <2>1. ~schema.autoID
    BY <1>3, <1>5
  <2>2. L = {<<b[1], Stored(b[2])>> : b \in batch[r]}
    BY <2>1 DEF Landings
  <2>3. L = {<<Merged(in[r], h)[1], Stored(Merged(in[r], h)[2])>> : h \in hits[r]}
    BY <1>2, <2>2
  <2>4. L = {PatchedHit(in[r], h) : h \in hits[r]}
    BY <1>3, <2>3
  <2>5. QED
    BY <2>1, <2>4
<1>6. QED
  BY <1>4, <1>5

\* A write takes effect in one step of its own handler, of a validated batch.
LEMMA WhoWrites ==
  ASSUME IInv, [Next]_vars, NEW r \in Req, applied'[r], ~applied[r]
  PROVE  /\ pc[r] = "write" /\ ValidateWriteCells(batch[r])
         /\ \E L \in Landings(batch[r]) : Apply(r, L)
<1>1. ASSUME NEW q \in Req, Step(q) PROVE q = r
  BY <1>1, StepFrame DEF Framed
<1>2. Step(r)
  <2>1. CASE UNCHANGED vars
    BY <2>1 DEF vars
  <2>2. CASE \E q \in Req : Step(q)
    BY <1>1, <2>2
  <2>3. QED
    BY <2>1, <2>2 DEF Next, AllDone, Step
<1>3. ASSUME UNCHANGED applied PROVE FALSE
  BY <1>3
<1>4. WriteApplied(r) \/ WriteAnswerLost(r)
  BY <1>2, <1>3 DEF Step, HandlerStep, Start, ReadFails, Lookup, FetchMissing, Fetch, Scan,
       WriteRejected, WriteFailed
<1>5. QED
  BY <1>4 DEF WriteApplied, WriteAnswerLost

(***************************************************************************)
(* The theorems.                                                           *)
(***************************************************************************)

\* A noop answer was given for a row that already had every cell the document
\* named, or a cell that is the same float64.
THEOREM NoopsTruthful == Spec => []NoopMeansUnchanged
<1>1. PlanInv => NoopMeansUnchanged
  BY DEF PlanInv, Plan, NoopUnchanged, NoopMeansUnchanged
<1>2. QED
  BY <1>1, InitInv, NextInv, InitPlan, NextPlan, PTL DEF Spec

\* The keys of a landing are addressed by the request.
LEMMA LandsAddressed ==
  ASSUME IInv, NEW r \in Req, Plan(r), pc[r] = "write", ~KeyBlurred(r),
         ValidateWriteCells(batch[r]), NEW L \in Landings(batch[r])
  PROVE  KeysOf(L) \subseteq Addressed(r)
<1> USE ConstantsAssumption
<1> SUFFICES ASSUME NEW x \in L PROVE x[1] \in Addressed(r)
  BY DEF KeysOf
<1>1. in[r] \in InputType /\ L \subseteq Keys \X Row
  BY LandingType DEF IInv, TypeOK, HandlerShape
<1>2. x[1] \in Keys
  BY <1>1
<1>3. ASSUME schema.autoID PROVE x[1] \in Keys \ HeldKeys
  BY <1>3 DEF Landings
<1>4. CASE in[r].op \in {"index", "create"}
  <2>1. CASE schema.autoID
    BY <1>3, <1>4, <2>1 DEF Addressed
  <2>2. CASE ~schema.autoID
    <3>1. batch[r] = {<<key[r], in[r].doc>>}
      BY <1>4, <2>2 DEF Plan, DocumentPlanned
    <3>2. x[1] = key[r]
      BY <2>2, <3>1 DEF Landings
    <3>3. QED
      BY <1>4, <2>2, <3>2 DEF Addressed
  <2>3. QED
    BY <2>1, <2>2
<1>5. CASE in[r].op = "pginsert"
  <2>1. batch[r] = in[r].rows
    BY <1>5 DEF Plan, InsertPlanned
  <2>2. CASE schema.autoID
    BY <1>3, <1>5, <2>2 DEF Addressed
  <2>3. CASE ~schema.autoID
    <3>1. x[1] \in {b[1] : b \in in[r].rows}
      BY <2>1, <2>3 DEF Landings
    <3>2. QED
      BY <1>5, <2>3, <3>1 DEF Addressed
  <2>4. QED
    BY <2>2, <2>3
<1>6. CASE in[r].op \in {"update", "pgupdate"}
  <2>1. L = {PatchedHit(in[r], h) : h \in hits[r]}
    BY <1>6, MergeLanding
  <2>2. PICK h \in hits[r] : x[1] = IF in[r].pk = NoKey THEN h[1] ELSE in[r].pk
    BY <2>1 DEF PatchedHit
  <2>3. CASE in[r].op = "pgupdate"
    BY <2>2, <2>3 DEF Addressed
  <2>4. CASE in[r].op = "update"
    <3>1. h[1] = key[r] /\ key[r] \in UpdateKey(in[r])
      BY <2>4 DEF Plan, MergePlanned
    <3>2. /\ key[r] = in[r].url
          /\ in[r].pk # NoKey => IF schema.stringPk THEN key[r] = in[r].pk
                                 ELSE RoundKey[key[r]] = RoundKey[in[r].pk]
      BY <3>1 DEF UpdateKey, KeysEqual
    <3>3. in[r].pk \in {NoKey, in[r].url}
      BY <1>1, <2>4, <3>2 DEF KeyBlurred, InputType
    <3>4. x[1] = in[r].url
      BY <2>2, <3>1, <3>2, <3>3
    <3>5. QED
      BY <2>4, <3>4 DEF Addressed
  <2>5. QED
    BY <1>6, <2>3, <2>4
<1>7. QED
  BY <1>1, <1>4, <1>5, <1>6 DEF InputType, Ops

\* A write changes the rows of no key that its request does not address, an
\* _update whose document names another key of the same float64 left out.
THEOREM OnlyAddressedWritten == Spec => WritesOnlyAddressed
<1>1. IInv /\ PlanInv /\ [Next]_vars =>
        [\A r \in Req : applied'[r] /\ ~applied[r] /\ ~KeyBlurred(r) =>
           \A k \in Keys \ Addressed(r) : rows'[k] = rows[k]]_vars
  <2> SUFFICES ASSUME IInv, PlanInv, [Next]_vars, NEW r \in Req, applied'[r], ~applied[r],
                      ~KeyBlurred(r), NEW k \in Keys \ Addressed(r)
               PROVE  rows'[k] = rows[k]
    OBVIOUS
  <2>1. PICK L \in Landings(batch[r]) : Apply(r, L)
    BY WhoWrites
  <2>2. pc[r] = "write" /\ ValidateWriteCells(batch[r])
    BY WhoWrites
  <2>3. L \in SUBSET (Keys \X Row) /\ rows \in [Keys -> [Row -> Nat]]
    BY <2>2, LandingType DEF IInv, TypeOK
  <2>4. k \notin KeysOf(L)
    BY <2>2, LandsAddressed DEF PlanInv
  <2>5. QED
    BY <2>1, <2>3, <2>4, BagAfter DEF Apply
<1>2. QED
  BY <1>1, InitInv, NextInv, InitPlan, NextPlan, PTL DEF Spec, WritesOnlyAddressed

\* A merge that nobody disturbed leaves the cells its request does not name as
\* they are in the store.
THEOREM MergesKeepCells == Spec => UndisturbedMerge
<1>1. IInv /\ PlanInv /\ [Next]_vars =>
        [\A r \in Req :
           /\ applied'[r] /\ ~applied[r]
           /\ in[r].op \in {"update", "pgupdate"} /\ in[r].pk = NoKey
           => \A h \in hits[r] :
                h[1] \notin disturbed[r] /\ SingleRow(rows[h[1]]) =>
                  \A v, w \in Row :
                    rows[h[1]][v] > 0 /\ rows'[h[1]][w] > 0 =>
                      \A f \in Fields : in[r].doc[f] = Absent => w[f] = v[f]]_vars
  <2> SUFFICES ASSUME IInv, PlanInv, [Next]_vars, NEW r \in Req, applied'[r], ~applied[r],
                      in[r].op \in {"update", "pgupdate"}, in[r].pk = NoKey,
                      NEW h \in hits[r], h[1] \notin disturbed[r], SingleRow(rows[h[1]]),
                      NEW v \in Row, NEW w \in Row, rows[h[1]][v] > 0, rows'[h[1]][w] > 0,
                      NEW f \in Fields, in[r].doc[f] = Absent
               PROVE  w[f] = v[f]
    OBVIOUS
  <2>1. PICK L \in Landings(batch[r]) : Apply(r, L)
    BY WhoWrites
  <2>2. pc[r] = "write" /\ ValidateWriteCells(batch[r])
    BY WhoWrites
  <2>3. h[1] \in Keys /\ h[2] \in Row
    BY DEF IInv, TypeOK
  <2>4. /\ upsert[r] /\ Holds(h[1], h[2])
        /\ \A g \in hits[r] : g[1] = h[1] => g = h
    BY <2>2 DEF PlanInv, Plan, MergePlanned
  <2>5. v = h[2]
    BY <2>3, <2>4 DEF Holds, SingleRow
  <2>6. L = {PatchedHit(in[r], g) : g \in hits[r]}
    BY <2>2, MergeLanding DEF PlanInv
  <2>7. PatchedHit(in[r], h) \in L /\ PatchedHit(in[r], h)[1] = h[1]
    BY <2>6 DEF PatchedHit
  <2>8. <<h[1], w>> \in L
    <3>1. rows'[h[1]] = [u \in Row |-> IF <<h[1], u>> \in L THEN 1 ELSE 0]
      BY <2>1, <2>3, <2>4, <2>7 DEF Apply, UpsertRows, KeysOf
    <3>2. QED
      BY <3>1
  <2>9. PICK g \in hits[r] : <<h[1], w>> = <<g[1], Patch(g[2], in[r].doc)>>
    BY <2>6, <2>8 DEF PatchedHit
  <2>10. w = Patch(h[2], in[r].doc)
    BY <2>4, <2>9
  <2>11. QED
    BY <2>5, <2>10 DEF Patch
<1>2. QED
  BY <1>1, InitInv, NextInv, InitPlan, NextPlan, PTL DEF Spec, UndisturbedMerge

\* An UPDATE that did not fill its limit gives the cells of its SET to every row
\* that matches and that nobody wrote since the scan.
THEOREM UpdatesReachMatches == Spec => UpdateReachesMatches
<1>1. IInv /\ PlanInv /\ [Next]_vars =>
        [\A r \in Req :
           /\ applied'[r] /\ ~applied[r]
           /\ in[r].op = "pgupdate" /\ in[r].pk = NoKey
           /\ Cardinality(hits[r]) < ScanLimit
           => \A h \in in[r].where :
                h[1] \notin disturbed[r] /\ rows[h[1]][h[2]] > 0 =>
                  \A w \in Row : rows'[h[1]][w] > 0 =>
                    \A f \in Fields : in[r].doc[f] # Absent => w[f] = Stored(in[r].doc)[f]]_vars
  <2> SUFFICES ASSUME IInv, PlanInv, [Next]_vars, NEW r \in Req, applied'[r], ~applied[r],
                      in[r].op = "pgupdate", in[r].pk = NoKey, Cardinality(hits[r]) < ScanLimit,
                      NEW h \in in[r].where, h[1] \notin disturbed[r], rows[h[1]][h[2]] > 0,
                      NEW w \in Row, rows'[h[1]][w] > 0,
                      NEW f \in Fields, in[r].doc[f] # Absent
               PROVE  w[f] = Stored(in[r].doc)[f]
    OBVIOUS
  <2>1. PICK L \in Landings(batch[r]) : Apply(r, L)
    BY WhoWrites
  <2>2. pc[r] = "write" /\ ValidateWriteCells(batch[r])
    BY WhoWrites
  <2>3. PICK g \in hits[r] : g[1] = h[1]
    BY <2>2 DEF PlanInv, Plan, ScanCovers, Holds
  <2>4. upsert[r] /\ h[1] \in Keys
    BY <2>2, <2>3 DEF PlanInv, Plan, MergePlanned, IInv, TypeOK
  <2>5. L = {PatchedHit(in[r], e) : e \in hits[r]}
    BY <2>2, MergeLanding DEF PlanInv
  <2>6. PatchedHit(in[r], g) \in L /\ PatchedHit(in[r], g)[1] = h[1]
    BY <2>3, <2>5 DEF PatchedHit
  <2>7. <<h[1], w>> \in L
    <3>1. rows'[h[1]] = [u \in Row |-> IF <<h[1], u>> \in L THEN 1 ELSE 0]
      BY <2>1, <2>4, <2>6 DEF Apply, UpsertRows, KeysOf
    <3>2. QED
      BY <3>1
  <2>8. PICK e \in hits[r] : <<h[1], w>> = <<e[1], Patch(e[2], in[r].doc)>>
    BY <2>5, <2>7 DEF PatchedHit
  <2>9. QED
    BY <2>8 DEF Patch
<1>2. QED
  BY <1>1, InitInv, NextInv, InitPlan, NextPlan, PTL DEF Spec, UpdateReachesMatches

(***************************************************************************)
(* The handlers implement DocStore: the first states map to first states,  *)
(* and every step of a handler to a step of its request or to none.        *)
(***************************************************************************)
\* What a client can tell of a handler at p that answered s.
StatusAt(p, s) ==
  CASE p = "idle" -> "new"
    [] p # "idle" /\ p # "done" -> "pending"
    [] p = "done" /\ s \in ClientErrors -> "refused"
    [] p = "done" /\ s = "noop" -> "unchanged"
    [] p = "done" /\ s \in Successes \ {"noop"} -> "ok"
    [] OTHER -> "failed"

status == [r \in Req |-> StatusOf(r)]

\* The statuses after a step that moves one handler.
LEMMA StatusMoves ==
  ASSUME NEW r \in Req, NEW p, NEW s,
         pc \in [Req -> Phases], reply \in [Req -> Replies],
         pc' = [pc EXCEPT ![r] = p], reply' = [reply EXCEPT ![r] = s]
  PROVE  status' = [status EXCEPT ![r] = StatusAt(p, s)]
<1>1. \A q \in Req : StatusOf(q) = StatusAt(pc[q], reply[q])
  BY DEF StatusOf, StatusAt
<1>2. \A q \in Req : StatusOf(q)' = StatusAt(pc'[q], reply'[q])
  BY DEF StatusOf, StatusAt
<1>3. ASSUME NEW q \in Req PROVE status'[q] = [status EXCEPT ![r] = StatusAt(p, s)][q]
  <2>1. status'[q] = StatusAt(pc'[q], reply'[q])
    BY <1>2 DEF status
  <2>2. CASE q = r
    BY <2>1, <2>2 DEF status
  <2>3. CASE q # r
    BY <1>1, <2>1, <2>3 DEF status
  <2>4. QED
    BY <2>2, <2>3
<1>4. QED
  BY <1>3 DEF status

\* The same for a step that leaves the answer open.
LEMMA StatusWaits ==
  ASSUME NEW r \in Req, NEW p,
         pc \in [Req -> Phases], reply \in [Req -> Replies],
         pc' = [pc EXCEPT ![r] = p], reply' = reply
  PROVE  status' = [status EXCEPT ![r] = StatusAt(p, reply[r])]
<1>1. reply' = [reply EXCEPT ![r] = reply[r]]
  OBVIOUS
<1>2. QED
  BY <1>1, StatusMoves

\* The statuses a handler can be at.
LEMMA StatusNames ==
  /\ \A s : StatusAt("idle", s) = "new"
  /\ \A s : \A p \in {"lookup", "fetch", "scan", "write"} : StatusAt(p, s) = "pending"
  /\ \A s \in ClientErrors : StatusAt("done", s) = "refused"
  /\ StatusAt("done", "noop") = "unchanged"
  /\ \A s \in {"created", "updated", "inserted", "scanned"} : StatusAt("done", s) = "ok"
  /\ StatusAt("done", "error") = "failed"
BY DEF StatusAt, ClientErrors, Successes

\* The abstract state of a handler is its status.
LEMMA StatusIs ==
  ASSUME NEW r \in Req
  PROVE  status[r] = StatusAt(pc[r], reply[r])
BY DEF status, StatusOf, StatusAt

\* The abstract store keeps rows and bags of the same types.
LEMMA SameRows == Docs!Row = Row
BY DEF Docs!Row, Row, Cell

LEMMA DocsInit == Init => Docs!Init
<1> SUFFICES ASSUME Init PROVE Docs!Init
  OBVIOUS
<1>1. rows \in [Keys -> [Row -> Nat]]
  BY InitInv DEF IInv, TypeOK
<1>2. status = [r \in Req |-> "new"]
  BY DEF Init, status, StatusOf
<1>3. QED
  BY <1>1, <1>2, SameRows DEF Init, Docs!Init, status

(***************************************************************************)
(* The steps that do not write.                                            *)
(***************************************************************************)

\* A request arrives, pending or refused at once.
LEMMA StartArrives ==
  ASSUME IInv, NEW r \in Req, Start(r) PROVE Docs!Arrive(r)
<1> USE ConstantsAssumption
<1>1. PICK i \in Inputs :
        /\ in' = [in EXCEPT ![r] = i]
        /\ \/ StartIndex(r, i) \/ StartUpdate(r, i)
           \/ StartPgInsert(r, i) \/ StartPgUpdate(r, i)
  BY DEF Start
<1>2. /\ pc[r] = "idle" /\ UNCHANGED <<rows, hits>>
      /\ pc \in [Req -> Phases] /\ reply \in [Req -> Replies]
  BY <1>1 DEF Start, StartIndex, StartUpdate, StartPgInsert, StartPgUpdate, Refuse, IInv, TypeOK
<1>3. \/ /\ pc' = [pc EXCEPT ![r] = "done"]
         /\ reply' = [reply EXCEPT ![r] = "rejected"]
      \/ /\ \E p \in {"lookup", "fetch", "scan", "write"} : pc' = [pc EXCEPT ![r] = p]
         /\ reply' = reply
  BY <1>1 DEF StartIndex, StartUpdate, StartPgInsert, StartPgUpdate, Refuse, Finish
<1>4. status[r] = "new"
  BY <1>2, StatusIs, StatusNames
<1>5. \E s \in {"pending", "refused", "failed"} : status' = [status EXCEPT ![r] = s]
  <2>1. CASE pc' = [pc EXCEPT ![r] = "done"] /\ reply' = [reply EXCEPT ![r] = "rejected"]
    <3>1. status' = [status EXCEPT ![r] = StatusAt("done", "rejected")]
      BY <1>2, <2>1, StatusMoves
    <3>2. StatusAt("done", "rejected") = "refused"
      BY StatusNames DEF ClientErrors
    <3>3. QED
      BY <3>1, <3>2
  <2>2. ASSUME NEW p \in {"lookup", "fetch", "scan", "write"}, pc' = [pc EXCEPT ![r] = p],
               reply' = reply
        PROVE  status' = [status EXCEPT ![r] = "pending"]
    <3>1. status' = [status EXCEPT ![r] = StatusAt(p, reply[r])]
      BY <1>2, <2>2, StatusWaits
    <3>2. StatusAt(p, reply[r]) = "pending"
      BY StatusNames
    <3>3. QED
      BY <3>1, <3>2
  <2>3. QED
    BY <1>3, <2>1, <2>2
<1>6. QED
  BY <1>1, <1>2, <1>4, <1>5 DEF Docs!Arrive, status

\* A handler ends without effect.
LEMMA Declines ==
  ASSUME IInv, NEW r \in Req, pc[r] \in {"lookup", "fetch", "scan", "write"},
         NEW s \in ClientErrors \cup {"error"}, Finish(r, s), UNCHANGED <<rows, in, hits>>
  PROVE  Docs!Decline(r)
<1>1. status[r] = "pending"
  BY StatusIs, StatusNames
<1>2. status' = [status EXCEPT ![r] = StatusAt("done", s)]
  BY StatusMoves DEF Finish, IInv, TypeOK
<1>3. StatusAt("done", s) \in {"refused", "failed"}
  BY StatusNames
<1>4. QED
  BY <1>1, <1>2, <1>3 DEF Docs!Decline, status

\* A store call that fails before the write: the request fails as it arrives, or
\* is declined.
LEMMA ReadFailsDeclines ==
  ASSUME IInv, NEW r \in Req, ReadFails(r) PROVE Docs!Arrive(r) \/ Docs!Decline(r)
<1>1. Finish(r, "error") /\ UNCHANGED <<rows, hits>>
  BY DEF ReadFails, Refuse
<1>2. CASE pc[r] = "idle"
  <2>1. PICK i \in Inputs : in' = [in EXCEPT ![r] = i]
    BY <1>2 DEF ReadFails
  <2>2. status[r] = "new"
    BY <1>2, StatusIs, StatusNames
  <2>3. status' = [status EXCEPT ![r] = StatusAt("done", "error")]
    BY <1>1, StatusMoves DEF Finish, IInv, TypeOK
  <2>4. QED
    BY <1>1, <2>1, <2>2, <2>3, StatusNames DEF Docs!Arrive, status
<1>3. CASE pc[r] # "idle"
  <2>1. pc[r] \in {"lookup", "fetch", "scan", "write"} /\ UNCHANGED in
    BY <1>3 DEF ReadFails
  <2>2. QED
    BY <1>1, <2>1, Declines
<1>4. QED
  BY <1>2, <1>3

\* The existence check is nothing a client sees, unless it ends in a conflict.
LEMMA LookupHidden ==
  ASSUME IInv, NEW r \in Req, Lookup(r) PROVE Docs!Decline(r) \/ UNCHANGED Docs!vars
<1>1. pc[r] = "lookup" /\ UNCHANGED <<rows, in, hits>>
  BY DEF Lookup, Refuse
<1>2. CASE HasKey(key[r]) /\ in[r].op = "create"
  <2>1. Finish(r, "conflict")
    BY <1>2 DEF Lookup, Refuse
  <2>2. QED
    BY <1>1, <2>1, Declines DEF ClientErrors
<1>3. CASE ~(HasKey(key[r]) /\ in[r].op = "create")
  <2>1. pc' = [pc EXCEPT ![r] = "write"] /\ reply' = reply
    BY <1>3 DEF Lookup
  <2>2. status' = [status EXCEPT ![r] = StatusAt("write", reply[r])]
    BY <2>1, StatusWaits DEF IInv, TypeOK
  <2>3. status[r] = StatusAt("write", reply[r])
    BY <1>1, StatusIs, StatusNames
  <2>4. status' = status
    BY <2>2, <2>3 DEF status
  <2>5. QED
    BY <1>1, <2>4 DEF Docs!vars, status
<1>4. QED
  BY <1>2, <1>3

\* The fetch of _update and the scan of UPDATE look at rows the store holds.
LEMMA ReadsLook ==
  ASSUME IInv, NEW r \in Req, Fetch(r) \/ Scan(r) PROVE Docs!Look(r)
<1> USE ConstantsAssumption
<1>1. pc[r] \in {"fetch", "scan"} /\ UNCHANGED <<rows, in>>
  BY DEF Fetch, Scan
<1>2. in[r] \in InputType /\ pc[r] = "fetch" => key[r] \in Keys
  BY <1>1 DEF IInv, HandlerShape
<1>3. status[r] = "pending"
  BY <1>1, StatusIs, StatusNames
<1>4. \E H \in SUBSET Docs!Held : hits' = [hits EXCEPT ![r] = H]
  <2>1. CASE Fetch(r)
    <3>1. PICK old \in Row : Holds(key[r], old) /\ hits' = [hits EXCEPT ![r] = {<<key[r], old>>}]
      BY <2>1 DEF Fetch
    <3>2. key[r] \in Keys
      BY <2>1 DEF Fetch, IInv, HandlerShape
    <3>3. {<<key[r], old>>} \in SUBSET Docs!Held
      BY <3>1, <3>2, SameRows DEF Docs!Held, Holds
    <3>4. QED
      BY <3>1, <3>3
  <2>2. CASE Scan(r)
    <3>1. PICK H \in Pages(Matching(in[r])) : hits' = [hits EXCEPT ![r] = H]
      BY <2>2 DEF Scan
    <3>2. in[r] \in InputType
      BY <2>2 DEF Scan, IInv, HandlerShape
    <3>3. H \subseteq Keys \X Row /\ \A h \in H : Holds(h[1], h[2])
      BY <3>2 DEF Pages, Matching, InputType
    <3>4. H \in SUBSET Docs!Held
      BY <3>3, SameRows DEF Docs!Held, Holds
    <3>5. QED
      BY <3>1, <3>4
  <2>3. QED
    BY <2>1, <2>2
<1>5. \E s \in {"pending", "unchanged"} : status' = [status EXCEPT ![r] = s]
  <2>1. \/ pc' = [pc EXCEPT ![r] = "done"] /\ reply' = [reply EXCEPT ![r] = "noop"]
        \/ pc' = [pc EXCEPT ![r] = "write"] /\ reply' = reply
    BY DEF Fetch, Scan, Finish
  <2>2. CASE pc' = [pc EXCEPT ![r] = "done"] /\ reply' = [reply EXCEPT ![r] = "noop"]
    <3>1. status' = [status EXCEPT ![r] = StatusAt("done", "noop")]
      BY <2>2, StatusMoves DEF IInv, TypeOK
    <3>2. QED
      BY <3>1, StatusNames
  <2>3. CASE pc' = [pc EXCEPT ![r] = "write"] /\ reply' = reply
    <3>1. status' = [status EXCEPT ![r] = StatusAt("write", reply[r])]
      BY <2>3, StatusWaits DEF IInv, TypeOK
    <3>2. StatusAt("write", reply[r]) = "pending"
      BY StatusNames
    <3>3. QED
      BY <3>1, <3>2
  <2>4. QED
    BY <2>1, <2>2, <2>3
<1>6. QED
  BY <1>1, <1>3, <1>4, <1>5 DEF Docs!Look, status

(***************************************************************************)
(* The write.                                                              *)
(***************************************************************************)

\* Insert and Upsert are the two ways the abstract store takes rows.
LEMMA SameCalls ==
  ASSUME NEW L
  PROVE  InsertRows(L) = Docs!Added(L) /\ UpsertRows(L) = Docs!Replaced(L)
<1>1. InsertRows(L) = Docs!Added(L)
  BY SameRows DEF InsertRows, Docs!Added
<1>2. ASSUME NEW k \in Keys PROVE k \in KeysOf(L) <=> \E l \in L : l[1] = k
  BY DEF KeysOf
<1>3. UpsertRows(L) = Docs!Replaced(L)
  BY <1>2, SameRows DEF UpsertRows, Docs!Replaced
<1>4. QED
  BY <1>1, <1>3

\* columnOf makes of a document the row that the abstract store asks for.
LEMMA SameDocuments ==
  /\ \A d : Stored(d) = Docs!Filled(d)
  /\ \A old, d : Patch(old, d) = Docs!Patched(old, d)
BY DEF Stored, Docs!Filled, Patch, Docs!Patched

\* The rows that land are rows the command asks for.
LEMMA SameLandings ==
  ASSUME IInv, NEW r \in Req, Plan(r), pc[r] = "write",
         ValidateWriteCells(batch[r]), NEW L \in Landings(batch[r])
  PROVE  L \in Docs!Landings(r)
<1> USE ConstantsAssumption
<1>1. in[r] \in InputType /\ L \subseteq Keys \X Row
  BY LandingType DEF IInv, TypeOK, HandlerShape
<1>2. CASE in[r].op \in {"index", "create"}
  <2>1. \E k \in IF in[r].url \in Keys THEN {in[r].url} ELSE Keys : L = {<<k, Stored(in[r].doc)>>}
    <3>1. CASE schema.autoID
      <4>1. batch[r] = {<<in[r].pk, in[r].doc>>} /\ in[r].url = NoKey
        BY <1>2, <3>1 DEF Plan, DocumentPlanned
      <4>2. PICK g \in [batch[r] -> Keys \ HeldKeys] :
              L = {<<g[b], Stored(b[2])>> : b \in batch[r]}
        BY <3>1 DEF Landings
      <4>3. L = {<<g[<<in[r].pk, in[r].doc>>], Stored(in[r].doc)>>}
        BY <4>1, <4>2
      <4>4. g[<<in[r].pk, in[r].doc>>] \in Keys
        BY <4>1, <4>2
      <4>5. QED
        BY <4>1, <4>3, <4>4
    <3>2. CASE ~schema.autoID
      <4>1. /\ batch[r] = {<<key[r], in[r].doc>>} /\ key[r] \in Keys
            /\ in[r].url \in Keys => key[r] = in[r].url
        BY <1>2, <3>2 DEF Plan, DocumentPlanned
      <4>2. L = {<<key[r], Stored(in[r].doc)>>}
        BY <3>2, <4>1 DEF Landings
      <4>3. QED
        BY <4>1, <4>2
    <3>3. QED
      BY <3>1, <3>2
  <2>2. QED
    BY <1>2, <2>1, SameDocuments DEF Docs!Landings
<1>3. CASE in[r].op = "pginsert"
  <2>1. batch[r] = in[r].rows /\ in[r].rows \subseteq (Keys \cup {NoKey}) \X Doc
    BY <1>1, <1>3 DEF Plan, InsertPlanned, InputType
  <2>2. ASSUME NEW b \in in[r].rows
        PROVE  IF schema.autoID THEN b[1] = NoKey ELSE b[1] \in Keys
    BY <2>1 DEF ValidateWriteCells, RowAccepted
  <2>3. \E g \in [in[r].rows -> Keys] :
          /\ \A b \in in[r].rows : g[b] \in IF b[1] \in Keys THEN {b[1]} ELSE Keys
          /\ L = {<<g[b], Stored(b[2])>> : b \in in[r].rows}
    <3>1. CASE schema.autoID
      <4>1. PICK g \in [in[r].rows -> Keys \ HeldKeys] :
              L = {<<g[b], Stored(b[2])>> : b \in in[r].rows}
        BY <2>1, <3>1 DEF Landings
      <4>2. g \in [in[r].rows -> Keys]
        OBVIOUS
      <4>3. QED
        BY <2>2, <3>1, <4>1, <4>2
    <3>2. CASE ~schema.autoID
      <4> DEFINE g == [b \in in[r].rows |-> b[1]]
      <4>1. g \in [in[r].rows -> Keys] /\ \A b \in in[r].rows : g[b] = b[1]
        BY <2>2, <3>2
      <4>2. L = {<<b[1], Stored(b[2])>> : b \in in[r].rows}
        BY <2>1, <3>2 DEF Landings
      <4> HIDE DEF g
      <4>3. L = {<<g[b], Stored(b[2])>> : b \in in[r].rows}
        BY <4>1, <4>2
      <4>4. QED
        BY <2>2, <3>2, <4>1, <4>3
    <3>3. QED
      BY <3>1, <3>2
  <2> DEFINE G == {h \in [in[r].rows -> Keys] :
                     \A b \in in[r].rows : h[b] \in IF b[1] \in Keys THEN {b[1]} ELSE Keys}
             landed(g) == {<<g[b], Docs!Filled(b[2])>> : b \in in[r].rows}
  <2>4. Docs!Landings(r) = {landed(g) : g \in G}
    BY <1>3 DEF Docs!Landings
  <2>5. PICK g \in G : L = {<<g[b], Stored(b[2])>> : b \in in[r].rows}
    <3>1. PICK h \in [in[r].rows -> Keys] :
            /\ \A b \in in[r].rows : h[b] \in IF b[1] \in Keys THEN {b[1]} ELSE Keys
            /\ L = {<<h[b], Stored(b[2])>> : b \in in[r].rows}
      BY <2>3
    <3>2. h \in G
      BY <3>1
    <3> HIDE DEF G
    <3>3. QED
      BY <3>1, <3>2
  <2>6. L = landed(g)
    BY <2>5, SameDocuments
  <2> HIDE DEF G, landed
  <2>7. QED
    BY <2>4, <2>5, <2>6
<1>4. CASE in[r].op \in {"update", "pgupdate"}
  <2>1. L = {PatchedHit(in[r], h) : h \in hits[r]}
    BY <1>4, MergeLanding
  <2>2. QED
    BY <1>4, <2>1, SameDocuments DEF Docs!Landings, PatchedHit
<1>5. QED
  BY <1>1, <1>2, <1>3, <1>4 DEF InputType, Ops

\* The write that takes effect, whether its answer arrives or not.
LEMMA WriteCommits ==
  ASSUME IInv, NEW r \in Req, Plan(r), WriteApplied(r) \/ WriteAnswerLost(r)
  PROVE  Docs!Commit(r)
<1> USE ConstantsAssumption
<1>1. /\ pc[r] = "write" /\ ValidateWriteCells(batch[r]) /\ UNCHANGED <<in, hits>>
      /\ \E s \in {"created", "updated", "inserted", "scanned", "error"} : Finish(r, s)
  BY DEF WriteApplied, WriteAnswerLost, SuccessOf
<1>2. PICK L \in Landings(batch[r]) : Apply(r, L)
  BY DEF WriteApplied, WriteAnswerLost
<1>3. L \in Docs!Landings(r)
  BY <1>1, SameLandings
<1>4. in[r].op \in Ops
  BY <1>1 DEF IInv, HandlerShape, InputType
<1>5. /\ upsert[r] => in[r].op # "pginsert"
      /\ ~upsert[r] => in[r].op \in {"index", "create", "pginsert"}
  BY <1>1, <1>4 DEF Plan, InsertPlanned, MergePlanned, Ops
<1>6. \/ in[r].op # "pginsert" /\ rows' = Docs!Replaced(L)
      \/ in[r].op \in {"index", "create", "pginsert"} /\ rows' = Docs!Added(L)
  BY <1>2, <1>5, SameCalls DEF Apply
<1>7. status[r] = "pending"
  BY <1>1, StatusIs, StatusNames
<1>8. \E s \in {"ok", "failed"} : status' = [status EXCEPT ![r] = s]
  <2>1. PICK s \in {"created", "updated", "inserted", "scanned", "error"} : Finish(r, s)
    BY <1>1
  <2>2. status' = [status EXCEPT ![r] = StatusAt("done", s)]
    BY <2>1, StatusMoves DEF Finish, IInv, TypeOK
  <2>3. StatusAt("done", s) \in {"ok", "failed"}
    BY StatusNames
  <2>4. QED
    BY <2>2, <2>3
<1>9. QED
  BY <1>1, <1>3, <1>6, <1>7, <1>8 DEF Docs!Commit, status

\* Every step maps to a step of the document store or to none.
LEMMA DocsNext == IInv /\ PlanInv /\ [Next]_vars => [Docs!Next]_Docs!vars
<1> SUFFICES ASSUME IInv, PlanInv, [Next]_vars PROVE Docs!Next \/ UNCHANGED Docs!vars
  OBVIOUS
<1>1. ASSUME NEW r \in Req, Start(r) PROVE Docs!Next
  BY <1>1, StartArrives DEF Docs!Next
<1>2. ASSUME NEW r \in Req, ReadFails(r) PROVE Docs!Next
  BY <1>2, ReadFailsDeclines DEF Docs!Next
<1>3. ASSUME NEW r \in Req, Lookup(r) PROVE Docs!Next \/ UNCHANGED Docs!vars
  BY <1>3, LookupHidden DEF Docs!Next
<1>4. ASSUME NEW r \in Req, FetchMissing(r) PROVE Docs!Next
  <2>1. pc[r] = "fetch" /\ Finish(r, "missing") /\ UNCHANGED <<rows, in, hits>>
    BY <1>4 DEF FetchMissing, Refuse
  <2>2. QED
    BY <2>1, Declines DEF Docs!Next, ClientErrors
<1>5. ASSUME NEW r \in Req, Fetch(r) \/ Scan(r) PROVE Docs!Next
  BY <1>5, ReadsLook DEF Docs!Next
<1>6. ASSUME NEW r \in Req, WriteRejected(r) \/ WriteFailed(r) PROVE Docs!Next
  <2>1. /\ pc[r] = "write" /\ UNCHANGED <<rows, in, hits>>
        /\ Finish(r, "rejected") \/ Finish(r, "error")
    BY <1>6 DEF WriteRejected, WriteFailed, Refuse
  <2>2. QED
    BY <2>1, Declines DEF Docs!Next, ClientErrors
<1>7. ASSUME NEW r \in Req, WriteApplied(r) \/ WriteAnswerLost(r) PROVE Docs!Next
  BY <1>7, WriteCommits DEF Docs!Next, PlanInv
<1>8. CASE UNCHANGED vars
  BY <1>8 DEF vars, Docs!vars, StatusOf
<1>9. QED
  BY <1>1, <1>2, <1>3, <1>4, <1>5, <1>6, <1>7, <1>8 DEF Next, HandlerStep, AllDone

\* The handlers implement the document store, for every number of requests and
\* every interleaving of their awaits: what a client sees is a store on which
\* each request takes effect once and whole, or not at all.
THEOREM HandlersImplementDocStore == Spec => ImplementsDocStore
<1>1. QED
  BY InitInv, NextInv, InitPlan, NextPlan, DocsInit, DocsNext, PTL
     DEF Spec, ImplementsDocStore, Docs!Spec
=============================================================================
