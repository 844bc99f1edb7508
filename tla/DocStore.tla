------------------------------ MODULE DocStore ------------------------------
(***************************************************************************)
(* What the write path promises its clients: a store of documents on which *)
(* every request takes effect once and whole, or not at all.               *)
(*                                                                         *)
(* A request may look at rows the store holds.  If it commits, the rows    *)
(* that land are the ones its command asks for: the document, the VALUES,  *)
(* or the rows it looked at with the cells it names replaced.  It is       *)
(* refused only without effect and told of success only with it; a failure *)
(* leaves open which.  Nothing keeps other requests from committing        *)
(* between the look and the commit: the gateway has no transactions.       *)
(***************************************************************************)
EXTENDS Naturals

CONSTANTS
  Req, Keys, Fields, Values,
  Commands,    \* what requests ask for: op, url, pk, doc, rows
  Null, Absent, NoKey, NoCommand

Row == [Fields -> Values \cup {Null}]

VARIABLES
  data,    \* [Keys -> [Row -> Nat]]: a bag of rows under each key
  cmd,     \* each request's command
  read,    \* the rows it looked at
  status   \* what became of it

vars == <<data, cmd, read, status>>

Statuses == {"new", "pending", "ok", "unchanged", "refused", "failed"}

Init ==
  /\ data \in [Keys -> [Row -> Nat]]
  /\ cmd = [r \in Req |-> NoCommand]
  /\ read = [r \in Req |-> {}]
  /\ status = [r \in Req |-> "new"]

Arrive(r) ==
  /\ status[r] = "new"
  /\ \E c \in Commands : cmd' = [cmd EXCEPT ![r] = c]
  /\ \E s \in {"pending", "refused", "failed"} : status' = [status EXCEPT ![r] = s]
  /\ UNCHANGED <<data, read>>

Held == {h \in Keys \X Row : data[h[1]][h[2]] > 0}

\* The rows are looked at in one state of the store.
Look(r) ==
  /\ status[r] = "pending"
  /\ \E H \in SUBSET Held : read' = [read EXCEPT ![r] = H]
  /\ \E s \in {"pending", "unchanged"} : status' = [status EXCEPT ![r] = s]
  /\ UNCHANGED <<data, cmd>>

Decline(r) ==
  /\ status[r] = "pending"
  /\ \E s \in {"refused", "failed"} : status' = [status EXCEPT ![r] = s]
  /\ UNCHANGED <<data, cmd, read>>

\* The row a document makes, and a row with the cells of a document replaced.
Filled(doc) == [f \in Fields |-> IF doc[f] \in Values THEN doc[f] ELSE Null]
Patched(row, doc) == [f \in Fields |-> IF doc[f] = Absent THEN row[f] ELSE Filled(doc)[f]]

\* The sets of rows that may land for r; a key that the command does not give is
\* any key.
Landings(r) ==
  LET c == cmd[r]
      keysFor(k) == IF k \in Keys THEN {k} ELSE Keys
  IN CASE c.op \in {"index", "create"} -> {{<<k, Filled(c.doc)>>} : k \in keysFor(c.url)}
       [] c.op = "pginsert" ->
            {{<<g[b], Filled(b[2])>> : b \in c.rows} :
               g \in {h \in [c.rows -> Keys] : \A b \in c.rows : h[b] \in keysFor(b[1])}}
       [] OTHER ->
            {{<<IF c.pk = NoKey THEN h[1] ELSE c.pk, Patched(h[2], c.doc)>> : h \in read[r]}}

Added(L) == [k \in Keys |-> [v \in Row |-> data[k][v] + (IF <<k, v>> \in L THEN 1 ELSE 0)]]

Replaced(L) ==
  [k \in Keys |-> IF \E l \in L : l[1] = k
                  THEN [v \in Row |-> IF <<k, v>> \in L THEN 1 ELSE 0]
                  ELSE data[k]]

\* A patch replaces, VALUES are added; a document does either.
Commit(r) ==
  /\ status[r] = "pending"
  /\ \E L \in Landings(r) :
       \/ cmd[r].op # "pginsert" /\ data' = Replaced(L)
       \/ cmd[r].op \in {"index", "create", "pginsert"} /\ data' = Added(L)
  /\ \E s \in {"ok", "failed"} : status' = [status EXCEPT ![r] = s]
  /\ UNCHANGED <<cmd, read>>

Next == \E r \in Req : Arrive(r) \/ Look(r) \/ Decline(r) \/ Commit(r)

Spec == Init /\ [][Next]_vars
=============================================================================
