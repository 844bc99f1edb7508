----------------------------- MODULE ClientPool -----------------------------
(***************************************************************************)
(* Database and clientFor (internal/store/cluster.go): the PG connections  *)
(* of the gateway share one Milvus client per database.  A client is       *)
(* dialed on first use, with the pool's mutex held and with a context that *)
(* has no deadline; the default database has its client from the start.    *)
(*                                                                         *)
(* Dialing and the Milvus calls of a statement are external: they may      *)
(* succeed, fail, or never return.                                         *)
(***************************************************************************)
EXTENDS Naturals, FiniteSets

CONSTANTS
  Conn,      \* PG connections
  Dbs,       \* Milvus databases other than the default one
  DbOf,      \* [Conn -> Dbs \cup {Default}]: the startup parameter of each
  Default,   \* the database of "", "postgres" and the configured name
  NoConn

ASSUME PoolAssumption ==
  /\ Default \notin Dbs
  /\ DbOf \in [Conn -> Dbs \cup {Default}]
  /\ NoConn \notin Conn

VARIABLES
  pool,    \* [Dbs -> Nat]: the pooled client, 0 for none, n for the n-th dialed
  holder,  \* the connection that holds poolMu
  st,      \* where the statement of each connection stands
  view,    \* the client each statement works with
  dialed   \* history: how many clients were dialed for each database

poolVars == <<pool, holder, st, view, dialed>>

InFlight == {"waiting", "dialing", "running"}

PoolTypeOK ==
  /\ pool \in [Dbs -> Nat] /\ dialed \in [Dbs -> Nat]
  /\ holder \in Conn \cup {NoConn}
  /\ st \in [Conn -> {"idle", "cut"} \cup InFlight]
  /\ view \in [Conn -> Nat]

PoolInit ==
  /\ pool = [d \in Dbs |-> 0] /\ dialed = [d \in Dbs |-> 0]
  /\ holder = NoConn
  /\ st = [c \in Conn |-> "idle"]
  /\ view = [c \in Conn |-> 0]

\* databaseView: a statement asks for its database; the default one needs no pool.
Database(c) ==
  /\ st[c] = "idle"
  /\ st' = [st EXCEPT ![c] = IF DbOf[c] = Default THEN "running" ELSE "waiting"]
  /\ UNCHANGED <<pool, holder, view, dialed>>

\* (mutant) The mutex covers the lookup only.
ClientForUnlocks(c) ==
  /\ st[c] = "waiting" /\ holder = NoConn
  /\ IF pool[DbOf[c]] # 0
     THEN /\ st' = [st EXCEPT ![c] = "running"]
          /\ view' = [view EXCEPT ![c] = pool[DbOf[c]]]
     ELSE st' = [st EXCEPT ![c] = "dialing"] /\ UNCHANGED view
  /\ UNCHANGED <<pool, holder, dialed>>

\* clientFor takes the mutex: a pooled client is returned, and the mutex with it;
\* a missing one is dialed with the mutex held.
ClientFor(c) ==
  /\ st[c] = "waiting" /\ holder = NoConn
  /\ IF pool[DbOf[c]] # 0
     THEN /\ st' = [st EXCEPT ![c] = "running"]
          /\ view' = [view EXCEPT ![c] = pool[DbOf[c]]]
          /\ UNCHANGED holder
     ELSE /\ st' = [st EXCEPT ![c] = "dialing"]
          /\ holder' = c
          /\ UNCHANGED view
  /\ UNCHANGED <<pool, dialed>>

\* The dial succeeds: the client enters the pool and the mutex is released.
DialDone(c) ==
  LET d == DbOf[c] IN
  /\ st[c] = "dialing"
  /\ dialed' = [dialed EXCEPT ![d] = @ + 1]
  /\ pool' = [pool EXCEPT ![d] = dialed[d] + 1]
  /\ view' = [view EXCEPT ![c] = dialed[d] + 1]
  /\ st' = [st EXCEPT ![c] = "running"]
  /\ holder' = NoConn

\* (mutant) The error path returns without the deferred Unlock.
DialFailsLocked(c) ==
  /\ st[c] = "dialing"
  /\ st' = [st EXCEPT ![c] = "idle"]
  /\ UNCHANGED <<pool, holder, view, dialed>>

\* The dial fails: the statement is answered with the error, nothing is pooled.
DialFails(c) ==
  /\ st[c] = "dialing"
  /\ st' = [st EXCEPT ![c] = "idle"]
  /\ holder' = NoConn
  /\ UNCHANGED <<pool, view, dialed>>

\* The statement body has run and the connection is ready for the next one.
StatementDone(c) ==
  /\ st[c] = "running"
  /\ st' = [st EXCEPT ![c] = "idle"]
  /\ UNCHANGED <<pool, holder, view, dialed>>

\* Every connection of a database works with the one client of that database,
\* however many asked for it at once: none is dialed twice, and none leaks.
OneClientPerDatabase ==
  /\ \A d \in Dbs : dialed[d] <= 1
  /\ \A c \in Conn : st[c] = "running" /\ DbOf[c] # Default => view[c] = pool[DbOf[c]]
=============================================================================
