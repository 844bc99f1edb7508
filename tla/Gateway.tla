------------------------------- MODULE Gateway -------------------------------
(***************************************************************************)
(* The gateway process (cmd/gateway/main.go): the HTTP front and the PG    *)
(* front over one client pool, from the start to the exit.                 *)
(*                                                                         *)
(* Four goroutines matter: main, which sits in httpSrv.ListenAndServe; the *)
(* PG front, which ends by writing pgErr; the one that calls               *)
(* httpSrv.Shutdown when the context is done; and whoever delivers a       *)
(* signal.  net/http and psql-wire are external: Shutdown closes the       *)
(* listener at once, ListenAndServe then returns ErrServerClosed, and      *)
(* Shutdown itself waits for what is in flight or for its deadline.        *)
(***************************************************************************)
EXTENDS ClientPool

CONSTANT EsReq   \* ES requests

VARIABLES
  main,       \* where main stands
  es,         \* the HTTP listener
  shut,       \* the goroutine around httpSrv.Shutdown
  pg,         \* the PG front
  pgErr,      \* the channel it writes its end to
  done,       \* whether ctx is done
  runErr,     \* what ListenAndServe returned
  code,       \* the exit status
  req,        \* where each ES request stands
  signalled,  \* history: a signal was delivered
  killed      \* history: a signal met its default action

life == <<main, es, shut, pg, pgErr, done, runErr, code, req, signalled, killed>>
vars == <<pool, holder, st, view, dialed, main, es, shut, pg, pgErr, done, runErr, code,
          req, signalled, killed>>

TypeOK ==
  /\ PoolTypeOK
  /\ main \in {"boot", "serve", "ended", "waiting", "exited"}
  /\ es \in {"down", "serving", "closed"}
  /\ shut \in {"none", "armed", "draining", "drained", "timeout"}
  /\ pg \in {"none", "listen", "serving", "draining", "returned"}
  /\ pgErr \in {"empty", "nil", "failed", "timeout"}
  /\ done \in BOOLEAN
  /\ runErr \in {"nil", "closed", "failed"}
  /\ code \in {0, 1}
  /\ req \in [EsReq -> {"idle", "running", "cut"}]
  /\ signalled \in BOOLEAN /\ killed \in BOOLEAN

Init ==
  /\ PoolInit
  /\ main = "boot" /\ es = "down" /\ shut = "none" /\ pg = "none" /\ pgErr = "empty"
  /\ done = FALSE /\ runErr = "nil" /\ code = 0
  /\ req = [q \in EsReq |-> "idle"]
  /\ signalled = FALSE /\ killed = FALSE

\* The process is gone: what is in flight is cut off.
ProcessEnds(status) ==
  /\ main' = "exited"
  /\ code' = status
  /\ req' = [q \in EsReq |-> IF req[q] = "running" THEN "cut" ELSE req[q]]
  /\ st' = [c \in Conn |-> IF st[c] \in InFlight THEN "cut" ELSE st[c]]

(***************************************************************************)
(* main.                                                                   *)
(***************************************************************************)
\* The executor is there: signals are taken over, the PG front and the shutdown
\* goroutine are started.
Boot ==
  /\ main = "boot"
  /\ main' = "serve" /\ pg' = "listen" /\ shut' = "armed"
  /\ UNCHANGED <<poolVars, es, pgErr, done, runErr, code, req, signalled, killed>>

\* buildExecutor does not connect within thirty seconds.
BootFails ==
  /\ main = "boot"
  /\ ProcessEnds(1)
  /\ UNCHANGED <<pool, holder, view, dialed, es, shut, pg, pgErr, done, runErr, signalled, killed>>

\* httpSrv.ListenAndServe up to its first Accept.
EsListen ==
  /\ main = "serve" /\ es = "down" /\ shut = "armed"
  /\ \/ es' = "serving" /\ UNCHANGED <<main, runErr>>
     \/ main' = "ended" /\ runErr' = "failed" /\ UNCHANGED es
  /\ UNCHANGED <<poolVars, shut, pg, pgErr, done, code, req, signalled, killed>>

\* Accept fails for good.
EsFails ==
  /\ main = "serve" /\ es = "serving"
  /\ es' = "closed" /\ main' = "ended" /\ runErr' = "failed"
  /\ UNCHANGED <<poolVars, shut, pg, pgErr, done, code, req, signalled, killed>>

\* Once Shutdown was called ListenAndServe returns ErrServerClosed, without waiting
\* for Shutdown to return.
EsReturns ==
  /\ main = "serve" /\ shut # "armed"
  /\ main' = "ended" /\ runErr' = "closed"
  /\ UNCHANGED <<poolVars, es, shut, pg, pgErr, done, code, req, signalled, killed>>

\* stop(): the context is done, and signals have their default action again.
Stop ==
  /\ main = "ended"
  /\ main' = "waiting" /\ done' = TRUE
  /\ UNCHANGED <<poolVars, es, shut, pg, pgErr, runErr, code, req, signalled, killed>>

\* (mutant) main does not wait for the PG front.
ReturnAtOnce ==
  /\ main = "waiting"
  /\ ProcessEnds(IF runErr = "closed" THEN 0 ELSE 1)
  /\ UNCHANGED <<pool, holder, view, dialed, es, shut, pg, pgErr, done, runErr, signalled, killed>>

\* (mutant) The PG front's end alone decides the exit status.
ReturnPgErr ==
  /\ main = "waiting" /\ pgErr # "empty"
  /\ ProcessEnds(IF pgErr = "nil" THEN 0 ELSE 1)
  /\ UNCHANGED <<pool, holder, view, dialed, es, shut, pg, pgErr, done, runErr, signalled, killed>>

\* pgErr is read; its error would count only if runErr were nil.
Return ==
  /\ main = "waiting" /\ pgErr # "empty"
  /\ ProcessEnds(IF runErr = "closed" \/ (runErr = "nil" /\ pgErr = "nil") THEN 0 ELSE 1)
  /\ UNCHANGED <<pool, holder, view, dialed, es, shut, pg, pgErr, done, runErr, signalled, killed>>

\* SIGINT or SIGTERM: NotifyContext has it from the end of the boot to stop().
Signal ==
  /\ main # "exited"
  /\ IF main \in {"serve", "ended"}
     THEN done' = TRUE /\ UNCHANGED <<main, code, req, st, killed>>
     ELSE ProcessEnds(1) /\ killed' = TRUE /\ UNCHANGED done
  /\ signalled' = TRUE
  /\ UNCHANGED <<pool, holder, view, dialed, es, shut, pg, pgErr, runErr>>

\* httpSrv.Shutdown begins: the listener is closed.
EsShutdown ==
  /\ main # "exited" /\ shut = "armed" /\ done
  /\ shut' = "draining"
  /\ es' = IF es = "serving" THEN "closed" ELSE es
  /\ UNCHANGED <<poolVars, main, pg, pgErr, done, runErr, code, req, signalled, killed>>

\* httpSrv.Shutdown returns: nothing in flight, or ten seconds are over.
EsShutdownDone ==
  /\ main # "exited" /\ shut = "draining"
  /\ \/ shut' = "drained" /\ \A q \in EsReq : req[q] # "running"
     \/ shut' = "timeout"
  /\ UNCHANGED <<poolVars, main, es, pg, pgErr, done, runErr, code, req, signalled, killed>>

(***************************************************************************)
(* The PG front: ListenAndServe and serve (internal/pgserver/server.go).   *)
(***************************************************************************)
\* (mutant) The channel is closed and carries no value.
PgReturnsClosed(end) == pg' = "returned" /\ pgErr' = "closed"

PgReturns(end) == pg' = "returned" /\ pgErr' = end

\* net.Listen and wire.NewServer.
PgListen ==
  /\ main # "exited" /\ pg = "listen"
  /\ \/ pg' = "serving" /\ UNCHANGED pgErr
     \/ PgReturns("failed")
  /\ UNCHANGED <<poolVars, main, es, shut, done, runErr, code, req, signalled, killed>>

\* srv.Serve ends by itself.
PgServeFails ==
  /\ main # "exited" /\ pg = "serving"
  /\ PgReturns("failed")
  /\ UNCHANGED <<poolVars, main, es, shut, done, runErr, code, req, signalled, killed>>

\* ctx is done: srv.Shutdown closes the listener and takes no more statements.
PgDrain ==
  /\ main # "exited" /\ pg = "serving" /\ done
  /\ pg' = "draining"
  /\ UNCHANGED <<poolVars, main, es, shut, pgErr, done, runErr, code, req, signalled, killed>>

\* (mutant) The drain has no deadline.
PgDrainedForever ==
  /\ main # "exited" /\ pg = "draining"
  /\ PgReturns("nil") /\ \A c \in Conn : st[c] \notin InFlight
  /\ UNCHANGED <<poolVars, main, es, shut, done, runErr, code, req, signalled, killed>>

\* srv.Shutdown returns: no statement in flight, or ten seconds are over.
PgDrained ==
  /\ main # "exited" /\ pg = "draining"
  /\ \/ PgReturns("nil") /\ \A c \in Conn : st[c] \notin InFlight
     \/ PgReturns("timeout")
  /\ UNCHANGED <<poolVars, main, es, shut, done, runErr, code, req, signalled, killed>>

(***************************************************************************)
(* Requests.                                                               *)
(***************************************************************************)
\* A request reaches an ES handler, which works on the default database.
EsRequest(q) ==
  /\ main # "exited" /\ es = "serving" /\ req[q] = "idle"
  /\ req' = [req EXCEPT ![q] = "running"]
  /\ UNCHANGED <<poolVars, main, es, shut, pg, pgErr, done, runErr, code, signalled, killed>>

EsAnswer(q) ==
  /\ main # "exited" /\ req[q] = "running"
  /\ req' = [req EXCEPT ![q] = "idle"]
  /\ UNCHANGED <<poolVars, main, es, shut, pg, pgErr, done, runErr, code, signalled, killed>>

\* A statement of a PG connection, step by step.
PgStatement(c) ==
  /\ main # "exited"
  /\ \/ pg = "serving" /\ Database(c)
     \/ ClientFor(c)
     \/ DialDone(c)
     \/ DialFails(c)
     \/ StatementDone(c)
  /\ UNCHANGED life

Exited == main = "exited" /\ UNCHANGED vars

Next ==
  \/ Boot \/ BootFails \/ EsListen \/ EsFails \/ EsReturns \/ Stop \/ Return
  \/ Signal
  \/ EsShutdown \/ EsShutdownDone
  \/ PgListen \/ PgServeFails \/ PgDrain \/ PgDrained
  \/ \E q \in EsReq : EsRequest(q) \/ EsAnswer(q)
  \/ \E c \in Conn : PgStatement(c)
  \/ Exited

\* The gateway's goroutines run and its timers fire; sync.Mutex starves nobody.
\* Milvus owes nothing: a dial or a statement may stay forever.
Fairness ==
  /\ WF_vars(EsListen) /\ WF_vars(EsReturns) /\ WF_vars(Stop) /\ WF_vars(Return)
  /\ WF_vars(EsShutdown) /\ WF_vars(EsShutdownDone)
  /\ WF_vars(PgListen) /\ WF_vars(PgDrain) /\ WF_vars(PgDrained)
  /\ \A c \in Conn : SF_vars(main # "exited" /\ ClientFor(c) /\ UNCHANGED life)

Spec == Init /\ [][Next]_vars /\ Fairness

(***************************************************************************)
(* Properties.                                                             *)
(***************************************************************************)
\* The exit status tells why the process ended: 0 only after a signal it handled
\* and an ES front that closed on it, 1 for an ES front that failed, a boot that
\* failed or a signal that killed it.  No failure of the ES front is masked by
\* what the PG front reports.
ExitStatusTruthful ==
  main = "exited" =>
    /\ code = 0 => signalled /\ ~killed /\ runErr = "closed"
    /\ code = 1 => killed \/ runErr = "failed" \/ shut = "none"

\* A statement of the PG front is cut off only when its ten seconds are over, when
\* the front had already failed by itself, or when a second signal kills the
\* process: main waits for the drain.
PgDrainHonoured ==
  (\E c \in Conn : st[c] = "cut") => killed \/ pgErr \in {"timeout", "failed"}

\* After a signal, or once the ES front is lost, the process ends, even when
\* every statement and every dial hangs: the drains have deadlines.
ProcessStops ==
  (signalled \/ runErr # "nil") ~> main = "exited"

\* If no dial lasts forever, every statement that waits for the pool gets its
\* client or an error: the mutex is released on every path.
PoolServes ==
  \A c \in Conn :
    ([]<>(\A d \in Conn : st[d] # "dialing")) => (st[c] = "waiting" ~> st[c] # "waiting")

\* The comment in RunE: the ES front outlives the PG front's shutdown, so that a
\* request in flight at the signal is cut off only when its own ten seconds are
\* over.
EsOutlivesPg ==
  (\E q \in EsReq : req[q] = "cut") => killed \/ runErr = "failed" \/ shut = "timeout"
=============================================================================
