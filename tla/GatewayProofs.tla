---------------------------- MODULE GatewayProofs ----------------------------
(***************************************************************************)
(* Theorems about the gateway process, for any number of connections,      *)
(* databases and requests: the client pool, the exit status and the drain  *)
(* of the PG front.                                                        *)
(*                                                                         *)
(* None of the three invariants is inductive: the pool's needs to know who *)
(* holds the mutex and that only he dials, the exit status needs the way   *)
(* from the signal through the context to ErrServerClosed, and the drain   *)
(* needs that nothing is in flight from the moment pgErr carries nil.      *)
(***************************************************************************)
EXTENDS Gateway, TLAPS

\* Whoever dials holds the mutex and dials a database that has no client.
PoolShape ==
  /\ \A d \in Dbs : dialed[d] = pool[d] /\ pool[d] <= 1
  /\ \A c \in Conn : st[c] = "waiting" => DbOf[c] \in Dbs
  /\ \A c \in Conn : st[c] = "dialing" => DbOf[c] \in Dbs /\ holder = c /\ pool[DbOf[c]] = 0
  /\ \A c \in Conn : st[c] = "running" /\ DbOf[c] # Default =>
                       DbOf[c] \in Dbs /\ pool[DbOf[c]] # 0 /\ view[c] = pool[DbOf[c]]

\* How far main can be given the context, the shutdown goroutine and runErr.
LifeShape ==
  /\ shut = "none" => main \in {"boot", "exited"}
  /\ main = "boot" => runErr = "nil" /\ ~done /\ shut = "none"
  /\ main = "serve" => runErr = "nil" /\ (done => signalled)
  /\ main \in {"ended", "waiting"} => runErr # "nil"
  /\ shut \in {"draining", "drained", "timeout"} => done
  /\ runErr = "closed" => signalled
  /\ killed => main = "exited"

\* Nothing is cut before the exit, and nothing is in flight once pgErr says nil.
DrainShape ==
  /\ main = "boot" => pg = "none" /\ \A c \in Conn : st[c] = "idle"
  /\ main # "exited" => \A c \in Conn : st[c] # "cut"
  /\ pgErr # "empty" => pg = "returned"
  /\ pgErr = "nil" => \A c \in Conn : st[c] \notin InFlight

GInv ==
  /\ TypeOK
  /\ PoolShape
  /\ LifeShape
  /\ DrainShape
  /\ ExitStatusTruthful
  /\ PgDrainHonoured
(***************************************************************************)
(* The parts of the invariant, each preserved by every step.               *)
(***************************************************************************)

\* Every step of the process, of a front or of a statement keeps the types.
LEMMA TypeStep ==
  ASSUME TypeOK, PoolShape, [Next]_vars
  PROVE  TypeOK'
<1> USE PoolAssumption
<1>1. CASE Boot
  BY <1>1 DEF Boot, poolVars, TypeOK, PoolTypeOK, InFlight
<1>2. CASE BootFails
  BY <1>2 DEF BootFails, ProcessEnds, TypeOK, PoolTypeOK, InFlight
<1>3. CASE EsListen
  BY <1>3 DEF EsListen, poolVars, TypeOK, PoolTypeOK, InFlight
<1>4. CASE EsFails
  BY <1>4 DEF EsFails, poolVars, TypeOK, PoolTypeOK, InFlight
<1>5. CASE EsReturns
  BY <1>5 DEF EsReturns, poolVars, TypeOK, PoolTypeOK, InFlight
<1>6. CASE Stop
  BY <1>6 DEF Stop, poolVars, TypeOK, PoolTypeOK, InFlight
<1>7. CASE Return
  BY <1>7 DEF Return, ProcessEnds, TypeOK, PoolTypeOK, InFlight
<1>8. CASE Signal
  <2>1. CASE main \in {"serve", "ended"}
    BY <1>8, <2>1 DEF Signal, TypeOK, PoolTypeOK, InFlight
  <2>2. CASE main \notin {"serve", "ended"}
    <3>1. ProcessEnds(1) /\ killed' = TRUE /\ signalled' = TRUE /\ UNCHANGED done
      BY <1>8, <2>2 DEF Signal
    <3>2. UNCHANGED <<pool, holder, view, dialed, es, shut, pg, pgErr, runErr>>
      BY <1>8 DEF Signal
    <3>3. QED
      BY <3>1, <3>2 DEF ProcessEnds, TypeOK, PoolTypeOK, InFlight
  <2>3. QED
    BY <2>1, <2>2
<1>9. CASE EsShutdown
  BY <1>9 DEF EsShutdown, poolVars, TypeOK, PoolTypeOK, InFlight
<1>10. CASE EsShutdownDone
  BY <1>10 DEF EsShutdownDone, poolVars, TypeOK, PoolTypeOK, InFlight
<1>11. CASE PgListen
  BY <1>11 DEF PgListen, PgReturns, poolVars, TypeOK, PoolTypeOK, InFlight
<1>12. CASE PgServeFails
  BY <1>12 DEF PgServeFails, PgReturns, poolVars, TypeOK, PoolTypeOK, InFlight
<1>13. CASE PgDrain
  BY <1>13 DEF PgDrain, poolVars, TypeOK, PoolTypeOK, InFlight
<1>14. CASE PgDrained
  BY <1>14 DEF PgDrained, PgReturns, poolVars, TypeOK, PoolTypeOK, InFlight
<1>15. ASSUME NEW q \in EsReq, EsRequest(q) PROVE TypeOK'
  BY <1>15 DEF EsRequest, poolVars, TypeOK, PoolTypeOK, InFlight
<1>16. ASSUME NEW q \in EsReq, EsAnswer(q) PROVE TypeOK'
  BY <1>16 DEF EsAnswer, poolVars, TypeOK, PoolTypeOK, InFlight
<1>17. ASSUME NEW c \in Conn, PgStatement(c) PROVE TypeOK'
  <2>1. UNCHANGED life /\ main # "exited"
    BY <1>17 DEF PgStatement
  <2>2. CASE pg = "serving" /\ Database(c)
    BY <2>1, <2>2 DEF Database, life, TypeOK, PoolTypeOK, InFlight
  <2>3. CASE ClientFor(c)
    BY <2>1, <2>3 DEF ClientFor, life, TypeOK, PoolTypeOK, InFlight, PoolShape
  <2>4. CASE DialDone(c)
    BY <2>1, <2>4 DEF DialDone, life, TypeOK, PoolTypeOK, InFlight, PoolShape
  <2>5. CASE DialFails(c)
    BY <2>1, <2>5 DEF DialFails, life, TypeOK, PoolTypeOK, InFlight
  <2>6. CASE StatementDone(c)
    BY <2>1, <2>6 DEF StatementDone, life, TypeOK, PoolTypeOK, InFlight
  <2>7. QED
    BY <1>17, <2>2, <2>3, <2>4, <2>5, <2>6 DEF PgStatement
<1>18. CASE UNCHANGED vars
  BY <1>18 DEF vars, TypeOK, PoolTypeOK, InFlight
<1>19. QED
  BY <1>1, <1>2, <1>3, <1>4, <1>5, <1>6, <1>7, <1>8, <1>9, <1>10, <1>11, <1>12, <1>13, <1>14,
      <1>15, <1>16, <1>17, <1>18 DEF Next, Exited

\* clientFor and the dial keep the pool's shape; the rest leaves the pool alone.
LEMMA PoolStep ==
  ASSUME TypeOK, PoolShape, [Next]_vars
  PROVE  PoolShape'
<1> USE PoolAssumption
<1>1. CASE Boot
  BY <1>1 DEF Boot, poolVars, TypeOK, PoolTypeOK, InFlight, PoolShape
<1>2. CASE BootFails
  BY <1>2 DEF BootFails, ProcessEnds, TypeOK, PoolTypeOK, InFlight, PoolShape
<1>3. CASE EsListen
  BY <1>3 DEF EsListen, poolVars, TypeOK, PoolTypeOK, InFlight, PoolShape
<1>4. CASE EsFails
  BY <1>4 DEF EsFails, poolVars, TypeOK, PoolTypeOK, InFlight, PoolShape
<1>5. CASE EsReturns
  BY <1>5 DEF EsReturns, poolVars, TypeOK, PoolTypeOK, InFlight, PoolShape
<1>6. CASE Stop
  BY <1>6 DEF Stop, poolVars, TypeOK, PoolTypeOK, InFlight, PoolShape
<1>7. CASE Return
  BY <1>7 DEF Return, ProcessEnds, TypeOK, PoolTypeOK, InFlight, PoolShape
<1>8. CASE Signal
  BY <1>8 DEF Signal, ProcessEnds, TypeOK, PoolTypeOK, InFlight, PoolShape
<1>9. CASE EsShutdown
  BY <1>9 DEF EsShutdown, poolVars, TypeOK, PoolTypeOK, InFlight, PoolShape
<1>10. CASE EsShutdownDone
  BY <1>10 DEF EsShutdownDone, poolVars, TypeOK, PoolTypeOK, InFlight, PoolShape
<1>11. CASE PgListen
  BY <1>11 DEF PgListen, PgReturns, poolVars, TypeOK, PoolTypeOK, InFlight, PoolShape
<1>12. CASE PgServeFails
  BY <1>12 DEF PgServeFails, PgReturns, poolVars, TypeOK, PoolTypeOK, InFlight, PoolShape
<1>13. CASE PgDrain
  BY <1>13 DEF PgDrain, poolVars, TypeOK, PoolTypeOK, InFlight, PoolShape
<1>14. CASE PgDrained
  BY <1>14 DEF PgDrained, PgReturns, poolVars, TypeOK, PoolTypeOK, InFlight, PoolShape
<1>15. ASSUME NEW q \in EsReq, EsRequest(q) PROVE PoolShape'
  BY <1>15 DEF EsRequest, poolVars, TypeOK, PoolTypeOK, InFlight, PoolShape
<1>16. ASSUME NEW q \in EsReq, EsAnswer(q) PROVE PoolShape'
  BY <1>16 DEF EsAnswer, poolVars, TypeOK, PoolTypeOK, InFlight, PoolShape
<1>17. ASSUME NEW c \in Conn, PgStatement(c) PROVE PoolShape'
  <2>1. UNCHANGED life /\ main # "exited"
    BY <1>17 DEF PgStatement
  <2>2. CASE pg = "serving" /\ Database(c)
    BY <2>1, <2>2 DEF Database, life, TypeOK, PoolTypeOK, InFlight, PoolShape
  <2>3. CASE ClientFor(c)
    BY <2>1, <2>3 DEF ClientFor, life, TypeOK, PoolTypeOK, InFlight, PoolShape
  <2>4. CASE DialDone(c)
    BY <2>1, <2>4 DEF DialDone, life, TypeOK, PoolTypeOK, InFlight, PoolShape
  <2>5. CASE DialFails(c)
    BY <2>1, <2>5 DEF DialFails, life, TypeOK, PoolTypeOK, InFlight, PoolShape
  <2>6. CASE StatementDone(c)
    BY <2>1, <2>6 DEF StatementDone, life, TypeOK, PoolTypeOK, InFlight, PoolShape
  <2>7. QED
    BY <1>17, <2>2, <2>3, <2>4, <2>5, <2>6 DEF PgStatement
<1>18. CASE UNCHANGED vars
  BY <1>18 DEF vars, TypeOK, PoolTypeOK, InFlight, PoolShape
<1>19. QED
  BY <1>1, <1>2, <1>3, <1>4, <1>5, <1>6, <1>7, <1>8, <1>9, <1>10, <1>11, <1>12, <1>13, <1>14,
      <1>15, <1>16, <1>17, <1>18 DEF Next, Exited

\* Signals, the context and the returns of the fronts keep their order.
LEMMA LifeStep ==
  ASSUME TypeOK, LifeShape, [Next]_vars
  PROVE  LifeShape'
<1> USE PoolAssumption
<1>1. CASE Boot
  BY <1>1 DEF Boot, poolVars, TypeOK, LifeShape
<1>2. CASE BootFails
  BY <1>2 DEF BootFails, ProcessEnds, TypeOK, LifeShape
<1>3. CASE EsListen
  BY <1>3 DEF EsListen, poolVars, TypeOK, LifeShape
<1>4. CASE EsFails
  BY <1>4 DEF EsFails, poolVars, TypeOK, LifeShape
<1>5. CASE EsReturns
  BY <1>5 DEF EsReturns, poolVars, TypeOK, LifeShape
<1>6. CASE Stop
  BY <1>6 DEF Stop, poolVars, TypeOK, LifeShape
<1>7. CASE Return
  BY <1>7 DEF Return, ProcessEnds, TypeOK, LifeShape
<1>8. CASE Signal
  BY <1>8 DEF Signal, ProcessEnds, TypeOK, LifeShape
<1>9. CASE EsShutdown
  BY <1>9 DEF EsShutdown, poolVars, TypeOK, LifeShape
<1>10. CASE EsShutdownDone
  BY <1>10 DEF EsShutdownDone, poolVars, TypeOK, LifeShape
<1>11. CASE PgListen
  BY <1>11 DEF PgListen, PgReturns, poolVars, TypeOK, LifeShape
<1>12. CASE PgServeFails
  BY <1>12 DEF PgServeFails, PgReturns, poolVars, TypeOK, LifeShape
<1>13. CASE PgDrain
  BY <1>13 DEF PgDrain, poolVars, TypeOK, LifeShape
<1>14. CASE PgDrained
  BY <1>14 DEF PgDrained, PgReturns, poolVars, TypeOK, LifeShape
<1>15. ASSUME NEW q \in EsReq, EsRequest(q) PROVE LifeShape'
  BY <1>15 DEF EsRequest, poolVars, TypeOK, LifeShape
<1>16. ASSUME NEW q \in EsReq, EsAnswer(q) PROVE LifeShape'
  BY <1>16 DEF EsAnswer, poolVars, TypeOK, LifeShape
<1>17. ASSUME NEW c \in Conn, PgStatement(c) PROVE LifeShape'
  <2>1. UNCHANGED life /\ main # "exited"
    BY <1>17 DEF PgStatement
  <2>2. CASE pg = "serving" /\ Database(c)
    BY <2>1, <2>2 DEF Database, life, TypeOK, LifeShape
  <2>3. CASE ClientFor(c)
    BY <2>1, <2>3 DEF ClientFor, life, TypeOK, LifeShape
  <2>4. CASE DialDone(c)
    BY <2>1, <2>4 DEF DialDone, life, TypeOK, LifeShape
  <2>5. CASE DialFails(c)
    BY <2>1, <2>5 DEF DialFails, life, TypeOK, LifeShape
  <2>6. CASE StatementDone(c)
    BY <2>1, <2>6 DEF StatementDone, life, TypeOK, LifeShape
  <2>7. QED
    BY <1>17, <2>2, <2>3, <2>4, <2>5, <2>6 DEF PgStatement
<1>18. CASE UNCHANGED vars
  BY <1>18 DEF vars, TypeOK, LifeShape
<1>19. QED
  BY <1>1, <1>2, <1>3, <1>4, <1>5, <1>6, <1>7, <1>8, <1>9, <1>10, <1>11, <1>12, <1>13, <1>14,
      <1>15, <1>16, <1>17, <1>18 DEF Next, Exited

\* Statements begin only while the PG front serves and are cut only at the exit.
LEMMA DrainStep ==
  ASSUME TypeOK, LifeShape, DrainShape, [Next]_vars
  PROVE  DrainShape'
<1> USE PoolAssumption
<1>1. CASE Boot
  BY <1>1 DEF Boot, poolVars, TypeOK, PoolTypeOK, InFlight, LifeShape, DrainShape
<1>2. CASE BootFails
  BY <1>2 DEF BootFails, ProcessEnds, TypeOK, PoolTypeOK, InFlight, LifeShape, DrainShape
<1>3. CASE EsListen
  BY <1>3 DEF EsListen, poolVars, TypeOK, PoolTypeOK, InFlight, LifeShape, DrainShape
<1>4. CASE EsFails
  BY <1>4 DEF EsFails, poolVars, TypeOK, PoolTypeOK, InFlight, LifeShape, DrainShape
<1>5. CASE EsReturns
  BY <1>5 DEF EsReturns, poolVars, TypeOK, PoolTypeOK, InFlight, LifeShape, DrainShape
<1>6. CASE Stop
  BY <1>6 DEF Stop, poolVars, TypeOK, PoolTypeOK, InFlight, LifeShape, DrainShape
<1>7. CASE Return
  BY <1>7 DEF Return, ProcessEnds, TypeOK, PoolTypeOK, InFlight, LifeShape, DrainShape
<1>8. CASE Signal
  BY <1>8 DEF Signal, ProcessEnds, TypeOK, PoolTypeOK, InFlight, LifeShape, DrainShape
<1>9. CASE EsShutdown
  BY <1>9 DEF EsShutdown, poolVars, TypeOK, PoolTypeOK, InFlight, LifeShape, DrainShape
<1>10. CASE EsShutdownDone
  BY <1>10 DEF EsShutdownDone, poolVars, TypeOK, PoolTypeOK, InFlight, LifeShape, DrainShape
<1>11. CASE PgListen
  BY <1>11 DEF PgListen, PgReturns, poolVars, TypeOK, PoolTypeOK, InFlight, LifeShape,
      DrainShape
<1>12. CASE PgServeFails
  BY <1>12 DEF PgServeFails, PgReturns, poolVars, TypeOK, PoolTypeOK, InFlight, LifeShape,
      DrainShape
<1>13. CASE PgDrain
  BY <1>13 DEF PgDrain, poolVars, TypeOK, PoolTypeOK, InFlight, LifeShape, DrainShape
<1>14. CASE PgDrained
  BY <1>14 DEF PgDrained, PgReturns, poolVars, TypeOK, PoolTypeOK, InFlight, LifeShape,
      DrainShape
<1>15. ASSUME NEW q \in EsReq, EsRequest(q) PROVE DrainShape'
  BY <1>15 DEF EsRequest, poolVars, TypeOK, PoolTypeOK, InFlight, LifeShape, DrainShape
<1>16. ASSUME NEW q \in EsReq, EsAnswer(q) PROVE DrainShape'
  BY <1>16 DEF EsAnswer, poolVars, TypeOK, PoolTypeOK, InFlight, LifeShape, DrainShape
<1>17. ASSUME NEW c \in Conn, PgStatement(c) PROVE DrainShape'
  <2>1. UNCHANGED life /\ main # "exited"
    BY <1>17 DEF PgStatement
  <2>2. CASE pg = "serving" /\ Database(c)
    BY <2>1, <2>2 DEF Database, life, TypeOK, PoolTypeOK, InFlight, LifeShape, DrainShape
  <2>3. CASE ClientFor(c)
    BY <2>1, <2>3 DEF ClientFor, life, TypeOK, PoolTypeOK, InFlight, LifeShape, DrainShape
  <2>4. CASE DialDone(c)
    BY <2>1, <2>4 DEF DialDone, life, TypeOK, PoolTypeOK, InFlight, LifeShape, DrainShape
  <2>5. CASE DialFails(c)
    BY <2>1, <2>5 DEF DialFails, life, TypeOK, PoolTypeOK, InFlight, LifeShape, DrainShape
  <2>6. CASE StatementDone(c)
    BY <2>1, <2>6 DEF StatementDone, life, TypeOK, PoolTypeOK, InFlight, LifeShape,
        DrainShape
  <2>7. QED
    BY <1>17, <2>2, <2>3, <2>4, <2>5, <2>6 DEF PgStatement
<1>18. CASE UNCHANGED vars
  BY <1>18 DEF vars, TypeOK, PoolTypeOK, InFlight, LifeShape, DrainShape
<1>19. QED
  BY <1>1, <1>2, <1>3, <1>4, <1>5, <1>6, <1>7, <1>8, <1>9, <1>10, <1>11, <1>12, <1>13, <1>14,
      <1>15, <1>16, <1>17, <1>18 DEF Next, Exited

\* Whatever ends the process leaves a status that fits.
LEMMA ExitStep ==
  ASSUME TypeOK, LifeShape, ExitStatusTruthful, [Next]_vars
  PROVE  ExitStatusTruthful'
<1> USE PoolAssumption
<1>1. CASE Boot
  BY <1>1 DEF Boot, poolVars, TypeOK, LifeShape, ExitStatusTruthful
<1>2. CASE BootFails
  BY <1>2 DEF BootFails, ProcessEnds, TypeOK, LifeShape, ExitStatusTruthful
<1>3. CASE EsListen
  BY <1>3 DEF EsListen, poolVars, TypeOK, LifeShape, ExitStatusTruthful
<1>4. CASE EsFails
  BY <1>4 DEF EsFails, poolVars, TypeOK, LifeShape, ExitStatusTruthful
<1>5. CASE EsReturns
  BY <1>5 DEF EsReturns, poolVars, TypeOK, LifeShape, ExitStatusTruthful
<1>6. CASE Stop
  BY <1>6 DEF Stop, poolVars, TypeOK, LifeShape, ExitStatusTruthful
<1>7. CASE Return
  BY <1>7 DEF Return, ProcessEnds, TypeOK, LifeShape, ExitStatusTruthful
<1>8. CASE Signal
  BY <1>8 DEF Signal, ProcessEnds, TypeOK, LifeShape, ExitStatusTruthful
<1>9. CASE EsShutdown
  BY <1>9 DEF EsShutdown, poolVars, TypeOK, LifeShape, ExitStatusTruthful
<1>10. CASE EsShutdownDone
  BY <1>10 DEF EsShutdownDone, poolVars, TypeOK, LifeShape, ExitStatusTruthful
<1>11. CASE PgListen
  BY <1>11 DEF PgListen, PgReturns, poolVars, TypeOK, LifeShape, ExitStatusTruthful
<1>12. CASE PgServeFails
  BY <1>12 DEF PgServeFails, PgReturns, poolVars, TypeOK, LifeShape, ExitStatusTruthful
<1>13. CASE PgDrain
  BY <1>13 DEF PgDrain, poolVars, TypeOK, LifeShape, ExitStatusTruthful
<1>14. CASE PgDrained
  BY <1>14 DEF PgDrained, PgReturns, poolVars, TypeOK, LifeShape, ExitStatusTruthful
<1>15. ASSUME NEW q \in EsReq, EsRequest(q) PROVE ExitStatusTruthful'
  BY <1>15 DEF EsRequest, poolVars, TypeOK, LifeShape, ExitStatusTruthful
<1>16. ASSUME NEW q \in EsReq, EsAnswer(q) PROVE ExitStatusTruthful'
  BY <1>16 DEF EsAnswer, poolVars, TypeOK, LifeShape, ExitStatusTruthful
<1>17. ASSUME NEW c \in Conn, PgStatement(c) PROVE ExitStatusTruthful'
  <2>1. UNCHANGED life /\ main # "exited"
    BY <1>17 DEF PgStatement
  <2>2. CASE pg = "serving" /\ Database(c)
    BY <2>1, <2>2 DEF Database, life, TypeOK, LifeShape, ExitStatusTruthful
  <2>3. CASE ClientFor(c)
    BY <2>1, <2>3 DEF ClientFor, life, TypeOK, LifeShape, ExitStatusTruthful
  <2>4. CASE DialDone(c)
    BY <2>1, <2>4 DEF DialDone, life, TypeOK, LifeShape, ExitStatusTruthful
  <2>5. CASE DialFails(c)
    BY <2>1, <2>5 DEF DialFails, life, TypeOK, LifeShape, ExitStatusTruthful
  <2>6. CASE StatementDone(c)
    BY <2>1, <2>6 DEF StatementDone, life, TypeOK, LifeShape, ExitStatusTruthful
  <2>7. QED
    BY <1>17, <2>2, <2>3, <2>4, <2>5, <2>6 DEF PgStatement
<1>18. CASE UNCHANGED vars
  BY <1>18 DEF vars, TypeOK, LifeShape, ExitStatusTruthful
<1>19. QED
  BY <1>1, <1>2, <1>3, <1>4, <1>5, <1>6, <1>7, <1>8, <1>9, <1>10, <1>11, <1>12, <1>13, <1>14,
      <1>15, <1>16, <1>17, <1>18 DEF Next, Exited

\* Only the exit cuts statements, and a drain that ended with nil left none.
LEMMA HonourStep ==
  ASSUME TypeOK, DrainShape, PgDrainHonoured, [Next]_vars
  PROVE  PgDrainHonoured'
<1> USE PoolAssumption
<1>1. CASE Boot
  BY <1>1 DEF Boot, poolVars, TypeOK, PoolTypeOK, InFlight, DrainShape, PgDrainHonoured
<1>2. CASE BootFails
  BY <1>2 DEF BootFails, ProcessEnds, TypeOK, PoolTypeOK, InFlight, DrainShape,
      PgDrainHonoured
<1>3. CASE EsListen
  BY <1>3 DEF EsListen, poolVars, TypeOK, PoolTypeOK, InFlight, DrainShape, PgDrainHonoured
<1>4. CASE EsFails
  BY <1>4 DEF EsFails, poolVars, TypeOK, PoolTypeOK, InFlight, DrainShape, PgDrainHonoured
<1>5. CASE EsReturns
  BY <1>5 DEF EsReturns, poolVars, TypeOK, PoolTypeOK, InFlight, DrainShape, PgDrainHonoured
<1>6. CASE Stop
  BY <1>6 DEF Stop, poolVars, TypeOK, PoolTypeOK, InFlight, DrainShape, PgDrainHonoured
<1>7. CASE Return
  BY <1>7 DEF Return, ProcessEnds, TypeOK, PoolTypeOK, InFlight, DrainShape, PgDrainHonoured
<1>8. CASE Signal
  BY <1>8 DEF Signal, ProcessEnds, TypeOK, PoolTypeOK, InFlight, DrainShape, PgDrainHonoured
<1>9. CASE EsShutdown
  BY <1>9 DEF EsShutdown, poolVars, TypeOK, PoolTypeOK, InFlight, DrainShape,
      PgDrainHonoured
<1>10. CASE EsShutdownDone
  BY <1>10 DEF EsShutdownDone, poolVars, TypeOK, PoolTypeOK, InFlight, DrainShape,
      PgDrainHonoured
<1>11. CASE PgListen
  BY <1>11 DEF PgListen, PgReturns, poolVars, TypeOK, PoolTypeOK, InFlight, DrainShape,
      PgDrainHonoured
<1>12. CASE PgServeFails
  BY <1>12 DEF PgServeFails, PgReturns, poolVars, TypeOK, PoolTypeOK, InFlight, DrainShape,
      PgDrainHonoured
<1>13. CASE PgDrain
  BY <1>13 DEF PgDrain, poolVars, TypeOK, PoolTypeOK, InFlight, DrainShape, PgDrainHonoured
<1>14. CASE PgDrained
  BY <1>14 DEF PgDrained, PgReturns, poolVars, TypeOK, PoolTypeOK, InFlight, DrainShape,
      PgDrainHonoured
<1>15. ASSUME NEW q \in EsReq, EsRequest(q) PROVE PgDrainHonoured'
  BY <1>15 DEF EsRequest, poolVars, TypeOK, PoolTypeOK, InFlight, DrainShape,
      PgDrainHonoured
<1>16. ASSUME NEW q \in EsReq, EsAnswer(q) PROVE PgDrainHonoured'
  BY <1>16 DEF EsAnswer, poolVars, TypeOK, PoolTypeOK, InFlight, DrainShape, PgDrainHonoured
<1>17. ASSUME NEW c \in Conn, PgStatement(c) PROVE PgDrainHonoured'
  <2>1. UNCHANGED life /\ main # "exited"
    BY <1>17 DEF PgStatement
  <2>2. CASE pg = "serving" /\ Database(c)
    BY <2>1, <2>2 DEF Database, life, TypeOK, PoolTypeOK, InFlight, DrainShape,
        PgDrainHonoured
  <2>3. CASE ClientFor(c)
    BY <2>1, <2>3 DEF ClientFor, life, TypeOK, PoolTypeOK, InFlight, DrainShape,
        PgDrainHonoured
  <2>4. CASE DialDone(c)
    BY <2>1, <2>4 DEF DialDone, life, TypeOK, PoolTypeOK, InFlight, DrainShape,
        PgDrainHonoured
  <2>5. CASE DialFails(c)
    BY <2>1, <2>5 DEF DialFails, life, TypeOK, PoolTypeOK, InFlight, DrainShape,
        PgDrainHonoured
  <2>6. CASE StatementDone(c)
    BY <2>1, <2>6 DEF StatementDone, life, TypeOK, PoolTypeOK, InFlight, DrainShape,
        PgDrainHonoured
  <2>7. QED
    BY <1>17, <2>2, <2>3, <2>4, <2>5, <2>6 DEF PgStatement
<1>18. CASE UNCHANGED vars
  BY <1>18 DEF vars, TypeOK, PoolTypeOK, InFlight, DrainShape, PgDrainHonoured
<1>19. QED
  BY <1>1, <1>2, <1>3, <1>4, <1>5, <1>6, <1>7, <1>8, <1>9, <1>10, <1>11, <1>12, <1>13, <1>14,
      <1>15, <1>16, <1>17, <1>18 DEF Next, Exited

\* The initial state satisfies the invariant.
LEMMA GInit == Init => GInv
<1> SUFFICES ASSUME Init PROVE GInv
  OBVIOUS
<1> USE PoolAssumption
<1>1. TypeOK
  BY DEF Init, PoolInit, TypeOK, PoolTypeOK, InFlight
<1>2. PoolShape
  BY DEF Init, PoolInit, PoolShape
<1>3. LifeShape
  BY DEF Init, LifeShape
<1>4. DrainShape
  BY DEF Init, PoolInit, DrainShape, InFlight
<1>5. ExitStatusTruthful
  BY DEF Init, ExitStatusTruthful
<1>6. PgDrainHonoured
  BY DEF Init, PoolInit, PgDrainHonoured
<1>7. QED
  BY <1>1, <1>2, <1>3, <1>4, <1>5, <1>6 DEF GInv

\* GInv holds in every reachable state of the process.
LEMMA GInvariant == Spec => []GInv
<1>1. GInv /\ [Next]_vars => GInv'
  BY TypeStep, PoolStep, LifeStep, DrainStep, ExitStep, HonourStep DEF GInv
<1>2. QED
  BY <1>1, GInit, PTL DEF Spec

\* The pool's part of the invariant says that no database has two clients.
LEMMA ShapeGivesOneClient == GInv => OneClientPerDatabase
BY PoolAssumption DEF GInv, TypeOK, PoolTypeOK, PoolShape, OneClientPerDatabase

(***************************************************************************)
(* The theorems.                                                           *)
(***************************************************************************)
\* Every reachable state of the gateway process is well typed.
THEOREM GatewayTyped == Spec => []TypeOK
<1>1. GInv => TypeOK
  BY DEF GInv
<1>2. QED
  BY <1>1, GInvariant, PTL

\* clientFor dials each database once at most, and every statement works with the
\* client of its own database, for any number of concurrent connections.
THEOREM OneClient == Spec => []OneClientPerDatabase
BY GInvariant, ShapeGivesOneClient, PTL

\* The exit status of main tells a handled signal from a failure.
THEOREM StatusTruthful == Spec => []ExitStatusTruthful
<1>1. GInv => ExitStatusTruthful
  BY DEF GInv
<1>2. QED
  BY <1>1, GInvariant, PTL

\* main waits for the PG front's drain: no statement is cut off before its time.
THEOREM DrainHonoured == Spec => []PgDrainHonoured
<1>1. GInv => PgDrainHonoured
  BY DEF GInv
<1>2. QED
  BY <1>1, GInvariant, PTL
=============================================================================
