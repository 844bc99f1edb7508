------------------------------ MODULE MCGateway ------------------------------
(***************************************************************************)
(* Three PG connections to a named database, two of them to the same one,  *)
(* one to the default database, and an ES request.                         *)
(***************************************************************************)
EXTENDS Gateway

CONSTANTS c1, c2, c3, c4, d1, d2, r1

MCConn == {c1, c2, c3, c4}
MCDbs == {d1, d2}
MCReq == {r1}
MCDbOf == [c \in MCConn |-> IF c \in {c1, c2} THEN d1 ELSE IF c = c3 THEN d2 ELSE Default]
=============================================================================
