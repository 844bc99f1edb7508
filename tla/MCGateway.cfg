SPECIFICATION Spec
CONSTANTS
  c1 = c1  c2 = c2  c3 = c3  c4 = c4
  d1 = d1  d2 = d2
  r1 = r1
  Default = Default
  NoConn = NoConn
  Conn <- MCConn
  Dbs <- MCDbs
  EsReq <- MCReq
  DbOf <- MCDbOf
INVARIANTS
  TypeOK
  OneClientPerDatabase
  ExitStatusTruthful
  PgDrainHonoured
PROPERTIES
  ProcessStops
  PoolServes
