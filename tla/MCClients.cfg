CONSTANTS
  d1 = d1
  d2 = d2
  t = t
  k1 = k1
  k2 = k2
  w1 = w1
  w2 = w2
  Func <- MCFunc
  Database <- MCDatabase
  Provider = t
  Worker <- MCWorker
  Gorm <- MCGorm
  SQLite <- MCSQLite
  Redis <- MCRedis
  Caller <- NoCaller
  Sig = Sig
  Main = Main
  NoOne = NoOne
  Registrar <- MCRegistrar
  ExitReturns = FALSE
  LateAdd = TRUE
  LevelMax = 2
  LevelTrace = 0
  LevelDB = 1
  LevelRequest = 2
  MaxSignals = 1

SPECIFICATION ClientsSpec
SYMMETRY Alike
INVARIANTS ClientsTypeOK RequestsServed NothingLeftOpen SpansFlushed Collected
