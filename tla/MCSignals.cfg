CONSTANTS
  f1 = f1
  f2 = f2
  w1 = w1
  w2 = w2
  Func <- MCFunc
  Worker <- MCWorker
  Caller = {a}
  Sig = Sig
  Main = Main
  NoOne = NoOne
  Registrar <- AnyRegistrar
  ExitReturns = FALSE
  LateAdd = FALSE
  LevelMax = 2
  MaxSignals = 2

SPECIFICATION FairSpec
INVARIANTS TypeOK LevelOrder WorkDrained GracefulExitComplete NoPanic
PROPERTIES KeepsPromise ShutdownTerminates
