CONSTANTS
  f1 = f1
  a1 = a1
  a2 = a2
  w1 = w1
  runner = runner
  other = other
  Func <- MCFunc
  Worker <- MCWorker
  Actor <- MCActor
  Caller <- MCCaller
  Runner = runner
  Watcher = Watcher
  Sig = Sig
  Main = Main
  NoOne = NoOne
  Registrar <- MainRegistrar
  ExitReturns = TRUE
  LateAdd = TRUE
  LevelMax = 1
  MaxSignals = 1

SPECIFICATION GroupSpec
CHECK_DEADLOCK FALSE
SYMMETRY AlikeActors
INVARIANTS GroupTypeOK InterruptedBeforeRoot InterruptedBeforeExit RunReturnsLast
