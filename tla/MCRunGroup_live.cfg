CONSTANTS
  f1 = f1
  a1 = a1
  a2 = a2
  w1 = w1
  runner = runner
  other = other
  Func <- MCFunc
  Worker <- MCWorker
  Actor <- MCActor
  Caller <- MCCaller
  Runner = runner
  Watcher = Watcher
  Sig = Sig
  Main = Main
  NoOne = NoOne
  Registrar <- MainRegistrar
  ExitReturns = FALSE
  LateAdd = FALSE
  LevelMax = 1
  MaxSignals = 1

SPECIFICATION GroupPromptSpec
PROPERTY GroupStops
