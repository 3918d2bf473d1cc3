CONSTANTS
  f1 = f1
  f2 = f2
  w1 = w1
  w2 = w2
  Func <- MCFunc
  Worker <- MCWorker
  Caller = {a}
  Sig = Sig
  Main = Main
  NoOne = NoOne
  Registrar <- MainRegistrar
  ExitReturns = FALSE
  LateAdd = FALSE
  LevelMax = 0
  MaxSignals = 2

SPECIFICATION HangSpec
PROPERTY SecondSignalExits
