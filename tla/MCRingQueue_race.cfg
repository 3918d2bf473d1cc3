CONSTANTS
  x = x
  y = y
  g1 = g1
  g2 = g2
  Item <- MCItem
  N = 2
  Getter <- TwoGetters
  Shared = FALSE
  RemoveHandle = FALSE
  QueueNull = QueueNull
  QueueFull = QueueFull
  Ok = Ok
  Panic = Panic
  Nil = Nil

SPECIFICATION Spec
CHECK_DEADLOCK FALSE
INVARIANT GetNeverPanics
