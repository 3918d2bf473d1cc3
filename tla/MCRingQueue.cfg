CONSTANTS
  x = x
  y = y
  g1 = g1
  g2 = g2
  Item <- MCItem
  N = 3
  Getter <- OneGetter
  Shared = FALSE
  RemoveHandle = FALSE
  QueueNull = QueueNull
  QueueFull = QueueFull
  Ok = Ok
  Panic = Panic
  Nil = Nil

SPECIFICATION Spec
INVARIANTS TypeOK WindowExact
PROPERTY IsBoundedQueue
