CONSTANTS
  l1 = l1
  l2 = l2
  Listener <- MCListener
  k1 = k1
  k2 = k2
  Key <- MCKey
  Loop = Loop
  Nothing = Nothing
  Blank = Blank
  MaxVersion = 1
  BackoffLimit = 4
  c1 = c1
  c2 = c2
  Call <- MCCall
  None = None
  Refused = Refused
  Empty = Empty
  TTL = 3
  Margin = 2
  MaxTime = 4

SPECIFICATION NacosSpec
SYMMETRY Alike
\* A call returns once and the clock stops at its bound.
CHECK_DEADLOCK FALSE
INVARIANTS NacosTypeOK OneTargetPerKey GivenWasPublished AuthorizedInTime AnswersHold
