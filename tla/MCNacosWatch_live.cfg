CONSTANTS
  l1 = l1
  l2 = l2
  Listener <- MCListener
  k1 = k1
  k2 = k2
  Key = {k1}
  Loop = Loop
  Nothing = Nothing
  Blank = Blank
  MaxVersion = 1
  BackoffLimit = 0

SPECIFICATION FairSpec
PROPERTY InformedUnlessOverlap
