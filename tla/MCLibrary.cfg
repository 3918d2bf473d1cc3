CONSTANTS
  Object <- MCObject
  Inside <- MCInside
  PageSize = 2
  Member <- MCMember
  pageSize = 2
  MaxPuts = 2
  MaxParts = 2
  Size = 3
  PreRead = 4
  Limit = 2
  MaxWritten = 3
  Appender = {a, b}
  Value = {1, 2}
  ArrayLen = 2
  SetItem = {1, 2, 3}
  Text = {"", "p", "q"}
  Secret <- MCSecret
  Goroutine = {g, h}
  MaxSets = 2
  MaxContexts = 2
  Base = 2
  MaxInt = 63
  Number = {0, 1, 3, 5, 70}
  Fraction = {0, 50, 99}
  Scale = 100
  Slack = 1
  Issuer = {i, j}
  Key <- MCKey
  MaxTokens = 1
  MaxChain = 5

SPECIFICATION LibrarySpec
\* Calls return and are not made again; histories reach their bounds.
CHECK_DEADLOCK FALSE
INVARIANTS LibraryTypeOK ForeachComplete GetsWhatWasPut NothingLost SetsHold Recoverable
  LoggersAgree CapacityAsSaid AcceptsItsOwn MessageKeeps
PROPERTIES ListsObjects ListingReturns ForeachEnds IsByteStream
