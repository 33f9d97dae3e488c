\* Two workers, three rows, batches of two, one failing tick besides those a deletion fails.
SPECIFICATION FairSpec
CONSTANTS
  LastEvent = 3
  Match <- MCMatch
  w1 = w1
  w2 = w2
  Worker = {w1, w2}
  NoOne = NoOne
  Limit = 2
  MaxFailures = 1
INVARIANTS
  OneHandler
  LossIsBounded
PROPERTIES
  EveryRowIsClaimed
  ImplementsFeed
