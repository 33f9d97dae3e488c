\* One worker, two rows, no failure but those the code brings about itself.
SPECIFICATION Spec
CONSTANTS
  LastEvent = 2
  Match <- MCMatch
  w1 = w1
  Worker = {w1}
  NoOne = NoOne
  Limit = 2
  MaxFailures = 0
INVARIANT StaleFailsNoTick
