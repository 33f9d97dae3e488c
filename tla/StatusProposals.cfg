\* One proposal above the threshold, one below, one without a stage; two
\* requests at once; two failures.
SPECIFICATION Spec
CONSTANTS
  auto = auto
  review = review
  signal = signal
  Proposal = {auto, review, signal}
  Staged = {auto, review}
  Confident = {auto, signal}
  c1 = c1
  c2 = c2
  Call = {c1, c2}
  Nothing = Nothing
  MaxFailures = 2
SYMMETRY Interchangeable
INVARIANTS
  StrandedByFailure
  HalfAcceptedByFailure
PROPERTIES
  ImplementsDecisions
\* Every reply may have its proposal and no item be left to press.
CHECK_DEADLOCK FALSE
