\* Any delay, any loss: two processes, scaled times.
SPECIFICATION Spec
CONSTANTS
  p1 = p1
  p2 = p2
  Process = {p1, p2}
  Nobody = Nobody
  Ttl = 5
  Renew = 2
  StandbyPoll = 1
  MinCycle = 1
  ClaimTimeout = 1
  Slack = 1
  Margin = 1
  StandbyFresh = 2
  StaleAfter = 3
  MaxStray = 1
  MaxFailures = 1
SYMMETRY Interchangeable
INVARIANTS
  TypeOK
  LeaseCoversBelief
  OverlapOnlyAfterMargin
PROPERTY ImplementsExclusiveRight
CHECK_DEADLOCK FALSE
