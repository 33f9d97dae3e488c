\* Prompt processes and a database that answers in time; liveness, so no symmetry.
SPECIFICATION ReliableSpec
CONSTANTS
  p1 = p1
  p2 = p2
  Process = {p1, p2}
  Nobody = Nobody
  Ttl = 6
  Renew = 2
  StandbyPoll = 2
  MinCycle = 1
  ClaimTimeout = 1
  Slack = 1
  Margin = 2
  StandbyFresh = 6
  StaleAfter = 4
  MaxStray = 0
  MaxFailures = 0
INVARIANT OverlapOnlyWhenWedged
PROPERTY StandbyTakesOver
CHECK_DEADLOCK FALSE
