\* Prompt processes, any loss: the real times of the claims in units of 2.5 s (60, 15, 10, 10, 30 s;
\* the slack of 2 s and the least cycle of 0.5 s are rounded up). Ticks are short: they end in time
\* here, so they keep no claim from being sent.
SPECIFICATION PromptSpec
CONSTANTS
  p1 = p1
  p2 = p2
  Process = {p1, p2}
  Nobody = Nobody
  Ttl = 24
  Renew = 6
  StandbyPoll = 4
  MinCycle = 1
  ClaimTimeout = 4
  Slack = 1
  Margin = 0
  StandbyFresh = 12
  StaleAfter = 2
  MaxStray = 0
  MaxFailures = 3
SYMMETRY Interchangeable
PROPERTIES
  StandbySurvivesOneLostPoll
  HolderSurvivesTwoLostClaims
CHECK_DEADLOCK FALSE
