\* Nothing fails: one message, two replies.
SPECIFICATION Spec
CONSTANTS
  s1 = s1
  Sent = {s1}
  r1 = r1
  r2 = r2
  Reply = {r1, r2}
  Nothing = Nothing
  MaxFaults = 0
INVARIANT PassedOverOnlyForNewer
