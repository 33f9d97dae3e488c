\* Two messages of the person, three replies, two faults.
SPECIFICATION FairSpec
CONSTANTS
  s1 = s1
  s2 = s2
  Sent = {s1, s2}
  r1 = r1
  r2 = r2
  r3 = r3
  Reply = {r1, r2, r3}
  Nothing = Nothing
  MaxFaults = 2
INVARIANTS
  ClassifiedOnce
  LossesAreThese
PROPERTY EveryReplyIsSeen
