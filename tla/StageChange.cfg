\* Three calls at once, two commands, two applications.
SPECIFICATION Spec
CONSTANTS
  k1 = k1
  k2 = k2
  Key = {k1, k2}
  a1 = a1
  a2 = a2
  Application = {a1, a2}
  saved = saved
  applied = applied
  offer = offer
  Stage = {saved, applied, offer}
  Saved = saved
  Applied = applied
  Never = Never
  NoOne = NoOne
  c1 = c1
  c2 = c2
  c3 = c3
  Caller = {c1, c2, c3}
SYMMETRY Interchangeable
INVARIANTS
  TypeOK
  NeverCollides
  OkIsDone
PROPERTY ImplementsStageLog
