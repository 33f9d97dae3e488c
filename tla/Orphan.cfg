\* Two prepare calls one after the other, of which the first ends between its upload and its insert.
SPECIFICATION DeletionSpec
CONSTANTS
  Call = {c1, c2}
  Key = {"key"}
  KeyOf <- MCKeyOf
  NoCall = NoCall
  MaxTrouble = 1
  MaxPasses = 1
  MaxRequests = 0
PROPERTY OrphanIsHarmless
CHECK_DEADLOCK FALSE
