\* One proposal, two tabs, nothing fails.
SPECIFICATION Spec
CONSTANTS
  review = review
  Proposal = {review}
  Staged = {review}
  Confident = {}
  c1 = c1
  c2 = c2
  Call = {c1, c2}
  Nothing = Nothing
  MaxFailures = 0
PROPERTY DismissedNeverMoves
