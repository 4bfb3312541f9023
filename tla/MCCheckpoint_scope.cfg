\* A path of each kind; two of them may change, in three rounds.
CONSTANTS
  Paths = {src, doc, secret, cache}
  Allowed = {src}
  Forbidden = {secret}
  Ignored = {cache}
  NoPath = NoPath
  MaxRounds = 2
  MaxChanges = 2
SPECIFICATION Spec
INVARIANTS
  LandedWasReviewed
  LandedInScope
\* an attempt ends
CHECK_DEADLOCK FALSE
