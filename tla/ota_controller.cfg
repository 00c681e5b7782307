SPECIFICATION Spec
CONSTANTS
  genuine = genuine
  other = other
  forged = forged
  Bundles = {genuine, other, forged}
  Genuine = {genuine, other}
  Malformed = Malformed
  None = None
  Percents = 3
  MaxQueue = 3
  MaxStarts = 3
INVARIANTS TypeOK LastWord NothingStaged
PROPERTIES PendingUntouched StatusGoesUp UpdateEnds
CHECK_DEADLOCK FALSE
