SPECIFICATION Spec
CONSTANTS
  Networks = {home, cafe}
  Open = {cafe}
  Paired = {home}
  None = None
  MaxPosts = 2
  MaxFaults = 2
CHECK_DEADLOCK FALSE
INVARIANTS
  TypeOK
  NeverBoth
  InterfaceReturned
  SavedWhole
PROPERTIES
  SetupComes
  Joins
  VoiceTold
