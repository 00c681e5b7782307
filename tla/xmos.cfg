SPECIFICATION Spec
CONSTANTS
  Renderer = renderer
  Pollers = {p1, p2}
  None = None
  MaxTransfers = 2
  InitialAttempts = 2
  VerifyAttempts = 2
  MaxFaults = 4
INVARIANTS
  TypeOK
  SpiOwnedOnceChecked
  AnswerKept
  AudioVerified
PROPERTIES
  MatchingUntouched
  Settles
