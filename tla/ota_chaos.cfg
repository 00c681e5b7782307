SPECIFICATION Spec
CONSTANTS
  r1 = r1
  r2 = r2
  bad = bad
  Releases = {r1, bad}
  Installable = {r1}
  Factory = r1
  NumDirs = 1
  NumFiles = 1
  VersionFile = 2
  None = None
  Torn = Torn
  Attempts = 2
  Tolerated = {"mixture", "torn"}
  CrashIn = {"apply", "restore", "verdict", "elsewhere"}
  RaiseIn = {"prepare", "apply", "restore", "health"}
  Overlaps = {"push", "boot"}
  MaxFaults = 2
INVARIANTS OnlyVerified
CHECK_DEADLOCK FALSE
