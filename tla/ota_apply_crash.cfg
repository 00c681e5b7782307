SPECIFICATION Spec
CONSTANTS
  r1 = r1
  r2 = r2
  bad = bad
  Releases = {r1, r2}
  Installable = {r1, r2}
  Factory = r1
  NumDirs = 2
  NumFiles = 2
  VersionFile = 3
  None = None
  Torn = Torn
  Attempts = 2
  Tolerated = {}
  CrashIn = {"apply"}
  RaiseIn = {}
  Overlaps = {}
  MaxFaults = 1
INVARIANT PreviousKept
