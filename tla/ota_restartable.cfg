SPECIFICATION FairSpec
CONSTANTS
  r1 = r1
  r2 = r2
  bad = bad
  Releases = {r1, r2, bad}
  Installable = {r1, r2}
  Factory = r1
  NumDirs = 2
  NumFiles = 2
  VersionFile = 3
  None = None
  Torn = Torn
  Attempts = 2
  Tolerated = {}
  CrashIn = {"elsewhere", "restore", "verdict"}
  RaiseIn = {"prepare", "apply"}
  Overlaps = {}
  MaxFaults = 3
INVARIANTS CommittedImage
PROPERTIES TrialEnds
