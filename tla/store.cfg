SPECIFICATION FairBackendSpec
CONSTANTS
  a = a
  b = b
  c = c
  Revisions = {a, b, c}
  GCGrace = 1
  MaxTmpAge = 1
  Chunks = 1
  MaxTime = 3
  MaxFaults = 1
  StallTicks = 2
  BatchSize = 1
INVARIANT TarballsComplete
INVARIANT InFlightKept
INVARIANT DeletedMeansGone
PROPERTY BackendKeepsPromise
PROPERTY ResidueReclaimed
PROPERTY UploadEnds
