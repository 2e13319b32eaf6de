SPECIFICATION FairSpec
CONSTANTS
  f = f
  g = g
  Snippets = {f, g}
  Workers = 2
  MaxConcurrentDownloads = 1
  MaxArchiveBytes = 1
  MaxPerEntryBytes = 1
  MaxExtractedBytes = 2
  MaxDecompressedBytes = 5
  Archives <- FirstAnyThenGood
  MaxFaults = 1
INVARIANT ResourcesOwned
INVARIANT JudgedRight
PROPERTY Converges
CHECK_DEADLOCK FALSE
