CONSTANTS
  p = p
  q = q
  Packages <- MCPackages
  NCaches = 3
  Writable <- MCWritable
  Target = 2
  Checked = {p}
  IndexFirst = {p}
  Reported = {p, q}
  Renamed = {q}
  Before <- MCBefore
  Disabled = FALSE
  ExtractThreads = 2
  MaxFailures = 2
  MaxRuns = 2
SPECIFICATION FairSpec
INVARIANTS
  UsableIsWhole
  ReadyMeansFound
  CachedAnswersHold
PROPERTIES
  StoreSpec
  CommandEnds
