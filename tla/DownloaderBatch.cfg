CONSTANTS
  r1 = r1
  r2 = r2
  http = http
  oci = oci
  NoMirror = NoMirror
  Requests <- MCRequests
  Mirrors <- MCMirrors
  MirrorsOf <- MCMirrorsOf
  StepCounts <- MCStepCounts
  ToFile = {r1}
  CheckOnly = {r2}
  FileUrl = {}
  IgnoreFailure = {r2}
  Monitored = {r1}
  MaxMirrorTries = 3
  MaxRetries = 1
  DownloadThreads = 2
  FailFast = TRUE
  PriorFailures = 1
  Interruptible = TRUE
SPECIFICATION FairSpec
INVARIANTS
  WaitingCountExact
  MirrorLoadExact
  NoPartialFileLeft
  OutcomeReported
PROPERTIES
  Termination
  NoStartWhileStopping
