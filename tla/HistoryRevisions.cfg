SPECIFICATION HistorySpec
CONSTANTS
    PackageNames = {a}
    Versions = {v1, v2, v3}
    Builds = {b1}
    Unspecified = Unspecified
    Nothing = Nothing
    MaxEntries = 5
SYMMETRY Interchangeable
INVARIANT RevisionRestored
PROPERTY PruneSparesRequested
CHECK_DEADLOCK FALSE
