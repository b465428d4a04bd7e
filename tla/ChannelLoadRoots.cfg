SPECIFICATION FairSpec
CONSTANTS
    Packages = {"r", "a", "b", "c"}
    NSubdirs = 3
    Channels <- MCChannels
    Channel <- MCChannel
    Noarch <- MCNoarch
    Roots <- MCRoots
    Servers <- MCServers
    Starts <- MCStarts
    UseShards = TRUE
    MaxFailures = 1
INVARIANTS
    NoRootLost
    SecondPassKeeps
    OneCrossing
PROPERTY
    LoadEnds
CHECK_DEADLOCK FALSE
