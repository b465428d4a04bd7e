SPECIFICATION Spec
CONSTANTS
    Procs = {p1, p2}
    NCaches = 2
    Absent = Absent
    Torn = Torn
    NoProc = NoProc
    MaxVersion = 2
    MaxWrites = 12
    MaxCommands = 3
    MaxKills = 1
SYMMETRY ProcSymmetry
INVARIANTS
    UpToDateUnmixed
    StateHonest
    SolvHonest
CHECK_DEADLOCK FALSE
