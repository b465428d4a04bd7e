SPECIFICATION FairSpec
CONSTANTS
    Tasks = {t1, t2, t3}
    Main = Main
    Owner = Owner
    NoThread = NoThread
    MaxSpurious = 1
INVARIANTS
    NoWorkAfterJoin
    NoThreadAfterClose
PROPERTIES
    CloseReturnsUnlessEmbraced
    JoinReturnsUnlessMissed
CHECK_DEADLOCK FALSE
