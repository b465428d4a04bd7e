SPECIFICATION Spec
CONSTANTS
    Tasks = {t1, t2, t3}
    Main = Main
    Owner = Owner
    NoThread = NoThread
    MaxSpurious = 0
INVARIANT IsJoined
CHECK_DEADLOCK FALSE
