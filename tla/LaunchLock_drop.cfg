SPECIFICATION LockSpec
CONSTANTS
    Launcher = {p1, p2}
    NoLock = NoLock
    Faults = {"ttl"}
PROPERTIES DropOnlyOwn
CHECK_DEADLOCK FALSE
