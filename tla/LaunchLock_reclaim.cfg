SPECIFICATION LockSpec
CONSTANTS
    Launcher = {p1, p2, p3}
    NoLock = NoLock
    Faults = {"die"}
INVARIANTS ExclusiveLock

CHECK_DEADLOCK FALSE
