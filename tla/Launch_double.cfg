SPECIFICATION LaunchSpec
CONSTANTS
    Launcher = {p1, p2}
    Port = {a, b}
    OldBuild = {}
    Past = {}
    StaticPort = NoPort
    NoLock = NoLock
    NoRec = NoRec
    NoPort = NoPort
    Faults = {}
    LaunchFaults = {}
INVARIANTS NoDoubleLaunch
CHECK_DEADLOCK FALSE
