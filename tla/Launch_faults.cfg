SPECIFICATION LaunchSpec
CONSTANTS
    Launcher = {p1, p2}
    Port = {a}
    OldBuild = {p1}
    Past = {}
    StaticPort = a
    NoLock = NoLock
    NoRec = NoRec
    NoPort = NoPort
    Faults = {"die", "ttl"}
    LaunchFaults = {"slow", "crash", "term", "spawn", "foreign", "write"}
INVARIANTS LaunchTypeOK
PROPERTIES LaunchEnds
CHECK_DEADLOCK FALSE
