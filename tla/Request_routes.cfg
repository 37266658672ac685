SPECIFICATION RoutesSpec
CONSTANTS
    Conv = {c}
    NoConv = NoConv
    PinTargets = {"good", "unverified", "gone"}
    Known = {"good", "unverified"}
    Verified = {"good"}
    NoTarget = "default"
    Shapes <- MCShapes
    DefaultTtl = 1
    MaxTtl = 2
    Ttls = {9}
    MaxClock = 3
    MaxFlips = 1
    Launcher = {p0, p1, p2, p3}
    Port = {a, b, c, d}
    OldBuild = {}
    Past = {p0}
    StaticPort = NoPort
    NoLock = NoLock
    NoRec = NoRec
    NoPort = NoPort
    Faults = {}
    LaunchFaults = {}
INVARIANTS
    PinHonoured SecretNeverLeaves WindowSound
    ExclusiveLock OneStartAtATime
CHECK_DEADLOCK FALSE
