SPECIFICATION WaitsSpec
CONSTANTS
  NReqs = 2
  MaxRecords = 1
  Limits = {1, 2}
  Callers <- MCCallers
  k = k
  s = s
  r = r
  f = f
  d = d
  plain = plain
  marked = marked
  A = A
  B = B
  NoModel = NoModel
  Free = Free
  Secrets = {k, s}
  Admin = {k, s}
  RegexPii = {r, d}
  Outer <- MCOuter
  Bypassed <- MCBypassed
  Surface <- MCSurface
  DateOf <- MCDateOf
  Finds <- MCFinds
  Boot <- MCBoot
  BootMl <- OptionalA
  Threads = {t1, t2}
  Leaves = {plain}
  Marked = {}
  Models = {A}
  Configs = {}
  MaxDets = 3
  MaxWrites = 0
  MaxCalls = 3
  MaxDay = 0
    Launcher = {p0, p1, p2}
    Port = {a, b, c}
    OldBuild = {}
    Past = {p0}
    StaticPort = NoPort
    NoLock = NoLock
    NoRec = NoRec
    NoPort = NoPort
    Faults = {}
    LaunchFaults = {}
INVARIANTS ApprovalsSound
PROPERTIES EveryoneServed GateIsBounded WaitsEnd
CHECK_DEADLOCK FALSE
