SPECIFICATION HooksSpec
CONSTANTS
  Conv = {c1, c2}
  Target = {t1, t2}
  Nil = Nil
  Absent = Absent
  Corrupt = Corrupt
  NoOp = NoOp
  Cap = 1
  MaxBoots = 2
  ZdrFaults = {"writefail", "verify", "corrupt"}
  Sessions = {s1}
  Ports = {1, 2}
  MaxEvents = 3
  BakePorts = {1, 2}
  Lines = {"u1", "u2"}
  LocalFiles <- MCLocal
  CommittedFiles <- MCCommitted
  MaxEdits = 3
  CodexPorts = {1, 2}
  Dirs = {2}
  Docs <- MCDocs
  MaxTicks = 4
  MaxFaults = 2
  BackAt = 0
  Back = 0
  DoctorPorts = {1, 12}
  MaxMoves = 2
  r1 = r1  r2 = r2  bad = bad  w0 = w0  w1 = w1  w2 = w2  lo = lo  hi = hi  pii = pii  net = net
  Rules = {r1, r2, bad}
  Uncompilable = {bad}
  Words = {w0, w1, w2}
  Defaults = {w0}
  Keys = {"URL", "MY_ID"}
  Canonical = {"URL"}
  TypeOf <- MCTypeOf
  Profiles <- MCProfiles
  Threshold <- MCThreshold
  Categories <- MCCategories
  Drafts <- MCDrafts
  Patches <- MCPatches
  Commands <- MCCommands
  InitFiles <- MCInitFiles
  Budget = 3
INVARIANTS
    ZdrSound NoUnverifiedEgress GateTells
    SettingsKept CodexSound DoctorHonest ConfigSound
CHECK_DEADLOCK FALSE
