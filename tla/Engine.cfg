SPECIFICATION EngineSpec
CONSTANTS
  k = k
  s = s
  r = r
  f = f
  d = d
  plain = plain
  marked = marked
  A = A
  B = B
  NoModel = NoModel
  Free = Free
  Secrets = {k, s}
  Admin = {k}
  RegexPii = {r, d}
  Outer <- MCOuter
  Bypassed <- MCBypassed
  Surface <- MCSurface
  DateOf <- MCDateOf
  Finds <- MCFinds
  Boot <- MCBoot
  BootMl <- EitherAtBoot
  Threads = {t1, t2}
  Leaves = {plain, marked}
  Marked = {marked}
  Models = {A, B}
  Configs <- MCConfigs
  MaxDets = 3
  MaxWrites = 2
  MaxCalls = 2
  MaxDay = 1
SYMMETRY EngineSymmetry
INVARIANTS
    MaskTypeOK SecretsStayMasked CacheSound
    RequiredMeansMl SlotFollowsConfig SlotIsSound
CHECK_DEADLOCK FALSE
