SPECIFICATION ConversationsSpec
CONSTANTS
    Conv = {c1, c2}
    Target = {t1, t2}
    Nil = Nil
    Absent = Absent
    Corrupt = Corrupt
    NoOp = NoOp
    Cap = 2
    MaxBoots = 3
    ZdrFaults = {"writefail", "reportfail", "verify", "corrupt", "slowhook"}
    e1 = e1   s1 = s1  none = none  blank = blank  odd = odd
    ta = ta  tb = tb  tc = tc  k1 = k1  k2 = k2  k3 = k3
    RequestBodies <- MCBodies
    CapturedTexts <- MCCaptured
    NoId = none
    Odd = {odd}
    BlankIds = {blank}
    Withheld = {k3}
    MaxRing = 2  MaxConvs = 3  MaxTokens = 2  PerTick = 2  MaxRequests = 4
SYMMETRY ZdrSymmetry
INVARIANTS NoDowngrade AgreeWhenQuiet NoSilentRevert IndexSound
PROPERTIES DeltaNeverHides LedgerKeeps
CHECK_DEADLOCK FALSE
