SPECIFICATION ZdrSpec
CONSTANTS
    Conv = {c1, c2}
    Target = {t1, t2}
    Nil = Nil
    Absent = Absent
    Corrupt = Corrupt
    NoOp = NoOp
    Cap = 2
    MaxBoots = 3
    ZdrFaults = {"corrupt"}
INVARIANTS RevertIsTold
CHECK_DEADLOCK FALSE
