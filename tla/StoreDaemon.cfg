CONSTANTS
    w1 = w1  w2 = w2  k1 = k1  k2 = k2  d = d  v = v
    Main = Main  Nobody = Nobody  Malformed = Malformed  Absent = Absent
    Daemon = TRUE
    Workers = {w1, w2}
    Keys = {k1}
    Vals = {d, v}
    Default = d
    Ops = {"set", "setter", "enable"}
    Edits <- AllEdits
    UseCache = FALSE
    Failures = {}
    Saved <- SaveKeeps
    MaxVersions = 3
SPECIFICATION LiveSpec
INVARIANTS TypeOK QuietIsFresh
PROPERTIES NoRollback Converges
