CONSTANTS
    w1 = w1  w2 = w2  k1 = k1  k2 = k2  d = d  v = v
    Main = Main  Nobody = Nobody  Malformed = Malformed  Absent = Absent
    Daemon = FALSE
    Workers = {w1}
    Keys = {k1, k2}
    Vals = {d, v}
    Default = d
    Ops = {"set", "group", "setter", "enable", "disable"}
    Edits <- NoEdit
    UseCache = TRUE
    Failures = {"load", "open", "write"}
    Saved <- SaveDropsK2
    MaxVersions = 4
SPECIFICATION Spec
INVARIANT CacheIsHonest
PROPERTY OtherKeysKept
