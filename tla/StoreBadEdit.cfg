CONSTANTS
    w1 = w1  w2 = w2  k1 = k1  k2 = k2  d = d  v = v
    Main = Main  Nobody = Nobody  Malformed = Malformed  Absent = Absent
    Daemon = TRUE
    Workers = {w1}
    Keys = {k1, k2}
    Vals = {d, v}
    Default = d
    Ops = {"set"}
    Edits <- AllEdits
    UseCache = FALSE
    Failures = {}
    Saved <- SaveDropsK2
    MaxVersions = 3
SPECIFICATION Spec
PROPERTY BadEditKeepsRunning
