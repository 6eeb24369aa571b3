CONSTANTS
    t1 = t1  t2 = t2
    Threads = {t1, t2}
    Agents = {a1}
    Starts = {"agents"}
    Edits <- SomeBodies
    NoAgent = NoAgent
    MaxFiles = 3
SPECIFICATION Spec
SYMMETRY Symmetry
INVARIANTS TypeOK NormalOnly
PROPERTIES FindsWhatIsThere NotForked Guarded
