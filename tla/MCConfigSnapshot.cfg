CONSTANTS
    t1 = t1  t2 = t2  t3 = t3
    f1 = f1  f2 = f2
    c1 = c1  c2 = c2
    Unset = Unset  NoToken = NoToken  NoThread = NoThread
    Threads = {t1, t2, t3}
    Fields = {f1, f2}
    Configs = {c1, c2}
    Wants <- GetOnly
    ReaderMax = 3
    SeqMod = 4
    MaxReappliers = 1
SYMMETRY ThreadConfigSymmetry
SPECIFICATION Spec
INVARIANTS TypeOK PinsCounted NoRace NoTornRead TokenCurrent ReapplierSeesNew NeverSaturated
PROPERTY ReadsAreAtomic
