CONSTANTS
    t1 = t1  t2 = t2  i1 = i1  i2 = i2  i3 = i3  i4 = i4
    Old = Old  Nil = Nil
    Threads = {t1, t2}
    Pid <- OwnProcess
    NChunks = 2
    Inodes = {i1, i2, i3, i4}
    Fsync = FALSE
    Checked = FALSE
SPECIFICATION Spec
PROPERTY SuccessIsReal
