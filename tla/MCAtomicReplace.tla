--------------------------- MODULE MCAtomicReplace ---------------------------
(* Instances of AtomicReplace for TLC. *)
EXTENDS AtomicReplace, TLC

CONSTANTS t1, t2, i1, i2, i3, i4

OwnProcess == [t \in Threads |-> t]     \* every writer its own process
OneProcess == [t \in Threads |-> t1]    \* threads of one process

Symmetry == Permutations(Inodes) \cup Permutations(Threads)
=============================================================================
