-------------------------- MODULE MCConfigSnapshot --------------------------
(* Instances of ConfigSnapshot for TLC. *)
EXTENDS ConfigSnapshot, TLC

CONSTANTS t1, t2, t3, f1, f2, c1, c2

\* config_snapshot_get copies every field, config_snapshot_read_field one.
GetOrField == {{f1, f2}, {f2}}
GetOnly == {{f1, f2}}

ThreadSymmetry == Permutations(Threads)
ThreadConfigSymmetry == Permutations(Threads) \cup Permutations(Configs)
=============================================================================
