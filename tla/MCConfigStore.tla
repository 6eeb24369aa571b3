---------------------------- MODULE MCConfigStore ----------------------------
(* Instances of ConfigStore for TLC. *)
EXTENDS ConfigStore

CONSTANTS w1, w2, k1, k2, d, v

\* A hand edit, a broken one, a removal.
HandEdit == {[k \in Keys |-> v]}
AllEdits == HandEdit \cup {Malformed, Absent}
BadEdit == {Malformed}
NoEdit == {}

\* config_save writes k2 or leaves it out, depending on k1: as kb.api.* never is
\* written, and transport.* only when it is open.
SaveDropsK2(cfg) == IF cfg[k1] = d THEN [cfg EXCEPT ![k2] = d] ELSE cfg
SaveKeeps(cfg) == cfg
=============================================================================
