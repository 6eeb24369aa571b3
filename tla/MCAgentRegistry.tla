--------------------------- MODULE MCAgentRegistry ---------------------------
(* AgentRegistry on two request threads and one agent. *)
EXTENDS AgentRegistry, TLC
CONSTANTS t1, t2
Symmetry == Permutations(Threads)
\* Nothing that parses, something that a load rejects, a roster.
SomeBodies == {b \in Bodies : b.says = "text" <=> b.agents = {}}
=============================================================================
