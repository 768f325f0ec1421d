--------------------------- MODULE MCAgentLink ---------------------------
(* Small instances of AgentLink for TLC.                                   *)
EXTENDS AgentLink, TLC

\* The gateway's clock is behind, equal or ahead by one.
MCSkews == {-1, 0, 1}

\* Tokens, nodes and join runs are interchangeable.
IdSymmetry == Permutations(Tokens) \cup Permutations(Nodes)
              \cup Permutations(Joins)
=============================================================================
