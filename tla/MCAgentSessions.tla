--------------------------- MODULE MCAgentSessions ---------------------------
(* Instances of AgentSessions for TLC.                                     *)
EXTENDS AgentSessions, TLC

CONSTANTS g1, g2, g3, g4, s1, s2, r1, r2, o1, o2

\* Runs, gates and sessions are interchangeable.
MCSymmetry == Permutations(Runs) \cup Permutations(Gates) \cup Permutations(Sessions)
=============================================================================
