----------------------------- MODULE MCWorkspace -----------------------------
EXTENDS KnowledgeBases, TLC

CONSTANTS c1, c2, u1, u2, p1, p2

MCRole == {"admin", "member"}
Symmetry == Permutations({u1, u2}) \cup Permutations({p1, p2})
=============================================================================
