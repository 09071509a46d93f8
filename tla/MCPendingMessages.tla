-------------------------- MODULE MCPendingMessages --------------------------
\* PendingMessages for TLC: messages and connections are interchangeable.
EXTENDS PendingMessages, TLC

Symmetry == Permutations(Msgs) \cup Permutations(Conns)
=============================================================================
