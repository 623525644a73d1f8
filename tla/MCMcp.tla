------------------------------- MODULE MCMcp -------------------------------
EXTENDS McpProperties, TLC

Symmetry == Permutations(Servers) \cup Permutations(Calls)
=============================================================================
