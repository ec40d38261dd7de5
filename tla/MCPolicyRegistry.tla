-------------------------- MODULE MCPolicyRegistry --------------------------
\* Small instances of PolicyRegistry for TLC: sets of one module, so that its
\* binding can move, beside a module without a set.
EXTENDS PolicyRegistry, TLC

CONSTANTS t1, t2, s1, s2, m1, m2

SetModules == [s \in Sets |-> m1]

Symmetry == Permutations(Txns)
=============================================================================
