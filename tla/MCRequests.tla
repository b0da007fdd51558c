------------------------------ MODULE MCRequests ------------------------------
\* Values of the constants for the runs of ConcurrentRequests.
EXTENDS ConcurrentRequests, TLC

CONSTANTS r1, r2, r3, s1, s2, n1, n2, n3, n4

RequestSymmetry ==
    Permutations({r1, r2}) \cup Permutations({s1, s2})
        \cup Permutations({n1, n2, n3, n4})
===============================================================================
