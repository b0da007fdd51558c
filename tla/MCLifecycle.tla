----------------------------- MODULE MCLifecycle ------------------------------
\* Values of the constants for the runs of AbstractLifecycle.
EXTENDS AbstractLifecycle, TLC

CONSTANTS s1, s2, p1, p2, x1, x2

TheTypes == {"oral", "lunch"}
AllTypes == {"oral", "poster", "lunch"}
TheNoSlotTypes == {"lunch"}
TheOutcomes == {"oral", "rejected"}
TheAcceptances == {"oral"}

AllStatuses == SubmissionStatus

LifecycleSymmetry == Permutations({s1, s2}) \cup Permutations({x1, x2})
===============================================================================
