------------------------ MODULE MCSchedulerLeadership ------------------------
\* Two copies of the API for TLC.
EXTENDS SchedulerLeadership, TLC

CONSTANTS c1, c2

MCCopy == {c1, c2}
Symmetry == Permutations(MCCopy)
=============================================================================
