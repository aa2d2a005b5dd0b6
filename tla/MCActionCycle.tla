--------------------------- MODULE MCActionCycle ---------------------------
\* The instances TLC checks: identical calls and answers are interchangeable.
EXTENDS ActionCycle, TLC

Symmetry == Permutations(Call) \cup Permutations(Answer)
=============================================================================
