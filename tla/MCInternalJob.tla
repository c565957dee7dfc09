---------------------------- MODULE MCInternalJob -----------------------------
EXTENDS InternalJob, TLC

CONSTANTS m1, t1, t2, r1, r2

OneManager == {m1}
TwoTechnicians == {t1, t2}
TwoRequests == {r1, r2}
OneDetail == {"as described"}

Symmetry == Permutations(TwoRequests) \cup Permutations(TwoTechnicians)
=============================================================================
