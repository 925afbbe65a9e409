------------------------------ MODULE MCMarble ------------------------------
EXTENDS Marble, TLC

CONSTANTS t1, t2
MCThreads == {t1, t2}
OneThread == {t1}
Symmetry == Permutations(MCThreads)
=============================================================================
