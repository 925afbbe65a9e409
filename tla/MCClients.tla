----------------------------- MODULE MCClients -----------------------------
EXTENDS MarbleReads, MarbleStore, TLC

CONSTANTS t1, t2
MCThreads == {t1, t2}
Symmetry == Permutations(MCThreads)
=============================================================================
