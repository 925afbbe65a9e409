------------------------------ MODULE MCPower ------------------------------
EXTENDS MarblePower, TLC

CONSTANTS t1, t2
MCThreads == {t1, t2}
OneThread == {t1}
Symmetry == Permutations(MCThreads)

SyncNow == [fsync_each_batch |-> FALSE, ordered |-> TRUE, restarts |-> 0, syncs |-> 1]
FsyncAny == [fsync_each_batch |-> TRUE, ordered |-> FALSE, restarts |-> 0, syncs |-> 0]
FsyncRestart == [fsync_each_batch |-> TRUE, ordered |-> TRUE, restarts |-> 1, syncs |-> 0]
SyncRestart == [fsync_each_batch |-> FALSE, ordered |-> TRUE, restarts |-> 1, syncs |-> 1]

DurableSetups == {SyncNow, FsyncAny, FsyncRestart}
SyncAfterRestart == {SyncRestart}
=============================================================================
