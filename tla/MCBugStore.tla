----------------------------- MODULE MCBugStore -----------------------------
\* Instances of BugStore for TLC: the threads and fingerprints are model
\* values, the bounds are integers, all given in the .cfg files.
EXTENDS BugStore, TLC

ThreadSymmetry == Permutations(Threads)
=============================================================================
