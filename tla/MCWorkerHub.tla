---------------------------- MODULE MCWorkerHub ----------------------------
EXTENDS WorkerHubProps, TLC

Symmetry == Permutations(Workers) \cup Permutations(Answers)
=============================================================================
