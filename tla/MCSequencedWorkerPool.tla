----------------------- MODULE MCSequencedWorkerPool -----------------------
EXTENDS SequencedWorkerPool, TLC

\* Worker threads are interchangeable.
Symmetry == Permutations(Workers)
=============================================================================
