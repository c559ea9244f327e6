------------------------------ MODULE MCLfPool ------------------------------
EXTENDS LfPool, TLC

\* The threads are interchangeable: sound for invariants and action
\* properties, not used with the liveness property.
ThreadSymmetry == Permutations(Threads)
=============================================================================
