------------------------------ MODULE MCClient ------------------------------
\* Client with a few goroutines.
EXTENDS Client, TLC

\* Goroutines are interchangeable, and so are buffers.
Symmetry == Permutations(Emitters) \cup Permutations(Buffers)
=============================================================================
