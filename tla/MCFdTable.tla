----------------------------- MODULE MCFdTable ------------------------------
\* A small instance of the descriptor table: three numbers, so that an epollfd, a
\* registered descriptor and a reused number exist at once, one of them a number that
\* the application also opens and closes itself.
EXTENDS FdTable, TLC

Symmetry == Permutations(Threads) \cup Permutations(Descs)
=============================================================================
