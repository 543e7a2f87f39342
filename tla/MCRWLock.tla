------------------------------ MODULE MCRWLock ------------------------------
\* Four threads: a writer, a writer behind it, and two readers that can
\* overtake each other on the readers' semaphore.
EXTENDS RWLock
=============================================================================
