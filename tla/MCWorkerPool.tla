----------------------------- MODULE MCWorkerPool -----------------------------
\* WorkerPool for TLC: one task more than the buffer holds, and two workers.
\* Liveness is checked, so symmetry is not used.
EXTENDS WorkerPool
=============================================================================
