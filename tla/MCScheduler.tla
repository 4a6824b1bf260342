----------------------------- MODULE MCScheduler -----------------------------
EXTENDS Scheduler

\* Two feeds, so that a due feed competes with the requests for another one, and
\* one of them finds the queue full of the other's.
CONSTANTS f1, f2, c1
================================================================================
