----------------------------- MODULE MCEventLoop -----------------------------
EXTENDS EventLoop

CONSTANTS main, worker1, worker2

\* Two threads post twice, so that their order shows; a third races with them.
Posts == [t \in Threads |-> IF t = worker2 THEN 1 ELSE 2]
=============================================================================
