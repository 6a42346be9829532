---------------------------- MODULE MCPausePoints ----------------------------
\* Two sessions' runs in one checkout: one that calls two tools in parallel and may
\* be aborted, one whose first response ends it and whose runtime may be closed.
EXTENDS PausePoints

CONSTANTS r1, r2, k1

SharedCheckout == [r \in {r1, r2} |-> k1]

Turns == [r \in {r1, r2} |-> IF r = r1 THEN 2 ELSE 1]
=============================================================================
