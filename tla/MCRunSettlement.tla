--------------------------- MODULE MCRunSettlement ---------------------------
\* A session, with a parent or without, its runs over several processes.
EXTENDS RunSettlement
=============================================================================
