---------------------------- MODULE MCExecStream ----------------------------
\* A command of up to three records and an exit, on a node that keeps the last two.
EXTENDS ExecStream
=============================================================================
