----------------------------- MODULE MCNodeLink -----------------------------
\* Two connections at a time, three failures and a reload.
EXTENDS NodeLink
=============================================================================
