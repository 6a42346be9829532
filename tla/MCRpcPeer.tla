----------------------------- MODULE MCRpcPeer -----------------------------
\* Four calls, two at a time, of which the caller remembers one that it gave up.
EXTENDS RpcPeer
=============================================================================
