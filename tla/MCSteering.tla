------------------------------ MODULE MCSteering ------------------------------
EXTENDS SessionRuntime

\* Two steers and a prompt, so that a close can meet two queued-steering starts
\* and a run one of them lost the lane to.
MCRequests == {"s", "t", "p"}
MCInputs == {"x", "y", "z"}
MCOpOf == [s |-> "steer", t |-> "steer", p |-> "prompt"]
MCInputOf == [s |-> "x", t |-> "y", p |-> "z"]
=============================================================================
