--------------------------- MODULE MCSessionRuntime ---------------------------
EXTENDS SessionRuntime

\* Admission: a prompt, its replay, a steer of another input, and a compaction.
MCRequests == {"p", "again", "s", "c"}
MCInputs == {"x", "y", "z"}
MCOpOf == [p |-> "prompt", again |-> "prompt", s |-> "steer", c |-> "compact"]
MCInputOf == [p |-> "x", again |-> "x", s |-> "y", c |-> "z"]
=============================================================================
