--------------------------- MODULE MCLiveSessions ---------------------------
EXTENDS LiveSessions

\* One submission and one resume, of a session that moves between two places.
MCCalls == {"p", "r"}
MCSubmissions == {"p"}
MCSources == {"a", "b"}
=============================================================================
