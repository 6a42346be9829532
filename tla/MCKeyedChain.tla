---------------------------- MODULE MCKeyedChain ----------------------------
EXTENDS KeyedChain

\* Three calls for one key and one for another: a call can enter while the key's
\* last one is running, settled but not yet cleaned, or cleaned.
MCCalls == {"a1", "a2", "a3", "b1"}
MCKeys == {"a", "b"}
MCKeyOf == [c \in MCCalls |-> IF c = "b1" THEN "b" ELSE "a"]
=============================================================================
