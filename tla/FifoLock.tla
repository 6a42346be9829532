------------------------------- MODULE FifoLock -------------------------------
(***************************************************************************)
(* What serialised work is promised: the calls for a key have it one at a    *)
(* time, in the order they asked for it, and none is forgotten.              *)
(***************************************************************************)
EXTENDS Naturals

CONSTANTS Calls, KeyOf

VARIABLES place,    \* [Calls -> Nat]: the order they asked in, 0 before
          running,  \* the calls that have their key
          over      \* those that are done

vars == <<place, running, over>>

Init == place = [c \in Calls |-> 0] /\ running = {} /\ over = {}

Ask(c) ==
    /\ place[c] = 0 /\ \A d \in Calls : place[d] < place'[c]
    /\ place' = [place EXCEPT ![c] = place'[c]] /\ UNCHANGED <<running, over>>

\* Each earlier call for the key is done, and no call has it.
Grant(c) ==
    /\ place[c] # 0 /\ c \notin over
    /\ \A d \in Calls : KeyOf[d] = KeyOf[c] =>
           /\ d \notin running
           /\ place[d] # 0 /\ place[d] < place[c] => d \in over
    /\ running' = running \cup {c} /\ UNCHANGED <<place, over>>

Release(c) ==
    /\ c \in running /\ running' = running \ {c} /\ over' = over \cup {c}
    /\ UNCHANGED place

Next == \E c \in Calls : Ask(c) \/ Grant(c) \/ Release(c)

Spec == Init /\ [][Next]_vars

\* Each call that asked is done in the end.
Served == \A c \in Calls : place[c] # 0 ~> c \in over
=============================================================================
