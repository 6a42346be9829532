------------------------------ MODULE KeyedChain ------------------------------
(***************************************************************************)
(* The per-key promise chain the backend serialises work with: a session's *)
(* submissions (inSessionOrder), the preparations of one checkout          *)
(* (oneAtATime) and a provider's credential changes (createCredentialLocks).*)
(* A Map holds each key's tail promise; a call chains itself behind the    *)
(* tail it finds, becomes the tail, and deletes the entry when it is done, *)
(* if it is still the tail.                                                *)
(***************************************************************************)
EXTENDS Naturals

CONSTANTS Calls,   \* the calls ever made
          Keys,    \* the keys of the Map (sessions, checkouts, providers)
          None,    \* no promise: an absent Map entry
          KeyOf    \* the key each call is made for

ASSUME ChainAssumption == /\ KeyOf \in [Calls -> Keys]
                          /\ None \notin Calls

VARIABLES chains,  \* the Map: each key's tail, a call's promise or None
          before,  \* the tail each call found and chained itself behind
          pc,      \* where each call is
          ticket,  \* ghost: the order in which calls entered, 0 before
          entered  \* ghost: how many calls have entered

vars == <<chains, before, pc, ticket, entered>>

Steps == {"new", "waiting", "running", "settled", "cleaned"}

TypeOK == /\ chains \in [Keys -> Calls \cup {None}]
          /\ before \in [Calls -> Calls \cup {None}]
          /\ pc \in [Calls -> Steps]
          /\ ticket \in [Calls -> Nat]
          /\ entered \in Nat

Init == /\ chains = [k \in Keys |-> None]
        /\ before = [c \in Calls |-> None]
        /\ pc = [c \in Calls |-> "new"]
        /\ ticket = [c \in Calls |-> 0]
        /\ entered = 0

\* A call's promise is resolved: its work ended, well or not.
Settled(p) == pc[p] \in {"settled", "cleaned"}

\* Mutant: the call is not made the tail.
EnterUnchained(c) == /\ pc[c] = "new"
                     /\ before' = [before EXCEPT ![c] = chains[KeyOf[c]]]
                     /\ chains' = IF chains[KeyOf[c]] = None THEN [chains EXCEPT ![KeyOf[c]] = c] ELSE chains
                     /\ pc' = [pc EXCEPT ![c] = "waiting"]
                     /\ entered' = entered + 1
                     /\ ticket' = [ticket EXCEPT ![c] = entered + 1]

\* The call reads the tail and replaces it in one synchronous step.
Enter(c) == /\ pc[c] = "new"
            /\ before' = [before EXCEPT ![c] = chains[KeyOf[c]]]
            /\ chains' = [chains EXCEPT ![KeyOf[c]] = c]
            /\ pc' = [pc EXCEPT ![c] = "waiting"]
            /\ entered' = entered + 1
            /\ ticket' = [ticket EXCEPT ![c] = entered + 1]

\* The work starts once the promise it chained behind is resolved.
Start(c) == /\ pc[c] = "waiting"
            /\ before[c] # None => Settled(before[c])
            /\ pc' = [pc EXCEPT ![c] = "running"]
            /\ UNCHANGED <<chains, before, ticket, entered>>

\* Mutant: a call that fails rejects the tail that others chain behind.
FinishRejecting(c) == /\ pc[c] = "running"
                      /\ \E end \in {"settled", "rejected"} : pc' = [pc EXCEPT ![c] = end]
                      /\ UNCHANGED <<chains, before, ticket, entered>>

\* The work ends; a failure is the caller's and resolves the chain as well.
Finish(c) == /\ pc[c] = "running"
             /\ pc' = [pc EXCEPT ![c] = "settled"]
             /\ UNCHANGED <<chains, before, ticket, entered>>

\* Mutant: the Map entry is deleted whoever is the tail.
CleanAlways(c) == /\ pc[c] = "settled"
                  /\ pc' = [pc EXCEPT ![c] = "cleaned"]
                  /\ chains' = [chains EXCEPT ![KeyOf[c]] = None]
                  /\ UNCHANGED <<before, ticket, entered>>

\* A later microtask (the lock: the same step) deletes the Map entry, if this
\* call is still the tail.
Clean(c) == /\ pc[c] = "settled"
            /\ pc' = [pc EXCEPT ![c] = "cleaned"]
            /\ chains' = IF chains[KeyOf[c]] = c
                         THEN [chains EXCEPT ![KeyOf[c]] = None] ELSE chains
            /\ UNCHANGED <<before, ticket, entered>>

Step(c) == Start(c) \/ Finish(c) \/ Clean(c)

\* Every call was made and is over.
Done == (\A c \in Calls : pc[c] = "cleaned") /\ UNCHANGED vars

Next == (\E c \in Calls : Enter(c) \/ Step(c)) \/ Done

\* Microtasks run and the work of a call ends; whether a call is made is open.
Fairness == \A c \in Calls : WF_vars(Step(c))

Spec == Init /\ [][Next]_vars

FairSpec == Spec /\ Fairness
-----------------------------------------------------------------------------
SameKey(c, d) == KeyOf[c] = KeyOf[d]

Entered(c) == pc[c] # "new"

Begun(c) == pc[c] \in {"running", "settled", "cleaned"}

\* At most one call of a key runs at any time: two prompts are never admitted
\* to one session at once, git never runs twice in one checkout.
MutualExclusion ==
    \A c, d \in Calls : SameKey(c, d) /\ pc[c] = "running" /\ pc[d] = "running" => c = d

\* Calls of a key begin in the order they were made, each after every earlier
\* one is over, whatever entries were deleted in between.
InOrder ==
    \A c, d \in Calls :
        SameKey(c, d) /\ Entered(c) /\ Begun(d) /\ ticket[c] < ticket[d] => Settled(c)

\* The Map does not leak: a key whose calls are all over has no entry, and one
\* with a call in progress has its latest as the tail (what sessionBusy and a
\* wait read).
TailIsLatest ==
    \A k \in Keys :
        LET of == {c \in Calls : KeyOf[c] = k /\ Entered(c)} IN
        /\ (\A c \in of : pc[c] = "cleaned") => chains[k] = None
        /\ \A c \in of : ~Settled(c) =>
               /\ chains[k] # None
               /\ ticket[chains[k]] >= ticket[c]

\* The calls of a key that have it, and those that are over.
Running == {c \in Calls : pc[c] = "running"}

Over == {c \in Calls : Settled(c)}

Lock == INSTANCE FifoLock WITH place <- ticket, running <- Running, over <- Over

\* The chain is a first-come first-served lock of each key (inSessionOrder, oneAtATime,
\* createCredentialLocks): whatever entries it deletes, a call has its key alone, after
\* every earlier call of the key.
KeepsLock == Lock!Spec

\* And each call that was made is over in the end, whatever became of those before it.
ImplementsLock == KeepsLock /\ Lock!Served
=============================================================================
