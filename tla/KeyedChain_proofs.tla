-------------------------- MODULE KeyedChain_proofs --------------------------
(***************************************************************************)
(* The keyed promise chain runs a key's calls one at a time, in the order  *)
(* they were made, for any number of calls and keys.                       *)
(***************************************************************************)
EXTENDS KeyedChain, WellFoundedInduction, TLAPS

\* The tickets number the calls in the order they entered.
TicketsOK ==
    \A c \in Calls :
        /\ Entered(c) <=> ticket[c] > 0
        /\ ticket[c] <= entered
        /\ \A d \in Calls : Entered(c) /\ ticket[c] = ticket[d] => c = d

\* A call is chained behind an earlier call of its key, over before it begins.
BeforeOK ==
    \A c \in Calls : Entered(c) /\ before[c] # None =>
        /\ SameKey(before[c], c) /\ Entered(before[c])
        /\ ticket[before[c]] < ticket[c]
        /\ Begun(c) => Settled(before[c])

\* A key's entry is its latest call, not cleaned yet; without one, all are over.
ChainsOK ==
    \A k \in Keys :
        /\ chains[k] # None => /\ KeyOf[chains[k]] = k /\ Entered(chains[k])
                               /\ pc[chains[k]] # "cleaned"
        /\ \A c \in Calls : KeyOf[c] = k /\ Entered(c) =>
               IF chains[k] = None THEN Settled(c) ELSE ticket[c] <= ticket[chains[k]]

\* What a call does not wait for, directly or through its predecessors, is over.
WaitsForEarlier ==
    \A c, d \in Calls :
        SameKey(c, d) /\ Entered(c) /\ Entered(d) /\ ticket[c] < ticket[d] =>
            Settled(c) \/ (before[d] # None /\ ticket[c] <= ticket[before[d]])

IInv == TypeOK /\ TicketsOK /\ BeforeOK /\ ChainsOK /\ WaitsForEarlier /\ InOrder

\* Every state is well typed: the Map holds promises of calls or nothing.
THEOREM TypeCorrect == Spec => []TypeOK
<1> USE ChainAssumption
<1>1. Init => TypeOK
  BY DEF Init, TypeOK, Steps
<1>2. TypeOK /\ [Next]_vars => TypeOK'
  BY DEF TypeOK, Steps, Next, vars, Enter, Step, Start, Finish, Clean, Done
<1> QED BY <1>1, <1>2, PTL DEF Spec

LEMMA InitIInv == Init => IInv
  BY ChainAssumption DEF Init, IInv, TypeOK, Steps, TicketsOK, BeforeOK, ChainsOK,
     WaitsForEarlier, InOrder, SameKey, Entered, Begun, Settled

LEMMA EnterIInv == ASSUME NEW c \in Calls, IInv, Enter(c) PROVE IInv'
<1> USE ChainAssumption DEF ChainAssumption, Entered, Begun, Settled, SameKey
<1>1a. TypeOK
  BY DEF IInv
<1>1b. KeyOf[c] \in Keys
  OBVIOUS
<1>0. TypeOK'
  BY <1>1a, <1>1b DEF TypeOK, Steps, Enter
<1>1. TicketsOK'
  BY DEF IInv, TypeOK, Steps, Enter, TicketsOK
<1>2. BeforeOK'
  <2> SUFFICES ASSUME NEW d \in Calls, pc'[d] # "new", before'[d] # None
               PROVE /\ KeyOf[before'[d]] = KeyOf[d] /\ pc'[before'[d]] # "new"
                     /\ ticket'[before'[d]] < ticket'[d]
                     /\ pc'[d] \in {"running", "settled", "cleaned"} =>
                            pc'[before'[d]] \in {"settled", "cleaned"}
    BY DEF BeforeOK
  <2>1. CASE d = c
    BY <2>1, <1>1a, <1>1b DEF IInv, TypeOK, Steps, Enter, TicketsOK, ChainsOK
  <2>2. CASE d # c
    BY <2>2, <1>1a, <1>1b DEF IInv, TypeOK, Steps, Enter, BeforeOK
  <2> QED BY <2>1, <2>2
<1>3. ChainsOK'
  BY DEF IInv, TypeOK, Steps, Enter, TicketsOK, ChainsOK
<1>4. WaitsForEarlier'
  <2> SUFFICES ASSUME NEW e \in Calls, NEW d \in Calls, KeyOf[e] = KeyOf[d],
                      pc'[e] # "new", pc'[d] # "new", ticket'[e] < ticket'[d]
               PROVE pc'[e] \in {"settled", "cleaned"}
                       \/ (before'[d] # None /\ ticket'[e] <= ticket'[before'[d]])
    BY DEF WaitsForEarlier
  <2>1. CASE d = c
    BY <2>1, <1>1a, <1>1b DEF IInv, TypeOK, Steps, Enter, TicketsOK, ChainsOK
  <2>2. CASE d # c
    BY <2>2, <1>1a, <1>1b DEF IInv, TypeOK, Steps, Enter, TicketsOK, BeforeOK, WaitsForEarlier
  <2> QED BY <2>1, <2>2
<1>5. InOrder'
  BY DEF IInv, TypeOK, Steps, Enter, TicketsOK, InOrder
<1> QED BY <1>0, <1>1, <1>2, <1>3, <1>4, <1>5 DEF IInv

LEMMA StartIInv == ASSUME NEW c \in Calls, IInv, Start(c) PROVE IInv'
<1> USE ChainAssumption DEF ChainAssumption, Entered, Begun, Settled, SameKey
<1>0. TypeOK'
  BY DEF IInv, TypeOK, Steps, Start
<1>1. TicketsOK'
  BY DEF IInv, TypeOK, Steps, Start, TicketsOK
<1>2. BeforeOK'
  BY DEF IInv, TypeOK, Steps, Start, BeforeOK
<1>3. ChainsOK'
  BY DEF IInv, TypeOK, Steps, Start, ChainsOK
<1>4. WaitsForEarlier'
  BY DEF IInv, TypeOK, Steps, Start, WaitsForEarlier
<1>5. InOrder'
  <2> SUFFICES ASSUME NEW e \in Calls, KeyOf[e] = KeyOf[c], pc[e] # "new",
                      ticket[e] < ticket[c]
               PROVE pc[e] \in {"settled", "cleaned"}
    BY DEF IInv, TypeOK, Steps, Start, InOrder
  <2>1. CASE before[c] = None
    BY <2>1 DEF IInv, Start, WaitsForEarlier
  <2>2. CASE before[c] # None /\ ticket[e] = ticket[before[c]]
    BY <2>2 DEF IInv, TypeOK, Start, TicketsOK
  <2>3. CASE before[c] # None /\ ticket[e] < ticket[before[c]]
    BY <2>3 DEF IInv, TypeOK, Start, BeforeOK, InOrder
  <2>4. before[c] # None => pc[e] \in {"settled", "cleaned"} \/ ticket[e] <= ticket[before[c]]
    BY DEF IInv, Start, WaitsForEarlier
  <2>5. before[c] # None => ticket[before[c]] \in Nat /\ ticket[e] \in Nat
    BY DEF IInv, TypeOK
  <2> QED BY <2>1, <2>2, <2>3, <2>4, <2>5
<1> QED BY <1>0, <1>1, <1>2, <1>3, <1>4, <1>5 DEF IInv

LEMMA FinishIInv == ASSUME NEW c \in Calls, IInv, Finish(c) PROVE IInv'
<1> USE ChainAssumption DEF ChainAssumption, Entered, Begun, Settled, SameKey
<1>0. TypeOK'
  BY DEF IInv, TypeOK, Steps, Finish
<1>1. TicketsOK'
  BY DEF IInv, TypeOK, Steps, Finish, TicketsOK
<1>2. BeforeOK'
  BY DEF IInv, TypeOK, Steps, Finish, BeforeOK
<1>3. ChainsOK'
  BY DEF IInv, TypeOK, Steps, Finish, ChainsOK
<1>4. WaitsForEarlier'
  BY DEF IInv, TypeOK, Steps, Finish, WaitsForEarlier
<1>5. InOrder'
  BY DEF IInv, TypeOK, Steps, Finish, InOrder
<1> QED BY <1>0, <1>1, <1>2, <1>3, <1>4, <1>5 DEF IInv

LEMMA CleanIInv == ASSUME NEW c \in Calls, IInv, Clean(c) PROVE IInv'
<1> USE ChainAssumption DEF ChainAssumption, Entered, Begun, Settled, SameKey
<1>0. TypeOK'
  BY DEF IInv, TypeOK, Steps, Clean
<1>1. TicketsOK'
  BY DEF IInv, TypeOK, Steps, Clean, TicketsOK
<1>2. BeforeOK'
  BY DEF IInv, TypeOK, Steps, Clean, BeforeOK
<1>3. ChainsOK'
  <2>1. ASSUME chains[KeyOf[c]] = c, NEW d \in Calls, KeyOf[d] = KeyOf[c], pc[d] # "new"
        PROVE pc[d] \in {"settled", "cleaned"}
    \* Every other call of the key entered before the tail, which has begun.
    <3>1. KeyOf[c] \in Keys /\ c # None
      OBVIOUS
    <3>2. pc[c] = "settled" /\ ticket[d] <= ticket[c]
      BY <2>1, <3>1 DEF IInv, TypeOK, Clean, ChainsOK
    <3>3. ticket[d] = ticket[c] \/ ticket[d] < ticket[c]
      BY <3>2 DEF IInv, TypeOK
    <3>4. CASE ticket[d] = ticket[c]
      BY <2>1, <3>2, <3>4 DEF IInv, TicketsOK
    <3>5. CASE ticket[d] < ticket[c]
      BY <2>1, <3>2, <3>5 DEF IInv, InOrder
    <3> QED BY <3>3, <3>4, <3>5
  <2> QED BY <2>1 DEF IInv, TypeOK, Steps, Clean, ChainsOK
<1>4. WaitsForEarlier'
  BY DEF IInv, TypeOK, Steps, Clean, WaitsForEarlier
<1>5. InOrder'
  BY DEF IInv, TypeOK, Steps, Clean, InOrder
<1> QED BY <1>0, <1>1, <1>2, <1>3, <1>4, <1>5 DEF IInv

LEMMA NextIInv == IInv /\ [Next]_vars => IInv'
<1> SUFFICES ASSUME IInv, [Next]_vars PROVE IInv'
  OBVIOUS
<1>1. CASE UNCHANGED vars
  BY <1>1 DEF vars, IInv, TypeOK, TicketsOK, BeforeOK, ChainsOK, WaitsForEarlier, InOrder,
     SameKey, Entered, Begun, Settled
<1>2. ASSUME NEW c \in Calls, Enter(c) \/ Step(c) PROVE IInv'
  BY <1>2, EnterIInv, StartIInv, FinishIInv, CleanIInv DEF Step
<1> QED BY <1>1, <1>2 DEF Next, Done

LEMMA AlwaysIInv == Spec => []IInv
  BY InitIInv, NextIInv, PTL DEF Spec

\* A key's calls begin in the order they were made, each after the earlier ones.
THEOREM CallsInOrder == Spec => []InOrder
<1>1. IInv => InOrder
  BY DEF IInv
<1> QED BY <1>1, AlwaysIInv, PTL

\* No two calls of a key run at once.
THEOREM OneAtATime == Spec => []MutualExclusion
<1>1. IInv => MutualExclusion
  <2> SUFFICES ASSUME IInv, NEW c \in Calls, NEW d \in Calls, KeyOf[c] = KeyOf[d],
                      pc[c] = "running", pc[d] = "running"
               PROVE c = d
    BY DEF MutualExclusion, SameKey
  <2>1. ~(ticket[c] < ticket[d]) /\ ~(ticket[d] < ticket[c])
    BY DEF IInv, InOrder, SameKey, Entered, Begun, Settled
  <2>2. ticket[c] = ticket[d]
    BY <2>1 DEF IInv, TypeOK
  <2> QED BY <2>2 DEF IInv, TicketsOK, Entered
<1> QED BY <1>1, AlwaysIInv, PTL

\* A key's Map entry is its latest call while one is in progress, and is gone
\* once all are over.
THEOREM TailCorrect == Spec => []TailIsLatest
<1>1. IInv => TailIsLatest
  <2> SUFFICES ASSUME IInv, NEW k \in Keys
               PROVE LET of == {c \in Calls : KeyOf[c] = k /\ Entered(c)} IN
                     /\ (\A c \in of : pc[c] = "cleaned") => chains[k] = None
                     /\ \A c \in of : ~Settled(c) =>
                            /\ chains[k] # None
                            /\ ticket[chains[k]] >= ticket[c]
    BY DEF TailIsLatest
  <2>1. chains[k] # None => chains[k] \in Calls
    BY DEF IInv, TypeOK
  <2>2. \A c \in Calls : ticket[c] \in Nat
    BY DEF IInv, TypeOK
  <2> QED BY <2>1, <2>2 DEF IInv, ChainsOK, Settled
<1> QED BY <1>1, AlwaysIInv, PTL

\* A set of tickets that is not empty has a least one.
LEMMA LeastTicket ==
    ASSUME NEW T, T \subseteq Nat, T # {}
    PROVE  \E n \in T : \A m \in T : n <= m
<1>1. PICK n \in T : \A m \in T : ~(<<m, n>> \in OpToRel(<, Nat))
  BY NatLessThanWellFounded, WFMin
<1>2. ASSUME NEW m \in T PROVE n <= m
  <2>1. n \in Nat /\ m \in Nat
    OBVIOUS
  <2>2. ~(m < n)
    BY <1>1, <2>1 DEF OpToRel
  <2> QED BY <2>1, <2>2
<1> QED BY <1>1, <1>2

\* A call runs, or waits for nothing that is not over: its next step can be taken.
Ready(c) ==
    pc[c] = "running" \/ (pc[c] = "waiting" /\ (before[c] # None => Settled(before[c])))

\* The chain of a call's key is never stuck: up to a call that is not over there is one,
\* earlier or itself, that can go on.
NeverStuck ==
    \A c \in Calls : Entered(c) /\ ~Settled(c) =>
        \E d \in Calls : SameKey(c, d) /\ ticket[d] <= ticket[c] /\ Ready(d)

\* No call waits for one that waits for it, or for one that is over and does not say so,
\* whatever entries the chain deleted: of the calls of a key in progress the earliest can
\* go on (inSessionOrder, oneAtATime, createCredentialLocks).
THEOREM ChainNeverStuck == Spec => []NeverStuck
<1>1. IInv => NeverStuck
  <2> SUFFICES ASSUME IInv, NEW c \in Calls, Entered(c), ~Settled(c)
               PROVE \E d \in Calls : SameKey(c, d) /\ ticket[d] <= ticket[c] /\ Ready(d)
    BY DEF NeverStuck
  <2> DEFINE going == {d \in Calls : SameKey(c, d) /\ Entered(d) /\ ~Settled(d)}
             T == {ticket[d] : d \in going}
  <2>1. \A d \in Calls : ticket[d] \in Nat /\ pc[d] \in Steps /\ before[d] \in Calls \cup {None}
    BY DEF IInv, TypeOK
  <2>2. c \in going
    BY DEF SameKey
  <2>3. T \subseteq Nat /\ T # {}
    BY <2>1, <2>2
  <2>4. PICK d \in going : \A e \in going : ticket[d] <= ticket[e]
    <3>1. PICK n \in T : \A m \in T : n <= m
      BY <2>3, LeastTicket
    <3>2. PICK d \in going : ticket[d] = n
      OBVIOUS
    <3> QED BY <3>1, <3>2
  <2>5. SameKey(c, d) /\ Entered(d) /\ ~Settled(d) /\ ticket[d] <= ticket[c]
    BY <2>2, <2>4
  <2>6. before[d] # None => Settled(before[d])
    <3> SUFFICES ASSUME before[d] # None, ~Settled(before[d]) PROVE FALSE
      OBVIOUS
    <3>1. /\ before[d] \in Calls /\ SameKey(before[d], d) /\ Entered(before[d])
          /\ ticket[before[d]] < ticket[d]
      BY <2>1, <2>5 DEF IInv, BeforeOK
    <3>2. before[d] \in going
      BY <2>5, <3>1 DEF SameKey
    <3> QED BY <2>1, <2>4, <3>1, <3>2
  <2>7. Ready(d)
    BY <2>1, <2>5, <2>6 DEF Ready, Steps, Entered, Settled
  <2> QED BY <2>5, <2>7
<1> QED BY <1>1, AlwaysIInv, PTL

LEMMA AskStep == ASSUME NEW c \in Calls, IInv, Enter(c) PROVE Lock!Ask(c)
<1>1. UNCHANGED <<Running, Over>>
  BY DEF IInv, TypeOK, Steps, Enter, Running, Over, Settled
<1>2. ticket[c] = 0 /\ \A d \in Calls : ticket[d] < ticket'[c]
  BY DEF IInv, TypeOK, Steps, Enter, TicketsOK, Entered
<1>3. ticket' = [ticket EXCEPT ![c] = ticket'[c]]
  BY DEF IInv, TypeOK, Enter
<1> QED BY <1>1, <1>2, <1>3 DEF Lock!Ask

\* A call that begins has everyone before it over, and nobody after it began.
LEMMA GrantStep == ASSUME NEW c \in Calls, IInv, Start(c) PROVE Lock!Grant(c)
<1> USE DEF Entered, Begun, Settled, SameKey
<1>1. pc[c] = "waiting" /\ ticket[c] # 0 /\ c \notin Over
  BY DEF IInv, TypeOK, Start, TicketsOK, Over
<1>2. IInv'
  BY StartIInv
<1>3. pc'[c] = "running" /\ UNCHANGED ticket /\ Running' = Running \cup {c} /\ Over' = Over
  BY DEF IInv, TypeOK, Steps, Start, Running, Over
<1>4. ASSUME NEW d \in Calls, KeyOf[d] = KeyOf[c] PROVE d \notin Running
  <2>1. d # c => ticket[c] < ticket[d] \/ ticket[d] < ticket[c] \/ pc[d] = "new"
    BY <1>1 DEF IInv, TypeOK, TicketsOK
  <2>2. CASE ticket[c] < ticket[d]
    BY <1>1, <1>4, <2>2 DEF IInv, InOrder, Running
  <2>3. CASE ticket[d] < ticket[c]
    BY <1>2, <1>3, <1>4, <2>3 DEF IInv, TypeOK, Steps, Start, InOrder, Running
  <2> QED BY <1>1, <2>1, <2>2, <2>3 DEF Running
<1>5. ASSUME NEW d \in Calls, KeyOf[d] = KeyOf[c], ticket[d] # 0, ticket[d] < ticket[c]
      PROVE d \in Over
  BY <1>2, <1>3, <1>5 DEF IInv, TypeOK, Steps, Start, TicketsOK, InOrder, Over
<1> QED BY <1>1, <1>3, <1>4, <1>5 DEF Lock!Grant

LEMMA ReleaseStep == ASSUME NEW c \in Calls, IInv, Finish(c) PROVE Lock!Release(c)
  BY DEF IInv, TypeOK, Steps, Finish, Lock!Release, Running, Over, Settled

LEMMA CleanStep == ASSUME NEW c \in Calls, IInv, Clean(c) PROVE UNCHANGED Lock!vars
  BY DEF IInv, TypeOK, Steps, Clean, Lock!vars, Running, Over, Settled

\* The chain implements the lock: deleting a key's entry is a stuttering step of it.
THEOREM ChainKeepsLock == Spec => KeepsLock
<1>1. Init => Lock!Init
  BY DEF Init, Lock!Init, Running, Over, Settled
<1>2. IInv /\ [Next]_vars => [Lock!Next]_Lock!vars
  <2> SUFFICES ASSUME IInv, [Next]_vars PROVE [Lock!Next]_Lock!vars
    OBVIOUS
  <2>1. CASE UNCHANGED vars
    BY <2>1 DEF vars, Lock!vars, Running, Over, Settled
  <2>2. ASSUME NEW c \in Calls, Enter(c) \/ Step(c) PROVE [Lock!Next]_Lock!vars
    BY <2>2, AskStep, GrantStep, ReleaseStep, CleanStep DEF Step, Lock!Next
  <2> QED BY <2>1, <2>2 DEF Next, Done
<1> QED BY <1>1, <1>2, AlwaysIInv, PTL DEF Spec, KeepsLock, Lock!Spec
=============================================================================
