--------------------------- MODULE RpcPeer_proofs ---------------------------
(***************************************************************************)
(* What the ends of a connection may say of its calls, for any number of   *)
(* calls and any caps.                                                     *)
(***************************************************************************)
EXTENDS RpcPeer, FiniteSetTheorems, SequenceTheorems, TLAPS

Replied == {replies[i].call : i \in DOMAIN replies}

\* A call is in one place at a time: on its way, running, or its reply on its way.
PlaceInv ==
    /\ IsInjective(requests)
    /\ \A i, j \in DOMAIN replies : replies[i].call = replies[j].call => i = j
    /\ inbound \cap ToSet(requests) = {} /\ Replied \cap (inbound \cup ToSet(requests)) = {}

\* Only calls that were sent and are not answered are in one.
SentInv == \A c \in Outstanding : status[c] \in {"pending", "unknown"}

\* What was answered, or is to be, ran as the answer says.
RunsInv ==
    /\ \A c \in Calls :
           /\ status[c] \in {"new", "refused", "busy", "invalid"} => runs[c] = 0
           /\ status[c] \in {"value", "error"} => runs[c] = 1
    /\ \A c \in ToSet(requests) : runs[c] = 0
    /\ \A c \in inbound : runs[c] = 1
    /\ \A i \in DOMAIN replies :
           runs[replies[i].call] = IF replies[i].kind \in {"value", "error"} THEN 1 ELSE 0

\* An end that failed closed its socket.
ClosedInv == \A e \in Ends : ~open[e] => socket = "down"

\* On a link that is up nothing is lost: what is waited for, or would be dropped, comes.
LossInv ==
    open["caller"] /\ socket = "up" => \A c \in Of("pending") \cup ToSet(expired) : c \in Outstanding

\* The IDs kept are of calls given up, each once; and unless one was evicted, of all
\* those whose reply may come.
ExpiredInv ==
    /\ IsInjective(expired) /\ ToSet(expired) \subseteq Of("unknown")
    /\ open["caller"] /\ ~evicted => Outstanding \cap Of("unknown") \subseteq ToSet(expired)

\* The remote end is busy only with more calls than the caller may have pending.
BusyInv ==
    Of("busy") # {} \/ (\E i \in DOMAIN replies : replies[i].kind = "busy") => Of("unknown") # {}

AccusedInv == accused => evicted

IInv == /\ TypeOK /\ PlaceInv /\ SentInv /\ RunsInv /\ ClosedInv /\ LossInv /\ ExpiredInv
        /\ BusyInv /\ AccusedInv
-----------------------------------------------------------------------------
USE RpcAssumption

LEMMA TailFacts ==
    ASSUME NEW S, NEW s \in Seq(S), s # <<>>
    PROVE  /\ Head(s) = s[1] /\ Head(s) \in S /\ 1 \in DOMAIN s /\ Tail(s) \in Seq(S)
           /\ DOMAIN Tail(s) = 1..(Len(s) - 1) /\ DOMAIN s = 1..Len(s) /\ Len(s) \in Nat \ {0}
           /\ \A i \in DOMAIN Tail(s) : i + 1 \in DOMAIN s /\ i + 1 # 1 /\ Tail(s)[i] = s[i + 1]
           /\ \A i \in DOMAIN s : i = 1 \/ (i - 1 \in DOMAIN Tail(s) /\ Tail(s)[i - 1] = s[i])
  OBVIOUS

LEMMA AppendFacts ==
    ASSUME NEW S, NEW s \in Seq(S), NEW e \in S
    PROVE  /\ Append(s, e) \in Seq(S) /\ Len(s) \in Nat
           /\ DOMAIN s = 1..Len(s) /\ DOMAIN Append(s, e) = 1..(Len(s) + 1)
           /\ Append(s, e)[Len(s) + 1] = e
           /\ \A i \in DOMAIN s : Append(s, e)[i] = s[i]
  OBVIOUS

LEMMA ShiftDown ==
    ASSUME NEW n \in Nat, NEW k \in 1..n, NEW i \in k..(n - 1)
    PROVE  i - (k - 1) \in 1..(n - k) /\ ~(i <= k - 1)
  OBVIOUS

LEMMA RemoveAtFacts ==
    ASSUME NEW S, NEW s \in Seq(S), NEW k \in DOMAIN s
    PROVE  /\ RemoveAt(s, k) \in Seq(S) /\ Len(s) \in Nat /\ DOMAIN s = 1..Len(s)
           /\ DOMAIN RemoveAt(s, k) = 1..(Len(s) - 1) /\ Len(RemoveAt(s, k)) = Len(s) - 1
           /\ \A i \in 1..(Len(s) - 1) : RemoveAt(s, k)[i] = IF i < k THEN s[i] ELSE s[i + 1]
<1> DEFINE n == Len(s)  a == SubSeq(s, 1, k - 1)  b == SubSeq(s, k + 1, n)
<1>1. n \in Nat /\ DOMAIN s = 1..n /\ k \in 1..n /\ \A i \in 1..n : s[i] \in S
  OBVIOUS
<1>2. a \in Seq(S) /\ Len(a) = k - 1 /\ \A i \in 1..(k - 1) : a[i] = s[i]
  <2>1. \A i \in 1..(k - 1) : s[i] \in S
    BY <1>1
  <2> QED BY <1>1, <2>1, SubSeqProperties, SMTT(30)
<1>3. b \in Seq(S) /\ Len(b) = n - k /\ \A i \in 1..(n - k) : b[i] = s[k + i]
  <2>1. \A i \in (k + 1)..n : s[i] \in S
    BY <1>1
  <2> QED BY <1>1, <2>1, SubSeqProperties, SMTT(30)
<1> HIDE DEF a, b, n
<1>4. /\ a \o b \in Seq(S) /\ Len(a \o b) = Len(a) + Len(b)
      /\ \A i \in 1..(Len(a) + Len(b)) : (a \o b)[i] = IF i <= Len(a) THEN a[i] ELSE b[i - Len(a)]
  BY <1>2, <1>3, ConcatProperties
<1> DEFINE c == a \o b
<1> HIDE DEF c
<1>5. c \in Seq(S) /\ Len(c) = n - 1 /\ DOMAIN c = 1..(n - 1)
  <2>1. Len(a) + Len(b) = n - 1
    BY <1>1, <1>2, <1>3
  <2>2. c \in Seq(S) /\ Len(c) = n - 1
    BY <1>4, <2>1 DEF c
  <2> QED BY <2>2
<1>7. ASSUME NEW i \in 1..(n - 1) PROVE c[i] = IF i < k THEN s[i] ELSE s[i + 1]
  <2>4. /\ k \in Nat /\ n \in Nat /\ k >= 1 /\ k <= n /\ i \in 1..(Len(a) + Len(b))
        /\ Len(a) = k - 1 /\ Len(b) = n - k
    BY <1>1, <1>2, <1>3
  <2>5. c[i] = IF i <= k - 1 THEN a[i] ELSE b[i - (k - 1)]
    BY <1>4, <2>4 DEF c
  <2>1. CASE i < k
    <3>1. i <= k - 1 /\ i \in 1..(k - 1)
      BY <2>1, <2>4
    <3> QED BY <1>2, <2>1, <2>5, <3>1
  <2>2. CASE ~(i < k)
    <3>1. c[i] = b[i - (k - 1)] /\ i - (k - 1) \in 1..(n - k)
      <4>1. k \in 1..n /\ n \in Nat /\ i \in k..(n - 1)
        BY <2>2, <2>4
      <4>2. i - (k - 1) \in 1..(n - k) /\ ~(i <= k - 1)
        BY <4>1, ShiftDown
      <4> QED BY <2>5, <4>2
    <3>2. k + (i - (k - 1)) = i + 1
      BY <1>1
    <3>3. b[i - (k - 1)] = s[i + 1]
      BY <1>3, <3>1, <3>2
    <3> QED BY <2>2, <3>1, <3>3
  <2> QED BY <2>1, <2>2
<1>6. RemoveAt(s, k) = c
  BY DEF RemoveAt, a, b, c, n
<1> QED BY <1>1, <1>5, <1>6, <1>7 DEF n

\* The elements of an injective sequence after its head is taken.
LEMMA TailSet ==
    ASSUME NEW S, NEW s \in Seq(S), s # <<>>, IsInjective(s)
    PROVE  /\ ToSet(Tail(s)) = ToSet(s) \ {Head(s)} /\ Head(s) \in ToSet(s) /\ IsInjective(Tail(s))
<1> DEFINE t == Tail(s)
<1>1. /\ Head(s) = s[1] /\ DOMAIN t = 1..(Len(s) - 1) /\ DOMAIN s = 1..Len(s) /\ Len(s) \in Nat \ {0}
      /\ \A i \in DOMAIN t : t[i] = s[i + 1]
  BY TailFacts
<1> HIDE DEF t
<1>2. \A i, j \in DOMAIN s : s[i] = s[j] => i = j
  BY DEF IsInjective
<1>3. ToSet(t) \subseteq ToSet(s) \ {Head(s)}
  BY <1>1, <1>2 DEF ToSet
<1>4. ASSUME NEW i \in DOMAIN s, i # 1 PROVE s[i] \in ToSet(t)
  <2>1. i - 1 \in DOMAIN t /\ t[i - 1] = s[i]
    BY <1>1, <1>4
  <2> QED BY <2>1 DEF ToSet
<1>5. IsInjective(t)
  BY <1>1, <1>2 DEF IsInjective
<1>6. ToSet(s) \subseteq ToSet(t) \cup {Head(s)} /\ Head(s) \in ToSet(s)
  BY <1>1, <1>4 DEF ToSet
<1> QED BY <1>3, <1>5, <1>6 DEF t

LEMMA AppendSet ==
    ASSUME NEW S, NEW s \in Seq(S), NEW e \in S
    PROVE  /\ ToSet(Append(s, e)) = ToSet(s) \cup {e}
           /\ IsInjective(s) /\ e \notin ToSet(s) => IsInjective(Append(s, e))
  BY AppendFacts DEF ToSet, IsInjective

LEMMA RemoveAtSet ==
    ASSUME NEW S, NEW s \in Seq(S), NEW k \in DOMAIN s, IsInjective(s)
    PROVE  /\ ToSet(RemoveAt(s, k)) = ToSet(s) \ {s[k]} /\ IsInjective(RemoveAt(s, k))
<1> DEFINE t == RemoveAt(s, k)
<1>1. /\ DOMAIN t = 1..(Len(s) - 1) /\ DOMAIN s = 1..Len(s) /\ Len(s) \in Nat /\ k \in 1..Len(s)
      /\ \A i \in 1..(Len(s) - 1) : t[i] = IF i < k THEN s[i] ELSE s[i + 1]
  BY RemoveAtFacts
<1> HIDE DEF t
<1>2. \A i, j \in DOMAIN s : s[i] = s[j] => i = j
  BY DEF IsInjective
<1>3. ToSet(t) \subseteq ToSet(s) \ {s[k]}
  BY <1>1, <1>2 DEF ToSet
<1>4. ASSUME NEW i \in DOMAIN s, i # k PROVE s[i] \in ToSet(t)
  <2>1. CASE i < k
    BY <1>1, <2>1 DEF ToSet
  <2>2. CASE i > k
    <3>1. i - 1 \in DOMAIN t /\ t[i - 1] = s[i]
      BY <1>1, <2>2
    <3> QED BY <3>1 DEF ToSet
  <2> QED BY <1>1, <1>4, <2>1, <2>2
<1>5. ASSUME NEW i \in DOMAIN t, NEW j \in DOMAIN t, t[i] = t[j] PROVE i = j
  <2> DEFINE x == IF i < k THEN i ELSE i + 1  y == IF j < k THEN j ELSE j + 1
  <2>1. x \in DOMAIN s /\ t[i] = s[x]
    BY <1>1
  <2>2. y \in DOMAIN s /\ t[j] = s[y]
    BY <1>1
  <2>3. x = y
    BY <1>2, <1>5, <2>1, <2>2
  <2> QED BY <1>1, <2>3
<1>6. ToSet(s) \subseteq ToSet(t) \cup {s[k]}
  BY <1>1, <1>4 DEF ToSet
<1> QED BY <1>3, <1>5, <1>6 DEF IsInjective, t
-----------------------------------------------------------------------------
LEMMA CallSets ==
    ASSUME NEW S \in SUBSET Calls
    PROVE  /\ IsFiniteSet(S) /\ Cardinality(S) \in Nat
           /\ \A T \in SUBSET S : Cardinality(T) <= Cardinality(S)
           /\ \A c : Cardinality(S \cup {c}) <= Cardinality(S) + 1
<1>1. IsFiniteSet(Calls)
  BY FS_Interval DEF RpcAssumption, Calls
<1>2. IsFiniteSet(S) /\ Cardinality(S) \in Nat
  BY <1>1, FS_Subset, FS_CardinalityType
<1> QED BY <1>2, FS_Subset, FS_AddElement

\* What the steps of the wire do to the places a call may be in.
LEMMA RequestPut ==
    ASSUME IInv, NEW c \in Calls, c \notin Outstanding, requests' = Append(requests, c)
    PROVE  /\ requests' \in Seq(Calls) /\ ToSet(requests)' = ToSet(requests) \cup {c}
           /\ IsInjective(requests)'
  BY AppendSet DEF IInv, TypeOK, PlaceInv, Outstanding

LEMMA RequestTaken ==
    ASSUME IInv, requests # <<>>, requests' = Tail(requests)
    PROVE  /\ Head(requests) \in ToSet(requests) /\ Head(requests) \in Calls
           /\ requests' \in Seq(Calls) /\ ToSet(requests)' = ToSet(requests) \ {Head(requests)}
           /\ IsInjective(requests)'
  BY TailFacts, TailSet DEF IInv, TypeOK, PlaceInv

Reply == [call : Calls, kind : {"busy", "invalid", "value", "error"}]

LEMMA ReplyPut ==
    ASSUME IInv, NEW c \in Calls, c \notin Replied,
           NEW kind \in {"busy", "invalid", "value", "error"}, Answer(c, kind)
    PROVE  /\ replies' \in Seq(Reply)
           /\ Replied' = IF socket = "up" THEN Replied \cup {c} ELSE Replied
           /\ \A i, j \in DOMAIN replies' : replies'[i].call = replies'[j].call => i = j
           /\ \A i \in DOMAIN replies' :
                  \/ i \in DOMAIN replies /\ replies'[i] = replies[i]
                  \/ replies'[i] = [call |-> c, kind |-> kind]
<1> DEFINE r == [call |-> c, kind |-> kind]
<1>1. replies \in Seq(Reply) /\ r \in Reply /\ r.call = c
  BY DEF IInv, TypeOK, Reply
<1>2. CASE socket # "up"
  BY <1>1, <1>2 DEF Answer, IInv, PlaceInv, Replied
<1>3. CASE socket = "up"
  <2>1. replies' = Append(replies, r)
    BY <1>3 DEF Answer
  <2>2. /\ replies' \in Seq(Reply) /\ Len(replies) \in Nat /\ DOMAIN replies = 1..Len(replies)
        /\ DOMAIN replies' = 1..(Len(replies) + 1) /\ replies'[Len(replies) + 1] = r
        /\ \A i \in DOMAIN replies : replies'[i] = replies[i]
    BY <1>1, <2>1, AppendFacts
  <2> HIDE DEF r
  <2>3. Replied' = Replied \cup {c}
    BY <1>1, <2>2 DEF Replied
  <2>4. \A i \in DOMAIN replies' : i \in DOMAIN replies \/ i = Len(replies) + 1
    BY <2>2
  <2>5. \A i \in DOMAIN replies : replies[i].call # c
    BY DEF Replied
  <2>6. \A i, j \in DOMAIN replies' : replies'[i].call = replies'[j].call => i = j
    BY <1>1, <2>2, <2>4, <2>5 DEF IInv, PlaceInv
  <2> QED BY <1>3, <2>2, <2>3, <2>4, <2>6 DEF r
<1> QED BY <1>2, <1>3

LEMMA ReplyTaken ==
    ASSUME IInv, replies # <<>>, replies' = Tail(replies)
    PROVE  /\ Head(replies) \in Reply /\ Head(replies).call \in Replied
           /\ \E i \in DOMAIN replies : replies[i] = Head(replies)
           /\ replies' \in Seq(Reply) /\ Replied' = Replied \ {Head(replies).call}
           /\ \A i, j \in DOMAIN replies' : replies'[i].call = replies'[j].call => i = j
           /\ \A i \in DOMAIN replies' : \E j \in DOMAIN replies : replies'[i] = replies[j]
<1>1. replies \in Seq(Reply)
  BY DEF IInv, TypeOK, Reply
<1>2. /\ Head(replies) = replies[1] /\ Head(replies) \in Reply /\ 1 \in DOMAIN replies
      /\ replies' \in Seq(Reply) /\ DOMAIN replies' = 1..(Len(replies) - 1)
      /\ DOMAIN replies = 1..Len(replies) /\ Len(replies) \in Nat \ {0}
      /\ \A i \in DOMAIN replies' : i + 1 \in DOMAIN replies /\ i + 1 # 1 /\ replies'[i] = replies[i + 1]
      /\ \A i \in DOMAIN replies : i = 1 \/ (i - 1 \in DOMAIN replies' /\ replies'[i - 1] = replies[i])
  BY <1>1, TailFacts
<1>3. \A i, j \in DOMAIN replies : replies[i].call = replies[j].call => i = j
  BY DEF IInv, PlaceInv
<1>4. \A i, j \in DOMAIN replies' : replies'[i].call = replies'[j].call => i = j
  BY <1>2, <1>3
<1>5. Replied' \subseteq Replied \ {Head(replies).call}
  BY <1>2, <1>3 DEF Replied
<1>6. Replied \ {Head(replies).call} \subseteq Replied'
  BY <1>2 DEF Replied
<1>7. Head(replies).call \in Replied /\ \E i \in DOMAIN replies : replies[i] = Head(replies)
  BY <1>2 DEF Replied
<1>8. Replied' = Replied \ {Head(replies).call}
  BY <1>5, <1>6
<1>9. \A i \in DOMAIN replies' : \E j \in DOMAIN replies : replies'[i] = replies[j]
  BY <1>2
<1> QED BY <1>2, <1>4, <1>7, <1>8, <1>9
-----------------------------------------------------------------------------
LEMMA OutstandingCalls ==
    ASSUME IInv
    PROVE  /\ Outstanding = inbound \cup ToSet(requests) \cup Replied /\ Outstanding \subseteq Calls
           /\ \A c \in Outstanding : status[c] \in {"pending", "unknown"}
<1>1. ToSet(requests) \subseteq Calls
  BY DEF IInv, TypeOK, ToSet
<1>2. Replied \subseteq Calls
  <2>1. replies \in Seq(Reply)
    BY DEF IInv, TypeOK, Reply
  <2>2. \A i \in DOMAIN replies : replies[i] \in Reply
    BY <2>1
  <2> QED BY <2>2 DEF Replied, Reply
<1> QED BY <1>1, <1>2 DEF IInv, TypeOK, SentInv, Outstanding, Replied

LEMMA InitIInv == Init => IInv
<1> SUFFICES ASSUME Init PROVE IInv
  OBVIOUS
<1>1. Of("pending") = {} /\ Outstanding = {} /\ ToSet(requests) = {} /\ ToSet(expired) = {} /\ Replied = {}
  BY DEF Init, Of, Outstanding, ToSet, Replied
<1>2. evicted \in BOOLEAN /\ accused \in BOOLEAN /\ open \in [Ends -> BOOLEAN]
  BY Zenon DEF Init
<1>3. Cardinality(Of("pending")) <= MaxInFlight /\ Cardinality(inbound) <= MaxInFlight
  <2>1. Cardinality({}) = 0
    BY FS_EmptySet
  <2>2. inbound = {}
    BY DEF Init
  <2>3. 0 <= MaxInFlight
    BY DEF RpcAssumption
  <2> QED BY <1>1, <2>1, <2>2, <2>3
<1>4. TypeOK
  BY <1>2, <1>3 DEF Init, TypeOK, Outcomes, RpcAssumption
<1>5. PlaceInv /\ SentInv /\ RunsInv /\ ClosedInv /\ LossInv
  BY <1>1 DEF Init, PlaceInv, SentInv, RunsInv, ClosedInv, LossInv, IsInjective, Calls
<1>6. ExpiredInv /\ BusyInv /\ AccusedInv
  BY <1>1 DEF Init, ExpiredInv, BusyInv, AccusedInv, IsInjective, Of
<1> QED BY <1>4, <1>5, <1>6 DEF IInv

\* What the wire carries may be lost.
\* What the wire carries may be lost.
LEMMA WireLoss ==
    ASSUME IInv, requests' \in {requests, <<>>}, replies' \in {replies, <<>>}
    PROVE  /\ requests' \in Seq(Calls) /\ replies' \in Seq(Reply)
           /\ ToSet(requests)' \subseteq ToSet(requests) /\ IsInjective(requests)'
           /\ Replied' \subseteq Replied
           /\ \A i \in DOMAIN replies' : i \in DOMAIN replies /\ replies'[i] = replies[i]
<1>1. requests \in Seq(Calls) /\ replies \in Seq(Reply) /\ IsInjective(requests)
  BY DEF IInv, TypeOK, Reply, PlaceInv
<1>2. requests' \in Seq(Calls) /\ replies' \in Seq(Reply)
  <2>1. <<>> \in Seq(Calls) /\ <<>> \in Seq(Reply)
    BY EmptySeq
  <2> QED BY <1>1, <2>1
<1>3. ToSet(requests)' \subseteq ToSet(requests) /\ IsInjective(requests)'
  BY <1>1 DEF ToSet, IsInjective
<1>4. \A i \in DOMAIN replies' : i \in DOMAIN replies /\ replies'[i] = replies[i]
  OBVIOUS
<1> QED BY <1>2, <1>3, <1>4 DEF Replied

LEMMA FailIInv == ASSUME NEW e \in Ends, IInv, Fail(e),
           requests' \in {requests, <<>>}, replies' \in {replies, <<>>},
           UNCHANGED <<expired, inbound, runs, evicted, accused>>
    PROVE  IInv'
<1>1. /\ requests' \in Seq(Calls) /\ replies' \in Seq(Reply)
      /\ ToSet(requests)' \subseteq ToSet(requests) /\ IsInjective(requests)' /\ Replied' \subseteq Replied
      /\ \A i \in DOMAIN replies' : i \in DOMAIN replies /\ replies'[i] = replies[i]
  BY WireLoss
<1>2. /\ open' \in [Ends -> BOOLEAN] /\ socket' = "down" /\ UNCHANGED <<expired, inbound, runs, evicted, accused>>
      /\ \A f \in Ends : open'[f] => open[f]
  BY DEF Fail, IInv, TypeOK
<1>3. /\ status' \in [Calls -> Outcomes \cup {"new", "pending"}]
      /\ \A c \in Calls : status'[c] = status[c] \/ (status[c] = "pending" /\ status'[c] = "unknown" /\ ~open'["caller"])
  BY DEF Fail, Unknown, Outcomes, Ends, IInv, TypeOK
<1>4. Outstanding' = inbound' \cup ToSet(requests)' \cup Replied'
  BY DEF Outstanding, Replied
<1>5. /\ Outstanding = inbound \cup ToSet(requests) \cup Replied /\ Outstanding \subseteq Calls
      /\ \A d \in Outstanding : status[d] \in {"pending", "unknown"}
  BY OutstandingCalls
<1>6. TypeOK'
  <2>1. Of("pending")' \subseteq Of("pending")
    BY <1>1, <1>2, <1>3, <1>4, <1>5 DEF Of
  <2>2. Of("pending") \subseteq Calls /\ Cardinality(Of("pending")) <= MaxInFlight
    BY DEF IInv, TypeOK, Of
  <2>3. Cardinality(Of("pending")') <= MaxInFlight
    BY <2>1, <2>2, CallSets DEF RpcAssumption
  <2> QED BY <1>1, <1>2, <1>3, <1>4, <1>5, <2>3 DEF IInv, TypeOK, Outcomes, Reply
<1>7. PlaceInv'
  BY <1>1, <1>2, <1>3, <1>4, <1>5 DEF IInv, PlaceInv
<1>8. SentInv'
  BY <1>1, <1>2, <1>3, <1>4, <1>5 DEF IInv, TypeOK, SentInv, PlaceInv
<1>9. RunsInv'
  BY <1>1, <1>2, <1>3, <1>4, <1>5 DEF IInv, TypeOK, RunsInv, SentInv, PlaceInv
<1>10. ClosedInv'
  BY <1>1, <1>2, <1>3, <1>4, <1>5 DEF IInv, TypeOK, ClosedInv, Ends
<1>11. LossInv'
  BY <1>1, <1>2, <1>3, <1>4, <1>5 DEF IInv, TypeOK, LossInv, ClosedInv, ExpiredInv, Of, Ends
<1>12. ExpiredInv'
  BY <1>1, <1>2, <1>3, <1>4, <1>5 DEF IInv, TypeOK, ExpiredInv, SentInv, Of, Ends
<1>13. BusyInv'
  BY <1>1, <1>2, <1>3, <1>4, <1>5 DEF IInv, TypeOK, BusyInv, Of
<1>14. AccusedInv'
  BY <1>1, <1>2, <1>3, <1>4, <1>5 DEF IInv, AccusedInv, ExpiredInv
<1> QED BY <1>6, <1>7, <1>8, <1>9, <1>10, <1>11, <1>12, <1>13, <1>14 DEF IInv

LEMMA BreaksIInv == ASSUME IInv, Breaks
    PROVE  IInv'
<1>1. /\ requests' \in Seq(Calls) /\ replies' \in Seq(Reply)
      /\ ToSet(requests)' \subseteq ToSet(requests) /\ IsInjective(requests)' /\ Replied' \subseteq Replied
      /\ \A i \in DOMAIN replies' : i \in DOMAIN replies /\ replies'[i] = replies[i]
  BY WireLoss DEF Breaks
<1>2. socket' \in {"silent", "down"} /\ socket = "up" /\ UNCHANGED <<open, status, expired, inbound, runs, evicted, accused>>
  BY DEF Breaks
<1>3. Outstanding' = inbound' \cup ToSet(requests)' \cup Replied'
  BY DEF Outstanding, Replied
<1>4. /\ Outstanding = inbound \cup ToSet(requests) \cup Replied /\ Outstanding \subseteq Calls
      /\ \A d \in Outstanding : status[d] \in {"pending", "unknown"}
  BY OutstandingCalls
<1>5. TypeOK'
  <2>1. Of("pending")' \subseteq Of("pending")
    BY <1>1, <1>2, <1>3, <1>4 DEF Of
  <2>2. Of("pending") \subseteq Calls /\ Cardinality(Of("pending")) <= MaxInFlight
    BY DEF IInv, TypeOK, Of
  <2>3. Cardinality(Of("pending")') <= MaxInFlight
    BY <2>1, <2>2, CallSets DEF RpcAssumption
  <2> QED BY <1>1, <1>2, <1>3, <1>4, <2>3 DEF IInv, TypeOK, Outcomes, Reply
<1>6. PlaceInv'
  BY <1>1, <1>2, <1>3, <1>4 DEF IInv, PlaceInv
<1>7. SentInv'
  BY <1>1, <1>2, <1>3, <1>4 DEF IInv, TypeOK, SentInv, PlaceInv
<1>8. RunsInv'
  BY <1>1, <1>2, <1>3, <1>4 DEF IInv, TypeOK, RunsInv, SentInv, PlaceInv
<1>9. ClosedInv'
  BY <1>1, <1>2, <1>3, <1>4 DEF IInv, TypeOK, ClosedInv, Ends
<1>10. LossInv'
  BY <1>1, <1>2, <1>3, <1>4 DEF IInv, TypeOK, LossInv, ClosedInv, ExpiredInv, Of, Ends
<1>11. ExpiredInv'
  BY <1>1, <1>2, <1>3, <1>4 DEF IInv, TypeOK, ExpiredInv, SentInv, Of, Ends
<1>12. BusyInv'
  BY <1>1, <1>2, <1>3, <1>4 DEF IInv, TypeOK, BusyInv, Of
<1>13. AccusedInv'
  BY <1>1, <1>2, <1>3, <1>4 DEF IInv, AccusedInv, ExpiredInv
<1> QED BY <1>5, <1>6, <1>7, <1>8, <1>9, <1>10, <1>11, <1>12, <1>13 DEF IInv

LEMMA GiveUpIInv == ASSUME NEW c \in Calls, IInv, GiveUp(c)
    PROVE  IInv'
<1>1. UNCHANGED <<open, socket, requests, replies, inbound, runs, accused>> /\ status[c] = "pending"
  BY DEF GiveUp, wire
<1>2. UNCHANGED ToSet(requests) /\ UNCHANGED Replied
  BY <1>1 DEF Replied
<1>3. status' = [status EXCEPT ![c] = "unknown"] /\ status' \in [Calls -> Outcomes \cup {"new", "pending"}]
  BY DEF GiveUp, Ended, IInv, TypeOK, Outcomes
<1>4. c \notin ToSet(expired) /\ expired \in Seq(Calls) /\ IsInjective(expired)
  BY <1>1 DEF IInv, TypeOK, ExpiredInv, Of
<1>5. /\ expired' \in Seq(Calls) /\ Len(expired') <= MaxExpired /\ IsInjective(expired)' /\ evicted' \in BOOLEAN /\ (evicted => evicted')
      /\ \/ ToSet(expired)' = ToSet(expired) \cup {c} /\ UNCHANGED evicted
         \/ evicted' = TRUE /\ ToSet(expired)' \subseteq ToSet(expired) \cup {c}
  <2>1. CASE Len(expired) = MaxExpired
    <3>1. expired # <<>>
      BY <2>1 DEF RpcAssumption
    <3>2. /\ Tail(expired) \in Seq(Calls) /\ IsInjective(Tail(expired))
          /\ ToSet(Tail(expired)) \subseteq ToSet(expired) /\ Len(Tail(expired)) = MaxExpired - 1
      BY <1>4, <2>1, <3>1, TailSet, TailFacts
    <3>3. expired' = Append(Tail(expired), c) /\ evicted' = TRUE
      BY <2>1 DEF GiveUp
    <3> DEFINE u == Tail(expired)
    <3> HIDE DEF u
    <3>4. expired' = Append(u, c) /\ u \in Seq(Calls) /\ IsInjective(u) /\ ToSet(u) \subseteq ToSet(expired)
          /\ Len(u) = MaxExpired - 1 /\ c \notin ToSet(u)
      BY <1>4, <3>2, <3>3 DEF u
    <3>5. Append(u, c) \in Seq(Calls) /\ IsInjective(Append(u, c)) /\ ToSet(Append(u, c)) = ToSet(u) \cup {c}
          /\ Len(Append(u, c)) = Len(u) + 1
      BY <3>4, AppendSet
    <3>6. Len(Append(u, c)) <= MaxExpired
      BY <3>4, <3>5 DEF RpcAssumption
    <3> QED BY <3>3, <3>4, <3>5, <3>6
  <2>2. CASE Len(expired) # MaxExpired
    <3>1. expired' = Append(expired, c) /\ UNCHANGED evicted
      BY <2>2 DEF GiveUp
    <3>2. Len(expired) < MaxExpired
      BY <1>4, <2>2 DEF IInv, TypeOK, RpcAssumption
    <3> QED BY <1>4, <3>1, <3>2, AppendSet, AppendFacts DEF RpcAssumption, IInv, TypeOK
  <2> QED BY <2>1, <2>2
<1>6. Outstanding' = inbound' \cup ToSet(requests)' \cup Replied'
  BY DEF Outstanding, Replied
<1>7. /\ Outstanding = inbound \cup ToSet(requests) \cup Replied /\ Outstanding \subseteq Calls
      /\ \A d \in Outstanding : status[d] \in {"pending", "unknown"}
  BY OutstandingCalls
<1>8. TypeOK'
  <2>1. Of("pending")' \subseteq Of("pending")
    BY <1>1, <1>2, <1>3, <1>4, <1>5, <1>6, <1>7 DEF Of
  <2>2. Of("pending") \subseteq Calls /\ Cardinality(Of("pending")) <= MaxInFlight
    BY DEF IInv, TypeOK, Of
  <2>3. Cardinality(Of("pending")') <= MaxInFlight
    BY <2>1, <2>2, CallSets DEF RpcAssumption
  <2> QED BY <1>1, <1>2, <1>3, <1>4, <1>5, <1>6, <1>7, <2>3 DEF IInv, TypeOK, Outcomes
<1>9. PlaceInv'
  BY <1>1, <1>2, <1>3, <1>4, <1>5, <1>6, <1>7 DEF IInv, PlaceInv
<1>10. SentInv'
  BY <1>1, <1>2, <1>3, <1>4, <1>5, <1>6, <1>7 DEF IInv, TypeOK, SentInv, PlaceInv
<1>11. RunsInv'
  BY <1>1, <1>2, <1>3, <1>4, <1>5, <1>6, <1>7 DEF IInv, TypeOK, RunsInv, SentInv, PlaceInv
<1>12. ClosedInv'
  BY <1>1, <1>2, <1>3, <1>4, <1>5, <1>6, <1>7 DEF IInv, TypeOK, ClosedInv, Ends
<1>13. LossInv'
  BY <1>1, <1>2, <1>3, <1>4, <1>5, <1>6, <1>7 DEF IInv, TypeOK, LossInv, ClosedInv, ExpiredInv, Of, Ends
<1>14. ExpiredInv'
  BY <1>1, <1>2, <1>3, <1>4, <1>5, <1>6, <1>7 DEF IInv, TypeOK, ExpiredInv, SentInv, Of, Ends
<1>15. BusyInv'
  BY <1>1, <1>2, <1>3, <1>4, <1>5, <1>6, <1>7 DEF IInv, TypeOK, BusyInv, Of
<1>16. AccusedInv'
  BY <1>1, <1>5, Zenon DEF IInv, AccusedInv
<1> QED BY <1>8, <1>9, <1>10, <1>11, <1>12, <1>13, <1>14, <1>15, <1>16 DEF IInv

LEMMA HandlerEndsIInv == ASSUME NEW c \in Calls, IInv, HandlerEnds(c)
    PROVE  IInv'
<1>1. /\ UNCHANGED <<open, socket, requests, status, expired, runs, evicted, accused>> /\ UNCHANGED ToSet(requests)
      /\ c \in inbound /\ inbound' = inbound \ {c}
  BY DEF HandlerEnds
<1>2. c \notin Replied /\ runs[c] = 1
  BY <1>1 DEF IInv, PlaceInv, RunsInv
<1>3. /\ replies' \in Seq(Reply)
      /\ Replied' \subseteq Replied \cup {c} /\ Replied \subseteq Replied' /\ (socket = "up" => c \in Replied')
      /\ \A i, j \in DOMAIN replies' : replies'[i].call = replies'[j].call => i = j
      /\ \A i \in DOMAIN replies' :
             \/ i \in DOMAIN replies /\ replies'[i] = replies[i]
             \/ replies'[i].call = c /\ replies'[i].kind \in {"value", "error"}
  <2>1. CASE open["remote"]
    <3>1. PICK kind \in {"value", "error"} : Answer(c, kind)
      BY <2>1 DEF HandlerEnds
    <3> QED BY <1>2, <3>1, ReplyPut
  <2>2. CASE ~open["remote"]
    <3>1. UNCHANGED replies /\ socket = "down"
      BY <2>2 DEF HandlerEnds, IInv, ClosedInv, Ends
    <3> QED BY <1>2, <3>1 DEF IInv, TypeOK, PlaceInv, Replied, Reply
  <2> QED BY <2>1, <2>2
<1>4. inbound' \subseteq Calls /\ Cardinality(inbound') <= MaxInFlight
  <2>1. inbound \subseteq Calls /\ Cardinality(inbound) <= MaxInFlight
    BY DEF IInv, TypeOK
  <2> QED BY <1>1, <2>1, CallSets DEF RpcAssumption
<1>5. Outstanding' = inbound' \cup ToSet(requests)' \cup Replied'
  BY DEF Outstanding, Replied
<1>6. /\ Outstanding = inbound \cup ToSet(requests) \cup Replied /\ Outstanding \subseteq Calls
      /\ \A d \in Outstanding : status[d] \in {"pending", "unknown"}
  BY OutstandingCalls
<1>7. TypeOK'
  <2>1. Of("pending")' \subseteq Of("pending")
    BY <1>1, <1>2, <1>3, <1>4, <1>5, <1>6 DEF Of
  <2>2. Of("pending") \subseteq Calls /\ Cardinality(Of("pending")) <= MaxInFlight
    BY DEF IInv, TypeOK, Of
  <2>3. Cardinality(Of("pending")') <= MaxInFlight
    BY <2>1, <2>2, CallSets DEF RpcAssumption
  <2> QED BY <1>1, <1>2, <1>3, <1>4, <1>5, <1>6, <2>3 DEF IInv, TypeOK, Outcomes, Reply
<1>8. PlaceInv'
  BY <1>1, <1>2, <1>3, <1>4, <1>5, <1>6 DEF IInv, PlaceInv
<1>9. SentInv'
  BY <1>1, <1>2, <1>3, <1>4, <1>5, <1>6 DEF IInv, TypeOK, SentInv, PlaceInv
<1>10. RunsInv'
  BY <1>1, <1>2, <1>3, <1>4, <1>5, <1>6 DEF IInv, TypeOK, RunsInv, SentInv, PlaceInv
<1>11. ClosedInv'
  BY <1>1, <1>2, <1>3, <1>4, <1>5, <1>6 DEF IInv, TypeOK, ClosedInv, Ends
<1>12. LossInv'
  BY <1>1, <1>2, <1>3, <1>4, <1>5, <1>6 DEF IInv, TypeOK, LossInv, ClosedInv, ExpiredInv, Of, Ends
<1>13. ExpiredInv'
  BY <1>1, <1>2, <1>3, <1>4, <1>5, <1>6 DEF IInv, TypeOK, ExpiredInv, SentInv, Of, Ends
<1>14. BusyInv'
  BY <1>1, <1>2, <1>3, <1>4, <1>5, <1>6 DEF IInv, TypeOK, BusyInv, Of
<1>15. AccusedInv'
  BY <1>1, <1>2, <1>3, <1>4, <1>5, <1>6 DEF IInv, AccusedInv, ExpiredInv
<1> QED BY <1>7, <1>8, <1>9, <1>10, <1>11, <1>12, <1>13, <1>14, <1>15 DEF IInv

LEMMA CallRefused == ASSUME NEW c \in Calls, IInv, status[c] = "new", Ended(c, "refused"),
           UNCHANGED <<open, socket, requests, replies, expired, inbound, runs, evicted, accused>>
    PROVE  IInv'
<1>1. status[c] = "new" /\ c \notin Outstanding /\ c \notin ToSet(expired) /\ UNCHANGED Replied
  BY OutstandingCalls DEF IInv, ExpiredInv, Of, Replied
<1>2. UNCHANGED ToSet(requests)
  OBVIOUS
<1>3. status' = [status EXCEPT ![c] = "refused"] /\ status' \in [Calls -> Outcomes \cup {"new", "pending"}]
  BY DEF Ended, IInv, TypeOK, Outcomes
<1>4. Outstanding' = inbound' \cup ToSet(requests)' \cup Replied'
  BY DEF Outstanding, Replied
<1>5. /\ Outstanding = inbound \cup ToSet(requests) \cup Replied /\ Outstanding \subseteq Calls
      /\ \A d \in Outstanding : status[d] \in {"pending", "unknown"}
  BY OutstandingCalls
<1>6. TypeOK'
  <2>1. Of("pending")' \subseteq Of("pending")
    BY <1>1, <1>2, <1>3, <1>4, <1>5 DEF Of
  <2>2. Of("pending") \subseteq Calls /\ Cardinality(Of("pending")) <= MaxInFlight
    BY DEF IInv, TypeOK, Of
  <2>3. Cardinality(Of("pending")') <= MaxInFlight
    BY <2>1, <2>2, CallSets DEF RpcAssumption
  <2> QED BY <1>1, <1>2, <1>3, <1>4, <1>5, <2>3 DEF IInv, TypeOK, Outcomes
<1>7. PlaceInv'
  BY <1>1, <1>2, <1>3, <1>4, <1>5 DEF IInv, PlaceInv
<1>8. SentInv'
  BY <1>1, <1>2, <1>3, <1>4, <1>5 DEF IInv, TypeOK, SentInv, PlaceInv
<1>9. RunsInv'
  BY <1>1, <1>2, <1>3, <1>4, <1>5 DEF IInv, TypeOK, RunsInv, SentInv, PlaceInv
<1>10. ClosedInv'
  BY <1>1, <1>2, <1>3, <1>4, <1>5 DEF IInv, TypeOK, ClosedInv, Ends
<1>11. LossInv'
  BY <1>1, <1>2, <1>3, <1>4, <1>5 DEF IInv, TypeOK, LossInv, ClosedInv, ExpiredInv, Of, Ends
<1>12. ExpiredInv'
  BY <1>1, <1>2, <1>3, <1>4, <1>5 DEF IInv, TypeOK, ExpiredInv, SentInv, Of, Ends
<1>13. BusyInv'
  BY <1>1, <1>2, <1>3, <1>4, <1>5 DEF IInv, TypeOK, BusyInv, Of
<1>14. AccusedInv'
  BY <1>1, <1>2, <1>3, <1>4, <1>5 DEF IInv, AccusedInv, ExpiredInv
<1> QED BY <1>6, <1>7, <1>8, <1>9, <1>10, <1>11, <1>12, <1>13, <1>14 DEF IInv

LEMMA CallDown == ASSUME NEW c \in Calls, IInv, status[c] = "new", socket = "down",
           open' = [open EXCEPT !["caller"] = FALSE], status' = [Unknown EXCEPT ![c] = "unknown"],
           UNCHANGED <<socket, requests, replies, expired, inbound, runs, evicted, accused>>
    PROVE  IInv'
<1>1. status[c] = "new" /\ c \notin Outstanding /\ c \notin ToSet(expired) /\ UNCHANGED Replied
  BY OutstandingCalls DEF IInv, ExpiredInv, Of, Replied
<1>2. UNCHANGED ToSet(requests)
  OBVIOUS
<1>3. /\ status' \in [Calls -> Outcomes \cup {"new", "pending"}]
      /\ \A d \in Calls :
             \/ status'[d] = status[d]
             \/ status'[d] = "unknown" /\ (status[d] = "pending" \/ (d = c /\ status[d] = "new"))
  BY DEF Unknown, IInv, TypeOK, Outcomes
<1>4. open' \in [Ends -> BOOLEAN] /\ ~open'["caller"]
  BY DEF IInv, TypeOK, Ends
<1>5. Outstanding' = inbound' \cup ToSet(requests)' \cup Replied'
  BY DEF Outstanding, Replied
<1>6. /\ Outstanding = inbound \cup ToSet(requests) \cup Replied /\ Outstanding \subseteq Calls
      /\ \A d \in Outstanding : status[d] \in {"pending", "unknown"}
  BY OutstandingCalls
<1>7. TypeOK'
  <2>1. Of("pending")' \subseteq Of("pending")
    BY <1>1, <1>2, <1>3, <1>4, <1>5, <1>6 DEF Of
  <2>2. Of("pending") \subseteq Calls /\ Cardinality(Of("pending")) <= MaxInFlight
    BY DEF IInv, TypeOK, Of
  <2>3. Cardinality(Of("pending")') <= MaxInFlight
    BY <2>1, <2>2, CallSets DEF RpcAssumption
  <2> QED BY <1>1, <1>2, <1>3, <1>4, <1>5, <1>6, <2>3 DEF IInv, TypeOK, Outcomes
<1>8. PlaceInv'
  BY <1>1, <1>2, <1>3, <1>4, <1>5, <1>6 DEF IInv, PlaceInv
<1>9. SentInv'
  BY <1>1, <1>2, <1>3, <1>4, <1>5, <1>6 DEF IInv, TypeOK, SentInv, PlaceInv
<1>10. RunsInv'
  BY <1>1, <1>2, <1>3, <1>4, <1>5, <1>6 DEF IInv, TypeOK, RunsInv, SentInv, PlaceInv
<1>11. ClosedInv'
  BY <1>1, <1>2, <1>3, <1>4, <1>5, <1>6 DEF IInv, TypeOK, ClosedInv, Ends
<1>12. LossInv'
  BY <1>1, <1>2, <1>3, <1>4, <1>5, <1>6 DEF IInv, TypeOK, LossInv, ClosedInv, ExpiredInv, Of, Ends
<1>13. ExpiredInv'
  BY <1>1, <1>2, <1>3, <1>4, <1>5, <1>6 DEF IInv, TypeOK, ExpiredInv, SentInv, Of, Ends
<1>14. BusyInv'
  BY <1>1, <1>2, <1>3, <1>4, <1>5, <1>6 DEF IInv, TypeOK, BusyInv, Of
<1>15. AccusedInv'
  BY <1>1, <1>2, <1>3, <1>4, <1>5, <1>6 DEF IInv, AccusedInv, ExpiredInv
<1> QED BY <1>7, <1>8, <1>9, <1>10, <1>11, <1>12, <1>13, <1>14, <1>15 DEF IInv

LEMMA CallSent == ASSUME NEW c \in Calls, IInv, status[c] = "new", Ended(c, "pending"),
           Cardinality(Of("pending")) < MaxInFlight,
           requests' = IF socket = "up" THEN Append(requests, c) ELSE requests,
           UNCHANGED <<open, socket, replies, expired, inbound, runs, evicted, accused>>
    PROVE  IInv'
<1>1. status[c] = "new" /\ c \notin Outstanding /\ c \notin ToSet(expired) /\ UNCHANGED Replied
  BY OutstandingCalls DEF IInv, ExpiredInv, Of, Replied
<1>2. status' = [status EXCEPT ![c] = "pending"] /\ status' \in [Calls -> Outcomes \cup {"new", "pending"}]
  BY DEF Ended, IInv, TypeOK, Outcomes
<1>3. /\ requests' \in Seq(Calls) /\ IsInjective(requests)' /\ ToSet(requests)' \subseteq ToSet(requests) \cup {c}
      /\ ToSet(requests) \subseteq ToSet(requests)' /\ (socket = "up" => c \in ToSet(requests)')
  <2>1. CASE socket = "up"
    BY <1>1, <2>1, RequestPut
  <2>2. CASE socket # "up"
    BY <2>2 DEF IInv, TypeOK, PlaceInv
  <2> QED BY <2>1, <2>2
<1>4. runs[c] = 0
  BY <1>1 DEF IInv, RunsInv
<1>5. Outstanding' = inbound' \cup ToSet(requests)' \cup Replied'
  BY DEF Outstanding, Replied
<1>6. /\ Outstanding = inbound \cup ToSet(requests) \cup Replied /\ Outstanding \subseteq Calls
      /\ \A d \in Outstanding : status[d] \in {"pending", "unknown"}
  BY OutstandingCalls
<1>7. TypeOK'
  <2>1. Of("pending")' = Of("pending") \cup {c}
    BY <1>1, <1>2, <1>3, <1>4, <1>5, <1>6 DEF Of, IInv, TypeOK
  <2>2. Of("pending") \subseteq Calls /\ Cardinality(Of("pending")) <= MaxInFlight
    BY DEF IInv, TypeOK, Of
  <2>3. Cardinality(Of("pending")') <= MaxInFlight
    <3>1. Cardinality(Of("pending")) < MaxInFlight
      OBVIOUS
    <3>2. Cardinality(Of("pending") \cup {c}) <= Cardinality(Of("pending")) + 1
      BY <2>2, CallSets
    <3>3. Cardinality(Of("pending")) \in Nat /\ Cardinality(Of("pending") \cup {c}) \in Nat
      BY <2>2, CallSets
    <3>4. Cardinality(Of("pending") \cup {c}) <= MaxInFlight
      BY <3>1, <3>2, <3>3 DEF RpcAssumption
    <3> QED BY <2>1, <3>4
  <2> QED BY <1>1, <1>2, <1>3, <1>4, <1>5, <1>6, <2>3 DEF IInv, TypeOK, Outcomes
<1>8. PlaceInv'
  BY <1>1, <1>2, <1>3, <1>4, <1>5, <1>6 DEF IInv, PlaceInv
<1>9. SentInv'
  BY <1>1, <1>2, <1>3, <1>4, <1>5, <1>6 DEF IInv, TypeOK, SentInv, PlaceInv
<1>10. RunsInv'
  BY <1>1, <1>2, <1>3, <1>4, <1>5, <1>6 DEF IInv, TypeOK, RunsInv, SentInv, PlaceInv
<1>11. ClosedInv'
  BY <1>1, <1>2, <1>3, <1>4, <1>5, <1>6 DEF IInv, TypeOK, ClosedInv, Ends
<1>12. LossInv'
  BY <1>1, <1>2, <1>3, <1>4, <1>5, <1>6 DEF IInv, TypeOK, LossInv, ClosedInv, ExpiredInv, Of, Ends
<1>13. ExpiredInv'
  BY <1>1, <1>2, <1>3, <1>4, <1>5, <1>6 DEF IInv, TypeOK, ExpiredInv, SentInv, Of, Ends
<1>14. BusyInv'
  BY <1>1, <1>2, <1>3, <1>4, <1>5, <1>6 DEF IInv, TypeOK, BusyInv, Of
<1>15. AccusedInv'
  BY <1>1, <1>2, <1>3, <1>4, <1>5, <1>6 DEF IInv, AccusedInv, ExpiredInv
<1> QED BY <1>7, <1>8, <1>9, <1>10, <1>11, <1>12, <1>13, <1>14, <1>15 DEF IInv

LEMMA CallIInv == ASSUME NEW c \in Calls, IInv, Call(c) PROVE IInv'
<1>1. status[c] = "new"
  BY DEF Call, IsNext
<1>2. CASE Ended(c, "refused") /\ UNCHANGED <<open, socket, requests>>
  BY <1>1, <1>2, CallRefused DEF Call
<1>3. CASE /\ open["caller"] /\ Cardinality(Of("pending")) < MaxInFlight /\ socket = "down"
           /\ ~(Ended(c, "refused") /\ UNCHANGED <<open, socket, requests>>)
  BY <1>1, <1>3, CallDown DEF Call
<1>4. CASE /\ open["caller"] /\ Cardinality(Of("pending")) < MaxInFlight /\ socket # "down"
           /\ ~(Ended(c, "refused") /\ UNCHANGED <<open, socket, requests>>)
  BY <1>1, <1>4, CallSent DEF Call
<1> QED BY <1>2, <1>3, <1>4 DEF Call

LEMMA ReceiveClosed == ASSUME NEW c, IInv, requests # <<>>, c = Head(requests), requests' = Tail(requests),
           UNCHANGED <<open, socket, status, expired, evicted, accused>>,
           ~open["remote"], UNCHANGED <<replies, inbound, runs>>
    PROVE  IInv'
<1>1. /\ c \in Calls /\ requests' \in Seq(Calls) /\ IsInjective(requests)'
      /\ c \in ToSet(requests) /\ ToSet(requests)' = ToSet(requests) \ {c}
  BY RequestTaken
<1>2. c \in Outstanding /\ c \notin inbound /\ c \notin Replied /\ runs[c] = 0
  BY <1>1, OutstandingCalls DEF IInv, PlaceInv, RunsInv
<1>3. UNCHANGED Replied /\ socket = "down"
  BY DEF Replied, IInv, ClosedInv, Ends
<1>4. Outstanding' = inbound' \cup ToSet(requests)' \cup Replied'
  BY DEF Outstanding, Replied
<1>5. /\ Outstanding = inbound \cup ToSet(requests) \cup Replied /\ Outstanding \subseteq Calls
      /\ \A d \in Outstanding : status[d] \in {"pending", "unknown"}
  BY OutstandingCalls
<1>6. TypeOK'
  <2>1. Of("pending")' \subseteq Of("pending")
    BY <1>1, <1>2, <1>3, <1>4, <1>5 DEF Of
  <2>2. Of("pending") \subseteq Calls /\ Cardinality(Of("pending")) <= MaxInFlight
    BY DEF IInv, TypeOK, Of
  <2>3. Cardinality(Of("pending")') <= MaxInFlight
    BY <2>1, <2>2, CallSets DEF RpcAssumption
  <2> QED BY <1>1, <1>2, <1>3, <1>4, <1>5, <2>3 DEF IInv, TypeOK, Outcomes
<1>7. PlaceInv'
  BY <1>1, <1>2, <1>3, <1>4, <1>5 DEF IInv, PlaceInv
<1>8. SentInv'
  BY <1>1, <1>2, <1>3, <1>4, <1>5 DEF IInv, TypeOK, SentInv, PlaceInv
<1>9. RunsInv'
  BY <1>1, <1>2, <1>3, <1>4, <1>5 DEF IInv, TypeOK, RunsInv, SentInv, PlaceInv
<1>10. ClosedInv'
  BY <1>1, <1>2, <1>3, <1>4, <1>5 DEF IInv, TypeOK, ClosedInv, Ends
<1>11. LossInv'
  BY <1>1, <1>2, <1>3, <1>4, <1>5 DEF IInv, TypeOK, LossInv, ClosedInv, ExpiredInv, Of, Ends
<1>12. ExpiredInv'
  BY <1>1, <1>2, <1>3, <1>4, <1>5 DEF IInv, TypeOK, ExpiredInv, SentInv, Of, Ends
<1>13. BusyInv'
  BY <1>1, <1>2, <1>3, <1>4, <1>5 DEF IInv, TypeOK, BusyInv, Of
<1>14. AccusedInv'
  BY <1>1, <1>2, <1>3, <1>4, <1>5 DEF IInv, AccusedInv, ExpiredInv
<1> QED BY <1>6, <1>7, <1>8, <1>9, <1>10, <1>11, <1>12, <1>13, <1>14 DEF IInv

LEMMA ReceiveAnswered == ASSUME NEW c, IInv, requests # <<>>, c = Head(requests), requests' = Tail(requests),
           UNCHANGED <<open, socket, status, expired, evicted, accused>>,
           NEW kind \in {"invalid", "busy"}, Answer(c, kind), UNCHANGED <<inbound, runs>>,
           kind = "busy" => Cardinality(inbound) >= MaxInFlight
    PROVE  IInv'
<1>1. /\ c \in Calls /\ requests' \in Seq(Calls) /\ IsInjective(requests)'
      /\ c \in ToSet(requests) /\ ToSet(requests)' = ToSet(requests) \ {c}
  BY RequestTaken
<1>2. c \in Outstanding /\ c \notin inbound /\ c \notin Replied /\ runs[c] = 0
  BY <1>1, OutstandingCalls DEF IInv, PlaceInv, RunsInv
<1>3. /\ replies' \in Seq(Reply)
      /\ Replied' = IF socket = "up" THEN Replied \cup {c} ELSE Replied
      /\ \A i, j \in DOMAIN replies' : replies'[i].call = replies'[j].call => i = j
      /\ \A i \in DOMAIN replies' :
             \/ i \in DOMAIN replies /\ replies'[i] = replies[i]
             \/ replies'[i].call = c /\ replies'[i].kind = kind
  BY <1>1, <1>2, ReplyPut
<1>4. kind = "busy" => Of("unknown") # {}
  <2> SUFFICES ASSUME kind = "busy", Of("unknown") = {} PROVE FALSE
    OBVIOUS
  <2>1. inbound \cup {c} \subseteq Of("pending") /\ Of("pending") \subseteq Calls
    BY <1>1, <1>2, OutstandingCalls DEF Of
  <2>2. Cardinality(inbound \cup {c}) = Cardinality(inbound) + 1 /\ Cardinality(inbound) \in Nat
    BY <1>2, <2>1, CallSets, FS_AddElement
  <2>3. Cardinality(inbound \cup {c}) <= Cardinality(Of("pending")) /\ Cardinality(Of("pending")) \in Nat
    BY <2>1, CallSets
  <2>4. Cardinality(Of("pending")) <= MaxInFlight
    BY DEF IInv, TypeOK
  <2> QED BY <2>2, <2>3, <2>4 DEF RpcAssumption
<1>5. Outstanding' = inbound' \cup ToSet(requests)' \cup Replied'
  BY DEF Outstanding, Replied
<1>6. /\ Outstanding = inbound \cup ToSet(requests) \cup Replied /\ Outstanding \subseteq Calls
      /\ \A d \in Outstanding : status[d] \in {"pending", "unknown"}
  BY OutstandingCalls
<1>7. TypeOK'
  <2>1. Of("pending")' \subseteq Of("pending")
    BY <1>1, <1>2, <1>3, <1>4, <1>5, <1>6 DEF Of
  <2>2. Of("pending") \subseteq Calls /\ Cardinality(Of("pending")) <= MaxInFlight
    BY DEF IInv, TypeOK, Of
  <2>3. Cardinality(Of("pending")') <= MaxInFlight
    BY <2>1, <2>2, CallSets DEF RpcAssumption
  <2> QED BY <1>1, <1>2, <1>3, <1>4, <1>5, <1>6, <2>3 DEF IInv, TypeOK, Outcomes, Reply
<1>8. PlaceInv'
  BY <1>1, <1>2, <1>3, <1>4, <1>5, <1>6 DEF IInv, PlaceInv
<1>9. SentInv'
  BY <1>1, <1>2, <1>3, <1>4, <1>5, <1>6 DEF IInv, TypeOK, SentInv, PlaceInv
<1>10. RunsInv'
  <2>1. RunsInv /\ status' = status /\ runs' = runs /\ inbound' = inbound
    BY DEF IInv
  <2>2. \A d \in ToSet(requests)' : d \in ToSet(requests)
    BY <1>1
  <2>3. \A i \in DOMAIN replies' :
            runs[replies'[i].call] = IF replies'[i].kind \in {"value", "error"} THEN 1 ELSE 0
    BY <1>2, <1>3, <2>1 DEF RunsInv
  <2> QED BY <2>1, <2>2, <2>3 DEF RunsInv
<1>11. ClosedInv'
  BY <1>1, <1>2, <1>3, <1>4, <1>5, <1>6 DEF IInv, TypeOK, ClosedInv, Ends
<1>12. LossInv'
  BY <1>1, <1>2, <1>3, <1>4, <1>5, <1>6 DEF IInv, TypeOK, LossInv, ClosedInv, ExpiredInv, Of, Ends
<1>13. ExpiredInv'
  BY <1>1, <1>2, <1>3, <1>4, <1>5, <1>6 DEF IInv, TypeOK, ExpiredInv, SentInv, Of, Ends
<1>14. BusyInv'
  BY <1>1, <1>2, <1>3, <1>4, <1>5, <1>6 DEF IInv, TypeOK, BusyInv, Of
<1>15. AccusedInv'
  BY <1>1, <1>2, <1>3, <1>4, <1>5, <1>6 DEF IInv, AccusedInv, ExpiredInv
<1> QED BY <1>7, <1>8, <1>9, <1>10, <1>11, <1>12, <1>13, <1>14, <1>15 DEF IInv

LEMMA ReceiveRuns == ASSUME NEW c, IInv, requests # <<>>, c = Head(requests), requests' = Tail(requests),
           UNCHANGED <<open, socket, status, expired, evicted, accused>>,
           Cardinality(inbound) < MaxInFlight, inbound' = inbound \cup {c},
           runs' = [runs EXCEPT ![c] = @ + 1], UNCHANGED replies
    PROVE  IInv'
<1>1. /\ c \in Calls /\ requests' \in Seq(Calls) /\ IsInjective(requests)'
      /\ c \in ToSet(requests) /\ ToSet(requests)' = ToSet(requests) \ {c}
  BY RequestTaken
<1>2. c \in Outstanding /\ c \notin inbound /\ c \notin Replied /\ runs[c] = 0
  BY <1>1, OutstandingCalls DEF IInv, PlaceInv, RunsInv
<1>3. UNCHANGED Replied /\ runs' = [runs EXCEPT ![c] = 1] /\ runs' \in [Calls -> 0..1]
  BY <1>1, <1>2 DEF Replied, IInv, TypeOK
<1>4. \A i \in DOMAIN replies : replies[i].call \in Calls /\ replies[i].call # c
  BY <1>2, OutstandingCalls DEF Replied
<1>5. inbound' \subseteq Calls /\ Cardinality(inbound') <= MaxInFlight
  <2>1. inbound \subseteq Calls /\ Cardinality(inbound) < MaxInFlight
    BY DEF IInv, TypeOK
  <2>2. Cardinality(inbound \cup {c}) <= Cardinality(inbound) + 1 /\ inbound \cup {c} \subseteq Calls
    BY <1>1, <2>1, CallSets
  <2>3. Cardinality(inbound) \in Nat /\ Cardinality(inbound \cup {c}) \in Nat
    BY <2>1, <2>2, CallSets
  <2> QED BY <2>1, <2>2, <2>3 DEF RpcAssumption
<1>6. Outstanding' = inbound' \cup ToSet(requests)' \cup Replied'
  BY DEF Outstanding, Replied
<1>7. /\ Outstanding = inbound \cup ToSet(requests) \cup Replied /\ Outstanding \subseteq Calls
      /\ \A d \in Outstanding : status[d] \in {"pending", "unknown"}
  BY OutstandingCalls
<1>8. TypeOK'
  <2>1. Of("pending")' \subseteq Of("pending")
    BY <1>1, <1>2, <1>3, <1>4, <1>5, <1>6, <1>7 DEF Of
  <2>2. Of("pending") \subseteq Calls /\ Cardinality(Of("pending")) <= MaxInFlight
    BY DEF IInv, TypeOK, Of
  <2>3. Cardinality(Of("pending")') <= MaxInFlight
    BY <2>1, <2>2, CallSets DEF RpcAssumption
  <2> QED BY <1>1, <1>2, <1>3, <1>4, <1>5, <1>6, <1>7, <2>3 DEF IInv, TypeOK, Outcomes
<1>9. PlaceInv'
  BY <1>1, <1>2, <1>3, <1>4, <1>5, <1>6, <1>7 DEF IInv, PlaceInv
<1>10. SentInv'
  BY <1>1, <1>2, <1>3, <1>4, <1>5, <1>6, <1>7 DEF IInv, TypeOK, SentInv, PlaceInv
<1>11. RunsInv'
  <2>1. RunsInv /\ status' = status /\ replies' = replies
    BY DEF IInv
  <2>2. runs'[c] = 1 /\ \A d \in Calls \ {c} : runs'[d] = runs[d]
    BY <1>1, <1>3 DEF IInv, TypeOK
  <2>3. status[c] \in {"pending", "unknown"}
    BY <1>2, <1>7
  <2>4. \A d \in Calls :
            /\ status'[d] \in {"new", "refused", "busy", "invalid"} => runs'[d] = 0
            /\ status'[d] \in {"value", "error"} => runs'[d] = 1
    BY <2>1, <2>2, <2>3 DEF RunsInv
  <2>5. ToSet(requests) \subseteq Calls /\ inbound \subseteq Calls
    BY <1>6, <1>7
  <2>6. \A d \in ToSet(requests)' : runs'[d] = 0
    BY <1>1, <2>1, <2>2, <2>5 DEF RunsInv
  <2>7. \A d \in inbound' : runs'[d] = 1
    BY <2>1, <2>2, <2>5 DEF RunsInv
  <2>8. \A i \in DOMAIN replies : runs'[replies[i].call] = runs[replies[i].call]
    BY <1>4, <2>2
  <2>9. \A i \in DOMAIN replies' :
            runs'[replies'[i].call] = IF replies'[i].kind \in {"value", "error"} THEN 1 ELSE 0
    BY <2>1, <2>8 DEF RunsInv
  <2> QED BY <2>4, <2>6, <2>7, <2>9 DEF RunsInv
<1>12. ClosedInv'
  BY <1>1, <1>2, <1>3, <1>4, <1>5, <1>6, <1>7 DEF IInv, TypeOK, ClosedInv, Ends
<1>13. LossInv'
  BY <1>1, <1>2, <1>3, <1>4, <1>5, <1>6, <1>7 DEF IInv, TypeOK, LossInv, ClosedInv, ExpiredInv, Of, Ends
<1>14. ExpiredInv'
  BY <1>1, <1>2, <1>3, <1>4, <1>5, <1>6, <1>7 DEF IInv, TypeOK, ExpiredInv, SentInv, Of, Ends
<1>15. BusyInv'
  BY <1>1, <1>2, <1>3, <1>4, <1>5, <1>6, <1>7 DEF IInv, TypeOK, BusyInv, Of
<1>16. AccusedInv'
  BY <1>1, <1>2, <1>3, <1>4, <1>5, <1>6, <1>7 DEF IInv, AccusedInv, ExpiredInv
<1> QED BY <1>8, <1>9, <1>10, <1>11, <1>12, <1>13, <1>14, <1>15, <1>16 DEF IInv

LEMMA ReceiveIInv == ASSUME IInv, Receive PROVE IInv'
<1> DEFINE c == Head(requests)
<1>1. /\ requests # <<>> /\ requests' = Tail(requests)
      /\ UNCHANGED <<open, socket, status, expired, evicted, accused>>
  BY DEF Receive
<1>2. CASE ~open["remote"] /\ UNCHANGED <<replies, inbound, runs>>
  BY <1>1, <1>2, ReceiveClosed
<1>3. CASE open["remote"] /\ Answer(c, "invalid") /\ UNCHANGED <<inbound, runs>>
  BY <1>1, <1>3, ReceiveAnswered
<1>4. CASE /\ open["remote"] /\ Cardinality(inbound) >= MaxInFlight
           /\ Answer(c, "busy") /\ UNCHANGED <<inbound, runs>>
  BY <1>1, <1>4, ReceiveAnswered
<1>5. CASE /\ open["remote"] /\ Cardinality(inbound) < MaxInFlight
           /\ inbound' = inbound \cup {c} /\ runs' = [runs EXCEPT ![c] = @ + 1]
           /\ UNCHANGED replies
  BY <1>1, <1>5, ReceiveRuns
<1> QED BY <1>2, <1>3, <1>4, <1>5 DEF Receive

LEMMA ReplyIgnored == ASSUME NEW c, IInv, replies # <<>>, c = Head(replies).call, replies' = Tail(replies),
           UNCHANGED <<requests, inbound, runs, evicted>>,
           ~open["caller"], UNCHANGED <<open, socket, status, expired, accused>>
    PROVE  IInv'
<1>1. /\ c \in Replied /\ replies' \in Seq(Reply) /\ Replied' = Replied \ {c}
      /\ \A i, j \in DOMAIN replies' : replies'[i].call = replies'[j].call => i = j
      /\ \A i \in DOMAIN replies' : \E j \in DOMAIN replies : replies'[i] = replies[j]
      /\ \E i \in DOMAIN replies : replies[i] = Head(replies)
  BY ReplyTaken
<1>2. UNCHANGED ToSet(requests)
  OBVIOUS
<1>3. /\ c \in Calls /\ c \in Outstanding /\ c \notin inbound /\ c \notin ToSet(requests)
      /\ runs[c] = IF Head(replies).kind \in {"value", "error"} THEN 1 ELSE 0
  BY <1>1, OutstandingCalls DEF IInv, PlaceInv, RunsInv
<1>4. Outstanding' = inbound' \cup ToSet(requests)' \cup Replied'
  BY DEF Outstanding, Replied
<1>5. /\ Outstanding = inbound \cup ToSet(requests) \cup Replied /\ Outstanding \subseteq Calls
      /\ \A d \in Outstanding : status[d] \in {"pending", "unknown"}
  BY OutstandingCalls
<1>6. TypeOK'
  <2>1. Of("pending")' \subseteq Of("pending")
    BY <1>1, <1>2, <1>3, <1>4, <1>5 DEF Of
  <2>2. Of("pending") \subseteq Calls /\ Cardinality(Of("pending")) <= MaxInFlight
    BY DEF IInv, TypeOK, Of
  <2>3. Cardinality(Of("pending")') <= MaxInFlight
    BY <2>1, <2>2, CallSets DEF RpcAssumption
  <2> QED BY <1>1, <1>2, <1>3, <1>4, <1>5, <2>3 DEF IInv, TypeOK, Outcomes, Reply
<1>7. PlaceInv'
  BY <1>1, <1>2, <1>3, <1>4, <1>5 DEF IInv, PlaceInv
<1>8. SentInv'
  BY <1>1, <1>2, <1>3, <1>4, <1>5 DEF IInv, TypeOK, SentInv, PlaceInv
<1>9. RunsInv'
  BY <1>1, <1>2, <1>3, <1>4, <1>5 DEF IInv, TypeOK, RunsInv, SentInv, PlaceInv
<1>10. ClosedInv'
  BY <1>1, <1>2, <1>3, <1>4, <1>5 DEF IInv, TypeOK, ClosedInv, Ends
<1>11. LossInv'
  BY <1>1, <1>2, <1>3, <1>4, <1>5 DEF IInv, TypeOK, LossInv, ClosedInv, ExpiredInv, Of, Ends
<1>12. ExpiredInv'
  BY <1>1, <1>2, <1>3, <1>4, <1>5 DEF IInv, TypeOK, ExpiredInv, SentInv, Of, Ends
<1>13. BusyInv'
  BY <1>1, <1>2, <1>3, <1>4, <1>5 DEF IInv, TypeOK, BusyInv, Of
<1>14. AccusedInv'
  BY <1>1, <1>2, <1>3, <1>4, <1>5 DEF IInv, AccusedInv, ExpiredInv
<1> QED BY <1>6, <1>7, <1>8, <1>9, <1>10, <1>11, <1>12, <1>13, <1>14 DEF IInv

LEMMA ReplyAnswers == ASSUME NEW c, IInv, replies # <<>>, c = Head(replies).call, replies' = Tail(replies),
           UNCHANGED <<requests, inbound, runs, evicted>>,
           status[c] = "pending", Ended(c, Head(replies).kind),
           UNCHANGED <<open, socket, expired, accused>>
    PROVE  IInv'
<1>1. /\ c \in Replied /\ replies' \in Seq(Reply) /\ Replied' = Replied \ {c}
      /\ \A i, j \in DOMAIN replies' : replies'[i].call = replies'[j].call => i = j
      /\ \A i \in DOMAIN replies' : \E j \in DOMAIN replies : replies'[i] = replies[j]
      /\ \E i \in DOMAIN replies : replies[i] = Head(replies)
  BY ReplyTaken
<1>2. UNCHANGED ToSet(requests)
  OBVIOUS
<1>3. /\ c \in Calls /\ c \in Outstanding /\ c \notin inbound /\ c \notin ToSet(requests)
      /\ runs[c] = IF Head(replies).kind \in {"value", "error"} THEN 1 ELSE 0
  BY <1>1, OutstandingCalls DEF IInv, PlaceInv, RunsInv
<1>4. Head(replies).kind \in {"busy", "invalid", "value", "error"}
  BY ReplyTaken DEF Reply
<1>5. status' = [status EXCEPT ![c] = Head(replies).kind] /\ status' \in [Calls -> Outcomes \cup {"new", "pending"}]
  BY <1>4 DEF Ended, IInv, TypeOK, Outcomes
<1>6. c \notin ToSet(expired)
  BY DEF IInv, ExpiredInv, Of
<1>7. Outstanding' = inbound' \cup ToSet(requests)' \cup Replied'
  BY DEF Outstanding, Replied
<1>8. /\ Outstanding = inbound \cup ToSet(requests) \cup Replied /\ Outstanding \subseteq Calls
      /\ \A d \in Outstanding : status[d] \in {"pending", "unknown"}
  BY OutstandingCalls
<1>9. TypeOK'
  <2>1. Of("pending")' \subseteq Of("pending")
    BY <1>1, <1>2, <1>3, <1>4, <1>5, <1>6, <1>7, <1>8 DEF Of
  <2>2. Of("pending") \subseteq Calls /\ Cardinality(Of("pending")) <= MaxInFlight
    BY DEF IInv, TypeOK, Of
  <2>3. Cardinality(Of("pending")') <= MaxInFlight
    BY <2>1, <2>2, CallSets DEF RpcAssumption
  <2> QED BY <1>1, <1>2, <1>3, <1>4, <1>5, <1>6, <1>7, <1>8, <2>3 DEF IInv, TypeOK, Outcomes, Reply
<1>10. PlaceInv'
  BY <1>1, <1>2, <1>3, <1>4, <1>5, <1>6, <1>7, <1>8 DEF IInv, PlaceInv
<1>11. SentInv'
  BY <1>1, <1>2, <1>3, <1>4, <1>5, <1>6, <1>7, <1>8 DEF IInv, TypeOK, SentInv, PlaceInv
<1>12. RunsInv'
  BY <1>1, <1>2, <1>3, <1>4, <1>5, <1>6, <1>7, <1>8 DEF IInv, TypeOK, RunsInv, SentInv, PlaceInv
<1>13. ClosedInv'
  BY <1>1, <1>2, <1>3, <1>4, <1>5, <1>6, <1>7, <1>8 DEF IInv, TypeOK, ClosedInv, Ends
<1>14. LossInv'
  BY <1>1, <1>2, <1>3, <1>4, <1>5, <1>6, <1>7, <1>8 DEF IInv, TypeOK, LossInv, ClosedInv, ExpiredInv, Of, Ends
<1>15. ExpiredInv'
  BY <1>1, <1>2, <1>3, <1>4, <1>5, <1>6, <1>7, <1>8 DEF IInv, TypeOK, ExpiredInv, SentInv, Of, Ends
<1>16. BusyInv'
  BY <1>1, <1>2, <1>3, <1>4, <1>5, <1>6, <1>7, <1>8 DEF IInv, TypeOK, BusyInv, Of
<1>17. AccusedInv'
  BY <1>1, <1>2, <1>3, <1>4, <1>5, <1>6, <1>7, <1>8 DEF IInv, AccusedInv, ExpiredInv
<1> QED BY <1>9, <1>10, <1>11, <1>12, <1>13, <1>14, <1>15, <1>16, <1>17 DEF IInv

LEMMA ReplyFails == ASSUME NEW c, IInv, replies # <<>>, c = Head(replies).call, replies' = Tail(replies),
           UNCHANGED <<requests, inbound, runs, evicted>>,
           status[c] = "pending", Head(replies).kind \in {"value", "error"}, open["caller"],
           open' = [open EXCEPT !["caller"] = FALSE], socket' = "down",
           status' = [Unknown EXCEPT ![c] = "error"], UNCHANGED <<expired, accused>>
    PROVE  IInv'
<1>1. /\ c \in Replied /\ replies' \in Seq(Reply) /\ Replied' = Replied \ {c}
      /\ \A i, j \in DOMAIN replies' : replies'[i].call = replies'[j].call => i = j
      /\ \A i \in DOMAIN replies' : \E j \in DOMAIN replies : replies'[i] = replies[j]
      /\ \E i \in DOMAIN replies : replies[i] = Head(replies)
  BY ReplyTaken
<1>2. UNCHANGED ToSet(requests)
  OBVIOUS
<1>3. /\ c \in Calls /\ c \in Outstanding /\ c \notin inbound /\ c \notin ToSet(requests)
      /\ runs[c] = IF Head(replies).kind \in {"value", "error"} THEN 1 ELSE 0
  BY <1>1, OutstandingCalls DEF IInv, PlaceInv, RunsInv
<1>4. open' \in [Ends -> BOOLEAN] /\ ~open'["caller"]
  BY DEF IInv, TypeOK, Ends
<1>5. /\ status' \in [Calls -> Outcomes \cup {"new", "pending"}]
      /\ status'[c] = "error"
      /\ \A d \in Calls \ {c} : status'[d] = status[d] \/ (status[d] = "pending" /\ status'[d] = "unknown")
  BY <1>3 DEF Unknown, IInv, TypeOK, Outcomes
<1>6. c \notin ToSet(expired) /\ ToSet(expired) \subseteq Calls
  BY DEF IInv, ExpiredInv, Of
<1>7. Outstanding' = inbound' \cup ToSet(requests)' \cup Replied'
  BY DEF Outstanding, Replied
<1>8. /\ Outstanding = inbound \cup ToSet(requests) \cup Replied /\ Outstanding \subseteq Calls
      /\ \A d \in Outstanding : status[d] \in {"pending", "unknown"}
  BY OutstandingCalls
<1>9. TypeOK'
  <2>1. Of("pending")' \subseteq Of("pending")
    BY <1>1, <1>2, <1>3, <1>4, <1>5, <1>6, <1>7, <1>8 DEF Of
  <2>2. Of("pending") \subseteq Calls /\ Cardinality(Of("pending")) <= MaxInFlight
    BY DEF IInv, TypeOK, Of
  <2>3. Cardinality(Of("pending")') <= MaxInFlight
    BY <2>1, <2>2, CallSets DEF RpcAssumption
  <2> QED BY <1>1, <1>2, <1>3, <1>4, <1>5, <1>6, <1>7, <1>8, <2>3 DEF IInv, TypeOK, Outcomes, Reply
<1>10. PlaceInv'
  BY <1>1, <1>2, <1>3, <1>4, <1>5, <1>6, <1>7, <1>8 DEF IInv, PlaceInv
<1>11. SentInv'
  BY <1>1, <1>2, <1>3, <1>4, <1>5, <1>6, <1>7, <1>8 DEF IInv, TypeOK, SentInv, PlaceInv
<1>12. RunsInv'
  BY <1>1, <1>2, <1>3, <1>4, <1>5, <1>6, <1>7, <1>8 DEF IInv, TypeOK, RunsInv, SentInv, PlaceInv
<1>13. ClosedInv'
  BY <1>1, <1>2, <1>3, <1>4, <1>5, <1>6, <1>7, <1>8 DEF IInv, TypeOK, ClosedInv, Ends
<1>14. LossInv'
  BY <1>1, <1>2, <1>3, <1>4, <1>5, <1>6, <1>7, <1>8 DEF IInv, TypeOK, LossInv, ClosedInv, ExpiredInv, Of, Ends
<1>15. ExpiredInv'
  BY <1>1, <1>2, <1>3, <1>4, <1>5, <1>6, <1>7, <1>8 DEF IInv, TypeOK, ExpiredInv, SentInv, Of, Ends
<1>16. BusyInv'
  <2>1. Of("unknown") \subseteq Of("unknown")' /\ Of("busy")' \subseteq Of("busy")
    BY <1>5 DEF Of
  <2> QED BY <1>1, <2>1 DEF IInv, BusyInv
<1>17. AccusedInv'
  BY <1>1, <1>2, <1>3, <1>4, <1>5, <1>6, <1>7, <1>8 DEF IInv, AccusedInv, ExpiredInv
<1> QED BY <1>9, <1>10, <1>11, <1>12, <1>13, <1>14, <1>15, <1>16, <1>17 DEF IInv

LEMMA ReplyLate == ASSUME NEW c, IInv, replies # <<>>, c = Head(replies).call, replies' = Tail(replies),
           UNCHANGED <<requests, inbound, runs, evicted>>,
           status[c] # "pending", NEW k \in DOMAIN expired, expired[k] = c, expired' = RemoveAt(expired, k),
           UNCHANGED <<open, socket, status, accused>>
    PROVE  IInv'
<1>1. /\ c \in Replied /\ replies' \in Seq(Reply) /\ Replied' = Replied \ {c}
      /\ \A i, j \in DOMAIN replies' : replies'[i].call = replies'[j].call => i = j
      /\ \A i \in DOMAIN replies' : \E j \in DOMAIN replies : replies'[i] = replies[j]
      /\ \E i \in DOMAIN replies : replies[i] = Head(replies)
  BY ReplyTaken
<1>2. UNCHANGED ToSet(requests)
  OBVIOUS
<1>3. /\ c \in Calls /\ c \in Outstanding /\ c \notin inbound /\ c \notin ToSet(requests)
      /\ runs[c] = IF Head(replies).kind \in {"value", "error"} THEN 1 ELSE 0
  BY <1>1, OutstandingCalls DEF IInv, PlaceInv, RunsInv
<1>4. /\ expired' \in Seq(Calls) /\ Len(expired') <= MaxExpired /\ IsInjective(expired')
      /\ ToSet(expired') = ToSet(expired) \ {c}
  <2>1. expired \in Seq(Calls) /\ IsInjective(expired) /\ Len(expired) <= MaxExpired
    BY DEF IInv, TypeOK, ExpiredInv
  <2>2. Len(expired') = Len(expired) - 1
    BY <2>1, RemoveAtFacts
  <2> QED BY <2>1, <2>2, RemoveAtFacts, RemoveAtSet DEF RpcAssumption
<1>5. Outstanding' = inbound' \cup ToSet(requests)' \cup Replied'
  BY DEF Outstanding, Replied
<1>6. /\ Outstanding = inbound \cup ToSet(requests) \cup Replied /\ Outstanding \subseteq Calls
      /\ \A d \in Outstanding : status[d] \in {"pending", "unknown"}
  BY OutstandingCalls
<1>7. TypeOK'
  <2>1. Of("pending")' \subseteq Of("pending")
    BY <1>1, <1>2, <1>3, <1>4, <1>5, <1>6 DEF Of
  <2>2. Of("pending") \subseteq Calls /\ Cardinality(Of("pending")) <= MaxInFlight
    BY DEF IInv, TypeOK, Of
  <2>3. Cardinality(Of("pending")') <= MaxInFlight
    BY <2>1, <2>2, CallSets DEF RpcAssumption
  <2> QED BY <1>1, <1>2, <1>3, <1>4, <1>5, <1>6, <2>3 DEF IInv, TypeOK, Outcomes, Reply
<1>8. PlaceInv'
  BY <1>1, <1>2, <1>3, <1>4, <1>5, <1>6 DEF IInv, PlaceInv
<1>9. SentInv'
  BY <1>1, <1>2, <1>3, <1>4, <1>5, <1>6 DEF IInv, TypeOK, SentInv, PlaceInv
<1>10. RunsInv'
  BY <1>1, <1>2, <1>3, <1>4, <1>5, <1>6 DEF IInv, TypeOK, RunsInv, SentInv, PlaceInv
<1>11. ClosedInv'
  BY <1>1, <1>2, <1>3, <1>4, <1>5, <1>6 DEF IInv, TypeOK, ClosedInv, Ends
<1>12. LossInv'
  BY <1>1, <1>2, <1>3, <1>4, <1>5, <1>6 DEF IInv, TypeOK, LossInv, ClosedInv, ExpiredInv, Of, Ends
<1>13. ExpiredInv'
  BY <1>1, <1>2, <1>3, <1>4, <1>5, <1>6 DEF IInv, TypeOK, ExpiredInv, SentInv, Of, Ends
<1>14. BusyInv'
  BY <1>1, <1>2, <1>3, <1>4, <1>5, <1>6 DEF IInv, TypeOK, BusyInv, Of
<1>15. AccusedInv'
  BY <1>1, <1>2, <1>3, <1>4, <1>5, <1>6 DEF IInv, AccusedInv, ExpiredInv
<1> QED BY <1>7, <1>8, <1>9, <1>10, <1>11, <1>12, <1>13, <1>14, <1>15 DEF IInv

LEMMA ReplyAccused == ASSUME NEW c, IInv, replies # <<>>, c = Head(replies).call, replies' = Tail(replies),
           UNCHANGED <<requests, inbound, runs, evicted>>,
           status[c] # "pending", ~Contains(expired, c), open["caller"], Fail("caller"),
           accused' = TRUE, UNCHANGED expired
    PROVE  IInv'
<1>1. /\ c \in Replied /\ replies' \in Seq(Reply) /\ Replied' = Replied \ {c}
      /\ \A i, j \in DOMAIN replies' : replies'[i].call = replies'[j].call => i = j
      /\ \A i \in DOMAIN replies' : \E j \in DOMAIN replies : replies'[i] = replies[j]
      /\ \E i \in DOMAIN replies : replies[i] = Head(replies)
  BY ReplyTaken
<1>2. UNCHANGED ToSet(requests)
  OBVIOUS
<1>3. /\ c \in Calls /\ c \in Outstanding /\ c \notin inbound /\ c \notin ToSet(requests)
      /\ runs[c] = IF Head(replies).kind \in {"value", "error"} THEN 1 ELSE 0
  BY <1>1, OutstandingCalls DEF IInv, PlaceInv, RunsInv
<1>4. open' \in [Ends -> BOOLEAN] /\ ~open'["caller"] /\ socket' = "down"
  BY DEF Fail, IInv, TypeOK, Ends
<1>5. /\ status' \in [Calls -> Outcomes \cup {"new", "pending"}]
      /\ \A d \in Calls : status'[d] = status[d] \/ (status[d] = "pending" /\ status'[d] = "unknown")
  BY DEF Fail, Unknown, IInv, TypeOK, Outcomes
<1>6. evicted
  <2>1. c \notin ToSet(expired)
    BY DEF Contains, ToSet, IInv, TypeOK
  <2> QED BY <1>3, <2>1, OutstandingCalls DEF IInv, ExpiredInv, Of
<1>7. ToSet(expired) \subseteq Calls
  BY DEF IInv, ExpiredInv, Of
<1>8. Outstanding' = inbound' \cup ToSet(requests)' \cup Replied'
  BY DEF Outstanding, Replied
<1>9. /\ Outstanding = inbound \cup ToSet(requests) \cup Replied /\ Outstanding \subseteq Calls
      /\ \A d \in Outstanding : status[d] \in {"pending", "unknown"}
  BY OutstandingCalls
<1>10. TypeOK'
  <2>1. Of("pending")' \subseteq Of("pending")
    BY <1>1, <1>2, <1>3, <1>4, <1>5, <1>6, <1>7, <1>8, <1>9 DEF Of
  <2>2. Of("pending") \subseteq Calls /\ Cardinality(Of("pending")) <= MaxInFlight
    BY DEF IInv, TypeOK, Of
  <2>3. Cardinality(Of("pending")') <= MaxInFlight
    BY <2>1, <2>2, CallSets DEF RpcAssumption
  <2> QED BY <1>1, <1>2, <1>3, <1>4, <1>5, <1>6, <1>7, <1>8, <1>9, <2>3 DEF IInv, TypeOK, Outcomes, Reply
<1>11. PlaceInv'
  BY <1>1, <1>2, <1>3, <1>4, <1>5, <1>6, <1>7, <1>8, <1>9 DEF IInv, PlaceInv
<1>12. SentInv'
  BY <1>1, <1>2, <1>3, <1>4, <1>5, <1>6, <1>7, <1>8, <1>9 DEF IInv, TypeOK, SentInv, PlaceInv
<1>13. RunsInv'
  BY <1>1, <1>2, <1>3, <1>4, <1>5, <1>6, <1>7, <1>8, <1>9 DEF IInv, TypeOK, RunsInv, SentInv, PlaceInv
<1>14. ClosedInv'
  BY <1>1, <1>2, <1>3, <1>4, <1>5, <1>6, <1>7, <1>8, <1>9 DEF IInv, TypeOK, ClosedInv, Ends
<1>15. LossInv'
  BY <1>1, <1>2, <1>3, <1>4, <1>5, <1>6, <1>7, <1>8, <1>9 DEF IInv, TypeOK, LossInv, ClosedInv, ExpiredInv, Of, Ends
<1>16. ExpiredInv'
  BY <1>1, <1>2, <1>3, <1>4, <1>5, <1>6, <1>7, <1>8, <1>9 DEF IInv, TypeOK, ExpiredInv, SentInv, Of, Ends
<1>17. BusyInv'
  BY <1>1, <1>2, <1>3, <1>4, <1>5, <1>6, <1>7, <1>8, <1>9 DEF IInv, TypeOK, BusyInv, Of
<1>18. AccusedInv'
  BY <1>1, <1>2, <1>3, <1>4, <1>5, <1>6, <1>7, <1>8, <1>9 DEF IInv, AccusedInv, ExpiredInv
<1> QED BY <1>10, <1>11, <1>12, <1>13, <1>14, <1>15, <1>16, <1>17, <1>18 DEF IInv

LEMMA ReceiveReplyIInv == ASSUME IInv, ReceiveReply PROVE IInv'
<1> DEFINE c == Head(replies).call  kind == Head(replies).kind
<1>1. replies # <<>> /\ replies' = Tail(replies) /\ UNCHANGED <<requests, inbound, runs, evicted>>
  BY DEF ReceiveReply
<1>2. CASE ~open["caller"] /\ UNCHANGED <<open, socket, status, expired, accused>>
  BY <1>1, <1>2, ReplyIgnored
<1>3. CASE /\ open["caller"] /\ status[c] = "pending" /\ Ended(c, kind)
           /\ UNCHANGED <<open, socket, expired, accused>>
  BY <1>1, <1>3, ReplyAnswers
<1>4. CASE /\ open["caller"] /\ status[c] = "pending" /\ kind \in {"value", "error"}
           /\ open' = [open EXCEPT !["caller"] = FALSE] /\ socket' = "down"
           /\ status' = [Unknown EXCEPT ![c] = "error"] /\ UNCHANGED <<expired, accused>>
  BY <1>1, <1>4, ReplyFails
<1>5. CASE /\ open["caller"] /\ status[c] # "pending"
           /\ \E i \in DOMAIN expired : expired[i] = c /\ expired' = RemoveAt(expired, i)
           /\ UNCHANGED <<open, socket, status, accused>>
  BY <1>1, <1>5, ReplyLate
<1>6. CASE /\ open["caller"] /\ status[c] # "pending" /\ ~Contains(expired, c)
           /\ Fail("caller") /\ accused' = TRUE /\ UNCHANGED expired
  BY <1>1, <1>6, ReplyAccused
<1> QED BY <1>2, <1>3, <1>4, <1>5, <1>6 DEF ReceiveReply

LEMMA NextIInv == ASSUME IInv, [Next]_vars PROVE IInv'
<1>1. ASSUME NEW c \in Calls, Call(c) \/ GiveUp(c) \/ HandlerEnds(c) PROVE IInv'
  BY <1>1, CallIInv, GiveUpIInv, HandlerEndsIInv
<1>2. ASSUME NEW e \in Ends, Close(e) \/ Silent(e) \/ OnClose(e) PROVE IInv'
  BY <1>2, FailIInv DEF Close, Silent, OnClose
<1>3. CASE UNCHANGED vars
  BY <1>3 DEF vars, wire, IInv, TypeOK, PlaceInv, SentInv, RunsInv, ClosedInv, LossInv, ExpiredInv,
     BusyInv, AccusedInv, Outstanding, Replied, Of
<1> QED BY <1>1, <1>2, <1>3, ReceiveIInv, ReceiveReplyIInv, BreaksIInv DEF Next

LEMMA AlwaysIInv == Spec => []IInv
<1> QED BY InitIInv, NextIInv, PTL DEF Spec

\* The types, among them the caps: an end never has more calls pending, or requests
\* running, than MAX_IN_FLIGHT allows, nor keeps more IDs than MAX_EXPIRED.
THEOREM TypeCorrect == Spec => []TypeOK
<1>1. IInv => TypeOK
  BY DEF IInv
<1> QED BY <1>1, AlwaysIInv, PTL

\* What a call's failure says of the remote end is true (RpcFailure, NotConnected).
THEOREM OutcomesTrue == Spec => []OutcomeTrue
<1>1. IInv => OutcomeTrue
  <2> SUFFICES ASSUME IInv, NEW c \in Calls
               PROVE  /\ status[c] \in {"refused", "busy", "invalid"} =>
                             runs[c] = 0 /\ ~Contains(requests, c)
                      /\ status[c] \in {"value", "error"} => runs[c] = 1
    BY DEF OutcomeTrue
  <2>1. Contains(requests, c) => c \in Outstanding
    BY DEF IInv, TypeOK, Contains, Outstanding, ToSet
  <2> QED BY <2>1, OutstandingCalls DEF IInv, RunsInv
<1> QED BY <1>1, AlwaysIInv, PTL

\* Giving calls up does no harm to others until an ID is evicted (MAX_IN_FLIGHT, MAX_EXPIRED).
THEOREM GivingUpHarmless == Spec => []GivenUpHarmless
<1>1. IInv => GivenUpHarmless
  BY DEF IInv, GivenUpHarmless, BusyInv, AccusedInv, LossInv
<1> QED BY <1>1, AlwaysIInv, PTL

\* Nothing waits in vain: a call is pending on an open connection only, and on a link that is
\* up its request is on its way, its handler runs or its reply is on its way.
PendingAwaited ==
    \A c \in Of("pending") : open["caller"] /\ (socket = "up" => c \in Outstanding)

\* An end that failed or closed left no call waiting.
PendingOpen == ~open["caller"] => \A c \in Calls : status[c] # "pending"

LEMMA UnknownFacts ==
    ASSUME status \in [Calls -> Outcomes \cup {"new", "pending"}]
    PROVE  \A c \in Calls : Unknown[c] # "pending"
BY DEF Unknown

LEMMA PendingOpenStep == ASSUME IInv, PendingOpen, [Next]_vars PROVE PendingOpen'
<1>1. open \in [Ends -> BOOLEAN] /\ status \in [Calls -> Outcomes \cup {"new", "pending"}]
  BY DEF IInv, TypeOK
<1>2. ASSUME NEW c \in Calls, Call(c) PROVE PendingOpen'
  <2>1. CASE Ended(c, "refused") /\ UNCHANGED open
    BY <1>1, <2>1 DEF Ended, PendingOpen
  <2>2. CASE status' = [Unknown EXCEPT ![c] = "unknown"]
    BY <1>1, <2>2 DEF PendingOpen, Unknown
  <2>3. CASE Ended(c, "pending") /\ UNCHANGED open /\ open["caller"]
    BY <2>3 DEF PendingOpen
  <2> QED BY <1>2, <2>1, <2>2, <2>3 DEF Call
<1>3. ASSUME NEW c \in Calls, GiveUp(c) PROVE PendingOpen'
  BY <1>1, <1>3 DEF GiveUp, Ended, PendingOpen
<1>4. CASE UNCHANGED <<open, status>>
  BY <1>4 DEF PendingOpen
<1>5. ASSUME NEW e \in Ends, Fail(e) PROVE PendingOpen'
  BY <1>1, <1>5, UnknownFacts DEF Fail, PendingOpen
<1>6. CASE ReceiveReply
  <2>1. ASSUME NEW c, NEW kind, Ended(c, kind), open["caller"], UNCHANGED open PROVE PendingOpen'
    BY <2>1 DEF PendingOpen
  <2>2. ASSUME NEW c, status' = [Unknown EXCEPT ![c] = "error"] PROVE PendingOpen'
    BY <1>1, <2>2 DEF PendingOpen, Unknown
  <2> QED BY <1>4, <1>5, <1>6, <2>1, <2>2 DEF ReceiveReply, Ends
<1> QED
  BY <1>2, <1>3, <1>4, <1>5, <1>6 DEF Next, HandlerEnds, Receive, Breaks, Close, Silent, OnClose, vars

\* No call is left waiting for a reply that cannot come: not by a connection that failed at
\* the caller's end, nor by a request or reply that a link lost and nobody would notice (receive,
\* fail, onclose and the heartbeat).
THEOREM PendingCallsAwaited == Spec => []PendingAwaited
<1>1. Init => PendingOpen
  BY DEF Init, PendingOpen, Ends
<1>2. IInv /\ PendingOpen /\ [Next]_vars => PendingOpen'
  BY PendingOpenStep
<1>3. IInv /\ PendingOpen => PendingAwaited
  BY DEF IInv, LossInv, PendingOpen, PendingAwaited, Of
<1> QED BY <1>1, <1>2, <1>3, AlwaysIInv, PTL DEF Spec
=============================================================================
