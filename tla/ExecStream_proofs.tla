------------------------- MODULE ExecStream_proofs --------------------------
(***************************************************************************)
(* A shell command across links implements Command, for any output, tail    *)
(* and number of failures.                                                  *)
(***************************************************************************)
EXTENDS ExecStream, SequenceTheorems, TLAPS

Frames == [kind : FrameKinds, stream : Streams, n : 0..MaxOutput]

Prefix(n) == [i \in 1..n |-> i]

\* The command started at most once, and its records and its exit are of that process.
\* The node serves only a command it has.
CommandInv ==
    /\ known \/ alive \/ exited => runs = 1
    /\ exited => ~alive
    /\ alive => end < MaxOutput
    /\ runs = 0 => end = 0
    /\ first = 1 \/ first <= end
    /\ ~known \/ grace => consumer = 0

Requests == {"exec", "attach"}

Starting == pc = "starting"

\* Frames of these kinds are on their way.
Some(q, kinds) == \E i \in DOMAIN q : q[i].kind \in kinds

AtMostOne(q, kinds) ==
    \A i, j \in DOMAIN q : q[i].kind \in kinds /\ q[j].kind \in kinds => i = j

StartSent == Some(toNode, {"exec"})

Refusals == {"again", "refused"}

StartRefused == Some(toServer, Refusals)

\* The start is to be sent, on its way, or refused and the refusal on its way: each once,
\* one at a time, and while it is so nothing was started.
StartInv ==
    /\ AtMostOne(toNode, {"exec"}) /\ AtMostOne(toServer, Refusals)
    /\ ~(Starting /\ StartSent) /\ ~(Starting /\ StartRefused) /\ ~(StartSent /\ StartRefused)
    /\ Starting \/ StartSent \/ StartRefused => runs = 0
    /\ \A i \in DOMAIN toNode : toNode[i].kind = "exec" => toNode[i].n = 0

\* What the caller saw is what was read of the output, without a gap.
CallInv ==
    /\ shown = Prefix(taken) /\ taken <= end
    /\ pc # "returned" => result = "none"
    /\ Starting => taken = 0

\* Someone waits for the latest request's answer, or reads its stream.
Waiting == pc \in {"asked", "reading"}

\* A frame of the latest stream.
Mine(frame) == frame.kind # "killed" /\ frame.stream = stream

\* Those with a place in the output.
Counted(frame) == Mine(frame) /\ frame.kind \in {"opened", "view", "data"}

MyRequest(frame) == frame.kind \in Requests /\ frame.stream = stream

\* The latest request, on its way, is the last; nothing of its stream came before. Once it
\* was handled no other is on its way, and the node serves its stream or none.
RequestInv ==
    Waiting =>
        /\ \A i \in DOMAIN toNode : MyRequest(toNode[i]) =>
               /\ pc = "asked" /\ toNode[i].n = taken /\ consumer # stream
               /\ \A j \in DOMAIN toServer : ~Mine(toServer[j])
               /\ \A k \in DOMAIN toNode : toNode[k].kind \in Requests => k <= i
        /\ \/ \E i \in DOMAIN toNode : MyRequest(toNode[i])
           \/ consumer \in {0, stream} /\ \A i \in DOMAIN toNode : toNode[i].kind \notin Requests

\* Only records the command put out are sent.
SentInv == \A j \in DOMAIN toServer : toServer[j].kind \in {"view", "data"} => toServer[j].n <= end

\* The latest stream's frames come after any other stream's.
OrderInv ==
    Waiting => \A j, k \in DOMAIN toServer :
        j < k /\ Mine(toServer[j]) => toServer[k].kind = "killed" \/ toServer[k].stream = stream

Answers == {"opened", "view", "again", "refused", "lost"}

\* Its answer comes first, and goes on where the call read to or jumps ahead.
AnswerInv ==
    Waiting => \A j \in DOMAIN toServer : Mine(toServer[j]) /\ toServer[j].kind \in Answers =>
        /\ pc = "asked" /\ \A k \in DOMAIN toServer : k < j => ~Mine(toServer[k])
        /\ toServer[j].kind = "opened" => toServer[j].n = taken
        /\ toServer[j].kind = "view" => toServer[j].n > taken
        /\ toServer[j].kind = "again" => taken = 0

\* Its records and its end come after the answer.
OpenedInv ==
    pc = "asked" => \A j \in DOMAIN toServer :
        Mine(toServer[j]) /\ toServer[j].kind \in {"data", "end", "failed"} =>
            \E k \in DOMAIN toServer : k < j /\ Mine(toServer[k]) /\ toServer[k].kind \in {"opened", "view"}

\* Its records come in order, and each follows on the frame before it, or on what was read.
RiseInv ==
    Waiting => \A j, k \in DOMAIN toServer :
        k < j /\ Counted(toServer[j]) /\ Counted(toServer[k]) => toServer[k].n < toServer[j].n

FollowInv ==
    Waiting => \A j \in DOMAIN toServer : Mine(toServer[j]) /\ toServer[j].kind = "data" =>
        \/ pc = "reading" /\ toServer[j].n = taken + 1
        \/ \E k \in DOMAIN toServer : k < j /\ Counted(toServer[k]) /\ toServer[j].n = toServer[k].n + 1

\* The node's next record of the latest stream follows on the last one sent, or read.
NextInv ==
    Waiting /\ consumer = stream =>
        /\ \A k \in DOMAIN toServer : Counted(toServer[k]) => toServer[k].n < next
        /\ \/ pc = "reading" /\ next = taken + 1
           \/ \E k \in DOMAIN toServer : Counted(toServer[k]) /\ next = toServer[k].n + 1

StreamInv == OrderInv /\ AnswerInv /\ OpenedInv /\ RiseInv /\ FollowInv /\ NextInv

IInv == TypeOK /\ CommandInv /\ StartInv /\ CallInv /\ RequestInv /\ SentInv /\ StreamInv
-----------------------------------------------------------------------------
USE ExecAssumption

\* t is s without its first d frames.
Dropped(s, t, d) ==
    /\ \A i \in DOMAIN t : i + d \in DOMAIN s /\ t[i] = s[i + d]
    /\ \A j \in DOMAIN s : j \in 1..d \/ (j - d \in DOMAIN t /\ t[j - d] = s[j])
    /\ DOMAIN s \subseteq Nat \ {0} /\ DOMAIN t \subseteq Nat \ {0}

\* t is s and one more frame.
Appended(s, t, frame) ==
    /\ Len(s) \in Nat /\ DOMAIN s = 1..Len(s) /\ DOMAIN t = 1..(Len(s) + 1)
    /\ t[Len(s) + 1] = frame /\ \A i \in DOMAIN s : t[i] = s[i]

LEMMA TailDropped ==
    ASSUME NEW S, NEW s \in Seq(S), s # <<>>
    PROVE  /\ Head(s) = s[1] /\ Head(s) \in S /\ 1 \in DOMAIN s /\ Tail(s) \in Seq(S)
           /\ Dropped(s, Tail(s), 1)
  BY DEF Dropped

LEMMA SubSeqDropped ==
    ASSUME NEW S, NEW s \in Seq(S), NEW d \in DOMAIN s
    PROVE  SubSeq(s, d + 1, Len(s)) \in Seq(S) /\ Dropped(s, SubSeq(s, d + 1, Len(s)), d) /\ d \in Nat
<1> DEFINE t == SubSeq(s, d + 1, Len(s))
<1>1. Len(s) \in Nat /\ DOMAIN s = 1..Len(s) /\ d \in 1..Len(s) /\ \A i \in 1..Len(s) : s[i] \in S
  OBVIOUS
<1>2. t \in Seq(S) /\ Len(t) = Len(s) - d /\ \A i \in 1..(Len(s) - d) : t[i] = s[i + d]
  BY <1>1, SubSeqProperties, SMTT(30)
<1>3. DOMAIN t = 1..(Len(s) - d)
  BY <1>2
<1> HIDE DEF t
<1>4. \A i \in DOMAIN t : i + d \in DOMAIN s /\ t[i] = s[i + d]
  BY <1>1, <1>2, <1>3
<1>5. \A j \in DOMAIN s : j \in 1..d \/ (j - d \in DOMAIN t /\ t[j - d] = s[j])
  <2> SUFFICES ASSUME NEW j \in DOMAIN s, j \notin 1..d PROVE j - d \in DOMAIN t /\ t[j - d] = s[j]
    OBVIOUS
  <2>1. j - d \in 1..(Len(s) - d) /\ (j - d) + d = j
    BY <1>1
  <2> QED BY <1>2, <1>3, <2>1
<1>6. Dropped(s, t, d)
  BY <1>1, <1>3, <1>4, <1>5 DEF Dropped
<1> QED BY <1>1, <1>2, <1>6 DEF t

LEMMA AppendAppended ==
    ASSUME NEW S, NEW s \in Seq(S), NEW e \in S
    PROVE  Append(s, e) \in Seq(S) /\ Appended(s, Append(s, e), e)
  BY DEF Appended

LEMMA NotDropped == ASSUME NEW S, NEW s \in Seq(S) PROVE Dropped(s, s, 0)
  BY DEF Dropped

LEMMA Typed ==
    ASSUME TypeOK
    PROVE  /\ toNode \in Seq(Frames) /\ toServer \in Seq(Frames)
           /\ DOMAIN toNode \subseteq Nat \ {0} /\ DOMAIN toServer \subseteq Nat \ {0}
           /\ \A i \in DOMAIN toServer : toServer[i] \in Frames
           /\ \A i \in DOMAIN toNode : toNode[i] \in Frames
           /\ Streams \subseteq Nat \ {0} /\ stream # 0
           /\ taken \in Nat /\ end \in Nat /\ next \in Nat /\ first \in Nat
<1>1. toNode \in Seq(Frames) /\ toServer \in Seq(Frames)
  BY DEF TypeOK, Frames
<1>2. Streams \subseteq Nat \ {0} /\ stream # 0
  BY DEF TypeOK, Streams
<1>3. taken \in Nat /\ end \in Nat /\ next \in Nat /\ first \in Nat
  BY DEF TypeOK
<1> QED BY <1>1, <1>2, <1>3

LEMMA PrefixFacts ==
    ASSUME NEW n \in Nat
    PROVE  /\ Prefix(n) \in Seq(Nat) /\ Len(Prefix(n)) = n
           /\ n <= MaxOutput => Prefix(n) \in Seq(1..MaxOutput)
           /\ Append(Prefix(n), n + 1) = Prefix(n + 1)
           /\ Prefix(0) = <<>>
<1>1. Prefix(n) \in Seq(Nat) /\ Len(Prefix(n)) = n
  BY DEF Prefix
<1>2. n <= MaxOutput => Prefix(n) \in Seq(1..MaxOutput)
  BY DEF Prefix
<1>3. Append(Prefix(n), n + 1) = Prefix(n + 1)
  <2>1. Append(Prefix(n), n + 1) \in Seq(Nat) /\ Prefix(n + 1) \in Seq(Nat)
    BY <1>1 DEF Prefix
  <2>2. Len(Append(Prefix(n), n + 1)) = Len(Prefix(n + 1))
    BY <1>1 DEF Prefix
  <2>3. \A i \in 1..(n + 1) : Append(Prefix(n), n + 1)[i] = Prefix(n + 1)[i]
    BY <1>1 DEF Prefix
  <2> QED BY <1>1, <2>1, <2>2, <2>3, SeqEqual
<1>4. Prefix(0) = <<>>
  BY DEF Prefix
<1> QED BY <1>1, <1>2, <1>3, <1>4
-----------------------------------------------------------------------------
\* Of these kinds nothing joined the queue.
Kept(s, t, kinds) ==
    /\ AtMostOne(s, kinds) => AtMostOne(t, kinds)
    /\ Some(t, kinds) => Some(s, kinds)
    /\ \A i \in DOMAIN t : t[i].kind \in kinds => \E j \in DOMAIN s : t[i] = s[j]

LEMMA DroppedKept ==
    ASSUME NEW s, NEW t, NEW d \in Nat, Dropped(s, t, d), NEW kinds
    PROVE  Kept(s, t, kinds)
BY DEF Dropped, AtMostOne, Some, Kept

LEMMA AppendedKept ==
    ASSUME NEW s, NEW t, NEW frame, Appended(s, t, frame), NEW kinds, frame.kind \notin kinds
    PROVE  Kept(s, t, kinds)
BY DEF Appended, AtMostOne, Some, Kept

LEMMA EmptyKept == ASSUME NEW s, NEW kinds PROVE Kept(s, <<>>, kinds) /\ Kept(s, s, kinds)
BY DEF AtMostOne, Some, Kept

\* Once nobody waits there is nothing to say of the latest stream.
LEMMA NotWaiting == ASSUME ~Waiting' PROVE RequestInv' /\ StreamInv'
BY DEF Waiting, RequestInv, StreamInv, OrderInv, AnswerInv, OpenedInv, RiseInv, FollowInv, NextInv

LEMMA NoneMine ==
    ASSUME \A j \in DOMAIN toServer' : ~Mine(toServer[j])', consumer' # stream'
    PROVE  StreamInv'
BY DEF Counted, StreamInv, OrderInv, AnswerInv, OpenedInv, RiseInv, FollowInv, NextInv

\* Frames that were received and are not of the latest stream, or none at all.
LEMMA StreamDropped ==
    ASSUME TypeOK, SentInv, StreamInv, NEW d \in Nat, Dropped(toServer, toServer', d),
           UNCHANGED <<pc, stream, taken>>, end' \in Nat, end <= end',
           consumer' = 0 \/ UNCHANGED <<consumer, next>>,
           Waiting => \A i \in DOMAIN toServer : i <= d => ~Mine(toServer[i])
    PROVE  SentInv' /\ StreamInv'
<1> USE DEF StreamInv
<1>1. /\ \A i \in DOMAIN toServer' : i + d \in DOMAIN toServer /\ toServer'[i] = toServer[i + d]
      /\ DOMAIN toServer \subseteq Nat /\ DOMAIN toServer' \subseteq Nat
  BY DEF Dropped
<1>2. /\ Waiting' <=> Waiting
      /\ \A i \in DOMAIN toServer' : Mine(toServer[i])' <=> Mine(toServer'[i])
      /\ \A i \in DOMAIN toServer' : Counted(toServer[i])' <=> Counted(toServer'[i])
  BY DEF Waiting, Mine, Counted
<1>3. ASSUME Waiting, NEW j \in DOMAIN toServer, Mine(toServer[j])
      PROVE  j - d \in DOMAIN toServer' /\ toServer'[j - d] = toServer[j] /\ j \in Nat
  BY <1>3 DEF Dropped
<1>4. consumer' = stream' => UNCHANGED <<consumer, next>>
  BY Typed
<1>5. SentInv'
  <2>1. \A j \in DOMAIN toServer : toServer[j].n \in Nat
    BY Typed DEF Frames
  <2>2. \A j \in DOMAIN toServer : toServer[j].kind \in {"view", "data"} => toServer[j].n <= end'
    BY <2>1, Typed DEF SentInv
  <2> QED BY <1>1, <2>2 DEF SentInv
<1>6. OrderInv'
  BY <1>1, <1>2 DEF OrderInv
<1>7. AnswerInv'
  BY <1>1, <1>2 DEF AnswerInv
<1>8. OpenedInv'
  <2> SUFFICES ASSUME pc = "asked", NEW j \in DOMAIN toServer', Mine(toServer'[j]),
                      toServer'[j].kind \in {"data", "end", "failed"}
               PROVE  \E k \in DOMAIN toServer' :
                          k < j /\ Mine(toServer'[k]) /\ toServer'[k].kind \in {"opened", "view"}
    BY <1>2 DEF OpenedInv
  <2>1. PICK k \in DOMAIN toServer :
            k < j + d /\ Mine(toServer[k]) /\ toServer[k].kind \in {"opened", "view"}
    BY <1>1 DEF OpenedInv
  <2> QED BY <1>1, <1>3, <2>1 DEF Waiting
<1>9. RiseInv'
  BY <1>1, <1>2 DEF RiseInv
<1>10. FollowInv'
  <2> SUFFICES ASSUME Waiting, NEW j \in DOMAIN toServer', Mine(toServer'[j]), toServer'[j].kind = "data",
                      ~(pc = "reading" /\ toServer'[j].n = taken + 1)
               PROVE  \E k \in DOMAIN toServer' :
                          k < j /\ Counted(toServer'[k]) /\ toServer'[j].n = toServer'[k].n + 1
    BY <1>2 DEF FollowInv
  <2>1. PICK k \in DOMAIN toServer :
            k < j + d /\ Counted(toServer[k]) /\ toServer'[j].n = toServer[k].n + 1
    BY <1>1 DEF FollowInv
  <2>2. k - d \in DOMAIN toServer' /\ toServer'[k - d] = toServer[k] /\ k \in Nat /\ j \in Nat
    BY <1>1, <1>3, <2>1 DEF Counted
  <2> QED BY <2>1, <2>2
<1>11. NextInv'
  <2> SUFFICES ASSUME Waiting, consumer = stream, UNCHANGED <<consumer, next>>
               PROVE  NextInv'
    BY <1>2, <1>4 DEF NextInv
  <2>1. \A k \in DOMAIN toServer' : Counted(toServer'[k]) => toServer'[k].n < next'
    BY <1>1 DEF NextInv
  <2>2. \/ pc = "reading" /\ next = taken + 1
        \/ \E k \in DOMAIN toServer' : Counted(toServer'[k]) /\ next = toServer'[k].n + 1
    BY <1>3 DEF NextInv, Counted
  <2> QED BY <1>2, <2>1, <2>2 DEF NextInv
<1> QED BY <1>5, <1>6, <1>7, <1>8, <1>9, <1>10, <1>11

\* A frame more that is not of the latest stream.
LEMMA StreamOther ==
    ASSUME TypeOK, SentInv, StreamInv, NEW frame, Appended(toServer, toServer', frame),
           frame.kind \in {"view", "data"} => frame.n <= end,
           UNCHANGED <<pc, stream, taken, end>>,
           consumer' # stream \/ UNCHANGED <<consumer, next>>,
           \/ frame.kind = "killed"
           \/ Waiting => frame.stream # stream /\ \A j \in DOMAIN toServer : ~Mine(toServer[j])
    PROVE  SentInv' /\ StreamInv'
<1> USE DEF StreamInv
<1> DEFINE m == Len(toServer) + 1
<1>1. /\ m \in Nat /\ DOMAIN toServer' = DOMAIN toServer \cup {m} /\ toServer'[m] = frame
      /\ \A i \in DOMAIN toServer : toServer'[i] = toServer[i] /\ i \in Nat /\ i < m
  BY DEF Appended
<1> HIDE DEF m
<1>2. /\ Waiting' <=> Waiting
      /\ \A i \in DOMAIN toServer' : Mine(toServer[i])' <=> Mine(toServer'[i])
      /\ \A i \in DOMAIN toServer' : Counted(toServer[i])' <=> Counted(toServer'[i])
  BY DEF Waiting, Mine, Counted
<1>3. Waiting => ~Mine(frame) /\ ~Counted(frame)
  BY DEF Mine, Counted
<1>4. SentInv'
  BY <1>1 DEF SentInv
<1>5. OrderInv'
  BY <1>1, <1>2, <1>3 DEF OrderInv, Mine
<1>6. AnswerInv'
  BY <1>1, <1>2, <1>3 DEF AnswerInv
<1>7. OpenedInv'
  BY <1>1, <1>2, <1>3 DEF OpenedInv, Waiting
<1>8. RiseInv'
  BY <1>1, <1>2, <1>3 DEF RiseInv
<1>9. FollowInv'
  BY <1>1, <1>2, <1>3 DEF FollowInv
<1>10. NextInv'
  BY <1>1, <1>2, <1>3 DEF NextInv
<1> QED BY <1>4, <1>5, <1>6, <1>7, <1>8, <1>9, <1>10

\* The answer to the latest request.
LEMMA StreamAnswer ==
    ASSUME TypeOK, SentInv, NEW frame, Appended(toServer, toServer', frame),
           frame.stream = stream, frame.kind \in Answers, frame.n \in Nat, pc = "asked",
           \A j \in DOMAIN toServer : ~Mine(toServer[j]),
           UNCHANGED <<pc, stream, taken, end>>,
           /\ frame.kind = "opened" => frame.n = taken
           /\ frame.kind = "view" => frame.n > taken /\ frame.n <= end
           /\ frame.kind = "again" => taken = 0,
           consumer' = stream => frame.kind \in {"opened", "view"} /\ next' = frame.n + 1
    PROVE  SentInv' /\ StreamInv'
<1> USE DEF StreamInv
<1> DEFINE m == Len(toServer) + 1
<1>1. /\ m \in Nat /\ DOMAIN toServer' = DOMAIN toServer \cup {m} /\ toServer'[m] = frame
      /\ \A i \in DOMAIN toServer : toServer'[i] = toServer[i] /\ i \in Nat /\ i < m
  BY DEF Appended
<1> HIDE DEF m
<1>2. /\ \A i \in DOMAIN toServer' : Mine(toServer[i])' <=> i = m
      /\ \A i \in DOMAIN toServer' : Counted(toServer[i])' <=> i = m /\ frame.kind \in {"opened", "view"}
  BY <1>1 DEF Mine, Counted, Answers
<1>3. SentInv'
  BY <1>1 DEF SentInv, Answers
<1>4. OrderInv'
  BY <1>1, <1>2 DEF OrderInv
<1>5. AnswerInv'
  BY <1>1, <1>2 DEF AnswerInv
<1>6. OpenedInv'
  BY <1>1, <1>2 DEF OpenedInv, Answers
<1>7. RiseInv'
  BY <1>1, <1>2 DEF RiseInv
<1>8. FollowInv'
  BY <1>1, <1>2 DEF FollowInv, Answers
<1>9. NextInv'
  BY <1>1, <1>2 DEF NextInv
<1> QED BY <1>3, <1>4, <1>5, <1>6, <1>7, <1>8, <1>9

\* What the node's generator sends of the latest stream.
LEMMA StreamPumped ==
    ASSUME TypeOK, SentInv, StreamInv, Waiting, consumer = stream,
           NEW frame, Appended(toServer, toServer', frame), frame.stream = stream,
           UNCHANGED <<pc, stream, taken, end>>,
           \/ /\ frame.kind = "data" /\ frame.n = next /\ next <= end
              /\ UNCHANGED consumer /\ next' = next + 1
           \/ frame.kind \in {"end", "failed"} /\ consumer' = 0
    PROVE  SentInv' /\ StreamInv'
<1> USE DEF StreamInv
<1> DEFINE m == Len(toServer) + 1
<1>1. /\ m \in Nat /\ DOMAIN toServer' = DOMAIN toServer \cup {m} /\ toServer'[m] = frame
      /\ \A i \in DOMAIN toServer : toServer'[i] = toServer[i] /\ i \in Nat /\ i < m
  BY DEF Appended
<1> HIDE DEF m
<1>2. /\ Waiting'
      /\ \A i \in DOMAIN toServer' : Mine(toServer[i])' <=> Mine(toServer'[i])
      /\ \A i \in DOMAIN toServer' : Counted(toServer[i])' <=> Counted(toServer'[i])
  BY DEF Waiting, Mine, Counted
<1>3. /\ Mine(frame) /\ frame.kind \notin Answers
      /\ Counted(frame) <=> frame.kind = "data"
  BY DEF Mine, Counted, Answers
<1>4. \/ pc = "reading" /\ next = taken + 1
      \/ \E k \in DOMAIN toServer : Counted(toServer[k]) /\ next = toServer[k].n + 1
  BY DEF NextInv
<1>5. next \in Nat /\ stream # 0
  BY Typed
<1>6. SentInv'
  BY <1>1 DEF SentInv
<1>7. OrderInv'
  BY <1>1, <1>2 DEF OrderInv
<1>8. AnswerInv'
  BY <1>1, <1>2, <1>3 DEF AnswerInv
<1>9. OpenedInv'
  <2> SUFFICES ASSUME pc = "asked"
               PROVE  \E k \in DOMAIN toServer : Mine(toServer[k]) /\ toServer[k].kind \in {"opened", "view"}
    BY <1>1, <1>2 DEF OpenedInv
  <2>1. PICK k \in DOMAIN toServer : Counted(toServer[k])
    BY <1>4
  <2>2. CASE toServer[k].kind = "data"
    BY <2>1, <2>2 DEF OpenedInv, Counted
  <2> QED BY <2>1, <2>2 DEF Counted
<1>10. RiseInv'
  BY <1>1, <1>2, <1>3 DEF RiseInv, NextInv
<1>11. FollowInv'
  BY <1>1, <1>2, <1>3, <1>4 DEF FollowInv
<1>12. NextInv'
  <2> SUFFICES ASSUME frame.kind = "data", frame.n = next, next' = next + 1 PROVE NextInv'
    BY <1>5 DEF NextInv
  <2>1. \A k \in DOMAIN toServer' : Counted(toServer'[k]) => toServer'[k].n < next'
    <3>1. \A k \in DOMAIN toServer : Counted(toServer[k]) => toServer[k].n < next /\ toServer[k].n \in Nat
      BY Typed DEF NextInv, Frames
    <3> QED BY <1>1, <1>5, <3>1
  <2> QED BY <1>1, <1>2, <1>3, <2>1 DEF NextInv
<1> QED BY <1>6, <1>7, <1>8, <1>9, <1>10, <1>11, <1>12

\* The latest request stays where it is in its queue.
LEMMA RequestKept ==
    ASSUME RequestInv, NEW d \in Nat, Dropped(toNode, toNode', d),
           \A i \in DOMAIN toNode : i <= d => ~MyRequest(toNode[i]),
           UNCHANGED stream, Waiting' => Waiting,
           (\E i \in DOMAIN toNode : MyRequest(toNode[i])) /\ Waiting' =>
               /\ UNCHANGED <<pc, taken>> /\ consumer' # stream
               /\ \A j \in DOMAIN toServer' : ~Mine(toServer'[j]),
           consumer' \in {consumer, 0} \/ \E i \in DOMAIN toNode : MyRequest(toNode[i])
    PROVE  RequestInv'
<1> SUFFICES ASSUME Waiting', Waiting PROVE RequestInv'
  BY DEF RequestInv
<1>1. /\ \A i \in DOMAIN toNode' : i + d \in DOMAIN toNode /\ toNode'[i] = toNode[i + d]
      /\ DOMAIN toNode \subseteq Nat /\ DOMAIN toNode' \subseteq Nat
  BY DEF Dropped
<1>2. /\ \A i \in DOMAIN toNode' : MyRequest(toNode[i])' <=> MyRequest(toNode'[i])
      /\ \A j \in DOMAIN toServer' : Mine(toServer[j])' <=> Mine(toServer'[j])
  BY DEF MyRequest, Mine
<1>3. CASE \E i \in DOMAIN toNode : MyRequest(toNode[i])
  <2>1. PICK r \in DOMAIN toNode : MyRequest(toNode[r])
    BY <1>3
  <2>2. r - d \in DOMAIN toNode' /\ toNode'[r - d] = toNode[r]
    BY <1>1, <2>1 DEF Dropped
  <2>3. \A i \in DOMAIN toNode' : MyRequest(toNode'[i]) =>
            /\ pc' = "asked" /\ toNode'[i].n = taken' /\ consumer' # stream'
            /\ \A j \in DOMAIN toServer' : ~Mine(toServer'[j])
            /\ \A k \in DOMAIN toNode' : toNode'[k].kind \in Requests => k <= i
    BY <1>1, <1>3 DEF RequestInv
  <2> QED BY <1>2, <2>1, <2>2, <2>3 DEF RequestInv
<1>4. CASE ~\E i \in DOMAIN toNode : MyRequest(toNode[i])
  BY <1>1, <1>2, <1>4 DEF RequestInv
<1> QED BY <1>3, <1>4

LEMMA RequestJoined ==
    ASSUME RequestInv, NEW frame, Appended(toNode, toNode', frame), frame.kind \notin Requests,
           UNCHANGED <<pc, stream, taken, consumer, toServer>>
    PROVE  RequestInv'
<1> DEFINE m == Len(toNode) + 1
<1>1. /\ m \in Nat /\ DOMAIN toNode' = DOMAIN toNode \cup {m} /\ toNode'[m] = frame
      /\ \A i \in DOMAIN toNode : toNode'[i] = toNode[i] /\ i \in Nat /\ i < m
  BY DEF Appended
<1> HIDE DEF m
<1>2. /\ \A i \in DOMAIN toNode' : MyRequest(toNode[i])' <=> i \in DOMAIN toNode /\ MyRequest(toNode[i])
      /\ \A j \in DOMAIN toServer' : Mine(toServer[j])' <=> Mine(toServer[j])
      /\ Waiting' <=> Waiting
  BY <1>1 DEF MyRequest, Mine, Waiting
<1> QED BY <1>1, <1>2 DEF RequestInv
-----------------------------------------------------------------------------
NodeType ==
    /\ known \in BOOLEAN /\ alive \in BOOLEAN /\ runs \in 0..1 /\ killed \in BOOLEAN
    /\ end \in 0..MaxOutput /\ exited \in BOOLEAN /\ first \in 1..MaxOutput
    /\ consumer \in {0} \cup Streams /\ next \in 1..(MaxOutput + 1)
    /\ stopping \in BOOLEAN /\ grace \in BOOLEAN

QueueType == toNode \in Seq(Frames) /\ toServer \in Seq(Frames)

CallType ==
    /\ up \in BOOLEAN
    /\ pc \in {"starting", "asked", "attaching", "reading", "returned"}
    /\ asking \in {"exec", "attach"} /\ stream \in Streams /\ taken \in 0..MaxOutput
    /\ shown \in Seq(1..MaxOutput)
    /\ result \in {"none", "exit", "failed", "unknown", "aborted"}
    /\ aborted \in BOOLEAN /\ killing \in {"no", "wanted", "asked", "over"}
    /\ failures \in 0..MaxFailures

LEMMA TypeParts == TypeOK <=> NodeType /\ QueueType /\ CallType
<1>1. (\A q \in {toNode, toServer} : q \in Seq([kind : FrameKinds, stream : Streams, n : 0..MaxOutput]))
          <=> QueueType
  BY DEF QueueType, Frames
<1> QED BY <1>1 DEF TypeOK, NodeType, CallType

LEMMA TypePartsNext == NodeType' /\ QueueType' /\ CallType' => TypeOK'
<1>1. QueueType' => \A q \in {toNode', toServer'} :
                        q \in Seq([kind : FrameKinds, stream : Streams, n : 0..MaxOutput])
  BY DEF QueueType, Frames
<1> QED BY <1>1 DEF TypeOK, NodeType, CallType

LEMMA FrameTyped ==
    ASSUME NEW kind \in FrameKinds, NEW s \in Streams, NEW n \in 0..MaxOutput
    PROVE  /\ Frame(kind, s, n) \in Frames
           /\ Frame(kind, s, n).kind = kind /\ Frame(kind, s, n).stream = s /\ Frame(kind, s, n).n = n
BY DEF Frame, Frames

\* A record put out keeps the tail within the output.
LEMMA RecordedTyped ==
    ASSUME TypeOK, Recorded, end < MaxOutput
    PROVE  /\ end' = end + 1 /\ end' \in 0..MaxOutput
           /\ first' \in 1..MaxOutput /\ (first = 1 \/ first <= end => first' = 1 \/ first' <= end')
BY DEF Recorded, TypeOK

\* The command, the caller's view and the queues as they are: nothing to say but of a
\* longer output, or of a stream that stops.
LEMMA Quiet ==
    ASSUME IInv, UNCHANGED <<pc, stream, taken, shown, result, toNode, toServer, runs>>,
           end' \in Nat, end <= end', consumer' = 0 \/ UNCHANGED <<consumer, next>>
    PROVE  StartInv' /\ CallInv' /\ RequestInv' /\ SentInv' /\ StreamInv'
<1> USE DEF IInv
<1>1. StartInv'
  BY DEF StartInv, Starting, StartSent, StartRefused
<1>2. CallInv'
  BY Typed DEF CallInv, Starting
<1>3. RequestInv'
  <2>1. RequestInv /\ stream # 0
    BY Typed
  <2>2. CASE consumer' = 0
    BY <2>1, <2>2 DEF RequestInv, Waiting, MyRequest, Mine
  <2>3. CASE UNCHANGED consumer
    BY <2>1, <2>3 DEF RequestInv, Waiting, MyRequest, Mine
  <2> QED BY <2>2, <2>3
<1>4. Dropped(toServer, toServer', 0) /\ \A i \in DOMAIN toServer : ~(i <= 0)
  BY Typed, NotDropped
<1>5. SentInv' /\ StreamInv'
  BY <1>4, StreamDropped
<1> QED BY <1>1, <1>2, <1>3, <1>5

\* A step that leaves nobody waiting, and asks for no start.
LEMMA Stopped ==
    ASSUME IInv, ~Waiting', Starting' => Starting, UNCHANGED <<runs, end>>,
           Kept(toNode, toNode', {"exec"}), Kept(toServer, toServer', Refusals),
           Kept(toServer, toServer', {"view", "data"}),
           \/ UNCHANGED <<taken, shown>>
           \/ taken' = 0 /\ shown' = <<>>,
           pc' # "returned" => result' = "none"
    PROVE  StartInv' /\ CallInv' /\ RequestInv' /\ SentInv' /\ StreamInv'
<1> USE DEF IInv
<1>1. StartInv'
  BY DEF StartInv, Starting, StartSent, StartRefused, Kept
<1>2. CallInv'
  <2>1. Prefix(0) = <<>> /\ taken \in Nat /\ end \in Nat
    BY Typed, PrefixFacts
  <2>2. CASE UNCHANGED <<taken, shown>>
    BY <2>2 DEF CallInv, Starting, Prefix
  <2>3. CASE taken' = 0 /\ shown' = <<>>
    BY <2>1, <2>3 DEF CallInv, Starting
  <2> QED BY <2>2, <2>3
<1>3. SentInv'
  BY DEF SentInv, Kept
<1> QED BY <1>1, <1>2, <1>3, NotWaiting
-----------------------------------------------------------------------------
\* The steps that end the wait, or leave the queues as they are.
LEMMA OutputKeeps == ASSUME IInv, Output \/ Exit PROVE IInv'
<1> USE DEF IInv
<1>1. /\ end < MaxOutput /\ alive /\ runs = 1
      /\ Recorded \/ UNCHANGED <<end, first>>
      /\ UNCHANGED <<known, runs, killed, serving, link, call, failures>>
  <2>1. CASE Output
    BY <2>1 DEF Output, TypeOK, CommandInv
  <2>2. CASE Exit
    BY <2>2 DEF Exit, TypeOK, CommandInv
  <2> QED BY <2>1, <2>2
<1>2. /\ exited' \in BOOLEAN /\ alive' \in BOOLEAN /\ (exited' => ~alive')
      /\ alive' => end' = end + 1 /\ end < MaxOutput - 1
  <2>1. CASE Output
    BY <2>1 DEF Output, TypeOK, CommandInv, Recorded
  <2>2. CASE Exit
    BY <2>2 DEF Exit, TypeOK
  <2> QED BY <2>1, <2>2
<1>3. /\ end' \in 0..MaxOutput /\ end <= end' /\ (end' = end \/ end' = end + 1)
      /\ first' \in 1..MaxOutput /\ (first' = 1 \/ first' <= end')
  <2>1. CASE Recorded
    BY <1>1, <2>1, RecordedTyped, Typed DEF CommandInv
  <2>2. CASE UNCHANGED <<end, first>>
    BY <2>2 DEF CommandInv, TypeOK
  <2> QED BY <1>1, <2>1, <2>2
<1>4. TypeOK'
  <2>1. NodeType /\ QueueType /\ CallType
    BY TypeParts
  <2>2. NodeType'
    BY <1>1, <1>2, <1>3, <2>1 DEF NodeType, serving
  <2>3. QueueType' /\ CallType'
    BY <1>1, <2>1 DEF QueueType, CallType, link, call
  <2> QED BY <2>2, <2>3, TypePartsNext
<1>5. CommandInv'
  <2>1. UNCHANGED <<known, runs, consumer, grace>> /\ end \in Nat
    BY <1>1, Typed DEF serving
  <2>2. end' = end + 1 => end' # 0
    BY <2>1
  <2> QED BY <1>1, <1>2, <1>3, <2>1, <2>2 DEF CommandInv
<1>6. StartInv' /\ CallInv' /\ RequestInv' /\ SentInv' /\ StreamInv'
  BY <1>1, <1>3, Quiet DEF serving, link, call
<1> QED BY <1>4, <1>5, <1>6

LEMMA NodeQuietKeeps == ASSUME IInv, StreamStops \/ GraceEnds \/ Connect PROVE IInv'
<1> USE DEF IInv
<1>1. /\ UNCHANGED <<alive, runs, end, exited, first, toNode, toServer, call, failures>>
      /\ \/ Unserved /\ UNCHANGED known
         \/ UNCHANGED <<consumer, next, stopping>> /\ known' = FALSE /\ grace' = FALSE /\ consumer = 0
         \/ UNCHANGED <<consumer, next, stopping, known, grace>>
  <2>1. CASE StreamStops
    BY <2>1 DEF StreamStops, command, link
  <2>2. CASE GraceEnds
    BY <2>2 DEF GraceEnds, link, CommandInv
  <2>3. CASE Connect
    BY <2>3 DEF Connect, command, serving
  <2> QED BY <2>1, <2>2, <2>3
<1>2. {up', killed', grace', stopping', known'} \subseteq BOOLEAN
  BY DEF StreamStops, Unserved, GraceEnds, Connect, command, serving, link, TypeOK
<1>3. TypeOK'
  <2>1. NodeType /\ QueueType /\ CallType
    BY TypeParts
  <2>2. NodeType'
    BY <1>1, <1>2, <2>1 DEF NodeType, Unserved
  <2>3. QueueType' /\ CallType'
    BY <1>1, <1>2, <2>1 DEF QueueType, CallType, call
  <2> QED BY <2>2, <2>3, TypePartsNext
<1>4. CommandInv'
  BY <1>1 DEF CommandInv, Unserved
<1>5. end' \in Nat /\ end <= end'
  BY <1>1, Typed
<1>6. consumer' = 0 \/ UNCHANGED <<consumer, next>>
  BY <1>1 DEF Unserved
<1>7. StartInv' /\ CallInv' /\ RequestInv' /\ SentInv' /\ StreamInv'
  BY <1>1, <1>5, <1>6, Quiet DEF call
<1> QED BY <1>3, <1>4, <1>7

\* An abort ends every wait but that of a reader; so does a kill that cannot be sent.
LEMMA AbortKeeps == ASSUME IInv, Abort \/ KillGivesUp PROVE IInv'
<1> USE DEF IInv
<1>1. NodeType /\ QueueType /\ CallType
  BY TypeParts
<1>2. /\ UNCHANGED <<command, serving, up, toServer, asking, stream, taken, shown, failures>>
      /\ aborted' \in BOOLEAN /\ killing' \in {"wanted", "over"}
      /\ UNCHANGED <<pc, result, toNode>>
         \/ /\ pc' = "returned" /\ result' = "aborted"
            /\ toNode' = toNode \/ toNode' = Append(toNode, Frame("cancel", stream, 0))
  <2>1. CASE Abort
    BY <2>1 DEF Abort, Return, Send
  <2>2. CASE KillGivesUp
    BY <1>1, <2>2 DEF KillGivesUp, Return, link, CallType
  <2> QED BY <2>1, <2>2
<1>3. toNode' \in Seq(Frames) /\ Kept(toNode, toNode', {"exec"})
  <2>1. CASE toNode' = toNode
    BY <1>1, <2>1, EmptyKept DEF QueueType
  <2>2. CASE toNode' = Append(toNode, Frame("cancel", stream, 0))
    <3> DEFINE frame == Frame("cancel", stream, 0)
    <3>1. frame \in Frames /\ frame.kind = "cancel"
      BY <1>1, FrameTyped DEF CallType, FrameKinds
    <3> HIDE DEF frame
    <3>2. toNode' \in Seq(Frames) /\ Appended(toNode, toNode', frame)
      BY <1>1, <2>2, <3>1, AppendAppended DEF QueueType, frame
    <3> QED BY <3>1, <3>2, AppendedKept
  <2> QED BY <1>2, <2>1, <2>2
<1>4. TypeOK'
  <2>1. NodeType' /\ QueueType'
    BY <1>1, <1>2, <1>3 DEF NodeType, QueueType, command, serving
  <2>2. CallType'
    BY <1>1, <1>2 DEF CallType
  <2> QED BY <2>1, <2>2, TypePartsNext
<1>5. CommandInv'
  BY <1>2 DEF CommandInv, command, serving
<1>6. StartInv' /\ CallInv' /\ RequestInv' /\ SentInv' /\ StreamInv'
  <2>1. CASE UNCHANGED <<pc, result, toNode>>
    BY <1>2, <2>1, Quiet, Typed DEF command, serving
  <2>2. CASE pc' = "returned" /\ result' = "aborted"
    <3>1. ~Waiting' /\ ~Starting' /\ UNCHANGED <<runs, end>>
      BY <1>2, <2>2 DEF Waiting, Starting, command
    <3>2. Kept(toServer, toServer', Refusals) /\ Kept(toServer, toServer', {"view", "data"})
      BY <1>2, EmptyKept
    <3> QED BY <1>2, <1>3, <2>2, <3>1, <3>2, Stopped
  <2> QED BY <1>2, <2>1, <2>2
<1> QED BY <1>4, <1>5, <1>6

\* The link, the node or the server is gone, or nothing came of a request in time.
LEMMA FailureKeeps ==
    ASSUME IInv, Drop \/ TimeOut \/ ServerRestarts \/ NodeRestarts \/ WindowPasses
    PROVE  IInv'
<1> USE DEF IInv
<1>1. NodeType /\ QueueType /\ CallType
  BY TypeParts
<1>2. /\ UNCHANGED <<alive, runs, end, exited, first, asking, stream, aborted>>
      /\ \/ UNCHANGED <<known, consumer, next, grace>>
         \/ known' = FALSE /\ consumer' = 0 /\ next' = 1 /\ grace' = FALSE
  BY <1>1 DEF Drop, TimeOut, ServerRestarts, NodeRestarts, WindowPasses, LinkGone, command, serving
<1>3. {up', killed', stopping'} \subseteq BOOLEAN
  BY <1>1 DEF Drop, TimeOut, ServerRestarts, NodeRestarts, WindowPasses, LinkGone, command, serving, link,
              NodeType, CallType
<1>4. killing' \in {"wanted", killing}
  BY DEF Drop, TimeOut, ServerRestarts, NodeRestarts, WindowPasses
<1>5. failures' \in 0..MaxFailures
  BY <1>1 DEF Drop, TimeOut, ServerRestarts, NodeRestarts, WindowPasses, Fails, CallType
<1>6. /\ pc' \in {"returned", "attaching"} \/ (pc' = pc /\ pc \notin {"asked", "reading"})
      /\ pc' # "returned" => pc # "returned" /\ UNCHANGED result
      /\ result' \in {"aborted", "unknown", result}
  <2>1. CASE Drop \/ NodeRestarts
    BY <1>1, <2>1 DEF Drop, NodeRestarts, AttachAgain, Return, CallType
  <2>2. CASE TimeOut \/ ServerRestarts \/ WindowPasses
    BY <1>1, <2>2 DEF TimeOut, ServerRestarts, WindowPasses, Return, CallType
  <2> QED BY <2>1, <2>2
<1>7. \/ UNCHANGED <<taken, shown>>
      \/ taken' = 0 /\ shown' = <<>>
  BY DEF Drop, TimeOut, ServerRestarts, NodeRestarts, WindowPasses
<1>8. /\ toServer' = toServer \/ toServer' = <<>>
      /\ toNode' = toNode \/ toNode' = <<>> \/ toNode' = Append(toNode, Frame("cancel", stream, 0))
  BY DEF Drop, TimeOut, ServerRestarts, NodeRestarts, WindowPasses, LinkGone, Send, link
<1>9. toNode' \in Seq(Frames) /\ Kept(toNode, toNode', {"exec"})
  <2>0. <<>> \in Seq(Frames)
    OBVIOUS
  <2>1. CASE toNode' = toNode \/ toNode' = <<>>
    BY <2>0, <1>1, <2>1, EmptyKept DEF QueueType
  <2>2. CASE toNode' = Append(toNode, Frame("cancel", stream, 0))
    <3> DEFINE frame == Frame("cancel", stream, 0)
    <3>1. frame \in Frames /\ frame.kind = "cancel"
      BY <1>1, FrameTyped DEF CallType, FrameKinds
    <3> HIDE DEF frame
    <3>2. toNode' \in Seq(Frames) /\ Appended(toNode, toNode', frame)
      BY <1>1, <2>2, <3>1, AppendAppended DEF QueueType, frame
    <3> QED BY <3>1, <3>2, AppendedKept
  <2> QED BY <1>8, <2>1, <2>2
<1>10. /\ toServer' \in Seq(Frames)
      /\ Kept(toServer, toServer', Refusals) /\ Kept(toServer, toServer', {"view", "data"})
  <2>1. <<>> \in Seq(Frames)
    OBVIOUS
  <2>2. CASE toServer' = toServer
    BY <1>1, <2>2, EmptyKept DEF QueueType
  <2>3. CASE toServer' = <<>>
    BY <2>1, <2>3, EmptyKept
  <2> QED BY <1>8, <2>2, <2>3
<1>11. TypeOK'
  <2>1. NodeType'
    <3>1. /\ known' \in BOOLEAN /\ grace' \in BOOLEAN
          /\ consumer' \in {0} \cup Streams /\ next' \in 1..(MaxOutput + 1)
      <4>1. CASE UNCHANGED <<known, consumer, next, grace>>
        BY <1>1, <4>1 DEF NodeType
      <4>2. CASE known' = FALSE /\ consumer' = 0 /\ next' = 1 /\ grace' = FALSE
        <5>1. known' \in BOOLEAN /\ grace' \in BOOLEAN
          BY <4>2
        <5>2. consumer' \in {0} \cup Streams /\ next' \in 1..(MaxOutput + 1)
          BY <4>2
        <5> QED BY <5>1, <5>2
      <4> QED BY <1>2, <4>1, <4>2
    <3> QED BY <1>1, <1>2, <1>3, <3>1 DEF NodeType
  <2>2. QueueType'
    BY <1>9, <1>10 DEF QueueType
  <2>3. CallType'
    <3>1. taken' \in 0..MaxOutput
      BY <1>1, <1>7 DEF CallType
    <3>2. shown' \in Seq(1..MaxOutput)
      <4>1. <<>> \in Seq(1..MaxOutput)
        OBVIOUS
      <4>2. shown' = shown \/ shown' = <<>>
        BY <1>7
      <4> QED BY <1>1, <4>1, <4>2 DEF CallType
    <3>3. pc' \in {"starting", "asked", "attaching", "reading", "returned"}
      BY <1>1, <1>6 DEF CallType
    <3> QED BY <1>1, <1>2, <1>3, <1>4, <1>5, <1>6, <3>1, <3>2, <3>3 DEF CallType
  <2> QED BY <2>1, <2>2, <2>3, TypePartsNext
<1>12. CommandInv'
  BY <1>2 DEF CommandInv
<1>13. StartInv' /\ CallInv' /\ RequestInv' /\ SentInv' /\ StreamInv'
  <2>1. ~Waiting' /\ (Starting' => Starting)
    BY <1>6 DEF Waiting, Starting
  <2>2. pc' # "returned" => result' = "none"
    BY <1>6 DEF CallInv
  <2> QED BY <1>2, <1>7, <1>9, <1>10, <2>1, <2>2, Stopped
<1> QED BY <1>11, <1>12, <1>13
-----------------------------------------------------------------------------
\* The latest request is the node's to handle, or behind the one it handles.
LEMMA HeadRequest ==
    ASSUME IInv, toNode # <<>>, toNode[1].kind \in Requests, Waiting
    PROVE  /\ pc = "asked" /\ consumer # stream /\ \A j \in DOMAIN toServer : ~Mine(toServer[j])
           /\ \E i \in DOMAIN toNode : MyRequest(toNode[i])
           /\ toNode[1].stream = stream => toNode[1].n = taken /\ \A k \in DOMAIN toNode : toNode[k].kind \in Requests => k = 1
<1> USE DEF IInv
<1>1. 1 \in DOMAIN toNode /\ \A k \in DOMAIN toNode : k >= 1
  BY Typed, TailDropped
<1>2. \E i \in DOMAIN toNode : MyRequest(toNode[i])
  BY <1>1 DEF RequestInv
<1>3. pc = "asked" /\ consumer # stream /\ \A j \in DOMAIN toServer : ~Mine(toServer[j])
  BY <1>2 DEF RequestInv
<1>4. ASSUME toNode[1].stream = stream
      PROVE  toNode[1].n = taken /\ \A k \in DOMAIN toNode : toNode[k].kind \in Requests => k = 1
  <2>1. MyRequest(toNode[1])
    BY <1>4 DEF MyRequest
  <2>2. toNode[1].n = taken /\ \A k \in DOMAIN toNode : toNode[k].kind \in Requests => k <= 1
    BY <1>1, <2>1 DEF RequestInv
  <2>3. DOMAIN toNode \subseteq Nat
    BY Typed
  <2> QED BY <1>1, <2>2, <2>3
<1> QED BY <1>2, <1>3, <1>4

\* A request was handled: answered on its own stream, which serves from the answer on, or
\* what serves is left as it was.
LEMMA Handling ==
    ASSUME IInv, NEW frame \in Frames, toNode # <<>>, toNode[1].kind \in Requests,
           toNode' = Tail(toNode), toServer' = Append(toServer, frame),
           UNCHANGED <<pc, stream, taken, end>>,
           frame.stream = toNode[1].stream, frame.kind \in Answers,
           frame.kind = "opened" => frame.n = toNode[1].n,
           frame.kind = "view" => frame.n > toNode[1].n /\ frame.n <= end,
           frame.kind = "again" => toNode[1].kind = "exec",
           \/ consumer' = frame.stream /\ next' = frame.n + 1 /\ frame.kind \in {"opened", "view"}
           \/ UNCHANGED <<consumer, next>> /\ consumer = 0
    PROVE  RequestInv' /\ SentInv' /\ StreamInv'
<1> USE DEF IInv
<1>1. /\ Appended(toServer, toServer', frame) /\ Dropped(toNode, toNode', 1)
      /\ 1 \in DOMAIN toNode /\ stream # 0 /\ frame.n \in Nat
      /\ DOMAIN toNode \subseteq Nat \ {0} /\ toNode[1].n \in Nat
  <2>1. /\ toNode \in Seq(Frames) /\ toServer \in Seq(Frames)
        /\ DOMAIN toNode \subseteq Nat \ {0} /\ stream # 0
        /\ \A i \in DOMAIN toNode : toNode[i] \in Frames
    BY Typed
  <2>2. Appended(toServer, toServer', frame)
    BY <2>1, AppendAppended
  <2>3. Dropped(toNode, toNode', 1) /\ 1 \in DOMAIN toNode
    BY <2>1, TailDropped
  <2>4. \A f \in Frames : f.n \in Nat
    BY DEF Frames
  <2> QED BY <2>1, <2>2, <2>3, <2>4
<1>2. CASE ~Waiting
  <2>1. ~Waiting'
    BY <1>2 DEF Waiting
  <2>2. SentInv'
    <3>1. frame.kind \in {"view", "data"} => frame.n <= end
      BY DEF Answers
    <3> QED BY <1>1, <3>1 DEF SentInv, Appended
  <2> QED BY <2>1, <2>2, NotWaiting
<1>3. CASE Waiting /\ toNode[1].stream = stream
  <2>1. /\ pc = "asked" /\ consumer # stream /\ \A j \in DOMAIN toServer : ~Mine(toServer[j])
        /\ toNode[1].n = taken /\ \A k \in DOMAIN toNode : toNode[k].kind \in Requests => k = 1
    BY <1>3, HeadRequest
  <2>2. frame.kind = "again" => taken = 0
    BY <1>1, <2>1 DEF StartInv
  <2>3. SentInv' /\ StreamInv'
    BY <1>1, <1>3, <2>1, <2>2, StreamAnswer
  <2>4. \A k \in DOMAIN toNode' : toNode'[k].kind \notin Requests
    <3>1. \A k \in DOMAIN toNode' : k + 1 \in DOMAIN toNode /\ toNode'[k] = toNode[k + 1] /\ k \in Nat \ {0}
      BY <1>1 DEF Dropped
    <3> QED BY <2>1, <3>1
  <2>5. consumer' \in {0, stream'}
    BY <1>3
  <2>6. RequestInv'
    BY <2>4, <2>5 DEF RequestInv, MyRequest
  <2> QED BY <2>3, <2>6
<1>4. CASE Waiting /\ toNode[1].stream # stream
  <2>1. /\ pc = "asked" /\ consumer # stream /\ \A j \in DOMAIN toServer : ~Mine(toServer[j])
        /\ \E i \in DOMAIN toNode : MyRequest(toNode[i])
    BY <1>4, HeadRequest
  <2>2. consumer' # stream
    BY <1>4, <2>1
  <2>3. frame.kind \in {"view", "data"} => frame.n <= end
    BY DEF Answers
  <2>4. SentInv' /\ StreamInv'
    BY <1>1, <1>4, <2>1, <2>2, <2>3, StreamOther
  <2>5. \A j \in DOMAIN toServer' : ~Mine(toServer'[j])
    BY <1>1, <1>4, <2>1 DEF Appended, Mine
  <2>6. /\ \A i \in DOMAIN toNode : i <= 1 => ~MyRequest(toNode[i])
        /\ Waiting' => Waiting
    BY <1>1, <1>4 DEF MyRequest, Waiting
  <2>7. RequestInv'
    BY <1>1, <2>1, <2>2, <2>5, <2>6, RequestKept
  <2> QED BY <2>4, <2>7
<1> QED BY <1>2, <1>3, <1>4

LEMMA HandleExecKeeps == ASSUME IInv, HandleExec PROVE IInv'
<1> USE DEF IInv
<1>1. NodeType /\ QueueType /\ CallType
  BY TypeParts
<1> DEFINE h == toNode[1]
<1>2. /\ toNode # <<>> /\ h.kind = "exec" /\ toNode' = Tail(toNode) /\ h \in Frames /\ h.n = 0
      /\ Dropped(toNode, toNode', 1) /\ toNode' \in Seq(Frames) /\ 1 \in DOMAIN toNode
      /\ h.stream \in Streams
  <2>1. toNode # <<>> /\ Head(toNode).kind = "exec" /\ toNode' = Tail(toNode)
    BY DEF HandleExec, Asks, Handled
  <2>2. /\ Head(toNode) = h /\ h \in Frames /\ 1 \in DOMAIN toNode /\ Tail(toNode) \in Seq(Frames)
        /\ Dropped(toNode, Tail(toNode), 1)
    BY <1>1, <2>1, TailDropped DEF QueueType
  <2>3. h.stream \in Streams
    BY <2>2 DEF Frames
  <2> QED BY <2>1, <2>2, <2>3 DEF StartInv
<1>3. StartSent /\ runs = 0 /\ ~known /\ consumer = 0 /\ ~Starting /\ ~StartRefused
  BY <1>2 DEF StartSent, Some, StartInv, CommandInv
<1>4. ~Some(toNode', {"exec"})
  BY <1>2 DEF StartInv, AtMostOne, Some, Dropped
<1> DEFINE answer(kind) == Frame(kind, h.stream, 0)
<1>5. /\ UNCHANGED <<killed, end, exited, first, up, call, failures>>
      /\ \/ /\ known' = TRUE /\ alive' = TRUE /\ runs' = 1 /\ consumer' = h.stream /\ next' = 1
            /\ stopping' = FALSE /\ grace' = FALSE /\ toServer' = Append(toServer, answer("opened"))
         \/ /\ UNCHANGED <<known, alive, runs, serving>>
            /\ toServer' = Append(toServer, answer("again")) \/ toServer' = Append(toServer, answer("refused"))
  BY <1>1, <1>2, <1>3 DEF HandleExec, Serve, Reply
<1>6. PICK kind \in {"opened", "again", "refused"} :
          /\ toServer' = Append(toServer, answer(kind))
          /\ \/ /\ kind = "opened" /\ known' = TRUE /\ alive' = TRUE /\ runs' = 1 /\ consumer' = h.stream
                /\ next' = 1 /\ stopping' = FALSE /\ grace' = FALSE
             \/ kind \in Refusals /\ UNCHANGED <<known, alive, runs, serving>>
  BY <1>5 DEF Refusals
<1>7. /\ answer(kind) \in Frames /\ answer(kind).kind = kind /\ answer(kind).stream = h.stream
      /\ answer(kind).n = 0
  BY <1>2, FrameTyped DEF FrameKinds
<1> DEFINE frame == answer(kind)
<1> HIDE DEF answer, frame, h
<1>8. toServer' \in Seq(Frames) /\ Appended(toServer, toServer', frame)
  BY <1>1, <1>6, <1>7, AppendAppended DEF QueueType, frame
<1>9. TypeOK'
  <2>1. NodeType'
    <3>1. UNCHANGED <<killed, end, exited, first>> /\ 1 \in 1..(MaxOutput + 1)
      BY <1>5
    <3>2. CASE UNCHANGED <<known, alive, runs, serving>>
      BY <1>1, <3>1, <3>2 DEF NodeType, serving
    <3>3. CASE kind = "opened"
      <4>1. /\ known' = TRUE /\ alive' = TRUE /\ runs' = 1 /\ consumer' = h.stream
            /\ next' = 1 /\ stopping' = FALSE /\ grace' = FALSE
        BY <1>6, <3>3 DEF Refusals
      <4>2. known' \in BOOLEAN /\ alive' \in BOOLEAN /\ stopping' \in BOOLEAN /\ grace' \in BOOLEAN
        BY <4>1
      <4>3. runs' \in 0..1 /\ next' \in 1..(MaxOutput + 1) /\ consumer' \in {0} \cup Streams
        BY <1>2, <4>1
      <4> QED BY <1>1, <3>1, <4>2, <4>3 DEF NodeType
    <3> QED BY <1>6, <3>2, <3>3
  <2>2. QueueType' /\ CallType'
    BY <1>1, <1>2, <1>5, <1>8 DEF QueueType, CallType, call
  <2> QED BY <2>1, <2>2, TypePartsNext
<1>10. CommandInv'
  <2>1. ~exited /\ end = 0 /\ 0 < MaxOutput
    BY <1>3 DEF CommandInv
  <2>2. CASE runs' = 1
    BY <1>5, <1>6, <2>1, <2>2 DEF CommandInv, serving, NodeType
  <2>3. CASE UNCHANGED <<known, alive, runs, serving>>
    BY <1>5, <2>3 DEF CommandInv, serving
  <2> QED BY <1>6, <2>2, <2>3
<1>11. StartInv'
  <2>1. ~Starting' /\ ~StartSent'
    BY <1>3, <1>4, <1>5 DEF Starting, StartSent, Some, call
  <2>2. AtMostOne(toNode', {"exec"})
    BY <1>4 DEF AtMostOne, Some
  <2>3. AtMostOne(toServer', Refusals)
    BY <1>3, <1>8 DEF AtMostOne, StartRefused, Some, Appended
  <2>4. StartRefused' => runs' = 0
    <3>1. CASE kind = "opened"
      BY <1>3, <1>7, <1>8, <3>1 DEF StartRefused, Some, Appended, Refusals, frame
    <3>2. CASE UNCHANGED <<known, alive, runs, serving>>
      BY <1>3, <3>2
    <3> QED BY <1>6, <3>1, <3>2
  <2>5. \A i \in DOMAIN toNode' : toNode'[i].kind # "exec"
    BY <1>4 DEF Some
  <2> QED BY <2>1, <2>2, <2>3, <2>4, <2>5 DEF StartInv
<1>12. CallInv'
  BY <1>5 DEF CallInv, call, Starting, Prefix
<1>13. RequestInv' /\ SentInv' /\ StreamInv'
  <2>1. UNCHANGED <<pc, stream, taken, end>>
    BY <1>5 DEF call
  <2>2. frame \in Frames /\ frame.stream = toNode[1].stream /\ frame.kind = kind /\ frame.n = 0
        /\ toServer' = Append(toServer, frame) /\ toNode[1].kind = "exec" /\ toNode[1].n = 0
    BY <1>2, <1>6, <1>7 DEF frame, h
  <2>3. \/ consumer' = frame.stream /\ next' = frame.n + 1 /\ frame.kind \in {"opened", "view"}
        \/ UNCHANGED <<consumer, next>> /\ consumer = 0
    BY <1>3, <1>6, <2>2 DEF serving, h
  <2>4. frame.kind \in Answers /\ frame.kind # "view" /\ toNode[1].kind \in Requests
    BY <1>6, <2>2 DEF Answers, Refusals, Requests
  <2> QED BY <1>2, <2>1, <2>2, <2>3, <2>4, Handling
<1> QED BY <1>9, <1>10, <1>11, <1>12, <1>13

LEMMA HandleAttachKeeps == ASSUME IInv, HandleAttach PROVE IInv'
<1> USE DEF IInv
<1>1. NodeType /\ QueueType /\ CallType
  BY TypeParts
<1> DEFINE h == toNode[1]
<1>2. /\ toNode # <<>> /\ h.kind = "attach" /\ toNode' = Tail(toNode) /\ h \in Frames /\ Head(toNode) = h
      /\ Dropped(toNode, toNode', 1) /\ toNode' \in Seq(Frames)
      /\ h.stream \in Streams /\ h.n \in 0..MaxOutput
  <2>1. toNode # <<>> /\ Head(toNode).kind = "attach" /\ toNode' = Tail(toNode)
    BY DEF HandleAttach, Asks, Handled
  <2>2. /\ Head(toNode) = h /\ h \in Frames /\ Tail(toNode) \in Seq(Frames)
        /\ Dropped(toNode, Tail(toNode), 1)
    BY <1>1, <2>1, TailDropped DEF QueueType
  <2>3. h.stream \in Streams /\ h.n \in 0..MaxOutput
    BY <2>2 DEF Frames
  <2> QED BY <2>1, <2>2, <2>3
<1> HIDE DEF h
<1>3. UNCHANGED <<command, up, call, failures>>
  BY DEF HandleAttach
<1>4. /\ end \in 0..MaxOutput /\ first \in Nat /\ (first = 1 \/ first <= end)
  BY <1>1 DEF NodeType, CommandInv
<1>5. \E kind \in {"opened", "view", "lost"}, n \in 0..MaxOutput :
          /\ toServer' = Append(toServer, Frame(kind, h.stream, n))
          /\ kind = "opened" => n = h.n
          /\ kind = "view" => n > h.n /\ n <= end
          /\ \/ known /\ kind # "lost" /\ Serve(h.stream, n)
             \/ ~known /\ kind = "lost" /\ UNCHANGED serving
  <2>1. CASE ~known
    <3>1. toServer' = Append(toServer, Frame("lost", h.stream, 0)) /\ UNCHANGED serving
      BY <1>2, <2>1 DEF HandleAttach, Reply
    <3> QED BY <2>1, <3>1
  <2>2. CASE known /\ h.n + 1 < first
    <3>1. toServer' = Append(toServer, Frame("view", h.stream, end)) /\ Serve(h.stream, end)
      BY <1>2, <2>2 DEF HandleAttach, Reply
    <3>2. end > h.n
      BY <1>2, <1>4, <2>2
    <3> QED BY <1>4, <2>2, <3>1, <3>2
  <2>3. CASE known /\ ~(h.n + 1 < first)
    <3>1. toServer' = Append(toServer, Frame("opened", h.stream, h.n)) /\ Serve(h.stream, h.n)
      BY <1>2, <2>3 DEF HandleAttach, Reply
    <3> QED BY <1>2, <2>3, <3>1
  <2> QED BY <2>1, <2>2, <2>3
<1>6. PICK kind \in {"opened", "view", "lost"}, n \in 0..MaxOutput :
          /\ toServer' = Append(toServer, Frame(kind, h.stream, n))
          /\ kind = "opened" => n = h.n
          /\ kind = "view" => n > h.n /\ n <= end
          /\ \/ known /\ kind # "lost" /\ Serve(h.stream, n)
             \/ ~known /\ kind = "lost" /\ UNCHANGED serving
  BY <1>5
<1> DEFINE frame == Frame(kind, h.stream, n)
<1>7. frame \in Frames /\ frame.kind = kind /\ frame.stream = h.stream /\ frame.n = n
  BY <1>2, FrameTyped DEF FrameKinds
<1> HIDE DEF frame
<1>8. toServer' \in Seq(Frames) /\ Appended(toServer, toServer', frame) /\ toServer' = Append(toServer, frame)
  BY <1>1, <1>6, <1>7, AppendAppended DEF QueueType, frame
<1>9. TypeOK'
  <2>1. consumer' \in {0} \cup Streams /\ next' \in 1..(MaxOutput + 1)
    BY <1>1, <1>2, <1>6 DEF Serve, serving, NodeType
  <2>2. stopping' \in BOOLEAN /\ grace' \in BOOLEAN
    BY <1>1, <1>6 DEF Serve, serving, NodeType
  <2>3. NodeType'
    BY <1>1, <1>3, <2>1, <2>2 DEF NodeType, command
  <2>4. QueueType' /\ CallType'
    BY <1>1, <1>2, <1>3, <1>8 DEF QueueType, CallType, call
  <2> QED BY <2>3, <2>4, TypePartsNext
<1>10. CommandInv'
  BY <1>3, <1>6 DEF CommandInv, command, serving, Serve
<1>11. StartInv'
  <2>1. Kept(toNode, toNode', {"exec"}) /\ Kept(toServer, toServer', Refusals)
    BY <1>2, <1>7, <1>8, DroppedKept, AppendedKept DEF Refusals
  <2> QED BY <1>3, <2>1 DEF StartInv, Starting, StartSent, StartRefused, Kept, call, command
<1>12. CallInv'
  BY <1>3 DEF CallInv, call, command, Starting, Prefix
<1>13. RequestInv' /\ SentInv' /\ StreamInv'
  <2>1. UNCHANGED <<pc, stream, taken, end>>
    BY <1>3 DEF call, command
  <2>2. /\ frame.stream = toNode[1].stream /\ toNode[1].kind \in Requests
        /\ frame.kind \in Answers /\ frame.kind # "again"
        /\ frame.kind = "opened" => frame.n = toNode[1].n
        /\ frame.kind = "view" => frame.n > toNode[1].n /\ frame.n <= end
    BY <1>2, <1>6, <1>7 DEF h, Answers, Requests
  <2>3. \/ consumer' = frame.stream /\ next' = frame.n + 1 /\ frame.kind \in {"opened", "view"}
        \/ UNCHANGED <<consumer, next>> /\ consumer = 0
    BY <1>6, <1>7 DEF serving, Serve, CommandInv
  <2> QED BY <1>2, <1>7, <1>8, <2>1, <2>2, <2>3, Handling
<1> QED BY <1>9, <1>10, <1>11, <1>12, <1>13

\* A cancel and a kill are no requests, and what they send is of no stream.
LEMMA HandleEndsKeep == ASSUME IInv, HandleKill \/ HandleCancel PROVE IInv'
<1> USE DEF IInv
<1>1. NodeType /\ QueueType /\ CallType
  BY TypeParts
<1> DEFINE h == toNode[1]  frame == Frame("killed", h.stream, 0)
<1>2. /\ h.kind \notin Requests /\ Head(toNode) = h
      /\ Dropped(toNode, toNode', 1) /\ toNode' \in Seq(Frames) /\ h.stream \in Streams
  <2>1. toNode # <<>> /\ Head(toNode).kind \in {"kill", "cancel"} /\ toNode' = Tail(toNode)
    BY DEF HandleKill, HandleCancel, Asks, Handled
  <2>2. /\ Head(toNode) = h /\ h \in Frames /\ Tail(toNode) \in Seq(Frames)
        /\ Dropped(toNode, Tail(toNode), 1)
    BY <1>1, <2>1, TailDropped DEF QueueType
  <2> QED BY <2>1, <2>2 DEF Requests, Frames
<1> HIDE DEF h
<1>3. /\ UNCHANGED <<known, alive, runs, end, exited, first, up, call, failures>>
      /\ killed' \in BOOLEAN
      /\ toServer' = toServer \/ toServer' = Append(toServer, frame)
      /\ Unserved \/ UNCHANGED serving
  BY <1>1, <1>2 DEF HandleKill, HandleCancel, Reply, NodeType, command
<1>4. frame \in Frames /\ frame.kind = "killed"
  BY <1>2, FrameTyped DEF FrameKinds
<1> HIDE DEF frame
<1>5. /\ toServer' \in Seq(Frames)
      /\ Dropped(toServer, toServer', 0) \/ Appended(toServer, toServer', frame)
  BY <1>1, <1>3, <1>4, AppendAppended, NotDropped DEF QueueType
<1>6. consumer' = 0 \/ UNCHANGED <<consumer, next>>
  BY <1>3 DEF Unserved, serving
<1>7. TypeOK'
  <2>1. consumer' \in {0} \cup Streams /\ next' \in 1..(MaxOutput + 1)
    BY <1>1, <1>3 DEF Unserved, serving, NodeType
  <2>2. stopping' \in BOOLEAN /\ grace' \in BOOLEAN
    BY <1>1, <1>3 DEF Unserved, serving, NodeType
  <2>3. NodeType'
    BY <1>1, <1>3, <2>1, <2>2 DEF NodeType
  <2>4. QueueType' /\ CallType'
    BY <1>1, <1>2, <1>3, <1>5 DEF QueueType, CallType, call
  <2> QED BY <2>3, <2>4, TypePartsNext
<1>8. CommandInv'
  BY <1>3 DEF CommandInv, serving, Unserved
<1>9. StartInv'
  <2>1. Kept(toNode, toNode', {"exec"}) /\ Kept(toServer, toServer', Refusals)
    BY <1>2, <1>4, <1>5, DroppedKept, AppendedKept DEF Refusals
  <2> QED BY <1>3, <2>1 DEF StartInv, Starting, StartSent, StartRefused, Kept, call
<1>10. CallInv'
  BY <1>3 DEF CallInv, call, Starting, Prefix
<1>11. RequestInv'
  <2>1. \A i \in DOMAIN toNode : i <= 1 => ~MyRequest(toNode[i])
    BY <1>2, Typed DEF MyRequest, h
  <2>2. UNCHANGED <<pc, taken, stream>> /\ (Waiting' <=> Waiting)
    BY <1>3 DEF call, Waiting
  <2>3. ASSUME \A j \in DOMAIN toServer : ~Mine(toServer[j])
        PROVE  \A j \in DOMAIN toServer' : ~Mine(toServer'[j])
    BY <1>4, <1>5, <2>3 DEF Mine, Dropped, Appended
  <2>4. (\E i \in DOMAIN toNode : MyRequest(toNode[i])) /\ Waiting =>
            consumer' # stream /\ \A j \in DOMAIN toServer : ~Mine(toServer[j])
    BY <1>6, Typed DEF RequestInv
  <2> QED BY <1>2, <1>6, <2>1, <2>2, <2>3, <2>4, RequestKept
<1>12. SentInv' /\ StreamInv'
  <2>1. UNCHANGED <<pc, stream, taken, end>> /\ end' \in Nat /\ end <= end'
    BY <1>3, Typed DEF call
  <2>2. CASE Dropped(toServer, toServer', 0)
    <3>1. \A i \in DOMAIN toServer : ~(i <= 0)
      BY Typed
    <3> QED BY <1>6, <2>1, <2>2, <3>1, StreamDropped
  <2>3. CASE Appended(toServer, toServer', frame)
    <3>1. consumer' # stream \/ UNCHANGED <<consumer, next>>
      BY <1>6, Typed
    <3> QED BY <1>4, <2>1, <2>3, <3>1, StreamOther
  <2> QED BY <1>5, <2>2, <2>3
<1> QED BY <1>7, <1>8, <1>9, <1>10, <1>11, <1>12

\* The generator sends of the latest stream, or of one whose caller asked again: that
\* request is on its way still.
LEMMA PumpKeeps == ASSUME IInv, Pump PROVE IInv'
<1> USE DEF IInv
<1>1. NodeType /\ QueueType /\ CallType
  BY TypeParts
<1>2. /\ consumer \in Streams /\ known /\ ~grace /\ consumer # 0
      /\ UNCHANGED <<command, up, toNode, call, failures>>
  BY <1>1, Typed DEF Pump, NodeType, CommandInv
<1>3. \E kind \in {"data", "end", "failed"}, n \in 0..MaxOutput :
          /\ toServer' = Append(toServer, Frame(kind, consumer, n))
          /\ \/ /\ kind = "data" /\ n = next /\ next <= end /\ next' = next + 1
                /\ UNCHANGED <<consumer, stopping, grace>>
             \/ kind # "data" /\ Unserved
  <2>1. CASE next < first /\ Reply(Frame("failed", consumer, 0)) /\ Unserved
    BY <2>1 DEF Reply
  <2>2. CASE /\ next \in first..end /\ Reply(Frame("data", consumer, next))
             /\ next' = next + 1 /\ UNCHANGED <<consumer, stopping, grace>>
    <3>1. next \in 0..MaxOutput /\ next <= end
      BY <1>1, <2>2 DEF NodeType
    <3> QED BY <2>2, <3>1 DEF Reply
  <2>3. CASE next > end /\ exited /\ Reply(Frame("end", consumer, 0)) /\ Unserved
    BY <2>3 DEF Reply
  <2> QED BY <2>1, <2>2, <2>3 DEF Pump
<1>4. PICK kind \in {"data", "end", "failed"}, n \in 0..MaxOutput :
          /\ toServer' = Append(toServer, Frame(kind, consumer, n))
          /\ \/ /\ kind = "data" /\ n = next /\ next <= end /\ next' = next + 1
                /\ UNCHANGED <<consumer, stopping, grace>>
             \/ kind # "data" /\ Unserved
  BY <1>3
<1> DEFINE frame == Frame(kind, consumer, n)
<1>5. frame \in Frames /\ frame.kind = kind /\ frame.stream = consumer /\ frame.n = n
  BY <1>2, FrameTyped DEF FrameKinds
<1> HIDE DEF frame
<1>6. toServer' \in Seq(Frames) /\ Appended(toServer, toServer', frame)
  BY <1>1, <1>4, <1>5, AppendAppended DEF QueueType, frame
<1>7. TypeOK'
  <2>1. consumer' \in {0} \cup Streams /\ next' \in 1..(MaxOutput + 1)
    BY <1>1, <1>4 DEF Unserved, NodeType
  <2>2. stopping' \in BOOLEAN /\ grace' \in BOOLEAN
    BY <1>1, <1>4 DEF Unserved, NodeType
  <2>3. NodeType'
    BY <1>1, <1>2, <2>1, <2>2 DEF NodeType, command
  <2>4. QueueType' /\ CallType'
    BY <1>1, <1>2, <1>6 DEF QueueType, CallType, call
  <2> QED BY <2>3, <2>4, TypePartsNext
<1>8. CommandInv'
  <2>1. ~grace' \/ consumer' = 0
    BY <1>2, <1>4 DEF Unserved
  <2> QED BY <1>2, <2>1 DEF CommandInv, command
<1>9. StartInv'
  <2>1. Kept(toNode, toNode', {"exec"}) /\ Kept(toServer, toServer', Refusals)
    BY <1>2, <1>5, <1>6, EmptyKept, AppendedKept DEF Refusals
  <2> QED BY <1>2, <2>1 DEF StartInv, Starting, StartSent, StartRefused, Kept, call, command
<1>10. CallInv'
  BY <1>2 DEF CallInv, call, command, Starting, Prefix
<1>11. UNCHANGED <<pc, stream, taken, end>> /\ (Waiting' <=> Waiting)
  BY <1>2 DEF call, command, Waiting
<1>12. consumer' = consumer \/ consumer' = 0
  BY <1>4 DEF Unserved
<1>13. CASE ~Waiting
  <2>1. SentInv'
    BY <1>4, <1>5, <1>6, <1>11 DEF SentInv, Appended
  <2> QED BY <1>7, <1>8, <1>9, <1>10, <1>11, <1>13, <2>1, NotWaiting
<1>14. CASE Waiting /\ consumer = stream
  <2>1. ~\E i \in DOMAIN toNode : MyRequest(toNode[i])
    BY <1>14 DEF RequestInv
  <2>2. RequestInv'
    <3>1. Dropped(toNode, toNode', 0)
      BY <1>1, <1>2, NotDropped DEF QueueType
    <3> QED BY <1>11, <1>12, <2>1, <3>1, RequestKept
  <2>3. SentInv' /\ StreamInv'
    <3>1. \/ /\ frame.kind = "data" /\ frame.n = next /\ next <= end
             /\ UNCHANGED consumer /\ next' = next + 1
          \/ frame.kind \in {"end", "failed"} /\ consumer' = 0
      BY <1>4, <1>5 DEF Unserved
    <3> QED BY <1>5, <1>6, <1>11, <1>14, <3>1, StreamPumped
  <2> QED BY <1>7, <1>8, <1>9, <1>10, <2>2, <2>3
<1>15. CASE Waiting /\ consumer # stream
  <2>1. /\ \A j \in DOMAIN toServer : ~Mine(toServer[j])
        /\ \E i \in DOMAIN toNode : MyRequest(toNode[i])
    BY <1>2, <1>15 DEF RequestInv
  <2>2. consumer' # stream
    BY <1>12, <1>15, Typed
  <2>3. RequestInv'
    <3>1. Dropped(toNode, toNode', 0) /\ \A i \in DOMAIN toNode : ~(i <= 0)
      BY <1>1, <1>2, NotDropped, Typed DEF QueueType
    <3>2. \A j \in DOMAIN toServer' : ~Mine(toServer'[j])
      BY <1>5, <1>6, <1>15, <2>1 DEF Appended, Mine
    <3> QED BY <1>11, <1>12, <2>1, <2>2, <3>1, <3>2, RequestKept
  <2>4. SentInv' /\ StreamInv'
    <3>1. frame.kind \in {"view", "data"} => frame.n <= end
      BY <1>4, <1>5
    <3> QED BY <1>5, <1>6, <1>11, <1>15, <2>1, <2>2, <3>1, StreamOther
  <2> QED BY <1>7, <1>8, <1>9, <1>10, <2>3, <2>4
<1> QED BY <1>13, <1>14, <1>15

LEMMA KillKeeps == ASSUME IInv, Kill PROVE IInv'
<1> USE DEF IInv
<1>1. NodeType /\ QueueType /\ CallType
  BY TypeParts
<1> DEFINE frame == Frame("kill", stream, 0)
<1>2. /\ toNode' = Append(toNode, frame) /\ killing' = "asked"
      /\ UNCHANGED <<command, serving, up, toServer, pc, asking, stream, taken, shown, result, aborted, failures>>
  BY DEF Kill, Send
<1>3. frame \in Frames /\ frame.kind = "kill"
  BY <1>1, FrameTyped DEF FrameKinds, CallType
<1> HIDE DEF frame
<1>4. toNode' \in Seq(Frames) /\ Appended(toNode, toNode', frame)
  BY <1>1, <1>2, <1>3, AppendAppended DEF QueueType
<1>5. TypeOK'
  <2>1. NodeType' /\ QueueType'
    BY <1>1, <1>2, <1>4 DEF NodeType, QueueType, command, serving
  <2>2. CallType'
    BY <1>1, <1>2 DEF CallType
  <2> QED BY <2>1, <2>2, TypePartsNext
<1>6. CommandInv'
  BY <1>2 DEF CommandInv, command, serving
<1>7. StartInv'
  <2>1. Kept(toNode, toNode', {"exec"}) /\ Kept(toServer, toServer', Refusals)
    BY <1>2, <1>3, <1>4, EmptyKept, AppendedKept
  <2> QED BY <1>2, <2>1 DEF StartInv, Starting, StartSent, StartRefused, Kept, command
<1>8. CallInv'
  BY <1>2 DEF CallInv, command, Starting, Prefix
<1>9. RequestInv'
  <2>1. frame.kind \notin Requests /\ UNCHANGED <<pc, stream, taken, consumer, toServer>>
    BY <1>2, <1>3 DEF Requests, serving
  <2> QED BY <1>4, <2>1, RequestJoined
<1>10. SentInv' /\ StreamInv'
  <2>1. Dropped(toServer, toServer', 0) /\ \A i \in DOMAIN toServer : ~(i <= 0)
    BY <1>1, <1>2, NotDropped, Typed DEF QueueType
  <2>2. end' \in Nat /\ end <= end' /\ UNCHANGED <<consumer, next>>
    BY <1>2, Typed DEF command, serving
  <2> QED BY <1>2, <2>1, <2>2, StreamDropped
<1> QED BY <1>5, <1>6, <1>7, <1>8, <1>9, <1>10

\* A request on a stream no frame, nor the node, has left.
LEMMA AskKeeps == ASSUME IInv, Ask PROVE IInv'
<1> USE DEF IInv
<1>1. NodeType /\ QueueType /\ CallType
  BY TypeParts
<1> DEFINE frame == Frame(asking', stream', taken)
<1>2. /\ pc \in {"starting", "attaching"} /\ pc' = "asked" /\ ~Waiting
      /\ asking' = (IF pc = "starting" THEN "exec" ELSE "attach")
      /\ UNCHANGED <<command, serving, up, toServer, taken, shown, result, aborted, killing, failures>>
      /\ pc = "starting" => taken = 0
  BY DEF Ask, CallInv, Starting, Waiting
<1>3. toNode' = Append(toNode, frame) /\ stream' \in FreeStreams
  <2>1. toNode' = Append(toNode, Frame(asking', NextStream, IF pc = "starting" THEN 0 ELSE taken))
    BY DEF Ask, Send
  <2>2. stream' = NextStream /\ NextStream \in FreeStreams
    BY DEF Ask, NextStream
  <2>3. (IF pc = "starting" THEN 0 ELSE taken) = taken
    BY <1>2
  <2> QED BY <2>1, <2>2, <2>3
<1>4. /\ stream' \in Streams /\ stream' # consumer
      /\ \A i \in DOMAIN toNode : toNode[i].stream # stream'
      /\ \A i \in DOMAIN toServer : toServer[i].stream # stream'
  BY <1>3 DEF FreeStreams
<1>5. frame \in Frames /\ frame.kind = asking' /\ frame.stream = stream' /\ frame.n = taken
  BY <1>1, <1>2, <1>4, FrameTyped DEF FrameKinds, CallType
<1> HIDE DEF frame
<1>6. toNode' \in Seq(Frames) /\ Appended(toNode, toNode', frame)
  BY <1>1, <1>3, <1>5, AppendAppended DEF QueueType
<1>7. TypeOK'
  <2>1. NodeType' /\ QueueType'
    BY <1>1, <1>2, <1>6 DEF NodeType, QueueType, command, serving
  <2>2. CallType'
    BY <1>1, <1>2, <1>4 DEF CallType
  <2> QED BY <2>1, <2>2, TypePartsNext
<1>8. CommandInv'
  BY <1>2 DEF CommandInv, command, serving
<1>9. StartInv'
  <2>1. ~Starting' /\ UNCHANGED <<runs, toServer>>
    BY <1>2 DEF Starting, command
  <2>2. CASE Starting
    <3>1. ~StartSent /\ ~StartRefused /\ runs = 0 /\ taken = 0
      BY <1>2, <2>2 DEF StartInv, Starting
    <3>2. /\ AtMostOne(toNode', {"exec"})
          /\ \A i \in DOMAIN toNode' : toNode'[i].kind = "exec" => toNode'[i].n = 0
      BY <1>5, <1>6, <3>1 DEF AtMostOne, StartSent, Some, Appended
    <3> QED BY <2>1, <3>1, <3>2 DEF StartInv, StartRefused
  <2>3. CASE ~Starting
    <3>1. Kept(toNode, toNode', {"exec"})
      BY <1>2, <1>5, <1>6, <2>3, AppendedKept DEF Starting
    <3> QED BY <2>1, <3>1 DEF StartInv, StartSent, StartRefused, Kept
  <2> QED BY <2>2, <2>3
<1>10. CallInv'
  BY <1>2 DEF CallInv, command, Starting, Prefix
<1>11. \A j \in DOMAIN toServer' : ~Mine(toServer[j])'
  BY <1>2, <1>4 DEF Mine
<1>12. consumer' # stream'
  BY <1>2, <1>4 DEF serving
<1>13. RequestInv'
  <2> DEFINE m == Len(toNode) + 1
  <2>1. /\ m \in Nat /\ DOMAIN toNode' = DOMAIN toNode \cup {m} /\ toNode'[m] = frame
        /\ \A i \in DOMAIN toNode : toNode'[i] = toNode[i] /\ i \in Nat /\ i < m
    BY <1>6 DEF Appended
  <2> HIDE DEF m
  <2>2. \A i \in DOMAIN toNode' : MyRequest(toNode[i])' <=> i = m
    BY <1>2, <1>4, <1>5, <2>1 DEF MyRequest, Requests
  <2>3. \A i \in DOMAIN toNode' : i <= m
    BY <2>1
  <2>4. toNode'[m].n = taken' /\ pc' = "asked" /\ m \in DOMAIN toNode'
    BY <1>2, <1>5, <2>1
  <2> QED BY <1>11, <1>12, <2>2, <2>3, <2>4 DEF RequestInv
<1>14. StreamInv'
  BY <1>11, <1>12, NoneMine
<1>15. SentInv'
  BY <1>2 DEF SentInv, command
<1> QED BY <1>7, <1>8, <1>9, <1>10, <1>13, <1>14, <1>15
-----------------------------------------------------------------------------
\* The head of the latest stream is read: what follows goes on from it.
LEMMA StreamRead ==
    ASSUME IInv, toServer # <<>>, toServer' = Tail(toServer), Waiting, Counted(toServer[1]),
           pc = "asked" => toServer[1].kind \in {"opened", "view"},
           pc' = "reading", taken' = toServer[1].n,
           UNCHANGED <<stream, toNode, consumer, next, end>>
    PROVE  RequestInv' /\ SentInv' /\ StreamInv'
<1> USE DEF IInv, StreamInv
<1>1. /\ 1 \in DOMAIN toServer /\ Mine(toServer[1])
      /\ \A i \in DOMAIN toServer' : i + 1 \in DOMAIN toServer /\ toServer'[i] = toServer[i + 1]
      /\ \A j \in DOMAIN toServer : j = 1 \/ (j - 1 \in DOMAIN toServer' /\ toServer'[j - 1] = toServer[j])
      /\ DOMAIN toServer \subseteq Nat \ {0} /\ DOMAIN toServer' \subseteq Nat \ {0}
      /\ \A j \in DOMAIN toServer : toServer[j].n \in Nat
  <2>1. toServer \in Seq(Frames) /\ \A j \in DOMAIN toServer : toServer[j] \in Frames
    BY Typed
  <2>2. \A j \in DOMAIN toServer : toServer[j].n \in Nat
    BY <2>1 DEF Frames
  <2>3. 1 \in DOMAIN toServer /\ Dropped(toServer, toServer', 1)
    BY <2>1, TailDropped
  <2>4. Mine(toServer[1])
    BY DEF Counted
  <2>5. \A j \in DOMAIN toServer : j \in 1..1 => j = 1
    OBVIOUS
  <2> QED BY <2>2, <2>3, <2>4, <2>5 DEF Dropped
<1>2. /\ Waiting'
      /\ \A i \in DOMAIN toServer' : Mine(toServer[i])' <=> Mine(toServer'[i])
      /\ \A i \in DOMAIN toServer' : Counted(toServer[i])' <=> Counted(toServer'[i])
  BY DEF Waiting, Mine, Counted
<1>3. pc = "reading" => toServer[1].n = taken + 1 /\ toServer[1].kind = "data"
  <2> SUFFICES ASSUME pc = "reading" PROVE toServer[1].n = taken + 1 /\ toServer[1].kind = "data"
    OBVIOUS
  <2>1. toServer[1].kind = "data"
    BY <1>1 DEF AnswerInv, Answers, Counted
  <2>2. \A k \in DOMAIN toServer : ~(k < 1)
    BY <1>1
  <2> QED BY <1>1, <2>1, <2>2 DEF FollowInv
<1>4. RequestInv'
  <2>1. ~\E i \in DOMAIN toNode : MyRequest(toNode[i])
    BY <1>1 DEF RequestInv
  <2>2. Dropped(toNode, toNode', 0)
    BY NotDropped, Typed
  <2> QED BY <2>1, <2>2, RequestKept
<1>5. SentInv'
  BY <1>1 DEF SentInv
<1>6. OrderInv'
  BY <1>1, <1>2 DEF OrderInv
<1>7. AnswerInv'
  <2>1. ASSUME NEW j \in DOMAIN toServer', Mine(toServer'[j]), toServer'[j].kind \in Answers PROVE FALSE
    <3>1. j + 1 \in DOMAIN toServer /\ Mine(toServer[j + 1]) /\ toServer[j + 1].kind \in Answers /\ 1 < j + 1
      BY <1>1, <2>1
    <3> QED BY <1>1, <3>1 DEF AnswerInv
  <2> QED BY <1>2, <2>1 DEF AnswerInv
<1>8. OpenedInv'
  BY DEF OpenedInv
<1>9. RiseInv'
  BY <1>1, <1>2 DEF RiseInv
<1>10. FollowInv'
  <2> SUFFICES ASSUME NEW j \in DOMAIN toServer', Mine(toServer'[j]), toServer'[j].kind = "data",
                      toServer'[j].n # taken' + 1
               PROVE  \E k \in DOMAIN toServer' :
                          k < j /\ Counted(toServer'[k]) /\ toServer'[j].n = toServer'[k].n + 1
    BY <1>2 DEF FollowInv
  <2>1. /\ j + 1 \in DOMAIN toServer /\ toServer'[j] = toServer[j + 1] /\ 1 < j + 1 /\ j \in Nat
        /\ Counted(toServer[j + 1])
    BY <1>1 DEF Counted
  <2>2. toServer[1].n < toServer[j + 1].n
    BY <1>1, <2>1 DEF RiseInv
  <2>3. ~(pc = "reading" /\ toServer[j + 1].n = taken + 1)
    BY <1>1, <1>3, <2>1, <2>2
  <2>4. PICK k \in DOMAIN toServer :
            k < j + 1 /\ Counted(toServer[k]) /\ toServer[j + 1].n = toServer[k].n + 1
    BY <2>1, <2>3 DEF FollowInv
  <2>5. k # 1
    BY <2>1, <2>4
  <2>6. k - 1 \in DOMAIN toServer' /\ toServer'[k - 1] = toServer[k] /\ k \in Nat
    BY <1>1, <2>5
  <2>7. k - 1 < j /\ Counted(toServer'[k - 1]) /\ toServer'[j].n = toServer'[k - 1].n + 1
    BY <2>1, <2>4, <2>6
  <2> QED BY <2>6, <2>7
<1>11. NextInv'
  <2> SUFFICES ASSUME consumer = stream PROVE NextInv'
    BY DEF NextInv
  <2>1. \A k \in DOMAIN toServer' : Counted(toServer'[k]) => toServer'[k].n < next'
    BY <1>1 DEF NextInv
  <2>2. toServer[1].n < next
    BY <1>1 DEF NextInv
  <2>3. ~(pc = "reading" /\ next = taken + 1)
    BY <1>1, <1>3, <2>2
  <2>4. PICK k \in DOMAIN toServer : Counted(toServer[k]) /\ next = toServer[k].n + 1
    BY <2>3 DEF NextInv
  <2>5. next' = taken' + 1 \/ \E i \in DOMAIN toServer' : Counted(toServer'[i]) /\ next' = toServer'[i].n + 1
    BY <1>1, <2>4
  <2> QED BY <1>2, <2>1, <2>5 DEF NextInv
<1> QED BY <1>4, <1>5, <1>6, <1>7, <1>8, <1>9, <1>10, <1>11

\* Frames are taken and the call goes on as it was.
LEMMA Unread ==
    ASSUME IInv, NEW d \in Nat, Dropped(toServer, toServer', d),
           UNCHANGED <<runs, pc, stream, taken, shown, result, toNode, consumer, next, end>>,
           Waiting => \A i \in DOMAIN toServer : i <= d => ~Mine(toServer[i])
    PROVE  StartInv' /\ CallInv' /\ RequestInv' /\ SentInv' /\ StreamInv'
<1> USE DEF IInv
<1>1. Kept(toServer, toServer', Refusals) /\ Kept(toNode, toNode', {"exec"})
  BY DroppedKept, EmptyKept
<1>2. StartInv'
  BY <1>1 DEF StartInv, Starting, StartSent, StartRefused, Kept
<1>3. CallInv'
  BY DEF CallInv, Starting, Prefix
<1>4. SentInv' /\ StreamInv'
  <2>1. end' \in Nat /\ end <= end'
    BY Typed
  <2> QED BY <2>1, StreamDropped
<1>5. RequestInv'
  <2>1. Dropped(toNode, toNode', 0) /\ \A i \in DOMAIN toNode : ~(i <= 0)
    BY Typed, NotDropped
  <2>2. Waiting' <=> Waiting
    BY DEF Waiting
  <2>3. ASSUME NEW i \in DOMAIN toNode, MyRequest(toNode[i]), Waiting
        PROVE  consumer' # stream /\ \A j \in DOMAIN toServer' : ~Mine(toServer'[j])
    BY <2>3 DEF RequestInv, Dropped
  <2> QED BY <2>1, <2>2, <2>3, RequestKept
<1> QED BY <1>2, <1>3, <1>4, <1>5

\* The queues, and all a reader leaves alone, keep their types.
LEMMA ReadTyped ==
    ASSUME IInv, toServer' \in Seq(Frames),
           UNCHANGED <<command, serving, up, toNode, asking, stream, aborted, killing, failures>>,
           pc' \in {"starting", "asked", "attaching", "reading", "returned"},
           result' \in {"none", "exit", "failed", "unknown", "aborted"},
           CallInv', taken' \in Nat
    PROVE  TypeOK' /\ CommandInv'
<1> USE DEF IInv
<1>1. NodeType /\ QueueType /\ CallType
  BY TypeParts
<1>2. NodeType' /\ QueueType'
  BY <1>1 DEF NodeType, QueueType, command, serving
<1>3. taken' \in 0..MaxOutput
  BY <1>1 DEF CallInv, command, NodeType
<1>4. shown' \in Seq(1..MaxOutput)
  <2>1. shown' = Prefix(taken') /\ taken' <= MaxOutput
    BY <1>3 DEF CallInv, Prefix
  <2> QED BY <2>1, PrefixFacts
<1>5. CallType'
  BY <1>1, <1>3, <1>4 DEF CallType
<1>6. CommandInv'
  BY DEF CommandInv, command, serving
<1> QED BY <1>2, <1>5, <1>6, TypePartsNext

LEMMA AnsweredKeeps == ASSUME IInv, Answered PROVE IInv'
<1> USE DEF IInv
<1>1. NodeType /\ QueueType /\ CallType
  BY TypeParts
<1> DEFINE h == toServer[1]
<1>2. /\ toServer # <<>> /\ toServer' = Tail(toServer) /\ Head(toServer) = h /\ h.kind \in Answers
      /\ h \in Frames /\ h.n \in 0..MaxOutput /\ 1 \in DOMAIN toServer
      /\ toServer' \in Seq(Frames) /\ Dropped(toServer, toServer', 1)
  <2>1. toServer # <<>> /\ toServer' = Tail(toServer) /\ Head(toServer).kind \in Answers
    BY DEF Answered, Gets, Taken, Answers
  <2>2. /\ Head(toServer) = h /\ h \in Frames /\ 1 \in DOMAIN toServer
        /\ Tail(toServer) \in Seq(Frames) /\ Dropped(toServer, Tail(toServer), 1)
    BY <1>1, <2>1, TailDropped DEF QueueType
  <2>3. h.n \in 0..MaxOutput
    BY <2>2 DEF Frames
  <2> QED BY <2>1, <2>2, <2>3
<1>3. UNCHANGED <<command, serving, up, toNode, asking, stream, aborted, killing, failures>>
  BY DEF Answered
<1>4. Kept(toServer, toServer', Refusals) /\ Kept(toServer, toServer', {"view", "data"})
      /\ Kept(toNode, toNode', {"exec"})
  BY <1>2, <1>3, DroppedKept, EmptyKept
<1>5. \/ ~Current /\ UNCHANGED <<pc, taken, shown, result>>
      \/ /\ Current /\ h.kind = "opened"
         /\ pc' = "reading" /\ taken' = h.n /\ UNCHANGED <<shown, result>>
      \/ /\ Current /\ h.kind = "view"
         /\ pc' = "reading" /\ taken' = h.n /\ shown' = Prefix(h.n) /\ UNCHANGED result
      \/ /\ Current /\ h.kind = "again"
         /\ pc' = "starting" /\ UNCHANGED <<taken, shown, result>>
      \/ /\ Current /\ h.kind \in {"refused", "lost"} /\ pc' = "returned" /\ result' \in {"failed", "unknown"}
         /\ UNCHANGED <<taken, shown>>
  BY <1>2 DEF Answered, Return, Prefix
<1>6. Current => Waiting /\ Mine(h) /\ pc = "asked"
  <2> SUFFICES ASSUME Current PROVE Waiting /\ Mine(h) /\ pc = "asked"
    OBVIOUS
  <2>1. Waiting /\ Mine(h)
    BY <1>2 DEF Current, Waiting, Mine, Answers
  <2> QED BY <1>2, <2>1 DEF StreamInv, AnswerInv
<1>7. Current => result = "none"
  BY <1>6 DEF CallInv
<1>8. StartInv' /\ CallInv' /\ RequestInv' /\ SentInv' /\ StreamInv'
  <2>1. CASE ~Current /\ UNCHANGED <<pc, taken, shown, result>>
    <3>1. Waiting => \A i \in DOMAIN toServer : i <= 1 => ~Mine(toServer[i])
      <4>1. \A i \in DOMAIN toServer : i <= 1 => i = 1
        BY Typed
      <4>2. Waiting => ~Mine(h)
        BY <1>2, <2>1 DEF Current, Waiting, Mine
      <4> QED BY <4>1, <4>2
    <3>2. UNCHANGED <<runs, stream, toNode, consumer, next, end>>
      BY <1>3 DEF command, serving
    <3> QED BY <1>2, <2>1, <3>1, <3>2, Unread
  <2>2. CASE Current /\ h.kind \in {"opened", "view"} /\ pc' = "reading" /\ taken' = h.n
             /\ UNCHANGED result
             /\ ((h.kind = "opened" /\ UNCHANGED shown) \/ (h.kind = "view" /\ shown' = Prefix(h.n)))
    <3>1. UNCHANGED <<stream, toNode, consumer, next, end, runs>>
      BY <1>3 DEF command, serving
    <3>2. Counted(h)
      BY <1>6, <2>2 DEF Counted
    <3>3. RequestInv' /\ SentInv' /\ StreamInv'
      BY <1>2, <1>6, <2>2, <3>1, <3>2, StreamRead
    <3>4. StartInv'
      <4>1. ~Starting'
        BY <2>2 DEF Starting
      <4> QED BY <1>4, <3>1, <4>1 DEF StartInv, StartSent, StartRefused, Kept
    <3>5. CallInv'
      <4>1. h.kind = "opened" => h.n = taken
        BY <1>2, <1>6, <2>2 DEF StreamInv, AnswerInv
      <4>2. h.n <= end'
        <5>1. CASE h.kind = "opened"
          BY <3>1, <4>1, <5>1 DEF CallInv
        <5>2. CASE h.kind = "view"
          BY <1>2, <3>1, <5>2 DEF SentInv
        <5> QED BY <2>2, <5>1, <5>2
      <4>3. shown' = Prefix(taken')
        BY <2>2, <4>1 DEF CallInv
      <4> QED BY <1>7, <2>2, <4>2, <4>3 DEF CallInv, Starting, Prefix
    <3> QED BY <3>3, <3>4, <3>5
  <2>3. CASE Current /\ h.kind = "again" /\ pc' = "starting" /\ UNCHANGED <<taken, shown, result>>
    <3>1. taken = 0
      BY <1>2, <1>6, <2>3 DEF StreamInv, AnswerInv
    <3>2. StartRefused /\ UNCHANGED <<runs, toNode, end, stream>>
      BY <1>2, <1>3, <2>3 DEF StartRefused, Some, Refusals, command
    <3>3. ~StartSent /\ runs = 0 /\ AtMostOne(toServer, Refusals)
      BY <3>2 DEF StartInv
    <3>4. ~StartRefused'
      BY <1>2, <2>3, <3>3 DEF AtMostOne, StartRefused, Some, Refusals, Dropped
    <3>5. StartInv'
      BY <1>4, <3>2, <3>3, <3>4 DEF StartInv, StartSent, Kept
    <3>6. CallInv'
      BY <1>7, <2>3, <3>1, <3>2 DEF CallInv, Prefix
    <3>7. ~Waiting'
      BY <2>3 DEF Waiting
    <3>8. SentInv'
      BY <1>4, <3>2 DEF SentInv, Kept
    <3> QED BY <3>5, <3>6, <3>7, <3>8, NotWaiting
  <2>4. CASE Current /\ pc' = "returned" /\ UNCHANGED <<taken, shown>>
    <3>1. ~Waiting' /\ ~Starting' /\ UNCHANGED <<runs, end>>
      BY <1>3, <2>4 DEF Waiting, Starting, command
    <3> QED BY <1>4, <2>4, <3>1, Stopped
  <2> QED BY <1>5, <2>1, <2>2, <2>3, <2>4
<1>9. /\ pc' \in {"starting", "asked", "attaching", "reading", "returned"}
      /\ result' \in {"none", "exit", "failed", "unknown", "aborted"} /\ taken' \in Nat
  BY <1>1, <1>2, <1>5 DEF CallType
<1>10. TypeOK' /\ CommandInv'
  BY <1>2, <1>3, <1>8, <1>9, ReadTyped
<1> QED BY <1>8, <1>10

LEMMA ReadRecordKeeps == ASSUME IInv, ReadRecord PROVE IInv'
<1> USE DEF IInv
<1>1. NodeType /\ QueueType /\ CallType
  BY TypeParts
<1> DEFINE h == toServer[1]
<1>2. /\ toServer # <<>> /\ toServer' = Tail(toServer) /\ Head(toServer) = h /\ h.kind = "data"
      /\ h \in Frames /\ h.n \in 0..MaxOutput /\ 1 \in DOMAIN toServer
      /\ toServer' \in Seq(Frames) /\ Dropped(toServer, toServer', 1)
  <2>1. toServer # <<>> /\ toServer' = Tail(toServer) /\ Head(toServer).kind = "data"
    BY DEF ReadRecord, Gets, Taken
  <2>2. /\ Head(toServer) = h /\ h \in Frames /\ 1 \in DOMAIN toServer
        /\ Tail(toServer) \in Seq(Frames) /\ Dropped(toServer, Tail(toServer), 1)
    BY <1>1, <2>1, TailDropped DEF QueueType
  <2>3. h.n \in 0..MaxOutput
    BY <2>2 DEF Frames
  <2> QED BY <2>1, <2>2, <2>3
<1>3. /\ UNCHANGED <<command, serving, up, toNode, asking, stream, aborted, killing, failures>>
      /\ UNCHANGED <<stream, toNode, consumer, next, end, runs>>
  BY DEF ReadRecord, command, serving
<1>4. Kept(toServer, toServer', Refusals) /\ Kept(toServer, toServer', {"view", "data"})
      /\ Kept(toNode, toNode', {"exec"})
  BY <1>2, <1>3, DroppedKept, EmptyKept
<1>5. \A i \in DOMAIN toServer : ~(i < 1) /\ (i <= 1 => i = 1)
  BY Typed
<1>6. \/ UNCHANGED <<pc, taken, shown, result>> /\ ~(Current /\ pc = "reading")
      \/ /\ Current /\ pc = "reading" /\ taken' = taken + 1 /\ shown' = Append(shown, h.n)
         /\ UNCHANGED <<pc, result>> \/ (pc' = "returned" /\ result' \in {"aborted", "exit"})
  BY <1>2 DEF ReadRecord, Return
<1>7. CASE UNCHANGED <<pc, taken, shown, result>> /\ ~(Current /\ pc = "reading")
  <2>1. Waiting => ~Mine(h)
    <3> SUFFICES ASSUME Waiting, Mine(h) PROVE FALSE
      OBVIOUS
    <3>1. pc = "asked"
      BY <1>2, <1>7 DEF Waiting, Mine, Current
    <3> QED BY <1>2, <1>5, <3>1 DEF StreamInv, OpenedInv
  <2>2. StartInv' /\ CallInv' /\ RequestInv' /\ SentInv' /\ StreamInv'
    BY <1>2, <1>3, <1>5, <1>7, <2>1, Unread
  <2>3. TypeOK' /\ CommandInv'
    BY <1>1, <1>2, <1>3, <1>7, <2>2, ReadTyped, Typed DEF CallType
  <2> QED BY <2>2, <2>3
<1>8. CASE /\ Current /\ pc = "reading" /\ taken' = taken + 1 /\ shown' = Append(shown, h.n)
           /\ UNCHANGED <<pc, result>> \/ (pc' = "returned" /\ result' \in {"aborted", "exit"})
  <2>1. Waiting /\ Mine(h) /\ Counted(h)
    BY <1>2, <1>8 DEF Current, Waiting, Mine, Counted
  <2>2. h.n = taken + 1
    BY <1>2, <1>5, <2>1 DEF StreamInv, FollowInv
  <2>3. h.n <= end
    BY <1>2 DEF SentInv
  <2>4. StartInv'
    <3>1. ~Starting'
      BY <1>8 DEF Starting
    <3> QED BY <1>3, <1>4, <3>1 DEF StartInv, StartSent, StartRefused, Kept
  <2>5. CallInv'
    <3>1. shown' = Prefix(taken') /\ taken \in Nat
      BY <1>8, <2>2, PrefixFacts, Typed DEF CallInv
    <3>2. pc' # "returned" => result' = "none"
      BY <1>8 DEF CallInv
    <3>3. ~Starting' /\ taken' <= end'
      BY <1>3, <1>8, <2>2, <2>3 DEF Starting
    <3> QED BY <3>1, <3>2, <3>3 DEF CallInv, Prefix
  <2>6. RequestInv' /\ SentInv' /\ StreamInv'
    <3>1. CASE pc' = "returned"
      <4>1. ~Waiting'
        BY <3>1 DEF Waiting
      <4>2. SentInv'
        BY <1>3, <1>4 DEF SentInv, Kept
      <4> QED BY <4>1, <4>2, NotWaiting
    <3>2. CASE pc' = "reading"
      BY <1>2, <1>3, <1>8, <2>1, <2>2, <3>2, StreamRead
    <3> QED BY <1>8, <3>1, <3>2
  <2>7. TypeOK' /\ CommandInv'
    <3>1. /\ pc' \in {"starting", "asked", "attaching", "reading", "returned"}
          /\ result' \in {"none", "exit", "failed", "unknown", "aborted"} /\ taken' \in Nat
      BY <1>1, <1>8, Typed DEF CallType
    <3> QED BY <1>2, <1>3, <2>5, <3>1, ReadTyped
  <2> QED BY <2>4, <2>5, <2>6, <2>7
<1> QED BY <1>6, <1>7, <1>8

LEMMA ReadEndKeeps == ASSUME IInv, ReadEnd PROVE IInv'
<1> USE DEF IInv
<1>1. NodeType /\ QueueType /\ CallType
  BY TypeParts
<1>2. PICK i \in DOMAIN toServer :
          /\ toServer[i].kind \in {"failed", "end"}
          /\ toServer' = SubSeq(toServer, i + 1, Len(toServer))
          /\ \A j \in 1..i : toServer[j].kind \in {"data", "end", "failed"}
          /\ IF toServer[i].stream = stream /\ pc = "reading" THEN AttachAgain ELSE UNCHANGED <<pc, result>>
  BY DEF ReadEnd
<1>3. /\ UNCHANGED <<command, serving, up, toNode, asking, stream, taken, shown, aborted, killing, failures>>
      /\ UNCHANGED <<stream, toNode, consumer, next, end, runs>>
  BY DEF ReadEnd, command, serving
<1>4. toServer' \in Seq(Frames) /\ Dropped(toServer, toServer', i) /\ i \in Nat
  BY <1>1, <1>2, SubSeqDropped DEF QueueType
<1>5. Kept(toServer, toServer', Refusals) /\ Kept(toServer, toServer', {"view", "data"})
      /\ Kept(toNode, toNode', {"exec"})
  BY <1>3, <1>4, DroppedKept, EmptyKept
<1>6. StartInv' /\ CallInv' /\ RequestInv' /\ SentInv' /\ StreamInv'
  <2>1. CASE toServer[i].stream = stream /\ pc = "reading"
    <3>1. pc' = "returned" \/ (pc' = "attaching" /\ UNCHANGED result)
      BY <1>2, <2>1 DEF AttachAgain, Return
    <3>2. ~Waiting' /\ ~Starting' /\ (pc' # "returned" => result' = "none")
      BY <2>1, <3>1 DEF Waiting, Starting, CallInv
    <3> QED BY <1>3, <1>5, <3>2, Stopped
  <2>2. CASE ~(toServer[i].stream = stream /\ pc = "reading")
    <3>1. \A j \in DOMAIN toServer : j <= i => j \in 1..i
      BY <1>4, Typed
    <3>2. Waiting => ~Mine(toServer[i])
      <4> SUFFICES ASSUME Waiting, Mine(toServer[i]) PROVE FALSE
        OBVIOUS
      <4>1. pc = "asked"
        BY <2>2 DEF Waiting, Mine
      <4>2. PICK k \in DOMAIN toServer : k < i /\ toServer[k].kind \in {"opened", "view"}
        BY <1>2, <4>1 DEF StreamInv, OpenedInv
      <4>3. k \in 1..i
        BY <1>4, <3>1, <4>2, Typed
      <4> QED BY <1>2, <4>2, <4>3
    <3>3. ASSUME Waiting, NEW j \in DOMAIN toServer, j <= i PROVE ~Mine(toServer[j])
      <4>1. CASE j = i
        BY <3>2, <3>3, <4>1
      <4>2. CASE j < i
        <5> SUFFICES ASSUME Mine(toServer[j]) PROVE FALSE
          OBVIOUS
        <5>1. toServer[i].kind = "killed" \/ toServer[i].stream = stream
          BY <3>3, <4>2 DEF StreamInv, OrderInv
        <5> QED BY <1>2, <3>2, <3>3, <5>1 DEF Mine
      <4> QED BY <1>4, <3>3, <4>1, <4>2, Typed
    <3>4. UNCHANGED <<pc, result, taken, shown>>
      BY <1>2, <1>3, <2>2
    <3> QED BY <1>3, <1>4, <3>3, <3>4, Unread
  <2> QED BY <2>1, <2>2
<1>7. /\ pc' \in {"starting", "asked", "attaching", "reading", "returned"}
      /\ result' \in {"none", "exit", "failed", "unknown", "aborted"} /\ taken' \in Nat
  BY <1>1, <1>2, <1>3, Typed DEF AttachAgain, Return, CallType
<1>8. TypeOK' /\ CommandInv'
  BY <1>3, <1>4, <1>6, <1>7, ReadTyped
<1> QED BY <1>6, <1>8

LEMMA KilledKeeps == ASSUME IInv, Killed PROVE IInv'
<1> USE DEF IInv
<1>1. NodeType /\ QueueType /\ CallType
  BY TypeParts
<1>2. /\ toServer # <<>> /\ toServer' = Tail(toServer) /\ Head(toServer).kind = "killed" /\ killing' = "over"
      /\ UNCHANGED <<command, serving, up, toNode, pc, asking, stream, taken, shown, result, aborted, failures>>
  BY DEF Killed, Gets, Taken
<1>3. /\ toServer[1].kind = "killed" /\ toServer' \in Seq(Frames) /\ Dropped(toServer, toServer', 1)
  BY <1>1, <1>2, TailDropped DEF QueueType
<1>4. \A i \in DOMAIN toServer : i <= 1 => ~Mine(toServer[i])
  BY <1>3, Typed DEF Mine
<1>5. UNCHANGED <<runs, consumer, next, end>>
  BY <1>2 DEF command, serving
<1>6. StartInv' /\ CallInv' /\ RequestInv' /\ SentInv' /\ StreamInv'
  BY <1>2, <1>3, <1>4, <1>5, Unread
<1>7. TypeOK'
  <2>1. NodeType' /\ QueueType'
    BY <1>1, <1>2, <1>3 DEF NodeType, QueueType, command, serving
  <2>2. CallType'
    BY <1>1, <1>2 DEF CallType
  <2> QED BY <2>1, <2>2, TypePartsNext
<1>8. CommandInv'
  BY <1>2 DEF CommandInv, command, serving
<1> QED BY <1>6, <1>7, <1>8
-----------------------------------------------------------------------------
LEMMA InitInv == Init => IInv
<1> SUFFICES ASSUME Init PROVE IInv
  OBVIOUS
<1>1. /\ known = FALSE /\ alive = FALSE /\ runs = 0 /\ killed = FALSE /\ end = 0 /\ exited = FALSE /\ first = 1
      /\ consumer = 0 /\ next = 1 /\ stopping = FALSE /\ grace = FALSE
      /\ up \in BOOLEAN /\ toNode = <<>> /\ toServer = <<>>
      /\ pc = "starting" /\ asking = "exec" /\ stream = 1 /\ taken = 0 /\ shown = <<>>
      /\ result = "none" /\ aborted = FALSE /\ killing = "no" /\ failures = 0
  BY DEF Init
<1>2. DOMAIN toNode = {} /\ DOMAIN toServer = {} /\ Prefix(0) = <<>>
  BY <1>1, PrefixFacts
<1>3. NodeType
  <2>1. /\ known \in BOOLEAN /\ alive \in BOOLEAN /\ killed \in BOOLEAN /\ exited \in BOOLEAN
        /\ stopping \in BOOLEAN /\ grace \in BOOLEAN
    BY <1>1
  <2>2. /\ runs \in 0..1 /\ end \in 0..MaxOutput /\ first \in 1..MaxOutput
        /\ consumer \in {0} \cup Streams /\ next \in 1..(MaxOutput + 1)
    BY <1>1
  <2> QED BY <2>1, <2>2 DEF NodeType
<1>4. QueueType
  BY <1>1 DEF QueueType
<1>5. CallType
  <2>1. shown \in Seq(1..MaxOutput)
    <3>1. <<>> \in Seq(1..MaxOutput)
      OBVIOUS
    <3> QED BY <1>1, <3>1
  <2>3. aborted \in BOOLEAN
    BY <1>1
  <2>2. stream \in Streams /\ taken \in 0..MaxOutput /\ failures \in 0..MaxFailures
    BY <1>1 DEF Streams
  <2> QED BY <1>1, <2>1, <2>2, <2>3 DEF CallType
<1>6. CommandInv
  BY <1>1 DEF CommandInv
<1>7. StartInv
  BY <1>1, <1>2 DEF StartInv, AtMostOne, StartSent, StartRefused, Some
<1>8. CallInv
  BY <1>1, <1>2 DEF CallInv, Prefix
<1>9. RequestInv /\ SentInv /\ StreamInv
  BY <1>1, <1>2 DEF Waiting, RequestInv, SentInv, StreamInv, OrderInv, AnswerInv, OpenedInv, RiseInv,
                    FollowInv, NextInv
<1> QED BY <1>3, <1>4, <1>5, <1>6, <1>7, <1>8, <1>9, TypeParts DEF IInv

LEMMA StillInv == ASSUME IInv, UNCHANGED vars PROVE IInv'
<1> USE DEF IInv
<1>1. /\ UNCHANGED <<command, serving, link, call, failures>>
      /\ UNCHANGED <<known, alive, runs, killed, end, exited, first, consumer, next, stopping, grace>>
      /\ UNCHANGED <<up, toNode, toServer, pc, asking, stream, taken, shown, result, aborted, killing>>
  BY DEF vars, command, serving, link, call
<1>2. NodeType /\ QueueType /\ CallType
  BY TypeParts
<1>3. TypeOK'
  BY <1>1, <1>2, TypePartsNext DEF NodeType, QueueType, CallType
<1>4. CommandInv'
  BY <1>1 DEF CommandInv
<1>5. StartInv' /\ CallInv' /\ RequestInv' /\ SentInv' /\ StreamInv'
  BY <1>1, Quiet, Typed
<1> QED BY <1>3, <1>4, <1>5

LEMMA AlwaysIInv == Spec => []IInv
<1>1. IInv /\ [Next]_vars => IInv'
  <2> SUFFICES ASSUME IInv, [Next]_vars PROVE IInv'
    OBVIOUS
  <2>1. CASE UNCHANGED vars
    BY <2>1, StillInv
  <2>2. CASE Output \/ Exit \/ StreamStops \/ GraceEnds \/ Connect
    BY <2>2, OutputKeeps, NodeQuietKeeps
  <2>3. CASE Handle
    BY <2>3, HandleExecKeeps, HandleAttachKeeps, HandleEndsKeep DEF Handle
  <2>4. CASE Pump \/ Ask \/ Kill
    BY <2>4, PumpKeeps, AskKeeps, KillKeeps
  <2>5. CASE Read
    BY <2>5, AnsweredKeeps, ReadRecordKeeps, ReadEndKeeps, KilledKeeps DEF Read
  <2>6. CASE Abort \/ KillGivesUp
    BY <2>6, AbortKeeps
  <2>7. CASE Drop \/ TimeOut \/ ServerRestarts \/ NodeRestarts \/ WindowPasses
    BY <2>7, FailureKeeps
  <2> QED BY <2>1, <2>2, <2>3, <2>4, <2>5, <2>6, <2>7 DEF Next
<1> QED BY InitInv, <1>1, PTL DEF Spec

\* The command, its queues and the call stay within their types: records and offsets within
\* the output, one process at most.
THEOREM TypeCorrect == Spec => []TypeOK
<1>1. IInv => TypeOK
  BY DEF IInv
<1> QED BY <1>1, AlwaysIInv, PTL
-----------------------------------------------------------------------------
\* The steps of Command that the steps of the call and the node are.
LEMMA CommandStays == ASSUME UNCHANGED <<runs, alive, end, shown, result>> PROVE UNCHANGED Abstract!vars
BY DEF Abstract!vars, Proc

LEMMA CallReturns ==
    ASSUME IInv, pc # "returned", UNCHANGED <<runs, alive, end, shown>>,
           UNCHANGED result \/ result' \in {"aborted", "unknown"}
    PROVE  [Abstract!Next]_Abstract!vars
<1>1. CASE UNCHANGED result
  BY <1>1, CommandStays
<1>2. CASE result' \in {"aborted", "unknown"}
  BY <1>2 DEF IInv, CallInv, Proc, Abstract!Next, Abstract!Return
<1> QED BY <1>1, <1>2

LEMMA OutputStep == ASSUME IInv, Output PROVE Abstract!Output
<1>1. runs = 1 /\ alive /\ end < MaxOutput - 1 /\ end' = end + 1 /\ UNCHANGED <<alive, runs, shown, result>>
  BY DEF Output, Recorded, call, IInv, CommandInv
<1> QED BY <1>1 DEF Abstract!Output, Proc

LEMMA ExitStep == ASSUME IInv, Exit PROVE Abstract!Exit
<1>1. runs = 1 /\ alive /\ alive' = FALSE /\ end' \in {end, end + 1} /\ UNCHANGED <<runs, shown, result>>
  BY DEF Exit, Recorded, call, IInv, CommandInv
<1> QED BY <1>1 DEF Abstract!Exit, Proc

\* The node starts a command it does not have: it never had it.
LEMMA ExecStep == ASSUME IInv, HandleExec PROVE [Abstract!Next]_Abstract!vars
<1>1. UNCHANGED <<end, shown, result>>
  BY DEF HandleExec, call
<1>2. runs = 0
  <2>1. toNode # <<>> /\ Head(toNode).kind = "exec"
    BY DEF HandleExec, Asks
  <2>2. 1 \in DOMAIN toNode /\ toNode[1].kind = "exec"
    BY <2>1, Typed, TailDropped DEF IInv
  <2> QED BY <2>2 DEF IInv, StartInv, StartSent, Some
<1>3. UNCHANGED <<runs, alive>> \/ (runs' = 1 /\ alive')
  BY <1>2 DEF HandleExec
<1>4. CASE UNCHANGED <<runs, alive>>
  BY <1>1, <1>4, CommandStays
<1>5. CASE runs' = 1 /\ alive'
  BY <1>1, <1>2, <1>5 DEF Abstract!Next, Abstract!Start, Proc
<1> QED BY <1>3, <1>4, <1>5

\* A view shows what the caller missed; a refusal is of a command that never ran.
LEMMA AnsweredStep == ASSUME IInv, Answered PROVE [Abstract!Next]_Abstract!vars
<1> DEFINE h == toServer[1]
<1>1. /\ toServer # <<>> /\ Head(toServer) = h /\ h.kind \in Answers /\ 1 \in DOMAIN toServer
      /\ UNCHANGED <<alive, runs, end>> /\ h.n \in Nat
  <2>1. toServer # <<>> /\ Head(toServer).kind \in Answers /\ UNCHANGED <<alive, runs, end>>
    BY DEF Answered, Gets, Answers, command
  <2>2. Head(toServer) = h /\ 1 \in DOMAIN toServer
    BY <2>1, Typed, TailDropped DEF IInv
  <2> QED BY <2>1, <2>2, Typed DEF IInv, Frames
<1>2. \/ UNCHANGED <<shown, result>>
      \/ Current /\ h.kind = "view" /\ shown' = Prefix(h.n) /\ UNCHANGED result
      \/ Current /\ h.kind = "refused" /\ result' = "failed" /\ UNCHANGED shown
      \/ Current /\ h.kind = "lost" /\ result' = "unknown" /\ UNCHANGED shown
  BY <1>1 DEF Answered, Return, Prefix
<1>3. CASE UNCHANGED <<shown, result>>
  BY <1>1, <1>3, CommandStays
<1>4. CASE Current /\ h.kind = "view" /\ shown' = Prefix(h.n) /\ UNCHANGED result
  <2>1. Waiting /\ Mine(h)
    BY <1>4 DEF Current, Waiting, Mine
  <2>2. h.n > taken /\ h.n <= end
    BY <1>1, <1>4, <2>1 DEF IInv, StreamInv, AnswerInv, SentInv
  <2>3. Len(shown) = taken /\ taken \in Nat /\ end \in Nat
    BY PrefixFacts, Typed DEF IInv, CallInv
  <2>4. h.n \in (Len(shown) + 1)..end
    BY <1>1, <2>2, <2>3
  <2>5. result = "none"
    BY <2>1 DEF IInv, CallInv, Waiting
  <2>6. UNCHANGED Proc
    BY <1>1 DEF Proc
  <2>7. shown' = Abstract!Prefix(h.n)
    BY <1>4 DEF Prefix, Abstract!Prefix
  <2>8. Abstract!Show
    BY <1>1, <1>4, <2>4, <2>5, <2>6, <2>7 DEF Abstract!Show
  <2> QED BY <2>8 DEF Abstract!Next
<1>5. CASE Current /\ h.kind = "refused" /\ result' = "failed" /\ UNCHANGED shown
  <2>1. runs = 0
    BY <1>1, <1>5 DEF IInv, StartInv, StartRefused, Some, Refusals
  <2>2. result = "none"
    BY <1>5 DEF IInv, CallInv, Current
  <2> QED BY <1>1, <1>5, <2>1, <2>2 DEF Abstract!Next, Abstract!Return, Proc
<1>6. CASE Current /\ h.kind = "lost" /\ result' = "unknown" /\ UNCHANGED shown
  <2>1. pc # "returned"
    BY <1>6 DEF Current
  <2> QED BY <1>1, <1>6, <2>1, CallReturns
<1> QED BY <1>2, <1>3, <1>4, <1>5, <1>6

\* A record read is the one after those the caller saw; the exit is the last of them.
LEMMA RecordStep == ASSUME IInv, ReadRecord PROVE [Abstract!Next]_Abstract!vars
<1> DEFINE h == toServer[1]
<1>1. /\ toServer # <<>> /\ Head(toServer) = h /\ h.kind = "data" /\ 1 \in DOMAIN toServer
      /\ UNCHANGED <<alive, runs, end>> /\ h.n \in Nat
  <2>1. toServer # <<>> /\ Head(toServer).kind = "data" /\ UNCHANGED <<alive, runs, end>>
    BY DEF ReadRecord, Gets, command
  <2>2. Head(toServer) = h /\ 1 \in DOMAIN toServer
    BY <2>1, Typed, TailDropped DEF IInv
  <2> QED BY <2>1, <2>2, Typed DEF IInv, Frames
<1>2. CASE ~(Current /\ pc = "reading")
  BY <1>1, <1>2, CommandStays DEF ReadRecord
<1>3. CASE Current /\ pc = "reading"
  <2>1. Waiting /\ Mine(h) /\ result = "none"
    BY <1>1, <1>3 DEF Current, Waiting, Mine, IInv, CallInv
  <2>2. h.n = taken + 1 /\ h.n <= end
    <3>1. \A i \in DOMAIN toServer : ~(i < 1)
      BY Typed DEF IInv
    <3> QED BY <1>1, <2>1, <3>1 DEF IInv, StreamInv, FollowInv, SentInv
  <2>3. /\ Len(shown) = taken /\ taken \in Nat /\ end \in Nat
        /\ Append(shown, taken + 1) = Prefix(taken + 1)
    BY PrefixFacts, Typed DEF IInv, CallInv
  <2>4. shown' = Abstract!Prefix(h.n)
    <3>1. shown' = Append(shown, h.n)
      BY <1>1, <1>3 DEF ReadRecord
    <3> QED BY <2>2, <2>3, <3>1 DEF Prefix, Abstract!Prefix
  <2>5. h.n \in (Len(shown) + 1)..end
    BY <1>1, <2>2, <2>3
  <2>6. UNCHANGED Proc
    BY <1>1 DEF Proc
  <2>7. CASE exited /\ h.n = end
    <3>1. result' \in {"exit", "aborted"}
      BY <1>1, <1>3, <2>7 DEF ReadRecord, Return
    <3>2. Proc = "ended" /\ end > 0
      BY <2>2, <2>3, <2>7 DEF Proc, IInv, CommandInv
    <3>3. Abstract!ShowAndReturn
      BY <1>1, <2>1, <2>4, <2>6, <2>7, <3>1, <3>2 DEF Abstract!ShowAndReturn
    <3> QED BY <3>3 DEF Abstract!Next
  <2>8. CASE ~(exited /\ h.n = end)
    <3>1. UNCHANGED result
      BY <1>1, <1>3, <2>8 DEF ReadRecord
    <3>2. Abstract!Show
      BY <1>1, <2>1, <2>4, <2>5, <2>6, <3>1 DEF Abstract!Show
    <3> QED BY <3>2 DEF Abstract!Next
  <2> QED BY <2>7, <2>8
<1> QED BY <1>2, <1>3

LEMMA RestartStep == ASSUME IInv, ServerRestarts PROVE Abstract!NewCaller
<1>1. pc # "returned" /\ shown' = <<>> /\ UNCHANGED <<runs, alive, end, result>>
  BY DEF ServerRestarts, command
<1>2. result = "none"
  BY <1>1 DEF IInv, CallInv
<1> QED BY <1>1, <1>2 DEF Abstract!NewCaller, Proc

\* Every step of the call and of the node is one of Command, or stutters.
LEMMA ImplementsStep == ASSUME IInv, [Next]_vars PROVE [Abstract!Next]_Abstract!vars
<1>1. CASE UNCHANGED vars
  <2>1. UNCHANGED <<runs, alive, end, shown, result>>
    BY <1>1 DEF vars, command, call
  <2> QED BY <2>1, CommandStays
<1>2. CASE Output \/ Exit \/ ServerRestarts
  BY <1>2, OutputStep, ExitStep, RestartStep DEF Abstract!Next
<1>3. CASE HandleExec \/ Answered \/ ReadRecord
  BY <1>3, ExecStep, AnsweredStep, RecordStep
<1>4. CASE HandleAttach \/ HandleKill \/ HandleCancel \/ Pump \/ StreamStops \/ GraceEnds \/ Connect
  <2>1. UNCHANGED <<runs, alive, end, shown, result>>
    BY <1>4 DEF HandleAttach, HandleKill, HandleCancel, Pump, StreamStops, GraceEnds, Connect, command, call
  <2> QED BY <2>1, CommandStays
<1>5. CASE Ask \/ Kill \/ Killed \/ TimeOut
  <2>1. UNCHANGED <<runs, alive, end, shown, result>>
    BY <1>5 DEF Ask, Kill, Killed, TimeOut, command
  <2> QED BY <2>1, CommandStays
<1>6. CASE WindowPasses \/ ReadEnd \/ Abort \/ KillGivesUp \/ Drop \/ NodeRestarts
  <2>1. UNCHANGED <<runs, alive, end, shown>>
    BY <1>6 DEF WindowPasses, ReadEnd, Abort, KillGivesUp, Drop, NodeRestarts, command
  <2>2. \/ UNCHANGED result
        \/ pc # "returned" /\ result' \in {"aborted", "unknown"}
    BY <1>6 DEF WindowPasses, ReadEnd, Abort, KillGivesUp, Drop, NodeRestarts, AttachAgain, Return
  <2>3. CASE UNCHANGED result
    BY <2>1, <2>3, CommandStays
  <2> QED BY <2>1, <2>2, <2>3, CallReturns
<1> QED BY <1>1, <1>2, <1>3, <1>4, <1>5, <1>6 DEF Next, Handle, Read

\* What the caller is promised: the command is started once, its output is seen in order
\* without a gap or a repetition, its exit is returned once all was seen, and it is reported
\* as not started only when it was not, across drops, timeouts and restarts of both ends.
THEOREM Implements == Spec => ImplementsCommand
<1>1. Init => Abstract!Init
  BY DEF Init, Abstract!Init, Proc
<1> QED BY <1>1, ImplementsStep, AlwaysIInv, PTL DEF Spec, ImplementsCommand, Abstract!Spec

\* How a call ended is true of the command, then and ever after.
ReturnTrue ==
    /\ result = "exit" => runs = 1 /\ ~alive /\ shown = Prefix(end)
    /\ result = "failed" => runs = 0

ExitTrue == result = "exit" => Proc = "ended" /\ shown = Prefix(end)

\* A start that was refused is not on its way a second time.
FailedTrue == result = "failed" => runs = 0 /\ ~StartSent /\ pc = "returned"

LEMMA ExitTrueStep == ASSUME IInv, ExitTrue, [Next]_vars PROVE ExitTrue'
<1>1. [Abstract!Next]_Abstract!vars
  BY ImplementsStep
<1>2. shown = Prefix(taken) /\ Len(shown) = taken
  BY PrefixFacts, Typed DEF IInv, CallInv
<1>3. CASE UNCHANGED Abstract!vars
  BY <1>3 DEF Abstract!vars, ExitTrue
<1>4. CASE Abstract!Start \/ Abstract!Output \/ Abstract!Exit
  BY <1>4 DEF Abstract!Start, Abstract!Output, Abstract!Exit, ExitTrue
<1>5. CASE Abstract!Show \/ Abstract!NewCaller
  BY <1>5 DEF Abstract!Show, Abstract!NewCaller, ExitTrue
<1>6. CASE Abstract!Return
  BY <1>2, <1>6 DEF Abstract!Return, ExitTrue
<1>7. CASE Abstract!ShowAndReturn
  BY <1>7 DEF Abstract!ShowAndReturn, Abstract!Prefix, Prefix, ExitTrue
<1> QED BY <1>1, <1>3, <1>4, <1>5, <1>6, <1>7 DEF Abstract!Next

\* The refusal a call fails with is the one of its start: nothing runs it later.
LEMMA FailedTrueStep == ASSUME IInv, FailedTrue, [Next]_vars PROVE FailedTrue'
<1>1. pc # "returned" => result = "none"
  BY DEF IInv, CallInv
<1>2. CASE result # "failed" /\ result' = "failed"
  <2>1. Answered
    BY <1>1, <1>2
       DEF Next, Handle, Read, Output, Exit, HandleExec, HandleAttach, HandleKill, HandleCancel, Pump,
           StreamStops, GraceEnds, Ask, WindowPasses, ReadRecord, ReadEnd, Killed, Abort, Kill,
           KillGivesUp, Drop, Connect, TimeOut, ServerRestarts, NodeRestarts, AttachAgain, Return,
           call, vars
  <2>2. Head(toServer).kind = "refused" /\ pc' = "returned" /\ UNCHANGED <<runs, toNode>>
    BY <1>2, <2>1 DEF Answered, Return, command
  <2>3. toServer # <<>>
    BY <2>1 DEF Answered, Gets
  <2>4. 1 \in DOMAIN toServer /\ toServer[1].kind = "refused"
    BY <2>2, <2>3, Typed, TailDropped DEF IInv
  <2>5. runs = 0 /\ ~StartSent
    BY <2>4 DEF IInv, StartInv, StartRefused, Some, Refusals
  <2> QED BY <2>2, <2>5 DEF FailedTrue, StartSent
<1>3. CASE result = "failed"
  <2>1. runs = 0 /\ ~StartSent /\ pc = "returned"
    BY <1>3 DEF FailedTrue
  <2>2. toNode # <<>> => Head(toNode).kind # "exec" /\ Dropped(toNode, Tail(toNode), 1)
    BY <2>1, Typed, TailDropped DEF IInv, StartSent, Some
  <2>3. runs' = 0
    BY <2>1, <2>2
       DEF Next, Handle, Read, Output, Exit, HandleExec, HandleAttach, HandleKill, HandleCancel, Pump,
           StreamStops, GraceEnds, Ask, WindowPasses, Answered, ReadRecord, ReadEnd, Killed, Abort,
           Kill, KillGivesUp, Drop, Connect, TimeOut, ServerRestarts, NodeRestarts, Asks, command, vars
  <2>4. \/ toNode' = toNode \/ toNode' = <<>> \/ (toNode # <<>> /\ toNode' = Tail(toNode))
        \/ toNode' = Append(toNode, Frame("kill", stream, 0))
    BY <2>1
       DEF Next, Handle, Read, Output, Exit, HandleExec, HandleAttach, HandleKill, HandleCancel, Pump,
           StreamStops, GraceEnds, Ask, WindowPasses, Answered, ReadRecord, ReadEnd, Killed, Abort,
           Kill, KillGivesUp, Drop, Connect, TimeOut, ServerRestarts, NodeRestarts, Asks, Handled,
           Send, LinkGone, link, vars
  <2>5. ~StartSent'
    <3>1. CASE toNode' = toNode \/ toNode' = <<>>
      BY <2>1, <3>1 DEF StartSent, Some
    <3>2. CASE toNode # <<>> /\ toNode' = Tail(toNode)
      BY <2>1, <2>2, <3>2 DEF StartSent, Some, Dropped
    <3>3. CASE toNode' = Append(toNode, Frame("kill", stream, 0))
      <4>1. Frame("kill", stream, 0) \in Frames
        BY DEF IInv, TypeOK, Frames, Frame, FrameKinds
      <4>2. Appended(toNode, toNode', Frame("kill", stream, 0))
        BY <3>3, <4>1, Typed, AppendAppended DEF IInv
      <4> QED BY <2>1, <4>2 DEF StartSent, Some, Appended, Frame
    <3> QED BY <2>4, <3>1, <3>2, <3>3
  <2>6. UNCHANGED <<pc, result>>
    BY <1>3, <2>1
       DEF Next, Handle, Read, Output, Exit, HandleExec, HandleAttach, HandleKill, HandleCancel, Pump,
           StreamStops, GraceEnds, Ask, WindowPasses, Answered, ReadRecord, ReadEnd, Killed, Abort,
           Kill, KillGivesUp, Drop, Connect, TimeOut, ServerRestarts, NodeRestarts, Current, call, vars
  <2> QED BY <2>1, <2>3, <2>5, <2>6 DEF FailedTrue
<1> QED BY <1>2, <1>3 DEF FailedTrue

\* A call that returned the exit had its command run, and it is over and all of its output
\* was seen; a call that failed was not started and never will be, so that sending it
\* again cannot run it twice (runExec: only a start the node refused is reported so).
THEOREM ReturnsTrue == Spec => []ReturnTrue
<1>1. Init => ExitTrue /\ FailedTrue
  BY DEF Init, ExitTrue, FailedTrue
<1>2. IInv /\ ExitTrue /\ FailedTrue /\ [Next]_vars => ExitTrue' /\ FailedTrue'
  BY ExitTrueStep, FailedTrueStep
<1>3. IInv /\ ExitTrue /\ FailedTrue => ReturnTrue
  <2>1. IInv => runs \in 0..1
    BY DEF IInv, TypeOK
  <2> QED BY <2>1 DEF ExitTrue, FailedTrue, ReturnTrue, Proc
<1> QED BY <1>1, <1>2, <1>3, AlwaysIInv, PTL DEF Spec
=============================================================================
