--------------------------- MODULE NodeLink_proofs ---------------------------
(***************************************************************************)
(* A node's one attempt and the hub's one link, for any number of           *)
(* connections, failures and reloads.                                       *)
(***************************************************************************)
EXTENDS NodeLink, FiniteSetTheorems, TLAPS

ConnState ==
    [n : {"hello", "ready", "gone"}, s : {"open", "waiting", "told", "ready", "closed", "gone"},
     frame : {"none", "hello", "ready", "update", "refused", "retry"},
     app : 0..MaxReloads, build : Builds, waited : BOOLEAN]

ConnOK == conn \in [Connections -> ConnState]

ServerBuilds == [0..MaxReloads -> Builds \cup {"building", "none"}]

\* The node's side, without counting: no two connections, and neither a redial, a dial
\* nor an update beside another of them or beside a connection; one of them unless the
\* node stopped. (A dial that a stop overtook may still be under way, beside anything.)
AttemptInv ==
    /\ \A i, j \in Live : i = j
    /\ Live # {} => ~stopped /\ ~timer /\ ~dialing /\ ~updating
    /\ timer => ~stopped /\ ~dialing /\ ~updating
    /\ ~stopped => ~(dialing /\ updating) /\ (timer \/ dialing \/ updating \/ Live # {})

\* What waits for the app's build says so: it is why a removed node may be linked.
WaitedInv == \A i \in Connections : conn[i].s = "waiting" => conn[i].waited

IInv == TypeOK /\ AttemptInv /\ OneLink /\ WaitedInv
-----------------------------------------------------------------------------
USE LinkAssumption

SameNodeEnds == \A j \in Connections : conn'[j].n = conn[j].n

SameServerEnds ==
    \A j \in Connections :
        conn'[j].s = conn[j].s /\ conn'[j].app = conn[j].app /\ conn'[j].waited = conn[j].waited

\* The node's invariant speaks of the node and of its ends of the connections only.
LEMMA NodeSide ==
    ASSUME IInv, UNCHANGED node, SameNodeEnds
    PROVE  /\ AttemptInv'
           /\ ~stopped' => (reported' = "connected" <=> \E i \in Connections : conn'[i].n = "ready")
<1>1. Live' = Live
  BY DEF Live, SameNodeEnds
<1>2. AttemptInv'
  BY <1>1 DEF IInv, AttemptInv, node
<1> QED BY <1>2 DEF IInv, TypeOK, node, SameNodeEnds

\* The hub's speaks of its links and of the server's ends only.
LEMMA ServerSide ==
    ASSUME IInv, link' = link, known' = known, app' = app, SameServerEnds
    PROVE  OneLink' /\ WaitedInv'
<1>1. link = None \/ link \in Connections
  BY DEF IInv, TypeOK
<1> QED BY <1>1 DEF IInv, OneLink, Open, WaitedInv, SameServerEnds, None

LEMMA LeftConn ==
    ASSUME ConnOK, NEW i \in Connections, Left(i)
    PROVE  /\ ConnOK' /\ SameServerEnds
           /\ \A j \in Connections : conn'[j].n = IF j = i THEN "gone" ELSE conn[j].n
<1> DEFINE left == [conn[i] EXCEPT !.n = "gone", !.frame = IF @ = "hello" THEN @ ELSE "none"]
<1>1. conn' = [conn EXCEPT ![i] = left]
  BY DEF ConnOK, Left
<1>2. /\ left \in ConnState
      /\ left.n = "gone" /\ left.s = conn[i].s /\ left.app = conn[i].app
      /\ left.waited = conn[i].waited
  <2>1. conn[i] \in ConnState
    BY DEF ConnOK
  <2> QED BY <2>1 DEF ConnState
<1> HIDE DEF left
<1> QED BY <1>1, <1>2 DEF ConnOK, SameServerEnds

LEMMA StopConn ==
    ASSUME ConnOK, Stop
    PROVE  /\ ConnOK' /\ SameServerEnds /\ Live' = {}
           /\ \A j \in Connections : conn'[j].n = "gone"
<1> DEFINE Stopped(j) == [conn[j] EXCEPT !.n = "gone"]
<1>1. conn' = [j \in Connections |-> Stopped(j)]
  BY DEF Stop
<1>2. \A j \in Connections :
          /\ Stopped(j) \in ConnState /\ Stopped(j).n = "gone"
          /\ Stopped(j).s = conn[j].s /\ Stopped(j).app = conn[j].app /\ Stopped(j).waited = conn[j].waited
  <2>1. \A j \in Connections : conn[j] \in ConnState
    BY DEF ConnOK
  <2> QED BY <2>1 DEF ConnState
<1> HIDE DEF Stopped
<1>3. ConnOK' /\ SameServerEnds /\ \A j \in Connections : conn'[j].n = "gone"
  BY <1>1, <1>2 DEF ConnOK, SameServerEnds
<1> QED BY <1>3 DEF Live

\* The server's side of one connection changes.
LEMMA OneReplaced ==
    ASSUME ConnOK, NEW i \in Connections, NEW c \in ConnState, c.n = conn[i].n,
           conn' = [conn EXCEPT ![i] = c]
    PROVE  /\ ConnOK' /\ SameNodeEnds /\ conn'[i] = c
           /\ \A j \in Connections \ {i} : conn'[j] = conn[j]
BY DEF ConnOK, SameNodeEnds

\* The hub closes connections.
LEMMA ClosedConns ==
    ASSUME ConnOK, NEW ends \in SUBSET Connections, Close(ends)
    PROVE  /\ ConnOK' /\ SameNodeEnds /\ \A j \in ends : conn'[j].s = "closed"
           /\ \A j \in ends : conn'[j].app = conn[j].app
           /\ \A j \in Connections \ ends : conn'[j] = conn[j]
<1> DEFINE Closed(j) == [conn[j] EXCEPT !.s = "closed"]
<1>1. \A j \in Connections :
          /\ Closed(j) \in ConnState /\ Closed(j).n = conn[j].n /\ Closed(j).s = "closed"
          /\ Closed(j).app = conn[j].app
  BY DEF ConnOK, ConnState
<1>2. conn' = [j \in Connections |-> IF j \in ends THEN Closed(j) ELSE conn[j]]
  BY DEF Close
<1> HIDE DEF Closed
<1> QED BY <1>1, <1>2 DEF ConnOK, SameNodeEnds

LEMMA ReplyConn ==
    ASSUME ConnOK, NEW i \in Connections, NEW waited \in BOOLEAN,
           NEW kind \in {"update", "refused", "retry"}, Reply(i, kind, waited)
    PROVE  /\ ConnOK' /\ SameNodeEnds /\ conn'[i].s = "told"
           /\ \A j \in Connections \ {i} : conn'[j] = conn[j]
<1> DEFINE told == [conn[i] EXCEPT !.frame = IF conn[i].n = "gone" THEN "none" ELSE kind,
                                   !.s = "told", !.waited = waited]
<1>1. conn' = [conn EXCEPT ![i] = told]
  BY DEF ConnOK, Reply
<1>2. told \in ConnState /\ told.n = conn[i].n /\ told.s = "told"
  <2>1. conn[i] \in ConnState
    BY DEF ConnOK
  <2> QED BY <2>1 DEF ConnState
<1> HIDE DEF told
<1> QED BY <1>1, <1>2, OneReplaced

LEMMA TypeParts == TypeOK => ConnOK /\ serverBuild \in ServerBuilds
BY DEF TypeOK, ConnOK, ConnState, ServerBuilds

LEMMA InitInv == Init => IInv
<1> SUFFICES ASSUME Init PROVE IInv
  OBVIOUS
<1>1. ConnOK /\ \A i \in Connections : conn[i].n = "gone" /\ conn[i].s = "gone"
  BY DEF Init, Free, ConnOK, ConnState, Builds
<1>2. TypeOK
  <2>1. ~(reported = "connected") /\ ~\E i \in Connections : conn[i].n = "ready"
    BY <1>1 DEF Init
  <2>2. failures \in 0..MaxFailures /\ app \in 0..MaxReloads /\ serverBuild \in ServerBuilds
    BY DEF Init, ServerBuilds
  <2> QED BY <1>1, <2>1, <2>2 DEF Init, TypeOK, ConnOK, ConnState, Builds, ServerBuilds
<1>3. AttemptInv
  BY <1>1 DEF Init, AttemptInv, Live
<1>4. OneLink /\ WaitedInv
  BY <1>1 DEF Init, OneLink, Open, WaitedInv, None, Connections
<1> QED BY <1>2, <1>3, <1>4 DEF IInv
-----------------------------------------------------------------------------
(* The node's steps. *)

\* Steps of the node that touch no connection.
LEMMA DialInv ==
    ASSUME IInv, Dial \/ DialFails \/ InstallFails \/ Restarts
    PROVE  IInv'
<1>1. /\ conn' = conn /\ link' = link /\ known' = known /\ app' = app
      /\ Live' = Live /\ SameServerEnds
  BY DEF Dial, DialFails, InstallFails, Restarts, server, Live, SameServerEnds
<1>2. OneLink' /\ WaitedInv'
  BY <1>1, ServerSide
<1>3. AttemptInv'
  BY <1>1 DEF IInv, AttemptInv, Dial, DialFails, InstallFails, Restarts, Schedule, TypeOK
<1>4. stopped => \A i \in Connections : conn[i].n = "gone"
  BY DEF IInv, AttemptInv, Live
<1>5. TypeOK'
  <2>1. failures' \in 0..MaxFailures
    BY DEF IInv, TypeOK, Dial, DialFails, InstallFails, Restarts, Fails
  <2>2. ~stopped' => (reported' = "connected" <=> \E i \in Connections : conn'[i].n = "ready")
    BY <1>1, <1>4 DEF IInv, TypeOK, Dial, DialFails, InstallFails, Restarts
  <2>3. /\ updates' \in BOOLEAN /\ stopped' \in BOOLEAN /\ updating' \in BOOLEAN /\ timer' \in BOOLEAN /\ dialing' \in BOOLEAN
        /\ reported' \in {"connecting", "connected", "refused"}
        /\ nodeBuild' \in Builds /\ installed' \in Builds \cup {"none"}
    BY DEF IInv, TypeOK, Dial, DialFails, InstallFails, Restarts, Schedule
  <2>4. UNCHANGED <<conn, app, serverBuild, known, link>>
    BY DEF Dial, DialFails, InstallFails, Restarts, server
  <2> QED BY <2>1, <2>2, <2>3, <2>4 DEF IInv, TypeOK
<1> QED BY <1>2, <1>3, <1>5 DEF IInv

LEMMA OpenedInv == ASSUME IInv, Opened PROVE IInv'
<1> USE DEF None
<1>1. PICK i \in Connections :
          /\ conn[i] = Free
          /\ conn' = IF stopped THEN conn
                     ELSE [conn EXCEPT ![i] = [n |-> "hello", s |-> "open", frame |-> "hello",
                                               app |-> app, build |-> nodeBuild, waited |-> FALSE]]
  BY DEF Opened
<1>2. /\ UNCHANGED <<updates, stopped, updating, timer, reported, nodeBuild, installed, failures>>
      /\ UNCHANGED <<app, serverBuild, known, link>> /\ dialing /\ dialing' = FALSE
  BY DEF Opened, server
<1>3. ConnOK' /\ ConnOK
  BY <1>1 DEF IInv, TypeOK, ConnOK, ConnState
<1>4. /\ conn[i].n = "gone" /\ conn[i].s = "gone"
      /\ \A j \in Connections \ {i} : conn'[j] = conn[j]
      /\ conn'[i].s \in {"gone", "open"}
      /\ conn'[i].n = IF stopped THEN "gone" ELSE "hello"
  BY <1>1, <1>3 DEF ConnOK, Free
<1>5. Live = {}
  BY <1>2 DEF IInv, AttemptInv
<1>6. Live' = IF stopped THEN {} ELSE {i}
  BY <1>4, <1>5 DEF Live
<1>7. AttemptInv'
  BY <1>2, <1>6 DEF IInv, AttemptInv
<1>8. TypeOK'
  BY <1>2, <1>3, <1>4, <1>5 DEF IInv, TypeOK, ConnOK, ConnState, Live
<1>9. OneLink' /\ WaitedInv'
  <2>1. link \in Connections => link # i
    BY <1>4 DEF IInv, OneLink, Connections
  <2>2. OneLink'
    <3>1. link = None \/ link \in Connections
      BY DEF IInv, TypeOK
    <3>2. \A j \in Connections : conn'[j].s = "ready" => j # i /\ conn[j].s = "ready"
      BY <1>4
    <3>3. link # None => link \in Connections /\ conn'[link] = conn[link]
      BY <1>4, <2>1, <3>1
    <3> QED BY <1>2, <3>2, <3>3 DEF IInv, OneLink, Open
  <2>3. WaitedInv'
    BY <1>4 DEF IInv, WaitedInv
  <2> QED BY <2>2, <2>3
<1> QED BY <1>7, <1>8, <1>9 DEF IInv

LEMMA ReadyInv ==
    ASSUME IInv, NEW i \in Connections, Ready(i)
    PROVE  IInv'
<1>1. /\ UNCHANGED <<updates, stopped, updating, timer, dialing, nodeBuild, installed, failures>>
      /\ UNCHANGED <<app, serverBuild, known, link>> /\ reported' = "connected"
  BY DEF Ready, server
<1>2. ConnOK' /\ ConnOK /\ SameServerEnds /\ conn[i].n = "hello" /\ conn'[i].n = "ready"
      /\ \A j \in Connections \ {i} : conn'[j] = conn[j]
  BY DEF Ready, ReplyOf, IInv, TypeOK, ConnOK, SameServerEnds
<1>3. Live' = Live
  BY <1>2 DEF Live
<1>4. TypeOK'
  BY <1>1, <1>2 DEF IInv, TypeOK, ConnOK, ConnState
<1>5. AttemptInv'
  BY <1>1, <1>3 DEF IInv, AttemptInv
<1> QED BY <1>1, <1>2, <1>4, <1>5, ServerSide DEF IInv

\* The steps by which a node stops.
LEMMA StopInv ==
    ASSUME IInv, Installed \/ StopNode \/ (\E i \in Connections : Refused(i))
    PROVE  IInv'
<1>1. /\ Stop /\ stopped' /\ ~timer' /\ UNCHANGED <<updates, nodeBuild, failures>>
      /\ UNCHANGED <<app, serverBuild, known, link>> /\ UNCHANGED <<updating, dialing>>
      /\ reported' \in {reported, "refused"} /\ installed' \in {installed} \cup Builds
  BY DEF Installed, StopNode, Refused, Stop, server
<1>2. ConnOK' /\ SameServerEnds /\ Live' = {}
  BY <1>1, StopConn, TypeParts DEF IInv
<1>3. TypeOK'
  BY <1>1, <1>2 DEF IInv, TypeOK, ConnOK, ConnState, Stop
<1>4. AttemptInv'
  BY <1>1, <1>2 DEF AttemptInv
<1> QED BY <1>1, <1>2, <1>3, <1>4, ServerSide DEF IInv

\* A connection that ends for the node: by the server's answer or by itself.
LEMMA LeftInv ==
    ASSUME IInv, NEW i \in Connections, Retry(i) \/ Update(i) \/ NodeClosed(i)
    PROVE  IInv'
<1>1. /\ Left(i) /\ conn[i].n # "gone"
      /\ UNCHANGED <<updates, stopped, dialing, nodeBuild, installed>>
      /\ UNCHANGED <<app, serverBuild, known, link>> /\ failures' \in 0..MaxFailures
  BY DEF Retry, Update, NodeClosed, ReplyOf, server, IInv, TypeOK, FailsUnless, Fails
<1>2. /\ ConnOK' /\ SameServerEnds
      /\ \A j \in Connections : conn'[j].n = IF j = i THEN "gone" ELSE conn[j].n
  BY <1>1, LeftConn, TypeParts DEF IInv
<1>3. Live = {i} /\ Live' = {} /\ \A j \in Connections : conn'[j].n = "gone"
  BY <1>1, <1>2 DEF IInv, AttemptInv, Live
<1>4. ~stopped /\ ~timer /\ ~dialing /\ ~updating
  BY <1>3 DEF IInv, AttemptInv
<1>5. /\ updating' \in BOOLEAN /\ timer' = ~updating'
      /\ reported' \in {"connecting", "refused"}
  BY <1>2, <1>3, <1>4 DEF Retry, Update, NodeClosed, Schedule, IInv, TypeOK, ReplyOf, Live
<1>6. TypeOK'
  BY <1>1, <1>2, <1>3, <1>5 DEF IInv, TypeOK, ConnOK, ConnState
<1>7. AttemptInv'
  BY <1>1, <1>3, <1>4, <1>5 DEF AttemptInv
<1> QED BY <1>1, <1>2, <1>6, <1>7, ServerSide DEF IInv
-----------------------------------------------------------------------------
(* The server's steps. *)

\* What the server's steps leave alone, and what is left to show of them.
LEMMA ServerStepInv ==
    ASSUME IInv, UNCHANGED node, ConnOK', SameNodeEnds, app' \in 0..MaxReloads,
           serverBuild' \in ServerBuilds, known' \in BOOLEAN,
           link' \in {None} \cup Connections, failures' \in 0..MaxFailures,
           OneLink', WaitedInv'
    PROVE  IInv'
<1>1. TypeOK'
  BY NodeSide DEF IInv, TypeOK, ConnOK, ConnState, ServerBuilds, node
<1> QED BY <1>1, NodeSide DEF IInv

\* A connection that is not linked changes, and is not linked by it.
LEMMA UnlinkedInv ==
    ASSUME IInv, UNCHANGED <<link, known, app>>, NEW i \in Connections, link # i,
           \A j \in Connections \ {i} : conn'[j] = conn[j],
           conn'[i].s # "ready", conn'[i].s = "waiting" => conn'[i].waited
    PROVE  link' \in {None} \cup Connections /\ OneLink' /\ WaitedInv'
<1>1. link' \in {None} \cup Connections
  BY DEF IInv, TypeOK
<1>2. \A j \in Connections : conn'[j].s = "ready" => link' = j
  BY DEF IInv, OneLink
<1>3. link # None => link \in Connections \ {i}
  BY <1>1
<1>4. /\ link' # None => conn'[link'].s \in {"ready", "closed"} /\ conn'[link'].app = app'
      /\ ~known' /\ Open' => conn'[link'].waited
  BY <1>3 DEF IInv, OneLink, Open
<1>5. WaitedInv'
  BY DEF IInv, WaitedInv
<1> QED BY <1>1, <1>2, <1>4, <1>5 DEF OneLink

LEMMA RepliedInv ==
    ASSUME IInv, NEW i \in Connections, NEW waited \in BOOLEAN,
           NEW kind \in {"update", "refused", "retry"}, Reply(i, kind, waited),
           conn[i].s \in {"open", "waiting"}, UNCHANGED <<link, known, app>>
    PROVE  ConnOK' /\ SameNodeEnds /\ link' \in {None} \cup Connections /\ OneLink' /\ WaitedInv'
<1>1. /\ ConnOK' /\ SameNodeEnds /\ conn'[i].s = "told"
      /\ \A j \in Connections \ {i} : conn'[j] = conn[j]
  BY ReplyConn, TypeParts DEF IInv
<1>2. link # i
  BY DEF IInv, OneLink, None, Connections
<1> QED BY <1>1, <1>2, UnlinkedInv

LEMMA LinkedInv ==
    ASSUME IInv, NEW i \in Connections, Linked(i), conn[i].s \in {"open", "waiting"},
           UNCHANGED <<known, app>>, known \/ conn[i].waited
    PROVE  ConnOK' /\ SameNodeEnds /\ link' \in {None} \cup Connections /\ OneLink' /\ WaitedInv'
<1>1. link # i /\ ConnOK
  BY TypeParts DEF IInv, OneLink, None, Connections
<1>2. CASE conn[i].app # app
  <2>1. Close({i}) /\ link' = link
    BY <1>2 DEF Linked
  <2>2. ConnOK' /\ SameNodeEnds /\ conn'[i].s = "closed"
        /\ \A j \in Connections \ {i} : conn'[j] = conn[j]
    <3>1. {i} \in SUBSET Connections
      OBVIOUS
    <3> QED BY <1>1, <2>1, <3>1, ClosedConns
  <2> QED BY <1>1, <2>1, <2>2, UnlinkedInv
<1>3. CASE conn[i].app = app
  <2>1. /\ link' = i
        /\ conn' = [j \in Connections |->
               IF j = i THEN [conn[i] EXCEPT !.s = "ready",
                                  !.frame = IF conn[i].n = "gone" THEN "none" ELSE "ready"]
               ELSE IF j = link THEN [conn[j] EXCEPT !.s = "closed"] ELSE conn[j]]
    BY <1>3 DEF Linked
  <2>2. /\ ConnOK' /\ SameNodeEnds /\ conn'[i].s = "ready" /\ conn'[i].waited = conn[i].waited
        /\ conn'[i].app = conn[i].app
        /\ \A j \in Connections \ {i} :
               conn'[j].s = (IF j = link THEN "closed" ELSE conn[j].s) /\ conn'[j].waited = conn[j].waited
    <3> DEFINE linked == [conn[i] EXCEPT !.s = "ready", !.frame = IF conn[i].n = "gone" THEN "none" ELSE "ready"]
               Replaced(j) == [conn[j] EXCEPT !.s = "closed"]
    <3>1. conn' = [j \in Connections |-> IF j = i THEN linked ELSE IF j = link THEN Replaced(j) ELSE conn[j]]
      BY <2>1
    <3>2. /\ linked \in ConnState /\ linked.n = conn[i].n /\ linked.s = "ready"
          /\ linked.waited = conn[i].waited /\ linked.app = conn[i].app
      BY <1>1 DEF ConnOK, ConnState
    <3>3. \A j \in Connections : /\ Replaced(j) \in ConnState /\ Replaced(j).n = conn[j].n
                                /\ Replaced(j).s = "closed" /\ Replaced(j).waited = conn[j].waited
      BY <1>1 DEF ConnOK, ConnState
    <3> HIDE DEF linked, Replaced
    <3> QED BY <1>1, <3>1, <3>2, <3>3 DEF ConnOK, SameNodeEnds
  <2>3. \A j \in Connections \ {i} : conn'[j].s # "ready"
    BY <2>2 DEF IInv, OneLink
  <2>4. \A j \in Connections : conn'[j].s = "ready" => link' = j
    BY <2>1, <2>3
  <2>5. /\ link' # None => conn'[link'].s \in {"ready", "closed"} /\ conn'[link'].app = app'
        /\ ~known' /\ Open' => conn'[link'].waited
    BY <1>3, <2>1, <2>2
  <2>6. WaitedInv'
    BY <2>2 DEF IInv, WaitedInv
  <2> QED BY <2>1, <2>2, <2>4, <2>5, <2>6 DEF OneLink
<1> QED BY <1>2, <1>3

LEMMA DecideInv ==
    ASSUME IInv, NEW i \in Connections, NEW build, Decide(i, build),
           conn[i].s \in {"open", "waiting"}, UNCHANGED <<known, app>>, known \/ conn[i].waited
    PROVE  ConnOK' /\ SameNodeEnds /\ link' \in {None} \cup Connections /\ OneLink' /\ WaitedInv'
BY RepliedInv, LinkedInv DEF Decide

LEMMA HelloInv == ASSUME IInv, NEW i \in Connections, Hello(i) PROVE IInv'
<1>1. /\ UNCHANGED <<node, app, serverBuild, known, failures>> /\ conn[i].s = "open"
      /\ \/ Reply(i, "refused", FALSE) /\ UNCHANGED link
         \/ known /\ Decide(i, BuildOf(i))
         \/ /\ UNCHANGED link
            /\ conn' = [conn EXCEPT ![i].s = "waiting", ![i].frame = "none", ![i].waited = TRUE]
  BY DEF Hello
<1>2. ASSUME Reply(i, "refused", FALSE), UNCHANGED link
      PROVE  ConnOK' /\ SameNodeEnds /\ link' \in {None} \cup Connections /\ OneLink' /\ WaitedInv'
  BY <1>1, <1>2, RepliedInv
<1>3. ASSUME known, Decide(i, BuildOf(i))
      PROVE  ConnOK' /\ SameNodeEnds /\ link' \in {None} \cup Connections /\ OneLink' /\ WaitedInv'
  BY <1>1, <1>3, DecideInv
<1>4. ASSUME UNCHANGED link,
             conn' = [conn EXCEPT ![i].s = "waiting", ![i].frame = "none", ![i].waited = TRUE]
      PROVE  ConnOK' /\ SameNodeEnds /\ link' \in {None} \cup Connections /\ OneLink' /\ WaitedInv'
  <2>1. ConnOK
    BY TypeParts DEF IInv
  <2>2. link # i
    BY <1>1 DEF IInv, OneLink, None, Connections
  <2> DEFINE waiting == [conn[i] EXCEPT !.s = "waiting", !.frame = "none", !.waited = TRUE]
  <2>3. conn' = [conn EXCEPT ![i] = waiting]
    BY <1>4, <2>1 DEF ConnOK
  <2>4. /\ waiting \in ConnState /\ waiting.n = conn[i].n
        /\ waiting.s = "waiting" /\ waiting.waited
    BY <2>1 DEF ConnOK, ConnState
  <2> HIDE DEF waiting
  <2>5. /\ ConnOK' /\ SameNodeEnds /\ conn'[i] = waiting
        /\ \A j \in Connections \ {i} : conn'[j] = conn[j]
    BY <2>1, <2>3, <2>4, OneReplaced
  <2> QED BY <1>1, <1>4, <2>2, <2>4, <2>5, UnlinkedInv
<1>5. ConnOK' /\ SameNodeEnds /\ link' \in {None} \cup Connections /\ OneLink' /\ WaitedInv'
  BY <1>1, <1>2, <1>3, <1>4
<1>6. /\ app' \in 0..MaxReloads /\ serverBuild' \in ServerBuilds
      /\ known' \in BOOLEAN /\ failures' \in 0..MaxFailures
  BY <1>1, TypeParts DEF IInv, TypeOK
<1> QED BY <1>1, <1>5, <1>6, ServerStepInv

LEMMA WaitedStepInv == ASSUME IInv, NEW i \in Connections, Waited(i) PROVE IInv'
<1>1. /\ UNCHANGED <<node, app, serverBuild, known>> /\ conn[i].s = "waiting"
      /\ Decide(i, BuildOf(i)) \/ (Reply(i, "retry", TRUE) /\ UNCHANGED link)
  BY DEF Waited
<1>2. conn[i].waited
  BY <1>1 DEF IInv, WaitedInv
<1>3. ASSUME Decide(i, BuildOf(i))
      PROVE  ConnOK' /\ SameNodeEnds /\ link' \in {None} \cup Connections /\ OneLink' /\ WaitedInv'
  BY <1>1, <1>2, <1>3, DecideInv
<1>4. ASSUME Reply(i, "retry", TRUE), UNCHANGED link
      PROVE  ConnOK' /\ SameNodeEnds /\ link' \in {None} \cup Connections /\ OneLink' /\ WaitedInv'
  BY <1>1, <1>4, RepliedInv
<1>5. ConnOK' /\ SameNodeEnds /\ link' \in {None} \cup Connections /\ OneLink' /\ WaitedInv'
  BY <1>1, <1>3, <1>4
<1>6. /\ app' \in 0..MaxReloads /\ serverBuild' \in ServerBuilds
      /\ known' \in BOOLEAN /\ failures' \in 0..MaxFailures
  <2>1. failures' = failures \/ (failures < MaxFailures /\ failures' = failures + 1)
    BY DEF Waited, Fails
  <2> QED BY <1>1, <2>1, TypeParts DEF IInv, TypeOK
<1> QED BY <1>1, <1>5, <1>6, ServerStepInv

\* A connection's end, seen by the hub: its own link is forgotten, and no other.
LEMMA ServerClosedInv == ASSUME IInv, NEW i \in Connections, ServerClosed(i) PROVE IInv'
<1>1. /\ UNCHANGED <<node, app, serverBuild, known>> /\ failures' \in 0..MaxFailures
      /\ link' = IF link = i THEN None ELSE link
      /\ conn' = [conn EXCEPT ![i].s = "gone",
                              ![i].frame = IF conn[i].s = "closed" THEN @ ELSE "none"]
  BY DEF ServerClosed, Forgets, FailsUnless, Fails, IInv, TypeOK
<1>2. /\ ConnOK' /\ SameNodeEnds /\ conn'[i].s = "gone"
      /\ \A j \in Connections \ {i} : conn'[j] = conn[j]
  <2> DEFINE ended == [conn[i] EXCEPT !.s = "gone",
                                      !.frame = IF conn[i].s = "closed" THEN @ ELSE "none"]
  <2>1. ConnOK
    BY TypeParts DEF IInv
  <2>2. conn' = [conn EXCEPT ![i] = ended]
    BY <1>1, <2>1 DEF ConnOK
  <2>3. ended \in ConnState /\ ended.s = "gone" /\ ended.n = conn[i].n
    BY <2>1 DEF ConnOK, ConnState
  <2> HIDE DEF ended
  <2> QED BY <2>1, <2>2, <2>3, OneReplaced
<1>3. link' \in {None} \cup Connections /\ OneLink' /\ WaitedInv'
  <2>1. link \in {None} \cup Connections
    BY DEF IInv, TypeOK
  <2>2. \A j \in Connections : conn'[j].s = "ready" => link' = j
    BY <1>1, <1>2 DEF IInv, OneLink
  <2>3. /\ link' # None => conn'[link'].s \in {"ready", "closed"} /\ conn'[link'].app = app'
        /\ ~known' /\ Open' => conn'[link'].waited
    BY <1>1, <1>2, <2>1 DEF IInv, OneLink, Open
  <2>4. WaitedInv'
    BY <1>2 DEF IInv, WaitedInv
  <2> QED BY <1>1, <2>1, <2>2, <2>3, <2>4 DEF OneLink
<1>4. app' \in 0..MaxReloads /\ serverBuild' \in ServerBuilds /\ known' \in BOOLEAN
  BY <1>1, TypeParts DEF IInv, TypeOK
<1> QED BY <1>1, <1>2, <1>3, <1>4, ServerStepInv

\* The link of a removed node is closed; the hub forgets it as it sees its end.
LEMMA RemoveInv == ASSUME IInv, Remove PROVE IInv'
<1> DEFINE ends == {link} \ {None}
<1>1. /\ UNCHANGED <<node, app, serverBuild, link, failures>> /\ known' = FALSE
      /\ Close(ends) /\ ends \in SUBSET Connections /\ link \in {None} \cup Connections
  BY DEF Remove, IInv, TypeOK
<1>2. \A j \in ends : j = link
  OBVIOUS
<1>3. link # None => link \in ends
  OBVIOUS
<1> HIDE DEF ends
<1>4. /\ ConnOK' /\ SameNodeEnds
      /\ \A j \in ends : conn'[j].s = "closed" /\ conn'[j].app = conn[j].app
      /\ \A j \in Connections \ ends : conn'[j] = conn[j]
  BY <1>1, TypeParts, ClosedConns DEF IInv
<1>5. \A j \in Connections : conn'[j].s # "ready"
  BY <1>1, <1>3, <1>4 DEF IInv, OneLink, None, Connections
<1>6. link' \in {None} \cup Connections /\ OneLink' /\ WaitedInv'
  BY <1>1, <1>3, <1>4, <1>5 DEF IInv, OneLink, Open, WaitedInv
<1>7. /\ app' \in 0..MaxReloads /\ serverBuild' \in ServerBuilds
      /\ known' \in BOOLEAN /\ failures' \in 0..MaxFailures
  BY <1>1, TypeParts DEF IInv, TypeOK
<1> QED BY <1>1, <1>4, <1>6, <1>7, ServerStepInv

LEMMA ReloadInv == ASSUME IInv, Reload PROVE IInv'
<1>1. PICK kept \in SUBSET {i \in Connections : conn[i].s \in {"open", "waiting", "told"}} :
          Close({i \in Connections : conn[i].s # "gone"} \ kept)
  BY DEF Reload
<1> DEFINE ends == {i \in Connections : conn[i].s # "gone"} \ kept
<1>2. /\ UNCHANGED <<node, serverBuild, known, failures>> /\ app' \in 0..MaxReloads
      /\ link' = None /\ ends \in SUBSET Connections /\ Close(ends)
  BY <1>1 DEF Reload, IInv, TypeOK
<1>3. \A j \in Connections \ ends : conn[j].s # "ready"
  OBVIOUS
<1> HIDE DEF ends
<1>4. /\ ConnOK' /\ SameNodeEnds /\ \A j \in ends : conn'[j].s = "closed"
      /\ \A j \in Connections \ ends : conn'[j] = conn[j]
  BY <1>2, TypeParts, ClosedConns DEF IInv
<1>5. link' \in {None} \cup Connections /\ OneLink' /\ WaitedInv'
  BY <1>2, <1>3, <1>4 DEF IInv, OneLink, Open, WaitedInv
<1>6. serverBuild' \in ServerBuilds /\ known' \in BOOLEAN /\ failures' \in 0..MaxFailures
  BY <1>2, TypeParts DEF IInv, TypeOK
<1> QED BY <1>2, <1>4, <1>5, <1>6, ServerStepInv

LEMMA ForgetInv == ASSUME IInv, NEW i \in Connections, Forget(i) PROVE IInv'
<1>1. /\ UNCHANGED <<node, app, serverBuild, known, link, failures>> /\ conn[i].n = "gone"
      /\ conn[i].s = "gone" /\ conn' = [conn EXCEPT ![i] = Free]
  BY DEF Forget, server
<1>2. /\ ConnOK' /\ SameNodeEnds /\ conn'[i].s = "gone"
      /\ \A j \in Connections \ {i} : conn'[j] = conn[j]
  <2>1. Free \in ConnState /\ Free.n = "gone" /\ Free.s = "gone"
    BY DEF Free, ConnState, Builds
  <2> QED BY <1>1, <2>1, TypeParts, OneReplaced DEF IInv
<1>3. link # i
  BY <1>1 DEF IInv, OneLink, None, Connections
<1>4. link' \in {None} \cup Connections /\ OneLink' /\ WaitedInv'
  BY <1>1, <1>2, <1>3, UnlinkedInv
<1>5. /\ app' \in 0..MaxReloads /\ serverBuild' \in ServerBuilds
      /\ known' \in BOOLEAN /\ failures' \in 0..MaxFailures
  BY <1>1, TypeParts DEF IInv, TypeOK
<1> QED BY <1>1, <1>2, <1>4, <1>5, ServerStepInv

LEMMA BuiltInv == ASSUME IInv, Built PROVE IInv'
<1>1. UNCHANGED <<node, conn, app, known, link, failures>> /\ serverBuild' \in ServerBuilds
  BY TypeParts DEF Built, ServerBuilds, IInv
<1>2. SameNodeEnds /\ SameServerEnds /\ ConnOK'
  BY <1>1, TypeParts DEF SameNodeEnds, SameServerEnds, IInv, ConnOK
<1>3. OneLink' /\ WaitedInv'
  BY <1>1, <1>2, ServerSide
<1>4. /\ app' \in 0..MaxReloads /\ known' \in BOOLEAN /\ failures' \in 0..MaxFailures
      /\ link' \in {None} \cup Connections
  BY <1>1 DEF IInv, TypeOK
<1> QED BY <1>1, <1>2, <1>3, <1>4, ServerStepInv
-----------------------------------------------------------------------------
LEMMA Inductive == IInv /\ [Next]_vars => IInv'
<1> SUFFICES ASSUME IInv, [Next]_vars PROVE IInv'
  OBVIOUS
<1>1. CASE Dial \/ DialFails \/ InstallFails \/ Restarts
  BY <1>1, DialInv
<1>2. CASE Opened
  BY <1>2, OpenedInv
<1>3. CASE Installed \/ StopNode \/ (\E i \in Connections : Refused(i))
  BY <1>3, StopInv
<1>4. CASE Built
  BY <1>4, BuiltInv
<1>5. CASE Remove
  BY <1>5, RemoveInv
<1>6. CASE Reload
  BY <1>6, ReloadInv
<1>7. ASSUME NEW i \in Connections,
             \/ Ready(i) \/ Retry(i) \/ Update(i) \/ NodeClosed(i)
             \/ Hello(i) \/ Waited(i) \/ ServerClosed(i) \/ Forget(i)
      PROVE  IInv'
  BY <1>7, ReadyInv, LeftInv, HelloInv, WaitedStepInv, ServerClosedInv, ForgetInv
<1>8. CASE UNCHANGED vars
  BY <1>8 DEF vars, node, server, IInv, TypeOK, AttemptInv, Live, OneLink, Open, WaitedInv
<1> QED
  BY <1>1, <1>2, <1>3, <1>4, <1>5, <1>6, <1>7, <1>8 DEF Next, NodeStep, ServerStep

LEMMA InvariantHolds == Spec => []IInv
BY InitInv, Inductive, PTL DEF Spec

\* The state has its type, and a node that runs reports itself connected exactly while a
\* connection of it is negotiated, however its connections end (connectNode).
THEOREM TypeCorrect == Spec => []TypeOK
<1>1. IInv => TypeOK
  BY DEF IInv
<1> QED BY <1>1, InvariantHolds, PTL

\* A node that did not stop waits for exactly one thing, and a stopped one for none.
THEOREM AttemptsOne == Spec => []OneAttempt
<1>1. IInv => OneAttempt
  <2> SUFFICES ASSUME IInv PROVE OneAttempt
    OBVIOUS
  <2>1. CASE Live = {}
    <3>1. Cardinality(Live) = 0
      BY <2>1, FS_EmptySet
    <3> QED BY <2>1, <3>1 DEF IInv, TypeOK, AttemptInv, OneAttempt, Count
  <2>2. CASE Live # {}
    <3>1. PICK i : Live = {i}
      BY <2>2 DEF IInv, AttemptInv
    <3>2. Cardinality(Live) = 1
      BY <3>1, FS_Singleton
    <3> QED BY <2>2, <3>2 DEF IInv, AttemptInv, OneAttempt, Count
  <2> QED BY <2>1, <2>2
<1> QED BY <1>1, InvariantHolds, PTL

\* A connection negotiated and open at the server is the hub's link, whatever replaced or
\* closed connection ends late beside it (socket.onclose, guarded by the link's identity);
\* a removed node has an open link only by a hello that waited for the app's build.
THEOREM LinksOne == Spec => []OneLink
<1>1. IInv => OneLink
  BY DEF IInv
<1> QED BY <1>1, InvariantHolds, PTL

\* Removed, without an open link and with no hello that waits for the app's build.
LeftForGood ==
    /\ ~known /\ \A i \in Connections : conn[i].s \notin {"waiting", "ready"}

\* Once a removed node has no open link and none of its hellos waits for the app's build,
\* it is never linked again, however often it dials and whatever becomes of the app: the
\* exemption of OneLink is the only way back (server-peer.ts, serve before offerUpdate).
THEOREM RemovedStaysAway == Spec => [][LeftForGood => LeftForGood' /\ ~Open']_vars
<1>0. IInv /\ [Next]_vars => (LeftForGood' => ~Open')
  <2> SUFFICES ASSUME IInv', LeftForGood' PROVE ~Open'
    BY Inductive
  <2>1. link' = None \/ link' \in Connections
    BY DEF IInv, TypeOK
  <2> QED BY <2>1 DEF LeftForGood, Open
<1>1. IInv /\ [Next]_vars => (LeftForGood => LeftForGood')
  <2> SUFFICES ASSUME IInv, [Next]_vars, LeftForGood PROVE LeftForGood'
    OBVIOUS
  <2>0. ConnOK
    BY DEF IInv, TypeOK, ConnOK, ConnState
  <2>1. CASE Dial \/ DialFails \/ InstallFails \/ Restarts \/ Built \/ UNCHANGED vars
    BY <2>1 DEF Dial, DialFails, InstallFails, Restarts, Built, vars, server, LeftForGood
  <2>2. CASE Opened
    BY <2>0, <2>2 DEF ConnOK, Opened, server, LeftForGood
  <2>3. CASE Installed \/ StopNode \/ (\E i \in Connections : Refused(i))
    BY <2>0, <2>3 DEF ConnOK, ConnState, Installed, StopNode, Refused, Stop, server, LeftForGood
  <2>4. CASE Remove
    BY <2>4 DEF Remove, LeftForGood
  <2>5. CASE Reload
    BY <2>0, <2>5 DEF ConnOK, ConnState, Reload, Close, LeftForGood
  <2>6. ASSUME NEW i \in Connections, Ready(i) \/ Retry(i) \/ Update(i) \/ NodeClosed(i)
        PROVE  LeftForGood'
    BY <2>0, <2>6 DEF ConnOK, ConnState, Ready, Retry, Update, NodeClosed, Left, server, LeftForGood
  <2>7. ASSUME NEW i \in Connections, Hello(i) PROVE LeftForGood'
    BY <2>0, <2>7 DEF ConnOK, ConnState, Hello, Reply, LeftForGood
  <2>8. ASSUME NEW i \in Connections, Waited(i) PROVE LeftForGood'
    BY <2>8 DEF Waited, LeftForGood
  <2>9. ASSUME NEW i \in Connections, ServerClosed(i) PROVE LeftForGood'
    BY <2>0, <2>9 DEF ConnOK, ServerClosed, LeftForGood
  <2>10. ASSUME NEW i \in Connections, Forget(i) PROVE LeftForGood'
    BY <2>0, <2>10 DEF ConnOK, ConnState, Forget, Free, server, LeftForGood
  <2> QED
    BY <2>1, <2>2, <2>3, <2>4, <2>5, <2>6, <2>7, <2>8, <2>9, <2>10 DEF Next, NodeStep, ServerStep
<1> QED BY <1>0, <1>1, InvariantHolds, PTL DEF Spec
=============================================================================
