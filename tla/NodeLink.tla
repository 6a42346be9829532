------------------------------ MODULE NodeLink ------------------------------
(***************************************************************************)
(* A node's connection to its server: connectNode dials, says hello, redials *)
(* and updates itself; the app's node hub serves one link of the node, for   *)
(* as long as the node is not removed and runs the server's build. Either    *)
(* end may notice a broken connection first, and a reload replaces the app.  *)
(***************************************************************************)
EXTENDS Naturals, FiniteSets

CONSTANTS MaxConnections,  \* bound: connections an end has left at a time
          MaxFailures,     \* bound: dials, links and updates that fail
          MaxReloads       \* bound: server reloads

ASSUME LinkAssumption ==
    MaxConnections \in Nat \ {0} /\ MaxFailures \in Nat /\ MaxReloads \in Nat

Connections == 1..MaxConnections

Builds == {"old", "new"}

VARIABLES
    \* The node's connectNode.
    updates,     \* the node can update itself: it has an onUpdate
    stopped, updating,
    timer,       \* a redial is scheduled
    dialing,     \* transport.open is under way
    reported,    \* the link's state as last reported
    nodeBuild,   \* the build the process runs
    installed,   \* the build it installed and is restarted on, or none
    \* The connections: the node's end, the server's, and the frame between them.
    conn,
    \* The server.
    app,         \* the current app
    serverBuild, \* each app's node build, once it is built; none when that failed
    known,       \* the node was not removed
    link,        \* the node's entry among the current hub's links, 0 for none
    failures     \* bound: failures so far

node == <<updates, stopped, updating, timer, dialing, reported, nodeBuild, installed>>
server == <<app, serverBuild, known, link>>
vars == <<node, conn, server, failures>>

None == 0

Free == [n |-> "gone", s |-> "gone", frame |-> "none", app |-> 0, build |-> "old", waited |-> FALSE]

TypeOK ==
    /\ updates \in BOOLEAN
    /\ stopped \in BOOLEAN /\ updating \in BOOLEAN /\ timer \in BOOLEAN /\ dialing \in BOOLEAN
    /\ reported \in {"connecting", "connected", "refused"}
    /\ nodeBuild \in Builds /\ installed \in Builds \cup {"none"}
    /\ conn \in [Connections ->
           [n : {"hello", "ready", "gone"},
            s : {"open", "waiting", "told", "ready", "closed", "gone"},
            frame : {"none", "hello", "ready", "update", "refused", "retry"},
            app : 0..MaxReloads, build : Builds, waited : BOOLEAN]]
    /\ app \in 0..MaxReloads /\ serverBuild \in [0..MaxReloads -> Builds \cup {"building", "none"}]
    /\ known \in BOOLEAN /\ link \in {None} \cup Connections /\ failures \in 0..MaxFailures
    \* A node that runs reports itself connected while a connection of it is negotiated.
    /\ ~stopped => (reported = "connected" <=> \E i \in Connections : conn[i].n = "ready")

Init ==
    /\ updates \in BOOLEAN
    /\ stopped = FALSE /\ updating = FALSE /\ timer = FALSE /\ dialing = TRUE
    /\ reported = "connecting"
    /\ nodeBuild = "old" /\ installed = "none" /\ conn = [i \in Connections |-> Free]
    /\ app = 0 /\ serverBuild = [a \in 0..MaxReloads |-> "building"] /\ known = TRUE /\ link = None /\ failures = 0
-----------------------------------------------------------------------------
Fails == failures < MaxFailures /\ failures' = failures + 1

FailsUnless(due) == IF due THEN UNCHANGED failures ELSE Fails

\* schedule
Schedule == timer' = (timer \/ (~stopped /\ ~updating))

\* stop: no timer, and the current connection closes.
Stop ==
    /\ stopped' = TRUE /\ timer' = FALSE
    /\ conn' = [i \in Connections |-> [conn[i] EXCEPT !.n = "gone"]]

\* connect
Dial ==
    /\ timer /\ timer' = FALSE /\ dialing' = TRUE
    /\ UNCHANGED <<updates, stopped, updating, reported, nodeBuild, installed, conn, server, failures>>

DialFails ==
    /\ dialing /\ dialing' = FALSE /\ Fails /\ Schedule
    /\ UNCHANGED <<updates, stopped, updating, reported, nodeBuild, installed, conn, server>>

\* opened: the hello is sent on the new socket, which the current app accepts; stopped
\* meanwhile, the node closes it.
Opened ==
    /\ dialing /\ dialing' = FALSE
    /\ \E i \in Connections :
           /\ conn[i] = Free /\ \A j \in 1..(i - 1) : conn[j] # Free
           /\ conn' = IF stopped THEN conn
                      ELSE [conn EXCEPT ![i] = [n |-> "hello", s |-> "open", frame |-> "hello",
                                                app |-> app, build |-> nodeBuild, waited |-> FALSE]]
    /\ UNCHANGED <<updates, stopped, updating, timer, reported, nodeBuild, installed, server, failures>>

\* The node's end of a connection closes; what the server may have sent it is dropped.
Left(i) == conn' = [conn EXCEPT ![i].n = "gone",
                                ![i].frame = IF @ = "hello" THEN @ ELSE "none"]

ReplyOf(i, kind) == conn[i].n = "hello" /\ conn[i].frame = kind

Ready(i) ==
    /\ ReplyOf(i, "ready") /\ reported' = "connected"
    /\ conn' = [conn EXCEPT ![i].n = "ready", ![i].frame = "none"]
    /\ UNCHANGED <<updates, stopped, updating, timer, dialing, nodeBuild, installed, server, failures>>

\* refuse: the server's refusal, or an update where the node cannot update itself.
Refused(i) ==
    /\ ReplyOf(i, "refused") \/ (ReplyOf(i, "update") /\ ~updates)
    /\ Stop /\ reported' = "refused"
    /\ UNCHANGED <<updates, updating, dialing, nodeBuild, installed, server, failures>>

\* A hello that failed otherwise: the connection closes, and is redialed.
Retry(i) ==
    /\ ReplyOf(i, "retry") /\ Left(i) /\ Schedule
    /\ UNCHANGED <<updates, stopped, updating, dialing, reported, nodeBuild, installed, server, failures>>

\* Mutant: the redial that the connection's end scheduled is not cancelled.
UpdateRedials(i) ==
    /\ ReplyOf(i, "update") /\ updates /\ Left(i) /\ updating' = TRUE /\ Schedule
    /\ UNCHANGED <<updates, stopped, dialing, reported, nodeBuild, installed, server, failures>>

\* update: the connection's end schedules a redial, which is cancelled.
Update(i) ==
    /\ ReplyOf(i, "update") /\ updates /\ Left(i) /\ updating' = TRUE /\ timer' = FALSE
    /\ UNCHANGED <<updates, stopped, dialing, reported, nodeBuild, installed, server, failures>>

\* onUpdate resolves: the node stops, to be started again on the app's build.
Installed ==
    /\ updating /\ ~stopped /\ Stop /\ installed' \in Builds \ {nodeBuild}
    /\ UNCHANGED <<updates, updating, dialing, reported, nodeBuild, server, failures>>

\* Mutant: it does not ask again.
InstallGivesUp ==
    /\ updating /\ installed = "none" /\ Fails /\ updating' = FALSE
    /\ UNCHANGED <<updates, stopped, timer, dialing, reported, nodeBuild, installed, conn, server>>

\* onUpdate rejects: the server is asked again later.
InstallFails ==
    /\ updating /\ installed = "none" /\ Fails /\ updating' = FALSE /\ timer' = ~stopped
    /\ UNCHANGED <<updates, stopped, dialing, reported, nodeBuild, installed, conn, server>>

\* The launcher starts the build that was installed.
Restarts ==
    /\ stopped /\ installed # "none" /\ nodeBuild' = installed /\ installed' = "none"
    /\ stopped' = FALSE /\ updating' = FALSE /\ timer' = FALSE /\ dialing' = TRUE
    /\ reported' = "connecting"
    /\ UNCHANGED <<updates, conn, server, failures>>

\* The process is told to stop.
StopNode ==
    /\ ~stopped /\ Stop
    /\ UNCHANGED <<updates, updating, dialing, reported, nodeBuild, installed, server, failures>>

\* Mutant: what was reported stays.
ClosedUnreported(i) ==
    /\ conn[i].n # "gone" /\ FailsUnless(conn[i].s \in {"closed", "gone"}) /\ Left(i) /\ Schedule
    /\ UNCHANGED <<updates, stopped, updating, dialing, reported, nodeBuild, installed, server>>

\* onclose: the server's end closed, or the link broke or fell silent, or the hello was
\* not answered in time.
NodeClosed(i) ==
    /\ conn[i].n # "gone" /\ FailsUnless(conn[i].s \in {"closed", "gone"}) /\ Left(i) /\ Schedule
    /\ reported' = IF conn[i].n = "ready" THEN "connecting" ELSE reported
    /\ UNCHANGED <<updates, stopped, updating, dialing, nodeBuild, installed, server>>
-----------------------------------------------------------------------------
\* socket.close(): the end of a connection at the hub is closed; its onclose is to come.
Close(ends) ==
    conn' = [i \in Connections |-> IF i \in ends THEN [conn[i] EXCEPT !.s = "closed"] ELSE conn[i]]

\* Mutant: any connection that was the node's link takes the link away as it ends.
ForgetsAny(i) ==
    link' = IF conn[i].s \in {"ready", "closed"} /\ conn[i].app = app THEN None ELSE link

\* onclose at the hub: the connection's own link is forgotten, and no newer one.
Forgets(i) == link' = IF link = i THEN None ELSE link

Reply(i, kind, waited) ==
    conn' = [conn EXCEPT ![i].frame = IF conn[i].n = "gone" THEN "none" ELSE kind,
                         ![i].s = "told", ![i].waited = waited]

\* The hello's connection becomes the node's link, and the one before it is closed; but
\* a hub that closed closes it.
Linked(i) ==
    IF conn[i].app # app THEN Close({i}) /\ UNCHANGED link
    ELSE /\ link' = i
         /\ conn' = [j \in Connections |->
                IF j = i THEN [conn[i] EXCEPT !.s = "ready",
                                   !.frame = IF conn[i].n = "gone" THEN "none" ELSE "ready"]
                ELSE IF j = link THEN [conn[j] EXCEPT !.s = "closed"] ELSE conn[j]]

\* offerUpdate, once the build of the connection's app is known, and the versions: an old
\* build speaks another.
Decide(i, build) ==
    \/ build \in Builds \ {conn[i].build} /\ Reply(i, "update", FALSE) /\ UNCHANGED link
    \/ build = "none" /\ conn[i].build = "old" /\ Reply(i, "retry", FALSE) /\ UNCHANGED link
    \/ (build = conn[i].build \/ (build = "none" /\ conn[i].build = "new")) /\ Linked(i)

\* The build that the app of a connection serves its nodes with.
BuildOf(i) == serverBuild[conn[i].app]

\* node.hello: a removed node is refused; otherwise the hello waits for its app's build.
Hello(i) ==
    /\ conn[i].frame = "hello" /\ conn[i].s = "open"
    /\ \/ ~known /\ Reply(i, "refused", FALSE) /\ UNCHANGED link
       \/ known /\ BuildOf(i) # "building" /\ Decide(i, BuildOf(i))
       \/ /\ known /\ BuildOf(i) = "building" /\ UNCHANGED link
          /\ conn' = [conn EXCEPT ![i].s = "waiting", ![i].frame = "none", ![i].waited = TRUE]
    /\ UNCHANGED <<node, app, serverBuild, known, failures>>

\* The build is there, or is waited for no longer.
Waited(i) ==
    /\ conn[i].s = "waiting"
    /\ \/ BuildOf(i) # "building" /\ Decide(i, BuildOf(i)) /\ UNCHANGED failures
       \/ BuildOf(i) = "building" /\ Fails /\ Reply(i, "retry", TRUE) /\ UNCHANGED link
    /\ UNCHANGED <<node, app, serverBuild, known>>

\* onclose: the hub closed the connection, or the node's end did, or the link broke, or
\* fell silent, or no hello came.
ServerClosed(i) ==
    /\ conn[i].s # "gone" /\ FailsUnless(conn[i].s = "closed" \/ conn[i].n = "gone")
    /\ Forgets(i)
    /\ conn' = [conn EXCEPT ![i].s = "gone",
                            ![i].frame = IF conn[i].s = "closed" THEN @ ELSE "none"]
    /\ UNCHANGED <<node, app, serverBuild, known>>

\* Both ends are gone: nothing is left of a connection.
Forget(i) ==
    /\ conn[i] # Free /\ conn[i].n = "gone" /\ conn[i].s = "gone"
    /\ conn' = [conn EXCEPT ![i] = Free]
    /\ UNCHANGED <<node, server, failures>>

\* An app's build ends; that of one that was replaced matters to its connections only.
Built ==
    /\ \E a \in {app} \cup {conn[i].app : i \in {j \in Connections : conn[j].s # "gone"}} :
           /\ serverBuild[a] = "building"
           /\ \E build \in Builds \cup {"none"} :
                  serverBuild' = [serverBuild EXCEPT ![a] = build]
    /\ UNCHANGED <<node, conn, app, known, link, failures>>

\* remove: the node is refused from now on, and its link's connection is closed.
Remove ==
    /\ known /\ known' = FALSE /\ Close({link} \ {None})
    /\ UNCHANGED <<node, app, serverBuild, link, failures>>

\* The app is replaced: its hub closes its links and forgets them, and connections it has
\* yet to answer close, or once they are answered.
Reload ==
    /\ app < MaxReloads /\ app' = app + 1 /\ link' = None
    /\ \E kept \in SUBSET {i \in Connections : conn[i].s \in {"open", "waiting", "told"}} :
           Close({i \in Connections : conn[i].s # "gone"} \ kept)
    /\ UNCHANGED <<node, serverBuild, known, failures>>

NodeStep(i) == Ready(i) \/ Refused(i) \/ Retry(i) \/ Update(i)

ServerStep(i) == Hello(i) \/ Waited(i)

Next ==
    \/ Dial \/ DialFails \/ Opened \/ Installed \/ InstallFails \/ Restarts \/ StopNode
    \/ Built \/ Remove \/ Reload
    \/ \E i \in Connections : NodeStep(i) \/ NodeClosed(i) \/ ServerStep(i) \/ ServerClosed(i) \/ Forget(i)

\* Timers fire, dials and installations end, frames are handled, a closed connection is
\* noticed, and the app's build ends. Failures end.
Fairness ==
    /\ WF_vars(Dial) /\ WF_vars(Opened) /\ WF_vars(Installed) /\ WF_vars(Restarts) /\ WF_vars(Built)
    /\ \A i \in Connections :
           /\ WF_vars(NodeStep(i)) /\ WF_vars(ServerStep(i)) /\ WF_vars(Forget(i))
           /\ WF_vars(conn[i].s \in {"closed", "gone"} /\ NodeClosed(i))
           /\ WF_vars((conn[i].s = "closed" \/ conn[i].n = "gone") /\ ServerClosed(i))

Spec == Init /\ [][Next]_vars

FairSpec == Spec /\ Fairness
-----------------------------------------------------------------------------
Live == {i \in Connections : conn[i].n # "gone"}

Count(b) == IF b THEN 1 ELSE 0

\* A node that did not stop waits for exactly one thing: a redial, a dial, a connection
\* or an update. It neither dials twice, nor while it updates, nor forgets to; one that
\* stopped, or was refused, has no connection and no redial (connectNode).
OneAttempt ==
    IF stopped THEN Live = {} /\ ~timer
    ELSE Cardinality(Live) + Count(timer) + Count(dialing) + Count(updating) = 1

\* The hub's open(nodeId): its link, while that one's connection is not closed.
Open == link # None /\ conn[link].s = "ready"

\* A connection negotiated and open at the server is the hub's link, so there is one at
\* most, and the late end of one that was replaced or closed before does not take it away;
\* the hub keeps no connection whose end it saw, nor one of an app before. A removed node
\* has no open link, but by a hello that was waiting for the app's build as the node was
\* removed: it is not looked at again (server-peer.ts, serve before offerUpdate).
OneLink ==
    /\ \A i \in Connections : conn[i].s = "ready" => link = i
    /\ link # None => conn[link].s \in {"ready", "closed"} /\ conn[link].app = app
    /\ ~known /\ Open => conn[link].waited

\* The hub serves a connection only for a node that was not removed
\* (docs/dev/node-transport.md).
NoRemovedLink == ~known => ~Open

\* A node that was not stopped is linked again in the end, on the server's build if it
\* has one, unless it has none and the node's own is too old.
Relinked ==
    ~stopped ~> \/ stopped /\ installed = "none"
                \/ /\ Open /\ conn[link].n = "ready"
                   /\ serverBuild[app] \in {conn[link].build, "none"}
                \/ serverBuild[app] = "none" /\ nodeBuild = "old"
=============================================================================
