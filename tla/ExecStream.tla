----------------------------- MODULE ExecStream -----------------------------
(***************************************************************************)
(* A shell command on a node (createPiExec) and the call of it on the       *)
(* server (NodeDirClient.runExec), over a link that drops. The node keeps    *)
(* the command and the tail of its output records for a grace period; the   *)
(* server sends the start while it certainly did not run and attaches again *)
(* after that. Records are numbered from 1, and an offset is the number of  *)
(* records before it. Frames of a link arrive in order, or are lost with it. *)
(***************************************************************************)
EXTENDS Naturals, Sequences

CONSTANTS MaxOutput,    \* bound: the command's output records, its exit included
          KeptRecords,  \* the records the node keeps
          MaxFailures   \* bound: drops, timeouts and restarts

ASSUME ExecAssumption ==
    MaxOutput \in Nat \ {0} /\ KeptRecords \in Nat \ {0} /\ MaxFailures \in Nat

\* A stream has an ID of its own; one nothing names any more is used again.
Streams == 1..(MaxFailures + 3)

VARIABLES
    \* The node: the command it keeps.
    known,     \* it has the command
    alive,     \* the process runs
    runs,      \* ghost: processes started
    killed,    \* its controller is aborted
    end,       \* records so far
    exited,    \* the last of them is the exit
    first,     \* the first one kept
    consumer,  \* the stream that serves its output, 0 for none
    next,      \* the record that stream sends next
    stopping,  \* its link is gone, and it has yet to notice
    grace,     \* the grace timer runs
    \* The link.
    up, toNode, toServer,
    \* The server: the call.
    pc,        \* starting, asked (with what), attaching, reading, returned
    asking,    \* what it asked for last
    stream,    \* the stream of its latest request
    taken,     \* the offset it has read to
    shown,     \* the records its caller saw
    result,    \* how it ended
    aborted,   \* its signal is aborted
    killing,   \* where the kill of its abort is
    failures   \* bound: drops, timeouts and restarts so far

command == <<known, alive, runs, killed, end, exited, first>>
serving == <<consumer, next, stopping, grace>>
link == <<up, toNode, toServer>>
call == <<pc, asking, stream, taken, shown, result, aborted, killing>>
vars == <<command, serving, link, call, failures>>

Frame(kind, s, n) == [kind |-> kind, stream |-> s, n |-> n]

FrameKinds == {"exec", "attach", "kill", "cancel", "opened", "view", "again", "refused", "lost",
               "data", "end", "failed", "killed"}

TypeOK ==
    /\ known \in BOOLEAN /\ alive \in BOOLEAN /\ runs \in 0..1 /\ killed \in BOOLEAN
    /\ end \in 0..MaxOutput /\ exited \in BOOLEAN /\ first \in 1..MaxOutput
    /\ consumer \in {0} \cup Streams /\ next \in 1..(MaxOutput + 1)
    /\ stopping \in BOOLEAN /\ grace \in BOOLEAN /\ up \in BOOLEAN
    /\ \A q \in {toNode, toServer} :
           q \in Seq([kind : FrameKinds, stream : Streams, n : 0..MaxOutput])
    /\ pc \in {"starting", "asked", "attaching", "reading", "returned"}
    /\ asking \in {"exec", "attach"} /\ stream \in Streams /\ taken \in 0..MaxOutput
    /\ shown \in Seq(1..MaxOutput)
    /\ result \in {"none", "exit", "failed", "unknown", "aborted"}
    /\ aborted \in BOOLEAN /\ killing \in {"no", "wanted", "asked", "over"}
    /\ failures \in 0..MaxFailures

Init ==
    /\ known = FALSE /\ alive = FALSE /\ runs = 0 /\ killed = FALSE
    /\ end = 0 /\ exited = FALSE /\ first = 1
    /\ consumer = 0 /\ next = 1 /\ stopping = FALSE /\ grace = FALSE
    /\ up \in BOOLEAN /\ toNode = <<>> /\ toServer = <<>>
    /\ pc = "starting" /\ asking = "exec" /\ stream = 1 /\ taken = 0 /\ shown = <<>>
    /\ result = "none" /\ aborted = FALSE /\ killing = "no" /\ failures = 0
-----------------------------------------------------------------------------
\* The IDs no frame, nor the node, has left.
FreeStreams ==
    {s \in Streams \ {stream, consumer} :
        /\ \A i \in DOMAIN toNode : toNode[i].stream # s
        /\ \A i \in DOMAIN toServer : toServer[i].stream # s}

NextStream == CHOOSE s \in FreeStreams : TRUE

Send(frame) == toNode' = Append(toNode, frame)

Reply(frame) == toServer' = Append(toServer, frame)

\* Mutant: beyond the bound the latest record is dropped as well.
RecordedOver ==
    /\ end' = end + 1
    /\ first' = IF end + 1 > KeptRecords THEN end + 2 ELSE first

\* The kept tail: the latest record is kept whatever the bound.
Recorded ==
    /\ end' = end + 1
    /\ first' = IF end + 1 > KeptRecords THEN end + 2 - KeptRecords ELSE first

\* The process puts a record out. One the node has forgotten is heard of no more.
Output ==
    /\ alive /\ known /\ end < MaxOutput - 1 /\ Recorded
    /\ UNCHANGED <<known, alive, runs, killed, exited, serving, link, call, failures>>

\* It exits by itself or is killed.
Exit ==
    /\ alive /\ alive' = FALSE
    /\ IF known THEN Recorded /\ exited' = TRUE ELSE UNCHANGED <<end, first, exited>>
    /\ UNCHANGED <<known, runs, killed, serving, link, call, failures>>

\* The stream's generator takes the command over from the one before it.
Serve(s, offset) == consumer' = s /\ next' = offset + 1 /\ stopping' = FALSE /\ grace' = FALSE

\* Nothing serves the command: it is kept for the grace period.
Unserved == consumer' = 0 /\ next' = 1 /\ stopping' = FALSE /\ grace' = known

Handled == toNode' = Tail(toNode)

Asks(kind) == toNode # <<>> /\ Head(toNode).kind = kind

\* pi.exec: refused while the node pauses (to be sent again) or stops, and for a command
\* it has; otherwise the process starts.
HandleExec ==
    /\ Asks("exec") /\ Handled
    /\ \/ /\ ~known
          /\ known' = TRUE /\ alive' = TRUE /\ runs' = runs + 1
          /\ Serve(Head(toNode).stream, 0) /\ Reply(Frame("opened", Head(toNode).stream, 0))
       \/ /\ \E why \in IF known THEN {"refused"} ELSE {"again", "refused"} :
                 Reply(Frame(why, Head(toNode).stream, 0))
          /\ UNCHANGED <<known, alive, runs, serving>>
    /\ UNCHANGED <<killed, end, exited, first, up, call, failures>>

\* pi.execAttach: from the offset asked for, or from where the records end, with the
\* view as of there, when that was dropped from the tail.
HandleAttach ==
    /\ Asks("attach") /\ Handled
    /\ LET s == Head(toNode).stream  offset == Head(toNode).n IN
       IF ~known THEN Reply(Frame("lost", s, 0)) /\ UNCHANGED serving
       ELSE IF offset + 1 < first THEN Serve(s, end) /\ Reply(Frame("view", s, end))
       ELSE Serve(s, offset) /\ Reply(Frame("opened", s, offset))
    /\ UNCHANGED <<command, up, call, failures>>

\* pi.execKill: also one the node does not have is killed, as far as the server knows.
HandleKill ==
    /\ Asks("kill") /\ Handled /\ Reply(Frame("killed", Head(toNode).stream, 0))
    /\ killed' = (killed \/ known)
    /\ UNCHANGED <<known, alive, runs, end, exited, first, serving, up, call, failures>>

\* stream.cancel.
HandleCancel ==
    /\ Asks("cancel") /\ Handled
    /\ IF consumer = Head(toNode).stream /\ ~stopping THEN Unserved ELSE UNCHANGED serving
    /\ UNCHANGED <<command, up, toServer, call, failures>>

\* Mutant: it waits for a record that was dropped.
PumpWaits ==
    /\ consumer # 0 /\ ~stopping
    /\ \/ /\ next \in first..end /\ Reply(Frame("data", consumer, next))
          /\ next' = next + 1 /\ UNCHANGED <<consumer, stopping, grace>>
       \/ /\ next > end /\ exited /\ Reply(Frame("end", consumer, 0)) /\ Unserved
    /\ UNCHANGED <<command, up, toNode, call, failures>>

\* The generator's next step: a record, the end, or a failure as it fell behind the tail.
Pump ==
    /\ consumer # 0 /\ ~stopping
    /\ \/ /\ next < first /\ Reply(Frame("failed", consumer, 0)) /\ Unserved
       \/ /\ next \in first..end /\ Reply(Frame("data", consumer, next))
          /\ next' = next + 1 /\ UNCHANGED <<consumer, stopping, grace>>
       \/ /\ next > end /\ exited /\ Reply(Frame("end", consumer, 0)) /\ Unserved
    /\ UNCHANGED <<command, up, toNode, call, failures>>

\* A stream whose link is gone stops.
StreamStops ==
    /\ stopping /\ Unserved
    /\ UNCHANGED <<command, link, call, failures>>

\* Mutant: the command is forgotten and left running.
GraceForgets ==
    /\ grace /\ grace' = FALSE /\ known' = FALSE
    /\ UNCHANGED <<alive, runs, killed, end, exited, first, consumer, next, stopping, link, call, failures>>

\* The grace period is over.
GraceEnds ==
    /\ grace /\ grace' = FALSE /\ killed' = TRUE /\ known' = FALSE
    /\ UNCHANGED <<alive, runs, end, exited, first, consumer, next, stopping, link, call, failures>>
-----------------------------------------------------------------------------
Return(how) == pc' = "returned" /\ result' = how

\* It attaches again, unless it was aborted.
AttachAgain ==
    IF aborted THEN Return("aborted") ELSE pc' = "attaching" /\ UNCHANGED result

\* Mutant: a start that may have run is sent again.
AskEither ==
    /\ up /\ FreeStreams # {} /\ pc \in {"starting", "attaching"} /\ pc' = "asked" /\ stream' = NextStream
    /\ asking' \in {asking, "attach"} /\ Send(Frame(asking', NextStream, taken))
    /\ UNCHANGED <<command, serving, up, toServer, taken, shown, result, aborted, killing, failures>>

\* onNode: the start or the attach is sent once the node is connected. Bounded: an ID is
\* left.
Ask ==
    /\ up /\ FreeStreams # {} /\ pc \in {"starting", "attaching"} /\ pc' = "asked" /\ stream' = NextStream
    /\ asking' = IF pc = "starting" THEN "exec" ELSE "attach"
    /\ Send(Frame(asking', NextStream, IF pc = "starting" THEN 0 ELSE taken))
    /\ UNCHANGED <<command, serving, up, toServer, taken, shown, result, aborted, killing, failures>>

\* The node stayed away for the whole window.
WindowPasses ==
    /\ ~up /\ pc = "attaching" /\ Return("unknown")
    /\ UNCHANGED <<command, serving, link, asking, stream, taken, shown, aborted, killing, failures>>

Gets(kinds) == toServer # <<>> /\ Head(toServer).kind \in kinds

Taken == toServer' = Tail(toServer)

Current == Head(toServer).stream = stream /\ pc \in {"asked", "reading"}

\* The answer to the start or the attach.
Answered ==
    /\ Gets({"opened", "view", "again", "refused", "lost"}) /\ Taken
    /\ LET answer == Head(toServer) IN
       \/ ~Current /\ UNCHANGED <<pc, taken, shown, result>>
       \/ /\ Current /\ answer.kind = "opened"
          /\ pc' = "reading" /\ taken' = answer.n /\ UNCHANGED <<shown, result>>
       \/ /\ Current /\ answer.kind = "view"
          /\ pc' = "reading" /\ taken' = answer.n /\ shown' = [i \in 1..answer.n |-> i]
          /\ UNCHANGED result
       \/ /\ Current /\ answer.kind = "again"
          /\ pc' = "starting" /\ UNCHANGED <<taken, shown, result>>
       \/ /\ Current /\ answer.kind = "refused" /\ Return("failed") /\ UNCHANGED <<taken, shown>>
       \/ /\ Current /\ answer.kind = "lost" /\ Return("unknown") /\ UNCHANGED <<taken, shown>>
    /\ UNCHANGED <<command, serving, up, toNode, asking, stream, aborted, killing, failures>>

\* A record is read and shown; the exit ends the call, as aborted if it was.
ReadRecord ==
    /\ Gets({"data"}) /\ Taken
    /\ IF Current /\ pc = "reading"
       THEN /\ taken' = taken + 1 /\ shown' = Append(shown, Head(toServer).n)
            /\ IF exited /\ Head(toServer).n = end
               THEN Return(IF aborted THEN "aborted" ELSE "exit") ELSE UNCHANGED <<pc, result>>
       ELSE UNCHANGED <<pc, taken, shown, result>>
    /\ UNCHANGED <<command, serving, up, toNode, asking, stream, aborted, killing, failures>>

\* The stream ended without an exit. A failure is heard of before what was not read yet.
ReadEnd ==
    /\ \E i \in DOMAIN toServer :
           /\ toServer[i].kind = "failed" \/ (i = 1 /\ toServer[1].kind = "end")
           /\ toServer' = SubSeq(toServer, i + 1, Len(toServer))
           /\ \A j \in 1..i : toServer[j].kind \in {"data", "end", "failed"}
           /\ IF toServer[i].stream = stream /\ pc = "reading" THEN AttachAgain
              ELSE UNCHANGED <<pc, result>>
    /\ UNCHANGED <<command, serving, up, toNode, asking, stream, taken, shown, aborted, killing, failures>>

\* The signal aborts: an answer is waited for no longer, and the command is killed. What
\* is read is read on.
Abort ==
    /\ pc # "returned" /\ ~aborted /\ aborted' = TRUE /\ killing' = "wanted"
    /\ IF pc = "reading" THEN UNCHANGED <<pc, result>> ELSE Return("aborted")
    /\ IF pc = "asked" THEN Send(Frame("cancel", stream, 0)) ELSE UNCHANGED toNode
    /\ UNCHANGED <<command, serving, up, toServer, asking, stream, taken, shown, failures>>

Kill ==
    /\ up /\ killing = "wanted" /\ killing' = "asked" /\ Send(Frame("kill", stream, 0))
    /\ UNCHANGED <<command, serving, up, toServer, pc, asking, stream, taken, shown, result, aborted, failures>>

Killed ==
    /\ Gets({"killed"}) /\ Taken /\ killing' = "over"
    /\ UNCHANGED <<command, serving, up, toNode, pc, asking, stream, taken, shown, result, aborted, failures>>

\* The kill cannot reach the node: reading stops.
KillGivesUp ==
    /\ ~up /\ killing = "wanted" /\ killing' = "over"
    /\ IF pc = "reading" THEN Return("aborted") ELSE UNCHANGED <<pc, result>>
    /\ UNCHANGED <<command, serving, link, asking, stream, taken, shown, aborted, failures>>
-----------------------------------------------------------------------------
Fails == failures < MaxFailures /\ failures' = failures + 1

\* Frames and answers are lost with the link; the node's stream is told to stop.
LinkGone ==
    /\ up' = FALSE /\ toNode' = <<>> /\ toServer' = <<>>
    /\ stopping' = (consumer # 0) /\ UNCHANGED <<consumer, next, grace>>

Drop ==
    /\ up /\ Fails /\ LinkGone
    /\ IF pc \in {"asked", "reading"} THEN AttachAgain ELSE UNCHANGED <<pc, result>>
    /\ killing' = IF killing = "asked" THEN "wanted" ELSE killing
    /\ UNCHANGED <<command, asking, stream, taken, shown, aborted>>

Connect ==
    /\ ~up /\ up' = TRUE
    /\ UNCHANGED <<command, serving, toNode, toServer, call, failures>>

\* The answer takes too long: the outcome is unknown, and the stream is cancelled.
TimeOut ==
    /\ pc = "asked" /\ Fails /\ pc' = "attaching" /\ Send(Frame("cancel", stream, 0))
    /\ UNCHANGED <<command, serving, up, toServer, asking, stream, taken, shown, result, aborted, killing>>

\* The server suspends its runs and exits, or crashes; the next process attaches to the
\* command from the start, whether it was ever sent.
ServerRestarts ==
    /\ pc # "returned" /\ ~aborted /\ Fails /\ LinkGone
    /\ pc' = "attaching" /\ taken' = 0 /\ shown' = <<>>
    /\ UNCHANGED <<command, asking, stream, result, aborted, killing>>

\* The node shuts down, killing its command, and is started again.
NodeRestarts ==
    /\ Fails /\ up' = FALSE /\ toNode' = <<>> /\ toServer' = <<>>
    /\ known' = FALSE /\ killed' = (killed \/ known) /\ consumer' = 0 /\ next' = 1
    /\ stopping' = FALSE /\ grace' = FALSE
    /\ IF pc \in {"asked", "reading"} THEN AttachAgain ELSE UNCHANGED <<pc, result>>
    /\ killing' = IF killing = "asked" THEN "wanted" ELSE killing
    /\ UNCHANGED <<alive, runs, end, exited, first, asking, stream, taken, shown, aborted>>

Handle == HandleExec \/ HandleAttach \/ HandleKill \/ HandleCancel

Read == Answered \/ ReadRecord \/ ReadEnd \/ Killed

Next ==
    \/ Output \/ Exit \/ Handle \/ Pump \/ StreamStops \/ GraceEnds
    \/ Ask \/ WindowPasses \/ Read \/ Abort \/ Kill \/ KillGivesUp
    \/ Drop \/ Connect \/ TimeOut \/ ServerRestarts \/ NodeRestarts

\* Frames are handled and read, streams go on or stop, the node dials again, timers fire
\* and a killed process dies. A command need not end by itself.
Fairness ==
    /\ WF_vars(Handle) /\ WF_vars(Pump) /\ WF_vars(StreamStops) /\ WF_vars(GraceEnds)
    /\ WF_vars(Ask) /\ WF_vars(Read) /\ WF_vars(Kill) /\ WF_vars(Connect)
    /\ WF_vars(killed /\ Exit)

Spec == Init /\ [][Next]_vars

FairSpec == Spec /\ Fairness
-----------------------------------------------------------------------------
\* The command's process, as its caller may know it.
Proc == IF runs = 0 THEN "notrun" ELSE IF alive THEN "running" ELSE "ended"

Abstract == INSTANCE Command WITH proc <- Proc, output <- end

\* The call implements a command: started once, its output seen in order without a gap
\* or a repetition across drops, restarts and a tail that was dropped, its exit returned
\* once all was seen, and reported as not started only when it was not.
ImplementsCommand == Abstract!Spec

\* The exit was passed over: the node answered an attach with the end of the records.
ExitSkipped == exited /\ taken = end

\* Call and command end together, whatever was lost. A command whose call ended does not
\* go on running: a kill that reached it, or the grace period, ends it. And a call whose
\* command exited returns, unless its exit was passed over.
CallEnds ==
    /\ pc = "returned" ~> ~alive
    /\ exited ~> pc = "returned" \/ ExitSkipped

\* The exit is always there to be read again (pi-exec.ts: the latest record is kept): a
\* call whose command exited returns.
ExitReadAgain == exited ~> pc = "returned"
=============================================================================
