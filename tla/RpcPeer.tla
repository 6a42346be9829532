------------------------------ MODULE RpcPeer ------------------------------
(***************************************************************************)
(* The JSON-RPC peers at the two ends of a link (createRpcPeer): one calls, *)
(* the other runs the handlers. A call is answered, given up, or failed with *)
(* the connection; the answers of those given up come late. The link loses   *)
(* what was not delivered as it closes, or falls silent.                     *)
(***************************************************************************)
EXTENDS Naturals, Sequences, SequencesExt

CONSTANTS MaxCalls,     \* bound: the calls made on the connection
          MaxInFlight,  \* calls an end has pending, and requests it runs
          MaxExpired    \* given-up calls whose answer is still expected

ASSUME RpcAssumption ==
    MaxCalls \in Nat /\ MaxInFlight \in Nat \ {0} /\ MaxExpired \in Nat \ {0}

\* IDs are numbered.
Calls == 1..MaxCalls

Ends == {"caller", "remote"}

VARIABLES
    open,      \* [Ends -> BOOLEAN]: its peer did not fail or close
    socket,    \* up; silent: it loses what is sent; or down
    requests, replies,  \* the frames on their way
    status,    \* [Calls -> new, pending, or how the call ended]
    expired,   \* the IDs given up whose late reply is dropped, oldest first
    inbound,   \* the requests the remote end runs
    runs,      \* ghost: [Calls -> times its handler ran]
    evicted,   \* ghost: an expired ID was forgotten for a newer one
    accused    \* ghost: a reply was taken for a protocol violation

wire == <<socket, requests, replies>>
vars == <<open, wire, status, expired, inbound, runs, evicted, accused>>

\* refused: not sent. busy and invalid: answered without running the handler.
Outcomes == {"refused", "busy", "invalid", "value", "error", "unknown"}

Of(kind) == {c \in Calls : status[c] = kind}

TypeOK ==
    /\ open \in [Ends -> BOOLEAN] /\ socket \in {"up", "silent", "down"}
    /\ requests \in Seq(Calls)
    /\ replies \in Seq([call : Calls, kind : {"busy", "invalid", "value", "error"}])
    /\ status \in [Calls -> Outcomes \cup {"new", "pending"}]
    /\ Cardinality(Of("pending")) <= MaxInFlight
    /\ expired \in Seq(Calls) /\ Len(expired) <= MaxExpired
    /\ inbound \subseteq Calls /\ Cardinality(inbound) <= MaxInFlight
    /\ runs \in [Calls -> 0..1] /\ evicted \in BOOLEAN /\ accused \in BOOLEAN

Init ==
    /\ open = [e \in Ends |-> TRUE] /\ socket = "up" /\ requests = <<>> /\ replies = <<>>
    /\ status = [c \in Calls |-> "new"] /\ expired = <<>> /\ inbound = {}
    /\ runs = [c \in Calls |-> 0] /\ evicted = FALSE /\ accused = FALSE
-----------------------------------------------------------------------------
\* The pending calls fail, their outcome unknown.
Unknown == [c \in Calls |-> IF status[c] = "pending" THEN "unknown" ELSE status[c]]

\* Mutant: the pending calls are left waiting.
FailForgets(e) == open' = [open EXCEPT ![e] = FALSE] /\ socket' = "down" /\ UNCHANGED status

\* fail: the end closes its socket and fails its calls. Frames written before may arrive.
Fail(e) ==
    /\ open' = [open EXCEPT ![e] = FALSE] /\ socket' = "down"
    /\ status' = IF e = "caller" THEN Unknown ELSE status

Ended(c, how) == status' = [status EXCEPT ![c] = how]

IsNext(c) == status[c] = "new" /\ \A d \in 1..(c - 1) : status[d] # "new"

\* Mutant: one more call than the cap is sent.
CallOver(c) ==
    /\ IsNext(c) /\ Cardinality(Of("pending")) <= MaxInFlight
    /\ open["caller"] /\ socket = "up" /\ Ended(c, "pending") /\ requests' = Append(requests, c)
    /\ UNCHANGED <<open, socket, replies, expired, inbound, runs, evicted, accused>>

\* call: refused on a closed connection, at the cap, when aborted already or too large. A
\* socket that is closed fails it, and the connection, as if it may have been sent.
Call(c) ==
    /\ IsNext(c)
    /\ \/ Ended(c, "refused") /\ UNCHANGED <<open, socket, requests>>
       \/ /\ open["caller"] /\ Cardinality(Of("pending")) < MaxInFlight
          /\ IF socket = "down"
             THEN /\ open' = [open EXCEPT !["caller"] = FALSE]
                  /\ status' = [Unknown EXCEPT ![c] = "unknown"] /\ UNCHANGED <<socket, requests>>
             ELSE /\ Ended(c, "pending") /\ UNCHANGED <<open, socket>>
                  /\ requests' = IF socket = "up" THEN Append(requests, c) ELSE requests
    /\ UNCHANGED <<replies, expired, inbound, runs, evicted, accused>>

\* Mutant: what was sent is reported as not sent.
GiveUpRefused(c) ==
    /\ status[c] = "pending" /\ Ended(c, "refused") /\ expired' = Append(expired, c)
    /\ UNCHANGED <<open, wire, inbound, runs, evicted, accused>>

\* Mutant: a call that is given up is forgotten.
GiveUpForgotten(c) ==
    /\ status[c] = "pending" /\ Ended(c, "unknown")
    /\ UNCHANGED <<open, wire, expired, inbound, runs, evicted, accused>>

\* abandon: its time is over, or its signal aborts.
GiveUp(c) ==
    /\ status[c] = "pending" /\ Ended(c, "unknown")
    /\ IF Len(expired) = MaxExpired
       THEN expired' = Append(Tail(expired), c) /\ evicted' = TRUE
       ELSE expired' = Append(expired, c) /\ UNCHANGED evicted
    /\ UNCHANGED <<open, wire, inbound, runs, accused>>

Answer(c, kind) ==
    replies' = IF socket = "up" THEN Append(replies, [call |-> c, kind |-> kind]) ELSE replies

\* receive, of a request: answered at once when it names no method, its parameters do not
\* parse or too many run; else its handler runs.
Receive ==
    /\ requests # <<>> /\ requests' = Tail(requests)
    /\ LET c == Head(requests) IN
       \/ ~open["remote"] /\ UNCHANGED <<replies, inbound, runs>>
       \/ open["remote"] /\ Answer(c, "invalid") /\ UNCHANGED <<inbound, runs>>
       \/ /\ open["remote"] /\ Cardinality(inbound) >= MaxInFlight
          /\ Answer(c, "busy") /\ UNCHANGED <<inbound, runs>>
       \/ /\ open["remote"] /\ Cardinality(inbound) < MaxInFlight
          /\ inbound' = inbound \cup {c} /\ runs' = [runs EXCEPT ![c] = @ + 1]
          /\ UNCHANGED replies
    /\ UNCHANGED <<open, socket, status, expired, evicted, accused>>

\* A handler ends and is answered for, by an error too when its result cannot be sent;
\* on a closed connection it is not, and it leaves room for another either way.
HandlerEnds(c) ==
    /\ c \in inbound /\ inbound' = inbound \ {c}
    /\ IF open["remote"] THEN \E kind \in {"value", "error"} : Answer(c, kind) ELSE UNCHANGED replies
    /\ UNCHANGED <<open, socket, requests, status, expired, runs, evicted, accused>>

\* receive, of a reply: the pending call's, where one that does not parse fails it and
\* the connection; a late one, which is dropped; or a protocol violation.
ReceiveReply ==
    /\ replies # <<>> /\ replies' = Tail(replies)
    /\ LET c == Head(replies).call  kind == Head(replies).kind IN
       \/ ~open["caller"] /\ UNCHANGED <<open, socket, status, expired, accused>>
       \/ /\ open["caller"] /\ status[c] = "pending" /\ Ended(c, kind)
          /\ UNCHANGED <<open, socket, expired, accused>>
       \/ /\ open["caller"] /\ status[c] = "pending" /\ kind \in {"value", "error"}
          /\ open' = [open EXCEPT !["caller"] = FALSE] /\ socket' = "down"
          /\ status' = [Unknown EXCEPT ![c] = "error"] /\ UNCHANGED <<expired, accused>>
       \/ /\ open["caller"] /\ status[c] # "pending"
          /\ \E i \in DOMAIN expired : expired[i] = c /\ expired' = RemoveAt(expired, i)
          /\ UNCHANGED <<open, socket, status, accused>>
       \/ /\ open["caller"] /\ status[c] # "pending" /\ ~Contains(expired, c)
          /\ Fail("caller") /\ accused' = TRUE /\ UNCHANGED expired
    /\ UNCHANGED <<requests, inbound, runs, evicted>>

\* Its owner closes the connection.
Close(e) ==
    /\ open[e] /\ Fail(e)
    /\ UNCHANGED <<requests, replies, expired, inbound, runs, evicted, accused>>

\* The heartbeat: an end that heard nothing for the intervals fails.
Silent(e) ==
    /\ open[e] /\ socket = "silent" /\ Fail(e)
    /\ UNCHANGED <<requests, replies, expired, inbound, runs, evicted, accused>>

\* onclose: what the end has not received by then is lost.
OnClose(e) ==
    /\ open[e] /\ socket = "down" /\ Fail(e)
    /\ IF e = "caller" THEN replies' = <<>> /\ UNCHANGED requests
       ELSE requests' = <<>> /\ UNCHANGED replies
    /\ UNCHANGED <<expired, inbound, runs, evicted, accused>>

\* The link breaks, or falls silent.
Breaks ==
    /\ socket = "up" /\ socket' \in {"silent", "down"} /\ requests' = <<>> /\ replies' = <<>>
    /\ UNCHANGED <<open, status, expired, inbound, runs, evicted, accused>>

Next ==
    \/ \E c \in Calls : Call(c) \/ GiveUp(c) \/ HandlerEnds(c)
    \/ Receive \/ ReceiveReply \/ Breaks
    \/ \E e \in Ends : Close(e) \/ Silent(e) \/ OnClose(e)

\* Frames are received, handlers end, and the heartbeat and the socket's end are noticed.
\* A call need not have a timeout.
Fairness ==
    /\ WF_vars(Receive) /\ WF_vars(ReceiveReply)
    /\ \A c \in Calls : WF_vars(HandlerEnds(c))
    /\ \A e \in Ends : WF_vars(Silent(e)) /\ WF_vars(OnClose(e))

Spec == Init /\ [][Next]_vars

FairSpec == Spec /\ Fairness
-----------------------------------------------------------------------------
\* How a call ended is true of the remote end (RpcFailure, NotConnected): one refused, or
\* answered busy or invalid, never ran there, now or later; one answered ran once.
OutcomeTrue ==
    \A c \in Calls :
        /\ status[c] \in {"refused", "busy", "invalid"} =>
               runs[c] = 0 /\ ~Contains(requests, c)
        /\ status[c] \in {"value", "error"} => runs[c] = 1

\* What is on its way between the ends, or run there.
Outstanding == inbound \cup ToSet(requests) \cup {replies[i].call : i \in DOMAIN replies}

\* What giving a call up does to others (MAX_IN_FLIGHT, MAX_EXPIRED). A caller is answered
\* busy only once it gave a call up, which the remote end may still run. A late reply is
\* dropped, not taken for a protocol violation, unless its ID was evicted; and only IDs
\* whose reply is still to come take room, so that an eviction takes more than MaxExpired
\* of them at once.
GivenUpHarmless ==
    /\ Of("busy") # {} => Of("unknown") # {}
    /\ accused => evicted
    /\ open["caller"] /\ socket = "up" => ToSet(expired) \subseteq Outstanding

\* A call settles, also one without a timeout: it is answered, or the connection closes,
\* by the heartbeat when the other end is gone without a word.
CallsSettle == \A c \in Calls : status[c] = "pending" ~> status[c] # "pending"
=============================================================================
