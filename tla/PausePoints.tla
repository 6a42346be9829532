----------------------------- MODULE PausePoints -----------------------------
(***************************************************************************)
(* A run between its start and its end: the preparation of its system      *)
(* prompt in a checkout it may share with other sessions' runs, the hooks   *)
(* where the process's pause gate holds it, its parallel tool calls, and    *)
(* what an abort, a close and a shutdown do to it at each of these points.  *)
(* Each session drives one run; the node all checkouts are on may drop.     *)
(*                                                                         *)
(* Pi drives the run: that it looks for an abort before each of its own     *)
(* steps (ask for the prompt, ask the model, call a tool) is taken from how *)
(* the runtime relies on it.                                               *)
(***************************************************************************)
EXTENDS Naturals, Sequences, FiniteSets

CONSTANTS Runs,       \* the sessions' runs, one each
          Checkouts,
          CheckoutOf, \* the checkout each run works in
          Calls,      \* a response's tool calls, run in parallel
          Closable,   \* runs whose runtime may be closed: the others may be aborted
          MaxTurns,   \* bound: requests of each run
          MaxDrops    \* bound: times the node's link drops

ASSUME PauseAssumption ==
    /\ CheckoutOf \in [Runs -> Checkouts]
    /\ IsFiniteSet(Calls)
    /\ Closable \subseteq Runs
    /\ MaxTurns \in [Runs -> Nat] /\ MaxDrops \in Nat

VARIABLES
    shutdown,  \* the process: up, pausing (its gate closed) or suspended
    online,    \* the node is connected
    drops,     \* times its link dropped
    line,      \* preparing: the preparations of each checkout, in turn
    stage,     \* where each run is
    prep,      \* how far the preparation of its system prompt is
    holding,   \* the preparation waits for the node, and holds the run there
    held,      \* the runtime's count of the run's hooks and waits held
    call,      \* where each of the run's tool calls is
    inFlight,  \* toolsInFlight: calls whose intent is committed, not their outcome
    aborting,  \* the run's abort was requested of Pi
    stopped,   \* the preparation's signal was aborted
    caller,    \* how far an abort() or a close() of the run's runtime is
    turns      \* requests the run sent

process == <<shutdown, online, drops>>
preparation == <<line, prep, holding>>
tools == <<call, inFlight>>
stops == <<aborting, stopped, caller>>
vars == <<process, preparation, stage, held, tools, stops, turns>>

Stages == {"idle", "ready", "prompt", "request", "heldRequest", "asking", "tools", "ending", "over"}
Preps == {"none", "queued", "checkout", "resources", "failing", "done", "plain", "failed"}
CallSteps == {"none", "planned", "held", "passed", "running", "ended"}

TypeOK ==
    /\ shutdown \in {"up", "pausing", "suspended"} /\ online \in BOOLEAN /\ drops \in Nat
    /\ line \in [Checkouts -> Seq(Runs)]
    /\ stage \in [Runs -> Stages] /\ prep \in [Runs -> Preps]
    /\ holding \in [Runs -> BOOLEAN] /\ held \in [Runs -> Nat]
    /\ call \in [Runs -> [Calls -> CallSteps]] /\ inFlight \in [Runs -> SUBSET Calls]
    /\ aborting \in [Runs -> BOOLEAN] /\ stopped \in [Runs -> BOOLEAN]
    /\ caller \in [Runs -> {"none", "closing", "requested", "waiting"}]
    /\ turns \in [Runs -> Nat]

Init ==
    /\ shutdown = "up" /\ online = TRUE /\ drops = 0
    /\ line = [k \in Checkouts |-> <<>>]
    /\ stage = [r \in Runs |-> "idle"] /\ prep = [r \in Runs |-> "none"]
    /\ holding = [r \in Runs |-> FALSE] /\ held = [r \in Runs |-> 0]
    /\ call = [r \in Runs |-> [c \in Calls |-> "none"]] /\ inFlight = [r \in Runs |-> {}]
    /\ aborting = [r \in Runs |-> FALSE] /\ stopped = [r \in Runs |-> FALSE]
    /\ caller = [r \in Runs |-> "none"] /\ turns = [r \in Runs |-> 0]
-----------------------------------------------------------------------------
Up == shutdown # "suspended"

GateClosed == shutdown # "up"

At(r, step) == Up /\ stage[r] = step

Driven(r) == stage[r] \notin {"idle", "over"}

Go(r, step) == stage' = [stage EXCEPT ![r] = step]

Hold(r) == held' = [held EXCEPT ![r] = @ + 1]

\* Mutant: a hook let go takes the run's whole entry with it.
ReleaseAll(r) == held' = [held EXCEPT ![r] = 0]

Release(r) == held' = [held EXCEPT ![r] = @ - 1]

\* Mutant: a run one of whose tool calls is held passes for paused.
IsPausedByHooks(r) == Driven(r) => held[r] > 0

\* Cutting the runtime off would lose nothing. (Its admissions: SessionRuntime.)
IsPaused(r) == inFlight[r] = {} /\ (Driven(r) => held[r] > 0)
-----------------------------------------------------------------------------
\* A run starts, or is resumed.
Begin(r) == /\ At(r, "idle")
            /\ Go(r, "ready")
            /\ UNCHANGED <<process, preparation, held, tools, stops, turns>>

\* Pi asks for the system prompt: the first time the run's preparation enters its
\* checkout's line, later its promise is there already.
AskPrompt(r) ==
    /\ At(r, "ready") /\ ~aborting[r]
    /\ Go(r, "prompt")
    /\ IF prep[r] = "none"
       THEN /\ prep' = [prep EXCEPT ![r] = "queued"]
            /\ line' = [line EXCEPT ![CheckoutOf[r]] = Append(@, r)]
       ELSE UNCHANGED <<prep, line>>
    /\ UNCHANGED <<process, holding, held, tools, stops, turns>>

\* Mutant: a preparation that was told to stop does not wait for its turn.
StartPreparingStopped(r) ==
    /\ Up /\ prep[r] = "queued" /\ line[CheckoutOf[r]] # <<>>
    /\ stopped[r] \/ Head(line[CheckoutOf[r]]) = r
    /\ prep' = [prep EXCEPT ![r] = "checkout"]
    /\ UNCHANGED <<process, line, holding, stage, held, tools, stops, turns>>

\* The preparation's turn in its checkout comes (oneAtATime), whoever was aborted.
StartPreparing(r) ==
    /\ Up /\ prep[r] = "queued"
    /\ line[CheckoutOf[r]] # <<>> /\ Head(line[CheckoutOf[r]]) = r
    /\ prep' = [prep EXCEPT ![r] = "checkout"]
    /\ UNCHANGED <<process, line, holding, stage, held, tools, stops, turns>>

Preparing(r) == Up /\ prep[r] \in {"checkout", "resources"}

\* It waits for the node, where its run is held ...
WaitForNode(r) ==
    /\ Preparing(r) /\ ~online /\ ~holding[r] /\ ~stopped[r]
    /\ holding' = [holding EXCEPT ![r] = TRUE] /\ Hold(r)
    /\ UNCHANGED <<process, line, prep, stage, tools, stops, turns>>

\* ... until the node is back.
NodeBack(r) ==
    /\ Preparing(r) /\ online /\ holding[r]
    /\ holding' = [holding EXCEPT ![r] = FALSE] /\ Release(r)
    /\ UNCHANGED <<process, line, prep, stage, tools, stops, turns>>

\* The preparation goes on to `next`, leaving the line if it was its turn.
PrepareTo(r, next) ==
    /\ prep' = [prep EXCEPT ![r] = next]
    /\ line' = IF prep[r] = "checkout" THEN [line EXCEPT ![CheckoutOf[r]] = Tail(@)] ELSE line
    /\ UNCHANGED <<process, stage, tools, turns>>

\* Mutant: the hold is let go whether it was taken or not.
StopHoldingAlways(r) == holding' = [holding EXCEPT ![r] = FALSE] /\ Release(r)

StopHolding(r) ==
    /\ holding' = [holding EXCEPT ![r] = FALSE]
    /\ IF holding[r] THEN Release(r) ELSE UNCHANGED held

\* The branch is checked out, then what the prompt lists is read from the node.
Prepared(r) ==
    /\ Preparing(r) /\ online /\ ~holding[r]
    /\ PrepareTo(r, IF prep[r] = "checkout" THEN "resources" ELSE "done")
    /\ UNCHANGED <<holding, held, stops>>

\* git fails, the checkout is missing, an answer never came, the node was removed.
CannotPrepare(r) ==
    /\ Preparing(r) /\ ~stopped[r]
    /\ PrepareTo(r, "failing") /\ StopHolding(r)
    /\ UNCHANGED stops

\* The preparation's signal stops it: the run has the plain prompt.
StopPreparing(r) ==
    /\ Preparing(r) /\ stopped[r]
    /\ PrepareTo(r, "plain") /\ StopHolding(r)
    /\ UNCHANGED stops

\* Mutant: the prompt is answered while the abort is still being requested.
AbortUnpreparedLate(r) ==
    /\ Up /\ prep[r] = "failing"
    /\ PrepareTo(r, "failed")
    /\ UNCHANGED <<holding, held, stops>>

\* A run that cannot be prepared is aborted before its prompt is answered.
AbortUnprepared(r) ==
    /\ Up /\ prep[r] = "failing"
    /\ PrepareTo(r, "failed")
    /\ aborting' = [aborting EXCEPT ![r] = TRUE]
    /\ UNCHANGED <<holding, held, stopped, caller>>

PromptAnswered(r) ==
    /\ At(r, "prompt") /\ prep[r] \in {"done", "plain", "failed"}
    /\ Go(r, IF aborting[r] THEN "ending" ELSE "request")
    /\ UNCHANGED <<process, preparation, held, tools, stops, turns>>

Prompting(r) ==
    \/ AskPrompt(r) \/ StartPreparing(r) \/ WaitForNode(r) \/ NodeBack(r) \/ Prepared(r)
    \/ StopPreparing(r) \/ AbortUnprepared(r) \/ PromptAnswered(r)
-----------------------------------------------------------------------------
\* before_request: held while the gate is closed, else the model is asked.
BeforeRequest(r) ==
    /\ At(r, "request")
    /\ \/ /\ GateClosed /\ ~aborting[r]
          /\ Go(r, "heldRequest") /\ Hold(r) /\ UNCHANGED turns
       \/ /\ ~GateClosed /\ ~aborting[r]
          /\ Go(r, "asking") /\ turns' = [turns EXCEPT ![r] = @ + 1] /\ UNCHANGED held
       \/ aborting[r] /\ Go(r, "ending") /\ UNCHANGED <<held, turns>>
    /\ UNCHANGED <<process, preparation, tools, stops>>

\* The gate never opens again; an abort's signal lets the hook go.
ReleaseRequest(r) ==
    /\ At(r, "heldRequest") /\ aborting[r]
    /\ Go(r, "ending") /\ Release(r)
    /\ UNCHANGED <<process, preparation, tools, stops, turns>>

\* The response ends the run, or calls tools (planned, all at once).
Respond(r) ==
    /\ At(r, "asking")
    /\ \/ Go(r, "ending") /\ UNCHANGED call
       \/ /\ ~aborting[r] /\ turns[r] < MaxTurns[r]
          /\ Go(r, "tools")
          /\ \E planned \in SUBSET Calls \ {{}} :
                call' = [call EXCEPT ![r] = [c \in Calls |-> IF c \in planned THEN "planned" ELSE "none"]]
    /\ UNCHANGED <<process, preparation, held, inFlight, stops, turns>>

CallTo(r, c, step) == call' = [call EXCEPT ![r][c] = step]

\* before_tool: an aborted run's call is not made.
BeforeTool(r, c) ==
    /\ At(r, "tools") /\ call[r][c] = "planned"
    /\ IF aborting[r] THEN CallTo(r, c, "ended") /\ UNCHANGED held
       ELSE IF GateClosed THEN CallTo(r, c, "held") /\ Hold(r)
       ELSE CallTo(r, c, "passed") /\ UNCHANGED held
    /\ UNCHANGED <<process, preparation, stage, inFlight, stops, turns>>

ReleaseTool(r, c) ==
    /\ At(r, "tools") /\ call[r][c] = "held" /\ aborting[r]
    /\ CallTo(r, c, "ended") /\ Release(r)
    /\ UNCHANGED <<process, preparation, stage, inFlight, stops, turns>>

\* Pi commits the call's intent (tool_start) and makes it ...
ToolStart(r, c) ==
    /\ At(r, "tools") /\ call[r][c] = "passed"
    /\ CallTo(r, c, "running")
    /\ inFlight' = [inFlight EXCEPT ![r] = @ \cup {c}]
    /\ UNCHANGED <<process, preparation, stage, held, stops, turns>>

\* Mutant: a call that ended is still counted.
ToolEndKept(r, c) ==
    /\ At(r, "tools") /\ call[r][c] = "running"
    /\ CallTo(r, c, "ended")
    /\ UNCHANGED <<process, preparation, stage, held, inFlight, stops, turns>>

\* ... and commits its outcome (tool_end).
ToolEnd(r, c) ==
    /\ At(r, "tools") /\ call[r][c] = "running"
    /\ CallTo(r, c, "ended")
    /\ inFlight' = [inFlight EXCEPT ![r] = @ \ {c}]
    /\ UNCHANGED <<process, preparation, stage, held, stops, turns>>

ToolsDone(r) ==
    /\ At(r, "tools") /\ \A c \in Calls : call[r][c] \in {"none", "ended"}
    /\ Go(r, "ready")
    /\ call' = [call EXCEPT ![r] = [c \in Calls |-> "none"]]
    /\ UNCHANGED <<process, preparation, held, inFlight, stops, turns>>

\* The run ends: what was kept of it while it was driven goes, and who waited for
\* it is answered.
End(r) ==
    /\ At(r, "ending") \/ (At(r, "ready") /\ aborting[r])
    /\ Go(r, "over")
    /\ prep' = [prep EXCEPT ![r] = "none"] /\ inFlight' = [inFlight EXCEPT ![r] = {}]
    /\ aborting' = [aborting EXCEPT ![r] = FALSE] /\ stopped' = [stopped EXCEPT ![r] = FALSE]
    /\ caller' = [caller EXCEPT ![r] = "none"] /\ turns' = [turns EXCEPT ![r] = 0]
    /\ UNCHANGED <<process, line, holding, held, call>>

Running(r) ==
    \/ BeforeRequest(r) \/ ReleaseRequest(r) \/ ToolsDone(r) \/ End(r)
    \/ \E c \in Calls : BeforeTool(r, c) \/ ReleaseTool(r, c) \/ ToolStart(r, c)
-----------------------------------------------------------------------------
\* A run's preparation, if it has one, is told to stop.
StopPreparation(r) == stopped' = [stopped EXCEPT ![r] = @ \/ prep[r] # "none"]

\* abort(): requested of Pi first ...
Abort(r) ==
    /\ Up /\ Driven(r) /\ caller[r] = "none" /\ r \notin Closable
    /\ aborting' = [aborting EXCEPT ![r] = TRUE]
    /\ caller' = [caller EXCEPT ![r] = "requested"]
    /\ UNCHANGED <<process, preparation, stage, held, tools, stopped, turns>>

\* Mutant: only Pi is told, not the preparation.
AbortRequestedOnly(r) ==
    /\ Up /\ caller[r] = "requested"
    /\ caller' = [caller EXCEPT ![r] = "waiting"]
    /\ UNCHANGED <<process, preparation, stage, held, tools, aborting, stopped, turns>>

\* ... then of the preparation; then it waits for the run to end.
AbortRequested(r) ==
    /\ Up /\ caller[r] = "requested"
    /\ StopPreparation(r)
    /\ caller' = [caller EXCEPT ![r] = "waiting"]
    /\ UNCHANGED <<process, preparation, stage, held, tools, aborting, turns>>

\* close() stops the preparations before it aborts the run.
Close(r) ==
    /\ Up /\ Driven(r) /\ caller[r] = "none" /\ r \in Closable
    /\ StopPreparation(r)
    /\ caller' = [caller EXCEPT ![r] = "closing"]
    /\ UNCHANGED <<process, preparation, stage, held, tools, aborting, turns>>

CloseAbort(r) ==
    /\ Up /\ caller[r] = "closing"
    /\ aborting' = [aborting EXCEPT ![r] = TRUE]
    /\ caller' = [caller EXCEPT ![r] = "requested"]
    /\ UNCHANGED <<process, preparation, stage, held, tools, stopped, turns>>

\* suspendSessions: the gate closes ...
CloseGate ==
    /\ shutdown = "up" /\ shutdown' = "pausing"
    /\ UNCHANGED <<online, drops, preparation, stage, held, tools, stops, turns>>

\* ... and every runtime is suspended, once all are paused or the deadline passes:
\* the process goes, its runs stay pending.
Suspend ==
    /\ shutdown = "pausing" /\ shutdown' = "suspended"
    /\ UNCHANGED <<online, drops, preparation, stage, held, tools, stops, turns>>

Drop == /\ Up /\ online /\ drops < MaxDrops
        /\ online' = FALSE /\ drops' = drops + 1
        /\ UNCHANGED <<shutdown, preparation, stage, held, tools, stops, turns>>

Reconnect == /\ Up /\ ~online /\ online' = TRUE
             /\ UNCHANGED <<shutdown, drops, preparation, stage, held, tools, stops, turns>>

Next ==
    \/ \E r \in Runs : \/ Begin(r) \/ Prompting(r) \/ CannotPrepare(r) \/ Running(r) \/ Respond(r)
                      \/ \E c \in Calls : ToolEnd(r, c)
                      \/ Abort(r) \/ AbortRequested(r) \/ Close(r) \/ CloseAbort(r)
    \/ CloseGate \/ Suspend \/ Drop \/ Reconnect

\* The runtime and Pi take their steps, and an aborted request or tool call ends.
Fairness ==
    \A r \in Runs :
        /\ WF_vars(Prompting(r)) /\ WF_vars(Running(r))
        /\ WF_vars(aborting[r] /\ Respond(r))
        /\ \A c \in Calls : WF_vars(aborting[r] /\ ToolEnd(r, c))
        /\ WF_vars(AbortRequested(r)) /\ WF_vars(CloseAbort(r))

Spec == Init /\ [][Next]_vars

FairSpec == Spec /\ Fairness

\* A node that dropped dials the server again.
NodeReturns == WF_vars(Reconnect)

\* The provider answers and the tools end.
EffectsEnd == \A r \in Runs : WF_vars(Respond(r)) /\ \A c \in Calls : WF_vars(ToolEnd(r, c))
-----------------------------------------------------------------------------
HeldCalls(r) == {c \in Calls : call[r][c] = "held"}

One(waits) == IF waits THEN 1 ELSE 0

\* A run counts as held exactly while something of it waits, once for each: its
\* hooks and its preparation each leave as they are let go, in any order.
HeldCounted ==
    \A r \in Runs :
        held[r] = Cardinality(HeldCalls(r)) + One(holding[r]) + One(stage[r] = "heldRequest")

\* git works for one run at a time in a checkout, whichever of them are stopped.
OnePreparation ==
    \A r, s \in Runs :
        /\ prep[r] = "checkout" /\ prep[s] = "checkout"
        /\ CheckoutOf[r] = CheckoutOf[s]
        => r = s

\* A runtime that reports itself paused has nothing a suspension cuts off: no
\* request asked, no tool call made, no checkout or context being read.
PausedLosesNothing ==
    \A r \in Runs : Up /\ IsPaused(r) =>
        /\ stage[r] # "asking"
        /\ \A c \in Calls : call[r][c] # "running"
        /\ stage[r] = "prompt" => holding[r]

\* No request is sent without the run's prepared prompt: a failed preparation, or
\* one an abort stopped, answers the plain one, which is never sent.
PromptSent == \A r \in Runs \ Closable : stage[r] = "asking" => prep[r] = "done"

\* The same of a runtime that is being closed, for which the code does not keep it (README).
ClosingPromptSent == \A r \in Closable : stage[r] = "asking" => prep[r] = "done"

\* An aborted run ends, its node offline or not, unless its preparation waits for
\* its turn in the checkout.
AbortStopsWaiting ==
    \A r \in Runs : aborting[r] /\ prep[r] # "queued" ~> stage[r] = "over" \/ ~Up

\* An abort (or a close) ends its run, wherever it finds it: not so for one whose
\* preparation waits behind another's (README).
AbortEnds == \A r \in Runs : caller[r] # "none" ~> stage[r] = "over" \/ ~Up

\* Once the gate is closed every run reaches a pause point or its end, as long as the
\* node returns, the model answers and tools end: the shutdown need not wait for its
\* deadline.
PauseReached ==
    NodeReturns /\ EffectsEnd => (GateClosed ~> ~Up \/ \A r \in Runs : IsPaused(r))
=============================================================================
