---------------------------- MODULE LiveSessions ----------------------------
(***************************************************************************)
(* The process's map of live session runtimes, for one session: calls that  *)
(* open or share its runtime (openSessionRuntime, withSessionRuntime), and  *)
(* everything that closes it under them: the idle sweep, a new app, a       *)
(* session's move, its node's removal and its deletion. A promise's         *)
(* continuations run before the event loop takes another event: what waits  *)
(* for the opening to close what it opened goes on first.                   *)
(***************************************************************************)
EXTENDS Naturals, FiniteSets

CONSTANTS Calls,        \* the calls ever made that use the session's runtime
          Submissions,  \* those made in the session's order; the others are resumes
          Sources,      \* where a session can work, each on a node of its own
          Home,         \* where the session was created
          None,         \* no runtime, place or app
          MaxRuntimes,  \* bound: runtimes ever opened
          MaxApps,      \* bound: apps ever registered
          MaxMoves,     \* bound: moves of the session
          MaxRemovals,  \* bound: nodes removed
          Rounds        \* closeSessionRuntimes' rounds

ASSUME LiveAssumption ==
    /\ Submissions \subseteq Calls /\ Home \in Sources /\ None \notin Sources /\ None \notin Nat
    /\ MaxRuntimes \in Nat /\ MaxApps \in Nat \ {0} /\ MaxMoves \in Nat
    /\ MaxRemovals \in Nat /\ Rounds \in Nat

Runtimes == 1..MaxRuntimes

Apps == 1..MaxApps

VARIABLES
    place,     \* the source the session's row names, None once the row is deleted
    removed,   \* sources whose node was removed
    pending,   \* Pi has an operation of the session in progress in its storage
    app,       \* the process's current app, None in a reload's gap
    apps,      \* apps registered so far
    made,      \* runtimes built so far
    runtime,   \* what each runtime is and was built for
    live,      \* the session's entry in the live map
    opening,   \* the opening in progress
    call,      \* each call: where it is, on which runtime, whether it runs again
    closeNext, \* someone waits for the opening, to close what it opens
    deletion,  \* where the session's deletion is
    awaited,   \* the runtime it closed and waits for, None for none
    round,     \* the rounds it began
    ahead,     \* the submissions its round waits for
    moves      \* bound: moves so far

entry == <<made, runtime, live, opening>>
process == <<app, apps>>
session == <<place, removed, moves>>
deleting == <<deletion, awaited, round, ahead>>
vars == <<session, pending, process, entry, call, closeNext, deleting>>

NoOpening == [step |-> "none", old |-> None, binding |-> None, code |-> None]

Unbuilt == [is |-> "none", binding |-> None, code |-> None,
            running |-> FALSE, late |-> FALSE, retired |-> FALSE, faulted |-> FALSE]

TypeOK ==
    /\ place \in Sources \cup {None} /\ removed \subseteq Sources /\ pending \in BOOLEAN
    /\ app \in Apps \cup {None} /\ apps \in Apps /\ made \in 0..MaxRuntimes
    /\ runtime \in [Runtimes -> [is : {"none", "open", "closing", "closed"},
                                 binding : Sources \cup {None}, code : Apps \cup {None},
                                 running : BOOLEAN, late : BOOLEAN, retired : BOOLEAN,
                                 faulted : BOOLEAN]]
    /\ live \in Runtimes \cup {None}
    /\ opening \in [step : {"none", "closing", "building"}, old : Runtimes \cup {None},
                    binding : Sources \cup {None}, code : Apps \cup {None}]
    /\ call \in [Calls -> [at : {"new", "queued", "opening", "got", "over"},
                           on : Runtimes \cup {None}, again : BOOLEAN]]
    /\ closeNext \in BOOLEAN
    /\ deletion \in {"none", "draining", "opening", "closing", "over"}
    /\ awaited \in Runtimes \cup {None}
    /\ round \in 0..Rounds /\ ahead \subseteq Submissions /\ moves \in 0..MaxMoves

Init ==
    /\ place = Home /\ removed = {} /\ pending \in BOOLEAN
    /\ app = 1 /\ apps = 1 /\ made = 0 /\ runtime = [r \in Runtimes |-> Unbuilt]
    /\ live = None /\ opening = NoOpening
    /\ call = [c \in Calls |-> [at |-> "new", on |-> None, again |-> FALSE]]
    /\ closeNext = FALSE /\ deletion = "none" /\ awaited = None /\ round = 0 /\ ahead = {} /\ moves = 0
-----------------------------------------------------------------------------
IsOpening == opening.step # "none"

\* The calls in the session's submission chain.
InChain == {c \in Submissions : call[c].at \notin {"new", "over"}}

\* isStreaming: it drives a run, or a resume has it, which is an admission from its first
\* line. A prompt that is still being expanded in it is not told.
Streaming(r) ==
    runtime[r].running \/ \E c \in Calls \ Submissions : call[c].at = "got" /\ call[c].on = r

\* sessionBusy.
Busy ==
    \/ InChain # {}
    \/ live # None /\ Streaming(live)
    \/ IsOpening /\ pending

\* What waited for an opening that ended goes on before anything else happens.
Due == ~IsOpening /\ (closeNext \/ deletion = "opening")

\* close() begins: it waits, and aborts what it finds running, before the harness closes.
\* What the runtime was built for matters no longer.
Closing(r) == [runtime EXCEPT ![r] = [Unbuilt EXCEPT !.is = "closing", !.running = runtime[r].running,
                                                     !.faulted = runtime[r].faulted]]

CloseLive == live' = None /\ runtime' = Closing(live)

\* closeSessionRuntime, called now: an opening is waited for, then its runtime closed.
CloseSessionRuntime ==
    IF IsOpening THEN closeNext' = TRUE /\ UNCHANGED <<live, runtime>>
    ELSE UNCHANGED closeNext /\ IF live # None THEN CloseLive ELSE UNCHANGED <<live, runtime>>

\* A session deleted, or whose node was removed, opens no runtime.
Runnable == place # None /\ place \notin removed

\* The live runtime may be used as it is.
Usable ==
    /\ live # None /\ runtime[live].binding = place
    /\ ~runtime[live].retired /\ ~runtime[live].faulted

At(c, at, r) == call' = [call EXCEPT ![c].at = at, ![c].on = r]

Over(c) == call' = [call EXCEPT ![c] = [at |-> "over", on |-> None, again |-> FALSE]]

\* Mutant: the runtime it replaces is left to whoever uses it.
BeginBeside(c, code) ==
    /\ made < MaxRuntimes
    /\ opening' = [step |-> "building", old |-> live, binding |-> place, code |-> code]
    /\ At(c, "opening", None)
    /\ UNCHANGED <<made, live, runtime>>

\* An opening begins by taking the runtime it replaces out of the map and closing it.
\* Bounded: a runtime is left to build.
BeginOpening(c, code) ==
    /\ made < MaxRuntimes
    /\ opening' = [step |-> IF live = None THEN "building" ELSE "closing",
                   old |-> live, binding |-> place, code |-> code]
    /\ At(c, "opening", None)
    /\ IF live = None THEN UNCHANGED <<live, runtime>> ELSE CloseLive
    /\ UNCHANGED made

\* openSessionRuntime, called by an app's code. It is refused (the first case), or finds
\* a usable runtime, or shares an opening, whatever place that is for; a running runtime
\* stays, used when its place is the session's and refused otherwise; else it opens one.
Open(c, code) ==
    \/ ~Runnable /\ Over(c) /\ UNCHANGED entry
    \/ Runnable /\ Usable /\ At(c, "got", live) /\ UNCHANGED entry
    \/ /\ Runnable /\ ~Usable /\ IsOpening
       /\ At(c, "opening", None) /\ UNCHANGED entry
    \/ /\ Runnable /\ ~Usable /\ ~IsOpening
       /\ IF live # None /\ Streaming(live) /\ ~runtime[live].faulted
          THEN /\ IF runtime[live].binding = place THEN At(c, "got", live) ELSE Over(c)
               /\ UNCHANGED entry
          ELSE BeginOpening(c, code)

\* A submission enters the session's chain.
Submit(c) ==
    /\ ~Due /\ c \in Submissions /\ call[c].at = "new" /\ At(c, "queued", None)
    /\ UNCHANGED <<session, pending, process, entry, closeNext, deleting>>

\* Its turn in the chain has come; a resume waits for none. Any app's code may call.
Call(c) ==
    /\ ~Due
    /\ \/ c \in Submissions /\ call[c].at = "queued"
          /\ \A d \in InChain \ {c} : call[d].at = "queued" /\ ~call[d].again
       \/ c \notin Submissions /\ call[c].at \in {"new", "queued"}
    /\ \E code \in 1..apps : Open(c, code)
    /\ UNCHANGED <<session, pending, process, closeNext, deleting>>

\* The runtime the opening replaces has closed.
OldClosed ==
    /\ ~Due /\ opening.step = "closing" /\ runtime[opening.old].is = "closed"
    /\ opening' = [opening EXCEPT !.step = "building"]
    /\ UNCHANGED <<session, pending, process, made, runtime, live, call, closeNext, deleting>>

\* Those who share an opening have its runtime, or fail with it.
EndOpening(at, r) ==
    /\ opening' = NoOpening
    /\ call' = [c \in Calls |-> IF call[c].at = "opening"
                                THEN [call[c] EXCEPT !.at = at, !.on = r] ELSE call[c]]

\* The runtime is built and live: retired at once when another app is current.
Built ==
    /\ ~Due /\ opening.step = "building" /\ made' = made + 1 /\ live' = made + 1
    /\ runtime' = [runtime EXCEPT ![made + 1] = [Unbuilt EXCEPT !.is = "open",
           !.binding = opening.binding, !.code = opening.code,
           !.retired = app \notin {None, opening.code}]]
    /\ EndOpening("got", made + 1)
    /\ UNCHANGED <<session, pending, process, closeNext, deleting>>

\* It cannot be built (its model or tools are gone, its rows went).
BuildFailed ==
    /\ ~Due /\ opening.step = "building" /\ EndOpening("over", None)
    /\ UNCHANGED <<session, pending, process, made, runtime, live, closeNext, deleting>>
-----------------------------------------------------------------------------
\* The runtime takes the call: a submission may drive a run, Pi's pending operation or a
\* new one, a resume only the former. A runtime being closed drives it too, and the run
\* may come after all that close() waits for and aborts: it is late.
Take(c, r) ==
    \/ /\ c \in Submissions \/ pending
       /\ runtime' = [runtime EXCEPT ![r].running = TRUE, ![r].late = (runtime[r].is = "closing")]
       /\ pending' = TRUE
    \/ UNCHANGED <<runtime, pending>>

\* Its harness takes calls: nothing faulted it, and its close() has not come to it.
Works(r) == runtime[r].is \in {"open", "closing"} /\ ~runtime[r].faulted

\* The call is refused, by a runtime that no longer works or whose close() overtook it;
\* when the session's live runtime is faulted, it opens that again, once.
Refused(c) ==
    IF live # None /\ runtime[live].faulted /\ ~call[c].again
    THEN call' = [call EXCEPT ![c] = [at |-> "queued", on |-> None, again |-> TRUE]]
    ELSE Over(c)

\* The call's use of the runtime it was given. It came later than the move that waits for
\* the opening (or is a resume with nothing to drive): it goes on later.
Use(c) ==
    /\ call[c].at = "got" /\ ~(closeNext /\ ~IsOpening)
    /\ \/ Works(call[c].on) /\ Take(c, call[c].on) /\ Over(c)
       \/ /\ runtime[call[c].on].is # "open" \/ runtime[call[c].on].faulted
          /\ Refused(c) /\ UNCHANGED <<runtime, pending>>
    /\ UNCHANGED <<session, process, made, live, opening, closeNext, deleting>>

\* The run ends by itself or is aborted.
RunEnd(r) ==
    /\ ~Due /\ runtime[r].running /\ runtime' = [runtime EXCEPT ![r].running = FALSE]
    /\ pending' = FALSE
    /\ UNCHANGED <<session, process, made, live, opening, call, closeNext, deleting>>

\* A storage call fails: the harness ends nothing, and its operation stays pending.
Fault(r) ==
    /\ ~Due /\ runtime[r].is = "open" /\ ~runtime[r].faulted
    /\ runtime' = [runtime EXCEPT ![r].faulted = TRUE, ![r].running = FALSE]
    /\ UNCHANGED <<session, pending, process, made, live, opening, call, closeNext, deleting>>

\* close() ends once it aborted the run, if there was one. A late run is cut off, and its
\* operation stays pending.
Closed(r) ==
    /\ ~Due /\ runtime[r].is = "closing" /\ (runtime[r].running => runtime[r].late)
    /\ runtime' = [runtime EXCEPT ![r] = [Unbuilt EXCEPT !.is = "closed"]]
    /\ UNCHANGED <<session, pending, process, made, live, opening, call, closeNext, deleting>>

\* Mutant: only retired runtimes are swept.
SweepRetired ==
    /\ ~Due /\ live # None /\ ~IsOpening /\ ~Streaming(live) /\ runtime[live].retired
    /\ CloseLive
    /\ UNCHANGED <<session, pending, process, made, opening, call, closeNext, deleting>>

\* The sweep: a retired runtime that does not stream, or one idle for long (no call was
\* given it lately).
Sweep ==
    /\ ~Due /\ live # None /\ ~IsOpening /\ ~Streaming(live)
    /\ runtime[live].retired \/ \A c \in Calls : ~(call[c].at = "got" /\ call[c].on = live)
    /\ CloseLive
    /\ UNCHANGED <<session, pending, process, made, opening, call, closeNext, deleting>>

\* A reload stops the app before it registers the next.
AppStopped ==
    /\ ~Due /\ app # None /\ app' = None
    /\ UNCHANGED <<session, pending, apps, entry, call, closeNext, deleting>>

\* Mutant: what others built is closed, whatever it does.
RegisterClosing ==
    /\ ~Due /\ apps < MaxApps /\ apps' = apps + 1 /\ app' = apps + 1
    /\ IF live = None THEN UNCHANGED <<live, runtime>> ELSE CloseLive
    /\ UNCHANGED <<session, pending, made, opening, call, closeNext, deleting>>

\* registerApp: an idle runtime is closed, one that runs is retired.
RegisterApp ==
    /\ ~Due /\ apps < MaxApps /\ apps' = apps + 1 /\ app' = apps + 1
    /\ IF live = None THEN UNCHANGED <<live, runtime>>
       ELSE IF Streaming(live)
       THEN runtime' = [runtime EXCEPT ![live].retired = TRUE] /\ UNCHANGED live
       ELSE CloseLive
    /\ UNCHANGED <<session, pending, made, opening, call, closeNext, deleting>>
-----------------------------------------------------------------------------
\* Mutant: only a runtime in the map is closed.
MoveUnwaited(to) ==
    /\ ~Due /\ place \notin {None, to} /\ ~Busy /\ moves < MaxMoves
    /\ moves' = moves + 1 /\ place' = to
    /\ IF live # None THEN CloseLive ELSE UNCHANGED <<live, runtime>>
    /\ UNCHANGED <<removed, pending, process, made, opening, call, closeNext, deleting>>

\* An idle session is pointed at another source and its runtime closed. Its node was
\* looked at before the source was found: it may be removed since.
Move(to) ==
    /\ ~Due /\ place \notin {None, to} /\ ~Busy /\ moves < MaxMoves
    /\ moves' = moves + 1 /\ place' = to
    /\ CloseSessionRuntime
    /\ UNCHANGED <<removed, pending, process, made, opening, call, deleting>>

\* Node.remove: runtimes in the map of sessions there are closed, not one being opened;
\* an operation nothing drives is given up, which leaves it pending in Pi.
Remove(s) ==
    /\ ~Due /\ s \notin removed /\ Cardinality(removed) < MaxRemovals /\ removed' = removed \cup {s}
    /\ IF live # None /\ place = s THEN CloseSessionRuntime ELSE UNCHANGED <<live, runtime, closeNext>>
    /\ UNCHANGED <<place, moves, pending, process, made, opening, call, deleting>>

\* The opening a close waited for ended.
CloseOpened ==
    /\ closeNext /\ ~IsOpening /\ closeNext' = FALSE
    /\ IF live # None THEN CloseLive ELSE UNCHANGED <<live, runtime>>
    /\ UNCHANGED <<session, pending, process, made, opening, call, deleting>>

\* closeSessionRuntimes finds something of the session in one of the maps.
AnythingOpen == live # None \/ IsOpening \/ InChain # {}

\* Mutant: the rounds are not counted.
LookForEver ==
    IF ~AnythingOpen
    THEN deletion' = "over" /\ place' = None /\ UNCHANGED <<round, ahead>>
    ELSE deletion' = "draining" /\ round' = round + 1 /\ ahead' = InChain /\ UNCHANGED place

\* Another round while anything is open, or the row is deleted.
LookAgain ==
    IF ~AnythingOpen \/ round = Rounds
    THEN deletion' = "over" /\ place' = None /\ UNCHANGED <<round, ahead>>
    ELSE deletion' = "draining" /\ round' = round + 1 /\ ahead' = InChain /\ UNCHANGED place

\* The session is deleted, with its task when idle, or with its project whatever it does.
Delete ==
    /\ ~Due /\ place # None /\ deletion = "none" /\ LookAgain
    /\ UNCHANGED <<removed, moves, pending, process, entry, call, closeNext, awaited>>

\* The submissions there were when the round began are over.
Drained ==
    /\ ~Due /\ deletion = "draining" /\ ahead \cap InChain = {} /\ deletion' = "opening"
    /\ ahead' = {}
    /\ UNCHANGED <<session, pending, process, entry, call, closeNext, awaited, round>>

\* Then the opening there may be has ended: its runtime is closed, and waited for.
DeletionCloses ==
    /\ deletion = "opening" /\ ~IsOpening /\ deletion' = "closing" /\ awaited' = live
    /\ IF live # None THEN CloseLive ELSE UNCHANGED <<live, runtime>>
    /\ UNCHANGED <<session, pending, process, made, opening, call, closeNext, round, ahead>>

\* It has closed; others of the session may not have, which a sweep, a new app or a move closed.
DeletionClosed ==
    /\ ~Due /\ deletion = "closing" /\ (awaited # None => runtime[awaited].is = "closed")
    /\ awaited' = None /\ LookAgain
    /\ UNCHANGED <<removed, moves, pending, process, entry, call, closeNext>>

CallStep(c) == Call(c) \/ Use(c)

RuntimeStep(r) == RunEnd(r) \/ Closed(r)

OpeningStep == OldClosed \/ Built \/ BuildFailed

Next ==
    \/ \E c \in Calls : Submit(c) \/ CallStep(c)
    \/ OpeningStep \/ CloseOpened \/ Sweep \/ AppStopped \/ RegisterApp
    \/ \E r \in Runtimes : RuntimeStep(r) \/ Fault(r)
    \/ \E s \in Sources : Move(s) \/ Remove(s)
    \/ Delete \/ Drained \/ DeletionCloses \/ DeletionClosed

\* Calls and openings go on, runs end (a removed node's tools fail), close() ends, the
\* sweep comes again and again, and no promise is left unresolved.
Fairness ==
    /\ \A c \in Calls : WF_vars(CallStep(c))
    /\ \A r \in Runtimes : WF_vars(RunEnd(r)) /\ WF_vars(Closed(r))
    /\ WF_vars(OpeningStep) /\ WF_vars(CloseOpened) /\ SF_vars(Sweep)
    /\ WF_vars(Drained) /\ WF_vars(DeletionCloses) /\ WF_vars(DeletionClosed)

Spec == Init /\ [][Next]_vars

FairSpec == Spec /\ Fairness
-----------------------------------------------------------------------------
\* No runtime is left behind: one that was not closed is the session's entry in the map,
\* whoever opened it and whatever took others out (openSessionRuntime, live.ts).
NoneLeftBehind == \A r \in Runtimes : runtime[r].is = "open" => r = live

\* A live runtime works where the session is, or the move that took the session away is
\* about to close it; and when its code is not the current app's it is known as retired,
\* so that the next call reopens it. Both also when the session moved, or the app was
\* replaced, while it was being opened. And a session is deleted with nothing of it
\* open, unless every round of closeSessionRuntimes found something.
LiveIsCurrent ==
    /\ live # None /\ place # None => runtime[live].binding = place \/ closeNext
    /\ live # None /\ app # None => runtime[live].code = app \/ runtime[live].retired
    /\ place = None => round = Rounds \/ (live = None /\ ~IsOpening)

\* Two runtimes never drive runs at once, though a closed one may still be aborting its
\* run as the next is opened: unless its node was removed or the session is being
\* deleted, which close a runtime that runs, or the run is a late one of a call that got
\* its runtime before the close (README).
OneDriver ==
    \A r, s \in Runtimes :
        runtime[r].running /\ runtime[s].running /\ r # s =>
            removed # {} \/ deletion # "none" \/ runtime[r].late \/ runtime[s].late

\* The code can break this (README): nor do they when one runs late, for a call that got
\* its runtime before a fault, the sweep, a new app or a move closed it.
AlwaysOneDriver ==
    \A r, s \in Runtimes :
        runtime[r].running /\ runtime[s].running /\ r # s => removed # {} \/ deletion # "none"

\* A session whose node was removed keeps no live runtime, also one that was being
\* opened and that the removal did not find; unless it is moved to another node.
RemovedNodeLeft == live # None /\ ~Runnable ~> live = None \/ Runnable
=============================================================================
