---------------------------- MODULE SessionRuntime ----------------------------
(***************************************************************************)
(* One session's live runtime (AgentHarnessPiRuntime) over the session's   *)
(* durable Pi lane: how prompts, steers and compactions are admitted, which *)
(* operation is driven by whom, and what a crash, a storage fault or a     *)
(* close leaves for the next runtime to pick up.                           *)
(*                                                                         *)
(* The lane (queue, entries, current) is Pi's and survives everything here; *)
(* its operations are modelled from how the runtime uses them. Submissions *)
(* take turns (KeyedChain); aborts, resumes and the drives do not.         *)
(***************************************************************************)
EXTENDS Naturals

CONSTANTS Requests,  \* the submissions ever made
          Inputs,    \* the reinsIds (clientIds) they carry; a replay repeats one
          None,      \* no request
          OpOf,      \* what each request asks: a prompt, a steer, a compaction
          InputOf,   \* the reinsId of each request
          MaxStops   \* bound: crashes, faults, closes and aborts in a behaviour

ASSUME RuntimeAssumption ==
    /\ None \notin Requests
    /\ OpOf \in [Requests -> {"prompt", "steer", "compact"}]
    /\ InputOf \in [Requests -> Inputs]
    /\ MaxStops \in Nat

VARIABLES
    \* Pi's lane, durable.
    queue,      \* inputs queued as steering, not in the transcript yet
    entries,    \* inputs in the transcript
    current,    \* the operation in progress, 0 for none
    compactions, \* the operations that are compactions; the others are runs
    aborting,   \* its abort was requested
    made,       \* operations accepted so far: they are numbered from 1
    \* The runtime, volatile.
    mode,       \* where the runtime is: down, open, faulted or a step of close()
    reopened,   \* the operation found pending when it opened, 0 for none
    active,     \* activeOperations: the operations being driven
    driving,    \* the operation whose drive Pi took, 0 for none
    waiting,    \* queued-steering starts waiting for the lane to go idle
    trying,     \* queued-steering starts about to ask the lane for a run
    begun,      \* runs that queued-steering starts had accepted and have yet to drive
    resuming,   \* a resume is under way
    resumeSeen, \* the operation it saw in progress, 0 before it looked
    closeSeen,  \* the operation close() saw in progress when it looked for one to abort
    ends,       \* pendingEnds: run ends the lifecycle sink is still applying
    \* The submissions.
    turn,       \* the request at the head of the session's chain, or None
    pc,         \* where each request is
    accepted,   \* the operation the request in turn had accepted
    seen,       \* the operation it saw in progress when it last looked
    retried,    \* the requests withSessionRuntime ran a second time
    stops,      \* crashes, faults, closes and aborts so far
    \* Ghosts.
    copies,     \* how many copies of each input the lane holds
    discarded,  \* inputs an abort discarded while they were queued
    mine,       \* queued inputs this runtime itself queued
    overtaken   \* operations driven by someone else before an unlooked drive of them

lane == <<queue, entries, current, compactions, aborting, made, copies, discarded, mine>>
drive == <<active, driving, overtaken>>
starts == <<waiting, trying, begun>>
subs == <<turn, pc, accepted, retried, seen>>
phase == <<mode, reopened, closeSeen>>
resume == <<resuming, resumeSeen>>
vars == <<lane, drive, starts, subs, phase, resume, ends, stops>>

CloseSteps == {"closeAdmissions", "closeAbort", "closeIdle", "closeStarts",
               "closeAbortAgain", "closeIdleAgain", "closeHarness", "closeFlush"}

Modes == {"down", "open", "faulted"} \cup CloseSteps

Untracked == {"expand", "watch", "entries", "replay", "replaySeen", "redrive", "compact"}

Admission == {"admit", "admitSeen", "accept", "drive", "steer", "inspect", "inspectSeen",
              "acceptCompaction"}

Over == {"ok", "failed", "lost"}

TypeOK ==
    /\ queue \subseteq Inputs /\ entries \subseteq Inputs
    /\ made \in Nat /\ current \in 0..made /\ compactions \subseteq 1..made
    /\ aborting \in BOOLEAN
    /\ mode \in Modes /\ reopened \in 0..made /\ closeSeen \in 0..made
    /\ active \subseteq 1..made /\ driving \in 0..made /\ overtaken \subseteq 1..made
    /\ waiting \in Nat /\ trying \in Nat /\ begun \subseteq 1..made
    /\ resuming \in BOOLEAN /\ resumeSeen \in 0..made /\ ends \in Nat
    /\ turn \in Requests \cup {None}
    /\ pc \in [Requests -> {"new", "queued", "opening"} \cup Untracked \cup Admission \cup Over]
    /\ accepted \in 0..made /\ seen \in 0..made /\ retried \subseteq Requests /\ stops \in Nat
    /\ copies \in [Inputs -> Nat] /\ discarded \subseteq Inputs /\ mine \subseteq queue

Init ==
    /\ queue = {} /\ entries = {} /\ current = 0 /\ compactions = {} /\ aborting = FALSE /\ made = 0
    /\ mode = "down" /\ reopened = 0 /\ closeSeen = 0 /\ active = {} /\ driving = 0 /\ overtaken = {}
    /\ waiting = 0 /\ trying = 0 /\ begun = {} /\ resuming = FALSE /\ resumeSeen = 0 /\ ends = 0
    /\ turn = None /\ pc = [r \in Requests |-> "new"] /\ accepted = 0 /\ seen = 0 /\ retried = {}
    /\ stops = 0 /\ copies = [i \in Inputs |-> 0] /\ discarded = {} /\ mine = {}
-----------------------------------------------------------------------------
\* The runtime object works: open, or in a close() that has not closed the harness.
Working == mode = "open" \/ mode \in CloseSteps \ {"closeFlush"}

\* pendingAdmissions is not empty.
Admitting == resuming \/ \E r \in Requests : pc[r] \in Admission

\* pendingIdleStarts is not empty.
Starting == waiting + trying > 0 \/ begun # {}

Streaming == Admitting \/ Starting \/ active # {}

Busy == Streaming \/ ends > 0

\* passivelyReopened, with what the look at the lane found: the operation that an
\* interruption left pending, while nothing drives it.
PassivelyReopened == reopened # 0 /\ seen = reopened /\ reopened \notin active

\* driveInBackground: the operation joins activeOperations at once. A second drive
\* of it is refused, and takes the first one's entry away as it settles, while Pi
\* goes on with the first; a drive of one that is over, or that Pi drives, fails there.
Drive(op) == /\ \/ op \in active /\ active' = active \ {op}
                \/ op \notin active /\ active' = active \cup {op}
                \/ op \notin active /\ op = driving /\ UNCHANGED active
             /\ driving' = IF op = current THEN op ELSE driving

\* A drive that no look at activeOperations came before in the same callback.
DriveUnlooked(op) == Drive(op) /\ overtaken' = overtaken \cup (active \cap {op})

DriveLooked(op) == Drive(op) /\ UNCHANGED overtaken

At(r, step) == turn = r /\ pc[r] = step /\ Working

Go(r, step) == /\ pc' = [pc EXCEPT ![r] = step]
               /\ seen' = 0
               /\ UNCHANGED <<turn, accepted, retried>>

\* lane.inspectExecution answers; what follows it is another callback.
Look(r, step) == /\ pc' = [pc EXCEPT ![r] = step]
                 /\ seen' = current
                 /\ UNCHANGED <<turn, accepted, retried>>

\* The request is answered and the next one takes its turn.
Answer(r, outcome) == /\ pc' = [pc EXCEPT ![r] = outcome]
                      /\ turn' = None /\ accepted' = 0 /\ seen' = 0
                      /\ retried' = retried \ {r}

\* Pi commits a new operation on the idle lane.
NewOperation == made' = made + 1 /\ current' = made + 1

Add(i) == copies' = [copies EXCEPT ![i] = @ + 1]
-----------------------------------------------------------------------------
\* Submissions: they enter the chain and take turns.
Submit(r) == /\ pc[r] = "new"
             /\ pc' = [pc EXCEPT ![r] = "queued"]
             /\ UNCHANGED <<lane, drive, starts, turn, accepted, retried, seen, phase, resume, ends, stops>>

Take(r) == /\ pc[r] = "queued" /\ turn = None
           /\ turn' = r
           /\ pc' = [pc EXCEPT ![r] = "opening"]
           /\ UNCHANGED <<lane, drive, starts, accepted, retried, seen, phase, resume, ends, stops>>

\* The session's live runtime is found or opened, or it cannot be (the session is
\* deleted, its node removed, its model or source gone).
Obtain(r) == /\ turn = r /\ pc[r] = "opening"
             /\ \/ mode = "open" /\ Go(r, IF OpOf[r] = "compact" THEN "compact" ELSE "expand")
                \/ Answer(r, "failed")
             /\ UNCHANGED <<lane, drive, starts, phase, resume, ends, stops>>

\* Mutant: a prompt that cannot be expanded never resolves its place in the chain.
ExpandHolding(r) ==
    /\ At(r, "expand")
    /\ \E outcome \in {"watch", "failed"} : Go(r, outcome)
    /\ UNCHANGED <<lane, drive, starts, phase, resume, ends, stops>>

\* expandPrompt: attachments checked, skills listed on the node; either may fail.
Expand(r) == /\ At(r, "expand")
             /\ Go(r, "watch") \/ Answer(r, "failed")
             /\ UNCHANGED <<lane, drive, starts, phase, resume, ends, stops>>

\* Mutant: only the transcript is searched for a replayed input.
FindQueuedSkipped(r) ==
    /\ At(r, "watch")
    /\ Go(r, "entries")
    /\ UNCHANGED <<lane, drive, starts, phase, resume, ends, stops>>

\* findAdmitted reads the queue first ...
FindQueued(r) ==
    /\ At(r, "watch")
    /\ IF InputOf[r] \in queue THEN Answer(r, "ok") ELSE Go(r, "entries")
    /\ UNCHANGED <<lane, drive, starts, phase, resume, ends, stops>>

\* ... and the transcript after it.
FindEntry(r) ==
    /\ At(r, "entries")
    /\ IF InputOf[r] \notin entries THEN Go(r, IF OpOf[r] = "prompt" THEN "admit" ELSE "steer")
       ELSE IF OpOf[r] = "prompt" THEN Go(r, "replay") ELSE Answer(r, "ok")
    /\ UNCHANGED <<lane, drive, starts, phase, resume, ends, stops>>

\* A replayed prompt looks at the lane for the run an interruption left pending ...
ReplayLook(r) ==
    /\ At(r, "replay")
    /\ IF reopened = 0 THEN Answer(r, "ok") ELSE Look(r, "replaySeen")
    /\ UNCHANGED <<lane, drive, starts, phase, resume, ends, stops>>

\* ... and at what is driven when the lane has answered ...
Replay(r) ==
    /\ At(r, "replaySeen")
    /\ IF PassivelyReopened /\ reopened \notin compactions THEN Go(r, "redrive") ELSE Answer(r, "ok")
    /\ UNCHANGED <<lane, drive, starts, phase, resume, ends, stops>>

\* ... and drives it in yet another callback, unlooked at again.
Redrive(r) == /\ At(r, "redrive")
              /\ DriveUnlooked(reopened)
              /\ Answer(r, "ok")
              /\ UNCHANGED <<lane, starts, phase, resume, ends, stops>>

\* A prompt looks for an operation left pending ...
AdmitLook(r) ==
    /\ At(r, "admit")
    /\ IF reopened = 0 THEN Go(r, "accept") ELSE Look(r, "admitSeen")
    /\ UNCHANGED <<lane, drive, starts, phase, resume, ends, stops>>

\* Mutant: a prompt that finds an interrupted run is taken as its resumption.
AdmitDropped(r) ==
    /\ At(r, "admitSeen")
    /\ IF PassivelyReopened THEN Answer(r, "ok") ELSE Go(r, "accept")
    /\ UNCHANGED <<lane, drive, starts, phase, resume, ends, stops>>

\* ... and joins it as steering, else it starts a run.
Admit(r) == /\ At(r, "admitSeen")
            /\ Go(r, IF PassivelyReopened THEN "steer" ELSE "accept")
            /\ UNCHANGED <<lane, drive, starts, phase, resume, ends, stops>>

\* lane.accept commits the prompt with its run; a lane with an operation refuses.
AcceptPrompt(r) ==
    /\ At(r, "accept") /\ current = 0
    /\ NewOperation
    /\ entries' = entries \cup {InputOf[r]}
    /\ Add(InputOf[r])
    /\ accepted' = made + 1
    /\ pc' = [pc EXCEPT ![r] = "drive"]
    /\ UNCHANGED <<queue, compactions, aborting, discarded, mine, drive, starts, turn, retried, seen, phase, resume, ends, stops>>

LaneBusy(r) ==
    /\ At(r, "accept") \/ At(r, "acceptCompaction")
    /\ current # 0
    /\ Answer(r, "failed")
    /\ UNCHANGED <<lane, drive, starts, phase, resume, ends, stops>>

\* Mutant: the submission is answered and its operation left to a resume.
AcceptedUndriven(r) == /\ At(r, "drive")
                       /\ Answer(r, "ok") /\ UNCHANGED drive
                       /\ UNCHANGED <<lane, starts, phase, resume, ends, stops>>

\* The operation a submission had accepted is driven, of a prompt once the entry it
\* committed is found.
DriveAccepted(r) == /\ At(r, "drive")
                    /\ Answer(r, "ok") /\ DriveLooked(accepted)
                    /\ UNCHANGED <<lane, starts, phase, resume, ends, stops>>

\* enqueueSteering: lane.steer commits the input to the queue ...
Steer(r) ==
    /\ At(r, "steer")
    /\ queue' = queue \cup {InputOf[r]}
    /\ mine' = mine \cup {InputOf[r]}
    /\ Add(InputOf[r])
    /\ Go(r, "inspect")
    /\ UNCHANGED <<entries, current, compactions, aborting, made, discarded, drive, starts, phase, resume, ends, stops>>

\* ... then looks at the lane ...
InspectLook(r) == /\ At(r, "inspect")
                  /\ Look(r, "inspectSeen")
                  /\ UNCHANGED <<lane, drive, starts, phase, resume, ends, stops>>

\* resumeInBackground of what the look found, unless it is driven by now.
ResumeSeen(op) == IF op # 0 /\ op \notin active THEN DriveLooked(op) ELSE UNCHANGED drive

\* Mutant: behind a running operation no start is left, the run will take it.
InspectTrusting(r) ==
    /\ At(r, "inspectSeen") /\ ResumeSeen(seen)
    /\ waiting' = IF seen = 0 THEN waiting + 1 ELSE waiting
    /\ Answer(r, "ok")
    /\ UNCHANGED <<lane, trying, begun, phase, resume, ends, stops>>

\* ... resumes what nothing drives and leaves a start waiting for the lane to go idle.
Inspect(r) ==
    /\ At(r, "inspectSeen") /\ ResumeSeen(seen)
    /\ waiting' = waiting + 1
    /\ Answer(r, "ok")
    /\ UNCHANGED <<lane, trying, begun, phase, resume, ends, stops>>

\* compact() refuses a busy runtime at once.
Compact(r) == /\ At(r, "compact")
              /\ IF Busy THEN Answer(r, "failed") ELSE Go(r, "acceptCompaction")
              /\ UNCHANGED <<lane, drive, starts, phase, resume, ends, stops>>

AcceptCompaction(r) ==
    /\ At(r, "acceptCompaction") /\ current = 0
    /\ NewOperation
    /\ compactions' = compactions \cup {made + 1}
    /\ accepted' = made + 1
    /\ pc' = [pc EXCEPT ![r] = "drive"]
    /\ UNCHANGED <<queue, entries, aborting, copies, discarded, mine, drive, starts, turn, retried, seen, phase, resume, ends, stops>>

NothingToCompact(r) ==
    /\ At(r, "acceptCompaction") /\ current = 0
    /\ Answer(r, "failed")
    /\ UNCHANGED <<lane, drive, starts, phase, resume, ends, stops>>

Submission(r) ==
    \/ Take(r) \/ Obtain(r) \/ Expand(r) \/ FindQueued(r) \/ FindEntry(r)
    \/ ReplayLook(r) \/ Replay(r) \/ Redrive(r) \/ AdmitLook(r) \/ Admit(r)
    \/ AcceptPrompt(r) \/ LaneBusy(r) \/ DriveAccepted(r) \/ Steer(r) \/ InspectLook(r) \/ Inspect(r)
    \/ Compact(r) \/ AcceptCompaction(r) \/ NothingToCompact(r)
-----------------------------------------------------------------------------
\* startQueuedSteeringWhenIdle: a start wakes when the lane is idle ...
Wake == /\ Working /\ waiting > 0 /\ current = 0
        /\ waiting' = waiting - 1 /\ trying' = trying + 1
        /\ UNCHANGED <<lane, drive, begun, subs, phase, resume, ends, stops>>

\* ... has the lane accept a run from what is queued ...
StartQueued ==
    /\ Working /\ trying > 0 /\ current = 0 /\ queue # {}
    /\ NewOperation
    /\ entries' = entries \cup queue /\ queue' = {} /\ mine' = {}
    /\ begun' = begun \cup {made + 1}
    /\ trying' = trying - 1
    /\ UNCHANGED <<compactions, aborting, copies, discarded, drive, waiting, subs, phase, resume, ends, stops>>

\* ... and drives it when the lane has answered, unlooked at ...
StartDrive ==
    /\ Working
    /\ \E op \in begun : DriveUnlooked(op) /\ begun' = begun \ {op}
    /\ UNCHANGED <<lane, waiting, trying, subs, phase, resume, ends, stops>>

\* ... ends when nothing is queued (InvalidMessage) and waits again on LaneBusy. A lane
\* that refuses for another reason is a faulted or a closed one (Fault, CloseHarness).
NothingQueued ==
    /\ Working /\ trying > 0 /\ current = 0 /\ queue = {}
    /\ trying' = trying - 1
    /\ UNCHANGED <<lane, drive, waiting, begun, subs, phase, resume, ends, stops>>

\* Mutant: a start that lost the lane to another operation gives up.
StartBusyGivesUp ==
    /\ Working /\ trying > 0 /\ current # 0
    /\ trying' = trying - 1
    /\ UNCHANGED <<lane, drive, waiting, begun, subs, phase, resume, ends, stops>>

StartBusy ==
    /\ Working /\ trying > 0 /\ current # 0
    /\ trying' = trying - 1 /\ waiting' = waiting + 1
    /\ UNCHANGED <<lane, drive, begun, subs, phase, resume, ends, stops>>

QueuedStart == Wake \/ StartQueued \/ StartDrive \/ NothingQueued \/ StartBusy

\* resumePendingOperation, from the Resume button or recovery: an admission
\* from its first line ...
Resume == /\ mode = "open" /\ ~resuming /\ current # 0
          /\ resuming' = TRUE /\ resumeSeen' = 0
          /\ UNCHANGED <<lane, drive, starts, subs, phase, ends, stops>>

\* ... it looks at the lane ...
ResumeLook ==
    /\ Working /\ resuming /\ resumeSeen = 0
    /\ resumeSeen' = current /\ resuming' = (current # 0)
    /\ UNCHANGED <<lane, drive, starts, subs, phase, ends, stops>>

\* Mutant: an operation that an input joined first is driven again.
ResumeUnchecked ==
    /\ Working /\ resuming /\ resumeSeen # 0
    /\ IF resumeSeen = reopened THEN DriveLooked(resumeSeen) ELSE UNCHANGED drive
    /\ resuming' = FALSE /\ resumeSeen' = 0
    /\ UNCHANGED <<lane, starts, subs, phase, ends, stops>>

\* ... and drives what it saw, if that was pending when the runtime opened and nothing
\* drives it by now.
ResumeInspect ==
    /\ Working /\ resuming /\ resumeSeen # 0
    /\ IF resumeSeen = reopened THEN ResumeSeen(resumeSeen) ELSE UNCHANGED drive
    /\ resuming' = FALSE /\ resumeSeen' = 0
    /\ UNCHANGED <<lane, starts, subs, phase, ends, stops>>

\* abort() acts only on an operation this runtime drives. When the one it saw in
\* progress is over by the time it acts, Pi refuses it and nothing changes.
RequestAbort ==
    /\ mode = "open" /\ current \in active /\ ~aborting
    /\ stops < MaxStops /\ stops' = stops + 1
    /\ aborting' = TRUE
    /\ UNCHANGED <<queue, entries, current, compactions, made, copies, discarded, mine, drive, starts, subs, phase, resume, ends>>
-----------------------------------------------------------------------------
\* Pi drives the current operation: a run takes the queued inputs at a turn.
Driven == Working /\ current # 0 /\ driving = current

TakeSteering ==
    /\ Driven /\ current \notin compactions /\ queue # {}
    /\ entries' = entries \cup queue /\ queue' = {} /\ mine' = {}
    /\ UNCHANGED <<current, compactions, aborting, made, copies, discarded, drive, starts, subs, phase, resume, ends, stops>>

\* The terminal commit. An aborted operation's queued inputs are discarded; one
\* that ends otherwise can leave inputs queued (queued behind its last turn).
\* A run's end is handed to the lifecycle sink, and a close() that aborted the
\* operation has its idle lane.
End ==
    /\ Driven
    /\ current' = 0 /\ aborting' = FALSE /\ driving' = 0
    /\ IF aborting
       THEN /\ queue' = {} /\ mine' = {}
            /\ discarded' = discarded \cup queue
            /\ copies' = [i \in Inputs |-> IF i \in queue THEN copies[i] - 1 ELSE copies[i]]
       ELSE UNCHANGED <<queue, mine, discarded, copies>>
    /\ ends' = IF current \in compactions THEN ends ELSE ends + 1
    /\ mode' = CASE mode = "closeIdle" -> "closeStarts"
                 [] mode = "closeIdleAgain" -> "closeHarness"
                 [] OTHER -> mode
    /\ UNCHANGED <<entries, compactions, made, active, overtaken, starts, subs, reopened, closeSeen, resume, stops>>

\* The drive's promise settles: the operation leaves activeOperations.
DriveSettled ==
    /\ Working
    /\ \E op \in active : op # current /\ active' = active \ {op}
    /\ UNCHANGED <<driving, overtaken, lane, starts, subs, phase, resume, ends, stops>>

\* Mutant: one application settles its run's end twice.
ApplyEndTwice == /\ mode # "down" /\ ends > 0
                 /\ ends' \in {ends - 1, ends - 2}
                 /\ UNCHANGED <<lane, drive, starts, subs, phase, resume, stops>>

\* Mutant: the sink is disposed of with the harness, before it is flushed.
ApplyEndWhileOpen == /\ mode # "down" /\ mode # "closeFlush" /\ ends > 0
                     /\ ends' = ends - 1
                     /\ UNCHANGED <<lane, drive, starts, subs, phase, resume, stops>>

\* The lifecycle sink has applied a run's end.
ApplyEnd == /\ mode # "down" /\ ends > 0
            /\ ends' = ends - 1
            /\ UNCHANGED <<lane, drive, starts, subs, phase, resume, stops>>
-----------------------------------------------------------------------------
\* The runtime opens from storage, on demand (a submission or a resume).
Open == /\ mode \in {"down", "faulted"}
        /\ mode' = "open" /\ reopened' = current
        /\ UNCHANGED <<lane, drive, starts, subs, closeSeen, resume, ends, stops>>

\* What the runtime keeps in memory goes.
Forget == /\ active' = {} /\ driving' = 0 /\ overtaken' = {} /\ mine' = {}
          /\ waiting' = 0 /\ trying' = 0 /\ begun' = {}
          /\ resuming' = FALSE /\ resumeSeen' = 0 /\ closeSeen' = 0 /\ reopened' = 0
          /\ UNCHANGED <<queue, entries, current, compactions, aborting, made, copies, discarded>>

Stop == stops < MaxStops /\ stops' = stops + 1

\* The process exits: every call in progress is cut off and answers nobody.
Crash ==
    /\ mode # "down" /\ Stop
    /\ mode' = "down" /\ ends' = 0 /\ Forget
    /\ pc' = [r \in Requests |-> IF pc[r] = "new" THEN "new" ELSE IF pc[r] \in Over THEN pc[r] ELSE "lost"]
    /\ turn' = None /\ accepted' = 0 /\ seen' = 0 /\ retried' = {}

\* A storage call fails and Pi faults its harness: what uses the runtime fails.
\* The request in turn runs once more on a reopened one (withSessionRuntime), if
\* this was its first time and nobody else replaced the faulted runtime before.
Fault ==
    /\ mode = "open" /\ Stop
    /\ mode' = "faulted" /\ Forget
    /\ IF turn = None \/ (turn # None /\ pc[turn] = "opening") THEN UNCHANGED subs
       ELSE \/ Answer(turn, "failed")
            \/ /\ turn \notin retried /\ retried' = retried \cup {turn}
               /\ pc' = [pc EXCEPT ![turn] = "opening"]
               /\ accepted' = 0 /\ seen' = 0 /\ UNCHANGED turn
    /\ UNCHANGED ends

\* close(), for the idle sweep, a new app, a move, a deletion, a removed node:
\* it waits for admissions, aborts, waits for the queued-steering starts,
\* aborts again and closes the harness. A request may still hold the runtime.
Close ==
    /\ mode = "open" /\ Stop
    /\ mode' = "closeAdmissions"
    /\ UNCHANGED <<lane, drive, starts, subs, reopened, closeSeen, resume, ends>>

CloseStep(from, to) ==
    /\ mode = from /\ mode' = to
    /\ UNCHANGED <<queue, entries, current, compactions, made, copies, discarded, mine, drive, starts,
                   subs, reopened, resume, ends, stops>>

\* Its abort() looks at the lane ...
CloseLook(from, to) == CloseStep(from, to) /\ closeSeen' = current /\ UNCHANGED aborting

\* ... and aborts the operation it saw if that is driven. When it is over by then, Pi
\* refuses, and close() is left with closing the harness.
CloseAbort(from, idle, next) ==
    /\ closeSeen' = 0
    /\ \/ closeSeen \notin active /\ UNCHANGED aborting /\ CloseStep(from, next)
       \/ closeSeen \in active /\ closeSeen = current /\ aborting' = TRUE /\ CloseStep(from, idle)
       \/ closeSeen \in active /\ closeSeen # current /\ UNCHANGED aborting /\ CloseStep(from, "closeHarness")

CloseHarness ==
    /\ mode = "closeHarness"
    /\ mode' = "closeFlush" /\ Forget
    /\ IF turn = None \/ (turn # None /\ pc[turn] = "opening") THEN UNCHANGED subs ELSE Answer(turn, "failed")
    /\ UNCHANGED <<ends, stops>>

Closing ==
    \/ ~Admitting /\ CloseLook("closeAdmissions", "closeAbort")
    \/ CloseAbort("closeAbort", "closeIdle", "closeStarts")
    \/ ~Starting /\ CloseLook("closeStarts", "closeAbortAgain")
    \/ CloseAbort("closeAbortAgain", "closeIdleAgain", "closeHarness")
    \/ CloseHarness
    \/ ends = 0 /\ UNCHANGED <<aborting, closeSeen>> /\ CloseStep("closeFlush", "down")

Next ==
    \/ \E r \in Requests : Submit(r) \/ Submission(r)
    \/ QueuedStart \/ Resume \/ ResumeLook \/ ResumeInspect \/ RequestAbort
    \/ TakeSteering \/ End \/ DriveSettled \/ ApplyEnd
    \/ Open \/ Crash \/ Fault \/ Close \/ Closing

\* Promises settle, an aborted operation and a compaction end, a driven run with
\* queued input reaches its next turn or its end, and a session with a submission
\* in its turn is opened. A run need not end; submissions, resumes, aborts and
\* stops need not come.
Fairness ==
    /\ \A r \in Requests : WF_vars(Submission(r))
    /\ WF_vars(QueuedStart) /\ WF_vars(StartDrive) /\ WF_vars(ResumeLook \/ ResumeInspect)
    /\ WF_vars(TakeSteering \/ (queue # {} /\ End))
    /\ WF_vars((aborting \/ current \in compactions) /\ End)
    /\ WF_vars(DriveSettled) /\ WF_vars(ApplyEnd)
    /\ WF_vars(turn # None /\ Open) /\ WF_vars(Closing)

Spec == Init /\ [][Next]_vars

FairSpec == Spec /\ Fairness

-----------------------------------------------------------------------------
\* An input is admitted at most once, however often it is submitted, as a prompt
\* or as a steer, across crashes, faults and reopened runtimes (findAdmitted).
AdmittedOnce == \A i \in Inputs : copies[i] <= 1

\* An input whose submission was acknowledged stays in the lane: only an abort
\* discards it, and only while it is queued.
AcknowledgedKept ==
    \A r \in Requests : pc[r] = "ok" /\ OpOf[r] # "compact" =>
        InputOf[r] \in queue \cup entries \cup discarded

\* A run that Pi drives for this runtime is in activeOperations, so that it reads as busy
\* and an abort finds it: the second drive of one takes its entry away, and only a drive
\* that looks at nothing can be the second (a replay's, a queued-steering start's).
DrivesKnown == Driven => current \in active \cup overtaken

\* No operation is driven that is being driven: the code can do it (README).
DrivenOnce == overtaken = {}

\* A run this runtime accepted or was told to resume is never left undriven: the
\* current operation is driven, about to be, or was pending when it opened.
NoRunForgotten ==
    mode = "open" /\ current # 0 =>
        \/ Driven \/ current = reopened \/ current \in begun
        \/ \E r \in Requests : turn = r /\ pc[r] = "drive" /\ accepted = current

\* Steering is never stranded while its runtime is open: what it queued will be
\* taken by a driven run, or by a start that waits for the lane to go idle.
QueuedHasTaker ==
    mode = "open" /\ mine # {} =>
        \/ waiting + trying > 0
        \/ \E r \in Requests : turn = r /\ pc[r] \in {"inspect", "inspectSeen"}

\* What an open runtime queued leaves the queue eventually: taken by a run,
\* discarded by an abort, or left to the next runtime by a stop.
SteeringTaken == \A i \in Inputs : i \in mine ~> i \notin mine

\* A submission is answered eventually, and so never blocks the ones behind it.
SubmissionsAnswered == \A r \in Requests : pc[r] = "queued" ~> pc[r] \in Over

\* A close comes to its end: not so while a run it does not abort goes on (README).
CloseEnds == mode = "closeAdmissions" ~> mode = "down"

\* It does, where every run ends by itself: no start it waits for waits on it.
CloseEndsWithRuns == WF_vars(End) => CloseEnds
=============================================================================
