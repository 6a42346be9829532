---------------------------- MODULE RunSettlement ----------------------------
(***************************************************************************)
(* How the end of a session's run becomes known: Pi's own record of it, the *)
(* settlement its runtime applies to the session's row, a child's report to *)
(* its parent, and what recovery does at process start about a run that was *)
(* cut off. The row, Pi's storage and the parent's lane are durable; the    *)
(* process, its runtimes and what they are applying are not.                *)
(***************************************************************************)
EXTENDS Naturals, Sequences

CONSTANTS MaxRuns,         \* bound: operations (runs, compactions) the session is ever given
          MaxRuntimes,     \* bound: runtimes opened in one process
          MaxStops,        \* bound: crashes and storage faults
          ResumeLimit      \* AUTO_RESUME_LIMIT

ASSUME SettlementAssumption ==
    MaxRuns \in Nat /\ MaxRuntimes \in Nat /\ MaxStops \in Nat /\ ResumeLimit \in Nat

Runs == 1..MaxRuns

\* A run's end: Pi's operation and who ended it. A child's report is keyed by it.
Ends == Runs \X {"pi", "reins"}

\* Nothing recorded yet.
NoEnd == <<0, "pi">>

\* Who applies settlements: recovery (0), and each runtime opened.
Appliers == 0..MaxRuntimes

VARIABLES
    \* Durable.
    child,      \* the session has a parent
    made,       \* operations accepted so far, numbered from 1
    compactions, \* those that are manual compactions; the others are runs
    current,    \* the operation Pi has in progress, 0 for none
    result,     \* the newest run Pi recorded the end of, 0 for none
    record,     \* the last run end Reins applied (settlement_json)
    unread,     \* the row's activity state is `finished`
    resumes,    \* automatic resumes spent within the window
    told,       \* how many copies of each report the parent's lane holds
    \* Volatile.
    up,         \* the process runs
    live,       \* the session's live runtime: none, open or faulted
    runtime,    \* runtimes opened so far: the latest is the live one
    driving,    \* the operation it drives, 0 for none
    openRun,    \* what its lifecycle sink keeps as the run in progress, 0 for none
    submitting, \* a submission is in the session's chain
    resuming,   \* the operation recovery is resuming, 0 for none
    reports,    \* a child's ends each applier has yet to apply, in order
    step,       \* where the application of its first is
    chain,      \* the parent's submission chain: appliers waiting to report
    \* Bound and ghost.
    stops,      \* crashes and faults so far
    cut,        \* the operation driven as the process went, until it is driven again or settled
    skipped     \* this process' recovery passed over it for a submission that waited

pi == <<made, compactions, current, result>>
row == <<record, unread>>
runs == <<live, runtime, driving, openRun, submitting>>
applying == <<reports, step, chain>>
vars == <<child, pi, row, resumes, told, up, runs, resuming, applying, stops, cut, skipped>>

TypeOK ==
    /\ child \in BOOLEAN /\ made \in 0..MaxRuns /\ compactions \subseteq 1..made
    /\ current \in 0..made /\ result \in 0..made
    /\ record \in Ends \cup {NoEnd} /\ unread \in BOOLEAN /\ resumes \in 0..ResumeLimit
    /\ told \in [Ends -> Nat]
    /\ up \in BOOLEAN /\ live \in {"none", "open", "faulted"}
    /\ runtime \in Appliers /\ driving \in 0..made /\ openRun \in 0..made
    /\ submitting \in BOOLEAN /\ resuming \in 0..made
    /\ reports \in [Appliers -> Seq(Ends)]
    /\ step \in [Appliers -> {"idle", "queued", "reported", "unheard"}]
    /\ chain \in Seq(Appliers)
    /\ stops \in Nat /\ cut \in 0..made /\ skipped \in BOOLEAN

Init ==
    /\ child \in BOOLEAN /\ made = 0 /\ compactions = {} /\ current = 0 /\ result = 0
    /\ record = NoEnd /\ unread = FALSE /\ resumes = 0 /\ told = [e \in Ends |-> 0]
    /\ up = TRUE /\ live = "none" /\ runtime = 0 /\ driving = 0 /\ openRun = 0
    /\ submitting = FALSE /\ resuming = 0
    /\ reports = [a \in Appliers |-> <<>>] /\ step = [a \in Appliers |-> "idle"] /\ chain = <<>>
    /\ stops = 0 /\ cut = 0 /\ skipped = FALSE
-----------------------------------------------------------------------------
\* The live runtime is applying an end it counts as its own work: Pi's `run_end` is
\* (trackEnd), the settlement of a storage fault is not.
EndTracked == \E i \in DOMAIN reports[runtime] : reports[runtime][i][2] = "pi"

\* sessionBusy, but for a runtime being opened to resume what Pi has in progress.
Busy == submitting \/ (live # "none" /\ (driving # 0 \/ EndTracked))

\* Reins gave the run up: recovery leaves it alone.
GivenUp(op) == record = <<op, "reins">>

\* The row records the end last applied.
Settle(end, unheard) ==
    /\ record' = end /\ unread' = unheard
    /\ cut' = IF cut = end[1] THEN 0 ELSE cut

\* The lifecycle sink takes an end: a session without a parent is settled at once, a
\* child's enters its parent's chain once the ends before it are applied.
Report(a, end) ==
    IF child
    THEN /\ reports' = [reports EXCEPT ![a] = Append(@, end)]
         /\ IF step[a] = "idle"
            THEN step' = [step EXCEPT ![a] = "queued"] /\ chain' = Append(chain, a)
            ELSE UNCHANGED <<step, chain>>
         /\ UNCHANGED <<row, cut>>
    ELSE Settle(end, TRUE) /\ UNCHANGED applying

\* The run has a driver, or needs none.
Seen(op) == cut' = IF cut = op THEN 0 ELSE cut

\* A prompt, a steer or a compaction enters the session's submission chain.
Submit ==
    /\ up /\ ~submitting /\ submitting' = TRUE
    /\ UNCHANGED <<child, pi, row, resumes, told, up, live, runtime, driving, openRun, resuming,
                   applying, stops, cut, skipped>>

\* openSessionRuntime. A faulted one is closed first, which waits for what it is
\* applying; one the sweep closed is not waited for.
OpenRuntime ==
    /\ up /\ runtime < MaxRuntimes
    /\ live = "none" \/ (live = "faulted" /\ reports[runtime] = <<>>)
    /\ live' = "open" /\ runtime' = runtime + 1 /\ openRun' = 0
    /\ UNCHANGED <<child, pi, row, resumes, told, up, driving, submitting, resuming, applying,
                   stops, cut, skipped>>

\* The idle lane takes a new operation, which is driven and kept as the run in progress
\* (run_start, compaction_start).
StartOperation ==
    /\ up /\ live = "open" /\ submitting /\ driving = 0 /\ current = 0 /\ made < MaxRuns
    /\ made' = made + 1 /\ current' = made + 1 /\ driving' = made + 1 /\ openRun' = made + 1
    /\ submitting' = FALSE
    /\ UNCHANGED <<child, result, row, resumes, told, up, live, runtime, resuming, applying,
                   stops, cut, skipped>>

\* A prompt starts a run, a compaction is one itself.
StartRun == StartOperation /\ UNCHANGED compactions

StartCompaction == StartOperation /\ compactions' = compactions \cup {made + 1}

\* Driving what an interruption left pending, it is kept as the run in progress.
DriveAgain == driving' = current /\ openRun' = current /\ Seen(current)

\* An operation left pending is driven again: joined by a prompt, or resumed by hand.
Drive ==
    /\ up /\ live = "open" /\ driving = 0 /\ current # 0
    /\ DriveAgain
    /\ submitting' \in {submitting, FALSE}
    /\ UNCHANGED <<child, pi, row, resumes, told, up, live, runtime, resuming, applying, stops, skipped>>

\* A submission that starts no run: it is queued for the run in progress, or replayed.
\* Or it fails before anything is admitted.
SubmissionDone ==
    /\ up /\ submitting /\ submitting' = FALSE
    /\ UNCHANGED <<child, pi, row, resumes, told, up, live, runtime, driving, openRun, resuming,
                   applying, stops, cut, skipped>>

\* Pi commits the run's end and announces it.
RunEnd ==
    /\ up /\ driving # 0 /\ driving \notin compactions
    /\ current' = 0 /\ result' = driving /\ driving' = 0 /\ openRun' = 0
    /\ Report(runtime, <<driving, "pi">>)
    /\ UNCHANGED <<child, made, compactions, resumes, told, up, live, runtime, submitting, resuming,
                   stops, skipped>>

\* A compaction ends without a `run_end`: the sink is told nothing.
CompactionEnd ==
    /\ up /\ driving \in compactions
    /\ current' = 0 /\ driving' = 0
    /\ UNCHANGED <<child, made, compactions, result, row, resumes, told, up, live, runtime, openRun,
                   submitting, resuming, applying, stops, cut, skipped>>

\* A storage call fails: Pi's harness is faulted and never ends its operation, which
\* stays pending; the runtime settles the run it keeps as in progress. Bounded: a
\* runtime is left to reopen it with.
StorageFailed ==
    /\ up /\ live = "open" /\ runtime < MaxRuntimes /\ stops < MaxStops /\ stops' = stops + 1
    /\ live' = "faulted" /\ driving' = 0
    /\ IF openRun = 0 THEN UNCHANGED <<row, applying, cut>> ELSE Report(runtime, <<openRun, "reins">>)
    /\ UNCHANGED <<child, pi, resumes, told, up, runtime, openRun, submitting, resuming, skipped>>

\* The sweep or a new app closes a runtime that does not stream, whatever it is still
\* applying. Bounded as a fault is.
CloseRuntime ==
    /\ up /\ live = "open" /\ driving = 0 /\ runtime < MaxRuntimes
    /\ live' = "none"
    /\ UNCHANGED <<child, pi, row, resumes, told, up, runtime, driving, openRun, submitting, resuming,
                   applying, stops, cut, skipped>>
-----------------------------------------------------------------------------
\* No applier is between its report and the settlement, which follows the report
\* before the chain's next call does anything.
NoneSettling == \A a \in Appliers : step[a] \in {"idle", "queued"}

\* The parent's lane takes the report, unless it has one under this key; or the parent
\* cannot receive it.
Receive(a) ==
    \/ /\ told' = [told EXCEPT ![Head(reports[a])] = IF @ = 0 THEN 1 ELSE @]
       /\ step' = [step EXCEPT ![a] = "reported"]
    \/ UNCHANGED told /\ step' = [step EXCEPT ![a] = "unheard"]

\* Mutant: a report is steered under a new key each time.
TellAgain(a) ==
    /\ up /\ chain # <<>> /\ Head(chain) = a /\ NoneSettling
    /\ chain' = Tail(chain)
    /\ told' = [told EXCEPT ![Head(reports[a])] = @ + 1]
    /\ step' = [step EXCEPT ![a] = "reported"]
    /\ UNCHANGED <<child, pi, row, resumes, up, runs, resuming, reports, stops, cut, skipped>>

\* reportToParent, in its turn in the parent's chain.
Tell(a) ==
    /\ up /\ chain # <<>> /\ Head(chain) = a /\ NoneSettling
    /\ chain' = Tail(chain)
    /\ Receive(a)
    /\ UNCHANGED <<child, pi, row, resumes, up, runs, resuming, reports, stops, cut, skipped>>

\* The applier is done with its first end, and enters the chain with the next.
ApplyNext(a) ==
    /\ reports' = [reports EXCEPT ![a] = Tail(@)]
    /\ IF Len(reports[a]) > 1
       THEN step' = [step EXCEPT ![a] = "queued"] /\ chain' = Append(chain, a)
       ELSE step' = [step EXCEPT ![a] = "idle"] /\ UNCHANGED chain

\* runSettled: the settlement, in a later transaction than the report's.
Record(a) ==
    /\ up /\ step[a] \in {"reported", "unheard"}
    /\ Settle(Head(reports[a]), step[a] = "unheard") /\ ApplyNext(a)
    /\ UNCHANGED <<child, pi, resumes, told, up, runs, resuming, stops, skipped>>
-----------------------------------------------------------------------------
\* The process exits, and everything in it is gone.
Exit ==
    /\ up /\ stops < MaxStops /\ stops' = stops + 1
    /\ up' = FALSE /\ live' = "none" /\ runtime' = 0 /\ driving' = 0 /\ openRun' = 0
    /\ submitting' = FALSE /\ resuming' = 0
    /\ reports' = [a \in Appliers |-> <<>>] /\ step' = [a \in Appliers |-> "idle"] /\ chain' = <<>>
    /\ skipped' = FALSE
    /\ UNCHANGED <<child, row, resumes, told>>

\* It exits whatever it was doing.
Crash ==
    /\ Exit /\ cut' = IF driving # 0 THEN driving ELSE cut
    /\ UNCHANGED pi

\* It exits as Pi has committed the run's end and before the sink has it: nobody ever
\* settles that end.
EndUnsettled ==
    /\ driving # 0 /\ driving \notin compactions /\ current' = 0 /\ result' = driving
    /\ Exit
    /\ UNCHANGED <<made, compactions, cut>>

\* pendingRuns: the operation Pi has in progress, unless Reins gave it up.
Interrupted == current # 0 /\ ~GivenUp(current)

\* Mutant: the limit is compared after this resume is counted.
TakeOneMore == resumes <= ResumeLimit /\ resumes' = resumes + 1 /\ resuming' = current

\* takeAutoResume: one of the session's automatic resumes is spent.
TakeAutoResume == resumes < ResumeLimit /\ resumes' = resumes + 1 /\ resuming' = current

\* recoverInterruptedRuns: an interrupted operation is resumed, or given up when its resumes
\* are spent: settled as interrupted.
Start ==
    /\ ~up /\ up' = TRUE
    /\ \/ ~Interrupted /\ UNCHANGED <<row, resumes, resuming, applying, cut>>
       \/ Interrupted /\ TakeAutoResume /\ UNCHANGED <<row, applying, cut>>
       \/ /\ Interrupted /\ resumes = ResumeLimit
          /\ Report(0, <<current, "reins">>) /\ UNCHANGED <<resumes, resuming>>
    /\ UNCHANGED <<child, pi, told, runs, stops, skipped>>

\* Ten minutes later a resume spent no longer counts.
WindowPasses ==
    /\ resumes > 0 /\ resumes' = resumes - 1
    /\ UNCHANGED <<child, pi, row, told, up, runs, resuming, applying, stops, cut, skipped>>

\* The resume drives the operation, unless it is driven already or there is none.
Resume ==
    /\ up /\ resuming # 0 /\ live = "open" /\ resuming' = 0
    /\ IF current \in {0, driving} THEN UNCHANGED <<driving, openRun, cut>> ELSE DriveAgain
    /\ UNCHANGED <<child, pi, row, resumes, told, up, live, runtime, submitting, applying, stops, skipped>>

\* Mutant: given up without another look at the run.
ResumeFailedUnchecked ==
    /\ up /\ resuming # 0 /\ resuming' = 0
    /\ Report(0, <<resuming, "reins">>)
    /\ UNCHANGED <<child, pi, resumes, told, up, runs, stops, skipped>>

\* Mutant: a resume that fails is left at that.
ResumeForgotten ==
    /\ up /\ resuming # 0 /\ resuming' = 0
    /\ UNCHANGED <<child, pi, row, resumes, told, up, runs, applying, stops, cut, skipped>>

\* The runtime cannot be opened: the run is given up, unless it ended or the session is
\* busy, by a submission that only waits for the opening too.
ResumeFailed ==
    /\ up /\ resuming # 0 /\ resuming' = 0
    /\ skipped' = (current = resuming /\ submitting /\ driving = 0)
    /\ IF current = resuming /\ ~Busy THEN Report(0, <<resuming, "reins">>)
       ELSE UNCHANGED <<row, applying, cut>>
    /\ UNCHANGED <<child, pi, resumes, told, up, runs, stops>>

Next ==
    \/ Submit \/ OpenRuntime \/ StartRun \/ StartCompaction \/ Drive \/ SubmissionDone
    \/ RunEnd \/ CompactionEnd \/ StorageFailed \/ CloseRuntime
    \/ \E a \in Appliers : Tell(a) \/ Record(a)
    \/ Crash \/ EndUnsettled \/ Start \/ Resume \/ ResumeFailed \/ WindowPasses

\* The parent's chain moves and settlements are applied, submissions are done, and the
\* process is started again and recovers. Operations need not end.
Fairness ==
    /\ \A a \in Appliers : WF_vars(Tell(a)) /\ WF_vars(Record(a))
    /\ WF_vars((submitting \/ resuming # 0) /\ OpenRuntime)
    /\ WF_vars(StartRun \/ StartCompaction \/ SubmissionDone \/ (Drive /\ submitting /\ ~submitting'))
    /\ WF_vars(Start) /\ WF_vars(Resume \/ ResumeFailed)

Spec == Init /\ [][Next]_vars

FairSpec == Spec /\ Fairness
-----------------------------------------------------------------------------
\* Mutant: only the settlement says how the last run ended.
LastRunEndApplied == record

\* lastRunOutcome: how a wait says the last run ended.
LastRunEnd ==
    IF result = 0 \/ (record[1] # 0 /\ record[1] \in {result, current}) THEN record
    ELSE <<result, "pi">>

\* A wait finds the session at rest.
AtRest == up /\ ~Busy /\ resuming = 0

\* A run's end is reported once and heard of. However often an exit between the report
\* and the settlement has it reported again, the parent's lane holds one report of it:
\* each is submitted under the same key, which the lane takes once (that it does is
\* SessionRuntime's AdmittedOnce). And the end a session is settled with last was heard
\* of: its parent has the report, or the session is unread.
EndHeard ==
    /\ \A e \in Ends : told[e] <= 1
    /\ record # NoEnd => unread \/ (child /\ told[record] = 1)

\* Pi's end of a run is never replaced by Reins' end of it, by a recovery that looked
\* at the run before it ended.
PiEndKept == [][record[2] = "pi" => record' # <<record[1], "reins">>]_vars

\* Settlements are applied in the order the runs ended: never back to an earlier run. The
\* code does not keep this across two runtimes of a session (README).
SettledInOrder == [][record'[1] >= record[1]]_vars

\* Reins' own end of an operation (a give-up, a storage fault) is applied to one that Pi
\* still has in progress: of a session without a parent, which is settled at once.
ReinsEndsPending ==
    [][~child /\ record' # record => record'[2] = "pi" \/ record'[1] = current]_vars

\* A wait that finds the session at rest answers with Pi's end of the newest run that
\* ended, or with Reins' end of a later one, whatever settlements an exit cut off.
WaitTruth == AtRest /\ result # 0 => LastRunEnd = <<result, "pi">> \/ LastRunEnd[1] > result

\* The code keeps this but for a run Reins had given up before Pi ended it (README).
WaitTruthUnlessGivenUp == GivenUp(result) \/ WaitTruth

\* An operation an exit cut off is driven again or given up, through however many
\* processes, unless this process' recovery passed over it for a submission: recovery takes
\* one that waits in the chain for one that takes the run up (session-runs.ts, giveUp), and
\* nothing looks at the run again in this process if that submission fails.
RunsRecovered == cut # 0 /\ ~GivenUp(cut) ~> cut = 0 \/ GivenUp(cut) \/ skipped

\* The code can break this (README): recovery resolves once every run is resumed or given
\* up (session-runs.ts), also one it passed over for a submission.
AllRunsRecovered == cut # 0 /\ ~GivenUp(cut) ~> cut = 0 \/ GivenUp(cut)
=============================================================================
