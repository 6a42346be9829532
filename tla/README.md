# A TLA+ model of Reins' session runtimes and nodes

Reins runs coding-agent sessions on a server. A session is a row, a Pi lane in
SQLite (its transcript and the operation in progress) and, while it is used, a live
runtime in the server process that admits input, drives the lane's operations and
applies the end of each run. The tools of a session work on a node, another process
that dials the server. What is hard in this program is in the seams: awaits between
a look and the act it was for, several drivers of one lane, processes that exit
between two commits, runtimes replaced under the submissions that use them, links
that drop with requests on them. The
modules here are about those seams. All paths below are relative to
`src/packages/backend/src/` unless they start with a package's name or `docs/`.

Contents: the inventory of the system, the plan, then for what is built: how each
module corresponds to the code, what each run checks, its bounds and fairness, what
the runs that expect a violation show, what is proved, and what is left out.

## Inventory

| Component | State | Operations | Talks to | Hard | Correct when |
|---|---|---|---|---|---|
| **Keyed promise chains**: `inSessionOrder` (`models/sessions.ts`), `oneAtATime` (`session-runtime/environment.ts`), `createCredentialLocks` (`process-state.ts`) | a map from key to the last call's settled promise | enter (synchronous), start, settle, clean the map in a later microtask | every submission, every run's preparation, credential refreshes | entering while the last call is settled and not yet cleaned | calls of a key run one at a time, in order; the map neither loses nor leaks a tail |
| **Session runtime**: `AgentHarnessPiRuntime` (`session-runtime/pi-runtime.ts`) | `activeOperations`, `pendingAdmissions`, `pendingIdleStarts`, `pendingEnds`, what was pending when it opened; the lane behind it | prompt, steer, compact, resume, abort, close, suspend; background: drives, queued-steering starts, run ends | submissions through the chain; Pi's harness and lane; the lifecycle sink | resumes and aborts are outside the chain; every step is an await; faults and closes under a submission; replays | input is admitted once and kept, each operation has exactly one driver or can be found again, queued input is taken, submissions are answered |
| **Live sessions**: `openSessionRuntime`, `withSessionRuntime`, `closeSessionRuntime(s)` (`session-runtime/live.ts`), `createOpenSessions` (`process-state.ts`) | maps `live`, `opening`, `submissions`, entries' `retired`, `faulted`, `lastActivity` | open or share an opening, retry once after a fault, retire, sweep, close for a move, a deletion or a removed node | all of the above; projects, tasks and nodes close runtimes | a closing runtime next to a new one; an opening shared with a stale binding; snapshots of `live` that miss openings | one usable runtime a session, where it is and of current code; deletion and a removed node leave none |
| **Pause points and shutdown**: `PauseGate`, `suspendSessions` (`process-state.ts`), hooks and `isPaused` (`pi-runtime.ts`), `prepareCheckout` (`environment.ts`) | the gate, holds per run, tools in flight, a preparation per run, a line per checkout | hold, release, prepare, wait for the node, stop, abort, close, suspend | Pi's hooks and its question for the system prompt; `NodeDirClient` | parallel tool calls; a node that is offline; aborts and closes at any step; a shutdown at any moment | a paused runtime loses nothing when cut off; prompts are prepared before they are sent; pauses and aborts come to an end |
| **Run settlement and recovery**: `lifecycleReports` (`session-runtime/build.ts`), `runSettled`, `recoverInterruptedRuns`, `waitForSettlement` (`sessions/session-runs.ts`) | `settlement_json`, activity, `auto_resumes`; the reports each runtime has still to apply | settle, report to the parent, give up, resume, wait | the parent's submission chain; Pi's stored results | the report and the settlement are two commits; exits anywhere; two runtimes' reports | an end is reported once and heard of, Pi's end stands, waits tell the truth, an interrupted run is driven or given up |
| **Node link**: `node/src/node-connection.ts`, `nodes/node-hub.ts`, `nodes/server-peer.ts` | node: timer, socket, attempt; server: one link per node | dial, hello, refuse, update, stop, replace a link | RPC peer, updates (bundles) | update, stop and redial race on one timer; a new link replaces one whose close is late | the node has one attempt under way, the hub one link, and none of a removed node; a node not stopped is linked again |
| **RPC peer**: `node-protocol/src/rpc.ts` | pending and expired ids, calls inbound, heartbeats missed | call, time out, abort, reply, notify, fail | both ends of a link | late replies, the cap on expired ids, a send that throws | each call settles, truly for what ran remotely; no healthy link is closed |
| **Shell commands**: `node/src/pi-exec.ts`, `runExec` (`nodes/node-dir-client.ts`) | per command: output tail, one consumer, grace timer; per call: offset taken | start, attach, kill, abort, detach | streams over a link | unknown outcomes, links dropped midway, grace against attach, tail dropped | no output twice or lost unannounced; the exit is read; unattended commands die |
| **Streams**: `nodes/node-streams.ts`, `node/src/node-connection/streams.ts` | a bounded buffer per stream | open, chunk, end, cancel | RPC notifications | ends and cancels crossing | content in order, an end exactly once |
| **Server process**: `server-process.ts`, `supervisor.ts`, `server.ts` | the app in use, child processes | load, stop the previous app, start, restart | everything above | a reload's gap, restarts during it | one app at a time, runtimes outlive it |
| **Projects, tasks, sources**: `models/` | rows | create, move, delete, merge | live sessions | a session's move against its runtime | rows and runtimes agree |
| **Automations, MCP connections**: `extensions/` | schedules and runs; connections and tokens | start when due, catch up; connect, refresh | sessions; external servers | restarts between due and started | no run twice, none forgotten |
| **Frontend stores**: `frontend/src/models/stores/` | pages and numbered events per session | fetch, apply, reconnect | HTTP and the WebSocket | events racing a fetched page; numbers restarting with the server | the view converges on the session |
| Data and I/O: Pi storage, messages, attachments, git, files, routes, SDK, migrations, settings, installer, CLI, telemetry | rows, files | reads and single transactions | | little of its own | tests reach it |

`PROJECT.json` has the same list with its files and, under `hazards`, each place in
the code where these behaviours bite.

## Plan

Built so far, in this order: `KeyedChain`, `SessionRuntime`, `PausePoints`,
`RunSettlement`; then `LiveSessions`, `ExecStream` with
its abstract specification `Command`, `RpcPeer`, `NodeLink`, and `FifoLock`, which
`KeyedChain` is proved to implement. Each has its proofs in a module of its own: every
safety property a passing run checks is a theorem, both refinements among them. To come, most important
first:

1. `StreamTransfer` (chunks, offsets and bounded buffers): `ExecStream` stands on it.
2. `ServerReload` (restarts of the server process), `Automations` (due, started, missed),
   the frontend's event numbers.
3. More theorems about what is modelled: facts that the exemptions of the properties hold
   only where they say (what an evicted ID or a fault can still do).

## Modules

**`KeyedChain`** is the promise chain the code writes three times. `chains` is the
map, `before[c]` the call that `c` found there and waits for, `pc` where `c` is.
`Enter` is synchronous, `Start` and `Finish` are the call's work, `Clean` the
microtask that removes the tail if it is still the map's. `Calls`, `Keys`, `KeyOf`.
It implements **`FifoLock`**, a lock of each key granted in the order it was asked for:
`ticket` is the place a call has in line, those that run have the lock.

**`SessionRuntime`** has one session, its lane and the runtime on it.

- The lane is durable: `queue` (steering not in the transcript), `entries`, `current`
  (in `compactions` when it is one) and `aborting`, `made`. It is Pi's: its operations
  (`NewOperation`, `Add`, `TakeSteering`) are modelled from what the runtime relies on, each
  of them one commit.
- The runtime is volatile: `active` is `activeOperations`, `ends` `pendingEnds`,
  `resuming` and the requests in an `Admission` step are `pendingAdmissions`,
  `waiting`, `trying` and `begun` are `pendingIdleStarts` (waiting for the idle lane, about to
  ask it, holding a run it accepted), `reopened` is what `openOperations` named.
- A request's `pc` stops at each await of `prompt`, `steer` and `compact`:
  opening the runtime, expanding, reading the queue, reading the entries, admission,
  commit, what follows it. `turn` is the head of the session's chain (that there is
  one at a time is `KeyedChain`'s `MutualExclusion`).
- `inspectExecution` is an await as well: what it answers (`seen`, `resumeSeen`,
  `closeSeen`) may be stale when it is acted on, so each look (`ReplayLook`, `AdmitLook`,
  `InspectLook`, `ResumeLook`, `CloseLook`) and its act (`Replay`, `Admit`, `Inspect`,
  `ResumeInspect`, `CloseAbort`) are actions of their own; so are an accepted operation
  (`AcceptPrompt`, `AcceptCompaction`, `StartQueued`) and its drive (`DriveAccepted`,
  `StartDrive`), and a replay's second await (`Replay`, `Redrive`). One `resume` is under way
  at a time. `RequestAbort` is the one exception: what it saw in progress and is over by the
  time it asks for the abort is refused by Pi, and changes nothing.
- `Drive` is `driveInBackground` with the assertion in `driveOperationToCompletion`: a second
  drive is refused and takes the first one's entry out of `activeOperations`, while Pi goes on
  with the first (`driving`), so the run still ends. `overtaken` is a ghost: the operations
  that a drive which looked at nothing in its own callback (a replay's, a queued start's) found
  driven.
- `Crash`, `Fault` (a storage call fails: Pi's harness is dead, `withSessionRuntime`
  reopens and retries once, `retried`) and `Close` (whose awaits are the modes
  `closeAdmissions` to `closeFlush`) may come at any step. The code's `close()` awaits the
  admissions and starts it finds at its turn; the model waits until there are none. They
  differ only by what a submission that still holds the runtime adds in the meantime. A queued
  start that Pi refuses for another reason than the two it handles is one whose harness
  faulted or closed.

**`PausePoints`** has the runs of several sessions over their checkouts. `stage` is
where Pi is in a run; `prep`, `line`, `holding` its preparation
(`resolveSystemPrompt`, `prepare`, `prepareCheckout`, the checkout's line);
`held` the hold count; `call` and `inFlight` its tool calls as the hooks and the
events see them; `aborting`, `stopped`, `caller` the abort that was recorded, the
preparation's signal and where `abort()` or `close()` is; `shutdown` the gate and
`suspendSessions`; `online` the node. `Closable` are the runs whose runtime may be
closed, apart from the others so that the property close() breaks can be stated for
the rest.

**`RunSettlement`** has one session, with or without a parent, over several
processes. Pi's side (`current`, `result`, `compactions`) and the row (`record`,
`unread`, `resumes`) and the parent's lane (`told`) are durable. `reports[a]` is the
chain of ends that applier `a` (a runtime's sink, or recovery, 0) has yet to apply,
`chain` the parent's submission chain they go through, `step` whether the report is
out. `openRun` is what the sink keeps as the run in progress. `StorageFailed`, `CloseRuntime` (sweep or new app:
not waited for), `Crash` and `Start` (recovery: `takeAutoResume`, resume or give up) are the
disturbances. `cut` is a ghost: the operation an exit cut off, until it is
driven, settled or given up; `skipped` another: this process's recovery passed over it for a
submission that waits in the chain (`giveUp` takes a busy session for one whose run was taken
up). `Tell` submits the report under the end's key, and the parent's lane takes a key once:
that part of `EndHeard` is what `SessionRuntime` shows of the parent (`AdmittedOnce`). A
session without a parent is settled in the turn of event callbacks that follows Pi's commit of the
end, which is one step with it (`RunEnd`) but for an exit between them (`EndUnsettled`): the
row then keeps its older record, and `WaitTruth` reads Pi's end.

**`LiveSessions`** has the maps for one session. `live`, `opening` and `runtime` are
the entries of `OpenSessions` and the runtimes they name (or no longer name), each with
the binding and code it was built for; `place` is the row's source. A call is `queued`
in the chain, `opening` (it shares one), has `got` a runtime or is over; `again` is
`withSessionRuntime`'s second time. `Open` is `openSessionRuntime` up to its first
await, `OldClosed`, `Built` and `BuildFailed` what follows. `Sweep`, `RegisterApp`, `Move`,
`Remove` and `Delete` take the runtime away under the calls; `closeNext` and `deletion`
are `closeSessionRuntime(s)` waiting, `awaited` the runtime the latter waits for. A runtime that
is closing goes on working until its harness is closed: a call that got it before (a prompt that
was expanding, which `isStreaming` does not tell) may still be admitted and drive a run there,
which is then `late` when it comes after what `close()` awaits and aborts, and is cut off with
the harness. `Use` takes the call or refuses it. `Due` keeps the order of promise callbacks: what
waits for an opening that ended goes on before the next event. Whether a runtime runs
(`running`) is all this module knows of `SessionRuntime`, which has the closing and opening
of one runtime as its environment.

**`ExecStream`** has one command. The node's half is `createPiExec`: `first..end` the kept
tail, `consumer` and `next` the generator that serves it, `grace` the timer, `known` the
map's entry. The link is two sequences of frames that are lost when it drops. The server's half
is `runExec`: `pc` its loop, `taken` the offset, `stream` the request it listens to, `killing` the
abort's `kill`. `shown` is what the caller's view stands for: the records up to here.
A stream ID is used again once no frame and no end of the link names it (`FreeStreams`; a
request needs one, and in the checked instance there always is one). `Drop`,
`TimeOut`, `ServerRestarts` (a new process attaches from the start) and `NodeRestarts`
count against `MaxFailures`. It implements **`Command`**: a process started once, seen in order
and without gap, and a call that returns its exit after all of it, or that it was not
started, was aborted, or is unknown.

**`RpcPeer`** has the calling and the serving end of a connection (a peer is both; its two
roles share only the connection). `status` says how each call ended, as an `RpcFailure` or
`NotConnected` would. `requests` and `replies` are on the wire, `expired` the IDs given up,
`inbound` what runs. A frame may be lost only with the link, which closes or falls silent;
the heartbeat notices the latter. `runs`, `evicted` and `accused` are ghosts.

**`NodeLink`** has one node and the hub of the current app. The node's half is `connectNode`
line by line (`timer`, `dialing`, `updating`, `stopped`, `reported`) with the process that
restarts on an installed build; a connection has a node's end, a server's end and the
frame between them, so that each end may learn of the other's close late. The server's
half is `accept`, `node.hello` with `serve` and `offerUpdate` (`Hello`, then `Waited` when the
build is still running; each app has its own build, `BuildOf`), `disconnect` and a reload's
`hub.close()`. `link` is the hub's entry for the node. A connection the hub closes (replaced by
a newer one, disconnected, of an app that is replaced) is `closed` at its end until its
`onclose` runs (`ServerClosed`), any number of steps later; only then does `Forgets` take the
entry out, if it is still this connection's. `waited` marks a hello answered after waiting for
the build, `updates` whether the node has an `onUpdate` (without it an update is a refusal).

How they fit: `SessionRuntime` and `LiveSessions` take turns through `KeyedChain`;
`PausePoints`' and `ExecStream`'s node that is away and returns is `NodeLink`'s `Relinked`;
`ExecStream`'s answers that are lost, late or given up are `RpcPeer`'s outcomes (a call
refused is certainly not run, `OutcomeTrue`, which is what `onNode` sends again).

Assumed about Pi and SQLite throughout: a commit is atomic and durable; Pi moves a
queued input into an entry in one commit, ends an operation in one commit and then
announces it; `drive` ends when the operation does, is aborted, or its storage fails;
a lane has one operation at a time and refuses another (`LaneBusy`); an idle lane with
nothing queued refuses an empty prompt (`InvalidMessage`).

## Runs

| Run | Module | Instance | States | Shows |
|---|---|---|---|---|
| `keyed_chain` | `MCKeyedChain` | 3 calls of one key, 1 of another | 5,693 | the chain implements the lock, in which each call is served; an exact map |
| `session_runtime` | `MCSessionRuntime` | a prompt, its replay, a steer, a compaction; 2 stops | 4,309,571 | the safety of admission and driving |
| `steering` | `MCSteering` | 2 steers, a prompt; 1 stop | 160,643 | liveness: steering is taken, submissions answered, closes end if runs do |
| `pause_points` | `MCPausePoints` | 2 runs in one checkout, one with 2 parallel tools and an abort, one closable; 1 drop of the node | 136,710 | holds, pauses, prompts, aborts, shutdown |
| `run_settlement` | `MCRunSettlement` | 3 operations, 3 runtimes a process, 3 crashes or faults, 1 automatic resume | 1,145,572 | reports, settlements, waits, recovery |
| `live_sessions` | `MCLiveSessions` | a submission and a resume, 2 sources, 3 runtimes, 2 apps, 1 move, 1 removed node, 2 rounds | 1,001,502 | one runtime, current, never left behind |
| `exec_stream` | `MCExecStream` | 4 records of which 2 are kept, 3 failures | 656,969 | the command's promise, calls and commands end together |
| `rpc_peer` | `MCRpcPeer` | 4 calls, 2 in flight, 1 given-up ID kept | 401,549 | true outcomes, harmless timeouts, calls settle |
| `node_link` | `MCNodeLink` | 2 connections at a time, 3 failures, 1 reload | 480,589 | one attempt, one link, linked again |

The properties are stated above their definitions. The safety ones in short:
`AdmittedOnce` (no input twice in the lane), `AcknowledgedKept` (what was answered is
kept), `DrivesKnown` (what Pi drives reads as busy and can be aborted), `NoRunForgotten` (a pending operation can be found),
`QueuedHasTaker` (somebody will take what was queued); `HeldCounted`,
`OnePreparation`, `PausedLosesNothing`, `PromptSent`; `EndHeard` (in the parent's lane once, and heard of),
`PiEndKept`, `WaitTruthUnlessGivenUp`; `NoneLeftBehind`, `LiveIsCurrent`, `OneDriver`;
`OutcomeTrue`, `GivenUpHarmless`; `OneAttempt`, `OneLink`. Two refinements are checked:
`ImplementsLock` (with liveness) and `ImplementsCommand`. Every property of a passing run has a mutant in
`PROJECT.json`: a plausible bug of the code (a read left out, a guard dropped, a
reset forgotten) under which TLC finds it violated.

**Bounds and why they are enough.** The races are between two or three parties. For
a chain: a call running, one waiting, one entering. For admission: an
input, its replay, one input of another kind and one other operation on the lane;
two stops give every pair of a crash, fault, close or abort, so a recovery can be
disturbed again. For close, two steers and a prompt: two queued-steering starts
and the run one of them loses the lane to. For pauses: two runs to contend for a
checkout and two calls to hold a run twice; a second turn of the run reaches the
steps after its tools. For settlement: three operations and runtimes so that an
older end, a newer one and one in progress coexist; three stops so that a resumed run
is cut off again and its budget of one is spent (the code's limit is 3: only
"spent or not" matters). For the maps: a submission, and a resume outside the chain that shares its opening or
comes while it still has the runtime before (a second submission waits for the first in the chain
and meets the runtime as a later first one would; with two and a resume, and one runtime
fewer, the safety properties hold as well on some 15 M states, too many for a run), three runtimes so that an old one closes, a new one
is live and another is opened; two rounds of a deletion (the code's five) so that one
finds what the other let in. For a command: two records more than are kept so that an
attach finds its offset, a later one and the exit dropped; three failures so that an attach is
itself cut off, and again. For calls: two in flight so that one given up makes the remote
end busy for another, and one ID remembered so that a second eviction happens. For links: two
connections at a time, so that one end holds an old one, replaced and not yet noticed, while a
newer is linked; places are used again, and three failures let it happen twice (with three
connections and two failures the safety properties hold as well on 2.77 M states, which
is too slow for liveness). `MaxTurns`, `MaxDrops`, `MaxStops`, `MaxRuns` and
`MaxRuntimes` are bounds of the models, not of the code. Deadlock is not checked
where the bounded environment may fall silent with nothing left to do
(`CHECK_DEADLOCK FALSE`); in `KeyedChain` it is, with an explicit `Done`.

**Fairness.** Promise callbacks run: every continuation of a submission, a start, a
close, a report or a recovery is weakly fair, since JavaScript runs a resolved promise's
continuations. An abort that was recorded ends its operation and a compaction ends (Pi's
contract and the provider's timeout); a run that has queued input reaches its next turn or its end. The
process is started again by its supervisor. For nodes: frames of a link that is up are handled and generators go on, a link that is down is dialed
again, timers fire (the grace period, the heartbeat, a redial), a dial and an
installation come to an end, a killed process dies, and failures are finitely many
(`MaxFailures`), since no protocol lives on a link that always drops before it is used.
A removed node's runs end (its calls fail), and the sweep, which an interval
calls, is strongly fair. Nothing else is fair: runs need not end,
the node need not return (but in `NodeLink`, whose subject it is), tools need not end, commands need not exit, calls need no timeout, nobody need abort or stop. Where a
property needs one of these, it says so in its formula
(`CloseEndsWithRuns`, `PauseReached`).

## What the code does not do

Three runs state what a document or comment promises and find the code short of it.
Each is a finding in `PROJECT.json` with its lines and quotes. They use the constants
of the passing runs or smaller ones.

- `compaction_fault` (`ReinsEndsPending`): a storage fault settles a compaction that
  ended, since nothing clears it as the run in progress.
- `exit_skipped` (`ExitReadAgain`): a command that exits while the link is down, after more
  output than the node keeps, leaves its call attaching for ever: the answer goes on from
  the end of the records, past the exit. `CallEnds` is the same but for this.
- `removed_link` (`NoRemovedLink`): a hello that waits for the app's node build is not
  checked again, so a node removed while it waits is linked. `OneLink` allows this only.

**Known divergences.** Eight more were found while modelling and are stated in the modules as
definitions no run checks, since what remains true of each is checked instead. TLC
finds each violated with the named definition in place of the passing run's properties:

| Definition | Module, constants | What happens | Checked instead |
|---|---|---|---|
| `CloseEnds` | `MCSteering.cfg` | `close()` (`pi-runtime.ts:894`) can wait for a run that began after it looked for one to abort, through a queued-steering start | `CloseEndsWithRuns` |
| `AbortEnds` | `MCPausePoints.cfg` | an aborted run whose preparation stands in line (`environment.ts:118`) behind one that waits for an offline node is not taken out of it | `AbortStopsWaiting` |
| `ClosingPromptSent` | `MCPausePoints.cfg` | `close()` stops a preparation before the abort is recorded (`pi-runtime.ts:891`); the run can send its request with the plain prompt | `PromptSent` |
| `WaitTruth` | `MCRunSettlement.cfg` | a give-up's record outlives the run's real end when that end's settlement is cut off (`session-runs.ts:244`), and a wait answers with it | `WaitTruthUnlessGivenUp` |
| `AllRunsRecovered` | `MCRunSettlement.cfg` | a submission waiting for the opening that recovery's resume waits for makes recovery skip the give-up (`session-runs.ts:157`); it fails with the opening too, and the run is neither resumed nor given up, though recovery "Resolves once every run is resumed or given up" (`:122-123`) | `RunsRecovered`, which exempts this (`skipped`) |
| `DrivenOnce` | `MCSessionRuntime.cfg` | a replay drives one callback after its look (`pi-runtime.ts:520-521`), a queued start after its accept (`:697-699`): a resume or a steer can drive in between, the second drive is refused (`:628`) and its settlement takes the first one's entry out of `activeOperations` (`:602`), so the run reads as idle and cannot be aborted. `docs/dev/session-runtime.md:167`: "A recovered operation is driven again only while it is still the lane's current operation and nothing drives it" | `DrivesKnown`, which exempts these two drives (`overtaken`) |
| `AlwaysOneDriver` | `MCLiveSessions.cfg` | `close()` waits and refuses nothing meanwhile (`pi-runtime.ts:887-898`): a prompt that expands in a runtime that the sweep, a new app or a move closes can be admitted there after what it waits for, and drive beside the run of the next runtime, which nothing makes wait | `OneDriver`, which exempts late runs (`late`) |
| `SettledInOrder` | `MCRunSettlement.cfg` | reports are ordered within a runtime (`build.ts:94`), not between a closed one and the next | `EndHeard` |

`OneDriver` has two exemptions worth a reviewer's look. Late runs are the last row above. And a
node that is removed while a run is being aborted, and whose session is then moved and
prompted, has two runtimes driving runs of one session at once, since the move does not wait
for the first one's close.

## Proofs

TLAPS checks, for every value of the constants:

- `KeyedChain_proofs`: `TypeOK`, `InOrder`, `MutualExclusion`, `TailIsLatest`, and the
  refinement `KeepsLock` (each step of the chain is a step of `FifoLock` or a stutter). The
  inductive invariant `IInv`: tickets number the calls in the order they entered
  (`TicketsOK`); a call is chained behind an earlier one of its key, which is over
  before it begins (`BeforeOK`); a key's entry is its latest call, and without an entry all
  its calls are over (`ChainsOK`); and every earlier call of the key that is not over
  is its predecessor or before it (`WaitsForEarlier`). `InOrder` is not inductive
  without the last two: a call that finds no entry would begin next to one still running.
  `ChainNeverStuck` (of the calls of a key in progress, the earliest can go on) is the safety
  part of `Served`; its witness is the call with the least ticket.
- `SessionRuntime_proofs`: `TypeOK`, `AdmittedOnce`, `AcknowledgedKept`,
  `NoRunForgotten`, `QueuedHasTaker` and `DrivesKnown`.
  `IInv` has one named part for each: the request past its place in the chain holds the turn
  (`TurnInv`); a runtime that is gone remembers nothing (`GoneInv`); the lane holds an
  input once or not at all (`CopiesInv`), and what a request looked for and did not find
  is still not there (`FreshInv`), which is why the order of the two reads matters; what
  it found or committed is there unless an abort took it (`KeptInv`); the operation a
  submission had accepted and has yet to drive is nobody else's to drive (`AcceptedInv`); the
  two properties about `mode = "open"` hold in every mode in which the runtime works
  (`TakerInv`, `ForgottenInv`); and what `active` names as current Pi does drive, and the
  converse but for what was overtaken (`DrivesInv`). The last is what `DrivesKnown` says, and it
  is preserved by every drive that looks at `active` in its own callback, however old what the
  lane answered before it is (`DriveKeeps`). `WaitsForDrivenRuns`: a queued start waits only
  for an operation that Pi drives, or that its submission or another start is about to drive
  (`StartsMove`), and `close()` for the lane only while Pi drives a run that was aborted
  (`CloseMoves`).
- `PausePoints_proofs`: `TypeOK`, `HeldCounted`, `OnePreparation`,
  `PausedLosesNothing`, `PromptSent`. `IInv`: a preparation under way has its run wait
  for the prompt, a run past its prompt has an answer (`PrepInv`); the preparation
  in a checkout is the first of its line (`LineInv`, whence one at a time); a call that
  is made is counted in flight (`CallInv`); and only an abort requested of Pi stops or fails the
  preparation of a run that is not closed (`AbortInv`). The `stage` and `prep` parts are what make
  `HeldCounted` and `PromptSent` inductive. `LinesMove` adds that a waiting preparation is in its
  checkout's line and that the line's first can go on.
- `RunSettlement_proofs`: `TypeOK`, `EndHeard`, `WaitTruthUnlessGivenUp`, and the action
  property `PiEndKept`. `IInv`: what is in progress is the newest operation and only an open
  runtime drives it (`OpsInv`); appliers take turns, and one at a time is
  between its report and the settlement (`ChainInv`), without which a second applier could
  report an end again; an applier past its report told its first end (`HeardInv`); an end to
  be applied by Pi is of a run that ended, one by Reins is recovery's, a compaction's or a
  fault's, and replaces no end of Pi's (`EndsInv`); and when recovery gives up a run that
  Pi ended too, recovery's end is applied first (`OrderInv`), which is what keeps Pi's. From the same
  invariant, `ReportsKeepMoving`: no end is left unapplied behind a turn that never comes.
- `LiveSessions_proofs`: `TypeOK`, `NoneLeftBehind`, `LiveIsCurrent`, `OneDriver`. `IInv`:
  nothing is live while a runtime is opened, and a faulted one drives nothing (`EntryInv`); what
  is opened is for the session's place or will be closed (`PlaceInv`), which carries
  `LiveIsCurrent` over an opening that a move overtakes; only the live runtime drives, but for
  late runs, while no node was removed and nothing deleted, and a runtime about to be closed by
  its opener has no run yet (`DriverInv`); a call that got a runtime has one (`CallInv`).
  `NobodyWaitsInVain` says that openings wait only for what is being closed and calls only for an
  opening under way; `DeletedStaysGone` that a deleted session, once out of the maps, is never
  opened again, and driven only by late calls, in a runtime whose close is still under way; and
  once none is, by nobody, not even a call that got its runtime before.
- `ExecStream_proofs`: `TypeOK` and the refinement `ImplementsCommand`. `IInv`: the
  command runs once and the tail is a suffix of its output (`CommandInv`); the start is to be
  sent, on its way or refused, once, and as long as it is so nothing ran (`StartInv`), whence a
  failed start is true; what the caller saw is the output up to where it read
  (`CallInv`); the latest request is the last on its way and nothing of its stream came
  before it, and once it was handled the node serves its stream or none (`RequestInv`); and on the way to the
  server (`StreamInv`) the latest stream's frames come after all others', its answer first
  (from where the call read to, or further), and each record follows on the frame before it,
  up to the record the node sends next. The last are what a gap or a repetition would break: an old
  stream's record is never taken for one of the new. `ReturnsTrue` draws the conclusion for the
  caller: an exit returned is of a command that ran and whose output was all seen, a failure
  is of one that never ran and never will.
- `RpcPeer_proofs`: `TypeOK` (with both caps), `OutcomeTrue`, `GivenUpHarmless`. `IInv`: a
  call is in one place at a time, request, running or reply (`PlaceInv`), and only while it is pending or
  given up (`SentInv`); it ran as its answer says (`RunsInv`); on a link that is up nothing waited for is lost
  (`LossInv`, with `ClosedInv`); the IDs kept are of calls given up, all of those whose reply may
  come unless one was evicted (`ExpiredInv`, `AccusedInv`); and the remote end is busy only
  when a call was given up, by counting what is pending there (`BusyInv`).
  `PendingCallsAwaited`: no call waits on a connection that ended, nor, on a link that is up, for
  a reply that is on no way to it.
- `NodeLink_proofs`: `TypeOK`, `OneAttempt`, `OneLink`. `IInv` says the attempt without
  counting (`AttemptInv`: no two connections, timer, dial and update exclude one another), and that
  a connection waiting for its app's build says so (`WaitedInv`), for `OneLink`'s exemption.
  `OneLink` is about what ends late: the `onclose` of a connection that was replaced, closed by
  a removal or by its app's end comes when it comes (`ServerClosedInv`), and is kept from the
  newer link by `Forgets`' comparison only. `RemovedStaysAway`, an action property: a
  removed node without an open link and a waiting hello has no open link ever again.

The assumptions are those on the constants (named `ASSUME`s, evaluated by TLC in
every run; that `None` is no source and no number is among them, as `undefined` is neither in
the code) and what the modules assume of Pi. Each proof goes: the initial states satisfy the invariant; each
action preserves it, one step per action; it implies the property; PTL concludes.

Only model-checked: every liveness property (`ImplementsLock`'s `Served`,
`SteeringTaken`, `SubmissionsAnswered`, `CloseEndsWithRuns`, `AbortStopsWaiting`,
`PauseReached`, `RunsRecovered`, `RemovedNodeLeft`, `CallEnds`, `CallsSettle`, `Relinked`): liveness under fairness needs `ENABLED`,
which this prover does not support. What can be proved of them is that nothing waits for what
cannot come (`ChainNeverStuck`, `WaitsForDrivenRuns`, `LinesMove`, `ReportsKeepMoving`, `NobodyWaitsInVain`,
`PendingCallsAwaited`); that it does come, under fairness, TLC checks. Facts that need induction over data (what a
recursive definition computes) are out of its reach too; no module here has one.

## Not modelled

- In the runtime: `setModel` and thinking levels, image hydration, event emission and
  its numbering, two submissions deduplicated by `submissionAdmissions` (the
  chain makes them take turns first).
- In `PausePoints`, that recording the abort of a preparation that failed fails itself
  (`pi-runtime.ts:469-473`, logged): Pi refuses it only when its harness is faulted or closed, or the run
  is over, and then sends no request. Storage faults are `SessionRuntime`'s and
  `RunSettlement`'s.
- In `SessionRuntime` one runtime at a time is on the lane; a closing runtime next to a
  new one is in `LiveSessions`, without what they do to the lane. There, one session:
  several deleted together, and a child's report that opens its parent while it is being deleted,
  are submissions that come at any time.
- In `ExecStream`: `process.run` (not attached to), chunks, offsets in bytes and the 64 MiB buffer of
  a stream (`StreamTransfer`), a malformed record, a callback that throws, a node that pauses
  (its refusal `again` may come at any time), a second server process while the first one lives.
- In `RpcPeer`: notifications, frames that are not JSON-RPC, and a peer's two roles at once.
- In `NodeLink`: authentication (an unproved hello is one that is refused), several nodes,
  the local node's missing build (a node of the app's own code is one whose build is the app's).
- In settlement: a report too large for a prompt or a reply that cannot be read (both
  refused at once, bypassing the chain's order), a settlement that throws (logged and
  lost), model metadata, a run's quiet end after its task closed, reading a session (which clears `unread`),
  removal of a node (`interruptRunsOn`), telling extensions.
- `recoverInterruptedRuns` finds the run, spends a resume or gives up in one step with the
  process's start: the code does so synchronously for a session.
- The components listed as not modelled in `PROJECT.json`, with a reason each.
