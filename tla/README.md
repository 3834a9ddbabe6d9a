# Verification of the OpenJev agent core

OpenJev is a TypeScript monorepo (`src/harness`) around an agent harness: a
process hosts *agents*, each of which drives a conversation with a language
model, runs the tools the model asks for, and records everything in an
append-only *session log*. This directory holds TLA+ models of the agent core,
their TLC configurations, and TLAPS proofs about them.

Paths below are relative to `src/harness/packages/` unless they start with
`src/`. `PROJECT.json` lists every component, the source lines behind every
definition, the hazards, the runs and the theorems.

## 1. Inventory

| Component | State | Operations | Interacts with | What makes it correct |
|---|---|---|---|---|
| Agent driver, `core/agent-loop/src/agent.ts` | phase (idle / maintenance / running with abort controller, turn, step, latched wake) | send, followup, steer, inject, cancel, runMaintenance, whenIdle; internally wakeDriver, kick, turn, step | inbox, session log, waterfalls (pre-step, request, request-error, turn-stopping), tool scheduler | one driver at a time; recorded boundaries balanced; no wake lost; a cancel holds and converges |
| Inbox, `core/agent-loop/src/inbox.ts` | two durable lists (`next-turn`, `next-step`) projected from the log | append, prepend, replace, remove, splice, clear, claim | driver, session log, observers | each message delivered at most once, none lost, a follow-up alone in its turn |
| Tool-call scheduler, `core/agent-loop/src/tool-calls.ts` | group cursor, pool of dispatches, result slots | executeToolCalls, runGroup | tool runtime, session log, abort signal | results in model order, barriers, pool bound, one answer per call, quiescence |
| Tool runtime, `core/tools/src/index.ts` | registry, per-call execution state | prepare, dispatch, finalize, finish, executionMode | scheduler, guards, approval, checkpoint policy | a body runs only if allowed, never after a cancel, at most once |
| Checkpoint policy, `session/session-checkpoint-policy` | none | three listeners that flush the session | session store, tool runtime, llm | a call is durable before its side effect |
| Crash repair, `core/session/src/repair.ts` | none | interruptedTurnClosers | resume, cold reads | a log cut anywhere becomes balanced, deterministically, without denying a side effect |
| Agent lifecycle, `core/agent-loop/src/index.ts` | ownership, live agents, configured starts | create, resume, prepare, publish, dispose, restore | persistence, driver, registries, owner fibers | whatever ends an attempt, no registry entry or write handle is left; every wait ends |
| Session store, `core/session/src` | live sessions, logs, surfaces | append, enter, fork, flush, dispose | persistence, projections | dense sequence numbers, one publication per event, no nested append |
| JSONL persistence, `session/session-persistence-jsonl` | per process the claims and handles; per handle a mutation chain, live buffer, drain, timer, lease; the log file and its kernel lock | create, open, append, read, flush, close, drain | session store, agent lifecycle, other processes | contiguous log, one writer across processes, what was acknowledged stays, torn tails recovered |
| Jobs, `jobs/jobs-local` and the notices of `jobs/tool-jobs` | job table, waiters, owners' cleanups | start, read, kill, wait, settle, dispose | tools, producers, agents | each end is told once, limits hold, a teardown leaves no job and ends |
| Goals, `goal/goal`, `goal/tool-goal` and `goal/goal-round-driver` | folded goal and its activation; attempt, checkpoint, coalesced run | create, edit, pause, resume, complete, block, clear; requestDrive, drive, two fences in pre-step, unload | agents, session store, users | only the next round of the current revision is logged, behind a checkpoint; a cancellation stops rounds; an armed goal is not forgotten |
| Approval and questions, `interaction/*` | pending requests | request, answer, cancel | tools, front ends | one answer each, a cancel answers all |
| Subagents, compaction, retry, schedule, workflow, webhook | various | clients of the agent handle | agents | their own protocols |
| Gateway, SDK, ACP, web client, boot, hosts, adapters | connections, processes | I/O | everything | out of scope for now, see section 8 |

**What is hard here.** JavaScript runs one thing at a time, so there are no data
races, but two kinds of interleaving bite everywhere:

* at every `await` any other code may run: the world read before it is stale
  after it;
* *inside* synchronous notifications (`agent/status`, `agent/inbox/*`,
  `agent/error`, `session/event`) a listener may call back into the object that
  is in the middle of a state change.

To these come cancellation with several causes, failures of any hook, crashes
with a durable prefix of the log, and liveness of latched wakes and pools.

## 2. Modules

| Module | What it is |
|---|---|
| `AgentDriver` | agent.ts with inbox.ts: one live agent and everybody who calls it |
| `TurnMailbox` | abstract specification: what an agent promises about the messages it is given |
| `MCAgentDriver` | `AgentDriver` with message symmetry for TLC |
| `AgentDriverProofs` | type correctness and the exactness of the mailbox; then one driver, boundaries, turn numbers, cancellation, follow-ups |
| `AgentDriverMailbox` | `AgentDriver` implements `TurnMailbox`, and loses no wake |
| `ToolScheduler` | tool-calls.ts over the tool runtime's stages and the checkpoint policy: one assistant message's calls |
| `ToolSchedulerProofs` | how cursors, stages and pool fit together; types, barriers, pool bound, quiescence, the action properties; then what the scheduler leaves in the log: model order, one record and one result per call |
| `StepRecovery` | `ToolScheduler` inside turns, crashes with a durable prefix, interruptedTurnClosers, resume |
| `MCStepRecovery` | `StepRecovery` for TLC, and the scan of interruptedTurnClosers that it is compared with |
| `StepRecoveryProofs` | the shape of a log that crashes may cut and repairs complete: balance, truth and stability of the repair |
| `SessionStorage` | storage.ts, lease.ts and the writing half of index.ts: one stored session, its successive write handles, processes that die |
| `SessionStorageProofs` | the file, its lock and the handles: contiguity, the lock, acknowledgements, the buffer |
| `JobRegistry` | jobs-local with the notices of tool-jobs: jobs, waits, owners and the service being torn down |
| `JobRegistryProofs` | the registry: types and waiter counts, one notice per end, the limit, that a teardown leaves nothing |
| `GoalRounds` | the goal service and its strict fold, the goal-round driver, the agent's turns as far as the driver sees them |
| `GoalRoundsProofs` | the rounds: replay, checkpoint, cancellation, unload |
| `AgentLifecycle` | agent-loop/src/index.ts: two mounts of the plugin, a configured agent, clients creating and resuming the same identity |
| `AgentLifecycleProofs` | nothing is left of an attempt or an agent that has ended |

### AgentDriver

`phase`, `drv`, `box` and `log` are the code's own state: the `Phase` union, the
position of the driver coroutine (`drv.pc` names the await it is suspended on,
`ends` is `turnEnds`, `hand` the batch of the proposed step), the two lists, and
the boundaries and user messages of the session log. `stack` is the part of the
JavaScript stack that matters: the methods that are inside a synchronous
notification and have code left to run, innermost first. Every caller's action
(`Send`, `Splice`, `Cancel`, `StartMaintenance`) may be taken at any await *and*
on top of any such frame, up to `MaxDepth`; only the top frame can return. A
method with a notification in its middle is therefore two actions, the one up to
the notification and a `Return...`:

* `send` → `Send`, `ReturnSend`; `cancel` → `Cancel`, `ReturnClear`, `ReturnAbort`;
* `wakeDriver` → `WakeDriver`, `ReturnStart`; `kick`'s finally → `Settle`, `ReturnSettle`;
* `turn` → `OpenTurn`/`SkipTurn`, `ReturnOpened`, then one action per await
  (`Decided`, `EnterStep`, `EndEmpty`, `Reject`, `Prepared`, `Admit`, `Retry`,
  `EndStep`, `Stop`, `Interrupted`, `Fails`), `ReturnAdmitting`, `ReturnFailing`,
  `CloseTurn`, `ReturnClosing`.

`Interrupted` is the `signal.throwIfAborted()` behind every await of a hook, an
assembly or a request: it is what the driver does there once its signal has fired.
Two awaits have no such look behind them, because the look comes just before an
inner function returns and its caller goes on a microtask later. Behind `Decided`
(preStep's, agent.ts:257) a step that enters is looked at again (302), one that is
rejected or empty is not. Behind `Prepared` (prepareRequest's, 549) nothing looks
before the batch is appended: `Admit` appends one message at a time, with its
listeners on top (`ReturnAdmitting`), and a cancel in that microtask or from one of
them is seen only after the batch. `session.append`
refuses a nested append while it publishes (`InAppend`), so listeners of a
boundary cannot submit messages. The five history variables (`fate`, `owner`,
`owed`, `gap`, `condemned`) influence nothing.

`owed` is the set of waiting messages whose sender was promised a wake that
nothing has consumed: a cancel, a rejection, an empty batch or a failure parks
its messages by design and takes them out. `gap` are those sent in the microtask
of finding 1.

### ToolScheduler and StepRecovery

`sched` holds the locals of `executeToolCalls` and `runGroup`, with absolute
call numbers (`started`, `committed`) instead of indices into the group, and the
await the scheduler is at. `stage` is where each call is in the runtime's
pipeline; `inFlight` is the Map of dispatch promises that have not been raced,
which is not the set of running calls: a call may have settled, even been
committed, and still be in it. `registry` is what `executionMode` answers at the
moment and changes at any time for a call that has not started. `log` and
`durable` are the session log and how much of it survives a crash; `Persist`
makes a batch of any length durable, and a call's checkpoint covers what was
appended when it started.

`StepRecovery` adds the boundaries around the step, further rounds whose
messages reuse the same call ids, a `Crash` that keeps the durable prefix and
nothing else, and `Resume`, which appends `Closers(log)`. A second crash may cut
those closers anywhere. The code computes the closers with a scan that keeps which
boundaries are open and which calls are pending; `TurnOpen`, `StepOpen`, `Pending`
and `StartOf` say the same by the last events that decide it (a call is pending when
a message made it so and neither a boundary nor a result came after). A scan is a
fold, about which nothing can be proved here for every log. `MCStepRecovery` has the
scan as the code has it, and its assumption `ScanAgrees` lets TLC compare the two on
every sequence of up to six events, legal or not.

### SessionStorage

`handle[h]` is a `JsonlSessionHandle` with its owner: `chain` is the promise
chain of queued mutations, `stage` the await at which its head is, `batch` what
it writes, `buffered`, `timer`, `paused` and `drain` are `buffered`, `batchTimer`,
`drainPaused` and `draining`, and `close` is the position of close() (`wait` counts
the jobs before the promise it awaits). `drain` passes through `drained` or
`failed` before the `finally` clears it, which is the tick in which a caller can
still join. `writer` is the tracker's map, `lock` the kernel's answer. `disk` keeps
complete records, and, after a crash inside an append, torn bytes with the
complete records inside them: reading yields those (`Readable`), the next write
truncates and rewrites them in two stages. A microtask goes before a timer, so
`TimerFires` waits for a drain to be cleared. The session's events are the
sequence numbers its handle was given; `acked` is the history of what an append,
flush or close that resolved has promised.

`LateCalls` says whether events, flushes and timers reach a handle whose close()
has looked at its buffer for the last time. The proper protocol of an agent's
disposal would exclude it and the code does not, see finding 4; the passing run
sets it to FALSE, the other one to TRUE.

### JobRegistry

The registry is synchronous between its awaits; an action is one call or one
continuation. `waiters` and the wait's resolver are separate, as in the code: a
timeout resolves a wait that stays counted until it resumes, an abort uncounts it
at once. `CancelForTeardown` takes the set of jobs whose cancel() throws; those
are forced to fail and their producers may still settle later (`working`).
A service under disposal is taken to start no job and serve no call, because the
controllers that admit them depend on it.

### GoalRounds

Events are delivered synchronously, so one call (a goal change, the end of a
turn) runs through several handlers, may start the driver and, through it, wake
the agent, which claims. These are operators on the record `World` of all state;
an action applies one composition of them (`Changed`, `EndTurn`, `RequestDrive`,
...). `driver.runs` are the coroutines of requestDrive's loop and `busy` is
`state.run !== undefined`: the round limit blocks the goal inside drive's
synchronous prefix, before `state.run` is set, so there may be two runs.
Continuations of runs go before anything from outside (`Quiet`). `ref` stands for
goal id and revision. The last looks at the signal are apart from what follows
them as in `AgentDriver`: a rejection passes the outer listeners, after which the
turn may end as blocked although it was just aborted (`RejectionEnds`), and a round
whose request is `Prepared` is logged whatever comes in between. `asked` and
`halted` are history: the last revision that somebody asked for, and the revision
that the last cancelled turn worked on.

`LateChanges` says whether a host changes the goal after the second fence of a
round and before the round is logged, see finding 5. Without it a host may still
pause the goal in that window, which aborts the turn, but not in the last microtask,
in which the abort comes too late.

### AgentLifecycle

`pc` is the await an attempt is at: the wait for a configured identity, the open,
the create, the read with its repair, the setup, the append of the seed, the
announcement, the rollback. `disposal` is the position of the one memoized
dispose. Acquisitions are raced with what may abort them exactly as in the code:
an open with its caller, its owner and the factory; a create with its caller
only; a configured create with nobody. An acquisition that was abandoned still
arrives and is closed. `MayPrepare` are the guards of `prepare`, which run
synchronously with what it registers. Whether the backend answers an open, and
whether a setup returns, is left open; no fairness is assumed of them.

Unwinding the scope and closing the handle may fail (`HandleCloses`): the disposal
goes on, leaves the registries, and then rejects (`failures`). The factory awaits its
agents' disposals and the starts under way with one `Promise.all`, so a disposal that
rejects ends that wait at once and the mount is `"rejected"` instead of `"gone"`
(`Unmounted`); cordis logs the error and goes on (fiber.ts:683). The others all
swallow it: a rollback, the release of a handle without an agent, a start.

## 3. Runs

| Run | Module, bounds | Shows |
|---|---|---|
| `driver` | `MCAgentDriver`, 2 messages, 3 steps, depth 2 | type, mailbox, driver, boundary, follow-up and wake invariants, action properties, refinement of `TurnMailbox`, and under fairness `CancelConverges` and `WakesServed` |
| `lost_wake`, `sticky_max_tokens`, `disposal_wake` | 3 messages (2 for the last) | findings 1 to 3 of section 7 |
| `tools` | `ToolScheduler`, 4 calls, pool of 2 | order, one answer per call, pool bound, barriers, quiescence, abort and failure stop new starts; the scheduler always returns |
| `step_recovery` | `MCStepRecovery`, 2 calls, pool of 2, 2 rounds, 2 crashes | the repaired log is balanced, truthful and stable; the closers are those of the scan, on all logs of up to 6 events |
| `session_storage` | `SessionStorage`, 2 processes, 2 handles, 2 events, 1 crash | contiguous log, writes under the lock only, acknowledged events stay, buffer exact and never forgotten |
| `session_storage_late` | the same without a crash, `LateCalls` | finding 4 |
| `jobs` | `JobRegistry`, 2 jobs, 2 waits, 1 owner and unowned work, limit 1 | types and waiter counts, one notice per end, the limit, nothing left behind, teardowns end |
| `goals` | `GoalRounds`, up to 2 rounds, 3 goal changes, 1 prompt, 1 cancellation, 4 runs of the driver at most (no more than 2 ever overlap) | the goal log replays, rounds wait for the checkpoint, a cancellation stops those of its revision and an unload all, an armed goal is worked on |
| `goals_late` | the same, `LateChanges` | finding 5 |
| `lifecycle` | `AgentLifecycle`, 2 mounts with a configured agent, 1 client, disposals that may fail | nothing is left behind, every wait ends |

**Why the bounds are enough to matter.** *Driver*: every hazard on wakes and
claims is between the message being processed and one that arrives; the
configurations with three messages (3 messages, 2 steps, depth 1; and 3, 1, 2:
77,112 and 172,421 states up to symmetry, safety only) were checked once and pass as
well. `MaxDepth = 2` lets a
listener of a notification act and a listener of *its* notification act again,
which is what separates a captured from a re-read condition. `MaxSteps` only
limits how often tool calls continue a turn. *Scheduler*: four calls with a pool
of two give a full pool, a call waiting for it, and a barrier before, between or
after parallel calls. Two rounds let pending calls leak from one to the next, two
crashes cut a repair. *Storage*: two handles are a creator and its successor, or
two competitors, in one process or in two; a crash may tear the batch, and the
second handle then repairs under its own failures; two events are one in the
batch being written and one behind it. *Jobs*: with a limit of one and two jobs a
slot is taken, stopping, freed and taken again; the second wait joins what the
first times out of. *Goals*: two rounds reach the limit and the round after
a resumed one; three changes are a creation, a change while a round is under way
and one more behind it. Larger instances without liveness (2 rounds, 3 changes, 2
prompts, 1 cancellation and 4 changes with 1 prompt, about 1,540,000 states each)
were checked once. *Lifecycle*: a remount over a draining predecessor with one
more caller for the same identity gives every pair and one triple of competitors.

Deadlock is checked in the driver runs; schedulers, processes, registries and
drivers that are unloaded do stop, so the other runs switch it off and their
liveness properties tell stopping from hanging.

## 4. Fairness

`AgentDriver`: weak fairness of `Return` (synchronous code runs on), of `Resume`
(the event loop runs queued microtasks and every awaited hook, assembly, request
or tool settles) and of `FinishMaintenance` (a maintenance job settles, as
teardown also requires); strong fairness of `Finish`, because a provider that
answers every attempt with a retryable error keeps the driver busy for ever and
nothing in agent.ts bounds that (llm-retry does). No fairness for callers.
`ToolScheduler`: weak fairness of the scheduler, of each dispatched call and of
the session's writer.
`JobRegistry`: weak fairness of a producer whose cancel() was called and
returned (its contract, JobHooks), of the owner's cleanup and of the
continuations of both teardowns; none for callers or for a producer left alone.
`GoalRounds`: weak fairness of each run of the driver (continuations run, flushes
settle) and of the turn's steps (model, hooks and assembly answer).
`AgentLifecycle`: weak fairness of what settles by itself, of each attempt and
each mount; none for callers, owners and mounts, nor for the backend's open and
the setup, which the code races with an abort because they may never answer. The
read of an opened log does settle here: the comment at index.ts:875 says that it is
raced too, but the code races only the open (894); the read is awaited and merely
given the signal (904).
`SessionStorage` is checked for safety only.

## 5. Properties worth knowing

* `MailboxExact`: whatever mix of re-entrant sends, splices, cancels and claims,
  every message is in exactly one place and enters the history at most once.
* `SingleDriver`, `LogAgrees`, `TurnsDense`: one driver; open turn and step of
  the log are exactly where the driver is; turn numbers have no gap or repeat.
* `NoWakeLost`, `WakesServed`: at rest nothing is owed; what is owed is served.
* `CancelHolds`, `CancelConverges`: after a cancel no step is entered, nothing is
  claimed, no request prepared, and no message enters but the batch of a request
  whose preparation was already through; and the activity ends.
* `MailboxPromise`: refinement of `TurnMailbox`.
* `ResultsOrdered`, `AllAnswered`, `Barriers`, `PoolBound`, `Quiescent`,
  `NoStartAfterAbort`, `FailureStops`, `SchedulerReturns`: the scheduler's contract
  in the header of tool-calls.ts.
* `RepairedLogBalanced`, `NotStartedIsTrue`, `RepairStable`: the repair. The
  second needs the checkpoint policy: without the flush before a body the repair
  would recommend to retry a call that had its side effect.

* `LogContiguous`, `AckedDurable`: across crashes, torn appends, failed writes and
  successive owners the log reads 1, 2, 3, ... and keeps what any caller was told
  is durable. `WriterHoldsLock`: the file changes only under the kernel lock.
  `BufferExact`, `SomeoneWillDrain`: a failed drain neither loses nor reorders
  events, and none sits in the buffer of an open handle with nobody due to write it.
* `NoticesExact`: the end of an owned job is told exactly once, by a notice or by
  a wait, unless the caller asked for it or the owner goes away, in whatever order
  settlement, timeout, abort, kill and teardown meet. `NothingLeftBehind`,
  `TeardownEnds`: no start slips into a teardown, and a throwing cancel does not
  hang it.
* `GoalReplays`: every logged round is the next one of the goal's current revision.
  `ReservedDurable`, `RoundsContinue`: rounds wait for the checkpoint, and an armed
  goal is worked on. `CancelStops`: after a cancelled turn a round is reserved only
  for a later revision than the one it worked on, and one that somebody asked for.
  `UnloadStops`: after an unload a round is logged only if its request was prepared
  by then, in an aborted turn.
* `NothingLeft`, `WaitsEnd`: of an attempt or an agent that has ended nothing stays
  in a registry or on the write path, nor of a mount that is gone; when a failing
  disposal has cut the mount's wait short, every agent of it is being disposed, and
  what is under way ends by itself. Configured starts and factory teardown end.

## 6. Proofs

All theorems hold for every value of the constants under the assumptions that
the modules name (`MaxStepsAssumption`, `MaxDepthAssumption`, `CallsAssumption`,
`MaxParallelAssumption`; in `JobRegistry` `WaiterAssumption`, `MaxJobsAssumption`,
`LimitAssumption`, `NoneAssumption`; in `SessionStorage` its three
bounds, `LateCallsAssumption`, `NoneAssumption`; in `GoalRounds` `BoundsAssumption`, `LateChangesAssumption`; in
`AgentLifecycle` `ClientsAssumption`): bounds are positive or natural numbers, `None`
is nobody. Two components have a flag that lets in the calls of findings 4 and 5, and
what those findings refute is proved without them: the theorems of
`SessionStorageProofs` assume `~LateCalls`, and of `GoalRoundsProofs` `LogReplays`
assumes `~LateChanges` (pauses before the request is prepared excepted). The other three theorems about goals hold either way.

* `AgentDriverProofs`: `TypeCorrect` (`TypeOK` is inductive) and `MailboxCorrect`
  (`MailboxExact`, inductive relative to `TypeOK`). Lemmas on `Items` and
  `Distinct` of appended, spliced and concatenated sequences carry the argument;
  one lemma per action says what it does to lists, hand and history.
* `AgentDriverProofs`, the turns: the inductive invariant is `SingleDriver /\ LogAgrees`; each
  needs the other (that a start frame finds no open turn, that an idle phase has
  no frame of a driver below it). From it `OneDriver`, `BoundariesAgree`,
  `TurnsSuccessive` and `CancelStops`. `FollowupAlone` adds that owners are turns
  of the past and that a turn which is just being opened owns nothing.
* `AgentDriverMailbox`: `ImplementsMailbox`. Under the conjunction of these
  invariants every action of `AgentDriver` is mapped to an action of
  `TurnMailbox` or to a stutter, with `log.openTurn`, `log.lastTurn` and
  `log.surface` for the abstract variables. Then `WakesAreKept` (`NoWakeLost`): the
  invariant `WakeInv` says that what is owed waits in a list and is `Covered`, that is
  somebody on the stack or in the driver is still due to look at the lists (a
  suspended send or end of an activity, a latched wake, a driver that is not on its
  way out), unless it was sent in the gap of finding 1 or a cancel is on the stack
  that will give it up. That a frame's latch survives what runs on top of it needs
  that `turn/end` is published on top of everything (`ClosingOnTop`).

* `ToolSchedulerProofs`: the inductive invariant `Structure`. No property of the
  scheduler is inductive alone: `Barriers` needs that committed and started calls
  are prefixes of the message (`Stages`) and that the open calls of a group have
  its class (`Classes`); that a group ends with everything committed needs that a
  call which settled without having been raced is still in the pool (`Raced`);
  the pool bound needs that there is room for a call which is being prepared
  (`Pool`). One lemma per action; the two ways in which the scheduler starts a call
  or answers the rest are lemmas of their own (`StartCallStep`, `SkipRestStep`).
  From it `SchedulerTypes`, `BarriersHold`, `PoolBounded`, `NothingAbandoned`,
  `AbortStopsDispatch` and `FailureStopsDispatch`.
* `ToolSchedulerProofs`, the log: `StepKinds` reduces every step to one of four as far as the
  log is concerned (nothing, a start, a commit, the skipped rest), each of which
  keeps `LogShape`: started calls are recorded where `callSeq` says, results are of
  committed calls, records are unique. From it `ResultsInModelOrder` and
  `EveryCallAnswered`. With this every safety property of the scheduler that a run
  checks is proved for any number of calls and any pool.
* `StepRecoveryProofs`: a crash keeps some prefix of the log and nobody chooses which.
  What the invariant says of the log, `Shaped`, is therefore true of every prefix of a
  log that has it (`PrefixShaped`), and its parts speak of positions: between two
  results of a call lies a message (`Once`), after a step's end no result comes before
  the next message (`Inside`), a step that ended answered its calls or its scheduler
  threw (`Answered`), a round ends before any other boundary (`Fenced`, `Separated`).
  It is kept by the three ways in which a log grows: a tool event, a boundary or
  message, the closers (`ToolsShaped`, `MarkShaped`, `RepairedShape`). The rest of
  `RecoveryInv` ties the log to the process: where the round at work is and what the
  scheduler has recorded of it (`WorksAt`), that the body of a call runs only behind a
  durable record of its start (`Covers`, `RanDurable`), and that a resumed log is a
  durable prefix with its closers (`Phases`). The scheduler's steps enter through
  `Structure` and `StepKinds`. From it `RepairedLogIsBalanced` and
  `NeverStartedNeverRan`; for `RepairIsStable` the lemma `Stable` shows that the
  closers of a log which already holds the first of its closers are the others,
  because a closing result removes exactly the first call of `InOrder(Pending(log))`.
* `JobRegistryProofs`: the inductive invariant `IInv`, five parts that need one
  another. `Counted` (a job counts its pending waits) needs `WaitsOK` (a wait to be
  resolved joined a job, and one that still waits has a job that is not over);
  `RecordsOK` (only a job that is over has left the registry) needs `TeardownsOK`
  (a teardown that waits waits for every stored job it will drop), which holds
  because a start is admitted only while the owner's cleanup is attached or its
  scope lives. What a step does to records and waits is stated once per operation
  (the `...Effect` lemmas); the two teardowns share theirs (`Tears`). From it
  `TypeCorrect` and `NothingIsLeftBehind`; `LimitHolds` counts the work an owner has
  against the jobs that `Start` counted; `NoticesAreExact` adds that the waits
  counted when a job ends are exactly the ones that will return its end
  (`SettleNotices`), and that this set is fixed from then on (`ServedKept`). Every
  safety property of the registry that a run checks is proved.

* `SessionStorageProofs`: the invariant is about one handle's record (`RecordOK`: chain
  and stage, phase, close, drain and lease fit together; between cursor and end of the
  session lie exactly the batch and the buffer), about the kernel lock (`LockOK`: a
  handle with the lease holds it), and about the file
  as its lock holder sees it (what has been read or written is the log up to the
  cursor, a torn tail is the batch). `WriterHoldsLock` is needed by all others:
  without it nothing the holder knows about the file is stable. Every method is an
  operator on a record, with a lemma that says what it keeps; so each action has two
  parts, the record and the file. From it the five theorems, among them
  `AckedIsDurable`, which adds that whatever a cursor has passed is in the log and that a
  waiting caller is covered by a queued job or a running drain.
* `GoalRoundsProofs`: a step of `GoalRounds` applies operators that may call one another
  (a change requests the driver, which may reserve a round, which wakes the agent); the
  invariant is therefore stated of a record of all state, `WorldOK`, and each operator
  has a lemma that it keeps it and what it `Moves`: no operator but a change arms the
  goal or adds to its rounds, and a round is reserved only for a pursued goal without an
  obligation. Parts: a queued round of the present revision is within the limit
  (`MessagesOK`); between the last fence and the log the round is the driver's attempt,
  and the goal's next unless it is aborted before its request is prepared
  (`EnteringOK`); without an obligation the revision of an armed goal is durable or
  being flushed (`FlushesOK`); a goal that is pursued is as somebody asked for, and
  later than what a cancelled turn worked on (`AskedOK`). From it `LogReplays`,
  `RoundsAreDurable`, `CancellationStops` and `UnloadingStops`.
* `AgentLifecycleProofs`: which handle and which disposal an attempt has at each stage
  (`HandleOK`), who occupies the registries (`RegistryOK`), and that a mount being disposed
  has taken every prepared agent of its own into its snapshot and disposes it, because
  it prepares no new one (`MountsOK`); an agent of a mount whose wait was cut short is
  therefore at least being disposed. From it `NothingIsLeft`.

Every safety property that a passing run checks is a theorem. Only model-checked: liveness
(`CancelConverges`, `WakesServed`, `SchedulerReturns`, `TeardownEnds`,
`RoundsContinue`, `WaitsEnd`), which is out of the prover's reach, and that the
declarative closers of `StepRecovery` are those of the scan (`ScanAgrees`).

## 7. Findings

1. **Lost wake** (`lost_wake`, agent.ts:345). `turn` looks at the inbox for the
   last time, returns `false`, and `kick` leaves the running phase one microtask
   later. A waking `send` in between finds a live running phase, is not latched,
   and is not seen by anybody until another wake.
2. **Sticky max-tokens** (`sticky_max_tokens`, agent.ts:311). The sticky outcome
   also overrides the `null` of a later tool-calling step, so the turn closes
   with tool results that the model never saw.
3. **Disposal wakes** (`disposal_wake`, agent.ts:193). A disposal is recognised
   by the abort reason and the first reason stays, so disposing an activity that
   the user already cancelled can start another driver.

4. **Late events** (`session_storage_late`, session-persistence-jsonl
   storage.ts:274). An agent's disposal closes the write handle before it detaches
   the session, so events published while close() waits for its lock to be
   released are still buffered; their timer's drain writes through the released
   lease, without the lock, next to the following owner. Sequence numbers repeat.
   A drain that fails inside close() leaves an armed timer to the same effect.
5. **Late goal changes** (`goals_late`, goal-round-driver index.ts:412). The last
   fence of a round is followed by more listeners and by the preparation of the
   request. A host that edits, completes or clears the goal in that window makes
   the round stale when it is logged; the strict fold rejects the log and the goal
   of that session can neither be read nor changed any more. A pause aborts the turn
   as well and so keeps the round out, unless it comes in the microtask between the
   last look at the signal (agent.ts:549) and the append (376).

Smaller disagreements that the models contain but no run is about:

* *Storage.* A flush that joins a drain which has found the buffer empty, in the
  tick before its `finally`, resolves without the events published since
  (`AckedDurable` leaves out that flush; session-persistence/README.md:103 says
  "drains through quiescence"). When the first log has been linked and syncing its
  directory fails (index.ts:1148), the handle stays unmaterialized and every later
  write is refused because the log exists.
* *Driver.* A cancel in the microtask behind the last look at the signal is not
  seen in time: a prepared batch is still admitted (agent.ts:549, 363, 376), a
  rejected or empty step still ends the turn as blocked or completed (257, 290).
* *Goals.* A cancellation does restart rounds when the goal was edited around it
  (goal-round-driver/README.md:53: "Cancellation never auto-restarts a round"). The driver
  pauses the goal only if it is still exactly what the cancelled attempt was for
  (index.ts:262-271): when the goal was changed while the round was under way, the
  cancel ends the turn and the driver goes on with the new revision, and an edit
  behind a cancel is a new revision whose attempt was never cancelled. The same
  holds for a turn of the user's that is cancelled while the attempt of an earlier
  revision is still held. An unload may still log the message of a round whose
  request was prepared, in an aborted turn. The round limit,
  reached inside drive's synchronous prefix, starts a second run beside the first,
  and a reservation may come before the second run's checkpoint is durable
  (`ReservedDurable` allows exactly that). A round left in the queue by a pause can
  pause the goal again after it was resumed. Rejecting a stale round leaves a
  user's message behind it until the next wake.
* *Jobs.* The end of an unowned job is announced to nobody.
* *Lifecycle.* A remount whose predecessor has not been published yet finds no
  registry entry to wait for, its open is refused and the configured start fails,
  although the README (core/agent-loop/README.md:54) promises that a remount
  resumes materialized history. The comment at index.ts:504 says a live healthy
  occupant surfaces as a collision; the code waits for it. The comment at
  index.ts:542 calls the guard inside prepare unreachable; both create paths await
  the backend before it, and without it `NothingLeft` fails. An owner that unloads
  while a holder's disposal is under way does not await it (index.ts:634), although
  the comment at 575 says every racing owner awaits one quiescence. The comment at
  128 says that the factory's dispose awaits the settlement of a create or resume,
  and 582 that teardown runs to quiescence; a disposal that rejects ends the
  factory's wait (142) while other disposals and starts go on.

Worth knowing, but documented behaviour: when the scheduler *throws*, the step
is ended with calls that have no result, and the repair does not touch a step
that has ended; `RepairedLogBalanced` exempts exactly those steps.

## 8. Not modelled

In `AgentDriver`: an append that is refused by the session (other than a nested
one), `whenIdle`'s waiters, a maintenance job that throws synchronously, the
resumed value of the turn counter (it starts at 0), request and prompt content.
In `ToolScheduler`: contents and contexts of results, `concludesTurn`, an append
that throws, wrappers that retry a body. In `StepRecovery`: the file format
(`Crash` keeps any durable prefix, which is what a torn tail is cut back to).
In `SessionStorage`: read handles, listing, encodings and format migration, a
rollback of a failed append that fails itself, loss of power (a process dies,
what it wrote stays), the service-wide flush, which calls the same two methods as
`session/flush`. In `JobRegistry`: output, ids, controllers, change observers and
the wake budget of notices. In `GoalRounds`: texts, a `followup` that throws, the
block threshold (any number of rounds), steering into the turn of a round, the
agent's own disposal; a goal is created in the run, not resumed from a log. In
`AgentLifecycle`: agents without persistence, declarative resumes
(`resumeSessionId`), a create or resume started by another agent, the deferred
removal of registry entries by listeners, session and agent content.
The components with status `not_modelled` in `PROJECT.json` are left out for the
reasons given there: mostly I/O, external protocols and presentation.

## 9. Plan

1. `AgentDriver`, `TurnMailbox` and their proofs: done. Open: waiters of `whenIdle`.
2. `ToolScheduler`, `StepRecovery` and their proofs: done. Open: an abstract
   specification of one step's calls that `ToolScheduler` implements.
3. `SessionStorage`: done, with its proofs. Open: an abstract durable prefix that it
   implements.
4. `JobRegistry`: done, with its proofs.
5. `GoalRounds`: done, with its proofs. Open: its turns as an instance of `TurnMailbox`'s promise.
6. `AgentLifecycle`: done, with its proofs. Open: the path without persistence, subagents' parents.
7. Approval requests, gateway streams, subagent continuation, the projection cache.
