# Verification of the Pi Stuff suite

Pi Stuff (`src/packages/pi-stuff`) is one package of extensions that runs inside
the Pi Host: delegated Agents, Code Mode, background work, a persistent Goal,
Todo, session naming, settings, notifications, and wrappers around MCP, the web,
context compaction and the user interface. Nearly all of its difficulty lies in
what several Hosts, detached runner processes and interrupted runs leave behind
for each other in files and in the Session, so that is what this project
specifies in TLA+, checks with TLC and, for the core, proves with TLAPS.

Paths below are relative to the repository; `pi-stuff/` stands for
`src/packages/pi-stuff/src/`.

Contents: [system](#1-the-system) · [hard behaviours](#2-what-is-hard-here) ·
[modules](#3-the-modules) · [runs](#4-the-runs) ·
[bounds](#5-bounds) · [fairness](#6-fairness) · [proofs](#7-proofs) ·
[findings](#8-where-code-and-comments-disagree) ·
[abstractions](#9-what-the-models-leave-out) · [plan](#10-plan).

## 1. The system

The suite's own rule of ownership (`src/docs/architecture.md`): foreground Agent
work belongs to Pi, continuation to Goal, delegated work to Agents, processes to
Background Work, the projection of the context to Context Management. The parts
therefore meet at few places: the Session of the Host (entries that a branch
replays, messages that start a turn), files of the Session shared by several
processes, and process groups.

| Component | State it keeps | Operations | Meets |
| --- | --- | --- | --- |
| Session governor (`subagents/.../session-governor*.ts`) | one durable ledger per Agent session: limits, a total, Agent records, leases of running Agents; a file under a kernel lock, replaced by rename | reserve a batch, resume, rebind, release one or a batch, abort a batch, reconcile, record work, import old records | every Host of the session and the Hosts inside child Agents |
| Execution coordinator (`agent-execution-coordinator.ts`) | invocations and the starts they claim, the active map, pending settlements and completions, a generation per session change | prepare, execute, observe a start, settle, fail, complete, reconcile, switch session | governor ledger; the engine that starts runners; runtime events |
| Runtime processes (`agent-runtime-liveness.ts`, `runner-process.ts`) | runner and writer processes, the startup gate, terminal records | acknowledge or abort a gated runner, judge a lease | coordinator, operating system |
| Session revival lease (`session-lease.ts`, `subagent-runner.ts`, `writer-process-registry.ts`) | a directory with `owner.json` beside a Session file; the registry of a run's writers | acquire, take over by rename, update, verify, release | detached runners of any Host |
| Result delivery (`result-processing.ts`, `result-watcher.ts`, `completion-dedupe.ts`) | a result file, its delivery record, seen keys, an epoch per session | claim, notify, emit, acknowledge over intercom, remove | runners (producers), Session (consumer), other Hosts |
| Code Mode ledger and passes (`code-mode/ledger*.ts`, `runtime.ts`, `controls.ts`) | executions folded from Session entries: calls by number, status, attempt | plan and settle a call, retry after a Host loss, approve, reject, abandon, expire, roll back | V8 Host process, Tools, commands, Session |
| Background Work (`background-work/src`) | activities and monitors of a Host, a runtime directory with the record of its process groups, outcomes that wait to be told | launch under a supervisor, authorise, stop, finalise, tell in batches, recover what a dead Host left, shut down | process supervisor, Session, a later Host |
| Goal (`goal/src`) | the Goal, its queue and a pending change of it, prompts and continuations on their way, whose run it is, usage | start, edit, pause, resume, add, prioritise, skip, clear; continue, recover, wrap up at a limit; complete or block | every Agent run of the Host, the Session's entries, prompts other Capabilities prepare |
| Todo (`todo`) | tasks and ids in snapshots on a branch | reduce, snapshot, replay | Session branches |
| Session naming (`session-naming`) | name state of a Session, one rename at work | generate, accept, restore | Session |
| Settings file (`shared/settings-io`) | namespaces of one JSON file, a copy of its namespace in each store | load, commit under a gate and a kernel lock, merge, replace by rename | every Host |
| Notification, MCP, Web, Context Management, user interface, RTK, Codex and the rest | connections, views, debounce timers | | external programs, the terminal |

What makes each correct, in short:

- governor: at no time more Agents run than the strictest limit recorded for the
  session, and no history is lost;
- coordinator and processes: an Agent that works holds a slot, a slot whose Agent
  is gone comes back, and no process runs that the next Host could not find;
- lease: one writer of a Session file; an abandoned lease is not the end of it;
- delivery: every result reaches its Session, in it and once;
- Code Mode: an effect is not repeated, not executed unapproved and not built on
  when its outcome is unknown;
- Background Work: a command runs only once it is recorded for recovery, and a
  process number is signalled only while it names that command;
- settings: no Host takes from the file what another wrote;
- Goal, Todo, naming: what the user last decided survives whatever was on its way
  when he decided it.

`PROJECT.json` lists all components with their status, and the hazards: the
lines at which each of these can go wrong.

## 2. What is hard here

*Interleaving.* Hosts share a ledger, runners share a lease, commands and runs
share an execution. Each ledger transaction is atomic; the code around it is
not, and works with handles, observations and snapshots of an earlier state.

*Crashes.* A Host may die between reserving, starting, binding and settling; a
runner between any two system calls of a release; a Code Mode run between an
effect and its record.

*Order of reports.* The start event of a run, the return of the engine, the
report of its end and the end of its processes arrive in every order.

*Retries.* Settlements and completions are retried until they succeed, against
ledgers that meanwhile changed.

*Evidence.* A semantic end (status file, result) is not the end of a process,
and a process number is not an identity.

## 3. The modules

| Module | Lines it stands for | Role |
| --- | --- | --- |
| `SessionLedger` | `session-governor-ledger.ts`, `-spawn.ts`, `-contracts.ts`, the callbacks of `session-governor.ts` | the ledger as a value; every transaction as a condition and an operator from ledger to ledger |
| `AgentSlots` | (abstract) | what a governor promises: a roster and a capped set of running Agents |
| `SessionGovernor` | `session-governor.ts` with its callers in `agent-execution-governor.ts` | clients that transact on one ledger with handles of an earlier state; implements `AgentSlots` |
| `RuntimeProcesses` | `agent-runtime-liveness.ts`, `runner-process.ts`, `owner-exit.ts`, the foreground frame | Hosts, gated runners, writers, and what a Host may conclude from them |
| `AgentCoordinator` | `agent-execution-coordinator.ts`, `durable-agent-operation.ts`, `agent-execution-governor.ts`, `public-agent-execution.ts`, `runtime-events.ts` | one Host at a time that ties launches to leases and processes; extends `RuntimeProcesses`, which extends `SessionLedger` |
| `SessionLease` | `session-lease.ts`, `subagent-runner.ts`, `writer-process-registry.ts`, `child-process-engine.ts`, `writer-process-supervisor.mjs` | runners that compete for a Session file, one system call per action |
| `CodeModeLedger` | `ledger.ts`, `ledger-state.ts`, `runtime.ts`, `controls.ts`, `host/delegate-runtime.ts`, `host/host-client.ts` | one execution, the passes that run its program, and the commands on it |
| `CompletionNotifier` | `extension/completion-handling.ts`, `conversation-ui/suite-agent-message.ts` | of every Host, the completion message of one run on its way into the conversation |
| `ResultDelivery` | `result-processing.ts`, `result-watcher.ts`, `completion-dedupe.ts`, `root-session-runtime.ts`, `private-directory.ts` | one result file between the Hosts that watch its directory; extends `CompletionNotifier` |
| `WorkProcesses` | `process-supervisor.mjs`, `process.ts` | a supervisor, the group it leads, and a number the system may give to others |
| `WorkNotices` | `background-work/src/runtime.ts`, `monitor.ts` | outcomes in batches; monitors; extends `WorkProcesses` |
| `OutcomeQueue` | (abstract) | what a Session is promised about outcomes |
| `BackgroundWork` | `runtime.ts`, `shell-activity.ts`, `shell-activity-launch.ts`, `storage.ts` | launch, end and recovery of commands by several Hosts; extends `WorkNotices`, implements `OutcomeQueue` |
| `SharedSettings` | (abstract) | a file that changes by whole changes of one namespace |
| `SettingsStore` | `store.ts`, `lock.ts`, `file.ts` | the stores of several Hosts; implements `SharedSettings` |
| `GoalState` | `goal/src/runtime.ts`, `policy.ts`, `queue.ts`, `prompt-ownership.ts`, `persistence.ts` | the memory of the Extension as a value, every method an operator on it |
| `GoalRuntime` | `goal.ts`, `commands.ts`, `terminal-tools.ts`, `session.ts` | handlers of the Host's events, commands and Tools, and the Host around them; extends `GoalState` |
| `MC...` | | instances for TLC |
| `...Proofs` | | theorems and their proofs, a module for each component; `SharedFilesProofs` has those of the two files `SettingsStore` and `SessionLease`, whose definitions therefore have names of their own |

`PROJECT.json` maps every definition that models code to the lines it models.
The operators named `..._<Slip>` under the heading "A plausible slip" are not
part of the models: each is what a definition would be after a small mistake in
the code, and shows that a property notices it.

**SessionLedger and SessionGovernor.** `transact` of the code takes a kernel
lock, parses the ledger, runs a callback and commits by rename. So a transaction
is one step; the early returns of the callback are its condition
(`SpawnAllowed`, `RebindAllowed`, ...), the assignments its operator
(`AfterSpawn`, ...). Agents and leases are sets of records and not functions on
ids: that ids and runtime addresses are unique is what `parseLedger` checks and
the transactions must keep. A client keeps, as the code does, the leases *as they
were acquired* (a reservation), a lease it found by an address, or the leases it
observed dead before it took the lock; it may use them when the ledger has moved
on. A client that forgets is also a process that died.

**RuntimeProcesses.** A lease names the Host that reserved it, or, once bound, a
run. A detached runner waits behind its gate until it is acknowledged or
aborted; a foreground run is a frame of the Host itself, whose end is recorded by
`owner-exit.ts`. `ProvablyDead` is the verdict of `runtimeProcessState`; where
the code cannot tell, it answers "unknown" and the lease stays.

**AgentCoordinator.** Every `await` of the code separates two actions. An
invocation goes through reconcile (two steps), reserve, engine call, start
event, binding of each child, acknowledgement and settlement; settlements and
completions are records of work in progress (`pending`, `completions`) that start
over after a fault. `generation` is even while the Host is bound to the session.
`Crash` loses all memory and leaves the ledger and the detached processes to the
next Host.

**SessionLease.** The lease is a directory; `rename(2)` replaces only an empty
one. `Create`, `ReadOwner`, `JudgeRunner`, `JudgeWriters`, `MoveAside` are an
attempt to acquire; `Publish`, `Verify`, `WriteOwner` record a state of the
writer in the registry of the run and in the lease; `Launch`, `OpenGate` start
the writer group; `ReleaseRead`, `Unlink`, `RemoveDirectory` release. A runner
or its supervisor may die between any two.

**CodeModeLedger.** A pass numbers the calls of a program that may call anything
at any number (`Next` chooses the Tool), which over-approximates every
deterministic and nondeterministic program. The actions from `PlanPauses` to
`PlanRefused` are the branches of `planCall` and what its callers make of them, in the
order of the code. While the execution is not running, a Tool is answered with the pause
(`delegate-runtime.ts:260`), but a named step is executed (`PlanStrays`): `beginStep` looks
at the replay only. `flights` are invocations whose
answer is outstanding, `held` marks such a step, which has no call of its own; `Matches` is the
check of attempt, status and name before an answer is recorded, and `Records` says that
the helper of the connector records a step only when its function returns. `HostLoss` settles the Tool calls in flight the way
`failAll` of the delegate does, and the pass retries once. Commands act on the
same state. The variables under `history` (`started`, `approved`, `rejected`,
`unrecorded`, `refused`, `undone`) influence nothing; properties are
stated over them.

**CompletionNotifier and ResultDelivery.** `handleResult` holds a kernel claim from
its begin to its end; every `await` in it separates two actions (`Places`), so
that a change of Session, a crash, a new version of the file, an expired key or
a turn of the user may come between any two. The delivery record is what a
restart goes on from, and a version stands for the inode and the content of
the file. When a Session is left, the attempt is interrupted, but an operation
it handed to the file system still ends later (`late`). The notifier is a small
protocol of its own with the agent loop of Pi: wait until the Host is idle,
prepare, send, see the message in the conversation, see it in a provider request.
`told`, `row` and `stopped` are entries of the Session and survive a crash, the
other variables are memory of a Host.

**WorkProcesses, WorkNotices and BackgroundWork.** A launch spawns a supervisor
that waits for an authorization file; the Host first writes the number of the
group into its recovery record and only then the authorization. `launch` is the
call that launches, `fin` the finalization of the activity, `heard` the last
report read from the control pipe, `record` the recovery file of each Host,
`scan` the recovery of a Host that starts. Stop, timeout, shutdown, the loss of
the supervisor, the end of the Host and the recovery by another Host interleave
with every step. `sup` and `cmd` are the processes as the operating system
knows them; a supervisor that has forked and not yet installed its handlers dies
of the SIGTERM that later only makes it stop its command, and a number that is
free may come to name an unrelated group (`other`). A Host takes the outcomes
that wait (`notices`) into a flight and sends it in batches; a failed batch goes
back in front of what settled meanwhile.

**SettingsStore.** Each capability of each Host has a store of one namespace. A
call waits for the gate of its store, takes the kernel lock of the file, reads
its namespace, plans, reads the whole file, merges, and renames the new file into
place: six steps, between which other stores, crashes, timeouts, interrupted
callers and failed operations come in. `Unread` are the namespaces whose change
replaces the namespace without a read, `Lifting` those that remove a legacy
file after the write.

**GoalState and GoalRuntime.** `GoalState` holds the memory of the Extension in
one record `rt`; its operators are the methods of the code, from memory to
memory, so that a handler which calls five of them is one step that composes five
operators. `GoalRuntime` adds the Host: a run delivers messages from `inbox`, the
model replies, Tools run, turns and runs end in the ways the Host reports, and
`rt.sends` are prompts that other Capabilities still prepare, during which
anything else may happen. `rt.saved` is what the Session holds. Random ids and
markers are the least number nothing refers to, which keeps the state finite and
assumes of them only what randomness gives: that they are fresh.

### How they compose

`SessionLedger` is used twice: by `SessionGovernor`, where arbitrary clients do
everything the exported functions allow, in any order, and by
`AgentCoordinator`, where one real client uses them in the order of its code and
the world around it decides who is dead. The first proves what the ledger keeps
against any caller, the second checks what the caller makes of it.
`SessionGovernor` is shown to implement `AgentSlots` through
`INSTANCE AgentSlots WITH cap <- ..., roster <- ..., running <- ..., fresh <- ...`,
`BackgroundWork` to implement `OutcomeQueue` with `waiting` as the flight of a
Host followed by its notices, and `SettingsStore` to implement `SharedSettings`
with the file itself.

## 4. The runs

| Run | Checks | States |
| --- | --- | --- |
| `governor_shared` | `LedgerParses`, `RunningWithinLimit`, `OnlyKnownLeaseRemoved`, `ImplementsSlots` | 745 thousand |
| `agents_batch` | `WorkIsLeased`, `GateAfterBinding`, `ReleaseNeedsProof` | 1 918 thousand |
| `agents_resume` | `EndedIsReleased`, `SettlementsFinish` | 44 thousand |
| `agents_ambiguous` | `OwnStartConsumed`, which does not hold (section 8) | 1 thousand |
| `lease_pair` | `WorkIsRecorded`, `ReleaseIsQuiet`, `TakeoverIsProved`, `AbandonedLeaseIsTaken` | 12 thousand |
| `lease_trio` | `OneWriter`, which does not hold (section 8) | 165 thousand up to the violation |
| `code_turns` | `EffectOnce`, `ApprovedFirst`, `RepeatNeedsFault`, `LatestAttemptWins`, `UnrecordedBlocks`, `RejectionIsFinal` | 4 851 thousand |
| `delivery_hosts` | `RecordIsTrue`, `ToldOnce`, `NotIntoOtherSession` | 2 948 thousand |
| `delivery_leaves` | `RemovedIsDelivered`, `OnlyReadIsRemoved`, `ResultsLeave` | 703 thousand |
| `work_hosts` | `NothingUnrecorded`, `OthersSpared`, `ToldInOrder`, `OrphansEnd`, `LaunchesSettle`, `OutcomesAreTold` | 144 thousand |
| `settings_hosts` | `WritesAreAtomic`, `MemoryFollowsFile`, `CallsFinish` | 190 thousand |
| `goal_runs` | `SavedIsLive`, `UsageIsChargedOnce`, `OneContinuation`, `StoppedStaysStopped`, `StaleWorkIsStopped` | 2 076 thousand |

**governor_shared** shows that no order of transactions by the root Host and the
Host inside its child, with stale handles and imports in between, leaves a
ledger the next reader would refuse (`LedgerParses`), exceeds the running limit
(`RunningWithinLimit`), or removes a lease on behalf of somebody who did not know
it (`OnlyKnownLeaseRemoved`); and that all of it is what `AgentSlots` promises.
That no Agent gets deeper or wider limits than the path above it
(`LimitsRespected`) and that no record of the past is changed (`HistoryKept`) is
proved (section 7).

**agents_batch** has two scenarios, told apart by the ledger it opens with (the
constraint `Scenario`). With two slots it launches two children in the background: in
every order of start event, engine return, child reports, reconciliation and session change,
with one failed transaction and a crash of the Host anywhere: a working child
holds a slot, the gate opens only when *all* children are bound, and a slot is
freed only when the writer is gone, also by the second Host, which sees only
ledger and processes. With one slot, a foreground launch and a resume compete for it in a
Host that lives on; a foreground run may fail, return an unreadable result, or be
cancelled. Hosts are symmetric (`HostsAlike`).

**agents_resume** adds to a resume (whose run id only the engine knows, so that
a start event has to be matched to an invocation) a crash, a session change and
a failed transaction, and checks that its slot comes back: a report of the end
that overtook the binding is not lost, and every settlement that was begun ends.

**agents_ambiguous** lets two resumes wait for their start events at once, which
is the only way the two can be confused (section 8).

**lease_pair** has two runners with crashes of runners and supervisors at every
point: what a writer does is on record, an owner gives up its lease only when nothing of
its writer's group is left, also when the supervisor that led the group ended first,
another runner takes the lease only when owner and group are gone, and whatever a dead
runner left is taken by the next.

**lease_trio** has three, the least number with which a contender can have read an
owner, another one acquire the lease after it, and the contender act on what it
read. Two writers then work at the same time (section 8).

**code_turns** has three runs of an arbitrary program, two calls long, over a
guarded and a repeatable Tool and a named step, which may go on calling after a pause, with two faults among Host losses, failed
appends and restarts, rollbacks in the turn, approvals, rejections and
expiry. `EffectOnce` is about Tools: a step that is begun while an approval is waited for
runs now and again after it (section 8); what is left of the discipline for such a step is
in `LatestAttemptWins`, its result settles nothing. An inverse operation runs before it is recorded (`controls.ts:83-84`), so
one that was interrupted in between is repeated by the next rollback;
`RepeatNeedsFault` says that this is the only way to repeat it.

**delivery_hosts** has two Hosts, each of which may enter the Session of the run or
another one, with a crash or a change of Session and a failed operation at any
point. The conversation is told once per Host, the delivery record says only what has happened although a write may outlive its
attempt, and nothing enters a Session the result does not belong to.

**delivery_leaves** has one Host and a result that names an intercom addressee and
whose writer replaces it once, at any point. The file goes only after it was
delivered or acknowledged, announced, and the end of its processes is durable; a
replacement that arrives during the removal is not lost; and a watched result
leaves the directory in the end.

**work_hosts** has one Host that launches a command under a supervisor and starts
a Monitor, and a later Host that only recovers what the first recorded. Stop,
timeout, exit, an end of the Session and a crash come in every order, one
operation on the file system may fail or one supervisor be lost, and the number
of an ended process may be given to another. Whatever is recorded or rolled
back meanwhile, no command runs that the record does not name; recovery signals
nothing else; outcomes are told in their order; and under fairness the
supervisors of a dead Host end, a launch answers, and what settled is told.

**settings_hosts** has two Hosts and two namespaces of one file, one that is
changed field by field and one that is replaced without being read, from any
content of the file. Three calls, with interrupted callers, a lock that times
out, one failed read or write and one crash, never lose a change of the other
Host or the other namespace, and each call ends.

**goal_runs** has a Session with a Goal at work and a queued one with a budget.
Two commands (start, replace, queue, prioritize, drop, skip, edit, pause, resume,
status, clear), one input of the user, two responses that report usage and one fault (a
failed prompt, an error of the provider, a crash) are interleaved with the
preparation of prompts, the messages on their way to Pi and the settling of runs.

### Why each property is worth its run

`OnlyKnownLeaseRemoved` and `ReleaseNeedsProof` are about observations made before
a lock was taken. `GateAfterBinding` is what makes a crash after the gate harmless.
`WorkIsLeased` relates processes, status files and the ledger.
`EndedIsReleased` needs three messages in an unfortunate order to fail.
`TakeoverIsProved` rests on two checks made at different times, `ReleaseIsQuiet` on
the registry that three processes keep of a group, which may outlive its leader.
`LatestAttemptWins`, `UnrecordedBlocks` and `RejectionIsFinal` span several
runs of one program. `RepeatNeedsFault` counts two effects against each other.
`RecordIsTrue` relates a file to events in several processes, `ToldOnce` and
`OnlyReadIsRemoved` fail only when a second version, Session or turn comes between
two particular steps. `NothingUnrecorded` and `OthersSpared` relate the recovery
record to processes of two Hosts, one of them dead, and to process numbers that
were given away; `ToldInOrder` is the refinement of a queue by two lists, one of
them in flight. `WritesAreAtomic` says that a change computed from an old read
is applied to the file as it is later, and `MemoryFollowsFile` that the value two
awaits later is still the file's. `SavedIsLive` relates memory and Session
entries over rollbacks of prompts that were overtaken; `UsageIsChargedOnce` sums
over Goals that displaced each other; `OneContinuation`, `StoppedStaysStopped`
and `StaleWorkIsStopped` are about messages that arrive after the Goal they were
sent for has changed. None of them restates a guard: for each,
`PROJECT.json` names a small change of the code under which TLC finds it violated.

The type invariants of the components are proved and are no run's subject. Those of
Goal are parts of the invariant of section 7 (`IsMemory`, `Sensible`, `IsBox`).

## 5. Bounds

| Bound | Value | Why it is enough |
| --- | --- | --- |
| `Clients` | root and child Host | every transaction takes the ledger as it finds it; a third client of the root behaves like the first with another handle |
| `MaxBatch` | 2 | a whole and a half batch differ |
| `MaxTokens` | 3 | a batch of two, and a lease acquired again after a release; the running limit is 2, so it can be exceeded |
| `MaxWork`, `CostGuard` | 1 | below and at the budget |
| `Times` | `{1}` | the clock decides nothing that a property mentions |
| `Histories` | two sets | a record, and a record with its owner |
| `Invocations`, `Openings` | one of two children with two slots, or two of one with one slot | partial binding needs two children, contention two invocations and one slot |
| `MaxGeneration` | 0 or 1 | bound, and left, with a crash after which the successor is bound; section 7 says what a return would add |
| `MaxFaults` (coordinator) | 0 or 1 | one failed attempt of a settlement or a completion is retried in every place |
| `Hosts` | one or two | a crash and its successor |
| `Runners` | 2, or 3 | an owner and a contender; the theorems cover any number; a third one is a successor between the two (`lease_trio`) |
| `MaxAttempts` | 4 | the code's own |
| `MaxCalls` | 2 | one call behind another |
| `MaxPasses` | 3 | the first run and two approvals; each retries once after a Host loss |
| `MaxFaults` (Code Mode) | 2 | a Host loss and a restart, or a loss in each of two runs |
| `Overlap` | FALSE | whether one command may be entered during another is decided by the Host; three theorems assume FALSE, the others hold for both values (section 7) |
| `Hosts` (delivery) | 2, or 1 | a Host that goes and one that takes over |
| `MaxVersions` | 1, or 2 | a file, and the file that replaces it |
| `MaxMoves`, `MaxFaults` (delivery) | 1 | a change of Session or a crash, and a failed operation, at every point |
| `MaxTurns` | 1 in `delivery_leaves`, 0 in `delivery_hosts` | one turn of the user in the way; a turn of the user can break `ToldOnce` (section 8), so the run about it has none; the theorem allows all others |
| `Addressed` | `{FALSE}`, `{TRUE}` | each run takes one of the two ways through `deliverCompletion` |
| `Hosts`, `Workers` (Background Work) | 2, of which 1 launches | the later Host recovers; one that also launches would only add a copy of the first |
| `Tasks`, `Monitors`, `MaxActivities` | 1, 1, 2 | a command and a Monitor compete for the places and for one batch |
| `MaxBatch` | 1 | with two outcomes the second batch has to wait for the first |
| `MaxFaults` (Background Work) | 1 | a failed operation or a lost supervisor, at every step; crashes are not counted |
| `MaxCalls`, `MaxFaults` (settings) | 3, 1 | a call, one in the queue behind it and one of the other Host; a failure or a crash |
| `Fields`, `Values` | 2, two values | a change of one field beside another; an old and a new value |
| `TurnLimit` | 2 | the automatic turn that reaches the limit is not the first |
| `MaxQueued` | 1 | an empty and a full queue |
| `Budgets` | none, or 1 | a Goal without a budget and one that a response exhausts |
| `MaxCommands`, `MaxInputs`, `MaxFaults`, `MaxResponses` (Goal) | 2, 1, 1, 2 | a command that overtakes the effect of another, a user run and a fault among them, a response for each of two Goals |
| `Ids`, `Marks` | 1..9, 1..8 | as many as these bounds can use |

`governor_shared` checks for deadlock. The other runs end when all invocations,
runners, passes, commands or calls are done, so they do not.

## 6. Fairness

Only `agents_resume`, `lease_pair`, `delivery_leaves`, `work_hosts` and
`settings_hosts` assume any; no property of Goal needs it.

- A durable operation is repeated until it is done: `RETRY_DELAYS_MS` of
  `durable-agent-operation.ts` has no last attempt. So settlement and completion
  steps are weakly fair, per invocation and per child; a fault step is not, and
  `MaxFaults` ends the faults.
- An invocation takes its next step: the engine returns, an awaited binding
  continues.
- Writers and runners of a run come to an end, and the end of a child is
  reported. Nothing requires a session to change or come back, a
  reconciliation to be made by anybody else, or a Host to crash.
- A live runner of a lease takes its next step (`WF_vars(RunnerStep(r))`); no
  writer group has to end. `AbandonedLeaseIsTaken` therefore speaks of leases
  whose writers have ended, and of a runner that stays alive.
- A watching Host scans its directory every three seconds (`Notice`) and begins
  what it scheduled; an attempt takes its next step, and an acknowledgement has a
  timeout, so the step without an answer is weakly fair with the rest of the
  attempt. The agent loop goes on: gate, send, provider request, end of a turn.
- Three assumptions are about others: an addressee that is asked again and again
  acknowledges at last (strong), a message handed to the agent again and again
  appears in the conversation at last (strong), and the end of the run is observed.
  Without the first the code keeps the file, as it should. A Session that is left
  is no violation: `ResultsLeave` speaks of a Host that goes on watching.
- A supervisor does what it has begun (its own timers poll for its parent), and
  what it stops ends at the latest by SIGKILL. A Host of Background Work takes the
  steps that its timers, promises and pipes are due for: those of a launch, of
  the end of an activity, of a shutdown, of the recovery scan and of a batch of
  notifications. No command has to exit and no Session has to end.
- The event loop of a Host resumes what a settings call awaits, and the wait for
  the lock is polled until it has the lock or its time is over. That the lock can be
  had is not assumed: a call that never gets it fails.

## 7. Proofs

| Theorem | For every value of the constants |
| --- | --- |
| `SessionGovernorProofs!TypeCorrect` | types of ledger and clients |
| `SessionGovernorProofs!LedgerAlwaysParses` | no order of transactions commits a ledger that `parseLedger` refuses |
| `SessionGovernorProofs!NeverOverbooked` | never more leases than the running limit of the session |
| `SharedFilesProofs!LeaseTypeCorrect` | types; no fifth attempt |
| `SharedFilesProofs!WorkRecorded` | a writer that works is recorded as running in the registry of its run |
| `SharedFilesProofs!TakeoverProved` | a lease is moved aside only when the owner that was read is dead and its writer group gone |
| `SharedFilesProofs!ExclusionUpToRename` | one writer at a time, unless a takeover renamed a lease it had not read; `TwoRunnersExclude`: with two runners none does |
| `CodeModeLedgerProofs!TypeCorrect` | types |
| `CodeModeLedgerProofs!NoEffectRepeated` | a call of a Tool that may not be executed again is invoked at most once |
| `CodeModeLedgerProofs!NoEffectUnapproved` | no guarded Tool runs before its recorded action was approved |
| `CodeModeLedgerProofs!RepeatAlwaysNeedsFault` | an inverse operation is repeated only for another invocation or after a fault |
| `SessionGovernorProofs!LimitsAlwaysRespected` | no Agent is recorded with more than the session allows or launched too deep |
| `SessionGovernorProofs!OthersLeasesStay` | a lease is removed only through a client that was told its id |
| `SessionGovernorProofs!HistoryAlwaysKept` | no record of an Agent is lost or set back; only a launch that was never resumed can be undone |
| `SessionGovernorProofs!LedgerImplementsSlots` | the ledger implements `AgentSlots` |
| `CodeModeLedgerProofs!RejectedNeverStarts` | a rejected action is never executed |
| `CodeModeLedgerProofs!LatestAttemptAlwaysWins` | only the latest attempt of a call settles it |
| `CodeModeLedgerProofs!UnrecordedAlwaysBlocks` | an effect whose record failed blocks what comes behind it |
| `SharedFilesProofs!TypeCorrect` | types of stores, lock and file |
| `SharedFilesProofs!AtomicWrites` | the stores implement a file that changes by single atomic changes |
| `SharedFilesProofs!MemoryIsCurrent` | a value in memory changes only to what the file then holds |
| `ResultDeliveryProofs!TypeCorrect` | types of files, memories and attempts |
| `ResultDeliveryProofs!RecordAlwaysTrue` | the delivery record says only what has happened |
| `ResultDeliveryProofs!OnlyDeliveredRemoved` | a result is unlinked only after delivery, acknowledgement or notice |
| `ResultDeliveryProofs!OnlyReadAlways` | nothing is unlinked that no attempt has read |
| `ResultDeliveryProofs!ToldOnceUnlessTurned` | a conversation is told once, unless the user starts a turn while the message is prepared; `ToldOnceUndisturbed`: without turns of the user, always |
| `ResultDeliveryProofs!NothingForOthers` | nothing enters a Session the result does not belong to |
| `BackgroundWorkProofs!TypeCorrect` | types of processes, launches, records, scans and queues |
| `BackgroundWorkProofs!NothingUnrecordedAlways` | no command runs that a later Host could not find |
| `BackgroundWorkProofs!OthersAlwaysSpared` | recovery signals nothing but what a dead Host left |
| `BackgroundWorkProofs!OutcomesInOrder` | queues and flights implement `OutcomeQueue`: each outcome told once, in its order |
| `GoalRuntimeProofs!Invariance` | memory, saved state, prompts under preparation and accepted messages agree |
| `GoalRuntimeProofs!ContinuedOnce` | at most one continuation on its way would do work, unless a cancelled one was put back |
| `GoalRuntimeProofs!LiveIsSaved` | what a crash leaves is the Goal, queue and pending change that were in memory |
| `GoalRuntimeProofs!StaleAlwaysStopped` | while no fault happened, what arrives too late is aborted |
| `AgentCoordinatorProofs!Invariance` | what maps, reservations, starts, settlements and completions know of each other and of the processes |
| `AgentCoordinatorProofs!TypeCorrect` | types of the coordinator and of the processes |
| `AgentCoordinatorProofs!WorkAlwaysLeased` | a child at work has a lease |
| `AgentCoordinatorProofs!GateAlwaysAfterBinding` | a runner passes its gate only when all children of its invocation are bound |
| `AgentCoordinatorProofs!ReleaseAlwaysNeedsProof` | a lease of a detached run is removed only when its writer is gone |

Assumptions are those the modules name: the types of constants
(`ClientsAssumption`, `BoundAssumption`), disjoint policies of a Tool
(`PolicyAssumption`, which `planCall` enforces), validated import records
(`HistoriesAssumption`, which `importHistoricalAgents` enforces), bounds that are
numbers (`VersionsAssumption`, `BoundsAssumption`), changes and defaults that are
records of a namespace (`SettingsAssumption`; a namespace that is never read is
replaced whole), and that `NoOwner` is no owner record. `RejectedNeverStarts`, `LatestAttemptAlwaysWins`
and `UnrecordedAlwaysBlocks` assume `Overlap = FALSE`, as the run does. Of the
coordinator: launches and resumes have run ids of their own (`RunIdsAssumption`,
the random ids of the code), a resume names one child and is never foreground
(`InvocationsAssumption`), Hosts are no runs (`HostsAssumption`), and the ledger it opens
parses and has no lease (`OpeningAssumption`). Its theorems assume
`NoStraggler`, which is not an assumption of the module: see below. Of Goal: ids and
markers are numbers and limits are numbers (`GoalAssumption`), and a Session that starts
holds what Goal itself leaves and saves (`SessionsAssumption`: no complete Goal without a
change that waits, no queue without a Goal, an advance of the Goal it names); a saved state
that some other program wrote is not considered. Its theorems assume besides that there
are infinitely many markers, which no instance for TLC can have, so that a fresh one exists however many
are in use (in the code a marker is a random number), and `NoneIsNoRecord`: `None` is not a
record, as a model value is not.

**The governor.** Neither property is inductive. That the count of leases stays
within the limit needs that batches are counted right, hence that ids in the
batch are new and distinct from those in use; that ids stay unique needs that
leases belong to Agents and the total counts Agents; and that a child Host
reserves within the session's limit needs that no record grants more than
the session. `SessionLedgerProofs.Sound` is the conjunction of these, and the
module has one lemma per transaction (`SpawnSound`, `ResumeSound`, `RebindSound`,
`AbortSound`, `ImportSound`, ...) that takes a sound ledger, and *any* handle,
however stale, to a sound ledger. `SessionGovernorProofs` lifts them over the steps
of the clients: its invariant `IInv` is `TypeOK`, `Sound(ledger)` and "no ledger
file, no Agents". Stale handles need no invariant at all: the lemmas quantify over
them. That is the argument for the design of the code, which compares a
lease's token under the lock and takes nothing else from the handle on trust.
The second half of the module proves what relates a state to the next: each step is one
transaction on the ledger as loaded (`StepIsTransaction`), and one lemma per
transaction says which leases and records it can touch. `FirstRuns` (an Agent
that was never resumed is in the run of its launch) is the one further invariant,
needed because an abort tells a launch from a resume by it.

**The lease.** `TakeoverIsProved` says that what two checks at two times found
still holds at a third, the rename. `IInv` carries it: `DeadHasEnded` (a dead
runner takes no step), `LaunchComesFirst` (a runner that is still acquiring has no
group), `RecordFollows` (the registry says "running" from before the gate opens
until nothing writes) and `Judged` (what each check established stays true,
because a dead runner starts no writer).

With three runners `OneWriter` does not hold (`lease_trio`, section 8). `ExclusionUpToRename` says
that the behaviour described there is the only way to break it: as long as
each rename moves the lease that was read, or an empty directory
(`TakesWhatItRead`), whoever works under the lease, and whose writer writes, is its
owner (`Exclusive`). Nothing else is needed of the system calls: that the token is read
before `owner.json` is written or removed, in steps of their own, does no harm, since
only a takeover from a dead runner could come between. `Latecomers` (a runner that
still acquires owns nothing) shows that two runners satisfy the condition.

**Code Mode.** `Accounted` relates each call of the ledger to the invocations it
had: unknown, none; pending, none, and approved if its execution runs; not
repeatable, at most one; guarded and invoked, approved. `Concludes` says that a
pass never settles its execution as running, without which a late settlement
could make an approved pending action run twice. Each action of a pass, each
settlement, the Host loss, the restart and each command has a lemma.
The turns need three more invariants: `OneAtATime` (of passes and commands, one
is active), `Ordered` (attempts are numbered upwards, no settlement is ahead of
its attempt, and the number of a step that ran while its execution was held belongs to no
invocation of that attempt: `Stray`) and `Blocking` (what a pass that may still invoke has passed, and
may not run again, was started by that pass and is recorded).
Compensation is a matter of accounts: `Repayment` says that every invocation of a
call pays for one inverse operation and every fault for one more, also while a
rollback is between the operation and its record. A target that is invoked again
after a rollback has chosen it is paid for once more, which is why the theorem
holds even when commands overlap.

**The settings.** `IInv` says what a store that holds the lock knows: what it read
is what the file still holds, because only the holder writes. The write step is
then one abstract change of `SharedSettings`, every other step a stutter.

**The delivery.** What the record claims is split over the flags of the record, the
attempt of each Host, and the writes that outlive it: `Claims` says of each flag
what it means, `Place` that an attempt that stands at a step has seen done what
lies before it, `Remembers` what the memory of a Host claims, `Notified` what its
notifier does. Since nothing that happened is undone (`HonestStays`), a claim
that was true when it was made is true when it is written. `NothingForOthers` adds
`WaitsAtHome`: what a notifier still has to say is of the Session it is in.
`ToldOnceUnlessTurned` has an invariant of its own, `Once`: a message that is prepared or on its
way is the only one (`Sole`), it was told to nobody yet, the attempt behind it waits for its
answer, and a Host at home that was told knows it. It needs that a prepared message
finds its Host idle, which is true until the user starts a turn; that turn is the
one of section 8, and `PreparesAlone` excludes nothing else: turns at any other moment,
crashes, changes of Session and interrupted deliveries are all allowed. TLC checked
`Once` with a turn of the user before it was proved.

**Background Work.** That a running command is on record is not inductive: what is
persisted is the set of activities the Host remembers, so `Kept` ties the record to
that memory, and both to whatever is at work, from the authorization on; `Unauthorized`
says that a supervisor has done nothing before it; `Concluded` relates the last report,
the finalization and the process, so that what is forgotten has ended. A record
survives its Host (`Directory`), and a scan that has passed over an activity has left
nothing of it (`Visiting`). `OthersAlwaysSpared` needs besides that no Host starts or ends
between a verdict and its signal (`ScansAlone`): the scan reads the number and its
start identity again before every signal. The refinement takes flight and queue of a
Host as one queue; what the steps need is that an outcome is queued only once
(`HasSettled`), that a failed flight goes back in front, and that the batch that is told is
a prefix of it (`BatchOfBoth`).

**The coordinator.** That a child at work is leased depends on everything the Host
remembers, because every lease of it is moved by somebody with a handle of an
earlier state. `IInv` has a part for each such memory. `CoverInv` and `WriterInv` are
the property and what precedes it: from the time the gate of a run can open
(`MayOpen`) until its writer is gone (`Engaged`), the run is `Bound`. `HandleInv` says what
may have become of a reserved lease: it is as it was reserved (`Unbound`), or was bound to
one run and moves no more (`BoundTo`), whether the start event or the settlement came
first. `BindingOK` and `SettlementOK` say how many children an attempt has bound and that
at most one settlement of an invocation is at work; `CompletionOK` that a report
is about a child that is over; `ObservationOK` that an observation, however old, is
about leases that were dead then and are so now (`Dead`), for nothing revives
them. `StartInv` is why a start that was attached to every waiting resume does no harm to
these properties: one that is consumed by another resume takes that one's lease to
a run that did start.

The module has some thirty actions and ten parts of the invariant. So the proof
does not go through each pair: `Moves` says what any step other than a crash may do to
the processes, the ledger, the phases and each memory; one lemma per action
(`PrepareReserveMoves`, `SettlementBindMoves`, ...) shows that it makes such a move, one per part shows that
moves keep it (`MovesKeep`), and `CrashKeeps` treats the crash, which forgets
every memory at once. `WorkIsLeased` follows from the invariant, the two action
properties from the invariant and `Moves`.

`NoStraggler` excludes two behaviours of the code, with which `WorkIsLeased` is
false (section 8). It is about the constants: the session is never left; or no
launch is in the foreground, and either nothing is resumed, however often the session is left and
entered again, or the session is left once and entered again only by the successor of a
Host that died. All runs about these properties satisfy it.

**Goal.** None of its properties is inductive. That one continuation is under way needs to
know where every marker is: `OneCarrier` (a prompt under preparation or an accepted message
carries it, never two), `Recorded` (a prompt that may still arrive has its record in
`prompts`), `IntentIsUnsent`, and `OneDelivery`: a continuation that is not cancelled
*is* the delivery, with an intent outstanding all are cancelled, and the delivery is for
the active Goal. `SavedOK` says that the saved copy names what memory names, or is the
one the loader refuses; `Sensible` what combinations of Goal, queue and change exist at
all, which is what the rollbacks depend on: a Goal put back must find its queue with
room. `Kept` (an accepted continuation is for the active Goal or cancelled) is why stale work is noticed; it
holds until a fault. `FirstContinues` and `Unstartedly` say when the inbox holds a continuation and
what a starting Session has not yet done.

The memory has 21 fields and a handler composes up to ten operators, so the proof does not
look at fields in the steps. `Keeps(r, q)` says that `q` has the Goal, queue, prompts and markers of
`r`, up to stopping the Goal with its continuation cancelled and saving; it is transitive
(`KeepsOn`), each operator that only accounts, notes, stops or saves has a lemma for it, and
`KeepsGood`, `KeepsSaved`, `KeepsKept` carry the invariant across it once for all. What
replaces, displaces or drops the Goal cancels what was under way (`Stops`), and what sends
takes a fresh marker (`FreshMarkIsNew`). For the inbox, `Origin` says that every message of the new
one comes from the old one, but for one that may be new; insertion before the follow-ups,
delivery and acceptance are instances of it.

TLC found on the way that `OneContinuation`, as first stated, does not hold (section 8): it
was true on the instances of the run and not inductive. `revived` marks the case.

TLC checked what became the invariants on the instances above before they were
proved; `IInv` of the coordinator also on a foreground launch of two children.

**Only model-checked:** everything under fairness (`SettlementsFinish`,
`EndedIsReleased`, `AbandonedLeaseIsTaken`, `ResultsLeave`, `OrphansEnd`,
`LaunchesSettle`, `OutcomesAreTold`, `CallsFinish`), since liveness and `ENABLED` are
beyond the provers used; `UsageIsChargedOnce` of Goal, whose sum over the queue is a fold
and needs induction over data, which those provers cannot do either;
and `StoppedStaysStopped`. What would break the last is a rollback that puts back a
queue older than the stop. That no prompt under preparation can still do so depends on the
order in which all of them were made (each rollback leads to an older Goal, never
back), a chain of any length, which again is an induction; TLC searched for a
counterexample also at random, with six commands and three faults.
Nothing that is proved needed an induction: that a first or last element exists follows
from the least-counterexample principle of the libraries (`WFMin`).

## 8. Where code and comments disagree

Two runs find a behaviour of the code that a comment excludes; `PROJECT.json` quotes the
lines.

`agents_ambiguous` (`OwnStartConsumed`): two resumes wait; the start
event of one is attached to both; the other one throws, takes it for its own and
aborts a healthy Agent.

`lease_trio` (`OneWriter`): a comment at `session-lease.ts:363-365` says that "only the
first can rename it and later contenders cannot move a successor lease by mistake". The
tombstone of a takeover protects a successor only against a second contender of the
same token. A contender that read an owner which then *released* its lease and ended finds no
tombstone and moves aside whatever lease the next runner has; it acquires the lease, and
the writers of both work on one Session file. With two runners there is no
successor. `ExclusionUpToRename` proves that nothing else lets two write.

The models have, or leave out knowingly, further behaviours that differ from
what a comment or a document says. No run is spent on them:

- *Coordinator, a start that straggles.* A resume is called, the Host leaves the
  session, comes back and calls another resume; then the first one reports its
  start. `observeAsyncStarted` (`agent-execution-coordinator.ts:305-345`) knows no launch of
  that run and binds it to the only resume that waits, whose lease moves to
  the other's run. Its own start finds it bound, and it works without a lease. TLC
  finds this with two resumes and `MaxGeneration = 2`.
- *Coordinator, a foreground child without a Host.* One whose start event is processed
  while the session is away stays unbound, so its lease names the Host. If that dies
  while the child lives, the next Host takes the lease for abandoned. TLC finds this
  with a foreground launch and `MaxGeneration = 1`.
- *Code Mode, a step during a pause.* The decision record 0009 says of a program that
  swallows the approval signal that "every later call in that pass also returns the pause and
  is not added to the ledger". For a named step this is so only of the second half:
  `beginStep` (`ledger.ts:479-483`) ignores the pause of its plan, the helper
  (`connector.ts:395`) calls the function, and recording its value fails, since the
  ledger has no such call. After the approval the step runs once more. `PlanStrays` is this
  behaviour. So `EffectOnce` as stated for Tools is false of steps: the program that
  makes a guarded call and then a step violates it within the bounds of `code_turns`.
- *Code Mode.* The loss of the V8 Host settles calls in flight as errors before the
  retry (`delegate-runtime.ts:314`), which replays them as known outcomes; the
  decision record promises `incomplete`.
- *Delivery.* A turn of the user begins and settles while the completion message
  is prepared. The settlement refuses the completion, the processor delivers it
  again, and the old batch, which looks its completion up by key, sends its
  message for the new one, which is sent once more by the next flush;
  `docs/capabilities/subagents.md` says that delivery is deduplicated.
- *Background Work.* `docs/capabilities/background-work.md` says that a timeout or
  stop terminates the owned process tree. A supervisor that gets SIGTERM after it
  forked its command and before its handlers are installed ends alone
  (`EndedUnheard` exempts it).
- *Goal, a full queue.* A replacing `/goal` fills the queue; a prioritization is
  accepted while its prompt is being prepared; the prompt fails or is outdated.
  The rollback restores the full queue beside the pending prioritization, which
  the loader (`persistence.ts:146`) takes for nothing, so that a reload loses all
  Goals, and `prioritizeQueuedGoal` throws when the run settles. `docs/capabilities/goal.md`
  says that the state is restored on reload. `SavedIsLive` exempts this state.
- *Goal, two continuations.* A prompt of the user cancels a continuation that is being
  prepared, and its run requests the next one; then the preparation of the first fails. The
  error handler of `dispatchContinuationIfSettled` (`runtime.ts:310-318`) puts the first back
  as the intent, in the place of the second, or beside it when that was dispatched; sent again it
  overwrites the delivery, and a second continuation that nothing cancelled can join it. The comment in `prompt-ownership.ts` at `markContinuationStarted`
  says that newer work cancels "both an unsent intent and a delivery" and that its end records
  a fresh intent. TLC finds this with four inputs, one fault and no command; `revived` exempts it.
- *Goal, continuation.* One whose preparation outlasts another run is refused and
  its intent lost, although an active Goal "continues after Pi settles"; and
  tracking that is cleared after an awaited send wipes the ownership of a run
  started meanwhile, whose automatic turns then go uncounted.
- *Goal, rollbacks.* A failed or outdated advance prompt pauses a Goal that was
  completed meanwhile, and leaves an accepted continuation uncancelled. A
  prioritized Goal that ended in a user run before its prompt is rolled back to
  the complete Goal, with the priority pending again. A Goal added or dropped while a
  replacing start or a prioritization is prepared is lost or restored.
- *Goal, usage.* An edit or resume while a run is busy charges the tokens that the
  old run reports (`tests/component-integration/goal/goal-resume.node.ts:277` and
  the document exclude them); after an edit in an automatic run the responses of the
  old run count for no Goal; and `/goal status` charges a stopped Goal for the user's own
  conversation.

## 9. What the models leave out

*Ledger.* `workUsage` is one total and the number of resumes; `maxTotal`, which
the code carries along and compares with nothing, is left out; boot identity, start time and directory of
a process are one member of `Procs`. A lock that times out is a transaction that
does not happen. `parseLedger`'s checks of field types are the type of `Ledger`.

*Coordinator.* The nested Hosts of child Agents are in `SessionGovernor` only.
The binding of a start does not wait for completions it drains, so the
model's order of the two is a superset. Model, context and worktree of a launch
are left out. Cancellation is an engine that throws or returns at any time.
A return to a session that the Host left is out of the bound of the runs.

*Lease.* One Session file, `rename` as POSIX defines it, and one writer per
runner. A recursive removal empties the directory and then removes it, unless it
was filled again. Owners of an older format and verdicts that only make a runner
refuse are left out, as are errors other than a crash.

*Code Mode.* One execution: the cache of a snapshot over branches, the trim to
fifty executions and snippets are left out. Results are not compared; a
settlement with the same status and another text counts as a new attempt or
not, nondeterministically. `never` and `record` behave alike in `planCall`, so a
Tool is guarded, repeatable or neither. The limit of concurrent calls is left
out (any number may be in flight). `RejectionIsFinal` holds with one command at a
time; if the Host lets a command start during another one, the end of a run that
was decided before its media were checked overwrites a rejection made
meanwhile. That depends on the Host, whose source is not in the repository, so
it is a hazard and not a finding.

*Delivery.* One result file and one completion in a batch: several of each share
the queue of `scheduleResult` and one message, which no property is about. The
message queue of Pi, the intercom broker and the end of a run's processes are
external. A goal that ends and a cancelled task both end the run (`EndRun`); the
check after `sendMessage` and the failing append of a continuation entry are left
out. `forgetIgnored` forgets a fingerprint that the next comparison would refuse
anyway. Two consequences of the code that no property forbids: a result rewritten
under a key that was seen is removed without another delivery, and an error in
reading the delivery record counts as no record, so that an addressed result
whose key was seen may be disposed of. Operations handed to the file system may
still unlink after the Session was left.

*Background Work.* A launch that is rolled back leaves its `completion` pending for
ever, which nobody awaits. Two Hosts that recover the same directory at once may
both remove it; the second removal throws and the preparation is retried. The
heartbeat of the metadata, the delays of retries, output files and their limits,
and the trim to 64 terminal receipts are left out.

*Settings.* A file that is no JSON is one content, `Invalid`. Legacy files are
defaults; edits by hand while a Host runs are left out, and so is an interrupt between
the last check of the acquisition of the lock and its return.

*Goal.* Tool visibility, the frozen queue and the settings UI, managed runs and
`run-protocol`, menus, legacy state, the usage of time, inputs of extensions,
compaction and the race of an idle check in `prompt()` are left out. The blocker
audit is a choice; the fingerprint that notices missing progress is left out.
A send is accepted in the step in which it returns; the Suite is ready when the
Session starts; what is persisted at that start is written at once; a reload
comes only when nothing is being prepared; a dialog remembers the live Goal with the
status it had when it was opened; the Goal that a failed advance prompt pauses is
the live one. There is no liveness: a Goal may be continued or not by rules that
depend on what the model answers.

*Not modelled at all* are the components marked so in `PROJECT.json`: some are
planned (below); Context Management, MCP and Web are adapters of external programs
and services, and the rest is rendering, prompt text and generated loading
order.

## 10. Plan

Done: the governor with its coordinator, processes and leases; Code Mode's ledger;
result delivery; Background Work; the settings file; Goal. What is left, in the
order of importance:

1. `TodoStore` and `SessionNaming`: small state machines over branches; every
   committed snapshot replays; the user's name wins.
2. Stale runs and terminal evidence; control and steering mailboxes.
3. A proof of `StoppedStaysStopped` of Goal.
4. A property of rollbacks that run during the turn they roll back (Code Mode).
