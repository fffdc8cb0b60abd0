# Branchdeck in TLA+

Branchdeck runs coding agents in git worktrees.  A daemon keeps a pool of agent
runs, each one a `node` process (the *sidecar*) that drives one SDK session and
speaks JSON lines over stdin and stdout.  Around the pool there is an
orchestrator that starts runs for pull requests and issues, and services that
watch, record and score what the agents do.

This directory holds a model of the **run manager** with its sidecars and its
files, of the **orchestrator** with its bus and timers, of the **satisfaction tests**
(SAT) with their fix-verify cycle and their records, and of the **activity store**, the
**pollers** and the **workflow dispatch**; the TLC runs that check them; and proofs, for every value
of the constants, of all the safety properties that the runs check but two.  Paths below are
relative to `crates/branchdeck-core/src/` unless they begin with `sidecar/`,
`crates/` or `docs/`.

| file | what it is |
|---|---|
| `RunPool.tla` | what the manager promises of a run: the abstract specification |
| `RunManager.tla` | the run manager, the worktree files, the sidecars, the stdout readers |
| `MCRunManager.tla`, `MCRunManager_*.cfg` | small instances for TLC |
| `KeyLife.tla` | what the orchestrator promises for a pull request: the abstract specification |
| `Orchestrator.tla` | the orchestrator, its event loop, effects and timers, the bus, the pollers, and the run manager as it sees it |
| `MCOrchestrator.tla`, `MCOrchestrator_*.cfg` | small instances for TLC |
| `SatScoring.tla` | the pure functions of SAT: scores, thresholds, fingerprints, comparison, outcome, metrics |
| `SatCycle.tla` | the SAT pipeline and the verification, over sat/runs, GitHub's issues and an agent that may die |
| `SatRecords.tla` | learnings.yaml and the false positives, and what replaces them |
| `MCSat.tla`, `MCSat_*.cfg` | small instances of the three |
| `ActivityStore.tla` | hooks, the store's maps, its log, replay, compaction and collector |
| `Pollers.tla` | the pull request and merge pollers over the GitHub client |
| `Workflows.tla` | the registry, the dispatch of a workflow and git's worktrees |
| `MCServices.tla`, `MCServices_*.cfg` | small instances of the three |
| `RunManagerProofs.tla` | theorems about `RunManager` for every value of its constants: types, capacity, readers, `RunPool` |
| `RunManagerStateProofs.tla` | its files, its permission requests, its queue |
| `OrchestratorProofs.tla` | `Orchestrator`: types, its limit, its claims, the refinement of `KeyLife` |
| `OrchestratorSessionProofs.tla` | its retries and timers, its closed pull requests, the ends of its sessions |
| `DataLemmas.tla` | induction over naturals, finite sets and sums, for the modules below |
| `SatCycleProofs.tla` | `SatCycle`: issues, the link to the latest run, the budget, the aggregate, what a verification means |
| `SatRecordsProofs.tla` | what the writers of `SatRecords` keep, and the rate of false positives |
| `ServicesProofs.tla` | `ActivityStore`: what is lost and what is remembered; `Pollers`: no merge is told twice |
| `PROJECT.json` | components, runs, mutants, map to the source, findings, hazards, theorems |

    tlc -config MCRunManager_pool.cfg MCRunManager
    tlc -config MCOrchestrator_claims.cfg MCOrchestrator
    tlc -config MCSat_sat.cfg MCSat
    tlc -config MCServices_services.cfg MCServices
    tlapm RunManagerProofs.tla          (and each of the other *Proofs.tla, and DataLemmas.tla)


## 1. Inventory

### The parts, their state and their operations

**Run manager** (`services/run_manager.rs`, `run_responses.rs`, `run_effects.rs`,
`run_stale.rs`, `run_state.rs`).  State, behind one tokio mutex: the map of active
runs (record, child process, stdin, last activity, pending permission requests),
the pending queue, `queue_completed`, `queue_failed`, `queue_cancelled`.  On disk,
per worktree: `.branchdeck/task.md` (its `status`) and `.branchdeck/run.json`.
Operations: launch, retry, resume, enqueue, batch launch, cancel one, cancel the
queue, remove a queued run, answer a permission request, the periodic stale check,
shutdown.  One tokio task per run reads its sidecar's stdout, applies each message
under the lock and, when the run has ended, starts queued runs (`try_advance`).
*Correct when*: never more runs than slots; one run per worktree; a run ends once,
with one outcome; no queued run is lost; the files say what the map says; a freed
slot is used; a permission request is answered.

**Sidecar** (`sidecar/agent-bridge.js`).  State: the abort controller of its session,
the pending permission promises, the heartbeat timer.  It runs one session and then
waits for its stdin to close.  *Correct when*: each promise is resolved and the run
ends with a terminal message or with the process.

**Orchestrator** (`services/orchestrator.rs`, `models/orchestrator.rs`).  State: `claimed`, `running`,
`retry_queue`, `completed`, `review_ready`, `retry_timers`, `merged_prs`, timelines.
Driven by events of the bus: PR status, issues, merges, run completions, due retries.
*Correct when*: one session per pull request or issue; a claim ends in a session, a
retry, a review or completion and is never stranded; attempts are bounded; closed
work is stopped.

**Event bus and bridge** (`services/event_bus.rs`, `event_bridge.rs`).  A broadcast
channel of 256 events; a slow receiver skips the oldest.

**Pollers** (`services/pr_poller.rs`, `issue_poller.rs`, `merge_poller.rs`) over the **GitHub
client** (`github.rs`, `github_retry.rs`).  State: the last lists, the merges published so far.
Each round asks for one repository after the other, with retries, and goes on without
those that fail; differences are published.  *Correct when*: what subscribers were told
becomes what is open; a merge is told once; no list is made up.

**Workflow registry and dispatch** (`services/workflow.rs`, `workflow_dispatch.rs`) with **git
worktrees** (`git.rs`).  State: the definitions as of the start, branches and worktrees, the
directories (*rooms*) in which runs work.  A trigger is matched, planned, and its effects
executed: worktree, context, skill, run.  *Correct when*: a matched issue gets its run
whatever an earlier attempt left behind.

**Activity store** (`services/activity_store.rs`) behind the **hook receiver**.  State: the maps
of agents and files, the last events, `activity.jsonl`.  Events are appended, then applied;
the file is replayed and compacted at start; a collector forgets what is silent.  *Correct
when*: the maps say what the events said; a torn line costs no more than one other; the silent go.

**SAT services** (`services/sat_*.rs`, `models/sat.rs`).  State: `sat/runs/<id>` with trajectories,
result, scores, issues, comparison and report, the link `latest`, the issues on GitHub, the
circuit breaker, `sat/learnings.yaml`, `.branchdeck/sat-false-positives.json`.  Operations: the
pipeline (generate, execute, score, file issues), the verification after a merge, labels and
metrics of false positives.  *Correct when*: `latest` names a whole run; a finding is filed
once; the budget holds up to one call; a verified cycle made nobody worse; no entry of a
record is lost; every call ends.

**Update manager**, **workflow lifecycle**: small state machines that nothing calls.
**Knowledge service**, **terminal**, **shepherd**, **configuration**, the **daemon shell**, the
**desktop shell** and the **frontend**: I/O, numeric code, wiring and views.  `PROJECT.json`
lists every component with its status and the reason when it is not modelled.

### How they interact

    HTTP clients --launch, cancel, approve--> run manager <--enqueue, cancel-- orchestrator
                                                |   ^                              ^
                                      stdin     |   | stdout (reader task)         | events
                                                v   |                              |
                                              sidecar        run manager --RunComplete--> event bus
                                                             pollers, hooks --events--->     |
    task.md, run.json  <-- run manager                       activity store, bridge <--------+

    issue workflows (Workflows) --agents--> SAT pipeline --issues (agent:implement)--> issue workflows
    merge --merge poller--> re-score workflow --agent--> SAT verification --regression issues--+

The daemon as built (`crates/branchdeck-daemon/src/main.rs`) wires the run manager
to three HTTP routes (launch, cancel, approve), `routes/runs.rs`.  It starts no stale
checker, orchestrator, poller or task watcher, and nothing in the repository calls
retry, resume, batch launch or cancel-queue outside tests; the orchestrator calls
enqueue, cancel and remove.  They are public operations of the library with tests of
their own, so the model has them all, and each TLC run names the operations of the
deployment it is about (constant `Ops`).

### What is hard here

Critical sections of the mutex interleave between the pop and the launch of a queue
advance, and several advances run at once (readers, clients).  Runs of the same task
follow each other while messages, the end of stdout, timers and answers of the
earlier ones are still on their way.  Sidecars crash, hang and throw after their
result.  The daemon restarts with runs active.  HTTP handlers are dropped half-way.
Permission requests overlap and time out.  In the orchestrator an event is handled
in one critical section, but what it decided is executed step by step afterwards,
while sessions end, timers fire and users relaunch or skip; the bus may drop events,
and the pollers publish differences only, of lists whose parts were asked for at
different times and may be missing.  A dispatch leaves branches and directories behind
when it fails.  A SAT agent may die between any two writes, and its caller tries again.
The daemon may die between the two writes of a log line.  `PROJECT.json` ("hazards") has the list,
each at its line, with the properties that cover it or the reason why none does.


## 2. The model

### RunManager

*Granularity*.  One action is one critical section of the manager's mutex, with every
effect the section has on memory, files and processes: file writes are synchronous
and done under the lock, so they belong to the section.  `try_advance` is three
actions (`PopPending`, `LaunchPopped`, `RequeuePopped`), `retry_run` two
(`RetryRun` reads task.md before the lock is taken, `RetryLaunch` launches).  The
task that executes such a function keeps its place and the popped entry in
`worker[w]`; workers are the clients and the stdout readers.

| variables | code |
|---|---|
| `active`, `info` | the keys of `RunManager.runs`; the `RunInfo` of each run, remembered after its removal so that later actions can be judged by it |
| `perms`, `expired`, `quiet` | `pending_permissions`; those older than 300 s; runs without activity for 120 s |
| `pending`, `queueCompleted`, `queueFailed`, `queueCancelled` | the queue and its counters |
| `taskStatus`, `runFile` | `status` of task.md; run.json (`NoRunJson`: no file) |
| `phase`, `out`, `asks` | the sidecar process: where it is, its unread stdout, each permission promise |
| `reader`, `worker` | the stdout reader tasks; where a task stands in a multi-section function |
| `nextId` | the next fresh UUID |

A sidecar's `phase` goes unborn, booting (spawned, request written), session
(after init), resting (result sent), spent (a second terminal message sent), exited;
"hung" is a process that writes nothing any more.  `asks[id][p]` goes fresh, waiting
(promise pending), answered (the answer is in its stdin), resolved; or
cut, when the handler that was writing the answer is dropped.

Actions and code: `LaunchRun` / `LaunchQueued` / `LaunchStarted` are `launch_run` with its
ways out, `StartRun` the part of it that `resume_run` repeats; `EndRuns` and `Settle` are
`mark_run_failed_by_id`, `cancel_run_by_id` and the loops over them (with the order of
a hash map where two runs share a task); `ReadTerminal`, `ReadEnd` and the other
`Read...` actions are the branches of `start_stdout_reader`; `CheckStale` is
`check_stale` with its caller's queue advance; `DropRequest` is the timeout layer
or a gone client dropping a handler at an await: the cancel handler between two sections
(`RequestDropped`), any launch or resume between the insertion into the map and run.json (`LaunchCut`,
`ResumeCut`), an answer that is half written (`RespondCut`); `DaemonRestart`
loses what is not on disk.  `PROJECT.json` ("map") gives the lines of every definition.

*Abstractions*.  Run ids are 1, 2, ... in the order they are minted.  A task is a
worktree: there is one task.md in each.  Time is the two predicates the code asks of
it (`quiet`, `expired`), which may become true at any moment.  Of messages, the
type, the request and whether the cost exceeds the budget remain; steps and
heartbeats only renew the activity, so `ReadActivity` writes and reads one at
once.  Launch options, artifacts, the run count, elapsed time, the cleanup
marker, event emission and the queries are left out.  `session_matches` never fails
in the code as it is (a sidecar sends its own session id or none), so it is not
modelled.  A write to a sidecar's stdin is done at once or, in a handler that is dropped, never ends;
in between nobody else runs, for the writer holds the manager's lock.

### RunPool

The abstract specification has one variable: what has become of each run id (free,
active, succeeded, failed, cancelled, lost).  A run starts once and only into a free
slot; runs end together or one by one, once, with one outcome; the daemon may die
with its runs.  `poolRun` in `RunManager` is the refinement mapping and `PoolSpec` the
property.

### Orchestrator

*Granularity*.  Two workers: `loop`, the one task that handles the events of the bus in
turn (`start_orchestrator`), and `user`, a caller of `apply_relaunch` or `apply_skip`.  A
handler's pure function runs under the orchestrator's mutex and returns effects; it is
one action (`PrStatusChanged`, `RunCompleted`, `RetryDue`, `IssueDetected`, `PrMerged`,
`ApplyRelaunch`, `ApplySkip`) that fills `todo[w]`.  Each effect is then executed, one
action per lock or file it needs: a dispatch fails (`DispatchFails`, `EnqueueFails`) or is
enqueued (`EnqueueRun`), reads run.json (`LoadTab`) and is recorded (`RecordRunning`);
`StopSession`, `CleanupMetadata`, `ScheduleRetry`, `CancelRetry`, `IssueTrigger` and
`ApplySessionEnd` are the others.  `RunCompleted` looks a key up by its tab id in one
section and `ApplySessionEnd` applies the end in another, as the code does.

| variables | code |
|---|---|
| `claimed`, `completed`, `mergedPrs`, `running`, `retryQueue`, `reviewReady` | the fields of `Orchestrator` |
| `todo` | the effects a worker has still to execute |
| `bus` | events the loop has not received |
| `armed`, `stray` | sleeping retry timers whose handle is in `retry_timers`, or has been overwritten or removed |
| `analysis`, `runJson` | each worktree's analysis.json (none, written, approved, resolved) and the tab id in run.json |
| `queue`, `popped`, `live`, `tabKey` | the run manager: queued runs, popped ones, live sessions, the key of each session |
| `pr`, `polled`, `mergeSeen`, `changes` | GitHub, and what the pollers have published |

*The run manager as the orchestrator sees it.*  Of `RunManager.tla` there remains what
the orchestrator depends on: a queue, a pop, a launch into a free slot that saves
run.json, a refusal of a busy task, an end that deletes run.json on success and
publishes `RunComplete`.  It has no other clients here.  `enqueue_run` with its queue
advance is one step; the advances of the readers are `RmPop`, `RmLaunch` and `RmRefuse`.

*Abstractions*.  One repository, the orchestrator enabled.  `Eligible` stands for
`is_pr_eligible` and the registry's matching: the PR states a workflow wants.  A PR is
failing, passing, pending or contested (passing with changes requested).  A key
without a worktree path is no candidate.  Left out: timelines, lifecycle
emits, `completed_lifecycles`, the cap of 500 on `merged_prs`, the merge poller's first
tick that publishes nothing.  `analysis.json` is read in the step that applies a session's
end, which is the one that decides by it.  Time is the firing of a timer.

### KeyLife

The abstract specification of one pull request's life, for all of them at once: free,
dispatching, running, retrying, review, done, with the attempt.  It says which
stages follow which, that the attempt never exceeds `MaxRetries`, that a retry
is one attempt more, and that never more than `MaxConcurrent` pull requests are
dispatching or running.  `prLife` in `Orchestrator` is the refinement mapping and
`LifeSpec` the property.

### SatScoring, SatCycle, SatRecords

`SatScoring` has the pure functions, one operator each; a scenario is a number in the order
of the identifiers, a dollar a unit.  `SatCycle` has one agent that calls them.  `pc` is the
function it is in and `job` what it holds in memory; each action is what happens between two
effects on the disk, the runner, the judge or GitHub.

| variables | code |
|---|---|
| `dirs`, `latest` | the files of each run directory; the link sat/runs/latest |
| `library` | sat/personas and sat/scenarios, which users edit |
| `github` | the issues filed, by fingerprint and labels, open or closed |
| `breaker` | `CircuitBreakerState.cycle_iteration` |
| `clock` | seconds: `make_run_id` names a run after the one it starts in |
| `returned`, `spent` | the last result of the pipeline; the bounds' count |

`Generate`, `BeginRun`, `StartRunner`, `RunScenario`, `WriteRunResult`, `UpdateLatest` are the
first two stages, `BeginScoring`, `Judge`, `WriteScores` the third, `RetryIssues`, `BeginIssues`,
`FileIssue`, `WriteIssues` the fourth, `Compare`, `Verify`, `FileRegression`, `EndCycle` the
verification; `CloseIssue` closes an issue on GitHub (none is reopened), which the search for
duplicates then no longer finds.  What may fail: each read and write of the disk, a runner (no file, garbage, a hang), the
judge (error, garbage), the search and the creation of an issue, the secret check; a crash
anywhere.  Nothing in the repository implements the judge or the creator of issues: both are
what their traits allow.  That an agent asks the circuit breaker before it begins is its
documentation's word (`Generate`, `Compare`); no function does.

`SatRecords` has the two files that are read whole and replaced whole.  A worker is a handler
of the daemon or an agent in `load`, `create`, `write`, `rename`, `learned` or `hub`; files have
inodes, since a writer keeps what it has opened when another renames it.  No lock keeps two workers
apart; `overlapped`, a history variable, remembers the files that two were once replacing at the same time.

### ActivityStore

`Publish` is the hook receiver (and the rest of the daemon) publishing; `AppendText`, `EndLine`
and `ApplyEvent` are `handle_event`, whose `writeln!` is two writes; `Collect` is the collector,
`Restart` a death anywhere with replay and compaction.  `log` is the lines of the file that parse,
`cut` how the file ends: `line`, `text` (the last line parses and has no end yet) or `torn` (it has
none and parses no more); what is appended to either of these is lost with it.  `garbled` remembers
that a text was cut inside a character, which makes every later load fail as a whole (`Loaded`); a load
also fails when the file is `unread`.  The store then starts empty and goes on appending.
`truth` folds the handled events without ever forgetting; `hurt` names the agents of lost lines.
`HookAssumption` says what `agent-bridge.js` posts.

### Pollers

`round[p]` is the place of a poller in its round: repositories to ask, attempts, answers.
`Answered` reads GitHub as it is then, `Refused` is an error with or without another try,
`PublishPrs` and `PublishMerges` the end of a round, `GiveRoundUp` the end when all failed,
`StartAgain` a restart.  `told` and `rescored` are what subscribers heard.  A page is taken to
hold everything: 100 open pull requests, 20 closed ones.

### Workflows

`Scan` and `Matching` are the registry, `Detect` claims and plans, `CreateWorktree`,
`WriteContext`, `DeploySkill` and `EnqueueRun` are the effects, `StartOver` a restart that reads
the definitions again, `Edit` a change of the files that a running daemon does not see.
`rooms` are the directories under `.branchdeck/worktrees`; `branches` and `linked` are git's.
The two are not the same, which is finding 7.  Names are sequences of words: `Sanitized`
is `sanitize_worktree_name`, which flattens the words and cuts what is longer than `NAME_LENGTH`; `GitName`
is what it makes of the whole path of a room, which begins with `repo`, the path of the repository.  A
failing `repo.worktree` leaves the branch and may leave a worktree; a failing write may leave the directory.


## 3. What is checked

### Run manager

Instances have two tasks, `pool` three.  Bounds: `MaxIds` run ids; `MaxWork`, beyond which no API
call creates a run or a ticket (queue advances still may, up to `MaxIds`); `PipeCap`
unread messages per sidecar; `MaxQueueFailures` is 2 instead of 3.  Deadlock is not
checked: a daemon nobody calls really is at rest, and the bounds end every behaviour.

| run | instance | shows |
|---|---|---|
| `queue` | 1 slot, 1 client, 3 creations, 6 ids; launch, enqueue, retry, cancel, failing launches | `TypeOK`, `CapacityRespected`, `QueuedRunKept`: an entry leaves the queue only by starting or by being dropped and counted |
| `pool` | 3 tasks, 2 slots, 1 client, 3 ids; launch, resume, cancel, shutdown, cancel queue, stale check, dropped requests (between sections and inside), restart | `EndedOnDisk`, `PoolSpec` |
| `files` | 2 slots, 2 clients, 3 ids; launch, retry, cancel, throwing and crashing sidecars | `DiskMatchesMemory`, `NoGhostRunning`, `OneRunPerTask`, `NoOrphanRun` |
| `permissions` | 1 run, 2 requests, pipe of 3; answers, stale check, hang, crash, dropped requests | `NoLostPermission`, `BlockedHasPermission`, `PermissionAnswered` (liveness) |
| `drain` | 1 slot, a batch of two, 6 ids; remove, cancel, stale check, hang, crash, read errors | `QueueDrains`, `SlotReclaimed` (liveness) |

*Why the bounds are enough.*  What can go wrong needs two runs of one task (a late
message of the first, the files of the second), two tasks for one slot (a popped entry
and whoever takes the slot), a third run for the one that follows a requeue, two
clients for the gap between sections, and two permission requests for overlap.
Each run has what its question needs and one more id.  Where six ids are given,
every requeue under a fresh ticket fits.  A pipe of one message lets a sidecar be
ahead of its reader by one, which is what the ordering hazards need; the permission
run has three so that both requests and the result can be under way together.

*Deployments.*  A property is checked with the operations under which the code can
keep it, and the exclusions are real limits of the code, listed as hazards:
`OneRunPerTask` excludes `resume_run`, which makes no duplicate check; `QueuedRunKept`
excludes what clears the queue (`cancel_queue`, `batch_launch`, `remove`), restarts and
dropped requests; `NoOrphanRun` and `DiskMatchesMemory` exclude dropped requests, which leave a run
without reader and run.json (`NoGhostRunning` and `OneRunPerTask` share their run); `QueueDrains` excludes `cancel_queue` (its flag stays set and a launch at
capacity queues an entry nobody will pop), failing launches (nothing retries them
until the next call) and a second batch.

*Fairness* (`Fairness`, `SessionsEnd`).  tokio runs a spawned task and a call to its end:
weak fairness of every queue advance, of `RetryLaunch`, and of each reader while there
is a line or an end of stdout to read (no read error is ever assumed).  A sidecar
exits when its stdin closes, handles what it reads and starts its session unless it
hangs.  Of a hung one no heartbeat comes, so the 120 seconds pass; so do the 300
seconds of a request.  `CheckStale` is weakly fair only where a deployment has it at
all (`Ops`), for it is the interval task of `docs/architecture.md` and nothing starts it
in the daemon.  No user has to answer anything.  The drain run also assumes that a
session which does not hang comes to a result; the others do not.

### Orchestrator

Bounds: `MaxTabs` sessions started; `MaxChanges` state changes of pull requests; `MaxQueue`
queued runs, beyond which nobody enqueues; `BusCap` unread events, beyond which nobody
publishes but `StopSession` (its publication belongs to the loop's own step).
`MaxRetries` is 2 instead of 5.  Deadlock is not checked, for the bounds end behaviours.

| run | instance | shows |
|---|---|---|
| `claims` | 2 PRs, 1 issue, 1 slot, 2 sessions, bus of 1; CI changes, closings, merges, re-scores, failing dispatches, early ends, lag | `ClaimsExact`, `CapacityRespected`, `LifeSpec` |
| `users` | 1 PR, 1 slot, 2 sessions, bus of 1; relaunch, skip, merges, failing launches, early ends | `TypeOK`, `RetryWoken`, `EndNoticed` |
| `sessions` | 2 PRs, 1 slot over a run manager of 2, 6 sessions, bus of 2; CI changes, pushes, closings, failing dispatches | `ClosedForgotten`, `ClosedStopped`, `SessionsMatched`; `RetryTaken`, `ClaimResolved` (liveness) |
| `issues` | 1 PR, 1 issue | violated: `StopsOnlyPrs` |

*Why the bounds are enough.*  One slot and two pull requests give the competition for
the slot: a retry deferred because the other one runs, a list that claims while a
dispatch is under way.  Two sessions give one key its first attempt and the retry
that is its last (`MaxRetries` is 2), or each key one.  One change gives every
closing, merge and reactivation once, at any point of a session.  `sessions` has six
sessions so that its liveness is not decided by the bound: two keys of two attempts
each, and two more for the one that is dispatched again after its change.

*Deployments.*  `ClaimsExact` and `LifeSpec` are checked without users: a relaunch
may count `attempt` beyond `MaxRetries`, and nothing stops it during a dispatch of
the same key.  `CapacityRespected` speaks of pull requests and issues only, because a
re-score is recorded without a look at the limit.  `SessionsMatched`, `ClosedStopped` and
the liveness properties need a bus that loses nothing, sessions that do not end before
they are recorded (`early_end`), no merges, and a run manager with room; with any of these
they do not hold, and the hazards say so.  Users, issues and launch failures are excluded too: TLC finds
`SessionsMatched` violated on an instance with any one of them (issues: two of them and a limit of two; skips:
three changes of the list), and `ClosedStopped` with merges, issues, relaunches, launch failures and a lagging
bus.  What remains true with all of these but the lag is `EndNoticed`: a session that *was* recorded while it
lived, or before its end was read, is not lost afterwards.

*Fairness* (`FairSpec`).  tokio runs the loop and its effects on: weak fairness of `Handle`
and of `Execute` of each worker.  A sleeping timer fires, queued runs are popped
and launched (both are what the tokio runtime does with a spawned task), and a session
ends.  The last is an assumption about agents, the same as `SessionsEnd` of the run
manager's `drain`; with a stale checker a hung sidecar ends too (`SlotReclaimed`).  Nothing is assumed of GitHub, of what the
agents write or of the reviewer, so a claim may wait in review for ever.

### Satisfaction tests

One behaviour is one of the pipeline or one of the records: the constant `Parts` and the
variable `part` say which, since the two share no variables.

| run | instance | shows |
|---|---|---|
| `sat`, cycle | 2 scenarios of a persona (weights 3 and 1) or 1 misnamed one or no personas, 3 runners, 4 answers, 2 threshold files, 4 outcomes of an issue, an earlier run of 60 and 60, budget 2, breaker 2, 2 seconds, 2 calls, 1 mishap | `LatestComplete`, `OneIssuePerFingerprint`, `BudgetOvershoot`, `AggregateWithin`, `VerifiedPersonas`, `PipelineEnds` (liveness) |
| `sat`, records | 2 workers at once, 3 calls, 2 issue numbers in 2 repositories, cycles that count 1 or 3 false positives of 2 scenarios | `EntriesKept`, `LabelsRecorded`, `RateWithin` |

*Why the bounds are enough.*  Two scenarios give a run that stops half-way at its budget, an
aggregate of different weights and a persona whose scenarios move apart.  Two calls are a
run and its retry, or the run that is compared with the earlier one.  One mishap is a crash,
a failed write or an edit at any point; the failures of runners, judge and GitHub are not counted
among them and may come at every call.  Two seconds are two run ids, and within one second two
runs share theirs.  Two workers and three calls are two writers at every two
places of `write_atomic`, and a third call that finds what they left.

*Fairness*: `WF(Agent)`.  A function that has begun goes on; the judge and GitHub answer or
fail (the traits are async functions without a timeout of their own: that they return is
assumed), a hung runner is killed after 300 seconds.  The runner is taken to leave no grandchild that keeps its pipe open.

### Activity store, pollers, workflows

One behaviour is one of one of the four (`part`): the services share no state.  The bus between them
and the orchestrator is in `Orchestrator.tla`.

| run | instance | shows |
|---|---|---|
| `services`, activity | a session and a subagent, 5 kinds of event, 3 posts, a bus of 2, a log of 2, 2 losses (restarts, full disks that cut a text between or inside characters), 2 instants | `AgentsTrue`, `LossBounded` |
| `services`, prs and merges | 2 repositories with a pull request each, 1 retry, 2 changes, 2 errors, 1 restart | `NeverToldTwice`; `PollerListsConverge`, `MergesTold` (liveness) |
| `services`, workflows | 2 issues and a merge, 3 catalogues of definitions, a short and a long repository path, 2 failures of any effect or deaths of the daemon, 1 edit | `WorkflowIssueServed` (liveness) |
| `polls` | the pull request poller | violated: `EmptiedByAnswer` |

*Why the bounds are enough.*  Three posts over a log of two make a compaction drop one; two
losses are a torn line and the restart that reads it.  Two repositories give the round that
fails for one of them; two errors with one retry exhaust the retries of one repository or
fail both.  Two changes are a close and a reopening, or a push and a merge, at any place of a round.  Two issues give the
second dispatch its own room, two failures a dispatch that fails twice at different effects.  Under the
short path the eight words of `NAME_LENGTH` hold every name; under the long one issues 1 and 12 share theirs.

*Deployments.*  `WorkflowIssueServed` allows every fault and leaves out an issue that is `Stranded`: git has a
worktree of its name and its room is missing, because of an earlier dispatch that wrote nothing or
died, or because another issue's worktree has the name; it then gets no run (the traces TLC gives without the exception).
`LossBounded` leaves out a file that is garbled.  `MergesTold` begins with the first round that GitHub answers: what
is merged before it, also while the daemon runs, is taken for old.  `EntriesKept` and `LabelsRecorded` leave a
file out from the moment on at which a worker reads it while another replaces it (`overlapped`); what the code
does then is among the disagreements below.  `RateWithin` leaves out lists with a cycle that itself counts more false positives than scenarios.

*Fairness* (`HostFairness`).  A poller's round goes on and
GitHub answers in the end, as errors are bounded (`WF`), a dispatch goes on (`WF`), and every poll brings every
open issue again while the loop takes one trigger after the other (`SF` of `Detect`).

### Mutants

Each property of a passing run has a mutant of the code that violates it, defined
beside the original (`SlotFreeOffByOne`, `RequeuedNot`, `KnownForever`, `ClaimsKept`, ...).

### Findings

1. `issues`: reconciliation stops the sessions of issues (and of re-scores), whose keys
   begin like those of the repository's pull requests and are never among them.
2. `polls`: when one repository's query fails and another's does not, the poller publishes an
   empty list for the first (`github.rs:494-528`, `pr_poller.rs:116`), and the orchestrator
   stops every session it runs there.
Disagreements that a property excepts by name, so that TLC shows each when the exception is struck out:

- `blind` of `OneIssuePerFingerprint`: the fingerprint "ensures the same finding from the same run never creates
  duplicate issues" (`sat_issues.rs:69`), but a search that fails does not stop the creation (`:510`);
- `overlapped` of `EntriesKept` and `LabelsRecorded`: `write_atomic` is said to write atomically (`util.rs:22`), but
  two requests that label at once share `<file>.tmp` (`:26`): one publishes what the other has just truncated,
  and entries are lost;
- `garbled` of `LossBounded`: events are persisted "so the event survives a crash" (`activity_store.rs:448`), but one
  text cut inside a character by a full disk makes this and every later load give nothing (`:218`);
- `Stranded` of `IssueServed`: unclaimed issues "are retried on the next poll" (`issue_poller.rs:85`), but after a
  dispatch that made git's worktree and could not write the room no retry succeeds (`workflow_dispatch.rs:148`).

Further disagreements met while modelling, with no run of their own:

- the first round of the merge poller "prevents cold-start from triggering re-scores for already-processed
  merges" (`merge_poller.rs:54`), but not those of a repository that fails in it while another answers: a later
  round publishes them;
- the id `launch_run` returns for a queued run is not the id it starts under
  (`run_manager.rs:748`, against `:46`);
- the startup recovery of `docs/architecture.md:235` does not exist;
- every reader counts a failure at the end of stdout, also for a run whose completion
  it has counted (`run_manager.rs:1025`);
- an issue's outcome is compared with `"success"` where `"succeeded"` is published
  (`orchestrator.rs:1426`), so no session of an issue ever completes;
- at the limit the triggers of a whole batch are unclaimed (`orchestrator.rs:1491`), where the
  comment at `:1482` says the remaining ones; an issue that runs is then dispatched again, is refused and
  stays queued, and the next dispatch, queued behind it, is recorded under a tab id no run has;
- `enqueue_run` reports the refusal of another queued run as its own: the claim goes
  (`:1134`) and the run stays queued;
- a merge drops the running entry and does not stop its session (`:259`);
- a re-score ignores the limit (`:1655`);
- a bus that lags loses `RunComplete` and `RetryDue` for good;
- pull requests deferred for lack of a slot wait for the next list that differs;
- a handler that is dropped while it writes to a sidecar (`TimeoutLayer`, `main.rs:327`) leaves a run in the
  map without reader and run.json (`run_manager.rs:791`, `:940`), or takes out a request whose answer never
  arrives (`:589`); the stale checker frees the slot of the first, nobody answers the second;
- a run popped before `cancel_queue` starts after it: `queue_cancelled`, set "to prevent race
  with `try_advance`" (`run_manager.rs:100`), is read only where the entry is popped;
- `max_budget_usd` cancels nothing (against `models/run.rs:35`): the cost arrives with the
  terminal message, and the sidecar reads `max_budget_usd` where `maxBudgetUsd` is sent;
- the session of a queued run is recorded under a tab id no run has (`orchestrator.rs:1112`);
  its completion is never matched, its slot and claim are held for ever.

Of the workflows:

- `execute_dispatch_plan` looks for `<repo>/.branchdeck/worktrees/<room>` and hands that path
  to `create_worktree` as a *name*; git's worktree is made at `<repo>/../worktrees/<path with
  dashes, cut at 80>`, while the run works in a plain directory of the repository, against the isolation of
  `docs/specs/workflow-schema.md:53`.  A dispatch that dies before the room exists is never retried with
  success either, nor one after a checkout that failed half-way.  Rooms whose paths differ only after 80 letters have
  one name: the first of their issues gets a run, the others never do;
- `load_registry` mixes the definitions of all repositories, and caches them, so the retry "after
  user installs a matching workflow" (`orchestrator.rs:1515`) does not see it;
- a failed write of the context leaves that of an earlier trigger.

Of the pollers: `ci_status` and `review_decision` are always `None` (`github.rs:456`) as nothing calls
`enrich_pr_summary`; merges during a downtime are never re-scored, nor those from the start of the daemon
to the first round that GitHub answers (`merge_poller.rs:52-62`).

Of the satisfaction tests:

- a finding whose issue was closed is filed again when its run is retried, or a regression of the run
  repeats it: the search is for open issues (`sat_issues.rs:49`);
- the fingerprint has no finding in it: of several findings of a scenario in a run one is filed,
  and a regression is not filed where a finding is;
- a cycle is verified although scenarios disappeared, against `models/sat.rs:1136`;
- runs of one second share a directory; a scenario file not named after its id cannot be run;
- `score_run` starts a new learnings file when the old one does not parse (`sat_score.rs:926`);
- the number of false positives of a cycle is taken as its agent says it, and may exceed its scenarios;
- `report.md` that cannot be written fails the stage and leaves scores.json;
- a label is saved although the answer is an error when the metrics fail;
- the pipeline, the verification and the circuit breaker have no caller outside tests.

Of the activity store: a tool's event after the stop revives an agent, and hooks do not wait for
their posts; a failed tool posts no end; a live session that was silent for the collector's
time does not come back; `hook_receiver::start` has no caller outside tests.


## 4. What is proved

TLC looks at small instances; these theorems hold for every value of the constants that
satisfies the named assumptions: any tasks, clients, pull requests, issues, workers,
scenarios, slots, limits and bounds, and any operations but those a theorem excludes.
`tlapm` proves every obligation.

| module | theorem | says |
|---|---|---|
| `RunManagerProofs` | `TypeCorrect` | `Spec => []TypeOK` |
| | `CapacitySafe` | never more active runs than slots |
| | `NoOrphanSafe` | where no request is dropped, an active run has an open reader and a live status |
| | `OneRunSafe` | without `resume_run`, one active run per worktree |
| | `PoolRefined` | `Spec => PoolSpec`: the manager implements `RunPool` |
| `RunManagerStateProofs` | `NoGhostSafe` | without restarts, where no run is active in a worktree its task.md does not say running |
| | `EndedOnDiskSafe` | in every deployment, run.json never says live of a run that has ended |
| | `DiskSafe` | without `resume_run` and dropped requests, the run.json of an active run is that of the run in memory |
| | `NoLostPermissionSafe` | a request the agent waits for is registered or still in its stdout, or its answer was cut |
| | `BlockedSafe` | a blocked run whose sidecar lives has a request that can be answered, or the answer was cut |
| | `QueueSafe` | where nobody clears the queue, an entry leaves it only by starting a run or by being counted as failed |
| `OrchestratorProofs` | `TypeCorrect` | `Spec => []TypeOK` |
| | `CapacityHolds` | without `apply_relaunch`, never more than `max_concurrent` pull requests and issues dispatching or running |
| | `ClaimsHold` | without users, a claimed pull request is in exactly one of dispatching, running, retrying and review, and another one in none |
| | `LifeHolds` | without users, `Spec => LifeSpec`: the orchestrator implements `KeyLife` |
| `OrchestratorSessionProofs` | `RetriesWoken` | with a bus that loses nothing, every entry of the retry queue has a timer that sleeps or has fired |
| | `ClosedAreForgotten` | with such a bus and without relaunches, nobody works on a pull request whose closing the loop has seen |
| | `EndsNoticed` | with such a bus, the end of a recorded session reaches the loop, which applies it to the key that has the session |
| `SatCycleProofs` | `OneIssue` | no issue is filed beside an open one of its fingerprint unless the search failed |
| | `LatestIsComplete` | `latest` names a run whose result was written, whatever crashed |
| | `BudgetKept` | a run costs no more than its budget and one more call of the judge |
| | `AggregateBounded` | the aggregate of a run lies between its lowest and its highest score |
| | `NoPersonaWorseOff` | a report says verified only where no persona's rounded mean delta is negative |
| `SatRecordsProofs` | `NothingLost` | however many write, a file that no two were replacing at once only grows and is always whole |
| | `OneRecordEach` | as long as no two requests were saving at once, each labelled issue has a record, and one |
| | `RateIsARate` | however many write, no more false positives are counted than issues, or a recorded cycle by itself has more of them than scenarios |
| `ServicesProofs` | `AgentsAreTrue` | what the activity store says of an agent is what all its events say, unless one of its lines was lost |
| | `LossIsBounded` | of the last `MAX_PERSISTED_EVENTS` appended events a start reads back all but one for each crash and full disk, unless a line was cut inside a character |
| | `MergesOnce` | no merge is published twice while the daemon runs |

*Assumptions on the constants*, each with the module that declares the constant, and evaluated
by TLC in its runs: at least one slot, natural bounds, failures counted from one; clients and pull
requests, issues, SAT workers and the judge's answers are finite sets, clients are not run ids;
a judge's answer has an unsigned score (a `u32` in `models/sat.rs`) and costs a natural number of
units (`AnswersAssumption`); `HistoriesAssumption`: what earlier agents left is
what they can leave (the link is absent or of a run with a result, costs are bounded as in any run,
and scores.json is what the answers of a judge give);
`ResultsAssumption`: the learnings of a result are a sequence (they are filtered
with `SelectSeq`, whose definition the provers cannot unfold) and carry no outcome, which only cycles have;
`CyclesAssumption`: a cycle counts a natural number of false positives (a `usize`) over finitely many scenarios.

*Hypotheses of single theorems.*  Operations that a theorem excludes are those under which the code
does not keep the property.

### The arguments

*Run manager.*  Type correctness is proved action by action.  For the pool it is
enough to see what a step does to the map, the records, the readers and the next id.
Lemma `NextKind` shows that every step is of one of three kinds: `StartStep` (the next id
enters the map through a free slot, with a reader), `EndStep` (some active runs leave
it, with terminal statuses; with none, the step is a stutter for the pool) or `LoseStep`
(the restart).  Each kind is shown once to preserve the invariant and once to map to a
step of `RunPool`.  `IInv` is `TypeOK`, `CapacityRespected`, `ActiveLive` (an active run is not in a
terminal status) and `FreshUntouched`; it holds with dropped requests too.  Capacity alone is not inductive: a start must add a *new* element to a
*finite* set, so ids not handed out yet must be untouched; the refinement needs it too,
to map a start to the abstract start of a free run, and needs that an active run has a
live status, so that ending it is the only way to its outcome.

`DiskMatchesMemory` is inductive only together with `OneRunPerTask` and with the fact that
runs, queued entries and clients work on tasks that exist (`Named`): saving one run must not touch the
run.json of another active one.  The requests need `NoneWaits` (a session that has not begun has asked for
nothing) and a stronger form of the property: what is on its way in the stdout is a
*request* for that permission (`Written`).  `QueueSafe` is a fact about one step: the entries in
the queue and those in hand (popped, or refused and about to be put back) are counted
together (`Backlog`), and each critical section of a queue advance moves an entry from one to the other,
starts it, or drops and counts it.

*Orchestrator.*  The loop's list of effects is where its promises are hidden between
two critical sections.  `ListOK` says what such a list can be: each key is claimed by one
effect of it, the end of a session is handled alone, the triggers of an issue event are
the rest of their list, and attempts are within the limit.  `dispatching` abstracts the list
to the sessions it starts; lemma `StepMoves` reduces every action to what it does to
`dispatching` and the tables (a list of pull requests, a retry, a failed start, a start, an
end, a merge, a skip, an issue, or nothing).  On those moves the limit, the claims (`ClaimOK`: a claimed pull
request is in exactly one table) and the steps of `KeyLife` are each proved once.  The
limit rests on what one list may choose (`AvailableSlots` counts what runs, and nothing is
being dispatched when a new event is taken).

`RetryWoken` is not inductive: an entry of the retry queue could be a key whose timer an effect in some list is about
to cancel.  `TasksInv` excludes it: what the loop cancels or starts has left the queue, and what a
relaunch cancels has no session, and cannot be started by the loop, because it is claimed or
merged.  That a merged one is not claimed again by a list needs the order of the two pollers' events on the bus
(`MergeInv`: no list that follows a merge has the pull request open), which `ClosedForgotten`
extends: the last list on its way lacks all that the poller saw closed.  Both fail with a
bus that lags, which is why it is excluded.

For the ends of sessions (`EndNoticed`) one must know that no two keys share a session, or the loop could apply a
completion to the wrong one.  `TabsInv` says that every tab id in run.json, in an effect that records and in
the table is of a session of that key, or of none: an id is written once, by the start of its session, and only `LoadTab`
copies it.  An end that the loop is applying is the only effect of its list (`Shape`), so
nothing is done between its two critical sections but by others, and it is taken off the list by
the step that takes the key off the table.

*Satisfaction tests.*  For the link it must be said of each stage which run its job is about
and that its result exists before the link is moved.  The cost of a run is what was spent when
it last looked at the budget, and one more answer; that no answer costs more than their maximum is
proved with the well-foundedness of the naturals (`WFMin`).
The aggregate is a quotient of two sums, rounded.  With the lowest score `m`, each term `score * weight` is at least
`m * weight`, so the sum is at least `m` times the sum of the weights; rounding
to the nearest whole number keeps a bound that is whole.  The weights are at least one each, so the divisor is positive.
For a verified cycle, `Fair` is what a comparison without a regressed scenario says of the personas (a mean of
deltas none of which is negative); `VerifyInv` carries it from `Compare`, which makes the comparison, to `Verify`, which
decides by its counts.

*Records.*  A writer in `write_atomic` goes through create, write, rename.  Three invariants stand on each
other.  `HeldInv` says what holds however many write: a name stands for a list of items that some call made.  `Shape`
adds that the two files never share an inode, also not through the open file of a writer that was overtaken.
`Kept` speaks only of files outside `overlapped`: what the name stands for is whole, one worker at most
replaces the file, its temporary file is its own, and its list is the *present* content and what it adds;
a rename then publishes an extension of what was there.  `Elsewhere` shows that whatever two writers
do to one file, the other keeps this.
The rate needs `HeldInv` only: each cycle in the list counts at most what it compared, or is named as one that does not; the two sums of `FalsePositiveMetrics` are
then compared term by term (`CyclesHonest`, `SumsCompare`).

*Services.*  In the log, an append either adds a line or is lost, and a lost one has a fault to answer for.
`LossInv` does not count a line that has no end (`Unended`), which the next append will break, and holds the fault that left
it so in reserve, unless the append is still under way (`Half`).  For the agents it is not enough to speak of the whole replay: a restart reads
a *suffix* of the log, and a compaction makes the next suffix shorter.  `AgentsInv` says that from wherever one
starts to read, what the rest says agrees with `truth` on every agent it knows and that is not hurt (`FileAgrees`); that this
goes on under one more event is `BothApply` (both know the agent) and `OneApplies`, and the fold itself is unrolled
one line at a time (`Stages`, `ReplayOneMore`).  `NeverToldTwice` needs only that all that was told is
among what the poller has seen.

*Induction over data.*  The library's induction theorems have an operator as a parameter, which
no installed prover can instantiate.  `DataLemmas` states induction with a *set*: a set of naturals that has 0
and all successors is `Nat` (`Induction`), a set of finite sets that has each one of which it has all that lack an element is all of them
(`FiniteInduction`), both proved by a least counterexample (`WFMin`).  With these, sums and maxima, which are folds of
the community modules, are what one expects on every finite domain.

### Only model-checked

*Liveness*: `SlotReclaimed`, `QueueDrains`, `PermissionAnswered`, `RetryTaken`, `ClaimResolved`,
`PipelineEnds`, `PollerListsConverge`, `MergesTold`, `WorkflowIssueServed`.  Fairness and `ENABLED` are
beyond the prover.  *Safety*: `SessionsMatched` and `ClosedStopped`.  They hold only in the deployment of the run
`sessions`, which excludes what the code does not (merges, users, early ends, a full run manager): a theorem
about it would say little of the code.  What of them holds elsewhere is `EndsNoticed` and `ClosedAreForgotten`.  Every
other invariant and action property of the passing runs is the subject of a theorem.

`Workflows` has no safety property of its own, and no theorem: what can go wrong in a dispatch is that an issue is
never served.


## 5. Plan

Done: `RunPool`, `RunManager`, `KeyLife`, `Orchestrator`, the satisfaction tests, the activity store, the pollers and the
workflows, with their runs, and proofs of their safety properties.  What would add most to it:

1. `SessionsMatched` and `ClosedStopped` as theorems, once a merge stops the session it forgets and the tab id of a
   run is returned by the launch and no longer read back from run.json;
2. a safety property of `Workflows` (the directory in which a run works belongs to its own trigger), once
   `execute_dispatch_plan` uses the worktree it makes;
3. the routes of the daemon that are only wiring today, when it starts the orchestrator.

### Not modelled

*Knowledge service*: embeddings and similarity search, numeric.  *Update manager*, *task
watcher*, *workflow lifecycle*: not wired into the daemon.  *Configuration, agent scanner,
hook config*: reading and writing of settings files.  *Terminal, shepherd, desktop shell,
daemon shell, frontend*: processes, wiring and views, whose difficulty is not in their control.
Of modelled parts: the text of prompts, scenarios, issues and reports; the parsing of files
but for whether they parse; the per-PR lookups and their cache, which only enrichment uses.
