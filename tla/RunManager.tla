----------------------------- MODULE RunManager -----------------------------
(***************************************************************************)
(* The run manager of the Branchdeck daemon: the pool of active agent      *)
(* runs, the pending queue, the permission requests, the task and run      *)
(* files in the worktrees, the sidecar processes and the tokio tasks that  *)
(* read their stdout.                                                      *)
(*                                                                         *)
(* One action is one critical section of the manager's mutex.  A function  *)
(* that unlocks and locks again (try_advance, retry_run) is as many        *)
(* actions as it has critical sections, and the task that executes it      *)
(* keeps its place in "worker".                                            *)
(***************************************************************************)
EXTENDS Naturals, Sequences, FiniteSets

CONSTANTS
    Tasks,             \* task.md paths; every worktree holds exactly one
    Perms,             \* tool_use_ids a session may ask permission for
    Clients,           \* tasks of the daemon that call the manager's API
    MaxConcurrent,     \* slots
    MaxQueueFailures,  \* launch failures before a queued run is dropped
    MaxIds,            \* bound: run ids (UUIDs) the model can hand out
    MaxWork,           \* bound: no API call creates a run or a ticket beyond it
    PipeCap,           \* bound: unread messages in a sidecar's stdout
    Batches,           \* the task lists batch_launch is called with
    Costs,             \* whether a final cost may exceed the budget
    Ops                \* the operations and failures of this deployment

ASSUME SlotAssumption  == MaxConcurrent \in Nat \ {0}
ASSUME BoundAssumption == MaxIds \in Nat /\ MaxWork \in 0..MaxIds /\ PipeCap \in Nat
ASSUME QueueAssumption == MaxQueueFailures \in Nat \ {0}
ASSUME CostAssumption  == Costs \subseteq BOOLEAN
ASSUME BatchAssumption == Batches \subseteq Seq(Tasks)
ASSUME ClientAssumption == IsFiniteSet(Clients) /\ Clients \cap (1..MaxIds) = {}

VARIABLES
    \* RunManager, behind its mutex
    active,         \* the keys of the map "runs"
    info,           \* RunInfo of each run, kept after the run is removed
    perms,          \* pending_permissions of each active run
    expired,        \* those pending for PERMISSION_TIMEOUT_SECS or longer
    quiet,          \* active runs with no activity for STALE_THRESHOLD_SECS
    pending,        \* the queue of runs waiting for a slot
    queueCompleted, queueFailed, queueCancelled,
    nextId,         \* the next fresh UUID
    \* the worktrees
    taskStatus,     \* status in .branchdeck/task.md
    runFile,        \* .branchdeck/run.json
    \* the sidecar processes
    phase, out, asks,
    \* the tokio tasks
    reader,         \* the stdout reader of each run
    worker          \* where each task stands in try_advance or retry_run

mapVars     == <<active, info, perms, expired, quiet>>
queueVars   == <<pending, queueCompleted, queueFailed, queueCancelled>>
countVars   == <<queueCompleted, queueFailed, queueCancelled>>
diskVars    == <<taskStatus, runFile>>
sidecarVars == <<phase, out, asks>>
vars == <<mapVars, queueVars, nextId, diskVars, sidecarVars, reader, worker>>

Ids     == 1..MaxIds
Workers == Ids \cup Clients
NoTask  == "none"
NoPerm  == "none"

LiveStatus     == {"starting", "running", "blocked"}
TerminalStatus == {"succeeded", "failed", "cancelled"}
RunStatus      == {"created"} \cup LiveStatus \cup TerminalStatus
TaskStatus     == {"created", "running"} \cup TerminalStatus

RunInfo == [task : Tasks \cup {NoTask}, status : RunStatus,
            session : BOOLEAN, over : BOOLEAN]
RunJson == [run : 0..MaxIds, status : RunStatus, session : BOOLEAN]
QueuedRun == [id : 0..MaxIds, task : Tasks \cup {NoTask},
              fails : 0..MaxQueueFailures]
Message == [type : {"permission_request"}, perm : Perms, over : BOOLEAN]
           \cup [type : {"session_started", "run_complete", "run_error"},
                 perm : {NoPerm}, over : BOOLEAN]

NoRunInfo == [task |-> NoTask, status |-> "created",
              session |-> FALSE, over |-> FALSE]
NoRunJson == [run |-> 0, status |-> "created", session |-> FALSE]
NoItem    == [id |-> 0, task |-> NoTask, fails |-> 0]
Idle      == [pc |-> "idle", item |-> NoItem]

\* A sidecar that can still write; "spent" and "hung" ones only wait.
Alive == {"booting", "session", "resting", "spent", "hung"}

Init ==
    /\ active = {} /\ quiet = {} /\ pending = <<>>
    /\ info    = [id \in Ids |-> NoRunInfo]
    /\ perms   = [id \in Ids |-> {}]
    /\ expired = [id \in Ids |-> {}]
    /\ queueCompleted = 0 /\ queueFailed = 0 /\ queueCancelled = FALSE
    /\ nextId = 1
    /\ taskStatus = [t \in Tasks |-> "created"]
    /\ runFile    = [t \in Tasks |-> NoRunJson]
    /\ phase  = [id \in Ids |-> "unborn"]
    /\ out    = [id \in Ids |-> <<>>]
    /\ asks   = [id \in Ids |-> [p \in Perms |-> "fresh"]]
    /\ reader = [id \in Ids |-> "none"]
    /\ worker = [w \in Workers |-> Idle]

-----------------------------------------------------------------------------
(* Reading and writing the manager's state                                 *)

\* Mutant of SlotFree: one run too many.
SlotFreeOffByOne(runs) == Cardinality(runs) <= MaxConcurrent

\* available_slots() > 0
SlotFree(runs) == Cardinality(runs) < MaxConcurrent

\* Mutant of TaskBusy: only the queue is searched.
TaskBusyInQueue(t) == \E i \in DOMAIN pending : pending[i].task = t

\* launch_run's duplicate check: active runs, then the pending queue.
TaskBusy(t) ==
    \/ \E id \in active : info[id].task = t
    \/ \E i \in DOMAIN pending : pending[i].task = t

\* Mutant of ShouldAdvance: the slots are counted before the run is removed.
AdvanceByOldSlots == pending # <<>> /\ SlotFree(active) /\ ~queueCancelled

\* The condition under which a reader calls try_advance on leaving the lock.
ShouldAdvance == pending # <<>> /\ SlotFree(active') /\ ~queueCancelled

\* Mutant of Json: the record is taken before the run's status is set.
JsonEarly(id, r) == [run |-> id, status |-> info[id].status, session |-> r.session]

\* save_run_state
Json(id, r) == [run |-> id, status |-> r.status, session |-> r.session]

SaveRun(id, r) == runFile' = [runFile EXCEPT ![r.task] = Json(id, r)]

\* The last of the runs S to write the run.json of each task: HashMap order
\* decides when two active runs share a task.
LastWriters(S) ==
    {f \in [{info[id].task : id \in S} -> S] :
        \A t \in DOMAIN f : info[f[t]].task = t}

\* Mutant of TaskAfter: the runs end and their task.md keeps its status.
TaskUntouched(outcome, last) == taskStatus

\* task.md after the runs of DOMAIN outcome ended, last[t] having written last.
TaskAfter(outcome, last) ==
    [t \in Tasks |-> IF t \in DOMAIN last THEN outcome[last[t]] ELSE taskStatus[t]]

\* The runs of DOMAIN outcome leave the map with that final status and
\* their processes are killed; the status of the runs "freed" goes back to
\* running.  task.md and run.json follow, the freed runs' last.
Settle(outcome, freed) ==
    LET ended == DOMAIN outcome IN
    /\ active' = active \ ended
    /\ quiet'  = quiet \ ended
    /\ info'   = [id \in Ids |->
                    IF id \in ended THEN [info[id] EXCEPT !.status = outcome[id]]
                    ELSE IF id \in freed THEN [info[id] EXCEPT !.status = "running"]
                    ELSE info[id]]
    /\ phase'  = [id \in Ids |-> IF id \in ended THEN "exited" ELSE phase[id]]
    /\ \E last \in LastWriters(ended), saved \in LastWriters(freed) :
        /\ taskStatus' = TaskAfter(outcome, last)
        /\ runFile' = [t \in Tasks |->
                         IF t \in DOMAIN saved THEN Json(saved[t], info'[saved[t]])
                         ELSE IF t \in DOMAIN last THEN Json(last[t], info'[last[t]])
                         ELSE runFile[t]]

\* mark_run_failed_by_id and cancel_run_by_id, once or in a loop.
EndRuns(S, st) ==
    /\ Settle([id \in S |-> st], {})
    /\ perms'   = [id \in Ids |-> IF id \in S THEN {} ELSE perms[id]]
    /\ expired' = [id \in Ids |-> IF id \in S THEN {} ELSE expired[id]]
    /\ UNCHANGED <<out, asks>>

NewRun(t, resumed) ==
    [task |-> t, status |-> "starting", session |-> resumed, over |-> FALSE]

\* The sidecar spawned, in the given phase, and the ActiveRun inserted.
InsertRun(t, resumed, ph) ==
    /\ nextId <= MaxIds
    /\ nextId' = nextId + 1
    /\ active' = active \cup {nextId}
    /\ info'   = [info EXCEPT ![nextId] = NewRun(t, resumed)]
    /\ phase'  = [phase EXCEPT ![nextId] = ph]
    /\ UNCHANGED <<perms, expired, quiet, out, asks>>

\* ... the request written to the sidecar, run.json saved, the stdout reader
\* spawned.
StartRun(t, resumed) ==
    /\ InsertRun(t, resumed, "booting")
    /\ reader' = [reader EXCEPT ![nextId] = "open"]
    /\ SaveRun(nextId, NewRun(t, resumed))

\* The handler is dropped while it writes the request: the run stays in the
\* map, without run.json and reader, and its sidecar waits for the rest of
\* the line.
StartCut(t, resumed) ==
    /\ InsertRun(t, resumed, "hung")
    /\ UNCHANGED <<reader, diskVars>>

\* A new entry of the queue, with its pre-assigned run id.
Ticket(t) == [id |-> nextId, task |-> t, fails |-> 0]

\* launch_run under the lock, with its three ways out.
LaunchRefused(t) == TaskBusy(t) \/ (SlotFree(active) /\ "launch_failure" \in Ops)

LaunchQueued(t) ==
    /\ ~TaskBusy(t) /\ ~SlotFree(active) /\ nextId <= MaxIds
    /\ pending' = Append(pending, Ticket(t))
    /\ nextId'  = nextId + 1
    /\ UNCHANGED <<mapVars, countVars, diskVars, sidecarVars, reader>>

LaunchStarted(t) ==
    /\ ~TaskBusy(t) /\ SlotFree(active)
    /\ StartRun(t, FALSE)
    /\ UNCHANGED <<queueVars, taskStatus>>

GoTo(w, pc) == worker' = [worker EXCEPT ![w] = [Idle EXCEPT !.pc = pc]]

\* A client that may call operation op, and may still create work.
Calls(c, op) == op \in Ops /\ worker[c].pc = "idle"
MayCreate    == nextId <= MaxWork

-----------------------------------------------------------------------------
(* API calls                                                               *)

LaunchRun(c, t) ==
    /\ Calls(c, "launch") /\ MayCreate
    /\ LaunchQueued(t) \/ LaunchStarted(t)
    /\ UNCHANGED worker

\* retry_run reads the task's status before it takes the lock ...
RetryRun(c, t) ==
    /\ Calls(c, "retry") /\ MayCreate
    /\ taskStatus[t] \in {"failed", "cancelled"}
    /\ worker' = [worker EXCEPT ![c] = [pc |-> "retry", item |-> [NoItem EXCEPT !.task = t]]]
    /\ UNCHANGED <<mapVars, queueVars, nextId, diskVars, sidecarVars, reader>>

\* ... and launches whatever it has become since.
RetryLaunch(c) ==
    /\ worker[c].pc = "retry"
    /\ LET t == worker[c].item.task IN
        \/ LaunchQueued(t)
        \/ LaunchStarted(t)
        \/ /\ LaunchRefused(t)
           /\ UNCHANGED <<mapVars, queueVars, nextId, diskVars, sidecarVars, reader>>
    /\ GoTo(c, "idle")

\* resume_run checks the files and the capacity, and no duplicate.
ResumeRun(c, t) ==
    /\ Calls(c, "resume") /\ MayCreate
    /\ taskStatus[t] \in {"failed", "cancelled"}
    /\ runFile[t].session
    /\ SlotFree(active)
    /\ StartRun(t, TRUE)
    /\ taskStatus' = [taskStatus EXCEPT ![t] = "running"]
    /\ UNCHANGED <<queueVars, worker>>

EnqueueRun(c, t) ==
    /\ Calls(c, "enqueue") /\ MayCreate
    /\ queueCancelled' = FALSE
    /\ pending' = Append(pending, Ticket(t))
    /\ nextId'  = nextId + 1
    /\ GoTo(c, "pop")
    /\ UNCHANGED <<mapVars, queueCompleted, queueFailed, diskVars, sidecarVars, reader>>

BatchLaunch(c, batch) ==
    /\ Calls(c, "batch") /\ nextId + Len(batch) <= MaxWork + 1
    /\ pending' = [i \in 1..Len(batch) |->
                     [id |-> nextId + i - 1, task |-> batch[i], fails |-> 0]]
    /\ nextId'  = nextId + Len(batch)
    /\ queueCancelled' = FALSE
    /\ IF active = {}
       THEN queueCompleted' = 0 /\ queueFailed' = 0
       ELSE UNCHANGED <<queueCompleted, queueFailed>>
    /\ GoTo(c, "pop")
    /\ UNCHANGED <<mapVars, diskVars, sidecarVars, reader>>

\* remove_queued_by_worktree keeps the other entries in their order.
RemoveQueued(c, t) ==
    /\ Calls(c, "remove")
    /\ LET kept == {i \in DOMAIN pending : pending[i].task # t}
           n    == Cardinality(kept)
       IN  /\ kept # DOMAIN pending
           /\ \E f \in [1..n -> kept] :
               /\ \A i, j \in 1..n : i < j => f[i] < f[j]
               /\ pending' = [i \in 1..n |-> pending[f[i]]]
    /\ UNCHANGED <<mapVars, countVars, nextId, diskVars, sidecarVars, reader, worker>>

\* force_cancel_run around cancel_run_by_id: the queue advances whenever a
\* slot is free, and try_advance looks at queue_cancelled.
ForceCancelRun(c, id) ==
    /\ Calls(c, "cancel") /\ id \in active
    /\ EndRuns({id}, "cancelled")
    /\ IF pending # <<>> /\ SlotFree(active') THEN GoTo(c, "pop") ELSE UNCHANGED worker
    /\ UNCHANGED <<queueVars, nextId, reader>>

CancelQueue(c) ==
    /\ Calls(c, "cancel_queue")
    /\ EndRuns(active, "cancelled")
    /\ pending' = <<>>
    /\ queueCompleted' = 0 /\ queueFailed' = 0 /\ queueCancelled' = TRUE
    /\ UNCHANGED <<nextId, reader, worker>>

Shutdown(c) ==
    /\ Calls(c, "shutdown") /\ active # {}
    /\ EndRuns(active, "failed")
    /\ UNCHANGED <<queueVars, nextId, reader, worker>>

\* The answer reaches the sidecar unless its process is gone; either way
\* the request has left the map.
RespondToPermission(c, id, p) ==
    /\ Calls(c, "respond") /\ id \in active /\ p \in perms[id]
    /\ perms'   = [perms EXCEPT ![id] = @ \ {p}]
    /\ expired' = [expired EXCEPT ![id] = @ \ {p}]
    /\ IF phase[id] = "exited"
       THEN UNCHANGED <<info, runFile, asks>>
       ELSE /\ info' = [info EXCEPT ![id].status = "running"]
            /\ SaveRun(id, info'[id])
            /\ asks' = [asks EXCEPT ![id][p] = IF @ = "waiting" THEN "answered" ELSE @]
    /\ UNCHANGED <<active, quiet, queueVars, nextId, taskStatus, phase, out, reader, worker>>

\* Mutant of StaleRuns: a run that is not running is given more time.
StaleWhenRunning == {id \in active \cap quiet : info[id].status = "running"}

StaleRuns == active \cap quiet

\* check_cost_budgets, of the runs that are not stale.
OverBudget(runs) == {id \in runs : info[id].over}

\* Mutant of Freed: the last request is denied and the run stays blocked.
FreedNever(rest) == {}

\* The runs of rest whose last permission requests time out together.
Freed(rest) ==
    {id \in rest : perms[id] \cap expired[id] # {} /\ perms[id] \subseteq expired[id]}

\* Mutant of Denied: the request is dropped and the agent is told nothing.
DeniedSilently(rest) == asks

\* The agents of rest, after they were sent the denials.
Denied(rest) ==
    [id \in Ids |-> [p \in Perms |->
        IF id \in rest /\ p \in perms[id] \cap expired[id] /\ asks[id][p] = "waiting"
        THEN "answered" ELSE asks[id][p]]]

\* check_stale fails the quiet runs, cancels those over budget, denies the
\* permission requests that timed out and unblocks the runs left with none.
\* Its caller advances the queue when it failed a run.
CheckStale(c) ==
    LET stale == StaleRuns
        over  == OverBudget(active \ stale)
        rest  == active \ (stale \cup over)
    IN  /\ Calls(c, "check_stale")
        /\ Settle([id \in stale \cup over |->
                     IF id \in stale THEN "failed" ELSE "cancelled"], Freed(rest))
        /\ perms'   = [id \in Ids |-> IF id \in rest THEN perms[id] \ expired[id] ELSE {}]
        /\ expired' = [id \in Ids |-> {}]
        /\ asks'    = Denied(rest)
        /\ IF stale # {} THEN GoTo(c, "pop") ELSE UNCHANGED worker
        /\ UNCHANGED <<queueVars, nextId, out, reader>>

-----------------------------------------------------------------------------
(* try_advance                                                             *)

\* First critical section: stop, or pop the head of the queue.
PopPending(w) ==
    /\ worker[w].pc = "pop"
    /\ IF queueCancelled \/ ~SlotFree(active) \/ pending = <<>>
       THEN GoTo(w, "idle") /\ UNCHANGED pending
       ELSE /\ pending' = Tail(pending)
            /\ worker'  = [worker EXCEPT ![w] = [pc |-> "launch", item |-> Head(pending)]]
    /\ UNCHANGED <<mapVars, countVars, nextId, diskVars, sidecarVars, reader>>

\* Second: launch_run on the popped entry, which queues it again, under a
\* new id and at the back, when the slot has gone in between.
LaunchPopped(w) ==
    /\ worker[w].pc = "launch"
    /\ LET t == worker[w].item.task IN
        \/ (LaunchQueued(t) \/ LaunchStarted(t)) /\ GoTo(w, "pop")
        \/ /\ LaunchRefused(t)
           /\ worker' = [worker EXCEPT ![w].pc = "refused"]
           /\ UNCHANGED <<mapVars, queueVars, nextId, diskVars, sidecarVars, reader>>

\* Mutant of Drops: a run that cannot be launched is tried for ever.
DropsNever(item) == FALSE

Drops(item) == item.fails >= MaxQueueFailures

\* Mutant of Requeued: the refused entry is forgotten.
RequeuedNot(item) == pending

Requeued(item) == <<item>> \o pending

\* Third, after an error: back to the front of the queue, or dropped.
RequeuePopped(w) ==
    /\ worker[w].pc = "refused"
    /\ LET item == [worker[w].item EXCEPT !.fails = @ + 1] IN
        IF Drops(item)
        THEN queueFailed' = queueFailed + 1 /\ UNCHANGED pending
        ELSE pending' = Requeued(item) /\ UNCHANGED queueFailed
    /\ GoTo(w, "idle")
    /\ UNCHANGED <<mapVars, queueCompleted, queueCancelled, nextId, diskVars, sidecarVars, reader>>

\* An HTTP client goes away, or its request takes 30 seconds, and the handler
\* is dropped at an await: between two critical sections, with the entry it
\* has popped ...
RequestDropped(c) ==
    /\ "disconnect" \in Ops /\ worker[c].pc \in {"pop", "launch", "refused"}
    /\ GoTo(c, "idle")
    /\ UNCHANGED <<mapVars, queueVars, nextId, diskVars, sidecarVars, reader>>

\* ... or inside one, while it writes to a sidecar: in launch_run, whoever
\* called it, ...
LaunchCut(c, t) ==
    /\ "disconnect" \in Ops
    /\ \/ Calls(c, "launch") /\ MayCreate
       \/ worker[c].pc \in {"retry", "launch"} /\ worker[c].item.task = t
    /\ ~TaskBusy(t) /\ SlotFree(active)
    /\ StartCut(t, FALSE)
    /\ GoTo(c, "idle")
    /\ UNCHANGED queueVars

\* ... in resume_run, before task.md is written, ...
ResumeCut(c, t) ==
    /\ "disconnect" \in Ops /\ Calls(c, "resume") /\ MayCreate
    /\ taskStatus[t] \in {"failed", "cancelled"}
    /\ runFile[t].session
    /\ SlotFree(active)
    /\ StartCut(t, TRUE)
    /\ UNCHANGED <<queueVars, worker>>

\* ... or in respond_to_permission, which has taken the request out already:
\* the agent still waits, and its answer is cut.
RespondCut(c, id, p) ==
    /\ "disconnect" \in Ops /\ Calls(c, "respond")
    /\ id \in active /\ p \in perms[id] /\ phase[id] # "exited"
    /\ perms'   = [perms EXCEPT ![id] = @ \ {p}]
    /\ expired' = [expired EXCEPT ![id] = @ \ {p}]
    /\ asks' = [asks EXCEPT ![id][p] = "cut"]
    /\ UNCHANGED <<active, info, quiet, queueVars, nextId, diskVars, phase, out,
                   reader, worker>>

DropRequest(c) ==
    \/ RequestDropped(c)
    \/ \E t \in Tasks : LaunchCut(c, t) \/ ResumeCut(c, t)
    \/ \E id \in Ids, p \in Perms : RespondCut(c, id, p)

-----------------------------------------------------------------------------
(* The stdout reader of a run                                              *)

Reads(id) == reader[id] = "open" /\ worker[id].pc = "idle"
Receives(id, type) == Reads(id) /\ out[id] # <<>> /\ Head(out[id]).type = type
Consume(id) == out' = [out EXCEPT ![id] = Tail(@)]

\* Mutant of Known: a message of a run that was removed is applied.
KnownForever(id) == info[id].task # NoTask

\* handle_response finds the run in the map.
Known(id) == id \in active

\* Mutant of LeftToEnd: the end of stdout is only counted.
LeftToEndNobody(id) == {}

\* The run the end of stdout finds still active.
LeftToEnd(id) == {id} \cap active

\* handle_response knows only active runs.
ReadLate(id) ==
    /\ id \notin active
    /\ Receives(id, "session_started") \/ Receives(id, "permission_request")
    /\ Consume(id)
    /\ UNCHANGED <<mapVars, queueVars, nextId, diskVars, phase, asks, reader, worker>>

ReadSessionStarted(id) ==
    /\ id \in active /\ Receives(id, "session_started") /\ Consume(id)
    /\ quiet' = quiet \ {id}
    /\ info'  = [info EXCEPT ![id].status = "running", ![id].session = TRUE]
    /\ taskStatus' = [taskStatus EXCEPT ![info[id].task] = "running"]
    /\ SaveRun(id, info'[id])
    /\ UNCHANGED <<active, perms, expired, queueVars, nextId, phase, asks, reader, worker>>

\* Mutant of Asked: the newest request replaces the pending ones.
AskedLast(id) == {Head(out[id]).perm}

\* pending_permissions after the request at the head of stdout.
Asked(id) == perms[id] \cup {Head(out[id]).perm}

ReadPermissionRequest(id) ==
    /\ id \in active /\ Receives(id, "permission_request") /\ Consume(id)
    /\ quiet' = quiet \ {id}
    /\ info'  = [info EXCEPT ![id].status = "blocked"]
    /\ perms' = [perms EXCEPT ![id] = Asked(id)]
    /\ SaveRun(id, info'[id])
    /\ UNCHANGED <<active, expired, queueVars, nextId, taskStatus, phase, asks, reader, worker>>

\* Heartbeats and steps change only last_activity_ms; the action writes and
\* reads one at once.
ReadActivity(id) ==
    /\ id \in active \cap quiet /\ Reads(id) /\ phase[id] = "session" /\ out[id] = <<>>
    /\ quiet' = quiet \ {id}
    /\ UNCHANGED <<active, info, perms, expired, queueVars, nextId, diskVars, sidecarVars,
                   reader, worker>>

\* run_complete or run_error: the run, if it is still there, ends and leaves
\* the map; in any case the outcome is counted and the queue may advance.
ReadTerminal(id) ==
    LET complete == Head(out[id]).type = "run_complete"
        st       == IF complete THEN "succeeded" ELSE "failed"
        t        == info[id].task
    IN  /\ Receives(id, "run_complete") \/ Receives(id, "run_error")
        /\ Consume(id)
        /\ IF Known(id)
           THEN /\ active'  = active \ {id}
                /\ quiet'   = quiet \ {id}
                /\ perms'   = [perms EXCEPT ![id] = {}]
                /\ expired' = [expired EXCEPT ![id] = {}]
                /\ info'    = [info EXCEPT ![id].status = st, ![id].over = Head(out[id]).over]
                /\ taskStatus' = [taskStatus EXCEPT ![t] = st]
                /\ IF complete THEN runFile' = [runFile EXCEPT ![t] = NoRunJson]
                               ELSE SaveRun(id, info'[id])
           ELSE UNCHANGED <<mapVars, diskVars>>
        /\ IF complete
           THEN queueCompleted' = queueCompleted + 1 /\ UNCHANGED queueFailed
           ELSE queueFailed' = queueFailed + 1 /\ UNCHANGED queueCompleted
        /\ IF ShouldAdvance THEN GoTo(id, "pop") ELSE UNCHANGED worker
        /\ UNCHANGED <<pending, queueCancelled, nextId, phase, asks, reader>>

\* Stdout closed, or could not be read: the run fails if it is still there,
\* a failure is counted in any case, and the reader ends.
ReadEnd(id) ==
    /\ Reads(id)
    /\ \/ phase[id] = "exited" /\ out[id] = <<>>
       \/ "read_error" \in Ops
    /\ EndRuns(LeftToEnd(id), "failed")
    /\ queueFailed' = queueFailed + 1
    /\ reader' = [reader EXCEPT ![id] = "closed"]
    /\ IF ShouldAdvance THEN GoTo(id, "pop") ELSE UNCHANGED worker
    /\ UNCHANGED <<pending, queueCompleted, queueCancelled, nextId>>

-----------------------------------------------------------------------------
(* The sidecar, agent-bridge.js: one session, then it waits for its stdin  *)
(* to close.  Its messages carry its own session id or none, so            *)
(* session_matches never fails.                                            *)

Write(id, type, perm, over) ==
    /\ Len(out[id]) < PipeCap
    /\ out' = [out EXCEPT ![id] = Append(@, [type |-> type, perm |-> perm, over |-> over])]

\* resetRunState denies what still waits (an answer that was cut stays on
\* record).
ResetRunState(id) ==
    asks' = [asks EXCEPT ![id] =
                [p \in Perms |-> IF @[p] \in {"fresh", "cut"} THEN @[p] ELSE "resolved"]]

Unresolved(id) == {p \in Perms : asks[id][p] \in {"waiting", "answered", "cut"}}

SidecarFrame == UNCHANGED <<mapVars, queueVars, nextId, diskVars, reader, worker>>

SessionInit(id) ==
    /\ phase[id] = "booting"
    /\ Write(id, "session_started", NoPerm, FALSE)
    /\ phase' = [phase EXCEPT ![id] = "session"]
    /\ UNCHANGED asks /\ SidecarFrame

AskPermission(id, p) ==
    /\ phase[id] = "session" /\ asks[id][p] = "fresh"
    /\ Write(id, "permission_request", p, FALSE)
    /\ asks' = [asks EXCEPT ![id][p] = "waiting"]
    /\ UNCHANGED phase /\ SidecarFrame

HandleAnswer(id, p) ==
    /\ phase[id] = "session" /\ asks[id][p] = "answered"
    /\ asks' = [asks EXCEPT ![id][p] = "resolved"]
    /\ UNCHANGED <<phase, out>> /\ SidecarFrame

\* The SDK's result message; a success needs every tool call resolved.
SessionResult(id, over) ==
    /\ phase[id] = "session"
    /\ \/ Unresolved(id) = {} /\ Write(id, "run_complete", NoPerm, over)
       \/ Write(id, "run_error", NoPerm, over)
    /\ phase' = [phase EXCEPT ![id] = "resting"]
    /\ ResetRunState(id) /\ SidecarFrame

\* The task file cannot be read, or the SDK's message stream throws, before
\* a result or after it.
SessionThrows(id) ==
    /\ "throw" \in Ops /\ phase[id] \in {"booting", "session", "resting"}
    /\ Write(id, "run_error", NoPerm, FALSE)
    /\ phase' = [phase EXCEPT ![id] = "spent"]
    /\ ResetRunState(id) /\ SidecarFrame

\* Dropping the ActiveRun closes the sidecar's stdin.
SidecarExits(id) ==
    /\ phase[id] \in Alive /\ id \notin active
    /\ phase' = [phase EXCEPT ![id] = "exited"]
    /\ UNCHANGED <<out, asks>> /\ SidecarFrame

SidecarCrash(id) ==
    /\ "sidecar_crash" \in Ops /\ phase[id] \in Alive
    /\ phase' = [phase EXCEPT ![id] = "exited"]
    /\ UNCHANGED <<out, asks>> /\ SidecarFrame

SidecarHangs(id) ==
    /\ "hang" \in Ops /\ phase[id] \in {"booting", "session"}
    /\ phase' = [phase EXCEPT ![id] = "hung"]
    /\ UNCHANGED <<out, asks>> /\ SidecarFrame

-----------------------------------------------------------------------------
(* Time and the daemon's life                                              *)

GoQuiet(id) ==
    /\ "check_stale" \in Ops /\ id \in active \ quiet
    /\ quiet' = quiet \cup {id}
    /\ UNCHANGED <<active, info, perms, expired, queueVars, nextId, diskVars, sidecarVars,
                   reader, worker>>

PermissionTimesOut(id, p) ==
    /\ "check_stale" \in Ops /\ p \in perms[id] \ expired[id]
    /\ expired' = [expired EXCEPT ![id] = @ \cup {p}]
    /\ UNCHANGED <<active, info, perms, quiet, queueVars, nextId, diskVars, sidecarVars,
                   reader, worker>>

\* The daemon dies and starts again: what is not on disk is lost, and the
\* sidecars exit with their stdin.
DaemonRestart ==
    /\ "restart" \in Ops
    /\ active' = {} /\ quiet' = {} /\ pending' = <<>>
    /\ perms'   = [id \in Ids |-> {}]
    /\ expired' = [id \in Ids |-> {}]
    /\ queueCompleted' = 0 /\ queueFailed' = 0 /\ queueCancelled' = FALSE
    /\ phase'  = [id \in Ids |-> IF phase[id] = "unborn" THEN "unborn" ELSE "exited"]
    /\ out'    = [id \in Ids |-> <<>>]
    /\ reader' = [id \in Ids |-> IF reader[id] = "open" THEN "closed" ELSE reader[id]]
    /\ worker' = [w \in Workers |-> Idle]
    /\ UNCHANGED <<info, nextId, diskVars, asks>>

-----------------------------------------------------------------------------
ClientStep(c) ==
    \/ \E t \in Tasks : \/ LaunchRun(c, t) \/ RetryRun(c, t) \/ ResumeRun(c, t)
                        \/ EnqueueRun(c, t) \/ RemoveQueued(c, t)
    \/ \E batch \in Batches : BatchLaunch(c, batch)
    \/ \E id \in Ids : ForceCancelRun(c, id)
    \/ \E id \in Ids, p \in Perms : RespondToPermission(c, id, p)
    \/ CancelQueue(c) \/ Shutdown(c) \/ CheckStale(c)

Advance(w) == PopPending(w) \/ LaunchPopped(w) \/ RequeuePopped(w)

Read(id) ==
    \/ ReadLate(id) \/ ReadSessionStarted(id) \/ ReadPermissionRequest(id)
    \/ ReadActivity(id) \/ ReadTerminal(id) \/ ReadEnd(id)

Sidecar(id) ==
    \/ SessionInit(id) \/ SessionThrows(id)
    \/ \E p \in Perms : AskPermission(id, p) \/ HandleAnswer(id, p)
    \/ \E over \in Costs : SessionResult(id, over)
    \/ SidecarExits(id) \/ SidecarCrash(id) \/ SidecarHangs(id)

\* There is something to read, or stdout has closed.
Readable(id) == out[id] # <<>> \/ phase[id] = "exited"

Time(id) == GoQuiet(id) \/ \E p \in Perms : PermissionTimesOut(id, p)

Next ==
    \/ \E c \in Clients : ClientStep(c) \/ RetryLaunch(c) \/ DropRequest(c)
    \/ \E w \in Workers : Advance(w)
    \/ \E id \in Ids : Read(id) \/ Sidecar(id) \/ Time(id)
    \/ DaemonRestart

Spec == Init /\ [][Next]_vars

(* Fairness: tokio runs every spawned task and every call to its end, and  *)
(* a reader reads a line that is there and sees stdout closed (that a read *)
(* fails is never assumed); a sidecar answers its stdin closing, handles   *)
(* what it reads and starts its session unless it hangs; a hung one, which *)
(* sends no heartbeat, becomes quiet and an unanswered request times out;  *)
(* a deployment that has the stale checker runs it for ever.               *)
Fairness ==
    /\ \A w \in Workers : WF_vars(Advance(w))
    /\ \A c \in Clients : WF_vars(RetryLaunch(c))
    /\ \A id \in Ids :
        /\ WF_vars(Readable(id) /\ Read(id))
        /\ WF_vars(SidecarExits(id)) /\ WF_vars(SessionInit(id))
        /\ \A p \in Perms : WF_vars(HandleAnswer(id, p)) /\ WF_vars(PermissionTimesOut(id, p))
        /\ WF_vars(phase[id] = "hung" /\ GoQuiet(id))
    /\ WF_vars(\E c \in Clients : CheckStale(c))

\* An agent that does not hang comes to a result: its turns are limited.
SessionsEnd == \A id \in Ids : WF_vars(\E over \in Costs : SessionResult(id, over))

FairSpec == Spec /\ Fairness
FairEndingSpec == FairSpec /\ SessionsEnd

-----------------------------------------------------------------------------
(* Properties                                                              *)

AskState == {"fresh", "waiting", "answered", "cut", "resolved"}

\* The type invariant: the manager's map, its queue, the files, the sidecars
\* and the tokio tasks.
MapOK ==
    /\ active \subseteq Ids /\ quiet \subseteq active
    /\ info \in [Ids -> RunInfo]
    /\ perms \in [Ids -> SUBSET Perms] /\ expired \in [Ids -> SUBSET Perms]
QueueOK ==
    /\ pending \in Seq(QueuedRun)
    /\ queueCompleted \in Nat /\ queueFailed \in Nat /\ queueCancelled \in BOOLEAN
DiskOK == taskStatus \in [Tasks -> TaskStatus] /\ runFile \in [Tasks -> RunJson]
SidecarOK ==
    /\ phase \in [Ids -> Alive \cup {"unborn", "exited"}]
    /\ out \in [Ids -> Seq(Message)] /\ asks \in [Ids -> [Perms -> AskState]]
ReaderOK == reader \in [Ids -> {"none", "open", "closed"}]
WorkerOK == worker \in [Workers -> [pc : {"idle", "pop", "launch", "refused", "retry"},
                                    item : QueuedRun]]
TypeOK ==
    /\ MapOK /\ QueueOK /\ DiskOK /\ SidecarOK /\ ReaderOK /\ WorkerOK
    /\ nextId \in 1..(MaxIds + 1)

\* However launches, resumes, readers and half-done queue advances
\* interleave, no more than max_concurrent runs are active: every path that
\* inserts into the map checks the slots in the same critical section.
CapacityRespected == Cardinality(active) <= MaxConcurrent

\* An active run is not in a terminal status.
ActiveLive == \A id \in active : info[id].status \in LiveStatus

\* Where no request is dropped, no run is left in the map with nobody to take
\* it out: it has a reader that has not ended, and a live status.
NoOrphanRun ==
    \A id \in active : reader[id] = "open" /\ info[id].status \in LiveStatus

\* At most one active run works in a worktree (launch_run's duplicate check).
OneRunPerTask ==
    \A i, j \in active : info[i].task = info[j].task => i = j

\* run.json always holds the id, status and session of the active run of its
\* worktree: no late message, late EOF or late answer of an earlier run of
\* the task overwrites or deletes the record of the one that replaced it.
DiskMatchesMemory ==
    \A id \in active : runFile[info[id].task] = Json(id, info[id])

\* While the daemon lives, task.md says running only if a run of the task is
\* active: every way a run can end writes a terminal status.
NoGhostRunning ==
    \A t \in Tasks : taskStatus[t] = "running" => \E id \in active : info[id].task = t

\* A permission request the agent waits for is known to the manager or on
\* its way there, so a user or the timeout can still answer it, unless the
\* handler that was answering it has been dropped.
NoLostPermission ==
    \A id \in active, p \in Perms :
        phase[id] = "session" /\ asks[id][p] = "waiting" =>
            \/ p \in perms[id]
            \/ \E i \in DOMAIN out[id] : out[id][i].perm = p

\* A run shown as blocked has a request to answer, unless its sidecar died or
\* the handler that was answering has been dropped.
BlockedHasPermission ==
    \A id \in active : info[id].status = "blocked" /\ phase[id] # "exited" =>
        perms[id] # {} \/ \E p \in Perms : asks[id][p] = "cut"

\* An id that was not handed out yet has left no trace.
FreshUntouched ==
    \A id \in Ids : id >= nextId =>
        id \notin active /\ info[id] = NoRunInfo /\ reader[id] = "none"

\* What the properties above and the refinement below rest on: the map, the
\* statuses and the ids agree.  It is inductive.
IInv == TypeOK /\ CapacityRespected /\ ActiveLive /\ FreshUntouched

\* run.json never shows as live a run that has ended: whatever ends a run,
\* be it one of two that were resumed in the same worktree or one whose
\* launch was dropped before it had a run.json, and whatever the other run
\* writes before or after, the record it leaves is not its own old one.
EndedOnDisk ==
    \A t \in Tasks : runFile[t].status \in LiveStatus =>
        info[runFile[t].run].status \notin TerminalStatus

\* The pool of runs is an implementation of RunPool: started once, never
\* over capacity, ended once, the outcome never changed afterwards.
poolRun == [id \in Ids |->
    IF id \in active THEN "active"
    ELSE IF info[id].status \in TerminalStatus THEN info[id].status
    ELSE IF info[id].status = "created" THEN "free" ELSE "lost"]
Pool == INSTANCE RunPool WITH run <- poolRun
PoolSpec == Pool!Spec

\* Entries of task t in the queue or in the hands of a try_advance.
Backlog(t) ==
    Cardinality({i \in DOMAIN pending : pending[i].task = t})
    + Cardinality({w \in Workers : worker[w].pc \in {"launch", "refused"}
                                   /\ worker[w].item.task = t})

\* Where nobody clears the queue, an entry leaves it only by starting a run
\* or by being dropped and counted as failed: no interleaving of the popping,
\* launching and requeueing critical sections loses one.
QueuedRunKept ==
    [][\A t \in Tasks : Backlog(t)' < Backlog(t) =>
          \/ \E id \in active' \ active : info'[id].task = t
          \/ queueFailed' = queueFailed + 1]_vars

\* A run whose sidecar hangs gives its slot back (the stale checker).
SlotReclaimed == \A id \in Ids : (id \in active /\ phase[id] = "hung") ~> id \notin active

\* An entry of the queue is eventually launched or dropped.
QueueDrains == \A t \in Tasks : Backlog(t) > 0 ~> Backlog(t) = 0

\* A request the agent waits for is eventually answered, by a user or by
\* the timeout, unless the session is over or the answer is cut.
PermissionAnswered ==
    \A id \in Ids, p \in Perms :
        (phase[id] = "session" /\ asks[id][p] = "waiting")
            ~> (phase[id] # "session" \/ asks[id][p] # "waiting")
=============================================================================
