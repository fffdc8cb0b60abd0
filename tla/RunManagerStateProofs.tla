------------------------- MODULE RunManagerStateProofs -------------------------
(***************************************************************************)
(* What the run manager keeps in step with its map of runs: the files of   *)
(* the worktrees, the permission requests of the sessions and the entries  *)
(* of the pending queue.  Theorems about RunManager for every number of    *)
(* tasks, clients, slots, ids and every deployment, those that a theorem's *)
(* hypothesis leaves out excepted.                                         *)
(***************************************************************************)
EXTENDS RunManagerProofs

USE DEF mapVars, queueVars, countVars, diskVars, sidecarVars

-----------------------------------------------------------------------------
(* Runs, entries and clients work on tasks that exist                      *)

Launching == {"launch", "refused", "retry"}

QueueNamed  == \A i \in DOMAIN pending : pending[i].task \in Tasks
WorkerNamed == \A w \in Workers : worker[w].pc \in Launching => worker[w].item.task \in Tasks
RunsNamed   == \A id \in active : info[id].task \in Tasks
Named       == QueueNamed /\ WorkerNamed /\ RunsNamed

\* The queue as a sequence: an entry is added at its back, taken from its
\* front, put back at its front.
LEMMA QueueIs ==
    ASSUME TypeOK
    PROVE  Len(pending) \in Nat /\ DOMAIN pending = 1..Len(pending)
BY LenProperties DEF TypeOK, QueueOK

LEMMA QueuedAtBack ==
    ASSUME TypeOK, NEW t \in Tasks \cup {NoTask}, nextId <= MaxIds
    PROVE  /\ DOMAIN Append(pending, Ticket(t)) = 1..(Len(pending) + 1)
           /\ \A i \in DOMAIN pending : Append(pending, Ticket(t))[i] = pending[i]
           /\ Append(pending, Ticket(t))[Len(pending) + 1].task = t
<1> DEFINE q == Append(pending, Ticket(t))
<1>1. Ticket(t) \in QueuedRun /\ Ticket(t).task = t
    BY BoundAssumption, QueueAssumption DEF Ticket, QueuedRun, TypeOK
<1>2. /\ q \in Seq(QueuedRun) /\ Len(q) = Len(pending) + 1
      /\ \A i \in 1..Len(pending) : q[i] = pending[i]
      /\ q[Len(pending) + 1] = Ticket(t)
    BY <1>1, AppendProperties DEF TypeOK, QueueOK
<1>3. DOMAIN q = 1..Len(q)
    BY <1>2, LenProperties
<1>4. QED
    BY <1>1, <1>2, <1>3, QueueIs

LEMMA QueuePopped ==
    ASSUME TypeOK, pending # <<>>
    PROVE  /\ Head(pending) = pending[1] /\ 1 \in DOMAIN pending
           /\ DOMAIN Tail(pending) = 1..(Len(pending) - 1)
           /\ \A i \in DOMAIN Tail(pending) : i + 1 \in DOMAIN pending
                                              /\ Tail(pending)[i] = pending[i + 1]
<1>1. pending \in Seq(QueuedRun)
    BY DEF TypeOK, QueueOK
<1>2. Len(pending) \in Nat /\ Len(pending) > 0 /\ DOMAIN pending = 1..Len(pending)
      /\ Head(pending) = pending[1]
    BY <1>1, LenProperties, EmptySeq
<1>3. /\ Tail(pending) \in Seq(QueuedRun) /\ Len(Tail(pending)) = Len(pending) - 1
      /\ \A i \in 1..Len(Tail(pending)) : Tail(pending)[i] = pending[i + 1]
    BY <1>1, HeadTailProperties
<1>4. DOMAIN Tail(pending) = 1..(Len(pending) - 1)
    BY <1>3, LenProperties
<1>5. QED
    BY <1>2, <1>3, <1>4

LEMMA QueuedAtFront ==
    ASSUME TypeOK, NEW item \in QueuedRun
    PROVE  /\ DOMAIN Requeued(item) = 1..(Len(pending) + 1)
           /\ Requeued(item)[1] = item
           /\ \A i \in DOMAIN pending : Requeued(item)[i + 1] = pending[i]
<1> DEFINE q == <<item>> \o pending
<1>1. <<item>> \in Seq(QueuedRun) /\ Len(<<item>>) = 1 /\ <<item>>[1] = item
      /\ pending \in Seq(QueuedRun)
    BY DEF TypeOK, QueueOK
<1>2. /\ q \in Seq(QueuedRun) /\ Len(q) = 1 + Len(pending)
      /\ \A i \in 1..(1 + Len(pending)) : q[i] = IF i <= 1 THEN <<item>>[i] ELSE pending[i - 1]
    BY <1>1, ConcatProperties
<1>3. DOMAIN q = 1..Len(q)
    BY <1>2, LenProperties
<1> HIDE DEF q
<1>4. /\ DOMAIN q = 1..(Len(pending) + 1) /\ q[1] = item
      /\ \A i \in DOMAIN pending : q[i + 1] = pending[i]
    <2>1. q[1] = item
        BY <1>1, <1>2, QueueIs
    <2>2. ASSUME NEW i \in DOMAIN pending PROVE q[i + 1] = pending[i]
        BY <1>2, QueueIs
    <2>3. QED
        BY <1>2, <1>3, <2>1, <2>2, QueueIs
<1>5. QED
    BY <1>4 DEF q, Requeued

LEMMA GoToNamed ==
    ASSUME TypeOK, WorkerNamed, NEW w \in Workers, NEW pc \in {"idle", "pop"}, GoTo(w, pc)
    PROVE  WorkerNamed'
BY DEF GoTo, WorkerNamed, TypeOK, WorkerOK, Launching, Idle

\* Most steps start no run: the runs that are left keep their tasks.
LEMMA ShrinkNamed ==
    ASSUME IInv, RunsNamed, [Next]_vars, active' \subseteq active
    PROVE  RunsNamed'
<1>1. CASE \E t \in Tasks \cup {NoTask} : StartStep(t)
    BY <1>1 DEF StartStep, IInv, FreshUntouched, TypeOK, Ids
<1>2. CASE \E S \in SUBSET active : EndStep(S)
    BY <1>2 DEF EndStep, RunsNamed, IInv, TypeOK, MapOK
<1>3. CASE LoseStep
    BY <1>3 DEF LoseStep, RunsNamed
<1>4. QED
    BY <1>1, <1>2, <1>3, NextKind DEF Kinds

LEMMA StartNamed ==
    ASSUME TypeOK, RunsNamed, NEW t \in Tasks, NEW resumed \in BOOLEAN,
           StartRun(t, resumed) \/ StartCut(t, resumed)
    PROVE  RunsNamed'
<1>1. ASSUME NEW id \in active' PROVE info'[id].task \in Tasks
    <2>1. nextId \in Ids
        BY BoundAssumption DEF StartRun, StartCut, InsertRun, TypeOK, Ids
    <2>2. CASE id = nextId
        BY <2>1, <2>2 DEF StartRun, StartCut, InsertRun, NewRun, TypeOK, MapOK
    <2>3. CASE id # nextId
        BY <1>1, <2>3 DEF StartRun, StartCut, InsertRun, RunsNamed, TypeOK, MapOK
    <2>4. QED
        BY <2>2, <2>3
<1>2. QED
    BY <1>1 DEF RunsNamed

LEMMA LaunchNamed ==
    ASSUME TypeOK, QueueNamed, RunsNamed,
           NEW t \in Tasks, LaunchQueued(t) \/ LaunchStarted(t)
    PROVE  QueueNamed' /\ RunsNamed'
<1>1. CASE LaunchQueued(t)
    <2>1. QueueNamed'
        BY <1>1, QueuedAtBack, QueueIs DEF LaunchQueued, QueueNamed
    <2>2. QED
        BY <1>1, <2>1 DEF LaunchQueued, RunsNamed
<1>2. CASE LaunchStarted(t)
    <2>1. QueueNamed'
        BY <1>2 DEF LaunchStarted, QueueNamed
    <2>2. QED
        BY <1>2, <2>1, StartNamed DEF LaunchStarted
<1>3. QED
    BY <1>1, <1>2

LEMMA ClientNamed ==
    ASSUME IInv, Named, NEW c \in Clients, ClientStep(c), [Next]_vars
    PROVE  Named'
<1> TypeOK /\ c \in Workers
    BY DEF IInv, Workers
<1> USE DEF Named
<1>1. ASSUME NEW t \in Tasks, LaunchRun(c, t) PROVE Named'
    <2>1. WorkerNamed'
        BY <1>1 DEF LaunchRun, WorkerNamed
    <2>2. QED
        BY <1>1, <2>1, LaunchNamed DEF LaunchRun
<1>2. ASSUME NEW t \in Tasks, RetryRun(c, t) PROVE Named'
    <2>1. WorkerNamed'
        BY <1>2 DEF RetryRun, WorkerNamed, TypeOK, WorkerOK, NoItem
    <2>2. QED
        BY <1>2, <2>1 DEF RetryRun, QueueNamed, RunsNamed
<1>3. ASSUME NEW t \in Tasks, ResumeRun(c, t) PROVE Named'
    <2>1. RunsNamed'
        BY <1>3, StartNamed DEF ResumeRun
    <2>2. QED
        BY <1>3, <2>1 DEF ResumeRun, QueueNamed, WorkerNamed
<1>4. ASSUME NEW t \in Tasks, EnqueueRun(c, t) PROVE Named'
    <2>1. nextId <= MaxIds
        BY <1>4, BoundAssumption DEF EnqueueRun, MayCreate, TypeOK
    <2>2. QueueNamed'
        BY <1>4, <2>1, QueuedAtBack, QueueIs DEF EnqueueRun, QueueNamed
    <2>3. WorkerNamed'
        BY <1>4, GoToNamed DEF EnqueueRun
    <2>4. QED
        BY <1>4, <2>2, <2>3 DEF EnqueueRun, RunsNamed
<1>5. ASSUME NEW t \in Tasks, RemoveQueued(c, t) PROVE Named'
    <2> DEFINE kept == {i \in DOMAIN pending : pending[i].task # t}
               n    == Cardinality(kept)
    <2>1. PICK f \in [1..n -> kept] : pending' = [i \in 1..n |-> pending[f[i]]]
        BY <1>5 DEF RemoveQueued
    <2>2. QueueNamed'
        BY <2>1 DEF QueueNamed
    <2>3. QED
        BY <1>5, <2>2 DEF RemoveQueued, RunsNamed, WorkerNamed
<1>6. ASSUME NEW batch \in Batches, BatchLaunch(c, batch) PROVE Named'
    <2>1. batch \in [1..Len(batch) -> Tasks]
        BY BatchAssumption, LenProperties
    <2>2. QueueNamed'
        BY <1>6, <2>1 DEF BatchLaunch, QueueNamed
    <2>3. WorkerNamed'
        BY <1>6, GoToNamed DEF BatchLaunch
    <2>4. QED
        BY <1>6, <2>2, <2>3 DEF BatchLaunch, RunsNamed
<1>7. ASSUME NEW id \in Ids, ForceCancelRun(c, id) PROVE Named'
    <2>1. active' \subseteq active /\ UNCHANGED pending
        BY <1>7 DEF ForceCancelRun, EndRuns, Settle
    <2>2. WorkerNamed'
        BY <1>7, GoToNamed DEF ForceCancelRun, WorkerNamed
    <2>3. QED
        BY <2>1, <2>2, ShrinkNamed DEF QueueNamed
<1>8. ASSUME NEW id \in Ids, NEW p \in Perms, RespondToPermission(c, id, p) PROVE Named'
    BY <1>8, ShrinkNamed DEF RespondToPermission, QueueNamed, WorkerNamed
<1>9. CASE CancelQueue(c)
    <2>1. active' \subseteq active /\ pending' = <<>> /\ UNCHANGED worker
        BY <1>9 DEF CancelQueue, EndRuns, Settle
    <2>2. QED
        BY <2>1, ShrinkNamed DEF QueueNamed, WorkerNamed
<1>10. CASE Shutdown(c)
    <2>1. active' \subseteq active /\ UNCHANGED <<pending, worker>>
        BY <1>10 DEF Shutdown, EndRuns, Settle
    <2>2. QED
        BY <2>1, ShrinkNamed DEF QueueNamed, WorkerNamed
<1>11. CASE CheckStale(c)
    <2>1. active' \subseteq active /\ UNCHANGED pending
        BY <1>11 DEF CheckStale, Settle
    <2>2. WorkerNamed'
        BY <1>11, GoToNamed DEF CheckStale, WorkerNamed
    <2>3. QED
        BY <2>1, <2>2, ShrinkNamed DEF QueueNamed
<1>12. QED
    BY <1>1, <1>2, <1>3, <1>4, <1>5, <1>6, <1>7, <1>8, <1>9, <1>10, <1>11 DEF ClientStep

LEMMA WorkNamed ==
    ASSUME IInv, Named PROVE
    /\ \A c \in Clients : RetryLaunch(c) \/ DropRequest(c) => Named'
    /\ \A w \in Workers : Advance(w) => Named'
<1> TypeOK
    BY DEF IInv
<1> USE DEF Named
<1>1. ASSUME NEW c \in Clients, RetryLaunch(c) PROVE Named'
    <2>1. c \in Workers /\ worker[c].item.task \in Tasks
        BY <1>1 DEF Workers, RetryLaunch, WorkerNamed, Launching
    <2>2. WorkerNamed'
        BY <1>1, <2>1, GoToNamed DEF RetryLaunch
    <2>3. QueueNamed' /\ RunsNamed'
        BY <1>1, <2>1, LaunchNamed DEF RetryLaunch, QueueNamed, RunsNamed
    <2>4. QED
        BY <2>2, <2>3
<1>2. ASSUME NEW c \in Clients, DropRequest(c) PROVE Named'
    <2>c. c \in Workers
        BY DEF Workers
    <2>1. CASE RequestDropped(c)
        <3>1. WorkerNamed'
            BY <2>c, <2>1, GoToNamed DEF RequestDropped
        <3>2. QED
            BY <2>1, <3>1 DEF RequestDropped, QueueNamed, RunsNamed
    <2>2. ASSUME NEW t \in Tasks, LaunchCut(c, t) PROVE Named'
        <3>1. StartCut(t, FALSE) /\ GoTo(c, "idle") /\ UNCHANGED pending
            BY <2>2 DEF LaunchCut
        <3>2. WorkerNamed' /\ RunsNamed'
            BY <2>c, <3>1, GoToNamed, StartNamed
        <3>3. QED
            BY <3>1, <3>2 DEF QueueNamed
    <2>3. ASSUME NEW t \in Tasks, ResumeCut(c, t) PROVE Named'
        <3>1. StartCut(t, TRUE) /\ UNCHANGED <<pending, worker>>
            BY <2>3 DEF ResumeCut
        <3>2. RunsNamed'
            BY <3>1, StartNamed
        <3>3. QED
            BY <3>1, <3>2 DEF QueueNamed, WorkerNamed
    <2>4. CASE \E id \in Ids, p \in Perms : RespondCut(c, id, p)
        BY <2>4 DEF RespondCut, QueueNamed, RunsNamed, WorkerNamed
    <2>5. QED
        BY <1>2, <2>1, <2>2, <2>3, <2>4 DEF DropRequest
<1>3. ASSUME NEW w \in Workers, PopPending(w) PROVE Named'
    <2>1. CASE GoTo(w, "idle") /\ UNCHANGED pending
        BY <1>3, <2>1, GoToNamed DEF PopPending, QueueNamed, RunsNamed
    <2>2. CASE /\ pending # <<>> /\ pending' = Tail(pending)
               /\ worker' = [worker EXCEPT ![w] = [pc |-> "launch", item |-> Head(pending)]]
        <3>1. Head(pending).task \in Tasks /\ QueueNamed'
            BY <2>2, QueuePopped DEF QueueNamed
        <3>2. WorkerNamed'
            BY <2>2, <3>1 DEF WorkerNamed, TypeOK, WorkerOK
        <3>3. QED
            BY <1>3, <3>1, <3>2 DEF PopPending, RunsNamed
    <2>3. QED
        BY <1>3, <2>1, <2>2 DEF PopPending
<1>4. ASSUME NEW w \in Workers, LaunchPopped(w) PROVE Named'
    <2>1. worker[w].item.task \in Tasks
        BY <1>4 DEF LaunchPopped, WorkerNamed, Launching
    <2>2. WorkerNamed'
        <3>1. CASE GoTo(w, "pop")
            BY <3>1, GoToNamed
        <3>2. CASE worker' = [worker EXCEPT ![w].pc = "refused"]
            BY <2>1, <3>2 DEF WorkerNamed, TypeOK, WorkerOK
        <3>3. QED
            BY <1>4, <3>1, <3>2 DEF LaunchPopped
    <2>3. QueueNamed' /\ RunsNamed'
        BY <1>4, <2>1, LaunchNamed DEF LaunchPopped, QueueNamed, RunsNamed
    <2>4. QED
        BY <2>2, <2>3
<1>5. ASSUME NEW w \in Workers, RequeuePopped(w) PROVE Named'
    <2> DEFINE item == [worker[w].item EXCEPT !.fails = @ + 1]
    <2>1. WorkerNamed'
        BY <1>5, GoToNamed DEF RequeuePopped
    <2>2. worker[w].item.task \in Tasks /\ worker[w].item \in QueuedRun
        BY <1>5 DEF RequeuePopped, WorkerNamed, Launching, TypeOK, WorkerOK
    <2>3. item.task \in Tasks
        BY <2>2 DEF QueuedRun
    <2>4. QueueNamed'
        <3>1. CASE UNCHANGED pending
            BY <3>1 DEF QueueNamed
        <3>2. CASE ~Drops(item) /\ pending' = Requeued(item)
            <4>1. item \in QueuedRun
                BY <2>2, <3>2, QueueAssumption DEF Drops, QueuedRun
            <4> HIDE DEF item
            <4>2. ASSUME NEW i \in DOMAIN pending' PROVE pending'[i].task \in Tasks
                <5>1. /\ i \in 1..(Len(pending) + 1) /\ Requeued(item)[1] = item
                      /\ \A j \in DOMAIN pending : Requeued(item)[j + 1] = pending[j]
                    BY <3>2, <4>1, <4>2, QueuedAtFront
                <5>2. i = 1 \/ (i - 1 \in DOMAIN pending /\ (i - 1) + 1 = i)
                    BY <5>1, QueueIs
                <5>3. QED
                    BY <2>3, <3>2, <5>1, <5>2 DEF QueueNamed
            <4>3. QED
                BY <4>2 DEF QueueNamed
        <3>3. QED
            BY <1>5, <3>1, <3>2 DEF RequeuePopped
    <2>5. QED
        BY <1>5, <2>1, <2>4 DEF RequeuePopped, RunsNamed
<1>6. QED
    BY <1>1, <1>2, <1>3, <1>4, <1>5 DEF Advance

LEMMA ReadNamed ==
    ASSUME IInv, Named, NEW id \in Ids, Read(id), [Next]_vars
    PROVE  Named'
<1> TypeOK /\ id \in Workers
    BY DEF IInv, Workers
<1>1. active' \subseteq active /\ UNCHANGED pending
    BY DEF Read, ReadLate, ReadSessionStarted, ReadPermissionRequest, ReadActivity,
       ReadTerminal, ReadEnd, EndRuns, Settle
<1>2. UNCHANGED worker \/ GoTo(id, "pop")
    BY DEF Read, ReadLate, ReadSessionStarted, ReadPermissionRequest, ReadActivity,
       ReadTerminal, ReadEnd
<1>3. WorkerNamed'
    BY <1>2, GoToNamed DEF Named, WorkerNamed
<1>4. QED
    BY <1>1, <1>3, ShrinkNamed DEF Named, QueueNamed

LEMMA NextNamed == IInv /\ Named /\ [Next]_vars => Named'
<1> SUFFICES ASSUME IInv, Named, [Next]_vars PROVE Named'
    OBVIOUS
<1>1. ASSUME NEW id \in Ids, Sidecar(id) \/ Time(id) PROVE Named'
    <2>1. UNCHANGED <<active, info, pending, worker>>
        BY <1>1 DEF Sidecar, SessionInit, SessionThrows, AskPermission, HandleAnswer,
            SessionResult, SidecarExits, SidecarCrash, SidecarHangs, SidecarFrame,
            Time, GoQuiet, PermissionTimesOut
    <2>2. QED
        BY <2>1 DEF Named, QueueNamed, WorkerNamed, RunsNamed
<1>2. CASE DaemonRestart
    BY <1>2 DEF DaemonRestart, Named, QueueNamed, WorkerNamed, RunsNamed, Idle, Launching
<1>3. CASE UNCHANGED vars
    BY <1>3 DEF vars, Named, QueueNamed, WorkerNamed, RunsNamed
<1>4. QED
    BY <1>1, <1>2, <1>3, ClientNamed, WorkNamed, ReadNamed DEF Next

LEMMA InitNamed == Init => Named
BY DEF Init, Named, QueueNamed, WorkerNamed, RunsNamed, Idle, Launching

-----------------------------------------------------------------------------
(* task.md: running only while a run of the task is active                 *)

\* No step moves a run of the map to another worktree.
LEMMA TasksKept ==
    ASSUME IInv, [Next]_vars
    PROVE  \A id \in active : info'[id].task = info[id].task
<1>1. CASE \E t \in Tasks \cup {NoTask} : StartStep(t)
    BY <1>1 DEF StartStep, IInv, FreshUntouched, TypeOK, MapOK, Ids
<1>2. CASE \E S \in SUBSET active : EndStep(S)
    BY <1>2 DEF EndStep, IInv, TypeOK, MapOK
<1>3. CASE LoseStep
    BY <1>3 DEF LoseStep
<1>4. QED
    BY <1>1, <1>2, <1>3, NextKind DEF Kinds

\* A status that is left alone needs a run that is left.
LEMMA GhostKept ==
    ASSUME NoGhostRunning, \A id \in active : info'[id].task = info[id].task,
           active \subseteq active', UNCHANGED taskStatus
    PROVE  NoGhostRunning'
BY DEF NoGhostRunning

\* Whatever order the runs end in, each of their tasks gets a terminal status.
LEMMA GhostSettle ==
    ASSUME IInv, NoGhostRunning, [Next]_vars, NEW S \in SUBSET active, NEW freed,
           NEW outcome \in [S -> TerminalStatus], Settle(outcome, freed)
    PROVE  NoGhostRunning'
<1>1. PICK last \in LastWriters(S) : taskStatus' = TaskAfter(outcome, last)
    BY DEF Settle
<1>2. active' = active \ S
    BY DEF Settle
<1>3. DOMAIN last = {info[id].task : id \in S} /\ \A t \in DOMAIN last : last[t] \in S
    BY DEF LastWriters
<1>4. ASSUME NEW t \in Tasks, taskStatus'[t] = "running"
      PROVE  \E id \in active' : info'[id].task = t
    <2>1. t \notin DOMAIN last
        BY <1>1, <1>3, <1>4 DEF TaskAfter, TerminalStatus
    <2>2. taskStatus[t] = "running"
        BY <1>1, <1>4, <2>1 DEF TaskAfter
    <2>3. PICK id \in active : info[id].task = t
        BY <2>2 DEF NoGhostRunning
    <2>4. id \in active' /\ info'[id].task = t
        BY <1>2, <1>3, <2>1, <2>3, TasksKept
    <2>5. QED
        BY <2>4
<1>5. QED
    BY <1>4 DEF NoGhostRunning

LEMMA GhostEndRuns ==
    ASSUME IInv, NoGhostRunning, [Next]_vars, NEW S \in SUBSET active,
           NEW st \in TerminalStatus, EndRuns(S, st)
    PROVE  NoGhostRunning'
<1>1. [id \in S |-> st] \in [S -> TerminalStatus] /\ Settle([id \in S |-> st], {})
    BY DEF EndRuns
<1>2. QED
    BY <1>1, GhostSettle

LEMMA LaunchKeeps ==
    ASSUME NEW t, LaunchQueued(t) \/ LaunchStarted(t)
    PROVE  active \subseteq active' /\ UNCHANGED taskStatus
BY DEF LaunchQueued, LaunchStarted, StartRun, InsertRun

LEMMA ClientGhost ==
    ASSUME IInv, NoGhostRunning, NEW c \in Clients, ClientStep(c), [Next]_vars
    PROVE  NoGhostRunning'
<1>1. ASSUME NEW t \in Tasks, LaunchRun(c, t) PROVE NoGhostRunning'
    BY <1>1, LaunchKeeps, GhostKept, TasksKept DEF LaunchRun
<1>2. ASSUME NEW t \in Tasks, RetryRun(c, t) \/ EnqueueRun(c, t) \/ RemoveQueued(c, t)
      PROVE  NoGhostRunning'
    BY <1>2, GhostKept, TasksKept DEF RetryRun, EnqueueRun, RemoveQueued
<1>3. ASSUME NEW t \in Tasks, ResumeRun(c, t) PROVE NoGhostRunning'
    <2>1. /\ active' = active \cup {nextId} /\ info'[nextId].task = t
          /\ taskStatus' = [taskStatus EXCEPT ![t] = "running"]
        BY <1>3, BoundAssumption DEF ResumeRun, StartRun, InsertRun, NewRun, IInv, TypeOK, MapOK, Ids
    <2>2. QED
        BY <2>1, TasksKept DEF NoGhostRunning, IInv, TypeOK, DiskOK
<1>4. ASSUME NEW batch \in Batches, BatchLaunch(c, batch) PROVE NoGhostRunning'
    BY <1>4, GhostKept, TasksKept DEF BatchLaunch
<1>5. ASSUME NEW id \in Ids, ForceCancelRun(c, id) PROVE NoGhostRunning'
    <2>1. {id} \in SUBSET active /\ EndRuns({id}, "cancelled")
        BY <1>5 DEF ForceCancelRun
    <2>2. QED
        BY <2>1, GhostEndRuns DEF TerminalStatus
<1>6. ASSUME NEW id \in Ids, NEW p \in Perms, RespondToPermission(c, id, p)
      PROVE  NoGhostRunning'
    BY <1>6, GhostKept, TasksKept DEF RespondToPermission
<1>7. CASE CancelQueue(c) \/ Shutdown(c)
    BY <1>7, GhostEndRuns DEF CancelQueue, Shutdown, TerminalStatus
<1>8. CASE CheckStale(c)
    <2> DEFINE stale == StaleRuns
               over  == OverBudget(active \ stale)
               rest  == active \ (stale \cup over)
               S     == stale \cup over
               outcome == [id \in S |-> IF id \in stale THEN "failed" ELSE "cancelled"]
    <2>1. S \in SUBSET active /\ outcome \in [S -> TerminalStatus]
        BY DEF StaleRuns, OverBudget, TerminalStatus
    <2>2. Settle(outcome, Freed(rest))
        BY <1>8 DEF CheckStale
    <2>3. QED
        BY <2>1, <2>2, GhostSettle
<1>9. QED
    BY <1>1, <1>2, <1>3, <1>4, <1>5, <1>6, <1>7, <1>8 DEF ClientStep

LEMMA WorkGhost ==
    ASSUME IInv, NoGhostRunning, [Next]_vars,
           \/ \E c \in Clients : RetryLaunch(c) \/ DropRequest(c)
           \/ \E w \in Workers : Advance(w)
    PROVE  NoGhostRunning'
<1>1. active \subseteq active' /\ UNCHANGED taskStatus
    <2>1. CASE \E c \in Clients : DropRequest(c)
        BY <2>1 DEF DropRequest, RequestDropped, LaunchCut, ResumeCut, RespondCut, StartCut, InsertRun
    <2>2. CASE \/ \E c \in Clients : RetryLaunch(c)
               \/ \E w \in Workers : Advance(w)
        BY <2>2, LaunchKeeps DEF RetryLaunch, Advance, PopPending, LaunchPopped, RequeuePopped
    <2>3. QED
        BY <2>1, <2>2
<1>2. QED
    BY <1>1, GhostKept, TasksKept

LEMMA ReadGhost ==
    ASSUME IInv, NoGhostRunning, NEW id \in Ids, Read(id), [Next]_vars
    PROVE  NoGhostRunning'
<1>1. CASE ReadLate(id) \/ ReadActivity(id) \/ ReadPermissionRequest(id)
    BY <1>1, GhostKept, TasksKept DEF ReadLate, ReadActivity, ReadPermissionRequest
<1>2. CASE ReadSessionStarted(id)
    <2>1. /\ id \in active /\ active' = active
          /\ taskStatus' = [taskStatus EXCEPT ![info[id].task] = "running"]
        BY <1>2 DEF ReadSessionStarted
    <2>2. QED
        BY <2>1, TasksKept DEF NoGhostRunning, IInv, TypeOK, DiskOK
<1>3. CASE ReadTerminal(id)
    <2>1. CASE Known(id)
        <3>1. /\ active' = active \ {id}
              /\ \E st \in {"succeeded", "failed"} :
                    taskStatus' = [taskStatus EXCEPT ![info[id].task] = st]
            BY <1>3, <2>1, Zenon DEF ReadTerminal
        <3>2. QED
            BY <3>1, TasksKept DEF NoGhostRunning, IInv, TypeOK, DiskOK
    <2>2. CASE ~Known(id)
        BY <1>3, <2>2, GhostKept, TasksKept DEF ReadTerminal
    <2>3. QED
        BY <2>1, <2>2
<1>4. CASE ReadEnd(id)
    <2>1. LeftToEnd(id) \in SUBSET active /\ EndRuns(LeftToEnd(id), "failed")
        BY <1>4 DEF ReadEnd, LeftToEnd
    <2>2. QED
        BY <2>1, GhostEndRuns DEF TerminalStatus
<1>5. QED
    BY <1>1, <1>2, <1>3, <1>4 DEF Read

LEMMA NextGhost ==
    "restart" \notin Ops => (IInv /\ NoGhostRunning /\ [Next]_vars => NoGhostRunning')
<1> SUFFICES ASSUME "restart" \notin Ops, IInv, NoGhostRunning, [Next]_vars
             PROVE  NoGhostRunning'
    OBVIOUS
<1>1. ASSUME NEW id \in Ids, Sidecar(id) \/ Time(id) PROVE NoGhostRunning'
    <2>1. UNCHANGED <<active, info, taskStatus>>
        BY <1>1 DEF Sidecar, SessionInit, SessionThrows, AskPermission, HandleAnswer,
            SessionResult, SidecarExits, SidecarCrash, SidecarHangs, SidecarFrame,
            Time, GoQuiet, PermissionTimesOut
    <2>2. QED
        BY <2>1 DEF NoGhostRunning
<1>2. CASE UNCHANGED vars
    BY <1>2 DEF vars, NoGhostRunning
<1>3. ~DaemonRestart
    BY DEF DaemonRestart
<1>4. QED
    BY <1>1, <1>2, <1>3, ClientGhost, WorkGhost, ReadGhost DEF Next

\* A daemon that stays up never leaves a task.md that says running with no
\* run behind it: every end of a run, alone or in a loop over the map, and
\* with two runs of one task too, writes a terminal status.
THEOREM NoGhostSafe == "restart" \notin Ops => (Spec => []NoGhostRunning)
<1> SUFFICES ASSUME "restart" \notin Ops PROVE Spec => []NoGhostRunning
    OBVIOUS
<1>1. Init => NoGhostRunning
    BY DEF Init, NoGhostRunning
<1>2. IInv /\ NoGhostRunning /\ [Next]_vars => NoGhostRunning'
    BY NextGhost
<1>3. QED
    BY <1>1, <1>2, InvariantHolds, PTL DEF Spec

-----------------------------------------------------------------------------
(* run.json: the record of the active run                                  *)

\* With one run per worktree every run has a run.json of its own.
Filed == IInv /\ Named /\ OneRunPerTask /\ DiskMatchesMemory

LEMMA DiskKept ==
    ASSUME DiskMatchesMemory, active' \subseteq active, UNCHANGED <<info, runFile>>
    PROVE  DiskMatchesMemory'
BY DEF DiskMatchesMemory, Json

\* Saving one run touches no other run's file.
LEMMA DiskSaved ==
    ASSUME Filed, NEW id \in active, active' = active, SaveRun(id, info'[id]),
           info'[id].task = info[id].task,
           \A j \in active \ {id} : info'[j] = info[j]
    PROVE  DiskMatchesMemory'
<1>1. info[id].task \in Tasks /\ runFile \in [Tasks -> RunJson]
    BY DEF Filed, Named, RunsNamed, IInv, TypeOK, DiskOK
<1>2. runFile' = [runFile EXCEPT ![info[id].task] = Json(id, info'[id])]
    BY DEF SaveRun
<1>3. ASSUME NEW j \in active \ {id} PROVE runFile'[info'[j].task] = Json(j, info'[j])
    <2>1. info[j].task # info[id].task
        BY <1>3 DEF Filed, OneRunPerTask
    <2>2. runFile'[info[j].task] = runFile[info[j].task]
        BY <1>1, <1>2, <2>1
    <2>3. runFile[info[j].task] = Json(j, info[j])
        BY <1>3 DEF Filed, DiskMatchesMemory
    <2>4. QED
        BY <2>2, <2>3
<1>4. runFile'[info'[id].task] = Json(id, info'[id])
    BY <1>1, <1>2
<1>5. QED
    BY <1>3, <1>4 DEF DiskMatchesMemory

LEMMA DiskStart ==
    ASSUME Filed, NEW t \in Tasks, LaunchQueued(t) \/ LaunchStarted(t)
    PROVE  DiskMatchesMemory'
<1>1. CASE LaunchQueued(t)
    BY <1>1, DiskKept DEF LaunchQueued, Filed
<1>2. CASE LaunchStarted(t)
    <2> DEFINE r == [task |-> t, status |-> "starting", session |-> FALSE, over |-> FALSE]
    <2>1. /\ nextId \in Ids /\ active' = active \cup {nextId}
          /\ info' = [info EXCEPT ![nextId] = r]
          /\ runFile' = [runFile EXCEPT ![t] = Json(nextId, r)]
          /\ \A j \in active : info[j].task # t
        BY <1>2, BoundAssumption
        DEF LaunchStarted, StartRun, InsertRun, NewRun, SaveRun, TaskBusy, Filed, IInv, TypeOK, Ids
    <2>2. info'[nextId] = r /\ runFile'[t] = Json(nextId, r) /\ r.task = t
        BY <2>1 DEF Filed, IInv, TypeOK, MapOK, DiskOK
    <2> HIDE DEF r
    <2>3. ASSUME NEW j \in active' PROVE runFile'[info'[j].task] = Json(j, info'[j])
        <3>1. CASE j = nextId
            BY <2>2, <3>1
        <3>2. CASE j # nextId
            <4>1. j \in active /\ info'[j] = info[j] /\ info[j].task # t /\ j \in Ids
                BY <2>1, <2>3, <3>2 DEF Filed, IInv, TypeOK, MapOK
            <4>2. info[j].task \in Tasks
                BY <4>1 DEF Filed, Named, RunsNamed
            <4>3. runFile'[info[j].task] = runFile[info[j].task]
                BY <2>1, <4>1, <4>2 DEF Filed, IInv, TypeOK, DiskOK
            <4>4. QED
                BY <4>1, <4>3 DEF Filed, DiskMatchesMemory
        <3>3. QED
            BY <3>1, <3>2
    <2>4. QED
        BY <2>3 DEF DiskMatchesMemory
<1>3. QED
    BY <1>1, <1>2

\* The runs that end write the files of their own tasks, the freed ones
\* their own.
LEMMA DiskSettle ==
    ASSUME Filed, NEW S \in SUBSET active, NEW freed \in SUBSET (active \ S),
           NEW outcome \in [S -> TerminalStatus], Settle(outcome, freed)
    PROVE  DiskMatchesMemory'
<1>1. PICK last \in LastWriters(S), saved \in LastWriters(freed) :
        runFile' = [t \in Tasks |->
                      IF t \in DOMAIN saved THEN Json(saved[t], info'[saved[t]])
                      ELSE IF t \in DOMAIN last THEN Json(last[t], info'[last[t]])
                      ELSE runFile[t]]
    BY DEF Settle
<1>2. active' = active \ S
    BY DEF Settle
<1>3. info' = [id \in Ids |->
                IF id \in S THEN [info[id] EXCEPT !.status = outcome[id]]
                ELSE IF id \in freed THEN [info[id] EXCEPT !.status = "running"]
                ELSE info[id]]
    BY DEF Settle
<1>4. /\ DOMAIN last = {info[id].task : id \in S}
      /\ DOMAIN saved = {info[id].task : id \in freed}
      /\ \A t \in DOMAIN saved : saved[t] \in freed /\ info[saved[t]].task = t
    BY DEF LastWriters
<1>5. ASSUME NEW id \in active' PROVE runFile'[info'[id].task] = Json(id, info'[id])
    <2> DEFINE t == info[id].task
    <2>1. id \in active /\ id \notin S /\ id \in Ids /\ t \in Tasks
        BY <1>2, <1>5 DEF Filed, Named, RunsNamed, IInv, TypeOK, MapOK
    <2>2. t \notin DOMAIN last
        BY <1>4, <2>1 DEF Filed, OneRunPerTask
    <2>3. CASE id \in freed
        <3>1. info'[id] = [info[id] EXCEPT !.status = "running"]
            BY <1>3, <2>1, <2>3
        <3>2. info'[id].task = t
            BY <3>1, <2>1 DEF Filed, IInv, TypeOK, MapOK, RunInfo
        <3>3. t \in DOMAIN saved /\ saved[t] = id
            BY <1>4, <2>1, <2>3 DEF Filed, OneRunPerTask
        <3>4. QED
            BY <1>1, <2>1, <3>2, <3>3
    <2>4. CASE id \notin freed
        <3>1. info'[id] = info[id]
            BY <1>3, <2>1, <2>4
        <3>2. t \notin DOMAIN saved
            BY <1>4, <2>1, <2>4 DEF Filed, OneRunPerTask
        <3>3. runFile'[t] = runFile[t]
            BY <1>1, <2>1, <2>2, <3>2
        <3>4. QED
            BY <2>1, <3>1, <3>3 DEF Filed, DiskMatchesMemory
    <2>5. QED
        BY <2>3, <2>4
<1>6. QED
    BY <1>5 DEF DiskMatchesMemory

LEMMA DiskEndRuns ==
    ASSUME Filed, NEW S \in SUBSET active, NEW st \in TerminalStatus, EndRuns(S, st)
    PROVE  DiskMatchesMemory'
<1>1. /\ [id \in S |-> st] \in [S -> TerminalStatus] /\ Settle([id \in S |-> st], {})
      /\ {} \in SUBSET (active \ S)
    BY DEF EndRuns
<1>2. QED
    BY <1>1, DiskSettle

LEMMA ClientDisk ==
    ASSUME Filed, "resume" \notin Ops, NEW c \in Clients, ClientStep(c)
    PROVE  DiskMatchesMemory'
<1> DiskMatchesMemory
    BY DEF Filed
<1>1. ASSUME NEW t \in Tasks, LaunchRun(c, t) PROVE DiskMatchesMemory'
    BY <1>1, DiskStart DEF LaunchRun
<1>2. ASSUME NEW t \in Tasks, RetryRun(c, t) \/ EnqueueRun(c, t) \/ RemoveQueued(c, t)
      PROVE  DiskMatchesMemory'
    BY <1>2, DiskKept DEF RetryRun, EnqueueRun, RemoveQueued
<1>3. ASSUME NEW t \in Tasks PROVE ~ResumeRun(c, t)
    BY DEF ResumeRun, Calls
<1>4. ASSUME NEW batch \in Batches, BatchLaunch(c, batch) PROVE DiskMatchesMemory'
    BY <1>4, DiskKept DEF BatchLaunch
<1>5. ASSUME NEW id \in Ids, ForceCancelRun(c, id) PROVE DiskMatchesMemory'
    <2>1. {id} \in SUBSET active /\ EndRuns({id}, "cancelled")
        BY <1>5 DEF ForceCancelRun
    <2>2. QED
        BY <2>1, DiskEndRuns DEF TerminalStatus
<1>6. ASSUME NEW id \in Ids, NEW p \in Perms, RespondToPermission(c, id, p)
      PROVE  DiskMatchesMemory'
    <2>1. CASE phase[id] = "exited"
        BY <1>6, <2>1, DiskKept DEF RespondToPermission
    <2>2. CASE phase[id] # "exited"
        <3>1. /\ id \in active /\ active' = active /\ SaveRun(id, info'[id])
              /\ info' = [info EXCEPT ![id].status = "running"]
            BY <1>6, <2>2 DEF RespondToPermission
        <3>2. /\ info'[id].task = info[id].task
              /\ \A j \in active \ {id} : info'[j] = info[j]
            BY <3>1 DEF Filed, IInv, TypeOK, MapOK, RunInfo
        <3>3. QED
            BY <3>1, <3>2, DiskSaved
    <2>3. QED
        BY <2>1, <2>2
<1>7. CASE CancelQueue(c) \/ Shutdown(c)
    BY <1>7, DiskEndRuns DEF CancelQueue, Shutdown, TerminalStatus
<1>8. CASE CheckStale(c)
    <2> DEFINE stale == StaleRuns
               over  == OverBudget(active \ stale)
               rest  == active \ (stale \cup over)
               S     == stale \cup over
               outcome == [id \in S |-> IF id \in stale THEN "failed" ELSE "cancelled"]
    <2>1. /\ S \in SUBSET active /\ Freed(rest) \in SUBSET (active \ S)
          /\ outcome \in [S -> TerminalStatus]
        BY DEF StaleRuns, OverBudget, TerminalStatus, Freed
    <2>2. Settle(outcome, Freed(rest))
        BY <1>8 DEF CheckStale
    <2>3. QED
        BY <2>1, <2>2, DiskSettle
<1>9. QED
    BY <1>1, <1>2, <1>3, <1>4, <1>5, <1>6, <1>7, <1>8 DEF ClientStep

LEMMA WorkDisk ==
    ASSUME Filed, "disconnect" \notin Ops,
           \/ \E c \in Clients : RetryLaunch(c) \/ DropRequest(c)
           \/ \E w \in Workers : Advance(w)
    PROVE  DiskMatchesMemory'
<1> DiskMatchesMemory
    BY DEF Filed
<1>1. ASSUME NEW c \in Clients, RetryLaunch(c) PROVE DiskMatchesMemory'
    <2>1. worker[c].item.task \in Tasks
        BY <1>1 DEF RetryLaunch, Filed, Named, WorkerNamed, Launching, Workers
    <2>2. QED
        BY <1>1, <2>1, DiskStart, DiskKept DEF RetryLaunch
<1>2. \A c \in Clients : ~DropRequest(c)
    BY DEF DropRequest, RequestDropped, LaunchCut, ResumeCut, RespondCut
<1>3. ASSUME NEW w \in Workers, PopPending(w) \/ RequeuePopped(w) PROVE DiskMatchesMemory'
    BY <1>3, DiskKept DEF PopPending, RequeuePopped
<1>4. ASSUME NEW w \in Workers, LaunchPopped(w) PROVE DiskMatchesMemory'
    <2>1. worker[w].item.task \in Tasks
        BY <1>4 DEF LaunchPopped, Filed, Named, WorkerNamed, Launching
    <2>2. QED
        BY <1>4, <2>1, DiskStart, DiskKept DEF LaunchPopped
<1>5. QED
    BY <1>1, <1>2, <1>3, <1>4 DEF Advance

LEMMA ReadDisk ==
    ASSUME Filed, NEW id \in Ids, Read(id)
    PROVE  DiskMatchesMemory'
<1> DiskMatchesMemory
    BY DEF Filed
<1>1. CASE ReadLate(id) \/ ReadActivity(id)
    BY <1>1, DiskKept DEF ReadLate, ReadActivity
<1>2. CASE ReadSessionStarted(id) \/ ReadPermissionRequest(id)
    <2>1. /\ id \in active /\ active' = active /\ SaveRun(id, info'[id])
          /\ \/ info' = [info EXCEPT ![id].status = "running", ![id].session = TRUE]
             \/ info' = [info EXCEPT ![id].status = "blocked"]
        BY <1>2 DEF ReadSessionStarted, ReadPermissionRequest
    <2>2. /\ info'[id].task = info[id].task
          /\ \A j \in active \ {id} : info'[j] = info[j]
        BY <2>1 DEF Filed, IInv, TypeOK, MapOK, RunInfo
    <2>3. QED
        BY <2>1, <2>2, DiskSaved
<1>3. CASE ReadTerminal(id)
    <2>1. CASE Known(id)
        <3>1. /\ id \in active /\ active' = active \ {id}
              /\ \E st : info' = [info EXCEPT ![id].status = st, ![id].over = Head(out[id]).over]
              /\ \/ runFile' = [runFile EXCEPT ![info[id].task] = NoRunJson]
                 \/ SaveRun(id, info'[id])
            BY <1>3, <2>1, Zenon DEF ReadTerminal, Known
        <3>2. /\ info'[id].task = info[id].task
              /\ \A j \in active' : info'[j] = info[j]
            BY <3>1 DEF Filed, IInv, TypeOK, MapOK, RunInfo
        <3>3. PICK x : runFile' = [runFile EXCEPT ![info[id].task] = x]
            BY <3>1, <3>2 DEF SaveRun
        <3>4. ASSUME NEW j \in active' PROVE runFile'[info'[j].task] = Json(j, info'[j])
            <4>1. j \in active /\ info[j].task # info[id].task /\ info[j].task \in Tasks
                BY <3>1, <3>4 DEF Filed, OneRunPerTask, Named, RunsNamed
            <4>2. runFile'[info[j].task] = runFile[info[j].task]
                BY <3>3, <4>1 DEF Filed, IInv, TypeOK, DiskOK
            <4>3. QED
                BY <3>2, <4>1, <4>2 DEF DiskMatchesMemory
        <3>5. QED
            BY <3>4 DEF DiskMatchesMemory
    <2>2. CASE ~Known(id)
        BY <1>3, <2>2, DiskKept DEF ReadTerminal
    <2>3. QED
        BY <2>1, <2>2
<1>4. CASE ReadEnd(id)
    <2>1. LeftToEnd(id) \in SUBSET active /\ EndRuns(LeftToEnd(id), "failed")
        BY <1>4 DEF ReadEnd, LeftToEnd
    <2>2. QED
        BY <2>1, DiskEndRuns DEF TerminalStatus
<1>5. QED
    BY <1>1, <1>2, <1>3, <1>4 DEF Read

LEMMA NextDisk ==
    {"resume", "disconnect"} \cap Ops = {} => (Filed /\ [Next]_vars => DiskMatchesMemory')
<1> SUFFICES ASSUME {"resume", "disconnect"} \cap Ops = {}, Filed, [Next]_vars
             PROVE  DiskMatchesMemory'
    OBVIOUS
<1> "resume" \notin Ops /\ "disconnect" \notin Ops
    OBVIOUS
<1> DiskMatchesMemory
    BY DEF Filed
<1>1. ASSUME NEW id \in Ids, Sidecar(id) \/ Time(id) PROVE DiskMatchesMemory'
    <2>1. UNCHANGED <<active, info, runFile>>
        BY <1>1 DEF Sidecar, SessionInit, SessionThrows, AskPermission, HandleAnswer,
            SessionResult, SidecarExits, SidecarCrash, SidecarHangs, SidecarFrame,
            Time, GoQuiet, PermissionTimesOut
    <2>2. QED
        BY <2>1, DiskKept
<1>2. CASE DaemonRestart \/ UNCHANGED vars
    BY <1>2, DiskKept DEF DaemonRestart, vars
<1>3. QED
    BY <1>1, <1>2, ClientDisk, WorkDisk, ReadDisk DEF Next

\* In a deployment without resume_run, and whose requests are not dropped,
\* run.json is the record of the active run of its worktree at every step:
\* nothing an earlier run of the task left behind (a late message, the end of
\* its stdout, an answer on its way) writes to it or deletes it.
THEOREM DiskSafe ==
    {"resume", "disconnect"} \cap Ops = {} => (Spec => []DiskMatchesMemory)
<1> SUFFICES ASSUME {"resume", "disconnect"} \cap Ops = {} PROVE Spec => []DiskMatchesMemory
    OBVIOUS
<1> "resume" \notin Ops
    OBVIOUS
<1> DEFINE Invariant == IInv /\ Named /\ OneRunPerTask /\ DiskMatchesMemory
<1>1. Init => Invariant
    BY InitInv, InitNamed DEF Init, OneRunPerTask, DiskMatchesMemory
<1>2. Invariant /\ [Next]_vars => Invariant'
    BY StepInv, NextNamed, StepOneRun, NextDisk DEF Filed
<1>3. Invariant => DiskMatchesMemory
    OBVIOUS
<1> HIDE DEF Invariant
<1>4. QED
    BY <1>1, <1>2, <1>3, PTL DEF Spec

-----------------------------------------------------------------------------
(* The record of a run that has ended                                      *)

\* A live record is that of a run of its own worktree that has not ended.
Recorded(t) ==
    LET id == runFile[t].run IN
    runFile[t].status \in LiveStatus =>
        /\ id \in Ids /\ id < nextId
        /\ info[id].task = t /\ info[id].status \notin TerminalStatus
RecordInv == \A t \in Tasks : Recorded(t)

LEMMA IdsGrow == ASSUME IInv, [Next]_vars PROVE nextId \in Nat /\ nextId' \in Nat /\ nextId' >= nextId
<1>1. nextId \in Nat
    BY BoundAssumption DEF IInv, TypeOK
<1>2. QED
    BY <1>1, NextKind DEF Kinds, StartStep, EndStep, LoseStep, Ids

\* A record is left alone while no run of its worktree leaves the map.
LEMMA RecordKept ==
    ASSUME IInv, [Next]_vars, NEW t, Recorded(t), runFile'[t] = runFile[t],
           UNCHANGED info \/ \A id \in active \ active' : info[id].task # t
    PROVE  Recorded(t)'
<1> DEFINE r == runFile[t].run
<1> SUFFICES ASSUME runFile[t].status \in LiveStatus
             PROVE  /\ r \in Ids /\ r < nextId'
                    /\ info'[r].task = t /\ info'[r].status \notin TerminalStatus
    BY DEF Recorded
<1>1. /\ r \in Ids /\ r < nextId
      /\ info[r].task = t /\ info[r].status \notin TerminalStatus
    BY DEF Recorded
<1>2. r < nextId'
    BY <1>1, IdsGrow DEF Ids
<1> HIDE DEF r
<1>3. CASE UNCHANGED info
    BY <1>1, <1>2, <1>3
<1>4. ASSUME \A id \in active \ active' : info[id].task # t
      PROVE  info'[r].task = t /\ info'[r].status \notin TerminalStatus
    <2>1. r \in active => r \in active'
        BY <1>1, <1>4
    <2>2. ASSUME NEW u \in Tasks \cup {NoTask}, StartStep(u) PROVE info'[r] = info[r]
        BY <1>1, <2>2 DEF StartStep, IInv, TypeOK, MapOK, Ids
    <2>3. ASSUME NEW S \in SUBSET active, EndStep(S)
          PROVE  info'[r].task = t /\ info'[r].status \notin TerminalStatus
        BY <1>1, <2>1, <2>3 DEF EndStep, LiveStatus, TerminalStatus
    <2>4. ASSUME LoseStep PROVE info'[r] = info[r]
        BY <2>4 DEF LoseStep
    <2>5. QED
        BY <1>1, <2>2, <2>3, <2>4, NextKind DEF Kinds
<1>5. QED
    BY <1>1, <1>2, <1>3, <1>4

\* What save_run_state writes is as the run is.
LEMMA RecordWritten ==
    ASSUME NEW t, NEW id \in Ids, id < nextId', info'[id].task = t,
           runFile'[t] = Json(id, info'[id])
    PROVE  Recorded(t)'
<1>1. runFile'[t].run = id /\ runFile'[t].status = info'[id].status
    BY DEF Json
<1>2. QED
    BY <1>1 DEF Recorded, LiveStatus, TerminalStatus

\* One run writes its record; no other run leaves the map.
LEMMA RecordSaved ==
    ASSUME IInv, RecordInv, [Next]_vars, NEW id \in Ids, id < nextId',
           SaveRun(id, info'[id]), \A j \in active \ active' : info[j].task = info'[id].task
    PROVE  RecordInv'
<1>1. ASSUME NEW t \in Tasks PROVE Recorded(t)'
    <2>1. CASE info'[id].task = t
        <3>1. runFile'[t] = Json(id, info'[id])
            BY <2>1 DEF SaveRun, IInv, TypeOK, DiskOK
        <3>2. QED
            BY <2>1, <3>1, RecordWritten
    <2>2. CASE info'[id].task # t
        <3>1. runFile'[t] = runFile[t]
            BY <2>2 DEF SaveRun, IInv, TypeOK, DiskOK
        <3>2. QED
            BY <2>2, <3>1, RecordKept DEF RecordInv
    <2>3. QED
        BY <2>1, <2>2
<1>2. QED
    BY <1>1 DEF RecordInv

\* The runs that end write theirs, then the runs that are freed.
LEMMA RecordSettle ==
    ASSUME IInv, RecordInv, [Next]_vars, NEW S \in SUBSET active,
           NEW freed \in SUBSET active,
           NEW outcome \in [S -> TerminalStatus], Settle(outcome, freed)
    PROVE  RecordInv'
<1>1. PICK last \in LastWriters(S), saved \in LastWriters(freed) :
        runFile' = [t \in Tasks |->
                      IF t \in DOMAIN saved THEN Json(saved[t], info'[saved[t]])
                      ELSE IF t \in DOMAIN last THEN Json(last[t], info'[last[t]])
                      ELSE runFile[t]]
    BY DEF Settle
<1>2. active' = active \ S /\ S \subseteq Ids /\ \A id \in Ids : info'[id].task = info[id].task
    <2>1. DOMAIN outcome = S
        OBVIOUS
    <2>2. \A id \in Ids : info[id] \in RunInfo
        BY DEF IInv, TypeOK, MapOK
    <2>3. QED
        BY <2>1, <2>2 DEF Settle, RunInfo, IInv, TypeOK, MapOK
<1>3. /\ DOMAIN last = {info[id].task : id \in S}
      /\ \A t \in DOMAIN last : last[t] \in S /\ info[last[t]].task = t
      /\ \A t \in DOMAIN saved : saved[t] \in freed /\ info[saved[t]].task = t
    BY DEF LastWriters
<1>4. \A id \in active : id \in Ids /\ id < nextId'
    BY IdsGrow, BoundAssumption DEF IInv, TypeOK, MapOK, FreshUntouched, Ids
<1>5. ASSUME NEW t \in Tasks PROVE Recorded(t)'
    <2>1. CASE t \in DOMAIN saved
        <3>1. runFile'[t] = Json(saved[t], info'[saved[t]])
            BY <1>1, <2>1
        <3>2. QED
            BY <1>2, <1>3, <1>4, <2>1, <3>1, RecordWritten
    <2>2. CASE t \notin DOMAIN saved /\ t \in DOMAIN last
        <3>1. runFile'[t] = Json(last[t], info'[last[t]])
            BY <1>1, <2>2
        <3>2. QED
            BY <1>2, <1>3, <1>4, <2>2, <3>1, RecordWritten
    <2>3. CASE t \notin DOMAIN saved /\ t \notin DOMAIN last
        <3>1. runFile'[t] = runFile[t]
            BY <1>1, <2>3
        <3>2. \A id \in active \ active' : info[id].task # t
            BY <1>2, <1>3, <2>3
        <3>3. QED
            BY <3>1, <3>2, RecordKept DEF RecordInv
    <2>4. QED
        BY <2>1, <2>2, <2>3
<1>6. QED
    BY <1>5 DEF RecordInv

LEMMA RecordSame ==
    ASSUME IInv, RecordInv, [Next]_vars, UNCHANGED runFile,
           UNCHANGED info \/ active \subseteq active'
    PROVE  RecordInv'
BY RecordKept DEF RecordInv

LEMMA RecordEndRuns ==
    ASSUME IInv, RecordInv, [Next]_vars, NEW S \in SUBSET active,
           NEW st \in TerminalStatus, EndRuns(S, st)
    PROVE  RecordInv'
<1>1. [id \in S |-> st] \in [S -> TerminalStatus] /\ Settle([id \in S |-> st], {})
    BY DEF EndRuns
<1>2. QED
    BY <1>1, RecordSettle

LEMMA RecordStart ==
    ASSUME IInv, RecordInv, [Next]_vars, NEW t, NEW resumed,
           StartRun(t, resumed) \/ StartCut(t, resumed)
    PROVE  RecordInv'
<1>1. active \subseteq active'
    BY DEF StartRun, StartCut, InsertRun
<1>2. CASE StartCut(t, resumed)
    BY <1>1, <1>2, RecordSame DEF StartCut
<1>3. CASE StartRun(t, resumed)
    <2>1. /\ nextId \in Ids /\ nextId < nextId' /\ info'[nextId] = NewRun(t, resumed)
          /\ SaveRun(nextId, NewRun(t, resumed))
        BY <1>3, BoundAssumption DEF StartRun, InsertRun, IInv, TypeOK, MapOK, Ids
    <2>2. QED
        BY <1>1, <2>1, RecordSaved
<1>4. QED
    BY <1>2, <1>3

LEMMA ClientRecord ==
    ASSUME IInv, RecordInv, [Next]_vars, NEW c \in Clients, ClientStep(c)
    PROVE  RecordInv'
<1>1. ASSUME NEW t \in Tasks, LaunchRun(c, t) PROVE RecordInv'
    BY <1>1, RecordStart, RecordSame DEF LaunchRun, LaunchQueued, LaunchStarted
<1>2. ASSUME NEW t \in Tasks, RetryRun(c, t) \/ EnqueueRun(c, t) \/ RemoveQueued(c, t)
      PROVE  RecordInv'
    BY <1>2, RecordSame DEF RetryRun, EnqueueRun, RemoveQueued
<1>3. ASSUME NEW t \in Tasks, ResumeRun(c, t) PROVE RecordInv'
    BY <1>3, RecordStart DEF ResumeRun
<1>4. ASSUME NEW batch \in Batches, BatchLaunch(c, batch) PROVE RecordInv'
    BY <1>4, RecordSame DEF BatchLaunch
<1>5. ASSUME NEW id \in Ids, ForceCancelRun(c, id) PROVE RecordInv'
    <2>1. {id} \in SUBSET active /\ EndRuns({id}, "cancelled")
        BY <1>5 DEF ForceCancelRun
    <2>2. QED
        BY <2>1, RecordEndRuns DEF TerminalStatus
<1>6. ASSUME NEW id \in Ids, NEW p \in Perms, RespondToPermission(c, id, p) PROVE RecordInv'
    <2>1. /\ id \in active /\ active' = active
          /\ UNCHANGED <<info, runFile>> \/ SaveRun(id, info'[id])
        BY <1>6 DEF RespondToPermission
    <2>2. id < nextId'
        BY <2>1, IdsGrow, BoundAssumption DEF IInv, TypeOK, MapOK, FreshUntouched, Ids
    <2>3. QED
        BY <2>1, <2>2, RecordSame, RecordSaved
<1>7. CASE CancelQueue(c) \/ Shutdown(c)
    BY <1>7, RecordEndRuns DEF CancelQueue, Shutdown, TerminalStatus
<1>8. CASE CheckStale(c)
    <2> DEFINE stale == StaleRuns
               over  == OverBudget(active \ stale)
               rest  == active \ (stale \cup over)
               S     == stale \cup over
               outcome == [id \in S |-> IF id \in stale THEN "failed" ELSE "cancelled"]
    <2>1. /\ S \in SUBSET active /\ Freed(rest) \in SUBSET active
          /\ outcome \in [S -> TerminalStatus]
        BY DEF StaleRuns, OverBudget, TerminalStatus, Freed
    <2>2. Settle(outcome, Freed(rest))
        BY <1>8 DEF CheckStale
    <2>3. QED
        BY <2>1, <2>2, RecordSettle
<1>9. QED
    BY <1>1, <1>2, <1>3, <1>4, <1>5, <1>6, <1>7, <1>8 DEF ClientStep

LEMMA WorkRecord ==
    ASSUME IInv, RecordInv, [Next]_vars,
           \/ \E c \in Clients : RetryLaunch(c) \/ DropRequest(c)
           \/ \E w \in Workers : Advance(w)
    PROVE  RecordInv'
<1>1. ASSUME NEW c \in Clients, RetryLaunch(c) PROVE RecordInv'
    BY <1>1, RecordStart, RecordSame DEF RetryLaunch, LaunchQueued, LaunchStarted
<1>2. ASSUME NEW c \in Clients, DropRequest(c) PROVE RecordInv'
    BY <1>2, RecordStart, RecordSame DEF DropRequest, RequestDropped, LaunchCut, ResumeCut, RespondCut
<1>3. ASSUME NEW w \in Workers, Advance(w) PROVE RecordInv'
    BY <1>3, RecordStart, RecordSame
    DEF Advance, PopPending, LaunchPopped, RequeuePopped, LaunchQueued, LaunchStarted
<1>4. QED
    BY <1>1, <1>2, <1>3

LEMMA ReadRecord ==
    ASSUME IInv, RecordInv, [Next]_vars, NEW id \in Ids, Read(id) PROVE RecordInv'
<1>i. id \in active => id < nextId'
    BY IdsGrow, BoundAssumption DEF IInv, TypeOK, FreshUntouched, Ids
<1>1. CASE ReadLate(id) \/ ReadActivity(id)
    BY <1>1, RecordSame DEF ReadLate, ReadActivity
<1>2. CASE ReadSessionStarted(id) \/ ReadPermissionRequest(id)
    <2>1. id \in active /\ active' = active /\ SaveRun(id, info'[id])
        BY <1>2 DEF ReadSessionStarted, ReadPermissionRequest
    <2>2. QED
        BY <1>i, <2>1, RecordSaved
<1>3. CASE ReadTerminal(id)
    <2>1. CASE ~Known(id)
        BY <1>3, <2>1, RecordSame DEF ReadTerminal
    <2>2. CASE Known(id)
        <3>1. /\ id \in active /\ active' = active \ {id}
              /\ \E st : info' = [info EXCEPT ![id].status = st, ![id].over = Head(out[id]).over]
              /\ \/ runFile' = [runFile EXCEPT ![info[id].task] = NoRunJson]
                 \/ SaveRun(id, info'[id])
            BY <1>3, <2>2, Zenon DEF ReadTerminal, Known
        <3>2. info'[id].task = info[id].task
            BY <3>1 DEF IInv, TypeOK, MapOK, RunInfo
        <3>3. CASE SaveRun(id, info'[id])
            BY <1>i, <3>1, <3>2, <3>3, RecordSaved
        <3>4. CASE runFile' = [runFile EXCEPT ![info[id].task] = NoRunJson]
            <4>1. ASSUME NEW t \in Tasks PROVE Recorded(t)'
                <5>1. CASE t = info[id].task
                    <6>1. runFile'[t].status = "created"
                        BY <3>4, <5>1 DEF NoRunJson, IInv, TypeOK, DiskOK
                    <6>2. QED
                        BY <6>1 DEF Recorded, LiveStatus
                <5>2. CASE t # info[id].task
                    <6>1. runFile'[t] = runFile[t] /\ \A j \in active \ active' : info[j].task # t
                        BY <3>1, <3>4, <5>2 DEF IInv, TypeOK, DiskOK
                    <6>2. QED
                        BY <6>1, RecordKept DEF RecordInv
                <5>3. QED
                    BY <5>1, <5>2
            <4>2. QED
                BY <4>1 DEF RecordInv
        <3>5. QED
            BY <3>1, <3>3, <3>4
    <2>3. QED
        BY <2>1, <2>2
<1>4. CASE ReadEnd(id)
    <2>1. LeftToEnd(id) \in SUBSET active /\ EndRuns(LeftToEnd(id), "failed")
        BY <1>4 DEF ReadEnd, LeftToEnd
    <2>2. QED
        BY <2>1, RecordEndRuns DEF TerminalStatus
<1>5. QED
    BY <1>1, <1>2, <1>3, <1>4 DEF Read

LEMMA NextRecord == IInv /\ RecordInv /\ [Next]_vars => RecordInv'
<1> SUFFICES ASSUME IInv, RecordInv, [Next]_vars PROVE RecordInv'
    OBVIOUS
<1>1. ASSUME NEW id \in Ids, Sidecar(id) \/ Time(id) PROVE RecordInv'
    <2>1. UNCHANGED <<active, info, runFile>>
        BY <1>1 DEF Sidecar, SessionInit, SessionThrows, AskPermission, HandleAnswer,
            SessionResult, SidecarExits, SidecarCrash, SidecarHangs, SidecarFrame,
            Time, GoQuiet, PermissionTimesOut
    <2>2. QED
        BY <2>1, RecordSame
<1>2. CASE DaemonRestart \/ UNCHANGED vars
    BY <1>2, RecordSame DEF DaemonRestart, vars
<1>3. QED
    BY <1>1, <1>2, ClientRecord, WorkRecord, ReadRecord DEF Next

\* Whatever the deployment, with resumed runs that share a worktree, dropped
\* requests and restarts: the run.json of a worktree never shows a run as
\* live that has ended.
THEOREM EndedOnDiskSafe == Spec => []EndedOnDisk
<1>1. Init => RecordInv
    BY DEF Init, RecordInv, Recorded, NoRunJson, LiveStatus
<1>2. RecordInv => EndedOnDisk
    BY DEF RecordInv, Recorded, EndedOnDisk
<1>3. QED
    BY <1>1, <1>2, NextRecord, InvariantHolds, PTL DEF Spec

-----------------------------------------------------------------------------
(* Permission requests: none is lost, none blocks a run it has left        *)

\* A request is in the run's stdout, not yet read.
Written(id, p) ==
    \E i \in DOMAIN out[id] : out[id][i].type = "permission_request" /\ out[id][i].perm = p

\* Stronger than NoLostPermission: what is on its way is a request, and not
\* another message that has no permission to name.
Held(id) ==
    \A p \in Perms : phase[id] = "session" /\ asks[id][p] = "waiting" =>
                        p \in perms[id] \/ Written(id, p)
Blocked(id) ==
    info[id].status = "blocked" /\ phase[id] # "exited" =>
        perms[id] # {} \/ \E p \in Perms : asks[id][p] = "cut"
PermissionInv == \A id \in active : Held(id) /\ Blocked(id)

\* What the two say of a run is left alone.
Same(id) == /\ info'[id] = info[id] /\ perms'[id] = perms[id] /\ phase'[id] = phase[id]
            /\ out'[id] = out[id] /\ asks'[id] = asks[id]

LEMMA PermissionStep ==
    ASSUME PermissionInv,
           \A id \in active' : \/ id \in active /\ Same(id)
                               \/ Held(id)' /\ Blocked(id)'
    PROVE  PermissionInv'
<1>1. ASSUME NEW id \in active, Same(id) PROVE Held(id)' /\ Blocked(id)'
    BY <1>1 DEF PermissionInv, Held, Blocked, Written, Same
<1>2. QED
    BY <1>1 DEF PermissionInv

LEMMA SameAll ==
    ASSUME UNCHANGED <<info, perms, phase, out, asks>> PROVE \A id : Same(id)
BY DEF Same

LEMMA LaunchPermission ==
    ASSUME IInv, PermissionInv, NEW t \in Tasks \cup {NoTask}, NEW resumed \in BOOLEAN,
           StartRun(t, resumed) \/ StartCut(t, resumed)
    PROVE  PermissionInv'
<1> PICK ph \in {"booting", "hung"} : InsertRun(t, resumed, ph)
    BY DEF StartRun, StartCut
<1>1. ASSUME NEW id \in active, id # nextId PROVE Same(id)
    BY <1>1 DEF InsertRun, Same, IInv, TypeOK, MapOK, SidecarOK
<1>2. ASSUME NEW id, id = nextId PROVE Held(id)' /\ Blocked(id)'
    <2>1. nextId \in Ids
        BY BoundAssumption DEF InsertRun, IInv, TypeOK, Ids
    <2>2. phase'[id] = ph /\ info'[id].status = "starting"
        BY <1>2, <2>1 DEF InsertRun, NewRun, IInv, TypeOK, MapOK, SidecarOK
    <2>3. QED
        BY <2>2 DEF Held, Blocked
<1>3. QED
    BY <1>1, <1>2, PermissionStep DEF InsertRun

\* The runs that end leave the map; of the others nothing changes.
LEMMA EndPermission ==
    ASSUME IInv, PermissionInv, NEW S \in SUBSET active, NEW st \in TerminalStatus,
           EndRuns(S, st)
    PROVE  PermissionInv'
<1>1. active' = active \ S
    BY DEF EndRuns, Settle
<1>2. ASSUME NEW id \in active' PROVE Same(id)
    <2>1. id \in Ids /\ id \notin S
        BY <1>1, <1>2 DEF IInv, TypeOK, MapOK
    <2>2. info'[id] = info[id] /\ phase'[id] = phase[id]
        BY <2>1 DEF EndRuns, Settle
    <2>3. perms'[id] = perms[id] /\ out'[id] = out[id] /\ asks'[id] = asks[id]
        BY <2>1 DEF EndRuns
    <2>4. QED
        BY <2>2, <2>3 DEF Same
<1>3. QED
    BY <1>1, <1>2, PermissionStep

\* The timed out requests are denied to the agents that still wait, and a
\* run left with none is unblocked.
LEMMA StalePermission ==
    ASSUME IInv, PermissionInv, NEW c \in Clients, CheckStale(c)
    PROVE  PermissionInv'
<1> DEFINE stale == StaleRuns
           over  == OverBudget(active \ stale)
           rest  == active \ (stale \cup over)
           S     == stale \cup over
           outcome == [id \in S |-> IF id \in stale THEN "failed" ELSE "cancelled"]
<1>1. Settle(outcome, Freed(rest)) /\ asks' = Denied(rest) /\ UNCHANGED out
      /\ perms' = [id \in Ids |-> IF id \in rest THEN perms[id] \ expired[id] ELSE {}]
    BY DEF CheckStale
<1>2. DOMAIN outcome = S /\ active' = rest
    BY <1>1 DEF Settle
<1>3. ASSUME NEW id \in rest PROVE Held(id)' /\ Blocked(id)'
    <2>1. id \in Ids /\ id \in active /\ id \notin S
        BY <1>3 DEF IInv, TypeOK, MapOK
    <2>2. /\ perms'[id] = perms[id] \ expired[id] /\ phase'[id] = phase[id]
          /\ out'[id] = out[id]
          /\ info'[id] = IF id \in Freed(rest) THEN [info[id] EXCEPT !.status = "running"]
                         ELSE info[id]
        BY <1>1, <1>2, <1>3, <2>1 DEF Settle
    <2>3. Held(id)'
        <3>1. ASSUME NEW p \in Perms, asks'[id][p] = "waiting"
              PROVE  asks[id][p] = "waiting" /\ ~(p \in perms[id] \cap expired[id])
            BY <1>1, <1>3, <2>1, <3>1 DEF Denied
        <3>2. ASSUME NEW p \in Perms, phase'[id] = "session", asks'[id][p] = "waiting"
              PROVE  p \in perms'[id] \/ Written(id, p)'
            <4>1. asks[id][p] = "waiting" /\ ~(p \in perms[id] \cap expired[id])
                BY <3>1, <3>2
            <4>2. p \in perms[id] \/ Written(id, p)
                BY <2>1, <2>2, <3>2, <4>1 DEF PermissionInv, Held
            <4>3. Written(id, p) => Written(id, p)'
                BY <2>2 DEF Written
            <4>4. QED
                BY <2>2, <4>1, <4>2, <4>3
        <3>3. QED
            BY <3>2 DEF Held
    <2>4. Blocked(id)'
        <3>1. CASE id \in Freed(rest)
            <4>1. info'[id].status = "running"
                BY <2>1, <2>2, <3>1 DEF IInv, TypeOK, MapOK, RunInfo
            <4>2. QED
                BY <4>1 DEF Blocked
        <3>2. CASE id \notin Freed(rest)
            <4>1. perms[id] \cap expired[id] = {} \/ ~(perms[id] \subseteq expired[id])
                BY <1>3, <3>2 DEF Freed
            <4>2. perms[id] # {} => perms[id] \ expired[id] # {}
                BY <4>1
            <4>3. \A p \in Perms : asks[id][p] = "cut" => asks'[id][p] = "cut"
                BY <1>1, <2>1 DEF Denied
            <4>4. QED
                BY <2>1, <2>2, <3>2, <4>2, <4>3 DEF PermissionInv, Blocked
        <3>3. QED
            BY <3>1, <3>2
    <2>5. QED
        BY <2>3, <2>4
<1>4. QED
    BY <1>2, <1>3, PermissionStep

\* An answer reaches the agent, or its process is gone.
LEMMA RespondPermission ==
    ASSUME IInv, PermissionInv, NEW c \in Clients, NEW id \in Ids, NEW p \in Perms,
           RespondToPermission(c, id, p)
    PROVE  PermissionInv'
<1>1. /\ id \in active /\ active' = active /\ UNCHANGED <<phase, out>>
      /\ perms' = [perms EXCEPT ![id] = @ \ {p}]
    BY DEF RespondToPermission
<1>2. CASE phase[id] = "exited"
    <2>1. UNCHANGED <<info, asks>>
        BY <1>2 DEF RespondToPermission
    <2>2. \A j \in active \ {id} : Same(j)
        BY <1>1, <2>1 DEF Same, IInv, TypeOK, MapOK
    <2>3. Held(id)' /\ Blocked(id)'
        BY <1>1, <1>2 DEF Held, Blocked
    <2>4. QED
        BY <1>1, <2>2, <2>3, PermissionStep
<1>3. CASE phase[id] # "exited"
    <2>1. /\ info' = [info EXCEPT ![id].status = "running"]
          /\ asks' = [asks EXCEPT ![id][p] = IF @ = "waiting" THEN "answered" ELSE @]
        BY <1>3 DEF RespondToPermission
    <2>2. \A j \in active \ {id} : Same(j)
        BY <1>1, <2>1 DEF Same, IInv, TypeOK, MapOK, SidecarOK
    <2>3. info'[id].status = "running"
        BY <2>1 DEF IInv, TypeOK, MapOK, RunInfo
    <2>4. asks'[id] = [asks[id] EXCEPT ![p] = IF asks[id][p] = "waiting" THEN "answered" ELSE asks[id][p]]
        BY <2>1 DEF IInv, TypeOK, SidecarOK
    <2>5. ASSUME NEW q \in Perms, asks'[id][q] = "waiting"
          PROVE  q # p /\ asks[id][q] = "waiting"
        BY <2>4, <2>5 DEF IInv, TypeOK, SidecarOK
    <2>6. perms'[id] = perms[id] \ {p}
        BY <1>1 DEF IInv, TypeOK, MapOK
    <2>7. Held(id)'
        BY <1>1, <2>5, <2>6 DEF PermissionInv, Held, Written
    <2>8. QED
        BY <1>1, <2>2, <2>3, <2>7, PermissionStep DEF Blocked
<1>4. QED
    BY <1>2, <1>3

\* A dropped answer takes the request out, and marks the agent's.
LEMMA CutPermission ==
    ASSUME IInv, PermissionInv, NEW c \in Clients, NEW id \in Ids, NEW p \in Perms,
           RespondCut(c, id, p)
    PROVE  PermissionInv'
<1>1. /\ id \in active /\ active' = active /\ UNCHANGED <<phase, out, info>>
      /\ perms' = [perms EXCEPT ![id] = @ \ {p}]
      /\ asks' = [asks EXCEPT ![id][p] = "cut"]
    BY DEF RespondCut
<1>2. \A j \in active \ {id} : Same(j)
    BY <1>1 DEF Same, IInv, TypeOK, MapOK, SidecarOK
<1>3. asks'[id][p] = "cut" /\ \A q \in Perms : q # p => asks'[id][q] = asks[id][q]
    BY <1>1 DEF IInv, TypeOK, SidecarOK
<1>4. perms'[id] = perms[id] \ {p}
    BY <1>1 DEF IInv, TypeOK, MapOK
<1>5. Held(id)'
    <2>1. ASSUME NEW q \in Perms, phase'[id] = "session", asks'[id][q] = "waiting"
          PROVE  q \in perms'[id] \/ Written(id, q)'
        <3>1. q # p /\ asks[id][q] = "waiting" /\ phase[id] = "session"
            BY <1>1, <1>3, <2>1
        <3>2. QED
            BY <1>1, <1>4, <3>1 DEF PermissionInv, Held, Written
    <2>2. QED
        BY <2>1 DEF Held
<1>6. Blocked(id)'
    BY <1>3 DEF Blocked
<1>7. QED
    BY <1>1, <1>2, <1>5, <1>6, PermissionStep

LEMMA ClientPermission ==
    ASSUME IInv, PermissionInv, NEW c \in Clients, ClientStep(c)
    PROVE  PermissionInv'
<1>1. ASSUME NEW t \in Tasks, LaunchRun(c, t) PROVE PermissionInv'
    BY <1>1, LaunchPermission, SameAll, PermissionStep DEF LaunchRun, LaunchQueued, LaunchStarted
<1>2. ASSUME NEW t \in Tasks, RetryRun(c, t) \/ EnqueueRun(c, t) \/ RemoveQueued(c, t)
      PROVE  PermissionInv'
    BY <1>2, SameAll, PermissionStep DEF RetryRun, EnqueueRun, RemoveQueued
<1>3. ASSUME NEW t \in Tasks, ResumeRun(c, t) PROVE PermissionInv'
    BY <1>3, LaunchPermission DEF ResumeRun
<1>4. ASSUME NEW batch \in Batches, BatchLaunch(c, batch) PROVE PermissionInv'
    BY <1>4, SameAll, PermissionStep DEF BatchLaunch
<1>5. ASSUME NEW id \in Ids, ForceCancelRun(c, id) PROVE PermissionInv'
    <2>1. {id} \in SUBSET active /\ EndRuns({id}, "cancelled")
        BY <1>5 DEF ForceCancelRun
    <2>2. QED
        BY <2>1, EndPermission DEF TerminalStatus
<1>6. CASE CancelQueue(c) \/ Shutdown(c)
    BY <1>6, EndPermission DEF CancelQueue, Shutdown, TerminalStatus
<1>7. QED
    BY <1>1, <1>2, <1>3, <1>4, <1>5, <1>6, RespondPermission, StalePermission DEF ClientStep

LEMMA WorkPermission ==
    ASSUME IInv, PermissionInv,
           \/ \E c \in Clients : RetryLaunch(c) \/ DropRequest(c)
           \/ \E w \in Workers : Advance(w)
    PROVE  PermissionInv'
<1>1. ASSUME NEW c \in Clients, RetryLaunch(c) PROVE PermissionInv'
    <2>1. worker[c].item.task \in Tasks \cup {NoTask}
        BY DEF IInv, TypeOK, WorkerOK, Workers, QueuedRun
    <2>2. QED
        BY <1>1, <2>1, LaunchPermission, SameAll, PermissionStep
        DEF RetryLaunch, LaunchQueued, LaunchStarted
<1>2. ASSUME NEW c \in Clients, DropRequest(c) PROVE PermissionInv'
    <2>1. CASE RequestDropped(c)
        BY <2>1, SameAll, PermissionStep DEF RequestDropped
    <2>2. CASE \E t \in Tasks : LaunchCut(c, t) \/ ResumeCut(c, t)
        BY <2>2, LaunchPermission DEF LaunchCut, ResumeCut
    <2>3. QED
        BY <1>2, <2>1, <2>2, CutPermission DEF DropRequest
<1>3. ASSUME NEW w \in Workers, PopPending(w) \/ RequeuePopped(w) PROVE PermissionInv'
    BY <1>3, SameAll, PermissionStep DEF PopPending, RequeuePopped
<1>4. ASSUME NEW w \in Workers, LaunchPopped(w) PROVE PermissionInv'
    <2>1. worker[w].item.task \in Tasks \cup {NoTask}
        BY DEF IInv, TypeOK, WorkerOK, QueuedRun
    <2>2. QED
        BY <1>4, <2>1, LaunchPermission, SameAll, PermissionStep
        DEF LaunchPopped, LaunchQueued, LaunchStarted
<1>5. QED
    BY <1>1, <1>2, <1>3, <1>4 DEF Advance

\* The reader takes the first message; what follows it stays in stdout.
LEMMA ConsumeKeeps ==
    ASSUME TypeOK, NEW id \in Ids, out[id] # <<>>, Consume(id)
    PROVE  /\ \A j \in Ids \ {id} : out'[j] = out[j]
           /\ Head(out[id]) \in Message
           /\ \A p \in Perms : Written(id, p) =>
                 \/ Written(id, p)'
                 \/ Head(out[id]).type = "permission_request" /\ Head(out[id]).perm = p
<1>1. out[id] \in Seq(Message)
    BY DEF TypeOK, SidecarOK
<1>2. /\ Head(out[id]) \in Message /\ Tail(out[id]) \in Seq(Message)
      /\ Len(Tail(out[id])) = Len(out[id]) - 1
      /\ \A i \in 1..Len(Tail(out[id])) : Tail(out[id])[i] = out[id][i + 1]
    BY <1>1, HeadTailProperties
<1>3. /\ Len(out[id]) \in Nat /\ DOMAIN out[id] = 1..Len(out[id])
      /\ DOMAIN Tail(out[id]) = 1..Len(Tail(out[id])) /\ Head(out[id]) = out[id][1]
    BY <1>1, <1>2, LenProperties
<1>4. out'[id] = Tail(out[id]) /\ \A j \in Ids \ {id} : out'[j] = out[j]
    BY DEF Consume, TypeOK, SidecarOK
<1>5. ASSUME NEW p \in Perms, Written(id, p)
      PROVE  \/ Written(id, p)'
             \/ Head(out[id]).type = "permission_request" /\ Head(out[id]).perm = p
    <2>1. PICK i \in DOMAIN out[id] :
              out[id][i].type = "permission_request" /\ out[id][i].perm = p
        BY <1>5 DEF Written
    <2>2. CASE i = 1
        BY <1>3, <2>1, <2>2
    <2>3. CASE i # 1
        <3>1. i - 1 \in DOMAIN Tail(out[id]) /\ Tail(out[id])[i - 1] = out[id][i]
            BY <1>2, <1>3, <2>3
        <3>2. QED
            BY <1>4, <2>1, <3>1 DEF Written
    <2>4. QED
        BY <2>2, <2>3
<1>6. QED
    BY <1>2, <1>4, <1>5

LEMMA ReadPermission ==
    ASSUME IInv, PermissionInv, NEW id \in Ids, Read(id)
    PROVE  PermissionInv'
<1> TypeOK
    BY DEF IInv
<1>1. CASE ReadLate(id)
    <2>1. \A j \in active : Same(j)
        BY <1>1, ConsumeKeeps DEF ReadLate, Receives, Same, TypeOK, MapOK
    <2>2. QED
        BY <1>1, <2>1, PermissionStep DEF ReadLate
<1>2. CASE ReadActivity(id)
    BY <1>2, SameAll, PermissionStep DEF ReadActivity
<1>3. CASE ReadSessionStarted(id)
    <2>1. /\ id \in active /\ active' = active /\ Consume(id) /\ out[id] # <<>>
          /\ Head(out[id]).type = "session_started"
          /\ info' = [info EXCEPT ![id].status = "running", ![id].session = TRUE]
          /\ UNCHANGED <<perms, phase, asks>>
        BY <1>3 DEF ReadSessionStarted, Receives
    <2>2. \A j \in active \ {id} : Same(j)
        BY <2>1, ConsumeKeeps DEF Same, TypeOK, MapOK
    <2>3. Held(id)'
        BY <2>1, ConsumeKeeps DEF PermissionInv, Held
    <2>4. Blocked(id)'
        BY <2>1 DEF Blocked, TypeOK, MapOK, RunInfo
    <2>5. QED
        BY <2>1, <2>2, <2>3, <2>4, PermissionStep
<1>4. CASE ReadPermissionRequest(id)
    <2>1. /\ id \in active /\ active' = active /\ Consume(id) /\ out[id] # <<>>
          /\ Head(out[id]).type = "permission_request"
          /\ info' = [info EXCEPT ![id].status = "blocked"]
          /\ perms' = [perms EXCEPT ![id] = Asked(id)]
          /\ UNCHANGED <<phase, asks>>
        BY <1>4 DEF ReadPermissionRequest, Receives
    <2>2. \A j \in active \ {id} : Same(j)
        BY <2>1, ConsumeKeeps DEF Same, TypeOK, MapOK
    <2>3. perms'[id] = perms[id] \cup {Head(out[id]).perm}
        BY <2>1 DEF Asked, TypeOK, MapOK
    <2>4. Held(id)'
        BY <2>1, <2>3, ConsumeKeeps DEF PermissionInv, Held
    <2>5. Blocked(id)'
        BY <2>3 DEF Blocked
    <2>6. QED
        BY <2>1, <2>2, <2>4, <2>5, PermissionStep
<1>5. CASE ReadTerminal(id)
    <2>1. /\ Consume(id) /\ out[id] # <<>> /\ UNCHANGED <<phase, asks>>
          /\ active' = active \ {id}
        BY <1>5, Zenon DEF ReadTerminal, Receives, Known
    <2>2. \A j \in active \ {id} : info'[j] = info[j] /\ perms'[j] = perms[j]
        <3>1. CASE Known(id)
            <4>1. /\ perms' = [perms EXCEPT ![id] = {}]
                  /\ \E st : info' = [info EXCEPT ![id].status = st, ![id].over = Head(out[id]).over]
                BY <1>5, <3>1, Zenon DEF ReadTerminal
            <4>2. QED
                BY <4>1 DEF TypeOK, MapOK
        <3>2. CASE ~Known(id)
            BY <1>5, <3>2 DEF ReadTerminal
        <3>3. QED
            BY <3>1, <3>2
    <2>3. \A j \in active \ {id} : Same(j)
        BY <2>1, <2>2, ConsumeKeeps DEF Same, TypeOK, MapOK
    <2>4. QED
        BY <2>1, <2>3, PermissionStep
<1>6. CASE ReadEnd(id)
    <2>1. LeftToEnd(id) \in SUBSET active /\ EndRuns(LeftToEnd(id), "failed")
        BY <1>6 DEF ReadEnd, LeftToEnd
    <2>2. QED
        BY <2>1, EndPermission DEF TerminalStatus
<1>7. QED
    BY <1>1, <1>2, <1>3, <1>4, <1>5, <1>6 DEF Read

\* A message more in a run's stdout hides none.
LEMMA WriteKeeps ==
    ASSUME TypeOK, NEW id \in Ids, NEW type, NEW perm, NEW over,
           Write(id, type, perm, over),
           [type |-> type, perm |-> perm, over |-> over] \in Message
    PROVE  /\ \A j \in Ids \ {id} : out'[j] = out[j]
           /\ \A p \in Perms : Written(id, p) => Written(id, p)'
           /\ type = "permission_request" => Written(id, perm)'
<1> DEFINE m == [type |-> type, perm |-> perm, over |-> over]
<1>1. out[id] \in Seq(Message) /\ m \in Message
    BY DEF TypeOK, SidecarOK
<1>m. m.type = type /\ m.perm = perm
    OBVIOUS
<1>2. out'[id] = Append(out[id], m) /\ \A j \in Ids \ {id} : out'[j] = out[j]
    BY DEF Write, TypeOK, SidecarOK
<1> HIDE DEF m
<1>3. /\ Append(out[id], m) \in Seq(Message) /\ Len(Append(out[id], m)) = Len(out[id]) + 1
      /\ \A i \in 1..Len(out[id]) : Append(out[id], m)[i] = out[id][i]
      /\ Append(out[id], m)[Len(out[id]) + 1] = m
    BY <1>1, AppendProperties
<1>4. /\ Len(out[id]) \in Nat /\ DOMAIN out[id] = 1..Len(out[id])
      /\ DOMAIN out'[id] = 1..(Len(out[id]) + 1)
    BY <1>1, <1>2, <1>3, LenProperties
<1>5. \A p \in Perms : Written(id, p) => Written(id, p)'
    BY <1>2, <1>3, <1>4 DEF Written
<1>6. type = "permission_request" => Written(id, perm)'
    BY <1>2, <1>3, <1>4, <1>m DEF Written
<1>7. QED
    BY <1>2, <1>5, <1>6

\* A session that has not begun waits for nothing.
NoneWaits ==
    \A id \in Ids :
        /\ id >= nextId => phase[id] = "unborn"
        /\ phase[id] \in {"unborn", "booting"} => \A p \in Perms : asks[id][p] # "waiting"

LEMMA AsksStep ==
    ASSUME IInv, NoneWaits, nextId' \in Nat, nextId' >= nextId,
           \A id \in Ids : \/ phase'[id] = phase[id]
                           \/ phase'[id] \notin {"unborn", "booting"} /\ id < nextId,
           \A id \in Ids, p \in Perms : \/ asks'[id][p] = asks[id][p]
                                        \/ asks'[id][p] # "waiting"
                                        \/ phase[id] \notin {"unborn", "booting"}
    PROVE  NoneWaits'
<1>1. nextId \in Nat
    BY BoundAssumption DEF IInv, TypeOK
<1>2. ASSUME NEW id \in Ids PROVE /\ id >= nextId' => phase'[id] = "unborn"
                                  /\ phase'[id] \in {"unborn", "booting"} =>
                                        \A p \in Perms : asks'[id][p] # "waiting"
    <2>1. id \in Nat
        BY DEF Ids
    <2>2. id >= nextId' => phase'[id] = "unborn"
        BY <1>1, <2>1 DEF NoneWaits
    <2>3. phase'[id] \in {"unborn", "booting"} => phase'[id] = phase[id]
        OBVIOUS
    <2>4. QED
        BY <2>2, <2>3 DEF NoneWaits
<1>3. QED
    BY <1>2 DEF NoneWaits

LEMMA AsksStart ==
    ASSUME IInv, NoneWaits, NEW t, NEW resumed, StartRun(t, resumed) \/ StartCut(t, resumed)
    PROVE  NoneWaits'
<1> PICK ph : InsertRun(t, resumed, ph)
    BY DEF StartRun, StartCut
<1>1. nextId \in Ids /\ nextId' = nextId + 1 /\ nextId \in Nat
    BY BoundAssumption DEF InsertRun, IInv, TypeOK, Ids
<1>2. UNCHANGED asks /\ phase' = [phase EXCEPT ![nextId] = ph]
    BY DEF InsertRun
<1>3. \A id \in Ids : phase'[id] = IF id = nextId THEN ph ELSE phase[id]
    BY <1>2 DEF IInv, TypeOK, SidecarOK
<1>4. QED
    BY <1>1, <1>2, <1>3 DEF NoneWaits, Ids

LEMMA ActiveBegan == ASSUME IInv PROVE \A id \in active : id \in Ids /\ id < nextId
BY BoundAssumption DEF IInv, TypeOK, MapOK, FreshUntouched, Ids

LEMMA AsksEnd ==
    ASSUME IInv, NoneWaits, NEW S \in SUBSET active, NEW st, EndRuns(S, st), UNCHANGED nextId
    PROVE  NoneWaits'
<1>1. nextId \in Nat
    BY BoundAssumption DEF IInv, TypeOK
<1>2. UNCHANGED asks /\ \A id \in Ids : phase'[id] = IF id \in S THEN "exited" ELSE phase[id]
    BY DEF EndRuns, Settle
<1>3. \A id \in S : id < nextId
    BY ActiveBegan
<1>4. QED
    BY <1>1, <1>2, <1>3, AsksStep

LEMMA AsksKept ==
    ASSUME IInv, NoneWaits, UNCHANGED <<phase, asks>>, nextId' \in Nat, nextId' >= nextId
    PROVE  NoneWaits'
BY AsksStep

LEMMA ClientAsks ==
    ASSUME IInv, NoneWaits, NEW c \in Clients, ClientStep(c) PROVE NoneWaits'
<1>n. nextId \in Nat /\ nextId >= nextId /\ nextId + 1 \in Nat /\ nextId + 1 >= nextId
    BY BoundAssumption DEF IInv, TypeOK
<1>1. ASSUME NEW t \in Tasks, LaunchRun(c, t) PROVE NoneWaits'
    BY <1>1, <1>n, AsksStart, AsksKept DEF LaunchRun, LaunchQueued, LaunchStarted
<1>2. ASSUME NEW t \in Tasks, RetryRun(c, t) \/ EnqueueRun(c, t) \/ RemoveQueued(c, t)
      PROVE  NoneWaits'
    BY <1>2, <1>n, AsksKept DEF RetryRun, EnqueueRun, RemoveQueued
<1>3. ASSUME NEW t \in Tasks, ResumeRun(c, t) PROVE NoneWaits'
    BY <1>3, AsksStart DEF ResumeRun
<1>4. ASSUME NEW batch \in Batches, BatchLaunch(c, batch) PROVE NoneWaits'
    <2>1. Len(batch) \in Nat
        BY BatchAssumption, LenProperties
    <2>2. nextId' \in Nat /\ nextId' >= nextId
        BY <1>4, <1>n, <2>1 DEF BatchLaunch
    <2>3. QED
        BY <1>4, <2>2, AsksKept DEF BatchLaunch
<1>5. ASSUME NEW id \in Ids, ForceCancelRun(c, id) PROVE NoneWaits'
    <2>1. {id} \in SUBSET active /\ EndRuns({id}, "cancelled") /\ UNCHANGED nextId
        BY <1>5 DEF ForceCancelRun
    <2>2. QED
        BY <2>1, AsksEnd
<1>6. CASE CancelQueue(c) \/ Shutdown(c)
    BY <1>6, AsksEnd DEF CancelQueue, Shutdown
<1>7. ASSUME NEW id \in Ids, NEW p \in Perms, RespondToPermission(c, id, p) PROVE NoneWaits'
    <2>1. UNCHANGED <<phase, nextId>>
        BY <1>7 DEF RespondToPermission
    <2>2. \/ UNCHANGED asks
          \/ asks' = [asks EXCEPT ![id][p] = IF @ = "waiting" THEN "answered" ELSE @]
        BY <1>7 DEF RespondToPermission
    <2>3. \A j \in Ids, q \in Perms : asks'[j][q] = asks[j][q] \/ asks'[j][q] # "waiting"
        <3>1. \A j \in Ids \ {id} : asks'[j] = asks[j]
            BY <2>2 DEF IInv, TypeOK, SidecarOK
        <3>2. \A q \in Perms \ {p} : asks'[id][q] = asks[id][q]
            BY <2>2 DEF IInv, TypeOK, SidecarOK
        <3>3. asks'[id][p] = asks[id][p] \/ asks'[id][p] # "waiting"
            BY <2>2 DEF IInv, TypeOK, SidecarOK
        <3>4. QED
            BY <3>1, <3>2, <3>3
    <2>4. QED
        BY <1>n, <2>1, <2>3, AsksStep
<1>8. CASE CheckStale(c)
    <2> DEFINE stale == StaleRuns
               over  == OverBudget(active \ stale)
               rest  == active \ (stale \cup over)
               S     == stale \cup over
               outcome == [id \in S |-> IF id \in stale THEN "failed" ELSE "cancelled"]
    <2>1. Settle(outcome, Freed(rest)) /\ asks' = Denied(rest) /\ UNCHANGED nextId
        BY <1>8 DEF CheckStale
    <2>2. S \subseteq active
        BY DEF StaleRuns, OverBudget
    <2>3. \A id \in Ids : phase'[id] = phase[id] \/ (phase'[id] = "exited" /\ id < nextId)
        <3>1. DOMAIN outcome = S
            OBVIOUS
        <3> HIDE DEF S, outcome
        <3>2. \A id \in Ids : phase'[id] = IF id \in S THEN "exited" ELSE phase[id]
            BY <2>1, <3>1 DEF Settle
        <3>3. QED
            BY <2>2, <3>2, ActiveBegan
    <2>4. \A id \in Ids, p \in Perms : asks'[id][p] = asks[id][p] \/ asks'[id][p] # "waiting"
        BY <2>1 DEF Denied
    <2>5. QED
        BY <1>n, <2>1, <2>3, <2>4, AsksStep
<1>9. QED
    BY <1>1, <1>2, <1>3, <1>4, <1>5, <1>6, <1>7, <1>8 DEF ClientStep

LEMMA WorkAsks ==
    ASSUME IInv, NoneWaits,
           \/ \E c \in Clients : RetryLaunch(c) \/ DropRequest(c)
           \/ \E w \in Workers : Advance(w)
    PROVE  NoneWaits'
<1>n. nextId \in Nat /\ nextId >= nextId /\ nextId + 1 \in Nat /\ nextId + 1 >= nextId
    BY BoundAssumption DEF IInv, TypeOK
<1>1. ASSUME NEW c \in Clients, RetryLaunch(c) \/ DropRequest(c) PROVE NoneWaits'
    <2>1. CASE RetryLaunch(c) \/ RequestDropped(c)
        BY <2>1, <1>n, AsksStart, AsksKept
        DEF RetryLaunch, RequestDropped, LaunchQueued, LaunchStarted
    <2>2. CASE \E t \in Tasks : LaunchCut(c, t) \/ ResumeCut(c, t)
        BY <2>2, AsksStart DEF LaunchCut, ResumeCut
    <2>3. ASSUME NEW id \in Ids, NEW p \in Perms, RespondCut(c, id, p) PROVE NoneWaits'
        <3>1. UNCHANGED <<phase, nextId>> /\ asks' = [asks EXCEPT ![id][p] = "cut"]
            BY <2>3 DEF RespondCut
        <3>2. \A j \in Ids, q \in Perms : asks'[j][q] = asks[j][q] \/ asks'[j][q] # "waiting"
            BY <3>1 DEF IInv, TypeOK, SidecarOK
        <3>3. QED
            BY <1>n, <3>1, <3>2, AsksStep
    <2>4. QED
        BY <1>1, <2>1, <2>2, <2>3 DEF DropRequest
<1>2. ASSUME NEW w \in Workers, Advance(w) PROVE NoneWaits'
    BY <1>2, <1>n, AsksStart, AsksKept
    DEF Advance, PopPending, RequeuePopped, LaunchPopped, LaunchQueued, LaunchStarted
<1>3. QED
    BY <1>1, <1>2

LEMMA SidecarAsks ==
    ASSUME IInv, NoneWaits, NEW id \in Ids, Sidecar(id) PROVE NoneWaits'
<1>f. UNCHANGED nextId
    BY DEF Sidecar, SessionInit, SessionThrows, AskPermission, HandleAnswer,
       SessionResult, SidecarExits, SidecarCrash, SidecarHangs, SidecarFrame
<1>n. nextId' \in Nat /\ nextId' >= nextId /\ nextId \in Nat /\ id \in Nat
    BY <1>f, BoundAssumption DEF IInv, TypeOK, Ids
<1>1. phase[id] # "unborn"
    BY DEF Sidecar, SessionInit, SessionThrows, AskPermission, HandleAnswer,
       SessionResult, SidecarExits, SidecarCrash, SidecarHangs, Alive
<1>2. id < nextId
    BY <1>n, <1>1 DEF NoneWaits
<1>3. \A j \in Ids : \/ phase'[j] = phase[j]
                     \/ phase'[j] \notin {"unborn", "booting"} /\ j < nextId
    BY <1>2 DEF IInv, TypeOK, SidecarOK, Sidecar, SessionInit, SessionThrows, AskPermission,
       HandleAnswer, SessionResult, SidecarExits, SidecarCrash, SidecarHangs
<1>4. \A j \in Ids, q \in Perms : \/ asks'[j][q] = asks[j][q]
                                  \/ asks'[j][q] # "waiting"
                                  \/ phase[j] \notin {"unborn", "booting"}
    <2>1. CASE ResetRunState(id)
        BY <2>1 DEF ResetRunState, IInv, TypeOK, SidecarOK
    <2>2. ASSUME NEW p \in Perms, AskPermission(id, p) \/ HandleAnswer(id, p)
          PROVE  /\ phase[id] \notin {"unborn", "booting"}
                 /\ \A j \in Ids \ {id} : asks'[j] = asks[j]
        BY <2>2 DEF AskPermission, HandleAnswer, IInv, TypeOK, SidecarOK
    <2>3. CASE UNCHANGED asks
        BY <2>3
    <2>4. \/ ResetRunState(id) \/ UNCHANGED asks
          \/ \E p \in Perms : AskPermission(id, p) \/ HandleAnswer(id, p)
        BY DEF Sidecar, SessionInit, SessionThrows, SessionResult, SidecarExits, SidecarCrash,
           SidecarHangs
    <2>5. QED
        BY <2>1, <2>2, <2>3, <2>4
<1>5. QED
    BY <1>n, <1>3, <1>4, AsksStep

LEMMA NextAsks == IInv /\ NoneWaits /\ [Next]_vars => NoneWaits'
<1> SUFFICES ASSUME IInv, NoneWaits, [Next]_vars PROVE NoneWaits'
    OBVIOUS
<1>n. nextId \in Nat /\ nextId >= nextId
    BY BoundAssumption DEF IInv, TypeOK
<1>1. ASSUME NEW id \in Ids, Read(id) PROVE NoneWaits'
    <2>1. CASE ReadEnd(id)
        <3>1. /\ LeftToEnd(id) \in SUBSET active /\ EndRuns(LeftToEnd(id), "failed")
              /\ UNCHANGED nextId
            BY <2>1 DEF ReadEnd, LeftToEnd
        <3>2. QED
            BY <3>1, AsksEnd
    <2>2. CASE ~ReadEnd(id)
        <3>1. UNCHANGED <<phase, asks, nextId>>
            BY <1>1, <2>2 DEF Read, ReadLate, ReadSessionStarted, ReadPermissionRequest,
                ReadActivity, ReadTerminal
        <3>2. QED
            BY <1>n, <3>1, AsksKept
    <2>3. QED
        BY <2>1, <2>2
<1>2. ASSUME NEW id \in Ids, Time(id) PROVE NoneWaits'
    BY <1>2, <1>n, AsksKept DEF Time, GoQuiet, PermissionTimesOut
<1>3. CASE DaemonRestart
    <2>1. UNCHANGED <<asks, nextId>>
          /\ \A id \in Ids : phase'[id] = IF phase[id] = "unborn" THEN "unborn" ELSE "exited"
        BY <1>3 DEF DaemonRestart
    <2>2. QED
        BY <2>1 DEF NoneWaits
<1>4. CASE UNCHANGED vars
    BY <1>4, <1>n, AsksKept DEF vars
<1>5. QED
    BY <1>1, <1>2, <1>3, <1>4, ClientAsks, WorkAsks, SidecarAsks DEF Next

\* A message more in its stdout, or none; the session's own steps.
LEMMA SidecarPermission ==
    ASSUME IInv, NoneWaits, PermissionInv, NEW id \in Ids, Sidecar(id)
    PROVE  PermissionInv'
<1> TypeOK
    BY DEF IInv
<1>1. UNCHANGED <<active, info, perms>>
    BY DEF Sidecar, SessionInit, SessionThrows, AskPermission, HandleAnswer,
       SessionResult, SidecarExits, SidecarCrash, SidecarHangs, SidecarFrame
<1>2. \A j \in active \ {id} : Same(j)
    <2>1. \A j \in Ids \ {id} : phase'[j] = phase[j]
        BY DEF TypeOK, SidecarOK, Sidecar, SessionInit, SessionThrows, AskPermission,
           HandleAnswer, SessionResult, SidecarExits, SidecarCrash, SidecarHangs
    <2>2. \A j \in Ids \ {id} : asks'[j] = asks[j]
        BY DEF TypeOK, SidecarOK, Sidecar, SessionInit, SessionThrows, AskPermission,
           HandleAnswer, SessionResult, SidecarExits, SidecarCrash, SidecarHangs, ResetRunState
    <2>3. \A j \in Ids \ {id} : out'[j] = out[j]
        BY DEF TypeOK, SidecarOK, Sidecar, SessionInit, SessionThrows, AskPermission,
           HandleAnswer, SessionResult, SidecarExits, SidecarCrash, SidecarHangs, Write
    <2>4. QED
        BY <1>1, <2>1, <2>2, <2>3 DEF Same, TypeOK, MapOK
<1>3. phase[id] # "exited"
    BY DEF Sidecar, SessionInit, SessionThrows, AskPermission, HandleAnswer,
       SessionResult, SidecarExits, SidecarCrash, SidecarHangs, Alive
<1>4. id \in active => Blocked(id)'
    <2>1. \A p \in Perms : asks[id][p] = "cut" => asks'[id][p] = "cut"
        BY DEF TypeOK, SidecarOK, Sidecar, SessionInit, SessionThrows, AskPermission,
           HandleAnswer, SessionResult, SidecarExits, SidecarCrash, SidecarHangs, ResetRunState
    <2>2. QED
        BY <1>1, <1>3, <2>1 DEF PermissionInv, Blocked
<1>5. id \in active => Held(id)'
    <2> SUFFICES ASSUME id \in active PROVE Held(id)'
        OBVIOUS
    <2>1. CASE SessionInit(id)
        <3>1. phase[id] = "booting" /\ UNCHANGED asks
            BY <2>1 DEF SessionInit
        <3>2. QED
            BY <3>1 DEF NoneWaits, Held
    <2>2. ASSUME NEW p \in Perms, AskPermission(id, p) PROVE Held(id)'
        <3>1. /\ Write(id, "permission_request", p, FALSE) /\ phase[id] = "session"
              /\ asks' = [asks EXCEPT ![id][p] = "waiting"]
            BY <2>2 DEF AskPermission
        <3>2. [type |-> "permission_request", perm |-> p, over |-> FALSE] \in Message
            BY DEF Message
        <3>3. Written(id, p)' /\ \A q \in Perms : Written(id, q) => Written(id, q)'
            BY <3>1, <3>2, WriteKeeps
        <3>4. \A q \in Perms : q # p => asks'[id][q] = asks[id][q]
            BY <3>1 DEF TypeOK, SidecarOK
        <3>5. ASSUME NEW q \in Perms, asks'[id][q] = "waiting"
              PROVE  q \in perms'[id] \/ Written(id, q)'
            BY <1>1, <3>1, <3>3, <3>4, <3>5 DEF PermissionInv, Held
        <3>6. QED
            BY <3>5 DEF Held
    <2>3. ASSUME NEW p \in Perms, HandleAnswer(id, p) PROVE Held(id)'
        <3>1. /\ phase[id] = "session" /\ UNCHANGED <<phase, out>>
              /\ asks' = [asks EXCEPT ![id][p] = "resolved"]
            BY <2>3 DEF HandleAnswer
        <3>2. \A q \in Perms : asks'[id][q] = "waiting" => asks[id][q] = "waiting"
            BY <3>1 DEF TypeOK, SidecarOK
        <3>3. \A q \in Perms : Written(id, q) => Written(id, q)'
            BY <3>1 DEF Written
        <3>4. QED
            BY <1>1, <3>1, <3>2, <3>3 DEF PermissionInv, Held
    <2>4. ASSUME \/ SessionThrows(id) \/ SidecarExits(id) \/ SidecarCrash(id) \/ SidecarHangs(id)
                 \/ \E over \in Costs : SessionResult(id, over)
          PROVE  Held(id)'
        <3>1. phase'[id] # "session"
            BY <2>4 DEF SessionThrows, SidecarExits, SidecarCrash, SidecarHangs, SessionResult,
                TypeOK, SidecarOK
        <3>2. QED
            BY <3>1 DEF Held
    <2>5. QED
        BY <2>1, <2>2, <2>3, <2>4 DEF Sidecar
<1>6. QED
    BY <1>1, <1>2, <1>4, <1>5, PermissionStep

LEMMA NextPermission == IInv /\ NoneWaits /\ PermissionInv /\ [Next]_vars => PermissionInv'
<1> SUFFICES ASSUME IInv, NoneWaits, PermissionInv, [Next]_vars PROVE PermissionInv'
    OBVIOUS
<1>1. ASSUME NEW id \in Ids, Time(id) PROVE PermissionInv'
    BY <1>1, SameAll, PermissionStep DEF Time, GoQuiet, PermissionTimesOut
<1>2. CASE DaemonRestart
    BY <1>2 DEF DaemonRestart, PermissionInv
<1>3. CASE UNCHANGED vars
    BY <1>3, SameAll, PermissionStep DEF vars
<1>4. QED
    BY <1>1, <1>2, <1>3, ClientPermission, WorkPermission, ReadPermission, SidecarPermission
    DEF Next

LEMMA PermissionInvHolds == Spec => [](IInv /\ NoneWaits /\ PermissionInv)
<1> DEFINE Invariant == IInv /\ NoneWaits /\ PermissionInv
<1>1. Init => Invariant
    BY InitInv DEF Init, NoneWaits, PermissionInv
<1>2. Invariant /\ [Next]_vars => Invariant'
    BY StepInv, NextAsks, NextPermission
<1>3. QED
    BY <1>1, <1>2, PTL DEF Spec

\* In every deployment, a request the agent waits for is known to the manager
\* or still in the run's stdout: neither a time-out that denies several at
\* once nor an answer that meets one leaves the agent waiting for ever.
THEOREM NoLostPermissionSafe == Spec => []NoLostPermission
<1>1. IInv /\ NoneWaits /\ PermissionInv => NoLostPermission
    BY DEF PermissionInv, Held, Written, NoLostPermission
<1>2. QED
    BY <1>1, PermissionInvHolds, PTL

\* In every deployment, a run is shown as blocked only while a request of its
\* is pending, or its process is gone.
THEOREM BlockedSafe == Spec => []BlockedHasPermission
<1>1. IInv /\ NoneWaits /\ PermissionInv => BlockedHasPermission
    BY DEF PermissionInv, Blocked, BlockedHasPermission
<1>2. QED
    BY <1>1, PermissionInvHolds, PTL

-----------------------------------------------------------------------------
(* The pending queue: no entry is lost between the critical sections       *)

Queued(t) == {i \in DOMAIN pending : pending[i].task = t}
InHand(t) == {w \in Workers : /\ worker[w].pc \in {"launch", "refused"}
                              /\ worker[w].item.task = t}

LEMMA WorkersFinite == IsFiniteSet(Workers)
<1>1. IsFiniteSet(Ids) /\ IsFiniteSet(Clients)
    BY BoundAssumption, ClientAssumption, FS_Interval DEF Ids
<1>2. QED
    BY <1>1, FS_Union DEF Workers

LEMMA BacklogFinite ==
    ASSUME TypeOK, NEW t
    PROVE  /\ IsFiniteSet(Queued(t)) /\ Cardinality(Queued(t)) \in Nat
           /\ IsFiniteSet(InHand(t)) /\ Cardinality(InHand(t)) \in Nat
<1>1. IsFiniteSet(DOMAIN pending)
    BY QueueIs, FS_Interval
<1>2. Queued(t) \in SUBSET (DOMAIN pending) /\ InHand(t) \in SUBSET Workers
    BY DEF Queued, InHand
<1>3. QED
    BY <1>1, <1>2, WorkersFinite, FS_Subset, FS_CardinalityType

LEMMA BacklogFiniteAfter ==
    ASSUME TypeOK', NEW t
    PROVE  /\ IsFiniteSet(Queued(t)') /\ Cardinality(Queued(t)') \in Nat
           /\ IsFiniteSet(InHand(t)') /\ Cardinality(InHand(t)') \in Nat
<1>1. pending' \in Seq(QueuedRun)
    BY DEF TypeOK, QueueOK
<1>2. Len(pending') \in Nat /\ DOMAIN pending' = 1..Len(pending')
    BY <1>1, LenProperties
<1>3. IsFiniteSet(DOMAIN pending')
    BY <1>2, FS_Interval
<1>4. Queued(t)' \in SUBSET (DOMAIN pending') /\ InHand(t)' \in SUBSET Workers
    BY DEF Queued, InHand
<1>5. QED
    BY <1>3, <1>4, WorkersFinite, FS_Subset, FS_CardinalityType

\* Entries that are moved along keep their number.
LEMMA ShiftCount ==
    ASSUME NEW A \in SUBSET Int, NEW B, IsFiniteSet(B), NEW d \in Int, \A i \in A : i + d \in B
    PROVE  Cardinality(A) <= Cardinality(B)
<1> DEFINE f == [i \in A |-> i + d]
<1>1. f \in [A -> B]
    OBVIOUS
<1>2. \A i, j \in A : f[i] = f[j] => i = j
    OBVIOUS
<1>3. f \in Injection(A, B)
    BY <1>1, <1>2 DEF Injection, IsInjective
<1>4. QED
    BY <1>3, FS_Injection

\* The queue has lost nothing and no entry has left a worker's hand.
LEMMA BothKept ==
    ASSUME TypeOK, TypeOK', NEW t, NEW d \in Int,
           \A i \in Queued(t) : i + d \in Queued(t)', InHand(t) \subseteq InHand(t)'
    PROVE  ~(Backlog(t)' < Backlog(t))
<1>1. Queued(t) \in SUBSET Int
    BY QueueIs DEF Queued
<1>2. /\ IsFiniteSet(Queued(t)') /\ Cardinality(Queued(t)') \in Nat
      /\ IsFiniteSet(InHand(t)') /\ Cardinality(InHand(t)') \in Nat
    BY BacklogFiniteAfter
<1>3. Cardinality(Queued(t)) <= Cardinality(Queued(t)')
    BY <1>1, <1>2, ShiftCount
<1>4. Cardinality(InHand(t)) <= Cardinality(InHand(t)')
    BY <1>2, FS_Subset
<1>5. /\ Backlog(t) = Cardinality(Queued(t)) + Cardinality(InHand(t))
      /\ Backlog(t)' = Cardinality(Queued(t)') + Cardinality(InHand(t)')
    BY DEF Backlog, Queued, InHand
<1>6. QED
    BY <1>2, <1>3, <1>4, <1>5, BacklogFinite

\* The entry of one worker went to the queue, at index i.
LEMMA PutBack ==
    ASSUME TypeOK, TypeOK', NEW t, NEW d \in Int, NEW i \in Queued(t)', NEW w,
           \A j \in Queued(t) : j + d \in Queued(t)' \ {i}, InHand(t) \ {w} \subseteq InHand(t)'
    PROVE  ~(Backlog(t)' < Backlog(t))
<1>1. Queued(t) \in SUBSET Int
    BY QueueIs DEF Queued
<1>2. /\ IsFiniteSet(Queued(t)') /\ Cardinality(Queued(t)') \in Nat
      /\ IsFiniteSet(InHand(t)') /\ Cardinality(InHand(t)') \in Nat
    BY BacklogFiniteAfter
<1>3. /\ IsFiniteSet(Queued(t)' \ {i})
      /\ Cardinality(Queued(t)' \ {i}) = Cardinality(Queued(t)') - 1
    BY <1>2, FS_RemoveElement
<1>4. Cardinality(Queued(t)) <= Cardinality(Queued(t)') - 1
    BY <1>1, <1>3, ShiftCount
<1>5. /\ IsFiniteSet(InHand(t)) /\ Cardinality(InHand(t)) \in Nat
      /\ Cardinality(Queued(t)) \in Nat
    BY BacklogFinite
<1>6. Cardinality(InHand(t)) <= Cardinality(InHand(t)') + 1
    <2>1. Cardinality(InHand(t) \ {w}) \in {Cardinality(InHand(t)) - 1, Cardinality(InHand(t))}
        BY <1>5, FS_RemoveElement
    <2>2. Cardinality(InHand(t) \ {w}) <= Cardinality(InHand(t)')
        BY <1>2, FS_Subset
    <2>3. QED
        BY <1>2, <1>5, <2>1, <2>2
<1>7. /\ Backlog(t) = Cardinality(Queued(t)) + Cardinality(InHand(t))
      /\ Backlog(t)' = Cardinality(Queued(t)') + Cardinality(InHand(t)')
    BY DEF Backlog, Queued, InHand
<1>8. QED
    BY <1>2, <1>4, <1>5, <1>6, <1>7

\* The first entry of the queue, one of t, went to a worker's hand.
LEMMA TakenOut ==
    ASSUME TypeOK, TypeOK', NEW t, NEW w \in InHand(t)' \ InHand(t),
           \A j \in Queued(t) \ {1} : j - 1 \in Queued(t)', InHand(t) \subseteq InHand(t)'
    PROVE  ~(Backlog(t)' < Backlog(t))
<1>1. Queued(t) \ {1} \in SUBSET Int /\ \A j \in Queued(t) \ {1} : j + (0 - 1) \in Queued(t)'
    BY QueueIs DEF Queued
<1>2. /\ IsFiniteSet(Queued(t)') /\ Cardinality(Queued(t)') \in Nat
      /\ IsFiniteSet(InHand(t)') /\ Cardinality(InHand(t)') \in Nat
    BY BacklogFiniteAfter
<1>3. /\ IsFiniteSet(InHand(t)) /\ Cardinality(InHand(t)) \in Nat
      /\ IsFiniteSet(Queued(t)) /\ Cardinality(Queued(t)) \in Nat
    BY BacklogFinite
<1>4. Cardinality(Queued(t)) <= Cardinality(Queued(t)') + 1
    <2>1. Cardinality(Queued(t) \ {1}) <= Cardinality(Queued(t)')
        <3>1. 0 - 1 \in Int
            OBVIOUS
        <3>2. QED
            BY <1>1, <1>2, <3>1, ShiftCount
    <2>2. Cardinality(Queued(t) \ {1}) \in {Cardinality(Queued(t)) - 1, Cardinality(Queued(t))}
        BY <1>3, FS_RemoveElement
    <2>3. QED
        BY <1>2, <1>3, <2>1, <2>2
<1>5. Cardinality(InHand(t)) <= Cardinality(InHand(t)') - 1
    <2>1. InHand(t) \in SUBSET (InHand(t)' \ {w})
        OBVIOUS
    <2>2. /\ IsFiniteSet(InHand(t)' \ {w})
          /\ Cardinality(InHand(t)' \ {w}) = Cardinality(InHand(t)') - 1
        BY <1>2, FS_RemoveElement
    <2>3. QED
        BY <2>1, <2>2, FS_Subset
<1>6. /\ Backlog(t) = Cardinality(Queued(t)) + Cardinality(InHand(t))
      /\ Backlog(t)' = Cardinality(Queued(t)') + Cardinality(InHand(t)')
    BY DEF Backlog, Queued, InHand
<1>7. QED
    BY <1>2, <1>3, <1>4, <1>5, <1>6

\* What the property asks of a step, of one task.
Kept(t) ==
    \/ ~(Backlog(t)' < Backlog(t))
    \/ \E id \in active' \ active : info'[id].task = t
    \/ queueFailed' = queueFailed + 1

\* A worker that moves takes at most its own entry out of a hand, and none
\* when it had none of the task.
LEMMA HandMoves ==
    ASSUME TypeOK, NEW w \in Workers, NEW x, worker' = [worker EXCEPT ![w] = x], NEW t
    PROVE  /\ InHand(t) \ {w} \subseteq InHand(t)'
           /\ w \notin InHand(t) => InHand(t) \subseteq InHand(t)'
BY DEF InHand, TypeOK, WorkerOK

LEMMA HandSame ==
    ASSUME UNCHANGED worker, NEW t PROVE InHand(t) \subseteq InHand(t)'
BY DEF InHand

LEMMA QueueSame ==
    ASSUME TypeOK, UNCHANGED pending, NEW t
    PROVE  \A i \in Queued(t) : i + 0 \in Queued(t)'
BY QueueIs DEF Queued

LEMMA QueueGrows ==
    ASSUME TypeOK, NEW u \in Tasks \cup {NoTask}, nextId <= MaxIds,
           pending' = Append(pending, Ticket(u)), NEW t
    PROVE  /\ \A i \in Queued(t) : i + 0 \in Queued(t)' \ {Len(pending) + 1}
           /\ t = u => Len(pending) + 1 \in Queued(t)'
<1>1. /\ DOMAIN pending' = 1..(Len(pending) + 1)
      /\ \A i \in DOMAIN pending : pending'[i] = pending[i]
      /\ pending'[Len(pending) + 1].task = u
    BY QueuedAtBack
<1>2. Len(pending) \in Nat /\ DOMAIN pending = 1..Len(pending)
    BY QueueIs
<1>3. QED
    BY <1>1, <1>2 DEF Queued

\* A step that leaves the entries of t where they are.
LEMMA StayKept ==
    ASSUME TypeOK, TypeOK', NEW t, \A i \in Queued(t) : i + 0 \in Queued(t)',
           InHand(t) \subseteq InHand(t)'
    PROVE  Kept(t)
<1>1. 0 \in Int
    OBVIOUS
<1>2. QED
    BY <1>1, BothKept DEF Kept

\* launch_run for an entry, by a client or by the worker that popped it.
LEMMA LaunchKept ==
    ASSUME TypeOK, TypeOK', FreshUntouched, NEW t \in Tasks, NEW u \in Tasks \cup {NoTask},
           NEW w \in Workers, LaunchQueued(u) \/ LaunchStarted(u),
           GoTo(w, "pop") \/ GoTo(w, "idle") \/ UNCHANGED worker,
           w \in InHand(t) => worker[w].item.task = u
    PROVE  Kept(t)
<1>h. /\ InHand(t) \ {w} \subseteq InHand(t)'
      /\ w \notin InHand(t) => InHand(t) \subseteq InHand(t)'
    BY HandMoves, HandSame DEF GoTo
<1>1. CASE LaunchQueued(u)
    <2>1. /\ \A i \in Queued(t) : i + 0 \in Queued(t)' \ {Len(pending) + 1}
          /\ t = u => Len(pending) + 1 \in Queued(t)'
        BY <1>1, QueueGrows DEF LaunchQueued
    <2>2. CASE w \in InHand(t)
        <3>1. t = u /\ 0 \in Int
            BY <2>2 DEF InHand
        <3>2. Len(pending) + 1 \in Queued(t)'
            BY <2>1, <3>1
        <3>3. ~(Backlog(t)' < Backlog(t))
            BY <1>h, <2>1, <3>1, <3>2, PutBack
        <3>4. QED
            BY <3>3 DEF Kept
    <2>3. CASE w \notin InHand(t)
        BY <1>h, <2>1, <2>3, StayKept
    <2>4. QED
        BY <2>2, <2>3
<1>2. CASE LaunchStarted(u)
    <2>1. CASE t = u
        <3>1. nextId \in active' \ active /\ info'[nextId].task = t
            BY <1>2, <2>1, BoundAssumption
            DEF LaunchStarted, StartRun, InsertRun, NewRun, FreshUntouched, TypeOK, MapOK, Ids
        <3>2. QED
            BY <3>1 DEF Kept
    <2>2. CASE t # u
        <3>1. w \notin InHand(t)
            BY <2>2 DEF InHand
        <3>2. UNCHANGED pending
            BY <1>2 DEF LaunchStarted
        <3>3. QED
            BY <1>h, <3>1, <3>2, QueueSame, StayKept
    <2>3. QED
        BY <2>1, <2>2
<1>3. QED
    BY <1>1, <1>2

LEMMA PopKept ==
    ASSUME TypeOK, TypeOK', NEW t \in Tasks, NEW w \in Workers, PopPending(w)
    PROVE  Kept(t)
<1>n. w \notin InHand(t)
    BY DEF PopPending, InHand
<1>1. CASE GoTo(w, "idle") /\ UNCHANGED pending
    BY <1>1, <1>n, HandMoves, QueueSame, StayKept DEF GoTo
<1>2. CASE /\ pending # <<>> /\ pending' = Tail(pending)
           /\ worker' = [worker EXCEPT ![w] = [pc |-> "launch", item |-> Head(pending)]]
    <2>1. InHand(t) \subseteq InHand(t)'
        BY <1>2, <1>n, HandMoves
    <2>2. /\ Head(pending) = pending[1] /\ 1 \in DOMAIN pending
          /\ DOMAIN pending' = 1..(Len(pending) - 1)
          /\ \A i \in DOMAIN pending' : pending'[i] = pending[i + 1]
        BY <1>2, QueuePopped
    <2>3. Len(pending) \in Nat /\ DOMAIN pending = 1..Len(pending)
        BY QueueIs
    <2>4. ASSUME NEW j \in Queued(t) \ {1} PROVE j - 1 \in Queued(t)'
        BY <2>2, <2>3, <2>4 DEF Queued
    <2>5. CASE pending[1].task = t
        <3>1. w \in InHand(t)'
            BY <1>2, <2>2, <2>5 DEF InHand, TypeOK, WorkerOK
        <3>2. ~(Backlog(t)' < Backlog(t))
            BY <1>n, <2>1, <2>4, <3>1, TakenOut
        <3>3. QED
            BY <3>2 DEF Kept
    <2>6. CASE pending[1].task # t
        <3>1. 0 - 1 \in Int /\ \A j \in Queued(t) : j + (0 - 1) \in Queued(t)'
            <4>1. 1 \notin Queued(t) /\ Queued(t) \subseteq Int
                BY <2>3, <2>6 DEF Queued
            <4>2. QED
                BY <2>4, <4>1
        <3>2. ~(Backlog(t)' < Backlog(t))
            BY <2>1, <3>1, BothKept
        <3>3. QED
            BY <3>2 DEF Kept
    <2>7. QED
        BY <2>5, <2>6
<1>3. QED
    BY <1>1, <1>2 DEF PopPending

LEMMA RequeueKept ==
    ASSUME TypeOK, TypeOK', NEW t \in Tasks, NEW w \in Workers, RequeuePopped(w)
    PROVE  Kept(t)
<1> DEFINE item == [worker[w].item EXCEPT !.fails = @ + 1]
<1>1. CASE queueFailed' = queueFailed + 1
    BY <1>1 DEF Kept
<1>2. CASE ~Drops(item) /\ pending' = Requeued(item)
    <2>1. item \in QueuedRun /\ item.task = worker[w].item.task
        <3>1. worker[w].item \in QueuedRun
            BY DEF TypeOK, WorkerOK
        <3>2. QED
            BY <1>2, <3>1, QueueAssumption DEF Drops, QueuedRun
    <2>h. /\ InHand(t) \ {w} \subseteq InHand(t)'
          /\ w \notin InHand(t) => InHand(t) \subseteq InHand(t)'
        BY HandMoves DEF RequeuePopped, GoTo
    <2> HIDE DEF item
    <2>2. /\ DOMAIN pending' = 1..(Len(pending) + 1) /\ pending'[1] = item
          /\ \A i \in DOMAIN pending : pending'[i + 1] = pending[i]
        BY <1>2, <2>1, QueuedAtFront
    <2>3. Len(pending) \in Nat /\ DOMAIN pending = 1..Len(pending)
        BY QueueIs
    <2>4. 1 \in Int /\ \A j \in Queued(t) : j + 1 \in Queued(t)' \ {1}
        BY <2>2, <2>3 DEF Queued
    <2>5. CASE w \in InHand(t)
        <3>1. 1 \in Queued(t)'
            BY <2>1, <2>2, <2>3, <2>5 DEF Queued, InHand
        <3>2. ~(Backlog(t)' < Backlog(t))
            BY <2>h, <2>4, <3>1, PutBack
        <3>3. QED
            BY <3>2 DEF Kept
    <2>6. CASE w \notin InHand(t)
        <3>1. ~(Backlog(t)' < Backlog(t))
            BY <2>h, <2>4, <2>6, BothKept
        <3>2. QED
            BY <3>1 DEF Kept
    <2>7. QED
        BY <2>5, <2>6
<1>3. QED
    BY <1>1, <1>2 DEF RequeuePopped

LEMMA AdvanceKept ==
    ASSUME TypeOK, TypeOK', FreshUntouched, NEW t \in Tasks, NEW w \in Workers, Advance(w)
    PROVE  Kept(t)
<1>1. CASE LaunchPopped(w)
    <2> DEFINE u == worker[w].item.task
    <2>1. u \in Tasks \cup {NoTask}
        BY DEF TypeOK, WorkerOK, QueuedRun
    <2>2. CASE (LaunchQueued(u) \/ LaunchStarted(u)) /\ GoTo(w, "pop")
        BY <2>1, <2>2, LaunchKept
    <2>3. CASE /\ worker' = [worker EXCEPT ![w].pc = "refused"]
               /\ UNCHANGED pending
        <3>1. InHand(t) \subseteq InHand(t)'
            BY <2>3 DEF InHand, TypeOK, WorkerOK
        <3>2. QED
            BY <2>3, <3>1, QueueSame, StayKept
    <2>4. QED
        BY <1>1, <2>2, <2>3 DEF LaunchPopped
<1>2. QED
    BY <1>1, PopKept, RequeueKept DEF Advance

\* A deployment in which nobody clears the queue or drops a popped entry.
NobodyClears == {"remove", "batch", "cancel_queue", "disconnect", "restart"} \cap Ops = {}

\* A client that makes another call holds no entry.
LEMMA ClientKept ==
    ASSUME TypeOK, TypeOK', FreshUntouched, NobodyClears, NEW t \in Tasks,
           NEW c \in Clients, ClientStep(c)
    PROVE  Kept(t)
<1>w. c \in Workers
    BY DEF Workers
<1>n. \A x : worker[c].pc = "idle" /\ worker' = [worker EXCEPT ![c] = x]
                => InHand(t) \subseteq InHand(t)'
    BY <1>w, HandMoves DEF InHand
<1>1. ASSUME NEW u \in Tasks, LaunchRun(c, u) PROVE Kept(t)
    BY <1>1, <1>w, LaunchKept DEF LaunchRun, Calls, InHand
<1>2. ASSUME NEW u \in Tasks, RetryRun(c, u) PROVE Kept(t)
    BY <1>2, <1>n, QueueSame, StayKept DEF RetryRun, Calls
<1>3. ASSUME NEW u \in Tasks, ResumeRun(c, u) PROVE Kept(t)
    BY <1>3, HandSame, QueueSame, StayKept DEF ResumeRun
<1>4. ASSUME NEW u \in Tasks, EnqueueRun(c, u) PROVE Kept(t)
    <2>0. InHand(t) \subseteq InHand(t)'
        BY <1>4, <1>n DEF EnqueueRun, Calls, GoTo
    <2>1. nextId <= MaxIds /\ pending' = Append(pending, Ticket(u))
        BY <1>4, BoundAssumption DEF EnqueueRun, MayCreate, TypeOK
    <2>2. \A i \in Queued(t) : i + 0 \in Queued(t)'
        BY <2>1, QueueGrows
    <2>3. QED
        BY <2>0, <2>2, StayKept
<1>5. ASSUME NEW id \in Ids, ForceCancelRun(c, id) PROVE Kept(t)
    BY <1>5, <1>n, HandSame, QueueSame, StayKept DEF ForceCancelRun, Calls, GoTo
<1>6. ASSUME NEW id \in Ids, NEW p \in Perms, RespondToPermission(c, id, p) PROVE Kept(t)
    BY <1>6, HandSame, QueueSame, StayKept DEF RespondToPermission
<1>7. CASE Shutdown(c)
    BY <1>7, HandSame, QueueSame, StayKept DEF Shutdown
<1>8. CASE CheckStale(c)
    <2>1. UNCHANGED pending /\ InHand(t) \subseteq InHand(t)'
        BY <1>8, <1>n, HandSame DEF CheckStale, Calls, GoTo
    <2>2. QED
        BY <2>1, QueueSame, StayKept
<1>9. /\ ~CancelQueue(c) /\ \A u \in Tasks : ~RemoveQueued(c, u)
      /\ \A batch \in Batches : ~BatchLaunch(c, batch)
    BY DEF NobodyClears, CancelQueue, RemoveQueued, BatchLaunch, Calls
<1>10. QED
    BY <1>1, <1>2, <1>3, <1>4, <1>5, <1>6, <1>7, <1>8, <1>9 DEF ClientStep

LEMMA NextKept ==
    ASSUME NobodyClears, IInv, TypeOK', [Next]_vars, NEW t \in Tasks
    PROVE  Kept(t)
<1> TypeOK /\ FreshUntouched
    BY DEF IInv
<1>1. ASSUME NEW c \in Clients, RetryLaunch(c) PROVE Kept(t)
    <2> DEFINE u == worker[c].item.task
    <2>1. c \in Workers /\ u \in Tasks \cup {NoTask} /\ c \notin InHand(t)
        BY <1>1 DEF Workers, RetryLaunch, InHand, TypeOK, WorkerOK, QueuedRun
    <2>2. CASE LaunchQueued(u) \/ LaunchStarted(u)
        BY <1>1, <2>1, <2>2, LaunchKept DEF RetryLaunch
    <2>3. CASE UNCHANGED pending
        BY <1>1, <2>1, <2>3, HandMoves, QueueSame, StayKept DEF RetryLaunch, GoTo
    <2>4. QED
        BY <1>1, <2>2, <2>3 DEF RetryLaunch
<1>2. ASSUME NEW id \in Ids, Read(id) PROVE Kept(t)
    <2>1. UNCHANGED pending
        BY <1>2 DEF Read, ReadLate, ReadSessionStarted, ReadPermissionRequest, ReadActivity,
            ReadTerminal, ReadEnd
    <2>2. UNCHANGED worker \/ (worker[id].pc = "idle" /\ GoTo(id, "pop"))
        BY <1>2 DEF Read, ReadLate, ReadSessionStarted, ReadPermissionRequest, ReadActivity,
            ReadTerminal, ReadEnd, Receives, Reads
    <2>3. id \in Workers /\ (worker[id].pc = "idle" => id \notin InHand(t))
        BY DEF Workers, InHand
    <2>4. InHand(t) \subseteq InHand(t)'
        BY <2>2, <2>3, HandMoves, HandSame DEF GoTo
    <2>5. QED
        BY <2>1, <2>4, QueueSame, StayKept
<1>3. ASSUME NEW id \in Ids, Sidecar(id) \/ Time(id) PROVE Kept(t)
    <2>1. UNCHANGED <<pending, worker>>
        BY <1>3 DEF Sidecar, SessionInit, SessionThrows, AskPermission, HandleAnswer,
            SessionResult, SidecarExits, SidecarCrash, SidecarHangs, SidecarFrame,
            Time, GoQuiet, PermissionTimesOut
    <2>2. QED
        BY <2>1, HandSame, QueueSame, StayKept
<1>4. CASE UNCHANGED vars
    BY <1>4, HandSame, QueueSame, StayKept DEF vars
<1>5. ~DaemonRestart /\ \A c \in Clients : ~DropRequest(c)
    BY DEF NobodyClears, DaemonRestart, DropRequest, RequestDropped, LaunchCut, ResumeCut, RespondCut
<1>6. QED
    BY <1>1, <1>2, <1>3, <1>4, <1>5, ClientKept, AdvanceKept DEF Next

\* Where nobody clears the queue, no entry disappears between two critical
\* sections: it starts its run, or it is counted as failed.
THEOREM QueueSafe ==
    ASSUME {"remove", "batch", "cancel_queue", "disconnect", "restart"} \cap Ops = {}
    PROVE  Spec => QueuedRunKept
<1>1. NobodyClears
    BY DEF NobodyClears
<1> DEFINE Step == \A t \in Tasks : Backlog(t)' < Backlog(t) =>
                      \/ \E id \in active' \ active : info'[id].task = t
                      \/ queueFailed' = queueFailed + 1
<1>2. IInv /\ IInv' /\ [Next]_vars => [Step]_vars
    BY <1>1, NextKept DEF Kept, IInv
<1>3. QED
    BY <1>2, InvariantHolds, PTL DEF Spec, QueuedRunKept
=============================================================================
