--------------------------- MODULE RunManagerProofs ---------------------------
(***************************************************************************)
(* Theorems about RunManager, for every number of tasks, clients, slots,   *)
(* ids and every set of operations.                                        *)
(***************************************************************************)
EXTENDS RunManager, FiniteSetTheorems, SequenceTheorems, TLAPS

\* The groups of variables a step leaves alone.
USE DEF mapVars, queueVars, countVars, diskVars, sidecarVars

-----------------------------------------------------------------------------
(* Types: the operators the steps are built from                           *)

LEMMA InitType == Init => TypeOK
<1> SUFFICES ASSUME Init PROVE TypeOK
    OBVIOUS
<1>1. MapOK
    BY DEF Init, MapOK, RunInfo, NoRunInfo, RunStatus
<1>2. QueueOK
    BY EmptySeq DEF Init, QueueOK
<1>6. DiskOK
    <2>1. NoRunJson \in RunJson
        BY BoundAssumption DEF RunJson, NoRunJson, RunStatus
    <2>2. QED
        BY <2>1 DEF Init, DiskOK, TaskStatus
<1>3. SidecarOK /\ ReaderOK
    BY EmptySeq DEF Init, SidecarOK, ReaderOK, AskState
<1>4. WorkerOK
    BY BoundAssumption, QueueAssumption DEF Init, WorkerOK, Idle, NoItem, QueuedRun
<1>5. QED
    BY <1>1, <1>2, <1>3, <1>4, <1>6, BoundAssumption DEF Init, TypeOK

\* A run that is inserted takes the next id and leaves well-typed records.
LEMMA InsertRunType ==
    ASSUME TypeOK, NEW t \in Tasks \cup {NoTask}, NEW resumed \in BOOLEAN,
           NEW ph \in {"booting", "hung"}, InsertRun(t, resumed, ph)
    PROVE  /\ MapOK' /\ SidecarOK' /\ nextId \in Ids /\ nextId' \in 1..(MaxIds + 1)
           /\ Json(nextId, NewRun(t, resumed)) \in RunJson
<1>1. nextId \in Ids /\ nextId \in 0..MaxIds /\ nextId' \in 1..(MaxIds + 1)
    BY BoundAssumption DEF InsertRun, TypeOK, Ids
<1>2. NewRun(t, resumed) \in RunInfo
    BY DEF NewRun, RunInfo, RunStatus, LiveStatus
<1>3. Json(nextId, NewRun(t, resumed)) \in RunJson
    BY <1>1 DEF NewRun, Json, RunJson, RunStatus, LiveStatus
<1>4. MapOK'
    BY <1>1, <1>2 DEF InsertRun, TypeOK, MapOK
<1>5. SidecarOK'
    BY <1>1 DEF InsertRun, TypeOK, SidecarOK, Alive
<1>6. QED
    BY <1>1, <1>3, <1>4, <1>5

LEMMA StartRunType ==
    ASSUME TypeOK, NEW t \in Tasks \cup {NoTask}, NEW resumed \in BOOLEAN,
           StartRun(t, resumed)
    PROVE  /\ MapOK' /\ SidecarOK' /\ ReaderOK'
           /\ runFile' \in [Tasks -> RunJson] /\ nextId' \in 1..(MaxIds + 1)
<1>1. InsertRun(t, resumed, "booting")
    BY DEF StartRun
<1>2. /\ MapOK' /\ SidecarOK' /\ nextId \in Ids /\ nextId' \in 1..(MaxIds + 1)
      /\ Json(nextId, NewRun(t, resumed)) \in RunJson
    BY <1>1, InsertRunType
<1>3. ReaderOK'
    BY <1>2 DEF StartRun, TypeOK, ReaderOK
<1>4. runFile' \in [Tasks -> RunJson]
    BY <1>2 DEF StartRun, SaveRun, TypeOK, DiskOK
<1>5. QED
    BY <1>2, <1>3, <1>4

\* ... also where its handler is dropped half way.
LEMMA StartCutType ==
    ASSUME TypeOK, NEW t \in Tasks, NEW resumed \in BOOLEAN, StartCut(t, resumed)
    PROVE  MapOK' /\ SidecarOK' /\ ReaderOK' /\ DiskOK' /\ nextId' \in 1..(MaxIds + 1)
<1>1. InsertRun(t, resumed, "hung") /\ UNCHANGED <<reader, taskStatus, runFile>>
    BY DEF StartCut
<1>2. MapOK' /\ SidecarOK' /\ nextId' \in 1..(MaxIds + 1)
    BY <1>1, InsertRunType
<1>3. QED
    BY <1>1, <1>2 DEF TypeOK, ReaderOK, DiskOK

\* A ticket is a well-typed entry, and its id is spent.
LEMMA LaunchQueuedType ==
    ASSUME TypeOK, NEW t \in Tasks \cup {NoTask}, LaunchQueued(t)
    PROVE  /\ MapOK' /\ QueueOK' /\ DiskOK' /\ SidecarOK' /\ ReaderOK'
           /\ nextId' \in 1..(MaxIds + 1)
<1>1. Ticket(t) \in QueuedRun /\ nextId' \in 1..(MaxIds + 1)
    BY BoundAssumption, QueueAssumption DEF LaunchQueued, Ticket, QueuedRun, TypeOK
<1>2. QueueOK'
    BY <1>1, AppendProperties DEF LaunchQueued, TypeOK, QueueOK
<1>3. MapOK' /\ DiskOK' /\ SidecarOK' /\ ReaderOK'
    BY DEF LaunchQueued, TypeOK, MapOK, DiskOK, SidecarOK, ReaderOK
<1>4. QED
    BY <1>1, <1>2, <1>3

LEMMA LaunchStartedType ==
    ASSUME TypeOK, NEW t \in Tasks \cup {NoTask}, LaunchStarted(t)
    PROVE  /\ MapOK' /\ QueueOK' /\ DiskOK' /\ SidecarOK' /\ ReaderOK'
           /\ nextId' \in 1..(MaxIds + 1)
<1>1. StartRun(t, FALSE)
    BY DEF LaunchStarted
<1>2. QueueOK' /\ taskStatus' \in [Tasks -> TaskStatus]
    BY DEF LaunchStarted, TypeOK, QueueOK, DiskOK
<1>3. QED
    BY <1>1, <1>2, StartRunType DEF DiskOK

\* A step of one task through try_advance or retry_run.
LEMMA GoToType ==
    ASSUME WorkerOK, NEW w \in Workers, NEW pc \in {"idle", "pop"}, GoTo(w, pc)
    PROVE  WorkerOK'
<1>1. [Idle EXCEPT !.pc = pc] \in [pc : {"idle", "pop", "launch", "refused", "retry"},
                                    item : QueuedRun]
    BY BoundAssumption, QueueAssumption DEF Idle, NoItem, QueuedRun
<1>2. QED
    BY <1>1 DEF GoTo, WorkerOK

\* Runs that end leave the map, and the files get terminal records.
LEMMA SettleType ==
    ASSUME TypeOK, NEW S \in SUBSET active, NEW freed \in SUBSET Ids,
           NEW outcome \in [S -> TerminalStatus], Settle(outcome, freed)
    PROVE  /\ active' = active \ S /\ quiet' = quiet \ S
           /\ info' \in [Ids -> RunInfo]
           /\ phase' \in [Ids -> Alive \cup {"unborn", "exited"}]
           /\ DiskOK'
<1>1. DOMAIN outcome = S /\ S \subseteq Ids
    BY DEF TypeOK, MapOK
<1>2. active' = active \ S /\ quiet' = quiet \ S
    BY <1>1 DEF Settle
<1>3. info' \in [Ids -> RunInfo]
    <2>1. info' = [id \in Ids |->
                    IF id \in S THEN [info[id] EXCEPT !.status = outcome[id]]
                    ELSE IF id \in freed THEN [info[id] EXCEPT !.status = "running"]
                    ELSE info[id]]
        BY <1>1 DEF Settle
    <2>2. \A id \in Ids : info'[id] \in RunInfo
        BY <2>1, <1>1 DEF TypeOK, MapOK, RunInfo, RunStatus, LiveStatus
    <2>3. QED
        BY <2>1, <2>2
<1>4. phase' \in [Ids -> Alive \cup {"unborn", "exited"}]
    BY <1>1 DEF Settle, TypeOK, SidecarOK
<1>5. PICK last \in LastWriters(S), saved \in LastWriters(freed) :
        /\ taskStatus' = TaskAfter(outcome, last)
        /\ runFile' = [t \in Tasks |->
                         IF t \in DOMAIN saved THEN Json(saved[t], info'[saved[t]])
                         ELSE IF t \in DOMAIN last THEN Json(last[t], info'[last[t]])
                         ELSE runFile[t]]
    BY <1>1 DEF Settle
<1>6. /\ \A t \in DOMAIN last : last[t] \in S
      /\ \A t \in DOMAIN saved : saved[t] \in Ids
    BY DEF LastWriters
<1>7. taskStatus' \in [Tasks -> TaskStatus]
    BY <1>5, <1>6 DEF TaskAfter, TaskStatus, TypeOK, DiskOK
<1>8. runFile' \in [Tasks -> RunJson]
    <2>1. \A id \in Ids : Json(id, info'[id]) \in RunJson
        BY <1>3, BoundAssumption DEF Json, RunJson, RunInfo, Ids
    <2>2. QED
        BY <1>5, <1>6, <1>1, <2>1 DEF TypeOK, DiskOK
<1>9. QED
    BY <1>2, <1>3, <1>4, <1>7, <1>8 DEF DiskOK

LEMMA EndRunsType ==
    ASSUME TypeOK, NEW S \in SUBSET active, NEW st \in TerminalStatus, EndRuns(S, st)
    PROVE  MapOK' /\ DiskOK' /\ SidecarOK'
<1> DEFINE outcome == [id \in S |-> st]
<1>1. outcome \in [S -> TerminalStatus] /\ Settle(outcome, {})
    BY DEF EndRuns
<1>2. /\ active' = active \ S /\ quiet' = quiet \ S /\ DiskOK'
      /\ info' \in [Ids -> RunInfo]
      /\ phase' \in [Ids -> Alive \cup {"unborn", "exited"}]
    BY <1>1, SettleType
<1>3. QED
    BY <1>2 DEF EndRuns, TypeOK, MapOK, SidecarOK

\* One answer of one session changes.
LEMMA AskType ==
    ASSUME asks \in [Ids -> [Perms -> AskState]],
           NEW id \in Ids, NEW p \in Perms, NEW a \in AskState
    PROVE  [asks EXCEPT ![id][p] = a] \in [Ids -> [Perms -> AskState]]
<1>1. [asks[id] EXCEPT ![p] = a] \in [Perms -> AskState]
    OBVIOUS
<1>2. QED
    BY <1>1

-----------------------------------------------------------------------------
(* Types: one step per action                                              *)

LEMMA ClientType ==
    ASSUME TypeOK, NEW c \in Clients, ClientStep(c) PROVE TypeOK'

<1>w. c \in Workers
    BY DEF Workers
<1>1. ASSUME NEW t \in Tasks, LaunchRun(c, t) PROVE TypeOK'
    <2>1. WorkerOK'
        BY <1>1 DEF LaunchRun, TypeOK, WorkerOK
    <2>2. QED
        BY <1>1, <2>1, LaunchQueuedType, LaunchStartedType DEF LaunchRun, TypeOK
<1>2. ASSUME NEW t \in Tasks, RetryRun(c, t) PROVE TypeOK'
    <2>1. [NoItem EXCEPT !.task = t] \in QueuedRun
        BY BoundAssumption, QueueAssumption DEF NoItem, QueuedRun
    <2>2. WorkerOK'
        BY <1>2, <2>1 DEF RetryRun, TypeOK, WorkerOK
    <2>3. QED
        BY <1>2, <2>2 DEF RetryRun, TypeOK, MapOK, QueueOK, DiskOK, SidecarOK, ReaderOK
<1>3. ASSUME NEW t \in Tasks, ResumeRun(c, t) PROVE TypeOK'
    <2>1. StartRun(t, TRUE) /\ QueueOK' /\ WorkerOK'
        BY <1>3 DEF ResumeRun, TypeOK, QueueOK, WorkerOK
    <2>2. taskStatus' \in [Tasks -> TaskStatus]
        BY <1>3 DEF ResumeRun, TypeOK, DiskOK, TaskStatus
    <2>3. QED
        BY <2>1, <2>2, StartRunType DEF TypeOK, DiskOK
<1>4. ASSUME NEW t \in Tasks, EnqueueRun(c, t) PROVE TypeOK'
    <2>1. Ticket(t) \in QueuedRun /\ nextId' \in 1..(MaxIds + 1)
        BY <1>4, BoundAssumption, QueueAssumption
        DEF EnqueueRun, MayCreate, Ticket, QueuedRun, TypeOK
    <2>2. QueueOK'
        BY <1>4, <2>1, AppendProperties DEF EnqueueRun, TypeOK, QueueOK
    <2>3. WorkerOK'
        BY <1>4, <1>w, GoToType DEF EnqueueRun, TypeOK
    <2>4. MapOK' /\ DiskOK' /\ SidecarOK' /\ ReaderOK'
        BY <1>4 DEF EnqueueRun, TypeOK, MapOK, DiskOK, SidecarOK, ReaderOK
    <2>5. QED
        BY <2>1, <2>2, <2>3, <2>4 DEF TypeOK
<1>5. ASSUME NEW t \in Tasks, RemoveQueued(c, t) PROVE TypeOK'
    <2> DEFINE kept == {i \in DOMAIN pending : pending[i].task # t}
               n    == Cardinality(kept)
    <2>1. PICK f \in [1..n -> kept] : pending' = [i \in 1..n |-> pending[f[i]]]
        BY <1>5 DEF RemoveQueued
    <2>5. n \in Nat
        <3>1. IsFiniteSet(DOMAIN pending)
            BY LenProperties, FS_Interval DEF TypeOK, QueueOK
        <3>2. QED
            BY <3>1, FS_Subset, FS_CardinalityType
    <2> HIDE DEF n
    <2>2. pending' \in [1..n -> QueuedRun]
        BY <2>1, LenProperties DEF TypeOK, QueueOK
    <2>3. pending' \in Seq(QueuedRun)
        BY <2>2, <2>5, SeqDef
    <2>4. QED
        BY <1>5, <2>3
        DEF RemoveQueued, TypeOK, MapOK, QueueOK, DiskOK, SidecarOK, ReaderOK, WorkerOK
<1>6. ASSUME NEW batch \in Batches, BatchLaunch(c, batch) PROVE TypeOK'
    <2>1. batch \in Seq(Tasks) /\ Len(batch) \in Nat /\ batch \in [1..Len(batch) -> Tasks]
        BY BatchAssumption, LenProperties
    <2>2. nextId' \in 1..(MaxIds + 1)
        BY <1>6, <2>1, BoundAssumption DEF BatchLaunch, TypeOK
    <2>3. pending' \in [1..Len(batch) -> QueuedRun]
        BY <1>6, <2>1, BoundAssumption, QueueAssumption DEF BatchLaunch, TypeOK, QueuedRun
    <2>7. pending' \in Seq(QueuedRun)
        <3> DEFINE n == Len(batch)
        <3>1. n \in Nat /\ pending' \in [1..n -> QueuedRun]
            BY <2>1, <2>3
        <3> HIDE DEF n
        <3>2. QED
            BY <3>1, SeqDef
    <2>8. queueCancelled' \in BOOLEAN
        BY <1>6, Zenon DEF BatchLaunch
    <2>9. \/ queueCompleted' = 0 /\ queueFailed' = 0
          \/ UNCHANGED <<queueCompleted, queueFailed>>
        BY <1>6, Zenon DEF BatchLaunch
    <2>10. queueCompleted' \in Nat /\ queueFailed' \in Nat
        BY <2>9 DEF TypeOK, QueueOK
    <2>4. QueueOK'
        BY <2>7, <2>8, <2>10 DEF QueueOK
    <2>5. WorkerOK'
        BY <1>6, <1>w, GoToType DEF BatchLaunch, TypeOK
    <2>6. QED
        BY <1>6, <2>2, <2>4, <2>5 DEF BatchLaunch, TypeOK, MapOK, DiskOK, SidecarOK, ReaderOK
<1>7. ASSUME NEW id \in Ids, ForceCancelRun(c, id) PROVE TypeOK'
    <2>1. MapOK' /\ DiskOK' /\ SidecarOK'
        BY <1>7, EndRunsType DEF ForceCancelRun, TerminalStatus
    <2>2. WorkerOK'
        BY <1>7, <1>w, GoToType DEF ForceCancelRun, TypeOK, WorkerOK
    <2>3. QED
        BY <1>7, <2>1, <2>2 DEF ForceCancelRun, TypeOK, QueueOK, ReaderOK
<1>8. ASSUME NEW id \in Ids, NEW p \in Perms, RespondToPermission(c, id, p) PROVE TypeOK'
    <2>1. MapOK' /\ runFile' \in [Tasks -> RunJson]
        <3>1. CASE phase[id] = "exited"
            BY <1>8, <3>1 DEF RespondToPermission, TypeOK, MapOK, DiskOK
        <3>2. CASE phase[id] # "exited"
            <4>1. info' \in [Ids -> RunInfo]
                BY <1>8, <3>2
                DEF RespondToPermission, TypeOK, MapOK, RunInfo, RunStatus, LiveStatus
            <4>2. Json(id, info'[id]) \in RunJson
                BY <4>1, BoundAssumption DEF Json, RunJson, RunInfo, Ids
            <4>3. QED
                BY <1>8, <3>2, <4>1, <4>2 DEF RespondToPermission, SaveRun, TypeOK, MapOK, DiskOK
        <3>3. QED
            BY <3>1, <3>2
    <2>2. SidecarOK'
        <3>1. CASE UNCHANGED asks
            BY <1>8, <3>1 DEF RespondToPermission, TypeOK, SidecarOK
        <3>2. CASE asks' = [asks EXCEPT ![id][p] = IF @ = "waiting" THEN "answered" ELSE @]
            <4>1. (IF asks[id][p] = "waiting" THEN "answered" ELSE asks[id][p]) \in AskState
                BY DEF TypeOK, SidecarOK, AskState
            <4>2. asks' \in [Ids -> [Perms -> AskState]]
                BY <3>2, <4>1, AskType DEF TypeOK, SidecarOK
            <4>3. QED
                BY <1>8, <4>2 DEF RespondToPermission, TypeOK, SidecarOK
        <3>3. QED
            BY <1>8, <3>1, <3>2 DEF RespondToPermission
    <2>3. QED
        BY <1>8, <2>1, <2>2
        DEF RespondToPermission, TypeOK, QueueOK, DiskOK, ReaderOK, WorkerOK
<1>9. ASSUME CancelQueue(c) PROVE TypeOK'
    <2>1. MapOK' /\ DiskOK' /\ SidecarOK'
        BY <1>9, EndRunsType DEF CancelQueue, TerminalStatus
    <2>2. QueueOK'
        BY <1>9, EmptySeq DEF CancelQueue, TypeOK, QueueOK
    <2>3. QED
        BY <1>9, <2>1, <2>2 DEF CancelQueue, TypeOK, ReaderOK, WorkerOK
<1>10. ASSUME Shutdown(c) PROVE TypeOK'
    <2>1. MapOK' /\ DiskOK' /\ SidecarOK'
        BY <1>10, EndRunsType DEF Shutdown, TerminalStatus
    <2>2. QED
        BY <1>10, <2>1 DEF Shutdown, TypeOK, QueueOK, ReaderOK, WorkerOK
<1>11. ASSUME CheckStale(c) PROVE TypeOK'
    <2> DEFINE stale == StaleRuns
               over  == OverBudget(active \ stale)
               rest  == active \ (stale \cup over)
               S     == stale \cup over
               outcome == [id \in S |-> IF id \in stale THEN "failed" ELSE "cancelled"]
    <2>1. /\ S \in SUBSET active /\ rest \in SUBSET active
          /\ outcome \in [S -> TerminalStatus] /\ Freed(rest) \in SUBSET Ids
        BY DEF StaleRuns, OverBudget, TerminalStatus, Freed, TypeOK, MapOK
    <2>2. Settle(outcome, Freed(rest))
        BY <1>11 DEF CheckStale
    <2>3. /\ active' = active \ S /\ quiet' = quiet \ S /\ DiskOK'
          /\ info' \in [Ids -> RunInfo]
          /\ phase' \in [Ids -> Alive \cup {"unborn", "exited"}]
        BY <2>1, <2>2, SettleType
    <2>4. MapOK'
        BY <1>11, <2>3 DEF CheckStale, TypeOK, MapOK
    <2>5. asks' = Denied(rest) /\ UNCHANGED out
        BY <1>11 DEF CheckStale
    <2>6. SidecarOK'
        BY <2>3, <2>5 DEF Denied, TypeOK, SidecarOK, AskState
    <2>7. WorkerOK'
        BY <1>11, <1>w, GoToType DEF CheckStale, TypeOK, WorkerOK
    <2>8. QED
        BY <1>11, <2>3, <2>4, <2>6, <2>7 DEF CheckStale, TypeOK, QueueOK, ReaderOK
<1>12. QED
    BY <1>1, <1>2, <1>3, <1>4, <1>5, <1>6, <1>7, <1>8, <1>9, <1>10, <1>11
   DEF ClientStep

\* try_advance and the second half of retry_run.
LEMMA RetryLaunchType ==
    ASSUME TypeOK, NEW c \in Clients, RetryLaunch(c) PROVE TypeOK'
<1> DEFINE t == worker[c].item.task
<1>1. c \in Workers /\ t \in Tasks \cup {NoTask} /\ WorkerOK /\ GoTo(c, "idle")
    BY DEF Workers, RetryLaunch, TypeOK, WorkerOK, QueuedRun
<1>2. WorkerOK'
    BY <1>1, GoToType
<1>3. CASE LaunchQueued(t)
    BY <1>1, <1>2, <1>3, LaunchQueuedType DEF TypeOK
<1>4. CASE LaunchStarted(t)
    BY <1>1, <1>2, <1>4, LaunchStartedType DEF TypeOK
<1>5. CASE UNCHANGED <<mapVars, queueVars, nextId, diskVars, sidecarVars, reader>>
    BY <1>2, <1>5 DEF TypeOK, MapOK, QueueOK, DiskOK, SidecarOK, ReaderOK
<1>6. QED
    BY <1>3, <1>4, <1>5 DEF RetryLaunch

LEMMA AdvanceType ==
    ASSUME TypeOK, NEW w \in Workers, Advance(w) PROVE TypeOK'
<1>1. ASSUME PopPending(w) PROVE TypeOK'
    <2>1. CASE GoTo(w, "idle") /\ UNCHANGED pending
        BY <1>1, <2>1, GoToType
        DEF PopPending, TypeOK, MapOK, QueueOK, DiskOK, SidecarOK, ReaderOK
    <2>2. CASE /\ pending # <<>> /\ pending' = Tail(pending)
               /\ worker' = [worker EXCEPT ![w] = [pc |-> "launch", item |-> Head(pending)]]
        <3>1. Head(pending) \in QueuedRun /\ Tail(pending) \in Seq(QueuedRun)
            BY <2>2, HeadTailProperties DEF TypeOK, QueueOK
        <3>2. WorkerOK'
            BY <2>2, <3>1 DEF TypeOK, WorkerOK
        <3>3. QED
            BY <1>1, <2>2, <3>1, <3>2
            DEF PopPending, TypeOK, MapOK, QueueOK, DiskOK, SidecarOK, ReaderOK
    <2>3. QED
        BY <1>1, <2>1, <2>2 DEF PopPending
<1>2. ASSUME LaunchPopped(w) PROVE TypeOK'
    <2> DEFINE t == worker[w].item.task
    <2>1. t \in Tasks \cup {NoTask} /\ WorkerOK
        BY DEF TypeOK, WorkerOK, QueuedRun
    <2>2. CASE LaunchQueued(t) /\ GoTo(w, "pop")
        BY <2>1, <2>2, LaunchQueuedType, GoToType DEF TypeOK
    <2>3. CASE LaunchStarted(t) /\ GoTo(w, "pop")
        BY <2>1, <2>3, LaunchStartedType, GoToType DEF TypeOK
    <2>4. CASE /\ worker' = [worker EXCEPT ![w].pc = "refused"]
               /\ UNCHANGED <<mapVars, queueVars, nextId, diskVars, sidecarVars, reader>>
        BY <2>4 DEF TypeOK, MapOK, QueueOK, DiskOK, SidecarOK, ReaderOK, WorkerOK
    <2>5. QED
        BY <1>2, <2>2, <2>3, <2>4 DEF LaunchPopped
<1>3. ASSUME RequeuePopped(w) PROVE TypeOK'
    <2> DEFINE item == [worker[w].item EXCEPT !.fails = @ + 1]
    <2>1. WorkerOK'
        BY <1>3, GoToType DEF RequeuePopped, TypeOK
    <2>2. CASE Drops(item)
        BY <1>3, <2>1, <2>2
        DEF RequeuePopped, TypeOK, MapOK, QueueOK, DiskOK, SidecarOK, ReaderOK
    <2>3. CASE ~Drops(item)
        <3>1. item \in QueuedRun
            BY <2>3, QueueAssumption DEF Drops, TypeOK, WorkerOK, QueuedRun
        <3>2. <<item>> \in Seq(QueuedRun) /\ pending \in Seq(QueuedRun)
            BY <3>1 DEF TypeOK, QueueOK
        <3>3. pending' \in Seq(QueuedRun)
            BY <1>3, <2>3, <3>2, ConcatProperties DEF RequeuePopped, Requeued
        <3>4. QED
            BY <1>3, <2>1, <2>3, <3>3
            DEF RequeuePopped, TypeOK, MapOK, QueueOK, DiskOK, SidecarOK, ReaderOK
    <2>4. QED
        BY <2>2, <2>3
<1>4. QED
    BY <1>1, <1>2, <1>3 DEF Advance

\* A run that is only taken off the list of quiet runs, or put on it.
LEMMA QuietType ==
    ASSUME TypeOK, quiet' \subseteq active,
           UNCHANGED <<active, info, perms, expired, queueVars, nextId, diskVars,
                       sidecarVars, reader, worker>>
    PROVE  TypeOK'
BY DEF TypeOK, MapOK, QueueOK, DiskOK, SidecarOK, ReaderOK, WorkerOK

LEMMA ConsumeType ==
    ASSUME SidecarOK, NEW id \in Ids, out[id] # <<>>, Consume(id)
    PROVE  out' \in [Ids -> Seq(Message)] /\ Head(out[id]) \in Message
<1>1. out[id] \in Seq(Message)
    BY DEF SidecarOK
<1>2. Head(out[id]) \in Message /\ Tail(out[id]) \in Seq(Message)
    BY <1>1, HeadTailProperties
<1>3. QED
    BY <1>2 DEF Consume, SidecarOK

LEMMA ReadType ==
    ASSUME TypeOK, NEW id \in Ids, Read(id) PROVE TypeOK'
<1>w. id \in Workers
    BY DEF Workers
<1>1. ASSUME ReadLate(id) PROVE TypeOK'
    <2>1. out' \in [Ids -> Seq(Message)]
        BY <1>1, ConsumeType DEF ReadLate, Receives, TypeOK
    <2>2. QED
        BY <1>1, <2>1
        DEF ReadLate, TypeOK, MapOK, QueueOK, DiskOK, SidecarOK, ReaderOK, WorkerOK
<1>2. ASSUME ReadSessionStarted(id) PROVE TypeOK'
    <2>1. out' \in [Ids -> Seq(Message)]
        BY <1>2, ConsumeType DEF ReadSessionStarted, Receives, TypeOK
    <2>2. info' \in [Ids -> RunInfo]
        BY <1>2 DEF ReadSessionStarted, TypeOK, MapOK, RunInfo, RunStatus, LiveStatus
    <2>3. Json(id, info'[id]) \in RunJson
        BY <2>2, BoundAssumption DEF Json, RunJson, RunInfo, Ids
    <2>4. DiskOK'
        BY <1>2, <2>3 DEF ReadSessionStarted, SaveRun, TypeOK, DiskOK, TaskStatus
    <2>5. QED
        BY <1>2, <2>1, <2>2, <2>4
        DEF ReadSessionStarted, TypeOK, MapOK, QueueOK, SidecarOK, ReaderOK, WorkerOK
<1>3. ASSUME ReadPermissionRequest(id) PROVE TypeOK'
    <2>1. out' \in [Ids -> Seq(Message)] /\ Head(out[id]) \in Message
        BY <1>3, ConsumeType DEF ReadPermissionRequest, Receives, TypeOK
    <2>2. info' \in [Ids -> RunInfo]
        BY <1>3 DEF ReadPermissionRequest, TypeOK, MapOK, RunInfo, RunStatus, LiveStatus
    <2>3. Json(id, info'[id]) \in RunJson
        BY <2>2, BoundAssumption DEF Json, RunJson, RunInfo, Ids
    <2>4. DiskOK'
        BY <1>3, <2>3 DEF ReadPermissionRequest, SaveRun, TypeOK, DiskOK
    <2>7. Head(out[id]).perm \in Perms
        BY <1>3, <2>1 DEF ReadPermissionRequest, Receives, Message
    <2>5. perms' \in [Ids -> SUBSET Perms]
        BY <1>3, <2>7 DEF ReadPermissionRequest, Asked, TypeOK, MapOK
    <2>6. QED
        BY <1>3, <2>1, <2>2, <2>4, <2>5
        DEF ReadPermissionRequest, TypeOK, MapOK, QueueOK, SidecarOK, ReaderOK, WorkerOK
<1>4. ASSUME ReadActivity(id) PROVE TypeOK'
    BY <1>4, QuietType DEF ReadActivity, TypeOK, MapOK
<1>5. ASSUME ReadTerminal(id) PROVE TypeOK'
    <2> DEFINE complete == Head(out[id]).type = "run_complete"
    <2>1. out' \in [Ids -> Seq(Message)] /\ Head(out[id]) \in Message
        BY <1>5, ConsumeType DEF ReadTerminal, Receives, TypeOK
    <2>2. SidecarOK'
        BY <1>5, <2>1 DEF ReadTerminal, TypeOK, SidecarOK
    <2>3. MapOK' /\ DiskOK'
        <3>1. CASE Known(id)
            <4>1. info' \in [Ids -> RunInfo]
                <5> DEFINE st == IF complete THEN "succeeded" ELSE "failed"
                           r  == [info[id] EXCEPT !.status = st, !.over = Head(out[id]).over]
                <5>1. info' = [info EXCEPT ![id] = r]
                    BY <1>5, <3>1 DEF ReadTerminal, TypeOK, MapOK, RunInfo
                <5>2. Head(out[id]).over \in BOOLEAN /\ st \in TerminalStatus
                    BY <2>1 DEF Message, TerminalStatus
                <5>3. info[id] \in RunInfo
                    BY DEF TypeOK, MapOK
                <5> HIDE DEF st
                <5>4. r \in RunInfo
                    BY <5>2, <5>3 DEF RunInfo, RunStatus
                <5>5. QED
                    BY <5>1, <5>4 DEF TypeOK, MapOK
            <4>2. Json(id, info'[id]) \in RunJson
                BY <4>1, BoundAssumption DEF Json, RunJson, RunInfo, Ids
            <4>3. NoRunJson \in RunJson
                BY BoundAssumption DEF RunJson, NoRunJson, RunStatus
            <4>4. DiskOK'
                BY <1>5, <3>1, <4>2, <4>3
                DEF ReadTerminal, SaveRun, TypeOK, DiskOK, TaskStatus, TerminalStatus
            <4>5. QED
                BY <1>5, <3>1, <4>1, <4>4 DEF ReadTerminal, TypeOK, MapOK
        <3>2. CASE ~Known(id)
            BY <1>5, <3>2 DEF ReadTerminal, TypeOK, MapOK, DiskOK
        <3>3. QED
            BY <3>1, <3>2
    <2>4. QueueOK'
        BY <1>5 DEF ReadTerminal, TypeOK, QueueOK
    <2>5. WorkerOK'
        BY <1>5, <1>w, GoToType DEF ReadTerminal, TypeOK, WorkerOK
    <2>6. QED
        BY <1>5, <2>2, <2>3, <2>4, <2>5 DEF ReadTerminal, TypeOK, ReaderOK
<1>6. ASSUME ReadEnd(id) PROVE TypeOK'
    <2>1. LeftToEnd(id) \in SUBSET active
        BY DEF LeftToEnd
    <2>2. MapOK' /\ DiskOK' /\ SidecarOK'
        BY <1>6, <2>1, EndRunsType DEF ReadEnd, TerminalStatus
    <2>3. WorkerOK'
        BY <1>6, <1>w, GoToType DEF ReadEnd, TypeOK, WorkerOK
    <2>4. QueueOK' /\ ReaderOK'
        BY <1>6 DEF ReadEnd, TypeOK, QueueOK, ReaderOK
    <2>5. QED
        BY <1>6, <2>2, <2>3, <2>4 DEF ReadEnd, TypeOK
<1>7. QED
    BY <1>1, <1>2, <1>3, <1>4, <1>5, <1>6 DEF Read

\* A sidecar changes its phase, its stdout and its requests, nothing else.
LEMMA SidecarFrameType ==
    ASSUME TypeOK, SidecarOK', SidecarFrame PROVE TypeOK'
BY DEF SidecarFrame, TypeOK, MapOK, QueueOK, DiskOK, ReaderOK, WorkerOK

LEMMA WriteType ==
    ASSUME SidecarOK, NEW id \in Ids,
           NEW type, NEW perm, NEW over, Write(id, type, perm, over),
           [type |-> type, perm |-> perm, over |-> over] \in Message
    PROVE  out' \in [Ids -> Seq(Message)]
<1> DEFINE m == [type |-> type, perm |-> perm, over |-> over]
<1>1. out[id] \in Seq(Message)
    BY DEF SidecarOK
<1>2. Append(out[id], m) \in Seq(Message)
    BY <1>1, AppendProperties
<1>3. QED
    BY <1>2 DEF Write, SidecarOK

LEMMA ResetType ==
    ASSUME SidecarOK, NEW id \in Ids, ResetRunState(id)
    PROVE  asks' \in [Ids -> [Perms -> AskState]]
BY DEF ResetRunState, SidecarOK, AskState

LEMMA SidecarType ==
    ASSUME TypeOK, NEW id \in Ids, Sidecar(id) PROVE TypeOK'
<1> SidecarOK
    BY DEF TypeOK
<1>1. CASE SessionInit(id)
    <2>1. out' \in [Ids -> Seq(Message)]
        BY <1>1, WriteType DEF SessionInit, Message
    <2>2. QED
        BY <1>1, <2>1, SidecarFrameType DEF SessionInit, SidecarOK, Alive
<1>2. CASE SessionThrows(id)
    <2>1. out' \in [Ids -> Seq(Message)] /\ asks' \in [Ids -> [Perms -> AskState]]
        BY <1>2, WriteType, ResetType DEF SessionThrows, Message
    <2>2. QED
        BY <1>2, <2>1, SidecarFrameType DEF SessionThrows, SidecarOK, Alive
<1>3. ASSUME NEW p \in Perms, AskPermission(id, p) PROVE TypeOK'
    <2>1. out' \in [Ids -> Seq(Message)]
        BY <1>3, WriteType DEF AskPermission, Message
    <2>2. "waiting" \in AskState
        BY DEF AskState
    <2>3. asks' \in [Ids -> [Perms -> AskState]]
        BY <1>3, <2>2, AskType DEF AskPermission, SidecarOK
    <2>4. QED
        BY <1>3, <2>1, <2>3, SidecarFrameType DEF AskPermission, SidecarOK
<1>4. ASSUME NEW p \in Perms, HandleAnswer(id, p) PROVE TypeOK'
    <2>1. "resolved" \in AskState
        BY DEF AskState
    <2>2. asks' \in [Ids -> [Perms -> AskState]]
        BY <1>4, <2>1, AskType DEF HandleAnswer, SidecarOK
    <2>3. QED
        BY <1>4, <2>2, SidecarFrameType DEF HandleAnswer, SidecarOK
<1>5. ASSUME NEW over \in Costs, SessionResult(id, over) PROVE TypeOK'
    <2>1. over \in BOOLEAN
        BY CostAssumption
    <2>2. out' \in [Ids -> Seq(Message)] /\ asks' \in [Ids -> [Perms -> AskState]]
        BY <1>5, <2>1, WriteType, ResetType DEF SessionResult, Message
    <2>3. QED
        BY <1>5, <2>2, SidecarFrameType DEF SessionResult, SidecarOK, Alive
<1>6. CASE SidecarExits(id) \/ SidecarCrash(id)
    BY <1>6, SidecarFrameType DEF SidecarExits, SidecarCrash, SidecarOK
<1>7. CASE SidecarHangs(id)
    BY <1>7, SidecarFrameType DEF SidecarHangs, SidecarOK, Alive
<1>8. QED
    BY <1>1, <1>2, <1>3, <1>4, <1>5, <1>6, <1>7 DEF Sidecar

LEMMA TimeType ==
    ASSUME TypeOK, NEW id \in Ids, Time(id) PROVE TypeOK'
<1>1. CASE GoQuiet(id)
    BY <1>1, QuietType DEF GoQuiet, TypeOK, MapOK
<1>2. ASSUME NEW p \in Perms, PermissionTimesOut(id, p) PROVE TypeOK'
    BY <1>2 DEF PermissionTimesOut, TypeOK, MapOK, QueueOK, DiskOK, SidecarOK, ReaderOK, WorkerOK
<1>3. QED
    BY <1>1, <1>2 DEF Time

LEMMA RestartType == TypeOK /\ DaemonRestart => TypeOK'
<1> SUFFICES ASSUME TypeOK, DaemonRestart PROVE TypeOK'
    OBVIOUS
<1>1. MapOK' /\ DiskOK' /\ ReaderOK'
    BY DEF DaemonRestart, TypeOK, MapOK, DiskOK, ReaderOK
<1>2. QueueOK'
    BY EmptySeq DEF DaemonRestart, QueueOK
<1>3. SidecarOK'
    BY EmptySeq DEF DaemonRestart, TypeOK, SidecarOK
<1>4. WorkerOK'
    BY BoundAssumption, QueueAssumption DEF DaemonRestart, WorkerOK, Idle, NoItem, QueuedRun
<1>5. QED
    BY <1>1, <1>2, <1>3, <1>4 DEF DaemonRestart, TypeOK

LEMMA DroppedType ==
    ASSUME TypeOK, NEW c \in Clients, DropRequest(c) PROVE TypeOK'
<1>w. c \in Workers /\ WorkerOK
    BY DEF Workers, TypeOK
<1>1. CASE RequestDropped(c)
    <2>1. WorkerOK'
        BY <1>1, <1>w, GoToType DEF RequestDropped
    <2>2. QED
        BY <1>1, <2>1 DEF RequestDropped, TypeOK, MapOK, QueueOK, DiskOK, SidecarOK, ReaderOK
<1>2. ASSUME NEW t \in Tasks, LaunchCut(c, t) PROVE TypeOK'
    <2>1. StartCut(t, FALSE) /\ GoTo(c, "idle") /\ UNCHANGED queueVars
        BY <1>2 DEF LaunchCut
    <2>2. WorkerOK'
        BY <2>1, <1>w, GoToType
    <2>3. QueueOK'
        BY <2>1 DEF TypeOK, QueueOK
    <2>4. MapOK' /\ SidecarOK' /\ ReaderOK' /\ DiskOK' /\ nextId' \in 1..(MaxIds + 1)
        BY <2>1, StartCutType
    <2>5. QED
        BY <2>2, <2>3, <2>4 DEF TypeOK
<1>3. ASSUME NEW t \in Tasks, ResumeCut(c, t) PROVE TypeOK'
    <2>1. StartCut(t, TRUE) /\ UNCHANGED <<queueVars, worker>>
        BY <1>3 DEF ResumeCut
    <2>2. QueueOK' /\ WorkerOK'
        BY <2>1 DEF TypeOK, QueueOK, WorkerOK
    <2>3. MapOK' /\ SidecarOK' /\ ReaderOK' /\ DiskOK' /\ nextId' \in 1..(MaxIds + 1)
        BY <2>1, StartCutType
    <2>4. QED
        BY <2>2, <2>3 DEF TypeOK
<1>4. ASSUME NEW id \in Ids, NEW p \in Perms, RespondCut(c, id, p) PROVE TypeOK'
    <2>1. MapOK' /\ SidecarOK'
        BY <1>4 DEF RespondCut, TypeOK, MapOK, SidecarOK, AskState
    <2>2. QED
        BY <1>4, <2>1 DEF RespondCut, TypeOK, QueueOK, DiskOK, ReaderOK, WorkerOK
<1>5. QED
    BY <1>1, <1>2, <1>3, <1>4 DEF DropRequest

LEMMA NextType == TypeOK /\ [Next]_vars => TypeOK'
<1> SUFFICES ASSUME TypeOK, [Next]_vars PROVE TypeOK'
    OBVIOUS
<1>1. CASE Next
    BY <1>1, ClientType, RetryLaunchType, DroppedType, AdvanceType, ReadType, SidecarType, TimeType, RestartType
    DEF Next
<1>2. CASE UNCHANGED vars
    BY <1>2 DEF vars, TypeOK, MapOK, QueueOK, DiskOK, SidecarOK, ReaderOK, WorkerOK
<1>3. QED
    BY <1>1, <1>2

\* Whatever the operations, the numbers and the interleaving, the variables
\* keep their types.
THEOREM TypeCorrect == Spec => []TypeOK
BY InitType, NextType, PTL DEF Spec

-----------------------------------------------------------------------------
(* The three kinds of steps.  Seen from the pool, every action of every    *)
(* process starts one run, ends a set of runs (often an empty one), or     *)
(* loses them all.                                                         *)

StartStep(t) ==
    /\ nextId \in Ids /\ nextId' = nextId + 1
    /\ SlotFree(active)
    /\ active' = active \cup {nextId}
    /\ \E resumed \in BOOLEAN : info' = [info EXCEPT ![nextId] = NewRun(t, resumed)]
    /\ \/ reader' = [reader EXCEPT ![nextId] = "open"]
       \/ reader' = reader /\ "disconnect" \in Ops
    /\ "resume" \notin Ops => \A id \in active : info[id].task # t

EndStep(S) ==
    /\ active' = active \ S
    /\ nextId' \in Nat /\ nextId' >= nextId
    /\ \A id \in Ids :
        /\ info'[id].task = info[id].task
        /\ id \in S => info'[id].status \in TerminalStatus
        /\ id \in active' => info'[id].status \in LiveStatus /\ reader'[id] = reader[id]
        /\ id \notin active => info'[id] = info[id]
        /\ \/ reader'[id] = reader[id]
           \/ reader[id] = "open" /\ reader'[id] = "closed"

LoseStep ==
    /\ active' = {}
    /\ UNCHANGED <<info, nextId>>
    /\ \A id \in Ids : reader'[id] = IF reader[id] = "open" THEN "closed" ELSE reader[id]

Kinds == \/ \E t \in Tasks \cup {NoTask} : StartStep(t)
         \/ \E S \in SUBSET active : EndStep(S)
         \/ LoseStep

\* A step that leaves the map, the readers and the ids alone ends no run.
LEMMA StutterKind ==
    ASSUME IInv, UNCHANGED <<active, info, reader, nextId>> PROVE EndStep({})
BY BoundAssumption DEF BoundAssumption, IInv, TypeOK, ActiveLive, EndStep, MapOK

LEMMA StartRunKind ==
    ASSUME IInv, NEW t \in Tasks \cup {NoTask}, NEW resumed \in BOOLEAN,
           StartRun(t, resumed) \/ (StartCut(t, resumed) /\ "disconnect" \in Ops),
           SlotFree(active),
           "resume" \notin Ops => \A id \in active : info[id].task # t
    PROVE  StartStep(t)
<1>1. nextId \in Ids
    BY BoundAssumption DEF BoundAssumption, StartRun, StartCut, InsertRun, IInv, TypeOK, Ids
<1>2. QED
    BY <1>1 DEF StartRun, StartCut, InsertRun, StartStep

LEMMA LaunchKind ==
    ASSUME IInv, NEW t \in Tasks \cup {NoTask}, LaunchQueued(t) \/ LaunchStarted(t)
    PROVE  Kinds
<1>1. CASE LaunchQueued(t)
    <2>1. EndStep({})
        BY <1>1, BoundAssumption
        DEF BoundAssumption, LaunchQueued, EndStep, IInv, TypeOK, MapOK, ActiveLive
    <2>2. QED
        BY <2>1 DEF Kinds
<1>2. CASE LaunchStarted(t)
    <2>1. StartRun(t, FALSE) /\ SlotFree(active) /\ ~TaskBusy(t)
        BY <1>2 DEF LaunchStarted
    <2>2. StartStep(t)
        BY <2>1, StartRunKind DEF TaskBusy
    <2>3. QED
        BY <2>2 DEF Kinds
<1>3. QED
    BY <1>1, <1>2

LEMMA SettleKind ==
    ASSUME IInv, NEW S \in SUBSET active, NEW freed \in SUBSET active,
           NEW outcome \in [S -> TerminalStatus], Settle(outcome, freed),
           UNCHANGED nextId,
           \A id \in Ids : \/ reader'[id] = reader[id]
                           \/ reader[id] = "open" /\ reader'[id] = "closed" /\ id \notin active \ S
    PROVE  EndStep(S)
<1>1. DOMAIN outcome = S /\ S \subseteq Ids
    BY DEF IInv, TypeOK, MapOK
<1>2. active' = active \ S
    BY <1>1 DEF Settle
<1>3. info' = [id \in Ids |->
                IF id \in S THEN [info[id] EXCEPT !.status = outcome[id]]
                ELSE IF id \in freed THEN [info[id] EXCEPT !.status = "running"]
                ELSE info[id]]
    BY <1>1 DEF Settle
<1>4. ASSUME NEW id \in Ids
      PROVE  /\ info'[id].task = info[id].task
             /\ id \in S => info'[id].status \in TerminalStatus
             /\ id \in active' => info'[id].status \in LiveStatus /\ reader'[id] = reader[id]
             /\ id \notin active => info'[id] = info[id]
    <2>1. info[id] \in RunInfo
        BY DEF IInv, TypeOK, MapOK
    <2>2. QED
        BY <1>2, <1>3, <2>1 DEF IInv, ActiveLive, RunInfo, LiveStatus
<1>5. nextId' \in Nat /\ nextId' >= nextId
    BY BoundAssumption DEF BoundAssumption, IInv, TypeOK
<1>6. QED
    BY <1>2, <1>4, <1>5 DEF EndStep

LEMMA EndRunsKind ==
    ASSUME IInv, NEW S \in SUBSET active, NEW st \in TerminalStatus, EndRuns(S, st),
           UNCHANGED <<reader, nextId>>
    PROVE  EndStep(S)
<1>1. [id \in S |-> st] \in [S -> TerminalStatus] /\ Settle([id \in S |-> st], {})
    BY DEF EndRuns
<1>2. QED
    BY <1>1, SettleKind

LEMMA ClientKind ==
    ASSUME IInv, NEW c \in Clients, ClientStep(c) PROVE Kinds
<1>1. CASE \E t \in Tasks : LaunchRun(c, t)
    BY <1>1, LaunchKind DEF LaunchRun
<1>2. CASE \E t \in Tasks : RetryRun(c, t) \/ RemoveQueued(c, t)
    BY <1>2, StutterKind DEF RetryRun, RemoveQueued, Kinds
<1>3. ASSUME NEW t \in Tasks, ResumeRun(c, t) PROVE Kinds
    <2>1. /\ StartRun(t, TRUE) /\ SlotFree(active) /\ "resume" \in Ops
          /\ "resume" \notin Ops => \A id \in active : info[id].task # t
        BY <1>3 DEF ResumeRun, Calls
    <2>2. StartStep(t)
        BY <2>1, StartRunKind
    <2>3. QED
        BY <2>2 DEF Kinds
<1>4. ASSUME NEW t \in Tasks, EnqueueRun(c, t) PROVE Kinds
    <2>1. EndStep({})
        BY <1>4, BoundAssumption
        DEF BoundAssumption, EnqueueRun, EndStep, IInv, TypeOK, MapOK, ActiveLive
    <2>2. QED
        BY <2>1 DEF Kinds
<1>5. ASSUME NEW batch \in Batches, BatchLaunch(c, batch) PROVE Kinds
    <2>1. Len(batch) \in Nat
        BY BatchAssumption, LenProperties
    <2>2. EndStep({})
        BY <1>5, <2>1, BoundAssumption
        DEF BoundAssumption, BatchLaunch, EndStep, IInv, TypeOK, MapOK, ActiveLive
    <2>3. QED
        BY <2>2 DEF Kinds
<1>6. ASSUME NEW id \in Ids, ForceCancelRun(c, id) PROVE Kinds
    <2>1. {id} \in SUBSET active /\ EndRuns({id}, "cancelled") /\ UNCHANGED <<reader, nextId>>
        BY <1>6 DEF ForceCancelRun
    <2>2. QED
        BY <2>1, EndRunsKind DEF Kinds, TerminalStatus
<1>7. ASSUME NEW id \in Ids, NEW p \in Perms, RespondToPermission(c, id, p) PROVE Kinds
    <2>1. \/ UNCHANGED info
          \/ id \in active /\ info' = [info EXCEPT ![id].status = "running"]
        BY <1>7 DEF RespondToPermission
    <2>2. EndStep({})
        BY <1>7, <2>1, BoundAssumption
        DEF BoundAssumption, RespondToPermission, EndStep, IInv, TypeOK, MapOK, ActiveLive,
            RunInfo, LiveStatus
    <2>3. QED
        BY <2>2 DEF Kinds
<1>8. CASE CancelQueue(c)
    BY <1>8, EndRunsKind DEF CancelQueue, Kinds, TerminalStatus
<1>9. CASE Shutdown(c)
    BY <1>9, EndRunsKind DEF Shutdown, Kinds, TerminalStatus
<1>10. CASE CheckStale(c)
    <2> DEFINE stale == StaleRuns
               over  == OverBudget(active \ stale)
               rest  == active \ (stale \cup over)
               S     == stale \cup over
               outcome == [id \in S |-> IF id \in stale THEN "failed" ELSE "cancelled"]
    <2>1. /\ S \in SUBSET active /\ Freed(rest) \in SUBSET active
          /\ outcome \in [S -> TerminalStatus]
        BY DEF StaleRuns, OverBudget, TerminalStatus, Freed
    <2>2. Settle(outcome, Freed(rest)) /\ UNCHANGED <<nextId, reader>>
        BY <1>10 DEF CheckStale
    <2>3. EndStep(S)
        BY <2>1, <2>2, SettleKind
    <2>4. QED
        BY <2>1, <2>3 DEF Kinds
<1>11. QED
    BY <1>1, <1>2, <1>3, <1>4, <1>5, <1>6, <1>7, <1>8, <1>9, <1>10 DEF ClientStep

LEMMA WorkKind ==
    /\ \A c \in Clients : IInv /\ RetryLaunch(c) => Kinds
    /\ \A w \in Workers : IInv /\ Advance(w) => Kinds
    /\ \A c \in Clients : IInv /\ DropRequest(c) => Kinds
<1>1. ASSUME IInv, NEW c \in Clients, RetryLaunch(c) PROVE Kinds
    <2>1. worker[c].item.task \in Tasks \cup {NoTask}
        BY <1>1 DEF IInv, TypeOK, WorkerOK, Workers, QueuedRun
    <2>2. QED
        BY <1>1, <2>1, LaunchKind, StutterKind DEF RetryLaunch, Kinds
<1>2. ASSUME IInv, NEW w \in Workers, Advance(w) PROVE Kinds
    <2>1. worker[w].item.task \in Tasks \cup {NoTask}
        BY <1>2 DEF IInv, TypeOK, WorkerOK, QueuedRun
    <2>2. CASE PopPending(w) \/ RequeuePopped(w)
        BY <1>2, <2>2, StutterKind DEF PopPending, RequeuePopped, Kinds
    <2>3. CASE LaunchPopped(w)
        BY <1>2, <2>1, <2>3, LaunchKind, StutterKind DEF LaunchPopped, Kinds
    <2>4. QED
        BY <1>2, <2>2, <2>3 DEF Advance
<1>3. ASSUME IInv, NEW c \in Clients, DropRequest(c) PROVE Kinds
    <2>1. CASE RequestDropped(c) \/ \E id \in Ids, p \in Perms : RespondCut(c, id, p)
        BY <1>3, <2>1, StutterKind DEF RequestDropped, RespondCut, Kinds
    <2>2. ASSUME NEW t \in Tasks, LaunchCut(c, t) PROVE Kinds
        <3>1. /\ StartCut(t, FALSE) /\ "disconnect" \in Ops
              /\ SlotFree(active) /\ \A id \in active : info[id].task # t
            BY <2>2 DEF LaunchCut, TaskBusy
        <3>2. StartStep(t)
            BY <1>3, <3>1, StartRunKind
        <3>3. QED
            BY <3>2 DEF Kinds
    <2>3. ASSUME NEW t \in Tasks, ResumeCut(c, t) PROVE Kinds
        <3>1. /\ StartCut(t, TRUE) /\ "disconnect" \in Ops
              /\ SlotFree(active) /\ "resume" \in Ops
            BY <2>3 DEF ResumeCut, Calls
        <3>2. StartStep(t)
            BY <1>3, <3>1, StartRunKind
        <3>3. QED
            BY <3>2 DEF Kinds
    <2>4. QED
        BY <1>3, <2>1, <2>2, <2>3 DEF DropRequest
<1>4. QED
    BY <1>1, <1>2, <1>3

LEMMA ReadKind ==
    ASSUME IInv, NEW id \in Ids, Read(id) PROVE Kinds
<1>1. CASE ReadLate(id) \/ ReadActivity(id)
    BY <1>1, StutterKind DEF ReadLate, ReadActivity, Kinds
<1>2. CASE ReadSessionStarted(id) \/ ReadPermissionRequest(id)
    <2>1. /\ id \in active /\ UNCHANGED <<active, reader, nextId>>
          /\ \/ info' = [info EXCEPT ![id].status = "running", ![id].session = TRUE]
             \/ info' = [info EXCEPT ![id].status = "blocked"]
        BY <1>2 DEF ReadSessionStarted, ReadPermissionRequest
    <2>2. EndStep({})
        BY <2>1, BoundAssumption
        DEF BoundAssumption, EndStep, IInv, TypeOK, MapOK, ActiveLive, RunInfo, LiveStatus
    <2>3. QED
        BY <2>2 DEF Kinds
<1>3. CASE ReadTerminal(id)
    <2>1. CASE Known(id)
        <3> DEFINE st == IF Head(out[id]).type = "run_complete" THEN "succeeded" ELSE "failed"
        <3>1. /\ id \in active /\ active' = active \ {id} /\ UNCHANGED <<reader, nextId>>
              /\ info' = [info EXCEPT ![id].status = st, ![id].over = Head(out[id]).over]
            BY <1>3, <2>1, Zenon DEF ReadTerminal, Known
        <3>2. st \in TerminalStatus
            BY DEF TerminalStatus
        <3> HIDE DEF st
        <3>3. EndStep({id})
            BY <3>1, <3>2, BoundAssumption
            DEF BoundAssumption, EndStep, IInv, TypeOK, MapOK, ActiveLive, RunInfo
        <3>4. QED
            BY <3>1, <3>3 DEF Kinds
    <2>2. CASE ~Known(id)
        BY <1>3, <2>2, StutterKind DEF ReadTerminal, Kinds
    <2>3. QED
        BY <2>1, <2>2
<1>4. CASE ReadEnd(id)
    <2> DEFINE S == LeftToEnd(id)
               outcome == [i \in S |-> "failed"]
    <2>1. S \in SUBSET active /\ (id \in active => id \in S)
        BY DEF LeftToEnd
    <2>2. outcome \in [S -> TerminalStatus] /\ Settle(outcome, {}) /\ UNCHANGED nextId
        BY <1>4 DEF ReadEnd, EndRuns, TerminalStatus
    <2>3. reader[id] = "open" /\ reader' = [reader EXCEPT ![id] = "closed"]
        BY <1>4 DEF ReadEnd, Reads
    <2>4. \A i \in Ids : \/ reader'[i] = reader[i]
                         \/ reader[i] = "open" /\ reader'[i] = "closed" /\ i \notin active \ S
        BY <2>1, <2>3 DEF IInv, TypeOK, ReaderOK
    <2>5. EndStep(S)
        BY <2>1, <2>2, <2>4, SettleKind
    <2>6. QED
        BY <2>1, <2>5 DEF Kinds
<1>5. QED
    BY <1>1, <1>2, <1>3, <1>4 DEF Read

LEMMA NextKind == IInv /\ [Next]_vars => Kinds
<1>1. ASSUME IInv, NEW id \in Ids, Sidecar(id) \/ Time(id) PROVE Kinds
    <2>1. UNCHANGED <<active, info, reader, nextId>>
        BY <1>1 DEF Sidecar, SessionInit, SessionThrows, AskPermission, HandleAnswer,
            SessionResult, SidecarExits, SidecarCrash, SidecarHangs, SidecarFrame,
            Time, GoQuiet, PermissionTimesOut
    <2>2. QED
        BY <1>1, <2>1, StutterKind DEF Kinds
<1>2. ASSUME IInv, DaemonRestart PROVE Kinds
    BY <1>2 DEF DaemonRestart, LoseStep, Kinds
<1>3. ASSUME IInv, UNCHANGED vars PROVE Kinds
    BY <1>3, StutterKind DEF vars, Kinds
<1>4. QED
    BY <1>1, <1>2, <1>3, ClientKind, WorkKind, ReadKind DEF Next

-----------------------------------------------------------------------------
(* The inductive invariant                                                 *)

\* The map is finite, so that counting it means something.
LEMMA ActiveFinite ==
    ASSUME TypeOK PROVE IsFiniteSet(active) /\ Cardinality(active) \in Nat
<1>1. IsFiniteSet(Ids)
    BY BoundAssumption, FS_Interval DEF BoundAssumption, Ids
<1>2. QED
    BY <1>1, FS_Subset, FS_CardinalityType DEF TypeOK, MapOK

LEMMA InitInv == Init => IInv
<1> SUFFICES ASSUME Init PROVE IInv
    OBVIOUS
<1>1. CapacityRespected
    BY FS_EmptySet, SlotAssumption DEF Init, CapacityRespected, SlotAssumption
<1>2. ActiveLive /\ FreshUntouched
    BY DEF Init, ActiveLive, FreshUntouched
<1>3. QED
    BY <1>1, <1>2, InitType DEF IInv

LEMMA StepInv == IInv /\ [Next]_vars => IInv'
<1> SUFFICES ASSUME IInv, [Next]_vars PROVE IInv'
    OBVIOUS
<1> USE DEF IInv
<1>1. TypeOK'
    BY NextType
<1>2. ASSUME NEW t \in Tasks \cup {NoTask}, StartStep(t)
      PROVE  CapacityRespected' /\ ActiveLive' /\ FreshUntouched'
    <2>1. /\ Cardinality(active) \in Nat
          /\ Cardinality(active \cup {nextId}) = Cardinality(active)
             \/ Cardinality(active \cup {nextId}) = Cardinality(active) + 1
        BY ActiveFinite, FS_AddElement
    <2>2. CapacityRespected'
        BY <1>2, <2>1, SlotAssumption
        DEF SlotAssumption, StartStep, SlotFree, CapacityRespected
    <2>3. ActiveLive'
        BY <1>2 DEF StartStep, NewRun, ActiveLive, TypeOK, MapOK, LiveStatus
    <2>4. FreshUntouched'
        <3>1. \A id \in Ids : id >= nextId + 1 => id # nextId /\ id >= nextId
            BY <1>2 DEF StartStep, Ids
        <3>2. \A id \in Ids : id # nextId =>
                 (id \in active' => id \in active) /\ info'[id] = info[id] /\ reader'[id] = reader[id]
            BY <1>2 DEF StartStep, TypeOK, MapOK, ReaderOK
        <3>3. QED
            BY <1>2, <3>1, <3>2 DEF StartStep, FreshUntouched
    <2>5. QED
        BY <2>2, <2>3, <2>4
<1>3. ASSUME NEW S \in SUBSET active, EndStep(S)
      PROVE  CapacityRespected' /\ ActiveLive' /\ FreshUntouched'
    <2>1. Cardinality(active \ S) <= Cardinality(active)
          /\ Cardinality(active \ S) \in Nat
        BY ActiveFinite, FS_Subset, FS_CardinalityType
    <2>2. CapacityRespected'
        BY <1>3, <2>1, ActiveFinite, SlotAssumption
        DEF SlotAssumption, EndStep, CapacityRespected
    <2>3. ActiveLive'
        BY <1>3 DEF EndStep, ActiveLive, TypeOK, MapOK
    <2>4. FreshUntouched'
        BY <1>3, BoundAssumption
        DEF BoundAssumption, EndStep, FreshUntouched, TypeOK, MapOK, Ids
    <2>5. QED
        BY <2>2, <2>3, <2>4
<1>4. ASSUME LoseStep
      PROVE  CapacityRespected' /\ ActiveLive' /\ FreshUntouched'
    BY <1>4, FS_EmptySet, SlotAssumption
    DEF SlotAssumption, LoseStep, CapacityRespected, ActiveLive, FreshUntouched
<1>5. QED
    BY <1>1, <1>2, <1>3, <1>4, NextKind DEF Kinds

THEOREM InvariantHolds == Spec => []IInv
BY InitInv, StepInv, PTL DEF Spec

\* No interleaving of launches, resumes, readers and queue advances exceeds
\* max_concurrent.
THEOREM CapacitySafe == Spec => []CapacityRespected
<1>1. IInv => CapacityRespected
    BY DEF IInv
<1>2. QED
    BY <1>1, InvariantHolds, PTL

\* Where no request is dropped, an active run always has a reader that will
\* take it out of the map.
THEOREM NoOrphanSafe == "disconnect" \notin Ops => (Spec => []NoOrphanRun)
<1> SUFFICES ASSUME "disconnect" \notin Ops PROVE Spec => []NoOrphanRun
    OBVIOUS
<1>1. Init => NoOrphanRun
    BY DEF Init, NoOrphanRun
<1>2. IInv /\ NoOrphanRun /\ [Next]_vars => NoOrphanRun'
    <2> SUFFICES ASSUME IInv, NoOrphanRun, [Next]_vars PROVE NoOrphanRun'
        OBVIOUS
    <2>1. ActiveLive'
        BY StepInv DEF IInv
    <2>2. ASSUME NEW t \in Tasks \cup {NoTask}, StartStep(t) PROVE NoOrphanRun'
        BY <2>1, <2>2 DEF StartStep, NoOrphanRun, ActiveLive, IInv, TypeOK, MapOK, ReaderOK
    <2>3. ASSUME NEW S \in SUBSET active, EndStep(S) PROVE NoOrphanRun'
        BY <2>1, <2>3 DEF EndStep, NoOrphanRun, ActiveLive, IInv, TypeOK, MapOK
    <2>4. ASSUME LoseStep PROVE NoOrphanRun'
        BY <2>4 DEF LoseStep, NoOrphanRun
    <2>5. QED
        BY <2>2, <2>3, <2>4, NextKind DEF Kinds
<1>3. QED
    BY <1>1, <1>2, InvariantHolds, PTL DEF Spec

-----------------------------------------------------------------------------
(* One run per worktree, where no run is resumed                           *)

LEMMA StepOneRun ==
    "resume" \notin Ops => (IInv /\ OneRunPerTask /\ [Next]_vars => OneRunPerTask')
<1> SUFFICES ASSUME "resume" \notin Ops, IInv, OneRunPerTask, [Next]_vars
             PROVE  OneRunPerTask'
    OBVIOUS
<1>1. ASSUME NEW t \in Tasks \cup {NoTask}, StartStep(t) PROVE OneRunPerTask'
    <2>1. /\ \A id \in active : info[id].task # t /\ info'[id].task = info[id].task
          /\ info'[nextId].task = t
          /\ active' = active \cup {nextId}
        BY <1>1 DEF StartStep, NewRun, IInv, TypeOK, MapOK, FreshUntouched
    <2>2. QED
        BY <2>1 DEF OneRunPerTask
<1>2. ASSUME NEW S \in SUBSET active, EndStep(S) PROVE OneRunPerTask'
    BY <1>2 DEF EndStep, OneRunPerTask, IInv, TypeOK, MapOK
<1>3. ASSUME LoseStep PROVE OneRunPerTask'
    BY <1>3 DEF LoseStep, OneRunPerTask
<1>4. QED
    BY <1>1, <1>2, <1>3, NextKind DEF Kinds

\* In a deployment that never calls resume_run, launch_run's duplicate check
\* keeps every worktree to one active run, queue and retries included.
THEOREM OneRunSafe == "resume" \notin Ops => (Spec => []OneRunPerTask)
<1> SUFFICES ASSUME "resume" \notin Ops PROVE Spec => []OneRunPerTask
    OBVIOUS
<1>1. Init => OneRunPerTask
    BY DEF Init, OneRunPerTask
<1>2. IInv /\ OneRunPerTask /\ [Next]_vars => OneRunPerTask'
    BY StepOneRun
<1>3. QED
    BY <1>1, <1>2, InvariantHolds, PTL DEF Spec

-----------------------------------------------------------------------------
(* RunManager implements RunPool                                           *)

LEMMA StartMaps ==
    ASSUME IInv, NEW t \in Tasks \cup {NoTask}, StartStep(t)
    PROVE  Pool!Next
<1>1. nextId \in Ids /\ poolRun[nextId] = "free"
    BY DEF StartStep, IInv, TypeOK, FreshUntouched, poolRun, NoRunInfo, TerminalStatus, Ids
<1>2. Pool!ActiveRuns = active
    BY DEF Pool!ActiveRuns, poolRun, IInv, TypeOK, MapOK, TerminalStatus
<1>3. poolRun' = [poolRun EXCEPT ![nextId] = "active"]
    BY <1>1 DEF StartStep, poolRun, IInv, TypeOK, MapOK, ReaderOK
<1>4. Pool!Cardinality(active) = Cardinality(active)
    BY DEF Pool!Cardinality, Cardinality
<1>5. QED
    BY <1>1, <1>2, <1>3, <1>4 DEF StartStep, SlotFree, Pool!Next, Pool!Start

LEMMA EndMaps ==
    ASSUME IInv, NEW S \in SUBSET active, EndStep(S)
    PROVE  Pool!Next
<1> DEFINE outcome == [id \in S |-> info'[id].status]
<1>1. S \in SUBSET Ids /\ S \subseteq Pool!ActiveRuns
    BY DEF Pool!ActiveRuns, poolRun, IInv, TypeOK, MapOK
<1>2. outcome \in [S -> Pool!Outcomes]
    BY <1>1 DEF EndStep, Pool!Outcomes, TerminalStatus
<1>3. poolRun' = [id \in Ids |-> IF id \in S THEN outcome[id] ELSE poolRun[id]]
    BY <1>1 DEF EndStep, poolRun, IInv, TypeOK, MapOK
<1>4. QED
    BY <1>1, <1>2, <1>3 DEF Pool!Next, Pool!End

LEMMA LoseMaps ==
    ASSUME IInv, LoseStep PROVE Pool!Next
<1>1. poolRun' = [id \in Ids |-> IF poolRun[id] = "active" THEN "lost" ELSE poolRun[id]]
    BY DEF LoseStep, poolRun, IInv, TypeOK, MapOK, ReaderOK, ActiveLive, LiveStatus, TerminalStatus
<1>2. QED
    BY <1>1 DEF Pool!Next, Pool!LoseAll

\* Every run is started at most once and into a free slot, ends once, and
\* keeps its outcome, whatever arrives late.
THEOREM PoolRefined == Spec => PoolSpec
<1>1. Init => Pool!Init
    BY DEF Init, Pool!Init, poolRun, NoRunInfo, TerminalStatus
<1>2. IInv /\ [Next]_vars => [Pool!Next]_poolRun
    BY NextKind, StartMaps, EndMaps, LoseMaps DEF Kinds
<1>3. QED
    BY <1>1, <1>2, InvariantHolds, PTL DEF Spec, PoolSpec, Pool!Spec

=============================================================================
