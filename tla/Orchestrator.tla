---------------------------- MODULE Orchestrator ----------------------------
(***************************************************************************)
(* The orchestrator: it starts an agent session for every pull request     *)
(* that needs one and for every issue that asks for one, retries it, hands *)
(* its analysis to a reviewer and forgets the pull requests that close.    *)
(*                                                                         *)
(* One task handles the events of the bus one after the other ("loop");    *)
(* the pure function of an event runs in one critical section and returns  *)
(* effects, which the task then executes, taking the locks it needs for    *)
(* each.  Callers of apply_relaunch and apply_skip ("user") do the same    *)
(* beside it.  Around them: GitHub and its pollers, the retry timers, the  *)
(* agents, and the run manager as the orchestrator sees it.                *)
(***************************************************************************)
EXTENDS Naturals, Sequences, FiniteSets, Functions

CONSTANTS
    Prs, Issues,     \* pull requests and labelled issues of one repository
    Eligible,        \* states of a PR that is_pr_eligible or a workflow wants
    MaxConcurrent,   \* OrchestratorConfig.max_concurrent
    MaxRetries,      \* MAX_RETRIES
    Slots,           \* max_concurrent of the run manager
    MaxTabs,         \* bound: sessions the run manager starts
    MaxChanges,      \* bound: state changes of pull requests
    MaxQueue,        \* bound: queued runs, for those that enqueue
    BusCap,          \* bound: unread events, for all publishers but StopSession
    Ops              \* the operations and failures of this deployment

ASSUME CapacityAssumption == MaxConcurrent \in Nat \ {0} /\ Slots \in Nat \ {0}
ASSUME RetryAssumption == MaxRetries \in Nat \ {0}
ASSUME FiniteAssumption == IsFiniteSet(Prs) /\ IsFiniteSet(Issues)
ASSUME BoundsAssumption ==
    MaxTabs \in Nat /\ MaxChanges \in Nat /\ MaxQueue \in Nat /\ BusCap \in Nat

Rescore(k) == <<k, "rescore">>
Keys    == Prs \cup Issues \cup {Rescore(k) : k \in Prs}
Tabs    == 1..MaxTabs
NoTab   == 0      \* a UUID that no session has
Workers == {"loop", "user"}

\* What the orchestrator sees of a pull request: CI failing, CI passing,
\* neither, or CI passing with changes requested.
OpenState == {"failing", "passing", "pending", "contested"}
Troubled  == {"failing", "contested"}
Passing   == {"passing", "contested"}

ASSUME KeyAssumption ==
    /\ Eligible \subseteq OpenState /\ Prs \cap Issues = {}
    /\ \A k \in Prs : Rescore(k) \notin Prs \cup Issues

VARIABLES
    \* Orchestrator, behind its mutex
    claimed, completed, mergedPrs,
    running,        \* key -> [tab, attempt]
    retryQueue,     \* key -> attempt
    reviewReady,    \* key -> [attempt, stale]
    \* the tasks and the bus
    todo,           \* effects each worker has still to execute
    bus,            \* events the loop has not received
    armed, stray,   \* keys with a sleeping timer that has, or has lost, its handle
    \* files of each worktree
    analysis, runJson,
    \* the run manager
    queue, popped, live,
    tabKey,         \* the key of each session, by tab id
    \* GitHub and its pollers
    pr, polled, mergeSeen, changes

orchVars   == <<claimed, completed, mergedPrs, running, retryQueue, reviewReady>>
timerVars  == <<armed, stray>>
fileVars   == <<analysis, runJson>>
rmVars     == <<queue, popped, live, tabKey>>
githubVars == <<pr, polled, mergeSeen, changes>>
vars == <<orchVars, todo, bus, timerVars, fileVars, rmVars, githubVars>>

Nothing == [k \in {} |-> 0]

Init ==
    /\ claimed = {} /\ completed = {} /\ mergedPrs = {}
    /\ running = Nothing /\ retryQueue = Nothing /\ reviewReady = Nothing
    /\ todo = [w \in Workers |-> <<>>] /\ bus = <<>>
    /\ armed = {} /\ stray = {}
    /\ analysis = [k \in Keys |-> "none"] /\ runJson = [k \in Keys |-> NoTab]
    /\ queue = <<>> /\ popped = {} /\ live = {}
    /\ tabKey = <<>>
    /\ pr \in [Prs -> OpenState] /\ polled = [k \in Prs |-> "closed"]
    /\ mergeSeen = {} /\ changes = 0

-----------------------------------------------------------------------------
Effect(do, k) == [do |-> do, key |-> k, attempt |-> 0, tab |-> NoTab,
                  status |-> "none", batch |-> {}]
Dispatch(k, n) == [Effect("dispatch", k) EXCEPT !.attempt = n]

\* The effects that are still to be executed.
UnderWay == UNION {Range(todo[w]) : w \in Workers}

\* The orders in which a HashMap or GitHub may list the elements of S.
Orders(S) == {s \in [1..Cardinality(S) -> S] : Range(s) = S}

Put(f, k, v)    == [x \in DOMAIN f \cup {k} |-> IF x = k THEN v ELSE f[x]]
Without(f, S)   == Restrict(f, DOMAIN f \ S)
RunningCount    == Cardinality(DOMAIN running)

\* Mutant of AvailableSlots: running sessions are not counted.
AllSlots == MaxConcurrent

\* max_concurrent.saturating_sub(running.len())
AvailableSlots ==
    IF RunningCount < MaxConcurrent THEN MaxConcurrent - RunningCount ELSE 0

Free == Cardinality(live) < Slots

\* launch_run refuses a task that is active or queued.
Active(k) == \E t \in live : tabKey[t] = k
Busy(k)   == k \in Range(queue) \/ Active(k)

\* The run manager launches key k: a new tab id, saved in run.json.
StartSession(k) ==
    /\ Len(tabKey) < MaxTabs
    /\ tabKey'  = Append(tabKey, k)
    /\ live'    = live \cup {Len(tabKey')}
    /\ runJson' = [runJson EXCEPT ![k] = Len(tabKey')]

RunComplete(t, status) == [type |-> "RunComplete", tab |-> t, status |-> status]

-----------------------------------------------------------------------------
(* GitHub and the pollers                                                  *)

EnvFrame == UNCHANGED <<orchVars, todo, timerVars, fileVars, rmVars>>

PrChanges(k, s) ==
    /\ changes < MaxChanges /\ pr[k] # "merged" /\ s # pr[k]
    /\ s \in OpenState => "ci" \in Ops \/ pr[k] = "closed"
    /\ s = "closed" => "close" \in Ops
    /\ s = "merged" => "merge" \in Ops /\ pr[k] # "closed"
    /\ pr' = [pr EXCEPT ![k] = s]
    /\ changes' = changes + 1
    /\ UNCHANGED <<bus, polled, mergeSeen>> /\ EnvFrame

\* Mutant of Snapshot: merged pull requests stay on the list.
SnapshotOfAll == pr

\* A new head commit: the list differs, though the state may be the same.
Push(k) ==
    /\ "push" \in Ops /\ changes < MaxChanges
    /\ pr[k] \in OpenState /\ polled[k] = pr[k]
    /\ polled' = [polled EXCEPT ![k] = "outdated"]
    /\ changes' = changes + 1
    /\ UNCHANGED <<bus, pr, mergeSeen>> /\ EnvFrame

\* The list of open pull requests, with what the orchestrator looks at.
Snapshot == [k \in Prs |-> IF pr[k] \in OpenState THEN pr[k] ELSE "closed"]

\* pr_poller publishes a list that differs from the last one.
PollPrs ==
    /\ Len(bus) < BusCap /\ Snapshot # polled
    /\ polled' = Snapshot
    /\ bus' = Append(bus, [type |-> "PrStatusChanged", prs |-> Snapshot])
    /\ UNCHANGED <<pr, mergeSeen, changes>> /\ EnvFrame

\* issue_poller publishes the labelled issues at every tick.
PollIssues ==
    /\ "issues" \in Ops /\ Issues # {} /\ Len(bus) < BusCap
    /\ bus' = Append(bus, [type |-> "IssueDetected"])
    /\ UNCHANGED githubVars /\ EnvFrame

\* merge_poller publishes each merged pull request once.
PollMerges(k) ==
    /\ pr[k] = "merged" /\ k \notin mergeSeen /\ Len(bus) < BusCap
    /\ mergeSeen' = mergeSeen \cup {k}
    /\ bus' = Append(bus, [type |-> "PrMerged", key |-> k])
    /\ UNCHANGED <<pr, polled, changes>> /\ EnvFrame

-----------------------------------------------------------------------------
(* The run manager and the agents                                          *)

\* The status of a RunComplete; "failed" stands for "cancelled" too.
Status == {"succeeded", "failed"}

RmFrame == UNCHANGED <<orchVars, todo, timerVars, githubVars>>

\* try_advance on behalf of somebody else, in its critical sections.
RmPop ==
    /\ queue # <<>> /\ Free /\ Head(queue) \notin popped
    /\ queue'  = Tail(queue)
    /\ popped' = popped \cup {Head(queue)}
    /\ UNCHANGED <<live, tabKey, fileVars, bus>> /\ RmFrame

RmLaunch(k) ==
    /\ k \in popped /\ ~Busy(k)
    /\ popped' = popped \ {k}
    /\ IF Free
       THEN StartSession(k) /\ UNCHANGED queue
       ELSE queue' = Append(queue, k) /\ UNCHANGED <<live, tabKey, runJson>>
    /\ UNCHANGED <<analysis, bus>> /\ RmFrame

\* A launch that is refused goes back to the front, or is dropped when it
\* has failed too often.
RmRefuse(k) ==
    /\ k \in popped /\ (Busy(k) \/ "launch_failure" \in Ops)
    /\ popped' = popped \ {k}
    /\ queue' = <<k>> \o queue \/ UNCHANGED queue
    /\ UNCHANGED <<live, tabKey, fileVars, bus>> /\ RmFrame

\* A run ends by itself, or is failed or cancelled.  Where "early_end"
\* is not given, not before its dispatch has read run.json.
RunEnds(t, status) ==
    /\ t \in live /\ Len(bus) < BusCap
    /\ "early_end" \in Ops \/ \A e \in UnderWay : e.do # "load"
    /\ live' = live \ {t}
    /\ runJson' = IF status = "succeeded"
                  THEN [runJson EXCEPT ![tabKey[t]] = NoTab] ELSE runJson
    /\ bus' = Append(bus, RunComplete(t, status))
    /\ UNCHANGED <<analysis, queue, popped, tabKey>> /\ RmFrame

\* The shepherd's analysis.json: written by the first session, approved by
\* the reviewer, resolved by the session that fixes.
AgentWrites(t) ==
    LET k == tabKey[t] IN
    /\ t \in live /\ k \in Prs
    /\ \/ analysis[k] = "none"     /\ analysis' = [analysis EXCEPT ![k] = "written"]
       \/ analysis[k] = "approved" /\ analysis' = [analysis EXCEPT ![k] = "resolved"]
    /\ UNCHANGED <<runJson, rmVars, bus>> /\ RmFrame

Approve(k) ==
    /\ analysis[k] = "written"
    /\ analysis' = [analysis EXCEPT ![k] = "approved"]
    /\ UNCHANGED <<runJson, rmVars, bus>> /\ RmFrame

-----------------------------------------------------------------------------
(* The bus and the timers                                                  *)

\* The receiver lags and the oldest event is skipped.
BusLags ==
    /\ "lag" \in Ops /\ bus # <<>>
    /\ bus' = Tail(bus)
    /\ UNCHANGED <<orchVars, todo, timerVars, fileVars, rmVars, githubVars>>

TimerFires(k) ==
    /\ Len(bus) < BusCap
    /\ \/ k \in armed /\ armed' = armed \ {k} /\ UNCHANGED stray
       \/ k \in stray /\ stray' = stray \ {k} /\ UNCHANGED armed
    /\ bus' = Append(bus, [type |-> "RetryDue", key |-> k])
    /\ UNCHANGED <<orchVars, todo, fileVars, rmVars, githubVars>>

-----------------------------------------------------------------------------
(* handle_event                                                            *)

Receives(type) == todo["loop"] = <<>> /\ bus # <<>> /\ Head(bus).type = type
Consume        == bus' = Tail(bus)
Do(w, effects) == todo' = [todo EXCEPT ![w] = effects]
HandlerFrame   == UNCHANGED <<fileVars, rmVars, githubVars>>

\* apply_pr_event: the eligible pull requests nobody works on ...
Candidates(prs) ==
    {k \in Prs : prs[k] \in Eligible
        /\ k \notin claimed \cup completed \cup DOMAIN running \cup DOMAIN retryQueue}

\* ... of which as many are claimed as there are slots.
Chosen(prs) ==
    {D \in SUBSET Candidates(prs) :
        \/ Cardinality(D) = AvailableSlots
        \/ Cardinality(D) < AvailableSlots /\ D = Candidates(prs)}

\* apply_reconciliation: the keys of the repository the list does not have.
Closed(prs)       == {k \in Keys : k \in Prs => prs[k] = "closed"}
StaleRunning(prs) == DOMAIN running \cap Closed(prs)

\* Mutant of StaleRetries: only sessions are reconciled.
NoStaleRetries(prs) == {}

StaleRetries(prs) == (DOMAIN retryQueue \ StaleRunning(prs)) \cap Closed(prs)

\* A completed pull request that is in trouble is no longer completed; the
\* analysis of one that passes again is stale.
Reactivated(prs) == {k \in completed \cap Prs : prs[k] \in Troubled}
MarkStale(r, prs) ==
    [k \in DOMAIN r |-> IF k \in Prs /\ prs[k] \in Passing THEN [r[k] EXCEPT !.stale = TRUE]
                        ELSE r[k]]

\* Mutant of Stop: the tab id is not passed on.
StopNobody(do, k) == Effect(do, k)

\* StopSession followed by CleanupMetadata, or alone.
Stop(do, k) == [Effect(do, k) EXCEPT !.tab = running[k].tab]

PrStatusChanged ==
    LET prs == Head(bus).prs
        gone == StaleRunning(prs)
        dropped == StaleRetries(prs)
    IN  /\ Receives("PrStatusChanged") /\ Consume
        /\ \E D \in Chosen(prs) :
            /\ claimed' = (claimed \cup D) \ (gone \cup dropped)
            /\ \E new \in Orders(D), stops \in Orders(gone), cancels \in Orders(dropped) :
                Do("loop", [i \in DOMAIN new |-> Dispatch(new[i], 1)]
                    \o [i \in DOMAIN stops |-> Stop("stop_and_clean", stops[i])]
                    \o [i \in DOMAIN cancels |-> Effect("cancel", cancels[i])])
        /\ running'     = Without(running, gone)
        /\ retryQueue'  = Without(retryQueue, gone \cup dropped)
        /\ reviewReady' = MarkStale(Without(reviewReady, gone), prs)
        /\ completed'   = completed \ Reactivated(prs)
        /\ UNCHANGED <<mergedPrs, timerVars>> /\ HandlerFrame

\* Mutant of Found: the session is looked up by run.json, which its end deletes.
FoundOnDisk(tab) == {k \in DOMAIN running : runJson[k] = tab}

\* find_pr_key_by_tab_id
Found(tab) == {k \in DOMAIN running : running[k].tab = tab}

\* The session's end is applied in another critical section.
RunCompleted ==
    LET ev    == Head(bus)
        found == Found(ev.tab)
    IN  /\ Receives("RunComplete") /\ Consume
        /\ \/ found = {} /\ UNCHANGED todo
           \/ \E k \in found :
                Do("loop", <<[Effect("finish", k) EXCEPT !.status = ev.status]>>)
        /\ UNCHANGED <<orchVars, timerVars>> /\ HandlerFrame

\* Mutant of Deferred: the entry waits for a timer that nobody sets.
DeferredNot(k) == <<>>

Deferred(k) == <<Effect("schedule", k)>>

\* apply_retry_due: at capacity the entry stays and another timer is set.
RetryDue ==
    LET k == Head(bus).key IN
    /\ Receives("RetryDue") /\ Consume
    /\ armed' = armed \ {k}
    /\ stray' = IF k \in armed THEN stray \cup {k} ELSE stray
    /\ IF k \notin DOMAIN retryQueue
       THEN UNCHANGED <<retryQueue, todo>>
       ELSE IF AvailableSlots = 0
       THEN Do("loop", Deferred(k)) /\ UNCHANGED retryQueue
       ELSE /\ Do("loop", <<Dispatch(k, retryQueue[k])>>)
            /\ retryQueue' = Without(retryQueue, {k})
    /\ UNCHANGED <<claimed, completed, mergedPrs, running, reviewReady>> /\ HandlerFrame

\* apply_issue_event claims what is new; one effect per trigger.
IssueDetected ==
    LET new == Issues \ (claimed \cup completed) IN
    /\ Receives("IssueDetected") /\ Consume
    /\ claimed' = claimed \cup new
    /\ \E order \in Orders(new) :
        Do("loop", [i \in DOMAIN order |-> [Effect("issue", order[i]) EXCEPT !.batch = new]])
    /\ UNCHANGED <<completed, mergedPrs, running, retryQueue, reviewReady, timerVars>>
    /\ HandlerFrame

\* apply_merge_event, and the re-score session if there is such a workflow.
PrMerged ==
    LET k == Head(bus).key
        new == k \notin mergedPrs
    IN  /\ Receives("PrMerged") /\ Consume
        /\ mergedPrs'   = mergedPrs \cup {k}
        /\ running'     = IF new THEN Without(running, {k}) ELSE running
        /\ claimed'     = IF new THEN claimed \ {k} ELSE claimed
        /\ retryQueue'  = IF new THEN Without(retryQueue, {k}) ELSE retryQueue
        /\ reviewReady' = IF new THEN Without(reviewReady, {k}) ELSE reviewReady
        /\ Do("loop", IF new /\ "rescore" \in Ops THEN <<Dispatch(Rescore(k), 1)>> ELSE <<>>)
        /\ UNCHANGED <<completed, timerVars>> /\ HandlerFrame

-----------------------------------------------------------------------------
(* apply_relaunch and apply_skip                                           *)

UserCalls(op) == op \in Ops /\ todo["user"] = <<>>

\* Attempt of the entry that is relaunched.
PreviousAttempt(k) ==
    IF k \in DOMAIN retryQueue THEN retryQueue[k]
    ELSE IF k \in DOMAIN reviewReady THEN reviewReady[k].attempt ELSE 0

ApplyRelaunch(k) ==
    LET again == Dispatch(k, PreviousAttempt(k) + 1) IN
    /\ UserCalls("relaunch") /\ k \notin DOMAIN running /\ AvailableSlots > 0
    /\ retryQueue'  = Without(retryQueue, {k})
    /\ reviewReady' = Without(reviewReady, {k})
    /\ claimed'     = claimed \cup {k}
    /\ Do("user", IF k \in DOMAIN retryQueue THEN <<Effect("cancel", k), again>> ELSE <<again>>)
    /\ UNCHANGED <<completed, mergedPrs, running, bus, timerVars>> /\ HandlerFrame

ApplySkip(k) ==
    /\ UserCalls("skip")
    /\ running'     = Without(running, {k})
    /\ claimed'     = claimed \ {k}
    /\ retryQueue'  = Without(retryQueue, {k})
    /\ reviewReady' = Without(reviewReady, {k})
    /\ completed'   = completed \cup {k}
    /\ Do("user", IF k \in DOMAIN running THEN <<Stop("stop", k)>> ELSE <<>>)
    /\ UNCHANGED <<mergedPrs, bus, timerVars>> /\ HandlerFrame

-----------------------------------------------------------------------------
(* execute_effects                                                         *)

Next1(w, do)   == todo[w] # <<>> /\ Head(todo[w]).do = do
Key(w)         == Head(todo[w]).key
Done(w)        == Do(w, Tail(todo[w]))
Becomes(w, do) == Do(w, <<[Head(todo[w]) EXCEPT !.do = do]>> \o Tail(todo[w]))

\* An issue trigger: at the concurrency limit every trigger of the event is
\* unclaimed, otherwise it is dispatched like a pull request.
IssueTrigger(w) ==
    /\ Next1(w, "issue")
    /\ IF AvailableSlots = 0
       THEN claimed' = claimed \ Head(todo[w]).batch /\ Do(w, <<>>)
       ELSE Becomes(w, "dispatch") /\ UNCHANGED claimed
    /\ UNCHANGED <<completed, mergedPrs, running, retryQueue, reviewReady, bus, timerVars>>
    /\ HandlerFrame

\* Mutant of ClaimsAfterFailure: the claim is kept.
ClaimsKept(k) == claimed

ClaimsAfterFailure(k) == claimed \ {k}

\* No worktree, or no workflow: the claim goes.
DispatchFails(w) ==
    /\ Next1(w, "dispatch") /\ "dispatch_failure" \in Ops
    /\ claimed' = ClaimsAfterFailure(Key(w))
    /\ Done(w)
    /\ UNCHANGED <<completed, mergedPrs, running, retryQueue, reviewReady, bus, timerVars>>
    /\ HandlerFrame

\* enqueue_run with its queue advance.  The run starts at once if nothing is
\* in its way; it stays queued when there is no slot, behind other runs, or
\* when a launch under way takes the slot.
EnqueueRun(w) ==
    LET k == Key(w)
        direct == Free /\ queue = <<>>
    IN  /\ Next1(w, "dispatch") /\ Becomes(w, "load") /\ Len(queue) < MaxQueue
        /\ \/ direct /\ ~Busy(k) /\ StartSession(k) /\ UNCHANGED queue
           \/ /\ ~direct \/ popped # {}
              /\ queue' = Append(queue, k) /\ UNCHANGED <<live, tabKey, runJson>>
        /\ UNCHANGED <<orchVars, bus, timerVars, analysis, popped, githubVars>>

\* The advance ends at the first launch that is refused, of this run or of
\* one before it: the claim goes, the run stays in the queue.
Refused(q, i) ==
    "launch_failure" \in Ops \/ Active(q[i]) \/ \E j \in DOMAIN q \ {i} : q[j] = q[i]

EnqueueFails(w) ==
    LET waiting == Append(queue, Key(w)) IN
    /\ Next1(w, "dispatch") /\ Free /\ Len(queue) < MaxQueue
    /\ \E i \in DOMAIN waiting : Refused(waiting, i)
    /\ \/ queue' = waiting
       \/ queue # <<>> /\ queue' = Tail(waiting)
    /\ claimed' = ClaimsAfterFailure(Key(w))
    /\ Done(w)
    /\ UNCHANGED <<completed, mergedPrs, running, retryQueue, reviewReady, bus, timerVars,
                  fileVars, popped, live, tabKey, githubVars>>

\* Mutant of LoadedTab: run.json is read before it is written.
LoadedTooEarly(k) == NoTab

LoadedTab(k) == runJson[k]

\* load_run_state, with a fresh UUID where run.json is not there.
LoadTab(w) ==
    /\ Next1(w, "load")
    /\ Do(w, <<[Head(todo[w]) EXCEPT !.do = "record", !.tab = LoadedTab(Key(w))]>> \o Tail(todo[w]))
    /\ UNCHANGED <<orchVars, bus, timerVars>> /\ HandlerFrame

RecordRunning(w) ==
    /\ Next1(w, "record")
    /\ running' = Put(running, Key(w),
                     [tab |-> Head(todo[w]).tab, attempt |-> Head(todo[w]).attempt])
    /\ Done(w)
    /\ UNCHANGED <<claimed, completed, mergedPrs, retryQueue, reviewReady, bus, timerVars>>
    /\ HandlerFrame

\* The run with that tab id is cancelled, the worktree's queued ones removed.
StopSession(w) ==
    LET t == Head(todo[w]).tab IN
    /\ Next1(w, "stop") \/ Next1(w, "stop_and_clean")
    /\ IF t \in live
       THEN live' = live \ {t} /\ bus' = Append(bus, RunComplete(t, "failed"))
       ELSE UNCHANGED <<live, bus>>
    /\ LET kept == {i \in DOMAIN queue : queue[i] # Key(w)} IN
       \E f \in [1..Cardinality(kept) -> kept] :
          /\ \A i, j \in DOMAIN f : i < j => f[i] < f[j]
          /\ queue' = [i \in DOMAIN f |-> queue[f[i]]]
    /\ IF Next1(w, "stop") THEN Done(w) ELSE Becomes(w, "cleanup")
    /\ UNCHANGED <<orchVars, timerVars, fileVars, popped, tabKey, githubVars>>

CleanupMetadata(w) ==
    /\ Next1(w, "cleanup")
    /\ analysis' = [analysis EXCEPT ![Key(w)] = "none"]
    /\ Done(w)
    /\ UNCHANGED <<orchVars, bus, timerVars, runJson, rmVars, githubVars>>

ScheduleRetry(w) ==
    /\ Next1(w, "schedule")
    /\ armed' = armed \cup {Key(w)}
    /\ stray' = IF Key(w) \in armed THEN stray \cup {Key(w)} ELSE stray
    /\ Done(w)
    /\ UNCHANGED <<orchVars, bus>> /\ HandlerFrame

CancelRetry(w) ==
    /\ Next1(w, "cancel")
    /\ armed' = armed \ {Key(w)}
    /\ Done(w)
    /\ UNCHANGED <<orchVars, bus, stray>> /\ HandlerFrame

\* determine_session_outcome, and the outcome of an issue's session.
Outcome(k, status) ==
    IF k \in Issues
    THEN IF status = "success" THEN "FixCompleted" ELSE "NoOutput"
    ELSE CASE analysis[k] = "resolved" -> "FixCompleted"
           [] analysis[k] = "approved" -> "FixIncomplete"
           [] analysis[k] = "written"  -> "AnalysisWritten"
           [] OTHER -> "NoOutput"

\* Mutant of GivesUp: one attempt too many.
GivesUpLate(attempt) == attempt > MaxRetries

GivesUp(attempt) == attempt >= MaxRetries

\* apply_session_end; by now the key may have been removed.
ApplySessionEnd(w) ==
    LET k == Key(w)
        outcome == Outcome(k, Head(todo[w]).status)
        attempt == running[k].attempt
        done == outcome = "FixCompleted"
                \/ (outcome \in {"FixIncomplete", "NoOutput"} /\ GivesUp(attempt))
    IN  /\ Next1(w, "finish")
        /\ running' = Without(running, {k})
        /\ IF k \notin DOMAIN running
           THEN Done(w) /\ UNCHANGED <<claimed, completed, retryQueue, reviewReady>>
           ELSE IF outcome = "AnalysisWritten"
           THEN /\ reviewReady' = Put(reviewReady, k, [attempt |-> attempt, stale |-> FALSE])
                /\ Done(w) /\ UNCHANGED <<claimed, completed, retryQueue>>
           ELSE IF done
           THEN /\ claimed' = claimed \ {k} /\ completed' = completed \cup {k}
                /\ Done(w) /\ UNCHANGED <<retryQueue, reviewReady>>
           ELSE /\ retryQueue' = Put(retryQueue, k, attempt + 1)
                /\ Becomes(w, "schedule") /\ UNCHANGED <<claimed, completed, reviewReady>>
        /\ UNCHANGED <<mergedPrs, bus, timerVars>> /\ HandlerFrame

-----------------------------------------------------------------------------
Handle == PrStatusChanged \/ RunCompleted \/ RetryDue \/ IssueDetected \/ PrMerged

Execute(w) ==
    \/ IssueTrigger(w) \/ DispatchFails(w) \/ EnqueueRun(w) \/ EnqueueFails(w)
    \/ LoadTab(w) \/ RecordRunning(w) \/ StopSession(w) \/ CleanupMetadata(w) \/ ScheduleRetry(w)
    \/ CancelRetry(w) \/ ApplySessionEnd(w)

User == \E k \in Prs : ApplyRelaunch(k) \/ ApplySkip(k)

RunManager ==
    \/ RmPop \/ \E k \in Keys : RmLaunch(k) \/ RmRefuse(k)
    \/ \E t \in Tabs : AgentWrites(t) \/ \E status \in Status : RunEnds(t, status)
    \/ \E k \in Keys : Approve(k)

Github ==
    \/ \E k \in Prs : Push(k) \/ PollMerges(k)
    \/ \E k \in Prs, s \in OpenState \cup {"closed", "merged"} : PrChanges(k, s)
    \/ PollPrs \/ PollIssues

Next ==
    \/ Handle \/ User \/ RunManager \/ Github \/ BusLags
    \/ \E w \in Workers : Execute(w)
    \/ \E k \in Keys : TimerFires(k)

Spec == Init /\ [][Next]_vars

(* Fairness: the loop handles its events and every worker executes its     *)
(* effects; sleeping timers fire; the run manager launches what it has     *)
(* queued and its sessions end.  Nothing is assumed of GitHub, of the      *)
(* agents' analysis or of the reviewer.                                    *)
Fairness ==
    /\ WF_vars(Handle) /\ \A w \in Workers : WF_vars(Execute(w))
    /\ \A k \in Keys : WF_vars(TimerFires(k)) /\ WF_vars(RmLaunch(k))
    /\ WF_vars(RmPop)
    /\ \A t \in Tabs : WF_vars(\E status \in Status : RunEnds(t, status))

FairSpec == Spec /\ Fairness

-----------------------------------------------------------------------------
(* Properties                                                              *)

EffectKind == {"dispatch", "load", "record", "issue", "stop", "stop_and_clean", "cleanup",
               "schedule", "cancel", "finish"}
EffectType == [do : EffectKind, key : Keys, attempt : Nat, tab : Tabs \cup {NoTab},
               status : Status \cup {"none"}, batch : SUBSET Keys]
EventType ==
    [type : {"PrStatusChanged"}, prs : [Prs -> OpenState \cup {"closed"}]]
    \cup [type : {"RunComplete"}, tab : Tabs, status : Status]
    \cup [type : {"RetryDue"}, key : Keys] \cup [type : {"PrMerged"}, key : Prs]
    \cup [type : {"IssueDetected"}]

\* The type invariant.
OrchOK ==
    /\ claimed \subseteq Keys /\ completed \subseteq Keys /\ mergedPrs \subseteq Prs
    /\ DOMAIN running \subseteq Keys /\ DOMAIN retryQueue \subseteq Keys
    /\ DOMAIN reviewReady \subseteq Keys
    /\ running \in [DOMAIN running -> [tab : Tabs \cup {NoTab}, attempt : Nat]]
    /\ retryQueue \in [DOMAIN retryQueue -> Nat]
    /\ reviewReady \in [DOMAIN reviewReady -> [attempt : Nat, stale : BOOLEAN]]
TasksOK ==
    /\ todo \in [Workers -> Seq(EffectType)] /\ bus \in Seq(EventType)
    /\ armed \subseteq Keys /\ stray \subseteq Keys
RmOK ==
    /\ analysis \in [Keys -> {"none", "written", "approved", "resolved"}]
    /\ runJson \in [Keys -> Tabs \cup {NoTab}]
    /\ queue \in Seq(Keys) /\ popped \subseteq Keys
    /\ tabKey \in Seq(Keys) /\ live \subseteq DOMAIN tabKey
GithubOK ==
    /\ pr \in [Prs -> OpenState \cup {"closed", "merged"}]
    /\ polled \in [Prs -> OpenState \cup {"closed", "outdated"}]
    /\ mergeSeen \subseteq Prs /\ changes \in 0..MaxChanges
TypeOK == OrchOK /\ TasksOK /\ RmOK /\ GithubOK

\* The keys a worker is dispatching.
Dispatching == {e.key : e \in {d \in UnderWay : d.do \in {"dispatch", "load", "record"}}}

\* A pull request is claimed exactly while a dispatch of it is under way, or
\* it has a session, a scheduled retry or a review to come, and it is in one
\* of these only: no failed dispatch, late retry, closing or merge strands a
\* claim (the PR would never be worked on again) or drops one too early (it
\* would get a second session).
ClaimsExact ==
    \A k \in Prs :
        LET at == {i \in 1..4 : k \in <<Dispatching, DOMAIN running, DOMAIN retryQueue,
                                      DOMAIN reviewReady>>[i]}
        IN  IF k \in claimed THEN Cardinality(at) = 1 ELSE at = {}

\* max_concurrent bounds the sessions of pull requests and issues, those the
\* orchestrator has running and those it has still to record, whichever
\* events claimed them.  Re-score sessions come on top of it: the code records
\* them without a look at the limit.
CapacityRespected ==
    Cardinality((Dispatching \cup DOMAIN running) \cap (Prs \cup Issues)) <= MaxConcurrent

\* A retry in the queue has a timer, or the timer's event, still to come:
\* deferring one at capacity sets another timer, and no cancellation of an
\* earlier retry of the same pull request takes the new one's away.
RetryWoken ==
    \A k \in DOMAIN retryQueue :
        \/ k \in armed \cup stray
        \/ \E i \in DOMAIN bus : bus[i].type = "RetryDue" /\ bus[i].key = k
        \/ \E e \in UnderWay : e.do = "schedule" /\ e.key = k

\* The loop has handled every list of pull requests the poller published.
CaughtUp == UnderWay = {} /\ \A i \in DOMAIN bus : bus[i].type # "PrStatusChanged"
GonePrs  == {k \in Prs : polled[k] = "closed"}

\* Once the loop has handled the list that lacks it, a closed pull request
\* has no session and no retry, whatever timers and completions are late.
ClosedForgotten == CaughtUp => GonePrs \cap (DOMAIN running \cup DOMAIN retryQueue) = {}

\* Nor has it then a session in the run manager, or a run queued for one.
ClosedStopped ==
    CaughtUp => /\ \A t \in live : tabKey[t] \notin GonePrs
                /\ GonePrs \cap (Range(queue) \cup popped) = {}

\* A key the orchestrator takes for running has a session that will be
\* matched: it is alive, or its completion is on its way to the loop.  Else
\* the key would hold its slot for ever.
SessionsMatched ==
    \A k \in DOMAIN running :
        \/ running[k].tab \in live /\ tabKey[running[k].tab] = k
        \/ \E i \in DOMAIN bus : bus[i].type = "RunComplete" /\ bus[i].tab = running[k].tab
        \/ \E e \in UnderWay : e.do = "finish" /\ e.key = k

\* The end of a recorded session is not lost between the run manager and the
\* orchestrator: as long as the key is recorded with that session, the session
\* is alive, or its completion is on the bus, or the loop is applying it to this
\* key.  (A session that was over before it was recorded never had this: see
\* SessionsMatched.  A lagging receiver may skip the completion.)
Followed(k) ==
    \/ running[k].tab \in live
    \/ \E i \in DOMAIN bus : bus[i].type = "RunComplete" /\ bus[i].tab = running[k].tab
    \/ \E e \in UnderWay : e.do = "finish" /\ e.key = k
EndNoticed ==
    [][\A k \in DOMAIN running \cap DOMAIN running' :
          Followed(k) /\ running'[k] = running[k] => Followed(k)']_vars

\* The pull requests live by KeyLife.
AttemptOf(k) == (CHOOSE e \in UnderWay : e.key = k /\ e.do \in {"dispatch", "load", "record"}).attempt
prLife == [k \in Prs |->
    IF k \in Dispatching THEN [stage |-> "dispatching", attempt |-> AttemptOf(k)]
    ELSE IF k \in DOMAIN running THEN [stage |-> "running", attempt |-> running[k].attempt]
    ELSE IF k \in DOMAIN retryQueue THEN [stage |-> "retrying", attempt |-> retryQueue[k]]
    ELSE IF k \in DOMAIN reviewReady THEN [stage |-> "review", attempt |-> reviewReady[k].attempt]
    ELSE [stage |-> IF k \in completed THEN "done" ELSE "free", attempt |-> 0]]
LifeOf == INSTANCE KeyLife WITH life <- prLife
LifeSpec == LifeOf!Spec

\* A retry is eventually taken out of the queue, and a claim is eventually
\* given up or left to the reviewer.
RetryTaken == \A k \in Prs : k \in DOMAIN retryQueue ~> k \notin DOMAIN retryQueue
ClaimResolved == \A k \in Prs : k \in claimed ~> (k \notin claimed \/ k \in DOMAIN reviewReady)

-----------------------------------------------------------------------------
(* A statement of the code's comments that the code does not keep.         *)

\* "Stop sessions for merged/closed PRs": reconciliation stops no other.
StopsOnlyPrs == \A e \in UnderWay : e.do = "stop_and_clean" => e.key \in Prs
=============================================================================
