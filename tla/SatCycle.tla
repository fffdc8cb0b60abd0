------------------------------ MODULE SatCycle ------------------------------
(***************************************************************************)
(* The satisfaction tests: the pipeline that generates a manifest, runs    *)
(* the scenarios, has them judged and files issues, and the verification   *)
(* that compares the run after a fix with the one before it.               *)
(*                                                                         *)
(* One workflow agent at a time calls these functions.  The files under    *)
(* sat/, the issues of the repository and the circuit breaker's state      *)
(* outlive it, and it may die between any two of its calls.  What the      *)
(* functions append to learnings.yaml is the matter of SatRecords.         *)
(***************************************************************************)
EXTENDS SatScoring

CONSTANTS
    Libraries,      \* what sat/personas and sat/scenarios may hold
    Filters,        \* the scenario filters of the calls; {} runs everything
    Runners,        \* what a runner process may do: [file, exit]
    Answers,        \* what the judge may answer: [kind, cost, score, findings]
    Thresholds,     \* what sat-thresholds.json may hold
    HubAnswers,     \* what may come of an issue: "ok", "search_error", "refused", "secret"
    Histories,      \* what the runs of earlier agents have left: [dirs, latest]
    MaxCost,        \* max_budget_usd
    MaxIterations,  \* of the circuit breaker
    MaxSeconds, MaxRuns, MaxMishaps    \* bounds of the model

ASSUME SatAssumption == /\ MaxCost \in Nat /\ MaxIterations \in Nat
                        /\ MaxSeconds \in Nat \ {0} /\ MaxRuns \in Nat

\* What a call of the judge costs, and what it says: an unsigned number.
AnswersAssumption == IsFiniteSet(Answers) /\ \A a \in Answers : a.cost \in Nat /\ a.score \in Nat

ASSUME AnswersAssumption

VARIABLES
    clock,      \* seconds: a run is named after the one it starts in
    library,    \* [personas, files]
    dirs,       \* sat/runs: a directory for each run id
    latest,     \* sat/runs/latest, 0 when there is no such link
    github,     \* the issues of the repository, oldest first, open or closed
    breaker,    \* CircuitBreakerState.cycle_iteration
    pc, job,    \* where the agent is and what it holds in memory
    returned,   \* what the last pipeline returned, until the next call
    spent       \* what the bounds count: [runs, faults]

vars == <<clock, library, dirs, latest, github, breaker, pc, job, returned, spent>>

None == "none"

\* A file that is not there.
Absent == [run |-> 0]

Runs == 1..MaxSeconds

\* A run directory; "trajectories" are the trajectory-*.json files.
NoDir == [made |-> FALSE, trajectories |-> << >>, result |-> Absent, scores |-> Absent,
          issues |-> Absent, comparison |-> Absent, report |-> Absent]

\* What the calls of a run may cost in all, the one that breaks the budget
\* included.
CostBound == MaxCost + Max({a.cost : a \in Answers} \cup {1})

\* A scores.json that score_run has written.
ScoresFile(result) ==
    /\ result.scores \in Seq(Range(result.scores))
    /\ \A i \in DOMAIN result.scores : result.scores[i].score \in Nat /\ result.scores[i].score <= 100
    /\ \E l \in Libraries : result.aggregate = AggregateScore(result.scores, l.files)

\* Earlier agents are agents of this budget that have left no link but to a
\* complete result, and no scores but those they gave.
HistoriesAssumption ==
    \A h \in Histories :
        /\ h.latest # 0 => h.latest \in Runs \cap DOMAIN h.dirs
                              /\ h.dirs[h.latest].result # Absent
        /\ \A r \in DOMAIN h.dirs : /\ DOMAIN h.dirs[r] = DOMAIN NoDir
                                    /\ h.dirs[r].scores # Absent =>
                                         /\ h.dirs[r].scores.cost < CostBound
                                         /\ ScoresFile(h.dirs[r].scores)

ASSUME HistoriesAssumption

NoRunner == [file |-> None, exit |-> None]

NoJob == [filter |-> {}, manifest |-> << >>, run |-> 0, todo |-> <<>>, done |-> <<>>,
          scores |-> <<>>, cost |-> 0, entries |-> <<>>, stages |-> <<>>, runner |-> NoRunner, alone |-> FALSE]

Stage(s, ok) == [stage |-> s, success |-> ok]

Init ==
    /\ clock = 1 /\ library \in Libraries
    /\ \E h \in Histories : dirs = [r \in Runs |-> IF r \in DOMAIN h.dirs THEN h.dirs[r] ELSE NoDir]
                            /\ latest = h.latest
    /\ github = <<>>
    /\ breaker = 1 /\ pc = "idle" /\ job = NoJob
    /\ returned = Absent /\ spent = [runs |-> 0, faults |-> 0]

\* The pipeline returns; an agent that called one function alone has no result.
Return(stages, failed, id, aggregate, created) ==
    /\ pc' = "idle" /\ job' = NoJob
    /\ returned' = IF job.alone THEN returned
               ELSE [stages |-> stages, failed |-> failed, run |-> id,
                     aggregate |-> aggregate, created |-> created]

StageFails(stage, id, aggregate) ==
    Return(Append(job.stages, Stage(stage, FALSE)), stage, id, aggregate, None)

\* A read or a write of the disk, which may fail as long as there are faults to spend.
Saved(ok) ==
    /\ ok \/ spent.faults < MaxMishaps
    /\ spent' = IF ok THEN spent ELSE [spent EXCEPT !.faults = @ + 1]

Passes(stage) == Append(job.stages, Stage(stage, TRUE))

-----------------------------------------------------------------------------
(* Stages 1 and 2: the manifest and the scenarios. *)

\* load_personas fails without the directory or a valid file; a library
\* without scenarios is a manifest, but one there is nothing to run from.  (A
\* manifest that cannot be written fails the stage as missing personas do.)  The
\* agent is taken to ask check_circuit_breaker first, as its documentation
\* has it: no other function of the repository does.
Generate(filter) ==
    /\ pc = "idle" /\ spent.runs < MaxRuns /\ ~Tripped(breaker, MaxIterations)
    /\ spent' = [spent EXCEPT !.runs = @ + 1]
    /\ IF ~library.personas THEN StageFails("generate", 0, None)
       ELSE IF DOMAIN library.files = {}
       THEN Return(Passes("generate"), "generate", 0, None, None)
       ELSE /\ pc' = "execute" /\ returned' = Absent
            /\ job' = [job EXCEPT !.filter = filter, !.stages = Passes("generate"),
                         !.manifest = [s \in DOMAIN library.files |-> Entry(library.files[s])]]
    /\ UNCHANGED <<clock, library, dirs, latest, github, breaker>>

Selected(filter) ==
    SetToSortSeq({s \in DOMAIN library.files : filter = {} \/ s \in filter}, <)

\* Mutant of LatestAfter: the link is moved when the directory is made.
LatestAtOnce(step) == IF step = "begin" THEN clock ELSE latest

\* The link is moved when the run's result is on disk.
LatestAfter(step) == IF step = "link" THEN job.run ELSE latest

\* A second is all that tells two runs apart.
BeginRun(ok) ==
    /\ pc = "execute" /\ Saved(ok)
    /\ \E made \in BOOLEAN : (ok => made) /\ dirs' = [dirs EXCEPT ![clock].made = @ \/ made]
    /\ latest' = LatestAfter("begin")
    /\ IF ~ok \/ Selected(job.filter) = <<>> THEN StageFails("execute", 0, None)
       ELSE /\ pc' = "scenario" /\ returned' = returned
            /\ job' = [job EXCEPT !.run = clock, !.todo = Selected(job.filter)]
    /\ UNCHANGED <<clock, library, github, breaker>>

StartRunner(o) ==
    /\ pc = "scenario" /\ job.todo # <<>> /\ job.runner = NoRunner
    /\ job' = [job EXCEPT !.runner = o]
    /\ UNCHANGED <<clock, library, dirs, latest, github, breaker, pc, returned, spent>>

\* Mutant of RunnerOver: only a runner that exits is over.
RunnerOverWhenExited(o) == o.exit = "ends"

\* A runner is over when it exits, or killed after 300 seconds.
RunnerOver(o) == o # NoRunner

\* What run_wdio_scenario and its caller make of a runner process: a hung
\* one is killed whatever it wrote, a scenario whose file is not named after
\* its id cannot be read back, and a trajectory file counts whoever wrote it.
RunScenario ==
    LET s == Head(job.todo)
        o == job.runner
        files == IF o.file \in {None, "garbled"} THEN dirs[job.run].trajectories
                 ELSE (s :> Trajectory(s, 1, o.file = "aborted", FALSE))
                        @@ dirs[job.run].trajectories
        read == o.exit # "hangs" /\ o.file # "garbled" /\ s \in DOMAIN library.files
                  /\ library.files[s].named /\ s \in DOMAIN files
        t == IF read THEN files[s] ELSE Trajectory(s, 0, FALSE, TRUE)
    IN /\ pc = "scenario" /\ job.todo # <<>> /\ RunnerOver(o)
       /\ dirs' = [dirs EXCEPT ![job.run].trajectories = (s :> t) @@ files]
       /\ job' = [job EXCEPT !.todo = Tail(@), !.done = Append(@, t), !.runner = NoRunner]
       /\ UNCHANGED <<clock, library, latest, github, breaker, pc, returned, spent>>

WriteRunResult(ok) ==
    /\ pc = "scenario" /\ job.todo = <<>> /\ Saved(ok)
    /\ IF ok THEN /\ dirs' = [dirs EXCEPT ![job.run].result = RunResult(job.run, job.done)]
                  /\ pc' = "link" /\ UNCHANGED <<job, returned>>
             ELSE StageFails("execute", 0, None) /\ UNCHANGED dirs
    /\ UNCHANGED <<clock, library, latest, github, breaker>>

\* The link is removed and made anew; when either fails the run goes on.
UpdateLatest(ok) ==
    /\ pc = "link" /\ pc' = "score" /\ Saved(ok)
    /\ latest' \in IF ok THEN {LatestAfter("link")} ELSE {latest, 0}
    /\ job' = [job EXCEPT !.stages = Passes("execute"), !.done = <<>>]
    /\ UNCHANGED <<clock, library, dirs, github, breaker, returned>>

-----------------------------------------------------------------------------
(* Stage 3: the judge. *)

BeginScoring(ok) ==
    /\ pc = "score" /\ Saved(ok)
    /\ IF ok THEN /\ pc' = "judge" /\ returned' = returned
                  /\ job' = [job EXCEPT !.todo = dirs[job.run].result.trajectories]
             ELSE StageFails("score", job.run, None)
    /\ UNCHANGED <<clock, library, dirs, latest, github, breaker>>

Unscorable(t) == t.status = "runner_failure" /\ t.steps = 0

\* Mutant of OverBudget: only whole runs are weighed against the budget.
OverBudgetAtStart == job.scores = <<>> /\ BudgetExceeded(job.cost, MaxCost)

\* The budget is looked at before each call.
OverBudget == BudgetExceeded(job.cost, MaxCost)

\* A call that fails costs nothing and is not made again; an answer that
\* does not parse costs what it cost.
Judge(answer) ==
    LET t == Head(job.todo)
        scored == ScoreOf(answer, t.scenario, PersonaOf(library.files, t.scenario))
    IN /\ pc = "judge" /\ job.todo # <<>>
       /\ IF Unscorable(t) THEN job' = [job EXCEPT !.todo = Tail(@)]
          ELSE IF OverBudget THEN job' = [job EXCEPT !.todo = <<>>]
          ELSE job' = [job EXCEPT !.todo = Tail(@), !.cost = @ + answer.cost,
                         !.scores = IF answer.kind = "scored" THEN Append(@, scored) ELSE @]
       /\ UNCHANGED <<clock, library, dirs, latest, github, breaker, pc, returned, spent>>

\* The stage fails with scores.json and with report.md; scores.json stays
\* when report.md cannot be written.
WriteScores(scores_ok, report_ok) ==
    LET result == ScoreResult(job.run, job.scores, library.files, job.cost)
    IN /\ pc = "judge" /\ job.todo = <<>> /\ Saved(scores_ok /\ report_ok)
       /\ dirs' = IF scores_ok THEN [dirs EXCEPT ![job.run].scores = result] ELSE dirs
       /\ IF scores_ok /\ report_ok
          THEN /\ pc' = "issues" /\ returned' = returned
               /\ job' = [job EXCEPT !.stages = Passes("score"), !.scores = <<>>, !.cost = 0]
          ELSE StageFails("score", job.run, None)
       /\ UNCHANGED <<clock, library, latest, github, breaker>>

-----------------------------------------------------------------------------
(* Stage 4: the issues. *)

\* create_issues_from_run called again for a run that has its scores.
RetryIssues(r) ==
    /\ pc = "idle" /\ dirs[r].scores # Absent /\ spent.runs < MaxRuns
    /\ spent' = [spent EXCEPT !.runs = @ + 1]
    /\ pc' = "issues"
    /\ job' = [NoJob EXCEPT !.run = r, !.alone = TRUE,
                 !.manifest = [s \in DOMAIN library.files |-> Entry(library.files[s])]]
    /\ returned' = Absent /\ UNCHANGED <<clock, library, dirs, latest, github, breaker>>

BeginIssues(th) ==
    LET config == IF th.valid THEN IssueConfig(th, job.manifest)
                  ELSE IssueConfig(DefaultThresholds, << >>)
    IN /\ pc = "issues" /\ pc' = "issue"
       /\ job' = [job EXCEPT !.todo = FindingsForIssues(dirs[job.run].scores, config)]
       /\ UNCHANGED <<clock, library, dirs, latest, github, breaker, returned, spent>>

\* issue_exists_with_fingerprint searches the open issues.
Filed(fp) == \E i \in DOMAIN github : github[i].fp = fp /\ github[i].open

Issue(fp, label, h) ==
    [fp |-> fp, labels |-> {"agent:implement", label}, open |-> TRUE, blind |-> h = "search_error"]

\* The issue of a finding and that of a regression; issue workflows take up
\* what carries agent:implement.
FindingIssue(fp, h) == Issue(fp, "sat:finding", h)
RegressionIssue(fp, h) == Issue(fp, "sat:regression", h)

\* A body that looks as if it held a secret is not sent.  Only findings are
\* looked at: the body of a regression has none of the judge's words.
Blocked(h, issue) == h = "secret" /\ "sat:finding" \in issue.labels

\* Mutant of Outcomes: the search is for the issues of earlier runs only.
OutcomesOfEarlier(h, issue) ==
    IF h # "search_error" /\ Filed(issue.fp) /\ issue.fp[3] < job.run
    THEN "skipped" ELSE IF h = "refused" \/ Blocked(h, issue) THEN "failed" ELSE "created"

\* The search, the secret check and the creation.  A search that fails does
\* not stop the creation.
Outcomes(h, issue) ==
    IF h # "search_error" /\ Filed(issue.fp) THEN "skipped"
    ELSE IF h = "refused" \/ Blocked(h, issue) THEN "failed" ELSE "created"

IssuesAfter(h, issue) ==
    IF Outcomes(h, issue) = "created" THEN Append(github, issue) ELSE github

FileIssue(h) ==
    LET f == Head(job.todo)
        fp == Fingerprint(f.scenario, ScoreIn(dirs[job.run].scores, f.scenario).persona, job.run)
        issue == FindingIssue(fp, h)
    IN /\ pc = "issue" /\ job.todo # <<>>
       /\ github' = IssuesAfter(h, issue)
       /\ job' = [job EXCEPT !.todo = Tail(@),
                    !.entries = Append(@, [fp |-> fp, outcome |-> Outcomes(h, issue)])]
       /\ UNCHANGED <<clock, library, dirs, latest, breaker, pc, returned, spent>>

WriteIssues(ok) ==
    LET created == Quantify(DOMAIN job.entries, LAMBDA i : job.entries[i].outcome = "created")
        aggregate == dirs[job.run].scores.aggregate
    IN /\ pc = "issue" /\ job.todo = <<>> /\ Saved(ok)
       /\ dirs' = IF ok THEN [dirs EXCEPT ![job.run].issues = [run |-> job.run, entries |-> job.entries]] ELSE dirs
       /\ IF ok THEN Return(Passes("create_issues"), None, job.run, aggregate, created)
                ELSE StageFails("create_issues", job.run, aggregate)
       /\ UNCHANGED <<clock, library, latest, github, breaker>>

-----------------------------------------------------------------------------
(* The verification after a merge. *)

Compare(b, r) ==
    /\ pc = "idle" /\ b < r /\ dirs[b].scores # Absent /\ dirs[r].scores # Absent
    /\ ~Tripped(breaker, MaxIterations)
    /\ pc' = "verify"
    /\ dirs' = [dirs EXCEPT ![r].comparison = Comparison(dirs[b].scores, dirs[r].scores)]
    /\ job' = [NoJob EXCEPT !.run = r, !.alone = TRUE]
    /\ returned' = Absent /\ UNCHANGED <<clock, library, latest, github, breaker, spent>>

Verify(ok) ==
    LET report == Report(dirs[job.run].comparison, 1)
    IN /\ pc = "verify" /\ Saved(ok)
       /\ dirs' = IF ok THEN [dirs EXCEPT ![job.run].report = report] ELSE dirs
       /\ IF ok THEN /\ pc' = "regress" /\ returned' = returned
                     /\ job' = [job EXCEPT !.todo = IF report.outcome = "verified" THEN <<>>
                                                    ELSE report.regressions]
                ELSE Return(<<>>, None, 0, None, None)
       /\ UNCHANGED <<clock, library, latest, github, breaker>>

\* A regression has the fingerprint of a finding of the same scenario, run
\* and persona; one whose creation fails is only logged.
FileRegression(h) ==
    LET c == Head(job.todo)
        fp == Fingerprint(c.scenario, c.persona, job.run)
    IN /\ pc = "regress" /\ job.todo # <<>>
       /\ github' = IssuesAfter(h, RegressionIssue(fp, h))
       /\ job' = [job EXCEPT !.todo = Tail(@)]
       /\ UNCHANGED <<clock, library, dirs, latest, breaker, pc, returned, spent>>

\* The cycle is over: its learning is appended to learnings.yaml, and
\* increment_cycle_state counts it.
EndCycle ==
    /\ pc = "regress" /\ job.todo = <<>>
    /\ breaker' = breaker + 1
    /\ Return(<<>>, None, 0, None, None)
    /\ UNCHANGED <<clock, library, dirs, latest, github, spent>>

-----------------------------------------------------------------------------
(* The environment. *)

\* Only BeginRun reads the clock: that it moves between two calls of the
\* agent is all there is to see.
Second ==
    /\ pc = "idle" /\ clock < MaxSeconds /\ clock' = clock + 1
    /\ UNCHANGED <<library, dirs, latest, github, breaker, pc, job, returned, spent>>

EditLibrary(l) ==
    /\ spent.faults < MaxMishaps /\ l # library /\ library' = l
    /\ spent' = [spent EXCEPT !.faults = @ + 1]
    /\ UNCHANGED <<clock, dirs, latest, github, breaker, pc, job, returned>>

\* An issue is closed, by its fix or by a user; none is reopened.
CloseIssue(i) ==
    /\ i \in DOMAIN github /\ github[i].open
    /\ github' = [github EXCEPT ![i].open = FALSE]
    /\ UNCHANGED <<clock, library, dirs, latest, breaker, pc, job, returned, spent>>

\* The agent dies; between the two calls that move the link it leaves none.
Crash ==
    /\ pc # "idle" /\ spent.faults < MaxMishaps
    /\ spent' = [spent EXCEPT !.faults = @ + 1]
    /\ pc' = "idle" /\ job' = NoJob
    /\ latest' \in IF pc = "link" THEN {latest, 0} ELSE {latest}
    /\ UNCHANGED <<clock, library, dirs, github, breaker, returned>>

Agent ==
    \/ RunScenario \/ EndCycle
    \/ \E o \in Runners : StartRunner(o)
    \/ \E a \in Answers : Judge(a)
    \/ \E ok \in BOOLEAN : BeginRun(ok) \/ WriteRunResult(ok) \/ UpdateLatest(ok)
    \/ \E ok \in BOOLEAN : BeginScoring(ok) \/ WriteIssues(ok) \/ Verify(ok)
    \/ \E s, r \in BOOLEAN : WriteScores(s, r)
    \/ \E th \in Thresholds : BeginIssues(th)
    \/ \E h \in HubAnswers : FileIssue(h) \/ FileRegression(h)

Calls ==
    \/ \E f \in Filters : Generate(f)
    \/ \E r \in Runs : RetryIssues(r)
    \/ \E b, r \in Runs : Compare(b, r)

Environment ==
    \/ Second \/ Crash
    \/ \E l \in Libraries : EditLibrary(l)
    \/ \E i \in DOMAIN github : CloseIssue(i)

Next == Agent \/ Calls \/ Environment

Spec == Init /\ [][Next]_vars

\* A call that has begun goes on: a hung runner is killed after 300 seconds.
FairSpec == Spec /\ WF_vars(Agent)
-----------------------------------------------------------------------------
(* Properties. *)

\* sat/runs/latest, by which workflows detect an outcome, names a run whose
\* result is complete, whatever fails or dies on the way (update_latest_symlink
\* is the last step of execute_run).
LatestComplete == latest # 0 => dirs[latest].result # Absent

\* While an issue is open no other of its fingerprint is filed, unless the
\* search for it fails: neither retries, crashes nor regressions of a run file
\* a finding twice (create_issues_from_run and create_regression_issues).  An
\* issue that was closed may be filed again: the search is for open ones.
OneIssuePerFingerprint ==
    \A i, j \in DOMAIN github :
        i < j /\ github[i].fp = github[j].fp /\ github[i].open => github[j].blind

\* A run costs at most the budget and one more call (score_run looks at the
\* budget before each call).
BudgetOvershoot ==
    /\ job.cost < CostBound
    /\ \A r \in Runs : dirs[r].scores # Absent => dirs[r].scores.cost < CostBound

\* The aggregate of a run lies between its lowest and its highest score,
\* whatever the weights and the rounding (aggregate_scores).
AggregateWithin ==
    \A r \in Runs : dirs[r].scores # Absent /\ dirs[r].scores.scores # <<>> =>
        LET all == {dirs[r].scores.scores[i].score : i \in DOMAIN dirs[r].scores.scores}
        IN Min(all) <= dirs[r].scores.aggregate /\ dirs[r].scores.aggregate <= Max(all)

\* No persona is worse off after a verified cycle, the rounding of the means
\* included (determine_outcome, aggregate_persona_deltas).
VerifiedPersonas ==
    [][\A r \in Runs : dirs'[r].report # dirs[r].report /\ dirs'[r].report.outcome = "verified"
         => \A p \in DOMAIN dirs[r].comparison.personas : dirs[r].comparison.personas[p] >= 0]_vars

\* Every call ends: no runner, answer, search or failing disk keeps the
\* pipeline from its result (run_wdio_scenario's timeout, score_run's skips).
PipelineEnds == pc # "idle" ~> pc = "idle"
=============================================================================
