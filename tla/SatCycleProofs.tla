---------------------------- MODULE SatCycleProofs ----------------------------
(***************************************************************************)
(* Theorems about SatCycle, for every library, every behaviour of runners, *)
(* judge and GitHub, every history and every value of the limits.          *)
(***************************************************************************)
EXTENDS SatCycle, DataLemmas, SequenceTheorems

-----------------------------------------------------------------------------
(* One issue per fingerprint                                               *)

IssueLabels == {{"agent:implement", "sat:finding"}, {"agent:implement", "sat:regression"}}

IssueRecord(F) == [fp : F, labels : IssueLabels, open : BOOLEAN, blind : BOOLEAN]

\* The issues are a sequence.
GithubList == \E F : github \in Seq(IssueRecord(F))

IssuesInv == GithubList /\ OneIssuePerFingerprint

\* An issue is created only if the search found none of its fingerprint or
\* failed, and the issue says so.
LEMMA IssuesKept ==
    ASSUME NEW h, NEW fp, NEW issue \in IssueRecord({fp}), issue.blind = (h = "search_error"),
           IssuesInv, github' = IssuesAfter(h, issue)
    PROVE  IssuesInv'
<1>1. CASE Outcomes(h, issue) # "created"
    <2>1. github' = github
        BY <1>1 DEF IssuesAfter
    <2>2. QED
        BY <2>1 DEF IssuesInv, GithubList, OneIssuePerFingerprint
<1>2. CASE Outcomes(h, issue) = "created"
    <2>1. PICK F : github \in Seq(IssueRecord(F))
        BY DEF IssuesInv, GithubList
    <2> DEFINE G == F \cup {fp}
               T == IssueRecord(G)
    <2>0. IssueRecord(F) \subseteq T /\ issue \in T
        BY DEF IssueRecord
    <2>2. github \in Seq(T) /\ issue \in T
        BY <2>0, <2>1, SeqMonotonic
    <2>3. github' = Append(github, issue)
        BY <1>2 DEF IssuesAfter
    <2> HIDE DEF T
    <2>4. /\ github' \in Seq(T) /\ Len(github) \in Nat
          /\ DOMAIN github = 1..Len(github) /\ DOMAIN github' = 1..Len(github) + 1
          /\ \A i \in 1..Len(github) : github'[i] = github[i]
          /\ github'[Len(github) + 1] = issue
        BY <2>2, <2>3, AppendProperties, LenProperties
    <2>5. issue.blind \/ \A i \in DOMAIN github : github[i].fp = issue.fp => ~github[i].open
        BY <1>2 DEF Outcomes, Filed
    <2>6. ASSUME NEW i \in DOMAIN github', NEW j \in DOMAIN github',
                 i < j, github'[i].fp = github'[j].fp, github'[i].open
          PROVE  github'[j].blind
        <3>1. i \in 1..Len(github)
            BY <2>4, <2>6
        <3>2. CASE j \in 1..Len(github)
            BY <2>4, <2>6, <3>1, <3>2 DEF IssuesInv, OneIssuePerFingerprint
        <3>3. CASE j = Len(github) + 1
            BY <2>4, <2>5, <2>6, <3>1, <3>3
        <3>4. QED
            BY <2>4, <3>2, <3>3
    <2>7. GithubList'
        BY <2>4 DEF GithubList, T
    <2>8. QED
        BY <2>6, <2>7 DEF IssuesInv, OneIssuePerFingerprint
<1>3. QED
    BY <1>1, <1>2

\* An issue that closes keeps its fingerprint, and how it was filed.
LEMMA ClosedKept ==
    ASSUME NEW n \in DOMAIN github, CloseIssue(n), IssuesInv
    PROVE  IssuesInv'
<1>1. PICK F : github \in Seq(IssueRecord(F))
    BY DEF IssuesInv, GithubList
<1>2. github' = [github EXCEPT ![n] = [github[n] EXCEPT !.open = FALSE]]
    BY DEF CloseIssue
<1>3. github[n] \in IssueRecord(F) /\ DOMAIN github = 1..Len(github)
    BY <1>1, ElementOfSeq, LenProperties
<1>4. [github[n] EXCEPT !.open = FALSE] \in IssueRecord(F)
    BY <1>3 DEF IssueRecord
<1>5. github' \in Seq(IssueRecord(F))
    BY <1>1, <1>2, <1>3, <1>4, ExceptSeq
<1>6. /\ DOMAIN github' = DOMAIN github
      /\ \A i \in DOMAIN github :
            /\ github'[i].fp = github[i].fp
            /\ github'[i].blind = github[i].blind
            /\ github'[i].open => github[i].open
    BY <1>2, <1>3 DEF IssueRecord
<1>7. GithubList'
    BY <1>5 DEF GithubList
<1>8. OneIssuePerFingerprint'
    <2>1. SUFFICES ASSUME NEW i \in DOMAIN github', NEW j \in DOMAIN github',
                          i < j, github'[i].fp = github'[j].fp, github'[i].open
                   PROVE  github'[j].blind
        BY DEF OneIssuePerFingerprint
    <2>2. /\ i \in DOMAIN github /\ j \in DOMAIN github
          /\ github[i].fp = github[j].fp /\ github[i].open
        BY <1>6, <2>1
    <2>3. github[j].blind
        BY <2>1, <2>2 DEF IssuesInv, OneIssuePerFingerprint
    <2>4. QED
        BY <1>6, <2>2, <2>3
<1>9. QED
    BY <1>7, <1>8 DEF IssuesInv

\* Only three actions touch the issues.
LEMMA IssuesStep == IssuesInv /\ [Next]_vars => IssuesInv'
<1> SUFFICES ASSUME IssuesInv, [Next]_vars PROVE IssuesInv'
    OBVIOUS
<1>1. ASSUME NEW h \in HubAnswers, FileIssue(h) PROVE IssuesInv'
    <2>1. PICK fp : github' = IssuesAfter(h, FindingIssue(fp, h))
        BY <1>1 DEF FileIssue
    <2>2. /\ FindingIssue(fp, h) \in IssueRecord({fp})
          /\ FindingIssue(fp, h).blind = (h = "search_error")
        BY DEF FindingIssue, Issue, IssueRecord, IssueLabels
    <2>3. QED
        BY <2>1, <2>2, IssuesKept
<1>2. ASSUME NEW h \in HubAnswers, FileRegression(h) PROVE IssuesInv'
    <2>1. PICK fp : github' = IssuesAfter(h, RegressionIssue(fp, h))
        BY <1>2 DEF FileRegression
    <2>2. /\ RegressionIssue(fp, h) \in IssueRecord({fp})
          /\ RegressionIssue(fp, h).blind = (h = "search_error")
        BY DEF RegressionIssue, Issue, IssueRecord, IssueLabels
    <2>3. QED
        BY <2>1, <2>2, IssuesKept
<1>3. CASE UNCHANGED github
    BY <1>3 DEF IssuesInv, GithubList, OneIssuePerFingerprint
<1>4. ASSUME Agent, ~UNCHANGED github
      PROVE  \E h \in HubAnswers : FileIssue(h) \/ FileRegression(h)
    BY <1>4 DEF Agent, BeginRun, RunScenario, UpdateLatest, BeginScoring, EndCycle, StartRunner,
                Judge, WriteRunResult, WriteIssues, Verify, WriteScores, BeginIssues
<1>5. CASE Calls
    BY <1>3, <1>5 DEF Calls, Generate, RetryIssues, Compare
<1>6. CASE Environment
    BY <1>3, <1>6, ClosedKept DEF Environment, Second, Crash, EditLibrary
<1>7. CASE UNCHANGED vars
    BY <1>3, <1>7 DEF vars
<1>8. QED
    BY <1>1, <1>2, <1>3, <1>4, <1>5, <1>6, <1>7 DEF Next

\* Whatever is retried, closed, dies or is verified, an issue is filed beside
\* an open one of its fingerprint only if the search for it failed.
THEOREM OneIssue == Spec => []OneIssuePerFingerprint
<1>1. Init => IssuesInv
    <2>1. SUFFICES ASSUME Init PROVE IssuesInv
        OBVIOUS
    <2>2. github \in Seq(IssueRecord({})) /\ DOMAIN github = {}
        BY <2>1, EmptySeq DEF Init
    <2>3. QED
        BY <2>2 DEF IssuesInv, GithubList, OneIssuePerFingerprint
<1>2. IssuesInv => OneIssuePerFingerprint
    BY DEF IssuesInv
<1>3. QED
    BY <1>1, <1>2, IssuesStep, PTL DEF Spec

-----------------------------------------------------------------------------
(* The link to the latest run                                              *)

\* The fields of a run directory and of what the agent holds, and the run it
\* is about.
ShapeInv ==
    /\ clock \in Runs
    /\ DOMAIN dirs = Runs /\ \A r \in Runs : DOMAIN dirs[r] = DOMAIN NoDir
    /\ DOMAIN job = DOMAIN NoJob
    /\ pc \in {"scenario", "link", "score", "judge"} => job.run \in Runs

\* The link is moved to a run whose result has been written.
LatestInv ==
    /\ pc = "link" => dirs[job.run].result # Absent
    /\ latest # 0 => latest \in Runs /\ dirs[latest].result # Absent

LEMMA Fields == /\ DOMAIN NoDir = {"made", "trajectories", "result", "scores", "issues",
                                   "comparison", "report"}
                /\ DOMAIN NoJob = {"filter", "manifest", "run", "todo", "done", "scores", "cost",
                                   "entries", "stages", "runner", "alone"}
                /\ NoJob.run = 0 /\ NoJob.cost = 0 /\ NoJob.scores = <<>>
                /\ NoDir.result = Absent /\ NoDir.scores = Absent
BY DEF NoDir, NoJob

\* A result has more fields than the file that is not there.
LEMMA ResultThere == ASSUME NEW id, NEW trajs PROVE RunResult(id, trajs) # Absent
<1>1. "total" \in DOMAIN RunResult(id, trajs)
    BY DEF RunResult
<1>2. "total" \notin DOMAIN Absent
    BY DEF Absent
<1>3. QED
    BY <1>1, <1>2

LEMMA InitShape == Init => ShapeInv /\ LatestInv
<1> SUFFICES ASSUME Init PROVE ShapeInv /\ LatestInv
    OBVIOUS
<1>1. PICK h \in Histories :
          /\ dirs = [r \in Runs |-> IF r \in DOMAIN h.dirs THEN h.dirs[r] ELSE NoDir]
          /\ latest = h.latest
    BY DEF Init
<1>2. ShapeInv
    BY <1>1, SatAssumption, HistoriesAssumption DEF Init, ShapeInv, HistoriesAssumption, Runs
<1>3. LatestInv
    BY <1>1, HistoriesAssumption DEF Init, LatestInv, HistoriesAssumption
<1>4. QED
    BY <1>2, <1>3

\* What the pipeline or an agent's call leaves behind when it returns.
LEMMA Returned ==
    ASSUME NEW stages, NEW failed, NEW id, NEW aggregate, NEW created,
           Return(stages, failed, id, aggregate, created)
    PROVE  pc' = "idle" /\ job' = NoJob
BY DEF Return

LEMMA ShapeStep == ShapeInv /\ [Next]_vars => ShapeInv'
<1> SUFFICES ASSUME ShapeInv, [Next]_vars PROVE ShapeInv'
    OBVIOUS
<1> USE DEF ShapeInv
<1>1. ASSUME NEW ok \in BOOLEAN, BeginRun(ok) PROVE ShapeInv'
    BY <1>1, Fields, Returned DEF BeginRun, StageFails
<1>2. CASE RunScenario
    BY <1>2, Fields DEF RunScenario
<1>3. ASSUME NEW ok \in BOOLEAN, UpdateLatest(ok) \/ BeginScoring(ok) PROVE ShapeInv'
    BY <1>3, Fields, Returned DEF UpdateLatest, BeginScoring, StageFails
<1>4. CASE EndCycle
    BY <1>4, Returned DEF EndCycle
<1>5. ASSUME NEW o \in Runners, StartRunner(o) PROVE ShapeInv'
    BY <1>5, Fields DEF StartRunner
<1>6. ASSUME NEW a \in Answers, Judge(a) PROVE ShapeInv'
    BY <1>6, Fields DEF Judge
<1>7. ASSUME NEW ok \in BOOLEAN, WriteRunResult(ok) PROVE ShapeInv'
    BY <1>7, Fields, Returned DEF WriteRunResult, StageFails
<1>8. ASSUME NEW ok \in BOOLEAN, WriteIssues(ok) PROVE ShapeInv'
    BY <1>8, Fields, Returned DEF WriteIssues, StageFails
<1>9. ASSUME NEW ok \in BOOLEAN, Verify(ok) PROVE ShapeInv'
    BY <1>9, Fields, Returned DEF Verify
<1>10. ASSUME NEW s \in BOOLEAN, NEW r \in BOOLEAN, WriteScores(s, r) PROVE ShapeInv'
    BY <1>10, Fields, Returned DEF WriteScores, StageFails
<1>11. ASSUME NEW th \in Thresholds, BeginIssues(th) PROVE ShapeInv'
    BY <1>11, Fields DEF BeginIssues
<1>12. ASSUME NEW h \in HubAnswers, FileIssue(h) \/ FileRegression(h) PROVE ShapeInv'
    BY <1>12, Fields DEF FileIssue, FileRegression
<1>13. ASSUME NEW f \in Filters, Generate(f) PROVE ShapeInv'
    BY <1>13, Fields, Returned DEF Generate, StageFails
<1>14. ASSUME NEW r \in Runs, RetryIssues(r) PROVE ShapeInv'
    BY <1>14, Fields DEF RetryIssues
<1>15. ASSUME NEW b \in Runs, NEW r \in Runs, Compare(b, r) PROVE ShapeInv'
    BY <1>15, Fields DEF Compare
<1>16. CASE Second
    BY <1>16, SatAssumption DEF Second, Runs
<1>17. CASE Crash \/ (\E l \in Libraries : EditLibrary(l)) \/ \E i \in DOMAIN github : CloseIssue(i)
    BY <1>17 DEF Crash, EditLibrary, CloseIssue
<1>18. CASE UNCHANGED vars
    BY <1>18 DEF vars
<1>19. QED
    BY <1>1, <1>2, <1>3, <1>4, <1>5, <1>6, <1>7, <1>8, <1>9, <1>10, <1>11, <1>12, <1>13,
       <1>14, <1>15, <1>16, <1>17, <1>18 DEF Next, Agent, Calls, Environment

\* No action takes a result away, and only UpdateLatest, after the result of
\* its run is written, and a crash in the middle of it, move the link.
LEMMA LatestStep == ShapeInv /\ LatestInv /\ [Next]_vars => LatestInv'
<1> SUFFICES ASSUME ShapeInv, LatestInv, [Next]_vars PROVE LatestInv'
    OBVIOUS
<1> DEFINE Kept == \A r \in Runs : dirs[r].result # Absent => dirs'[r].result # Absent
<1>1. ASSUME Kept, UNCHANGED latest, pc' # "link" PROVE LatestInv'
    BY <1>1 DEF LatestInv
<1>2. ASSUME NEW ok \in BOOLEAN, BeginRun(ok) PROVE LatestInv'
    <2>1. Kept
        BY <1>2, Fields DEF BeginRun, ShapeInv
    <2>2. pc' # "link" /\ UNCHANGED latest
        BY <1>2, Returned DEF BeginRun, StageFails, LatestAfter
    <2>3. QED
        BY <1>1, <2>1, <2>2
<1>3. CASE RunScenario
    <2>1. Kept
        BY <1>3, Fields DEF RunScenario, ShapeInv
    <2>2. pc' # "link" /\ UNCHANGED latest
        BY <1>3 DEF RunScenario
    <2>3. QED
        BY <1>1, <2>1, <2>2
<1>4. ASSUME NEW ok \in BOOLEAN, UpdateLatest(ok) PROVE LatestInv'
    BY <1>4, Fields DEF UpdateLatest, LatestAfter, LatestInv, ShapeInv
<1>5. ASSUME NEW ok \in BOOLEAN, BeginScoring(ok) PROVE LatestInv'
    BY <1>1, <1>5, Returned DEF BeginScoring, StageFails
<1>6. CASE EndCycle
    BY <1>1, <1>6, Returned DEF EndCycle
<1>7. ASSUME NEW o \in Runners, StartRunner(o) PROVE LatestInv'
    BY <1>1, <1>7 DEF StartRunner
<1>8. ASSUME NEW a \in Answers, Judge(a) PROVE LatestInv'
    BY <1>1, <1>8 DEF Judge
<1>9. ASSUME NEW ok \in BOOLEAN, WriteRunResult(ok) PROVE LatestInv'
    <2>1. CASE ok
        <3>1. dirs' = [dirs EXCEPT ![job.run].result = RunResult(job.run, job.done)]
              /\ pc' = "link" /\ job' = job /\ latest' = latest /\ job.run \in Runs
            BY <1>9, <2>1 DEF WriteRunResult, ShapeInv
        <3>2. dirs'[job.run].result # Absent /\ Kept
            BY <3>1, Fields, ResultThere DEF ShapeInv
        <3>3. QED
            BY <3>1, <3>2 DEF LatestInv
    <2>2. CASE ~ok
        BY <1>1, <1>9, <2>2, Returned DEF WriteRunResult, StageFails
    <2>3. QED
        BY <2>1, <2>2
<1>10. ASSUME NEW ok \in BOOLEAN, WriteIssues(ok) PROVE LatestInv'
    <2>1. Kept
        BY <1>10, Fields DEF WriteIssues, ShapeInv
    <2>2. pc' # "link" /\ UNCHANGED latest
        BY <1>10, Returned DEF WriteIssues, StageFails
    <2>3. QED
        BY <1>1, <2>1, <2>2
<1>11. ASSUME NEW ok \in BOOLEAN, Verify(ok) PROVE LatestInv'
    <2>1. Kept
        BY <1>11, Fields DEF Verify, ShapeInv
    <2>2. pc' # "link" /\ UNCHANGED latest
        BY <1>11, Returned DEF Verify
    <2>3. QED
        BY <1>1, <2>1, <2>2
<1>12. ASSUME NEW s \in BOOLEAN, NEW r \in BOOLEAN, WriteScores(s, r) PROVE LatestInv'
    <2>1. Kept
        BY <1>12, Fields DEF WriteScores, ShapeInv
    <2>2. pc' # "link" /\ UNCHANGED latest
        BY <1>12, Returned DEF WriteScores, StageFails
    <2>3. QED
        BY <1>1, <2>1, <2>2
<1>13. ASSUME NEW th \in Thresholds, BeginIssues(th) PROVE LatestInv'
    BY <1>1, <1>13 DEF BeginIssues
<1>14. ASSUME NEW h \in HubAnswers, FileIssue(h) \/ FileRegression(h) PROVE LatestInv'
    BY <1>1, <1>14 DEF FileIssue, FileRegression
<1>15. ASSUME NEW f \in Filters, Generate(f) PROVE LatestInv'
    BY <1>1, <1>15, Returned DEF Generate, StageFails
<1>16. ASSUME NEW r \in Runs, RetryIssues(r) PROVE LatestInv'
    BY <1>1, <1>16 DEF RetryIssues
<1>17. ASSUME NEW b \in Runs, NEW r \in Runs, Compare(b, r) PROVE LatestInv'
    <2>1. Kept
        BY <1>17, Fields DEF Compare, ShapeInv
    <2>2. QED
        BY <1>1, <1>17, <2>1 DEF Compare
<1>18. CASE Second
    BY <1>1, <1>18 DEF Second
<1>19. CASE Crash
    BY <1>19 DEF Crash, LatestInv
<1>20. CASE \/ \E l \in Libraries : EditLibrary(l)
            \/ \E i \in DOMAIN github : CloseIssue(i)
            \/ UNCHANGED vars
    BY <1>20 DEF EditLibrary, CloseIssue, vars, LatestInv
<1>21. QED
    BY <1>2, <1>3, <1>4, <1>5, <1>6, <1>7, <1>8, <1>9, <1>10, <1>11, <1>12, <1>13,
       <1>14, <1>15, <1>16, <1>17, <1>18, <1>19, <1>20 DEF Next, Agent, Calls, Environment

\* Whatever fails or dies on the way, sat/runs/latest names a run whose result
\* is complete.
THEOREM LatestIsComplete == Spec => []LatestComplete
<1>1. ShapeInv /\ LatestInv => LatestComplete
    BY DEF LatestInv, LatestComplete
<1>2. QED
    BY <1>1, InitShape, ShapeStep, LatestStep, PTL DEF Spec

-----------------------------------------------------------------------------
(* The budget                                                              *)

\* The bound of the costs is above the budget, and an answer to a call that
\* was made within the budget stays below it.
LEMMA BoundHolds ==
    /\ CostBound \in Nat /\ CostBound > 0
    /\ \A a \in Answers, cost \in Nat : cost < MaxCost => cost + a.cost < CostBound
<1> DEFINE Costs == {a.cost : a \in Answers}
           S == Costs \cup {1}
           f == [a \in Answers |-> a.cost]
<1>1. f \in Surjection(Answers, Costs)
    BY DEF Surjection
<1>2. IsFiniteSet(Costs)
    BY <1>1, FS_Surjection, AnswersAssumption DEF AnswersAssumption
<1>3. IsFiniteSet(S) /\ S \in SUBSET Nat /\ S # {} /\ 1 \in S /\ \A a \in Answers : a.cost \in S
    <2>1. IsFiniteSet(S)
        BY <1>2, FS_AddElement
    <2>2. S \in SUBSET Nat
        BY AnswersAssumption DEF AnswersAssumption
    <2>3. QED
        BY <2>1, <2>2
<1>4. CostBound = MaxCost + Max(S)
    BY DEF CostBound
<1> HIDE DEF S
<1>5. Max(S) \in S /\ \A x \in S : Max(S) >= x
    BY <1>3, Maximum
<1>6. Max(S) \in Nat /\ Max(S) >= 1
    BY <1>3, <1>5
<1>7. ASSUME NEW a \in Answers, NEW cost \in Nat, cost < MaxCost PROVE cost + a.cost < CostBound
    <2>1. a.cost \in Nat /\ a.cost <= Max(S)
        BY <1>3, <1>5
    <2>2. QED
        BY <1>4, <1>6, <1>7, <2>1, SatAssumption
<1>8. QED
    BY <1>4, <1>6, <1>7, SatAssumption

CostInv == job.cost \in Nat /\ BudgetOvershoot

LEMMA InitCost == Init => CostInv
<1> SUFFICES ASSUME Init PROVE CostInv
    OBVIOUS
<1>1. PICK h \in Histories :
          dirs = [r \in Runs |-> IF r \in DOMAIN h.dirs THEN h.dirs[r] ELSE NoDir]
    BY DEF Init
<1>2. job.cost = 0
    BY Fields DEF Init
<1>3. \A r \in Runs : dirs[r].scores # Absent => dirs[r].scores.cost < CostBound
    BY <1>1, Fields, HistoriesAssumption DEF HistoriesAssumption
<1>4. QED
    BY <1>2, <1>3, BoundHolds DEF CostInv, BudgetOvershoot

\* Only the judge adds to the scores and the cost of a run, and only scores.json
\* keeps them: every other step leaves them, or forgets those in memory.
ScoringRest ==
    /\ \A r \in Runs : dirs'[r].scores = dirs[r].scores
    /\ \/ job'.cost = job.cost /\ job'.scores = job.scores
       \/ job'.cost = 0 /\ job'.scores = <<>>

LEMMA ScoringSteps ==
    ASSUME ShapeInv, [Next]_vars
    PROVE  \/ ScoringRest
           \/ \E a \in Answers : Judge(a)
           \/ \E s, r \in BOOLEAN : WriteScores(s, r)
<1> DEFINE Same == \/ job'.cost = job.cost /\ job'.scores = job.scores
                   \/ job'.cost = 0 /\ job'.scores = <<>>
           Kept == \A r \in Runs : dirs'[r].scores = dirs[r].scores
<1>1. ASSUME Same, Kept PROVE ScoringRest
    BY <1>1 DEF ScoringRest
<1>2. ASSUME NEW ok \in BOOLEAN, BeginRun(ok) PROVE ScoringRest
    <2>1. Kept
        BY <1>2, Fields DEF BeginRun, ShapeInv
    <2>2. Same
        BY <1>2, Fields, Returned DEF BeginRun, StageFails, ShapeInv
    <2>3. QED
        BY <1>1, <2>1, <2>2
<1>3. CASE RunScenario
    <2>1. Kept
        BY <1>3, Fields DEF RunScenario, ShapeInv
    <2>2. Same
        BY <1>3, Fields DEF RunScenario, ShapeInv
    <2>3. QED
        BY <1>1, <2>1, <2>2
<1>4. ASSUME NEW ok \in BOOLEAN, UpdateLatest(ok) \/ BeginScoring(ok) PROVE ScoringRest
    BY <1>1, <1>4, Fields, Returned DEF UpdateLatest, BeginScoring, StageFails, ShapeInv
<1>5. CASE EndCycle
    BY <1>1, <1>5, Fields, Returned DEF EndCycle
<1>6. ASSUME NEW o \in Runners, StartRunner(o) PROVE ScoringRest
    BY <1>1, <1>6, Fields DEF StartRunner, ShapeInv
<1>7. ASSUME NEW ok \in BOOLEAN, WriteRunResult(ok) PROVE ScoringRest
    <2>1. Kept
        BY <1>7, Fields DEF WriteRunResult, ShapeInv
    <2>2. Same
        BY <1>7, Fields, Returned DEF WriteRunResult, StageFails
    <2>3. QED
        BY <1>1, <2>1, <2>2
<1>8. ASSUME NEW ok \in BOOLEAN, WriteIssues(ok) PROVE ScoringRest
    <2>1. Kept
        BY <1>8, Fields DEF WriteIssues, ShapeInv
    <2>2. Same
        BY <1>8, Fields, Returned DEF WriteIssues, StageFails
    <2>3. QED
        BY <1>1, <2>1, <2>2
<1>9. ASSUME NEW ok \in BOOLEAN, Verify(ok) PROVE ScoringRest
    <2>1. Kept
        BY <1>9, Fields DEF Verify, ShapeInv
    <2>2. Same
        BY <1>9, Fields, Returned DEF Verify, ShapeInv
    <2>3. QED
        BY <1>1, <2>1, <2>2
<1>10. ASSUME NEW th \in Thresholds, BeginIssues(th) PROVE ScoringRest
    BY <1>1, <1>10, Fields DEF BeginIssues, ShapeInv
<1>11. ASSUME NEW h \in HubAnswers, FileIssue(h) \/ FileRegression(h) PROVE ScoringRest
    BY <1>1, <1>11, Fields DEF FileIssue, FileRegression, ShapeInv
<1>12. ASSUME NEW f \in Filters, Generate(f) PROVE ScoringRest
    BY <1>1, <1>12, Fields, Returned DEF Generate, StageFails, ShapeInv
<1>13. ASSUME NEW r \in Runs, RetryIssues(r) PROVE ScoringRest
    BY <1>1, <1>13, Fields DEF RetryIssues
<1>14. ASSUME NEW b \in Runs, NEW r \in Runs, Compare(b, r) PROVE ScoringRest
    <2>1. Kept
        BY <1>14, Fields DEF Compare, ShapeInv
    <2>2. QED
        BY <1>1, <1>14, <2>1, Fields DEF Compare
<1>15. CASE Environment
    BY <1>1, <1>15, Fields DEF Environment, Second, Crash, EditLibrary, CloseIssue
<1>16. CASE UNCHANGED vars
    BY <1>1, <1>16 DEF vars
<1>17. QED
    BY <1>2, <1>3, <1>4, <1>5, <1>6, <1>7, <1>8, <1>9, <1>10, <1>11, <1>12, <1>13,
       <1>14, <1>15, <1>16 DEF Next, Agent, Calls

LEMMA CostStep == ShapeInv /\ CostInv /\ [Next]_vars => CostInv'
<1> SUFFICES ASSUME ShapeInv, CostInv, [Next]_vars PROVE CostInv'
    OBVIOUS
<1>1. CASE ScoringRest
    BY <1>1, BoundHolds DEF ScoringRest, CostInv, BudgetOvershoot
<1>2. ASSUME NEW a \in Answers, Judge(a) PROVE CostInv'
    <2>1. CASE job'.cost = job.cost
        BY <1>2, <2>1 DEF Judge, CostInv, BudgetOvershoot
    <2>2. CASE job'.cost # job.cost
        <3>1. ~OverBudget /\ job'.cost = job.cost + a.cost
            BY <1>2, <2>2, Fields DEF Judge, ShapeInv
        <3>2. job.cost < MaxCost /\ a.cost \in Nat /\ job.cost \in Nat
            BY <3>1, SatAssumption, AnswersAssumption
               DEF OverBudget, BudgetExceeded, CostInv, AnswersAssumption
        <3>3. job'.cost < CostBound /\ job'.cost \in Nat
            BY <3>1, <3>2, BoundHolds
        <3>4. QED
            BY <1>2, <3>3 DEF Judge, CostInv, BudgetOvershoot
    <2>3. QED
        BY <2>1, <2>2
<1>3. ASSUME NEW s \in BOOLEAN, NEW r \in BOOLEAN, WriteScores(s, r) PROVE CostInv'
    <2> DEFINE result == ScoreResult(job.run, job.scores, library.files, job.cost)
    <2>1. job.run \in Runs
        BY <1>3 DEF WriteScores, ShapeInv
    <2>2. result.cost = job.cost
        BY DEF ScoreResult
    <2>3. dirs' = IF s THEN [dirs EXCEPT ![job.run].scores = result] ELSE dirs
        BY <1>3 DEF WriteScores
    <2> HIDE DEF result
    <2>4. \A q \in Runs : dirs'[q].scores = dirs[q].scores \/ dirs'[q].scores = result
        BY <2>1, <2>3, Fields DEF ShapeInv
    <2>5. job'.cost = job.cost \/ job'.cost = 0
        BY <1>3, Fields, Returned DEF WriteScores, StageFails, ShapeInv
    <2>6. QED
        BY <2>2, <2>4, <2>5, BoundHolds DEF CostInv, BudgetOvershoot
<1>4. QED
    BY <1>1, <1>2, <1>3, ScoringSteps

\* No run costs more than the budget and one more call.
THEOREM BudgetKept == Spec => []BudgetOvershoot
<1>1. CostInv => BudgetOvershoot
    BY DEF CostInv
<1>2. QED
    BY <1>1, InitShape, InitCost, ShapeStep, CostStep, PTL DEF Spec

-----------------------------------------------------------------------------
(* The aggregate of a run                                                  *)

\* Rounding a quotient keeps it between integers, and in order.
LEMMA RoundedBetween ==
    ASSUME NEW n \in Int, NEW d \in Int, d >= 1, NEW lo \in Int, NEW hi \in Int,
           lo * d <= n, n <= hi * d
    PROVE  Rounded(n, d) \in Int /\ lo <= Rounded(n, d) /\ Rounded(n, d) <= hi
<1> DEFINE q == (2 * n + d) \div (2 * d)
<1>1. q \in Int /\ (2 * d) * q <= 2 * n + d /\ 2 * n + d < (2 * d) * q + 2 * d
    BY SMT
<1>2. Rounded(n, d) = q
    BY DEF Rounded
<1> HIDE DEF q
<1>3. lo <= q
    <2>1. SUFFICES ASSUME q + 1 <= lo PROVE FALSE
        BY <1>1
    <2>2. (2 * d) * (q + 1) <= (2 * d) * lo
        BY <1>1, <2>1
    <2>3. QED
        BY <1>1, <2>2
<1>4. q <= hi
    <2>1. SUFFICES ASSUME hi + 1 <= q PROVE FALSE
        BY <1>1
    <2>2. (2 * d) * (hi + 1) <= (2 * d) * q
        BY <1>1, <2>1
    <2>3. QED
        BY <1>1, <2>2
<1>5. QED
    BY <1>1, <1>2, <1>3, <1>4

LEMMA RoundedInOrder ==
    ASSUME NEW n \in Int, NEW m \in Int, NEW d \in Int, d >= 1, n <= m
    PROVE  Rounded(n, d) \in Int /\ Rounded(m, d) \in Int /\ Rounded(n, d) <= Rounded(m, d)
<1> DEFINE q == (2 * n + d) \div (2 * d)
           p == (2 * m + d) \div (2 * d)
<1>1. q \in Int /\ (2 * d) * q <= 2 * n + d /\ 2 * n + d < (2 * d) * q + 2 * d
    BY SMT
<1>2. p \in Int /\ (2 * d) * p <= 2 * m + d /\ 2 * m + d < (2 * d) * p + 2 * d
    BY SMT
<1>3. Rounded(n, d) = q /\ Rounded(m, d) = p
    BY DEF Rounded
<1> HIDE DEF q, p
<1>4. q <= p
    <2>1. SUFFICES ASSUME p + 1 <= q PROVE FALSE
        BY <1>1, <1>2
    <2>2. (2 * d) * (p + 1) <= (2 * d) * q
        BY <1>1, <1>2, <2>1
    <2>3. QED
        BY <1>1, <1>2, <2>2
<1>5. QED
    BY <1>1, <1>2, <1>3, <1>4

\* A list of scores of the judge.
ScoreList(s) == (\E T : s \in Seq(T)) /\ \A i \in DOMAIN s : s[i].score \in Nat /\ s[i].score <= 100

ScoreSet(s) == {s[i].score : i \in DOMAIN s}

LEMMA WeightIs == \A files, s : WeightOf(files, s) \in 1..3
BY DEF WeightOf, Weight

\* What is in a list of scores has a highest and a lowest score.
LEMMA ScoreRange ==
    ASSUME NEW s, ScoreList(s), s # <<>>
    PROVE  /\ IsFiniteSet(DOMAIN s) /\ DOMAIN s # {}
           /\ Min(ScoreSet(s)) \in Nat /\ Max(ScoreSet(s)) \in Nat /\ Max(ScoreSet(s)) <= 100
           /\ \A i \in DOMAIN s : Min(ScoreSet(s)) <= s[i].score /\ s[i].score <= Max(ScoreSet(s))
<1> DEFINE f == [i \in DOMAIN s |-> s[i].score]
<1>1. PICK T : s \in Seq(T)
    BY DEF ScoreList
<1>2. DOMAIN s = 1..Len(s) /\ Len(s) \in Nat /\ Len(s) # 0
    BY <1>1
<1>3. IsFiniteSet(DOMAIN s) /\ DOMAIN s # {}
    <2>1. IsFiniteSet(1..Len(s))
        BY <1>2, FS_Interval
    <2>2. 1 \in 1..Len(s)
        BY <1>2
    <2>3. QED
        BY <1>2, <2>1, <2>2
<1>4. f \in Surjection(DOMAIN s, ScoreSet(s))
    BY DEF Surjection, ScoreSet
<1>5. IsFiniteSet(ScoreSet(s)) /\ ScoreSet(s) # {}
    BY <1>3, <1>4, FS_Surjection DEF ScoreSet
<1>6. ScoreSet(s) \in SUBSET Int /\ \A x \in ScoreSet(s) : x \in Nat /\ x <= 100
    BY DEF ScoreSet, ScoreList
<1>7. \A i \in DOMAIN s : s[i].score \in ScoreSet(s)
    BY DEF ScoreSet
<1>8. QED
    BY <1>3, <1>5, <1>6, <1>7, Minimum, Maximum

\* The weighted mean of scores lies between the lowest and the highest of them,
\* whatever the weights.
LEMMA AggregateBetween ==
    ASSUME NEW s, ScoreList(s), s # <<>>, NEW files
    PROVE  /\ Min(ScoreSet(s)) <= AggregateScore(s, files)
           /\ AggregateScore(s, files) <= Max(ScoreSet(s))
<1> DEFINE D == DOMAIN s
           w == [i \in D |-> WeightOf(files, s[i].scenario)]
           points == [i \in D |-> s[i].score * w[i]]
           lo == Min(ScoreSet(s))
           hi == Max(ScoreSet(s))
           W == SumFunctionOnSet(w, D)
           N == SumFunctionOnSet(points, D)
<1>1. /\ IsFiniteSet(D) /\ D # {} /\ lo \in Nat /\ hi \in Nat /\ hi <= 100
      /\ \A i \in D : s[i].score \in Int /\ lo <= s[i].score /\ s[i].score <= hi
    <2>1. \A i \in D : s[i].score \in Int
        BY DEF ScoreList
    <2>2. QED
        BY <2>1, ScoreRange
<1>2. AggregateScore(s, files) = Min({100, Rounded(N, W)})
    BY DEF AggregateScore, SumFunction
<1> DEFINE one == 1
<1>3. /\ DOMAIN w = D /\ \A i \in D : w[i] \in 1..3
      /\ w = [i \in D |-> w[i]]
    BY WeightIs
<1>4. /\ points = [i \in D |-> points[i]]
      /\ \A i \in D : points[i] = s[i].score * w[i]
    OBVIOUS
<1> HIDE DEF lo, hi, w, points, D
<1>5. ASSUME NEW i \in D
      PROVE  /\ points[i] \in Int /\ lo * w[i] <= points[i]
             /\ points[i] <= hi * w[i]
    <2>1. w[i] \in 1..3 /\ points[i] = s[i].score * w[i]
        BY <1>3, <1>4
    <2>6. s[i].score \in Int /\ lo \in Int /\ hi \in Int /\ lo <= s[i].score /\ s[i].score <= hi
        BY <1>1
    <2>2. CASE w[i] = 1
        BY <2>1, <2>6, <2>2
    <2>3. CASE w[i] = 2
        BY <2>1, <2>6, <2>3
    <2>4. CASE w[i] = 3
        BY <2>1, <2>6, <2>4
    <2>5. QED
        BY <2>1, <2>2, <2>3, <2>4
<1>6. w \in [D -> Int] /\ points \in [D -> Int] /\ \A i \in D : w[i] >= 1
    BY <1>3, <1>4, <1>5
<1>14. one \in Int /\ lo \in Int /\ hi \in Int /\ IsFiniteSet(D)
    BY <1>1
<1>15. \A i \in D : lo * w[i] <= one * points[i]
    BY <1>5
<1>16. \A i \in D : one * points[i] <= hi * w[i]
    BY <1>5
<1> HIDE DEF one
<1>7. W \in Int /\ N \in Int /\ lo * W <= one * N
    BY <1>6, <1>14, <1>15, SumsCompare
<1>8. one * N <= hi * W
    BY <1>6, <1>14, <1>16, SumsCompare
<1>9. W >= 1
    BY <1>1, <1>6, SumPositive
<1> HIDE DEF W, N
<1>13. lo * W <= N /\ N <= hi * W
    BY <1>7, <1>8 DEF one
<1>10. Rounded(N, W) \in Int /\ lo <= Rounded(N, W) /\ Rounded(N, W) <= hi
    BY <1>7, <1>9, <1>13, <1>14, RoundedBetween
<1>11. Min({100, Rounded(N, W)}) = Rounded(N, W)
    <2> DEFINE r == Rounded(N, W)
    <2>1. r \in Int /\ r <= 100
        BY <1>1, <1>10
    <2> HIDE DEF r
    <2>2. Min({100, r}) = r
        <3>1. {100, r} \in SUBSET Int /\ IsFiniteSet({100, r})
            <4>1. IsFiniteSet({}) /\ IsFiniteSet({} \cup {100})
                BY FS_EmptySet, FS_AddElement
            <4>2. IsFiniteSet(({} \cup {100}) \cup {r})
                BY <4>1, FS_AddElement
            <4>3. {100, r} = ({} \cup {100}) \cup {r}
                OBVIOUS
            <4>4. {100, r} \in SUBSET Int
                BY <2>1
            <4>5. IsFiniteSet({100, r})
                BY <4>2, <4>3, Zenon
            <4>6. QED
                BY <4>4, <4>5
        <3>2. Min({100, r}) \in {100, r} /\ Min({100, r}) <= 100 /\ Min({100, r}) <= r
            BY <3>1, Minimum
        <3>3. QED
            BY <2>1, <3>2
    <2>3. QED
        BY <2>2 DEF r
<1>12. QED
    BY <1>2, <1>10, <1>11 DEF lo, hi

\* What scores.json may hold: scores of the judge and an aggregate of them.
ScoresRight(result) ==
    /\ ScoreList(result.scores)
    /\ result.scores # <<>> => /\ Min(ScoreSet(result.scores)) <= result.aggregate
                               /\ result.aggregate <= Max(ScoreSet(result.scores))

ScoresInv ==
    /\ ScoreList(job.scores)
    /\ \A r \in Runs : dirs[r].scores # Absent => ScoresRight(dirs[r].scores)

LEMMA NoScores == ScoreList(<<>>)
<1>1. <<>> \in Seq({}) /\ DOMAIN <<>> = {}
    BY EmptySeq
<1>2. QED
    BY <1>1 DEF ScoreList

LEMMA InitScores == Init => ScoresInv
<1> SUFFICES ASSUME Init PROVE ScoresInv
    OBVIOUS
<1>1. PICK h \in Histories :
          dirs = [r \in Runs |-> IF r \in DOMAIN h.dirs THEN h.dirs[r] ELSE NoDir]
    BY DEF Init
<1>2. ScoreList(job.scores)
    BY Fields, NoScores DEF Init
<1>3. ASSUME NEW r \in Runs, dirs[r].scores # Absent PROVE ScoresRight(dirs[r].scores)
    <2> DEFINE result == h.dirs[r].scores
    <2>1. r \in DOMAIN h.dirs /\ dirs[r].scores = result
        BY <1>1, <1>3, Fields
    <2>2. ScoresFile(result)
        BY <1>3, <2>1, HistoriesAssumption DEF HistoriesAssumption
    <2> HIDE DEF result
    <2>3. ScoreList(result.scores)
        BY <2>2 DEF ScoresFile, ScoreList
    <2>4. PICK l \in Libraries : result.aggregate = AggregateScore(result.scores, l.files)
        BY <2>2 DEF ScoresFile
    <2>5. QED
        BY <2>1, <2>3, <2>4, AggregateBetween DEF ScoresRight
<1>4. QED
    BY <1>2, <1>3 DEF ScoresInv

\* An answer that parses adds a score within bounds.
LEMMA ScoreAdded ==
    ASSUME NEW a \in Answers, NEW s, NEW persona, ScoreList(job.scores)
    PROVE  ScoreList(Append(job.scores, ScoreOf(a, s, persona)))
<1> DEFINE new == ScoreOf(a, s, persona)
<1>1. new.score \in Nat /\ new.score <= 100
    <2>1. new.score = Min({a.score, 100}) /\ a.score \in Nat
        BY AnswersAssumption DEF ScoreOf, ClampScore, AnswersAssumption
    <2>2. IsFiniteSet(({} \cup {a.score}) \cup {100})
        BY FS_EmptySet, FS_AddElement
    <2>3. ({} \cup {a.score}) \cup {100} = {a.score, 100} /\ {a.score, 100} \in SUBSET Int
        BY <2>1
    <2>4. Min({a.score, 100}) \in {a.score, 100} /\ Min({a.score, 100}) <= 100
        BY <2>2, <2>3, Minimum
    <2>5. QED
        BY <2>1, <2>4
<1> HIDE DEF new
<1>2. PICK T : job.scores \in Seq(T)
    BY DEF ScoreList
<1> DEFINE U == T \cup {new}
           old == job.scores
<1>3. old \in Seq(U) /\ new \in U
    BY <1>2, SeqMonotonic
<1>4. \A i \in DOMAIN old : old[i].score \in Nat /\ old[i].score <= 100
    BY DEF ScoreList
<1> HIDE DEF U, old
<1>5. /\ Append(old, new) \in Seq(U)
      /\ \A i \in DOMAIN Append(old, new) :
             \/ i \in DOMAIN old /\ Append(old, new)[i] = old[i]
             \/ Append(old, new)[i] = new
    BY <1>3
<1>6. ScoreList(Append(old, new))
    BY <1>1, <1>4, <1>5 DEF ScoreList
<1>7. QED
    BY <1>6 DEF old, new

LEMMA ScoresStep == ShapeInv /\ ScoresInv /\ [Next]_vars => ScoresInv'
<1> SUFFICES ASSUME ShapeInv, ScoresInv, [Next]_vars PROVE ScoresInv'
    OBVIOUS
<1>1. CASE ScoringRest
    BY <1>1, NoScores DEF ScoringRest, ScoresInv
<1>2. ASSUME NEW a \in Answers, Judge(a) PROVE ScoresInv'
    <2> DEFINE t == Head(job.todo)
               scored == ScoreOf(a, t.scenario, PersonaOf(library.files, t.scenario))
    <2>1. job'.scores = job.scores \/ job'.scores = Append(job.scores, scored)
        BY <1>2, Fields DEF Judge, ShapeInv
    <2> HIDE DEF t
    <2>2. ScoreList(job'.scores)
        BY <2>1, ScoreAdded DEF ScoresInv
    <2>3. dirs' = dirs
        BY <1>2 DEF Judge
    <2>4. QED
        BY <2>2, <2>3 DEF ScoresInv
<1>3. ASSUME NEW s \in BOOLEAN, NEW r \in BOOLEAN, WriteScores(s, r) PROVE ScoresInv'
    <2> DEFINE result == ScoreResult(job.run, job.scores, library.files, job.cost)
    <2>1. job.run \in Runs
        BY <1>3 DEF WriteScores, ShapeInv
    <2>2. ScoresRight(result)
        <3>1. result.scores = job.scores /\ result.aggregate = AggregateScore(job.scores, library.files)
            BY DEF ScoreResult
        <3> HIDE DEF result
        <3>2. QED
            BY <3>1, AggregateBetween DEF ScoresInv, ScoresRight
    <2>3. dirs' = IF s THEN [dirs EXCEPT ![job.run].scores = result] ELSE dirs
        BY <1>3 DEF WriteScores
    <2> HIDE DEF result
    <2>4. \A q \in Runs : dirs'[q].scores = dirs[q].scores \/ dirs'[q].scores = result
        BY <2>1, <2>3, Fields DEF ShapeInv
    <2>5. job'.scores = job.scores \/ job'.scores = <<>>
        BY <1>3, Fields, Returned DEF WriteScores, StageFails, ShapeInv
    <2>6. QED
        BY <2>2, <2>4, <2>5, NoScores DEF ScoresInv
<1>4. QED
    BY <1>1, <1>2, <1>3, ScoringSteps

\* The aggregate of a run lies between its lowest and its highest score, whatever
\* the judge answers, the weights and the rounding (aggregate_scores).
THEOREM AggregateBounded == Spec => []AggregateWithin
<1>1. ScoresInv => AggregateWithin
    BY DEF ScoresInv, ScoresRight, ScoreSet, AggregateWithin
<1>2. QED
    BY <1>1, InitShape, InitScores, ShapeStep, ScoresStep, PTL DEF Spec

-----------------------------------------------------------------------------
(* Two runs compared                                                       *)

LEMMA ScoreFound ==
    ASSUME NEW result, ScoreList(result.scores), NEW s \in ScoredIn(result)
    PROVE  ScoreIn(result, s).score \in Int
<1> DEFINE list == result.scores
           I == {i \in 1..Len(list) : list[i].scenario = s}
<1>1. PICK T : list \in Seq(T)
    BY DEF ScoreList
<1>2. DOMAIN list = 1..Len(list) /\ Len(list) \in Nat
    BY <1>1
<1>3. I # {}
    BY <1>2 DEF ScoredIn
<1>4. IsFiniteSet(1..Len(list))
    BY <1>2, FS_Interval
<1>5. IsFiniteSet(I) /\ I \in SUBSET Int
    BY <1>2, <1>4, FS_Subset
<1>6. ScoreIn(result, s) = list[Min(I)]
    BY <1>3 DEF ScoreIn, SelectInSeq
<1>7. Min(I) \in DOMAIN list
    BY <1>2, <1>3, <1>5, Minimum
<1>8. \A i \in DOMAIN list : list[i].score \in Nat
    BY DEF ScoreList
<1> HIDE DEF list, I
<1>9. QED
    BY <1>6, <1>7, <1>8

\* A comparison without regressions has no persona that is worse off.
Fair(comparison) ==
    comparison.regressed = 0 =>
        \A p \in DOMAIN comparison.personas : comparison.personas[p] >= 0

LEMMA ComparisonIsFair ==
    ASSUME NEW before, NEW after, ScoreList(before.scores), ScoreList(after.scores)
    PROVE  Fair(Comparison(before, after))
<1> DEFINE cs == ScenarioComparisons(before, after)
           D == DOMAIN cs
           worse == {i \in D : cs[i].delta < 0}
<1>1. IsFiniteSet(D)
    <2>1. IsFiniteSet(DOMAIN after.scores) \/ after.scores = <<>>
        BY ScoreRange
    <2>2. IsFiniteSet(DOMAIN after.scores)
        <3>1. DOMAIN <<>> = {}
            OBVIOUS
        <3>2. QED
            BY <2>1, <3>1, FS_EmptySet
    <2>3. D \subseteq DOMAIN after.scores
        BY DEF ScenarioComparisons
    <2>4. QED
        BY <2>2, <2>3, FS_Subset
<1>2. \A i \in D : /\ cs[i].before \in Int /\ cs[i].after \in Int
                   /\ cs[i].delta = cs[i].after - cs[i].before
    <2>1. ASSUME NEW i \in D
          PROVE  /\ cs[i].before \in Int /\ cs[i].after \in Int
                 /\ cs[i].delta = cs[i].after - cs[i].before
        <3> DEFINE a == after.scores[i]
                   b == ScoreIn(before, a.scenario)
        <3>1. i \in DOMAIN after.scores /\ a.scenario \in ScoredIn(before)
            BY DEF ScenarioComparisons
        <3>2. a.score \in Int
            BY <3>1 DEF ScoreList
        <3>3. b.score \in Int
            BY <3>1, ScoreFound
        <3> HIDE DEF a, b
        <3>4. cs[i] = [scenario |-> a.scenario, persona |-> a.persona,
                       before |-> b.score, after |-> a.score, delta |-> a.score - b.score]
            BY DEF ScenarioComparisons, a, b
        <3>5. QED
            BY <3>2, <3>3, <3>4
    <2>2. QED
        BY <2>1
<1>3. /\ Comparison(before, after).regressed = Cardinality(worse)
      /\ Comparison(before, after).personas = PersonaDeltas(cs)
    BY DEF Comparison, Quantify
<1> HIDE DEF cs
<1>4. SUFFICES ASSUME Cardinality(worse) = 0, NEW p \in DOMAIN PersonaDeltas(cs)
               PROVE  PersonaDeltas(cs)[p] >= 0
    BY <1>3 DEF Fair
<1>5. worse = {}
    BY <1>1, <1>4, FS_Subset, FS_EmptySet
<1>6. \A i \in D : cs[i].before <= cs[i].after
    BY <1>2, <1>5
<1> DEFINE of == {i \in D : cs[i].persona = p}
           f == [i \in of |-> cs[i].before]
           g == [i \in of |-> cs[i].after]
           N == SumFunctionOnSet(f, of)
           M == SumFunctionOnSet(g, of)
           n == Cardinality(of)
           one == 1
<1>7. /\ PersonaDeltas(cs)[p] = Rounded(M, n) - Rounded(N, n)
      /\ of # {}
    BY DEF PersonaDeltas
<1>8. IsFiniteSet(of) /\ n \in Int /\ n >= 1
    <2>1. of \subseteq D
        OBVIOUS
    <2>2. IsFiniteSet(of)
        BY <1>1, <2>1, FS_Subset
    <2> HIDE DEF of
    <2>3. n \in Nat
        BY <2>2, FS_CardinalityType
    <2>4. n # 0
        BY <1>7, <2>2, FS_EmptySet
    <2>5. QED
        BY <2>2, <2>3, <2>4
<1>9. f \in [of -> Int] /\ g \in [of -> Int] /\ one \in Int
    BY <1>2
<1>10. \A i \in of : one * f[i] <= one * g[i]
    BY <1>2, <1>6
<1> HIDE DEF of, f, g, one, n
<1>11. N \in Int /\ M \in Int /\ one * N <= one * M
    BY <1>8, <1>9, <1>10, SumsCompare
<1> HIDE DEF N, M
<1>12. N <= M
    BY <1>11 DEF one
<1>13. Rounded(N, n) \in Int /\ Rounded(M, n) \in Int /\ Rounded(N, n) <= Rounded(M, n)
    BY <1>8, <1>11, <1>12, RoundedInOrder
<1>14. QED
    BY <1>7, <1>13

\* A cycle is verified on a comparison that has just been made.
VerifyInv == pc = "verify" => job.run \in Runs /\ Fair(dirs[job.run].comparison)

\* Only the verification writes a report, and only a comparison begins one.
VerifyRest ==
    /\ \A r \in Runs : dirs'[r].report = dirs[r].report
    /\ pc' # "verify" \/ UNCHANGED <<pc, job, dirs>>

LEMMA VerifySteps ==
    ASSUME ShapeInv, [Next]_vars
    PROVE  \/ VerifyRest
           \/ \E ok \in BOOLEAN : Verify(ok)
           \/ \E b, r \in Runs : Compare(b, r)
<1> DEFINE Kept == \A r \in Runs : dirs'[r].report = dirs[r].report
<1>1. ASSUME Kept, pc' # "verify" PROVE VerifyRest
    BY <1>1 DEF VerifyRest
<1>2. ASSUME NEW ok \in BOOLEAN, BeginRun(ok) PROVE VerifyRest
    <2>1. Kept
        BY <1>2, Fields DEF BeginRun, ShapeInv
    <2>2. pc' # "verify"
        BY <1>2, Returned DEF BeginRun, StageFails
    <2>3. QED
        BY <1>1, <2>1, <2>2
<1>3. CASE RunScenario
    <2>1. Kept
        BY <1>3, Fields DEF RunScenario, ShapeInv
    <2>2. pc' # "verify"
        BY <1>3 DEF RunScenario
    <2>3. QED
        BY <1>1, <2>1, <2>2
<1>4. ASSUME NEW ok \in BOOLEAN, UpdateLatest(ok) \/ BeginScoring(ok) PROVE VerifyRest
    BY <1>1, <1>4, Returned DEF UpdateLatest, BeginScoring, StageFails
<1>5. CASE EndCycle
    BY <1>1, <1>5, Returned DEF EndCycle
<1>6. ASSUME NEW o \in Runners, StartRunner(o) PROVE VerifyRest
    BY <1>1, <1>6 DEF StartRunner
<1>7. ASSUME NEW ok \in BOOLEAN, WriteRunResult(ok) PROVE VerifyRest
    <2>1. Kept
        BY <1>7, Fields DEF WriteRunResult, ShapeInv
    <2>2. pc' # "verify"
        BY <1>7, Returned DEF WriteRunResult, StageFails
    <2>3. QED
        BY <1>1, <2>1, <2>2
<1>8. ASSUME NEW ok \in BOOLEAN, WriteIssues(ok) PROVE VerifyRest
    <2>1. Kept
        BY <1>8, Fields DEF WriteIssues, ShapeInv
    <2>2. pc' # "verify"
        BY <1>8, Returned DEF WriteIssues, StageFails
    <2>3. QED
        BY <1>1, <2>1, <2>2
<1>9. ASSUME NEW s \in BOOLEAN, NEW r \in BOOLEAN, WriteScores(s, r) PROVE VerifyRest
    <2>1. Kept
        BY <1>9, Fields DEF WriteScores, ShapeInv
    <2>2. pc' # "verify"
        BY <1>9, Returned DEF WriteScores, StageFails
    <2>3. QED
        BY <1>1, <2>1, <2>2
<1>10. ASSUME NEW a \in Answers, Judge(a) PROVE VerifyRest
    BY <1>1, <1>10 DEF Judge
<1>11. ASSUME NEW th \in Thresholds, BeginIssues(th) PROVE VerifyRest
    BY <1>1, <1>11 DEF BeginIssues
<1>12. ASSUME NEW h \in HubAnswers, FileIssue(h) \/ FileRegression(h) PROVE VerifyRest
    BY <1>1, <1>12 DEF FileIssue, FileRegression
<1>13. ASSUME NEW f \in Filters, Generate(f) PROVE VerifyRest
    BY <1>1, <1>13, Returned DEF Generate, StageFails
<1>14. ASSUME NEW r \in Runs, RetryIssues(r) PROVE VerifyRest
    BY <1>1, <1>14 DEF RetryIssues
<1>15. CASE Environment
    BY <1>1, <1>15 DEF Environment, Second, Crash, EditLibrary, CloseIssue, VerifyRest
<1>16. CASE UNCHANGED vars
    BY <1>16 DEF vars, VerifyRest
<1>17. QED
    BY <1>2, <1>3, <1>4, <1>5, <1>6, <1>7, <1>8, <1>9, <1>10, <1>11, <1>12, <1>13,
       <1>14, <1>15, <1>16 DEF Next, Agent, Calls

LEMMA InitVerify == Init => VerifyInv
BY DEF Init, VerifyInv

LEMMA VerifyStep == ShapeInv /\ ScoresInv /\ VerifyInv /\ [Next]_vars => VerifyInv'
<1> SUFFICES ASSUME ShapeInv, ScoresInv, VerifyInv, [Next]_vars PROVE VerifyInv'
    OBVIOUS
<1>1. CASE VerifyRest
    BY <1>1 DEF VerifyRest, VerifyInv
<1>2. ASSUME NEW ok \in BOOLEAN, Verify(ok) PROVE VerifyInv'
    BY <1>2, Returned DEF Verify, VerifyInv
<1>3. ASSUME NEW b \in Runs, NEW r \in Runs, Compare(b, r) PROVE VerifyInv'
    <2> DEFINE c == Comparison(dirs[b].scores, dirs[r].scores)
    <2>1. ScoreList(dirs[b].scores.scores) /\ ScoreList(dirs[r].scores.scores)
        BY <1>3 DEF Compare, ScoresInv, ScoresRight
    <2>2. Fair(c)
        BY <2>1, ComparisonIsFair
    <2>3. dirs' = [dirs EXCEPT ![r].comparison = c] /\ job' = [NoJob EXCEPT !.run = r, !.alone = TRUE]
        BY <1>3 DEF Compare
    <2> HIDE DEF c
    <2>4. job'.run = r /\ dirs'[r].comparison = c
        BY <2>3, Fields DEF ShapeInv
    <2>5. QED
        BY <2>2, <2>4 DEF VerifyInv
<1>4. QED
    BY <1>1, <1>2, <1>3, VerifySteps

\* A cycle whose report says that it is verified has left no persona worse off,
\* the rounding of the means included (determine_outcome, aggregate_persona_deltas).
THEOREM NoPersonaWorseOff == Spec => VerifiedPersonas
<1> DEFINE Right == \A r \in Runs :
               dirs'[r].report # dirs[r].report /\ dirs'[r].report.outcome = "verified"
                 => \A p \in DOMAIN dirs[r].comparison.personas : dirs[r].comparison.personas[p] >= 0
<1>1. ASSUME ShapeInv, VerifyInv, [Next]_vars PROVE [Right]_vars
    <2>1. CASE VerifyRest
        BY <2>1 DEF VerifyRest
    <2>2. ASSUME NEW ok \in BOOLEAN, Verify(ok) PROVE Right
        <3> DEFINE c == dirs[job.run].comparison
                   report == Report(c, 1)
        <3>1. job.run \in Runs /\ Fair(c)
            BY <1>1, <2>2 DEF Verify, VerifyInv
        <3>2. report.outcome = "verified" => c.regressed = 0
            BY DEF Report, Outcome
        <3>3. dirs' = IF ok THEN [dirs EXCEPT ![job.run].report = report] ELSE dirs
            BY <2>2 DEF Verify
        <3> HIDE DEF report
        <3>4. ASSUME NEW r \in Runs, dirs'[r].report # dirs[r].report
              PROVE  r = job.run /\ dirs'[r].report = report
            BY <3>1, <3>3, <3>4, Fields DEF ShapeInv
        <3>5. QED
            BY <3>1, <3>2, <3>4 DEF Fair
    <2>3. ASSUME NEW b \in Runs, NEW r \in Runs, Compare(b, r) PROVE Right
        BY <2>3, Fields DEF Compare, ShapeInv
    <2>4. QED
        BY <1>1, <2>1, <2>2, <2>3, VerifySteps
<1>2. QED
    BY <1>1, InitShape, InitScores, InitVerify, ShapeStep, ScoresStep, VerifyStep, PTL
       DEF Spec, VerifiedPersonas
=============================================================================
