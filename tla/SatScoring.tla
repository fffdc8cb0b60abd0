----------------------------- MODULE SatScoring -----------------------------
(***************************************************************************)
(* The pure functions of the satisfaction tests (SAT): the judging of a    *)
(* run, the choice of the findings that become issues, the comparison of   *)
(* two runs and the decisions of the fix-verify cycle.                     *)
(*                                                                         *)
(* A scenario is a number, its place in the order of the identifiers.  The *)
(* library maps the scenarios that have a file to what the file says.  A   *)
(* finding is [scenario, category, severity, confidence], a score          *)
(* [scenario, persona, score, findings], dollars are whole units.          *)
(***************************************************************************)
EXTENDS Integers, SequencesExt

NoPersona == "unknown"

Entry(file) == [persona |-> file.persona, priority |-> file.priority, tags |-> file.tags]

-----------------------------------------------------------------------------
(* Trajectories. *)

TrajectoryStatus(steps, aborted, runner_failed) ==
    IF runner_failed \/ (~aborted /\ steps = 0) THEN "runner_failure"
    ELSE IF aborted THEN "aborted" ELSE "completed"

Trajectory(s, steps, aborted, runner_failed) ==
    [scenario |-> s, steps |-> steps,
     status |-> TrajectoryStatus(steps, aborted, runner_failed)]

RunResult(id, trajs) ==
    LET count(st) == Quantify(DOMAIN trajs, LAMBDA i : trajs[i].status = st)
    IN [run |-> id, trajectories |-> trajs, total |-> Len(trajs), completed |-> count("completed"),
        aborted |-> count("aborted"), runner_failure |-> count("runner_failure")]

-----------------------------------------------------------------------------
(* The judge's answers and the budget. *)

ClampScore(n)    == Min({n, 100})
ClampSeverity(n) == Max({1, Min({n, 5})})

FindingCategory(c) == IF c \in {"runner", "scenario"} THEN c ELSE "app"
Confidence(c)      == IF c \in {"high", "low"} THEN c ELSE "medium"

PersonaOf(library, s) == IF s \in DOMAIN library THEN library[s].persona ELSE NoPersona

\* parse_score_response: what becomes of an answer that parses.
ScoreOf(answer, s, persona) ==
    [scenario |-> s, persona |-> persona, score |-> ClampScore(answer.score),
     findings |-> [i \in DOMAIN answer.findings |->
         LET f == answer.findings[i] IN
         [scenario |-> s, category |-> FindingCategory(f.category),
          severity |-> ClampSeverity(f.severity), confidence |-> Confidence(f.confidence)]]]

BudgetExceeded(cost, max) == cost >= max

Weight(priority) == CASE priority = "critical" -> 3 [] priority = "high" -> 2 [] OTHER -> 1

WeightOf(library, s) == IF s \in DOMAIN library THEN Weight(library[s].priority) ELSE 1

\* f64::round of a quotient that is not negative.
Rounded(num, den) == (2 * num + den) \div (2 * den)

\* Mutant of AggregateScore: the mean is over the number of scenarios.
UnweightedMean(scores, library) ==
    LET points == [i \in DOMAIN scores |-> scores[i].score * WeightOf(library, scores[i].scenario)]
    IN IF scores = <<>> THEN 0 ELSE Min({100, Rounded(SumFunction(points), Len(scores))})

AggregateScore(scores, library) ==
    LET w == [i \in DOMAIN scores |-> WeightOf(library, scores[i].scenario)]
        points == [i \in DOMAIN scores |-> scores[i].score * w[i]]
    IN IF scores = <<>> THEN 0 ELSE Min({100, Rounded(SumFunction(points), SumFunction(w))})

ScoreResult(id, scores, library, cost) ==
    [run |-> id, scores |-> scores, aggregate |-> AggregateScore(scores, library),
     findings |-> FlattenSeq([i \in DOMAIN scores |-> scores[i].findings]), cost |-> cost]

HighConfidence(result) == SelectSeq(result.findings, LAMBDA f : f.confidence = "high")

-----------------------------------------------------------------------------
(* Which findings become issues. *)

DefaultThresholds == [valid |-> TRUE, severity |-> 2, confidences |-> {"high"}, tags |-> << >>]

\* The strictest of the thresholds of the scenario's tags, if it has one.
SeverityOverrides(thresholds, manifest) ==
    LET of(s) == {thresholds.tags[g] : g \in manifest[s].tags \cap DOMAIN thresholds.tags}
    IN [s \in {s \in DOMAIN manifest : of(s) # {}} |-> Min(of(s))]

IssueConfig(thresholds, manifest) ==
    [severity |-> thresholds.severity, confidences |-> thresholds.confidences,
     categories |-> {"app"}, overrides |-> SeverityOverrides(thresholds, manifest)]

Eligible(f, config) ==
    LET max == IF f.scenario \in DOMAIN config.overrides
               THEN config.overrides[f.scenario] ELSE config.severity
    IN /\ f.category \in config.categories
       /\ f.severity <= max
       /\ f.confidence \in config.confidences

FindingsForIssues(result, config) ==
    SelectSeq(result.findings, LAMBDA f : Eligible(f, config))

\* A hash of its arguments: equal only when they are.
Fingerprint(s, persona, id) == <<s, persona, id>>

-----------------------------------------------------------------------------
(* Two runs compared. *)

ScoredIn(result) == {result.scores[i].scenario : i \in DOMAIN result.scores}

ScoreIn(result, s) ==
    result.scores[SelectInSeq(result.scores, LAMBDA x : x.scenario = s)]

\* One entry for each scenario that both runs scored, at its place in the
\* second.
ScenarioComparisons(before, after) ==
    LET both == {i \in DOMAIN after.scores : after.scores[i].scenario \in ScoredIn(before)}
    IN [i \in both |->
          LET a == after.scores[i]
              b == ScoreIn(before, a.scenario) IN
          [scenario |-> a.scenario, persona |-> a.persona,
           before |-> b.score, after |-> a.score, delta |-> a.score - b.score]]

PersonaDeltas(comparisons) ==
    [p \in {comparisons[i].persona : i \in DOMAIN comparisons} |->
       LET of == {i \in DOMAIN comparisons : comparisons[i].persona = p}
           mean(field) == Rounded(SumFunctionOnSet([i \in of |-> comparisons[i][field]], of),
                                  Cardinality(of))
       IN mean("after") - mean("before")]

Comparison(before, after) ==
    LET cs == ScenarioComparisons(before, after)
        count(P(_)) == Quantify(DOMAIN cs, LAMBDA i : P(cs[i].delta))
    IN [before_run |-> before.run, after_run |-> after.run, scenarios |-> cs,
        personas |-> PersonaDeltas(cs), delta |-> after.aggregate - before.aggregate,
        improved |-> count(LAMBDA d : d > 0), regressed |-> count(LAMBDA d : d < 0),
        unchanged |-> count(LAMBDA d : d = 0)]

Regressions(comparison) ==
    LET cs == comparison.scenarios
        worse == SetToSortSeq({i \in DOMAIN cs : cs[i].delta < 0}, <)
    IN [n \in DOMAIN worse |-> cs[worse[n]]]

\* Mutant of Outcome: regressions are weighed against improvements.
OutcomeOnBalance(comparison) ==
    IF comparison.regressed <= comparison.improved THEN "verified" ELSE "regressed"

Outcome(comparison) ==
    IF comparison.regressed = 0 THEN "verified"
    ELSE IF comparison.improved = 0 THEN "regressed" ELSE "mixed"

Report(comparison, pr) ==
    [after_run |-> comparison.after_run, before_run |-> comparison.before_run, pr |-> pr,
     outcome |-> Outcome(comparison), regressions |-> Regressions(comparison)]

-----------------------------------------------------------------------------
(* The cycle and what is learned from it. *)

Tripped(iteration, max) == iteration >= max

CycleLearning(report, comparison, iteration, false_positives) ==
    [run |-> report.after_run, iteration |-> iteration, outcome |-> report.outcome,
     found |-> Cardinality(DOMAIN comparison.scenarios), fixed |-> comparison.improved,
     false_positives |-> false_positives]

TotalOf(cycles, field) == SumFunction([i \in DOMAIN cycles |-> cycles[i][field]])

\* Mutant of FalsePositiveMetrics: the records count on top of the cycles.
CountedTwice(cycles, records) ==
    [issues |-> IF TotalOf(cycles, "found") > 0 THEN TotalOf(cycles, "found") ELSE records,
     fp |-> TotalOf(cycles, "false_positives") + records]

FalsePositiveMetrics(cycles, records) ==
    IF TotalOf(cycles, "found") > 0
    THEN [issues |-> TotalOf(cycles, "found"), fp |-> TotalOf(cycles, "false_positives")]
    ELSE [issues |-> records, fp |-> records]
=============================================================================
