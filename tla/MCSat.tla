-------------------------------- MODULE MCSat --------------------------------
(***************************************************************************)
(* Small instances of the satisfaction tests.  A behaviour is one of the    *)
(* pipeline and its verification, or one of the writers of the records:     *)
(* the two share no variables, and "part" says which.                       *)
(***************************************************************************)
EXTENDS SatCycle, SatRecords

CONSTANT Parts

VARIABLE part

-----------------------------------------------------------------------------
(* The cycle: two scenarios of one persona, a run before the fix that may    *)
(* be there already, two calls of the pipeline.                              *)

File(priority, tags) == [persona |-> "dev", priority |-> priority, tags |-> tags, named |-> TRUE]

Both    == [personas |-> TRUE, files |-> 1 :> File("critical", {"ui"}) @@ 2 :> File("low", {})]
OnlyTwo == [personas |-> TRUE, files |-> 2 :> [File("low", {}) EXCEPT !.named = FALSE]]
Nobody  == [personas |-> FALSE, files |-> << >>]

SomeLibraries == {Both, OnlyTwo, Nobody}

SomeRunners == {[file |-> "completed", exit |-> "ends"], [file |-> None, exit |-> "ends"],
                [file |-> "completed", exit |-> "hangs"]}

Bug(severity) == [category |-> "app", severity |-> severity, confidence |-> "high"]

SomeAnswers == {[kind |-> "error", cost |-> 0, score |-> 0, findings |-> <<>>],
                [kind |-> "garbage", cost |-> 1, score |-> 0, findings |-> <<>>],
                [kind |-> "scored", cost |-> 1, score |-> 100, findings |-> <<>>],
                [kind |-> "scored", cost |-> 2, score |-> 40, findings |-> <<Bug(2)>>]}

SomeThresholds == {[DefaultThresholds EXCEPT !.valid = FALSE], [DefaultThresholds EXCEPT !.tags = "ui" :> 1]}

\* The run of the first second, made and judged by an earlier agent.
Judged(a, b) ==
    LET score(s, n) == [scenario |-> s, persona |-> "dev", score |-> n, findings |-> <<>>]
        trajs == <<Trajectory(1, 1, FALSE, FALSE), Trajectory(2, 1, FALSE, FALSE)>>
    IN [latest |-> 1,
        dirs |-> 1 :> [NoDir EXCEPT !.made = TRUE, !.trajectories = trajs,
                         !.result = RunResult(1, trajs), !.issues = [run |-> 1, entries |-> <<>>],
                         !.scores = ScoreResult(1, <<score(1, a), score(2, b)>>, Both.files, 2)]]

SomeHistories == {Judged(60, 60)}
-----------------------------------------------------------------------------
(* The records: a cycle that compared two scenarios and saw one false        *)
(* positive, and one whose agent says that it saw three.                     *)

SomeResults == {[findings |-> <<[confidence |-> "high"], [confidence |-> "low"]>>]}

SomeEnds == {[report |-> [after_run |-> 1, outcome |-> "mixed"],
              comparison |-> [scenarios |-> <<1, 2>>, improved |-> 1],
              iteration |-> 1, false_positives |-> n] : n \in {1, 3}}
-----------------------------------------------------------------------------

SatInit ==
    /\ part \in Parts /\ Init /\ RInit
    /\ part # "cycle" => library = Both

AgentHere == part = "cycle" /\ Agent /\ UNCHANGED <<part, rvars>>

SatNext ==
    \/ AgentHere
    \/ part = "cycle" /\ (Calls \/ Environment) /\ UNCHANGED <<part, rvars>>
    \/ part = "records" /\ RNext /\ UNCHANGED <<part, vars>>

svars == <<part, vars, rvars>>

SatSpec == SatInit /\ [][SatNext]_svars /\ WF_svars(AgentHere)
=============================================================================
