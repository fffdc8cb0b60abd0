------------------------------ MODULE RunPool ------------------------------
(***************************************************************************)
(* What the run manager promises of a run, whatever its queue, its files   *)
(* and its sidecars do: a run starts at most once and only into a free     *)
(* slot, it ends with exactly one outcome, and no later message, timer or  *)
(* call changes that outcome or brings the run back.                       *)
(***************************************************************************)
EXTENDS Naturals, FiniteSets

CONSTANTS Ids, MaxConcurrent

VARIABLE run        \* what has become of each run id

Outcomes == {"succeeded", "failed", "cancelled"}

ActiveRuns == {id \in Ids : run[id] = "active"}

Init == run = [id \in Ids |-> "free"]

Start(id) ==
    /\ run[id] = "free"
    /\ Cardinality(ActiveRuns) < MaxConcurrent
    /\ run' = [run EXCEPT ![id] = "active"]

\* One run ends, or several in one critical section.
End(S) ==
    /\ S \subseteq ActiveRuns
    /\ \E outcome \in [S -> Outcomes] :
        run' = [id \in Ids |-> IF id \in S THEN outcome[id] ELSE run[id]]

\* The daemon dies with its runs.
LoseAll == run' = [id \in Ids |-> IF run[id] = "active" THEN "lost" ELSE run[id]]

Next == \/ \E id \in Ids : Start(id)
        \/ \E S \in SUBSET Ids : End(S)
        \/ LoseAll

Spec == Init /\ [][Next]_run
=============================================================================
