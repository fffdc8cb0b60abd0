--------------------------- MODULE MCOrchestrator ---------------------------
(***************************************************************************)
(* Small instances of Orchestrator.  A deployment is the set of operations *)
(* and failures around it.                                                 *)
(***************************************************************************)
EXTENDS Orchestrator, TLC

CONSTANTS p1, p2, i1

PrSymmetry == Permutations({p1, p2})

\* CI failed, or changes were requested.
Wanted == {"failing", "contested"}

\* Pull requests and an issue, closings and merges, sessions that end before
\* their dispatch has recorded them, and a bus that loses events.
OpsClaims == {"ci", "close", "issues", "merge", "rescore", "dispatch_failure",
              "early_end", "lag"}

\* Users who relaunch and skip, beside merges, launches that fail and sessions
\* that end early.
OpsUsers == {"merge", "relaunch", "skip", "launch_failure", "early_end"}

\* A run manager with room for every session.
OpsSessions == {"ci", "push", "close", "dispatch_failure"}

\* Issues next to a pull request.
OpsIssues == {"issues"}
=============================================================================
