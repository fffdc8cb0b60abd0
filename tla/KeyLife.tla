------------------------------- MODULE KeyLife -------------------------------
(***************************************************************************)
(* What the orchestrator promises for a pull request: it is worked on by   *)
(* one session at a time, retried a bounded number of times, and then      *)
(* either waits for its reviewer or is done.                               *)
(***************************************************************************)
EXTENDS Naturals, FiniteSets

CONSTANTS Prs, MaxConcurrent, MaxRetries

VARIABLE life

Stage == {"free", "dispatching", "running", "retrying", "review", "done"}
Life  == [stage : Stage, attempt : 0..MaxRetries]
Free  == [stage |-> "free", attempt |-> 0]
Done  == [stage |-> "done", attempt |-> 0]
At(stage, n) == [stage |-> stage, attempt |-> n]

Attempts == 1..MaxRetries

\* From an eligible pull request to a session, or back when it fails to start.
Claim(a, b)  == a = Free /\ b = At("dispatching", 1)
Fail(a, b)   == a.stage = "dispatching" /\ b = Free
Start(a, b)  == \E n \in Attempts : a = At("dispatching", n) /\ b = At("running", n)

\* What the end of a session leads to.
Review(a, b) == \E n \in Attempts : a = At("running", n) /\ b = At("review", n)
Retry(a, b)  == \E n \in Attempts :
                    n < MaxRetries /\ a = At("running", n) /\ b = At("retrying", n + 1)
Finish(a, b) == a.stage = "running" /\ b = Done
Again(a, b)  == \E n \in Attempts : a = At("retrying", n) /\ b = At("dispatching", n)

\* The pull request closes, or a finished one needs work again.
Drop(a, b)   == a.stage \in {"running", "retrying", "review"} /\ b = Free
Reopen(a, b) == a = Done /\ b = Free

Move(a, b) ==
    \/ Claim(a, b) \/ Fail(a, b) \/ Start(a, b) \/ Review(a, b) \/ Retry(a, b)
    \/ Finish(a, b) \/ Again(a, b) \/ Drop(a, b) \/ Reopen(a, b)

Working(f) == {k \in Prs : f[k].stage \in {"dispatching", "running"}}

Init == life = [k \in Prs |-> Free]

\* One event may move several pull requests.
Next ==
    /\ life' \in [Prs -> Life]
    /\ \A k \in Prs : life'[k] = life[k] \/ Move(life[k], life'[k])
    /\ Cardinality(Working(life')) <= MaxConcurrent

Spec == Init /\ [][Next]_life
=============================================================================
