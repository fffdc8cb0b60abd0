---------------------------- MODULE MCRunManager ----------------------------
(***************************************************************************)
(* Small instances of RunManager.  A deployment is the set of operations   *)
(* its clients call and of the failures it meets: every run gives the      *)
(* model those its question is about.                                      *)
(***************************************************************************)
EXTENDS RunManager, TLC

CONSTANTS t1, t2, t3, c1, c2, p1, p2

\* Worktrees, and clients where there are two, are interchangeable wherever
\* no liveness is checked.
TaskSymmetry == Permutations({t1, t2})
ThreeTasks   == Permutations({t1, t2, t3})
Symmetry     == TaskSymmetry \cup Permutations({c1, c2})

NoBatch   == {}
OneBatch  == {<<t1, t2>>}

\* A queue fed by launches, enqueues and retries, whose entries may fail.
OpsQueue == {"launch", "enqueue", "retry", "cancel", "launch_failure"}

\* Every way a run can end but its own result, and the daemon's restart.
OpsPool == {"launch", "resume", "cancel", "shutdown", "cancel_queue", "check_stale",
            "disconnect", "restart"}

\* Runs of the same task one after the other, with late messages of the
\* earlier ones.
OpsFiles == {"launch", "retry", "cancel", "throw", "sidecar_crash"}

\* Permission requests, answered by users and by the timeout.
OpsPermissions == {"launch", "respond", "check_stale", "hang", "sidecar_crash", "disconnect"}

\* A batch whose runs end in every way.
OpsDrain == {"batch", "remove", "cancel", "check_stale", "hang", "sidecar_crash", "read_error"}
=============================================================================
