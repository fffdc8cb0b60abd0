-------------------------------- MODULE Pollers --------------------------------
(***************************************************************************)
(* pr_poller and merge_poller over the GitHub client.  A round asks for one *)
(* repository after the other, each with the retries of with_retry, while   *)
(* GitHub goes on changing; what could be learnt is compared with what is   *)
(* remembered of earlier rounds and published on the event bus.             *)
(*                                                                         *)
(* issue_poller publishes whatever it gets and remembers nothing that       *)
(* matters (Orchestrator!PollIssues).  A page is taken to hold everything:  *)
(* 100 open pull requests of a repository, 20 closed since the last round.  *)
(***************************************************************************)
EXTENDS Integers, SequencesExt

CONSTANTS
    RepoPaths,           \* the sequence repo_paths
    Numbers,         \* of pull requests
    Opened,          \* [repo -> the numbers that are open at first]
    MAX_RETRIES,
    MaxChanges, MaxErrors, MaxRestarts    \* bounds of the model

ASSUME PollersAssumption ==
    /\ IsInjective(RepoPaths) /\ MAX_RETRIES \in Nat /\ Opened \in [ToSet(RepoPaths) -> SUBSET Numbers]

PollerSet == {"prs", "merges"}

VARIABLES
    hub,         \* GitHub: [repo -> [number -> [state, head]]]
    round,       \* [poller -> the round it is in]
    lastState,   \* pr_poller's, repositories without pull requests left out
    seen, first, \* merge_poller's seen_merged and first_tick
    told,        \* history: [repo -> the list published last]
    rescored,    \* history: [repo and number -> how often published as merged]
    due,         \* history: the merges since merge_poller's first round with an answer
    changed, errors, restarts

pvars == <<hub, round, lastState, seen, first, told, rescored, due, changed, errors, restarts>>

RepoSet == ToSet(RepoPaths)
Prs == RepoSet \X Numbers

Waiting == [todo |-> <<>>, attempt |-> 0, got |-> << >>, over |-> TRUE]

PInit ==
    /\ hub = [r \in RepoSet |-> [n \in Numbers |->
                [state |-> IF n \in Opened[r] THEN "open" ELSE "none", head |-> 0]]]
    /\ round = [p \in PollerSet |-> Waiting]
    /\ lastState = << >> /\ seen = {} /\ first = TRUE
    /\ told = [r \in RepoSet |-> {}] /\ rescored = [m \in Prs |-> 0] /\ due = {}
    /\ changed = 0 /\ errors = 0 /\ restarts = 0

Open(r) == {[number |-> n, head |-> hub[r][n].head] : n \in {n \in Numbers : hub[r][n].state = "open"}}

Merged(r) == {n \in Numbers : hub[r][n].state = "merged"}

-----------------------------------------------------------------------------
(* GitHub. *)

Becomes(r, n, s) ==
    /\ changed < MaxChanges /\ changed' = changed + 1
    /\ hub' = [hub EXCEPT ![r][n].state = s]
    /\ due' = IF s = "merged" /\ ~first THEN due \cup {<<r, n>>} ELSE due
    /\ UNCHANGED <<round, lastState, seen, first, told, rescored, errors, restarts>>

OpenPr(r, n)  == hub[r][n].state \in {"none", "closed"} /\ Becomes(r, n, "open")
ClosePr(r, n) == hub[r][n].state = "open" /\ Becomes(r, n, "closed")
MergePr(r, n) == hub[r][n].state = "open" /\ Becomes(r, n, "merged")

PushTo(r, n) ==
    /\ hub[r][n].state = "open" /\ changed < MaxChanges /\ changed' = changed + 1
    /\ hub' = [hub EXCEPT ![r][n].head = @ + 1]
    /\ UNCHANGED <<round, lastState, seen, first, told, rescored, due, errors, restarts>>

-----------------------------------------------------------------------------
(* A round. *)

RoundFrame == UNCHANGED <<hub, lastState, seen, first, told, rescored, due, changed, restarts>>

StartRound(p) ==
    /\ round[p].over
    /\ round' = [round EXCEPT ![p] = [Waiting EXCEPT !.todo = RepoPaths, !.over = FALSE]]
    /\ errors' = errors /\ RoundFrame

NextRepo(p) == [round[p] EXCEPT !.todo = Tail(@), !.attempt = 0]

Answered(p) ==
    LET r == Head(round[p].todo) IN
    /\ round[p].todo # <<>>
    /\ round' = [round EXCEPT ![p] =
         [NextRepo(p) EXCEPT !.got = (r :> IF p = "prs" THEN Open(r) ELSE Merged(r)) @@ @]]
    /\ errors' = errors /\ RoundFrame

\* with_retry: an error that is_transient is asked again after a while, any
\* other ends it; list_all_* goes on with the next repository.
Refused(p, transient) ==
    /\ round[p].todo # <<>> /\ errors < MaxErrors /\ errors' = errors + 1
    /\ round' = [round EXCEPT ![p] =
         IF transient /\ round[p].attempt < MAX_RETRIES
         THEN [@ EXCEPT !.attempt = @ + 1] ELSE NextRepo(p)]
    /\ RoundFrame

Asked(p) == ~round[p].over /\ round[p].todo = <<>>

\* Every repository failed: the round is given up.
GiveRoundUp(p) ==
    /\ Asked(p) /\ round[p].got = << >>
    /\ round' = [round EXCEPT ![p] = Waiting]
    /\ errors' = errors /\ RoundFrame

\* Mutant of HasChanges: lists of the same length are taken for the same.
HasChangesInLength(prev, current) == Cardinality(prev) # Cardinality(current)

HasChanges(prev, current) == Cardinality(prev) # Cardinality(current) \/ ~(current \subseteq prev)

\* group_by_repo: repositories without open pull requests do not appear.
Grouped(got) == Restrict(got, {r \in DOMAIN got : got[r] # {}})

\* publish_changes of pr_poller: the lists that differ, and an empty list for
\* every repository that does not appear any more.
PublishPrs ==
    LET current == Grouped(round["prs"].got)
        news == {r \in DOMAIN current : r \in DOMAIN lastState => HasChanges(lastState[r], current[r])}
        gone == DOMAIN lastState \ DOMAIN current
    IN /\ Asked("prs") /\ round["prs"].got # << >>
       /\ told' = [r \in RepoSet |-> IF r \in news THEN current[r] ELSE IF r \in gone THEN {} ELSE told[r]]
       /\ lastState' = current
       /\ round' = [round EXCEPT !["prs"] = Waiting]
       /\ UNCHANGED <<hub, seen, first, rescored, due, changed, errors, restarts>>

\* Mutants of SeenAfter: only the merges of this round are remembered; and pull
\* requests that are not merged yet are remembered too.
SeenNow(merged) == merged
SeenAny(merged) == seen \cup merged \cup {m \in Prs : hub[m[1]][m[2]].state # "none"}

SeenAfter(merged) == seen \cup merged

\* The first round that does not fail only fills seen_merged.
PublishMerges ==
    LET got == round["merges"].got
        merged == UNION {{r} \X got[r] : r \in DOMAIN got}
    IN /\ Asked("merges") /\ got # << >>
       /\ seen' = SeenAfter(merged) /\ first' = FALSE
       /\ rescored' = [m \in Prs |-> IF ~first /\ m \in merged \ seen THEN rescored[m] + 1 ELSE rescored[m]]
       /\ round' = [round EXCEPT !["merges"] = Waiting]
       /\ UNCHANGED <<hub, lastState, told, due, changed, errors, restarts>>

\* The daemon starts again; whoever listened has forgotten what it was told.
StartAgain ==
    /\ restarts < MaxRestarts /\ restarts' = restarts + 1
    /\ round' = [p \in PollerSet |-> Waiting]
    /\ lastState' = << >> /\ seen' = {} /\ first' = TRUE
    /\ told' = [r \in RepoSet |-> {}] /\ rescored' = [m \in Prs |-> 0] /\ due' = {}
    /\ UNCHANGED <<hub, changed, errors>>

Poll(p) ==
    \/ StartRound(p) \/ Answered(p) \/ GiveRoundUp(p)
    \/ p = "prs" /\ PublishPrs
    \/ p = "merges" /\ PublishMerges

\* The pollers at work and GitHub.
PollingNext(pollers) ==
    \/ \E r \in RepoSet, n \in Numbers : OpenPr(r, n) \/ ClosePr(r, n) \/ MergePr(r, n) \/ PushTo(r, n)
    \/ \E p \in pollers : Poll(p) \/ \E transient \in BOOLEAN : Refused(p, transient)
    \/ StartAgain

PNext == PollingNext(PollerSet)

\* The intervals tick and GitHub answers again.
PFairness == \A p \in PollerSet : WF_pvars(Poll(p))

PSpec == PInit /\ [][PNext]_pvars /\ PFairness
-----------------------------------------------------------------------------
(* Properties. *)

\* When GitHub rests, what the orchestrator was told last of a repository is
\* what is open there, also after rounds in which some repositories failed and
\* lists that were asked for before a change (publish_changes, has_changes).
ListsConverge == <>[](\A r \in RepoSet : told[r] = Open(r))

\* No pull request is published as merged twice, whatever rounds fail in whole
\* or in part, as long as the daemon runs (publish_new_merges).
NeverToldTwice == \A m \in Prs : rescored[m] <= 1

\* When GitHub rests, every pull request that was merged after the first round that
\* had an answer from any repository, since the daemon started last, is published as
\* merged (publish_new_merges).  One that is merged before that round, while GitHub
\* cannot be reached from a daemon that runs already, is taken for old and is not.
MergesTold == <>[](\A m \in due : rescored[m] = 1)

\* "Detect repos that no longer have open PRs" (pr_poller.rs): a list becomes
\* empty only by an answer that has no open pull request.
EmptiedByAnswer ==
    [][\A r \in RepoSet : told[r] # {} /\ told'[r] = {} /\ restarts' = restarts
          => r \in DOMAIN round["prs"].got]_pvars
=============================================================================
