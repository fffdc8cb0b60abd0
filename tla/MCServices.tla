------------------------------ MODULE MCServices ------------------------------
(***************************************************************************)
(* Small instances of the daemon's services that share no state with each  *)
(* other: the activity store, the two pollers, the workflows.  A behaviour *)
(* is one of one of them: "part" says which, and the others rest.          *)
(***************************************************************************)
EXTENDS ActivityStore, Pollers, Workflows

CONSTANT Parts

VARIABLE part

-----------------------------------------------------------------------------
(* The activity store: a session and a subagent. *)

Hook(kind, agent, tool) == [kind |-> kind, session |-> "s", agent |-> agent, tool |-> tool, path |-> "f"]

SomeEvents == {Hook("SessionStart", NoAgent, ""), Hook("ToolEnd", NoAgent, "Edit"),
               Hook("SubagentStart", "a", ""), Hook("SessionStop", NoAgent, ""),
               Hook("RetryDue", NoAgent, "")}
-----------------------------------------------------------------------------
(* The pollers: two repositories with an open pull request each. *)

TwoRepos == <<"a", "b">>
OneOpen  == ("a" :> {1}) @@ ("b" :> {1})
-----------------------------------------------------------------------------
(* The workflows: the definitions shipped, alone or with a project's.  An   *)
(* invalid file hides nothing; a valid one replaces the shipped one.        *)

Trigger(kind, n) == [kind |-> kind, number |-> n, labels |-> {"agent:implement"}]

\* Issues 1 and 12, and the merge of 3.
TwoIssues == {Trigger("issue", <<"1">>), Trigger("issue", <<"1", "2">>)}
OneMerge  == {Trigger("merge", <<"3">>)}

File(name, kind, label, valid) ==
    [name |-> name, kind |-> kind, label |-> label, valid |-> valid, prompt |-> name # "rescore"]

Shipped == {File("implement", "issue", "agent:implement", TRUE), File("rescore", "merge", Nothing, TRUE)}

OnlyShipped == <<{}, Shipped, {}>>

SomeCatalogues ==
    {OnlyShipped,
     <<{File("implement", "issue", Nothing, FALSE)}, Shipped, {File("Fix", "issue", Nothing, TRUE)}>>,
     <<Shipped, {}, {File("implement", "merge", Nothing, TRUE), File("rescore", "merge", Nothing, FALSE)}>>}

Names == <<"Fix", "implement", "rescore">>

\* Below the one, a worktree's name of eight words says which room it is of; below
\* the other, that of issue 12 loses its last digit.
ShortRepo == <<"home", "deck">>
LongRepo  == <<"home", "work", "deck">>
SomePaths == {ShortRepo, LongRepo}

Words == ToSet(ShortRepo \o LongRepo \o Names)
           \cup {".branchdeck", "branchdeck", "worktrees", "fix", "issue", "merge", "1", "2", "3"}

Flattened == [w \in Words |-> CASE w = ".branchdeck" -> "branchdeck" [] w = "Fix" -> "fix" [] OTHER -> w]
-----------------------------------------------------------------------------

HostInit ==
    /\ part \in Parts /\ AInit /\ PInit /\ WInit
    /\ part # "workflows" => repo = ShortRepo
    /\ (part = "workflows" /\ repo = ShortRepo) <=> catalogue # OnlyShipped

ActivityStep(A)  == part = "activity" /\ A /\ UNCHANGED <<part, pvars, wvars>>
PollStep(p, A)   == part = p /\ A /\ UNCHANGED <<part, avars, wvars>>
WorkflowStep(A)  == part = "workflows" /\ A /\ UNCHANGED <<part, avars, pvars>>

HostNext ==
    \/ ActivityStep(ANext)
    \/ \E p \in PollerSet : PollStep(p, PollingNext({p}))
    \/ WorkflowStep(WNext)

hvars == <<part, avars, pvars, wvars>>

\* PFairness or WFairness, whichever part it is.
HostFairness ==
    /\ WF_hvars(\/ \E p \in PollerSet : PollStep(p, Poll(p))
                \/ WorkflowStep(Execute))
    /\ \A t \in TwoIssues : SF_hvars(WorkflowStep(Detect(t)))

HostSpec == HostInit /\ [][HostNext]_hvars /\ HostFairness

\* ListsConverge of the pull request poller, when it is at work.
PollerListsConverge == part = "prs" => ListsConverge

\* IssueServed of the workflows, when they are at work.
WorkflowIssueServed == part = "workflows" => IssueServed
=============================================================================
