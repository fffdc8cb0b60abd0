------------------------------- MODULE Workflows -------------------------------
(***************************************************************************)
(* From a labelled issue or a merge to a run: the registry of definitions  *)
(* (WORKFLOW.md files), plan_dispatch, execute_dispatch_plan and the git    *)
(* worktree it makes.  The event loop handles one trigger at a time.        *)
(*                                                                         *)
(* A dispatch has two directories.  Its context, skill and task are written *)
(* to <repo>/.branchdeck/worktrees/<room>, where the run works; but          *)
(* create_worktree takes that path for a name, flattens and shortens it     *)
(* (sanitize_worktree_name), and makes the worktree beside the repository.   *)
(* Names are sequences of words, a number is the sequence of its digits.    *)
(***************************************************************************)
EXTENDS Integers, SequencesExt

CONSTANTS
    Issues,        \* the open issues with the label: [kind, number, labels]
    Merges,        \* the pull requests that may be merged: [kind, number, labels]
    Catalogues,    \* what the search directories may hold, as sequences of sets
                   \* of files [name, kind, label, valid, prompt], names unique in each
    Enabled,       \* enabled_workflows of the project, {} when it has no such list
    Alphabet,      \* the names of workflows in order
    Repos,         \* the paths at which the repository may lie
    Flat,          \* [word -> the word without signs and capitals]
    NAME_LENGTH,   \* the words that a name may have (80 letters)
    Faults,        \* what may fail
    MaxFaults, MaxEdits    \* bounds of the model

ASSUME WorkflowsAssumption ==
    /\ Faults \subseteq {"git", "link", "context", "skill", "task", "enqueue", "restart", "crash"}
    /\ NAME_LENGTH \in Nat

VARIABLES
    repo,          \* the path of the repository
    catalogue,     \* the files
    registry,      \* [name -> definition], as of the daemon's start
    branches, linked,    \* of the repository: branches; [name -> branch] of linked worktrees
    rooms,         \* [room -> what the directory holds]
    dispatch,      \* the dispatch at work
    taken,         \* triggers that are claimed
    going,         \* runs that the run manager has: [trigger, room]
    served,        \* history: triggers that got a run
    failures, edits

wvars == <<repo, catalogue, registry, branches, linked, rooms, dispatch, taken, going, served, failures, edits>>

Triggers == Issues \cup Merges

Nothing == "nothing"
NoDispatch == [todo |-> <<>>]
Bare == [context |-> {}, skill |-> Nothing, task |-> FALSE]

-----------------------------------------------------------------------------
(* The registry. *)

\* WorkflowRegistry::scan: later directories override earlier ones by name;
\* files that do not parse or validate are skipped.
Scan(c) ==
    LET load(reg, files) ==
            LET named(n) == {f \in files : f.valid /\ f.name = n}
            IN [n \in {n \in ToSet(Alphabet) : named(n) # {}} |-> CHOOSE f \in named(n) : TRUE] @@ reg
    IN FoldLeft(load, << >>, c)

\* matches_trigger.
Matches(def, t) ==
    /\ def.kind = t.kind
    /\ t.kind = "issue" /\ def.label # Nothing => def.label \in t.labels

Matching(t) == {n \in DOMAIN registry : Matches(registry[n], t) /\ (Enabled = {} \/ n \in Enabled)}

\* The first by name (plan_dispatch).
Chosen(t) == registry[SelectSeq(Alphabet, LAMBDA n : n \in Matching(t))[1]]

\* sanitize_worktree_name: flattened and cut.
Sanitized(words) ==
    SubSeq([i \in DOMAIN words |-> Flat[words[i]]], 1, Min({Len(words), NAME_LENGTH}))

\* derive_worktree_info.
Suffix(t, def) == <<def.name, t.kind>> \o t.number
BranchOf(t, def) == <<"workflow">> \o Suffix(t, def)

\* The directory below <repo>/.branchdeck/worktrees, and what create_worktree
\* makes of the path that leads there.
Room(t, def) == Sanitized(Suffix(t, def))
GitName(room) == Sanitized(repo \o <<".branchdeck", "worktrees">> \o room)

\* build_dispatch_plan.
Effects(def) == <<"worktree", "context">> \o (IF def.prompt THEN <<"skill">> ELSE <<>>) \o <<"enqueue">>

-----------------------------------------------------------------------------

WInit ==
    /\ repo \in Repos /\ catalogue \in Catalogues /\ registry = Scan(catalogue)
    /\ branches = {} /\ linked = << >> /\ rooms = << >>
    /\ dispatch = NoDispatch /\ taken = {} /\ going = {} /\ served = {}
    /\ failures = 0 /\ edits = 0

MayFail(what) == what \in Faults /\ failures < MaxFaults

Failed(yes) == failures' = IF yes THEN failures + 1 ELSE failures

\* The issues of every poll, a merge once: what is not claimed is claimed and
\* planned, and given back when no workflow matches.
Detect(t) ==
    /\ dispatch = NoDispatch /\ t \notin taken
    /\ IF Matching(t) = {} THEN taken' = taken \cup ({t} \cap Merges) /\ UNCHANGED dispatch
       ELSE /\ taken' = taken \cup {t}
            /\ dispatch' = [trigger |-> t, room |-> Room(t, Chosen(t)), def |-> Chosen(t),
                            todo |-> Effects(Chosen(t))]
    /\ UNCHANGED <<repo, catalogue, registry, branches, linked, rooms, going, served, failures, edits>>

Due(effect) == dispatch.todo # <<>> /\ Head(dispatch.todo) = effect

GoOn == dispatch' = [dispatch EXCEPT !.todo = Tail(@)] /\ UNCHANGED taken

\* The dispatch is over; without a run the issue is given back.
DispatchOver(run) ==
    /\ dispatch' = NoDispatch
    /\ taken' = IF run \/ dispatch.trigger \in Merges THEN taken ELSE taken \ {dispatch.trigger}

\* Mutant of BranchMade: a branch that is there already is made again.
BranchMadeAnew(b) == b \notin branches

\* repo.branch refuses a name that is taken, but an existing one is reused.
BranchMade(b) == TRUE

\* CreateWorktree: a room that exists is taken for the worktree.  Otherwise a
\* failure ends the dispatch and leaves the branch it may have made; one while git
\* makes the worktree ("link") may leave that, which git does not take back.
CreateWorktree ==
    LET name == GitName(dispatch.room)
        b == BranchOf(dispatch.trigger, dispatch.def)
        free == name \notin DOMAIN linked /\ \A n \in DOMAIN linked : linked[n] # b
    IN /\ Due("worktree")
       /\ IF dispatch.room \in DOMAIN rooms
          THEN GoOn /\ UNCHANGED <<branches, linked, failures>>
          ELSE \E fault \in {what \in {"git", "link"} : MayFail(what)} \cup {Nothing} :
                 /\ Failed(fault # Nothing)
                 /\ branches' = IF fault = "git" THEN branches ELSE branches \cup {b}
                 /\ linked' \in IF fault = "git" \/ ~BranchMade(b) \/ ~free THEN {linked}
                                ELSE {(name :> b) @@ linked} \cup (IF fault = "link" THEN {linked} ELSE {})
                 /\ IF fault = Nothing /\ BranchMade(b) /\ free THEN GoOn ELSE DispatchOver(FALSE)
       /\ UNCHANGED <<repo, catalogue, registry, rooms, going, served, edits>>

\* What a room holds; a write makes the directory when it is not there.
RoomHolds(room) == IF room \in DOMAIN rooms THEN rooms[room] ELSE Bare

RoomWritten(holds) == rooms' = (dispatch.room :> holds) @@ rooms

\* A write that fails may have made the directory.
RoomUnwritten == UNCHANGED rooms \/ RoomWritten(RoomHolds(dispatch.room))

\* WriteContext and DeploySkill: a failure is logged.
WriteContext ==
    /\ Due("context") /\ GoOn
    /\ \E ok \in BOOLEAN :
         /\ ok \/ MayFail("context")
         /\ Failed(~ok)
         /\ IF ok THEN RoomWritten([RoomHolds(dispatch.room) EXCEPT !.context = {dispatch.trigger}])
            ELSE RoomUnwritten
    /\ UNCHANGED <<repo, catalogue, registry, branches, linked, going, served, edits>>

DeploySkill ==
    /\ Due("skill") /\ GoOn
    /\ \E ok \in BOOLEAN :
         /\ ok \/ MayFail("skill")
         /\ Failed(~ok)
         /\ IF ok THEN RoomWritten([RoomHolds(dispatch.room) EXCEPT !.skill = dispatch.def.name]) ELSE RoomUnwritten
    /\ UNCHANGED <<repo, catalogue, registry, branches, linked, going, served, edits>>

\* EnqueueRun: task.md is written, and enqueue_run takes the run or refuses it.
EnqueueRun ==
    /\ Due("enqueue")
    /\ \E fault \in {what \in {"task", "enqueue"} : MayFail(what)} \cup {Nothing} :
         LET busy == \E r \in going : r.room = dispatch.room
             run == fault = Nothing /\ ~busy
             new == [trigger |-> dispatch.trigger, room |-> dispatch.room]
         IN /\ Failed(fault # Nothing)
            /\ IF fault = "task" THEN RoomUnwritten
               ELSE RoomWritten([RoomHolds(dispatch.room) EXCEPT !.task = TRUE])
            /\ going' = IF run THEN going \cup {new} ELSE going
            /\ served' = IF run THEN served \cup {dispatch.trigger} ELSE served
            /\ DispatchOver(run)
    /\ UNCHANGED <<repo, catalogue, registry, branches, linked, edits>>

\* A run ends; its claim and its retries are the orchestrator's.
EndRun(r) ==
    /\ going' = going \ {r}
    /\ UNCHANGED <<repo, catalogue, registry, branches, linked, rooms, dispatch, taken, served, failures, edits>>

\* A user edits the files, which the running daemon does not notice.
Edit ==
    /\ edits < MaxEdits /\ edits' = edits + 1
    /\ \E c \in Catalogues \ {catalogue} : catalogue' = c
    /\ UNCHANGED <<repo, registry, branches, linked, rooms, dispatch, taken, going, served, failures>>

\* The daemon starts again (load_registry): stopped at rest, or dead anywhere.
StartOver ==
    /\ MayFail("restart") /\ Failed(TRUE)
    /\ dispatch = NoDispatch \/ "crash" \in Faults
    /\ registry' = Scan(catalogue)
    /\ dispatch' = NoDispatch /\ taken' = taken \cap Merges /\ going' = {}
    /\ UNCHANGED <<repo, catalogue, branches, linked, rooms, served, edits>>

Execute == CreateWorktree \/ WriteContext \/ DeploySkill \/ EnqueueRun

WNext ==
    \/ \E t \in Triggers : Detect(t)
    \/ Execute
    \/ \E r \in going : EndRun(r)
    \/ Edit \/ StartOver

\* The poll brings every open issue again and again, one after the other.
WFairness == WF_wvars(Execute) /\ \A t \in Issues : SF_wvars(Detect(t))
-----------------------------------------------------------------------------
(* Properties. *)

\* No dispatch of the issue can succeed any more: git has a worktree of its name,
\* and its own directory, by which it would know that, is not there.
Stranded(t) ==
    /\ dispatch = NoDispatch /\ Matching(t) # {}
    /\ LET room == Room(t, Chosen(t)) IN room \notin DOMAIN rooms /\ GitName(room) \in DOMAIN linked

\* An issue that a workflow matches gets its run once the failures are over,
\* whichever effects of its dispatches failed, whatever they left behind and
\* wherever the daemon died, unless it is stranded (execute_dispatch_plan,
\* create_worktree).
IssueServed ==
    \A t \in Issues : (Matching(t) # {}) ~> (t \in served \/ Matching(t) = {} \/ Stranded(t))
=============================================================================
