------------------------------ MODULE SatRecords ------------------------------
(***************************************************************************)
(* The two files in which the satisfaction tests remember: the issues that *)
(* users labelled as false positives (.branchdeck/sat-false-positives.json,*)
(* written by requests to the daemon) and the learnings (sat/learnings.yaml,*)
(* written by workflow agents).  Every writer reads the whole file, adds to *)
(* it and replaces it through write_atomic: a temporary file beside it that *)
(* is created or truncated, filled and renamed.                            *)
(*                                                                         *)
(* Files have inodes here, for a writer keeps the one it has opened when    *)
(* another writer renames it.  A file that is empty or cut short does not   *)
(* parse.  The two lists of learnings.yaml are one list of entries.         *)
(***************************************************************************)
EXTENDS SatScoring

CONSTANTS
    Workers,         \* handlers of the daemon and agents at work at once
    IssueNumbers, IssueRepos, Labels,
    Results,         \* what score_run may have made of a run
    CycleEnds,       \* how a verification may end: [report, comparison, iteration, false_positives]
    MaxCalls         \* bound of the model: calls begun

ASSUME RecordsAssumption == MaxCalls \in Nat /\ IsFiniteSet(Workers)

\* What is left of a list of findings is a list, and no finding is a cycle.
ResultsAssumption ==
    \A res \in Results :
        /\ HighConfidence(res) \in Seq(Range(HighConfidence(res)))
        /\ \A n \in DOMAIN HighConfidence(res) : "outcome" \notin DOMAIN HighConfidence(res)[n]

ASSUME ResultsAssumption

\* An agent that ends a cycle says how many false positives it saw: any number,
\* also more than it compared scenarios.
CyclesAssumption ==
    \A e \in CycleEnds : e.false_positives \in Nat /\ IsFiniteSet(DOMAIN e.comparison.scenarios)

ASSUME CyclesAssumption

VARIABLES
    names,      \* [file -> [path, tmp]]: inodes, 0 when there is no such name
    inodes,     \* [inode -> content]
    work,       \* [worker -> job]
    labelled,   \* issues that carry a label on GitHub
    answered,   \* issues whose labelling was answered with success
    calls,
    overlapped  \* history: files that two workers were once replacing at the same time

rvars == <<names, inodes, work, labelled, answered, calls, overlapped>>

Files == {"positives", "learnings"}

Cut == [whole |-> FALSE, list |-> <<>>]

Whole(list) == [whole |-> TRUE, list |-> list]

\* A writer holds one inode, the names of the two files two each.
Inodes == 1..(Cardinality(Workers) + 4)

Idle == [pc |-> "idle", op |-> "none", items |-> <<>>, list |-> <<>>, inode |-> 0]

FileOf(op) == IF op = "label" THEN "positives" ELSE "learnings"

\* The record of an issue, and whether the list has one (record_false_positive
\* does not look at the label).
Record(i, r, l) == [issue |-> i, repo |-> r, label |-> l]

\* Mutant of Recorded: issues are told apart by their number alone.
RecordedAnywhere(list, item) == \E n \in DOMAIN list : list[n].issue = item.issue

Recorded(list, item) == \E n \in DOMAIN list : list[n].issue = item.issue /\ list[n].repo = item.repo

RInit ==
    /\ names = [f \in Files |-> [path |-> 0, tmp |-> 0]]
    /\ inodes = [i \in Inodes |-> Cut]
    /\ work = [w \in Workers |-> Idle]
    /\ labelled = {} /\ answered = {} /\ calls = 0 /\ overlapped = {}

\* What a reader of the file gets: nothing there is an empty list.
Content(f) == IF names[f].path = 0 THEN Whole(<<>>) ELSE inodes[names[f].path]

InodesHeld == {work[w].inode : w \in Workers} \cup UNION {{names[f].path, names[f].tmp} : f \in Files}

\* The workers that have read a file and not yet replaced it.  Nothing keeps
\* two of them apart: the handlers take no lock, and agents are processes.
Replacing(f) == {w \in Workers : work[w].pc \in {"create", "write", "rename"} /\ FileOf(work[w].op) = f}

-----------------------------------------------------------------------------
(* A call begins. *)

Begin(w, op, items) ==
    /\ work[w] = Idle /\ calls < MaxCalls /\ calls' = calls + 1
    /\ work' = [work EXCEPT ![w] = [Idle EXCEPT !.pc = "load", !.op = op, !.items = items]]
    /\ UNCHANGED <<names, inodes, labelled, answered, overlapped>>

\* POST /api/sat/false-positive, GET .../metrics, score_run after it has
\* written its report, write_cycle_learning.
Label(w)   == \E i \in IssueNumbers, r \in IssueRepos, l \in Labels : Begin(w, "label", <<Record(i, r, l)>>)
Metrics(w) == Begin(w, "metrics", <<>>)
Learn(w)   == \E res \in Results :
    HighConfidence(res) # <<>> /\ Begin(w, "learn", HighConfidence(res))
Cycle(w)   == \E e \in CycleEnds :
    Begin(w, "cycle", <<CycleLearning(e.report, e.comparison, e.iteration, e.false_positives)>>)

-----------------------------------------------------------------------------
(* Its steps. *)

Step(w, pc) == work[w].pc = pc

Done(w) == work' = [work EXCEPT ![w] = Idle]

Goes(w, pc, list) == work' = [work EXCEPT ![w].pc = pc, ![w].list = list]

\* A file that does not parse ends the call, but score_run starts a new list
\* (unwrap_or_default); an issue that is recorded already is not written.
Load(w) ==
    LET f == IF work[w].op = "metrics" THEN "positives" ELSE FileOf(work[w].op)
        c == Content(f)
        items == work[w].items
    IN /\ Step(w, "load")
       /\ CASE ~c.whole /\ work[w].op # "learn" -> Done(w)
            [] work[w].op = "metrics" -> Goes(w, "learned", c.list)
            [] work[w].op = "label" /\ Recorded(c.list, Head(items)) -> Goes(w, "learned", c.list)
            [] OTHER -> Goes(w, "create", c.list \o items)
       /\ overlapped' = IF work'[w].pc = "create" /\ Replacing(f) # {} THEN overlapped \cup {f}
                        ELSE overlapped
       /\ UNCHANGED <<names, inodes, labelled, answered, calls>>

\* Mutant of Target: the file is written in place.
InPlace(f) == IF names[f].path # 0 THEN names[f].path ELSE names[f].tmp

\* File::create truncates a temporary file that is there already.
Target(f) == names[f].tmp

Create(w) ==
    LET f == FileOf(work[w].op) IN
    /\ Step(w, "create")
    /\ IF Target(f) # 0
       THEN /\ inodes' = [inodes EXCEPT ![Target(f)] = Cut]
            /\ work' = [work EXCEPT ![w].pc = "write", ![w].inode = Target(f)]
            /\ UNCHANGED names
       ELSE LET i == Min(Inodes \ InodesHeld) IN
            /\ inodes' = [inodes EXCEPT ![i] = Cut]
            /\ work' = [work EXCEPT ![w].pc = "write", ![w].inode = i]
            /\ names' = [names EXCEPT ![f].tmp = i]
    /\ UNCHANGED <<labelled, answered, calls, overlapped>>

\* Content that is longer stays behind what is written over its beginning.
Write(w) ==
    LET i == work[w].inode IN
    /\ Step(w, "write")
    /\ \E torn \in BOOLEAN :
         /\ torn => inodes[i].whole
         /\ inodes' = [inodes EXCEPT ![i] = IF torn THEN Cut ELSE Whole(work[w].list)]
    /\ work' = [work EXCEPT ![w].pc = "rename"]
    /\ UNCHANGED <<names, labelled, answered, calls, overlapped>>

\* The rename fails when another writer has renamed the file: the call ends.
Rename(w) ==
    LET f == FileOf(work[w].op) IN
    /\ Step(w, "rename")
    /\ IF names[f].tmp # 0
       THEN names' = [names EXCEPT ![f] = [path |-> names[f].tmp, tmp |-> 0]]
       ELSE UNCHANGED names
    /\ work' = [work EXCEPT ![w] = IF names[f].tmp # 0 /\ work[w].op = "label"
                                   THEN [@ EXCEPT !.pc = "learned", !.inode = 0] ELSE Idle]
    /\ UNCHANGED <<inodes, labelled, answered, calls, overlapped>>

\* The metrics are computed from the learnings as they are now; the call
\* fails when they do not parse, after the record was saved.
Learned(w) ==
    /\ Step(w, "learned")
    /\ IF Content("learnings").whole /\ work[w].op = "label"
       THEN Goes(w, "hub", work[w].list) ELSE Done(w)
    /\ UNCHANGED <<names, inodes, labelled, answered, calls, overlapped>>

IssueOf(item) == <<item.issue, item.repo>>

\* The label on GitHub: that it fails is only logged.
LabelOnHub(w, ok) ==
    /\ Step(w, "hub") /\ Done(w)
    /\ labelled' = IF ok THEN labelled \cup {IssueOf(Head(work[w].items))} ELSE labelled
    /\ answered' = answered \cup {IssueOf(Head(work[w].items))}
    /\ UNCHANGED <<names, inodes, calls, overlapped>>

\* The process dies or the disk refuses: the temporary file stays.
GiveUp(w) ==
    /\ ~Step(w, "idle") /\ Done(w)
    /\ UNCHANGED <<names, inodes, labelled, answered, calls, overlapped>>

RNext == \E w \in Workers :
    \/ Label(w) \/ Metrics(w) \/ Learn(w) \/ Cycle(w)
    \/ Load(w) \/ Create(w) \/ Write(w) \/ Rename(w) \/ Learned(w) \/ GiveUp(w)
    \/ \E ok \in BOOLEAN : LabelOnHub(w, ok)

RSpec == RInit /\ [][RNext]_rvars
-----------------------------------------------------------------------------
(* Properties. *)

CyclesIn(list) == Restrict(list, {n \in DOMAIN list : "outcome" \in DOMAIN list[n]})

\* The rate of false positives is a rate, whatever is labelled before and after
\* the first cycle, unless a recorded cycle itself counts more false positives
\* than scenarios: compute_false_positive_metrics counts an issue once that a
\* cycle found and a user labelled.
RateWithin ==
    LET cycles == CyclesIn(Content("learnings").list)
        m == FalsePositiveMetrics(cycles, Len(Content("positives").list))
    IN m.fp <= m.issues \/ \E n \in DOMAIN cycles : cycles[n].false_positives > cycles[n].found

\* As long as no two workers were replacing a file at once, no reader finds it
\* cut short and none of its entries is ever lost, whatever dies in the middle
\* and leaves a temporary file behind (write_atomic).
EntriesKept ==
    [][\A f \in Files \ overlapped' : Content(f)' # Content(f) =>
          Content(f)'.whole /\ IsPrefix(Content(f).list, Content(f)'.list)]_rvars

\* As long as no two requests were saving a label at once, an issue whose
\* labelling was answered with success, or that was labelled on GitHub, has its
\* record, and one only: a retry of a call that failed after saving does not
\* count twice (record_false_positive).
LabelsRecorded ==
    LET list == Content("positives").list
        of(x) == {n \in DOMAIN list : IssueOf(list[n]) = x}
    IN "positives" \notin overlapped =>
         /\ \A x \in answered \cup labelled : of(x) # {}
         /\ \A n \in DOMAIN list : of(IssueOf(list[n])) = {n}
=============================================================================
