---------------------------- MODULE ActivityStore ----------------------------
(***************************************************************************)
(* What the agents are doing: hooks of the agents post to the hook         *)
(* receiver, which publishes events; the activity store takes them off the *)
(* bus, appends each to activity.jsonl and then applies it to its maps of  *)
(* agents and files.  After a restart the maps are rebuilt from the file,  *)
(* whose older lines a compaction drops.  A collector forgets what has not *)
(* been active for a while.                                                *)
(*                                                                         *)
(* writeln! makes two writes of a line: its text and the line's end.  A    *)
(* text without an end is continued by the next append.                    *)
(***************************************************************************)
EXTENDS Integers, SequencesExt

CONSTANTS
    Events,        \* what may be published: [kind, session, agent, tool, path]
    MAX_PERSISTED_EVENTS,
    BUS_CAPACITY,
    TTL,           \* of the collector
    MaxPosts, MaxTime, MaxLosses    \* bounds of the model

ASSUME ActivityAssumption == /\ MAX_PERSISTED_EVENTS \in Nat \ {0} /\ BUS_CAPACITY \in Nat \ {0}
                             /\ TTL \in Nat

VARIABLES
    time,       \* now_ms
    bus,        \* what the store's receiver has still to take
    writing,    \* how far handle_event is: "free", "text", "lock"
    event,      \* the event it handles
    log,        \* the lines of activity.jsonl that parse
    cut,        \* what the file ends with: "line", "text" without an end, "torn"
    garbled,    \* a text was cut inside a character: the file is no UTF-8 from there on
    store,      \* StoreInner: [agents, files, events]
    posts, faults,
    truth,      \* history: the agents of a store that forgets nothing
    kept,       \* history: how many appends succeeded
    hurt        \* history: the agents of which an append was lost

avars == <<time, bus, writing, event, log, cut, garbled, store, posts, faults, truth, kept, hurt>>

NoEvent == [kind |-> "none"]

NoAgent == ""

\* What the hooks of an agent's session post: the session's own events name no
\* agent and no tool, those of a subagent name it, those of a tool say which.  (A
\* tool that fails posts no end.)
HookPost(e) ==
    \/ e.kind \in {"SessionStart", "SessionStop", "Notification"} /\ e.agent = NoAgent /\ e.tool = ""
    \/ e.kind \in {"SubagentStart", "SubagentStop"} /\ e.agent # NoAgent /\ e.tool = ""
    \/ e.kind \in {"ToolStart", "ToolEnd"} /\ e.tool # ""

ASSUME HookAssumption == \A e \in Events : e.kind = "RetryDue" \/ HookPost(e)

-----------------------------------------------------------------------------
(* What an event does to the maps. *)

Key(e) == <<e.session, e.agent>>

NewAgent(e) == [status |-> "Active", tool |-> "", started |-> e.ts, last |-> e.ts]

\* An agent that is not known stays unknown; one that has stopped is revived
\* by any later tool event.
Agents(agents, e) ==
    LET known(status, tool) ==
            IF Key(e) \notin DOMAIN agents THEN agents
            ELSE [agents EXCEPT ![Key(e)] = [@ EXCEPT !.status = status, !.tool = tool, !.last = e.ts]]
    IN CASE e.kind \in {"SessionStart", "SubagentStart"} ->
              [k \in DOMAIN agents \cup {Key(e)} |-> IF k = Key(e) THEN NewAgent(e) ELSE agents[k]]
         [] e.kind = "ToolStart" -> known("Active", e.tool)
         [] e.kind = "ToolEnd"   -> known("Idle", "")
         [] e.kind \in {"SubagentStop", "SessionStop"} /\ Key(e) \in DOMAIN agents ->
              known("Stopped", agents[Key(e)].tool)
         [] e.kind = "Notification" /\ Key(e) \in DOMAIN agents ->
              known(agents[Key(e)].status, agents[Key(e)].tool)
         [] OTHER -> agents

FileTools == {"Read", "Write", "Edit", "Glob", "Grep"}

\* extract_file_path knows where five tools say which file they touch.
Touches(e) == e.kind \in {"ToolStart", "ToolEnd"} /\ e.tool \in FileTools

FilesAfter(files, e) ==
    IF ~Touches(e) THEN files
    ELSE LET old == IF e.path \in DOMAIN files THEN files[e.path]
                    ELSE [agent |-> Key(e), last |-> 0, count |-> 0, modified |-> FALSE]
         IN (e.path :> [agent |-> Key(e), last |-> e.ts, count |-> old.count + 1,
                        modified |-> old.modified
                                       \/ (e.kind = "ToolEnd" /\ e.tool \in {"Write", "Edit"})])
              @@ files

\* Mutant of Tail10k: the oldest are kept.
Head10k(events) == SubSeq(events, 1, Min({MAX_PERSISTED_EVENTS, Len(events)}))

Tail10k(events) ==
    SubSeq(events, Max({1, Len(events) - MAX_PERSISTED_EVENTS + 1}), Len(events))

Apply(s, e) ==
    [agents |-> Agents(s.agents, e), files |-> FilesAfter(s.files, e),
     events |-> Tail10k(Append(s.events, e))]

Empty == [agents |-> << >>, files |-> << >>, events |-> <<>>]

Replay(events) ==
    LET maps == FoldLeft(Apply, Empty, events)
    IN [agents |-> maps.agents, files |-> maps.files, events |-> events]

-----------------------------------------------------------------------------

AInit ==
    /\ time = 1 /\ bus = <<>> /\ writing = "free" /\ event = NoEvent
    /\ log = <<>> /\ cut = "line" /\ garbled = FALSE /\ store = Empty
    /\ posts = 0 /\ faults = 0
    /\ truth = << >> /\ kept = 0 /\ hurt = {}

\* A hook is posted, or the rest of the daemon publishes; no hook waits for its
\* post, so they come in any order.  A receiver that is behind by more than the
\* capacity skips the oldest events.
Publish(e) ==
    /\ posts < MaxPosts /\ posts' = posts + 1
    /\ LET all == Append(bus, e @@ [ts |-> time])
       IN bus' = IF Len(bus) < BUS_CAPACITY THEN all ELSE Tail(all)
    /\ UNCHANGED <<time, writing, event, log, cut, garbled, store, faults, truth, kept, hurt>>

\* RetryDue has no time and is neither kept nor applied.
Skip ==
    /\ writing = "free" /\ bus # <<>> /\ Head(bus).kind = "RetryDue"
    /\ bus' = Tail(bus)
    /\ UNCHANGED <<time, writing, event, log, cut, garbled, store, posts, faults, truth, kept, hurt>>

\* Mutant of LinesWith: the file is opened without the append flag.
LinesOver(line, ok) == <<line>>

\* What an append makes of the file, "ok" when it writes the whole text: after
\* something without an end it is one line with it, and neither parses.
LinesWith(line, ok) ==
    CASE cut = "line" /\ ok -> Append(log, line)
      [] cut = "text" -> Front(log)
      [] OTHER -> log

\* The agents of the lines that do not parse then.
Broken(line, ok) ==
    (IF cut = "text" THEN {Key(Last(log))} ELSE {})
      \cup (IF cut = "line" /\ ok THEN {} ELSE {Key(line)})

\* The "whole" text of the line is written; on a full disk a "part", which may
\* end "inside" a character: titles, paths and messages are written as they are.
AppendText(how) ==
    LET ok == how = "whole" IN
    /\ writing = "free" /\ bus # <<>> /\ Head(bus).kind # "RetryDue"
    /\ ok \/ faults < MaxLosses
    /\ event' = Head(bus) /\ bus' = Tail(bus)
    /\ log' = LinesWith(Head(bus), ok)
    /\ cut' = IF cut = "line" /\ ok THEN "text" ELSE "torn"
    /\ garbled' = (garbled \/ how = "inside")
    /\ hurt' = hurt \cup Broken(Head(bus), ok)
    /\ writing' = IF ok THEN "text" ELSE "lock"
    /\ faults' = IF ok THEN faults ELSE faults + 1
    /\ truth' = Agents(truth, Head(bus))
    /\ UNCHANGED <<time, store, posts, kept>>

EndLine ==
    /\ writing = "text" /\ writing' = "lock"
    /\ cut' = "line" /\ kept' = kept + 1
    /\ UNCHANGED <<time, bus, event, log, garbled, store, posts, faults, truth, hurt>>

\* The rest of handle_event, under the lock: also when the append failed.
ApplyEvent ==
    /\ writing = "lock" /\ writing' = "free"
    /\ store' = Apply(store, event) /\ event' = NoEvent
    /\ UNCHANGED <<time, bus, log, cut, garbled, posts, faults, truth, kept, hurt>>

Fresh(t) == t + TTL >= time

Remembered(agents) == {k \in DOMAIN agents : Fresh(agents[k].last)}

\* start_gc, once a minute.
Collect ==
    LET files == {p \in DOMAIN store.files : Fresh(store.files[p].last)} IN
    /\ Remembered(store.agents) # DOMAIN store.agents \/ files # DOMAIN store.files
    /\ store' = [store EXCEPT !.agents = Restrict(store.agents, Remembered(store.agents)),
                              !.files = Restrict(store.files, files)]
    /\ UNCHANGED <<time, bus, writing, event, log, cut, garbled, posts, faults, truth, kept, hurt>>

Compacted(events) == [lines |-> events, cut |-> "line"]

\* What a start reads of the file: nothing when one of its lines is no UTF-8,
\* for that ends the load before it has applied any.
Loaded == IF garbled THEN <<>> ELSE log

\* The daemon dies and starts again: what was on the bus is gone.  The file is
\* "unread" when it cannot be opened or read; when it was and holds too much it
\* is "compacted", unless that fails.
Restart(how) ==
    LET file == IF how = "compacted" /\ Len(Loaded) > MAX_PERSISTED_EVENTS
                THEN Compacted(Tail10k(log)) ELSE [lines |-> log, cut |-> cut]
    IN /\ faults < MaxLosses /\ faults' = faults + 1
       /\ bus' = <<>> /\ writing' = "free" /\ event' = NoEvent
       /\ store' = IF how = "unread" THEN Empty ELSE Replay(Tail10k(Loaded))
       /\ log' = file.lines /\ cut' = file.cut
       /\ UNCHANGED <<time, garbled, posts, truth, kept, hurt>>

Pass ==
    /\ time < MaxTime /\ time' = time + 1
    /\ UNCHANGED <<bus, writing, event, log, cut, garbled, store, posts, faults, truth, kept, hurt>>

ANext ==
    \/ \E e \in Events : Publish(e)
    \/ Skip \/ EndLine \/ ApplyEvent \/ Collect \/ Pass
    \/ \E how \in {"whole", "part", "inside"} : AppendText(how)
    \/ \E how \in {"unread", "read", "compacted"} : Restart(how)

ASpec == AInit /\ [][ANext]_avars
-----------------------------------------------------------------------------
(* Properties. *)

\* What the store says of an agent is what all its events say, whatever
\* restarts, compactions and collections came between, as long as no append
\* of one of its events was lost (replay_events_sync, handle_event).
AgentsTrue ==
    writing = "free" => \A k \in DOMAIN store.agents \ hurt :
        k \in DOMAIN truth /\ store.agents[k] = truth[k]

\* Of the last MAX_PERSISTED_EVENTS appended, a start reads back all but one for
\* each crash and each append cut short: the part of LossBounded without exception.
EventsSurvive ==
    Len(Loaded) >= Min({MAX_PERSISTED_EVENTS, kept - faults})

\* "Persist before processing so the event survives a crash" (handle_event): a
\* crash in the middle of an append, and a text cut between two characters, cost
\* one appended event more and no others, whatever was compacted (persist_event,
\* load_persisted_events, compact_persistence_file).  Not so once a text was cut
\* inside a character: then a start reads nothing back at all.
LossBounded == garbled \/ EventsSurvive
=============================================================================
