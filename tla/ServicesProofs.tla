---------------------------- MODULE ServicesProofs ----------------------------
(***************************************************************************)
(* The services that share no state with the rest: what merge_poller       *)
(* publishes, and what the activity store remembers across crashes, full   *)
(* disks, compactions and collections.                                     *)
(***************************************************************************)
EXTENDS ActivityStore, Pollers, DataLemmas, SequenceTheorems

-----------------------------------------------------------------------------
(* merge_poller *)

\* What was published is remembered, and was published once.
ToldInv ==
    /\ rescored \in [Prs -> Nat]
    /\ \A m \in Prs : rescored[m] <= 1 /\ (rescored[m] = 1 => m \in seen)

\* Nothing but the poller's own round counts a publication or fills seen_merged,
\* and a restart forgets both.
LEMMA ToldStep ==
    ASSUME ToldInv, [PNext]_pvars
    PROVE  ToldInv'
<1>1. CASE UNCHANGED <<rescored, seen>>
    BY <1>1 DEF ToldInv
<1>2. CASE PublishMerges
    <2>1. PICK merged : /\ seen' = SeenAfter(merged)
                        /\ rescored' = [m \in Prs |-> IF ~first /\ m \in merged \ seen
                                                      THEN rescored[m] + 1 ELSE rescored[m]]
        BY <1>2 DEF PublishMerges
    <2>2. seen' = seen \cup merged
        BY <2>1 DEF SeenAfter
    <2>3. \A m \in Prs : rescored[m] \in Nat /\ (m \notin seen => rescored[m] = 0)
        BY DEF ToldInv
    <2>4. QED
        BY <2>1, <2>2, <2>3 DEF ToldInv
<1>3. CASE StartAgain
    <2>1. rescored' = [m \in Prs |-> 0]
        BY <1>3 DEF StartAgain
    <2>2. QED
        BY <2>1 DEF ToldInv
<1>4. \/ UNCHANGED <<rescored, seen>>
      \/ PublishMerges
      \/ StartAgain
    <2>1. CASE \E r \in RepoSet, n \in Numbers : OpenPr(r, n) \/ ClosePr(r, n) \/ MergePr(r, n) \/ PushTo(r, n)
        BY <2>1 DEF OpenPr, ClosePr, MergePr, PushTo, Becomes
    <2>2. CASE \E p \in PollerSet : Poll(p) \/ \E transient \in BOOLEAN : Refused(p, transient)
        BY <2>2 DEF Poll, StartRound, Answered, GiveRoundUp, PublishPrs, Refused, RoundFrame
    <2>3. CASE UNCHANGED pvars
        BY <2>3 DEF pvars
    <2>4. QED
        BY <2>1, <2>2, <2>3 DEF PNext, PollingNext
<1>5. QED
    BY <1>1, <1>2, <1>3, <1>4

\* Whatever rounds fail in whole or in part, in however many repositories, no pull
\* request is published as merged twice (publish_new_merges): seen_merged keeps
\* all that was published, and only what it lacks is published.
THEOREM MergesOnce == PSpec => []NeverToldTwice
<1>1. PInit => ToldInv
    BY DEF PInit, ToldInv
<1>2. ToldInv /\ [PNext]_pvars => ToldInv'
    BY ToldStep
<1>3. ToldInv => NeverToldTwice
    BY DEF ToldInv, NeverToldTwice
<1>4. QED
    BY <1>1, <1>2, <1>3, PTL DEF PSpec

-----------------------------------------------------------------------------
(* The activity store: what the file keeps *)

\* What the bus delivers and the file's lines hold: an event with its time.
Lines == {e @@ [ts |-> t] : e \in Events, t \in Nat}

FileInv ==
    /\ time \in Nat /\ bus \in Seq(Lines) /\ log \in Seq(Lines)
    /\ cut \in {"line", "text", "torn"} /\ writing \in {"free", "text", "lock"}
    /\ cut = "text" => log # <<>>
    /\ writing = "text" => cut # "line"

\* The last line has its text and no end: what is appended next breaks it.
Unended(c) == IF c = "text" THEN 1 ELSE 0

\* An append that is under way, and whose line counts already.
Half(w, c) == IF w = "text" /\ c = "text" THEN 1 ELSE 0

\* The lines that no fault can break any more are all, up to the bound, but one
\* for each fault; the fault that left the file without a line's end has cost
\* nothing yet.
LossInv ==
    /\ kept \in Nat /\ faults \in Nat
    /\ \/ Len(log) - Unended(cut) >= MAX_PERSISTED_EVENTS
       \/ Len(log) - Unended(cut) >= kept - faults + (IF cut = "line" THEN 0 ELSE 1) - Half(writing, cut)

LEMMA Frontal ==
    ASSUME NEW T, NEW s \in Seq(T), s # <<>>
    PROVE  Front(s) \in Seq(T) /\ Len(Front(s)) = Len(s) - 1 /\ Last(s) \in T
<1>1. Len(s) \in Nat \ {0} /\ \A i \in 1..Len(s) : s[i] \in T
    BY EmptySeq, ElementOfSeq
<1>2. Front(s) \in Seq(T) /\ Len(Front(s)) = Len(s) - 1
    <2>1. PICK n \in Int : n = Len(s) - 1
        BY <1>1
    <2>2. n >= 0 /\ \A i \in 1..n : s[i] \in T
        BY <1>1, <2>1
    <2>3. SubSeq(s, 1, n) \in Seq(T) /\ Len(SubSeq(s, 1, n)) = IF 1 <= n THEN n - 1 + 1 ELSE 0
        BY <2>2, SubSeqProperties
    <2>4. Front(s) = SubSeq(s, 1, n)
        BY <2>1 DEF Front
    <2>5. QED
        BY <2>1, <2>2, <2>3, <2>4
<1>3. QED
    BY <1>1, <1>2 DEF Last

\* Tail10k is the sequence itself or its last MAX_PERSISTED_EVENTS.
LEMMA TailOf ==
    ASSUME NEW T, NEW s \in Seq(T)
    PROVE  \E n \in 0..Len(s) : /\ Tail10k(s) = SubSeq(s, n + 1, Len(s))
                                /\ n = 0 \/ n = Len(s) - MAX_PERSISTED_EVENTS
<1> DEFINE from == Len(s) - MAX_PERSISTED_EVENTS + 1
<1>1. Len(s) \in Nat /\ MAX_PERSISTED_EVENTS \in Nat \ {0}
    BY LenProperties, ActivityAssumption
<1>2. IsFiniteSet({1} \cup {from}) /\ {1, from} = {1} \cup {from}
    BY FS_Singleton, OneMore
<1>3. {1, from} \in SUBSET Int
    BY <1>1
<1>4. Max({1, from}) \in {1, from} /\ \A x \in {1, from} : x <= Max({1, from})
    BY <1>2, <1>3, Maximum
<1>5. PICK m \in Int : m = Max({1, from}) /\ (m = 1 \/ m = from) /\ 1 <= m
    BY <1>3, <1>4
<1>6. Tail10k(s) = SubSeq(s, m, Len(s))
    BY <1>5 DEF Tail10k
<1>7. m - 1 \in 0..Len(s) /\ (m - 1) + 1 = m /\ (m - 1 = 0 \/ m - 1 = Len(s) - MAX_PERSISTED_EVENTS)
    BY <1>1, <1>5
<1>8. QED
    BY <1>6, <1>7

LEMMA PublishFile ==
    ASSUME FileInv, NEW e \in Events, Publish(e)
    PROVE  FileInv'
<1> DEFINE line == e @@ [ts |-> time]
<1>1. line \in Lines
    BY DEF FileInv, Lines
<1> HIDE DEF line
<1>2. Append(bus, line) \in Seq(Lines) /\ Append(bus, line) # <<>>
    BY <1>1, AppendProperties DEF FileInv
<1>3. Tail(Append(bus, line)) \in Seq(Lines)
    BY <1>2, HeadTailProperties
<1>4. bus' \in Seq(Lines)
    <2>1. bus' = IF Len(bus) < BUS_CAPACITY THEN Append(bus, line) ELSE Tail(Append(bus, line))
        BY DEF Publish, line
    <2>2. QED
        BY <1>2, <1>3, <2>1
<1>5. UNCHANGED <<time, log, cut, writing>>
    BY DEF Publish
<1>6. QED
    BY <1>4, <1>5 DEF FileInv

\* What an append finds on the bus, and what it makes of the file.
LEMMA AppendFile ==
    ASSUME FileInv, NEW how, AppendText(how)
    PROVE  /\ Head(bus) \in Lines
           /\ FileInv'
           /\ Len(log') - Unended(cut') = Len(log) - Unended(cut)
<1> DEFINE ok == how = "whole"
<1>1. bus # <<>> /\ bus' = Tail(bus) /\ log' = LinesWith(Head(bus), ok)
    BY DEF AppendText
<1>2. Head(bus) \in Lines /\ bus' \in Seq(Lines)
    BY <1>1, HeadTailProperties DEF FileInv
<1>3. UNCHANGED time /\ writing' = (IF ok THEN "text" ELSE "lock")
      /\ cut' = IF cut = "line" /\ ok THEN "text" ELSE "torn"
    BY DEF AppendText
<1>4. Len(log) \in Nat
    BY LenProperties DEF FileInv
<1>5. CASE cut = "line" /\ ok
    <2>1. log' = Append(log, Head(bus)) /\ cut' = "text"
        BY <1>1, <1>3, <1>5 DEF LinesWith
    <2>2. log' \in Seq(Lines) /\ log' # <<>> /\ Len(log') = Len(log) + 1
        BY <1>2, <2>1, AppendProperties DEF FileInv
    <2>3. QED
        BY <1>2, <1>3, <1>4, <1>5, <2>1, <2>2 DEF FileInv, Unended
<1>6. CASE cut = "text"
    <2>1. log' = Front(log) /\ cut' = "torn"
        BY <1>1, <1>3, <1>6 DEF LinesWith
    <2>2. log' \in Seq(Lines) /\ Len(log') = Len(log) - 1
        BY <1>6, <2>1, Frontal DEF FileInv
    <2>3. QED
        BY <1>2, <1>3, <1>4, <1>6, <2>1, <2>2 DEF FileInv, Unended
<1>7. CASE cut # "text" /\ ~(cut = "line" /\ ok)
    <2>1. log' = log /\ cut' = "torn"
        BY <1>1, <1>3, <1>7 DEF LinesWith
    <2>2. QED
        BY <1>2, <1>3, <1>4, <1>7, <2>1 DEF FileInv, Unended
<1>8. QED
    BY <1>5, <1>6, <1>7

\* What a restart leaves of the file, and what it reads back.
LEMMA RestartFile ==
    ASSUME FileInv, NEW how, Restart(how)
    PROVE  /\ FileInv'
           /\ \/ UNCHANGED <<log, cut>>
              \/ /\ log' = Tail10k(log) /\ cut' = "line"
                 /\ Len(log) > MAX_PERSISTED_EVENTS /\ Len(log') >= MAX_PERSISTED_EVENTS
<1>1. bus' = <<>> /\ writing' = "free" /\ UNCHANGED time
    BY DEF Restart
<1>2. <<>> \in Seq(Lines)
    BY EmptySeq
<1> DEFINE rewrites == how = "compacted" /\ Len(Loaded) > MAX_PERSISTED_EVENTS
<1>3. CASE rewrites
    <2>1. log' = Tail10k(log) /\ cut' = "line"
        BY <1>3 DEF Restart, Compacted
    <2>0. Len(log) > MAX_PERSISTED_EVENTS
        <3>1. CASE garbled
            BY <1>3, <3>1, EmptySeq, ActivityAssumption DEF Loaded
        <3>2. CASE ~garbled
            BY <1>3, <3>2 DEF Loaded
        <3>3. QED
            BY <3>1, <3>2
    <2>2. PICK n \in 0..Len(log) : /\ Tail10k(log) = SubSeq(log, n + 1, Len(log))
                                   /\ n = 0 \/ n = Len(log) - MAX_PERSISTED_EVENTS
        BY TailOf DEF FileInv
    <2>3. Len(log) \in Nat /\ \A i \in 1..Len(log) : log[i] \in Lines
        BY LenProperties, ElementOfSeq DEF FileInv
    <2>4. PICK m \in Int : m = n + 1
        BY <2>3
    <2>5. m >= 1 /\ \A i \in m..Len(log) : log[i] \in Lines
        BY <2>3, <2>4
    <2>6. /\ SubSeq(log, m, Len(log)) \in Seq(Lines)
          /\ Len(SubSeq(log, m, Len(log))) = IF m <= Len(log) THEN Len(log) - m + 1 ELSE 0
        BY <2>3, <2>5, SubSeqProperties
    <2>7. log' \in Seq(Lines) /\ Len(log') = Len(log) - n
        BY <2>1, <2>2, <2>3, <2>4, <2>6
    <2>8. Len(log') >= MAX_PERSISTED_EVENTS
        BY <2>0, <2>2, <2>3, <2>7, ActivityAssumption
    <2>9. QED
        BY <1>1, <1>2, <2>0, <2>1, <2>7, <2>8 DEF FileInv
<1>4. CASE ~rewrites
    <2>1. log' = log /\ cut' = cut
        BY <1>4 DEF Restart
    <2>2. QED
        BY <1>1, <1>2, <2>1 DEF FileInv
<1>5. QED
    BY <1>3, <1>4

LEMMA FileStep ==
    ASSUME FileInv, [ANext]_avars
    PROVE  FileInv'
<1>1. CASE \E e \in Events : Publish(e)
    BY <1>1, PublishFile
<1>2. CASE Skip
    BY <1>2, HeadTailProperties DEF Skip, FileInv
<1>3. CASE EndLine
    BY <1>3 DEF EndLine, FileInv
<1>4. CASE ApplyEvent
    BY <1>4 DEF ApplyEvent, FileInv
<1>5. CASE Collect
    BY <1>5 DEF Collect, FileInv
<1>6. CASE Pass
    BY <1>6 DEF Pass, FileInv
<1>7. CASE \E how \in {"whole", "part", "inside"} : AppendText(how)
    BY <1>7, AppendFile
<1>8. CASE \E how \in {"unread", "read", "compacted"} : Restart(how)
    BY <1>8, RestartFile
<1>9. CASE UNCHANGED avars
    BY <1>9 DEF avars, FileInv
<1>10. QED
    BY <1>1, <1>2, <1>3, <1>4, <1>5, <1>6, <1>7, <1>8, <1>9 DEF ANext

LEMMA LossStep ==
    ASSUME FileInv, LossInv, [ANext]_avars
    PROVE  LossInv'
<1>1. Len(log) \in Nat /\ MAX_PERSISTED_EVENTS \in Nat
    BY LenProperties, ActivityAssumption DEF FileInv
<1>2. CASE UNCHANGED <<log, cut, writing, kept, faults>>
    BY <1>2 DEF LossInv, Unended, Half
<1>3. CASE EndLine
    <2>1. cut' = "line" /\ kept' = kept + 1 /\ writing = "text" /\ UNCHANGED <<log, faults>>
        BY <1>3 DEF EndLine
    <2>2. cut = "text" \/ cut = "torn"
        BY <2>1 DEF FileInv
    <2>3. QED
        BY <1>1, <2>1, <2>2 DEF LossInv, Unended, Half
<1>4. CASE ApplyEvent
    BY <1>1, <1>4 DEF ApplyEvent, LossInv, Unended, Half
<1>5. ASSUME NEW how, AppendText(how) PROVE LossInv'
    <2> DEFINE ok == how = "whole"
    <2>1. Len(log') - Unended(cut') = Len(log) - Unended(cut)
        BY <1>5, AppendFile
    <2>2. /\ writing = "free" /\ writing' = (IF ok THEN "text" ELSE "lock")
          /\ cut' = (IF cut = "line" /\ ok THEN "text" ELSE "torn")
          /\ faults' = (IF ok THEN faults ELSE faults + 1) /\ kept' = kept
        BY <1>5 DEF AppendText
    <2>3. PICK n \in Int : n = Len(log) - Unended(cut) /\ n = Len(log') - Unended(cut')
        <3>1. Len(log) - Unended(cut) \in Int
            BY <1>1 DEF Unended
        <3>2. QED
            BY <2>1, <3>1
    <2>4. n >= MAX_PERSISTED_EVENTS \/ n >= kept - faults + (IF cut = "line" THEN 0 ELSE 1)
        BY <2>2, <2>3 DEF LossInv, Half
    <2>5. \/ n >= MAX_PERSISTED_EVENTS
          \/ n >= kept' - faults' + (IF cut' = "line" THEN 0 ELSE 1) - Half(writing', cut')
        BY <2>2, <2>4 DEF LossInv, Half
    <2>6. kept' \in Nat /\ faults' \in Nat
        BY <2>2 DEF LossInv
    <2>7. QED
        BY <2>3, <2>5, <2>6 DEF LossInv
<1>6. ASSUME NEW how, Restart(how) PROVE LossInv'
    <2>1. writing' = "free" /\ faults' = faults + 1 /\ kept' = kept
        BY <1>6 DEF Restart
    <2>2. CASE UNCHANGED <<log, cut>>
        BY <1>1, <2>1, <2>2 DEF LossInv, Unended, Half, FileInv
    <2>3. CASE cut' = "line" /\ Len(log') >= MAX_PERSISTED_EVENTS
        <3>1. log' \in Seq(Lines)
            BY <1>6, RestartFile DEF FileInv
        <3>2. Len(log') \in Nat
            BY <3>1, LenProperties
        <3>3. QED
            BY <1>1, <2>1, <2>3, <3>2 DEF LossInv, Unended
    <2>4. QED
        BY <1>6, <2>2, <2>3, RestartFile
<1>7. CASE \/ \E e \in Events : Publish(e)
           \/ Skip \/ Collect \/ Pass \/ UNCHANGED avars
    <2>1. UNCHANGED <<log, cut, writing, kept, faults>>
        BY <1>7 DEF Publish, Skip, Collect, Pass, avars
    <2>2. QED
        BY <1>2, <2>1
<1>8. QED
    BY <1>3, <1>4, <1>5, <1>6, <1>7 DEF ANext

\* Whenever the daemon dies, the disk fills up or a compaction runs, a start reads
\* back the last MAX_PERSISTED_EVENTS that were appended but one for each such
\* fault, as long as no line was cut inside a character (persist_event,
\* load_persisted_events, compact_persistence_file): a line without an end takes
\* with it the next one and no more.
THEOREM LossIsBounded == ASpec => []LossBounded
<1>1. AInit => FileInv /\ LossInv
    <2>1. SUFFICES ASSUME AInit PROVE FileInv /\ LossInv
        OBVIOUS
    <2>2. time = 1 /\ bus = <<>> /\ log = <<>> /\ cut = "line" /\ writing = "free" /\ kept = 0 /\ faults = 0
        BY <2>1 DEF AInit
    <2>3. <<>> \in Seq(Lines) /\ Len(<<>>) = 0
        BY EmptySeq
    <2>4. FileInv
        BY <2>2, <2>3 DEF FileInv
    <2>5. LossInv
        BY <2>2, <2>3, ActivityAssumption DEF LossInv, Unended, Half
    <2>6. QED
        BY <2>4, <2>5
<1>2. FileInv /\ LossInv /\ [ANext]_avars => (FileInv /\ LossInv)'
    BY FileStep, LossStep
<1>3. FileInv /\ LossInv => LossBounded
    <2>1. SUFFICES ASSUME FileInv, LossInv PROVE LossBounded
        OBVIOUS
    <2> DEFINE bound == {MAX_PERSISTED_EVENTS, kept - faults}
    <2>2. Len(log) \in Nat /\ MAX_PERSISTED_EVENTS \in Nat /\ kept \in Nat /\ faults \in Nat
        BY <2>1, LenProperties, ActivityAssumption DEF FileInv, LossInv
    <2>3. IsFiniteSet({MAX_PERSISTED_EVENTS} \cup {kept - faults})
        BY FS_Singleton, OneMore
    <2>4. bound = {MAX_PERSISTED_EVENTS} \cup {kept - faults} /\ bound \in SUBSET Int /\ bound # {}
        BY <2>2
    <2>5. Min(bound) \in bound /\ \A x \in bound : Min(bound) <= x
        BY <2>3, <2>4, Minimum
    <2>6. Min(bound) <= MAX_PERSISTED_EVENTS /\ Min(bound) <= kept - faults /\ Min(bound) \in Int
        BY <2>4, <2>5
    <2>7. Len(log) >= MAX_PERSISTED_EVENTS \/ Len(log) >= kept - faults
        BY <2>1, <2>2 DEF LossInv, Unended, Half
    <2> HIDE DEF bound
    <2>8. Len(log) >= Min(bound)
        BY <2>2, <2>6, <2>7
    <2>9. QED
        <3>1. ~garbled => Loaded = log
            BY DEF Loaded
        <3>2. QED
            BY <2>8, <3>1 DEF LossBounded, EventsSurvive, bound
<1>4. QED
    BY <1>1, <1>2, <1>3, PTL DEF ASpec

-----------------------------------------------------------------------------
(* The activity store: what an event does to the agents *)

Begins(e) == e.kind \in {"SessionStart", "SubagentStart"}

\* What becomes of an agent that is known, by any event but a start.
Updated(old, e) ==
    CASE e.kind = "ToolStart" -> [old EXCEPT !.status = "Active", !.tool = e.tool, !.last = e.ts]
      [] e.kind = "ToolEnd" -> [old EXCEPT !.status = "Idle", !.tool = "", !.last = e.ts]
      [] e.kind \in {"SubagentStop", "SessionStop"} ->
           [old EXCEPT !.status = "Stopped", !.tool = old.tool, !.last = e.ts]
      [] e.kind = "Notification" -> [old EXCEPT !.status = old.status, !.tool = old.tool, !.last = e.ts]
      [] OTHER -> old

\* An event changes the agent it names and no other, makes an agent only when it
\* starts one, and what it makes of an agent depends on that agent alone.
LEMMA AgentsAt ==
    ASSUME NEW a, NEW e
    PROVE  /\ DOMAIN Agents(a, e) = (IF Begins(e) THEN DOMAIN a \cup {Key(e)} ELSE DOMAIN a)
           /\ \A k \in DOMAIN a : k # Key(e) => Agents(a, e)[k] = a[k]
           /\ Begins(e) => Agents(a, e)[Key(e)] = NewAgent(e)
           /\ ~Begins(e) /\ Key(e) \in DOMAIN a => Agents(a, e)[Key(e)] = Updated(a[Key(e)], e)
<1> DEFINE at == Key(e)
           known(status, tool) ==
               IF at \notin DOMAIN a THEN a
               ELSE [a EXCEPT ![at] = [@ EXCEPT !.status = status, !.tool = tool, !.last = e.ts]]
<1>1. CASE Begins(e)
    <2>1. Agents(a, e) = [k \in DOMAIN a \cup {at} |-> IF k = at THEN NewAgent(e) ELSE a[k]]
        BY <1>1 DEF Agents, Begins
    <2>2. QED
        BY <1>1, <2>1
<1>2. CASE e.kind = "ToolStart"
    <2>1. Agents(a, e) = known("Active", e.tool)
        BY <1>2 DEF Agents
    <2>2. QED
        BY <1>2, <2>1 DEF Begins, Updated
<1>3. CASE e.kind = "ToolEnd"
    <2>1. Agents(a, e) = known("Idle", "")
        BY <1>3 DEF Agents
    <2>2. QED
        BY <1>3, <2>1 DEF Begins, Updated
<1>4. CASE e.kind \in {"SubagentStop", "SessionStop"}
    <2>1. Agents(a, e) = IF at \in DOMAIN a THEN known("Stopped", a[at].tool) ELSE a
        BY <1>4 DEF Agents
    <2>2. QED
        BY <1>4, <2>1 DEF Begins, Updated
<1>5. CASE e.kind = "Notification"
    <2>1. Agents(a, e) = IF at \in DOMAIN a THEN known(a[at].status, a[at].tool) ELSE a
        BY <1>5 DEF Agents
    <2>2. QED
        BY <1>5, <2>1 DEF Begins, Updated
<1>6. CASE e.kind \notin {"SessionStart", "SubagentStart", "ToolStart", "ToolEnd", "SubagentStop",
                          "SessionStop", "Notification"}
    <2>1. Agents(a, e) = a
        BY <1>6 DEF Agents
    <2>2. QED
        BY <1>6, <2>1 DEF Begins, Updated
<1>7. QED
    BY <1>1, <1>2, <1>3, <1>4, <1>5, <1>6 DEF Begins

\* What is said of an agent in a is what is said of it in b, but for some.
Agree(a, b, but) == \A k \in DOMAIN a \ but : k \in DOMAIN b /\ a[k] = b[k]

\* What agrees goes on agreeing when the same event is applied to both.
LEMMA BothApply ==
    ASSUME NEW a, NEW b, NEW but, NEW e, Agree(a, b, but)
    PROVE  Agree(Agents(a, e), Agents(b, e), but)
<1>1. SUFFICES ASSUME NEW k \in DOMAIN Agents(a, e) \ but
               PROVE  k \in DOMAIN Agents(b, e) /\ Agents(a, e)[k] = Agents(b, e)[k]
    BY DEF Agree
<1>2. CASE Begins(e) /\ k = Key(e)
    BY <1>2, AgentsAt
<1>3. CASE k # Key(e)
    <2>1. k \in DOMAIN a \ but /\ Agents(a, e)[k] = a[k]
        <3>1. k \in DOMAIN a
            BY <1>3, AgentsAt
        <3>2. QED
            BY <1>3, <3>1, AgentsAt
    <2>2. k \in DOMAIN b /\ a[k] = b[k]
        BY <2>1 DEF Agree
    <2>3. k \in DOMAIN Agents(b, e) /\ Agents(b, e)[k] = b[k]
        BY <1>3, <2>2, AgentsAt
    <2>4. QED
        BY <2>1, <2>2, <2>3
<1>4. CASE ~Begins(e) /\ k = Key(e)
    <2>1. k \in DOMAIN a \ but
        BY <1>1, <1>4, AgentsAt
    <2>2. k \in DOMAIN b /\ a[k] = b[k]
        BY <2>1 DEF Agree
    <2>3. k \in DOMAIN Agents(b, e)
        BY <1>4, <2>2, AgentsAt
    <2>4. Agents(a, e)[k] = Updated(a[k], e)
        BY <1>4, <2>1, AgentsAt
    <2>5. Agents(b, e)[k] = Updated(b[k], e)
        BY <1>4, <2>2, AgentsAt
    <2>6. QED
        BY <2>2, <2>3, <2>4, <2>5
<1>5. QED
    BY <1>2, <1>3, <1>4

\* An event that only one of them is told makes a difference to its agent alone.
LEMMA OneApplies ==
    ASSUME NEW a, NEW b, NEW but, NEW e, Key(e) \in but
    PROVE  /\ Agree(a, b, but) => Agree(Agents(a, e), b, but) /\ Agree(a, Agents(b, e), but)
           /\ Agree(Agents(a, e), b, but) => Agree(a, b, but)
<1>1. \A k \in DOMAIN a \ but : k # Key(e) /\ k \in DOMAIN Agents(a, e) /\ Agents(a, e)[k] = a[k]
    BY AgentsAt
<1>2. \A k \in DOMAIN b \ but : k \in DOMAIN Agents(b, e) /\ Agents(b, e)[k] = b[k]
    BY AgentsAt
<1>3. DOMAIN Agents(a, e) \ but = DOMAIN a \ but
    BY AgentsAt
<1>4. QED
    BY <1>1, <1>2, <1>3 DEF Agree

LEMMA AgreeMore ==
    ASSUME NEW a, NEW b, NEW but, NEW more, Agree(a, b, but), but \subseteq more
    PROVE  Agree(a, b, more)
BY DEF Agree

LEMMA AgreeAlong ==
    ASSUME NEW a, NEW b, NEW c, NEW but, Agree(a, b, {}), Agree(b, c, but)
    PROVE  Agree(a, c, but)
BY DEF Agree

-----------------------------------------------------------------------------
(* The activity store: replaying a sequence of events *)

Replayed(s) == FoldLeft(Apply, Empty, s)

\* The results of replaying what is at the places of a set, for the sets of D.
Stages(D, s, h) ==
    h = [d \in D |-> IF d = {} THEN Empty ELSE Apply(h[d \ {Max(d)}], s[Max(d)])]

LEMMA StagesExist ==
    ASSUME NEW s, NEW S \in SUBSET Int, IsFiniteSet(S)
    PROVE  \E h : Stages(SUBSET S, s, h)
<1> DEFINE Small(n) == {d \in SUBSET S : Cardinality(d) <= n}
           P == {n \in Nat : \E h : Stages(Small(n), s, h)}
<1>1. \A d \in SUBSET S : /\ IsFiniteSet(d) /\ Cardinality(d) \in Nat
                          /\ Cardinality(d) = 0 <=> d = {}
    BY FS_Subset, FS_CardinalityType, FS_EmptySet
<1>2. \A d \in SUBSET S : d # {} => Max(d) \in d
    BY <1>1, Maximum
<1>3. \A d \in SUBSET S : d # {} => /\ d \ {Max(d)} \in SUBSET S
                                    /\ Cardinality(d \ {Max(d)}) = Cardinality(d) - 1
    BY <1>1, <1>2, FS_RemoveElement
<1>4. 0 \in P
    <2> DEFINE h == [d \in Small(0) |-> Empty]
    <2>1. \A d \in Small(0) : d = {}
        BY <1>1
    <2> HIDE DEF Small
    <2>2. Stages(Small(0), s, h)
        BY <2>1 DEF Stages
    <2>3. QED
        BY <2>2
<1>5. ASSUME NEW n \in P PROVE n + 1 \in P
    <2>1. n \in Nat
        OBVIOUS
    <2>2. PICK h : Stages(Small(n), s, h)
        OBVIOUS
    <2> DEFINE g == [d \in Small(n + 1) |-> IF d = {} THEN Empty ELSE Apply(h[d \ {Max(d)}], s[Max(d)])]
    <2>3. \A d \in Small(n + 1) : d # {} => d \ {Max(d)} \in Small(n)
        BY <1>1, <1>3, <2>1
    <2>4. \A d \in Small(n) : d \in Small(n + 1)
        BY <1>1, <2>1
    <2> HIDE DEF Small, P
    <2>5. \A d \in Small(n) : g[d] = h[d]
        BY <2>2, <2>4 DEF Stages
    <2>6. \A d \in Small(n + 1) : d # {} => g[d \ {Max(d)}] = h[d \ {Max(d)}]
        BY <2>3, <2>5
    <2>7. Stages(Small(n + 1), s, g)
        BY <2>6 DEF Stages
    <2>8. \E x : Stages(Small(n + 1), s, x)
        BY <2>7
    <2>9. QED
        BY <2>1, <2>8 DEF P
<1>6. P = Nat
    <2> HIDE DEF P
    <2>1. QED
        BY <1>4, <1>5, Induction DEF P
<1>7. Small(Cardinality(S)) = SUBSET S
    BY <1>1, FS_Subset
<1>8. Cardinality(S) \in P
    BY <1>6, <1>1
<1>9. QED
    BY <1>7, <1>8

LEMMA ReplayedIs ==
    ASSUME NEW s, NEW n \in Nat, DOMAIN s = 1..n
    PROVE  \E h : Stages(SUBSET (1..n), s, h) /\ Replayed(s) = h[1..n]
<1> DEFINE stages == CHOOSE h : Stages(SUBSET (1..n), s, h)
<1>1. Replayed(s) = stages[1..n]
    BY DEF Replayed, FoldLeft, MapThenFoldSet, Stages
<1>2. IsFiniteSet(1..n) /\ 1..n \in SUBSET Int
    BY FS_Interval
<1>3. \E h : Stages(SUBSET (1..n), s, h)
    BY <1>2, StagesExist
<1>4. Stages(SUBSET (1..n), s, stages)
    BY <1>3
<1> HIDE DEF stages
<1>5. QED
    BY <1>1, <1>4

LEMMA StageAt ==
    ASSUME NEW s, NEW n \in Nat, NEW h, Stages(SUBSET (1..n), s, h)
    PROVE  /\ h[1..0] = Empty
           /\ \A k \in Nat : k + 1 <= n => h[1..(k + 1)] = Apply(h[1..k], s[k + 1])
<1>1. h[1..0] = Empty
    <2>1. 1..0 = {} /\ 1..0 \in SUBSET (1..n)
        OBVIOUS
    <2>2. QED
        BY <2>1 DEF Stages
<1>2. ASSUME NEW k \in Nat, k + 1 <= n PROVE h[1..(k + 1)] = Apply(h[1..k], s[k + 1])
    <2> DEFINE d == 1..(k + 1)
    <2>1. IsFiniteSet(d) /\ d \in SUBSET Int /\ d # {}
        <3>1. 1 \in Int /\ k + 1 \in Int
            OBVIOUS
        <3>2. IsFiniteSet(1..(k + 1))
            BY <3>1, FS_Interval
        <3>3. QED
            BY <3>2
    <2>2. Max(d) \in d /\ \A x \in d : x <= Max(d)
        BY <2>1, Maximum
    <2>3. Max(d) = k + 1
        BY <2>2
    <2>4. d \ {k + 1} = 1..k
        OBVIOUS
    <2>5. d \in SUBSET (1..n)
        BY <1>2
    <2> HIDE DEF d
    <2>6. h[d] = Apply(h[d \ {Max(d)}], s[Max(d)])
        BY <2>1, <2>5 DEF Stages
    <2>7. QED
        BY <2>3, <2>4, <2>6 DEF d
<1>3. QED
    BY <1>1, <1>2

LEMMA ReplayNothing == Replayed(<<>>) = Empty
<1>1. DOMAIN <<>> = 1..0
    OBVIOUS
<1>2. PICK h : Stages(SUBSET (1..0), <<>>, h) /\ Replayed(<<>>) = h[1..0]
    BY <1>1, ReplayedIs
<1>3. QED
    BY <1>2, StageAt

\* Replaying one event more is replaying the others and then applying it.
LEMMA ReplayOneMore ==
    ASSUME NEW T, NEW s \in Seq(T), NEW e \in T
    PROVE  Replayed(Append(s, e)) = Apply(Replayed(s), e)
<1> DEFINE n == Len(s)
           more == Append(s, e)
<1>1. n \in Nat /\ DOMAIN s = 1..n
    BY LenProperties
<1>2. /\ more \in Seq(T) /\ Len(more) = n + 1
      /\ \A i \in 1..n : more[i] = s[i]
      /\ more[n + 1] = e
    BY AppendProperties
<1>3. DOMAIN more = 1..(n + 1)
    BY <1>2, LenProperties
<1> HIDE DEF n, more
<1>4. PICK g : Stages(SUBSET (1..n), s, g) /\ Replayed(s) = g[1..n]
    BY <1>1, ReplayedIs
<1>5. n + 1 \in Nat
    BY <1>1
<1>6. PICK h : Stages(SUBSET (1..(n + 1)), more, h) /\ Replayed(more) = h[1..(n + 1)]
    BY <1>3, <1>5, ReplayedIs
<1>7. /\ g[1..0] = Empty
      /\ \A k \in Nat : k + 1 <= n => g[1..(k + 1)] = Apply(g[1..k], s[k + 1])
    <2>1. n \in Nat /\ Stages(SUBSET (1..n), s, g)
        BY <1>1, <1>4
    <2>2. QED
        BY <2>1, StageAt
<1>8. /\ h[1..0] = Empty
      /\ \A k \in Nat : k + 1 <= n + 1 => h[1..(k + 1)] = Apply(h[1..k], more[k + 1])
    BY <1>5, <1>6, StageAt
<1> DEFINE P == {k \in Nat : k <= n => h[1..k] = g[1..k]}
<1>9. 0 \in P
    BY <1>7, <1>8
<1>10. ASSUME NEW k \in P PROVE k + 1 \in P
    <2>1. SUFFICES ASSUME k + 1 <= n PROVE h[1..(k + 1)] = g[1..(k + 1)]
        OBVIOUS
    <2>2. k \in Nat /\ h[1..k] = g[1..k] /\ k + 1 \in 1..n /\ k + 1 <= n + 1
        BY <1>1, <2>1
    <2>3. g[1..(k + 1)] = Apply(g[1..k], s[k + 1]) /\ h[1..(k + 1)] = Apply(h[1..k], more[k + 1])
        BY <1>7, <1>8, <2>1, <2>2
    <2>4. more[k + 1] = s[k + 1]
        BY <1>2, <2>2
    <2>5. QED
        BY <2>2, <2>3, <2>4
<1>11. P = Nat
    <2> HIDE DEF P
    <2>1. QED
        BY <1>9, <1>10, Induction DEF P
<1>12. h[1..n] = g[1..n]
    BY <1>1, <1>11
<1>13. h[1..(n + 1)] = Apply(h[1..n], e)
    BY <1>1, <1>2, <1>8
<1>14. QED
    BY <1>4, <1>6, <1>12, <1>13 DEF more

\* The lines that are left when n of them are dropped.
From(s, n) == SubSeq(s, n + 1, Len(s))

LEMMA FromIs ==
    ASSUME NEW T, NEW s \in Seq(T), NEW n \in 0..Len(s)
    PROVE  /\ From(s, n) \in Seq(T) /\ Len(From(s, n)) = Len(s) - n
           /\ \A i \in 1..(Len(s) - n) : From(s, n)[i] = s[n + i]
<1>1. Len(s) \in Nat /\ n \in Nat /\ \A i \in 1..Len(s) : s[i] \in T
    BY LenProperties, ElementOfSeq
<1>2. PICK m \in Int : m = n + 1
    BY <1>1
<1>3. \A i \in m..Len(s) : s[i] \in T
    BY <1>1, <1>2
<1>4. /\ SubSeq(s, m, Len(s)) \in Seq(T)
      /\ Len(SubSeq(s, m, Len(s))) = IF m <= Len(s) THEN Len(s) - m + 1 ELSE 0
      /\ \A i \in 1..(Len(s) - m + 1) : SubSeq(s, m, Len(s))[i] = s[m + i - 1]
    BY <1>1, <1>3, SubSeqProperties
<1>5. From(s, n) = SubSeq(s, m, Len(s)) /\ Len(s) - m + 1 = Len(s) - n
    BY <1>1, <1>2 DEF From
<1>6. \A i \in 1..(Len(s) - n) : m + i - 1 = n + i
    BY <1>1, <1>2
<1>7. Len(From(s, n)) = Len(s) - n
    <2>1. n <= Len(s) /\ Len(s) \in Nat /\ n \in Nat /\ m = n + 1
        BY <1>1, <1>2
    <2> DEFINE long == Len(SubSeq(s, m, Len(s)))
               len == Len(s)
    <2>2. long = IF m <= len THEN len - m + 1 ELSE 0
        BY <1>4
    <2>3. Len(From(s, n)) = long
        BY <1>5
    <2> HIDE DEF long, len
    <2>4. n <= len /\ len \in Nat
        BY <2>1 DEF len
    <2>5. long = len - n
        BY <2>1, <2>2, <2>4
    <2>6. QED
        BY <2>3, <2>5 DEF len
<1>8. \A i \in 1..(Len(s) - n) : From(s, n)[i] = s[m + i - 1]
    BY <1>4, <1>5
<1>9. QED
    BY <1>4, <1>5, <1>6, <1>7, <1>8

LEMMA FromEnd ==
    ASSUME NEW T, NEW s \in Seq(T)
    PROVE  From(s, Len(s)) = <<>>
<1>1. Len(s) \in Nat /\ Len(s) \in 0..Len(s)
    BY LenProperties
<1>2. From(s, Len(s)) \in Seq(T) /\ Len(From(s, Len(s))) = 0
    BY <1>1, FromIs
<1>3. QED
    BY <1>2, EmptySeq

LEMMA FromAppend ==
    ASSUME NEW T, NEW s \in Seq(T), NEW e \in T, NEW n \in 0..Len(s)
    PROVE  From(Append(s, e), n) = Append(From(s, n), e)
<1> DEFINE more == Append(s, e)
<1>1. Len(s) \in Nat /\ n \in Nat
    BY LenProperties
<1>2. /\ more \in Seq(T) /\ Len(more) = Len(s) + 1
      /\ \A i \in 1..Len(s) : more[i] = s[i]
      /\ more[Len(s) + 1] = e
    BY AppendProperties
<1>3. /\ From(s, n) \in Seq(T) /\ Len(From(s, n)) = Len(s) - n
      /\ \A i \in 1..(Len(s) - n) : From(s, n)[i] = s[n + i]
    BY FromIs
<1> HIDE DEF more
<1>4. n \in 0..Len(more)
    BY <1>1, <1>2
<1>5. /\ From(more, n) \in Seq(T) /\ Len(From(more, n)) = Len(more) - n
      /\ \A i \in 1..(Len(more) - n) : From(more, n)[i] = more[n + i]
    BY <1>2, <1>4, FromIs
<1> DEFINE after == From(s, n)
<1>6. /\ Append(after, e) \in Seq(T) /\ Len(Append(after, e)) = Len(after) + 1
      /\ \A i \in 1..Len(after) : Append(after, e)[i] = after[i]
      /\ Append(after, e)[Len(after) + 1] = e
    BY <1>3, AppendProperties
<1> HIDE DEF after
<1>7. Len(after) = Len(s) - n /\ \A i \in 1..(Len(s) - n) : after[i] = s[n + i]
    BY <1>3 DEF after
<1>8. ASSUME NEW i \in 1..(Len(s) - n + 1) PROVE From(more, n)[i] = Append(after, e)[i]
    <2>1. From(more, n)[i] = more[n + i]
        BY <1>1, <1>2, <1>5
    <2>2. CASE i = Len(s) - n + 1
        <3>1. n + i = Len(s) + 1 /\ i = Len(after) + 1
            BY <1>1, <1>7, <2>2
        <3>2. QED
            BY <1>2, <1>6, <2>1, <3>1
    <2>3. CASE i # Len(s) - n + 1
        <3>1. i \in 1..(Len(s) - n) /\ n + i \in 1..Len(s)
            BY <1>1, <2>3
        <3>2. QED
            BY <1>2, <1>6, <1>7, <2>1, <3>1
    <2>4. QED
        BY <2>2, <2>3
<1>9. Len(From(more, n)) = Len(s) - n + 1 /\ Len(Append(after, e)) = Len(s) - n + 1
    BY <1>1, <1>2, <1>5, <1>6, <1>7
<1>10. From(more, n) = Append(after, e)
    BY <1>5, <1>6, <1>8, <1>9, SeqEqual
<1>11. QED
    BY <1>10 DEF more, after

LEMMA FrontAndLast ==
    ASSUME NEW T, NEW s \in Seq(T), s # <<>>
    PROVE  s = Append(Front(s), Last(s))
<1> DEFINE n == Len(s) - 1
           front == Front(s)
<1>1. Len(s) \in Nat \ {0} /\ \A i \in 1..Len(s) : s[i] \in T
    BY EmptySeq, ElementOfSeq
<1>2. front \in Seq(T) /\ Len(front) = n /\ Last(s) \in T /\ Last(s) = s[Len(s)]
    BY Frontal DEF Last
<1>3. n \in Nat /\ \A i \in 1..n : s[i] \in T /\ 1 + i - 1 = i
    BY <1>1
<1>4. \A i \in 1..n : front[i] = s[i]
    <2>1. front = SubSeq(s, 1, n)
        BY DEF Front
    <2> HIDE DEF n, front
    <2>2. \A i \in 1..(n - 1 + 1) : SubSeq(s, 1, n)[i] = s[1 + i - 1]
        BY <1>3, SubSeqProperties
    <2>3. n - 1 + 1 = n
        BY <1>3
    <2>4. QED
        BY <1>3, <2>1, <2>2, <2>3
<1> DEFINE last == Last(s)
<1> HIDE DEF front, last
<1>5. /\ Append(front, last) \in Seq(T) /\ Len(Append(front, last)) = Len(front) + 1
      /\ \A i \in 1..Len(front) : Append(front, last)[i] = front[i]
      /\ Append(front, last)[Len(front) + 1] = last
    BY <1>2, AppendProperties DEF last
<1>6. \A i \in 1..Len(s) : s[i] = Append(front, last)[i]
    <2>1. ASSUME NEW i \in 1..Len(s) PROVE s[i] = Append(front, last)[i]
        <3>1. i \in 1..n \/ i = Len(s)
            BY <1>1
        <3>2. Len(front) + 1 = Len(s)
            BY <1>1, <1>2
        <3>3. QED
            BY <1>2, <1>4, <1>5, <3>1, <3>2 DEF last
    <2>2. QED
        BY <2>1
<1>7. Len(Append(front, last)) = Len(s)
    BY <1>1, <1>2, <1>5
<1>8. QED
    BY <1>5, <1>6, <1>7, SeqEqual DEF front, last

LEMMA FromFrom ==
    ASSUME NEW T, NEW s \in Seq(T), NEW m \in 0..Len(s), NEW n \in 0..(Len(s) - m)
    PROVE  From(From(s, m), n) = From(s, m + n)
<1> DEFINE after == From(s, m)
           k == m + n
<1>1. Len(s) \in Nat /\ m \in Nat /\ n \in Nat /\ k \in 0..Len(s)
    BY LenProperties
<1>2. /\ after \in Seq(T) /\ Len(after) = Len(s) - m
      /\ \A i \in 1..(Len(s) - m) : after[i] = s[m + i]
    BY FromIs
<1>3. /\ From(s, k) \in Seq(T) /\ Len(From(s, k)) = Len(s) - k
      /\ \A i \in 1..(Len(s) - k) : From(s, k)[i] = s[k + i]
    BY <1>1, FromIs
<1> HIDE DEF after
<1>4. n \in 0..Len(after)
    BY <1>2
<1>5. /\ From(after, n) \in Seq(T) /\ Len(From(after, n)) = Len(after) - n
      /\ \A i \in 1..(Len(after) - n) : From(after, n)[i] = after[n + i]
    <2>1. after \in Seq(T)
        BY <1>2
    <2>2. QED
        BY <1>4, <2>1, FromIs
<1>6. Len(after) - n = Len(s) - k
    BY <1>1, <1>2
<1>7. ASSUME NEW i \in 1..(Len(s) - k) PROVE From(after, n)[i] = From(s, k)[i]
    <2>1. n + i \in 1..(Len(s) - m) /\ m + (n + i) = k + i
        BY <1>1
    <2>2. From(after, n)[i] = after[n + i]
        BY <1>5, <1>6
    <2>3. after[n + i] = s[k + i]
        BY <1>2, <2>1
    <2>4. QED
        BY <1>3, <2>2, <2>3
<1>8. From(after, n) = From(s, k)
    BY <1>3, <1>5, <1>6, <1>7, SeqEqual
<1>9. QED
    BY <1>8 DEF after

-----------------------------------------------------------------------------
(* The activity store: what it says is true *)

\* What can be read back from the last lines of the file, however many.
FileAgrees(lines, all, but) == \A n \in 0..Len(lines) : Agree(Replayed(From(lines, n)).agents, all, but)

\* The store agrees with one that forgets nothing, once the event in hand is
\* applied; and so does what any number of the file's last lines say, because a
\* restart may read any number of them.
AgentsInv ==
    /\ {"agents", "files"} \subseteq DOMAIN store
    /\ writing = "free" => Agree(store.agents, truth, hurt)
    /\ writing # "free" => Agree(Agents(store.agents, event), truth, hurt)
    /\ FileAgrees(log, truth, hurt)

LEMMA ReplayedAgents ==
    ASSUME NEW T, NEW s \in Seq(T), NEW e \in T, NEW n \in 0..Len(s)
    PROVE  Replayed(From(Append(s, e), n)).agents = Agents(Replayed(From(s, n)).agents, e)
<1>1. From(Append(s, e), n) = Append(From(s, n), e) /\ From(s, n) \in Seq(T)
    BY FromAppend, FromIs
<1>2. Replayed(Append(From(s, n), e)) = Apply(Replayed(From(s, n)), e)
    BY <1>1, ReplayOneMore
<1>3. QED
    BY <1>1, <1>2 DEF Apply

LEMMA NothingAgrees ==
    ASSUME NEW all, NEW but
    PROVE  Agree(Replayed(<<>>).agents, all, but)
BY ReplayNothing DEF Agree, Empty

\* The line of the event is appended and the event is told to both.
LEMMA LineAppended ==
    ASSUME NEW T, NEW s \in Seq(T), NEW e \in T, NEW all, NEW but, FileAgrees(s, all, but)
    PROVE  FileAgrees(Append(s, e), Agents(all, e), but)
<1>1. Append(s, e) \in Seq(T) /\ Len(Append(s, e)) = Len(s) + 1 /\ Len(s) \in Nat
    BY AppendProperties, LenProperties
<1>2. ASSUME NEW n \in 0..Len(Append(s, e))
      PROVE  Agree(Replayed(From(Append(s, e), n)).agents, Agents(all, e), but)
    <2>1. CASE n = Len(s) + 1
        <3>1. From(Append(s, e), n) = <<>>
            BY <1>1, <2>1, FromEnd
        <3>2. QED
            BY <3>1, NothingAgrees
    <2>2. CASE n # Len(s) + 1
        <3>1. n \in 0..Len(s)
            BY <1>1, <2>2
        <3>2. Agree(Replayed(From(s, n)).agents, all, but)
            BY <3>1 DEF FileAgrees
        <3>3. Agree(Agents(Replayed(From(s, n)).agents, e), Agents(all, e), but)
            BY <3>2, BothApply
        <3>4. QED
            BY <3>1, <3>3, ReplayedAgents
    <2>3. QED
        BY <2>1, <2>2
<1>3. QED
    BY <1>2 DEF FileAgrees

\* The last line does not parse any more.
LEMMA LineBroken ==
    ASSUME NEW T, NEW s \in Seq(T), s # <<>>, NEW all, NEW but, Key(Last(s)) \in but, FileAgrees(s, all, but)
    PROVE  FileAgrees(Front(s), all, but)
<1>1. Front(s) \in Seq(T) /\ Len(Front(s)) = Len(s) - 1 /\ Last(s) \in T /\ Len(s) \in Nat
    BY Frontal, LenProperties
<1>2. s = Append(Front(s), Last(s))
    BY FrontAndLast
<1>3. ASSUME NEW n \in 0..Len(Front(s)) PROVE Agree(Replayed(From(Front(s), n)).agents, all, but)
    <2>1. n \in 0..Len(s)
        BY <1>1
    <2>2. Agree(Replayed(From(s, n)).agents, all, but)
        BY <2>1 DEF FileAgrees
    <2>3. Replayed(From(s, n)).agents = Agents(Replayed(From(Front(s), n)).agents, Last(s))
        BY <1>1, <1>2, ReplayedAgents
    <2>4. QED
        BY <2>2, <2>3, OneApplies
<1>4. QED
    BY <1>3 DEF FileAgrees

\* The event is told only to the store that forgets nothing.
LEMMA LineLost ==
    ASSUME NEW s, NEW all, NEW but, NEW e, Key(e) \in but, FileAgrees(s, all, but)
    PROVE  FileAgrees(s, Agents(all, e), but)
BY OneApplies DEF FileAgrees

LEMMA FileAgreesMore ==
    ASSUME NEW s, NEW all, NEW but, NEW more, FileAgrees(s, all, but), but \subseteq more
    PROVE  FileAgrees(s, all, more)
BY AgreeMore DEF FileAgrees

\* The append of an event, written in whole or in part: its agent, and that of the
\* line it breaks, are excepted from what is promised.
LEMMA AppendAgrees ==
    ASSUME FileInv, AgentsInv, NEW how, AppendText(how)
    PROVE  AgentsInv'
<1> DEFINE e == Head(bus)
           ok == how = "whole"
<1>1. e \in Lines /\ log \in Seq(Lines) /\ (cut = "text" => log # <<>>)
    BY AppendFile DEF FileInv
<1>2. /\ log' = LinesWith(e, ok) /\ hurt' = hurt \cup Broken(e, ok)
      /\ truth' = Agents(truth, e)
      /\ writing = "free" /\ writing' = (IF ok THEN "text" ELSE "lock")
      /\ event' = e /\ store' = store
    BY DEF AppendText
<1> HIDE DEF e
<1>3. FileAgrees(log, truth, hurt) /\ Agree(store.agents, truth, hurt)
    BY <1>2 DEF AgentsInv
<1>4. FileAgrees(log, truth, hurt') /\ Agree(store.agents, truth, hurt')
    BY <1>2, <1>3, FileAgreesMore, AgreeMore
<1>5. Agree(Agents(store.agents, e), truth', hurt')
    BY <1>2, <1>4, BothApply
<1>6. FileAgrees(log', truth', hurt')
    <2>1. CASE cut = "line" /\ ok
        <3>1. log' = Append(log, e)
            BY <1>2, <2>1 DEF LinesWith
        <3>2. FileAgrees(Append(log, e), Agents(truth, e), hurt')
            BY <1>1, <1>4, LineAppended
        <3>3. QED
            BY <1>2, <3>1, <3>2
    <2>2. CASE cut = "text"
        <3>1. log' = Front(log) /\ Key(Last(log)) \in hurt' /\ Key(e) \in hurt'
            BY <1>2, <2>2 DEF LinesWith, Broken
        <3>2. FileAgrees(Front(log), truth, hurt')
            BY <1>1, <1>4, <2>2, <3>1, LineBroken
        <3>3. QED
            BY <1>2, <3>1, <3>2, LineLost
    <2>3. CASE cut # "text" /\ ~(cut = "line" /\ ok)
        <3>1. log' = log /\ Key(e) \in hurt'
            BY <1>2, <2>3 DEF LinesWith, Broken
        <3>2. QED
            BY <1>2, <1>4, <3>1, LineLost
    <2>4. QED
        BY <2>1, <2>2, <2>3
<1>7. {"agents", "files"} \subseteq DOMAIN store
    BY DEF AgentsInv
<1>8. QED
    BY <1>2, <1>5, <1>6, <1>7 DEF AgentsInv

\* The store is rebuilt from the last lines of the file, or starts empty.
LEMMA RestartAgrees ==
    ASSUME FileInv, AgentsInv, NEW how, Restart(how)
    PROVE  AgentsInv'
<1>1. /\ writing' = "free" /\ UNCHANGED <<truth, hurt>>
      /\ store' = IF how = "unread" THEN Empty ELSE Replay(Tail10k(Loaded))
    BY DEF Restart
<1>2. log \in Seq(Lines) /\ FileAgrees(log, truth, hurt)
    BY DEF FileInv, AgentsInv
<1>3. PICK m \in 0..Len(log) : Tail10k(log) = From(log, m)
    BY <1>2, TailOf DEF From
<1>4. {"agents", "files"} \subseteq DOMAIN store'
    BY <1>1 DEF Replay, Empty
<1>5. Agree(store'.agents, truth', hurt')
    <2>1. CASE how = "unread"
        BY <1>1, <2>1 DEF Empty, Agree
    <2>2. CASE how # "unread" /\ garbled
        <3>1. PICK k \in 0..Len(<<>>) : Tail10k(<<>>) = From(<<>>, k)
            BY EmptySeq, TailOf DEF From
        <3>2. <<>> \in Seq(Lines) /\ Len(<<>>) = 0
            BY EmptySeq
        <3>3. From(<<>>, Len(<<>>)) = <<>>
            BY <3>2, FromEnd
        <3>4. From(<<>>, k) = <<>>
            BY <3>1, <3>2, <3>3
        <3>5. store' = Replay(<<>>)
            BY <1>1, <2>2, <3>1, <3>4 DEF Loaded
        <3>6. store'.agents = Replayed(<<>>).agents
            BY <3>5 DEF Replay, Replayed
        <3>7. QED
            BY <3>6, NothingAgrees
    <2>3. CASE how # "unread" /\ ~garbled
        <3>1. store' = Replay(Tail10k(log))
            BY <1>1, <2>3 DEF Loaded
        <3>2. store'.agents = Replayed(From(log, m)).agents
            BY <1>3, <3>1 DEF Replay, Replayed
        <3>3. QED
            BY <1>1, <1>2, <3>2 DEF FileAgrees
    <2>4. QED
        BY <2>1, <2>2, <2>3
<1>6. FileAgrees(From(log, m), truth, hurt)
    <2>1. Len(log) \in Nat /\ m \in Nat /\ From(log, m) \in Seq(Lines) /\ Len(From(log, m)) = Len(log) - m
        BY <1>2, FromIs, LenProperties
    <2>2. ASSUME NEW n \in 0..Len(From(log, m))
          PROVE  Agree(Replayed(From(From(log, m), n)).agents, truth, hurt)
        <3>1. n \in 0..(Len(log) - m) /\ m + n \in 0..Len(log)
            BY <2>1
        <3>2. From(From(log, m), n) = From(log, m + n)
            BY <1>2, <3>1, FromFrom
        <3>3. QED
            BY <1>2, <3>1, <3>2 DEF FileAgrees
    <2>3. QED
        BY <2>2 DEF FileAgrees
<1>7. log' = log \/ log' = From(log, m)
    BY <1>3, RestartFile
<1>8. FileAgrees(log', truth', hurt')
    BY <1>1, <1>2, <1>6, <1>7
<1>9. QED
    BY <1>1, <1>4, <1>5, <1>8 DEF AgentsInv

\* The collector forgets agents and changes none, also while an event waits for
\* the lock.
LEMMA CollectAgrees ==
    ASSUME AgentsInv, Collect
    PROVE  AgentsInv'
<1>1. PICK kept1, files1 : store' = [store EXCEPT !.agents = Restrict(store.agents, kept1),
                                                  !.files = files1]
                           /\ kept1 \subseteq DOMAIN store.agents
    BY DEF Collect, Remembered
<1>2. UNCHANGED <<writing, event, log, truth, hurt>>
    BY DEF Collect
<1>3. store'.agents = Restrict(store.agents, kept1) /\ {"agents", "files"} \subseteq DOMAIN store'
    BY <1>1 DEF AgentsInv
<1>4. Agree(store'.agents, store.agents, {})
    BY <1>1, <1>3 DEF Agree, Restrict
<1>5. writing = "free" => Agree(store'.agents, truth, hurt)
    BY <1>4, AgreeAlong DEF AgentsInv
<1>6. writing # "free" => Agree(Agents(store'.agents, event), truth, hurt)
    <2>1. Agree(Agents(store'.agents, event), Agents(store.agents, event), {})
        BY <1>4, BothApply
    <2>2. QED
        BY <2>1, AgreeAlong DEF AgentsInv
<1>7. QED
    BY <1>2, <1>3, <1>5, <1>6 DEF AgentsInv

LEMMA AgentsStep ==
    ASSUME FileInv, AgentsInv, [ANext]_avars
    PROVE  AgentsInv'
<1>1. CASE \E how \in {"whole", "part", "inside"} : AppendText(how)
    BY <1>1, AppendAgrees
<1>2. CASE \E how \in {"unread", "read", "compacted"} : Restart(how)
    BY <1>2, RestartAgrees
<1>3. CASE Collect
    BY <1>3, CollectAgrees
<1>4. CASE ApplyEvent
    <2>1. writing = "lock" /\ writing' = "free" /\ store' = Apply(store, event)
          /\ UNCHANGED <<log, truth, hurt>>
        BY <1>4 DEF ApplyEvent
    <2>2. store'.agents = Agents(store.agents, event) /\ {"agents", "files"} \subseteq DOMAIN store'
        BY <2>1 DEF Apply
    <2>3. QED
        BY <2>1, <2>2 DEF AgentsInv
<1>5. CASE EndLine
    BY <1>5 DEF EndLine, AgentsInv
<1>6. CASE \/ \E e \in Events : Publish(e)
           \/ Skip \/ Pass \/ UNCHANGED avars
    <2>1. UNCHANGED <<writing, event, store, log, truth, hurt>>
        BY <1>6 DEF Publish, Skip, Pass, avars
    <2>2. QED
        BY <2>1 DEF AgentsInv
<1>7. QED
    BY <1>1, <1>2, <1>3, <1>4, <1>5, <1>6 DEF ANext

\* What the store says of an agent is what all events that were applied say of it,
\* for any number of events, sessions, restarts, compactions and collections, and
\* wherever a crash or a full disk cuts a line, unless an append of one of that
\* agent's own events was lost (replay_events_sync, handle_event, start_gc).
THEOREM AgentsAreTrue == ASpec => []AgentsTrue
<1>1. AInit => FileInv /\ AgentsInv
    <2>1. SUFFICES ASSUME AInit PROVE FileInv /\ AgentsInv
        OBVIOUS
    <2>2. time = 1 /\ bus = <<>> /\ log = <<>> /\ cut = "line" /\ writing = "free" /\ store = Empty
        BY <2>1 DEF AInit
    <2>3. <<>> \in Seq(Lines) /\ Len(<<>>) = 0
        BY EmptySeq
    <2>4. FileInv
        BY <2>2, <2>3 DEF FileInv
    <2>5. FileAgrees(log, truth, hurt)
        <3>1. \A n \in 0..Len(log) : n = Len(log)
            BY <2>2, <2>3
        <3>2. From(log, Len(log)) = <<>>
            BY <2>2, <2>3, FromEnd
        <3>3. QED
            BY <2>2, <3>1, <3>2, NothingAgrees DEF FileAgrees
    <2>6. AgentsInv
        BY <2>2, <2>5 DEF AgentsInv, Empty, Agree
    <2>7. QED
        BY <2>4, <2>6
<1>2. FileInv /\ AgentsInv /\ [ANext]_avars => (FileInv /\ AgentsInv)'
    BY FileStep, AgentsStep
<1>3. AgentsInv => AgentsTrue
    BY DEF AgentsInv, AgentsTrue, Agree
<1>4. QED
    BY <1>1, <1>2, <1>3, PTL DEF ASpec
=============================================================================
