--------------------------- MODULE SatRecordsProofs ---------------------------
(***************************************************************************)
(* Theorems about SatRecords, for any workers, issues, labels, results and *)
(* ends of cycles, however many of them write at once.  Three invariants    *)
(* stand on each other: what a file and a worker may hold at all, that the  *)
(* two files never share an inode, and, for a file that nobody replaced     *)
(* while another did, that it is what its one writer has read.              *)
(***************************************************************************)
EXTENDS SatRecords, DataLemmas, SequenceTheorems

-----------------------------------------------------------------------------
(* The inductive invariants                                                *)

\* Whatever may be appended to a list.
Items ==
    {Record(i, r, l) : i \in IssueNumbers, r \in IssueRepos, l \in Labels}
      \cup (UNION {Range(HighConfidence(res)) : res \in Results})
      \cup {CycleLearning(e.report, e.comparison, e.iteration, e.false_positives) : e \in CycleEnds}

ContentType == [whole : BOOLEAN, list : Seq(Items)]

NameType == [path : Inodes \cup {0}, tmp : Inodes \cup {0}]

WorkType == [pc : {"idle", "load", "create", "write", "rename", "learned", "hub"},
             op : {"none", "label", "metrics", "learn", "cycle"},
             items : Seq(Items), list : Seq(Items), inode : Inodes \cup {0}]

RecordsTyped ==
    /\ names \in [Files -> NameType]
    /\ inodes \in [Inodes -> ContentType]
    /\ work \in [Workers -> WorkType]

\* Even when writers get in each other's way, a file holds items, and a worker
\* that is not writing has no inode.
HeldInv ==
    /\ RecordsTyped
    /\ \A w \in Workers : work[w].pc \notin {"write", "rename"} => work[w].inode = 0

\* No two names are of one inode.
Separate ==
    /\ \A f, g \in Files : names[f].path # 0 => names[f].path # names[g].tmp
    /\ \A f, g \in Files : f # g /\ names[f].path # 0 => names[f].path # names[g].path
    /\ \A f, g \in Files : f # g /\ names[f].tmp # 0 => names[f].tmp # names[g].tmp

\* A worker asks GitHub for a label only, which has one record, and it never
\* writes to an inode of the other file.
KindOK(w) ==
    LET j == work[w]
    IN /\ j.pc = "hub" => j.op = "label"
       /\ j.op = "label" => j.items = <<Head(j.items)>>
       /\ j.pc \in {"write", "rename"} => j.inode # 0
       /\ \A g \in Files : g # FileOf(j.op) /\ j.inode # 0 =>
              j.inode # names[g].path /\ j.inode # names[g].tmp

Shape == HeldInv /\ Separate /\ \A w \in Workers : KindOK(w)

\* What has been renamed was written to its end.
PathsWhole == \A f \in Files \ overlapped : names[f].path # 0 => inodes[names[f].path].whole

\* Nobody else replaces a file that a worker replaces.
OneWriter == \A f \in Files \ overlapped : \A v, w \in Replacing(f) : v = w

Replaces == {"create", "write", "rename"}

\* A worker that replaces a file is about to write its present content and
\* the new items, and the temporary file is its own.
WorkerOK(w) ==
    LET j == work[w]
        f == FileOf(j.op)
    IN f \notin overlapped =>
         /\ j.pc \in Replaces => j.list = Content(f).list \o j.items
         /\ j.pc \in {"write", "rename"} => j.inode # 0 /\ j.inode = names[f].tmp
         /\ j.pc = "write" => ~inodes[j.inode].whole
         /\ j.pc = "rename" => inodes[j.inode] = Whole(j.list)

\* A worker that labels an issue has not found its record before it replaces
\* the file, and has afterwards.
LabellerOK(w) ==
    LET j == work[w]
        list == Content("positives").list
    IN "positives" \notin overlapped /\ j.op = "label" =>
         /\ j.pc \in Replaces => ~Recorded(list, Head(j.items))
         /\ j.pc \in {"learned", "hub"} => Recorded(list, Head(j.items))

\* No issue has two records.
Unique(list) == \A m, n \in DOMAIN list : IssueOf(list[m]) = IssueOf(list[n]) => m = n

\* Each issue that was labelled has a record, and no issue has two.
IssuesRecorded ==
    LET list == Content("positives").list
    IN "positives" \notin overlapped =>
         /\ \A x \in answered \cup labelled : \E n \in DOMAIN list : IssueOf(list[n]) = x
         /\ Unique(list)

Kept ==
    /\ PathsWhole /\ OneWriter
    /\ \A w \in Workers : WorkerOK(w) /\ LabellerOK(w)
    /\ IssuesRecorded

RecordsInv == Shape /\ Kept

-----------------------------------------------------------------------------
(* Lemmas about the operators                                              *)

LEMMA FileOfIs == \A op : FileOf(op) \in Files
BY DEF FileOf, Files

LEMMA SmallInodes == Cardinality(Workers) \in Nat /\ {1, 2, 3, 4} \subseteq Inodes /\ 0 \notin Inodes
                     /\ Inodes \subseteq Nat
BY FS_CardinalityType, RecordsAssumption DEF Inodes

\* What a file holds is a list of items.
LEMMA HeldContent ==
    ASSUME HeldInv, NEW f \in Files
    PROVE  Content(f).list \in Seq(Items)
<1>1. CASE names[f].path = 0
    BY <1>1, EmptySeq DEF Content, Whole
<1>2. CASE names[f].path # 0
    BY <1>2 DEF HeldInv, RecordsTyped, Content, NameType, ContentType
<1>3. QED
    BY <1>1, <1>2

\* A file that was never replaced by two at once is whole.
LEMMA ContentTyped ==
    ASSUME HeldInv, PathsWhole, NEW f \in Files, f \notin overlapped
    PROVE  Content(f) \in ContentType /\ Content(f).whole
<1>1. CASE names[f].path = 0
    <2>1. <<>> \in Seq(Items)
        BY EmptySeq
    <2>2. QED
        BY <1>1, <2>1 DEF Content, Whole, ContentType
<1>2. CASE names[f].path # 0
    BY <1>2 DEF Content, HeldInv, RecordsTyped, PathsWhole, NameType, ContentType
<1>3. QED
    BY <1>1, <1>2

\* A list is a prefix of what is appended to it.
LEMMA AppendedPrefix ==
    ASSUME NEW S, NEW s \in Seq(S), NEW t \in Seq(S)
    PROVE  /\ IsPrefix(s, s \o t) /\ s \o t \in Seq(S)
           /\ DOMAIN (s \o t) = 1..(Len(s) + Len(t)) /\ DOMAIN s = 1..Len(s)
           /\ Len(s) \in Nat /\ Len(t) \in Nat
           /\ \A i \in 1..Len(s) : (s \o t)[i] = s[i]
           /\ \A i \in 1..Len(t) : (s \o t)[Len(s) + i] = t[i]
<1> DEFINE u == s \o t
           p == SubSeq(s, 1, Len(s))
           q == SubSeq(u, 1, Len(s))
<1>1. /\ u \in Seq(S) /\ Len(u) = Len(s) + Len(t) /\ Len(s) \in Nat /\ Len(t) \in Nat
      /\ \A i \in 1..(Len(s) + Len(t)) : u[i] = IF i <= Len(s) THEN s[i] ELSE t[i - Len(s)]
    BY ConcatProperties, LenProperties
<1>2. DOMAIN u = 1..(Len(s) + Len(t)) /\ DOMAIN s = 1..Len(s)
    BY <1>1, LenProperties
<1> HIDE DEF u
<1>3. \A i \in 1..Len(s) : u[i] = s[i] /\ s[i] \in S
    BY <1>1, ElementOfSeq
<1>4. \A i \in 1..Len(t) : u[Len(s) + i] = t[i]
    BY <1>1
<1>5. p \in Seq(S) /\ q \in Seq(S) /\ Len(p) = Len(q) /\ \A i \in 1..Len(p) : p[i] = q[i]
    BY <1>1, <1>3, SubSeqProperties
<1>6. p = q
    BY <1>5, SeqEqual
<1>7. IsPrefix(s, u)
    BY <1>1, <1>6 DEF IsPrefix
<1>8. QED
    BY <1>1, <1>2, <1>3, <1>4, <1>7 DEF u

LEMMA IdleFits == Idle \in WorkType
BY EmptySeq DEF Idle, WorkType

-----------------------------------------------------------------------------
(* The initial states                                                      *)

LEMMA InitRecords == RInit => RecordsInv
<1> SUFFICES ASSUME RInit PROVE RecordsInv
    OBVIOUS
<1>1. <<>> \in Seq(Items)
    BY EmptySeq
<1>2. HeldInv
    BY <1>1 DEF RInit, HeldInv, RecordsTyped, NameType, ContentType, WorkType, Cut, Idle
<1>3. Separate /\ PathsWhole
    BY DEF RInit, Separate, PathsWhole
<1>4. \A f \in Files : Content(f) = Whole(<<>>)
    BY DEF RInit, Content
<1>5. OneWriter
    BY DEF RInit, OneWriter, Replacing, Idle
<1>6. \A w \in Workers : KindOK(w) /\ WorkerOK(w) /\ LabellerOK(w)
    BY DEF RInit, KindOK, WorkerOK, LabellerOK, Idle, Replaces
<1>7. IssuesRecorded
    <2>1. DOMAIN Content("positives").list = {}
        BY <1>4 DEF Files, Whole
    <2>2. QED
        BY <2>1 DEF IssuesRecorded, Unique, RInit
<1>8. QED
    BY <1>2, <1>3, <1>5, <1>6, <1>7 DEF RecordsInv, Shape, Kept

-----------------------------------------------------------------------------
(* What a worker may hold, however many write at once                      *)

\* Each kind of call has items to append.
LEMMA CallBegins ==
    ASSUME NEW w \in Workers, Label(w) \/ Metrics(w) \/ Learn(w) \/ Cycle(w)
    PROVE  \E op \in {"label", "metrics", "learn", "cycle"}, items \in Seq(Items) :
               Begin(w, op, items) /\ (op = "label" => items = <<Head(items)>>)
<1>1. CASE Label(w)
    <2>1. PICK i \in IssueNumbers, r \in IssueRepos, l \in Labels :
              Begin(w, "label", <<Record(i, r, l)>>)
        BY <1>1 DEF Label
    <2>2. Record(i, r, l) \in Items
        BY DEF Items
    <2> DEFINE items == <<Record(i, r, l)>>
    <2>3. items \in Seq(Items) /\ items = <<Head(items)>>
        BY <2>2
    <2> HIDE DEF items
    <2>4. QED
        BY <2>1, <2>3 DEF items
<1>2. CASE Metrics(w)
    <2>1. <<>> \in Seq(Items)
        BY EmptySeq
    <2>2. QED
        BY <1>2, <2>1 DEF Metrics
<1>3. CASE Learn(w)
    <2>1. PICK res \in Results : Begin(w, "learn", HighConfidence(res))
        BY <1>3 DEF Learn
    <2>2. Range(HighConfidence(res)) \subseteq Items
        BY DEF Items
    <2>3. HighConfidence(res) \in Seq(Items)
        BY <2>2, ResultsAssumption, SeqMonotonic DEF ResultsAssumption
    <2>4. QED
        BY <2>1, <2>3
<1>4. CASE Cycle(w)
    <2>1. PICK e \in CycleEnds :
              Begin(w, "cycle", <<CycleLearning(e.report, e.comparison, e.iteration,
                                                e.false_positives)>>)
        BY <1>4 DEF Cycle
    <2> DEFINE item == CycleLearning(e.report, e.comparison, e.iteration, e.false_positives)
    <2>2. item \in Items
        <3>1. item \in {CycleLearning(x.report, x.comparison, x.iteration, x.false_positives) :
                           x \in CycleEnds}
            OBVIOUS
        <3>2. QED
            BY <3>1 DEF Items
    <2>3. Begin(w, "cycle", <<item>>)
        BY <2>1
    <2> HIDE DEF item
    <2>4. <<item>> \in Seq(Items)
        BY <2>2
    <2>5. QED
        BY <2>3, <2>4
<1>5. QED
    BY <1>1, <1>2, <1>3, <1>4

\* There is an inode left for a new temporary file.
LEMMA InodeLeft ==
    ASSUME HeldInv, NEW w \in Workers, work[w].pc = "create"
    PROVE  Min(Inodes \ InodesHeld) \in Inodes \ InodesHeld
<1> DEFINE inode == [v \in Workers \ {w} |-> work[v].inode]
           Others == {work[v].inode : v \in Workers \ {w}}
           One == {names["positives"].path}
           Two == One \cup {names["positives"].tmp}
           Three == Two \cup {names["learnings"].path}
           Four == Three \cup {names["learnings"].tmp}
           n == Cardinality(Workers)
<1>1. IsFiniteSet(Workers) /\ n \in Nat /\ n >= 1 /\ IsFiniteSet(Workers \ {w})
      /\ Cardinality(Workers \ {w}) = n - 1
    <2>1. IsFiniteSet(Workers) /\ n \in Nat /\ n # 0
        BY RecordsAssumption, FS_CardinalityType, FS_EmptySet
    <2>2. QED
        BY <2>1, FS_RemoveElement
<1>2. IsFiniteSet(Others) /\ Cardinality(Others) <= n - 1 /\ Cardinality(Others) \in Nat
    <2>1. IsFiniteSet(Others) /\ Cardinality(Others) <= Cardinality(Workers \ {w})
        <3>1. inode \in Surjection(Workers \ {w}, Others)
            BY DEF Surjection
        <3> HIDE DEF inode, Others
        <3>2. QED
            BY <1>1, <3>1, FS_Surjection
    <2> HIDE DEF Others
    <2>2. QED
        BY <1>1, <2>1, FS_CardinalityType
<1>3. IsFiniteSet(Four) /\ Cardinality(Four) <= 4 /\ Cardinality(Four) \in Nat
    <2>1. IsFiniteSet(One) /\ Cardinality(One) = 1
        BY FS_Singleton
    <2> HIDE DEF One
    <2>2. IsFiniteSet(Two) /\ Cardinality(Two) <= Cardinality(One) + 1
        BY <2>1, OneMore
    <2>3. IsFiniteSet(Two) /\ Cardinality(Two) <= 2 /\ Cardinality(Two) \in Nat
        BY <2>1, <2>2, FS_CardinalityType
    <2> HIDE DEF Two
    <2>4. IsFiniteSet(Three) /\ Cardinality(Three) <= Cardinality(Two) + 1
        BY <2>3, OneMore
    <2>5. IsFiniteSet(Three) /\ Cardinality(Three) <= 3 /\ Cardinality(Three) \in Nat
        BY <2>3, <2>4, FS_CardinalityType
    <2> HIDE DEF Three
    <2>6. IsFiniteSet(Four) /\ Cardinality(Four) <= Cardinality(Three) + 1
        BY <2>5, OneMore
    <2> HIDE DEF Four
    <2>7. QED
        BY <2>5, <2>6, FS_CardinalityType
<1>4. IsFiniteSet(Inodes) /\ Cardinality(Inodes) = n + 4
    BY <1>1, FS_Interval DEF Inodes
<1>5. InodesHeld \ {0} \subseteq Others \cup Four
    <2>1. work[w].inode = 0
        BY DEF HeldInv
    <2>2. ASSUME NEW x \in InodesHeld, x # 0 PROVE x \in Others \cup Four
        <3>1. CASE \E v \in Workers : x = work[v].inode
            BY <2>1, <2>2, <3>1
        <3>2. CASE \E f \in Files : x \in {names[f].path, names[f].tmp}
            BY <3>2 DEF Files
        <3>3. QED
            BY <2>2, <3>1, <3>2 DEF InodesHeld
    <2>3. QED
        BY <2>2
<1> HIDE DEF Others, Four
<1>6. IsFiniteSet(Others \cup Four) /\ Cardinality(Others \cup Four) <= n + 3
    <2>1. /\ IsFiniteSet(Others \cup Four)
          /\ Cardinality(Others \cup Four)
               = Cardinality(Others) + Cardinality(Four) - Cardinality(Others \cap Four)
        BY <1>2, <1>3, FS_Union
    <2>2. Cardinality(Others \cap Four) \in Nat
        BY <1>2, FS_Intersection, FS_CardinalityType
    <2>3. QED
        BY <1>1, <1>2, <1>3, <2>1, <2>2
<1>7. ~(Inodes \subseteq Others \cup Four)
    <2>1. SUFFICES ASSUME Inodes \subseteq Others \cup Four PROVE FALSE
        OBVIOUS
    <2>2. Cardinality(Inodes) <= Cardinality(Others \cup Four)
        BY <1>6, <2>1, FS_Subset
    <2>3. Cardinality(Others \cup Four) \in Nat
        BY <1>6, FS_CardinalityType
    <2>4. QED
        BY <1>1, <1>4, <1>6, <2>2, <2>3
<1>8. Inodes \ InodesHeld # {}
    BY <1>5, <1>7, SmallInodes
<1>9. QED
    BY <1>8, SmallInodes, MinOfNaturals

LEMMA HeldStep == HeldInv /\ [RNext]_rvars => HeldInv'
<1> SUFFICES ASSUME HeldInv, [RNext]_rvars PROVE HeldInv'
    OBVIOUS
<1> DEFINE Moves(w, j) == /\ work' = [work EXCEPT ![w] = j] /\ j \in WorkType
                          /\ j.pc \notin {"write", "rename"} => j.inode = 0
           DiskTyped == names' \in [Files -> NameType] /\ inodes' \in [Inodes -> ContentType]
<1>1. /\ names \in [Files -> NameType] /\ inodes \in [Inodes -> ContentType]
      /\ work \in [Workers -> WorkType]
    BY DEF HeldInv, RecordsTyped
<1>2. ASSUME NEW w \in Workers, NEW j, Moves(w, j), DiskTyped PROVE HeldInv'
    BY <1>1, <1>2 DEF HeldInv, RecordsTyped
<1>3. ASSUME NEW w \in Workers, Done(w), DiskTyped PROVE HeldInv'
    <2>1. Moves(w, Idle)
        BY <1>3, IdleFits DEF Done, Idle
    <2>2. QED
        BY <1>2, <1>3, <2>1
<1>4. \A f \in Files : Content(f).list \in Seq(Items)
    BY HeldContent
<1>5. ASSUME NEW w \in Workers, NEW op \in {"label", "metrics", "learn", "cycle"},
             NEW items \in Seq(Items), Begin(w, op, items)
      PROVE  HeldInv'
    <2> DEFINE j == [Idle EXCEPT !.pc = "load", !.op = op, !.items = items]
    <2>1. work' = [work EXCEPT ![w] = j] /\ DiskTyped
        BY <1>1, <1>5 DEF Begin
    <2>2. j \in WorkType /\ j.inode = 0
        BY IdleFits DEF WorkType, Idle
    <2> HIDE DEF j
    <2>3. QED
        BY <1>2, <2>1, <2>2
<1>6. ASSUME NEW w \in Workers, NEW pc \in {"learned", "create", "hub"}, NEW list \in Seq(Items),
             work[w].pc \notin {"write", "rename"}, Goes(w, pc, list), UNCHANGED <<names, inodes>>
      PROVE  HeldInv'
    <2> DEFINE j == [work[w] EXCEPT !.pc = pc, !.list = list]
    <2>1. work' = [work EXCEPT ![w] = j] /\ DiskTyped
        BY <1>1, <1>6 DEF Goes
    <2>2. j \in WorkType /\ j.inode = 0
        BY <1>1, <1>6 DEF WorkType, HeldInv
    <2> HIDE DEF j
    <2>3. QED
        BY <1>2, <2>1, <2>2
<1>7. ASSUME NEW w \in Workers, Label(w) \/ Metrics(w) \/ Learn(w) \/ Cycle(w) PROVE HeldInv'
    <2>1. PICK op \in {"label", "metrics", "learn", "cycle"}, items \in Seq(Items) : Begin(w, op, items)
        BY <1>7, CallBegins
    <2>2. QED
        BY <1>5, <2>1
<1>8. ASSUME NEW w \in Workers, Load(w) PROVE HeldInv'
    <2> DEFINE f == IF work[w].op = "metrics" THEN "positives" ELSE FileOf(work[w].op)
               list == Content(f).list
               more == list \o work[w].items
    <2>1. list \in Seq(Items) /\ work[w].items \in Seq(Items)
        BY <1>1, <1>4, FileOfIs DEF WorkType, Files
    <2>2. more \in Seq(Items)
        BY <2>1, AppendedPrefix
    <2>3. /\ UNCHANGED <<names, inodes>> /\ work[w].pc = "load"
          /\ Done(w) \/ Goes(w, "learned", list) \/ Goes(w, "create", more)
        BY <1>8 DEF Load, Step
    <2> HIDE DEF list, more
    <2>4. QED
        BY <1>1, <1>3, <1>6, <2>1, <2>2, <2>3
<1>9. ASSUME NEW w \in Workers, Create(w) PROVE HeldInv'
    <2> DEFINE f == FileOf(work[w].op)
    <2>1. work[w].pc = "create" /\ f \in Files
        BY <1>9, FileOfIs DEF Create, Step
    <2>2. \E i \in Inodes : /\ inodes' = [inodes EXCEPT ![i] = Cut]
                            /\ work' = [work EXCEPT ![w].pc = "write", ![w].inode = i]
                            /\ (names' = names \/ names' = [names EXCEPT ![f].tmp = i])
        <3>1. CASE Target(f) # 0
            <4>1. Target(f) \in Inodes
                BY <1>1, <2>1, <3>1 DEF Target, NameType
            <4>2. QED
                BY <1>9, <3>1, <4>1 DEF Create
        <3>2. CASE Target(f) = 0
            <4>1. Min(Inodes \ InodesHeld) \in Inodes
                BY <2>1, InodeLeft
            <4>2. QED
                BY <1>9, <3>2, <4>1 DEF Create
        <3>3. QED
            BY <3>1, <3>2
    <2>3. PICK i \in Inodes : /\ inodes' = [inodes EXCEPT ![i] = Cut]
                              /\ work' = [work EXCEPT ![w].pc = "write", ![w].inode = i]
                              /\ (names' = names \/ names' = [names EXCEPT ![f].tmp = i])
        BY <2>2
    <2> DEFINE j == [work[w] EXCEPT !.pc = "write", !.inode = i]
    <2>4. Cut \in ContentType
        BY EmptySeq DEF Cut, ContentType
    <2> HIDE DEF f
    <2>5. DiskTyped
        BY <1>1, <2>1, <2>3, <2>4 DEF NameType
    <2>6. j \in WorkType /\ j.pc = "write"
        BY <1>1 DEF WorkType
    <2>7. work' = [work EXCEPT ![w] = j]
        BY <1>1, <2>3
    <2> HIDE DEF j
    <2>8. QED
        BY <1>2, <2>5, <2>6, <2>7
<1>10. ASSUME NEW w \in Workers, Write(w) PROVE HeldInv'
    <2> DEFINE j == [work[w] EXCEPT !.pc = "rename"]
               i == work[w].inode
    <2>1. Cut \in ContentType /\ Whole(work[w].list) \in ContentType
        BY <1>1, EmptySeq DEF Cut, Whole, ContentType, WorkType
    <2>2. /\ names' = names /\ work' = [work EXCEPT ![w] = j]
          /\ inodes' = [inodes EXCEPT ![i] = Cut] \/ inodes' = [inodes EXCEPT ![i] = Whole(work[w].list)]
        BY <1>10 DEF Write
    <2>3. DiskTyped
        BY <1>1, <2>1, <2>2
    <2>4. j \in WorkType /\ j.pc = "rename"
        BY <1>1 DEF WorkType
    <2> HIDE DEF j
    <2>5. QED
        BY <1>2, <2>2, <2>3, <2>4
<1>11. ASSUME NEW w \in Workers, Rename(w) PROVE HeldInv'
    <2> DEFINE f == FileOf(work[w].op)
               j == [work[w] EXCEPT !.pc = "learned", !.inode = 0]
    <2>1. f \in Files
        BY FileOfIs
    <2>2. /\ inodes' = inodes
          /\ Done(w) \/ work' = [work EXCEPT ![w] = j]
          /\ names' = names \/ names' = [names EXCEPT ![f] = [path |-> names[f].tmp, tmp |-> 0]]
        BY <1>11 DEF Rename, Done
    <2> HIDE DEF f
    <2>3. DiskTyped
        <3> DEFINE new == [path |-> names[f].tmp, tmp |-> 0]
        <3>1. new \in NameType
            BY <1>1, <2>1 DEF NameType
        <3>2. inodes' = inodes /\ (names' = names \/ names' = [names EXCEPT ![f] = new])
            BY <2>2
        <3> HIDE DEF new
        <3>3. QED
            BY <1>1, <2>1, <3>1, <3>2
    <2>4. j \in WorkType /\ j.inode = 0
        BY <1>1 DEF WorkType
    <2> HIDE DEF j
    <2>5. QED
        BY <1>2, <1>3, <2>2, <2>3, <2>4
<1>12. ASSUME NEW w \in Workers, Learned(w) PROVE HeldInv'
    <2>1. work[w].list \in Seq(Items)
        BY <1>1 DEF WorkType
    <2>2. /\ UNCHANGED <<names, inodes>> /\ work[w].pc = "learned"
          /\ Done(w) \/ Goes(w, "hub", work[w].list)
        BY <1>12 DEF Learned, Step
    <2>3. QED
        BY <1>1, <1>3, <1>6, <2>1, <2>2
<1>13. ASSUME NEW w \in Workers, GiveUp(w) PROVE HeldInv'
    BY <1>1, <1>3, <1>13 DEF GiveUp
<1>14. ASSUME NEW w \in Workers, NEW ok \in BOOLEAN, LabelOnHub(w, ok) PROVE HeldInv'
    BY <1>1, <1>3, <1>14 DEF LabelOnHub
<1>15. CASE UNCHANGED rvars
    BY <1>15 DEF rvars, HeldInv, RecordsTyped
<1>16. QED
    BY <1>7, <1>8, <1>9, <1>10, <1>11, <1>12, <1>13, <1>14, <1>15 DEF RNext

-----------------------------------------------------------------------------
(* The two files have no inode in common                                   *)

\* Worker w creates the temporary file of f in inode i.
Creates(w, f, i) ==
    /\ \A g \in Files : names[g].path # i
    /\ \A g \in Files : g # f => names[g].tmp # i
    /\ names[f].tmp = i \/ i \notin InodesHeld
    /\ inodes' = [inodes EXCEPT ![i] = Cut]
    /\ work' = [work EXCEPT ![w].pc = "write", ![w].inode = i]
    /\ names' = [names EXCEPT ![f].tmp = i]

\* Which inode a worker creates: the temporary file that is there, or one that
\* nobody holds.
LEMMA CreateIs ==
    ASSUME Shape, NEW w \in Workers, Create(w), NEW f \in Files, f = FileOf(work[w].op)
    PROVE  \E i \in Inodes : Creates(w, f, i)
<1>1. /\ work[w].pc = "create" /\ HeldInv /\ Separate
      /\ names \in [Files -> NameType]
    BY DEF Create, Step, Shape, HeldInv, RecordsTyped
<1>2. CASE Target(f) # 0
    <2> DEFINE i == names[f].tmp
    <2>1. i \in Inodes /\ i # 0
        BY <1>1, <1>2 DEF Target, NameType
    <2>2. /\ \A g \in Files : names[g].path # i
          /\ \A g \in Files : g # f => names[g].tmp # i
        BY <1>1, <2>1 DEF Separate
    <2>3. names' = names /\ inodes' = [inodes EXCEPT ![i] = Cut]
          /\ work' = [work EXCEPT ![w].pc = "write", ![w].inode = i]
        BY <1>2 DEF Create, Target
    <2>4. names = [names EXCEPT ![f].tmp = i]
        BY <1>1 DEF NameType
    <2>5. QED
        BY <2>1, <2>2, <2>3, <2>4 DEF Creates
<1>3. CASE Target(f) = 0
    <2> DEFINE i == Min(Inodes \ InodesHeld)
    <2>1. i \in Inodes \ InodesHeld
        BY <1>1, InodeLeft
    <2>2. /\ inodes' = [inodes EXCEPT ![i] = Cut]
          /\ work' = [work EXCEPT ![w].pc = "write", ![w].inode = i]
          /\ names' = [names EXCEPT ![f].tmp = i]
        BY <1>3 DEF Create
    <2> HIDE DEF i
    <2>3. \A g \in Files : names[g].path # i /\ names[g].tmp # i
        BY <2>1 DEF InodesHeld
    <2>4. QED
        BY <2>1, <2>2, <2>3 DEF Creates
<1>4. QED
    BY <1>2, <1>3

\* A step that touches no name keeps what the worker may hold if it goes on as j.
LEMMA SameNames ==
    ASSUME Shape, UNCHANGED names, NEW w \in Workers, NEW j, work' = [work EXCEPT ![w] = j],
           j.pc = "hub" => j.op = "label",
           j.op = "label" => j.items = <<Head(j.items)>>,
           j.pc \in {"write", "rename"} => j.inode # 0,
           j.inode = 0 \/ (j.inode = work[w].inode /\ j.op = work[w].op)
    PROVE  Separate' /\ \A v \in Workers : KindOK(v)'
<1>1. work'[w] = j /\ \A v \in Workers \ {w} : work'[v] = work[v]
    BY DEF Shape, HeldInv, RecordsTyped
<1>2. Separate'
    BY DEF Shape, Separate
<1>3. KindOK(w)'
    <2>1. KindOK(w)
        BY DEF Shape
    <2>2. \A g \in Files : g # FileOf(j.op) /\ j.inode # 0 =>
              j.inode # names[g].path /\ j.inode # names[g].tmp
        BY <2>1 DEF KindOK
    <2>3. QED
        BY <1>1, <2>2 DEF KindOK
<1>4. ASSUME NEW v \in Workers, v # w PROVE KindOK(v)'
    <2>1. KindOK(v) /\ work'[v] = work[v]
        BY <1>1, <1>4 DEF Shape
    <2>2. PICK k : k = work[v]
        OBVIOUS
    <2>3. QED
        BY <2>1, <2>2 DEF KindOK
<1>5. QED
    BY <1>2, <1>3, <1>4

LEMMA ShapeDone ==
    ASSUME Shape, UNCHANGED names, NEW w \in Workers, Done(w)
    PROVE  Separate' /\ \A v \in Workers : KindOK(v)'
BY SameNames DEF Done, Idle

LEMMA ShapeGoes ==
    ASSUME Shape, UNCHANGED names, NEW w \in Workers, NEW pc, NEW list, Goes(w, pc, list),
           pc \notin {"write", "rename"}, pc = "hub" => work[w].op = "label"
    PROVE  Separate' /\ \A v \in Workers : KindOK(v)'
<1> DEFINE j == [work[w] EXCEPT !.pc = pc, !.list = list]
<1>1. work[w] \in WorkType /\ KindOK(w)
    BY DEF Shape, HeldInv, RecordsTyped
<1>2. /\ work' = [work EXCEPT ![w] = j] /\ j.pc = pc /\ j.op = work[w].op
      /\ j.items = work[w].items /\ j.inode = work[w].inode
    BY <1>1 DEF Goes, WorkType
<1> HIDE DEF j
<1>3. /\ j.pc = "hub" => j.op = "label"
      /\ j.op = "label" => j.items = <<Head(j.items)>>
    BY <1>1, <1>2 DEF KindOK
<1>4. QED
    BY <1>2, <1>3, SameNames

LEMMA ShapeStep == Shape /\ [RNext]_rvars => Shape'
<1> SUFFICES ASSUME Shape, [RNext]_rvars PROVE Shape'
    OBVIOUS
<1> DEFINE Good == Separate' /\ \A v \in Workers : KindOK(v)'
<1>1. HeldInv /\ HeldInv' /\ Separate /\ work \in [Workers -> WorkType] /\ names \in [Files -> NameType]
    BY HeldStep DEF Shape, HeldInv, RecordsTyped
<1> SUFFICES Good
    BY <1>1 DEF Shape
<1>2. ASSUME NEW w \in Workers, NEW op \in {"label", "metrics", "learn", "cycle"},
             NEW items \in Seq(Items), Begin(w, op, items), op = "label" => items = <<Head(items)>>
      PROVE  Good
    <2> DEFINE j == [Idle EXCEPT !.pc = "load", !.op = op, !.items = items]
    <2>1. work' = [work EXCEPT ![w] = j] /\ UNCHANGED names
        BY <1>2 DEF Begin
    <2>2. j.pc = "load" /\ j.op = op /\ j.items = items /\ j.inode = 0
        BY DEF Idle
    <2> HIDE DEF j
    <2>3. QED
        BY <1>2, <2>1, <2>2, SameNames
<1>3. ASSUME NEW w \in Workers, Label(w) \/ Metrics(w) \/ Learn(w) \/ Cycle(w) PROVE Good
    BY <1>2, <1>3, CallBegins
<1>4. ASSUME NEW w \in Workers, Load(w) PROVE Good
    <2>1. /\ UNCHANGED names
          /\ Done(w) \/ \E pc \in {"learned", "create"} : \E list : Goes(w, pc, list)
        BY <1>4 DEF Load
    <2>2. QED
        BY <2>1, ShapeDone, ShapeGoes
<1>5. ASSUME NEW w \in Workers, Learned(w) PROVE Good
    <2>1. UNCHANGED names /\ (Done(w) \/ (work[w].op = "label" /\ Goes(w, "hub", work[w].list)))
        BY <1>5 DEF Learned
    <2>2. QED
        BY <2>1, ShapeDone, ShapeGoes
<1>6. ASSUME NEW w \in Workers, GiveUp(w) \/ \E ok \in BOOLEAN : LabelOnHub(w, ok) PROVE Good
    <2>1. UNCHANGED names /\ Done(w)
        BY <1>6 DEF GiveUp, LabelOnHub
    <2>2. QED
        BY <2>1, ShapeDone
<1>7. ASSUME NEW w \in Workers, Write(w) PROVE Good
    <2> DEFINE j == [work[w] EXCEPT !.pc = "rename"]
    <2>1. /\ UNCHANGED names /\ work' = [work EXCEPT ![w] = j] /\ work[w].pc = "write"
          /\ KindOK(w) /\ work[w] \in WorkType
        BY <1>1, <1>7 DEF Write, Step, Shape
    <2>2. j.pc = "rename" /\ j.op = work[w].op /\ j.items = work[w].items /\ j.inode = work[w].inode
        BY <2>1 DEF WorkType
    <2> HIDE DEF j
    <2>3. (j.op = "label" => j.items = <<Head(j.items)>>) /\ j.inode # 0
        BY <2>1, <2>2 DEF KindOK
    <2>4. QED
        BY <2>1, <2>2, <2>3, SameNames
<1>8. ASSUME NEW w \in Workers, Create(w) PROVE Good
    <2>1. PICK f \in Files : f = FileOf(work[w].op)
        BY FileOfIs
    <2>2. PICK i \in Inodes : Creates(w, f, i)
        BY <1>8, <2>1, CreateIs
    <2>3. /\ \A g \in Files : names[g].path # i
          /\ \A g \in Files : g # f => names[g].tmp # i
          /\ names[f].tmp = i \/ i \notin InodesHeld
          /\ inodes' = [inodes EXCEPT ![i] = Cut]
          /\ work' = [work EXCEPT ![w].pc = "write", ![w].inode = i]
          /\ names' = [names EXCEPT ![f].tmp = i]
        BY <2>2 DEF Creates
    <2>4. i # 0
        BY SmallInodes
    <2>5. \A g \in Files : /\ names'[g].path = names[g].path
                           /\ names'[g].tmp = IF g = f THEN i ELSE names[g].tmp
        BY <1>1, <2>3 DEF NameType
    <2>6. /\ work'[w].pc = "write" /\ work'[w].inode = i /\ work'[w].op = work[w].op
          /\ work'[w].items = work[w].items
          /\ \A v \in Workers \ {w} : work'[v] = work[v]
        BY <1>1, <2>3 DEF WorkType
    <2>7. Separate'
        BY <1>1, <2>3, <2>4, <2>5 DEF Separate
    <2>8. KindOK(w)'
        <3>1. work[w].op = "label" => work[w].items = <<Head(work[w].items)>>
            BY DEF Shape, KindOK
        <3>2. \A g \in Files : g # f => i # names'[g].path /\ i # names'[g].tmp
            BY <2>3, <2>5
        <3>3. PICK k : k = work'[w]
            OBVIOUS
        <3>4. /\ k.pc = "write" /\ k.inode = i /\ FileOf(k.op) = f
              /\ k.op = "label" => k.items = <<Head(k.items)>>
            BY <2>1, <2>6, <3>1, <3>3
        <3>5. QED
            BY <2>4, <3>2, <3>3, <3>4 DEF KindOK
    <2>9. ASSUME NEW v \in Workers, v # w PROVE KindOK(v)'
        <3>1. PICK k : k = work[v]
            OBVIOUS
        <3>2. KindOK(v) /\ work'[v] = k
            BY <2>6, <2>9, <3>1 DEF Shape
        <3>3. f # FileOf(k.op) /\ k.inode # 0 => k.inode # i
            <4>1. CASE names[f].tmp = i
                BY <3>1, <3>2, <4>1 DEF KindOK
            <4>2. CASE i \notin InodesHeld
                BY <3>1, <4>2 DEF InodesHeld
            <4>3. QED
                BY <2>3, <4>1, <4>2
        <3>4. \A g \in Files : g # FileOf(k.op) /\ k.inode # 0 =>
                  k.inode # names'[g].path /\ k.inode # names'[g].tmp
            BY <2>5, <3>1, <3>2, <3>3 DEF KindOK
        <3>5. QED
            BY <3>1, <3>2, <3>4 DEF KindOK
    <2>10. QED
        BY <2>7, <2>8, <2>9
<1>9. ASSUME NEW w \in Workers, Rename(w) PROVE Good
    <2>1. PICK f \in Files : f = FileOf(work[w].op)
        BY FileOfIs
    <2>2. PICK j : j = work'[w]
        OBVIOUS
    <2>3. /\ j.inode = 0 /\ j.pc \in {"learned", "idle"}
          /\ j.op = "label" => j.items = work[w].items /\ work[w].op = "label"
          /\ \A v \in Workers \ {w} : work'[v] = work[v]
        <3>1. work' = [work EXCEPT ![w] = IF names[f].tmp # 0 /\ work[w].op = "label"
                                          THEN [work[w] EXCEPT !.pc = "learned", !.inode = 0] ELSE Idle]
            BY <1>9, <2>1 DEF Rename
        <3>2. work[w] \in WorkType
            BY <1>1
        <3>3. \A v \in Workers \ {w} : work'[v] = work[v]
            BY <1>1, <3>1
        <3>4. j = IF names[f].tmp # 0 /\ work[w].op = "label"
                  THEN [work[w] EXCEPT !.pc = "learned", !.inode = 0] ELSE Idle
            BY <1>1, <2>2, <3>1
        <3>5. QED
            BY <3>2, <3>3, <3>4 DEF WorkType, Idle
    <2>4. \/ names' = names
          \/ names' = [names EXCEPT ![f] = [path |-> names[f].tmp, tmp |-> 0]]
        BY <1>9, <2>1 DEF Rename
    <2>5. \A g \in Files : \/ names'[g] = names[g]
                           \/ names'[g].path = names[g].tmp /\ names'[g].tmp = 0
        BY <1>1, <2>4
    <2>6. Separate'
        BY <1>1, <2>5 DEF Separate
    <2>7. KindOK(w)'
        <3>1. work[w].op = "label" => work[w].items = <<Head(work[w].items)>>
            BY DEF Shape, KindOK
        <3>2. QED
            BY <2>2, <2>3, <3>1 DEF KindOK
    <2>8. ASSUME NEW v \in Workers, v # w PROVE KindOK(v)'
        <3>1. PICK k : k = work[v]
            OBVIOUS
        <3>2. KindOK(v) /\ work'[v] = k
            BY <2>3, <2>8, <3>1 DEF Shape
        <3>3. \A g \in Files : g # FileOf(k.op) /\ k.inode # 0 =>
                  k.inode # names'[g].path /\ k.inode # names'[g].tmp
            BY <2>5, <3>1, <3>2 DEF KindOK
        <3>4. QED
            BY <3>1, <3>2, <3>3 DEF KindOK
    <2>9. QED
        BY <2>6, <2>7, <2>8
<1>10. CASE UNCHANGED rvars
    BY <1>10 DEF rvars, Shape, Separate, KindOK
<1>11. QED
    BY <1>3, <1>4, <1>5, <1>6, <1>7, <1>8, <1>9, <1>10 DEF RNext

-----------------------------------------------------------------------------
(* What a step keeps of a file that has one writer at a time               *)

\* The invariant of a worker that stands still, of which the step leaves the
\* file alone or that does not replace it.
LEMMA WorkerKept ==
    ASSUME NEW w \in Workers, WorkerOK(w), HeldInv, work[w]' = work[w], overlapped \subseteq overlapped',
           NEW g \in Files, g = FileOf(work[w].op),
           g \notin overlapped' /\ work[w].pc \in Replaces =>
               /\ Content(g)' = Content(g) /\ names'[g].tmp = names[g].tmp
               /\ names[g].tmp # 0 => inodes'[names[g].tmp] = inodes[names[g].tmp]
    PROVE  WorkerOK(w)'
<1> SUFFICES ASSUME g \notin overlapped' PROVE WorkerOK(w)'
    BY DEF WorkerOK
<1>1. PICK k : k = work[w]
    OBVIOUS
<1>2. work'[w] = k /\ FileOf(k.op) = g /\ g \notin overlapped
    BY <1>1
<1>3. CASE k.pc \notin Replaces
    BY <1>1, <1>2, <1>3 DEF WorkerOK, Replaces
<1>4. CASE k.pc \in Replaces
    <2>1. /\ k.list = Content(g).list \o k.items
          /\ k.pc \in {"write", "rename"} => k.inode # 0 /\ k.inode = names[g].tmp
          /\ k.pc = "write" => ~inodes[k.inode].whole
          /\ k.pc = "rename" => inodes[k.inode] = Whole(k.list)
        BY <1>1, <1>2, <1>4 DEF WorkerOK
    <2>2. k.pc \in {"write", "rename"} =>
              k.inode = names'[g].tmp /\ inodes'[k.inode] = inodes[k.inode]
        BY <1>1, <1>4, <2>1
    <2>3. /\ k.list = Content(g)'.list \o k.items
          /\ k.pc \in {"write", "rename"} => k.inode # 0 /\ k.inode = names'[g].tmp
          /\ k.pc = "write" => ~inodes'[k.inode].whole
          /\ k.pc = "rename" => inodes'[k.inode] = Whole(k.list)
        BY <1>1, <1>4, <2>1, <2>2
    <2>4. QED
        BY <1>2, <2>3 DEF WorkerOK, Replaces
<1>5. QED
    BY <1>3, <1>4

\* A record that is there stays there, and the record of another issue comes
\* from nowhere.
LEMMA LabellerKept ==
    ASSUME NEW w \in Workers, LabellerOK(w), work[w]' = work[w], overlapped \subseteq overlapped',
           NEW old, old = Content("positives").list,
           NEW new, new = Content("positives")'.list,
           "positives" \notin overlapped' /\ new # old =>
               ~(work[w].op = "label" /\ work[w].pc \in Replaces),
           "positives" \notin overlapped' =>
               \A n \in DOMAIN old : n \in DOMAIN new /\ new[n] = old[n]
    PROVE  LabellerOK(w)'
<1> SUFFICES ASSUME "positives" \notin overlapped' PROVE LabellerOK(w)'
    BY DEF LabellerOK
<1>1. PICK k : k = work[w]
    OBVIOUS
<1>2. /\ k.op = "label" /\ k.pc \in Replaces => ~Recorded(old, Head(k.items))
      /\ k.op = "label" /\ k.pc \in {"learned", "hub"} => Recorded(old, Head(k.items))
    BY <1>1 DEF LabellerOK
<1>3. Recorded(old, Head(k.items)) => Recorded(new, Head(k.items))
    BY DEF Recorded
<1>4. k.op = "label" /\ k.pc \in Replaces => ~Recorded(new, Head(k.items))
    BY <1>1, <1>2
<1>5. work'[w] = k
    BY <1>1
<1>6. QED
    BY <1>2, <1>3, <1>4, <1>5 DEF LabellerOK

\* Steps that touch neither names nor inodes leave every content.
LEMMA ContentKept ==
    ASSUME UNCHANGED <<names, inodes>>
    PROVE  \A f \in Files : Content(f)' = Content(f)
BY DEF Content

\* Nobody replaces a file that did not before.
LEMMA StillOne ==
    ASSUME HeldInv, OneWriter, overlapped \subseteq overlapped',
           NEW w \in Workers, NEW j, work' = [work EXCEPT ![w] = j],
           j.pc \in Replaces => work[w].pc \in Replaces /\ work[w].op = j.op
    PROVE  OneWriter'
<1>1. work[w]' = j /\ \A v \in Workers \ {w} : work[v]' = work[v]
    BY DEF HeldInv, RecordsTyped
<1>2. ASSUME NEW f \in Files, NEW v \in Replacing(f)' PROVE v \in Replacing(f)
    BY <1>1, <1>2 DEF Replacing, Replaces
<1>3. QED
    BY <1>2 DEF OneWriter

\* A worker that stops, or goes on without replacing a file, leaves the rest of
\* the invariant.
LEMMA OthersGoOn ==
    ASSUME RecordsInv, NEW w \in Workers, UNCHANGED <<names, inodes>>, overlapped \subseteq overlapped',
           NEW j, work' = [work EXCEPT ![w] = j],
           OneWriter', WorkerOK(w)', LabellerOK(w)', IssuesRecorded'
    PROVE  Kept'
<1>1. \A v \in Workers \ {w} : work[v]' = work[v]
    BY DEF RecordsInv, Shape, HeldInv, RecordsTyped
<1>2. PathsWhole'
    BY DEF RecordsInv, Kept, PathsWhole
<1>3. ASSUME NEW v \in Workers PROVE WorkerOK(v)' /\ LabellerOK(v)'
    <2>1. CASE v = w
        BY <2>1
    <2>2. CASE v # w
        <3>1. WorkerOK(v) /\ LabellerOK(v) /\ work[v]' = work[v] /\ HeldInv
            BY <1>1, <2>2 DEF RecordsInv, Kept, Shape
        <3>2. \A f \in Files : Content(f)' = Content(f)
            BY ContentKept
        <3>3. PICK g \in Files : g = FileOf(work[v].op)
            BY FileOfIs
        <3>4. WorkerOK(v)'
            BY <3>1, <3>2, <3>3, WorkerKept
        <3>5. Content("positives")' = Content("positives")
            BY <3>2 DEF Files
        <3>6. LabellerOK(v)'
            BY <3>1, <3>5, LabellerKept
        <3>7. QED
            BY <3>4, <3>6
    <2>3. QED
        BY <2>1, <2>2
<1>4. QED
    BY <1>2, <1>3 DEF Kept

\* What is on disk and who has been answered decide whether each issue has its
\* record.
LEMMA RecordedKept ==
    ASSUME RecordsInv, UNCHANGED <<names, inodes, labelled, answered>>, overlapped \subseteq overlapped'
    PROVE  IssuesRecorded'
<1>1. Content("positives")' = Content("positives")
    BY ContentKept DEF Files
<1>2. QED
    BY <1>1 DEF RecordsInv, Kept, IssuesRecorded

\* A worker that goes on where it replaces nothing, or ends.
LEMMA AwayFromDisk ==
    ASSUME RecordsInv, NEW w \in Workers, UNCHANGED <<names, inodes>>, overlapped \subseteq overlapped',
           NEW j, work' = [work EXCEPT ![w] = j], j.pc \notin Replaces,
           "positives" \notin overlapped' /\ j.op = "label" /\ j.pc \in {"learned", "hub"} =>
               Recorded(Content("positives").list, Head(j.items)),
           IssuesRecorded'
    PROVE  Kept'
<1>1. HeldInv /\ OneWriter /\ work'[w] = j
    BY DEF RecordsInv, Shape, HeldInv, RecordsTyped, Kept
<1>2. OneWriter'
    BY <1>1, StillOne
<1>3. WorkerOK(w)'
    BY <1>1 DEF WorkerOK, Replaces
<1>4. LabellerOK(w)'
    <2>1. Content("positives")' = Content("positives")
        BY ContentKept DEF Files
    <2>2. QED
        BY <1>1, <2>1 DEF LabellerOK, Replaces
<1>5. QED
    BY <1>2, <1>3, <1>4, OthersGoOn

LEMMA EndsWell ==
    ASSUME RecordsInv, NEW w \in Workers, Done(w), UNCHANGED <<names, inodes>>,
           overlapped \subseteq overlapped', IssuesRecorded'
    PROVE  Kept'
<1>1. work' = [work EXCEPT ![w] = Idle] /\ Idle.pc = "idle" /\ Idle.op = "none"
    BY DEF Done, Idle
<1> HIDE DEF Idle
<1>2. QED
    BY <1>1, AwayFromDisk DEF Replaces

-----------------------------------------------------------------------------
(* The steps that leave the disk alone                                     *)

LEMMA CallStep ==
    ASSUME RecordsInv, NEW w \in Workers, Label(w) \/ Metrics(w) \/ Learn(w) \/ Cycle(w)
    PROVE  Kept'
<1>1. PICK op \in {"label", "metrics", "learn", "cycle"}, items \in Seq(Items) : Begin(w, op, items)
    BY CallBegins
<1> DEFINE j == [Idle EXCEPT !.pc = "load", !.op = op, !.items = items]
<1>2. work' = [work EXCEPT ![w] = j] /\ UNCHANGED <<names, inodes, labelled, answered, overlapped>>
    BY <1>1 DEF Begin
<1>3. j.pc = "load"
    BY DEF Idle
<1> HIDE DEF j
<1>4. IssuesRecorded'
    BY <1>2, RecordedKept
<1>5. QED
    BY <1>2, <1>3, <1>4, AwayFromDisk DEF Replaces

\* The file is read: what the worker will write is decided here, and whether
\* another one is replacing the file already.
LEMMA LoadStep ==
    ASSUME RecordsInv, NEW w \in Workers, Load(w)
    PROVE  Kept'
<1> DEFINE f == IF work[w].op = "metrics" THEN "positives" ELSE FileOf(work[w].op)
           c == Content(f)
           items == work[w].items
<1>1. /\ UNCHANGED <<names, inodes, labelled, answered>> /\ work[w].pc = "load"
      /\ overlapped' = IF work'[w].pc = "create" /\ Replacing(f) # {} THEN overlapped \cup {f}
                       ELSE overlapped
      /\ \/ Done(w)
         \/ /\ work[w].op = "metrics" /\ Goes(w, "learned", c.list)
         \/ /\ work[w].op = "label" /\ Recorded(c.list, Head(items))
            /\ Goes(w, "learned", c.list)
         \/ /\ work[w].op # "metrics" /\ Goes(w, "create", c.list \o items)
            /\ ~(work[w].op = "label" /\ Recorded(c.list, Head(items)))
    BY DEF Load, Step
<1>2. f \in Files /\ work[w] \in WorkType /\ HeldInv
    BY FileOfIs DEF RecordsInv, Shape, HeldInv, RecordsTyped, Files
<1>3. overlapped \subseteq overlapped' /\ \A g \in Files : Content(g)' = Content(g)
    BY <1>1, ContentKept
<1>4. work[w].op = "label" => f = "positives"
    BY DEF FileOf
<1>5. work[w].op # "metrics" => f = FileOf(work[w].op)
    OBVIOUS
<1>6. IssuesRecorded'
    BY <1>1, <1>3, RecordedKept
<1> HIDE DEF f
<1>7. CASE Done(w)
    BY <1>1, <1>3, <1>6, <1>7, EndsWell
<1>8. ASSUME Goes(w, "learned", c.list),
             work[w].op = "label" => Recorded(c.list, Head(items))
      PROVE  Kept'
    <2> DEFINE j == [work[w] EXCEPT !.pc = "learned", !.list = c.list]
    <2>1. work' = [work EXCEPT ![w] = j] /\ j.pc = "learned" /\ j.op = work[w].op /\ j.items = items
        BY <1>2, <1>8 DEF Goes, WorkType
    <2> HIDE DEF j
    <2>2. QED
        BY <1>1, <1>3, <1>4, <1>6, <1>8, <2>1, AwayFromDisk DEF Replaces
<1>9. ASSUME work[w].op # "metrics", Goes(w, "create", c.list \o items),
             ~(work[w].op = "label" /\ Recorded(c.list, Head(items)))
      PROVE  Kept'
    <2> DEFINE j == [work[w] EXCEPT !.pc = "create", !.list = c.list \o items]
    <2>1. /\ work' = [work EXCEPT ![w] = j] /\ j.pc = "create" /\ j.list = c.list \o items
          /\ j.op = work[w].op /\ j.items = items
        BY <1>2, <1>9 DEF Goes, WorkType
    <2> HIDE DEF j
    <2>2. work'[w] = j /\ \A v \in Workers \ {w} : work'[v] = work[v]
        BY <1>2, <2>1 DEF HeldInv, RecordsTyped
    <2>3. OneWriter'
        <3>1. ASSUME NEW g \in Files \ overlapped', NEW u \in Replacing(g)', NEW v \in Replacing(g)'
              PROVE  u = v
            <4>1. g \notin overlapped /\ u \in Workers /\ v \in Workers
                BY <1>3, <3>1 DEF Replacing
            <4>2. (u # w => u \in Replacing(g)) /\ (v # w => v \in Replacing(g))
                BY <2>2, <3>1 DEF Replacing
            <4>3. w \in Replacing(g)' => g = f
                BY <1>5, <1>9, <2>1, <2>2 DEF Replacing
            <4>4. g = f => Replacing(f) = {}
                BY <1>1, <2>1, <2>2, <3>1
            <4>5. CASE u = w \/ v = w
                <5>1. g = f
                    BY <3>1, <4>3, <4>5
                <5>2. QED
                    BY <4>2, <4>4, <5>1
            <4>6. CASE u # w /\ v # w
                BY <4>1, <4>2, <4>6 DEF RecordsInv, Kept, OneWriter
            <4>7. QED
                BY <4>5, <4>6
        <3>2. QED
            BY <3>1 DEF OneWriter
    <2>4. WorkerOK(w)'
        <3>1. PICK g \in Files : g = f
            BY <1>2
        <3>2. g = FileOf(j.op) /\ Content(g)' = c
            BY <1>3, <1>5, <1>9, <2>1, <3>1
        <3>3. j.list = Content(g)'.list \o j.items
            BY <2>1, <3>2
        <3>4. QED
            BY <2>1, <2>2, <3>2, <3>3 DEF WorkerOK, Replaces
    <2>5. LabellerOK(w)'
        <3>1. j.op = "label" => c = Content("positives")'
            BY <1>2, <1>3, <1>4, <2>1
        <3>2. QED
            BY <1>9, <2>1, <2>2, <3>1 DEF LabellerOK, Replaces
    <2>6. QED
        BY <1>1, <1>3, <1>6, <2>1, <2>3, <2>4, <2>5, OthersGoOn
<1>10. QED
    BY <1>1, <1>7, <1>8, <1>9

\* After the record, the metrics; then the label on GitHub.
LEMMA LearnedStep ==
    ASSUME RecordsInv, NEW w \in Workers, Learned(w)
    PROVE  Kept'
<1>1. /\ UNCHANGED <<names, inodes, labelled, answered, overlapped>> /\ work[w].pc = "learned"
      /\ \/ Done(w)
         \/ work[w].op = "label" /\ Goes(w, "hub", work[w].list)
    BY DEF Learned, Step
<1>2. IssuesRecorded'
    BY <1>1, RecordedKept
<1>3. CASE Done(w)
    BY <1>1, <1>2, <1>3, EndsWell
<1>4. CASE work[w].op = "label" /\ Goes(w, "hub", work[w].list)
    <2> DEFINE j == [work[w] EXCEPT !.pc = "hub", !.list = work[w].list]
    <2>1. work[w] \in WorkType /\ LabellerOK(w)
        BY DEF RecordsInv, Shape, HeldInv, RecordsTyped, Kept
    <2>2. work' = [work EXCEPT ![w] = j] /\ j.pc = "hub" /\ j.op = "label" /\ j.items = work[w].items
        BY <1>4, <2>1 DEF Goes, WorkType
    <2> HIDE DEF j
    <2>3. "positives" \notin overlapped => Recorded(Content("positives").list, Head(j.items))
        BY <1>1, <1>4, <2>1, <2>2 DEF LabellerOK
    <2>4. QED
        BY <1>1, <1>2, <2>2, <2>3, AwayFromDisk DEF Replaces
<1>5. QED
    BY <1>1, <1>3, <1>4

\* An issue is answered for, and labelled, after its record was saved.
LEMMA HubStep ==
    ASSUME RecordsInv, NEW w \in Workers, NEW ok \in BOOLEAN, LabelOnHub(w, ok)
    PROVE  Kept'
<1> DEFINE item == Head(work[w].items)
           list == Content("positives").list
<1>1. /\ Done(w) /\ work[w].pc = "hub" /\ UNCHANGED <<names, inodes, overlapped>>
      /\ answered' = answered \cup {IssueOf(item)}
      /\ labelled' = labelled \/ labelled' = labelled \cup {IssueOf(item)}
    BY DEF LabelOnHub, Step
<1>2. Content("positives")' = Content("positives")
    BY <1>1, ContentKept DEF Files
<1>3. "positives" \notin overlapped => Recorded(list, item)
    BY <1>1 DEF RecordsInv, Shape, Kept, KindOK, LabellerOK
<1>4. "positives" \notin overlapped => \E n \in DOMAIN list : IssueOf(list[n]) = IssueOf(item)
    BY <1>3 DEF Recorded, IssueOf
<1> HIDE DEF item
<1>5. IssuesRecorded'
    BY <1>1, <1>2, <1>4 DEF RecordsInv, Kept, IssuesRecorded
<1>6. QED
    BY <1>1, <1>5, EndsWell

LEMMA GiveUpStep ==
    ASSUME RecordsInv, NEW w \in Workers, GiveUp(w)
    PROVE  Kept'
BY RecordedKept, EndsWell DEF GiveUp

-----------------------------------------------------------------------------
(* The steps of write_atomic                                               *)

\* Whatever a worker does to a file that two have replaced at once, it leaves
\* the other file alone.
LEMMA Elsewhere ==
    ASSUME RecordsInv, NEW w \in Workers, NEW f \in Files, f = FileOf(work[w].op), f \in overlapped,
           UNCHANGED <<labelled, answered, overlapped>>,
           NEW j, work' = [work EXCEPT ![w] = j],
           j.op = work[w].op \/ (j.pc = "idle" /\ j.op = "none"),
           \A g \in Files : g # f =>
               /\ names'[g] = names[g]
               /\ names[g].path # 0 => inodes'[names[g].path] = inodes[names[g].path]
               /\ names[g].tmp # 0 => inodes'[names[g].tmp] = inodes[names[g].tmp]
    PROVE  Kept' /\ \A g \in Files : g # f => Content(g)' = Content(g)
<1>1. /\ HeldInv /\ PathsWhole /\ OneWriter /\ IssuesRecorded
      /\ work'[w] = j /\ \A v \in Workers \ {w} : work'[v] = work[v]
    BY DEF RecordsInv, Shape, HeldInv, RecordsTyped, Kept
<1>2. \A g \in Files : g # f => Content(g)' = Content(g)
    BY DEF Content
<1>3. PathsWhole'
    BY <1>1 DEF PathsWhole
<1>4. ASSUME NEW g \in Files, g # f, NEW v \in Replacing(g)' PROVE v \in Replacing(g)
    BY <1>1, <1>4 DEF Replacing
<1>5. OneWriter'
    BY <1>1, <1>4 DEF OneWriter
<1>6. "positives" \notin overlapped => Content("positives")' = Content("positives")
    BY <1>2 DEF Files
<1>7. IssuesRecorded'
    BY <1>1, <1>6 DEF IssuesRecorded
<1>8. WorkerOK(w)' /\ LabellerOK(w)'
    <2>1. j.pc # "idle" => FileOf(j.op) \in overlapped
        OBVIOUS
    <2>2. j.op = "label" => "positives" \in overlapped
        BY DEF FileOf
    <2>3. j.pc \notin {"write", "rename", "create"} \/ FileOf(j.op) \in overlapped
        BY <2>1
    <2>4. WorkerOK(w)'
        <3>1. CASE FileOf(j.op) \in overlapped
            BY <1>1, <3>1 DEF WorkerOK
        <3>2. CASE j.pc \notin {"write", "rename", "create"}
            BY <1>1, <3>2 DEF WorkerOK, Replaces
        <3>3. QED
            BY <2>3, <3>1, <3>2
    <2>5. LabellerOK(w)'
        BY <1>1, <2>2 DEF LabellerOK
    <2>6. QED
        BY <2>4, <2>5
<1>9. ASSUME NEW v \in Workers, v # w PROVE WorkerOK(v)' /\ LabellerOK(v)'
    <2>1. WorkerOK(v) /\ LabellerOK(v) /\ work[v]' = work[v]
        BY <1>1, <1>9 DEF RecordsInv, Kept
    <2>2. PICK g \in Files : g = FileOf(work[v].op)
        BY FileOfIs
    <2>3. g \notin overlapped' =>
              /\ Content(g)' = Content(g) /\ names'[g].tmp = names[g].tmp
              /\ names[g].tmp # 0 => inodes'[names[g].tmp] = inodes[names[g].tmp]
        BY <1>2
    <2>4. WorkerOK(v)'
        BY <1>1, <2>1, <2>2, <2>3, WorkerKept
    <2>5. "positives" \notin overlapped' => Content("positives")'.list = Content("positives").list
        BY <1>6
    <2>6. LabellerOK(v)'
        BY <2>1, <2>5, LabellerKept
    <2>7. QED
        BY <2>4, <2>6
<1>10. QED
    BY <1>2, <1>3, <1>5, <1>7, <1>8, <1>9 DEF Kept

\* The temporary file of a worker that goes on as j becomes, or is, inode i and
\* gets the content c.  The inode is not that of the file nor of another one.
Fills(w, f, i, c, j) ==
    /\ work[w].pc \in Replaces /\ f = FileOf(work[w].op) /\ f \notin overlapped
    /\ j.pc \in {"write", "rename"} /\ j.op = work[w].op /\ j.items = work[w].items
    /\ j.list = work[w].list /\ j.inode = i
    /\ \A g \in Files : names[g].path # i
    /\ \A g \in Files : g # f => names[g].tmp # i
    /\ j.pc = "write" => ~c.whole
    /\ j.pc = "rename" => c = Whole(j.list)
    /\ work' = [work EXCEPT ![w] = j]
    /\ inodes' = [inodes EXCEPT ![i] = c]
    /\ names' = [names EXCEPT ![f].tmp = i]
    /\ UNCHANGED <<labelled, answered, overlapped>>

\* Nobody else sees it.
LEMMA TempStep ==
    ASSUME RecordsInv, NEW w \in Workers, NEW f \in Files, NEW i \in Inodes,
           NEW c, NEW j, Fills(w, f, i, c, j)
    PROVE  Kept' /\ \A g \in Files : Content(g)' = Content(g)
<1> USE DEF Fills
<1>1. HeldInv /\ RecordsTyped /\ PathsWhole /\ OneWriter /\ IssuesRecorded
    BY DEF RecordsInv, Shape, HeldInv, Kept
<1>2. i # 0
    BY SmallInodes
<1>3. \A g \in Files : /\ names'[g].path = names[g].path
                       /\ names'[g].tmp = IF g = f THEN i ELSE names[g].tmp
    BY <1>1 DEF RecordsTyped, NameType
<1>4. \A k \in Inodes : inodes'[k] = IF k = i THEN c ELSE inodes[k]
    BY <1>1 DEF RecordsTyped
<1>5. work[w]' = j /\ \A v \in Workers \ {w} : work[v]' = work[v]
    BY <1>1 DEF RecordsTyped
<1>6. \A g \in Files : names[g].path \in Inodes \cup {0} /\ names[g].tmp \in Inodes \cup {0}
    BY <1>1 DEF RecordsTyped, NameType
<1>7. PathsWhole'
    BY <1>1, <1>3, <1>4, <1>6 DEF PathsWhole
<1>8. \A g \in Files : Content(g)' = Content(g)
    BY <1>3, <1>4, <1>6 DEF Content
<1>9. OneWriter'
    BY <1>1, StillOne
<1>10. IssuesRecorded'
    BY <1>1, <1>8 DEF IssuesRecorded, Files
<1>11. WorkerOK(w)'
    <2>1. j.list = Content(f).list \o j.items
        BY DEF RecordsInv, Kept, WorkerOK
    <2>2. /\ Content(f)' = Content(f) /\ names'[f].tmp = i /\ inodes'[i] = c
          /\ FileOf(work[w]'.op) = f
        BY <1>3, <1>4, <1>5, <1>8
    <2>3. QED
        BY <1>2, <1>5, <2>1, <2>2 DEF WorkerOK, Replaces
<1>12. LabellerOK(w)'
    <2>1. Content("positives")' = Content("positives")
        BY <1>8 DEF Files
    <2>2. LabellerOK(w)
        BY DEF RecordsInv, Kept
    <2>3. QED
        BY <1>5, <2>1, <2>2 DEF LabellerOK, Replaces
<1>13. ASSUME NEW v \in Workers, v # w PROVE WorkerOK(v)' /\ LabellerOK(v)'
    <2>1. WorkerOK(v) /\ LabellerOK(v) /\ work[v]' = work[v]
        BY <1>5, <1>13 DEF RecordsInv, Kept
    <2>2. Content("positives")' = Content("positives")
        BY <1>8 DEF Files
    <2>3. LabellerOK(v)'
        BY <2>1, <2>2, LabellerKept
    <2>4. ASSUME work[v].pc \in Replaces
          PROVE  FileOf(work[v].op) # f
        <3>1. w \in Replacing(f) /\ (FileOf(work[v].op) = f => v \in Replacing(f))
            BY <2>4 DEF Replacing, Replaces
        <3>2. QED
            BY <1>1, <1>13, <3>1 DEF OneWriter
    <2>5. WorkerOK(v)'
        <3>1. PICK g \in Files : g = FileOf(work[v].op)
            BY FileOfIs
        <3>2. work[v].pc \in Replaces =>
                  /\ names'[g].tmp = names[g].tmp
                  /\ names[g].tmp # 0 => inodes'[names[g].tmp] = inodes[names[g].tmp]
            BY <1>3, <1>4, <1>6, <2>4, <3>1
        <3>3. Content(g)' = Content(g)
            BY <1>8
        <3>4. QED
            BY <1>1, <2>1, <3>1, <3>2, <3>3, WorkerKept
    <2>6. QED
        BY <2>3, <2>5
<1>14. QED
    BY <1>7, <1>8, <1>9, <1>10, <1>11, <1>12, <1>13 DEF Kept

\* The temporary file that is there is truncated, or a new one is made.
LEMMA CreateStep ==
    ASSUME RecordsInv, NEW w \in Workers, Create(w)
    PROVE  Kept' /\ \A g \in Files \ overlapped : Content(g)' = Content(g)
<1>1. PICK f \in Files : f = FileOf(work[w].op)
    BY FileOfIs
<1>2. /\ work[w].pc = "create" /\ UNCHANGED <<labelled, answered, overlapped>>
      /\ RecordsTyped /\ Shape
    BY DEF Create, Step, RecordsInv, Shape, HeldInv
<1>3. PICK i \in Inodes : Creates(w, f, i)
    BY <1>1, <1>2, CreateIs
<1>4. /\ \A g \in Files : names[g].path # i
      /\ \A g \in Files : g # f => names[g].tmp # i
      /\ names[f].tmp = i \/ i \notin InodesHeld
      /\ inodes' = [inodes EXCEPT ![i] = Cut]
      /\ work' = [work EXCEPT ![w].pc = "write", ![w].inode = i]
      /\ names' = [names EXCEPT ![f].tmp = i]
    BY <1>3 DEF Creates
<1>5. PICK j : j = [work[w] EXCEPT !.pc = "write", !.inode = i]
    OBVIOUS
<1>6. /\ j.pc = "write" /\ j.op = work[w].op /\ j.items = work[w].items
      /\ j.list = work[w].list /\ j.inode = i /\ work' = [work EXCEPT ![w] = j]
    BY <1>2, <1>4, <1>5 DEF RecordsTyped, WorkType
<1>7. CASE f \notin overlapped
    <2>1. ~Cut.whole
        BY DEF Cut
    <2>2. Fills(w, f, i, Cut, j)
        BY <1>1, <1>2, <1>4, <1>6, <1>7, <2>1 DEF Fills, Replaces
    <2>3. QED
        BY <2>2, TempStep
<1>8. CASE f \in overlapped
    <2>1. \A g \in Files : g # f => names'[g] = names[g]
        BY <1>2, <1>4 DEF RecordsTyped
    <2>2. \A g \in Files : g # f =>
               /\ names[g].path # 0 => inodes'[names[g].path] = inodes[names[g].path]
               /\ names[g].tmp # 0 => inodes'[names[g].tmp] = inodes[names[g].tmp]
        BY <1>2, <1>4 DEF RecordsTyped, NameType
    <2>3. QED
        BY <1>1, <1>2, <1>6, <1>8, <2>1, <2>2, Elsewhere
<1>9. QED
    BY <1>7, <1>8

\* A temporary file that was just truncated is filled to its end.
LEMMA WriteStep ==
    ASSUME RecordsInv, NEW w \in Workers, Write(w)
    PROVE  Kept' /\ \A g \in Files \ overlapped : Content(g)' = Content(g)
<1>1. PICK f \in Files : f = FileOf(work[w].op)
    BY FileOfIs
<1>2. /\ work[w].pc = "write" /\ UNCHANGED <<names, labelled, answered, overlapped>>
      /\ RecordsTyped /\ Separate /\ PathsWhole /\ WorkerOK(w) /\ KindOK(w)
    BY DEF Write, Step, RecordsInv, Shape, HeldInv, Kept
<1>3. \A g \in Files : names[g].path \in Inodes \cup {0} /\ names[g].tmp \in Inodes \cup {0}
    BY <1>2 DEF RecordsTyped, NameType
<1>4. PICK i \in Inodes : i = work[w].inode
    BY <1>2 DEF RecordsTyped, WorkType, KindOK
<1>5. PICK j : j = [work[w] EXCEPT !.pc = "rename"]
    OBVIOUS
<1>6. /\ j.pc = "rename" /\ j.op = work[w].op /\ j.items = work[w].items
      /\ j.list = work[w].list /\ j.inode = i /\ work' = [work EXCEPT ![w] = j]
    <2>1. work[w] \in WorkType
        BY <1>2 DEF RecordsTyped
    <2>2. work' = [work EXCEPT ![w] = j]
        BY <1>5 DEF Write
    <2>3. QED
        BY <1>4, <1>5, <2>1, <2>2 DEF WorkType
<1>7. CASE f \notin overlapped
    <2>1. i = names[f].tmp /\ i # 0 /\ ~inodes[i].whole
        BY <1>1, <1>2, <1>4, <1>7 DEF WorkerOK
    <2>2. PICK c : c = Whole(work[w].list)
        OBVIOUS
    <2>3. inodes' = [inodes EXCEPT ![i] = c]
        BY <1>4, <2>1, <2>2 DEF Write
    <2>4. names' = [names EXCEPT ![f].tmp = i]
        BY <1>2, <2>1 DEF RecordsTyped, NameType
    <2>5. /\ \A g \in Files : names[g].path # i
          /\ \A g \in Files : g # f => names[g].tmp # i
        BY <1>2, <2>1 DEF Separate
    <2>6. Fills(w, f, i, c, j)
        BY <1>1, <1>2, <1>6, <1>7, <2>2, <2>3, <2>4, <2>5 DEF Fills, Replaces
    <2>7. QED
        BY <2>6, TempStep
<1>8. CASE f \in overlapped
    <2>1. \E c : inodes' = [inodes EXCEPT ![i] = c]
        BY <1>4 DEF Write
    <2>2. \A g \in Files : g # f => names[g].path # i /\ names[g].tmp # i
        BY <1>1, <1>2, <1>4 DEF KindOK
    <2>3. \A g \in Files : g # f =>
               /\ names[g].path # 0 => inodes'[names[g].path] = inodes[names[g].path]
               /\ names[g].tmp # 0 => inodes'[names[g].tmp] = inodes[names[g].tmp]
        BY <1>2, <1>3, <2>1, <2>2 DEF RecordsTyped
    <2>4. QED
        BY <1>1, <1>2, <1>6, <1>8, <2>3, Elsewhere
<1>9. QED
    BY <1>7, <1>8

\* What a rename does to the file: the items are appended to its content.
LEMMA RenameAppends ==
    ASSUME RecordsInv, NEW w \in Workers, Rename(w), NEW f \in Files, f = FileOf(work[w].op),
           f \notin overlapped
    PROVE  /\ names[f].tmp \in Inodes
           /\ names' = [names EXCEPT ![f] = [path |-> names[f].tmp, tmp |-> 0]]
           /\ Content(f)' = Whole(Content(f).list \o work[w].items)
           /\ \A g \in Files : g # f => Content(g)' = Content(g)
<1>1. /\ RecordsTyped /\ Separate /\ WorkerOK(w) /\ work[w].pc = "rename"
      /\ UNCHANGED inodes
    BY DEF Rename, Step, RecordsInv, Shape, HeldInv, Kept
<1>2. \A g \in Files : names[g].path \in Inodes \cup {0} /\ names[g].tmp \in Inodes \cup {0}
    BY <1>1 DEF RecordsTyped, NameType
<1>3. /\ names[f].tmp # 0 /\ inodes[names[f].tmp] = Whole(work[w].list)
      /\ work[w].list = Content(f).list \o work[w].items
    BY <1>1 DEF WorkerOK, Replaces
<1>4. names' = [names EXCEPT ![f] = [path |-> names[f].tmp, tmp |-> 0]]
    BY <1>3 DEF Rename
<1>5. names'[f].path = names[f].tmp /\ \A g \in Files : g # f => names'[g] = names[g]
    BY <1>1, <1>4 DEF RecordsTyped
<1>6. Content(f)' = inodes[names[f].tmp]
    BY <1>1, <1>3, <1>5 DEF Content
<1>7. \A g \in Files : g # f => Content(g)' = Content(g)
    BY <1>1, <1>5 DEF Content
<1>8. QED
    BY <1>2, <1>3, <1>4, <1>6, <1>7

\* A record that was not there yet is appended: the issues recorded before keep
\* theirs, and none gets a second one.
LEMMA RecordAppended ==
    ASSUME NEW old \in Seq(Items), NEW items \in Seq(Items), Len(items) = 1,
           ~Recorded(old, Head(items)), Unique(old)
    PROVE  /\ Recorded(old \o items, Head(items)) /\ Unique(old \o items)
           /\ \A n \in DOMAIN old : n \in DOMAIN (old \o items) /\ (old \o items)[n] = old[n]
<1>1. PICK all : all = old \o items
    OBVIOUS
<1>2. PICK item : item = Head(items)
    OBVIOUS
<1>3. Len(items) = 1 /\ items[1] = item
    BY <1>2
<1>4. /\ DOMAIN all = 1..(Len(old) + 1) /\ DOMAIN old = 1..Len(old) /\ Len(old) \in Nat
      /\ \A n \in 1..Len(old) : all[n] = old[n]
      /\ all[Len(old) + 1] = item
    <2>1. /\ DOMAIN all = 1..(Len(old) + Len(items)) /\ DOMAIN old = 1..Len(old)
          /\ Len(old) \in Nat
          /\ \A n \in 1..Len(old) : all[n] = old[n]
          /\ \A n \in 1..Len(items) : all[Len(old) + n] = items[n]
        <3>1. /\ DOMAIN (old \o items) = 1..(Len(old) + Len(items)) /\ DOMAIN old = 1..Len(old)
              /\ Len(old) \in Nat
              /\ \A n \in 1..Len(old) : (old \o items)[n] = old[n]
              /\ \A n \in 1..Len(items) : (old \o items)[Len(old) + n] = items[n]
            BY AppendedPrefix
        <3>2. QED
            BY <1>1, <3>1, Zenon
    <2>2. 1 \in 1..Len(items)
        BY <1>3
    <2>3. QED
        BY <1>3, <2>1, <2>2
<1>5. \A n \in DOMAIN old : IssueOf(old[n]) # IssueOf(item)
    BY <1>2 DEF Recorded, IssueOf
<1>6. Recorded(all, item)
    <2>1. Len(old) + 1 \in DOMAIN all /\ all[Len(old) + 1] = item
        BY <1>4
    <2>2. QED
        BY <2>1 DEF Recorded
<1>7. ASSUME NEW m \in DOMAIN all, NEW n \in DOMAIN all, IssueOf(all[m]) = IssueOf(all[n])
      PROVE  m = n
    <2>1. m \in DOMAIN old \/ m = Len(old) + 1
        BY <1>4
    <2>2. n \in DOMAIN old \/ n = Len(old) + 1
        BY <1>4
    <2>3. QED
        BY <1>4, <1>5, <1>7, <2>1, <2>2 DEF Unique
<1>8. QED
    BY <1>1, <1>2, <1>4, <1>6, <1>7 DEF Unique

\* The new file takes the place of the old, where nobody else replaces it.
LEMMA RenameAlone ==
    ASSUME RecordsInv, NEW w \in Workers, Rename(w), NEW f \in Files, f = FileOf(work[w].op),
           f \notin overlapped
    PROVE  Kept'
<1>1. PICK i \in Inodes : i = names[f].tmp
    BY RenameAppends
<1>2. /\ RecordsTyped /\ HeldInv /\ PathsWhole /\ OneWriter /\ IssuesRecorded
      /\ WorkerOK(w) /\ LabellerOK(w) /\ KindOK(w) /\ work[w].pc = "rename"
      /\ UNCHANGED <<inodes, labelled, answered, overlapped>>
    BY DEF Rename, Step, RecordsInv, Shape, HeldInv, Kept
<1>3. /\ i # 0 /\ names' = [names EXCEPT ![f] = [path |-> i, tmp |-> 0]]
      /\ Content(f)' = Whole(Content(f).list \o work[w].items)
      /\ \A g \in Files : g # f => Content(g)' = Content(g)
    BY <1>1, RenameAppends, SmallInodes
<1>4. PICK j : j = IF work[w].op = "label" THEN [work[w] EXCEPT !.pc = "learned", !.inode = 0] ELSE Idle
    OBVIOUS
<1>5. /\ work' = [work EXCEPT ![w] = j]
      /\ IF work[w].op = "label"
         THEN j.pc = "learned" /\ j.op = "label" /\ j.items = work[w].items
         ELSE j.pc = "idle" /\ j.op = "none"
    <2>1. work[w] \in WorkType
        BY <1>2 DEF RecordsTyped
    <2>2. work' = [work EXCEPT ![w] = j]
        BY <1>1, <1>3, <1>4 DEF Rename
    <2>3. QED
        BY <1>4, <2>1, <2>2 DEF WorkType, Idle
<1>6. names'[f].path = i /\ names'[f].tmp = 0 /\ \A g \in Files : g # f => names'[g] = names[g]
    BY <1>2, <1>3 DEF RecordsTyped
<1>7. work'[w] = j /\ \A v \in Workers \ {w} : work'[v] = work[v]
    BY <1>2, <1>5 DEF RecordsTyped
<1>8. inodes[i].whole
    BY <1>1, <1>2 DEF WorkerOK, Whole
<1>9. PathsWhole'
    BY <1>2, <1>6, <1>8 DEF PathsWhole
<1>10. OneWriter'
    BY <1>2, <1>5, StillOne DEF Replaces
<1>11. PICK old : old = Content("positives").list
    OBVIOUS
<1>12. old \in Seq(Items) /\ work[w].items \in Seq(Items)
    BY <1>2, <1>11, HeldContent DEF Files, RecordsTyped, WorkType
<1>13. work[w].op = "label" =>
           /\ f = "positives" /\ ~Recorded(old, Head(work[w].items))
           /\ work[w].items = <<Head(work[w].items)>>
           /\ Content("positives")'.list = old \o work[w].items
    <2>1. SUFFICES ASSUME work[w].op = "label"
          PROVE  /\ f = "positives" /\ ~Recorded(old, Head(work[w].items))
                 /\ work[w].items = <<Head(work[w].items)>>
                 /\ Content("positives")'.list = old \o work[w].items
        OBVIOUS
    <2>2. f = "positives"
        BY <2>1 DEF FileOf
    <2>3. Content("positives")' = Whole(old \o work[w].items)
        BY <1>3, <1>11, <2>2
    <2>4. Content("positives")'.list = old \o work[w].items
        BY <2>3 DEF Whole
    <2>5. QED
        BY <1>2, <1>11, <2>1, <2>2, <2>4 DEF LabellerOK, KindOK, Replaces
<1>14. work[w].op # "label" => f # "positives" /\ Content("positives")' = Content("positives")
    BY <1>3 DEF FileOf, Files
<1>15. "positives" \notin overlapped => Unique(old)
    BY <1>2, <1>11 DEF IssuesRecorded
<1>16. PICK new : new = Content("positives")'.list
    OBVIOUS
<1>17. "positives" \notin overlapped =>
           /\ work[w].op = "label" => Recorded(new, Head(work[w].items))
           /\ Unique(new)
           /\ \A n \in DOMAIN old : n \in DOMAIN new /\ new[n] = old[n]
    <2>1. CASE work[w].op = "label" /\ "positives" \notin overlapped
        <3>1. PICK items : items = work[w].items
            OBVIOUS
        <3>2. new = old \o items
            BY <1>13, <1>16, <2>1, <3>1
        <3>3. items \in Seq(Items) /\ Len(items) = 1 /\ ~Recorded(old, Head(items))
            BY <1>12, <1>13, <2>1, <3>1
        <3>4. /\ Recorded(old \o items, Head(items)) /\ Unique(old \o items)
              /\ \A n \in DOMAIN old : n \in DOMAIN (old \o items) /\ (old \o items)[n] = old[n]
            BY <1>12, <1>15, <2>1, <3>3, RecordAppended
        <3>5. QED
            BY <3>1, <3>2, <3>4
    <2>2. CASE work[w].op # "label"
        BY <1>11, <1>14, <1>15, <1>16, <2>2
    <2>3. QED
        BY <2>1, <2>2
<1>18. IssuesRecorded'
    BY <1>2, <1>11, <1>16, <1>17 DEF IssuesRecorded
<1>19. WorkerOK(w)'
    BY <1>5, <1>7 DEF WorkerOK, Replaces
<1>20. LabellerOK(w)'
    BY <1>2, <1>5, <1>7, <1>16, <1>17 DEF LabellerOK, Replaces
<1>21. ASSUME NEW v \in Workers, v # w PROVE WorkerOK(v)' /\ LabellerOK(v)'
    <2>1. WorkerOK(v) /\ LabellerOK(v) /\ work[v]' = work[v]
        BY <1>7, <1>21 DEF RecordsInv, Kept
    <2>2. PICK g \in Files : g = FileOf(work[v].op)
        BY FileOfIs
    <2>3. work[v].pc \in Replaces => g # f
        <3>1. w \in Replacing(f) /\ (work[v].pc \in Replaces => v \in Replacing(g))
            BY <1>2, <2>2 DEF Replacing, Replaces
        <3>2. QED
            BY <1>2, <1>21, <3>1 DEF OneWriter
    <2>4. WorkerOK(v)'
        BY <1>2, <1>3, <1>6, <2>1, <2>2, <2>3, WorkerKept
    <2>5. new # old => ~(work[v].op = "label" /\ work[v].pc \in Replaces)
        <3>1. new # old => f = "positives"
            BY <1>11, <1>13, <1>14, <1>16
        <3>2. work[v].op = "label" => g = "positives"
            BY <2>2 DEF FileOf
        <3>3. QED
            BY <2>3, <3>1, <3>2
    <2>6. LabellerOK(v)'
        BY <1>2, <1>11, <1>16, <1>17, <2>1, <2>5, LabellerKept
    <2>7. QED
        BY <2>4, <2>6
<1>22. QED
    BY <1>9, <1>10, <1>18, <1>19, <1>20, <1>21 DEF Kept

LEMMA RenameStep ==
    ASSUME RecordsInv, NEW w \in Workers, Rename(w)
    PROVE  Kept'
<1>1. PICK f \in Files : f = FileOf(work[w].op)
    BY FileOfIs
<1>2. CASE f \in overlapped
    <2>1. RecordsTyped /\ UNCHANGED <<inodes, labelled, answered, overlapped>>
        BY DEF Rename, RecordsInv, Shape, HeldInv
    <2>2. PICK j : j = IF names[f].tmp # 0 /\ work[w].op = "label"
                       THEN [work[w] EXCEPT !.pc = "learned", !.inode = 0] ELSE Idle
        OBVIOUS
    <2>3. work' = [work EXCEPT ![w] = j] /\ (j.op = work[w].op \/ (j.pc = "idle" /\ j.op = "none"))
        <3>1. work[w] \in WorkType
            BY <2>1 DEF RecordsTyped
        <3>2. work' = [work EXCEPT ![w] = j]
            BY <1>1, <2>2 DEF Rename
        <3>3. QED
            BY <2>2, <3>1, <3>2 DEF WorkType, Idle
    <2>4. names' = names \/ names' = [names EXCEPT ![f] = [path |-> names[f].tmp, tmp |-> 0]]
        BY <1>1 DEF Rename
    <2>5. \A g \in Files : g # f => names'[g] = names[g]
        BY <2>1, <2>4 DEF RecordsTyped
    <2>6. QED
        BY <1>1, <1>2, <2>1, <2>3, <2>5, Elsewhere
<1>3. CASE f \notin overlapped
    BY <1>1, <1>3, RenameAlone
<1>4. QED
    BY <1>2, <1>3

-----------------------------------------------------------------------------
(* The theorems                                                            *)

LEMMA RecordsStep == RecordsInv /\ [RNext]_rvars => RecordsInv'
<1> SUFFICES ASSUME RecordsInv, [RNext]_rvars PROVE Kept'
    BY ShapeStep DEF RecordsInv
<1>1. ASSUME NEW w \in Workers, Label(w) \/ Metrics(w) \/ Learn(w) \/ Cycle(w) PROVE Kept'
    BY <1>1, CallStep
<1>2. ASSUME NEW w \in Workers, Load(w) PROVE Kept'
    BY <1>2, LoadStep
<1>3. ASSUME NEW w \in Workers, Create(w) PROVE Kept'
    BY <1>3, CreateStep
<1>4. ASSUME NEW w \in Workers, Write(w) PROVE Kept'
    BY <1>4, WriteStep
<1>5. ASSUME NEW w \in Workers, Rename(w) PROVE Kept'
    BY <1>5, RenameStep
<1>6. ASSUME NEW w \in Workers, Learned(w) PROVE Kept'
    BY <1>6, LearnedStep
<1>7. ASSUME NEW w \in Workers, GiveUp(w) PROVE Kept'
    BY <1>7, GiveUpStep
<1>8. ASSUME NEW w \in Workers, NEW ok \in BOOLEAN, LabelOnHub(w, ok) PROVE Kept'
    BY <1>8, HubStep
<1>9. CASE UNCHANGED rvars
    <2>1. UNCHANGED <<names, inodes, work, labelled, answered, overlapped>>
        BY <1>9 DEF rvars
    <2>2. \A f \in Files : Content(f)' = Content(f)
        BY <2>1, ContentKept
    <2>3. PathsWhole' /\ OneWriter' /\ IssuesRecorded'
        BY <2>1, RecordedKept DEF RecordsInv, Kept, PathsWhole, OneWriter, Replacing
    <2>4. \A w \in Workers : WorkerOK(w)' /\ LabellerOK(w)'
        <3> SUFFICES ASSUME NEW w \in Workers PROVE WorkerOK(w)' /\ LabellerOK(w)'
            OBVIOUS
        <3>1. WorkerOK(w) /\ LabellerOK(w) /\ work[w]' = work[w] /\ HeldInv
            BY <2>1 DEF RecordsInv, Shape, Kept
        <3>2. PICK g \in Files : g = FileOf(work[w].op)
            BY FileOfIs
        <3>3. Content("positives")' = Content("positives")
            BY <2>2 DEF Files
        <3>4. QED
            BY <2>1, <2>2, <3>1, <3>2, <3>3, WorkerKept, LabellerKept
    <2>5. QED
        BY <2>3, <2>4 DEF Kept
<1>10. QED
    BY <1>1, <1>2, <1>3, <1>4, <1>5, <1>6, <1>7, <1>8, <1>9 DEF RNext

\* What a step does to a file that nobody replaced while another did is to
\* append to it: no reader finds it cut short and no entry is lost.
LEMMA AppendsOnly ==
    ASSUME RecordsInv, [RNext]_rvars,
           NEW f \in Files, f \notin overlapped', Content(f)' # Content(f)
    PROVE  Content(f)'.whole /\ IsPrefix(Content(f).list, Content(f)'.list)
<1>1. HeldInv /\ RecordsTyped /\ PathsWhole /\ HeldInv' /\ PathsWhole'
    BY RecordsStep DEF RecordsInv, Shape, HeldInv, Kept
<1>2. Content(f)'.whole
    BY <1>1 DEF Content, PathsWhole, Whole
<1>3. PICK w \in Workers : Create(w) \/ Write(w) \/ Rename(w)
    <2>1. ~UNCHANGED <<names, inodes>>
        BY ContentKept
    <2>2. QED
        BY <2>1 DEF RNext, rvars, Label, Metrics, Learn, Cycle, Begin, Load, Learned, GiveUp, LabelOnHub
<1>4. f \notin overlapped
    BY <1>3 DEF Create, Write, Rename
<1>5. CASE Create(w) \/ Write(w)
    BY <1>4, <1>5, CreateStep, WriteStep
<1>6. CASE Rename(w)
    <2>1. PICK g \in Files : g = FileOf(work[w].op)
        BY FileOfIs
    <2>2. g = f
        <3>1. SUFFICES ASSUME g # f PROVE Content(f)' = Content(f)
            OBVIOUS
        <3>2. UNCHANGED inodes /\ names'[f] = names[f]
            BY <1>1, <1>6, <2>1, <3>1 DEF Rename, RecordsTyped
        <3>3. QED
            BY <3>2 DEF Content
    <2>3. Content(f)' = Whole(Content(f).list \o work[w].items)
        BY <1>4, <1>6, <2>1, <2>2, RenameAppends
    <2>4. Content(f).list \in Seq(Items) /\ work[w].items \in Seq(Items)
        BY <1>1, HeldContent DEF RecordsTyped, WorkType
    <2>5. IsPrefix(Content(f).list, Content(f).list \o work[w].items)
        BY <2>4, AppendedPrefix
    <2>6. \A list : Whole(list).list = list
        BY DEF Whole
    <2>7. QED
        BY <1>2, <2>3, <2>5, <2>6
<1>7. QED
    BY <1>3, <1>5, <1>6

\* However many requests and agents write, a file that no two of them were
\* replacing at once is never found cut short and loses no entry, whatever dies
\* in the middle (write_atomic).
THEOREM NothingLost == RSpec => EntriesKept
<1>1. RecordsInv /\ [RNext]_rvars =>
          [\A f \in Files \ overlapped' : Content(f)' # Content(f) =>
              Content(f)'.whole /\ IsPrefix(Content(f).list, Content(f)'.list)]_rvars
    BY AppendsOnly
<1>2. QED
    BY <1>1, InitRecords, RecordsStep, PTL DEF RSpec, EntriesKept

\* As long as no two requests were saving a label at once, each issue whose
\* labelling was answered, or that was labelled on GitHub, has one record
\* (record_false_positive).
THEOREM OneRecordEach == RSpec => []LabelsRecorded
<1>1. RecordsInv => LabelsRecorded
    BY DEF RecordsInv, Kept, IssuesRecorded, Unique, LabelsRecorded
<1>2. QED
    BY <1>1, InitRecords, RecordsStep, PTL DEF RSpec

-----------------------------------------------------------------------------
(* The rate of false positives                                             *)

\* What a rate of false positives is computed from: if every recorded cycle has
\* no more false positives than scenarios, so have all of them together.
LEMMA CyclesHonest ==
    ASSUME NEW list \in Seq(Items),
           ~ \E n \in DOMAIN CyclesIn(list) :
                CyclesIn(list)[n].false_positives > CyclesIn(list)[n].found
    PROVE  LET cycles == CyclesIn(list)
               m == FalsePositiveMetrics(cycles, 0)
           IN TotalOf(cycles, "found") > 0 => m.fp <= m.issues
<1> DEFINE cycles == CyclesIn(list)
           D == DOMAIN cycles
           f == [i \in D |-> cycles[i]["false_positives"]]
           g == [i \in D |-> cycles[i]["found"]]
           one == 1
<1>1. /\ D = {n \in DOMAIN list : "outcome" \in DOMAIN list[n]}
      /\ \A n \in D : cycles[n] = list[n]
    BY DEF CyclesIn, Restrict
<1>2. IsFiniteSet(D)
    <2>1. DOMAIN list = 1..Len(list) /\ Len(list) \in Nat
        OBVIOUS
    <2>2. IsFiniteSet(DOMAIN list) /\ D \subseteq DOMAIN list
        BY <1>1, <2>1, FS_Interval
    <2>3. QED
        BY <2>2, FS_Subset
<1>3. ASSUME NEW n \in D
      PROVE  /\ cycles[n].false_positives \in Int /\ cycles[n].found \in Int
             /\ cycles[n].false_positives <= cycles[n].found
    <2>1. list[n] \in Items /\ "outcome" \in DOMAIN list[n]
        BY <1>1
    <2>2. \A i, r, l : "outcome" \notin DOMAIN Record(i, r, l)
        BY DEF Record
    <2>3. \A res \in Results : \A x \in Range(HighConfidence(res)) : "outcome" \notin DOMAIN x
        BY ResultsAssumption DEF ResultsAssumption, Range
    <2>4. PICK e \in CycleEnds :
              list[n] = CycleLearning(e.report, e.comparison, e.iteration, e.false_positives)
        BY <2>1, <2>2, <2>3 DEF Items
    <2>5. /\ list[n].false_positives = e.false_positives
          /\ list[n].found = Cardinality(DOMAIN e.comparison.scenarios)
        BY <2>4 DEF CycleLearning
    <2>6. e.false_positives \in Int /\ Cardinality(DOMAIN e.comparison.scenarios) \in Int
        BY CyclesAssumption, FS_CardinalityType DEF CyclesAssumption
    <2>7. ~(cycles[n].false_positives > cycles[n].found)
        OBVIOUS
    <2>8. QED
        BY <1>1, <2>5, <2>6, <2>7
<1>4. f \in [D -> Int] /\ g \in [D -> Int] /\ \A n \in D : one * f[n] <= one * g[n]
    BY <1>3
<1>5. TotalOf(cycles, "false_positives") = SumFunctionOnSet(f, D)
      /\ TotalOf(cycles, "found") = SumFunctionOnSet(g, D)
    BY DEF TotalOf, SumFunction
<1> HIDE DEF cycles, D, f, g
<1>6. one \in Int
    OBVIOUS
<1> HIDE DEF one
<1>7. /\ SumFunctionOnSet(f, D) \in Int /\ SumFunctionOnSet(g, D) \in Int
      /\ one * SumFunctionOnSet(f, D) <= one * SumFunctionOnSet(g, D)
    BY <1>2, <1>4, <1>6, SumsCompare
<1>8. TotalOf(cycles, "false_positives") <= TotalOf(cycles, "found")
    BY <1>5, <1>7 DEF one
<1>9. TotalOf(cycles, "found") > 0 =>
          /\ FalsePositiveMetrics(cycles, 0).fp = TotalOf(cycles, "false_positives")
          /\ FalsePositiveMetrics(cycles, 0).issues = TotalOf(cycles, "found")
    BY DEF FalsePositiveMetrics
<1>10. QED
    BY <1>8, <1>9 DEF cycles

\* However many write at once, and whenever a user labels, the rate of false
\* positives is at most one unless a recorded cycle's own is more
\* (compute_false_positive_metrics).
THEOREM RateIsARate == RSpec => []RateWithin
<1>1. HeldInv => RateWithin
    <2> SUFFICES ASSUME HeldInv PROVE RateWithin
        OBVIOUS
    <2> DEFINE list == Content("learnings").list
               cycles == CyclesIn(list)
               records == Len(Content("positives").list)
               m == FalsePositiveMetrics(cycles, records)
    <2>1. \A f \in Files : Content(f).list \in Seq(Items)
        BY HeldContent
    <2>2. list \in Seq(Items) /\ records \in Nat
        BY <2>1 DEF Files
    <2>3. CASE \E n \in DOMAIN cycles : cycles[n].false_positives > cycles[n].found
        BY <2>3 DEF RateWithin
    <2>4. CASE TotalOf(cycles, "found") > 0
                 /\ ~\E n \in DOMAIN cycles : cycles[n].false_positives > cycles[n].found
        <3>1. m = FalsePositiveMetrics(cycles, 0)
            BY <2>4 DEF FalsePositiveMetrics
        <3> HIDE DEF list
        <3>2. m.fp <= m.issues
            BY <2>2, <2>4, <3>1, CyclesHonest
        <3>3. QED
            BY <3>2 DEF RateWithin, list
    <2>5. CASE ~(TotalOf(cycles, "found") > 0)
        <3>1. m.fp = records /\ m.issues = records
            BY <2>5 DEF FalsePositiveMetrics
        <3>2. m.fp <= m.issues
            BY <2>2, <3>1
        <3>3. QED
            BY <3>2 DEF RateWithin
    <2>6. QED
        BY <2>3, <2>4, <2>5
<1>2. RInit => HeldInv
    BY InitRecords DEF RecordsInv, Shape
<1>3. QED
    BY <1>1, <1>2, HeldStep, PTL DEF RSpec
=============================================================================
