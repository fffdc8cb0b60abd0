---------------------- MODULE OrchestratorSessionProofs ----------------------
(***************************************************************************)
(* Where the bus loses no event, a retry in the queue is woken and the end *)
(* of a recorded session is noticed, with users who relaunch and skip, and *)
(* closed pull requests are forgotten, with users who skip: theorems about *)
(* Orchestrator.                                                           *)
(***************************************************************************)
EXTENDS OrchestratorProofs

USE DEF orchVars, timerVars, fileVars, rmVars, githubVars, HandlerFrame, RmFrame, EnvFrame

-----------------------------------------------------------------------------
(* Lists as sets of effects                                                *)

LEMMA RangeTail ==
    ASSUME NEW s \in Seq(EffectType), s # <<>>
    PROVE  Range(s) = {Head(s)} \cup Range(Tail(s))
<1> DEFINE t == Tail(s)
<1>1. /\ Head(s) = s[1] /\ 1 \in DOMAIN s
      /\ \A i \in DOMAIN t : i + 1 \in DOMAIN s /\ t[i] = s[i + 1]
      /\ \A j \in DOMAIN s \ {1} : j - 1 \in DOMAIN t /\ t[j - 1] = s[j]
    BY TailIs
<1> HIDE DEF t
<1>2. ASSUME NEW x \in Range(s) PROVE x = Head(s) \/ x \in Range(t)
    <2>1. PICK j \in DOMAIN s : s[j] = x
        BY <1>2 DEF Range
    <2>2. CASE j = 1
        BY <1>1, <2>1, <2>2
    <2>3. CASE j # 1
        <3>1. j - 1 \in DOMAIN t /\ t[j - 1] = x
            BY <1>1, <2>1, <2>3
        <3>2. QED
            BY <3>1 DEF Range
    <2>4. QED
        BY <2>2, <2>3
<1>3. Head(s) \in Range(s)
    BY <1>1 DEF Range
<1>4. ASSUME NEW x \in Range(t) PROVE x \in Range(s)
    <2>1. PICK i \in DOMAIN t : t[i] = x
        BY <1>4 DEF Range
    <2>2. i + 1 \in DOMAIN s /\ s[i + 1] = x
        BY <1>1, <2>1
    <2>3. QED
        BY <2>2 DEF Range
<1>5. QED
    BY <1>2, <1>3, <1>4 DEF t

LEMMA RangeGoesOn ==
    ASSUME NEW s \in Seq(EffectType), s # <<>>, NEW e \in EffectType
    PROVE  Range(<<e>> \o Tail(s)) = {e} \cup Range(Tail(s))
<1> DEFINE c == <<e>> \o Tail(s)
<1>1. c \in Seq(EffectType) /\ c # <<>> /\ Head(c) = e /\ Tail(c) = Tail(s)
    <2>1. c \in Seq(EffectType) /\ Len(c) = Len(s) /\ c[1] = e /\ DOMAIN c = DOMAIN s
             /\ \A i \in DOMAIN s \ {1} : c[i] = s[i]
        BY GoesOnIs
    <2>2. Len(s) \in Nat /\ Len(s) # 0 /\ DOMAIN s = 1..Len(s)
        BY EmptySeq, LenProperties
    <2> HIDE DEF c
    <2>3. c # <<>>
        BY <2>1, <2>2, EmptySeq
    <2>4. Head(c) = e
        BY <2>1, <2>3, TailIs
    <2>5. /\ DOMAIN Tail(c) = 1..(Len(s) - 1) /\ DOMAIN Tail(s) = 1..(Len(s) - 1)
          /\ Tail(c) \in Seq(EffectType) /\ Tail(s) \in Seq(EffectType)
        BY <2>1, <2>3, TailIs
    <2>6. ASSUME NEW i \in 1..(Len(s) - 1) PROVE Tail(c)[i] = Tail(s)[i]
        <3>1. i + 1 \in DOMAIN s /\ i + 1 # 1
            BY <2>2
        <3>2. Tail(c)[i] = c[i + 1] /\ Tail(s)[i] = s[i + 1]
            BY <2>1, <2>3, <2>5, TailIs
        <3>3. QED
            BY <2>1, <3>1, <3>2
    <2>7. Len(Tail(c)) = Len(Tail(s)) /\ Len(Tail(s)) = Len(s) - 1
        BY <2>1, <2>3, TailIs
    <2>8. Tail(c) = Tail(s)
        BY <2>5, <2>6, <2>7, SeqEqual
    <2>9. QED
        BY <2>1, <2>3, <2>4, <2>8
<1> HIDE DEF c
<1>2. QED
    BY <1>1, RangeTail DEF c

LEMMA RangeConcat ==
    ASSUME NEW s \in Seq(EffectType), NEW t \in Seq(EffectType)
    PROVE  s \o t \in Seq(EffectType) /\ Range(s \o t) = Range(s) \cup Range(t)
<1>1. s \o t \in Seq(EffectType)
    BY ConcatProperties
<1>2. QED
    BY <1>1, RangeConcatenation

LEMMA RangeSmall ==
    /\ Range(<<>>) = {}
    /\ \A a : Range(<<a>>) = {a}
    /\ \A a, b : Range(<<a, b>>) = {a, b}
<1>1. Range(<<>>) = {}
    BY DEF Range
<1>2. ASSUME NEW a PROVE Range(<<a>>) = {a}
    <2>1. DOMAIN <<a>> = {1} /\ <<a>>[1] = a
        OBVIOUS
    <2>2. QED
        BY <2>1 DEF Range
<1>3. ASSUME NEW a, NEW b PROVE Range(<<a, b>>) = {a, b}
    <2>1. DOMAIN <<a, b>> = {1, 2} /\ <<a, b>>[1] = a /\ <<a, b>>[2] = b
        OBVIOUS
    <2>2. QED
        BY <2>1 DEF Range
<1>4. QED
    BY <1>1, <1>2, <1>3

-----------------------------------------------------------------------------
(* The invariant                                                           *)

\* The end of a session is handled alone; triggers are of issues.
Shape(s) ==
    /\ \A i \in DOMAIN s : s[i].do \in {"finish", "schedule"} => Len(s) = 1
    /\ \A i \in DOMAIN s : s[i].do = "issue" => s[i].key \in Issues /\ s[i].batch \subseteq Issues

ForLoop == Range(todo["loop"])
ForUser == Range(todo["user"])

\* The effects of a relaunch or a skip; a cancellation is the first of them.
UserShape ==
    /\ \A e \in ForUser : e.do \in {"cancel", "dispatch", "load", "record", "stop"}
    /\ \A i \in DOMAIN todo["user"] : todo["user"][i].do = "cancel" => i = 1 /\ todo["user"][i].key \in Prs

\* What the loop cancels or starts is no longer in the queue ...
LoopClears ==
    \A e \in ForLoop :
        /\ e.do = "cancel" => e.key \notin DOMAIN retryQueue
        /\ Starts(e) /\ e.key \in Prs => e.key \notin DOMAIN retryQueue

\* ... and what a relaunch cancels cannot come back before it has: the pull
\* request has no session, the loop starts none, and no list of pull requests
\* makes it start one, because it is claimed or merged.
UserClears ==
    \A c \in ForUser : c.do = "cancel" =>
        /\ c.key \notin DOMAIN retryQueue \cup DOMAIN running
        /\ \A e \in ForLoop : Starts(e) => e.key # c.key
        /\ c.key \in claimed \cup mergedPrs

TasksInv == Shape(todo["loop"]) /\ UserShape /\ LoopClears /\ UserClears

\* Lists and merges come in the order of GitHub: no list that follows a merge
\* has the pull request open.
MergeInv ==
    /\ \A k \in mergeSeen : pr[k] = "merged"
    /\ \A i \in DOMAIN bus : bus[i].type = "PrMerged" => bus[i].key \in mergeSeen
    /\ \A i, j \in DOMAIN bus : i < j /\ bus[i].type = "PrMerged" /\ bus[j].type = "PrStatusChanged"
          => bus[j].prs[bus[i].key] = "closed"
    /\ mergedPrs \subseteq mergeSeen
    /\ \A k \in mergedPrs, i \in DOMAIN bus : bus[i].type = "PrStatusChanged" => bus[i].prs[k] = "closed"

RetryInv == TypeInv /\ TasksInv /\ MergeInv /\ RetryWoken

-----------------------------------------------------------------------------
(* The order of lists and merges                                           *)

LEMMA BusTail ==
    ASSUME bus \in Seq(EventType), bus # <<>>
    PROVE  /\ Head(bus) = bus[1] /\ 1 \in DOMAIN bus /\ DOMAIN bus = 1..Len(bus) /\ Len(bus) \in Nat
           /\ Tail(bus) \in Seq(EventType) /\ DOMAIN Tail(bus) = 1..(Len(bus) - 1)
           /\ \A i \in DOMAIN Tail(bus) : i + 1 \in DOMAIN bus /\ i + 1 > 1 /\ Tail(bus)[i] = bus[i + 1]
           /\ \A j \in DOMAIN bus \ {1} : j - 1 \in DOMAIN Tail(bus) /\ Tail(bus)[j - 1] = bus[j]
<1>1. Len(bus) \in Nat /\ DOMAIN bus = 1..Len(bus) /\ Len(bus) > 0 /\ Head(bus) = bus[1]
    BY LenProperties, EmptySeq
<1>2. Tail(bus) \in Seq(EventType) /\ Len(Tail(bus)) = Len(bus) - 1
      /\ \A i \in 1..Len(Tail(bus)) : Tail(bus)[i] = bus[i + 1]
    BY <1>1, HeadTailProperties
<1>3. DOMAIN Tail(bus) = 1..(Len(bus) - 1)
    BY <1>2, LenProperties
<1>4. QED
    BY <1>1, <1>2, <1>3

LEMMA BusAppend ==
    ASSUME bus \in Seq(EventType), NEW ev \in EventType, bus' = Append(bus, ev)
    PROVE  /\ DOMAIN bus = 1..Len(bus) /\ Len(bus) \in Nat /\ DOMAIN bus' = 1..(Len(bus) + 1)
           /\ bus'[Len(bus) + 1] = ev
           /\ \A i \in DOMAIN bus : i \in DOMAIN bus' /\ i < Len(bus) + 1 /\ bus'[i] = bus[i]
           /\ \A i \in DOMAIN bus' : i \in DOMAIN bus \/ i = Len(bus) + 1
<1>1. /\ bus' \in Seq(EventType) /\ Len(bus') = Len(bus) + 1 /\ Len(bus) \in Nat
      /\ \A i \in 1..Len(bus) : bus'[i] = bus[i] /\ bus'[Len(bus) + 1] = ev
    BY AppendProperties, LenProperties
<1>2. DOMAIN bus = 1..Len(bus) /\ DOMAIN bus' = 1..(Len(bus) + 1)
    BY <1>1, LenProperties
<1>3. bus'[Len(bus) + 1] = ev
    BY AppendProperties
<1>4. QED
    BY <1>1, <1>2, <1>3

\* An event that is neither a list nor a merge changes nothing of it.
OtherEvent(ev) == ev.type \notin {"PrMerged", "PrStatusChanged"}

LEMMA MergeAppend ==
    ASSUME TypeInv, MergeInv, NEW ev \in EventType, bus' = Append(bus, ev),
           UNCHANGED <<pr, mergedPrs>>, mergeSeen \subseteq mergeSeen', 
           \/ OtherEvent(ev) /\ UNCHANGED mergeSeen
           \/ ev.type = "PrMerged" /\ mergeSeen' = mergeSeen \cup {ev.key} /\ pr[ev.key] = "merged"
           \/ /\ ev.type = "PrStatusChanged" /\ UNCHANGED mergeSeen
              /\ \A k \in mergeSeen : ev.prs[k] = "closed"
    PROVE  MergeInv'
<1> DEFINE n == Len(bus) + 1
<1>1. /\ bus'[n] = ev /\ n \in DOMAIN bus' /\ DOMAIN bus \subseteq Nat /\ n \in Nat
      /\ \A i \in DOMAIN bus : i \in DOMAIN bus' /\ i < n /\ bus'[i] = bus[i]
      /\ \A i \in DOMAIN bus' : i \in DOMAIN bus \/ i = n
    BY BusAppend DEF TypeInv, TypeOK, TasksOK
<1> HIDE DEF n
<1>2. \A k \in mergeSeen' : pr'[k] = "merged"
    BY DEF MergeInv
<1>3. \A i \in DOMAIN bus' : bus'[i].type = "PrMerged" => bus'[i].key \in mergeSeen'
    BY <1>1 DEF MergeInv, OtherEvent
<1>4. ASSUME NEW i \in DOMAIN bus', NEW j \in DOMAIN bus', i < j,
             bus'[i].type = "PrMerged", bus'[j].type = "PrStatusChanged"
      PROVE  bus'[j].prs[bus'[i].key] = "closed"
    <2>1. i \in DOMAIN bus /\ bus'[i] = bus[i]
        BY <1>1, <1>4
    <2>2. CASE j \in DOMAIN bus
        BY <1>1, <1>4, <2>1, <2>2 DEF MergeInv
    <2>3. CASE j = n
        BY <1>1, <1>4, <2>1, <2>3 DEF MergeInv, OtherEvent
    <2>4. QED
        BY <1>1, <2>2, <2>3
<1>5. mergedPrs' \subseteq mergeSeen'
    BY DEF MergeInv
<1>6. \A k \in mergedPrs', i \in DOMAIN bus' : bus'[i].type = "PrStatusChanged" => bus'[i].prs[k] = "closed"
    BY <1>1 DEF MergeInv, OtherEvent
<1>7. QED
    BY <1>2, <1>3, <1>4, <1>5, <1>6 DEF MergeInv

LEMMA MergeTail ==
    ASSUME TypeInv, MergeInv, bus # <<>>, bus' = Tail(bus), UNCHANGED <<pr, mergeSeen>>,
           \/ UNCHANGED mergedPrs
           \/ Head(bus).type = "PrMerged" /\ mergedPrs' = mergedPrs \cup {Head(bus).key}
    PROVE  MergeInv'
<1>1. /\ Head(bus) = bus[1] /\ 1 \in DOMAIN bus /\ DOMAIN bus \subseteq Nat
      /\ \A i \in DOMAIN bus' : i \in Nat /\ i + 1 \in DOMAIN bus /\ i + 1 > 1 /\ bus'[i] = bus[i + 1]
    BY BusTail DEF TypeInv, TypeOK, TasksOK
<1>2. \A i \in DOMAIN bus' : bus'[i].type = "PrMerged" => bus'[i].key \in mergeSeen'
    BY <1>1 DEF MergeInv
<1>3. ASSUME NEW i \in DOMAIN bus', NEW j \in DOMAIN bus', i < j,
             bus'[i].type = "PrMerged", bus'[j].type = "PrStatusChanged"
      PROVE  bus'[j].prs[bus'[i].key] = "closed"
    <2>1. i + 1 < j + 1 /\ i + 1 \in DOMAIN bus /\ j + 1 \in DOMAIN bus
          /\ bus'[i] = bus[i + 1] /\ bus'[j] = bus[j + 1]
        BY <1>1, <1>3
    <2>2. QED
        BY <1>3, <2>1 DEF MergeInv
<1>4. mergedPrs' \subseteq mergeSeen'
    BY <1>1 DEF MergeInv
<1>5. ASSUME NEW k \in mergedPrs', NEW i \in DOMAIN bus', bus'[i].type = "PrStatusChanged"
      PROVE  bus'[i].prs[k] = "closed"
    <2>1. i + 1 \in DOMAIN bus /\ 1 < i + 1 /\ bus'[i] = bus[i + 1]
        BY <1>1
    <2>2. QED
        BY <1>1, <1>5, <2>1 DEF MergeInv
<1>6. QED
    BY <1>2, <1>3, <1>4, <1>5 DEF MergeInv

\* What a step does to the bus.
LEMMA MergeStep ==
    ASSUME TypeInv, MergeInv, [Next]_vars
    PROVE  MergeInv'
<1>1. CASE Handle
    <2>1. /\ bus # <<>> /\ bus' = Tail(bus) /\ UNCHANGED <<pr, mergeSeen>>
          /\ \/ UNCHANGED mergedPrs
             \/ Head(bus).type = "PrMerged" /\ mergedPrs' = mergedPrs \cup {Head(bus).key}
        BY <1>1 DEF Handle, PrStatusChanged, RunCompleted, RetryDue, IssueDetected, PrMerged,
                    Receives, Consume
    <2>2. QED
        BY <2>1, MergeTail
<1>2. CASE BusLags
    <2>1. bus # <<>> /\ bus' = Tail(bus) /\ UNCHANGED <<pr, mergeSeen, mergedPrs>>
        BY <1>2 DEF BusLags
    <2>2. QED
        BY <2>1, MergeTail
<1>3. ASSUME NEW k \in Keys, TimerFires(k) PROVE MergeInv'
    <2> DEFINE ev == [type |-> "RetryDue", key |-> k]
    <2>1. ev \in EventType /\ OtherEvent(ev)
        BY DEF EventType, OtherEvent
    <2>2. bus' = Append(bus, ev) /\ UNCHANGED <<pr, mergeSeen, mergedPrs>>
        BY <1>3 DEF TimerFires
    <2> HIDE DEF ev
    <2>3. QED
        BY <2>1, <2>2, MergeAppend
<1>4. ASSUME NEW t \in Tabs, NEW status \in Status, bus' = Append(bus, RunComplete(t, status)),
             UNCHANGED <<pr, mergeSeen, mergedPrs>>
      PROVE  MergeInv'
    <2>1. RunComplete(t, status) \in EventType /\ OtherEvent(RunComplete(t, status))
        BY DEF EventType, OtherEvent, RunComplete
    <2>2. QED
        BY <1>4, <2>1, MergeAppend
<1>5. CASE UNCHANGED <<bus, pr, mergeSeen, mergedPrs>>
    BY <1>5 DEF MergeInv
<1>6. CASE RunManager
    <2>1. ASSUME NEW t \in Tabs, NEW status \in Status, RunEnds(t, status) PROVE MergeInv'
        BY <2>1, <1>4 DEF RunEnds
    <2>2. QED
        BY <1>6, <1>5, <2>1 DEF RunManager, RmPop, RmLaunch, RmRefuse, AgentWrites, Approve
<1>7. CASE Github
    <2>1. ASSUME NEW k \in Prs, PollMerges(k) PROVE MergeInv'
        <3> DEFINE ev == [type |-> "PrMerged", key |-> k]
        <3>1. ev \in EventType /\ ev.type = "PrMerged" /\ ev.key = k
            BY DEF EventType
        <3>2. /\ bus' = Append(bus, ev) /\ mergeSeen' = mergeSeen \cup {k} /\ pr[k] = "merged"
              /\ UNCHANGED <<pr, mergedPrs>>
            BY <2>1 DEF PollMerges
        <3> HIDE DEF ev
        <3>3. QED
            BY <3>1, <3>2, MergeAppend
    <2>2. CASE PollPrs
        <3> DEFINE ev == [type |-> "PrStatusChanged", prs |-> Snapshot]
        <3>1. Snapshot \in [Prs -> OpenState \cup {"closed"}]
            BY DEF Snapshot
        <3>2. ev \in EventType /\ ev.type = "PrStatusChanged" /\ ev.prs = Snapshot
            BY <3>1 DEF EventType
        <3>3. bus' = Append(bus, ev) /\ UNCHANGED <<pr, mergeSeen, mergedPrs>>
            BY <2>2 DEF PollPrs
        <3>4. \A k \in mergeSeen : Snapshot[k] = "closed"
            BY DEF MergeInv, Snapshot, OpenState, TypeInv, TypeOK, GithubOK
        <3> HIDE DEF ev
        <3>5. QED
            BY <3>2, <3>3, <3>4, MergeAppend
    <2>3. CASE PollIssues
        <3> DEFINE ev == [type |-> "IssueDetected"]
        <3>1. ev \in EventType /\ OtherEvent(ev)
            BY DEF EventType, OtherEvent
        <3>2. bus' = Append(bus, ev) /\ UNCHANGED <<pr, mergeSeen, mergedPrs>>
            BY <2>3 DEF PollIssues
        <3> HIDE DEF ev
        <3>3. QED
            BY <3>1, <3>2, MergeAppend
    <2>4. ASSUME NEW k \in Prs, NEW s, PrChanges(k, s) PROVE MergeInv'
        <3>1. /\ pr[k] # "merged" /\ pr' = [pr EXCEPT ![k] = s] /\ UNCHANGED <<bus, mergeSeen, mergedPrs>>
            BY <2>4 DEF PrChanges
        <3>2. mergeSeen \subseteq Prs /\ pr \in [Prs -> OpenState \cup {"closed", "merged"}]
            BY DEF TypeInv, TypeOK, GithubOK
        <3>3. \A x \in mergeSeen : pr'[x] = "merged"
            BY <3>1, <3>2 DEF MergeInv
        <3>4. QED
            BY <3>1, <3>3 DEF MergeInv
    <2>5. ASSUME NEW k \in Prs, Push(k) PROVE MergeInv'
        BY <2>5, <1>5 DEF Push
    <2>6. QED
        BY <1>7, <2>1, <2>2, <2>3, <2>4, <2>5 DEF Github
<1>8. CASE User
    BY <1>8, <1>5 DEF User, ApplyRelaunch, ApplySkip
<1>9. ASSUME NEW w \in Workers, Execute(w) PROVE MergeInv'
    <2>1. CASE StopSession(w)
        <3> DEFINE t == Head(todo[w]).tab
        <3>1. UNCHANGED <<pr, mergeSeen, mergedPrs>>
            BY <2>1 DEF StopSession
        <3>2. CASE t \in live
            <4>1. t \in Tabs
                <5>1. DOMAIN tabKey = 1..Len(tabKey) /\ Len(tabKey) \in Nat /\ Len(tabKey) <= MaxTabs
                    BY LenProperties DEF TypeInv, TypeOK, RmOK
                <5>2. QED
                    BY <3>2, <5>1, BoundsAssumption DEF TypeInv, TypeOK, RmOK, Tabs
            <4>2. bus' = Append(bus, RunComplete(t, "failed"))
                BY <2>1, <3>2 DEF StopSession
            <4>3. QED
                BY <1>4, <3>1, <4>1, <4>2 DEF Status
        <3>3. CASE t \notin live
            BY <1>5, <2>1, <3>1, <3>3 DEF StopSession
        <3>4. QED
            BY <3>2, <3>3
    <2>2. CASE UNCHANGED <<bus, pr, mergeSeen, mergedPrs>>
        BY <2>2, <1>5
    <2>3. QED
        BY <1>9, <2>1, <2>2 DEF Execute, IssueTrigger, DispatchFails, EnqueueRun, EnqueueFails, LoadTab,
               RecordRunning, CleanupMetadata, ScheduleRetry, CancelRetry, ApplySessionEnd
<1>10. CASE UNCHANGED vars
    BY <1>5, <1>10 DEF vars
<1>11. QED
    BY <1>1, <1>2, <1>3, <1>6, <1>7, <1>8, <1>9, <1>10 DEF Next

-----------------------------------------------------------------------------
(* What a step does to the lists                                           *)

\* Cancellations come first, and are of pull requests.
CancelsFirst(s) == \A i \in DOMAIN s : s[i].do = "cancel" => i = 1 /\ s[i].key \in Prs

\* An effect that goes on as another.
GoesOn(h, e) ==
    /\ e \in EffectType /\ e.key = h.key
    /\ \/ (Starts(h) \/ h.do = "issue") /\ Starts(e)
       \/ h.do = "stop_and_clean" /\ e.do = "cleanup"
       \/ h.do = "finish" /\ e.do = "schedule"

LEMMA RestOfList ==
    ASSUME NEW s \in Seq(EffectType), s # <<>>
    PROVE  /\ Shape(s) => Shape(Tail(s))
           /\ CancelsFirst(s) => \A e \in Range(Tail(s)) : e.do # "cancel"
           /\ Shape(s) /\ Head(s).do \in {"finish", "schedule"} => Tail(s) = <<>>
<1> DEFINE t == Tail(s)
<1>1. /\ t \in Seq(EffectType) /\ Head(s) = s[1] /\ 1 \in DOMAIN s
      /\ Len(s) \in Nat /\ DOMAIN s = 1..Len(s) /\ Len(t) = Len(s) - 1 /\ DOMAIN t = 1..(Len(s) - 1)
      /\ \A i \in DOMAIN t : i + 1 \in DOMAIN s /\ i + 1 # 1 /\ t[i] = s[i + 1]
    BY TailIs
<1> HIDE DEF t
<1>2. ASSUME Shape(s) PROVE Shape(t)
    BY <1>1, <1>2 DEF Shape
<1>3. ASSUME CancelsFirst(s), NEW e \in Range(t) PROVE e.do # "cancel"
    <2>1. PICK i \in DOMAIN t : e = t[i]
        BY <1>3 DEF Range
    <2>2. QED
        BY <1>1, <1>3, <2>1 DEF CancelsFirst
<1>4. ASSUME Shape(s), Head(s).do \in {"finish", "schedule"} PROVE t = <<>>
    BY <1>1, <1>4, EmptySeq DEF Shape
<1>5. QED
    BY <1>2, <1>3, <1>4 DEF t

LEMMA NextOfList ==
    ASSUME NEW s \in Seq(EffectType), s # <<>>, NEW e, GoesOn(Head(s), e)
    PROVE  /\ Shape(s) => Shape(<<e>> \o Tail(s))
           /\ Range(<<e>> \o Tail(s)) = {e} \cup Range(Tail(s))
<1> DEFINE c == <<e>> \o Tail(s)
<1>0. e \in EffectType
    BY DEF GoesOn
<1>1. /\ c \in Seq(EffectType) /\ Len(c) = Len(s) /\ DOMAIN c = DOMAIN s /\ c[1] = e
      /\ \A i \in DOMAIN s \ {1} : c[i] = s[i]
    BY <1>0, GoesOnIs
<1>2. Head(s) = s[1] /\ 1 \in DOMAIN s
    BY TailIs
<1> HIDE DEF c
<1>3. ASSUME Shape(s) PROVE Shape(c)
    BY <1>1, <1>2, <1>3 DEF Shape, GoesOn, Starts
<1>4. QED
    BY <1>0, <1>3, RangeGoesOn DEF c

\* A worker takes an effect off its list, gives its list up, or goes on.
ListGoes(s, l) ==
    \/ l = Tail(s)
    \/ l = <<>> /\ Head(s).do = "issue"
    \/ \E e : GoesOn(Head(s), e) /\ l = <<e>> \o Tail(s)

LEMMA ExecuteList ==
    ASSUME TypeInv, NEW w \in Workers, Execute(w)
    PROVE  /\ todo[w] # <<>> /\ todo[w] \in Seq(EffectType) /\ Head(todo[w]) \in Range(todo[w])
           /\ Head(todo[w]).key \in Keys
           /\ \A v \in Workers \ {w} : todo'[v] = todo[v]
           /\ ListGoes(todo[w], todo'[w])
<1> USE DEF TypeInv, TypeOK
<1> DEFINE s == todo[w]
           h == Head(s)
<1>1. s # <<>>
    BY DEF Execute, IssueTrigger, DispatchFails, EnqueueRun, EnqueueFails, LoadTab, RecordRunning,
           StopSession, CleanupMetadata, ScheduleRetry, CancelRetry, ApplySessionEnd, Next1
<1>2. s \in Seq(EffectType) /\ h \in EffectType /\ h \in Range(s) /\ Key(w) = h.key /\ h.key \in Keys
    <2>1. s \in Seq(EffectType) /\ h \in EffectType
        BY <1>1, HeadTyped DEF TasksOK
    <2>2. QED
        BY <1>1, <2>1, RangeTail, HeadTyped DEF Key
<1>3. \A l : Do(w, l) => todo'[w] = l /\ \A v \in Workers \ {w} : todo'[v] = todo[v]
    BY DEF Do, TasksOK
<1>4. ASSUME NEW do \in EffectKind,
             \/ h.do \in {"dispatch", "issue"} /\ do \in {"dispatch", "load"}
             \/ h.do = "stop_and_clean" /\ do = "cleanup"
             \/ h.do = "finish" /\ do = "schedule"
      PROVE  GoesOn(h, [h EXCEPT !.do = do])
    BY <1>2, <1>4 DEF GoesOn, Starts, EffectType
<1>5. ASSUME NEW do \in EffectKind, Becomes(w, do), GoesOn(h, [h EXCEPT !.do = do])
      PROVE  \E l : Do(w, l) /\ ListGoes(s, l)
    BY <1>5 DEF Becomes, ListGoes
<1>6. Done(w) => \E l : Do(w, l) /\ ListGoes(s, l)
    BY DEF Done, ListGoes
<1>7. CASE IssueTrigger(w)
    <2>1. h.do = "issue" /\ (Do(w, <<>>) \/ Becomes(w, "dispatch"))
        BY <1>7 DEF IssueTrigger, Next1
    <2>2. \E l : Do(w, l) /\ ListGoes(s, l)
        BY <2>1, <1>4, <1>5 DEF ListGoes, EffectKind
    <2>3. QED
        BY <1>1, <1>2, <1>3, <2>2
<1>8. CASE EnqueueRun(w)
    <2>1. h.do = "dispatch" /\ Becomes(w, "load")
        BY <1>8 DEF EnqueueRun, Next1
    <2>2. \E l : Do(w, l) /\ ListGoes(s, l)
        BY <2>1, <1>4, <1>5 DEF EffectKind
    <2>3. QED
        BY <1>1, <1>2, <1>3, <2>2
<1>9. CASE LoadTab(w)
    <2> DEFINE e == [h EXCEPT !.do = "record", !.tab = LoadedTab(Key(w))]
    <2>1. h.do = "load" /\ Do(w, <<e>> \o Tail(s))
        BY <1>9 DEF LoadTab, Next1
    <2>2. e \in EffectType /\ e.key = h.key /\ e.do = "record"
        BY <1>2 DEF EffectType, EffectKind, LoadedTab, RmOK
    <2> HIDE DEF e
    <2>3. GoesOn(h, e)
        BY <2>1, <2>2 DEF GoesOn, Starts
    <2>4. ListGoes(s, <<e>> \o Tail(s))
        BY <2>3 DEF ListGoes
    <2>5. QED
        BY <1>1, <1>2, <1>3, <2>1, <2>4
<1>10. CASE StopSession(w)
    <2>1. Done(w) \/ (h.do = "stop_and_clean" /\ Becomes(w, "cleanup"))
        BY <1>10 DEF StopSession, Next1
    <2>2. \E l : Do(w, l) /\ ListGoes(s, l)
        BY <2>1, <1>4, <1>5, <1>6 DEF EffectKind
    <2>3. QED
        BY <1>1, <1>2, <1>3, <2>2
<1>11. CASE ApplySessionEnd(w)
    <2>1. Done(w) \/ (h.do = "finish" /\ Becomes(w, "schedule"))
        BY <1>11 DEF ApplySessionEnd, Next1
    <2>2. \E l : Do(w, l) /\ ListGoes(s, l)
        BY <2>1, <1>4, <1>5, <1>6 DEF EffectKind
    <2>3. QED
        BY <1>1, <1>2, <1>3, <2>2
<1>12. CASE Done(w)
    BY <1>1, <1>2, <1>3, <1>6, <1>12
<1>13. QED
    BY <1>7, <1>8, <1>9, <1>10, <1>11, <1>12
       DEF Execute, DispatchFails, EnqueueFails, RecordRunning, CleanupMetadata, ScheduleRetry, CancelRetry

\* What the execution of an effect does to the tables.
LEMMA ExecuteTables ==
    ASSUME TypeInv, NEW w \in Workers, Execute(w), NEW h, h = Head(todo[w])
    PROVE  /\ mergedPrs' = mergedPrs
           /\ \/ retryQueue' = retryQueue
              \/ /\ h.do = "finish" /\ h.key \in DOMAIN running
                 /\ DOMAIN retryQueue' = DOMAIN retryQueue \cup {h.key}
                 /\ \E e \in EffectType : e.do = "schedule" /\ e.key = h.key /\ todo'[w] = <<e>> \o Tail(todo[w])
           /\ DOMAIN running' \subseteq DOMAIN running \cup {h.key}
           /\ DOMAIN running' \subseteq DOMAIN running \/ Starts(h)
           /\ claimed \subseteq claimed' \cup h.batch \cup {h.key}
           /\ claimed \subseteq claimed' \/ Starts(h) \/ h.do = "issue"
                \/ (h.do = "finish" /\ h.key \in DOMAIN running)
           /\ h.do # "issue" => claimed \subseteq claimed' \cup {h.key}
           /\ h.do = "issue" => claimed \subseteq claimed' \cup h.batch
<1> USE DEF TypeInv, TypeOK
<1>1. Key(w) = h.key
    BY DEF Key
<1>2. CASE IssueTrigger(w)
    BY <1>2 DEF IssueTrigger, Next1
<1>3. CASE DispatchFails(w) \/ EnqueueFails(w)
    BY <1>1, <1>3 DEF DispatchFails, EnqueueFails, Next1, ClaimsAfterFailure, Starts
<1>4. CASE RecordRunning(w)
    BY <1>1, <1>4 DEF RecordRunning, Next1, Starts, Put
<1>5. CASE ApplySessionEnd(w)
    <2> DEFINE k == Key(w)
    <2>1. h.do = "finish" /\ mergedPrs' = mergedPrs /\ running' = Without(running, {k})
        BY <1>5 DEF ApplySessionEnd, Next1
    <2>2. DOMAIN running' \subseteq DOMAIN running
        BY <2>1 DEF Without, Restrict
    <2>3. CASE retryQueue' = retryQueue /\ claimed' = claimed
        BY <2>1, <2>2, <2>3
    <2>4. CASE k \in DOMAIN running /\ retryQueue' = retryQueue /\ claimed' = claimed \ {k}
        BY <1>1, <2>1, <2>2, <2>4
    <2>5. CASE /\ k \in DOMAIN running /\ claimed' = claimed
               /\ retryQueue' = Put(retryQueue, k, running[k].attempt + 1) /\ Becomes(w, "schedule")
        <3> DEFINE e == [h EXCEPT !.do = "schedule"]
        <3>1. DOMAIN retryQueue' = DOMAIN retryQueue \cup {k}
            BY <2>5 DEF Put
        <3>2. todo[w] # <<>> /\ h \in EffectType
            BY <1>5, HeadTyped DEF ApplySessionEnd, Next1
        <3>3. e.do = "schedule" /\ e.key = k /\ e \in EffectType
            BY <1>1, <3>2 DEF EffectType, EffectKind
        <3>4. todo'[w] = <<e>> \o Tail(todo[w])
            BY <2>5 DEF Becomes, Do, TasksOK
        <3> HIDE DEF e
        <3>5. QED
            BY <1>1, <2>1, <2>2, <2>5, <3>1, <3>3, <3>4
    <2>6. QED
        BY <1>5, <2>3, <2>4, <2>5 DEF ApplySessionEnd
<1>6. CASE UNCHANGED orchVars
    BY <1>6
<1>7. QED
    BY <1>2, <1>3, <1>4, <1>5, <1>6
       DEF Execute, EnqueueRun, LoadTab, StopSession, CleanupMetadata, ScheduleRetry, CancelRetry

\* The lists keep their shape.
LEMMA ExecuteShape ==
    ASSUME TypeInv, TasksInv, NEW w \in Workers, Execute(w), NEW h, h = Head(todo[w])
    PROVE  /\ Shape(todo'["loop"]) /\ UserShape'
           /\ w = "user" => /\ \A e \in ForUser' : e.do # "cancel"
                            /\ h.do \notin {"finish", "schedule", "issue"}
           /\ h.do \in {"finish", "schedule"} => \A e \in ForLoop' : e.do = "schedule"
           /\ \A e \in Range(todo'[w]) : e \in Range(Tail(todo[w])) \/ GoesOn(h, e)
           /\ Range(Tail(todo[w])) \subseteq Range(todo[w])
<1> DEFINE s == todo[w]
           l == todo'[w]
<1>1. /\ s # <<>> /\ s \in Seq(EffectType) /\ h \in Range(s)
      /\ \A v \in Workers \ {w} : todo'[v] = todo[v]
      /\ ListGoes(s, l)
    BY ExecuteList
<1>2. /\ Shape(s) => Shape(Tail(s))
      /\ CancelsFirst(s) => \A e \in Range(Tail(s)) : e.do # "cancel"
      /\ Shape(s) /\ h.do \in {"finish", "schedule"} => Tail(s) = <<>>
      /\ Range(s) = {h} \cup Range(Tail(s))
    BY <1>1, RestOfList, RangeTail
<1>3. Range(<<>>) = {} /\ Shape(<<>>)
    <2>1. DOMAIN <<>> = {}
        OBVIOUS
    <2>2. QED
        BY <2>1 DEF Range, Shape
<1>4. \/ l = Tail(s) \/ (l = <<>> /\ h.do = "issue")
      \/ \E e : GoesOn(h, e) /\ l = <<e>> \o Tail(s) /\ Range(l) = {e} \cup Range(Tail(s))
                /\ (Shape(s) => Shape(l))
    BY <1>1, NextOfList DEF ListGoes
<1>5. Shape(s) => Shape(l)
    BY <1>2, <1>3, <1>4
<1>6. \A e \in Range(l) : e \in Range(Tail(s)) \/ GoesOn(h, e)
    BY <1>3, <1>4
<1>7. CASE w = "loop"
    <2>1. todo'["user"] = todo["user"]
        BY <1>1, <1>7 DEF Workers
    <2>2. UserShape'
        BY <2>1 DEF TasksInv, UserShape, ForUser
    <2>3. h.do \in {"finish", "schedule"} => \A e \in ForLoop' : e.do = "schedule"
        BY <1>2, <1>3, <1>6, <1>7 DEF TasksInv, ForLoop, GoesOn, Starts
    <2>4. QED
        BY <1>2, <1>5, <1>6, <1>7, <2>2, <2>3 DEF TasksInv
<1>8. CASE w = "user"
    <2>1. todo'["loop"] = todo["loop"]
        BY <1>1, <1>8 DEF Workers
    <2>2. CancelsFirst(s) /\ \A e \in Range(s) : e.do \in {"cancel", "dispatch", "load", "record", "stop"}
        BY <1>8 DEF TasksInv, UserShape, ForUser, CancelsFirst
    <2>3. h.do \in {"cancel", "dispatch", "load", "record", "stop"}
        BY <1>1, <2>2
    <2>4. \A e \in Range(l) : e.do \in {"dispatch", "load", "record", "stop"}
        BY <1>2, <1>6, <2>2, <2>3 DEF GoesOn, Starts
    <2>5. UserShape' /\ \A e \in ForUser' : e.do # "cancel"
        BY <1>8, <2>4 DEF UserShape, ForUser, Range
    <2>6. QED
        BY <1>2, <1>6, <1>8, <2>1, <2>3, <2>5 DEF TasksInv
<1>9. QED
    BY <1>7, <1>8 DEF Workers

LEMMA ExecuteTasks ==
    ASSUME TypeInv, TasksInv, NEW w \in Workers, Execute(w)
    PROVE  TasksInv'
<1> DEFINE h == Head(todo[w])
<1>1. /\ Shape(todo'["loop"]) /\ UserShape'
      /\ w = "user" => /\ \A e \in ForUser' : e.do # "cancel"
                       /\ h.do \notin {"finish", "schedule", "issue"}
      /\ h.do \in {"finish", "schedule"} => \A e \in ForLoop' : e.do = "schedule"
      /\ \A e \in Range(todo'[w]) : e \in Range(Tail(todo[w])) \/ GoesOn(h, e)
      /\ Range(Tail(todo[w])) \subseteq Range(todo[w])
    BY ExecuteShape
<1>2. /\ todo[w] # <<>> /\ h \in Range(todo[w])
      /\ \A v \in Workers \ {w} : todo'[v] = todo[v]
    BY ExecuteList
<1>3. /\ mergedPrs' = mergedPrs
      /\ retryQueue' = retryQueue \/ (h.do = "finish" /\ h.key \in DOMAIN running
                                      /\ DOMAIN retryQueue' = DOMAIN retryQueue \cup {h.key})
      /\ DOMAIN running' \subseteq DOMAIN running \cup {h.key}
      /\ DOMAIN running' \subseteq DOMAIN running \/ Starts(h)
      /\ claimed \subseteq claimed' \/ Starts(h) \/ h.do = "issue"
           \/ (h.do = "finish" /\ h.key \in DOMAIN running)
      /\ h.do # "issue" => claimed \subseteq claimed' \cup {h.key}
      /\ h.do = "issue" => claimed \subseteq claimed' \cup h.batch
    BY ExecuteTables
<1>4. h.do = "issue" => h.key \in Issues /\ h.batch \subseteq Issues
    <2>1. w = "loop" => h \in ForLoop
        BY <1>2 DEF ForLoop
    <2>2. QED
        BY <1>1, <2>1 DEF TasksInv, Shape, ForLoop, Range, Workers
<1>5. Issues \cap Prs = {}
    BY KeyAssumption
<1> HIDE DEF h
<1>6. CASE w = "user"
    <2>1. ForLoop' = ForLoop /\ retryQueue' = retryQueue
        BY <1>1, <1>2, <1>3, <1>6 DEF ForLoop, Workers
    <2>2. LoopClears'
        BY <2>1 DEF TasksInv, LoopClears
    <2>3. UserClears'
        BY <1>1, <1>6 DEF UserClears
    <2>4. QED
        BY <1>1, <2>2, <2>3 DEF TasksInv
<1>7. CASE w = "loop"
    <2>1. /\ ForUser' = ForUser /\ h \in ForLoop
          /\ \A e \in ForLoop' : e \in ForLoop \/ GoesOn(h, e)
        BY <1>1, <1>2, <1>7 DEF ForLoop, ForUser, Workers
    <2>2. LoopClears'
        <3>1. CASE h.do = "finish"
            <4>1. \A e \in ForLoop' : e.do = "schedule"
                BY <1>1, <3>1
            <4>2. QED
                BY <4>1 DEF LoopClears, Starts
        <3>2. CASE h.do # "finish"
            <4>1. retryQueue' = retryQueue
                BY <1>3, <3>2
            <4>2. QED
                BY <1>4, <1>5, <2>1, <4>1 DEF TasksInv, LoopClears, GoesOn, Starts
        <3>3. QED
            BY <3>1, <3>2
    <2>3. ASSUME NEW c \in ForUser', c.do = "cancel"
          PROVE  /\ c.key \notin DOMAIN retryQueue' \cup DOMAIN running'
                 /\ \A e \in ForLoop' : Starts(e) => e.key # c.key
                 /\ c.key \in claimed' \cup mergedPrs'
        <3>1. /\ c.key \notin DOMAIN retryQueue \cup DOMAIN running
              /\ \A e \in ForLoop : Starts(e) => e.key # c.key
              /\ c.key \in claimed \cup mergedPrs
            BY <2>1, <2>3 DEF TasksInv, UserClears
        <3>2. c.key \in Prs
            BY <2>1, <2>3 DEF TasksInv, UserShape, ForUser, Range
        <3>3. Starts(h) => h.key # c.key
            BY <2>1, <3>1
        <3>4. h.do = "issue" => h.key # c.key /\ c.key \notin h.batch
            BY <1>4, <1>5, <3>2
        <3>5. c.key \notin DOMAIN retryQueue' \cup DOMAIN running'
            BY <1>3, <3>1, <3>3
        <3>6. \A e \in ForLoop' : Starts(e) => e.key # c.key
            BY <2>1, <3>1, <3>3, <3>4 DEF GoesOn, Starts
        <3>7. c.key \in claimed' \cup mergedPrs'
            BY <1>3, <3>1, <3>3, <3>4
        <3>8. QED
            BY <3>5, <3>6, <3>7
    <2>4. QED
        BY <1>1, <2>2, <2>3 DEF TasksInv, UserClears
<1>8. QED
    BY <1>6, <1>7 DEF Workers

\* The effects of a list of pull requests: it starts what it chooses, stops
\* what has gone and cancels what it drops.
LEMMA ListIs ==
    ASSUME TypeInv, PrStatusChanged
    PROVE  LET prs == Head(bus).prs
               gone == StaleRunning(prs)
               dropped == StaleRetries(prs)
           IN  \E D \in Chosen(prs) :
                /\ claimed' = (claimed \cup D) \ (gone \cup dropped)
                /\ todo'["user"] = todo["user"]
                /\ ForLoop' = {Dispatch(k, 1) : k \in D} \cup {Stop("stop_and_clean", k) : k \in gone}
                              \cup {Effect("cancel", k) : k \in dropped}
<1> USE DEF TypeInv, TypeOK
<1> DEFINE prs == Head(bus).prs
           gone == StaleRunning(prs)
           dropped == StaleRetries(prs)
<1>1. PICK D \in Chosen(prs) :
        /\ claimed' = (claimed \cup D) \ (gone \cup dropped)
        /\ \E new \in Orders(D), stops \in Orders(gone), cancels \in Orders(dropped) :
            Do("loop", [i \in DOMAIN new |-> Dispatch(new[i], 1)]
                \o [i \in DOMAIN stops |-> Stop("stop_and_clean", stops[i])]
                \o [i \in DOMAIN cancels |-> Effect("cancel", cancels[i])])
    BY DEF PrStatusChanged
<1>2. PICK new \in Orders(D), stops \in Orders(gone), cancels \in Orders(dropped) :
            Do("loop", [i \in DOMAIN new |-> Dispatch(new[i], 1)]
                \o [i \in DOMAIN stops |-> Stop("stop_and_clean", stops[i])]
                \o [i \in DOMAIN cancels |-> Effect("cancel", cancels[i])])
    BY <1>1
<1>3. /\ D \subseteq Prs /\ gone \subseteq DOMAIN running /\ dropped \subseteq DOMAIN retryQueue
      /\ gone \subseteq Keys /\ dropped \subseteq Keys
    BY <1>1 DEF Chosen, Candidates, StaleRunning, StaleRetries, OrchOK
<1> DEFINE a == [i \in DOMAIN new |-> Dispatch(new[i], 1)]
           b == [i \in DOMAIN stops |-> Stop("stop_and_clean", stops[i])]
           c == [i \in DOMAIN cancels |-> Effect("cancel", cancels[i])]
<1>4. IsFiniteSet(D) /\ IsFiniteSet(gone) /\ IsFiniteSet(dropped)
    BY <1>3, KeysFinite, FS_Subset, FiniteAssumption
<1>a. Range(new) = D /\ Range(stops) = gone /\ Range(cancels) = dropped
    BY DEF Orders
<1>5. a \in Seq(EffectType) /\ Range(a) = {Dispatch(k, 1) : k \in D}
    <2>1. a \in Seq(EffectType)
        <3>1. D \in SUBSET Prs /\ new \in Orders(D)
            BY <1>3
        <3> HIDE DEF gone, dropped, TypeInv, TypeOK
        <3>2. QED
            BY <3>1, DispatchList
    <2> HIDE DEF gone, dropped, TypeInv, TypeOK
    <2>2. QED
        BY <1>a, <2>1 DEF Range
<1>6. b \in Seq(EffectType) /\ Range(b) = {Stop("stop_and_clean", k) : k \in gone}
    <2>1. \A k \in gone : running[k].tab \in Tabs \cup {NoTab}
        BY <1>3 DEF OrchOK
    <2> HIDE DEF gone, TypeInv, TypeOK
    <2>2. \A i \in DOMAIN stops : Stop("stop_and_clean", stops[i]) \in EffectType
        <3>1. \A i \in DOMAIN stops : stops[i] \in gone
            BY <1>4, OrdersList
        <3>2. "stop_and_clean" \in EffectKind
            BY DEF EffectKind
        <3>3. QED
            BY <1>3, <2>1, <3>1, <3>2, StopEffectTyped
    <2>3. b \in Seq(EffectType)
        BY <2>2, <1>4, OrdersList
    <2>4. QED
        BY <1>a, <2>3 DEF Range
<1>7. c \in Seq(EffectType) /\ Range(c) = {Effect("cancel", k) : k \in dropped}
    <2> HIDE DEF dropped, TypeInv, TypeOK
    <2>1. \A i \in DOMAIN cancels : Effect("cancel", cancels[i]) \in EffectType
        BY <1>3, <1>4, OrdersList, EffectTyped DEF EffectKind
    <2>2. c \in Seq(EffectType)
        BY <2>1, <1>4, OrdersList
    <2>3. QED
        BY <1>a, <2>2 DEF Range
<1>8. Do("loop", a \o b \o c)
    BY <1>2
<1> HIDE DEF a, b, c, gone, dropped
<1> DEFINE l == a \o b \o c
<1>9. Range(l) = Range(a) \cup Range(b) \cup Range(c)
    <2>1. a \o b \in Seq(EffectType) /\ Range(a \o b) = Range(a) \cup Range(b)
        BY <1>5, <1>6, RangeConcat
    <2> DEFINE ab == a \o b
    <2> HIDE DEF ab
    <2>2. Range(ab \o c) = Range(ab) \cup Range(c)
        BY <1>7, <2>1, RangeConcat DEF ab
    <2>3. QED
        BY <2>1, <2>2 DEF ab
<1>10. todo'["loop"] = l /\ todo'["user"] = todo["user"]
    BY <1>8 DEF Do, TasksOK, Workers
<1> HIDE DEF l
<1>11. ForLoop' = Range(a) \cup Range(b) \cup Range(c)
    BY <1>9, <1>10 DEF ForLoop
<1>12. QED
    BY <1>1, <1>5, <1>6, <1>7, <1>10, <1>11 DEF gone, dropped

LEMMA ListHandled ==
    ASSUME TypeInv, PrStatusChanged
    PROVE  LET prs == Head(bus).prs
               gone == StaleRunning(prs)
               dropped == StaleRetries(prs)
           IN  \E D \in Chosen(prs) :
                /\ claimed' = (claimed \cup D) \ (gone \cup dropped)
                /\ todo'["user"] = todo["user"]
                /\ \A e \in ForLoop' : e.do \in {"dispatch", "stop_and_clean", "cancel"}
                /\ \A e \in ForLoop' : e.do = "cancel" => e.key \in dropped
                /\ \A e \in ForLoop' : Starts(e) => e.key \in D
<1>1. \A k : /\ Dispatch(k, 1).do = "dispatch" /\ Dispatch(k, 1).key = k
            /\ Stop("stop_and_clean", k).do = "stop_and_clean"
            /\ Effect("cancel", k).do = "cancel" /\ Effect("cancel", k).key = k
    BY DEF Dispatch, Stop, Effect
<1>2. QED
    BY <1>1, ListIs DEF Starts

LEMMA HandleTasks ==
    ASSUME TypeInv, TasksInv, MergeInv, Handle
    PROVE  TasksInv'
<1> USE DEF TypeInv, TypeOK
<1>0. /\ bus # <<>> /\ todo["loop"] = <<>> /\ Head(bus) \in EventType
      /\ Head(bus) = bus[1] /\ 1 \in DOMAIN bus
    <2>1. bus # <<>> /\ todo["loop"] = <<>>
        BY DEF Handle, PrStatusChanged, RunCompleted, RetryDue, IssueDetected, PrMerged, Receives
    <2>2. QED
        BY <2>1, EventFields, BusTail DEF TasksOK
<1>1. \A s : Do("loop", s) => todo'["loop"] = s /\ todo'["user"] = todo["user"]
    BY DEF Do, TasksOK, Workers
<1>2. ASSUME DOMAIN running' \subseteq DOMAIN running, DOMAIN retryQueue' \subseteq DOMAIN retryQueue,
             todo'["user"] = todo["user"], Shape(todo'["loop"]), LoopClears',
             \A x \in Prs : x \in claimed \cup mergedPrs => x \in claimed' \cup mergedPrs'
                                \/ x \in DOMAIN running \cup DOMAIN retryQueue,
             \A e \in ForLoop' : Starts(e) =>
                e.key \notin (claimed \cup mergedPrs) \cap Prs \/ e.key \in DOMAIN retryQueue
      PROVE  TasksInv'
    <2>1. ForUser' = ForUser /\ UserShape'
        BY <1>2 DEF TasksInv, UserShape, ForUser
    <2>2. \A c \in ForUser : c.do = "cancel" => c.key \in Prs
        BY DEF TasksInv, UserShape, ForUser, Range
    <2>3. UserClears'
        BY <1>2, <2>1, <2>2 DEF TasksInv, UserClears
    <2>4. QED
        BY <1>2, <2>1, <2>3 DEF TasksInv
<1>3. Shape(<<>>) /\ Range(<<>>) = {}
    <2>1. DOMAIN <<>> = {}
        OBVIOUS
    <2>2. QED
        BY <2>1 DEF Range, Shape
<1>4. ASSUME NEW e, e.do # "issue" PROVE Shape(<<e>>) /\ Range(<<e>>) = {e}
    <2>1. Len(<<e>>) = 1 /\ DOMAIN <<e>> = {1} /\ <<e>>[1] = e
        OBVIOUS
    <2>2. QED
        BY <1>4, <2>1 DEF Range, Shape
<1>5. ASSUME DOMAIN running' \subseteq DOMAIN running, DOMAIN retryQueue' \subseteq DOMAIN retryQueue,
             UNCHANGED <<claimed, mergedPrs>>, UNCHANGED todo
      PROVE  TasksInv'
    <2>1. ForLoop' = {}
        BY <1>0, <1>3, <1>5 DEF ForLoop
    <2>2. LoopClears'
        BY <2>1 DEF LoopClears
    <2>3. QED
        BY <1>0, <1>2, <1>3, <1>5, <2>1, <2>2
<1>6. CASE PrStatusChanged
    <2> DEFINE prs == Head(bus).prs
               gone == StaleRunning(prs)
               dropped == StaleRetries(prs)
    <2>1. PICK D \in Chosen(prs) :
            /\ claimed' = (claimed \cup D) \ (gone \cup dropped)
            /\ todo'["user"] = todo["user"]
            /\ \A e \in ForLoop' : e.do \in {"dispatch", "stop_and_clean", "cancel"}
            /\ \A e \in ForLoop' : e.do = "cancel" => e.key \in dropped
            /\ \A e \in ForLoop' : Starts(e) => e.key \in D
        BY <1>6, ListHandled
    <2>2. /\ gone \subseteq DOMAIN running /\ dropped \subseteq DOMAIN retryQueue
          /\ \A k \in D : prs[k] \in Eligible /\ k \notin claimed \cup DOMAIN running \cup DOMAIN retryQueue
        BY <2>1 DEF Chosen, Candidates, StaleRunning, StaleRetries
    <2>3. mergedPrs' = mergedPrs /\ running' = Without(running, gone)
             /\ retryQueue' = Without(retryQueue, gone \cup dropped)
        BY <1>6 DEF PrStatusChanged
    <2>4. DOMAIN running' = DOMAIN running \ gone /\ DOMAIN retryQueue' = DOMAIN retryQueue \ (gone \cup dropped)
        BY <2>3 DEF Without, Restrict
    <2>5. \A k \in D : k \notin mergedPrs
        <3>1. \A k \in mergedPrs : prs[k] = "closed"
            BY <1>0, <1>6 DEF MergeInv, PrStatusChanged, Receives
        <3>2. QED
            BY <2>2, <3>1, KeyAssumption DEF OpenState
    <2> HIDE DEF gone, dropped
    <2>6. Shape(todo'["loop"])
        BY <2>1 DEF Shape, ForLoop, Range
    <2>7. LoopClears'
        BY <2>1, <2>2, <2>4 DEF LoopClears
    <2>8. \A x \in Prs : x \in claimed \cup mergedPrs => x \in claimed' \cup mergedPrs'
                                \/ x \in DOMAIN running \cup DOMAIN retryQueue
        BY <2>1, <2>2, <2>3
    <2>9. QED
        BY <1>2, <2>1, <2>2, <2>4, <2>5, <2>6, <2>7, <2>8
<1>7. CASE RunCompleted
    <2>1. UNCHANGED orchVars
        BY <1>7 DEF RunCompleted
    <2>2. ASSUME NEW k, Do("loop", <<[Effect("finish", k) EXCEPT !.status = Head(bus).status]>>)
          PROVE  TasksInv'
        <3> DEFINE e == [Effect("finish", k) EXCEPT !.status = Head(bus).status]
        <3>1. e.do = "finish"
            BY DEF Effect
        <3>2. Do("loop", <<e>>)
            BY <2>2
        <3> HIDE DEF e
        <3>3. todo'["user"] = todo["user"] /\ Shape(todo'["loop"]) /\ ForLoop' = {e}
            BY <1>1, <1>4, <3>1, <3>2 DEF ForLoop
        <3>4. LoopClears'
            BY <3>1, <3>3 DEF LoopClears, Starts
        <3>5. QED
            BY <1>2, <2>1, <3>1, <3>3, <3>4 DEF Starts
    <2>3. QED
        BY <1>5, <1>7, <2>1, <2>2 DEF RunCompleted
<1>8. CASE RetryDue
    <2> DEFINE k == Head(bus).key
    <2>1. k \in Keys /\ UNCHANGED <<claimed, mergedPrs, running>>
        BY <1>8, <1>0, EventFields DEF RetryDue, Receives, TasksOK
    <2>2. CASE k \notin DOMAIN retryQueue
        BY <1>5, <1>8, <2>1, <2>2 DEF RetryDue
    <2>3. CASE k \in DOMAIN retryQueue /\ AvailableSlots = 0
        <3> DEFINE e == Effect("schedule", k)
        <3>1. Do("loop", <<e>>) /\ UNCHANGED retryQueue
            BY <1>8, <2>3 DEF RetryDue, Deferred
        <3>2. e.do = "schedule"
            BY DEF Effect
        <3> HIDE DEF e
        <3>3. todo'["user"] = todo["user"] /\ Shape(todo'["loop"]) /\ ForLoop' = {e}
            BY <1>1, <1>4, <3>1, <3>2 DEF ForLoop
        <3>4. LoopClears'
            BY <3>2, <3>3 DEF LoopClears, Starts
        <3>5. QED
            BY <1>2, <2>1, <3>1, <3>2, <3>3, <3>4 DEF Starts
    <2>4. CASE k \in DOMAIN retryQueue /\ AvailableSlots # 0
        <3> DEFINE e == Dispatch(k, retryQueue[k])
        <3>1. Do("loop", <<e>>) /\ DOMAIN retryQueue' = DOMAIN retryQueue \ {k}
            BY <1>8, <2>4 DEF RetryDue, Without, Restrict
        <3>2. e.do = "dispatch" /\ e.key = k
            BY DEF Dispatch, Effect
        <3> HIDE DEF e
        <3>3. todo'["user"] = todo["user"] /\ Shape(todo'["loop"]) /\ ForLoop' = {e}
            BY <1>1, <1>4, <3>1, <3>2 DEF ForLoop
        <3>4. LoopClears'
            BY <3>1, <3>2, <3>3 DEF LoopClears, Starts
        <3>5. QED
            BY <1>2, <2>1, <2>4, <3>1, <3>2, <3>3, <3>4
    <2>5. QED
        BY <2>2, <2>3, <2>4
<1>9. CASE IssueDetected
    <2> DEFINE new == Issues \ (claimed \cup completed)
    <2>1. PICK order \in Orders(new) :
            Do("loop", [i \in DOMAIN order |-> [Effect("issue", order[i]) EXCEPT !.batch = new]])
        BY <1>9 DEF IssueDetected
    <2> DEFINE s == [i \in DOMAIN order |-> [Effect("issue", order[i]) EXCEPT !.batch = new]]
    <2>2. Do("loop", s)
        BY <2>1
    <2>3. IsFiniteSet(new)
        BY FS_Subset, FiniteAssumption
    <2>4. DOMAIN s = DOMAIN order
          /\ \A i \in DOMAIN s : s[i].do = "issue" /\ s[i].key \in Issues /\ s[i].batch \subseteq Issues
        BY <2>3, OrdersList DEF Effect
    <2> HIDE DEF s
    <2>5. Shape(s) /\ \A e \in Range(s) : e.do = "issue"
        BY <2>4 DEF Shape, Range
    <2>6. todo'["user"] = todo["user"] /\ todo'["loop"] = s /\ ForLoop' = Range(s)
        BY <1>1, <2>2 DEF ForLoop
    <2>7. LoopClears'
        BY <2>5, <2>6 DEF LoopClears, Starts
    <2>8. claimed \subseteq claimed' /\ UNCHANGED <<mergedPrs, running, retryQueue>>
        BY <1>9 DEF IssueDetected
    <2>9. QED
        BY <1>2, <2>5, <2>6, <2>7, <2>8 DEF Starts
<1>10. CASE PrMerged
    <2> DEFINE k == Head(bus).key
               e == Dispatch(Rescore(k), 1)
    <2>1. k \in Prs /\ Rescore(k) \notin Prs
        BY <1>10, <1>0, EventFields, KeyAssumption DEF PrMerged, Receives, TasksOK
    <2>2. e.do = "dispatch" /\ e.key = Rescore(k)
        BY DEF Dispatch, Effect
    <2>3. Do("loop", <<e>>) \/ Do("loop", <<>>)
        BY <1>10 DEF PrMerged
    <2>4. /\ DOMAIN running' \subseteq DOMAIN running /\ DOMAIN retryQueue' \subseteq DOMAIN retryQueue
          /\ mergedPrs' = mergedPrs \cup {k} /\ claimed \subseteq claimed' \cup {k}
        BY <1>10 DEF PrMerged, Without, Restrict
    <2> HIDE DEF e
    <2>5. /\ todo'["user"] = todo["user"] /\ Shape(todo'["loop"]) /\ ForLoop' \subseteq {e}
        BY <1>1, <1>3, <1>4, <2>2, <2>3 DEF ForLoop
    <2>6. LoopClears'
        BY <2>1, <2>2, <2>5 DEF LoopClears
    <2>7. QED
        BY <1>2, <2>1, <2>2, <2>4, <2>5, <2>6
<1>11. QED
    BY <1>6, <1>7, <1>8, <1>9, <1>10 DEF Handle

\* A relaunch cancels before it starts, and a skip stops.
LEMMA UserTasks ==
    ASSUME TypeInv, TasksInv, User
    PROVE  TasksInv'
<1> USE DEF TypeInv, TypeOK
<1>1. PICK k \in Prs : ApplyRelaunch(k) \/ ApplySkip(k)
    BY DEF User
<1>2. ForUser = {} /\ DOMAIN retryQueue' = DOMAIN retryQueue \ {k}
    <2>1. todo["user"] = <<>> /\ retryQueue' = Without(retryQueue, {k})
        BY <1>1 DEF ApplyRelaunch, ApplySkip, UserCalls
    <2>2. QED
        BY <2>1, RangeSmall DEF ForUser, Without, Restrict
<1>3. \A s : Do("user", s) => todo'["user"] = s /\ todo'["loop"] = todo["loop"]
    BY DEF Do, TasksOK, Workers
<1>4. ASSUME todo'["loop"] = todo["loop"] PROVE Shape(todo'["loop"]) /\ ForLoop' = ForLoop /\ LoopClears'
    BY <1>2, <1>4 DEF TasksInv, LoopClears, ForLoop
<1>5. CASE ApplySkip(k)
    <2> DEFINE e == Stop("stop", k)
    <2>1. Do("user", <<e>>) \/ Do("user", <<>>)
        BY <1>5 DEF ApplySkip
    <2>2. e.do = "stop"
        BY DEF Stop, Effect
    <2> HIDE DEF e
    <2>3. todo'["loop"] = todo["loop"] /\ \A x \in ForUser' : x.do = "stop"
        BY <1>3, <2>1, <2>2, RangeSmall DEF ForUser
    <2>4. UserShape' /\ UserClears'
        BY <2>3 DEF UserShape, UserClears, ForUser, Range
    <2>5. QED
        BY <1>4, <2>3, <2>4 DEF TasksInv
<1>6. CASE ApplyRelaunch(k)
    <2> DEFINE a == Effect("cancel", k)
               b == Dispatch(k, PreviousAttempt(k) + 1)
    <2>1. Do("user", <<b>>) \/ (k \in DOMAIN retryQueue /\ Do("user", <<a, b>>))
        BY <1>6 DEF ApplyRelaunch
    <2>2. a.do = "cancel" /\ a.key = k /\ b.do = "dispatch"
        BY DEF Dispatch, Effect
    <2> HIDE DEF a, b
    <2>3. todo'["loop"] = todo["loop"]
        BY <1>3, <2>1
    <2>4. k \notin DOMAIN running /\ running' = running /\ claimed' = claimed \cup {k} /\ mergedPrs' = mergedPrs
        BY <1>6 DEF ApplyRelaunch
    <2>5. CASE Do("user", <<b>>)
        <3>1. todo'["user"] = <<b>> /\ ForUser' = {b}
            BY <1>3, <2>5, RangeSmall DEF ForUser
        <3>2. DOMAIN <<b>> = {1} /\ <<b>>[1] = b
            OBVIOUS
        <3>3. UserShape' /\ UserClears'
            BY <2>2, <3>1, <3>2 DEF UserShape, UserClears
        <3>4. QED
            BY <1>4, <2>3, <3>3 DEF TasksInv
    <2>6. CASE k \in DOMAIN retryQueue /\ Do("user", <<a, b>>)
        <3>1. todo'["user"] = <<a, b>> /\ ForUser' = {a, b}
            BY <1>3, <2>6, RangeSmall DEF ForUser
        <3>2. DOMAIN <<a, b>> = {1, 2} /\ <<a, b>>[1] = a /\ <<a, b>>[2] = b
            OBVIOUS
        <3>3. UserShape'
            BY <2>2, <3>1, <3>2 DEF UserShape
        <3>4. \A e \in ForLoop : Starts(e) => e.key # k
            BY <2>6 DEF TasksInv, LoopClears
        <3>5. UserClears'
            BY <1>2, <1>4, <2>2, <2>3, <2>4, <3>1, <3>4 DEF UserClears
        <3>6. QED
            BY <1>4, <2>3, <3>3, <3>5 DEF TasksInv
    <2>7. QED
        BY <2>1, <2>5, <2>6
<1>7. QED
    BY <1>1, <1>5, <1>6

LEMMA TasksStep ==
    ASSUME TypeInv, TasksInv, MergeInv, [Next]_vars
    PROVE  TasksInv'
<1>1. CASE UNCHANGED <<orchVars, todo>>
    BY <1>1 DEF TasksInv, UserShape, LoopClears, UserClears, ForLoop, ForUser
<1>2. CASE RunManager \/ Github \/ BusLags \/ (\E k \in Keys : TimerFires(k)) \/ UNCHANGED vars
    BY <1>1, <1>2 DEF RunManager, RmPop, RmLaunch, RmRefuse, AgentWrites, RunEnds, Approve,
                Github, Push, PollMerges, PrChanges, PollPrs, PollIssues, BusLags, TimerFires, vars
<1>3. QED
    BY <1>2, HandleTasks, UserTasks, ExecuteTasks DEF Next

-----------------------------------------------------------------------------
(* A retry in the queue is woken                                           *)

\* The keys whose timer has fired, and those whose timer is still to be set.
DueIn(b)  == {b[i].key : i \in {j \in DOMAIN b : b[j].type = "RetryDue"}}
Due       == DueIn(bus)
Scheduled == {e.key : e \in {x \in ForLoop : x.do = "schedule"}}
Woken     == DOMAIN retryQueue \subseteq armed \cup stray \cup Due \cup Scheduled

LEMMA WokenIs == UserShape => (RetryWoken <=> Woken)
<1> SUFFICES ASSUME UserShape PROVE RetryWoken <=> Woken
    OBVIOUS
<1>1. UnderWay = ForLoop \cup ForUser
    BY DEF UnderWay, ForLoop, ForUser, Workers
<1>2. \A e \in ForUser : e.do # "schedule"
    BY DEF UserShape
<1>3. ASSUME NEW k
      PROVE  /\ k \in Due <=> \E i \in DOMAIN bus : bus[i].type = "RetryDue" /\ bus[i].key = k
             /\ k \in Scheduled <=> \E e \in UnderWay : e.do = "schedule" /\ e.key = k
    BY <1>1, <1>2 DEF Due, DueIn, Scheduled
<1>4. QED
    BY <1>3 DEF RetryWoken, Woken

LEMMA WokenIsNext == UserShape' => (RetryWoken' <=> Woken')
BY WokenIs, PTL

LEMMA DueAppend ==
    ASSUME TypeInv, NEW ev \in EventType, bus' = Append(bus, ev)
    PROVE  /\ Due \subseteq Due'
           /\ ev.type = "RetryDue" => ev.key \in Due'
<1> DEFINE n == Len(bus) + 1
<1>1. /\ bus'[n] = ev /\ n \in DOMAIN bus'
      /\ \A i \in DOMAIN bus : i \in DOMAIN bus' /\ bus'[i] = bus[i]
    BY BusAppend DEF TypeInv, TypeOK, TasksOK
<1> HIDE DEF n
<1>2. QED
    BY <1>1 DEF Due, DueIn

LEMMA DueTail ==
    ASSUME TypeInv, bus # <<>>, bus' = Tail(bus)
    PROVE  \A k \in Due : k \in Due' \/ (Head(bus).type = "RetryDue" /\ k = Head(bus).key)
<1>1. /\ Head(bus) = bus[1]
      /\ \A j \in DOMAIN bus \ {1} : j - 1 \in DOMAIN bus' /\ bus'[j - 1] = bus[j]
    BY BusTail DEF TypeInv, TypeOK, TasksOK
<1>2. ASSUME NEW j \in DOMAIN bus, bus[j].type = "RetryDue", j # 1 PROVE bus[j].key \in Due'
    BY <1>1, <1>2 DEF Due, DueIn
<1>3. QED
    BY <1>1, <1>2 DEF Due, DueIn

LEMMA HandleWoken ==
    ASSUME TypeInv, Woken, Handle
    PROVE  Woken'
<1>1. bus # <<>> /\ bus' = Tail(bus) /\ todo["loop"] = <<>>
    BY DEF Handle, PrStatusChanged, RunCompleted, RetryDue, IssueDetected, PrMerged, Receives, Consume
<1>2. \A k \in Due : k \in Due' \/ (Head(bus).type = "RetryDue" /\ k = Head(bus).key)
    BY <1>1, DueTail
<1>3. Scheduled = {}
    BY <1>1, RangeSmall DEF Scheduled, ForLoop
<1>4. CASE PrStatusChanged \/ RunCompleted \/ IssueDetected \/ PrMerged
    <2>1. Head(bus).type # "RetryDue" /\ UNCHANGED timerVars
        BY <1>4 DEF PrStatusChanged, RunCompleted, IssueDetected, PrMerged, Receives
    <2>2. DOMAIN retryQueue' \subseteq DOMAIN retryQueue
        BY <1>4 DEF PrStatusChanged, RunCompleted, IssueDetected, PrMerged, Without, Restrict
    <2>3. QED
        BY <1>2, <1>3, <2>1, <2>2 DEF Woken
<1>5. CASE RetryDue
    <2> DEFINE k == Head(bus).key
    <2>1. armed' = armed \ {k} /\ stray' = IF k \in armed THEN stray \cup {k} ELSE stray
        BY <1>5 DEF RetryDue
    <2>2. CASE k \notin DOMAIN retryQueue \/ AvailableSlots # 0
        <3>1. DOMAIN retryQueue' = DOMAIN retryQueue \ {k}
            BY <1>5, <2>2 DEF RetryDue, Without, Restrict
        <3>2. QED
            BY <1>2, <1>3, <2>1, <3>1 DEF Woken
    <2>3. CASE k \in DOMAIN retryQueue /\ AvailableSlots = 0
        <3> DEFINE e == Effect("schedule", k)
        <3>1. todo'["loop"] = <<e>> /\ retryQueue' = retryQueue
            BY <1>5, <2>3 DEF RetryDue, Deferred, Do, TypeInv, TypeOK, TasksOK, Workers
        <3>2. e.do = "schedule" /\ e.key = k
            BY DEF Effect
        <3> HIDE DEF e
        <3>3. ForLoop' = {e}
            BY <3>1, RangeSmall DEF ForLoop
        <3>4. k \in Scheduled'
            BY <3>2, <3>3 DEF Scheduled
        <3>5. QED
            BY <1>2, <1>3, <2>1, <3>1, <3>4 DEF Woken
    <2>4. QED
        BY <2>2, <2>3
<1>6. QED
    BY <1>4, <1>5 DEF Handle

LEMMA ExecuteWoken ==
    ASSUME TypeInv, TasksInv, TasksInv', Woken, NEW w \in Workers, Execute(w)
    PROVE  Woken'
<1> DEFINE s == todo[w]
           h == Head(s)
<1>1. /\ s # <<>> /\ s \in Seq(EffectType) /\ h \in Range(s)
      /\ \A v \in Workers \ {w} : todo'[v] = todo[v]
    BY ExecuteList
<1>2. /\ Shape(s) /\ h.do \in {"finish", "schedule"} => Tail(s) = <<>>
      /\ Range(s) = {h} \cup Range(Tail(s))
    BY <1>1, RestOfList, RangeTail
<1>3. w = "user" => todo'["loop"] = todo["loop"] /\ h.do \notin {"finish", "schedule", "issue"}
    BY <1>1, ExecuteShape DEF Workers
<1>4. Due \subseteq Due'
    <2>1. CASE bus' = bus
        BY <2>1 DEF Due
    <2>2. CASE StopSession(w)
        <3> DEFINE t == h.tab
        <3>1. CASE t \in live
            <4>1. DOMAIN tabKey = 1..Len(tabKey) /\ Len(tabKey) \in Nat /\ Len(tabKey) <= MaxTabs
                BY LenProperties DEF TypeInv, TypeOK, RmOK
            <4>2. t \in Tabs
                BY <3>1, <4>1, BoundsAssumption DEF TypeInv, TypeOK, RmOK, Tabs
            <4>3. RunComplete(t, "failed") \in EventType
                BY <4>2 DEF RunComplete, EventType, Status
            <4>4. QED
                BY <2>2, <3>1, <4>3, DueAppend DEF StopSession
        <3>2. QED
            BY <2>1, <2>2, <3>1 DEF StopSession
    <2>3. QED
        BY <2>1, <2>2 DEF Execute, IssueTrigger, DispatchFails, EnqueueRun, EnqueueFails, LoadTab,
               RecordRunning, CleanupMetadata, ScheduleRetry, CancelRetry, ApplySessionEnd
<1>5. /\ retryQueue' = retryQueue
         \/ /\ h.do = "finish" /\ DOMAIN retryQueue' = DOMAIN retryQueue \cup {h.key}
            /\ \E e \in EffectType : e.do = "schedule" /\ e.key = h.key /\ todo'[w] = <<e>> \o Tail(s)
    BY ExecuteTables
<1>6. Scheduled \subseteq Scheduled' \/ h.do \in {"finish", "schedule", "issue"} \/ w = "loop"
    BY <1>3 DEF Scheduled, ForLoop, Workers
<1>7. CASE ScheduleRetry(w)
    <2>1. /\ h.do = "schedule" /\ armed' = armed \cup {h.key} /\ stray \subseteq stray'
          /\ retryQueue' = retryQueue
        BY <1>7 DEF ScheduleRetry, Next1, Key
    <2>2. w = "loop" /\ Tail(s) = <<>>
        BY <1>2, <1>3, <2>1 DEF TasksInv, Workers
    <2>3. Scheduled \subseteq {h.key}
        BY <1>2, <2>2, RangeSmall DEF Scheduled, ForLoop
    <2>4. QED
        BY <1>4, <2>1, <2>3 DEF Woken
<1>8. CASE CancelRetry(w)
    <2>1. h.do = "cancel" /\ armed' = armed \ {h.key} /\ stray' = stray /\ retryQueue' = retryQueue
        BY <1>8 DEF CancelRetry, Next1, Key
    <2>2. h.key \notin DOMAIN retryQueue
        BY <1>1, <2>1 DEF TasksInv, LoopClears, UserClears, ForLoop, ForUser, Workers
    <2>3. Scheduled \subseteq Scheduled'
        <3>1. todo'[w] = Tail(s)
            BY <1>8 DEF CancelRetry, Done, Do, TypeInv, TypeOK, TasksOK
        <3>2. w = "loop" => ForLoop \subseteq {h} \cup ForLoop'
            BY <1>2, <3>1 DEF ForLoop
        <3>3. w # "loop" => ForLoop' = ForLoop
            BY <1>3 DEF ForLoop, Workers
        <3>4. QED
            BY <2>1, <3>2, <3>3 DEF Scheduled
    <2>4. QED
        BY <1>4, <2>1, <2>2, <2>3 DEF Woken
<1>9. CASE UNCHANGED timerVars /\ h.do # "schedule"
    <2>1. Scheduled = {} \/ Scheduled \subseteq Scheduled'
        <3>1. CASE w = "user"
            BY <1>3, <3>1 DEF Scheduled, ForLoop
        <3>2. CASE w = "loop"
            <4>1. \A i \in DOMAIN s : s[i].do = "schedule" => Len(s) = 1
                BY <3>2 DEF TasksInv, Shape
            <4>2. s[1] = h /\ DOMAIN s = 1..Len(s)
                BY <1>1, TailIs
            <4>3. \A i \in DOMAIN s : s[i].do # "schedule"
                BY <1>9, <4>1, <4>2
            <4>4. QED
                BY <3>2, <4>3 DEF Scheduled, ForLoop, Range
        <3>3. QED
            BY <3>1, <3>2 DEF Workers
    <2>2. CASE retryQueue' = retryQueue
        BY <1>4, <1>9, <2>1, <2>2 DEF Woken
    <2>3. ASSUME NEW e \in EffectType, h.do = "finish", DOMAIN retryQueue' = DOMAIN retryQueue \cup {h.key},
                 e.do = "schedule", e.key = h.key, todo'[w] = <<e>> \o Tail(s)
          PROVE  Woken'
        <3>1. w = "loop" /\ Tail(s) = <<>>
            BY <1>2, <1>3, <2>3 DEF TasksInv, Workers
        <3>2. e \in ForLoop'
            BY <1>1, <2>3, <3>1, RangeGoesOn DEF ForLoop
        <3>3. h.key \in Scheduled'
            BY <2>3, <3>2 DEF Scheduled
        <3>4. QED
            BY <1>4, <1>9, <2>1, <2>3, <3>3 DEF Woken
    <2>4. QED
        BY <1>5, <2>2, <2>3
<1>10. CASE \/ IssueTrigger(w) \/ DispatchFails(w) \/ EnqueueRun(w) \/ EnqueueFails(w) \/ LoadTab(w)
            \/ RecordRunning(w) \/ StopSession(w) \/ CleanupMetadata(w) \/ ApplySessionEnd(w)
    <2>1. UNCHANGED timerVars /\ h.do # "schedule"
        BY <1>10 DEF IssueTrigger, DispatchFails, EnqueueRun, EnqueueFails, LoadTab, RecordRunning,
                     StopSession, CleanupMetadata, ApplySessionEnd, Next1
    <2>2. QED
        BY <1>9, <2>1
<1>11. QED
    BY <1>7, <1>8, <1>10 DEF Execute

LEMMA WokenStep ==
    ASSUME "lag" \notin Ops, TypeInv, TasksInv, TasksInv', Woken, [Next]_vars
    PROVE  Woken'
<1>1. ASSUME NEW k \in Keys, TimerFires(k) PROVE Woken'
    <2> DEFINE ev == [type |-> "RetryDue", key |-> k]
    <2>1. ev \in EventType /\ ev.type = "RetryDue" /\ ev.key = k
        BY DEF EventType
    <2>2. bus' = Append(bus, ev)
        BY <1>1 DEF TimerFires
    <2> HIDE DEF ev
    <2>3. Due \subseteq Due' /\ k \in Due'
        BY <2>1, <2>2, DueAppend
    <2>4. Scheduled' = Scheduled /\ retryQueue' = retryQueue
        BY <1>1 DEF TimerFires, Scheduled, ForLoop
    <2>5. armed \cup stray \subseteq armed' \cup stray' \cup {k}
        BY <1>1 DEF TimerFires
    <2>6. QED
        BY <2>3, <2>4, <2>5 DEF Woken
<1>2. ASSUME Due \subseteq Due', UNCHANGED <<timerVars, todo["loop"]>>,
             DOMAIN retryQueue' \subseteq DOMAIN retryQueue
      PROVE  Woken'
    BY <1>2 DEF Woken, Scheduled, ForLoop
<1>3. CASE User
    <2>1. bus' = bus /\ UNCHANGED timerVars /\ DOMAIN retryQueue' \subseteq DOMAIN retryQueue
        BY <1>3 DEF User, ApplyRelaunch, ApplySkip, Without, Restrict
    <2>2. \E l : Do("user", l)
        BY <1>3 DEF User, ApplyRelaunch, ApplySkip
    <2>3. todo'["loop"] = todo["loop"]
        BY <2>2 DEF Do, TypeInv, TypeOK, TasksOK, Workers
    <2>4. QED
        BY <1>2, <2>1, <2>3 DEF Due
<1>4. CASE RunManager \/ Github \/ UNCHANGED vars
    <2>1. UNCHANGED <<todo, retryQueue, timerVars>>
        BY <1>4 DEF RunManager, RmPop, RmLaunch, RmRefuse, AgentWrites, RunEnds, Approve,
                    Github, Push, PollMerges, PrChanges, PollPrs, PollIssues, vars
    <2>2. bus' = bus \/ \E ev \in EventType : bus' = Append(bus, ev)
        <3>1. ASSUME NEW t \in Tabs, NEW status \in Status PROVE RunComplete(t, status) \in EventType
            BY DEF RunComplete, EventType
        <3>2. \A k \in Prs : [type |-> "PrMerged", key |-> k] \in EventType
            BY DEF EventType
        <3>3. [type |-> "PrStatusChanged", prs |-> Snapshot] \in EventType
            BY DEF EventType, Snapshot
        <3>4. [type |-> "IssueDetected"] \in EventType
            BY DEF EventType
        <3>5. CASE RunManager
            BY <3>1, <3>5 DEF RunManager, RmPop, RmLaunch, RmRefuse, AgentWrites, RunEnds, Approve
        <3>6. CASE Github
            BY <3>2, <3>3, <3>4, <3>6 DEF Github, Push, PollMerges, PrChanges, PollPrs, PollIssues
        <3>7. QED
            BY <1>4, <3>5, <3>6 DEF vars
    <2>3. Due \subseteq Due'
        BY <2>2, DueAppend DEF Due
    <2>4. QED
        BY <1>2, <2>1, <2>3
<1>5. ~BusLags
    BY DEF BusLags
<1>6. QED
    BY <1>1, <1>3, <1>4, <1>5, HandleWoken, ExecuteWoken DEF Next

-----------------------------------------------------------------------------
(* The theorem                                                             *)

LEMMA RetryInit == Init => RetryInv
<1> SUFFICES ASSUME Init PROVE RetryInv
    OBVIOUS
<1>1. todo["loop"] = <<>> /\ todo["user"] = <<>> /\ bus = <<>> /\ DOMAIN <<>> = {}
    BY DEF Init, Workers
<1>2. ForLoop = {} /\ ForUser = {}
    BY <1>1, RangeSmall DEF ForLoop, ForUser
<1>3. TasksInv
    BY <1>1, <1>2 DEF TasksInv, Shape, UserShape, LoopClears, UserClears
<1>4. MergeInv
    BY <1>1 DEF MergeInv, Init
<1>5. RetryWoken
    BY DEF RetryWoken, Init, Nothing
<1>6. QED
    BY <1>3, <1>4, <1>5, InitTyped DEF RetryInv

LEMMA RetryStep == "lag" \notin Ops /\ RetryInv /\ [Next]_vars => RetryInv'
<1> SUFFICES ASSUME "lag" \notin Ops, RetryInv, [Next]_vars PROVE RetryInv'
    OBVIOUS
<1>1. TypeInv' /\ TasksInv' /\ MergeInv'
    BY StepTyped, TasksStep, MergeStep DEF RetryInv
<1>2. Woken
    BY WokenIs DEF RetryInv, TasksInv
<1>3. Woken'
    BY <1>1, <1>2, WokenStep DEF RetryInv
<1>4. RetryWoken'
    BY <1>1, <1>3, WokenIsNext DEF TasksInv
<1>5. QED
    BY <1>1, <1>4 DEF RetryInv

\* No retry of the queue is left without a timer to wake it, whoever relaunches,
\* skips, closes or merges pull requests meanwhile, as long as the bus loses no
\* event (apply_retry_due, ScheduleRetry and CancelRetry of execute_effects).
THEOREM RetriesWoken ==
    ASSUME "lag" \notin Ops
    PROVE  Spec => []RetryWoken
<1>1. RetryInv => RetryWoken
    BY DEF RetryInv
<1>2. RetryInv /\ [Next]_vars => RetryInv'
    BY RetryStep
<1>3. QED
    BY <1>1, <1>2, RetryInit, PTL DEF Spec

-----------------------------------------------------------------------------
(* Closed pull requests are forgotten                                      *)

\* The pull requests the orchestrator has at work, or will have.
Engaged  == DOMAIN running \cup DOMAIN retryQueue \cup {e.key : e \in {x \in UnderWay : Starts(x)}}
IsList(e) == e.type = "PrStatusChanged"
Quiet    == \A i \in DOMAIN bus : ~IsList(bus[i])

\* Without relaunches, users leave nothing but the sessions they stop.
UserStops == \A e \in ForUser : e.do = "stop"

\* The last list on its way to the loop lacks what the poller saw closed; when
\* the loop has handled it, nobody works on these.
ClosedInv ==
    /\ \A i \in DOMAIN bus : IsList(bus[i]) /\ (\A j \in DOMAIN bus : j > i => ~IsList(bus[j]))
          => \A k \in GonePrs : bus[i].prs[k] = "closed"
    /\ Quiet => GonePrs \cap Engaged = {}

ForgottenInv == TypeInv /\ TasksInv /\ MergeInv /\ UserStops /\ ClosedInv

LEMMA EngagedIs ==
    ASSUME UserStops
    PROVE  Engaged = DOMAIN running \cup DOMAIN retryQueue \cup {e.key : e \in {x \in ForLoop : Starts(x)}}
<1>1. UnderWay = ForLoop \cup ForUser
    BY DEF UnderWay, ForLoop, ForUser, Workers
<1>2. QED
    BY <1>1 DEF Engaged, UserStops, Starts

LEMMA EngagedIsNext ==
    ASSUME UserStops'
    PROVE  Engaged' = DOMAIN running' \cup DOMAIN retryQueue' \cup {e.key : e \in {x \in ForLoop' : Starts(x)}}
<1>1. UnderWay' = ForLoop' \cup ForUser'
    BY DEF UnderWay, ForLoop, ForUser, Workers
<1>2. QED
    BY <1>1 DEF Engaged, UserStops, Starts

LEMMA StopsStep ==
    ASSUME "relaunch" \notin Ops, TypeInv, TasksInv, UserStops, [Next]_vars
    PROVE  UserStops'
<1> USE DEF TypeInv, TypeOK
<1>1. ASSUME todo'["user"] = todo["user"] PROVE UserStops'
    BY <1>1 DEF UserStops, ForUser
<1>2. CASE RunManager \/ Github \/ BusLags \/ (\E k \in Keys : TimerFires(k)) \/ UNCHANGED vars
    BY <1>1, <1>2 DEF RunManager, RmPop, RmLaunch, RmRefuse, AgentWrites, RunEnds, Approve,
                Github, Push, PollMerges, PrChanges, PollPrs, PollIssues, BusLags, TimerFires, vars
<1>3. CASE Handle
    <2>1. UNCHANGED todo \/ \E s : Do("loop", s)
        BY <1>3 DEF Handle, PrStatusChanged, RunCompleted, RetryDue, IssueDetected, PrMerged
    <2>2. todo'["user"] = todo["user"]
        BY <2>1 DEF Do, TasksOK, Workers
    <2>3. QED
        BY <1>1, <2>2
<1>4. CASE User
    <2>1. PICK k \in Prs : ApplySkip(k)
        BY <1>4 DEF User, ApplyRelaunch, UserCalls
    <2>2. todo'["user"] = <<Stop("stop", k)>> \/ todo'["user"] = <<>>
        BY <2>1 DEF ApplySkip, Do, TasksOK, Workers
    <2>3. Stop("stop", k).do = "stop"
        BY DEF Stop, Effect
    <2>4. ForUser' \subseteq {Stop("stop", k)}
        BY <2>2, RangeSmall DEF ForUser
    <2>5. QED
        BY <2>3, <2>4 DEF UserStops
<1>5. ASSUME NEW w \in Workers, Execute(w) PROVE UserStops'
    <2> DEFINE h == Head(todo[w])
    <2>1. /\ \A e \in Range(todo'[w]) : e \in Range(Tail(todo[w])) \/ GoesOn(h, e)
          /\ Range(Tail(todo[w])) \subseteq Range(todo[w])
        BY <1>5, ExecuteShape
    <2>2. h \in Range(todo[w]) /\ \A v \in Workers \ {w} : todo'[v] = todo[v]
        BY <1>5, ExecuteList
    <2>3. QED
        BY <1>1, <2>1, <2>2 DEF UserStops, ForUser, GoesOn, Starts, Workers
<1>6. QED
    BY <1>2, <1>3, <1>4, <1>5 DEF Next

\* No step but a list of pull requests has the orchestrator take up one of them.
LEMMA EngagedStep ==
    ASSUME "relaunch" \notin Ops, TypeInv, TasksInv, MergeInv, UserStops, UserStops', [Next]_vars,
           ~PrStatusChanged
    PROVE  Engaged' \cap Prs \subseteq Engaged
<1> USE DEF TypeInv, TypeOK
<1>1. /\ Engaged = DOMAIN running \cup DOMAIN retryQueue \cup {e.key : e \in {x \in ForLoop : Starts(x)}}
      /\ Engaged' = DOMAIN running' \cup DOMAIN retryQueue' \cup {e.key : e \in {x \in ForLoop' : Starts(x)}}
    BY EngagedIs, EngagedIsNext
<1>2. ASSUME DOMAIN running' \subseteq DOMAIN running, DOMAIN retryQueue' \subseteq DOMAIN retryQueue,
             \A e \in ForLoop' : Starts(e) => e.key \in Engaged \/ e.key \notin Prs
      PROVE  Engaged' \cap Prs \subseteq Engaged
    BY <1>1, <1>2
<1>3. CASE RunManager \/ Github \/ BusLags \/ (\E k \in Keys : TimerFires(k)) \/ UNCHANGED vars
    <2>1. UNCHANGED <<running, retryQueue, todo>>
        BY <1>3 DEF RunManager, RmPop, RmLaunch, RmRefuse, AgentWrites, RunEnds, Approve,
                Github, Push, PollMerges, PrChanges, PollPrs, PollIssues, BusLags, TimerFires, vars
    <2>2. QED
        BY <1>1, <2>1 DEF ForLoop
<1>4. CASE User
    <2>1. PICK k \in Prs : ApplySkip(k)
        BY <1>4 DEF User, ApplyRelaunch, UserCalls
    <2>2. ForLoop' = ForLoop
        BY <2>1 DEF ApplySkip, Do, TasksOK, Workers, ForLoop
    <2>3. QED
        BY <1>1, <1>2, <2>1, <2>2 DEF ApplySkip, Without, Restrict
<1>5. CASE Handle
    <2>0. bus # <<>> /\ todo["loop"] = <<>> /\ ForLoop = {}
        <3>1. bus # <<>> /\ todo["loop"] = <<>>
            BY <1>5 DEF Handle, PrStatusChanged, RunCompleted, RetryDue, IssueDetected, PrMerged, Receives
        <3>2. QED
            BY <3>1, RangeSmall DEF ForLoop
    <2>1. \A l : Do("loop", l) => ForLoop' = Range(l)
        BY DEF Do, TasksOK, Workers, ForLoop
    <2>2. CASE RunCompleted
        <3>1. UNCHANGED orchVars
            BY <2>2 DEF RunCompleted
        <3>2. ASSUME NEW k, Do("loop", <<[Effect("finish", k) EXCEPT !.status = Head(bus).status]>>)
              PROVE  \A e \in ForLoop' : ~Starts(e)
            <4> DEFINE e == [Effect("finish", k) EXCEPT !.status = Head(bus).status]
            <4>1. e.do = "finish" /\ Do("loop", <<e>>)
                BY <3>2 DEF Effect
            <4> HIDE DEF e
            <4>2. QED
                BY <2>1, <4>1, RangeSmall DEF Starts
        <3>3. UNCHANGED todo => ForLoop' = {}
            BY <2>0 DEF ForLoop
        <3>4. \A e \in ForLoop' : ~Starts(e)
            BY <2>2, <3>2, <3>3 DEF RunCompleted
        <3>5. QED
            BY <1>2, <3>1, <3>4
    <2>3. CASE RetryDue
        <3> DEFINE k == Head(bus).key
        <3>1. running' = running /\ DOMAIN retryQueue' \subseteq DOMAIN retryQueue
            BY <2>3 DEF RetryDue, Without, Restrict
        <3>2. \/ UNCHANGED todo \/ Do("loop", <<Effect("schedule", k)>>)
              \/ k \in DOMAIN retryQueue /\ Do("loop", <<Dispatch(k, retryQueue[k])>>)
            BY <2>3 DEF RetryDue, Deferred
        <3>3. Effect("schedule", k).do = "schedule" /\ Dispatch(k, retryQueue[k]).key = k
            BY DEF Effect, Dispatch
        <3>4. UNCHANGED todo => ForLoop' = {}
            BY <2>0 DEF ForLoop
        <3>5. \A e \in ForLoop' : Starts(e) => e.key \in DOMAIN retryQueue
            BY <2>1, <3>2, <3>3, <3>4, RangeSmall DEF Starts
        <3>6. QED
            BY <1>1, <1>2, <3>1, <3>5
    <2>4. CASE IssueDetected
        <3> DEFINE new == Issues \ (claimed \cup completed)
        <3>1. PICK order \in Orders(new) :
                Do("loop", [i \in DOMAIN order |-> [Effect("issue", order[i]) EXCEPT !.batch = new]])
            BY <2>4 DEF IssueDetected
        <3>2. ForLoop' = Range([i \in DOMAIN order |-> [Effect("issue", order[i]) EXCEPT !.batch = new]])
            BY <2>1, <3>1
        <3>3. \A i : [Effect("issue", order[i]) EXCEPT !.batch = new].do = "issue"
            BY DEF Effect
        <3>4. \A e \in ForLoop' : ~Starts(e)
            BY <3>2, <3>3 DEF Range, Starts
        <3>5. UNCHANGED <<running, retryQueue>>
            BY <2>4 DEF IssueDetected
        <3>6. QED
            BY <1>2, <3>4, <3>5
    <2>5. CASE PrMerged
        <3> DEFINE k == Head(bus).key
                   e == Dispatch(Rescore(k), 1)
        <3>1. k \in Prs /\ Rescore(k) \notin Prs
            BY <2>0, <2>5, EventFields, KeyAssumption DEF PrMerged, Receives
        <3>2. e.key = Rescore(k)
            BY DEF Dispatch, Effect
        <3>3. Do("loop", <<e>>) \/ Do("loop", <<>>)
            BY <2>5 DEF PrMerged
        <3>4. DOMAIN running' \subseteq DOMAIN running /\ DOMAIN retryQueue' \subseteq DOMAIN retryQueue
            BY <2>5 DEF PrMerged, Without, Restrict
        <3> HIDE DEF e
        <3>5. ForLoop' \subseteq {e}
            BY <2>1, <3>3, RangeSmall
        <3>6. QED
            BY <1>2, <3>1, <3>2, <3>4, <3>5
    <2>6. QED
        BY <1>5, <2>2, <2>3, <2>4, <2>5 DEF Handle
<1>6. ASSUME NEW w \in Workers, Execute(w) PROVE Engaged' \cap Prs \subseteq Engaged
    <2> DEFINE h == Head(todo[w])
    <2>1. /\ \A e \in Range(todo'[w]) : e \in Range(Tail(todo[w])) \/ GoesOn(h, e)
          /\ Range(Tail(todo[w])) \subseteq Range(todo[w])
        BY <1>6, ExecuteShape
    <2>2. h \in Range(todo[w]) /\ \A v \in Workers \ {w} : todo'[v] = todo[v]
        BY <1>6, ExecuteList
    <2>3. /\ retryQueue' = retryQueue \/ (h.key \in DOMAIN running
                                          /\ DOMAIN retryQueue' = DOMAIN retryQueue \cup {h.key})
          /\ DOMAIN running' \subseteq DOMAIN running \/ (Starts(h) /\ DOMAIN running' \subseteq DOMAIN running \cup {h.key})
        BY <1>6, ExecuteTables
    <2> HIDE DEF h
    <2>4. w = "user" => ~Starts(h) /\ ForLoop' = ForLoop
        BY <2>2 DEF UserStops, ForUser, ForLoop, Starts, Workers
    <2>5. w = "loop" => h \in ForLoop /\ \A e \in ForLoop' : e \in ForLoop \/ GoesOn(h, e)
        BY <2>1, <2>2 DEF ForLoop
    <2>6. w = "loop" /\ h.do = "issue" => h.key \notin Prs
        BY <2>5, KeyAssumption DEF TasksInv, Shape, ForLoop, Range
    <2>7. Starts(h) => h.key \in Engaged
        BY <1>1, <2>4, <2>5 DEF Workers
    <2>8. \A e \in ForLoop' : Starts(e) => e.key \in Engaged \/ e.key \notin Prs
        BY <1>1, <2>4, <2>5, <2>6, <2>7 DEF GoesOn, Starts, Workers
    <2>9. QED
        BY <1>1, <2>3, <2>7, <2>8
<1>7. QED
    BY <1>3, <1>4, <1>5, <1>6 DEF Next

\* The list itself leaves nobody at work on what it lacks.
LEMMA ListForgets ==
    ASSUME TypeInv, UserStops', PrStatusChanged,
           NEW k \in Prs, Head(bus).prs[k] = "closed"
    PROVE  k \notin Engaged'
<1> DEFINE prs == Head(bus).prs
           gone == StaleRunning(prs)
           dropped == StaleRetries(prs)
<1>1. k \in Closed(prs)
    BY DEF Closed, Keys
<1>2. DOMAIN running' = DOMAIN running \ gone /\ DOMAIN retryQueue' = DOMAIN retryQueue \ (gone \cup dropped)
    BY DEF PrStatusChanged, Without, Restrict
<1>3. k \notin DOMAIN running' /\ k \notin DOMAIN retryQueue'
    BY <1>1, <1>2 DEF StaleRunning, StaleRetries
<1>4. PICK D \in Chosen(prs) : \A e \in ForLoop' : Starts(e) => e.key \in D
    BY ListHandled
<1>5. k \notin D
    BY KeyAssumption DEF Chosen, Candidates, OpenState
<1>6. QED
    BY <1>3, <1>4, <1>5, EngagedIsNext

LEMMA ClosedStep ==
    ASSUME "lag" \notin Ops, "relaunch" \notin Ops, ForgottenInv, UserStops', [Next]_vars
    PROVE  ClosedInv'
<1> USE DEF ForgottenInv
<1>a. bus \in Seq(EventType)
    BY DEF TypeInv, TypeOK, TasksOK
<1>1. CASE PrStatusChanged
    <2>1. bus # <<>> /\ bus' = Tail(bus) /\ GonePrs' = GonePrs /\ IsList(Head(bus))
        BY <1>1 DEF PrStatusChanged, Receives, Consume, GonePrs, IsList
    <2>2. /\ Head(bus) = bus[1] /\ 1 \in DOMAIN bus /\ DOMAIN bus \subseteq Nat /\ DOMAIN bus' \subseteq Nat
          /\ \A i \in DOMAIN bus' : i + 1 \in DOMAIN bus /\ bus'[i] = bus[i + 1]
          /\ \A j \in DOMAIN bus \ {1} : j - 1 \in DOMAIN bus' /\ bus'[j - 1] = bus[j]
          /\ DOMAIN bus = 1..Len(bus) /\ Len(bus) \in Nat
        BY <1>a, <2>1, BusTail
    <2>3. ASSUME NEW i \in DOMAIN bus', IsList(bus'[i]), \A j \in DOMAIN bus' : j > i => ~IsList(bus'[j])
          PROVE  \A k \in GonePrs' : bus'[i].prs[k] = "closed"
        <3>1. ASSUME NEW j \in DOMAIN bus, j > i + 1 PROVE ~IsList(bus[j])
            BY <2>2, <2>3, <3>1
        <3>2. QED
            BY <2>1, <2>2, <2>3, <3>1 DEF ClosedInv
    <2>4. ASSUME Quiet' PROVE GonePrs' \cap Engaged' = {}
        <3>1. \A j \in DOMAIN bus : j > 1 => ~IsList(bus[j])
            BY <2>2, <2>4 DEF Quiet
        <3>2. \A k \in GonePrs : Head(bus).prs[k] = "closed"
            BY <2>1, <2>2, <3>1 DEF ClosedInv
        <3>3. QED
            BY <1>1, <2>1, <3>2, ListForgets DEF GonePrs
    <2>5. QED
        BY <2>3, <2>4 DEF ClosedInv
<1>2. CASE PollPrs
    <2> DEFINE ev == [type |-> "PrStatusChanged", prs |-> Snapshot]
    <2>1. ev \in EventType /\ IsList(ev) /\ ev.prs = Snapshot
        BY DEF EventType, Snapshot, IsList
    <2>2. bus' = Append(bus, ev) /\ polled' = Snapshot
        BY <1>2 DEF PollPrs
    <2> HIDE DEF ev
    <2>3. /\ bus'[Len(bus) + 1] = ev /\ DOMAIN bus' = 1..(Len(bus) + 1) /\ Len(bus) \in Nat
        BY <1>a, <2>1, <2>2, BusAppend
    <2>4. \A i \in DOMAIN bus' : (\A j \in DOMAIN bus' : j > i => ~IsList(bus'[j])) => bus'[i] = ev
        BY <2>1, <2>3
    <2>5. ~Quiet'
        BY <2>1, <2>3 DEF Quiet
    <2>6. QED
        BY <2>1, <2>2, <2>4, <2>5 DEF ClosedInv, GonePrs
<1>3. ASSUME ~PrStatusChanged, GonePrs' \subseteq GonePrs,
             \/ bus' = bus
             \/ \E ev \in EventType : bus' = Append(bus, ev) /\ ~IsList(ev)
             \/ bus # <<>> /\ bus' = Tail(bus) /\ ~IsList(Head(bus))
      PROVE  ClosedInv'
    <2>1. Engaged' \cap Prs \subseteq Engaged
        BY <1>3, EngagedStep
    <2>2. GonePrs \subseteq Prs
        BY DEF GonePrs
    <2>3. CASE bus' = bus
        BY <1>3, <2>1, <2>2, <2>3 DEF ClosedInv, Quiet
    <2>4. ASSUME NEW ev \in EventType, bus' = Append(bus, ev), ~IsList(ev) PROVE ClosedInv'
        <3>1. /\ bus'[Len(bus) + 1] = ev
              /\ \A i \in DOMAIN bus : i \in DOMAIN bus' /\ bus'[i] = bus[i]
              /\ \A i \in DOMAIN bus' : i \in DOMAIN bus \/ i = Len(bus) + 1
            BY <1>a, <2>4, BusAppend
        <3>2. Quiet' => Quiet
            BY <3>1 DEF Quiet
        <3>3. \A i \in DOMAIN bus' : IsList(bus'[i]) => i \in DOMAIN bus
            BY <2>4, <3>1
        <3>4. \A i \in DOMAIN bus' : IsList(bus'[i]) /\ (\A j \in DOMAIN bus' : j > i => ~IsList(bus'[j]))
                 => \A k \in GonePrs' : bus'[i].prs[k] = "closed"
            BY <1>3, <3>1, <3>3 DEF ClosedInv
        <3>5. QED
            BY <1>3, <2>1, <2>2, <3>2, <3>4 DEF ClosedInv
    <2>5. ASSUME bus # <<>>, bus' = Tail(bus), ~IsList(Head(bus)) PROVE ClosedInv'
        <3>1. /\ Head(bus) = bus[1] /\ DOMAIN bus \subseteq Nat /\ DOMAIN bus' \subseteq Nat
              /\ \A i \in DOMAIN bus' : i + 1 \in DOMAIN bus /\ bus'[i] = bus[i + 1]
              /\ \A j \in DOMAIN bus \ {1} : j - 1 \in DOMAIN bus' /\ bus'[j - 1] = bus[j]
              /\ DOMAIN bus = 1..Len(bus) /\ Len(bus) \in Nat
            BY <1>a, <2>5, BusTail
        <3>2. Quiet' => Quiet
            BY <2>5, <3>1 DEF Quiet
        <3>3. ASSUME NEW i \in DOMAIN bus', IsList(bus'[i]), \A j \in DOMAIN bus' : j > i => ~IsList(bus'[j])
              PROVE  \A k \in GonePrs' : bus'[i].prs[k] = "closed"
            <4>1. ASSUME NEW j \in DOMAIN bus, j > i + 1 PROVE ~IsList(bus[j])
                BY <3>1, <3>3, <4>1
            <4>2. QED
                BY <1>3, <3>1, <3>3, <4>1 DEF ClosedInv
        <3>4. QED
            BY <1>3, <2>1, <2>2, <3>2, <3>3 DEF ClosedInv
    <2>6. QED
        BY <1>3, <2>3, <2>4, <2>5
<1>4. CASE Handle
    <2>1. CASE PrStatusChanged
        BY <1>1, <2>1
    <2>2. CASE ~PrStatusChanged
        <3>1. bus # <<>> /\ bus' = Tail(bus) /\ GonePrs' = GonePrs /\ ~IsList(Head(bus))
            BY <1>4, <2>2 DEF Handle, RunCompleted, RetryDue, IssueDetected, PrMerged, Receives, Consume,
                              GonePrs, IsList
        <3>2. QED
            BY <1>3, <2>2, <3>1
    <2>3. QED
        BY <2>1, <2>2
<1>5. CASE ~Handle /\ ~PollPrs
    <2>0. ~PrStatusChanged /\ ~BusLags
        BY <1>5 DEF Handle, BusLags
    <2>1. GonePrs' \subseteq GonePrs
        <3>1. CASE polled' = polled
            BY <3>1 DEF GonePrs
        <3>2. ASSUME NEW k \in Prs, Push(k) PROVE GonePrs' \subseteq GonePrs
            <4>1. polled' = [polled EXCEPT ![k] = "outdated"]
                BY <3>2 DEF Push
            <4>2. QED
                BY <4>1 DEF GonePrs, TypeInv, TypeOK, GithubOK
        <3>3. (\E k \in Prs : Push(k)) \/ polled' = polled
            BY <1>5, <2>0 DEF Next, User, ApplyRelaunch, ApplySkip, RunManager, RmPop, RmLaunch, RmRefuse,
                  AgentWrites, RunEnds, Approve, Github, PollMerges, PrChanges, PollIssues, TimerFires,
                  Execute, IssueTrigger, DispatchFails, EnqueueRun, EnqueueFails, LoadTab, RecordRunning,
                  StopSession, CleanupMetadata, ScheduleRetry, CancelRetry, ApplySessionEnd, vars
        <3>4. QED
            BY <3>1, <3>2, <3>3
    <2>2. bus' = bus \/ \E ev \in EventType : bus' = Append(bus, ev) /\ ~IsList(ev)
        <3>1. \A t \in Tabs, status \in Status : RunComplete(t, status) \in EventType /\ ~IsList(RunComplete(t, status))
            BY DEF RunComplete, EventType, IsList
        <3>2. \A k \in Prs : [type |-> "PrMerged", key |-> k] \in EventType /\ ~IsList([type |-> "PrMerged", key |-> k])
            BY DEF EventType, IsList
        <3>3. \A k \in Keys : [type |-> "RetryDue", key |-> k] \in EventType /\ ~IsList([type |-> "RetryDue", key |-> k])
            BY DEF EventType, IsList
        <3>4. [type |-> "IssueDetected"] \in EventType /\ ~IsList([type |-> "IssueDetected"])
            BY DEF EventType, IsList
        <3>5. CASE RunManager
            BY <3>1, <3>5 DEF RunManager, RmPop, RmLaunch, RmRefuse, AgentWrites, RunEnds, Approve
        <3>6. CASE Github
            BY <1>5, <3>2, <3>4, <3>6 DEF Github, Push, PollMerges, PrChanges, PollIssues
        <3>7. CASE \E k \in Keys : TimerFires(k)
            BY <3>3, <3>7 DEF TimerFires
        <3>8. CASE User \/ UNCHANGED vars
            BY <3>8 DEF User, ApplyRelaunch, ApplySkip, vars
        <3>9. ASSUME NEW w \in Workers, StopSession(w)
              PROVE  bus' = bus \/ \E ev \in EventType : bus' = Append(bus, ev) /\ ~IsList(ev)
            <4> DEFINE t == Head(todo[w]).tab
            <4>1. bus' = bus \/ (t \in live /\ bus' = Append(bus, RunComplete(t, "failed")))
                BY <3>9 DEF StopSession
            <4>2. t \in live => t \in Tabs
                <5>1. DOMAIN tabKey = 1..Len(tabKey) /\ Len(tabKey) \in Nat /\ Len(tabKey) <= MaxTabs
                    BY LenProperties DEF TypeInv, TypeOK, RmOK
                <5>2. QED
                    BY <5>1, BoundsAssumption DEF TypeInv, TypeOK, RmOK, Tabs
            <4>3. QED
                BY <3>1, <4>1, <4>2 DEF Status
        <3>10. CASE \E w \in Workers : Execute(w)
            BY <3>9, <3>10 DEF Execute, IssueTrigger, DispatchFails, EnqueueRun, EnqueueFails, LoadTab,
                  RecordRunning, CleanupMetadata, ScheduleRetry, CancelRetry, ApplySessionEnd
        <3>11. QED
            BY <1>5, <2>0, <3>5, <3>6, <3>7, <3>8, <3>10 DEF Next
    <2>3. QED
        BY <1>3, <2>0, <2>1, <2>2
<1>6. QED
    BY <1>2, <1>4, <1>5

LEMMA ForgottenInit == Init => ForgottenInv
<1> SUFFICES ASSUME Init PROVE ForgottenInv
    OBVIOUS
<1>1. TypeInv /\ TasksInv /\ MergeInv
    BY RetryInit DEF RetryInv
<1>2. ForLoop = {} /\ UserStops /\ bus = <<>> /\ DOMAIN <<>> = {}
    BY RangeSmall DEF Init, ForLoop, ForUser, UserStops, Workers
<1>3. Engaged = {}
    BY <1>2, EngagedIs DEF Init, Nothing
<1>4. QED
    BY <1>1, <1>2, <1>3 DEF ForgottenInv, ClosedInv

LEMMA ForgottenStep ==
    "lag" \notin Ops /\ "relaunch" \notin Ops /\ ForgottenInv /\ [Next]_vars => ForgottenInv'
<1> SUFFICES ASSUME "lag" \notin Ops, "relaunch" \notin Ops, ForgottenInv, [Next]_vars PROVE ForgottenInv'
    OBVIOUS
<1>1. TypeInv' /\ TasksInv' /\ MergeInv' /\ UserStops'
    BY StepTyped, TasksStep, MergeStep, StopsStep DEF ForgottenInv
<1>2. QED
    BY <1>1, ClosedStep DEF ForgottenInv

\* Once the loop has handled the list that lacks it, no closed pull request has
\* a session or a retry, whatever timers and completions are late, where no
\* event is lost and nobody relaunches by hand (apply_reconciliation).
THEOREM ClosedAreForgotten ==
    ASSUME "lag" \notin Ops, "relaunch" \notin Ops
    PROVE  Spec => []ClosedForgotten
<1>1. ForgottenInv => ClosedForgotten
    BY DEF ForgottenInv, ClosedInv, ClosedForgotten, CaughtUp, Quiet, IsList, Engaged
<1>2. ForgottenInv /\ [Next]_vars => ForgottenInv'
    BY ForgottenStep
<1>3. QED
    BY <1>1, <1>2, ForgottenInit, PTL DEF Spec

-----------------------------------------------------------------------------
(* The ends of sessions are noticed                                        *)

\* A tab id that is recorded for a key, on disk, by an effect or in the table,
\* is of a session of that key, or a fresh one: no two keys share a session.
Of(keys, t, k) == t = NoTab \/ (t \in DOMAIN keys /\ keys[t] = k)
TabsInv ==
    /\ \A k \in Keys : Of(tabKey, runJson[k], k)
    /\ \A k \in DOMAIN running : Of(tabKey, running[k].tab, k)
    /\ \A e \in UnderWay : e.do = "record" => Of(tabKey, e.tab, e.key)

NoticeInv == TypeInv /\ TasksInv /\ MergeInv /\ TabsInv

\* The sessions that have ended, as far as the loop has still to learn.
EndedTabs == {bus[i].tab : i \in {j \in DOMAIN bus : bus[j].type = "RunComplete"}}
Finishing == {e.key : e \in {x \in ForLoop : x.do = "finish"}}
Noticed(k) == running[k].tab \in live \cup EndedTabs \/ k \in Finishing

LEMMA FollowedIs == UserShape => \A k \in Keys : Followed(k) <=> Noticed(k)
<1> SUFFICES ASSUME UserShape, NEW k \in Keys PROVE Followed(k) <=> Noticed(k)
    OBVIOUS
<1>1. UnderWay = ForLoop \cup ForUser
    BY DEF UnderWay, ForLoop, ForUser, Workers
<1>2. \A e \in ForUser : e.do # "finish"
    BY DEF UserShape
<1>3. /\ k \in Finishing <=> \E e \in UnderWay : e.do = "finish" /\ e.key = k
      /\ \A t : t \in EndedTabs <=> \E i \in DOMAIN bus : bus[i].type = "RunComplete" /\ bus[i].tab = t
    BY <1>1, <1>2 DEF Finishing, EndedTabs
<1>4. QED
    BY <1>3 DEF Followed, Noticed

LEMMA FollowedIsNext == UserShape' => (\A k \in Keys : Followed(k) <=> Noticed(k))'
BY FollowedIs, PTL

LEMMA EndedAppend ==
    ASSUME TypeInv, NEW ev \in EventType, bus' = Append(bus, ev)
    PROVE  /\ EndedTabs \subseteq EndedTabs'
           /\ ev.type = "RunComplete" => ev.tab \in EndedTabs'
<1> DEFINE n == Len(bus) + 1
<1>1. /\ bus'[n] = ev /\ n \in DOMAIN bus'
      /\ \A i \in DOMAIN bus : i \in DOMAIN bus' /\ bus'[i] = bus[i]
    BY BusAppend DEF TypeInv, TypeOK, TasksOK
<1> HIDE DEF n
<1>2. QED
    BY <1>1 DEF EndedTabs

LEMMA EndedTail ==
    ASSUME TypeInv, bus # <<>>, bus' = Tail(bus)
    PROVE  \A t \in EndedTabs : t \in EndedTabs' \/ (Head(bus).type = "RunComplete" /\ t = Head(bus).tab)
<1>1. /\ Head(bus) = bus[1]
      /\ \A j \in DOMAIN bus \ {1} : j - 1 \in DOMAIN bus' /\ bus'[j - 1] = bus[j]
    BY BusTail DEF TypeInv, TypeOK, TasksOK
<1>2. ASSUME NEW j \in DOMAIN bus, bus[j].type = "RunComplete", j # 1 PROVE bus[j].tab \in EndedTabs'
    <2>1. PICK i \in DOMAIN bus' : bus'[i] = bus[j]
        BY <1>1, <1>2
    <2>2. bus'[i].type = "RunComplete"
        BY <1>2, <2>1
    <2>3. bus'[i].tab \in EndedTabs'
        BY <2>1, <2>2 DEF EndedTabs
    <2>4. QED
        BY <2>1, <2>3
<1>3. QED
    BY <1>1, <1>2 DEF EndedTabs

-----------------------------------------------------------------------------
(* Whose session a tab id is                                               *)

\* Only the loading of run.json makes an effect that records.
LEMMA ExecuteRecords ==
    ASSUME TypeInv, NEW w \in Workers, Execute(w), NEW e \in UnderWay', e.do = "record"
    PROVE  e \in UnderWay \/ (e.key \in Keys /\ e.tab = runJson[e.key])
<1> DEFINE s == todo[w]
           h == Head(s)
<1>1. /\ s # <<>> /\ s \in Seq(EffectType) /\ h \in Range(s) /\ h.key \in Keys
      /\ \A v \in Workers \ {w} : todo'[v] = todo[v]
    BY ExecuteList
<1>2. h \in EffectType /\ Range(s) = {h} \cup Range(Tail(s)) /\ Tail(s) \in Seq(EffectType)
    BY <1>1, RangeTail, HeadTyped, TailIs
<1>3. CASE \E v \in Workers \ {w} : e \in Range(todo'[v])
    BY <1>1, <1>3 DEF UnderWay
<1>4. CASE e \in Range(todo'[w])
    <2>1. Range(s) \subseteq UnderWay
        BY DEF UnderWay
    <2>2. ASSUME NEW l, Do(w, l) PROVE todo'[w] = l
        BY <2>2 DEF Do, TypeInv, TypeOK, TasksOK
    <2>3. CASE Done(w) \/ Do(w, <<>>)
        BY <1>2, <1>4, <2>1, <2>2, <2>3, RangeSmall DEF Done
    <2>4. ASSUME NEW do \in EffectKind \ {"record"}, Becomes(w, do) PROVE e \in UnderWay
        <3> DEFINE x == [h EXCEPT !.do = do]
        <3>1. x \in EffectType /\ x.do = do
            BY <1>2 DEF EffectType
        <3>2. todo'[w] = <<x>> \o Tail(s)
            BY <2>2, <2>4 DEF Becomes
        <3> HIDE DEF x
        <3>3. Range(todo'[w]) = {x} \cup Range(Tail(s))
            BY <1>1, <3>1, <3>2, RangeGoesOn
        <3>4. QED
            BY <1>2, <1>4, <2>1, <3>1, <3>3
    <2>5. CASE LoadTab(w)
        <3> DEFINE x == [h EXCEPT !.do = "record", !.tab = LoadedTab(Key(w))]
        <3>1. x \in EffectType /\ x.key = h.key /\ x.tab = runJson[h.key]
            BY <1>1, <1>2 DEF EffectType, EffectKind, LoadedTab, Key, TypeInv, TypeOK, RmOK
        <3>2. todo'[w] = <<x>> \o Tail(s)
            BY <2>2, <2>5 DEF LoadTab
        <3> HIDE DEF x
        <3>3. Range(todo'[w]) = {x} \cup Range(Tail(s))
            BY <1>1, <3>1, <3>2, RangeGoesOn
        <3>4. QED
            BY <1>1, <1>2, <1>4, <2>1, <3>1, <3>3
    <2>6. CASE IssueTrigger(w)
        BY <2>3, <2>4, <2>6 DEF IssueTrigger, EffectKind
    <2>7. CASE EnqueueRun(w)
        BY <2>4, <2>7 DEF EnqueueRun, EffectKind
    <2>8. CASE StopSession(w)
        BY <2>3, <2>4, <2>8 DEF StopSession, EffectKind
    <2>9. CASE ApplySessionEnd(w)
        BY <2>3, <2>4, <2>9 DEF ApplySessionEnd, EffectKind
    <2>10. QED
        BY <2>3, <2>5, <2>6, <2>7, <2>8, <2>9
           DEF Execute, DispatchFails, EnqueueFails, RecordRunning, CleanupMetadata, ScheduleRetry, CancelRetry
<1>5. QED
    BY <1>3, <1>4 DEF UnderWay

\* Handlers and users make none.
LEMMA HandlersRecord ==
    ASSUME TypeInv, Handle \/ User, NEW e \in UnderWay', e.do = "record"
    PROVE  e \in UnderWay
<1>1. \A w \in Workers : \A s : Do(w, s) => todo'[w] = s /\ \A v \in Workers \ {w} : todo'[v] = todo[v]
    BY DEF Do, TypeInv, TypeOK, TasksOK
<1>2. ASSUME NEW w \in Workers, NEW s, Do(w, s), \A x \in Range(s) : x.do # "record" PROVE e \in UnderWay
    BY <1>1, <1>2 DEF UnderWay
<1>3. \A k, n : Dispatch(k, n).do = "dispatch" /\ Effect("cancel", k).do = "cancel"
                  /\ Stop("stop", k).do = "stop" /\ Effect("schedule", k).do = "schedule"
    BY DEF Dispatch, Effect, Stop
<1>4. CASE todo' = todo
    BY <1>4 DEF UnderWay
<1>5. CASE PrStatusChanged
    <2>1. todo'["user"] = todo["user"] /\ \A x \in ForLoop' : x.do \in {"dispatch", "stop_and_clean", "cancel"}
        BY <1>5, ListHandled
    <2>2. QED
        BY <2>1 DEF UnderWay, ForLoop, Workers
<1>6. CASE RunCompleted
    <2>1. ASSUME NEW k, Do("loop", <<[Effect("finish", k) EXCEPT !.status = Head(bus).status]>>)
          PROVE  e \in UnderWay
        <3> DEFINE x == [Effect("finish", k) EXCEPT !.status = Head(bus).status]
        <3>1. x.do # "record"
            BY DEF Effect
        <3>2. Do("loop", <<x>>)
            BY <2>1
        <3> HIDE DEF x
        <3>3. Range(<<x>>) = {x}
            BY RangeSmall
        <3>4. QED
            BY <1>2, <3>1, <3>2, <3>3 DEF Workers
    <2>2. QED
        BY <1>4, <1>6, <2>1 DEF RunCompleted
<1>7. CASE RetryDue
    <2>1. todo' = todo \/ \E k, n : Do("loop", <<Effect("schedule", k)>>) \/ Do("loop", <<Dispatch(k, n)>>)
        BY <1>7 DEF RetryDue, Deferred
    <2>2. ASSUME NEW x, x.do # "record", Do("loop", <<x>>) PROVE e \in UnderWay
        BY <1>2, <2>2, RangeSmall DEF Workers
    <2>3. QED
        BY <1>3, <1>4, <2>1, <2>2
<1>8. CASE IssueDetected
    <2> DEFINE new == Issues \ (claimed \cup completed)
    <2>1. PICK order \in Orders(new) :
            Do("loop", [i \in DOMAIN order |-> [Effect("issue", order[i]) EXCEPT !.batch = new]])
        BY <1>8 DEF IssueDetected
    <2> DEFINE s == [i \in DOMAIN order |-> [Effect("issue", order[i]) EXCEPT !.batch = new]]
    <2>2. \A x \in Range(s) : x.do # "record"
        BY DEF Effect, Range
    <2> HIDE DEF s
    <2>3. Do("loop", s)
        BY <2>1 DEF s
    <2>4. QED
        BY <1>2, <2>2, <2>3 DEF Workers
<1>9. CASE PrMerged
    <2>1. \E k, n : Do("loop", <<Dispatch(k, n)>>) \/ Do("loop", <<>>)
        BY <1>9 DEF PrMerged
    <2>2. QED
        BY <1>2, <1>3, <2>1, RangeSmall DEF Workers
<1>10. CASE User
    <2>1. \E k, n : \/ Do("user", <<>>) \/ Do("user", <<Stop("stop", k)>>)
                    \/ Do("user", <<Dispatch(k, n)>>) \/ Do("user", <<Effect("cancel", k), Dispatch(k, n)>>)
        BY <1>10 DEF User, ApplyRelaunch, ApplySkip
    <2>2. QED
        BY <1>2, <1>3, <2>1, RangeSmall DEF Workers
<1>11. QED
    BY <1>5, <1>6, <1>7, <1>8, <1>9, <1>10 DEF Handle

\* The sessions keep their keys.
LEMMA OfStays ==
    ASSUME TypeInv, tabKey' = tabKey \/ \E k \in Keys : tabKey' = Append(tabKey, k)
    PROVE  \A t, k : Of(tabKey, t, k) => Of(tabKey', t, k)
<1>1. tabKey \in Seq(Keys) /\ Len(tabKey) \in Nat /\ DOMAIN tabKey = 1..Len(tabKey)
    BY LenProperties DEF TypeInv, TypeOK, RmOK
<1>2. CASE tabKey' = tabKey
    BY <1>2 DEF Of
<1>3. ASSUME NEW k \in Keys, tabKey' = Append(tabKey, k)
      PROVE  \A t \in DOMAIN tabKey : t \in DOMAIN tabKey' /\ tabKey'[t] = tabKey[t]
    <2> DEFINE longer == Append(tabKey, k)
    <2>a. longer \in Seq(Keys) /\ Len(longer) = Len(tabKey) + 1
        BY <1>1, AppendProperties
    <2>b. \A i \in 1..Len(tabKey) : longer[i] = tabKey[i]
        BY <1>1, AppendProperties
    <2>1. /\ tabKey' \in Seq(Keys) /\ Len(tabKey') = Len(tabKey) + 1
          /\ \A i \in 1..Len(tabKey) : tabKey'[i] = tabKey[i]
        BY <1>3, <2>a, <2>b
    <2>2. DOMAIN tabKey' = 1..(Len(tabKey) + 1)
        BY <2>1, LenProperties
    <2>3. QED
        BY <1>1, <2>1, <2>2
<1>4. QED
    BY <1>2, <1>3 DEF Of

LEMMA StartTab ==
    ASSUME TypeInv, NEW k \in Keys, StartSession(k)
    PROVE  /\ \A x \in Keys : runJson'[x] = runJson[x] \/ Of(tabKey', runJson'[x], x)
           /\ tabKey' = Append(tabKey, k)
<1>1. tabKey \in Seq(Keys) /\ runJson \in [Keys -> Tabs \cup {NoTab}]
    BY DEF TypeInv, TypeOK, RmOK
<1>2. tabKey' = Append(tabKey, k) /\ runJson' = [runJson EXCEPT ![k] = Len(tabKey')]
    BY DEF StartSession
<1>3. Len(tabKey') \in DOMAIN tabKey' /\ tabKey'[Len(tabKey')] = k
    BY <1>1, <1>2, AppendProperties, LenProperties
<1>4. QED
    BY <1>1, <1>2, <1>3 DEF Of

\* What each step does to tab ids: sessions start, run.json is written by a
\* start and removed by an end, and the table gets what was read.
LEMMA TabsMove ==
    ASSUME TypeInv, [Next]_vars
    PROVE  /\ tabKey' = tabKey \/ \E k \in Keys : tabKey' = Append(tabKey, k)
           /\ \A x \in Keys : runJson'[x] \in {runJson[x], NoTab} \/ Of(tabKey', runJson'[x], x)
           /\ \A x \in DOMAIN running' :
                \/ x \in DOMAIN running /\ running'[x] = running[x]
                \/ x \in DOMAIN running /\ running'[x].tab = running[x].tab
                \/ \E e \in UnderWay : e.do = "record" /\ e.key = x /\ running'[x].tab = e.tab
<1> DEFINE Tk == tabKey' = tabKey \/ \E k \in Keys : tabKey' = Append(tabKey, k)
           Rj == \A x \in Keys : runJson'[x] \in {runJson[x], NoTab} \/ Of(tabKey', runJson'[x], x)
           Ru == \A x \in DOMAIN running' : x \in DOMAIN running /\ running'[x] = running[x]
<1>1. CASE UNCHANGED <<runJson, tabKey>> /\ Ru
    BY <1>1
<1>2. \A S : running' = Without(running, S) => Ru
    BY DEF Without, Restrict
<1>3. CASE Handle \/ User
    <2>1. UNCHANGED <<runJson, tabKey>>
        BY <1>3 DEF Handle, PrStatusChanged, RunCompleted, RetryDue, IssueDetected, PrMerged,
                    User, ApplyRelaunch, ApplySkip
    <2>2. running' = running \/ \E S : running' = Without(running, S)
        BY <1>3 DEF Handle, PrStatusChanged, RunCompleted, RetryDue, IssueDetected, PrMerged,
                    User, ApplyRelaunch, ApplySkip
    <2>3. QED
        BY <1>1, <1>2, <2>1, <2>2
<1>4. CASE UNCHANGED <<orchVars, runJson, tabKey>>
    BY <1>1, <1>4
<1>5. ASSUME NEW k \in Keys, StartSession(k), UNCHANGED orchVars PROVE Tk /\ Rj /\ Ru
    BY <1>5, StartTab
<1>6. ASSUME NEW t \in Tabs, NEW status \in Status, RunEnds(t, status) PROVE Tk /\ Rj /\ Ru
    <2>1. UNCHANGED <<orchVars, tabKey>>
        BY <1>6 DEF RunEnds
    <2>2. runJson' = runJson \/ runJson' = [runJson EXCEPT ![tabKey[t]] = NoTab]
        BY <1>6 DEF RunEnds
    <2>3. runJson \in [Keys -> Tabs \cup {NoTab}]
        BY DEF TypeInv, TypeOK, RmOK
    <2>4. QED
        BY <2>1, <2>2, <2>3
<1>7. CASE RunManager
    <2>1. CASE \E k \in Keys : RmLaunch(k)
        BY <1>4, <1>5, <2>1 DEF RmLaunch
    <2>2. QED
        BY <1>4, <1>6, <1>7, <2>1 DEF RunManager, RmPop, RmRefuse, AgentWrites, Approve
<1>8. CASE Github \/ BusLags \/ (\E k \in Keys : TimerFires(k)) \/ UNCHANGED vars
    BY <1>4, <1>8 DEF Github, Push, PollMerges, PrChanges, PollPrs, PollIssues, BusLags, TimerFires, vars
<1>9. ASSUME NEW w \in Workers, Execute(w), NEW h, h = Head(todo[w])
      PROVE  /\ Tk /\ Rj
             /\ \A x \in DOMAIN running' :
                \/ x \in DOMAIN running /\ running'[x] = running[x]
                \/ h.do = "record" /\ h.key = x /\ running'[x].tab = h.tab
    <2>1. CASE EnqueueRun(w)
        <3>1. h.key \in Keys /\ Key(w) = h.key
            BY <1>9, ExecuteList DEF Key
        <3>2. QED
            BY <1>4, <1>5, <2>1, <3>1 DEF EnqueueRun
    <2>2. CASE RecordRunning(w)
        <3>1. UNCHANGED <<runJson, tabKey>> /\ h.do = "record"
              /\ running' = Put(running, h.key, [tab |-> h.tab, attempt |-> h.attempt])
            BY <1>9, <2>2 DEF RecordRunning, Key, Next1
        <3>2. QED
            BY <3>1 DEF Put
    <2>3. CASE ApplySessionEnd(w)
        BY <1>1, <1>2, <2>3 DEF ApplySessionEnd
    <2>4. CASE UNCHANGED <<running, runJson, tabKey>>
        BY <1>1, <2>4
    <2>5. QED
        BY <1>9, <2>1, <2>2, <2>3, <2>4
           DEF Execute, IssueTrigger, DispatchFails, EnqueueFails, LoadTab, StopSession, CleanupMetadata,
               ScheduleRetry, CancelRetry
<1>10. CASE \E w \in Workers : Execute(w)
    <2>1. PICK w \in Workers : Execute(w)
        BY <1>10
    <2>2. Head(todo[w]) \in UnderWay
        BY <2>1, ExecuteList DEF UnderWay
    <2>3. QED
        BY <1>9, <2>1, <2>2
<1>11. QED
    BY <1>3, <1>7, <1>8, <1>10 DEF Next

LEMMA TabsStep ==
    ASSUME TypeInv, TabsInv, [Next]_vars
    PROVE  TabsInv'
<1>1. /\ \A t, k : Of(tabKey, t, k) => Of(tabKey', t, k)
      /\ \A x \in Keys : runJson'[x] \in {runJson[x], NoTab} \/ Of(tabKey', runJson'[x], x)
      /\ \A x \in DOMAIN running' :
            \/ x \in DOMAIN running /\ running'[x] = running[x]
            \/ x \in DOMAIN running /\ running'[x].tab = running[x].tab
            \/ \E e \in UnderWay : e.do = "record" /\ e.key = x /\ running'[x].tab = e.tab
    BY TabsMove, OfStays
<1>2. \A k \in Keys : Of(tabKey', runJson'[k], k)
    <2>1. \A k \in Keys : Of(tabKey', NoTab, k)
        BY DEF Of
    <2>2. QED
        BY <1>1, <2>1 DEF TabsInv
<1>3. \A k \in DOMAIN running' : Of(tabKey', running'[k].tab, k)
    BY <1>1 DEF TabsInv
<1>4. \A e \in UnderWay' : e.do = "record" => e \in UnderWay \/ (e.key \in Keys /\ e.tab = runJson[e.key])
    <2>1. CASE todo' = todo
        BY <2>1 DEF UnderWay
    <2>2. CASE RunManager \/ Github \/ BusLags \/ (\E k \in Keys : TimerFires(k)) \/ UNCHANGED vars
        BY <2>1, <2>2 DEF RunManager, RmPop, RmLaunch, RmRefuse, AgentWrites, RunEnds, Approve,
                    Github, Push, PollMerges, PrChanges, PollPrs, PollIssues, BusLags, TimerFires, vars
    <2>3. QED
        BY <2>2, ExecuteRecords, HandlersRecord DEF Next
<1>5. \A e \in UnderWay' : e.do = "record" => Of(tabKey', e.tab, e.key)
    BY <1>1, <1>4 DEF TabsInv
<1>6. QED
    BY <1>2, <1>3, <1>5 DEF TabsInv, Of

-----------------------------------------------------------------------------
(* What becomes of a session's end                                         *)

\* A completion is that of the key it is matched with.
LEMMA HandleNotices ==
    ASSUME TypeInv, TabsInv, Handle, NEW k \in DOMAIN running, Noticed(k)
    PROVE  running[k].tab \in live' \cup EndedTabs' \/ k \in Finishing'
<1> DEFINE t == running[k].tab
<1>1. bus # <<>> /\ bus' = Tail(bus) /\ todo["loop"] = <<>> /\ live' = live
    BY DEF Handle, PrStatusChanged, RunCompleted, RetryDue, IssueDetected, PrMerged, Receives, Consume
<1>2. Finishing = {}
    BY <1>1, RangeSmall DEF Finishing, ForLoop
<1>3. CASE t \in live \/ t \in EndedTabs'
    BY <1>1, <1>3
<1>4. CASE t \in EndedTabs \ EndedTabs'
    <2>1. Head(bus).type = "RunComplete" /\ t = Head(bus).tab /\ Head(bus) \in EventType
        BY <1>1, <1>4, EndedTail, EventFields DEF TypeInv, TypeOK, TasksOK
    <2>2. t \in Tabs /\ t # NoTab
        BY <2>1, BoundsAssumption DEF EventType, Tabs, NoTab
    <2>3. RunCompleted
        BY <2>1 DEF Handle, PrStatusChanged, RetryDue, IssueDetected, PrMerged, Receives
    <2>4. \A x \in Found(t) : x = k
        BY <2>2 DEF Found, TabsInv, Of
    <2>5. k \in Found(t)
        BY DEF Found
    <2>6. Do("loop", <<[Effect("finish", k) EXCEPT !.status = Head(bus).status]>>)
        BY <2>1, <2>3, <2>4, <2>5 DEF RunCompleted
    <2> DEFINE e == [Effect("finish", k) EXCEPT !.status = Head(bus).status]
    <2>7. todo'["loop"] = <<e>>
        BY <2>6 DEF Do, TypeInv, TypeOK, TasksOK, Workers
    <2>8. e.do = "finish" /\ e.key = k
        BY DEF Effect
    <2> HIDE DEF e
    <2>9. ForLoop' = {e}
        BY <2>7, RangeSmall DEF ForLoop
    <2>10. QED
        BY <2>8, <2>9 DEF Finishing
<1>5. QED
    BY <1>2, <1>3, <1>4 DEF Noticed

\* An end that is being applied is gone from the list when it is applied, and
\* the key is gone from the table.
LEMMA ExecuteNotices ==
    ASSUME TypeInv, TasksInv, NEW w \in Workers, Execute(w)
    PROVE  /\ live \subseteq live' \cup EndedTabs' /\ EndedTabs \subseteq EndedTabs'
           /\ Finishing \cap DOMAIN running' \subseteq Finishing'
<1> DEFINE h == Head(todo[w])
<1>1. /\ todo[w] # <<>> /\ todo[w] \in Seq(EffectType) /\ h \in Range(todo[w])
      /\ \A v \in Workers \ {w} : todo'[v] = todo[v]
    BY ExecuteList
<1>2. live \subseteq live' \cup EndedTabs' /\ EndedTabs \subseteq EndedTabs'
    <2>1. CASE StopSession(w)
        <3>1. CASE h.tab \in live
            <4>1. live' = live \ {h.tab} /\ bus' = Append(bus, RunComplete(h.tab, "failed"))
                BY <2>1, <3>1 DEF StopSession
            <4>2. h.tab \in Tabs
                <5>1. h \in EffectType
                    BY <1>1, HeadTyped
                <5>2. h.tab # NoTab
                    BY <3>1, LenProperties DEF TypeInv, TypeOK, RmOK, NoTab
                <5>3. QED
                    BY <5>1, <5>2 DEF EffectType
            <4>3. /\ RunComplete(h.tab, "failed") \in EventType
                  /\ RunComplete(h.tab, "failed").type = "RunComplete"
                  /\ RunComplete(h.tab, "failed").tab = h.tab
                BY <4>2 DEF EventType, RunComplete, Status
            <4>4. QED
                BY <4>1, <4>3, EndedAppend
        <3>2. CASE h.tab \notin live
            BY <2>1, <3>2 DEF StopSession, EndedTabs
        <3>3. QED
            BY <3>1, <3>2
    <2>2. CASE live \subseteq live' /\ bus' = bus
        BY <2>2 DEF EndedTabs
    <2>3. QED
        BY <2>1, <2>2 DEF Execute, IssueTrigger, DispatchFails, EnqueueRun, EnqueueFails, LoadTab, RecordRunning,
              CleanupMetadata, ScheduleRetry, CancelRetry, ApplySessionEnd, StartSession
<1>3. Finishing \cap DOMAIN running' \subseteq Finishing'
    <2>1. CASE w = "user"
        BY <1>1, <2>1 DEF Finishing, ForLoop, Workers
    <2>2. CASE w = "loop"
        <3> SUFFICES ASSUME NEW k \in Finishing PROVE k \notin DOMAIN running'
            OBVIOUS
        <3>1. PICK e \in ForLoop : e.do = "finish" /\ e.key = k
            BY DEF Finishing
        <3>2. e = h
            <4>1. PICK i \in DOMAIN todo["loop"] : todo["loop"][i] = e
                BY <3>1 DEF ForLoop, Range
            <4>2. Len(todo["loop"]) = 1
                BY <3>1, <4>1 DEF TasksInv, Shape
            <4>3. i = 1 /\ h = todo["loop"][1]
                BY <1>1, <2>2, <4>1, <4>2, TailIs
            <4>4. QED
                BY <4>1, <4>3
        <3>3. ApplySessionEnd(w)
            BY <3>1, <3>2 DEF Execute, IssueTrigger, DispatchFails, EnqueueRun, EnqueueFails, LoadTab,
                  RecordRunning, StopSession, CleanupMetadata, ScheduleRetry, CancelRetry, Next1
        <3>4. running' = Without(running, {k})
            BY <3>1, <3>2, <3>3 DEF ApplySessionEnd, Key
        <3>5. QED
            BY <3>4 DEF Without, Restrict
    <2>3. QED
        BY <2>1, <2>2 DEF Workers
<1>4. QED
    BY <1>2, <1>3

LEMMA NoticedStep ==
    ASSUME "lag" \notin Ops, NoticeInv, [Next]_vars,
           NEW k \in DOMAIN running \cap DOMAIN running', Noticed(k), running'[k] = running[k]
    PROVE  Noticed(k)'
<1> USE DEF NoticeInv
<1>1. ASSUME live \subseteq live' \cup EndedTabs', EndedTabs \subseteq EndedTabs', k \in Finishing => k \in Finishing'
      PROVE  Noticed(k)'
    BY <1>1 DEF Noticed
<1>2. ASSUME live' = live, todo'["loop"] = todo["loop"],
             bus' = bus \/ \E ev \in EventType : bus' = Append(bus, ev)
      PROVE  Noticed(k)'
    <2>1. EndedTabs \subseteq EndedTabs'
        BY <1>2, EndedAppend DEF EndedTabs
    <2>2. QED
        BY <1>1, <1>2, <2>1 DEF Finishing, ForLoop
<1>3. CASE Handle
    BY <1>3, HandleNotices DEF Noticed
<1>4. CASE User
    <2>1. \E l : Do("user", l)
        BY <1>4 DEF User, ApplyRelaunch, ApplySkip
    <2>2. todo'["loop"] = todo["loop"]
        BY <2>1 DEF Do, TypeInv, TypeOK, TasksOK, Workers
    <2>3. bus' = bus /\ live' = live
        BY <1>4 DEF User, ApplyRelaunch, ApplySkip
    <2>4. QED
        BY <1>2, <2>2, <2>3
<1>5. CASE Github
    <2>1. \A x \in Prs : [type |-> "PrMerged", key |-> x] \in EventType
        BY DEF EventType
    <2>2. [type |-> "PrStatusChanged", prs |-> Snapshot] \in EventType
        BY DEF EventType, Snapshot
    <2>3. [type |-> "IssueDetected"] \in EventType
        BY DEF EventType
    <2>4. bus' = bus \/ \E ev \in EventType : bus' = Append(bus, ev)
        BY <1>5, <2>1, <2>2, <2>3 DEF Github, Push, PollMerges, PrChanges, PollPrs, PollIssues
    <2>5. live' = live /\ todo' = todo
        BY <1>5 DEF Github, Push, PollMerges, PrChanges, PollPrs, PollIssues
    <2>6. QED
        BY <1>2, <2>4, <2>5
<1>6. ASSUME NEW x \in Keys, TimerFires(x) PROVE Noticed(k)'
    <2>1. [type |-> "RetryDue", key |-> x] \in EventType
        BY DEF EventType
    <2>2. QED
        BY <1>2, <1>6, <2>1 DEF TimerFires
<1>7. CASE RunManager
    <2>1. ASSUME NEW t \in Tabs, NEW status \in Status, RunEnds(t, status) PROVE Noticed(k)'
        <3>1. live' = live \ {t} /\ bus' = Append(bus, RunComplete(t, status)) /\ todo' = todo
            BY <2>1 DEF RunEnds
        <3>2. /\ RunComplete(t, status) \in EventType /\ RunComplete(t, status).type = "RunComplete"
              /\ RunComplete(t, status).tab = t
            BY DEF EventType, RunComplete
        <3>3. EndedTabs \subseteq EndedTabs' /\ t \in EndedTabs'
            BY <3>1, <3>2, EndedAppend
        <3>4. QED
            BY <1>1, <3>1, <3>3 DEF Finishing, ForLoop
    <2>2. CASE \E x \in Keys : RmLaunch(x)
        <3>1. live \subseteq live' /\ bus' = bus /\ todo' = todo
            BY <2>2 DEF RmLaunch, StartSession
        <3>2. QED
            BY <1>1, <3>1 DEF Finishing, ForLoop, EndedTabs
    <2>3. CASE RmPop \/ (\E x \in Keys : RmRefuse(x) \/ Approve(x)) \/ \E t \in Tabs : AgentWrites(t)
        BY <1>2, <2>3 DEF RmPop, RmRefuse, AgentWrites, Approve
    <2>4. QED
        BY <1>7, <2>1, <2>2, <2>3 DEF RunManager
<1>8. CASE UNCHANGED vars
    BY <1>2, <1>8 DEF vars
<1>9. ~BusLags
    BY DEF BusLags
<1>10. ASSUME NEW w \in Workers, Execute(w) PROVE Noticed(k)'
    BY <1>1, <1>10, ExecuteNotices
<1>11. QED
    BY <1>3, <1>4, <1>5, <1>6, <1>7, <1>8, <1>9, <1>10 DEF Next

LEMMA NoticeInit == Init => NoticeInv
<1> SUFFICES ASSUME Init PROVE NoticeInv
    OBVIOUS
<1>1. TypeInv /\ TasksInv /\ MergeInv
    BY RetryInit DEF RetryInv
<1>2. UnderWay = {}
    BY RangeSmall DEF Init, UnderWay
<1>3. TabsInv
    BY <1>2 DEF TabsInv, Of, Init, Nothing
<1>4. QED
    BY <1>1, <1>3 DEF NoticeInv

LEMMA NoticeStep == NoticeInv /\ [Next]_vars => NoticeInv'
BY StepTyped, TasksStep, MergeStep, TabsStep DEF NoticeInv

\* The end of a recorded session reaches the loop, and the loop applies it to
\* the key that has it, in every deployment whose bus loses no event: whoever
\* relaunches, skips, closes, merges or labels meanwhile, and whichever
\* launches fail or sessions end early (RunComplete of handle_event and
\* find_pr_key_by_tab_id).
THEOREM EndsNoticed ==
    ASSUME "lag" \notin Ops
    PROVE  Spec => EndNoticed
<1> DEFINE K == DOMAIN running \cap DOMAIN running'
           Kept == \A k \in K : Followed(k) /\ running'[k] = running[k] => Followed(k)'
<1>1. NoticeInv /\ NoticeInv' /\ [Next]_vars => [Kept]_vars
    <2> SUFFICES ASSUME NoticeInv, NoticeInv', [Next]_vars, NEW k \in K, Followed(k), running'[k] = running[k]
                 PROVE  Followed(k)'
        OBVIOUS
    <2>1. k \in Keys
        BY DEF NoticeInv, TypeInv, TypeOK, OrchOK
    <2>2. Noticed(k)
        BY <2>1, FollowedIs DEF NoticeInv, TasksInv
    <2>3. Noticed(k)'
        BY <2>2, NoticedStep
    <2>4. UserShape'
        BY DEF NoticeInv, TasksInv
    <2>5. Followed(k)' <=> Noticed(k)'
        BY <2>1, <2>4, FollowedIsNext
    <2>6. QED
        BY <2>3, <2>5
<1> HIDE DEF Kept
<1>2. Spec => [][Kept]_vars
    BY <1>1, NoticeInit, NoticeStep, PTL DEF Spec
<1>3. QED
    BY <1>2 DEF Kept, EndNoticed
=============================================================================
