------------------------- MODULE OrchestratorProofs --------------------------
(***************************************************************************)
(* Theorems about Orchestrator, for every set of pull requests, issues and *)
(* operations and every value of the limits: its types and, where nobody   *)
(* relaunches by hand, its limit, its claims and that its pull requests    *)
(* live by KeyLife.                                                        *)
(***************************************************************************)
EXTENDS Orchestrator, FiniteSetTheorems, SequenceTheorems, TLAPS

\* The groups of variables a step leaves alone.
USE DEF orchVars, timerVars, fileVars, rmVars, githubVars, HandlerFrame, RmFrame, EnvFrame

-----------------------------------------------------------------------------
(* Lemmas about the operators the steps are built from                     *)

\* Effects are well typed.
LEMMA EffectTyped ==
    ASSUME NEW do \in EffectKind, NEW k \in Keys
    PROVE  /\ Effect(do, k) \in EffectType
           /\ \A n \in Nat : [Effect(do, k) EXCEPT !.attempt = n] \in EffectType
           /\ \A t \in Tabs \cup {NoTab} : [Effect(do, k) EXCEPT !.tab = t] \in EffectType
           /\ \A s \in Status : [Effect(do, k) EXCEPT !.status = s] \in EffectType
           /\ \A b \in SUBSET Keys : [Effect(do, k) EXCEPT !.batch = b] \in EffectType
BY DEF Effect, EffectType, NoTab

LEMMA StopEffectTyped ==
    ASSUME NEW do \in EffectKind, NEW k \in Keys, running[k].tab \in Tabs \cup {NoTab}
    PROVE  Stop(do, k) \in EffectType
BY EffectTyped DEF Stop

\* Keys is finite, and so are the sets of keys that Cardinality is asked of.
LEMMA KeysFinite == IsFiniteSet(Keys)
<1> DEFINE f == [k \in Prs |-> Rescore(k)]
           R == {Rescore(k) : k \in Prs}
<1>1. f \in Surjection(Prs, R)
    BY DEF Surjection
<1>2. IsFiniteSet(R)
    BY <1>1, FS_Surjection, FiniteAssumption
<1>3. QED
    BY <1>2, FS_Union, FiniteAssumption DEF Keys

\* A list of a set holds its elements, each once.
LEMMA OrdersList ==
    ASSUME NEW S, IsFiniteSet(S), NEW s \in Orders(S)
    PROVE  /\ Cardinality(S) \in Nat /\ DOMAIN s = 1..Cardinality(S) /\ s \in Seq(S)
           /\ \A i \in DOMAIN s : s[i] \in S
           /\ \A i, j \in DOMAIN s : i # j => s[i] # s[j]
<1>1. Cardinality(S) \in Nat
    BY FS_CardinalityType
<1>2. s \in Surjection(1..Cardinality(S), S)
    BY DEF Orders, Surjection, Range
<1>3. IsFiniteSet(1..Cardinality(S)) /\ Cardinality(1..Cardinality(S)) = Cardinality(S)
    BY <1>1, FS_Interval
<1>4. s \in Injection(1..Cardinality(S), S)
    BY <1>2, <1>3, FS_SurjSameCardinalityImpliesInj
<1>5. QED
    BY <1>1, <1>4 DEF Orders, Injection, IsInjective
-----------------------------------------------------------------------------
(* Types                                                                   *)

\* What the type invariant needs to be inductive: session ids stay in Tabs.
TypeInv == TypeOK /\ Len(tabKey) <= MaxTabs

LEMMA InitTyped == Init => TypeInv
BY BoundsAssumption, EmptySeq
   DEF Init, TypeInv, TypeOK, OrchOK, TasksOK, RmOK, GithubOK, Nothing, NoTab, OpenState

\* What the loop receives, by its type.
LEMMA EventFields ==
    ASSUME TasksOK, bus # <<>>
    PROVE  /\ Tail(bus) \in Seq(EventType) /\ Head(bus) \in EventType
           /\ Head(bus).type = "PrStatusChanged" =>
                 Head(bus).prs \in [Prs -> OpenState \cup {"closed"}]
           /\ Head(bus).type = "RunComplete" => Head(bus).tab \in Tabs /\ Head(bus).status \in Status
           /\ Head(bus).type = "RetryDue" => Head(bus).key \in Keys
           /\ Head(bus).type = "PrMerged" => Head(bus).key \in Prs
<1>1. Tail(bus) \in Seq(EventType) /\ Head(bus) \in EventType
    BY HeadTailProperties DEF TasksOK
<1>2. QED
    BY <1>1 DEF EventType

\* What a worker executes.
LEMMA HeadTyped ==
    ASSUME TasksOK, NEW w \in Workers, todo[w] # <<>>
    PROVE  /\ Head(todo[w]) \in EffectType /\ Tail(todo[w]) \in Seq(EffectType)
           /\ Key(w) \in Keys
           /\ Head(todo[w]).attempt \in Nat /\ Head(todo[w]).tab \in Tabs \cup {NoTab}
           /\ Head(todo[w]).batch \subseteq Keys
<1>1. todo[w] \in Seq(EffectType)
    BY DEF TasksOK
<1>2. Head(todo[w]) \in EffectType /\ Tail(todo[w]) \in Seq(EffectType)
    BY <1>1, HeadTailProperties
<1>3. QED
    BY <1>2 DEF EffectType, Key

\* New effects keep the tasks well typed; so does taking one off the list, or
\* going on with it under another name.
LEMMA DoTyped ==
    ASSUME TasksOK, NEW w \in Workers, NEW s \in Seq(EffectType), Do(w, s),
           bus' \in Seq(EventType), armed' \subseteq Keys, stray' \subseteq Keys
    PROVE  TasksOK'
BY DEF Do, TasksOK

LEMMA DoneTyped ==
    ASSUME TasksOK, NEW w \in Workers, todo[w] # <<>>, Done(w),
           bus' \in Seq(EventType), armed' \subseteq Keys, stray' \subseteq Keys
    PROVE  TasksOK'
BY HeadTyped, DoTyped DEF Done

LEMMA BecomesTyped ==
    ASSUME TasksOK, NEW w \in Workers, todo[w] # <<>>, NEW do \in EffectKind, Becomes(w, do),
           bus' \in Seq(EventType), armed' \subseteq Keys, stray' \subseteq Keys
    PROVE  TasksOK'
<1>1. [Head(todo[w]) EXCEPT !.do = do] \in EffectType
    BY HeadTyped DEF EffectType
<1>2. <<[Head(todo[w]) EXCEPT !.do = do]>> \o Tail(todo[w]) \in Seq(EffectType)
    BY <1>1, HeadTyped, ConcatProperties
<1>3. QED
    BY <1>2, DoTyped DEF Becomes

\* A session that starts has a tab id within bounds.
LEMMA StartTyped ==
    ASSUME TypeInv, NEW k \in Keys, StartSession(k)
    PROVE  /\ tabKey' \in Seq(Keys) /\ Len(tabKey') <= MaxTabs
           /\ live' \subseteq DOMAIN tabKey' /\ runJson' \in [Keys -> Tabs \cup {NoTab}]
<1>1. tabKey \in Seq(Keys) /\ Len(tabKey) < MaxTabs /\ tabKey' = Append(tabKey, k)
    BY DEF StartSession, TypeInv, TypeOK, RmOK
<1>2. /\ tabKey' \in Seq(Keys) /\ Len(tabKey') = Len(tabKey) + 1 /\ Len(tabKey) \in Nat
      /\ DOMAIN tabKey = 1..Len(tabKey) /\ DOMAIN tabKey' = 1..Len(tabKey')
    BY <1>1, AppendProperties, LenProperties
<1>3. Len(tabKey') \in Tabs
    BY <1>1, <1>2, BoundsAssumption DEF Tabs
<1>4. live' \subseteq DOMAIN tabKey'
    <2>1. live' = live \cup {Len(tabKey')} /\ live \subseteq DOMAIN tabKey
        BY DEF StartSession, TypeInv, TypeOK, RmOK
    <2>2. QED
        BY <1>2, <2>1
<1>5. runJson' \in [Keys -> Tabs \cup {NoTab}]
    BY <1>3 DEF StartSession, TypeInv, TypeOK, RmOK
<1>6. Len(tabKey') <= MaxTabs
    BY <1>1, <1>2, BoundsAssumption
<1>7. QED
    BY <1>2, <1>4, <1>5, <1>6

\* The tables of the orchestrator keep their types when entries go.
LEMMA EntriesTyped ==
    ASSUME OrchOK, NEW S
    PROVE  /\ DOMAIN Without(running, S) \subseteq Keys
           /\ Without(running, S) \in [DOMAIN Without(running, S) -> [tab : Tabs \cup {NoTab}, attempt : Nat]]
           /\ DOMAIN Without(retryQueue, S) \subseteq Keys
           /\ Without(retryQueue, S) \in [DOMAIN Without(retryQueue, S) -> Nat]
           /\ DOMAIN Without(reviewReady, S) \subseteq Keys
           /\ Without(reviewReady, S) \in [DOMAIN Without(reviewReady, S) -> [attempt : Nat, stale : BOOLEAN]]
<1>1. PICK R, Q, V :
        /\ R = DOMAIN running /\ Q = DOMAIN retryQueue /\ V = DOMAIN reviewReady
        /\ R \subseteq Keys /\ Q \subseteq Keys /\ V \subseteq Keys
        /\ running \in [R -> [tab : Tabs \cup {NoTab}, attempt : Nat]]
        /\ retryQueue \in [Q -> Nat] /\ reviewReady \in [V -> [attempt : Nat, stale : BOOLEAN]]
    BY DEF OrchOK
<1>2. QED
    BY <1>1 DEF Without, Restrict

\* The handlers of the loop.
LEMMA HandleTyped == TypeInv /\ Handle => TypeInv'
<1> SUFFICES ASSUME TypeInv, Handle PROVE TypeInv'
    OBVIOUS
<1> USE DEF TypeInv, TypeOK
<1>0. /\ bus # <<>> /\ bus' = Tail(bus) /\ bus' \in Seq(EventType) /\ "loop" \in Workers
      /\ RmOK' /\ GithubOK' /\ Len(tabKey') <= MaxTabs
    <2>1. bus # <<>> /\ Consume /\ HandlerFrame
        BY DEF Handle, PrStatusChanged, RunCompleted, RetryDue, IssueDetected, PrMerged, Receives
    <2>2. QED
        BY <2>1, EventFields DEF Consume, RmOK, GithubOK, Workers
<1>1. CASE PrStatusChanged
    <2> DEFINE prs == Head(bus).prs
               gone == StaleRunning(prs)
               dropped == StaleRetries(prs)
    <2>1. PICK D \in Chosen(prs) :
            /\ claimed' = (claimed \cup D) \ (gone \cup dropped)
            /\ \E new \in Orders(D), stops \in Orders(gone), cancels \in Orders(dropped) :
                Do("loop", [i \in DOMAIN new |-> Dispatch(new[i], 1)]
                    \o [i \in DOMAIN stops |-> Stop("stop_and_clean", stops[i])]
                    \o [i \in DOMAIN cancels |-> Effect("cancel", cancels[i])])
        BY <1>1 DEF PrStatusChanged
    <2>2. D \subseteq Keys /\ gone \subseteq Keys /\ dropped \subseteq Keys /\ gone \subseteq DOMAIN running
        BY <2>1 DEF Chosen, Candidates, Keys, StaleRunning, StaleRetries, Closed
    <2>3. PICK new \in Orders(D), stops \in Orders(gone), cancels \in Orders(dropped) :
                Do("loop", [i \in DOMAIN new |-> Dispatch(new[i], 1)]
                    \o [i \in DOMAIN stops |-> Stop("stop_and_clean", stops[i])]
                    \o [i \in DOMAIN cancels |-> Effect("cancel", cancels[i])])
        BY <2>1
    <2>4. IsFiniteSet(D) /\ IsFiniteSet(gone) /\ IsFiniteSet(dropped)
        BY <2>2, KeysFinite, FS_Subset
    <2>5. [i \in DOMAIN new |-> Dispatch(new[i], 1)] \in Seq(EffectType)
        <3>1. \A i \in DOMAIN new : Dispatch(new[i], 1) \in EffectType
            BY <2>2, <2>4, OrdersList, EffectTyped DEF Dispatch, EffectKind
        <3>2. QED
            BY <3>1, <2>4, OrdersList
    <2>6. [i \in DOMAIN stops |-> Stop("stop_and_clean", stops[i])] \in Seq(EffectType)
        <3>1. \A k \in gone : running[k].tab \in Tabs \cup {NoTab}
            BY <2>2 DEF OrchOK
        <3>2. \A i \in DOMAIN stops : Stop("stop_and_clean", stops[i]) \in EffectType
            BY <2>2, <2>4, <3>1, OrdersList, EffectTyped DEF Stop, EffectKind
        <3>3. QED
            BY <3>2, <2>4, OrdersList
    <2>7. [i \in DOMAIN cancels |-> Effect("cancel", cancels[i])] \in Seq(EffectType)
        <3>1. \A i \in DOMAIN cancels : Effect("cancel", cancels[i]) \in EffectType
            BY <2>2, <2>4, OrdersList, EffectTyped DEF EffectKind
        <3>2. QED
            BY <3>1, <2>4, OrdersList
    <2>8. TasksOK'
        BY <1>0, <1>1, <2>3, <2>5, <2>6, <2>7, ConcatProperties, DoTyped DEF PrStatusChanged, TasksOK
    <2>9. OrchOK'
        <3>1. /\ running' = Without(running, gone) /\ retryQueue' = Without(retryQueue, gone \cup dropped)
              /\ reviewReady' = MarkStale(Without(reviewReady, gone), prs)
              /\ completed' \subseteq completed /\ mergedPrs' = mergedPrs
            BY <1>1 DEF PrStatusChanged
        <3>2. /\ DOMAIN reviewReady' \subseteq Keys
              /\ reviewReady' \in [DOMAIN reviewReady' -> [attempt : Nat, stale : BOOLEAN]]
            <4> DEFINE r == Without(reviewReady, gone)
                       T == [attempt : Nat, stale : BOOLEAN]
            <4>1. DOMAIN r \subseteq Keys /\ \A k \in DOMAIN r : r[k] \in T
                BY EntriesTyped DEF OrchOK
            <4>2. \A k \in DOMAIN r : [r[k] EXCEPT !.stale = TRUE] \in T
                BY <4>1
            <4> HIDE DEF r, T
            <4>3. MarkStale(r, prs) \in [DOMAIN r -> T]
                BY <4>1, <4>2 DEF MarkStale
            <4>4. QED
                BY <3>1, <4>1, <4>3 DEF r, T
        <3>3. /\ DOMAIN running' \subseteq Keys
              /\ running' \in [DOMAIN running' -> [tab : Tabs \cup {NoTab}, attempt : Nat]]
            BY <3>1, EntriesTyped DEF OrchOK
        <3>6. /\ DOMAIN retryQueue' \subseteq Keys
              /\ retryQueue' \in [DOMAIN retryQueue' -> Nat]
            BY <3>1, EntriesTyped DEF OrchOK
        <3>4. claimed' \subseteq Keys
            BY <2>1, <2>2 DEF OrchOK
        <3>5. QED
            BY <3>1, <3>2, <3>3, <3>6, <3>4 DEF OrchOK
    <2>10. QED
        BY <1>0, <2>8, <2>9
<1>2. CASE RunCompleted
    <2>1. OrchOK'
        BY <1>2 DEF RunCompleted, OrchOK
    <2>2. TasksOK'
        <3> DEFINE ev == Head(bus)
        <3>1. UNCHANGED <<armed, stray>> /\ ev.status \in Status
            BY <1>2, <1>0, EventFields DEF RunCompleted, Receives
        <3>2. CASE UNCHANGED todo
            BY <1>0, <3>1, <3>2 DEF TasksOK
        <3>3. ASSUME NEW k \in DOMAIN running, Do("loop", <<[Effect("finish", k) EXCEPT !.status = ev.status]>>)
              PROVE  TasksOK'
            <4>1. [Effect("finish", k) EXCEPT !.status = ev.status] \in EffectType
                BY <3>1, EffectTyped DEF EffectKind, OrchOK
            <4>2. <<[Effect("finish", k) EXCEPT !.status = ev.status]>> \in Seq(EffectType)
                BY <4>1
            <4>3. QED
                BY <1>0, <3>1, <3>3, <4>2, DoTyped DEF TasksOK
        <3>4. QED
            BY <1>2, <3>2, <3>3 DEF RunCompleted, Found
    <2>3. QED
        BY <1>0, <2>1, <2>2
<1>3. CASE RetryDue
    <2> DEFINE k == Head(bus).key
    <2>1. /\ k \in Keys /\ armed' \subseteq Keys /\ stray' \subseteq Keys
          /\ UNCHANGED <<claimed, completed, mergedPrs, running, reviewReady>>
        BY <1>3, <1>0, EventFields DEF RetryDue, Receives, TasksOK
    <2>2. CASE k \notin DOMAIN retryQueue
        <3>1. UNCHANGED <<retryQueue, todo>>
            BY <1>3, <2>2 DEF RetryDue
        <3>2. QED
            BY <1>0, <2>1, <3>1 DEF OrchOK, TasksOK
    <2>3. CASE k \in DOMAIN retryQueue /\ AvailableSlots = 0
        <3>1. Do("loop", <<Effect("schedule", k)>>) /\ UNCHANGED retryQueue
            BY <1>3, <2>3 DEF RetryDue, Deferred
        <3>2. <<Effect("schedule", k)>> \in Seq(EffectType)
            BY <2>1, EffectTyped DEF EffectKind
        <3>3. TasksOK'
            BY <1>0, <2>1, <3>1, <3>2, DoTyped
        <3>4. QED
            BY <1>0, <2>1, <3>1, <3>3 DEF OrchOK
    <2>4. CASE k \in DOMAIN retryQueue /\ AvailableSlots # 0
        <3>1. Do("loop", <<Dispatch(k, retryQueue[k])>>) /\ retryQueue' = Without(retryQueue, {k})
            BY <1>3, <2>4 DEF RetryDue
        <3>2. Dispatch(k, retryQueue[k]) \in EffectType
            BY <2>1, <2>4, EffectTyped DEF EffectKind, Dispatch, OrchOK
        <3> DEFINE s == <<Dispatch(k, retryQueue[k])>>
        <3>3. s \in Seq(EffectType)
            BY <3>2
        <3>4. TasksOK'
            BY <1>0, <2>1, <3>1, <3>3, DoTyped
        <3>5. /\ DOMAIN retryQueue' \subseteq Keys
              /\ retryQueue' \in [DOMAIN retryQueue' -> Nat]
            BY <3>1, EntriesTyped DEF OrchOK
        <3>6. OrchOK'
            BY <2>1, <3>5 DEF OrchOK
        <3>7. QED
            BY <1>0, <3>4, <3>6
    <2>5. QED
        BY <2>2, <2>3, <2>4
<1>4. CASE IssueDetected
    <2> DEFINE new == Issues \ (claimed \cup completed)
    <2>1. /\ claimed' = claimed \cup new /\ armed' = armed /\ stray' = stray
          /\ UNCHANGED <<completed, mergedPrs, running, retryQueue, reviewReady>>
        BY <1>4 DEF IssueDetected
    <2>2. PICK order \in Orders(new) :
            Do("loop", [i \in DOMAIN order |-> [Effect("issue", order[i]) EXCEPT !.batch = new]])
        BY <1>4 DEF IssueDetected
    <2>3. new \subseteq Keys /\ IsFiniteSet(new)
        BY FS_Subset, FiniteAssumption DEF Keys
    <2>4. \A i \in DOMAIN order : [Effect("issue", order[i]) EXCEPT !.batch = new] \in EffectType
        BY <2>3, OrdersList, EffectTyped DEF EffectKind
    <2>5. [i \in DOMAIN order |-> [Effect("issue", order[i]) EXCEPT !.batch = new]] \in Seq(EffectType)
        BY <2>3, <2>4, OrdersList
    <2>6. TasksOK'
        BY <1>0, <2>1, <2>2, <2>5, DoTyped DEF TasksOK
    <2>7. OrchOK'
        BY <2>1, <2>3 DEF OrchOK
    <2>8. QED
        BY <1>0, <2>6, <2>7
<1>5. CASE PrMerged
    <2> DEFINE k == Head(bus).key
    <2>1. k \in Prs /\ Rescore(k) \in Keys
        BY <1>5, <1>0, EventFields DEF PrMerged, Receives, Keys
    <2>2. /\ running' \in {running, Without(running, {k})} /\ claimed' \subseteq claimed
          /\ retryQueue' \in {retryQueue, Without(retryQueue, {k})}
          /\ reviewReady' \in {reviewReady, Without(reviewReady, {k})}
          /\ mergedPrs' = mergedPrs \cup {k} /\ completed' = completed
        BY <1>5 DEF PrMerged
    <2>3. OrchOK'
        <3>1. /\ DOMAIN running' \subseteq Keys
              /\ running' \in [DOMAIN running' -> [tab : Tabs \cup {NoTab}, attempt : Nat]]
            BY <2>2, EntriesTyped DEF OrchOK
        <3>2. /\ DOMAIN retryQueue' \subseteq Keys
              /\ retryQueue' \in [DOMAIN retryQueue' -> Nat]
            BY <2>2, EntriesTyped DEF OrchOK
        <3>3. /\ DOMAIN reviewReady' \subseteq Keys
              /\ reviewReady' \in [DOMAIN reviewReady' -> [attempt : Nat, stale : BOOLEAN]]
            BY <2>2, EntriesTyped DEF OrchOK
        <3>4. QED
            BY <2>1, <2>2, <3>1, <3>2, <3>3 DEF OrchOK
    <2>4. <<Dispatch(Rescore(k), 1)>> \in Seq(EffectType) /\ <<>> \in Seq(EffectType)
        <3>1. Dispatch(Rescore(k), 1) \in EffectType
            BY <2>1, EffectTyped DEF EffectKind, Dispatch
        <3>2. QED
            BY <3>1
    <2>5. Do("loop", <<Dispatch(Rescore(k), 1)>>) \/ Do("loop", <<>>)
        BY <1>5 DEF PrMerged
    <2>6. TasksOK'
        BY <1>0, <1>5, <2>4, <2>5, DoTyped DEF PrMerged, TasksOK
    <2>7. QED
        BY <1>0, <2>3, <2>6
<1>6. QED
    BY <1>1, <1>2, <1>3, <1>4, <1>5 DEF Handle

\* Relaunches and skips.
LEMMA UserTyped == TypeInv /\ User => TypeInv'
<1> SUFFICES ASSUME TypeInv, NEW k \in Prs, ApplyRelaunch(k) \/ ApplySkip(k) PROVE TypeInv'
    BY DEF User
<1> USE DEF TypeInv, TypeOK
<1>0. /\ k \in Keys /\ "user" \in Workers /\ bus' \in Seq(EventType)
      /\ armed' \subseteq Keys /\ stray' \subseteq Keys
      /\ RmOK' /\ GithubOK' /\ Len(tabKey') <= MaxTabs
    BY DEF ApplyRelaunch, ApplySkip, RmOK, GithubOK, TasksOK, Keys, Workers
<1>1. CASE ApplyRelaunch(k)
    <2> DEFINE again == Dispatch(k, PreviousAttempt(k) + 1)
    <2>1. PreviousAttempt(k) \in Nat
        BY DEF PreviousAttempt, OrchOK
    <2>2. again \in EffectType /\ Effect("cancel", k) \in EffectType
        BY <1>0, <2>1, EffectTyped DEF EffectKind, Dispatch
    <2>3. <<again>> \in Seq(EffectType) /\ <<Effect("cancel", k), again>> \in Seq(EffectType)
        BY <2>2
    <2>4. Do("user", <<again>>) \/ Do("user", <<Effect("cancel", k), again>>)
        BY <1>1 DEF ApplyRelaunch
    <2> HIDE DEF again
    <2>5. TasksOK'
        BY <1>0, <2>3, <2>4, DoTyped
    <2>6. /\ retryQueue' = Without(retryQueue, {k}) /\ reviewReady' = Without(reviewReady, {k})
          /\ claimed' = claimed \cup {k} /\ UNCHANGED <<completed, mergedPrs, running>>
        BY <1>1 DEF ApplyRelaunch
    <2>7. OrchOK'
        BY <1>0, <2>6, EntriesTyped DEF OrchOK
    <2>8. QED
        BY <1>0, <2>5, <2>7
<1>2. CASE ApplySkip(k)
    <2>1. TasksOK'
        <3>1. CASE k \in DOMAIN running
            <4>1. Stop("stop", k) \in EffectType
                BY <1>0, <3>1, EffectTyped DEF EffectKind, Stop, OrchOK
            <4>2. <<Stop("stop", k)>> \in Seq(EffectType)
                BY <4>1
            <4>3. Do("user", <<Stop("stop", k)>>)
                BY <1>2, <3>1 DEF ApplySkip
            <4>4. QED
                BY <1>0, <4>2, <4>3, DoTyped
        <3>2. CASE k \notin DOMAIN running
            <4>1. Do("user", <<>>)
                BY <1>2, <3>2 DEF ApplySkip
            <4>2. QED
                BY <1>0, <4>1, EmptySeq, DoTyped
        <3>3. QED
            BY <3>1, <3>2
    <2>2. /\ running' = Without(running, {k}) /\ retryQueue' = Without(retryQueue, {k})
          /\ reviewReady' = Without(reviewReady, {k}) /\ claimed' \subseteq claimed
          /\ completed' = completed \cup {k} /\ mergedPrs' = mergedPrs
        BY <1>2 DEF ApplySkip
    <2>3. OrchOK'
        BY <1>0, <2>2, EntriesTyped DEF OrchOK
    <2>4. QED
        BY <1>0, <2>1, <2>3
<1>3. QED
    BY <1>1, <1>2

\* The run manager and the agents.
LEMMA RunManagerTyped == TypeInv /\ RunManager => TypeInv'
<1> SUFFICES ASSUME TypeInv, RunManager PROVE TypeInv'
    OBVIOUS
<1> USE DEF TypeInv, TypeOK
<1>0. OrchOK' /\ GithubOK' /\ UNCHANGED <<todo, armed, stray>>
    BY DEF RunManager, RmPop, RmLaunch, RmRefuse, AgentWrites, RunEnds, Approve, OrchOK, GithubOK
<1>1. CASE RmPop
    <2>1. /\ queue \in Seq(Keys) /\ queue # <<>> /\ queue' = Tail(queue)
          /\ popped' = popped \cup {Head(queue)}
          /\ UNCHANGED <<live, tabKey, analysis, runJson, bus>>
        BY <1>1 DEF RmPop, RmOK
    <2>2. queue' \in Seq(Keys) /\ Head(queue) \in Keys
        BY <2>1, HeadTailProperties
    <2>3. QED
        BY <1>0, <2>1, <2>2 DEF RmOK, TasksOK
<1>2. ASSUME NEW k \in Keys, RmLaunch(k) PROVE TypeInv'
    <2>1. popped' \subseteq Keys /\ UNCHANGED <<analysis, bus>>
        BY <1>2 DEF RmLaunch, RmOK
    <2>2. CASE StartSession(k) /\ UNCHANGED queue
        BY <1>0, <2>1, <2>2, StartTyped DEF RmOK, TasksOK
    <2>3. CASE queue' = Append(queue, k) /\ UNCHANGED <<live, tabKey, runJson>>
        <3>1. queue' \in Seq(Keys)
            BY <2>3, AppendProperties DEF RmOK
        <3>2. QED
            BY <1>0, <2>1, <2>3, <3>1 DEF RmOK, TasksOK
    <2>4. QED
        BY <1>2, <2>2, <2>3 DEF RmLaunch
<1>3. ASSUME NEW k \in Keys, RmRefuse(k) PROVE TypeInv'
    <2>1. /\ queue \in Seq(Keys) /\ <<k>> \in Seq(Keys) /\ (queue' = <<k>> \o queue \/ UNCHANGED queue)
          /\ popped' \subseteq Keys /\ UNCHANGED <<live, tabKey, analysis, runJson, bus>>
        BY <1>3 DEF RmRefuse, RmOK
    <2>2. queue' \in Seq(Keys)
        BY <2>1, ConcatProperties
    <2>3. QED
        BY <1>0, <2>1, <2>2 DEF RmOK, TasksOK
<1>4. ASSUME NEW t \in Tabs, AgentWrites(t) PROVE TypeInv'
    <2>1. analysis' \in [Keys -> {"none", "written", "approved", "resolved"}]
        BY <1>4 DEF AgentWrites, RmOK
    <2>2. QED
        BY <1>0, <1>4, <2>1 DEF AgentWrites, RmOK, TasksOK
<1>5. ASSUME NEW t \in Tabs, NEW status \in Status, RunEnds(t, status) PROVE TypeInv'
    <2>1. /\ t \in live /\ live' = live \ {t} /\ bus' = Append(bus, RunComplete(t, status))
          /\ UNCHANGED <<analysis, queue, popped, tabKey>>
          /\ runJson' \in {runJson, [runJson EXCEPT ![tabKey[t]] = NoTab]}
        BY <1>5 DEF RunEnds
    <2>2. RunComplete(t, status) \in EventType
        BY DEF RunComplete, EventType
    <2>3. bus' \in Seq(EventType)
        BY <2>1, <2>2, AppendProperties DEF TasksOK
    <2>4. tabKey[t] \in Keys
        BY <2>1, ElementOfSeq, LenProperties DEF RmOK
    <2>5. runJson' \in [Keys -> Tabs \cup {NoTab}]
        BY <2>1, <2>4 DEF RmOK
    <2>6. QED
        BY <1>0, <2>1, <2>3, <2>5 DEF RmOK, TasksOK
<1>6. ASSUME NEW k \in Keys, Approve(k) PROVE TypeInv'
    <2>1. analysis' \in [Keys -> {"none", "written", "approved", "resolved"}]
        BY <1>6 DEF Approve, RmOK
    <2>2. QED
        BY <1>0, <1>6, <2>1 DEF Approve, RmOK, TasksOK
<1>7. QED
    BY <1>1, <1>2, <1>3, <1>4, <1>5, <1>6 DEF RunManager

\* GitHub and its pollers.
LEMMA GithubTyped == TypeInv /\ Github => TypeInv'
<1> SUFFICES ASSUME TypeInv, Github PROVE TypeInv'
    OBVIOUS
<1> USE DEF TypeInv, TypeOK
<1>0. OrchOK' /\ RmOK' /\ Len(tabKey') <= MaxTabs /\ UNCHANGED <<todo, armed, stray>>
    BY DEF Github, Push, PollMerges, PrChanges, PollPrs, PollIssues, OrchOK, RmOK
<1>1. ASSUME NEW k \in Prs, Push(k) PROVE TypeInv'
    <2>1. GithubOK'
        BY <1>1, BoundsAssumption DEF Push, GithubOK
    <2>2. QED
        BY <1>0, <1>1, <2>1 DEF Push, TasksOK
<1>2. ASSUME NEW k \in Prs, PollMerges(k) PROVE TypeInv'
    <2>1. GithubOK'
        BY <1>2 DEF PollMerges, GithubOK
    <2>2. [type |-> "PrMerged", key |-> k] \in EventType
        BY DEF EventType
    <2>3. bus' \in Seq(EventType)
        BY <1>2, <2>2, AppendProperties DEF PollMerges, TasksOK
    <2>4. QED
        BY <1>0, <2>1, <2>3 DEF TasksOK
<1>3. ASSUME NEW k \in Prs, NEW s \in OpenState \cup {"closed", "merged"}, PrChanges(k, s) PROVE TypeInv'
    <2>1. GithubOK'
        BY <1>3, BoundsAssumption DEF PrChanges, GithubOK
    <2>2. QED
        BY <1>0, <1>3, <2>1 DEF PrChanges, TasksOK
<1>4. CASE PollPrs
    <2>1. Snapshot \in [Prs -> OpenState \cup {"closed"}]
        BY DEF Snapshot
    <2>2. GithubOK'
        BY <1>4, <2>1 DEF PollPrs, GithubOK
    <2>3. [type |-> "PrStatusChanged", prs |-> Snapshot] \in EventType
        BY <2>1 DEF EventType
    <2>4. bus' \in Seq(EventType)
        BY <1>4, <2>3, AppendProperties DEF PollPrs, TasksOK
    <2>5. QED
        BY <1>0, <2>2, <2>4 DEF TasksOK
<1>5. CASE PollIssues
    <2>1. [type |-> "IssueDetected"] \in EventType
        BY DEF EventType
    <2>2. bus' \in Seq(EventType)
        BY <1>5, <2>1, AppendProperties DEF PollIssues, TasksOK
    <2>3. QED
        BY <1>0, <1>5, <2>2 DEF PollIssues, TasksOK, GithubOK
<1>6. QED
    BY <1>1, <1>2, <1>3, <1>4, <1>5 DEF Github

\* The effects, and the end of a session.
LEMMA FinishTyped ==
    ASSUME TypeInv, NEW w \in Workers, ApplySessionEnd(w)
    PROVE  TypeInv'
<1> USE DEF TypeInv, TypeOK
<1> DEFINE k == Key(w)
           attempt == running[k].attempt
           runningType == [tab : Tabs \cup {NoTab}, attempt : Nat]
           reviewType == [attempt : Nat, stale : BOOLEAN]
<1>0. /\ todo[w] # <<>> /\ k \in Keys /\ bus' \in Seq(EventType)
      /\ armed' \subseteq Keys /\ stray' \subseteq Keys /\ running' = Without(running, {k})
      /\ RmOK' /\ GithubOK' /\ Len(tabKey') <= MaxTabs /\ mergedPrs' = mergedPrs
    <2>1. todo[w] # <<>> /\ HandlerFrame /\ UNCHANGED <<mergedPrs, bus, timerVars>>
             /\ running' = Without(running, {k})
        BY DEF ApplySessionEnd, Next1
    <2>2. QED
        BY <2>1, HeadTyped DEF RmOK, GithubOK, TasksOK
<1>1. DOMAIN running' \subseteq Keys /\ running' \in [DOMAIN running' -> runningType]
    BY <1>0, EntriesTyped
<1>2. CASE k \notin DOMAIN running
    <2>1. Done(w) /\ UNCHANGED <<claimed, completed, retryQueue, reviewReady>>
        BY <1>2 DEF ApplySessionEnd
    <2>2. TasksOK'
        BY <1>0, <2>1, DoneTyped
    <2>3. QED
        BY <1>0, <1>1, <2>1, <2>2 DEF OrchOK
<1>3. CASE k \in DOMAIN running
    <2>1. attempt \in Nat
        BY <1>3 DEF OrchOK
    <2>2. CASE /\ reviewReady' = Put(reviewReady, k, [attempt |-> attempt, stale |-> FALSE])
               /\ Done(w) /\ UNCHANGED <<claimed, completed, retryQueue>>
        <3>1. TasksOK'
            BY <1>0, <2>2, DoneTyped
        <3>2. DOMAIN reviewReady' \subseteq Keys /\ reviewReady' \in [DOMAIN reviewReady' -> reviewType]
            BY <1>0, <2>1, <2>2 DEF OrchOK, Put
        <3>3. QED
            BY <1>0, <1>1, <2>2, <3>1, <3>2 DEF OrchOK
    <2>3. CASE /\ claimed' = claimed \ {k} /\ completed' = completed \cup {k}
               /\ Done(w) /\ UNCHANGED <<retryQueue, reviewReady>>
        <3>1. TasksOK'
            BY <1>0, <2>3, DoneTyped
        <3>2. QED
            BY <1>0, <1>1, <2>3, <3>1 DEF OrchOK
    <2>4. CASE /\ retryQueue' = Put(retryQueue, k, attempt + 1)
               /\ Becomes(w, "schedule") /\ UNCHANGED <<claimed, completed, reviewReady>>
        <3>1. TasksOK'
            BY <1>0, <2>4, BecomesTyped DEF EffectKind
        <3>2. DOMAIN retryQueue' \subseteq Keys /\ retryQueue' \in [DOMAIN retryQueue' -> Nat]
            BY <1>0, <2>1, <2>4 DEF OrchOK, Put
        <3>3. QED
            BY <1>0, <1>1, <2>4, <3>1, <3>2 DEF OrchOK
    <2>5. QED
        BY <1>3, <2>2, <2>3, <2>4 DEF ApplySessionEnd
<1>4. QED
    BY <1>2, <1>3

LEMMA StopTyped ==
    ASSUME TypeInv, NEW w \in Workers, StopSession(w)
    PROVE  TypeInv'
<1> USE DEF TypeInv, TypeOK
<1> DEFINE t == Head(todo[w]).tab
           kept == {i \in DOMAIN queue : queue[i] # Key(w)}
<1>1. /\ todo[w] # <<>> /\ OrchOK' /\ GithubOK'
      /\ UNCHANGED <<armed, stray, analysis, runJson, popped, tabKey>>
    BY DEF StopSession, Next1, OrchOK, GithubOK
<1>2. bus' \in Seq(EventType) /\ live' \subseteq live
    <2>1. CASE t \in live
        <3>1. /\ live' = live \ {t} /\ bus' = Append(bus, RunComplete(t, "failed"))
            BY <2>1 DEF StopSession
        <3>2. DOMAIN tabKey = 1..Len(tabKey) /\ Len(tabKey) \in Nat /\ Len(tabKey) <= MaxTabs
            BY LenProperties DEF RmOK
        <3>3. t \in Tabs
            BY <2>1, <3>2, BoundsAssumption DEF RmOK, Tabs
        <3>4. RunComplete(t, "failed") \in EventType
            BY <3>3 DEF RunComplete, EventType, Status
        <3>5. QED
            BY <3>1, <3>4, AppendProperties DEF TasksOK
    <2>2. CASE t \notin live
        BY <2>2 DEF StopSession, TasksOK
    <2>3. QED
        BY <2>1, <2>2
<1>3. queue' \in Seq(Keys)
    <2>1. PICK f \in [1..Cardinality(kept) -> kept] : queue' = [i \in DOMAIN f |-> queue[f[i]]]
        BY DEF StopSession
    <2>2. queue \in Seq(Keys) /\ Len(queue) \in Nat /\ DOMAIN queue = 1..Len(queue)
        BY LenProperties DEF RmOK
    <2>3. Cardinality(kept) \in Nat
        <3>1. IsFiniteSet(1..Len(queue))
            BY <2>2, FS_Interval
        <3>2. IsFiniteSet(kept)
            BY <2>2, <3>1, FS_Subset
        <3>3. QED
            BY <3>2, FS_CardinalityType
    <2>4. \A i \in DOMAIN f : queue[f[i]] \in Keys
        BY <2>2, ElementOfSeq
    <2>5. QED
        BY <2>1, <2>3, <2>4
<1>4. TasksOK'
    BY <1>1, <1>2, DoneTyped, BecomesTyped DEF StopSession, TasksOK, EffectKind
<1>5. RmOK'
    BY <1>1, <1>2, <1>3 DEF RmOK
<1>6. QED
    BY <1>1, <1>4, <1>5

LEMMA ExecuteTyped ==
    ASSUME TypeInv, NEW w \in Workers, Execute(w)
    PROVE  TypeInv'
<1> USE DEF TypeInv, TypeOK
<1>0. /\ bus \in Seq(EventType) /\ armed \subseteq Keys /\ stray \subseteq Keys
      /\ todo[w] # <<>> => Key(w) \in Keys /\ Head(todo[w]).batch \subseteq Keys
    BY HeadTyped DEF TasksOK
<1>1. CASE IssueTrigger(w)
    <2>1. todo[w] # <<>> /\ HandlerFrame /\ claimed' \subseteq claimed
             /\ UNCHANGED <<completed, mergedPrs, running, retryQueue, reviewReady, bus, timerVars>>
        BY <1>1 DEF IssueTrigger, Next1
    <2>2. Do(w, <<>>) \/ Becomes(w, "dispatch")
        BY <1>1 DEF IssueTrigger
    <2>3. TasksOK'
        BY <1>0, <2>1, <2>2, DoTyped, BecomesTyped, EmptySeq DEF EffectKind
    <2>4. QED
        BY <2>1, <2>3 DEF OrchOK, RmOK, GithubOK
<1>2. CASE DispatchFails(w)
    <2>1. TasksOK'
        BY <1>0, <1>2, DoneTyped DEF DispatchFails, Next1
    <2>2. QED
        BY <1>2, <2>1 DEF DispatchFails, ClaimsAfterFailure, OrchOK, RmOK, GithubOK
<1>3. CASE EnqueueRun(w)
    <2>1. TasksOK'
        BY <1>0, <1>3, BecomesTyped DEF EnqueueRun, Next1, EffectKind
    <2>2. Key(w) \in Keys /\ UNCHANGED <<orchVars, analysis, popped, githubVars>>
        BY <1>0, <1>3 DEF EnqueueRun, Next1
    <2>3. RmOK' /\ Len(tabKey') <= MaxTabs
        <3>1. CASE StartSession(Key(w)) /\ UNCHANGED queue
            BY <2>2, <3>1, StartTyped DEF RmOK
        <3>2. CASE queue' = Append(queue, Key(w)) /\ UNCHANGED <<live, tabKey, runJson>>
            <4>1. queue' \in Seq(Keys)
                BY <2>2, <3>2, AppendProperties DEF RmOK
            <4>2. QED
                BY <2>2, <3>2, <4>1 DEF RmOK
        <3>3. QED
            BY <1>3, <3>1, <3>2 DEF EnqueueRun
    <2>4. QED
        BY <2>1, <2>2, <2>3 DEF OrchOK, GithubOK
<1>4. CASE EnqueueFails(w)
    <2>1. TasksOK'
        BY <1>0, <1>4, DoneTyped DEF EnqueueFails, Next1
    <2>2. queue' \in Seq(Keys)
        <3> DEFINE waiting == Append(queue, Key(w))
        <3>1. waiting \in Seq(Keys) /\ waiting # <<>>
            BY <1>0, <1>4, AppendProperties DEF EnqueueFails, Next1, RmOK
        <3>2. Tail(waiting) \in Seq(Keys)
            BY <3>1, HeadTailProperties
        <3>3. QED
            BY <1>4, <3>1, <3>2 DEF EnqueueFails
    <2>3. QED
        BY <1>4, <2>1, <2>2 DEF EnqueueFails, ClaimsAfterFailure, OrchOK, RmOK, GithubOK
<1>5. CASE LoadTab(w)
    <2> DEFINE e == [Head(todo[w]) EXCEPT !.do = "record", !.tab = LoadedTab(Key(w))]
    <2>1. Next1(w, "load") /\ Do(w, <<e>> \o Tail(todo[w]))
             /\ UNCHANGED <<orchVars, bus, timerVars>> /\ HandlerFrame
        BY <1>5 DEF LoadTab
    <2>2. LoadedTab(Key(w)) \in Tabs \cup {NoTab}
        BY <1>0, <2>1 DEF LoadedTab, RmOK, Next1
    <2>3. e \in EffectType
        BY <2>1, <2>2, HeadTyped DEF EffectType, EffectKind, Next1
    <2>4. <<e>> \o Tail(todo[w]) \in Seq(EffectType)
        BY <2>1, <2>3, HeadTyped, ConcatProperties DEF Next1
    <2> HIDE DEF e
    <2>5. TasksOK'
        BY <1>0, <2>1, <2>4, DoTyped
    <2>6. QED
        BY <2>1, <2>5 DEF OrchOK, RmOK, GithubOK
<1>6. CASE RecordRunning(w)
    <2>1. TasksOK'
        BY <1>0, <1>6, DoneTyped DEF RecordRunning, Next1
    <2> DEFINE entry == [tab |-> Head(todo[w]).tab, attempt |-> Head(todo[w]).attempt]
    <2>2. Key(w) \in Keys /\ entry \in [tab : Tabs \cup {NoTab}, attempt : Nat]
        BY <1>6, HeadTyped DEF RecordRunning, Next1
    <2>3. running' = Put(running, Key(w), entry)
        BY <1>6 DEF RecordRunning
    <2>4. DOMAIN running' \subseteq Keys /\ running' \in [DOMAIN running' -> [tab : Tabs \cup {NoTab}, attempt : Nat]]
        BY <2>2, <2>3 DEF OrchOK, Put
    <2>5. QED
        BY <1>6, <2>1, <2>4 DEF RecordRunning, OrchOK, RmOK, GithubOK
<1>7. CASE StopSession(w)
    BY <1>7, StopTyped
<1>8. CASE CleanupMetadata(w)
    <2>1. TasksOK'
        BY <1>0, <1>8, DoneTyped DEF CleanupMetadata, Next1
    <2>2. analysis' \in [Keys -> {"none", "written", "approved", "resolved"}]
        BY <1>0, <1>8 DEF CleanupMetadata, RmOK
    <2>3. QED
        BY <1>8, <2>1, <2>2 DEF CleanupMetadata, OrchOK, RmOK, GithubOK
<1>9. CASE ScheduleRetry(w)
    <2>1. /\ todo[w] # <<>> /\ Done(w) /\ armed' \subseteq Keys /\ stray' \subseteq Keys
          /\ UNCHANGED <<orchVars, bus>> /\ HandlerFrame
        BY <1>0, <1>9 DEF ScheduleRetry, Next1
    <2>2. TasksOK'
        BY <1>0, <2>1, DoneTyped
    <2>3. QED
        BY <2>1, <2>2 DEF OrchOK, RmOK, GithubOK
<1>10. CASE CancelRetry(w)
    <2>1. /\ todo[w] # <<>> /\ Done(w) /\ armed' \subseteq Keys /\ stray' \subseteq Keys
          /\ UNCHANGED <<orchVars, bus>> /\ HandlerFrame
        BY <1>0, <1>10 DEF CancelRetry, Next1
    <2>2. TasksOK'
        BY <1>0, <2>1, DoneTyped
    <2>3. QED
        BY <2>1, <2>2 DEF OrchOK, RmOK, GithubOK
<1>11. CASE ApplySessionEnd(w)
    BY <1>11, FinishTyped
<1>12. QED
    BY <1>1, <1>2, <1>3, <1>4, <1>5, <1>6, <1>7, <1>8, <1>9, <1>10, <1>11 DEF Execute

\* Every step keeps the types.
LEMMA StepTyped == TypeInv /\ [Next]_vars => TypeInv'
<1> SUFFICES ASSUME TypeInv, [Next]_vars PROVE TypeInv'
    OBVIOUS
<1>1. CASE BusLags
    <2>1. bus' \in Seq(EventType)
        BY <1>1, EventFields DEF BusLags, TypeInv, TypeOK
    <2>2. QED
        BY <1>1, <2>1 DEF BusLags, TypeInv, TypeOK, OrchOK, TasksOK, RmOK, GithubOK
<1>2. ASSUME NEW k \in Keys, TimerFires(k) PROVE TypeInv'
    <2>1. [type |-> "RetryDue", key |-> k] \in EventType
        BY DEF EventType
    <2>2. bus' \in Seq(EventType)
        BY <1>2, <2>1, AppendProperties DEF TimerFires, TypeInv, TypeOK, TasksOK
    <2>3. armed' \subseteq Keys /\ stray' \subseteq Keys
        BY <1>2 DEF TimerFires, TypeInv, TypeOK, TasksOK
    <2>4. QED
        BY <1>2, <2>2, <2>3 DEF TimerFires, TypeInv, TypeOK, OrchOK, TasksOK, RmOK, GithubOK
<1>3. CASE UNCHANGED vars
    BY <1>3 DEF vars, TypeInv, TypeOK, OrchOK, TasksOK, RmOK, GithubOK
<1>4. QED
    BY <1>1, <1>2, <1>3, HandleTyped, UserTyped, RunManagerTyped, GithubTyped, ExecuteTyped DEF Next

LEMMA TypeHolds == Spec => []TypeInv
<1>1. QED
    BY InitTyped, StepTyped, PTL DEF Spec

\* The state is well typed in every deployment, of any number of pull requests
\* and issues, with users or without: every effect, event, entry and timer is of
\* a key the orchestrator knows (apply_* and execute_effects).
THEOREM TypeCorrect == Spec => []TypeOK
<1>1. TypeInv => TypeOK
    BY DEF TypeInv
<1>2. QED
    BY <1>1, TypeHolds, PTL
-----------------------------------------------------------------------------
(* The list of effects of the loop                                         *)

\* A session of the key is being started; the key is claimed by this effect.
Starts(e)  == e.do \in {"dispatch", "load", "record"}
Claiming(e) == e.do = "issue" \/ Starts(e)

\* The keys a list starts sessions for, each with its attempt.
Starting(s)   == {s[i].key : i \in {j \in DOMAIN s : Starts(s[j])}}
StartOf(s, k) == CHOOSE i \in DOMAIN s : Starts(s[i]) /\ s[i].key = k
Attempts(s)   == [k \in Starting(s) |-> s[StartOf(s, k)].attempt]

\* Every key is claimed by one effect; the end of a session is handled alone;
\* the triggers of an issue event are the rest of the list they are in; a
\* session's attempt is within the limit.
ListOK(s) ==
    /\ \A i, j \in DOMAIN s : i # j /\ Claiming(s[i]) /\ Claiming(s[j]) => s[i].key # s[j].key
    /\ \A i \in DOMAIN s : s[i].do \in {"finish", "schedule"} => Len(s) = 1
    /\ \A i \in DOMAIN s : s[i].do = "issue" =>
          /\ s[i].key \in Issues /\ s[i].batch \subseteq Issues
          /\ \A j \in DOMAIN s : j # 1 => s[j].do = "issue"
    /\ \A i \in DOMAIN s : Starts(s[i]) /\ s[i].key \in Prs => s[i].attempt \in 1..MaxRetries

\* The rest of a list, and a list whose first effect goes on as another.
LEMMA TailIs ==
    ASSUME NEW s \in Seq(EffectType), s # <<>>
    PROVE  /\ Tail(s) \in Seq(EffectType) /\ Head(s) = s[1] /\ 1 \in DOMAIN s
           /\ Len(s) \in Nat /\ DOMAIN s = 1..Len(s)
           /\ DOMAIN Tail(s) = 1..(Len(s) - 1) /\ Len(Tail(s)) = Len(s) - 1
           /\ \A i \in DOMAIN Tail(s) : i + 1 \in DOMAIN s /\ i + 1 # 1 /\ Tail(s)[i] = s[i + 1]
           /\ \A j \in DOMAIN s \ {1} : j - 1 \in DOMAIN Tail(s) /\ Tail(s)[j - 1] = s[j]
<1>1. Len(s) \in Nat /\ DOMAIN s = 1..Len(s) /\ Len(s) > 0 /\ Head(s) = s[1]
    BY LenProperties, EmptySeq
<1>2. Tail(s) \in Seq(EffectType) /\ Len(Tail(s)) = Len(s) - 1
      /\ \A i \in 1..Len(Tail(s)) : Tail(s)[i] = s[i + 1]
    BY <1>1, HeadTailProperties
<1>3. DOMAIN Tail(s) = 1..(Len(s) - 1)
    BY <1>2, LenProperties
<1>4. QED
    BY <1>1, <1>2, <1>3

LEMMA GoesOnIs ==
    ASSUME NEW s \in Seq(EffectType), s # <<>>, NEW e \in EffectType
    PROVE  /\ <<e>> \o Tail(s) \in Seq(EffectType) /\ Len(<<e>> \o Tail(s)) = Len(s)
           /\ DOMAIN (<<e>> \o Tail(s)) = DOMAIN s
           /\ (<<e>> \o Tail(s))[1] = e
           /\ \A i \in DOMAIN s \ {1} : (<<e>> \o Tail(s))[i] = s[i]
<1> DEFINE t == Tail(s)
           c == <<e>> \o t
<1>1. /\ t \in Seq(EffectType) /\ Len(s) \in Nat /\ DOMAIN s = 1..Len(s) /\ 1 \in DOMAIN s
      /\ Len(t) = Len(s) - 1
      /\ \A j \in DOMAIN s \ {1} : t[j - 1] = s[j]
    BY TailIs
<1>2. <<e>> \in Seq(EffectType) /\ Len(<<e>>) = 1 /\ <<e>>[1] = e
    OBVIOUS
<1> HIDE DEF t
<1>3. c \in Seq(EffectType) /\ Len(c) = 1 + Len(t)
    BY <1>1, <1>2, ConcatProperties
<1>4. \A i \in 1..Len(c) : c[i] = IF i <= 1 THEN <<e>>[i] ELSE t[i - 1]
    BY <1>1, <1>2, ConcatProperties
<1> HIDE DEF c
<1>a. Len(c) = Len(s)
    BY <1>1, <1>3
<1>5. DOMAIN c = DOMAIN s /\ Len(c) = Len(s)
    BY <1>1, <1>3, <1>a, LenProperties
<1>6. QED
    BY <1>1, <1>2, <1>3, <1>4, <1>5 DEF t, c

\* The attempts of a list are those of its effects, and nothing else.
LEMMA AttemptIs ==
    ASSUME NEW s, ListOK(s), NEW i \in DOMAIN s, Starts(s[i])
    PROVE  s[i].key \in DOMAIN Attempts(s) /\ Attempts(s)[s[i].key] = s[i].attempt
<1>1. s[i].key \in Starting(s)
    BY DEF Starting
<1>2. /\ StartOf(s, s[i].key) \in DOMAIN s /\ Starts(s[StartOf(s, s[i].key)])
      /\ s[StartOf(s, s[i].key)].key = s[i].key
    BY DEF StartOf
<1>3. StartOf(s, s[i].key) = i
    BY <1>2 DEF ListOK, Claiming
<1>4. QED
    BY <1>1, <1>3 DEF Attempts

LEMMA AttemptsAre ==
    ASSUME NEW s, ListOK(s), NEW f, DOMAIN f = Starting(s), f = [k \in DOMAIN f |-> f[k]],
           \A i \in DOMAIN s : Starts(s[i]) => f[s[i].key] = s[i].attempt
    PROVE  Attempts(s) = f
<1>1. \A k \in DOMAIN f : Attempts(s)[k] = f[k]
    BY AttemptIs DEF Starting
<1>2. QED
    BY <1>1 DEF Attempts

LEMMA TailListOK ==
    ASSUME NEW s \in Seq(EffectType), s # <<>>, ListOK(s)
    PROVE  /\ ListOK(Tail(s))
           /\ Attempts(Tail(s)) = IF Starts(Head(s)) THEN Without(Attempts(s), {Head(s).key})
                                  ELSE Attempts(s)
<1> DEFINE t == Tail(s)
<1>1. /\ t \in Seq(EffectType) /\ Head(s) = s[1] /\ 1 \in DOMAIN s
      /\ Len(s) \in Nat /\ DOMAIN s = 1..Len(s) /\ Len(t) = Len(s) - 1 /\ DOMAIN t = 1..(Len(s) - 1)
      /\ \A i \in DOMAIN t : i + 1 \in DOMAIN s /\ i + 1 # 1 /\ t[i] = s[i + 1]
      /\ \A j \in DOMAIN s \ {1} : j - 1 \in DOMAIN t /\ t[j - 1] = s[j]
    BY TailIs
<1> HIDE DEF t
<1>2. \A i, j \in DOMAIN t : i # j /\ Claiming(t[i]) /\ Claiming(t[j]) => t[i].key # t[j].key
    BY <1>1 DEF ListOK
<1>3. \A i \in DOMAIN t : t[i].do \in {"finish", "schedule"} => Len(t) = 1
    BY <1>1 DEF ListOK
<1>4. \A i \in DOMAIN t : t[i].do = "issue" =>
          /\ t[i].key \in Issues /\ t[i].batch \subseteq Issues
          /\ \A j \in DOMAIN t : j # 1 => t[j].do = "issue"
    BY <1>1 DEF ListOK
<1>5. \A i \in DOMAIN t : Starts(t[i]) /\ t[i].key \in Prs => t[i].attempt \in 1..MaxRetries
    BY <1>1 DEF ListOK
<1>6. ASSUME NEW k PROVE k \in Starting(t) <=> k \in Starting(s) /\ ~(Starts(Head(s)) /\ k = Head(s).key)
    <2>1. ASSUME k \in Starting(t) PROVE k \in Starting(s) /\ ~(Starts(Head(s)) /\ k = Head(s).key)
        <3>1. PICK i \in DOMAIN t : Starts(t[i]) /\ t[i].key = k
            BY <2>1 DEF Starting
        <3>2. i + 1 \in DOMAIN s /\ i + 1 # 1 /\ Starts(s[i + 1]) /\ s[i + 1].key = k
            BY <1>1, <3>1
        <3>3. QED
            BY <1>1, <3>2 DEF ListOK, Starting, Claiming
    <2>2. ASSUME k \in Starting(s), ~(Starts(Head(s)) /\ k = Head(s).key) PROVE k \in Starting(t)
        <3>1. PICK j \in DOMAIN s : Starts(s[j]) /\ s[j].key = k
            BY <2>2 DEF Starting
        <3>2. j \in DOMAIN s \ {1}
            BY <1>1, <2>2, <3>1
        <3>3. j - 1 \in DOMAIN t /\ t[j - 1] = s[j]
            BY <1>1, <3>2
        <3>4. QED
            BY <3>1, <3>3 DEF Starting
    <2>3. QED
        BY <2>1, <2>2
<1>7. ListOK(t)
    BY <1>2, <1>3, <1>4, <1>5 DEF ListOK
<1>8. Starting(t) = Starting(s) \ (IF Starts(Head(s)) THEN {Head(s).key} ELSE {})
    BY <1>6
<1> DEFINE f == IF Starts(Head(s)) THEN Without(Attempts(s), {Head(s).key}) ELSE Attempts(s)
<1>9. DOMAIN f = Starting(t) /\ f = [k \in DOMAIN f |-> f[k]]
    BY <1>8 DEF Attempts, Without, Restrict
<1>10. ASSUME NEW i \in DOMAIN t, Starts(t[i]) PROVE f[t[i].key] = t[i].attempt
    <2>1. t[i].key \in Starting(t)
        BY <1>10 DEF Starting
    <2>2. f[t[i].key] = Attempts(s)[t[i].key]
        BY <1>8, <2>1 DEF Without, Restrict, Attempts
    <2>3. i + 1 \in DOMAIN s /\ t[i] = s[i + 1]
        BY <1>1
    <2>4. QED
        BY <1>10, <2>2, <2>3, AttemptIs
<1> HIDE DEF f
<1>11. Attempts(t) = f
    BY <1>7, <1>9, <1>10, AttemptsAre
<1>12. QED
    BY <1>7, <1>11 DEF t, f

\* An effect goes on as another one: a start as the next part of the start, a
\* trigger as a start, a stop as its cleanup, an end as the timer it sets.
LEMMA GoesOnListOK ==
    ASSUME NEW s \in Seq(EffectType), s # <<>>, ListOK(s), NEW e \in EffectType,
           e.key = Head(s).key, e.attempt = Head(s).attempt,
           \/ Starts(Head(s)) /\ Starts(e)
           \/ Head(s).do = "issue" /\ e.do = "dispatch"
           \/ Head(s).do = "stop_and_clean" /\ e.do = "cleanup"
           \/ Head(s).do = "finish" /\ e.do = "schedule"
    PROVE  /\ ListOK(<<e>> \o Tail(s))
           /\ Attempts(<<e>> \o Tail(s)) = IF Head(s).do = "issue" THEN [k \in {e.key} |-> e.attempt]
                                           ELSE Attempts(s)
           /\ Head(s).do = "issue" => Starting(s) = {}
<1> DEFINE c == <<e>> \o Tail(s)
<1>1. /\ c \in Seq(EffectType) /\ Len(c) = Len(s) /\ DOMAIN c = DOMAIN s /\ c[1] = e
      /\ \A i \in DOMAIN s \ {1} : c[i] = s[i]
    BY GoesOnIs
<1>2. Head(s) = s[1] /\ 1 \in DOMAIN s
    BY TailIs
<1>a. Issues \cap Prs = {}
    BY KeyAssumption
<1> HIDE DEF c
<1>3. \A i \in DOMAIN s : Claiming(c[i]) => Claiming(s[i]) /\ c[i].key = s[i].key
    BY <1>1, <1>2 DEF Claiming, Starts
<1>4. \A i, j \in DOMAIN c : i # j /\ Claiming(c[i]) /\ Claiming(c[j]) => c[i].key # c[j].key
    BY <1>1, <1>3 DEF ListOK
<1>5. \A i \in DOMAIN c : c[i].do \in {"finish", "schedule"} => Len(c) = 1
    BY <1>1, <1>2 DEF ListOK, Starts
<1>6. \A i \in DOMAIN c : c[i].do = "issue" =>
          /\ c[i].key \in Issues /\ c[i].batch \subseteq Issues
          /\ \A j \in DOMAIN c : j # 1 => c[j].do = "issue"
    BY <1>1, <1>2 DEF ListOK, Starts
<1>7. \A i \in DOMAIN c : Starts(c[i]) /\ c[i].key \in Prs => c[i].attempt \in 1..MaxRetries
    BY <1>1, <1>2, <1>a DEF ListOK, Starts
<1>8. ASSUME NEW k PROVE k \in Starting(c) <=> k \in Starting(s) \/ (Head(s).do = "issue" /\ k = e.key)
    <2>1. ASSUME NEW i \in DOMAIN s PROVE Starts(c[i]) <=> Starts(s[i]) \/ (i = 1 /\ Head(s).do = "issue")
        BY <1>1, <1>2 DEF Starts
    <2>2. \A i \in DOMAIN s : c[i].key = s[i].key
        BY <1>1, <1>2
    <2>3. QED
        BY <1>1, <1>2, <2>1, <2>2 DEF Starting
<1>9. ListOK(c)
    BY <1>4, <1>5, <1>6, <1>7 DEF ListOK
<1>10. Starting(c) = Starting(s) \cup (IF Head(s).do = "issue" THEN {e.key} ELSE {})
    BY <1>8
<1>11. Head(s).do = "issue" => Starting(s) = {}
    BY <1>2 DEF ListOK, Starts, Starting
<1> DEFINE f == IF Head(s).do = "issue" THEN [k \in {e.key} |-> e.attempt] ELSE Attempts(s)
<1>12. DOMAIN f = Starting(c) /\ f = [k \in DOMAIN f |-> f[k]]
    BY <1>10, <1>11 DEF Attempts
<1>13. ASSUME NEW i \in DOMAIN c, Starts(c[i]) PROVE f[c[i].key] = c[i].attempt
    <2>1. CASE Head(s).do = "issue"
        <3>1. i = 1
            BY <1>1, <1>2, <1>13, <2>1 DEF ListOK, Starts
        <3>2. QED
            BY <1>1, <2>1, <3>1
    <2>2. CASE Head(s).do # "issue"
        <3>1. Starts(s[i]) /\ s[i].key = c[i].key /\ s[i].attempt = c[i].attempt
            BY <1>1, <1>2, <1>13, <2>2 DEF Starts
        <3>2. QED
            BY <1>1, <2>2, <3>1, AttemptIs
    <2>3. QED
        BY <2>1, <2>2
<1> HIDE DEF f
<1>14. Attempts(c) = f
    BY <1>9, <1>12, <1>13, AttemptsAre
<1>15. QED
    BY <1>9, <1>11, <1>14 DEF c, f

\* Lists that start nothing, one session, or the issues of an event.
LEMMA StartsNothing ==
    ASSUME NEW s, \A i \in DOMAIN s : ~Starts(s[i])
    PROVE  Attempts(s) = Nothing
<1>1. Starting(s) = {}
    BY DEF Starting
<1>2. QED
    BY <1>1 DEF Attempts, Nothing

LEMMA EmptyList == ListOK(<<>>) /\ Attempts(<<>>) = Nothing
<1>1. DOMAIN <<>> = {}
    OBVIOUS
<1>2. QED
    BY <1>1, StartsNothing DEF ListOK

LEMMA OneEffect ==
    ASSUME NEW e \in EffectType, e.do # "issue",
           Starts(e) /\ e.key \in Prs => e.attempt \in 1..MaxRetries
    PROVE  /\ ListOK(<<e>>)
           /\ Attempts(<<e>>) = IF Starts(e) THEN [k \in {e.key} |-> e.attempt] ELSE Nothing
<1> DEFINE s == <<e>>
<1>1. DOMAIN s = {1} /\ s[1] = e /\ Len(s) = 1
    OBVIOUS
<1> HIDE DEF s
<1>2. ListOK(s)
    BY <1>1 DEF ListOK
<1>3. CASE Starts(e)
    <2> DEFINE f == [k \in {e.key} |-> e.attempt]
    <2>1. DOMAIN f = Starting(s) /\ f = [k \in DOMAIN f |-> f[k]]
        BY <1>1, <1>3 DEF Starting
    <2>2. \A i \in DOMAIN s : Starts(s[i]) => f[s[i].key] = s[i].attempt
        BY <1>1
    <2> HIDE DEF f
    <2>3. Attempts(s) = f
        BY <1>2, <2>1, <2>2, AttemptsAre
    <2>4. QED
        BY <1>2, <1>3, <2>3 DEF s, f
<1>4. CASE ~Starts(e)
    BY <1>1, <1>2, <1>4, StartsNothing DEF s
<1>5. QED
    BY <1>3, <1>4

LEMMA IssueList ==
    ASSUME NEW new \in SUBSET Issues, NEW order \in Orders(new)
    PROVE  LET s == [i \in DOMAIN order |-> [Effect("issue", order[i]) EXCEPT !.batch = new]]
           IN  ListOK(s) /\ Attempts(s) = Nothing
<1> DEFINE s == [i \in DOMAIN order |-> [Effect("issue", order[i]) EXCEPT !.batch = new]]
<1>1. IsFiniteSet(new)
    BY FS_Subset, FiniteAssumption
<1>2. /\ \A i \in DOMAIN order : order[i] \in new
      /\ \A i, j \in DOMAIN order : i # j => order[i] # order[j]
    BY <1>1, OrdersList
<1>3. /\ DOMAIN s = DOMAIN order
      /\ \A i \in DOMAIN s : s[i].do = "issue" /\ s[i].key = order[i] /\ s[i].batch = new
    BY DEF Effect
<1> HIDE DEF s
<1>4. \A i \in DOMAIN s : s[i].do \notin {"finish", "schedule"} /\ ~Starts(s[i])
    BY <1>3 DEF Starts
<1>5. ListOK(s)
    BY <1>2, <1>3, <1>4 DEF ListOK
<1>6. Attempts(s) = Nothing
    BY <1>4, StartsNothing
<1>7. QED
    BY <1>5, <1>6 DEF s

\* Sessions that stop and timers that are cancelled follow those that start.
LEMMA ListThen ==
    ASSUME NEW s \in Seq(EffectType), NEW t \in Seq(EffectType), ListOK(s),
           \A i \in DOMAIN s : s[i].do \in {"dispatch", "stop_and_clean", "cancel"},
           \A i \in DOMAIN t : t[i].do \in {"stop_and_clean", "cancel"}
    PROVE  /\ s \o t \in Seq(EffectType) /\ ListOK(s \o t) /\ Attempts(s \o t) = Attempts(s)
           /\ \A i \in DOMAIN (s \o t) : (s \o t)[i].do \in {"dispatch", "stop_and_clean", "cancel"}
<1> DEFINE c == s \o t
<1>1. /\ c \in Seq(EffectType) /\ Len(c) = Len(s) + Len(t) /\ Len(s) \in Nat /\ Len(t) \in Nat
      /\ DOMAIN s = 1..Len(s) /\ DOMAIN t = 1..Len(t)
      /\ \A i \in 1..Len(c) : c[i] = IF i <= Len(s) THEN s[i] ELSE t[i - Len(s)]
    BY ConcatProperties, LenProperties
<1> HIDE DEF c
<1>2. DOMAIN c = 1..Len(c)
    BY <1>1, LenProperties
<1>3. /\ \A i \in DOMAIN s : i \in DOMAIN c /\ c[i] = s[i]
      /\ \A i \in DOMAIN c : i \in DOMAIN s \/ c[i].do \in {"stop_and_clean", "cancel"}
    <2>1. \A i \in DOMAIN s : i \in DOMAIN c /\ c[i] = s[i]
        BY <1>1, <1>2
    <2>2. ASSUME NEW i \in DOMAIN c, i \notin DOMAIN s PROVE c[i] = t[i - Len(s)] /\ i - Len(s) \in DOMAIN t
        BY <1>1, <1>2, <2>2
    <2>3. QED
        BY <2>1, <2>2
<1>4. \A i \in DOMAIN c : c[i].do \in {"dispatch", "stop_and_clean", "cancel"}
    BY <1>3
<1>5. \A i \in DOMAIN c : Claiming(c[i]) => i \in DOMAIN s /\ c[i] = s[i]
    BY <1>3 DEF Claiming, Starts
<1>6. ListOK(c)
    BY <1>4, <1>5 DEF ListOK, Claiming
<1>7. Starting(c) = Starting(s)
    <2>1. \A i \in DOMAIN s : Starts(s[i]) => Starts(c[i]) /\ c[i].key = s[i].key /\ i \in DOMAIN c
        BY <1>3
    <2>2. \A i \in DOMAIN c : Starts(c[i]) => i \in DOMAIN s /\ c[i] = s[i]
        BY <1>5 DEF Claiming
    <2>3. QED
        BY <2>1, <2>2 DEF Starting
<1>8. \A i \in DOMAIN c : Starts(c[i]) => Attempts(s)[c[i].key] = c[i].attempt
    BY <1>5, AttemptIs DEF Claiming
<1>9. Attempts(c) = Attempts(s)
    BY <1>6, <1>7, <1>8, AttemptsAre DEF Attempts
<1>10. QED
    BY <1>1, <1>4, <1>6, <1>9 DEF c

LEMMA DispatchList ==
    ASSUME NEW D \in SUBSET Prs, NEW new \in Orders(D)
    PROVE  LET s == [i \in DOMAIN new |-> Dispatch(new[i], 1)]
           IN  s \in Seq(EffectType) /\ ListOK(s) /\ Attempts(s) = [k \in D |-> 1]
               /\ \A i \in DOMAIN s : s[i].do = "dispatch"
<1> DEFINE s == [i \in DOMAIN new |-> Dispatch(new[i], 1)]
           f == [k \in D |-> 1]
<1>1. IsFiniteSet(D)
    BY FS_Subset, FiniteAssumption
<1>2. /\ Cardinality(D) \in Nat /\ DOMAIN new = 1..Cardinality(D)
      /\ \A i \in DOMAIN new : new[i] \in D
      /\ \A i, j \in DOMAIN new : i # j => new[i] # new[j]
    BY <1>1, OrdersList
<1>3. DOMAIN s = DOMAIN new
      /\ \A i \in DOMAIN s : s[i].do = "dispatch" /\ s[i].key = new[i] /\ s[i].attempt = 1
    BY DEF Dispatch, Effect
<1>4. \A i \in DOMAIN new : Dispatch(new[i], 1) \in EffectType
    BY <1>2, EffectTyped DEF Dispatch, EffectKind, Keys
<1>5. s \in Seq(EffectType)
    BY <1>2, <1>4
<1> HIDE DEF s, f
<1>6. \A i \in DOMAIN s : Starts(s[i]) /\ s[i].do \notin {"issue", "finish", "schedule"}
    BY <1>3 DEF Starts
<1>7. ListOK(s)
    BY <1>2, <1>3, <1>6, RetryAssumption DEF ListOK
<1>8. Starting(s) = D
    <2>1. Range(new) = D
        BY DEF Orders
    <2>2. QED
        BY <1>3, <1>6, <2>1 DEF Starting, Range
<1>9. Attempts(s) = f
    <2>1. DOMAIN f = Starting(s) /\ f = [k \in DOMAIN f |-> f[k]]
        BY <1>8 DEF f
    <2>2. \A i \in DOMAIN s : Starts(s[i]) => f[s[i].key] = s[i].attempt
        BY <1>2, <1>3 DEF f
    <2>3. QED
        BY <1>7, <2>1, <2>2, AttemptsAre
<1>10. QED
    BY <1>3, <1>5, <1>7, <1>9 DEF s, f

-----------------------------------------------------------------------------
(* What a step does to the tables, whatever it does beside them            *)

\* The sessions the loop is starting, each with its attempt.
dispatching == Attempts(todo["loop"])

\* The attempts of a pull request stay within the limit.
AttemptsOK ==
    \A k \in Prs :
        /\ k \in DOMAIN running => running[k].attempt \in 1..MaxRetries
        /\ k \in DOMAIN retryQueue => retryQueue[k] \in 1..MaxRetries
        /\ k \in DOMAIN reviewReady => reviewReady[k].attempt \in 1..MaxRetries

\* Callers of apply_skip leave nothing but the session they stop.
ListInv ==
    /\ ListOK(todo["loop"])
    /\ \A i \in DOMAIN todo["user"] : todo["user"][i].do = "stop"

LifeInv == TypeInv /\ ListInv /\ AttemptsOK

\* Entries that go, or come, leave the others alone.
Loses(f, g, S) == DOMAIN g = DOMAIN f \ S /\ \A x \in DOMAIN g : g[x] = f[x]
Gains(f, g, k) == DOMAIN g = DOMAIN f \cup {k} /\ \A x \in DOMAIN f \ {k} : g[x] = f[x]

Keeps == UNCHANGED <<orchVars, dispatching>>

\* A list of pull requests is handled ...
Lists(prs, D) ==
    /\ dispatching = Nothing /\ D \in Chosen(prs)
    /\ dispatching' = [k \in D |-> 1]
    /\ claimed'     = (claimed \cup D) \ (StaleRunning(prs) \cup StaleRetries(prs))
    /\ Loses(running, running', StaleRunning(prs))
    /\ Loses(retryQueue, retryQueue', StaleRunning(prs) \cup StaleRetries(prs))
    /\ DOMAIN reviewReady' = DOMAIN reviewReady \ StaleRunning(prs)
    /\ \A k \in DOMAIN reviewReady' : reviewReady'[k].attempt = reviewReady[k].attempt
    /\ completed'   = completed \ Reactivated(prs)
\* ... a retry that is due ...
Retries(k) ==
    /\ dispatching = Nothing /\ k \in DOMAIN retryQueue /\ AvailableSlots # 0
    /\ dispatching' = [x \in {k} |-> retryQueue[k]]
    /\ Loses(retryQueue, retryQueue', {k})
    /\ UNCHANGED <<claimed, completed, running, reviewReady>>
\* ... a list of issues ...
ClaimsIssues(new) ==
    /\ new \subseteq Issues /\ claimed' = claimed \cup new
    /\ UNCHANGED <<dispatching, completed, running, retryQueue, reviewReady>>
\* ... a merge, or a skip.
Forgets(k) ==
    /\ Loses(running, running', {k})
    /\ claimed'     = claimed \ {k}
    /\ Loses(retryQueue, retryQueue', {k})
    /\ Loses(reviewReady, reviewReady', {k})
Merges(k) ==
    /\ dispatching = Nothing
    /\ dispatching' \in {Nothing, [x \in {Rescore(k)} |-> 1]}
    /\ Forgets(k) \/ UNCHANGED <<running, claimed, retryQueue, reviewReady>>
    /\ UNCHANGED completed
Skips(k) ==
    /\ "skip" \in Ops /\ Forgets(k) /\ completed' = completed \cup {k} /\ UNCHANGED dispatching

\* An issue's session is started if there is a slot.
StartsIssue(k) ==
    /\ dispatching = Nothing /\ AvailableSlots # 0
    /\ dispatching' = [x \in {k} |-> dispatching'[x]]
    /\ UNCHANGED <<claimed, completed, running, retryQueue, reviewReady>>
DropsIssues(batch) ==
    /\ batch \subseteq Issues /\ claimed' = claimed \ batch
    /\ UNCHANGED <<dispatching, completed, running, retryQueue, reviewReady>>

\* A session fails to start, or runs ...
FailsToStart(k) ==
    /\ k \in DOMAIN dispatching /\ Loses(dispatching, dispatching', {k})
    /\ claimed' = claimed \ {k}
    /\ UNCHANGED <<completed, running, retryQueue, reviewReady>>
Runs(k) ==
    /\ k \in DOMAIN dispatching /\ Loses(dispatching, dispatching', {k})
    /\ Gains(running, running', k) /\ running'[k].attempt = dispatching[k]
    /\ UNCHANGED <<claimed, completed, retryQueue, reviewReady>>
\* ... and ends: for its reviewer, for good, or for another attempt.
Ends(k) ==
    /\ k \in DOMAIN running /\ dispatching = Nothing /\ UNCHANGED dispatching
    /\ Loses(running, running', {k})
    /\ \/ /\ Gains(reviewReady, reviewReady', k)
          /\ reviewReady'[k].attempt = running[k].attempt
          /\ UNCHANGED <<claimed, completed, retryQueue>>
       \/ /\ claimed' = claimed \ {k} /\ completed' = completed \cup {k}
          /\ UNCHANGED <<retryQueue, reviewReady>>
       \/ /\ ~GivesUp(running[k].attempt)
          /\ Gains(retryQueue, retryQueue', k)
          /\ retryQueue'[k] = running[k].attempt + 1
          /\ UNCHANGED <<claimed, completed, reviewReady>>

Moves ==
    \/ Keeps
    \/ \E prs \in [Prs -> OpenState \cup {"closed"}] : \E D \in SUBSET Prs : Lists(prs, D)
    \/ \E k \in Keys : Retries(k) \/ FailsToStart(k) \/ Runs(k) \/ Ends(k)
    \/ \E k \in Prs : Merges(k) \/ Skips(k)
    \/ \E k \in Issues : StartsIssue(k)
    \/ \E new : ClaimsIssues(new) \/ DropsIssues(new)

\* Marking an analysis stale changes neither its key nor its attempt.
LEMMA MarkStaleEntries ==
    ASSUME LifeInv, NEW S, NEW prs
    PROVE  /\ DOMAIN MarkStale(Without(reviewReady, S), prs) = DOMAIN reviewReady \ S
           /\ \A k \in DOMAIN reviewReady \ S :
                 MarkStale(Without(reviewReady, S), prs)[k].attempt = reviewReady[k].attempt
<1> DEFINE r == Without(reviewReady, S)
<1>1. DOMAIN r = DOMAIN reviewReady \ S /\ \A k \in DOMAIN r : r[k] = reviewReady[k]
    BY DEF Without, Restrict
<1>2. \A k \in DOMAIN reviewReady : reviewReady[k] \in [attempt : Nat, stale : BOOLEAN]
    BY DEF LifeInv, TypeInv, TypeOK, OrchOK
<1>3. \A v \in [attempt : Nat, stale : BOOLEAN] : [v EXCEPT !.stale = TRUE].attempt = v.attempt
    OBVIOUS
<1> HIDE DEF r
<1>4. DOMAIN MarkStale(r, prs) = DOMAIN r
      /\ \A k \in DOMAIN r : MarkStale(r, prs)[k] \in {r[k], [r[k] EXCEPT !.stale = TRUE]}
    BY DEF MarkStale
<1>5. \A k \in DOMAIN r : MarkStale(r, prs)[k].attempt = reviewReady[k].attempt
    BY <1>1, <1>2, <1>3, <1>4
<1>6. QED
    BY <1>1, <1>4, <1>5 DEF r

\* What the code takes out of its tables and puts into them.
LEMMA WithoutLoses ==
    \A S : /\ Loses(running, Without(running, S), S)
           /\ Loses(retryQueue, Without(retryQueue, S), S)
           /\ Loses(reviewReady, Without(reviewReady, S), S)
           /\ Loses(dispatching, Without(dispatching, S), S)
BY DEF Loses, Without, Restrict

LEMMA PutGains ==
    \A k, v : /\ Gains(running, Put(running, k, v), k) /\ Put(running, k, v)[k] = v
              /\ Gains(retryQueue, Put(retryQueue, k, v), k) /\ Put(retryQueue, k, v)[k] = v
              /\ Gains(reviewReady, Put(reviewReady, k, v), k) /\ Put(reviewReady, k, v)[k] = v
BY DEF Gains, Put

\* Everything that is not the loop's: GitHub, the run manager, the bus, the
\* timers and the sessions users stop.
LEMMA OthersMove ==
    ASSUME LifeInv, "relaunch" \notin Ops,
           \/ User \/ RunManager \/ Github \/ BusLags \/ Execute("user")
           \/ \E k \in Keys : TimerFires(k)
           \/ UNCHANGED vars
    PROVE  ListInv' /\ Moves
<1> USE DEF LifeInv
<1>1. CASE User
    <2>1. PICK k \in Prs : ApplySkip(k)
        BY <1>1 DEF User, ApplyRelaunch, UserCalls
    <2>2. "skip" \in Ops /\ Forgets(k) /\ completed' = completed \cup {k}
        BY <2>1, WithoutLoses DEF ApplySkip, UserCalls, Forgets
    <2>3. /\ todo' = [todo EXCEPT !["user"] = todo'["user"]]
          /\ todo'["user"] \in {<<Stop("stop", k)>>, <<>>}
        BY <2>1 DEF ApplySkip, Do, TypeInv, TypeOK, TasksOK, Workers
    <2>4. todo'["loop"] = todo["loop"]
        BY <2>3 DEF TypeInv, TypeOK, TasksOK, Workers
    <2>5. \A i \in DOMAIN todo'["user"] : todo'["user"][i].do = "stop"
        <3>1. Stop("stop", k).do = "stop"
            BY DEF Stop, Effect
        <3>2. QED
            BY <2>3, <3>1
    <2>6. ListInv' /\ Skips(k)
        BY <2>2, <2>4, <2>5 DEF ListInv, Skips, dispatching
    <2>7. QED
        BY <2>6 DEF Moves
<1>2. CASE Execute("user")
    <2> DEFINE u == todo["user"]
    <2>1. u # <<>> /\ u \in Seq(EffectType)
        BY <1>2 DEF Execute, IssueTrigger, DispatchFails, EnqueueRun, EnqueueFails, LoadTab,
                    RecordRunning, StopSession, CleanupMetadata, ScheduleRetry, CancelRetry,
                    ApplySessionEnd, Next1, TypeInv, TypeOK, TasksOK, Workers
    <2>2. Head(u).do = "stop"
        BY <2>1, TailIs DEF ListInv
    <2>3. StopSession("user") /\ Next1("user", "stop") /\ ~Next1("user", "stop_and_clean")
        BY <1>2, <2>2, <2>1 DEF Execute, IssueTrigger, DispatchFails, EnqueueRun, EnqueueFails, LoadTab,
                    RecordRunning, CleanupMetadata, ScheduleRetry, CancelRetry, ApplySessionEnd, Next1
    <2>4. UNCHANGED orchVars /\ todo' = [todo EXCEPT !["user"] = Tail(u)]
        BY <2>3 DEF StopSession, Done, Do
    <2>5. todo'["loop"] = todo["loop"] /\ todo'["user"] = Tail(u)
        BY <2>4 DEF TypeInv, TypeOK, TasksOK, Workers
    <2>6. \A i \in DOMAIN Tail(u) : Tail(u)[i].do = "stop"
        BY <2>1, TailIs DEF ListInv
    <2>7. QED
        BY <2>4, <2>5, <2>6 DEF ListInv, Moves, Keeps, dispatching
<1>3. CASE \/ RunManager \/ Github \/ BusLags \/ (\E k \in Keys : TimerFires(k)) \/ UNCHANGED vars
    <2>1. UNCHANGED <<orchVars, todo>>
        BY <1>3 DEF RunManager, RmPop, RmLaunch, RmRefuse, AgentWrites, RunEnds, Approve,
                    Github, Push, PollMerges, PrChanges, PollPrs, PollIssues, BusLags, TimerFires, vars
    <2>2. QED
        BY <2>1 DEF ListInv, Moves, Keeps, dispatching
<1>4. QED
    BY <1>1, <1>2, <1>3

\* The events the loop handles.
LEMMA HandlersMove ==
    ASSUME LifeInv, Handle
    PROVE  ListInv' /\ Moves
<1> USE DEF LifeInv, TypeInv, TypeOK
<1>0. /\ bus # <<>> /\ todo["loop"] = <<>> /\ dispatching = Nothing
      /\ Head(bus) \in EventType
    <2>1. bus # <<>> /\ todo["loop"] = <<>>
        BY DEF Handle, PrStatusChanged, RunCompleted, RetryDue, IssueDetected, PrMerged, Receives
    <2>2. QED
        BY <2>1, EventFields, EmptyList DEF dispatching
<1>1. \A s : Do("loop", s) => todo'["loop"] = s /\ todo'["user"] = todo["user"]
    BY DEF Do, TasksOK, Workers
<1>2. ASSUME NEW s, Do("loop", s), ListOK(s) PROVE ListInv' /\ dispatching' = Attempts(s)
    BY <1>1, <1>2 DEF ListInv, dispatching
<1>3. ASSUME UNCHANGED todo PROVE ListInv' /\ UNCHANGED dispatching
    BY <1>3 DEF ListInv, dispatching
<1>4. CASE PrStatusChanged
    <2> DEFINE prs == Head(bus).prs
               gone == StaleRunning(prs)
               dropped == StaleRetries(prs)
    <2>1. PICK D \in Chosen(prs) :
            /\ claimed' = (claimed \cup D) \ (gone \cup dropped)
            /\ \E new \in Orders(D), stops \in Orders(gone), cancels \in Orders(dropped) :
                Do("loop", [i \in DOMAIN new |-> Dispatch(new[i], 1)]
                    \o [i \in DOMAIN stops |-> Stop("stop_and_clean", stops[i])]
                    \o [i \in DOMAIN cancels |-> Effect("cancel", cancels[i])])
        BY <1>4 DEF PrStatusChanged
    <2>2. /\ D \subseteq Prs /\ gone \subseteq Keys /\ dropped \subseteq Keys /\ gone \subseteq DOMAIN running
          /\ prs \in [Prs -> OpenState \cup {"closed"}]
        BY <2>1, <1>0, <1>4, EventFields
           DEF Chosen, Candidates, OrchOK, StaleRunning, StaleRetries, Closed, PrStatusChanged, Receives
    <2>3. PICK new \in Orders(D), stops \in Orders(gone), cancels \in Orders(dropped) :
                Do("loop", [i \in DOMAIN new |-> Dispatch(new[i], 1)]
                    \o [i \in DOMAIN stops |-> Stop("stop_and_clean", stops[i])]
                    \o [i \in DOMAIN cancels |-> Effect("cancel", cancels[i])])
        BY <2>1
    <2> DEFINE a == [i \in DOMAIN new |-> Dispatch(new[i], 1)]
               b == [i \in DOMAIN stops |-> Stop("stop_and_clean", stops[i])]
               c == [i \in DOMAIN cancels |-> Effect("cancel", cancels[i])]
    <2>4. a \in Seq(EffectType) /\ ListOK(a) /\ Attempts(a) = [k \in D |-> 1]
             /\ \A i \in DOMAIN a : a[i].do = "dispatch"
        BY <2>2, DispatchList
    <2>5. IsFiniteSet(gone) /\ IsFiniteSet(dropped)
        BY <2>2, KeysFinite, FS_Subset
    <2>6. b \in Seq(EffectType) /\ \A i \in DOMAIN b : b[i].do = "stop_and_clean"
        <3>1. \A k \in gone : running[k].tab \in Tabs \cup {NoTab}
            BY <2>2 DEF OrchOK
        <3>2. \A i \in DOMAIN stops : Stop("stop_and_clean", stops[i]) \in EffectType
            <4>1. \A i \in DOMAIN stops : stops[i] \in gone
                BY <2>5, OrdersList
            <4>2. "stop_and_clean" \in EffectKind
                BY DEF EffectKind
            <4> HIDE DEF gone, LifeInv, TypeInv, TypeOK
            <4>3. QED
                BY <2>2, <3>1, <4>1, <4>2, StopEffectTyped
        <3>3. \A i \in DOMAIN stops : Stop("stop_and_clean", stops[i]).do = "stop_and_clean"
            BY DEF Stop, Effect
        <3>4. QED
            BY <3>2, <3>3, <2>5, OrdersList
    <2>7. c \in Seq(EffectType) /\ \A i \in DOMAIN c : c[i].do = "cancel"
        <3>1. \A i \in DOMAIN cancels : Effect("cancel", cancels[i]) \in EffectType
            BY <2>2, <2>5, OrdersList, EffectTyped DEF EffectKind
        <3>2. \A i \in DOMAIN cancels : Effect("cancel", cancels[i]).do = "cancel"
            BY DEF Effect
        <3>3. QED
            BY <3>1, <3>2, <2>5, OrdersList
    <2>8. Do("loop", a \o b \o c)
        BY <2>3
    <2> HIDE DEF a, b, c
    <2>9. /\ a \o b \in Seq(EffectType) /\ ListOK(a \o b) /\ Attempts(a \o b) = Attempts(a)
          /\ \A i \in DOMAIN (a \o b) : (a \o b)[i].do \in {"dispatch", "stop_and_clean", "cancel"}
        <3>1. /\ \A i \in DOMAIN a : a[i].do \in {"dispatch", "stop_and_clean", "cancel"}
              /\ \A i \in DOMAIN b : b[i].do \in {"stop_and_clean", "cancel"}
              /\ a \in Seq(EffectType) /\ b \in Seq(EffectType) /\ ListOK(a)
            BY <2>4, <2>6
        <3> HIDE DEF LifeInv, TypeInv, TypeOK, prs, gone, dropped
        <3>2. QED
            BY <3>1, ListThen
    <2>10. ListOK(a \o b \o c) /\ Attempts(a \o b \o c) = Attempts(a)
        BY <2>9, <2>7, ListThen
    <2>11. ListInv' /\ dispatching' = [k \in D |-> 1]
        BY <2>4, <2>8, <2>10, <1>2
    <2>12. Lists(prs, D)
        <3>1. /\ running' = Without(running, gone) /\ retryQueue' = Without(retryQueue, gone \cup dropped)
              /\ reviewReady' = MarkStale(Without(reviewReady, gone), prs)
              /\ completed' = completed \ Reactivated(prs)
            BY <1>4 DEF PrStatusChanged
        <3>2. /\ DOMAIN reviewReady' = DOMAIN reviewReady \ gone
              /\ \A k \in DOMAIN reviewReady' : reviewReady'[k].attempt = reviewReady[k].attempt
            <4>1. /\ DOMAIN MarkStale(Without(reviewReady, gone), prs) = DOMAIN reviewReady \ gone
                  /\ \A k \in DOMAIN reviewReady \ gone :
                        MarkStale(Without(reviewReady, gone), prs)[k].attempt = reviewReady[k].attempt
                <5> HIDE DEF gone, prs
                <5>1. QED
                    BY MarkStaleEntries
            <4>2. QED
                BY <3>1, <4>1
        <3>3. QED
            BY <1>0, <2>1, <2>11, <3>1, <3>2, WithoutLoses DEF Lists
    <2>13. QED
        BY <2>2, <2>11, <2>12 DEF Moves
<1>5. CASE RunCompleted
    <2>1. UNCHANGED orchVars
        BY <1>5 DEF RunCompleted
    <2>2. CASE UNCHANGED todo
        BY <2>1, <2>2, <1>3 DEF Moves, Keeps
    <2>3. ASSUME NEW k \in DOMAIN running,
                 Do("loop", <<[Effect("finish", k) EXCEPT !.status = Head(bus).status]>>)
          PROVE  ListInv' /\ Moves
        <3> DEFINE e == [Effect("finish", k) EXCEPT !.status = Head(bus).status]
        <3>1. e \in EffectType
            BY <1>0, <1>5, EventFields, EffectTyped DEF EffectKind, OrchOK, RunCompleted, Receives
        <3>2. e.do = "finish"
            BY DEF Effect
        <3>3. Do("loop", <<e>>)
            BY <2>3
        <3> HIDE DEF e
        <3>4. ListOK(<<e>>) /\ Attempts(<<e>>) = Nothing
            BY <3>1, <3>2, OneEffect DEF Starts
        <3>5. QED
            BY <1>0, <2>1, <3>3, <3>4, <1>2 DEF Moves, Keeps
    <2>4. QED
        BY <1>5, <2>2, <2>3 DEF RunCompleted, Found
<1>6. CASE RetryDue
    <2> DEFINE k == Head(bus).key
    <2>1. k \in Keys /\ UNCHANGED <<claimed, completed, mergedPrs, running, reviewReady>>
        BY <1>6, <1>0, EventFields DEF RetryDue, Receives
    <2>2. CASE k \notin DOMAIN retryQueue
        <3>1. UNCHANGED <<retryQueue, todo>>
            BY <1>6, <2>2 DEF RetryDue
        <3>2. QED
            BY <2>1, <3>1, <1>3 DEF Moves, Keeps
    <2>3. CASE k \in DOMAIN retryQueue /\ AvailableSlots = 0
        <3>1. Do("loop", <<Effect("schedule", k)>>) /\ UNCHANGED retryQueue
            BY <1>6, <2>3 DEF RetryDue, Deferred
        <3>2. Effect("schedule", k) \in EffectType /\ Effect("schedule", k).do = "schedule"
            BY <2>1, EffectTyped DEF EffectKind, Effect
        <3>3. ListOK(<<Effect("schedule", k)>>) /\ Attempts(<<Effect("schedule", k)>>) = Nothing
            BY <3>2, OneEffect DEF Starts
        <3>4. QED
            BY <1>0, <2>1, <3>1, <3>3, <1>2 DEF Moves, Keeps
    <2>4. CASE k \in DOMAIN retryQueue /\ AvailableSlots # 0
        <3> DEFINE e == Dispatch(k, retryQueue[k])
        <3>1. Do("loop", <<e>>) /\ retryQueue' = Without(retryQueue, {k})
            BY <1>6, <2>4 DEF RetryDue
        <3>2. e \in EffectType
            BY <2>1, <2>4, EffectTyped DEF EffectKind, Dispatch, OrchOK
        <3>3. e.do = "dispatch" /\ e.key = k /\ e.attempt = retryQueue[k]
            BY DEF Dispatch, Effect
        <3>4. e.key \in Prs => e.attempt \in 1..MaxRetries
            BY <3>3, <2>4 DEF AttemptsOK
        <3> HIDE DEF e
        <3>5. ListOK(<<e>>) /\ Attempts(<<e>>) = [x \in {k} |-> retryQueue[k]]
            BY <3>2, <3>3, <3>4, OneEffect DEF Starts
        <3>6. ListInv' /\ Retries(k)
            BY <1>0, <2>1, <2>4, <3>1, <3>5, <1>2, WithoutLoses DEF Retries
        <3>7. QED
            BY <2>1, <3>6 DEF Moves
    <2>5. QED
        BY <2>2, <2>3, <2>4
<1>7. CASE IssueDetected
    <2> DEFINE new == Issues \ (claimed \cup completed)
    <2>1. PICK order \in Orders(new) :
            Do("loop", [i \in DOMAIN order |-> [Effect("issue", order[i]) EXCEPT !.batch = new]])
        BY <1>7 DEF IssueDetected
    <2> DEFINE s == [i \in DOMAIN order |-> [Effect("issue", order[i]) EXCEPT !.batch = new]]
    <2>2. ListOK(s) /\ Attempts(s) = Nothing
        BY IssueList
    <2>3. Do("loop", s)
        BY <2>1
    <2> HIDE DEF s
    <2>4. ListInv' /\ dispatching' = Nothing
        BY <2>2, <2>3, <1>2
    <2>5. ClaimsIssues(new)
        BY <1>0, <1>7, <2>4 DEF IssueDetected, ClaimsIssues
    <2>6. QED
        BY <2>4, <2>5 DEF Moves
<1>8. CASE PrMerged
    <2> DEFINE k == Head(bus).key
               e == Dispatch(Rescore(k), 1)
    <2>1. k \in Prs /\ Rescore(k) \in Keys /\ Rescore(k) \notin Prs
        BY <1>8, <1>0, EventFields, KeyAssumption DEF PrMerged, Receives, Keys
    <2>2. e \in EffectType
        BY <2>1, EffectTyped DEF EffectKind, Dispatch
    <2>3. e.do = "dispatch" /\ e.key = Rescore(k) /\ e.attempt = 1
        BY DEF Dispatch, Effect
    <2>4. Do("loop", <<e>>) \/ Do("loop", <<>>)
        BY <1>8 DEF PrMerged
    <2>5. completed' = completed /\ (Forgets(k) \/ UNCHANGED <<running, claimed, retryQueue, reviewReady>>)
        BY <1>8, WithoutLoses DEF PrMerged, Forgets
    <2> HIDE DEF e
    <2>6. ListOK(<<e>>) /\ Attempts(<<e>>) = [x \in {Rescore(k)} |-> 1]
        BY <2>1, <2>2, <2>3, OneEffect DEF Starts
    <2>7. ListInv' /\ dispatching' \in {Nothing, [x \in {Rescore(k)} |-> 1]}
        BY <2>4, <2>6, <1>2, EmptyList
    <2>8. Merges(k)
        BY <1>0, <2>5, <2>7 DEF Merges
    <2>9. QED
        BY <2>1, <2>7, <2>8 DEF Moves
<1>9. QED
    BY <1>4, <1>5, <1>6, <1>7, <1>8 DEF Handle

\* The effects the loop executes.
LEMMA LoopMoves ==
    ASSUME LifeInv, Execute("loop")
    PROVE  ListInv' /\ Moves
<1> USE DEF LifeInv, TypeInv, TypeOK
<1> DEFINE s == todo["loop"]
           h == Head(s)
           k == h.key
<1>0. /\ "loop" \in Workers /\ s # <<>> /\ s \in Seq(EffectType) /\ h \in EffectType
      /\ k \in Keys /\ Key("loop") = k /\ Tail(s) \in Seq(EffectType) /\ h = s[1] /\ 1 \in DOMAIN s
    <2>1. "loop" \in Workers /\ s # <<>>
        BY DEF Execute, IssueTrigger, DispatchFails, EnqueueRun, EnqueueFails, LoadTab, Workers,
               RecordRunning, StopSession, CleanupMetadata, ScheduleRetry, CancelRetry,
               ApplySessionEnd, Next1
    <2>2. QED
        BY <2>1, HeadTyped, TailIs DEF TasksOK, Key
<1>1. ListOK(s)
    BY DEF ListInv
<1>2. ASSUME NEW l, Do("loop", l), ListOK(l) PROVE ListInv' /\ dispatching' = Attempts(l)
    <2>1. todo'["loop"] = l /\ todo'["user"] = todo["user"]
        BY <1>2 DEF Do, TasksOK, Workers
    <2>2. QED
        BY <1>2, <2>1 DEF ListInv, dispatching
<1>3. ASSUME Done("loop")
      PROVE  /\ ListInv'
             /\ Starts(h) => /\ k \in DOMAIN dispatching /\ dispatching[k] = h.attempt
                             /\ Loses(dispatching, dispatching', {k})
             /\ ~Starts(h) => UNCHANGED dispatching
    <2>1. Do("loop", Tail(s))
        BY <1>3 DEF Done
    <2>2. /\ ListOK(Tail(s))
          /\ Attempts(Tail(s)) = IF Starts(h) THEN Without(Attempts(s), {k}) ELSE Attempts(s)
        BY <1>0, <1>1, TailListOK
    <2>3. ListInv' /\ dispatching' = Attempts(Tail(s))
        BY <2>1, <2>2, <1>2
    <2>4. Starts(h) => k \in DOMAIN dispatching /\ dispatching[k] = h.attempt
        BY <1>0, <1>1, AttemptIs DEF dispatching
    <2>5. QED
        BY <2>2, <2>3, <2>4, WithoutLoses DEF dispatching
<1>4. ASSUME NEW e \in EffectType, e.key = k, e.attempt = h.attempt,
             Do("loop", <<e>> \o Tail(s)),
             \/ Starts(h) /\ Starts(e)
             \/ h.do = "issue" /\ e.do = "dispatch"
             \/ h.do = "stop_and_clean" /\ e.do = "cleanup"
             \/ h.do = "finish" /\ e.do = "schedule"
      PROVE  /\ ListInv'
             /\ h.do = "issue" => dispatching = Nothing /\ dispatching' = [x \in {k} |-> h.attempt]
             /\ h.do # "issue" => UNCHANGED dispatching
    <2> DEFINE c == <<e>> \o Tail(s)
    <2>1. /\ ListOK(c)
          /\ Attempts(c) = IF h.do = "issue" THEN [x \in {e.key} |-> e.attempt] ELSE Attempts(s)
          /\ h.do = "issue" => Starting(s) = {}
        BY <1>0, <1>1, <1>4, GoesOnListOK
    <2> HIDE DEF c
    <2>2. ListInv' /\ dispatching' = Attempts(c)
        BY <1>2, <1>4, <2>1 DEF c
    <2>3. h.do = "issue" => dispatching = Nothing
        BY <2>1 DEF dispatching, Attempts, Nothing
    <2>4. QED
        BY <1>4, <2>1, <2>2, <2>3 DEF dispatching
<1>5. ASSUME NEW do \in EffectKind, Becomes("loop", do),
             \/ Starts(h) /\ do = "load"
             \/ h.do = "issue" /\ do = "dispatch"
             \/ h.do = "stop_and_clean" /\ do = "cleanup"
             \/ h.do = "finish" /\ do = "schedule"
      PROVE  /\ ListInv'
             /\ h.do = "issue" => dispatching = Nothing /\ dispatching' = [x \in {k} |-> h.attempt]
             /\ h.do # "issue" => UNCHANGED dispatching
    <2> DEFINE e == [h EXCEPT !.do = do]
    <2>1. e \in EffectType /\ e.key = k /\ e.attempt = h.attempt /\ e.do = do
        BY <1>0 DEF EffectType
    <2>2. Do("loop", <<e>> \o Tail(s))
        BY <1>5 DEF Becomes
    <2>3. do = "load" => Starts(e)
        BY <2>1 DEF Starts
    <2> HIDE DEF e
    <2>4. QED
        BY <1>4, <1>5, <2>1, <2>2, <2>3
<1>6. CASE IssueTrigger("loop")
    <2>1. h.do = "issue" /\ UNCHANGED <<completed, running, retryQueue, reviewReady>>
        BY <1>6 DEF IssueTrigger, Next1
    <2>2. k \in Issues /\ h.batch \subseteq Issues /\ dispatching = Nothing
        <3>1. Starting(s) = {}
            BY <1>0, <1>1, <2>1 DEF ListOK, Starting, Starts
        <3>2. QED
            BY <1>0, <1>1, <2>1, <3>1 DEF ListOK, dispatching, Attempts, Nothing
    <2>3. CASE AvailableSlots = 0
        <3>1. claimed' = claimed \ h.batch /\ Do("loop", <<>>)
            BY <1>6, <2>3 DEF IssueTrigger
        <3>2. ListInv' /\ dispatching' = Nothing
            BY <3>1, <1>2, EmptyList
        <3>3. DropsIssues(h.batch)
            BY <2>1, <2>2, <3>1, <3>2 DEF DropsIssues
        <3>4. QED
            BY <3>2, <3>3 DEF Moves
    <2>4. CASE AvailableSlots # 0
        <3>1. Becomes("loop", "dispatch") /\ UNCHANGED claimed
            BY <1>6, <2>4 DEF IssueTrigger
        <3>2. ListInv' /\ dispatching' = [x \in {k} |-> h.attempt]
            BY <1>5, <2>1, <3>1 DEF EffectKind
        <3>3. StartsIssue(k)
            BY <2>1, <2>2, <2>4, <3>1, <3>2 DEF StartsIssue
        <3>4. QED
            BY <2>2, <3>2, <3>3 DEF Moves
    <2>5. QED
        BY <2>3, <2>4
<1>7. CASE DispatchFails("loop") \/ EnqueueFails("loop")
    <2>1. /\ h.do = "dispatch" /\ Done("loop") /\ claimed' = claimed \ {k}
          /\ UNCHANGED <<completed, running, retryQueue, reviewReady>>
        BY <1>0, <1>7 DEF DispatchFails, EnqueueFails, Next1, ClaimsAfterFailure
    <2>2. ListInv' /\ FailsToStart(k)
        BY <1>3, <2>1 DEF FailsToStart, Starts
    <2>3. QED
        BY <1>0, <2>2 DEF Moves
<1>8. CASE EnqueueRun("loop")
    <2>1. h.do = "dispatch" /\ Becomes("loop", "load") /\ UNCHANGED orchVars
        BY <1>8 DEF EnqueueRun, Next1
    <2>2. ListInv' /\ Keeps
        BY <1>5, <2>1 DEF Keeps, Starts, EffectKind
    <2>3. QED
        BY <2>2 DEF Moves
<1>9. CASE LoadTab("loop")
    <2> DEFINE e == [h EXCEPT !.do = "record", !.tab = LoadedTab(k)]
    <2>1. h.do = "load" /\ Do("loop", <<e>> \o Tail(s)) /\ UNCHANGED orchVars
        BY <1>0, <1>9 DEF LoadTab, Next1
    <2>2. e \in EffectType /\ e.key = k /\ e.attempt = h.attempt /\ e.do = "record"
        BY <1>0 DEF EffectType, EffectKind, LoadedTab, RmOK
    <2> HIDE DEF e
    <2>3. ListInv' /\ Keeps
        BY <1>4, <2>1, <2>2 DEF Keeps, Starts
    <2>4. QED
        BY <2>3 DEF Moves
<1>10. CASE RecordRunning("loop")
    <2>1. /\ h.do = "record" /\ Done("loop")
          /\ running' = Put(running, k, [tab |-> h.tab, attempt |-> h.attempt])
          /\ UNCHANGED <<claimed, completed, retryQueue, reviewReady>>
        BY <1>0, <1>10 DEF RecordRunning, Next1
    <2>2. /\ ListInv' /\ k \in DOMAIN dispatching /\ dispatching[k] = h.attempt
          /\ Loses(dispatching, dispatching', {k})
        BY <1>3, <2>1 DEF Starts
    <2>3. Gains(running, running', k) /\ running'[k].attempt = h.attempt
        BY <2>1, PutGains
    <2>4. Runs(k)
        BY <2>1, <2>2, <2>3 DEF Runs
    <2>5. QED
        BY <1>0, <2>2, <2>4 DEF Moves
<1>11. CASE StopSession("loop") \/ CleanupMetadata("loop") \/ ScheduleRetry("loop") \/ CancelRetry("loop")
    <2>1. UNCHANGED orchVars /\ ~Starts(h) /\ h.do # "issue"
        BY <1>11 DEF StopSession, CleanupMetadata, ScheduleRetry, CancelRetry, Next1, Starts
    <2>2. Done("loop") \/ (h.do = "stop_and_clean" /\ Becomes("loop", "cleanup"))
        BY <1>11 DEF StopSession, CleanupMetadata, ScheduleRetry, CancelRetry, Next1
    <2>3. ListInv' /\ UNCHANGED dispatching
        BY <1>3, <1>5, <2>1, <2>2 DEF EffectKind
    <2>4. QED
        BY <2>1, <2>3 DEF Moves, Keeps
<1>12. CASE ApplySessionEnd("loop")
    <2>1. h.do = "finish" /\ ~Starts(h) /\ running' = Without(running, {k})
        BY <1>0, <1>12 DEF ApplySessionEnd, Next1, Starts
    <2>2. dispatching = Nothing
        <3>1. DOMAIN s = {1}
            BY <1>0, <1>1, <2>1, TailIs DEF ListOK
        <3>2. Starting(s) = {}
            BY <1>0, <2>1, <3>1 DEF Starting
        <3>3. QED
            BY <3>2 DEF dispatching, Attempts, Nothing
    <2>3. CASE k \notin DOMAIN running
        <3>1. Done("loop") /\ UNCHANGED <<claimed, completed, retryQueue, reviewReady, mergedPrs>>
            BY <1>0, <1>12, <2>3 DEF ApplySessionEnd
        <3>2. running' = running
            BY <2>1, <2>3 DEF Without, Restrict, OrchOK
        <3>3. QED
            BY <1>3, <2>1, <3>1, <3>2 DEF Moves, Keeps
    <2>4. CASE k \in DOMAIN running
        <3> DEFINE n == running[k].attempt
        <3>1. \/ /\ reviewReady' = Put(reviewReady, k, [attempt |-> n, stale |-> FALSE])
                 /\ Done("loop") /\ UNCHANGED <<claimed, completed, retryQueue>>
              \/ /\ claimed' = claimed \ {k} /\ completed' = completed \cup {k}
                 /\ Done("loop") /\ UNCHANGED <<retryQueue, reviewReady>>
              \/ /\ ~GivesUp(n) /\ retryQueue' = Put(retryQueue, k, n + 1)
                 /\ Becomes("loop", "schedule") /\ UNCHANGED <<claimed, completed, reviewReady>>
            <4>1. Outcome(k, h.status) \in {"FixCompleted", "FixIncomplete", "AnalysisWritten", "NoOutput"}
                BY DEF Outcome
            <4>2. QED
                BY <1>0, <1>12, <2>4, <4>1 DEF ApplySessionEnd
        <3>2. ListInv' /\ UNCHANGED dispatching
            BY <1>3, <1>5, <2>1, <3>1 DEF EffectKind
        <3>3. Loses(running, running', {k})
            BY <2>1, WithoutLoses
        <3>5. CASE /\ reviewReady' = Put(reviewReady, k, [attempt |-> n, stale |-> FALSE])
                   /\ UNCHANGED <<claimed, completed, retryQueue>>
            <4> DEFINE v == [attempt |-> n, stale |-> FALSE]
            <4>1. v.attempt = n /\ reviewReady' = Put(reviewReady, k, v)
                BY <3>5
            <4> HIDE DEF v
            <4>2. Gains(reviewReady, reviewReady', k) /\ reviewReady'[k].attempt = n
                BY <4>1, PutGains
            <4>3. Ends(k)
                BY <2>2, <2>4, <3>2, <3>3, <3>5, <4>1, <4>2 DEF Ends
            <4>4. QED
                BY <1>0, <3>2, <4>3 DEF Moves
        <3>6. CASE /\ claimed' = claimed \ {k} /\ completed' = completed \cup {k}
                   /\ UNCHANGED <<retryQueue, reviewReady>>
            <4>1. Ends(k)
                BY <2>2, <2>4, <3>2, <3>3, <3>6 DEF Ends
            <4>2. QED
                BY <1>0, <3>2, <4>1 DEF Moves
        <3>7. CASE /\ ~GivesUp(n) /\ retryQueue' = Put(retryQueue, k, n + 1)
                   /\ UNCHANGED <<claimed, completed, reviewReady>>
            <4>1. Gains(retryQueue, retryQueue', k) /\ retryQueue'[k] = n + 1
                BY <3>7, PutGains
            <4>2. Ends(k)
                BY <2>2, <2>4, <3>2, <3>3, <3>7, <4>1 DEF Ends
            <4>3. QED
                BY <1>0, <3>2, <4>2 DEF Moves
        <3>8. QED
            BY <3>1, <3>5, <3>6, <3>7
    <2>5. QED
        BY <2>3, <2>4
<1>13. QED
    BY <1>6, <1>7, <1>8, <1>9, <1>10, <1>11, <1>12 DEF Execute

\* Every step is one of the moves.
LEMMA StepMoves ==
    ASSUME LifeInv, "relaunch" \notin Ops, [Next]_vars
    PROVE  ListInv' /\ Moves
<1>1. \A w \in Workers : Execute(w) => Execute("loop") \/ Execute("user")
    BY DEF Workers
<1>2. QED
    BY <1>1, OthersMove, HandlersMove, LoopMoves DEF Next

-----------------------------------------------------------------------------
(* Attempts                                                                *)

\* The sessions under way are the loop's, and so are their attempts.
LEMMA DispatchingIs ==
    LifeInv => /\ Dispatching = DOMAIN dispatching
               /\ \A k \in DOMAIN dispatching : AttemptOf(k) = dispatching[k]
               /\ \A k \in DOMAIN dispatching \cap Prs : dispatching[k] \in 1..MaxRetries
               /\ DOMAIN dispatching \subseteq Keys
<1> SUFFICES ASSUME LifeInv
             PROVE  /\ Dispatching = DOMAIN dispatching
                    /\ \A k \in DOMAIN dispatching : AttemptOf(k) = dispatching[k]
                    /\ \A k \in DOMAIN dispatching \cap Prs : dispatching[k] \in 1..MaxRetries
                    /\ DOMAIN dispatching \subseteq Keys
    OBVIOUS
<1> DEFINE s == todo["loop"]
<1>1. ListOK(s) /\ s \in Seq(EffectType)
    BY DEF LifeInv, ListInv, TypeInv, TypeOK, TasksOK, Workers
<1>2. ASSUME NEW e PROVE e \in UnderWay /\ Starts(e) <=> \E i \in DOMAIN s : s[i] = e /\ Starts(e)
    <2>1. \A i \in DOMAIN todo["user"] : ~Starts(todo["user"][i])
        BY DEF LifeInv, ListInv, Starts
    <2>2. QED
        BY <2>1 DEF UnderWay, Workers, Range
<1>3. Dispatching = DOMAIN dispatching
    <2>1. ASSUME NEW k PROVE k \in Dispatching <=> \E i \in DOMAIN s : Starts(s[i]) /\ s[i].key = k
        BY <1>2 DEF Dispatching, Starts
    <2>2. QED
        BY <2>1 DEF dispatching, Attempts, Starting
<1>4. ASSUME NEW k \in DOMAIN dispatching
      PROVE  /\ AttemptOf(k) = dispatching[k] /\ k \in Keys
             /\ k \in Prs => dispatching[k] \in 1..MaxRetries
    <2>1. PICK i \in DOMAIN s : Starts(s[i]) /\ s[i].key = k
        BY DEF dispatching, Attempts, Starting
    <2>2. dispatching[k] = s[i].attempt
        BY <1>1, <2>1, AttemptIs DEF dispatching
    <2>3. s[i] \in UnderWay /\ s[i].key = k /\ s[i].do \in {"dispatch", "load", "record"}
        BY <1>2, <2>1 DEF Starts
    <2>4. \A e \in UnderWay : e.key = k /\ e.do \in {"dispatch", "load", "record"} => e = s[i]
        BY <1>1, <1>2, <2>1 DEF Starts, ListOK, Claiming
    <2>5. AttemptOf(k) = s[i].attempt
        BY <2>3, <2>4 DEF AttemptOf
    <2>6. s[i] \in EffectType
        BY <1>1, ElementOfSeq, LenProperties
    <2>7. QED
        BY <1>1, <2>1, <2>2, <2>5, <2>6 DEF ListOK, EffectType
<1>5. QED
    BY <1>3, <1>4

LEMMA AttemptsStep ==
    ASSUME LifeInv, Moves
    PROVE  AttemptsOK'
<1> SUFFICES ASSUME NEW k \in Prs
             PROVE  /\ k \in DOMAIN running' => running'[k].attempt \in 1..MaxRetries
                    /\ k \in DOMAIN retryQueue' => retryQueue'[k] \in 1..MaxRetries
                    /\ k \in DOMAIN reviewReady' => reviewReady'[k].attempt \in 1..MaxRetries
    BY DEF AttemptsOK
<1>1. /\ k \in DOMAIN running => running[k].attempt \in 1..MaxRetries
      /\ k \in DOMAIN retryQueue => retryQueue[k] \in 1..MaxRetries
      /\ k \in DOMAIN reviewReady => reviewReady[k].attempt \in 1..MaxRetries
      /\ k \in DOMAIN dispatching => dispatching[k] \in 1..MaxRetries
    BY DispatchingIs DEF LifeInv, AttemptsOK
<1>2. ASSUME NEW prs, NEW D, Lists(prs, D)
      PROVE  /\ k \in DOMAIN running' => running'[k].attempt \in 1..MaxRetries
             /\ k \in DOMAIN retryQueue' => retryQueue'[k] \in 1..MaxRetries
             /\ k \in DOMAIN reviewReady' => reviewReady'[k].attempt \in 1..MaxRetries
    BY <1>1, <1>2 DEF Lists, Loses
<1>3. ASSUME NEW x, Ends(x)
      PROVE  /\ k \in DOMAIN running' => running'[k].attempt \in 1..MaxRetries
             /\ k \in DOMAIN retryQueue' => retryQueue'[k] \in 1..MaxRetries
             /\ k \in DOMAIN reviewReady' => reviewReady'[k].attempt \in 1..MaxRetries
    <2>1. /\ x = k => running[k].attempt \in 1..MaxRetries
          /\ k \in DOMAIN running' => running'[k].attempt \in 1..MaxRetries
        BY <1>1, <1>3 DEF Ends, Loses
    <2>2. x = k /\ ~GivesUp(running[k].attempt) => running[k].attempt + 1 \in 1..MaxRetries
        BY <2>1, RetryAssumption DEF GivesUp
    <2>3. QED
        BY <1>1, <1>3, <2>1, <2>2 DEF Ends, Gains
<1>4. ASSUME NEW x, Retries(x) \/ Merges(x) \/ Skips(x)
      PROVE  /\ k \in DOMAIN running' => running'[k].attempt \in 1..MaxRetries
             /\ k \in DOMAIN retryQueue' => retryQueue'[k] \in 1..MaxRetries
             /\ k \in DOMAIN reviewReady' => reviewReady'[k].attempt \in 1..MaxRetries
    BY <1>1, <1>4 DEF Retries, Merges, Skips, Forgets, Loses
<1>5. ASSUME NEW x, Runs(x)
      PROVE  /\ k \in DOMAIN running' => running'[k].attempt \in 1..MaxRetries
             /\ k \in DOMAIN retryQueue' => retryQueue'[k] \in 1..MaxRetries
             /\ k \in DOMAIN reviewReady' => reviewReady'[k].attempt \in 1..MaxRetries
    BY <1>1, <1>5 DEF Runs, Gains
<1>6. CASE UNCHANGED <<running, retryQueue, reviewReady>>
    BY <1>1, <1>6
<1>7. QED
    BY <1>2, <1>3, <1>4, <1>5, <1>6 DEF Moves, Keeps, ClaimsIssues, StartsIssue, DropsIssues, FailsToStart

\* The invariant about effects and attempts is inductive.
LEMMA LifeInvInit == Init => LifeInv
<1> SUFFICES ASSUME Init PROVE LifeInv
    OBVIOUS
<1>1. todo["loop"] = <<>> /\ todo["user"] = <<>>
    BY DEF Init, Workers
<1>2. ListInv
    BY <1>1, EmptyList DEF ListInv
<1>3. AttemptsOK
    BY DEF Init, AttemptsOK, Nothing
<1>4. QED
    BY <1>2, <1>3, InitTyped DEF LifeInv

LEMMA LifeInvStep == "relaunch" \notin Ops /\ LifeInv /\ [Next]_vars => LifeInv'
BY StepMoves, StepTyped, AttemptsStep DEF LifeInv

LEMMA LifeInvHolds ==
    ASSUME "relaunch" \notin Ops
    PROVE  Spec => []LifeInv
<1>1. LifeInv /\ [Next]_vars => LifeInv'
    BY LifeInvStep
<1>2. QED
    BY <1>1, LifeInvInit, PTL DEF Spec

-----------------------------------------------------------------------------
(* The limit                                                               *)

\* The sessions that count for it, by key.
Counted == (DOMAIN dispatching \cup DOMAIN running) \cap (Prs \cup Issues)
CapacityInv == Cardinality(Counted) <= MaxConcurrent

LEMMA Fewer ==
    ASSUME NEW T \in SUBSET Keys, NEW S \in SUBSET T
    PROVE  /\ IsFiniteSet(S) /\ Cardinality(S) \in Nat /\ Cardinality(T) \in Nat
           /\ Cardinality(S) <= Cardinality(T)
BY KeysFinite, FS_Subset, FS_CardinalityType

LEMMA CapacityStep ==
    ASSUME LifeInv, LifeInv', Moves, CapacityInv
    PROVE  CapacityInv'
<1>1. /\ Counted \in SUBSET Keys /\ Counted' \in SUBSET Keys /\ DOMAIN running \in SUBSET Keys
      /\ MaxConcurrent \in Nat
    BY CapacityAssumption DEF Counted, Keys, LifeInv, TypeInv, TypeOK, OrchOK
<1>2. ASSUME Counted' \subseteq Counted PROVE CapacityInv'
    BY <1>1, <1>2, Fewer DEF CapacityInv
<1>4. DOMAIN Nothing = {}
    BY DEF Nothing
<1>5. ASSUME NEW k \in Keys, AvailableSlots # 0, Counted' \subseteq DOMAIN running \cup {k}
      PROVE  CapacityInv'
    <2>1. RunningCount \in Nat /\ RunningCount < MaxConcurrent
        BY <1>1, <1>5, Fewer DEF AvailableSlots, RunningCount
    <2>2. Cardinality(DOMAIN running \cup {k}) <= RunningCount + 1
        BY <1>1, <2>1, Fewer, FS_AddElement DEF RunningCount
    <2>3. DOMAIN running \cup {k} \in SUBSET Keys
        BY <1>1
    <2>4. QED
        BY <1>1, <1>5, <2>1, <2>2, <2>3, Fewer DEF CapacityInv
<1>6. ASSUME NEW prs, NEW D \in SUBSET Prs, Lists(prs, D) PROVE CapacityInv'
    <2>1. D \in SUBSET Keys /\ Counted' \subseteq D \cup DOMAIN running
        BY <1>6 DEF Lists, Loses, Counted, Keys
    <2>2. /\ Cardinality(D) \in Nat /\ IsFiniteSet(D) /\ IsFiniteSet(DOMAIN running)
          /\ RunningCount \in Nat /\ Cardinality(D) <= AvailableSlots
        BY <1>1, <1>6, <2>1, Fewer DEF Lists, Chosen, RunningCount, AvailableSlots
    <2>3. CASE RunningCount < MaxConcurrent
        <3>1. Cardinality(D) + RunningCount <= MaxConcurrent
            BY <1>1, <2>2, <2>3 DEF AvailableSlots
        <3>2. Cardinality(D \cup DOMAIN running) <= Cardinality(D) + RunningCount
            <4>1. Cardinality(D \cap DOMAIN running) \in Nat
                BY <2>1, Fewer
            <4>2. Cardinality(D \cup DOMAIN running)
                  = Cardinality(D) + Cardinality(DOMAIN running) - Cardinality(D \cap DOMAIN running)
                BY <2>2, FS_Union
            <4>3. QED
                BY <2>2, <4>1, <4>2 DEF RunningCount
        <3>3. D \cup DOMAIN running \in SUBSET Keys
            BY <1>1, <2>1
        <3>4. QED
            BY <1>1, <2>1, <2>2, <3>1, <3>2, <3>3, Fewer DEF CapacityInv
    <2>4. CASE ~(RunningCount < MaxConcurrent)
        <3>1. D = {}
            BY <2>2, <2>4, FS_EmptySet DEF AvailableSlots
        <3>2. Counted' \subseteq Counted
            BY <1>6, <3>1 DEF Lists, Loses, Counted
        <3>3. QED
            BY <1>2, <3>2
    <2>5. QED
        BY <2>3, <2>4
<1>7. ASSUME NEW k \in Keys, Retries(k) \/ StartsIssue(k) PROVE CapacityInv'
    BY <1>5, <1>7 DEF Retries, StartsIssue, Counted
<1>8. ASSUME NEW k \in Prs, Merges(k) PROVE CapacityInv'
    <2>1. Rescore(k) \notin Prs \cup Issues
        BY KeyAssumption
    <2>2. Counted' \subseteq Counted
        BY <1>4, <1>8, <2>1 DEF Merges, Forgets, Loses, Counted
    <2>3. QED
        BY <1>2, <2>2
<1>9. ASSUME NEW k, FailsToStart(k) \/ Runs(k) \/ Ends(k) \/ Skips(k) \/ Keeps \/ ClaimsIssues(k) \/ DropsIssues(k)
      PROVE  CapacityInv'
    <2>1. Counted' \subseteq Counted
        BY <1>9 DEF FailsToStart, Runs, Ends, Skips, Forgets, Loses, Gains, Keeps, ClaimsIssues,
                  DropsIssues, Counted
    <2>2. QED
        BY <1>2, <2>1
<1>10. Issues \subseteq Keys
    BY DEF Keys
<1>11. QED
    BY <1>6, <1>7, <1>8, <1>9, <1>10 DEF Moves

\* At no time does the orchestrator start or run more sessions of pull
\* requests and issues than max_concurrent, whichever mix of lists, retries
\* and issue events claimed them (apply_pr_event, apply_retry_due and
\* execute_effects), where nobody relaunches by hand.
THEOREM CapacityHolds ==
    ASSUME "relaunch" \notin Ops
    PROVE  Spec => []CapacityRespected
<1>1. Init => CapacityInv
    <2>1. Init => dispatching = Nothing /\ running = Nothing
        BY EmptyList DEF Init, dispatching, Workers
    <2>2. Init => Counted = {}
        BY <2>1 DEF Counted, Nothing
    <2>3. QED
        BY <2>2, FS_EmptySet, CapacityAssumption DEF CapacityInv
<1>2. LifeInv /\ LifeInv' /\ CapacityInv /\ [Next]_vars => CapacityInv'
    BY StepMoves, CapacityStep
<1>3. LifeInv /\ CapacityInv => CapacityRespected
    BY DispatchingIs DEF CapacityInv, CapacityRespected, Counted
<1>4. QED
    BY <1>1, <1>2, <1>3, LifeInvHolds, PTL DEF Spec

-----------------------------------------------------------------------------
(* Claims                                                                  *)

\* Where a claimed pull request is: in one table, and not completed.
ClaimOK(k) ==
    /\ k \in claimed <=> k \in DOMAIN dispatching \cup DOMAIN running
                               \cup DOMAIN retryQueue \cup DOMAIN reviewReady
    /\ k \in DOMAIN dispatching => k \notin DOMAIN running \cup DOMAIN retryQueue \cup DOMAIN reviewReady
    /\ k \in DOMAIN running => k \notin DOMAIN retryQueue \cup DOMAIN reviewReady
    /\ k \in DOMAIN retryQueue => k \notin DOMAIN reviewReady
    /\ k \in claimed => k \notin completed

ClaimsInv == LifeInv /\ CapacityInv /\ \A k \in Prs : ClaimOK(k)

LEMMA ClaimsStep ==
    ASSUME ClaimsInv, LifeInv', Moves, "skip" \notin Ops
    PROVE  ClaimsInv'
<1> SUFFICES ASSUME NEW k \in Prs PROVE ClaimOK(k)'
    BY CapacityStep DEF ClaimsInv
<1>1. ClaimOK(k)
    BY DEF ClaimsInv
<1>2. k \notin Issues /\ \A x \in Prs : k # Rescore(x)
    BY KeyAssumption
<1>3. DOMAIN Nothing = {}
    BY DEF Nothing
<1>4. ASSUME NEW prs, NEW D \in SUBSET Prs, Lists(prs, D) PROVE ClaimOK(k)'
    <2>1. /\ k \in D => k \notin claimed \cup completed \cup DOMAIN running \cup DOMAIN retryQueue
          /\ StaleRunning(prs) \subseteq DOMAIN running
          /\ StaleRetries(prs) \subseteq DOMAIN retryQueue
        BY <1>4 DEF Lists, Chosen, Candidates, StaleRunning, StaleRetries
    <2>2. QED
        BY <1>1, <1>3, <1>4, <2>1 DEF ClaimOK, Lists, Loses
<1>5. ASSUME NEW x \in Keys, Retries(x) PROVE ClaimOK(k)'
    BY <1>1, <1>3, <1>5 DEF ClaimOK, Retries, Loses
<1>6. ASSUME NEW x \in Keys, FailsToStart(x) PROVE ClaimOK(k)'
    BY <1>1, <1>6 DEF ClaimOK, FailsToStart, Loses
<1>7. ASSUME NEW x \in Keys, Runs(x) PROVE ClaimOK(k)'
    BY <1>1, <1>7 DEF ClaimOK, Runs, Loses, Gains
<1>8. ASSUME NEW x \in Keys, Ends(x) PROVE ClaimOK(k)'
    BY <1>1, <1>3, <1>8 DEF ClaimOK, Ends, Loses, Gains
<1>9. ASSUME NEW x \in Prs, Merges(x) PROVE ClaimOK(k)'
    BY <1>1, <1>2, <1>3, <1>9 DEF ClaimOK, Merges, Forgets, Loses
<1>10. ASSUME NEW x \in Issues, StartsIssue(x) PROVE ClaimOK(k)'
    BY <1>1, <1>2, <1>3, <1>10 DEF ClaimOK, StartsIssue
<1>11. ASSUME NEW new, ClaimsIssues(new) \/ DropsIssues(new) \/ Keeps PROVE ClaimOK(k)'
    BY <1>1, <1>2, <1>11 DEF ClaimOK, ClaimsIssues, DropsIssues, Keeps
<1>12. QED
    BY <1>4, <1>5, <1>6, <1>7, <1>8, <1>9, <1>10, <1>11 DEF Moves, Skips

LEMMA ClaimsInvHolds ==
    ASSUME "relaunch" \notin Ops, "skip" \notin Ops
    PROVE  Spec => []ClaimsInv
<1>1. Init => ClaimsInv
    <2> SUFFICES ASSUME Init PROVE ClaimsInv
        OBVIOUS
    <2>1. /\ dispatching = Nothing /\ running = Nothing /\ retryQueue = Nothing
          /\ reviewReady = Nothing /\ claimed = {}
        BY EmptyList DEF Init, dispatching, Workers
    <2>2. \A k \in Prs : ClaimOK(k)
        BY <2>1 DEF ClaimOK, Nothing
    <2>3. CapacityInv
        BY <2>1, FS_EmptySet, CapacityAssumption DEF CapacityInv, Counted, Nothing
    <2>4. QED
        BY <2>2, <2>3, LifeInvInit DEF ClaimsInv
<1>2. ClaimsInv /\ LifeInv' /\ [Next]_vars => ClaimsInv'
    BY StepMoves, ClaimsStep DEF ClaimsInv
<1>3. QED
    BY <1>1, <1>2, LifeInvHolds, PTL DEF Spec

\* A pull request is claimed exactly while its dispatch is under way, or it has
\* a session, a scheduled retry or a review to come, and it is in one of these
\* only (the bookkeeping of apply_* and execute_effects), where no user calls
\* interfere: no failed dispatch, late retry, closing or merge strands a claim
\* or drops one too early.
THEOREM ClaimsHold ==
    ASSUME "relaunch" \notin Ops, "skip" \notin Ops
    PROVE  Spec => []ClaimsExact
<1>1. ClaimsInv => ClaimsExact
    <2> SUFFICES ASSUME ClaimsInv, NEW k \in Prs
                 PROVE  LET at == {i \in 1..4 : k \in <<Dispatching, DOMAIN running, DOMAIN retryQueue,
                                                        DOMAIN reviewReady>>[i]}
                        IN  IF k \in claimed THEN Cardinality(at) = 1 ELSE at = {}
        BY DEF ClaimsExact
    <2> DEFINE where == <<Dispatching, DOMAIN running, DOMAIN retryQueue, DOMAIN reviewReady>>
               at == {i \in 1..4 : k \in where[i]}
    <2>1. ClaimOK(k) /\ Dispatching = DOMAIN dispatching
        BY DispatchingIs DEF ClaimsInv
    <2>2. /\ where[1] = DOMAIN dispatching /\ where[2] = DOMAIN running
          /\ where[3] = DOMAIN retryQueue /\ where[4] = DOMAIN reviewReady
        BY <2>1
    <2>3. 1..4 = {1, 2, 3, 4}
        OBVIOUS
    <2> HIDE DEF where
    <2>4. CASE k \in claimed
        <3>1. \E i \in 1..4 : at = {i}
            BY <2>1, <2>2, <2>3, <2>4 DEF ClaimOK
        <3>2. Cardinality(at) = 1
            BY <3>1, FS_Singleton
        <3>3. QED
            BY <2>4, <3>2 DEF where
    <2>5. CASE k \notin claimed
        <3>1. at = {}
            BY <2>1, <2>2, <2>3, <2>5 DEF ClaimOK
        <3>2. QED
            BY <2>5, <3>1 DEF where
    <2>6. QED
        BY <2>4, <2>5
<1>2. QED
    BY <1>1, ClaimsInvHolds, PTL

-----------------------------------------------------------------------------
(* The orchestrator implements KeyLife                                     *)

\* The stage of a pull request is the table it is in.
LifeTable(k) ==
    /\ k \in DOMAIN dispatching => prLife[k] = LifeOf!At("dispatching", dispatching[k])
    /\ k \in DOMAIN running => prLife[k] = LifeOf!At("running", running[k].attempt)
    /\ k \in DOMAIN retryQueue => prLife[k] = LifeOf!At("retrying", retryQueue[k])
    /\ k \in DOMAIN reviewReady => prLife[k] = LifeOf!At("review", reviewReady[k].attempt)
    /\ k \notin claimed => prLife[k] = IF k \in completed THEN LifeOf!Done ELSE LifeOf!Free

LifeTables == \A k \in Prs : LifeTable(k)

LEMMA LifeIs == ClaimsInv => LifeTables
<1> SUFFICES ASSUME ClaimsInv, NEW k \in Prs PROVE LifeTable(k)
    BY DEF LifeTables
<1>1. /\ ClaimOK(k) /\ Dispatching = DOMAIN dispatching
      /\ k \in DOMAIN dispatching => AttemptOf(k) = dispatching[k]
    BY DispatchingIs DEF ClaimsInv
<1>2. prLife[k] = IF k \in Dispatching THEN [stage |-> "dispatching", attempt |-> AttemptOf(k)]
                  ELSE IF k \in DOMAIN running THEN [stage |-> "running", attempt |-> running[k].attempt]
                  ELSE IF k \in DOMAIN retryQueue THEN [stage |-> "retrying", attempt |-> retryQueue[k]]
                  ELSE IF k \in DOMAIN reviewReady
                  THEN [stage |-> "review", attempt |-> reviewReady[k].attempt]
                  ELSE [stage |-> IF k \in completed THEN "done" ELSE "free", attempt |-> 0]
    BY DEF prLife
<1>3. QED
    BY <1>1, <1>2 DEF ClaimOK, LifeTable, LifeOf!At, LifeOf!Done, LifeOf!Free

LEMMA LifeIsNext == ClaimsInv' => LifeTables'
BY LifeIs, PTL

\* The stages are distinct, and attempts are within the limit.
LEMMA AttemptsWithin ==
    ASSUME ClaimsInv, NEW k \in Prs
    PROVE  /\ k \in DOMAIN dispatching => dispatching[k] \in 1..MaxRetries
           /\ k \in DOMAIN running => running[k].attempt \in 1..MaxRetries
           /\ k \in DOMAIN retryQueue => retryQueue[k] \in 1..MaxRetries
           /\ k \in DOMAIN reviewReady => reviewReady[k].attempt \in 1..MaxRetries
BY DispatchingIs DEF ClaimsInv, LifeInv, AttemptsOK

LEMMA LifeMoves ==
    ASSUME ClaimsInv, ClaimsInv', Moves, "skip" \notin Ops, NEW k \in Prs
    PROVE  prLife'[k] = prLife[k] \/ LifeOf!Move(prLife[k], prLife'[k])
<1>1. ClaimOK(k) /\ ClaimOK(k)' /\ LifeTable(k) /\ LifeTable(k)'
    BY LifeIs, LifeIsNext DEF ClaimsInv, LifeTables
<1>2. k \notin Issues /\ \A x \in Prs : k # Rescore(x)
    BY KeyAssumption
<1>3. DOMAIN Nothing = {}
    BY DEF Nothing
<1>4. ASSUME NEW prs, NEW D \in SUBSET Prs, Lists(prs, D)
      PROVE  prLife'[k] = prLife[k] \/ LifeOf!Move(prLife[k], prLife'[k])
    <2>1. /\ k \in D => k \notin claimed \cup completed
          /\ k \in completed' => k \in completed
          /\ k \notin DOMAIN dispatching
        BY <1>3, <1>4 DEF Lists, Chosen, Candidates
    <2>2. CASE k \in D
        <3>1. dispatching'[k] = 1 /\ k \in DOMAIN dispatching'
            BY <1>4, <2>2 DEF Lists
        <3>2. LifeOf!Claim(prLife[k], prLife'[k])
            BY <1>1, <2>1, <2>2, <3>1 DEF LifeTable, LifeOf!Claim
        <3>3. QED
            BY <3>2 DEF LifeOf!Move
    <2>3. CASE k \notin D
        <3>1. k \notin DOMAIN dispatching'
            BY <1>4, <2>3 DEF Lists
        <3>2. CASE k \notin claimed
            <4>1. k \notin claimed'
                BY <1>4, <2>3, <3>2 DEF Lists
            <4>2. prLife'[k] = prLife[k] \/ LifeOf!Reopen(prLife[k], prLife'[k])
                BY <1>1, <2>1, <3>2, <4>1 DEF LifeTable, LifeOf!Reopen
            <4>3. QED
                BY <4>2 DEF LifeOf!Move
        <3>3. CASE k \in claimed /\ k \in claimed'
            BY <1>1, <1>4, <2>1, <3>1, <3>3 DEF LifeTable, ClaimOK, Lists, Loses
        <3>4. CASE k \in claimed /\ k \notin claimed'
            <4>1. prLife'[k] = LifeOf!Free
                BY <1>1, <2>1, <3>4 DEF LifeTable, ClaimOK
            <4>2. prLife[k].stage \in {"running", "retrying", "review"}
                BY <1>1, <2>1, <3>4 DEF LifeTable, ClaimOK, LifeOf!At
            <4>3. QED
                BY <4>1, <4>2 DEF LifeOf!Move, LifeOf!Drop
        <3>5. QED
            BY <3>2, <3>3, <3>4
    <2>4. QED
        BY <2>2, <2>3
<1>5. ASSUME NEW x \in Keys, Retries(x)
      PROVE  prLife'[k] = prLife[k] \/ LifeOf!Move(prLife[k], prLife'[k])
    <2>1. CASE x = k
        <3>1. /\ k \in DOMAIN retryQueue /\ k \in DOMAIN dispatching'
              /\ dispatching'[k] = retryQueue[k] /\ retryQueue[k] \in 1..MaxRetries
            BY <1>5, <2>1, AttemptsWithin DEF Retries
        <3>2. LifeOf!Again(prLife[k], prLife'[k])
            BY <1>1, <3>1 DEF LifeTable, LifeOf!Again, LifeOf!Attempts
        <3>3. QED
            BY <3>2 DEF LifeOf!Move
    <2>2. CASE x # k
        <3>1. k \notin DOMAIN dispatching /\ k \notin DOMAIN dispatching'
            BY <1>3, <1>5, <2>2 DEF Retries
        <3>2. QED
            BY <1>1, <1>5, <2>2, <3>1 DEF Retries, Loses, ClaimOK, LifeTable
    <2>3. QED
        BY <2>1, <2>2
<1>6. ASSUME NEW x \in Keys, FailsToStart(x)
      PROVE  prLife'[k] = prLife[k] \/ LifeOf!Move(prLife[k], prLife'[k])
    <2>1. CASE x = k
        <3>1. k \in DOMAIN dispatching /\ k \notin claimed' /\ k \notin completed'
            BY <1>1, <1>6, <2>1 DEF FailsToStart, ClaimOK
        <3>2. LifeOf!Fail(prLife[k], prLife'[k])
            BY <1>1, <3>1 DEF LifeTable, LifeOf!Fail, LifeOf!At
        <3>3. QED
            BY <3>2 DEF LifeOf!Move
    <2>2. CASE x # k
        BY <1>1, <1>6, <2>2 DEF FailsToStart, Loses, ClaimOK, LifeTable
    <2>3. QED
        BY <2>1, <2>2
<1>7. ASSUME NEW x \in Keys, Runs(x)
      PROVE  prLife'[k] = prLife[k] \/ LifeOf!Move(prLife[k], prLife'[k])
    <2>1. CASE x = k
        <3>1. /\ k \in DOMAIN dispatching /\ dispatching[k] \in 1..MaxRetries
              /\ k \in DOMAIN running' /\ running'[k].attempt = dispatching[k]
            BY <1>7, <2>1, AttemptsWithin DEF Runs, Gains
        <3>2. LifeOf!Start(prLife[k], prLife'[k])
            BY <1>1, <3>1 DEF LifeTable, LifeOf!Start, LifeOf!Attempts
        <3>3. QED
            BY <3>2 DEF LifeOf!Move
    <2>2. CASE x # k
        BY <1>1, <1>7, <2>2 DEF Runs, Loses, Gains, ClaimOK, LifeTable
    <2>3. QED
        BY <2>1, <2>2
<1>8. ASSUME NEW x \in Keys, Ends(x)
      PROVE  prLife'[k] = prLife[k] \/ LifeOf!Move(prLife[k], prLife'[k])
    <2>1. CASE x = k
        <3>1. k \in DOMAIN running /\ running[k].attempt \in 1..MaxRetries
            BY <1>8, <2>1, AttemptsWithin DEF Ends
        <3>2. CASE k \in DOMAIN reviewReady' /\ reviewReady'[k].attempt = running[k].attempt
            <4>1. LifeOf!Review(prLife[k], prLife'[k])
                BY <1>1, <3>1, <3>2 DEF LifeTable, LifeOf!Review, LifeOf!Attempts
            <4>2. QED
                BY <4>1 DEF LifeOf!Move
        <3>3. CASE k \notin claimed' /\ k \in completed'
            <4>1. LifeOf!Finish(prLife[k], prLife'[k])
                BY <1>1, <3>1, <3>3 DEF LifeTable, LifeOf!Finish, LifeOf!At
            <4>2. QED
                BY <4>1 DEF LifeOf!Move
        <3>4. CASE /\ k \in DOMAIN retryQueue' /\ retryQueue'[k] = running[k].attempt + 1
                   /\ ~GivesUp(running[k].attempt)
            <4>1. running[k].attempt < MaxRetries
                BY <3>1, <3>4, RetryAssumption DEF GivesUp
            <4>2. LifeOf!Retry(prLife[k], prLife'[k])
                BY <1>1, <3>1, <3>4, <4>1 DEF LifeTable, LifeOf!Retry, LifeOf!Attempts
            <4>3. QED
                BY <4>2 DEF LifeOf!Move
        <3>5. QED
            BY <1>8, <2>1, <3>2, <3>3, <3>4 DEF Ends, Gains
    <2>2. CASE x # k
        BY <1>1, <1>8, <2>2 DEF Ends, Loses, Gains, ClaimOK, LifeTable
    <2>3. QED
        BY <2>1, <2>2
<1>9. ASSUME NEW x \in Prs, Merges(x)
      PROVE  prLife'[k] = prLife[k] \/ LifeOf!Move(prLife[k], prLife'[k])
    <2>1. k \notin DOMAIN dispatching /\ k \notin DOMAIN dispatching' /\ completed' = completed
        BY <1>2, <1>3, <1>9 DEF Merges
    <2>2. CASE Forgets(x) /\ x = k /\ k \in claimed
        <3>1. k \notin claimed' /\ k \notin completed'
            BY <1>1, <2>1, <2>2 DEF Forgets, ClaimOK
        <3>2. prLife[k].stage \in {"running", "retrying", "review"}
            BY <1>1, <2>1, <2>2 DEF LifeTable, ClaimOK, LifeOf!At
        <3>3. LifeOf!Drop(prLife[k], prLife'[k])
            BY <1>1, <3>1, <3>2 DEF LifeTable, LifeOf!Drop
        <3>4. QED
            BY <3>3 DEF LifeOf!Move
    <2>3. CASE Forgets(x) /\ ~(x = k /\ k \in claimed)
        BY <1>1, <2>1, <2>3 DEF Forgets, Loses, ClaimOK, LifeTable
    <2>4. CASE UNCHANGED <<running, claimed, retryQueue, reviewReady>>
        BY <1>1, <2>1, <2>4 DEF ClaimOK, LifeTable
    <2>5. QED
        BY <1>9, <2>2, <2>3, <2>4 DEF Merges
<1>10. ASSUME NEW x, (x \in Issues /\ StartsIssue(x)) \/ ClaimsIssues(x) \/ DropsIssues(x) \/ Keeps
       PROVE  prLife'[k] = prLife[k]
    <2>1. /\ k \in claimed' <=> k \in claimed
          /\ UNCHANGED <<completed, running, retryQueue, reviewReady>>
          /\ k \in DOMAIN dispatching' <=> k \in DOMAIN dispatching
          /\ k \in DOMAIN dispatching => dispatching'[k] = dispatching[k]
        BY <1>2, <1>3, <1>10 DEF StartsIssue, ClaimsIssues, DropsIssues, Keeps
    <2>2. QED
        BY <1>1, <2>1 DEF ClaimOK, LifeTable
<1>11. QED
    BY <1>4, <1>5, <1>6, <1>7, <1>8, <1>9, <1>10 DEF Moves, Skips

\* KeyLife counts as this module does.
LEMMA SameCardinality == \A S : LifeOf!Cardinality(S) = Cardinality(S)
BY DEF LifeOf!Cardinality, Cardinality

\* The stages a pull request can be in, and how many are being worked on.
LifeTyped ==
    /\ prLife \in [Prs -> LifeOf!Life]
    /\ Cardinality(LifeOf!Working(prLife)) <= MaxConcurrent

LEMMA LifeIsTyped == ClaimsInv => LifeTyped
<1> SUFFICES ASSUME ClaimsInv PROVE LifeTyped
    OBVIOUS
<1>1. ASSUME NEW k \in Prs
      PROVE  /\ prLife[k] \in LifeOf!Life
             /\ prLife[k].stage \in {"dispatching", "running"} => k \in DOMAIN dispatching \cup DOMAIN running
    <2>1. ClaimOK(k) /\ LifeTable(k)
        BY LifeIs DEF LifeTables, ClaimsInv
    <2>2. 1..MaxRetries \subseteq 0..MaxRetries /\ 0 \in 0..MaxRetries
        BY RetryAssumption
    <2>3. CASE k \in claimed
        BY <2>1, <2>2, <2>3, AttemptsWithin
           DEF ClaimOK, LifeTable, LifeOf!At, LifeOf!Life, LifeOf!Stage
    <2>4. CASE k \notin claimed
        BY <2>1, <2>2, <2>4 DEF LifeTable, LifeOf!Done, LifeOf!Free, LifeOf!Life, LifeOf!Stage
    <2>5. QED
        BY <2>3, <2>4
<1>2. prLife \in [Prs -> LifeOf!Life]
    BY <1>1 DEF prLife
<1>3. LifeOf!Working(prLife) \subseteq Counted
    BY <1>1 DEF LifeOf!Working, Counted
<1>4. Counted \in SUBSET Keys /\ CapacityInv /\ MaxConcurrent \in Nat
    BY CapacityAssumption DEF Counted, Keys, ClaimsInv
<1>5. Cardinality(LifeOf!Working(prLife)) <= MaxConcurrent
    BY <1>3, <1>4, Fewer DEF CapacityInv
<1>6. QED
    BY <1>2, <1>5 DEF LifeTyped

LEMMA LifeIsTypedNext == ClaimsInv' => LifeTyped'
BY LifeIsTyped, PTL

\* Every pull request lives by KeyLife: one session at a time, at most
\* MaxRetries attempts, then its reviewer or the end; no more sessions than the
\* limit.  No interleaving of the loop with GitHub, the timers, the agents and
\* the run manager leads to another life (apply_*, execute_effects).
THEOREM LifeHolds ==
    ASSUME "relaunch" \notin Ops, "skip" \notin Ops
    PROVE  Spec => LifeSpec
<1>1. Init => LifeOf!Init
    <2> SUFFICES ASSUME Init PROVE prLife = [k \in Prs |-> LifeOf!Free]
        BY DEF LifeOf!Init
    <2>1. /\ DOMAIN running = {} /\ DOMAIN retryQueue = {} /\ DOMAIN reviewReady = {}
          /\ completed = {}
        BY DEF Init, Nothing
    <2>2. Dispatching = {}
        <3>1. LifeInv /\ dispatching = Nothing
            BY LifeInvInit, EmptyList DEF Init, dispatching, Workers
        <3>2. QED
            BY <3>1, DispatchingIs DEF Nothing
    <2>3. QED
        BY <2>1, <2>2 DEF prLife, LifeOf!Free
<1>2. ClaimsInv /\ ClaimsInv' /\ [Next]_vars => [LifeOf!Next]_prLife
    <2> SUFFICES ASSUME ClaimsInv, ClaimsInv', [Next]_vars PROVE LifeOf!Next
        OBVIOUS
    <2>1. Moves
        BY StepMoves DEF ClaimsInv
    <2>2. \A k \in Prs : prLife'[k] = prLife[k] \/ LifeOf!Move(prLife[k], prLife'[k])
        BY <2>1, LifeMoves
    <2>3. QED
        BY <2>2, LifeIsTypedNext, SameCardinality DEF LifeTyped, LifeOf!Next
<1>3. QED
    BY <1>1, <1>2, ClaimsInvHolds, PTL DEF Spec, LifeSpec, LifeOf!Spec
==============================================================================
