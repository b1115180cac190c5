------------------------ MODULE PreemptionBookingProofs ------------------------
(***************************************************************************)
(* The proof that a pod that runs is booked once the controller is at      *)
(* rest, for every set of pods and cores, when every core set asked for    *)
(* names a core of the node; writes may fail, and a pod whose eviction did *)
(* is the one exception.                                                   *)
(*                                                                         *)
(* The argument follows a live pod: it has a place, or a change, an event  *)
(* or a request about it waits, or the worker is deciding about its place, *)
(* or the worker has displaced it and will place or evict it, or it was    *)
(* spared by an eviction that failed.  There is one lemma for how each of  *)
(* the five ends, and it ends in another.                                  *)
(***************************************************************************)
EXTENDS PreemptionProofs

\* What the theorems assume of the constants: every pod can be booked.
BookingAllowed ==
    \A p \in Pods : \E i \in DOMAIN SpecCores[p] : SpecCores[p][i] \in Cores

HasPlace(p) == \E c \in Cores : Holds(c, p)

HasCoreLeft == \E i \in DOMAIN targets : targets[i] \in Cores

\* A change, an event or a request about the pod is still to be handled.
HasEvent(p)  == \E i \in DOMAIN podEvents : podEvents[i].pod = p
Announced(p) == p \in podNews \/ p \in queue \/ HasEvent(p)

\* The worker has yet to decide about the pod's own place, or to write it.
Deciding == {"read", "check", "scan", "victims", "preempt", "choose", "room",
             "migrate", "affinity", "evict", "reread", "update"}
InReconciliation(p) ==
    self = p /\ (pc \in Deciding \/ (pc \in {"remove", "add"} /\ HasCoreLeft))

\* The worker has taken the pod off its core, and will place or evict it.
Displaced(p) == pc \in {"choose", "room", "migrate", "evict"} /\ victim[1] = p

CacheLagsInNews == \A p \in Pods : p \notin podNews => podSeen[p] = pod[p]

TargetsMeant ==
    /\ pc \in {"read", "check"} => targets # <<>>
    /\ pc = "update" => targets = SpecCores[self]

LivePodsAccounted ==
    \A p \in Pods : pod[p] = "live" =>
        \/ HasPlace(p) \/ Announced(p) \/ InReconciliation(p) \/ Displaced(p)
        \/ p \in spared

BookingInv == CacheLagsInNews /\ TargetsMeant /\ LivePodsAccounted

-----------------------------------------------------------------------------
\* The steps.

\* The cache shows the pod as it is, but for the changes on their way.
LEMMA CacheStep ==
    ASSUME TypeOK, CacheLagsInNews, [Next]_vars
    PROVE  CacheLagsInNews'
<1> USE DEF TypeOK
<1>1. CASE UNCHANGED cluster
  BY <1>1 DEF CacheLagsInNews, cluster
<1>2. CASE Evict
  <2>1. UNCHANGED podSeen /\ victim[1] \in Pods
    BY <1>2 DEF Evict, WorkerTypeOK, Victims
  <2>2. \/ UNCHANGED pod /\ podNews \subseteq podNews'
        \/ /\ pod' = [pod EXCEPT ![victim[1]] = "terminating"]
           /\ podNews' = podNews \cup {victim[1]}
    BY <1>2 DEF Evict
  <2> QED
    BY <2>1, <2>2 DEF CacheLagsInNews, ClusterTypeOK
<1>3. CASE \E p \in Pods : SyncPod(p)
  BY <1>3 DEF SyncPod, CacheLagsInNews, ClusterTypeOK
<1>4. CASE \E p \in Pods : CreatePod(p) \/ DeletePod(p) \/ EndPod(p)
  BY <1>4 DEF CreatePod, DeletePod, EndPod, PodChanges, CacheLagsInNews,
              ClusterTypeOK
<1>5. CASE Restart
  BY <1>5 DEF Restart, CacheLagsInNews
<1>6. CASE \/ \E p \in Pods : Fetch(p) \/ DeliverCR(p) \/ Overrun(p)
           \/ ReadRuntime \/ CheckRegistered \/ ScanCore \/ FindVictims
           \/ PreemptVictim \/ ChooseDest \/ CheckRoom \/ Migrate
           \/ UpdateAffinity \/ RereadRuntime \/ CheckUpdate \/ RemoveOld
           \/ AddNew \/ HandlePod \/ Recover \/ UNCHANGED vars
  <2>1. UNCHANGED cluster
    BY <1>6
    DEF Fetch, DeliverCR, Overrun, ReadRuntime, CheckRegistered, ScanCore,
        FindVictims, PreemptVictim, ChooseDest, CheckRoom, Migrate,
        UpdateAffinity, RereadRuntime, CheckUpdate, RemoveOld, AddNew,
        HandlePod, HandleLive, Enqueue, CleanupRuntime, CleanupPool, Recover,
        vars, cluster
  <2> QED
    BY <1>1, <2>1
<1> QED
  BY <1>2, <1>3, <1>4, <1>5, <1>6 DEF Next, WorkerStep

\* A reconciliation starts with a core set, and its booking with the spec's.
LEMMA TargetsStep ==
    ASSUME TypeOK, TargetsMeant, [Next]_vars
    PROVE  TargetsMeant'
<1> USE DEF TypeOK
<1>1. CASE UNCHANGED worker
  BY <1>1 DEF TargetsMeant, worker
<1>2. CASE WorkerIdle
  BY <1>2 DEF WorkerIdle, TargetsMeant
<1>3. CASE ~WorkerStep /\ ~Restart
  BY <1>1, <1>3, OthersMakeRoom
<1>4. CASE Restart
  BY <1>2, <1>4 DEF Restart
<1>5. CASE \E p \in Pods : Fetch(p)
  <2>1. PICK p \in Pods : Fetch(p)
    BY <1>5
  <2>2. CASE FetchMissing(p)
    BY <1>1, <2>2 DEF FetchMissing
  <2>3. CASE FetchPresent(p)
    <3>1. SpecCores[p] # <<>>
      BY PreemptionAssumption
    <3> QED
      BY <2>3, <3>1 DEF FetchPresent, TargetsMeant
  <2> QED
    BY <2>1, <2>2, <2>3 DEF Fetch
<1>6. CASE ReadRuntime
  BY <1>6 DEF ReadRuntime, TargetsMeant
<1>7. CASE RereadRuntime
  BY <1>7 DEF RereadRuntime, TargetsMeant
<1>8. CASE \/ CheckRegistered \/ ScanCore \/ FindVictims \/ PreemptVictim
           \/ ChooseDest \/ CheckRoom \/ Migrate \/ UpdateAffinity \/ Evict
           \/ CheckUpdate \/ RemoveOld \/ AddNew
  <2>1. WorkerIdle \/ pc' \notin {"read", "check", "update"}
    BY <1>8 DEF CheckRegistered, ScanCore, FindVictims, PreemptVictim,
       ChooseDest, CheckRoom, Migrate, UpdateAffinity, Evict, CheckUpdate,
       RemoveOld, AddNew
  <2> QED
    BY <1>2, <2>1 DEF TargetsMeant
<1> QED
  BY <1>3, <1>4, <1>5, <1>6, <1>7, <1>8 DEF WorkerStep

\* An announcement lasts until the worker fetches the pod.
LEMMA AnnouncedStep ==
    ASSUME TypeOK, [Next]_vars, NEW p \in Pods, Announced(p)
    PROVE  Announced(p)' \/ Fetch(p)
<1> USE DEF TypeOK
<1>1. CASE UNCHANGED podEvents /\ podNews \subseteq podNews' /\ queue \subseteq queue'
  BY <1>1 DEF Announced, HasEvent
<1>2. CASE \E q \in Pods : Fetch(q)
  <2>1. PICK q \in Pods : Fetch(q)
    BY <1>2
  <2>2. UNCHANGED <<podNews, podEvents>> /\ queue' = queue \ {q}
    BY <2>1 DEF Fetch, FetchMissing, FetchPresent, cluster, informer
  <2> QED
    BY <2>1, <2>2 DEF Announced, HasEvent
<1>3. CASE Evict
  <2>1. UNCHANGED <<queue, podEvents>> /\ podNews \subseteq podNews'
    BY <1>3 DEF Evict, informer
  <2> QED
    BY <1>1, <2>1
<1>4. CASE \E q \in Pods : SyncPod(q)
  <2>1. PICK q \in Pods : SyncPod(q)
    BY <1>4
  <2> DEFINE event == [pod |-> q, deleting |-> pod[q] # "live"]
  <2>2. /\ podEvents \in Seq(PodEvents) /\ event \in PodEvents
        /\ podEvents' = Append(podEvents, event) /\ event.pod = q
        /\ podNews' = podNews \ {q} /\ queue' = queue
    BY <2>1 DEF SyncPod, ClusterTypeOK, PodEvents
  <2>3. HasEvent(p) => HasEvent(p)'
    BY <2>2 DEF HasEvent
  <2>4. HasEvent(q)'
    <3>1. /\ Len(podEvents) + 1 \in DOMAIN podEvents'
          /\ podEvents'[Len(podEvents) + 1] = event
      BY <2>2
    <3> QED
      BY <2>2, <3>1 DEF HasEvent
  <2> QED
    BY <2>2, <2>3, <2>4 DEF Announced
<1>5. CASE HandleLive \/ CleanupPool
  <2>1. podEvents # <<>> /\ podEvents \in Seq(PodEvents)
    BY <1>5 DEF HandleLive, CleanupPool, ClusterTypeOK
  <2>2. /\ queue' = queue \cup {Head(podEvents).pod}
        /\ podEvents' = Tail(podEvents) /\ UNCHANGED podNews
    BY <1>5 DEF HandleLive, CleanupPool, Enqueue, cluster
  <2>3. HasEvent(p) => p = Head(podEvents).pod \/ HasEvent(p)'
    <3> SUFFICES ASSUME NEW i \in DOMAIN podEvents, podEvents[i].pod = p, i # 1
                 PROVE  HasEvent(p)'
      BY <2>1 DEF HasEvent
    <3>1. i - 1 \in DOMAIN Tail(podEvents) /\ Tail(podEvents)[i - 1] = podEvents[i]
      BY <2>1
    <3> QED
      BY <2>2, <3>1 DEF HasEvent
  <2> QED
    BY <2>2, <2>3 DEF Announced
<1>6. CASE \E q \in Pods : DeliverCR(q)
  <2>1. UNCHANGED <<podNews, podEvents>> /\ queue \subseteq queue'
    BY <1>6 DEF DeliverCR, cluster, informer
  <2> QED
    BY <1>1, <2>1
<1>7. CASE \E q \in Pods : CreatePod(q) \/ DeletePod(q) \/ EndPod(q)
  <2>1. UNCHANGED <<queue, podEvents>> /\ podNews \subseteq podNews'
    BY <1>7 DEF CreatePod, DeletePod, EndPod, PodChanges, informer
  <2> QED
    BY <1>1, <2>1
<1>8. CASE Restart
  BY <1>8 DEF Restart, Announced
<1>9. CASE \/ ReadRuntime \/ CheckRegistered \/ ScanCore \/ FindVictims
           \/ PreemptVictim \/ ChooseDest \/ CheckRoom \/ Migrate
           \/ UpdateAffinity \/ RereadRuntime \/ CheckUpdate \/ RemoveOld
           \/ AddNew \/ CleanupRuntime \/ (\E q \in Pods : Overrun(q))
           \/ Recover \/ UNCHANGED vars
  <2>1. UNCHANGED <<queue, podEvents, podNews>>
    BY <1>9
    DEF ReadRuntime, CheckRegistered, ScanCore, FindVictims, PreemptVictim,
        ChooseDest, CheckRoom, Migrate, UpdateAffinity, RereadRuntime,
        CheckUpdate, RemoveOld, AddNew, CleanupRuntime, Overrun, Recover,
        vars, cluster, informer
  <2> QED
    BY <1>1, <2>1
<1> QED
  BY <1>2, <1>3, <1>4, <1>5, <1>6, <1>7, <1>8, <1>9 DEF Next, WorkerStep, HandlePod

\* A pod becomes live only as a change the cache has yet to see.
LEMMA NewPodsAreNews ==
    ASSUME TypeOK, [Next]_vars, NEW p \in Pods, pod[p] # "live", pod'[p] = "live"
    PROVE  p \in podNews'
<1> USE DEF TypeOK
<1>1. pod'[p] # pod[p]
  OBVIOUS
<1>2. CASE Evict
  BY <1>2 DEF Evict, WorkerTypeOK, Victims, ClusterTypeOK
<1>3. CASE \E q \in Pods : CreatePod(q) \/ DeletePod(q) \/ EndPod(q)
  BY <1>1, <1>3 DEF CreatePod, DeletePod, EndPod, PodChanges, ClusterTypeOK
<1>4. CASE \/ \E q \in Pods : Fetch(q) \/ DeliverCR(q) \/ Overrun(q) \/ SyncPod(q)
           \/ ReadRuntime \/ CheckRegistered \/ ScanCore \/ FindVictims
           \/ PreemptVictim \/ ChooseDest \/ CheckRoom \/ Migrate
           \/ UpdateAffinity \/ RereadRuntime \/ CheckUpdate \/ RemoveOld
           \/ AddNew \/ HandlePod \/ Recover \/ Restart \/ UNCHANGED vars
  <2>1. UNCHANGED pod
    BY <1>4
    DEF Fetch, DeliverCR, Overrun, SyncPod, ReadRuntime, CheckRegistered,
        ScanCore, FindVictims, PreemptVictim, ChooseDest, CheckRoom, Migrate,
        UpdateAffinity, RereadRuntime, CheckUpdate, RemoveOld, AddNew,
        HandlePod, HandleLive, Enqueue, CleanupRuntime, CleanupPool, Recover,
        Restart, vars, cluster
  <2> QED
    BY <1>1, <2>1
<1> QED
  BY <1>2, <1>3, <1>4 DEF Next, WorkerStep

\* The fetch that takes a live pod out of the queue starts its reconciliation:
\* a pod missing from the cache has news on their way.
LEMMA FetchStarts ==
    ASSUME TypeOK, CacheLagsInNews, NEW p \in Pods, Fetch(p), pod[p] = "live"
    PROVE  Announced(p)' \/ InReconciliation(p)'
<1>1. CASE FetchMissing(p)
  <2>1. p \in podNews
    BY <1>1 DEF FetchMissing, CacheLagsInNews
  <2> QED
    BY <2>1 DEF Fetch, cluster, Announced
<1>2. CASE FetchPresent(p)
  BY <1>2 DEF FetchPresent, InReconciliation, Deciding
<1> QED
  BY <1>1, <1>2 DEF Fetch

\* A pod loses its places to its own reconciliation, to a preemption, to a
\* cleanup that asks for another reconciliation, or to a restart.
LEMMA PlaceStep ==
    ASSUME TypeOK, [Next]_vars, NEW p \in Pods, HasPlace(p)
    PROVE  HasPlace(p)' \/ Announced(p)' \/ InReconciliation(p)' \/ Displaced(p)'
<1> USE DEF TypeOK
<1>1. PICK c \in Cores : Holds(c, p)
  BY DEF HasPlace
<1>2. CASE entry'[c][p] # NoEntry
  BY <1>2 DEF HasPlace, Holds
<1>3. CASE UNCHANGED entry
  BY <1>1, <1>3 DEF HasPlace, Holds
<1>4. ASSUME NEW d, NEW q \in Pods, NEW info \in PodInfo, addPodToCore(d, q, info)
      PROVE  HasPlace(p)'
  <2>1. entry'[c][p] # NoEntry
    BY <1>1, <1>4, NoEntryAssumption
    DEF addPodToCore, PoolTypeOK, Holds, poolVars
  <2> QED
    BY <2>1 DEF HasPlace, Holds
<1>5. ASSUME NEW d, NEW q \in Pods, removePodFromCore(d, q), q # p \/ d \notin Cores
      PROVE  HasPlace(p)'
  <2>1. entry'[c][p] = entry[c][p]
    BY <1>5 DEF removePodFromCore, PoolTypeOK, poolVars
  <2> QED
    BY <1>1, <2>1 DEF HasPlace, Holds
<1>6. CASE PreemptVictim
  <2>1. CASE UNCHANGED poolVars
    BY <1>3, <2>1 DEF poolVars
  <2>2. CASE ~UNCHANGED poolVars
    <3>1. PICK v \in todo : /\ removePodFromCore(Head(targets), v[1])
                            /\ victim' = v /\ pc' = "choose"
      BY <1>6, <2>2 DEF PreemptVictim
    <3>2. v[1] \in Pods
      BY DEF WorkerTypeOK, Victims
    <3>3. CASE v[1] = p
      BY <3>1, <3>3 DEF Displaced
    <3>4. CASE v[1] # p
      BY <1>5, <3>1, <3>2, <3>4
    <3> QED
      BY <3>3, <3>4
  <2> QED
    BY <2>1, <2>2
<1>7. CASE Migrate
  BY <1>4, <1>7 DEF Migrate, WorkerTypeOK, Victims
<1>8. CASE RemoveOld
  <2>1. CASE targets = <<>>
    BY <1>3, <1>8, <2>1 DEF RemoveOld, poolVars
  <2>2. CASE targets # <<>>
    <3>1. removePodFromCore(Head(targets), self) /\ self \in Pods
          /\ UNCHANGED <<self, targets>> /\ pc' = "add"
      BY <1>8, <2>2 DEF RemoveOld, WorkerTypeOK
    <3>2. CASE self = p /\ Head(targets) \in Cores
      <4>1. 1 \in DOMAIN targets /\ targets[1] \in Cores
        BY <2>2, <3>2 DEF WorkerTypeOK, CoreSets
      <4> QED
        BY <3>1, <3>2, <4>1 DEF InReconciliation, HasCoreLeft
    <3> QED
      BY <1>5, <3>1, <3>2
  <2> QED
    BY <2>1, <2>2
<1>9. CASE AddNew
  <2>1. self \in Pods /\ millis \in 1 .. MaxMillis
    BY <1>9, PoolAssumption DEF AddNew, WorkerTypeOK
  <2>2. podInfo(self, millis) \in PodInfo
    BY <2>1, PodInfoTypes
  <2> QED
    BY <1>4, <1>9, <2>1, <2>2 DEF AddNew
<1>10. CASE CleanupPool
  <2>1. CASE p = Head(podEvents).pod
    BY <1>10, <2>1 DEF CleanupPool, Enqueue, Announced
  <2>2. CASE p # Head(podEvents).pod
    <3>1. entry'[c][p] = entry[c][p]
      BY <1>10, <2>2 DEF CleanupPool, cleanupPool, PoolTypeOK
    <3> QED
      BY <1>1, <3>1 DEF HasPlace, Holds
  <2> QED
    BY <2>1, <2>2
<1>11. CASE Restart
  BY <1>11 DEF Restart, Announced
<1>12. CASE \/ \E q \in Pods : Fetch(q) \/ SyncPod(q) \/ DeliverCR(q)
            \/ ReadRuntime \/ CheckRegistered \/ ScanCore \/ FindVictims
            \/ ChooseDest \/ CheckRoom \/ UpdateAffinity \/ Evict
            \/ RereadRuntime \/ CheckUpdate \/ HandleLive \/ CleanupRuntime
            \/ \E q \in Pods : Overrun(q) \/ CreatePod(q) \/ DeletePod(q) \/ EndPod(q)
            \/ Recover \/ UNCHANGED vars
  <2>1. UNCHANGED entry
    BY <1>12
    DEF Fetch, SyncPod, DeliverCR, ReadRuntime, CheckRegistered, ScanCore,
        FindVictims, ChooseDest, CheckRoom, UpdateAffinity, Evict,
        RereadRuntime, CheckUpdate, HandleLive, CleanupRuntime, Overrun,
        CreatePod, DeletePod, EndPod, PodChanges, Recover, vars, poolVars
  <2> QED
    BY <1>3, <2>1
<1> QED
  BY <1>6, <1>7, <1>8, <1>9, <1>10, <1>11, <1>12 DEF Next, WorkerStep, HandlePod

\* What is registered on a core set has a place on each of its cores.
LEMMA RegisteredHasPlace ==
    ASSUME PreemptionAssumption, NEW p \in Pods, NEW m \in 1 .. MaxMillis,
           NEW cores \in CoreSets, cores # <<>>, Registered(p, m, cores)
    PROVE  HasPlace(p)
<1>1. 1 \in DOMAIN cores
  BY DEF CoreSets
<1>2. cores[1] \in Cores /\ entry[cores[1]][p] = podInfo(p, m)
  BY <1>1 DEF Registered
<1>3. podInfo(p, m) # NoEntry
  BY PodInfoTypes, NoEntryAssumption
<1> QED
  BY <1>2, <1>3 DEF HasPlace, Holds

\* A reconciliation goes on until the pod has its place.
LEMMA ReconciliationStep ==
    ASSUME BookingAllowed, TypeOK, TargetsMeant, [Next]_vars,
           NEW p \in Pods, InReconciliation(p)
    PROVE  HasPlace(p)' \/ Announced(p)' \/ InReconciliation(p)'
<1> USE DEF TypeOK
<1>1. self = p /\ pc # "idle"
  BY DEF InReconciliation, Deciding
<1>2. CASE ~WorkerStep /\ ~Restart
  <2>1. UNCHANGED <<pc, self, targets>>
    BY <1>2, OthersMakeRoom DEF worker
  <2> QED
    BY <2>1 DEF InReconciliation, HasCoreLeft
<1>3. CASE Restart
  BY <1>3 DEF Restart, Announced
<1>4. CASE CheckRegistered
  <2>1. UNCHANGED entry /\ targets # <<>>
    BY <1>4 DEF CheckRegistered, poolVars, TargetsMeant
  <2>2. CASE Registered(self, millis, targets)
    <3>1. HasPlace(p)
      BY <1>1, <1>4, <2>1, <2>2, RegisteredHasPlace, PreemptionAssumption,
         PoolAssumption
      DEF CheckRegistered, WorkerTypeOK
    <3> QED
      BY <2>1, <3>1 DEF HasPlace, Holds
  <2>3. CASE ~Registered(self, millis, targets)
    BY <1>1, <1>4, <2>3 DEF CheckRegistered, InReconciliation, Deciding
  <2> QED
    BY <2>2, <2>3
<1>5. CASE CheckUpdate
  <2>1. UNCHANGED entry /\ targets = SpecCores[p] /\ targets # <<>>
    BY <1>1, <1>5, PreemptionAssumption DEF CheckUpdate, poolVars, TargetsMeant
  <2>2. CASE Registered(self, millis, targets)
    <3>1. HasPlace(p)
      BY <1>1, <1>5, <2>1, <2>2, RegisteredHasPlace, PreemptionAssumption,
         PoolAssumption
      DEF CheckUpdate, WorkerTypeOK
    <3> QED
      BY <2>1, <3>1 DEF HasPlace, Holds
  <2>3. CASE ~Registered(self, millis, targets)
    <3>1. HasCoreLeft
      BY <2>1 DEF BookingAllowed, HasCoreLeft
    <3>2. UNCHANGED <<self, targets>> /\ pc' = "remove"
      BY <1>5, <2>3 DEF CheckUpdate
    <3> QED
      BY <1>1, <3>1, <3>2 DEF InReconciliation, HasCoreLeft
  <2> QED
    BY <2>2, <2>3
<1>6. CASE RemoveOld
  <2>1. HasCoreLeft
    BY <1>6 DEF RemoveOld, InReconciliation, Deciding
  <2>2. targets # <<>>
    BY <2>1 DEF HasCoreLeft
  <2>3. UNCHANGED <<self, targets>> /\ pc' = "add"
    BY <1>6, <2>2 DEF RemoveOld
  <2> QED
    BY <1>1, <2>1, <2>3 DEF InReconciliation, HasCoreLeft
<1>7. CASE AddNew
  <2>1. /\ millis \in 1 .. MaxMillis /\ targets # <<>> /\ targets \in CoreSets
        /\ self' = self /\ targets' = Tail(targets) /\ pc' = "remove"
        /\ addPodToCore(Head(targets), p, podInfo(p, millis))
    BY <1>1, <1>7, PoolAssumption DEF AddNew, WorkerTypeOK
  <2>2. CASE Head(targets) \in Cores
    <3>1. entry'[Head(targets)][p] = podInfo(p, millis)
      BY <2>1, <2>2 DEF addPodToCore, PoolTypeOK
    <3>2. podInfo(p, millis) # NoEntry
      BY <2>1, PodInfoTypes, NoEntryAssumption
    <3> QED
      BY <2>2, <3>1, <3>2 DEF HasPlace, Holds
  <2>3. CASE Head(targets) \notin Cores
    <3>1. PICK i \in DOMAIN targets : targets[i] \in Cores
      BY <1>7 DEF AddNew, InReconciliation, Deciding, HasCoreLeft
    <3>2. i # 1
      BY <2>1, <2>3, <3>1 DEF CoreSets
    <3>3. i - 1 \in DOMAIN Tail(targets) /\ Tail(targets)[i - 1] = targets[i]
      BY <2>1, <3>1, <3>2 DEF CoreSets
    <3> QED
      BY <1>1, <2>1, <3>1, <3>3 DEF InReconciliation, HasCoreLeft
  <2> QED
    BY <2>2, <2>3
<1>8. CASE \/ ReadRuntime \/ ScanCore \/ FindVictims \/ PreemptVictim
           \/ ChooseDest \/ CheckRoom \/ Migrate \/ UpdateAffinity \/ Evict
           \/ RereadRuntime
  <2>1. self' = self /\ pc' \in Deciding
    BY <1>8 DEF ReadRuntime, ScanCore, FindVictims, PreemptVictim, ChooseDest,
       CheckRoom, Migrate, UpdateAffinity, Evict, RereadRuntime, Deciding
  <2> QED
    BY <1>1, <2>1 DEF InReconciliation
<1>9. CASE \E q \in Pods : Fetch(q)
  BY <1>1, <1>9 DEF Fetch
<1> QED
  BY <1>2, <1>3, <1>4, <1>5, <1>6, <1>7, <1>8, <1>9 DEF WorkerStep

\* A displaced pod is placed elsewhere, or evicted if it is live, or spared.
LEMMA DisplacedStep ==
    ASSUME TypeOK, [Next]_vars, NEW p \in Pods, Displaced(p)
    PROVE  \/ HasPlace(p)' \/ Announced(p)' \/ Displaced(p)'
           \/ pod'[p] # "live" \/ p \in spared'
<1> USE DEF TypeOK
<1>1. victim[1] = p /\ pc \in {"choose", "room", "migrate", "evict"}
  BY DEF Displaced
<1>2. CASE ~WorkerStep /\ ~Restart
  <2>1. UNCHANGED <<pc, victim>>
    BY <1>2, OthersMakeRoom DEF worker
  <2> QED
    BY <2>1 DEF Displaced
<1>3. CASE Restart
  BY <1>3 DEF Restart, Announced
<1>4. CASE ChooseDest \/ CheckRoom
  BY <1>1, <1>4 DEF ChooseDest, CheckRoom, Displaced
<1>5. CASE Migrate
  <2>1. dest \in Cores /\ victim[2] \in PodInfo
    BY <1>5 DEF Migrate, WorkerTypeOK, Victims
  <2>2. entry'[dest][p] = victim[2]
    BY <1>1, <1>5, <2>1 DEF Migrate, addPodToCore, PoolTypeOK
  <2> QED
    BY <2>1, <2>2, NoEntryAssumption DEF HasPlace, Holds
<1>6. CASE Evict
  BY <1>1, <1>6 DEF Evict, ClusterTypeOK
<1>7. CASE \/ \E q \in Pods : Fetch(q)
           \/ ReadRuntime \/ CheckRegistered \/ ScanCore \/ FindVictims
           \/ PreemptVictim \/ UpdateAffinity \/ RereadRuntime \/ CheckUpdate
           \/ RemoveOld \/ AddNew
  BY <1>1, <1>7 DEF Fetch, ReadRuntime, CheckRegistered, ScanCore, FindVictims,
     PreemptVictim, UpdateAffinity, RereadRuntime, CheckUpdate, RemoveOld, AddNew
<1> QED
  BY <1>2, <1>3, <1>4, <1>5, <1>6, <1>7 DEF WorkerStep

\* A pod that was spared waits for the next request about it.
LEMMA SparedStep ==
    ASSUME TypeOK, [Next]_vars, NEW p \in Pods, p \in spared
    PROVE  p \in spared' \/ Announced(p)' \/ Fetch(p)
<1>1. CASE \E q \in Pods : Fetch(q)
  BY <1>1 DEF Fetch
<1>2. CASE Evict
  BY <1>2 DEF Evict
<1>3. CASE Restart
  BY <1>3 DEF Restart, Announced
<1>4. CASE \/ \E q \in Pods : SyncPod(q) \/ DeliverCR(q) \/ Overrun(q)
                              \/ CreatePod(q) \/ DeletePod(q) \/ EndPod(q)
           \/ ReadRuntime \/ CheckRegistered \/ ScanCore \/ FindVictims
           \/ PreemptVictim \/ ChooseDest \/ CheckRoom \/ Migrate
           \/ UpdateAffinity \/ RereadRuntime \/ CheckUpdate \/ RemoveOld
           \/ AddNew \/ HandlePod \/ Recover \/ UNCHANGED vars
  BY <1>4
  DEF SyncPod, DeliverCR, Overrun, CreatePod, DeletePod, EndPod, PodChanges,
      ReadRuntime, CheckRegistered, ScanCore, FindVictims, PreemptVictim,
      ChooseDest, CheckRoom, Migrate, UpdateAffinity, RereadRuntime, CheckUpdate,
      RemoveOld, AddNew, HandlePod, HandleLive, Enqueue, CleanupRuntime,
      CleanupPool, Recover, vars
<1> QED
  BY <1>1, <1>2, <1>3, <1>4 DEF Next, WorkerStep

\* Every live pod is booked, about to be, about to be evicted, or spared by an
\* eviction that failed.
THEOREM LivePodsAreAccountedFor == BookingAllowed => (Spec => []BookingInv)
<1> SUFFICES ASSUME BookingAllowed PROVE Spec => []BookingInv
  OBVIOUS
<1>1. Init => BookingInv
  <2> SUFFICES ASSUME Init PROVE BookingInv
    OBVIOUS
  <2>1. podSeen = pod /\ queue = Pods /\ pc = "idle"
    BY DEF Init
  <2> QED
    BY <2>1 DEF BookingInv, CacheLagsInNews, TargetsMeant, LivePodsAccounted,
                Announced
<1>2. TypeOK /\ BookingInv /\ [Next]_vars => BookingInv'
  <2> SUFFICES ASSUME TypeOK, CacheLagsInNews, TargetsMeant, LivePodsAccounted,
                      [Next]_vars
               PROVE  BookingInv'
    BY DEF BookingInv
  <2>1. ASSUME NEW p \in Pods, pod'[p] = "live"
        PROVE  \/ HasPlace(p)' \/ Announced(p)' \/ InReconciliation(p)' \/ Displaced(p)'
               \/ p \in spared'
    <3>1. CASE pod[p] # "live"
      BY <2>1, <3>1, NewPodsAreNews DEF Announced
    <3>2. CASE pod[p] = "live"
      <4>1. \/ HasPlace(p) \/ Announced(p) \/ InReconciliation(p) \/ Displaced(p)
            \/ p \in spared
        BY <3>2 DEF LivePodsAccounted
      <4> QED
        BY <2>1, <3>2, <4>1, PlaceStep, AnnouncedStep, FetchStarts,
           ReconciliationStep, DisplacedStep, SparedStep
    <3> QED
      BY <3>1, <3>2
  <2>2. LivePodsAccounted'
    BY <2>1 DEF LivePodsAccounted
  <2> QED
    BY <2>2, CacheStep, TargetsStep DEF BookingInv
<1> QED
  BY <1>1, <1>2, PreemptionTyping, PTL DEF Spec

\* However creation, eviction, failing writes, late events, cleanups and restarts
\* raced: when the controller is done, a pod that runs is booked somewhere, unless
\* the eviction preemptPod tried after taking it off its core failed.
THEOREM PodsAreBookedAtRest == BookingAllowed => (Spec => []LivePodsAreBooked)
<1> SUFFICES ASSUME BookingAllowed PROVE Spec => []LivePodsAreBooked
  OBVIOUS
<1>1. BookingInv => LivePodsAreBooked
  <2> SUFFICES ASSUME BookingInv, Quiescent, NEW p \in Pods, pod[p] = "live"
               PROVE  p \in spared \/ HasPlace(p)
    BY DEF LivePodsAreBooked, HasPlace
  <2>1. ~Announced(p) /\ ~InReconciliation(p) /\ ~Displaced(p)
    BY DEF Quiescent, Announced, HasEvent, InReconciliation, Displaced, Deciding
  <2> QED
    BY <2>1 DEF BookingInv, LivePodsAccounted
<1>2. Spec => []BookingInv
  BY LivePodsAreAccountedFor
<1> QED
  BY <1>1, <1>2, PTL

\* The exception needs a write that fails: while none does, no pod is spared
\* (EvictPod), and all that run are booked at rest.
THEOREM FailingWritesSparePods == ~ApiMayFail => (Spec => [](spared = {}))
<1> SUFFICES ASSUME ~ApiMayFail PROVE Spec => [](spared = {})
  OBVIOUS
<1>1. Init => spared = {}
  BY DEF Init
<1>2. spared = {} /\ [Next]_vars => (spared = {})'
  <2> SUFFICES ASSUME spared = {}, [Next]_vars, spared' # {} PROVE FALSE
    OBVIOUS
  <2>1. CASE Evict
    BY <2>1 DEF Evict
  <2>2. CASE Restart \/ \E p \in Pods : Fetch(p)
    BY <2>2 DEF Restart, Fetch
  <2>3. CASE \/ \E p \in Pods : SyncPod(p) \/ DeliverCR(p) \/ Overrun(p)
                                \/ CreatePod(p) \/ DeletePod(p) \/ EndPod(p)
             \/ ReadRuntime \/ CheckRegistered \/ ScanCore \/ FindVictims
             \/ PreemptVictim \/ ChooseDest \/ CheckRoom \/ Migrate
             \/ UpdateAffinity \/ RereadRuntime \/ CheckUpdate \/ RemoveOld
             \/ AddNew \/ HandlePod \/ Recover \/ UNCHANGED vars
    BY <2>3
    DEF SyncPod, DeliverCR, Overrun, CreatePod, DeletePod, EndPod, PodChanges,
        ReadRuntime, CheckRegistered, ScanCore, FindVictims, PreemptVictim,
        ChooseDest, CheckRoom, Migrate, UpdateAffinity, RereadRuntime, CheckUpdate,
        RemoveOld, AddNew, HandlePod, HandleLive, Enqueue, CleanupRuntime,
        CleanupPool, Recover, vars
  <2> QED
    BY <2>1, <2>2, <2>3 DEF Next, WorkerStep
<1> QED
  BY <1>1, <1>2, PTL DEF Spec
==============================================================================
