--------------------------- MODULE PreemptionProofs ---------------------------
(***************************************************************************)
(* Proofs about Preemption for every set of pods and cores, every          *)
(* threshold and every amount of CPU.                                      *)
(*                                                                         *)
(* The order: the types; that every step changes the pool by one of its    *)
(* methods, so that what CPUPoolProofs says of the pool holds of the       *)
(* controller; then the invariants about the worker's locals that carry    *)
(* the two action properties of preemption.                                *)
(***************************************************************************)
EXTENDS Preemption, CPUPoolProofs

\* StatusUpdate writes core sets and keeps the sets of CRs.
LEMMA StatusUpdateTypes ==
    ASSUME alloc \in [Pods -> CoreSets], allocSeen \in [Pods -> CoreSets],
           crNews \subseteq Pods,
           NEW p \in Pods, NEW cores \in CoreSets, StatusUpdate(p, cores)
    PROVE  /\ alloc' \in [Pods -> CoreSets] /\ allocSeen' \in [Pods -> CoreSets]
           /\ crNews' \subseteq Pods
  BY DEF StatusUpdate

\* The amount a pod is booked with is a positive number.
LEMMA AmountTypes ==
    ASSUME NEW p \in Pods
    PROVE  cpuMillis(p) \in 1 .. MaxMillis
  BY PreemptionAssumption DEF cpuMillis

LEMMA PodInfoTypes ==
    ASSUME NEW p \in Pods, NEW m \in 1 .. MaxMillis
    PROVE  podInfo(p, m) \in PodInfo
  BY PreemptionAssumption DEF podInfo, PodInfo

LEMMA IdleTypes ==
    ASSUME WorkerIdle
    PROVE  WorkerTypeOK'
<1>1. SomeCore \in Cores
  BY PreemptionAssumption DEF SomeCore
<1>2. 0 \in 0 .. MaxMillis
  BY PoolAssumption
<1> QED
  BY <1>1, <1>2 DEF WorkerIdle, WorkerTypeOK, CoreSets, WorkerSteps

LEMMA PoolUnchanged ==
    ASSUME PoolTypeOK, UNCHANGED poolVars
    PROVE  PoolTypeOK'
  BY DEF PoolTypeOK, poolVars

LEMMA ClusterUnchanged ==
    ASSUME ClusterTypeOK,
           UNCHANGED <<cluster, status, queue, runtime, informer, spared, events>>
    PROVE  ClusterTypeOK'
  BY DEF ClusterTypeOK, cluster, status, informer

LEMMA WorkerUnchanged ==
    ASSUME WorkerTypeOK, UNCHANGED worker
    PROVE  WorkerTypeOK'
  BY DEF WorkerTypeOK, worker

-----------------------------------------------------------------------------
\* The types, action by action.

LEMMA InitTypes ==
    ASSUME Init
    PROVE  TypeOK
<1>1. PoolTypeOK
  BY PoolInitTypes DEF Init
<1>2. SomeCore \in Cores
  BY PreemptionAssumption DEF SomeCore
<1>3. /\ alloc = [p \in Pods |-> <<>>] /\ allocSeen = [p \in Pods |-> <<>>]
      /\ runtime = [p \in Pods |-> ""]
      /\ podNews = {} /\ crNews = {} /\ queue = Pods
      /\ podEvents = <<>> /\ hpc = "idle" /\ spared = {} /\ events = 0
      /\ pc = "idle" /\ self = NoPod /\ targets = <<>> /\ millis = 0
      /\ todo = {} /\ victim = NoVictim /\ dest = SomeCore
  BY DEF Init
<1>4. pod \in [Pods -> PodStates] /\ podSeen \in [Pods -> PodStates]
  BY DEF Init, PodStates
<1>5. <<>> \in CoreSets /\ <<>> \in Seq(PodEvents)
  BY DEF CoreSets
<1>6. 0 \in 0 .. MaxEvents /\ 0 \in 0 .. MaxMillis
  BY PreemptionAssumption, PoolAssumption
<1>7. ClusterTypeOK
  BY <1>3, <1>4, <1>5, <1>6 DEF ClusterTypeOK
<1>8. WorkerTypeOK
  BY <1>2, <1>3, <1>5, <1>6 DEF WorkerTypeOK, WorkerSteps
<1> QED
  BY <1>1, <1>7, <1>8 DEF TypeOK

LEMMA FetchTypes ==
    ASSUME TypeOK, NEW p \in Pods, Fetch(p)
    PROVE  TypeOK'
<1>1. PoolTypeOK'
  BY PoolUnchanged DEF Fetch, TypeOK
<1>2. CASE FetchMissing(p)
  <2>1. ClusterTypeOK'
    BY <1>2 DEF Fetch, FetchMissing, TypeOK, ClusterTypeOK,
                status, cluster, informer
  <2>2. WorkerTypeOK'
    BY <1>2, WorkerUnchanged DEF FetchMissing, TypeOK
  <2> QED
    BY <1>1, <2>1, <2>2 DEF TypeOK
<1>3. CASE FetchPresent(p)
  <2>1. SpecCores[p] \in CoreSets
    BY PreemptionAssumption DEF CoreSets
  <2>2. /\ alloc' \in [Pods -> CoreSets] /\ allocSeen' \in [Pods -> CoreSets]
        /\ crNews' \subseteq Pods
    BY <1>3, <2>1, StatusUpdateTypes
    DEF FetchPresent, TypeOK, ClusterTypeOK, status
  <2>3. ClusterTypeOK'
    BY <1>3, <2>2 DEF Fetch, FetchPresent, TypeOK, ClusterTypeOK,
                      cluster, informer
  <2>4. targets' \in CoreSets
    BY <1>3, <2>1 DEF FetchPresent, TypeOK, ClusterTypeOK
  <2>5. WorkerTypeOK'
    BY <1>3, <2>4 DEF FetchPresent, TypeOK, WorkerTypeOK, WorkerSteps
  <2> QED
    BY <1>1, <2>3, <2>5 DEF TypeOK
<1> QED
  BY <1>2, <1>3 DEF Fetch

\* The worker's steps that write its locals only.
LEMMA LocalTypes ==
    ASSUME TypeOK,
           \/ ReadRuntime \/ CheckRegistered \/ ScanCore \/ FindVictims
           \/ ChooseDest \/ CheckRoom \/ RereadRuntime \/ CheckUpdate
    PROVE  TypeOK'
<1> USE DEF TypeOK
<1>1. UNCHANGED <<poolVars, cluster, status, queue, runtime, informer, spared, events>>
  BY DEF ReadRuntime, CheckRegistered, ScanCore, FindVictims, ChooseDest,
         CheckRoom, RereadRuntime, CheckUpdate
<1>2. PoolTypeOK' /\ ClusterTypeOK'
  BY <1>1, PoolUnchanged, ClusterUnchanged
<1>3. CASE ReadRuntime
  <2>1. cpuMillis(self) \in 1 .. MaxMillis
    BY <1>3, AmountTypes DEF WorkerTypeOK, ReadRuntime
  <2> QED
    BY <1>2, <1>3, <2>1, PoolAssumption DEF WorkerTypeOK, ReadRuntime, WorkerSteps
<1>4. CASE CheckRegistered
  <2>1. CASE WorkerIdle
    BY <1>2, <2>1, IdleTypes
  <2>2. CASE ~WorkerIdle
    BY <1>2, <1>4, <2>2 DEF WorkerTypeOK, CheckRegistered, WorkerSteps
  <2> QED
    BY <2>1, <2>2
<1>5. CASE ScanCore
  BY <1>2, <1>5 DEF WorkerTypeOK, ScanCore, WorkerSteps, CoreSets
<1>6. CASE FindVictims
  <2>1. ASSUME NEW v \in findPreemptionVictims(Head(targets), self)
        PROVE  <<v, entry[Head(targets)][v]>> \in Victims
    <3>1. Head(targets) \in Cores /\ v \in Pods /\ Holds(Head(targets), v)
      BY <2>1 DEF findPreemptionVictims, getPodsOnCore
    <3>2. entry[Head(targets)][v] \in PodInfo
      BY <3>1 DEF PoolTypeOK, Holds
    <3> QED
      BY <3>1, <3>2 DEF Victims
  <2>2. todo' \subseteq Victims
    BY <1>6, <2>1 DEF FindVictims
  <2> QED
    BY <1>2, <1>6, <2>2 DEF WorkerTypeOK, FindVictims, WorkerSteps
<1>7. CASE ChooseDest
  BY <1>2, <1>7 DEF WorkerTypeOK, ChooseDest, findLeastLoadedCore, WorkerSteps
<1>8. CASE CheckRoom
  BY <1>2, <1>8 DEF WorkerTypeOK, CheckRoom, WorkerSteps
<1>9. CASE RereadRuntime
  <2>1. cpuMillis(self) \in 1 .. MaxMillis /\ SpecCores[self] \in CoreSets
    BY <1>9, AmountTypes, PreemptionAssumption
    DEF WorkerTypeOK, RereadRuntime, CoreSets
  <2> QED
    BY <1>2, <1>9, <2>1, PoolAssumption DEF WorkerTypeOK, RereadRuntime, WorkerSteps
<1>10. CASE CheckUpdate
  <2>1. CASE WorkerIdle
    BY <1>2, <2>1, IdleTypes
  <2>2. CASE ~WorkerIdle
    <3>1. ~Registered(self, millis, targets) /\ targets # <<>>
      BY <1>10, <2>2 DEF CheckUpdate, Registered
    <3> QED
      BY <1>2, <1>10, <2>2, <3>1 DEF WorkerTypeOK, CheckUpdate, WorkerSteps
  <2> QED
    BY <2>1, <2>2
<1> QED
  BY <1>3, <1>4, <1>5, <1>6, <1>7, <1>8, <1>9, <1>10

LEMMA PreemptVictimTypes ==
    ASSUME TypeOK, PreemptVictim
    PROVE  TypeOK'
<1> USE DEF TypeOK
<1>1. ClusterTypeOK'
  BY ClusterUnchanged DEF PreemptVictim
<1>2. CASE todo = {}
  <2>1. PoolTypeOK'
    BY <1>2, PoolUnchanged DEF PreemptVictim
  <2>2. WorkerTypeOK'
    BY <1>2 DEF PreemptVictim, WorkerTypeOK, WorkerSteps, CoreSets
  <2> QED
    BY <1>1, <2>1, <2>2
<1>3. CASE todo # {}
  <2>1. PICK v \in todo :
          /\ todo' = todo \ {v}
          /\ \/ podSeen[v[1]] = "absent" /\ UNCHANGED <<poolVars, pc, victim>>
             \/ /\ podSeen[v[1]] # "absent"
                /\ removePodFromCore(Head(targets), v[1])
                /\ victim' = v /\ pc' = "choose"
          /\ UNCHANGED targets
    BY <1>3 DEF PreemptVictim
  <2>2. v \in Victims /\ v[1] \in Pods
    BY DEF WorkerTypeOK, Victims
  <2>3. PoolTypeOK'
    BY <2>1, <2>2, PoolUnchanged, RemoveKeepsLeak
  <2>4. UNCHANGED <<self, millis, dest>> /\ pc = "preempt"
    BY DEF PreemptVictim
  <2>5. WorkerTypeOK'
    BY <2>1, <2>2, <2>4 DEF WorkerTypeOK, WorkerSteps
  <2> QED
    BY <1>1, <2>3, <2>5
<1> QED
  BY <1>2, <1>3

LEMMA MigrateTypes ==
    ASSUME TypeOK, Migrate
    PROVE  TypeOK'
<1> USE DEF TypeOK
<1>1. ClusterTypeOK'
  BY ClusterUnchanged DEF Migrate
<1>2. victim[1] \in Pods /\ victim[2] \in PodInfo
  BY DEF Migrate, WorkerTypeOK, Victims
<1>3. PoolTypeOK'
  BY <1>2, AddLeaksTheOverwritten DEF Migrate
<1>4. WorkerTypeOK'
  BY DEF Migrate, WorkerTypeOK, WorkerSteps
<1> QED
  BY <1>1, <1>3, <1>4

LEMMA UpdateAffinityTypes ==
    ASSUME TypeOK, UpdateAffinity
    PROVE  TypeOK'
<1> USE DEF TypeOK
<1>1. PoolTypeOK'
  BY PoolUnchanged DEF UpdateAffinity
<1>2. victim[1] \in Pods /\ <<dest>> \in CoreSets
  BY DEF UpdateAffinity, WorkerTypeOK, Victims, CoreSets, AllCores
<1>3. /\ alloc' \in [Pods -> CoreSets] /\ allocSeen' \in [Pods -> CoreSets]
      /\ crNews' \subseteq Pods
  BY <1>2, StatusUpdateTypes DEF UpdateAffinity, ClusterTypeOK
<1>4. ClusterTypeOK'
  BY <1>3 DEF UpdateAffinity, ClusterTypeOK, cluster, informer
<1>5. SomeCore \in Cores
  BY PreemptionAssumption DEF SomeCore
<1>6. WorkerTypeOK'
  BY <1>5 DEF UpdateAffinity, WorkerTypeOK, WorkerSteps
<1> QED
  BY <1>1, <1>4, <1>6

LEMMA EvictTypes ==
    ASSUME TypeOK, Evict
    PROVE  TypeOK'
<1> USE DEF TypeOK
<1>1. PoolTypeOK'
  BY PoolUnchanged DEF Evict
<1>2. victim[1] \in Pods
  BY DEF Evict, WorkerTypeOK, Victims
<1>3. pod' \in [Pods -> PodStates] /\ podNews' \subseteq Pods
  BY <1>2 DEF Evict, ClusterTypeOK, PodStates
<1>4. spared' \subseteq Pods
  BY <1>2 DEF Evict, ClusterTypeOK
<1>5. ClusterTypeOK'
  BY <1>3, <1>4 DEF Evict, ClusterTypeOK, status, informer
<1>6. SomeCore \in Cores
  BY PreemptionAssumption DEF SomeCore
<1>7. WorkerTypeOK'
  BY <1>6 DEF Evict, WorkerTypeOK, WorkerSteps
<1> QED
  BY <1>1, <1>5, <1>7

LEMMA RemoveOldTypes ==
    ASSUME TypeOK, RemoveOld
    PROVE  TypeOK'
<1> USE DEF TypeOK
<1>1. ClusterTypeOK'
  BY ClusterUnchanged DEF RemoveOld
<1>2. CASE targets = <<>>
  BY <1>1, <1>2, PoolUnchanged, IdleTypes DEF RemoveOld
<1>3. CASE targets # <<>>
  <2>1. self \in Pods
    BY DEF RemoveOld, WorkerTypeOK
  <2>2. PoolTypeOK'
    BY <1>3, <2>1, RemoveKeepsLeak DEF RemoveOld
  <2>3. WorkerTypeOK'
    BY <1>3 DEF RemoveOld, WorkerTypeOK, WorkerSteps
  <2> QED
    BY <1>1, <2>2, <2>3
<1> QED
  BY <1>2, <1>3

LEMMA AddNewTypes ==
    ASSUME TypeOK, AddNew
    PROVE  TypeOK'
<1> USE DEF TypeOK
<1>1. ClusterTypeOK'
  BY ClusterUnchanged DEF AddNew
<1>2. self \in Pods /\ millis \in 1 .. MaxMillis
  BY PoolAssumption DEF AddNew, WorkerTypeOK
<1>3. podInfo(self, millis) \in PodInfo
  BY <1>2, PodInfoTypes
<1>4. PoolTypeOK'
  BY <1>2, <1>3, AddLeaksTheOverwritten DEF AddNew
<1>5. WorkerTypeOK'
  BY DEF AddNew, WorkerTypeOK, WorkerSteps, CoreSets
<1> QED
  BY <1>1, <1>4, <1>5

LEMMA WorkerStepTypes ==
    ASSUME TypeOK, WorkerStep
    PROVE  TypeOK'
  BY FetchTypes, LocalTypes, PreemptVictimTypes, MigrateTypes,
     UpdateAffinityTypes, EvictTypes, RemoveOldTypes, AddNewTypes
  DEF WorkerStep

\* Head and tail of the events that wait for the handler.
LEMMA PodEventTypes ==
    ASSUME ClusterTypeOK, podEvents # <<>>
    PROVE  /\ Head(podEvents) \in PodEvents /\ Head(podEvents).pod \in Pods
           /\ Tail(podEvents) \in Seq(PodEvents)
<1>1. podEvents \in Seq(PodEvents)
  BY DEF ClusterTypeOK
<1>2. Head(podEvents) \in PodEvents /\ Tail(podEvents) \in Seq(PodEvents)
  BY <1>1
<1> QED
  BY <1>2 DEF PodEvents

\* The informers and the handler of their events.
LEMMA InformerTypes ==
    ASSUME TypeOK,
           HandlePod \/ \E p \in Pods : SyncPod(p) \/ DeliverCR(p)
    PROVE  TypeOK'
<1> USE DEF TypeOK
<1>1. CASE \E p \in Pods : SyncPod(p)
  <2>1. PICK p \in Pods : SyncPod(p)
    BY <1>1
  <2> DEFINE event == [pod |-> p, deleting |-> pod[p] # "live"]
  <2>2. event \in PodEvents
    BY DEF PodEvents
  <2>3. podEvents' = Append(podEvents, event) /\ podEvents \in Seq(PodEvents)
    BY <2>1 DEF SyncPod, ClusterTypeOK
  <2>4. podEvents' \in Seq(PodEvents)
    BY <2>2, <2>3
  <2>5. podEvents # <<>> => podEvents' # <<>> /\ Head(podEvents') = Head(podEvents)
    BY <2>2, <2>3
  <2>6. podSeen' \in [Pods -> PodStates] /\ podNews' \subseteq Pods
        /\ UNCHANGED <<pod, status, queue, runtime, hpc, spared, events>>
    BY <2>1 DEF SyncPod, ClusterTypeOK
  <2>7. ClusterTypeOK'
    BY <2>4, <2>5, <2>6 DEF ClusterTypeOK, status
  <2>8. UNCHANGED <<poolVars, worker>>
    BY <2>1 DEF SyncPod
  <2> QED
    BY <2>7, <2>8, PoolUnchanged, WorkerUnchanged
<1>2. CASE \E p \in Pods : DeliverCR(p)
  <2>1. PICK p \in Pods : DeliverCR(p)
    BY <1>2
  <2>2. ClusterTypeOK'
    BY <2>1 DEF DeliverCR, ClusterTypeOK, cluster, informer
  <2> QED
    BY <2>1, <2>2, PoolUnchanged, WorkerUnchanged DEF DeliverCR
<1>3. ASSUME podEvents # <<>>, Enqueue, hpc' = "idle",
             runtime' = runtime
      PROVE  ClusterTypeOK'
  <2>1. Head(podEvents).pod \in Pods /\ Tail(podEvents) \in Seq(PodEvents)
    BY <1>3, PodEventTypes
  <2>2. podEvents' \in Seq(PodEvents) /\ queue' \subseteq Pods
        /\ UNCHANGED <<cluster, status, runtime, spared, events>>
    BY <1>3, <2>1 DEF Enqueue, ClusterTypeOK
  <2> QED
    BY <1>3, <2>2 DEF ClusterTypeOK, cluster, status
<1>4. CASE HandleLive
  <2>1. hpc' = "idle"
    BY <1>4 DEF HandleLive, ClusterTypeOK
  <2> QED
    BY <1>3, <1>4, <2>1, PoolUnchanged, WorkerUnchanged DEF HandleLive, Enqueue
<1>5. CASE CleanupRuntime
  <2>1. Head(podEvents).pod \in Pods
    BY <1>5, PodEventTypes DEF CleanupRuntime
  <2>2. runtime' \in [Pods -> {"", "low", "hi"}]
    BY <1>5, <2>1 DEF CleanupRuntime, ClusterTypeOK
  <2>3. ClusterTypeOK'
    BY <1>5, <2>2 DEF CleanupRuntime, ClusterTypeOK, cluster, status
  <2> QED
    BY <1>5, <2>3, PoolUnchanged, WorkerUnchanged DEF CleanupRuntime
<1>6. CASE CleanupPool
  <2>1. podEvents # <<>>
    BY <1>6 DEF CleanupPool, ClusterTypeOK
  <2>2. Head(podEvents).pod \in Pods
    BY <2>1, PodEventTypes
  <2>3. PoolTypeOK'
    BY <1>6, <2>2, CleanupKeepsLeak DEF CleanupPool
  <2>4. ClusterTypeOK'
    BY <1>3, <1>6, <2>1 DEF CleanupPool
  <2> QED
    BY <1>6, <2>3, <2>4, WorkerUnchanged DEF CleanupPool, Enqueue
<1> QED
  BY <1>1, <1>2, <1>4, <1>5, <1>6 DEF HandlePod

\* What happens to the controller.
LEMMA SurroundingsTypes ==
    ASSUME TypeOK,
           \/ \E p \in Pods : Overrun(p) \/ CreatePod(p) \/ DeletePod(p) \/ EndPod(p)
           \/ Recover \/ Restart
    PROVE  TypeOK'
<1> USE DEF TypeOK
<1>1. events' \in 0 .. MaxEvents
  <2>1. Surroundings
    BY DEF Overrun, CreatePod, DeletePod, EndPod, PodChanges, Recover, Restart
  <2>2. events < MaxEvents /\ events' = events + 1
    BY <2>1 DEF Surroundings
  <2>3. events \in 0 .. MaxEvents /\ MaxEvents \in Nat
    BY PreemptionAssumption DEF ClusterTypeOK
  <2> QED
    BY <2>2, <2>3
<1>2. CASE \E p \in Pods : Overrun(p)
  <2>1. PICK p \in Pods : Overrun(p)
    BY <1>2
  <2>2. ClusterTypeOK'
    BY <1>1, <2>1 DEF Overrun, ClusterTypeOK, cluster, informer
  <2> QED
    BY <2>1, <2>2, PoolUnchanged, WorkerUnchanged DEF Overrun
<1>3. ASSUME NEW p \in Pods, NEW from \in PodStates, NEW to \in PodStates,
             PodChanges(p, from, to)
      PROVE  TypeOK'
  <2>1. ClusterTypeOK'
    BY <1>1, <1>3 DEF PodChanges, ClusterTypeOK, status, informer
  <2> QED
    BY <1>3, <2>1, PoolUnchanged, WorkerUnchanged DEF PodChanges
<1>4. CASE \E p \in Pods : CreatePod(p) \/ DeletePod(p) \/ EndPod(p)
  BY <1>3, <1>4 DEF CreatePod, DeletePod, EndPod, PodStates
<1>5. CASE Recover
  <2>1. runtime' \in [Pods -> {"", "low", "hi"}] /\ crNews' \subseteq Pods
    BY <1>5 DEF Recover, ClusterTypeOK
  <2>2. ClusterTypeOK'
    BY <1>1, <1>5, <2>1 DEF Recover, ClusterTypeOK, cluster, informer
  <2> QED
    BY <1>5, <2>2, PoolUnchanged, WorkerUnchanged DEF Recover
<1>6. CASE Restart
  <2>1. PoolTypeOK'
    BY <1>6, NewPoolHasNoLeak DEF Restart
  <2>2. podEvents' \in Seq(PodEvents) /\ hpc' = "idle"
    <3>1. podEvents' = <<>> /\ hpc' = "idle"
      BY <1>6 DEF Restart
    <3> QED
      BY <3>1
  <2>3. runtime' \in [Pods -> {"", "low", "hi"}]
    BY <1>6 DEF Restart
  <2>4. ClusterTypeOK'
    BY <1>1, <1>6, <2>2, <2>3 DEF Restart, ClusterTypeOK
  <2> QED
    BY <1>6, <2>1, <2>4, IdleTypes DEF Restart
<1> QED
  BY <1>2, <1>4, <1>5, <1>6

LEMMA StutterTypes ==
    ASSUME TypeOK, UNCHANGED vars
    PROVE  TypeOK'
  BY PoolUnchanged, ClusterUnchanged, WorkerUnchanged
  DEF TypeOK, vars, poolVars, worker, cluster, status, informer

\* The types of the controller's state hold in every reachable state.
THEOREM PreemptionTyping == Spec => []TypeOK
<1>1. Init => TypeOK
  BY InitTypes
<1>2. TypeOK /\ [Next]_vars => TypeOK'
  BY WorkerStepTypes, InformerTypes, SurroundingsTypes, StutterTypes DEF Next
<1> QED
  BY <1>1, <1>2, PTL DEF Spec

-----------------------------------------------------------------------------
\* The controller's steps are the pool's.

LEMMA StepImplementsPool ==
    ASSUME TypeOK, [Next]_vars
    PROVE  [PoolNext]_poolVars
<1> USE DEF TypeOK
<1>1. CASE UNCHANGED vars
  BY <1>1 DEF vars, poolVars
<1>2. CASE \/ \E p \in Pods : Fetch(p) \/ SyncPod(p) \/ DeliverCR(p)
           \/ ReadRuntime \/ CheckRegistered \/ ScanCore \/ FindVictims
           \/ ChooseDest \/ CheckRoom \/ UpdateAffinity \/ Evict
           \/ RereadRuntime \/ CheckUpdate \/ HandleLive \/ CleanupRuntime
  BY <1>2
  DEF Fetch, SyncPod, DeliverCR, ReadRuntime, CheckRegistered, ScanCore,
      FindVictims, ChooseDest, CheckRoom, UpdateAffinity, Evict, RereadRuntime,
      CheckUpdate, HandleLive, CleanupRuntime
<1>3. CASE PreemptVictim
  <2>1. CASE UNCHANGED poolVars
    BY <2>1
  <2>2. CASE \E v \in todo : removePodFromCore(Head(targets), v[1])
    <3>1. PICK v \in todo : removePodFromCore(Head(targets), v[1])
      BY <2>2
    <3>2. v[1] \in Pods
      BY DEF WorkerTypeOK, Victims
    <3>3. Head(targets) \in Cores \cup OtherCores
      BY <1>3 DEF PreemptVictim, WorkerTypeOK, CoreSets, AllCores
    <3> QED
      BY <3>1, <3>2, <3>3 DEF PoolNext
  <2> QED
    BY <1>3, <2>1, <2>2 DEF PreemptVictim
<1>4. CASE Migrate
  <2>1. victim[1] \in Pods /\ victim[2] \in PodInfo /\ dest \in Cores
    BY <1>4 DEF Migrate, WorkerTypeOK, Victims
  <2> QED
    BY <1>4, <2>1 DEF Migrate, PoolNext
<1>5. CASE RemoveOld
  <2>1. CASE targets = <<>>
    BY <1>5, <2>1 DEF RemoveOld
  <2>2. CASE targets # <<>>
    <3>1. self \in Pods /\ Head(targets) \in Cores \cup OtherCores
      BY <1>5, <2>2 DEF RemoveOld, WorkerTypeOK, CoreSets, AllCores
    <3> QED
      BY <1>5, <2>2, <3>1 DEF RemoveOld, PoolNext
  <2> QED
    BY <2>1, <2>2
<1>6. CASE AddNew
  <2>1. self \in Pods /\ Head(targets) \in Cores \cup OtherCores
    BY <1>6 DEF AddNew, WorkerTypeOK, CoreSets, AllCores
  <2>2. millis \in 1 .. MaxMillis
    BY <1>6, PoolAssumption DEF AddNew, WorkerTypeOK
  <2>3. podInfo(self, millis) \in PodInfo
    BY <2>1, <2>2, PodInfoTypes
  <2> QED
    BY <1>6, <2>1, <2>3 DEF AddNew, PoolNext
<1>7. CASE CleanupPool
  <2>1. Head(podEvents).pod \in Pods
    BY <1>7, PodEventTypes DEF CleanupPool, ClusterTypeOK
  <2> QED
    BY <1>7, <2>1 DEF CleanupPool, PoolNext
<1>8. CASE \/ \E p \in Pods : Overrun(p) \/ CreatePod(p) \/ DeletePod(p) \/ EndPod(p)
           \/ Recover
  BY <1>8 DEF Overrun, CreatePod, DeletePod, EndPod, PodChanges, Recover
<1>9. CASE Restart
  BY <1>9 DEF Restart, PoolNext
<1> QED
  BY <1>1, <1>2, <1>3, <1>4, <1>5, <1>6, <1>7, <1>8, <1>9
  DEF Next, WorkerStep, HandlePod

\* The controller implements the pool: it touches UsageMillis and Pods only
\* through the methods of CPUPool, with arguments the methods are meant for.
THEOREM PreemptionImplementsPool == Spec => ImplementsPool
<1>1. Init => PoolInit
  BY DEF Init
<1>2. TypeOK /\ [Next]_vars => [PoolNext]_poolVars
  BY StepImplementsPool
<1> QED
  BY <1>1, <1>2, PreemptionTyping, PTL DEF Spec, ImplementsPool, PoolSpec

\* So whatever worker, handler, listener and restarts do, a core's
\* UsageMillis never falls below what its entries add up to.
THEOREM PreemptionNeverUndercounts == Spec => []NeverUndercounts
  BY PreemptionImplementsPool, PoolNeverUndercounts, PTL DEF ImplementsPool

-----------------------------------------------------------------------------
\* Preemption: what the worker's locals say about the pool.

\* An entry carries its pod's criticality.
EntriesCarryCriticality ==
    \A c \in Cores, p \in Pods :
        Holds(c, p) => entry[c][p].criticality = Crit[p]

\* The victims, and the one in hand, are snapshots of such entries; all are
\* below the pod under reconciliation.
VictimsAreBelow ==
    /\ \A v \in todo :
          /\ v[2].criticality = Crit[v[1]]
          /\ criticalityRank[Crit[self]] > criticalityRank[Crit[v[1]]]
    /\ pc \in {"choose", "room", "migrate"} =>
          victim[2].criticality = Crit[victim[1]]

\* The place chosen has room until the victim is there: between CheckRoom and
\* Migrate only cleanupPodState can change the pool, and that makes room.
RoomIsKept == pc = "migrate" => usage[dest] + victim[2].millis <= Threshold

\* Fetch starts with no victims.
IdleWorkerHasNoVictims == pc = "idle" => todo = {}

\* The pod is off the core it is about to be added to: since RemoveOld only
\* cleanupPodState can have changed the pool, and that makes room.
PlaceIsCleared ==
    pc = "add" => \A c \in Cores : c = Head(targets) => ~Holds(c, self)

PreemptionInv ==
    /\ EntriesCarryCriticality /\ VictimsAreBelow
    /\ RoomIsKept /\ IdleWorkerHasNoVictims /\ PlaceIsCleared

\* Entries stay or go.
Vacates ==
    \A c \in Cores, p \in Pods :
        entry'[c][p] = entry[c][p] \/ entry'[c][p] = NoEntry

LEMMA RemoveVacates ==
    ASSUME PoolTypeOK, NEW c, NEW p \in Pods, removePodFromCore(c, p)
    PROVE  Vacates
  BY DEF removePodFromCore, Vacates, PoolTypeOK, poolVars

LEMMA CleanupVacates ==
    ASSUME PoolTypeOK, NEW p \in Pods, cleanupPool(p)
    PROVE  Vacates /\ \A c \in Cores : usage'[c] <= usage[c]
<1>1. \A c \in Cores : Released(c, p) \in Nat
  BY PoolAssumption DEF PoolTypeOK, Released, Holds, PodInfo
<1>2. Vacates
  BY DEF cleanupPool, Vacates, PoolTypeOK
<1>3. \A c \in Cores : usage[c] \in Int /\ usage'[c] = usage[c] - Released(c, p)
  BY DEF cleanupPool, PoolTypeOK
<1> QED
  BY <1>1, <1>2, <1>3

\* Every step empties places, leaves them, or is one of the two that write.
LEMMA WhoWrites ==
    ASSUME TypeOK, [Next]_vars
    PROVE  Migrate \/ AddNew \/ Vacates
<1> USE DEF TypeOK
<1>1. CASE UNCHANGED poolVars
  BY <1>1 DEF Vacates, poolVars
<1>2. CASE PreemptVictim
  <2>1. ASSUME NEW v \in todo, removePodFromCore(Head(targets), v[1])
        PROVE  Vacates
    BY <2>1, RemoveVacates DEF WorkerTypeOK, Victims
  <2> QED
    BY <1>1, <1>2, <2>1 DEF PreemptVictim
<1>3. CASE RemoveOld
  <2>1. self \in Pods
    BY <1>3 DEF RemoveOld, WorkerTypeOK
  <2> QED
    BY <1>1, <1>3, <2>1, RemoveVacates DEF RemoveOld
<1>4. CASE CleanupPool
  <2>1. Head(podEvents).pod \in Pods
    BY <1>4, PodEventTypes DEF CleanupPool, ClusterTypeOK
  <2> QED
    BY <1>4, <2>1, CleanupVacates DEF CleanupPool
<1>5. CASE Restart
  BY <1>5 DEF Restart, newPool, emptyCore, Vacates
<1>6. CASE \/ \E p \in Pods : Fetch(p) \/ SyncPod(p) \/ DeliverCR(p)
           \/ ReadRuntime \/ CheckRegistered \/ ScanCore \/ FindVictims
           \/ ChooseDest \/ CheckRoom \/ UpdateAffinity \/ Evict
           \/ RereadRuntime \/ CheckUpdate \/ HandleLive \/ CleanupRuntime
           \/ \E p \in Pods : Overrun(p) \/ CreatePod(p) \/ DeletePod(p) \/ EndPod(p)
           \/ Recover \/ UNCHANGED vars
  <2>1. UNCHANGED poolVars
    BY <1>6
    DEF Fetch, SyncPod, DeliverCR, ReadRuntime, CheckRegistered, ScanCore,
        FindVictims, ChooseDest, CheckRoom, UpdateAffinity, Evict,
        RereadRuntime, CheckUpdate, HandleLive, CleanupRuntime, Overrun,
        CreatePod, DeletePod, EndPod, PodChanges, Recover, vars, poolVars
  <2> QED
    BY <1>1, <2>1
<1> QED
  BY <1>2, <1>3, <1>4, <1>5, <1>6 DEF Next, WorkerStep, HandlePod

\* Whatever is not a step of the worker or a restart leaves the worker alone,
\* and the totals where they are or lower.
LEMMA OthersMakeRoom ==
    ASSUME TypeOK, [Next]_vars, ~WorkerStep, ~Restart
    PROVE  UNCHANGED worker /\ \A c \in Cores : usage'[c] <= usage[c]
<1> USE DEF TypeOK
<1>1. ASSUME UNCHANGED usage
      PROVE  \A c \in Cores : usage'[c] <= usage[c]
  BY <1>1 DEF PoolTypeOK
<1>2. CASE CleanupPool
  <2>1. Head(podEvents).pod \in Pods
    BY <1>2, PodEventTypes DEF CleanupPool, ClusterTypeOK
  <2> QED
    BY <1>2, <2>1, CleanupVacates DEF CleanupPool, Enqueue
<1>3. CASE \/ \E p \in Pods : SyncPod(p) \/ DeliverCR(p)
           \/ HandleLive \/ CleanupRuntime
           \/ \E p \in Pods : Overrun(p) \/ CreatePod(p) \/ DeletePod(p) \/ EndPod(p)
           \/ Recover \/ UNCHANGED vars
  <2>1. UNCHANGED worker /\ UNCHANGED usage
    BY <1>3
    DEF SyncPod, DeliverCR, HandleLive, Enqueue, CleanupRuntime, Overrun,
        CreatePod, DeletePod, EndPod, PodChanges, Recover, vars, poolVars
  <2> QED
    BY <1>1, <2>1
<1> QED
  BY <1>2, <1>3 DEF Next, HandlePod

LEMMA EntriesStep ==
    ASSUME TypeOK, PreemptionInv, [Next]_vars
    PROVE  EntriesCarryCriticality'
<1> USE DEF TypeOK
<1> SUFFICES ASSUME NEW c \in Cores, NEW p \in Pods, Holds(c, p)'
             PROVE  entry'[c][p].criticality = Crit[p]
  BY DEF EntriesCarryCriticality, Holds
<1>1. CASE Vacates
  <2>1. entry'[c][p] = entry[c][p] /\ Holds(c, p)
    BY <1>1 DEF Vacates, Holds
  <2> QED
    BY <2>1 DEF PreemptionInv, EntriesCarryCriticality
<1>2. ASSUME NEW d \in AllCores, NEW q \in Pods, NEW info \in PodInfo,
             addPodToCore(d, q, info), info.criticality = Crit[q]
      PROVE  entry'[c][p].criticality = Crit[p]
  <2>1. CASE c = d /\ p = q
    BY <1>2, <2>1 DEF addPodToCore, PoolTypeOK
  <2>2. CASE ~(c = d /\ p = q)
    <3>1. entry'[c][p] = entry[c][p]
      BY <1>2, <2>2 DEF addPodToCore, PoolTypeOK, poolVars
    <3> QED
      BY <3>1 DEF PreemptionInv, EntriesCarryCriticality, Holds
  <2> QED
    BY <2>1, <2>2
<1>3. CASE Migrate
  <2>1. dest \in AllCores /\ victim[1] \in Pods /\ victim[2] \in PodInfo
    BY <1>3 DEF Migrate, WorkerTypeOK, Victims, AllCores
  <2>2. victim[2].criticality = Crit[victim[1]]
    BY <1>3 DEF Migrate, PreemptionInv, VictimsAreBelow
  <2> QED
    BY <1>2, <1>3, <2>1, <2>2 DEF Migrate
<1>4. CASE AddNew
  <2>1. self \in Pods /\ millis \in 1 .. MaxMillis /\ Head(targets) \in AllCores
    BY <1>4, PoolAssumption DEF AddNew, WorkerTypeOK, CoreSets
  <2>2. podInfo(self, millis) \in PodInfo
    BY <2>1, PodInfoTypes
  <2>3. podInfo(self, millis).criticality = Crit[self]
    BY DEF podInfo
  <2> QED
    BY <1>2, <1>4, <2>1, <2>2, <2>3 DEF AddNew
<1> QED
  BY <1>1, <1>3, <1>4, WhoWrites

\* A victim is a snapshot taken by FindVictims.
LEMMA VictimsStep ==
    ASSUME TypeOK, PreemptionInv, [Next]_vars
    PROVE  VictimsAreBelow'
<1> USE DEF TypeOK
<1>1. CASE UNCHANGED worker
  BY <1>1 DEF PreemptionInv, VictimsAreBelow, worker
<1>2. CASE WorkerIdle
  BY <1>2 DEF WorkerIdle, VictimsAreBelow
<1>3. CASE FindVictims
  <2>1. ASSUME NEW v \in findPreemptionVictims(Head(targets), self)
        PROVE  /\ entry[Head(targets)][v].criticality = Crit[v]
               /\ criticalityRank[Crit[self]] > criticalityRank[Crit[v]]
    BY <2>1 DEF findPreemptionVictims, getPodsOnCore, PreemptionInv,
                EntriesCarryCriticality
  <2>2. self' = self /\ pc' = "preempt"
        /\ todo' = {<<v, entry[Head(targets)][v]>> :
                       v \in findPreemptionVictims(Head(targets), self)}
    BY <1>3 DEF FindVictims
  <2> QED
    BY <2>1, <2>2 DEF VictimsAreBelow
<1>4. CASE PreemptVictim
  <2>1. /\ todo' \subseteq todo /\ self' = self
        /\ pc' = "choose" => victim' \in todo
        /\ pc' \in {"preempt", "scan", "choose"}
    BY <1>4 DEF PreemptVictim
  <2> QED
    BY <2>1 DEF PreemptionInv, VictimsAreBelow
<1>5. CASE ChooseDest \/ CheckRoom
  <2>1. UNCHANGED <<todo, self, victim>> /\ pc \in {"choose", "room"}
    BY <1>5 DEF ChooseDest, CheckRoom
  <2> QED
    BY <2>1 DEF PreemptionInv, VictimsAreBelow
<1>6. CASE \/ ReadRuntime \/ ScanCore \/ Migrate \/ UpdateAffinity \/ Evict
           \/ RereadRuntime \/ AddNew
  <2>1. UNCHANGED <<todo, self>> /\ pc' \notin {"choose", "room", "migrate"}
    BY <1>6 DEF ReadRuntime, ScanCore, Migrate, UpdateAffinity, Evict,
                RereadRuntime, AddNew
  <2> QED
    BY <2>1 DEF PreemptionInv, VictimsAreBelow
<1>7. CASE CheckRegistered \/ CheckUpdate \/ RemoveOld
  <2>1. \/ WorkerIdle
        \/ UNCHANGED <<todo, self>> /\ pc' \in {"scan", "remove", "add"}
    BY <1>7 DEF CheckRegistered, CheckUpdate, RemoveOld
  <2> QED
    BY <1>2, <2>1 DEF PreemptionInv, VictimsAreBelow
<1>8. CASE \E p \in Pods : Fetch(p)
  <2>1. PICK p \in Pods : Fetch(p)
    BY <1>8
  <2>2. CASE FetchMissing(p)
    BY <1>1, <2>2 DEF FetchMissing
  <2>3. CASE FetchPresent(p)
    <3>1. todo' = todo /\ pc' = "read"
      BY <2>3 DEF FetchPresent
    <3>2. todo = {}
      BY <2>1 DEF Fetch, PreemptionInv, IdleWorkerHasNoVictims
    <3> QED
      BY <3>1, <3>2 DEF VictimsAreBelow
  <2> QED
    BY <2>1, <2>2, <2>3 DEF Fetch
<1>9. CASE ~WorkerStep /\ ~Restart
  BY <1>1, <1>9, OthersMakeRoom
<1>10. CASE Restart
  BY <1>2, <1>10 DEF Restart
<1> QED
  BY <1>3, <1>4, <1>5, <1>6, <1>7, <1>8, <1>9, <1>10 DEF WorkerStep

LEMMA IdleStep ==
    ASSUME TypeOK, PreemptionInv, [Next]_vars
    PROVE  IdleWorkerHasNoVictims'
<1>1. CASE UNCHANGED worker
  BY <1>1 DEF PreemptionInv, IdleWorkerHasNoVictims, worker
<1>2. CASE WorkerIdle
  BY <1>2 DEF WorkerIdle, IdleWorkerHasNoVictims
<1>3. CASE ~WorkerStep /\ ~Restart
  BY <1>1, <1>3, OthersMakeRoom
<1>4. CASE Restart
  BY <1>2, <1>4 DEF Restart
<1>5. CASE WorkerStep
  <2>1. WorkerIdle \/ UNCHANGED worker \/ pc' # "idle"
    BY <1>5 DEF WorkerStep, Fetch, FetchMissing, FetchPresent, ReadRuntime,
       CheckRegistered, ScanCore, FindVictims, PreemptVictim, ChooseDest,
       CheckRoom, Migrate, UpdateAffinity, Evict, RereadRuntime, CheckUpdate,
       RemoveOld, AddNew
  <2> QED
    BY <1>1, <1>2, <2>1 DEF IdleWorkerHasNoVictims
<1> QED
  BY <1>3, <1>4, <1>5

LEMMA RoomStep ==
    ASSUME TypeOK, PreemptionInv, [Next]_vars
    PROVE  RoomIsKept'
<1> USE DEF TypeOK
<1> SUFFICES ASSUME pc' = "migrate"
             PROVE  usage'[dest'] + victim'[2].millis <= Threshold
  BY DEF RoomIsKept
<1>1. CASE ~WorkerStep /\ ~Restart
  <2>1. UNCHANGED worker /\ usage'[dest] <= usage[dest]
    BY <1>1, OthersMakeRoom DEF WorkerTypeOK
  <2>2. UNCHANGED <<pc, dest, victim>> /\ pc = "migrate"
    BY <2>1 DEF worker
  <2>3. usage[dest] + victim[2].millis <= Threshold
    BY <2>2 DEF PreemptionInv, RoomIsKept
  <2>4. usage[dest] \in Int /\ usage'[dest] \in Int
    <3>1. PoolTypeOK'
      BY WorkerStepTypes, InformerTypes, SurroundingsTypes, StutterTypes DEF Next
    <3> QED
      BY <3>1 DEF PoolTypeOK, WorkerTypeOK
  <2>5. victim[2].millis \in Int
    BY <2>2, PoolAssumption DEF WorkerTypeOK, Victims, PodInfo
  <2> QED
    BY <2>1, <2>2, <2>3, <2>4, <2>5, PreemptionAssumption
<1>2. CASE Restart
  BY <1>2 DEF Restart, WorkerIdle
<1>3. CASE WorkerStep
  <2>1. CheckRoom
    BY <1>3 DEF WorkerStep, Fetch, FetchMissing, FetchPresent, ReadRuntime,
       CheckRegistered, ScanCore, FindVictims, PreemptVictim, ChooseDest,
       Migrate, UpdateAffinity, Evict, RereadRuntime, CheckUpdate,
       RemoveOld, AddNew, WorkerIdle, worker
  <2>2. UNCHANGED <<usage, dest, victim>> /\ dest \in Cores
        /\ getCoreUtilization(dest) + victim[2].millis <= Threshold
    BY <2>1 DEF CheckRoom, MayFit, poolVars, WorkerTypeOK
  <2> QED
    BY <2>2 DEF getCoreUtilization
<1> QED
  BY <1>1, <1>2, <1>3

LEMMA ClearedStep ==
    ASSUME TypeOK, PreemptionInv, [Next]_vars
    PROVE  PlaceIsCleared'
<1> USE DEF TypeOK
<1> SUFFICES ASSUME pc' = "add", NEW c \in Cores, c = Head(targets')
             PROVE  ~Holds(c, self)'
  BY DEF PlaceIsCleared
<1>1. CASE RemoveOld
  <2>1. self \in Pods /\ self' = self /\ targets' = targets
        /\ removePodFromCore(Head(targets), self)
    BY <1>1 DEF RemoveOld, WorkerIdle, WorkerTypeOK
  <2> QED
    BY <2>1 DEF removePodFromCore, PoolTypeOK, Holds
<1>2. CASE ~WorkerStep /\ ~Restart
  <2>1. UNCHANGED <<pc, self, targets>> /\ self \in Pods
    BY <1>2, OthersMakeRoom DEF worker, WorkerTypeOK
  <2>2. ~Holds(c, self)
    BY <2>1 DEF PreemptionInv, PlaceIsCleared
  <2>3. Vacates
    BY <1>2, WhoWrites DEF WorkerStep
  <2> QED
    BY <2>1, <2>2, <2>3 DEF Vacates, Holds
<1>3. CASE Restart
  BY <1>3 DEF Restart, WorkerIdle
<1>4. CASE WorkerStep
  <2>1. RemoveOld
    BY <1>4 DEF WorkerStep, Fetch, FetchMissing, FetchPresent, ReadRuntime,
       CheckRegistered, ScanCore, FindVictims, PreemptVictim, ChooseDest,
       CheckRoom, Migrate, UpdateAffinity, Evict, RereadRuntime, CheckUpdate,
       AddNew, WorkerIdle, worker
  <2> QED
    BY <1>1, <2>1
<1> QED
  BY <1>2, <1>3, <1>4

\* Entries and snapshots carry their pods' criticality, victims rank below the pod
\* under reconciliation, the room found for a victim is kept until it is there, and
\* so is the place cleared for the pod itself
\* (checkAndPreemptForPod, preemptPod).
THEOREM PreemptionInvariant == Spec => []PreemptionInv
<1>1. Init => PreemptionInv
  <2> SUFFICES ASSUME Init PROVE PreemptionInv
    OBVIOUS
  <2>1. \A c \in Cores, p \in Pods : ~Holds(c, p)
    BY DEF Init, PoolInit, emptyCore, Holds
  <2>2. todo = {} /\ pc = "idle"
    BY DEF Init
  <2> QED
    BY <2>1, <2>2 DEF PreemptionInv, VictimsAreBelow, EntriesCarryCriticality,
                      RoomIsKept, IdleWorkerHasNoVictims, PlaceIsCleared
<1>2. TypeOK /\ PreemptionInv /\ [Next]_vars => PreemptionInv'
  BY EntriesStep, VictimsStep, IdleStep, RoomStep, ClearedStep DEF PreemptionInv
<1> QED
  BY <1>1, <1>2, PreemptionTyping, PTL DEF Spec

\* A migration never fills its destination beyond coreUtilizationThreshold,
\* although preemptPod checks under one lock and adds under another.
THEOREM PreemptionWithinThreshold == Spec => MigrationWithinThreshold
<1>1. TypeOK /\ PreemptionInv /\ [Next]_vars
        => [pc = "migrate" /\ pc' = "affinity" => usage'[dest] <= Threshold]_vars
  <2> SUFFICES ASSUME TypeOK, PreemptionInv, [Next]_vars,
                      pc = "migrate", pc' = "affinity"
               PROVE  usage'[dest] <= Threshold
    OBVIOUS
  <2> USE DEF TypeOK
  <2>1. Migrate
    <3>1. WorkerStep \/ Restart
      BY OthersMakeRoom DEF worker
    <3>2. ~Restart
      BY DEF Restart, WorkerIdle
    <3> QED
      BY <3>1, <3>2
      DEF WorkerStep, Fetch, ReadRuntime, CheckRegistered, ScanCore,
          FindVictims, PreemptVictim, ChooseDest, CheckRoom, UpdateAffinity,
          Evict, RereadRuntime, CheckUpdate, RemoveOld, AddNew
  <2>2. dest \in Cores
    BY DEF WorkerTypeOK
  <2>3. usage'[dest] = usage[dest] + victim[2].millis
    BY <2>1, <2>2 DEF Migrate, addPodToCore, PoolTypeOK
  <2> QED
    BY <2>3 DEF PreemptionInv, RoomIsKept
<1> QED
  BY <1>1, PreemptionTyping, PreemptionInvariant, PTL
  DEF Spec, MigrationWithinThreshold

\* A pod is displaced only by a pod of strictly higher criticality, whatever
\* became of the snapshot the worker took of the core in the meantime.
THEOREM PreemptionRespectsOrder == Spec => PreemptionOrder
<1> DEFINE Excused(c, p) ==
          \/ hpc = "pool" /\ p = Head(podEvents).pod
          \/ pc = "remove" /\ p = self
          \/ newPool
          \/ /\ pc = "preempt" /\ self \in Pods
             /\ criticalityRank[Crit[self]] >
                  criticalityRank[entry[c][p].criticality]
<1>1. TypeOK /\ PreemptionInv /\ [Next]_vars
        => [\A c \in Cores, p \in Pods :
               Holds(c, p) /\ ~Holds(c, p)' => Excused(c, p)]_vars
  <2> SUFFICES ASSUME TypeOK, PreemptionInv, [Next]_vars,
                      NEW c \in Cores, NEW p \in Pods,
                      Holds(c, p), ~Holds(c, p)'
               PROVE  Excused(c, p)
    OBVIOUS
  <2> USE DEF TypeOK
  <2>1. entry'[c][p] # entry[c][p]
    BY DEF Holds
  <2>2. ASSUME NEW d, NEW q \in Pods, NEW info \in PodInfo, addPodToCore(d, q, info)
        PROVE  FALSE
    BY <2>1, <2>2, NoEntryAssumption DEF addPodToCore, PoolTypeOK, Holds, poolVars
  <2>3. ASSUME NEW d, NEW q \in Pods, removePodFromCore(d, q)
        PROVE  c = d /\ p = q
    BY <2>1, <2>3 DEF removePodFromCore, PoolTypeOK, poolVars
  <2>4. CASE PreemptVictim
    <3>1. PICK v \in todo : removePodFromCore(Head(targets), v[1])
      BY <2>1, <2>4 DEF PreemptVictim, poolVars
    <3>2. p = v[1]
      BY <2>3, <3>1 DEF WorkerTypeOK, Victims
    <3>3. entry[c][p].criticality = Crit[p]
      BY DEF PreemptionInv, EntriesCarryCriticality
    <3>4. criticalityRank[Crit[self]] > criticalityRank[Crit[p]]
      BY <3>1, <3>2 DEF PreemptionInv, VictimsAreBelow
    <3> QED
      BY <2>4, <3>3, <3>4 DEF PreemptVictim, WorkerTypeOK
  <2>5. CASE RemoveOld
    BY <2>1, <2>3, <2>5 DEF RemoveOld, WorkerTypeOK, poolVars
  <2>6. CASE Migrate
    BY <2>2, <2>6 DEF Migrate, WorkerTypeOK, Victims
  <2>7. CASE AddNew
    <3>1. self \in Pods /\ millis \in 1 .. MaxMillis
      BY <2>7, PoolAssumption DEF AddNew, WorkerTypeOK
    <3>2. podInfo(self, millis) \in PodInfo
      BY <3>1, PodInfoTypes
    <3> QED
      BY <2>2, <2>7, <3>1, <3>2 DEF AddNew
  <2>8. CASE CleanupPool
    <3>1. p = Head(podEvents).pod
      BY <2>1, <2>8 DEF CleanupPool, cleanupPool, PoolTypeOK
    <3> QED
      BY <2>8, <3>1 DEF CleanupPool
  <2>9. CASE Restart
    BY <2>9 DEF Restart
  <2>10. CASE \/ \E q \in Pods : Fetch(q) \/ SyncPod(q) \/ DeliverCR(q)
              \/ ReadRuntime \/ CheckRegistered \/ ScanCore \/ FindVictims
              \/ ChooseDest \/ CheckRoom \/ UpdateAffinity \/ Evict
              \/ RereadRuntime \/ CheckUpdate \/ HandleLive \/ CleanupRuntime
              \/ \E q \in Pods : Overrun(q) \/ CreatePod(q) \/ DeletePod(q) \/ EndPod(q)
              \/ Recover \/ UNCHANGED vars
    <3>1. UNCHANGED entry
      BY <2>10
      DEF Fetch, SyncPod, DeliverCR, ReadRuntime, CheckRegistered, ScanCore,
          FindVictims, ChooseDest, CheckRoom, UpdateAffinity, Evict,
          RereadRuntime, CheckUpdate, HandleLive, CleanupRuntime, Overrun,
          CreatePod, DeletePod, EndPod, PodChanges, Recover, vars, poolVars
    <3> QED
      BY <2>1, <3>1
  <2> QED
    BY <2>4, <2>5, <2>6, <2>7, <2>8, <2>9, <2>10 DEF Next, WorkerStep, HandlePod
<1> QED
  BY <1>1, PreemptionTyping, PreemptionInvariant, PTL DEF Spec, PreemptionOrder

\* Capacity leaks from the pool only where preemptPod migrates a victim to a core
\* it has an entry on; whatever is cleaned up, restarted or changed at the API
\* server between its removal and its addition, a pod's own booking leaks none
\* (updateCPUPoolForPod).
THEOREM PreemptionLeaksOnlyByMigration == Spec => LeaksOnlyByMigration
<1> DEFINE Excused(c) == pc = "migrate" /\ c = dest /\ Holds(c, victim[1])
           NoWorse(c) == Leaked(c)' <= Leaked(c)
<1>1. TypeOK /\ NeverUndercounts /\ PreemptionInv /\ [Next]_vars
        => [\A c \in Cores :
               \/ UNCHANGED <<usage[c], entry[c]>>
               \/ pc = "migrate" /\ c = dest /\ Holds(c, victim[1])
               \/ Leaked(c)' <= Leaked(c)]_poolVars
  <2> SUFFICES ASSUME TypeOK, NeverUndercounts, PreemptionInv, [Next]_vars,
                      NEW c \in Cores, ~UNCHANGED poolVars
               PROVE  Excused(c) \/ NoWorse(c)
    OBVIOUS
  <2> USE DEF TypeOK
  <2>1. Leaked(c) \in Int /\ Leaked(c) >= 0
    BY DriftIsInt DEF NeverUndercounts, Leaked
  <2>2. ASSUME NEW d, NEW q \in Pods, removePodFromCore(d, q)
        PROVE  NoWorse(c)
    BY <2>1, <2>2, RemoveKeepsLeak
  <2>3. ASSUME NEW d, NEW q \in Pods, NEW info \in PodInfo, addPodToCore(d, q, info),
               c = d => ~Holds(c, q)
        PROVE  NoWorse(c)
    <3>1. Leaked(c)' = Leaked(c) + (IF c = d THEN Released(c, q) ELSE 0)
      BY <2>3, AddLeaksTheOverwritten
    <3>2. c = d => Released(c, q) = 0
      BY <2>3 DEF Released
    <3> QED
      BY <2>1, <3>1, <3>2
  <2>4. CASE PreemptVictim
    <3>1. PICK v \in todo : removePodFromCore(Head(targets), v[1])
      BY <2>4 DEF PreemptVictim
    <3>2. v[1] \in Pods
      BY DEF WorkerTypeOK, Victims
    <3> QED
      BY <2>2, <3>1, <3>2
  <2>5. CASE RemoveOld
    BY <2>2, <2>5 DEF RemoveOld, WorkerTypeOK
  <2>6. CASE Migrate
    <3>1. /\ addPodToCore(dest, victim[1], victim[2]) /\ pc = "migrate"
          /\ victim[1] \in Pods /\ victim[2] \in PodInfo
      BY <2>6 DEF Migrate, WorkerTypeOK, Victims
    <3> QED
      BY <2>3, <3>1
  <2>7. CASE AddNew
    <3>1. self \in Pods /\ millis \in 1 .. MaxMillis
      BY <2>7, PoolAssumption DEF AddNew, WorkerTypeOK
    <3>2. podInfo(self, millis) \in PodInfo
      BY <3>1, PodInfoTypes
    <3>3. addPodToCore(Head(targets), self, podInfo(self, millis))
          /\ (c = Head(targets) => ~Holds(c, self))
      BY <2>7 DEF AddNew, PreemptionInv, PlaceIsCleared
    <3> QED
      BY <2>3, <3>1, <3>2, <3>3
  <2>8. CASE CleanupPool
    <3>1. Head(podEvents).pod \in Pods
      BY <2>8, PodEventTypes DEF CleanupPool, ClusterTypeOK
    <3> QED
      BY <2>1, <2>8, <3>1, CleanupKeepsLeak DEF CleanupPool
  <2>9. CASE Restart
    BY <2>1, <2>9, NewPoolHasNoLeak DEF Restart
  <2>10. CASE \/ \E q \in Pods : Fetch(q) \/ SyncPod(q) \/ DeliverCR(q)
              \/ ReadRuntime \/ CheckRegistered \/ ScanCore \/ FindVictims
              \/ ChooseDest \/ CheckRoom \/ UpdateAffinity \/ Evict
              \/ RereadRuntime \/ CheckUpdate \/ HandleLive \/ CleanupRuntime
              \/ \E q \in Pods : Overrun(q) \/ CreatePod(q) \/ DeletePod(q) \/ EndPod(q)
              \/ Recover \/ UNCHANGED vars
    BY <2>10
    DEF Fetch, SyncPod, DeliverCR, ReadRuntime, CheckRegistered, ScanCore,
        FindVictims, ChooseDest, CheckRoom, UpdateAffinity, Evict,
        RereadRuntime, CheckUpdate, HandleLive, CleanupRuntime, Overrun,
        CreatePod, DeletePod, EndPod, PodChanges, Recover, vars, poolVars
  <2> QED
    BY <2>4, <2>5, <2>6, <2>7, <2>8, <2>9, <2>10 DEF Next, WorkerStep, HandlePod
<1> QED
  BY <1>1, PreemptionTyping, PreemptionNeverUndercounts, PreemptionInvariant, PTL
  DEF Spec, LeaksOnlyByMigration
==============================================================================
