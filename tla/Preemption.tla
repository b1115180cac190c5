------------------------------ MODULE Preemption ------------------------------
(***************************************************************************)
(* How the controller books RT pods on the cores of one node and preempts  *)
(* lower criticalities (internal/controller/mckube_controller.go): the     *)
(* reconcile worker, which is one goroutine, between one lock section or   *)
(* API call and the next; the pod informer's handler, which cleans up      *)
(* after a deleted pod; the overrun listener; the API server and the       *)
(* caches that lag behind it; the process, which may start again.          *)
(*                                                                         *)
(* Every pod here has the sdv.com label, runs on the node and is named by  *)
(* one McKube CR with Spec.Node and RTSettings.Core set, so a CR and its   *)
(* pod share a name.  A parsed core set is a sequence of core numbers; the *)
(* AllocatedCore "" is the empty one.                                      *)
(***************************************************************************)
EXTENDS CPUPool, Sequences

CONSTANTS Crit,        \* pod -> Spec.Criticality
          SpecCores,   \* pod -> RTSettings.Core, parsed
          LowMillis,   \* pod -> millicores of RuntimeLow over Period
          HiMillis,    \* pod -> millicores of RuntimeHi over Period
          Threshold,   \* coreUtilizationThreshold, in millicores
          ApiMayFail,  \* writes to the API server may fail without a conflict
          MaxEvents,   \* bound: how often the surroundings act
          NoPod

AllCores == Cores \cup OtherCores

ASSUME PreemptionAssumption ==
    /\ Crit \in [Pods -> Criticalities]
    /\ SpecCores \in [Pods -> Seq(AllCores) \ {<<>>}]
    /\ LowMillis \in [Pods -> 1 .. MaxMillis]
    /\ HiMillis \in [Pods -> 1 .. MaxMillis]
    /\ Threshold \in Nat
    /\ Cores # {}
    /\ ApiMayFail \in BOOLEAN
    /\ MaxEvents \in Nat
    /\ NoPod \notin Pods

VARIABLES pod,       \* pod -> the Pod object at the API server
          podSeen,   \* pod -> the Pod object in the informer's cache
          podNews,   \* pods with a change the cache has not seen
          alloc,     \* pod -> Status.AllocatedCore at the API server
          allocSeen, \* pod -> Status.AllocatedCore in the cache
          crNews,    \* CRs whose cached copy is out of date
          queue,     \* the workqueue: CRs to reconcile
          runtime,   \* podRuntimeState
          pc,        \* where the worker is in Reconcile, or "idle"
          self,      \* the pod of the CR under reconciliation
          targets,   \* the core set's cores the loop has not handled
          millis,    \* cpuMillis
          todo,      \* preemption victims not handled yet
          victim,    \* the victim in hand, as snapshotted by getPodsOnCore
          dest,      \* newCore
          podEvents, \* pod events the cache has seen, findObjectsForPod not yet
          hpc,       \* where cleanupPodState is for the first one, or "idle"
          spared,    \* history: pods that run on after an eviction that failed,
                     \* until their CR is fetched
          events     \* how often the surroundings have acted

cluster == <<pod, podSeen, podNews>>
status  == <<alloc, allocSeen, crNews>>
worker  == <<pc, self, targets, millis, todo, victim, dest>>
informer == <<podEvents, hpc>>
vars == <<usage, entry, cluster, status, queue, runtime, worker, informer, spared, events>>

PodStates == {"absent", "live", "terminating"}
WorkerSteps == {"idle", "read", "check", "scan", "victims", "preempt", "choose",
                "room", "migrate", "affinity", "evict",
                "reread", "update", "remove", "add"}
Victims == Pods \X PodInfo
NoVictim == <<NoPod, NoEntry>>
SomeCore == CHOOSE c \in Cores : TRUE

\* The worker's locals between two reconciliations.
WorkerIdle ==
    /\ pc' = "idle"  /\ self' = NoPod  /\ targets' = <<>>  /\ millis' = 0
    /\ todo' = {}  /\ victim' = NoVictim  /\ dest' = SomeCore

Init ==
    /\ PoolInit
    /\ pod \in [Pods -> {"absent", "live"}] /\ podSeen = pod /\ podNews = {}
    /\ alloc = [p \in Pods |-> <<>>] /\ allocSeen = alloc /\ crNews = {}
    /\ queue = Pods
    /\ runtime = [p \in Pods |-> ""]
    /\ pc = "idle" /\ self = NoPod /\ targets = <<>> /\ millis = 0
    /\ todo = {} /\ victim = NoVictim /\ dest = SomeCore
    /\ podEvents = <<>> /\ hpc = "idle" /\ spared = {}
    /\ events = 0

-----------------------------------------------------------------------------
\* Parts of the steps.

\* The CPU the pod is booked with: by its runtime, an unset one being low.
cpuMillis(p) == IF runtime[p] = "hi" THEN HiMillis[p] ELSE LowMillis[p]

podInfo(p, m) == [criticality |-> Crit[p], millis |-> m]

Registered(p, m, cores) ==
    \A i \in DOMAIN cores :
        cores[i] \in Cores /\ entry[cores[i]][p] = podInfo(p, m)

VictimsOfTheSameRank(c, p) ==                               \* mutant: >= for >
    {v \in getPodsOnCore(c) :
        criticalityRank[Crit[p]] >= criticalityRank[entry[c][v].criticality]}

findPreemptionVictims(c, p) ==
    {v \in getPodsOnCore(c) :
        criticalityRank[Crit[p]] > criticalityRank[entry[c][v].criticality]}

\* Usage and amount are added and compared as floats of cores: at 900
\* millicores the sum may come out above 0.9 or not, as the operands go.
MayExceed(sum) == sum >= Threshold
MayFit(sum)    == sum <= Threshold

\* r.Status().Update with a cached copy: a conflict when the copy is out of
\* date; no event when nothing changes.
StatusUpdate(p, cores) ==
    /\ UNCHANGED allocSeen
    /\ \/ /\ p \notin crNews
          /\ alloc' = [alloc EXCEPT ![p] = cores]
          /\ crNews' = IF alloc[p] = cores THEN crNews ELSE crNews \cup {p}
       \/ /\ p \in crNews \/ ApiMayFail
          /\ UNCHANGED <<alloc, crNews>>

-----------------------------------------------------------------------------
\* The reconcile worker.

\* The CR and the pod are read from the cache; without a pod nothing is done.
FetchMissingStaysQueued(p) ==                  \* mutant: the request is put back
    /\ podSeen[p] = "absent"
    /\ UNCHANGED <<queue, runtime, worker, status>>

FetchMissing(p) ==
    /\ podSeen[p] = "absent"
    /\ queue' = queue \ {p}
    /\ UNCHANGED <<runtime, worker, status>>

\* A pod being deleted is still Running there.  AllocatedCore starts as the
\* spec's core set; a failed status write is only logged, and the local copy
\* keeps the value.
FetchPresent(p) ==
    /\ podSeen[p] # "absent"
    /\ queue' = queue \ {p}
    /\ runtime' = [runtime EXCEPT ![p] = IF @ = "" THEN "low" ELSE @]
    /\ pc' = "read" /\ self' = p
    /\ \/ allocSeen[p] # <<>> /\ targets' = allocSeen[p] /\ UNCHANGED status
       \/ /\ allocSeen[p] = <<>> /\ targets' = SpecCores[p]
          /\ StatusUpdate(p, SpecCores[p])
    /\ UNCHANGED <<millis, todo, victim, dest>>

Fetch(p) ==
    /\ pc = "idle" /\ p \in queue
    /\ FetchMissing(p) \/ FetchPresent(p)
    /\ spared' = spared \ {p}
    /\ UNCHANGED <<poolVars, cluster, informer, events>>

ReadRuntime ==
    /\ pc = "read"
    /\ millis' = cpuMillis(self)
    /\ pc' = "check"
    /\ UNCHANGED <<poolVars, cluster, status, queue, runtime,
                   self, targets, todo, victim, dest, informer, spared, events>>

CheckRegistered ==
    /\ pc = "check"
    /\ \/ Registered(self, millis, targets) /\ WorkerIdle
       \/ /\ ~Registered(self, millis, targets)
          /\ pc' = "scan"
          /\ UNCHANGED <<self, targets, millis, todo, victim, dest>>
    /\ UNCHANGED <<poolVars, cluster, status, queue, runtime, informer, spared, events>>

\* checkAndPreemptForPod, one core of the set per iteration.
ScanCore ==
    /\ pc = "scan"
    /\ \/ targets = <<>> /\ pc' = "reread" /\ UNCHANGED targets
       \/ /\ targets # <<>>
          /\ LET after == getCoreUtilization(Head(targets)) + millis IN
             \/ MayExceed(after) /\ pc' = "victims" /\ UNCHANGED targets
             \/ MayFit(after) /\ targets' = Tail(targets) /\ UNCHANGED pc
    /\ UNCHANGED <<poolVars, cluster, status, queue, runtime,
                   self, millis, todo, victim, dest, informer, spared, events>>

FindVictims ==
    /\ pc = "victims"
    /\ todo' = {<<v, entry[Head(targets)][v]>> :
                   v \in findPreemptionVictims(Head(targets), self)}
    /\ pc' = "preempt"
    /\ UNCHANGED <<poolVars, cluster, status, queue, runtime,
                   self, targets, millis, victim, dest, informer, spared, events>>

\* preemptPod up to the removal; a victim missing from the cache is skipped.
PreemptVictim ==
    /\ pc = "preempt"
    /\ \/ /\ todo = {}
          /\ targets' = Tail(targets) /\ pc' = "scan"
          /\ UNCHANGED <<poolVars, todo, victim>>
       \/ \E v \in todo :
          /\ todo' = todo \ {v}
          /\ \/ podSeen[v[1]] = "absent" /\ UNCHANGED <<poolVars, pc, victim>>
             \/ /\ podSeen[v[1]] # "absent"
                /\ removePodFromCore(Head(targets), v[1])
                /\ victim' = v /\ pc' = "choose"
          /\ UNCHANGED targets
    /\ UNCHANGED <<cluster, status, queue, runtime,
                   self, millis, dest, informer, spared, events>>

ChooseDest ==
    /\ pc = "choose"
    /\ dest' \in findLeastLoadedCore
    /\ pc' = "room"
    /\ UNCHANGED <<poolVars, cluster, status, queue, runtime,
                   self, targets, millis, todo, victim, informer, spared, events>>

CheckRoomWithoutVictim ==                     \* mutant: the victim's share is left out
    /\ pc = "room"
    /\ \/ MayFit(getCoreUtilization(dest)) /\ pc' = "migrate"
       \/ MayExceed(getCoreUtilization(dest)) /\ pc' = "evict"
    /\ UNCHANGED <<poolVars, cluster, status, queue, runtime,
                   self, targets, millis, todo, victim, dest, informer, spared, events>>

CheckRoom ==
    /\ pc = "room"
    /\ LET after == getCoreUtilization(dest) + victim[2].millis IN
       \/ MayFit(after) /\ pc' = "migrate"
       \/ MayExceed(after) /\ pc' = "evict"
    /\ UNCHANGED <<poolVars, cluster, status, queue, runtime,
                   self, targets, millis, todo, victim, dest, informer, spared, events>>

MigrateEntryOnly ==                           \* mutant: UsageMillis is not updated
    /\ pc = "migrate"
    /\ entry' = [entry EXCEPT ![dest][victim[1]] = victim[2]]
    /\ pc' = "affinity"
    /\ UNCHANGED <<usage, cluster, status, queue, runtime,
                   self, targets, millis, todo, victim, dest, informer, spared, events>>

Migrate ==
    /\ pc = "migrate"
    /\ addPodToCore(dest, victim[1], victim[2])
    /\ pc' = "affinity"
    /\ UNCHANGED <<cluster, status, queue, runtime,
                   self, targets, millis, todo, victim, dest, informer, spared, events>>

\* updatePodCoreAffinity: the status; the message to the node's daemon is
\* not part of this module.  A failure ends this victim's preemption.
UpdateAffinity ==
    /\ pc = "affinity"
    /\ StatusUpdate(victim[1], <<dest>>)
    /\ pc' = "preempt" /\ victim' = NoVictim /\ dest' = SomeCore
    /\ UNCHANGED <<poolVars, cluster, queue, runtime,
                   self, targets, millis, todo, informer, spared, events>>

\* EvictPod: the label, which fails on any change since the victim was read
\* and whose failure is ignored, then the eviction, which names the pod and so
\* takes whichever pod has the name now.
Evict ==
    /\ pc = "evict"
    /\ LET p == victim[1] IN
       \E labelled, evicted \in BOOLEAN :
          /\ labelled => pod[p] # "absent" /\ p \notin podNews
          /\ evicted => pod[p] = "live"
          /\ ~evicted => pod[p] # "live" \/ ApiMayFail
          /\ pod' = IF evicted THEN [pod EXCEPT ![p] = "terminating"] ELSE pod
          /\ podNews' = IF labelled \/ evicted THEN podNews \cup {p} ELSE podNews
          /\ spared' = IF pod[p] = "live" /\ ~evicted THEN spared \cup {p} ELSE spared
    /\ pc' = "preempt" /\ victim' = NoVictim /\ dest' = SomeCore
    /\ UNCHANGED <<poolVars, podSeen, status, queue, runtime,
                   self, targets, millis, todo, informer, events>>

\* updateCPUPoolForPod: the amount is computed again, and the cores are the
\* spec's, not the allocated ones.
RereadRuntime ==
    /\ pc = "reread"
    /\ millis' = cpuMillis(self) /\ targets' = SpecCores[self]
    /\ pc' = "update"
    /\ UNCHANGED <<poolVars, cluster, status, queue, runtime,
                   self, todo, victim, dest, informer, spared, events>>

CheckUpdate ==
    /\ pc = "update"
    /\ \/ Registered(self, millis, targets) /\ WorkerIdle
       \/ /\ ~Registered(self, millis, targets)
          /\ pc' = "remove"
          /\ UNCHANGED <<self, targets, millis, todo, victim, dest>>
    /\ UNCHANGED <<poolVars, cluster, status, queue, runtime, informer, spared, events>>

RemoveOldKeepsEntry ==                        \* mutant: added over the old entry
    /\ pc = "remove"
    /\ \/ targets = <<>> /\ WorkerIdle
       \/ /\ targets # <<>>
          /\ pc' = "add"
          /\ UNCHANGED <<self, targets, millis, todo, victim, dest>>
    /\ UNCHANGED <<poolVars, cluster, status, queue, runtime, informer, spared, events>>

RemoveOld ==
    /\ pc = "remove"
    /\ \/ targets = <<>> /\ WorkerIdle /\ UNCHANGED poolVars
       \/ /\ targets # <<>>
          /\ removePodFromCore(Head(targets), self)
          /\ pc' = "add"
          /\ UNCHANGED <<self, targets, millis, todo, victim, dest>>
    /\ UNCHANGED <<cluster, status, queue, runtime, informer, spared, events>>

AddNewSkipsRemoval ==                         \* mutant: on to the next add at once
    /\ pc = "add"
    /\ addPodToCore(Head(targets), self, podInfo(self, millis))
    /\ targets' = Tail(targets) /\ pc' = "add"
    /\ UNCHANGED <<cluster, status, queue, runtime,
                   self, millis, todo, victim, dest, informer, spared, events>>

AddNew ==
    /\ pc = "add"
    /\ addPodToCore(Head(targets), self, podInfo(self, millis))
    /\ targets' = Tail(targets) /\ pc' = "remove"
    /\ UNCHANGED <<cluster, status, queue, runtime,
                   self, millis, todo, victim, dest, informer, spared, events>>

WorkerStep ==
    \/ \E p \in Pods : Fetch(p)
    \/ ReadRuntime \/ CheckRegistered
    \/ ScanCore \/ FindVictims \/ PreemptVictim \/ ChooseDest \/ CheckRoom
    \/ Migrate \/ UpdateAffinity \/ Evict
    \/ RereadRuntime \/ CheckUpdate \/ RemoveOld \/ AddNew

-----------------------------------------------------------------------------
\* The informers: the cache first, then findObjectsForPod on the event.

SyncPod(p) ==
    /\ p \in podNews
    /\ podSeen' = [podSeen EXCEPT ![p] = pod[p]]
    /\ podNews' = podNews \ {p}
    /\ podEvents' = Append(podEvents, [pod |-> p, deleting |-> pod[p] # "live"])
    /\ UNCHANGED <<poolVars, pod, status, queue, runtime, worker, hpc, spared, events>>

\* The handler takes one event after the other.  The object of an event about
\* a pod's end has a deletionTimestamp: first cleanupPodState, which takes the
\* runtime state's lock and then the pools'; then the CR is enqueued.
Enqueue ==
    /\ queue' = queue \cup {Head(podEvents).pod}
    /\ podEvents' = Tail(podEvents)
    /\ UNCHANGED <<cluster, status, worker, spared, events>>

HandleLiveDrops ==                            \* mutant: no request for the CR
    /\ podEvents # <<>> /\ ~Head(podEvents).deleting
    /\ podEvents' = Tail(podEvents)
    /\ UNCHANGED <<poolVars, cluster, status, queue, runtime, worker, hpc,
                   spared, events>>

HandleLive ==
    /\ podEvents # <<>> /\ ~Head(podEvents).deleting
    /\ Enqueue
    /\ UNCHANGED <<poolVars, runtime, hpc>>

CleanupRuntime ==
    /\ podEvents # <<>> /\ Head(podEvents).deleting /\ hpc = "idle"
    /\ runtime' = [runtime EXCEPT ![Head(podEvents).pod] = ""]
    /\ hpc' = "pool"
    /\ UNCHANGED <<poolVars, cluster, status, queue, worker, podEvents, spared, events>>

CleanupPool ==
    /\ hpc = "pool"
    /\ cleanupPool(Head(podEvents).pod)
    /\ hpc' = "idle"
    /\ Enqueue
    /\ UNCHANGED runtime

HandlePod == HandleLive \/ CleanupRuntime \/ CleanupPool

\* The CR's own events.
DeliverCR(p) ==
    /\ p \in crNews
    /\ allocSeen' = [allocSeen EXCEPT ![p] = alloc[p]]
    /\ crNews' = crNews \ {p}
    /\ queue' = queue \cup {p}
    /\ UNCHANGED <<poolVars, cluster, alloc, runtime, worker, informer, spared, events>>

-----------------------------------------------------------------------------
\* The surroundings, MaxEvents times.

Surroundings == events < MaxEvents /\ events' = events + 1

\* handleOverrunEvent, reduced to what the pool sees of it: the state, and a
\* status write that takes effect or not.
Overrun(p) ==
    /\ Surroundings
    /\ podSeen[p] # "absent" /\ runtime[p] # "hi"
    /\ runtime' = [runtime EXCEPT ![p] = "hi"]
    /\ \E written \in {{}, {p}} : crNews' = crNews \cup written
    /\ UNCHANGED <<poolVars, cluster, alloc, allocSeen, queue, worker,
                   informer, spared>>

\* handleCPURecovery, at the end of a reconciliation: every cached pod that
\* runs hi goes back to low, with status writes that take effect or not.
Recover ==
    /\ Surroundings /\ pc = "idle"
    /\ LET escalated == {p \in Pods : runtime[p] = "hi" /\ podSeen[p] # "absent"} IN
       /\ escalated # {}
       /\ runtime' = [p \in Pods |-> IF p \in escalated THEN "low" ELSE runtime[p]]
       /\ \E written \in SUBSET escalated : crNews' = crNews \cup written
    /\ UNCHANGED <<poolVars, cluster, alloc, allocSeen, queue, worker,
                   informer, spared>>

\* The pod's owner or a user creates it, deletes it, and the kubelet ends it;
\* the cache is at most one such change behind.
PodChanges(p, from, to) ==
    /\ Surroundings
    /\ pod[p] = from /\ p \notin podNews
    /\ pod' = [pod EXCEPT ![p] = to]
    /\ podNews' = podNews \cup {p}
    /\ UNCHANGED <<poolVars, podSeen, status, queue, runtime, worker, informer, spared>>

CreatePod(p) == PodChanges(p, "absent", "live")
DeletePod(p) == PodChanges(p, "live", "terminating")
EndPod(p)    == PodChanges(p, "terminating", "absent")

\* The process ends and starts again: its memory is gone, the caches list
\* everything anew and every CR is enqueued.
Restart ==
    /\ Surroundings
    /\ newPool
    /\ podSeen' = pod /\ podNews' = {}
    /\ allocSeen' = alloc /\ crNews' = {}
    /\ queue' = Pods
    /\ runtime' = [p \in Pods |-> ""]
    /\ WorkerIdle
    /\ podEvents' = <<>> /\ hpc' = "idle" /\ spared' = {}
    /\ UNCHANGED <<pod, alloc>>

Next ==
    \/ WorkerStep
    \/ \E p \in Pods : SyncPod(p) \/ DeliverCR(p)
    \/ HandlePod
    \/ \E p \in Pods : Overrun(p) \/ CreatePod(p) \/ DeletePod(p) \/ EndPod(p)
    \/ Recover \/ Restart

\* The worker and the informers keep going; the surroundings need not act.
Fairness ==
    /\ WF_vars(WorkerStep)
    /\ WF_vars(HandlePod)
    /\ \A p \in Pods : WF_vars(SyncPod(p)) /\ WF_vars(DeliverCR(p))

Spec == Init /\ [][Next]_vars

FairSpec == Spec /\ Fairness

-----------------------------------------------------------------------------
(***************************************************************************)
(* Properties                                                              *)
(***************************************************************************)

CoreSets == Seq(AllCores)
PodEvents == [pod : Pods, deleting : BOOLEAN]

ClusterTypeOK ==
    /\ pod \in [Pods -> PodStates] /\ podSeen \in [Pods -> PodStates]
    /\ podNews \subseteq Pods
    /\ alloc \in [Pods -> CoreSets] /\ allocSeen \in [Pods -> CoreSets]
    /\ crNews \subseteq Pods
    /\ queue \subseteq Pods
    /\ runtime \in [Pods -> {"", "low", "hi"}]
    /\ podEvents \in Seq(PodEvents)
    /\ hpc \in {"idle", "pool"}
    /\ hpc = "pool" => podEvents # <<>> /\ Head(podEvents).deleting
    /\ spared \subseteq Pods
    /\ events \in 0 .. MaxEvents

WorkerTypeOK ==
    /\ pc \in WorkerSteps
    /\ self \in Pods \cup {NoPod} /\ (pc # "idle" => self \in Pods)
    /\ targets \in CoreSets
    /\ pc \in {"victims", "preempt", "choose", "room", "migrate", "affinity",
               "evict", "add"} => targets # <<>>
    /\ millis \in 0 .. MaxMillis /\ (pc \notin {"idle", "read"} => millis > 0)
    /\ todo \subseteq Victims
    /\ victim \in Victims \cup {NoVictim}
    /\ pc \in {"choose", "room", "migrate", "affinity", "evict"}
         => victim \in Victims
    /\ dest \in Cores

\* Every variable ranges over what the code's types and the worker's position
\* allow: a loop body has a core in hand, a victim in hand is a snapshot of a
\* pool entry, cleanupPodState runs for an event.
TypeOK == PoolTypeOK /\ ClusterTypeOK /\ WorkerTypeOK

\* A pod loses its place on a core only because the informer saw it go,
\* because its own reconciliation writes the place anew, because the process
\* starts again, or to a pod of strictly higher criticality under
\* reconciliation (findPreemptionVictims; the snapshot preemptPod works from
\* may be old by then).
PreemptionOrder ==
    [][\A c \in Cores, p \in Pods :
          Holds(c, p) /\ ~Holds(c, p)'
            => \/ hpc = "pool" /\ p = Head(podEvents).pod
               \/ pc = "remove" /\ p = self
               \/ newPool
               \/ /\ pc = "preempt" /\ self \in Pods
                  /\ criticalityRank[Crit[self]] >
                       criticalityRank[entry[c][p].criticality]]_vars

\* preemptPod looks at the destination's usage under one lock and adds under
\* another: even so a migration never fills a core beyond the threshold,
\* because only the worker adds.
MigrationWithinThreshold ==
    [][pc = "migrate" /\ pc' = "affinity" => usage'[dest] <= Threshold]_vars

\* addPodToCore leaks capacity where it overwrites an entry, and it overwrites
\* one only when preemptPod migrates a victim to a core the victim has an entry
\* on already: updateCPUPoolForPod removes the pod from each core before it adds
\* it there, and nobody books it in between (mckube_controller.go:1257, 1457-1461).
LeaksOnlyByMigration ==
    [][\A c \in Cores :
          \/ UNCHANGED <<usage[c], entry[c]>>
          \/ pc = "migrate" /\ c = dest /\ Holds(c, victim[1])
          \/ Leaked(c)' <= Leaked(c)]_poolVars

\* Nothing is left to do until the surroundings act.
Quiescent ==
    /\ pc = "idle" /\ queue = {}
    /\ podNews = {} /\ crNews = {} /\ podEvents = <<>>

\* However its creation, an eviction, failing writes, late events and cleanups
\* raced, a pod that runs is booked somewhere once the controller is done: a
\* late cleanupPodState for an earlier pod of the name is followed by the
\* reconciliation findObjectsForPod asks for.  The one exception is a pod
\* preemptPod took off its core and then failed to evict
\* (mckube_controller.go:1240-1280): nothing asks for its reconciliation.
LivePodsAreBooked ==
    Quiescent => \A p \in Pods :
        pod[p] = "live" => p \in spared \/ \E c \in Cores : Holds(c, p)

\* Preemptions, status writes and evictions, which all enqueue CRs again, do
\* not keep each other going: the controller comes to rest.
EventuallyQuiet == <>[]Quiescent

\* The controller changes the pool only through the pool's methods.
ImplementsPool == PoolSpec

-----------------------------------------------------------------------------
(***************************************************************************)
(* What comments of the code say and the code does not do                  *)
(***************************************************************************)

\* "UsageMillis: CPU usage allocated at present" (mckube_controller.go:125):
\* a core's total is what its entries add up to.
UsageIsExact == \A c \in Cores : usage[c] = Booked(c)

\* "preemptPod: preempts the pod and moves it to another core, or evicts it"
\* (mckube_controller.go:1223): the destination is another core.
PreemptionMovesElsewhere ==
    [][pc = "migrate" /\ pc' = "affinity" => dest # Head(targets)]_vars

\* "the utilisation expected after the allocation", "when it exceeds the 90%
\* threshold, try to preempt" (mckube_controller.go:1154, 1164): there are
\* victims only when the core would exceed the threshold with the pod's new
\* entry in place of its old one.
PreemptsOnlyBeyondThreshold ==
    [][pc = "victims" /\ todo' # {}
         => LET c == Head(targets) IN
            usage[c] - Released(c, self) + millis > Threshold]_vars

\* "cleanupPodState: cleans up all internal state when a pod is deleted"
\* (mckube_controller.go:663): once all is quiet, a pod that is gone has left
\* no entry in the pool and no runtime state.
DeletedPodsLeaveNothing ==
    Quiescent => \A p \in Pods : pod[p] = "absent" =>
        runtime[p] = "" /\ \A c \in Cores : ~Holds(c, p)

\* "AllocatedCore tracks the actual core allocated to the pod (may differ
\* from Spec.RTSettings.Core due to preemption)" (api/v1/mckube_types.go:60): once
\* all is quiet, a running pod is booked on the cores its status names.
AllocatedCoreIsActual ==
    Quiescent => \A p \in Pods : pod[p] = "live" =>
        \A i \in DOMAIN alloc[p] :
            alloc[p][i] \in Cores => Holds(alloc[p][i], p)
==============================================================================
