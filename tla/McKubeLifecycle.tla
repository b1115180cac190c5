--------------------------- MODULE McKubeLifecycle ---------------------------
(***************************************************************************)
(* The life of McKube CRs and of the pods they name, and what the          *)
(* controller keeps booked for them meanwhile: the first half of Reconcile *)
(* (internal/controller/mckube_controller.go), with its finalizer,         *)
(* spec.Node, requeues and returned errors, beside the pod informer's      *)
(* handler, users who create and delete CRs and pods, the API server, the  *)
(* caches that lag behind it, and the process, which may start again.      *)
(*                                                                         *)
(* Of the CPU pools only the nodes matter in which a pod has an entry      *)
(* (module Preemption looks inside one).  Every CR here has RTSettings     *)
(* whose Core names cores of the pool, and the cores have room, so nobody  *)
(* is preempted.  A CR's name of a pod does not change.                    *)
(***************************************************************************)
EXTENDS Naturals, Sequences

CONSTANTS CRs,        \* names of McKube CRs
          Pods,       \* names of pods, all with the sdv.com label
          Nodes,
          PodOf,      \* CR -> its Spec.PodName
          NoNode,     \* the node name ""
          NoOne,      \* no CR
          MaxEvents   \* bound: how often the surroundings act

ASSUME LifecycleAssumption ==
    /\ PodOf \in [CRs -> Pods]
    /\ NoNode \notin Nodes
    /\ NoOne \notin CRs
    /\ MaxEvents \in Nat

VARIABLES cr,        \* CR -> the object at the API server
          crSeen,    \* CR -> the object in the cache
          crNews,    \* CRs whose cached object is out of date
          pod,       \* pod -> the object at the API server
          podSeen,   \* pod -> the object in the cache
          podNews,   \* pods with a change, or a first listing, still to be notified
          podEvents, \* pod events the cache has seen, findObjectsForPod not yet
          booked,    \* pod -> the nodes whose CPU pool has an entry of it
          queue,     \* the workqueue
          timers,    \* CRs to be queued after a while
          pc,        \* where the worker is in Reconcile, or "idle"
          self,      \* the CR under reconciliation
          copy,      \* the worker's copy of it, rt
          fresh,     \* the copy is the version the API server has
          place,     \* pod.Spec.NodeName as the worker read it
          events     \* how often the surroundings have acted

crVars   == <<cr, crSeen, crNews>>
podVars  == <<pod, podSeen, podNews, podEvents>>
worker   == <<pc, self, copy, fresh, place>>
vars     == <<crVars, podVars, booked, queue, timers, worker, events>>

Places   == Nodes \cup {NoNode}
CRStates == [exists : BOOLEAN, fin : BOOLEAN, deleting : BOOLEAN,
             node : Places, alloc : BOOLEAN]
PodStates == [phase : {"absent", "active", "ended"}, deleting : BOOLEAN,
              node : Places]

\* fin: the finalizer is there; alloc: Status.AllocatedCore is not "".
NewCR(n) == [exists |-> TRUE, fin |-> FALSE, deleting |-> FALSE,
             node |-> n, alloc |-> FALSE]
Gone == [NewCR(NoNode) EXCEPT !.exists = FALSE]

\* active: Pending or Running; ended: Succeeded or Failed.
NewPod == [phase |-> "active", deleting |-> FALSE, node |-> NoNode]
NoPod  == [NewPod EXCEPT !.phase = "absent"]

Runs(object) == object.phase = "active" /\ object.node # NoNode

WorkerIdle ==
    /\ pc' = "idle" /\ self' = NoOne /\ copy' = Gone /\ fresh' = FALSE
    /\ place' = NoNode

\* What the controller may find when it starts: CRs that users or an earlier
\* process left, and pods at any stage.
FoundCRs == {Gone} \cup {r \in CRStates : r.exists /\ (r.deleting \/ r.alloc => r.fin)}
FoundPods == {NoPod, NewPod} \cup
    {o \in PodStates : o.node # NoNode /\ o.phase # "absent"}

\* The caches are filled when the worker starts; their events are still to
\* come.
Present(objects) == {p \in Pods : objects[p].phase # "absent"}

Init ==
    /\ cr \in [CRs -> FoundCRs] /\ crSeen = cr /\ crNews = {}
    /\ pod \in [Pods -> FoundPods] /\ podSeen = pod /\ podNews = Present(pod)
    /\ podEvents = <<>>
    /\ booked = [p \in Pods |-> {}]
    /\ queue = {c \in CRs : cr[c].exists} /\ timers = {}
    /\ pc = "idle" /\ self = NoOne /\ copy = Gone /\ fresh = FALSE
    /\ place = NoNode
    /\ events = 0

\* Users, other components and failures act MaxEvents times.
Surroundings == events < MaxEvents /\ events' = events + 1

-----------------------------------------------------------------------------
\* Parts of the worker's steps.

cleanupPodState(p) == booked' = [booked EXCEPT ![p] = {}]

Store(c, object) ==
    /\ cr' = [cr EXCEPT ![c] = object]
    /\ crNews' = crNews \cup {c}

\* Update of the API server with the worker's copy, changed to object: stored,
\* or a conflict, since the copy is old.
Accepted(object) == fresh /\ Store(self, object) /\ UNCHANGED events
Conflict == ~fresh /\ UNCHANGED <<cr, crNews, events>>

\* An error from the API server: the write may have had effect all the same.
Fails(object) ==
    /\ Surroundings
    /\ (fresh /\ Store(self, object)) \/ UNCHANGED <<cr, crNews>>

\* Requeue, RequeueAfter and a returned error come back after a while.
ComeBack == timers' = timers \cup {self}

Next_(here, there) ==
    pc = here /\ pc' = there /\ UNCHANGED <<self, copy, fresh>>

-----------------------------------------------------------------------------
\* Reconcile.

\* A CR being deleted is cleaned up after if its finalizer is still there.
FetchDeletingFinalizerFirst(c) ==      \* mutant: no cleanup before the update
    /\ crSeen[c].exists /\ crSeen[c].deleting
    /\ \/ crSeen[c].fin /\ pc' = "removeFin" /\ UNCHANGED booked
       \/ ~crSeen[c].fin /\ pc' = "done" /\ UNCHANGED booked

FetchDeleting(c) ==
    /\ crSeen[c].exists /\ crSeen[c].deleting
    /\ \/ crSeen[c].fin /\ pc' = "removeFin" /\ cleanupPodState(PodOf[c])
       \/ ~crSeen[c].fin /\ pc' = "done" /\ UNCHANGED booked

FetchActive(c) ==
    /\ crSeen[c].exists /\ ~crSeen[c].deleting
    /\ pc' = CASE ~crSeen[c].fin -> "addFin"
               [] crSeen[c].fin /\ crSeen[c].node = NoNode -> "findNode"
               [] OTHER -> "readPod"
    /\ UNCHANGED booked

FetchMissing(c) == ~crSeen[c].exists /\ pc' = "done" /\ UNCHANGED booked

Fetch(c) ==
    /\ pc = "idle" /\ c \in queue
    /\ queue' = queue \ {c}
    /\ self' = c /\ copy' = crSeen[c] /\ fresh' = (c \notin crNews)
    /\ FetchMissing(c) \/ FetchDeleting(c) \/ FetchActive(c)
    /\ UNCHANGED <<crVars, podVars, timers, place, events>>

Done ==
    /\ pc = "done"
    /\ WorkerIdle
    /\ UNCHANGED <<crVars, podVars, booked, queue, timers, events>>

RemoveFinalizerOnce ==                 \* mutant: the error is not returned
    /\ pc = "removeFin"
    /\ Accepted(Gone) \/ Conflict \/ Fails(Gone)
    /\ UNCHANGED timers
    /\ WorkerIdle
    /\ UNCHANGED <<crSeen, podVars, booked, queue>>

\* Without finalizers the object goes.
RemoveFinalizer ==
    /\ pc = "removeFin"
    /\ \/ Accepted(Gone) /\ UNCHANGED timers
       \/ (Conflict \/ Fails(Gone)) /\ ComeBack
    /\ WorkerIdle
    /\ UNCHANGED <<crSeen, podVars, booked, queue>>

AddFinalizer ==
    /\ pc = "addFin"
    /\ LET object == [copy EXCEPT !.fin = TRUE] IN
       Accepted(object) \/ Conflict \/ Fails(object)
    /\ ComeBack
    /\ WorkerIdle
    /\ UNCHANGED <<crSeen, podVars, booked, queue>>

FindNodeUnscheduled ==                 \* mutant: the node is not looked at
    /\ pc = "findNode"
    /\ LET seen == podSeen[PodOf[self]] IN
       \/ /\ seen.phase = "active"
          /\ Next_("findNode", "setNode") /\ place' = seen.node
          /\ UNCHANGED timers
       \/ seen.phase # "active" /\ ComeBack /\ WorkerIdle
    /\ UNCHANGED <<crVars, podVars, booked, queue, events>>

\* spec.Node is the pod's, once it has one.
FindNode ==
    /\ pc = "findNode"
    /\ LET seen == podSeen[PodOf[self]] IN
       \/ /\ Runs(seen)
          /\ Next_("findNode", "setNode") /\ place' = seen.node
          /\ UNCHANGED timers
       \/ ~Runs(seen) /\ ComeBack /\ WorkerIdle
    /\ UNCHANGED <<crVars, podVars, booked, queue, events>>

SetNode ==
    /\ pc = "setNode"
    /\ LET object == [copy EXCEPT !.node = place] IN
       Accepted(object) \/ Conflict \/ Fails(object)
    /\ ComeBack
    /\ WorkerIdle
    /\ UNCHANGED <<crSeen, podVars, booked, queue>>

\* Only a pod that runs is booked; without one the rest of Reconcile looks at
\* the annotations of spec.Node (module RuntimeEscalation).
ReadPod ==
    /\ pc = "readPod"
    /\ LET seen == podSeen[PodOf[self]] IN
       \/ /\ Runs(seen) /\ place' = seen.node
          /\ Next_("readPod", IF copy.alloc THEN "book" ELSE "initAlloc")
       \/ /\ ~Runs(seen)
          /\ Next_("readPod", "done") /\ UNCHANGED place
    /\ UNCHANGED <<crVars, podVars, booked, queue, timers, events>>

\* A failed write of the status is only logged; the copy keeps the value, and
\* nothing more is written with it.
InitAllocatedCore ==
    /\ pc = "initAlloc" /\ pc' = "book"
    /\ LET object == [copy EXCEPT !.alloc = TRUE] IN
       /\ Accepted(object) \/ Conflict \/ Fails(object)
       /\ copy' = object /\ fresh' = FALSE
    /\ UNCHANGED <<crSeen, podVars, booked, queue, timers, self, place>>

Book ==
    /\ pc = "book"
    /\ booked' = [booked EXCEPT ![PodOf[self]] = @ \cup {place}]
    /\ Next_("book", "done") /\ UNCHANGED place
    /\ UNCHANGED <<crVars, podVars, queue, timers, events>>

WorkerStep ==
    \/ Done \/ RemoveFinalizer \/ AddFinalizer
    \/ FindNode \/ SetNode \/ ReadPod \/ InitAllocatedCore \/ Book

\* A requeue's time has come.
Fire(c) ==
    /\ c \in timers /\ timers' = timers \ {c}
    /\ queue' = queue \cup {c}
    /\ UNCHANGED <<crVars, podVars, booked, worker, events>>

-----------------------------------------------------------------------------
\* The informers: the cache first, then the handlers.

DeliverCR(c) ==
    /\ c \in crNews /\ crNews' = crNews \ {c}
    /\ crSeen' = [crSeen EXCEPT ![c] = cr[c]]
    /\ queue' = queue \cup {c}
    /\ UNCHANGED <<cr, podVars, booked, timers, worker, events>>

SyncPod(p) ==
    /\ p \in podNews /\ podNews' = podNews \ {p}
    /\ podSeen' = [podSeen EXCEPT ![p] = pod[p]]
    /\ podEvents' = Append(podEvents,
          [pod |-> p, deleting |-> pod[p].deleting \/ pod[p].phase = "absent"])
    /\ UNCHANGED <<pod, crVars, booked, queue, timers, worker, events>>

CRsOf(p) == {c \in CRs : crSeen[c].exists /\ PodOf[c] = p}

HandlePodCleansOnly ==                 \* mutant: no request after a cleanup
    /\ podEvents # <<>> /\ podEvents' = Tail(podEvents)
    /\ LET e == Head(podEvents) IN
       \/ e.deleting /\ cleanupPodState(e.pod) /\ UNCHANGED queue
       \/ /\ ~e.deleting /\ UNCHANGED booked
          /\ \/ \E c \in CRsOf(e.pod) : queue' = queue \cup {c}
             \/ CRsOf(e.pod) = {} /\ UNCHANGED queue
    /\ UNCHANGED <<pod, podSeen, podNews, crVars, timers, worker, events>>

\* findObjectsForPod: the object of an event about a pod's end has a
\* deletionTimestamp; one CR of those that name the pod is enqueued.
HandlePod ==
    /\ podEvents # <<>> /\ podEvents' = Tail(podEvents)
    /\ LET e == Head(podEvents) IN
       /\ \/ e.deleting /\ cleanupPodState(e.pod)
          \/ ~e.deleting /\ UNCHANGED booked
       /\ \/ \E c \in CRsOf(e.pod) : queue' = queue \cup {c}
          \/ CRsOf(e.pod) = {} /\ UNCHANGED queue
    /\ UNCHANGED <<pod, podSeen, podNews, crVars, timers, worker, events>>

-----------------------------------------------------------------------------
\* The surroundings.

\* Anyone's write makes the worker's copy old.
UserWrites(c, object) ==
    /\ Surroundings
    /\ Store(c, object)
    /\ fresh' = (fresh /\ c # self)
    /\ UNCHANGED <<crSeen, podVars, booked, queue, timers, pc, self, copy, place>>

CreateCR(c) ==
    ~cr[c].exists /\ \E n \in Places : UserWrites(c, NewCR(n))

DeleteCR(c) ==
    /\ cr[c].exists /\ ~cr[c].deleting
    /\ UserWrites(c, IF cr[c].fin THEN [cr[c] EXCEPT !.deleting = TRUE] ELSE Gone)

\* Other fields of the spec, or the status, which other handlers write.
EditCR(c) == cr[c].exists /\ UserWrites(c, cr[c])

\* The cache of pods is at most one change behind.
PodChanges(p, object) ==
    /\ Surroundings
    /\ p \notin podNews /\ podNews' = podNews \cup {p}
    /\ pod' = [pod EXCEPT ![p] = object]
    /\ UNCHANGED <<podSeen, podEvents, crVars, booked, queue, timers, worker>>

CreatePod(p) == pod[p].phase = "absent" /\ PodChanges(p, NewPod)

SchedulePod(p) ==
    /\ pod[p].phase = "active" /\ pod[p].node = NoNode
    /\ \E n \in Nodes : PodChanges(p, [pod[p] EXCEPT !.node = n])

FinishPod(p) == Runs(pod[p]) /\ PodChanges(p, [pod[p] EXCEPT !.phase = "ended"])

\* A running pod gets its time to end, the others go at once.
DeletePod(p) ==
    /\ pod[p].phase # "absent" /\ ~pod[p].deleting
    /\ PodChanges(p, IF Runs(pod[p]) THEN [pod[p] EXCEPT !.deleting = TRUE]
                                     ELSE NoPod)

EndPod(p) == pod[p].deleting /\ PodChanges(p, NoPod)

\* The process ends and starts again: pools, queue and timers are gone, the
\* caches list everything anew and every CR is enqueued.
Restart ==
    /\ Surroundings
    /\ crSeen' = cr /\ crNews' = {}
    /\ podSeen' = pod /\ podNews' = Present(pod) /\ podEvents' = <<>>
    /\ booked' = [p \in Pods |-> {}]
    /\ queue' = {c \in CRs : cr[c].exists} /\ timers' = {}
    /\ WorkerIdle
    /\ UNCHANGED <<cr, pod>>

Next ==
    \/ \E c \in CRs : Fetch(c) \/ Fire(c) \/ DeliverCR(c)
    \/ WorkerStep
    \/ \E p \in Pods : SyncPod(p)
    \/ HandlePod
    \/ \E c \in CRs : CreateCR(c) \/ DeleteCR(c) \/ EditCR(c)
    \/ \E p \in Pods : CreatePod(p) \/ SchedulePod(p) \/ FinishPod(p)
                         \/ DeletePod(p) \/ EndPod(p)
    \/ Restart

\* The worker and the informers keep going and timers fire.  The workqueue is
\* first in, first out, so no CR in it waits for ever.
Fairness ==
    /\ WF_vars(WorkerStep)
    /\ \A c \in CRs : SF_vars(Fetch(c)) /\ WF_vars(Fire(c)) /\ WF_vars(DeliverCR(c))
    /\ \A p \in Pods : WF_vars(SyncPod(p))
    /\ WF_vars(HandlePod)

Spec == Init /\ [][Next]_vars

FairSpec == Spec /\ Fairness

-----------------------------------------------------------------------------
(***************************************************************************)
(* Properties                                                              *)
(***************************************************************************)

Steps == {"idle", "done", "removeFin", "addFin", "findNode", "setNode",
          "readPod", "initAlloc", "book"}

PodEvents == [pod : Pods, deleting : BOOLEAN]

CRTypeOK ==
    /\ cr \in [CRs -> CRStates] /\ crSeen \in [CRs -> CRStates]
    /\ crNews \subseteq CRs

PodTypeOK ==
    /\ pod \in [Pods -> PodStates] /\ podSeen \in [Pods -> PodStates]
    /\ podNews \subseteq Pods
    /\ podEvents \in Seq(PodEvents)

WorkerTypeOK ==
    /\ pc \in Steps /\ copy \in CRStates /\ fresh \in BOOLEAN
    /\ self \in CRs \cup {NoOne} /\ (pc # "idle" => self \in CRs)
    /\ place \in Places
    /\ pc \in {"setNode", "initAlloc", "book"} => place \in Nodes

\* Every variable has its type, and a worker under way has a CR, one that
\* books or writes spec.Node a node.
TypeOK ==
    /\ CRTypeOK /\ PodTypeOK /\ WorkerTypeOK
    /\ booked \in [Pods -> SUBSET Nodes]
    /\ queue \subseteq CRs /\ timers \subseteq CRs
    /\ events \in 0 .. MaxEvents

\* What is booked has an owner: whatever is deleted, created again, conflicts,
\* fails or restarts, and however old the worker's copies are, an entry in a
\* pool belongs to a pod that some CR names whose finalizer is there, so that
\* its deletion will release the entry (Reconcile: cleanup, then the removal
\* of the finalizer).
EntriesHaveCR ==
    \A p \in Pods : booked[p] # {} =>
        \E c \in CRs : PodOf[c] = p /\ cr[c].exists /\ cr[c].fin

\* Why EntriesHaveCR holds.  A cached CR that is active and has the finalizer
\* has it at the API server too, since only a worker whose copy is current
\* and being deleted takes it away; so does the CR of a worker on its way to
\* book; and the worker that takes it away has cleaned up.
Held(object) == object.exists /\ object.fin

CacheIsCurrent == \A c \in CRs \ crNews : crSeen[c] = cr[c]

SeenAreHeld ==
    \A c \in CRs : Held(crSeen[c]) /\ ~crSeen[c].deleting => Held(cr[c])

WorkerHolds ==
    pc \in {"findNode", "setNode", "readPod", "initAlloc", "book"}
      => Held(cr[self])

CopyIsCurrent ==
    fresh /\ pc # "idle" => copy = cr[self] /\ crSeen[self] = cr[self]

RemovalIsCleared ==
    pc = "removeFin" => copy.deleting /\ booked[PodOf[self]] = {}

\* Only a CR with the finalizer stays when it is deleted, and the finalizer is
\* added to active ones only.
DeletedAreHeld ==
    \A c \in CRs : cr[c].exists /\ cr[c].deleting => cr[c].fin

FinalizerIsForActive == pc = "addFin" => copy.exists /\ ~copy.deleting

LifecycleInv ==
    /\ TypeOK /\ EntriesHaveCR
    /\ CacheIsCurrent /\ SeenAreHeld /\ WorkerHolds /\ CopyIsCurrent
    /\ RemovalIsCleared /\ DeletedAreHeld /\ FinalizerIsForActive

\* Every step is one of module Finalizer's or leaves what it speaks of as it
\* is: however old the copies the worker decides on are, a CR gets and loses
\* the finalizer and its pod is booked in the order that module allows.
LifeOf(object) ==
    CASE ~object.exists                                -> "absent"
      [] object.exists /\ ~object.fin                  -> "open"
      [] object.exists /\ object.fin /\ ~object.deleting -> "held"
      [] object.exists /\ object.fin /\ object.deleting  -> "leaving"

F == INSTANCE Finalizer WITH life <- [c \in CRs |-> LifeOf(cr[c])]

ImplementsFinalizer == F!Spec

\* The controller forgets nobody.  When nothing is queued, nothing will be
\* requeued and the caches and their handlers have caught up, every CR that
\* was deleted is gone, every other has its finalizer and its node, and the
\* pod of a CR that shares it with no other is booked on the node it runs on:
\* no return of Reconcile without a requeue and no cleanup without a request
\* leaves one behind.
AtRest ==
    /\ pc = "idle" /\ queue = {} /\ timers = {}
    /\ crNews = {} /\ podNews = {} /\ podEvents = <<>>

SettledCR(c) == cr[c].exists => LifeOf(cr[c]) = "held" /\ cr[c].node # NoNode

OnlyCR(c) == \A d \in CRs : PodOf[d] = PodOf[c] => d = c

IsBooked(p) == Runs(pod[p]) => pod[p].node \in booked[p]

SettledAtRest ==
    AtRest => \A c \in CRs :
        /\ SettledCR(c)
        /\ cr[c].exists /\ OnlyCR(c) => IsBooked(PodOf[c])

\* Why SettledAtRest holds: a CR that is not settled is asked for, or under
\* reconciliation on a path that asks for it again; a running pod that is not
\* booked besides has a change to be notified, or a worker that will book it
\* where it runs.
Requested(c) == c \in queue \cup timers \cup crNews

Returns(c) == self = c /\ pc \in {"removeFin", "addFin", "findNode", "setNode"}

CRsAreRequested == \A c \in CRs : SettledCR(c) \/ Requested(c) \/ Returns(c)

PodCacheIsCurrent == \A p \in Pods \ podNews : podSeen[p] = pod[p]

Announced(p) ==
    p \in podNews \/ \E i \in DOMAIN podEvents : podEvents[i].pod = p

WillBook(c) ==
    /\ self = c
    /\ \/ pc = "readPod"
       \/ pc \in {"initAlloc", "book"} /\ place = pod[PodOf[c]].node

PodsAreRequested ==
    \A c \in CRs : cr[c].exists /\ OnlyCR(c) =>
        \/ IsBooked(PodOf[c]) \/ Announced(PodOf[c])
        \/ Requested(c) \/ Returns(c) \/ WillBook(c)

RequestInv ==
    LifecycleInv /\ PodCacheIsCurrent /\ CRsAreRequested /\ PodsAreRequested

\* The deletion of a CR ends: the finalizer does not hold it for ever, though
\* its removal may conflict, fail, or meet a restart.
DeletionEnds ==
    \A c \in CRs : (cr[c].exists /\ cr[c].deleting) ~> ~cr[c].exists

\* When a CR and its running pod stay, in whatever order they came, after
\* whatever came before of the same names, and however late the events are,
\* the pod is booked on its node in the end.
RunsOn(p, n) == pod[p].phase = "active" /\ pod[p].node = n
LiveIsBooked ==
    \A c \in CRs, n \in Nodes :
        <>[](/\ cr[c].exists /\ ~cr[c].deleting
             /\ RunsOn(PodOf[c], n))
          => <>[](n \in booked[PodOf[c]])
=============================================================================
