------------------------ MODULE McKubeLifecycleProofs ------------------------
(***************************************************************************)
(* Proofs about McKubeLifecycle for every set of CRs, pods and nodes, any  *)
(* number of CRs to a pod, and any number of events: the types, and that   *)
(* an entry in a CPU pool always has a CR that will release it.            *)
(***************************************************************************)
EXTENDS McKubeLifecycle, TLAPS

LEMMA GoneTypes == Gone \in CRStates /\ ~Held(Gone)
  BY DEF Gone, NewCR, CRStates, Held, Places

LEMMA NewCRTypes ==
    ASSUME NEW n \in Places
    PROVE  NewCR(n) \in CRStates /\ ~Held(NewCR(n))
  BY DEF NewCR, CRStates, Held

LEMMA PodObjectTypes == NoPod \in PodStates /\ NewPod \in PodStates
  BY DEF NoPod, NewPod, PodStates, Places

LEMMA SurroundingsTypes ==
    ASSUME events \in 0 .. MaxEvents, Surroundings
    PROVE  events' \in 0 .. MaxEvents
  BY LifecycleAssumption DEF Surroundings

\* What an update by the worker can do: store the object, if its copy is
\* current, or nothing.
LEMMA WriteOutcomes ==
    ASSUME NEW object, Accepted(object) \/ Conflict \/ Fails(object),
           events \in 0 .. MaxEvents
    PROVE  /\ \/ fresh /\ Store(self, object)
              \/ UNCHANGED <<cr, crNews>>
           /\ events' \in 0 .. MaxEvents
  BY SurroundingsTypes DEF Accepted, Conflict, Fails

LEMMA StoreTypes ==
    ASSUME CRTypeOK, NEW c \in CRs, NEW object \in CRStates,
           Store(c, object) \/ UNCHANGED <<cr, crNews>>, UNCHANGED crSeen
    PROVE  CRTypeOK'
  BY DEF CRTypeOK, Store

LEMMA CRUnchanged ==
    ASSUME CRTypeOK, UNCHANGED crVars
    PROVE  CRTypeOK'
  BY DEF CRTypeOK, crVars

LEMMA PodUnchanged ==
    ASSUME PodTypeOK, UNCHANGED podVars
    PROVE  PodTypeOK'
  BY DEF PodTypeOK, podVars

LEMMA WorkerUnchanged ==
    ASSUME WorkerTypeOK, UNCHANGED worker
    PROVE  WorkerTypeOK'
  BY DEF WorkerTypeOK, worker

LEMMA IdleTypes ==
    ASSUME WorkerIdle
    PROVE  WorkerTypeOK'
  BY GoneTypes DEF WorkerIdle, WorkerTypeOK, Steps, Places

-----------------------------------------------------------------------------
\* The types.

LEMMA InitTypes ==
    ASSUME Init
    PROVE  TypeOK
<1>1. CRTypeOK
  BY GoneTypes DEF Init, CRTypeOK, FoundCRs
<1>2. PodTypeOK
  BY PodObjectTypes DEF Init, PodTypeOK, FoundPods, Present
<1>3. WorkerTypeOK
  BY GoneTypes DEF Init, WorkerTypeOK, Steps, Places
<1> QED
  BY <1>1, <1>2, <1>3, LifecycleAssumption DEF Init, TypeOK

LEMMA FetchTypes ==
    ASSUME TypeOK, NEW c \in CRs, Fetch(c)
    PROVE  TypeOK'
<1>1. CRTypeOK' /\ PodTypeOK'
  BY CRUnchanged, PodUnchanged DEF Fetch, TypeOK
<1>2. PodOf[c] \in Pods
  BY LifecycleAssumption
<1>3. booked' \in [Pods -> SUBSET Nodes]
  BY <1>2 DEF Fetch, FetchMissing, FetchDeleting, FetchActive, cleanupPodState,
              TypeOK
<1>4. pc' \in {"done", "removeFin", "addFin", "findNode", "readPod"}
  BY DEF Fetch, FetchMissing, FetchDeleting, FetchActive
<1>5. WorkerTypeOK'
  BY <1>4 DEF Fetch, TypeOK, WorkerTypeOK, CRTypeOK, Steps
<1> QED
  BY <1>1, <1>3, <1>5 DEF Fetch, TypeOK

LEMMA WorkerStepTypes ==
    ASSUME TypeOK, WorkerStep
    PROVE  TypeOK'
<1>1. PodOf[self] \in Pods \/ pc = "idle"
  BY LifecycleAssumption DEF TypeOK, WorkerTypeOK
<1>2. CASE Done
  BY <1>2, IdleTypes, CRUnchanged, PodUnchanged DEF Done, TypeOK
<1>3. CASE RemoveFinalizer
  <2>1. CRTypeOK' /\ events' \in 0 .. MaxEvents
    BY <1>3, GoneTypes, WriteOutcomes, StoreTypes
    DEF RemoveFinalizer, TypeOK, WorkerTypeOK
  <2> QED
    BY <1>3, <2>1, IdleTypes, PodUnchanged
    DEF RemoveFinalizer, TypeOK, WorkerTypeOK, ComeBack
<1>4. CASE AddFinalizer
  <2>1. [copy EXCEPT !.fin = TRUE] \in CRStates
    BY DEF TypeOK, WorkerTypeOK, CRStates
  <2>2. CRTypeOK' /\ events' \in 0 .. MaxEvents
    BY <1>4, <2>1, WriteOutcomes, StoreTypes
    DEF AddFinalizer, TypeOK, WorkerTypeOK
  <2> QED
    BY <1>4, <2>2, IdleTypes, PodUnchanged
    DEF AddFinalizer, TypeOK, WorkerTypeOK, ComeBack
<1>5. CASE FindNode
  <2>1. podSeen[PodOf[self]].node \in Places
    BY <1>1, <1>5 DEF FindNode, TypeOK, PodTypeOK, PodStates
  <2>2. WorkerTypeOK'
    BY <1>5, <2>1, IdleTypes
    DEF FindNode, TypeOK, WorkerTypeOK, Next_, Runs, Steps, Places
  <2> QED
    BY <1>5, <2>2, CRUnchanged, PodUnchanged
    DEF FindNode, TypeOK, WorkerTypeOK, ComeBack
<1>6. CASE SetNode
  <2>1. [copy EXCEPT !.node = place] \in CRStates
    BY DEF TypeOK, WorkerTypeOK, CRStates
  <2>2. CRTypeOK' /\ events' \in 0 .. MaxEvents
    BY <1>6, <2>1, WriteOutcomes, StoreTypes
    DEF SetNode, TypeOK, WorkerTypeOK
  <2> QED
    BY <1>6, <2>2, IdleTypes, PodUnchanged
    DEF SetNode, TypeOK, WorkerTypeOK, ComeBack
<1>7. CASE ReadPod
  <2>1. podSeen[PodOf[self]].node \in Places
    BY <1>1, <1>7 DEF ReadPod, TypeOK, PodTypeOK, PodStates
  <2>2. WorkerTypeOK'
    BY <1>7, <2>1 DEF ReadPod, TypeOK, WorkerTypeOK, Next_, Runs, Steps, Places
  <2> QED
    BY <1>7, <2>2, CRUnchanged, PodUnchanged DEF ReadPod, TypeOK
<1>8. CASE InitAllocatedCore
  <2>1. [copy EXCEPT !.alloc = TRUE] \in CRStates
    BY DEF TypeOK, WorkerTypeOK, CRStates
  <2>2. CRTypeOK' /\ events' \in 0 .. MaxEvents
    BY <1>8, <2>1, WriteOutcomes, StoreTypes
    DEF InitAllocatedCore, TypeOK, WorkerTypeOK
  <2>3. WorkerTypeOK'
    BY <1>8, <2>1 DEF InitAllocatedCore, TypeOK, WorkerTypeOK, Steps
  <2> QED
    BY <1>8, <2>2, <2>3, PodUnchanged DEF InitAllocatedCore, TypeOK
<1>9. CASE Book
  <2>1. booked' \in [Pods -> SUBSET Nodes]
    BY <1>1, <1>9 DEF Book, TypeOK, WorkerTypeOK
  <2>2. WorkerTypeOK'
    BY <1>9 DEF Book, TypeOK, WorkerTypeOK, Next_, Steps
  <2> QED
    BY <1>9, <2>1, <2>2, CRUnchanged, PodUnchanged DEF Book, TypeOK
<1> QED
  BY <1>2, <1>3, <1>4, <1>5, <1>6, <1>7, <1>8, <1>9 DEF WorkerStep

LEMMA InformerTypes ==
    ASSUME TypeOK,
           \/ \E c \in CRs : Fire(c) \/ DeliverCR(c)
           \/ \E p \in Pods : SyncPod(p)
           \/ HandlePod
    PROVE  TypeOK'
<1>1. ASSUME NEW c \in CRs, Fire(c)
      PROVE  TypeOK'
  BY <1>1, CRUnchanged, PodUnchanged, WorkerUnchanged DEF Fire, TypeOK
<1>2. ASSUME NEW c \in CRs, DeliverCR(c)
      PROVE  TypeOK'
  <2>1. CRTypeOK'
    BY <1>2 DEF DeliverCR, TypeOK, CRTypeOK
  <2> QED
    BY <1>2, <2>1, PodUnchanged, WorkerUnchanged DEF DeliverCR, TypeOK
<1>3. ASSUME NEW p \in Pods, SyncPod(p)
      PROVE  TypeOK'
  <2>1. (pod[p].deleting \/ pod[p].phase = "absent") \in BOOLEAN
    OBVIOUS
  <2>2. PodTypeOK'
    BY <1>3, <2>1 DEF SyncPod, TypeOK, PodTypeOK, PodEvents
  <2> QED
    BY <1>3, <2>2, CRUnchanged, WorkerUnchanged DEF SyncPod, TypeOK
<1>4. CASE HandlePod
  <2>1. Head(podEvents) \in PodEvents /\ Tail(podEvents) \in Seq(PodEvents)
    <3>1. podEvents # <<>>
      BY <1>4 DEF HandlePod
    <3>2. podEvents \in Seq(PodEvents)
      BY DEF TypeOK, PodTypeOK
    <3> QED
      BY <3>1, <3>2
  <2>2. PodTypeOK'
    BY <1>4, <2>1 DEF HandlePod, TypeOK, PodTypeOK
  <2>3. booked' \in [Pods -> SUBSET Nodes] /\ queue' \subseteq CRs
    BY <1>4, <2>1 DEF HandlePod, TypeOK, cleanupPodState, CRsOf, PodEvents
  <2> QED
    BY <1>4, <2>2, <2>3, CRUnchanged, WorkerUnchanged DEF HandlePod, TypeOK
<1> QED
  BY <1>1, <1>2, <1>3, <1>4

\* A user's write of a CR.
LEMMA UserWritesTypes ==
    ASSUME TypeOK, NEW c \in CRs, NEW object \in CRStates, UserWrites(c, object)
    PROVE  TypeOK'
<1>1. CRTypeOK'
  BY StoreTypes DEF UserWrites, TypeOK
<1>2. WorkerTypeOK'
  BY DEF UserWrites, TypeOK, WorkerTypeOK
<1> QED
  BY <1>1, <1>2, PodUnchanged, SurroundingsTypes DEF UserWrites, TypeOK

\* What users write is a CR, and takes the finalizer from none.
LEMMA UsersKeepFinalizers ==
    ASSUME CRTypeOK, NEW c \in CRs, CreateCR(c) \/ DeleteCR(c) \/ EditCR(c)
    PROVE  \E object \in CRStates :
              /\ UserWrites(c, object)
              /\ Held(cr[c]) => Held(object)
<1>1. CASE CreateCR(c)
  BY <1>1, NewCRTypes DEF CreateCR, Held
<1>2. CASE DeleteCR(c)
  <2>1. [cr[c] EXCEPT !.deleting = TRUE] \in CRStates
    BY DEF CRTypeOK, CRStates
  <2>2. Held(cr[c]) => Held([cr[c] EXCEPT !.deleting = TRUE])
    BY DEF CRTypeOK, CRStates, Held
  <2> QED
    BY <1>2, <2>1, <2>2, GoneTypes DEF DeleteCR, Held
<1>3. CASE EditCR(c)
  BY <1>3 DEF EditCR, CRTypeOK
<1> QED
  BY <1>1, <1>2, <1>3

\* The changes of pods touch nothing but them.
LEMMA PodStepChanges ==
    ASSUME PodTypeOK, NEW p \in Pods,
           \/ CreatePod(p) \/ SchedulePod(p) \/ FinishPod(p)
           \/ DeletePod(p) \/ EndPod(p)
    PROVE  \E object \in PodStates : PodChanges(p, object)
<1>1. pod[p] \in PodStates
  BY DEF PodTypeOK
<1>2. CASE CreatePod(p)
  BY <1>2, PodObjectTypes DEF CreatePod
<1>3. CASE SchedulePod(p)
  <2>1. \A n \in Nodes : [pod[p] EXCEPT !.node = n] \in PodStates
    BY <1>1 DEF PodStates, Places
  <2> QED
    BY <1>3, <2>1 DEF SchedulePod
<1>4. CASE FinishPod(p)
  <2>1. [pod[p] EXCEPT !.phase = "ended"] \in PodStates
    BY <1>1 DEF PodStates
  <2> QED
    BY <1>4, <2>1 DEF FinishPod
<1>5. CASE DeletePod(p)
  <2>1. [pod[p] EXCEPT !.deleting = TRUE] \in PodStates
    BY <1>1 DEF PodStates
  <2> QED
    BY <1>5, <2>1, PodObjectTypes DEF DeletePod
<1>6. CASE EndPod(p)
  BY <1>6, PodObjectTypes DEF EndPod
<1> QED
  BY <1>2, <1>3, <1>4, <1>5, <1>6

LEMMA PodChangesTypes ==
    ASSUME TypeOK, NEW p \in Pods, NEW object \in PodStates, PodChanges(p, object)
    PROVE  TypeOK'
<1>1. PodTypeOK'
  BY DEF PodChanges, TypeOK, PodTypeOK
<1> QED
  BY <1>1, CRUnchanged, WorkerUnchanged, SurroundingsTypes
  DEF PodChanges, TypeOK

LEMMA RestartTypes ==
    ASSUME TypeOK, Restart
    PROVE  TypeOK'
<1>1. CRTypeOK'
  BY DEF Restart, TypeOK, CRTypeOK
<1>2. PodTypeOK'
  BY DEF Restart, TypeOK, PodTypeOK, Present
<1>3. /\ booked' \in [Pods -> SUBSET Nodes]
      /\ queue' \subseteq CRs /\ timers' \subseteq CRs
  BY DEF Restart
<1> QED
  BY <1>1, <1>2, <1>3, IdleTypes, SurroundingsTypes DEF Restart, TypeOK

LEMMA StutterTypes ==
    ASSUME TypeOK, UNCHANGED vars
    PROVE  TypeOK'
  BY CRUnchanged, PodUnchanged, WorkerUnchanged DEF vars, TypeOK

\* Every step keeps the types.
LEMMA StepTypes ==
    ASSUME TypeOK, [Next]_vars
    PROVE  TypeOK'
<1>1. ASSUME NEW c \in CRs, CreateCR(c) \/ DeleteCR(c) \/ EditCR(c)
      PROVE  TypeOK'
  BY <1>1, UsersKeepFinalizers, UserWritesTypes DEF TypeOK
<1>2. ASSUME NEW p \in Pods,
             \/ CreatePod(p) \/ SchedulePod(p) \/ FinishPod(p)
             \/ DeletePod(p) \/ EndPod(p)
      PROVE  TypeOK'
  BY <1>2, PodStepChanges, PodChangesTypes DEF TypeOK
<1> QED
  BY <1>1, <1>2, FetchTypes, WorkerStepTypes, InformerTypes, RestartTypes,
     StutterTypes DEF Next

\* All variables keep their types, and the worker what its place in Reconcile
\* needs (Reconcile, findObjectsForPod, cleanupPodState).
THEOREM LifecycleTyping == Spec => []TypeOK
<1>1. Init => TypeOK
  BY InitTypes
<1>2. TypeOK /\ [Next]_vars => TypeOK'
  BY StepTypes
<1> QED
  BY <1>1, <1>2, PTL DEF Spec

-----------------------------------------------------------------------------
\* Entries and their CRs.

\* A CR whose finalizer the worker takes away is the one it holds, current and
\* being deleted; no other write takes a finalizer away.
LEMMA WorkerKeepsFinalizers ==
    ASSUME LifecycleInv, WorkerStep, ~RemoveFinalizer,
           NEW c \in CRs, Held(cr[c])
    PROVE  Held(cr'[c])
<1>1. CASE AddFinalizer
  <2>1. cr'[c] = cr[c] \/ (fresh /\ c = self /\ cr'[c] = [copy EXCEPT !.fin = TRUE])
    BY <1>1, WriteOutcomes DEF AddFinalizer, LifecycleInv, TypeOK, CRTypeOK, Store
  <2> QED
    BY <1>1, <2>1
    DEF AddFinalizer, LifecycleInv, CopyIsCurrent, Held, TypeOK, CRTypeOK, CRStates
<1>2. CASE SetNode
  <2>1. cr'[c] = cr[c] \/ (fresh /\ c = self /\ cr'[c] = [copy EXCEPT !.node = place])
    BY <1>2, WriteOutcomes DEF SetNode, LifecycleInv, TypeOK, CRTypeOK, Store
  <2> QED
    BY <1>2, <2>1
    DEF SetNode, LifecycleInv, CopyIsCurrent, Held, TypeOK, CRTypeOK, CRStates
<1>3. CASE InitAllocatedCore
  <2>1. cr'[c] = cr[c] \/ (fresh /\ c = self /\ cr'[c] = [copy EXCEPT !.alloc = TRUE])
    BY <1>3, WriteOutcomes
    DEF InitAllocatedCore, LifecycleInv, TypeOK, CRTypeOK, Store
  <2> QED
    BY <1>3, <2>1
    DEF InitAllocatedCore, LifecycleInv, CopyIsCurrent, Held, TypeOK, CRTypeOK,
        CRStates
<1> QED
  BY <1>1, <1>2, <1>3 DEF WorkerStep, Done, FindNode, ReadPod, Book, crVars

\* The removal of the finalizer: the CR goes or nothing happens.
LEMMA RemovalOutcomes ==
    ASSUME LifecycleInv, RemoveFinalizer, NEW c \in CRs
    PROVE  \/ cr'[c] = cr[c]
           \/ c = self /\ fresh /\ cr'[c] = Gone
  BY WriteOutcomes DEF RemoveFinalizer, LifecycleInv, TypeOK, CRTypeOK, Store

\* Users take a CR without the finalizer away, never one with it.
LEMMA UsersKeepHeld ==
    ASSUME LifecycleInv, NEW d \in CRs, CreateCR(d) \/ DeleteCR(d) \/ EditCR(d),
           NEW c \in CRs, Held(cr[c])
    PROVE  Held(cr'[c])
<1>1. PICK object \in CRStates : UserWrites(d, object) /\ (Held(cr[d]) => Held(object))
  BY UsersKeepFinalizers DEF LifecycleInv, TypeOK
<1>2. cr' = [cr EXCEPT ![d] = object]
  BY <1>1 DEF UserWrites, Store
<1> QED
  BY <1>1, <1>2 DEF LifecycleInv, TypeOK, CRTypeOK

\* What is left unchanged by all that is not the worker or a user.
LEMMA OthersKeepCRs ==
    ASSUME \/ \E c \in CRs : Fetch(c) \/ Fire(c) \/ DeliverCR(c)
           \/ \E p \in Pods : SyncPod(p)
           \/ HandlePod
           \/ \E p \in Pods : \/ CreatePod(p) \/ SchedulePod(p) \/ FinishPod(p)
                              \/ DeletePod(p) \/ EndPod(p)
           \/ Restart
           \/ UNCHANGED vars
    PROVE  cr' = cr
  BY DEF Fetch, Fire, DeliverCR, SyncPod, HandlePod, CreatePod, SchedulePod,
         FinishPod, DeletePod, EndPod, PodChanges, Restart, crVars, vars

\* The finalizer of a CR goes in one way only.
LEMMA FinalizerGoes ==
    ASSUME LifecycleInv, [Next]_vars, NEW c \in CRs, Held(cr[c]), ~Held(cr'[c])
    PROVE  /\ RemoveFinalizer /\ c = self /\ fresh
           /\ crSeen[c].deleting /\ booked[PodOf[c]] = {}
<1>1. RemoveFinalizer
  BY WorkerKeepsFinalizers, UsersKeepHeld, OthersKeepCRs DEF Next
<1>2. c = self /\ fresh
  BY <1>1, RemovalOutcomes
<1> QED
  BY <1>1, <1>2
  DEF RemoveFinalizer, LifecycleInv, CopyIsCurrent, RemovalIsCleared

\* Only Book makes an entry.
LEMMA OnlyBookBooks ==
    ASSUME TypeOK, [Next]_vars, NEW p \in Pods, booked'[p] # {}
    PROVE  booked[p] # {} \/ (Book /\ p = PodOf[self])
<1>1. CASE \E c \in CRs : Fetch(c)
  BY <1>1 DEF Fetch, FetchMissing, FetchDeleting, FetchActive, cleanupPodState,
              TypeOK
<1>2. CASE HandlePod
  BY <1>2 DEF HandlePod, cleanupPodState, TypeOK
<1>3. CASE Book
  BY <1>3 DEF Book, TypeOK
<1>4. CASE Restart
  BY <1>4 DEF Restart
<1>5. CASE WorkerStep /\ ~Book
  BY <1>5 DEF WorkerStep, Done, RemoveFinalizer, AddFinalizer, FindNode, SetNode,
              ReadPod, InitAllocatedCore
<1>6. CASE \E c \in CRs : \/ Fire(c) \/ DeliverCR(c)
                          \/ CreateCR(c) \/ DeleteCR(c) \/ EditCR(c)
  BY <1>6 DEF Fire, DeliverCR, CreateCR, DeleteCR, EditCR, UserWrites
<1>7. CASE \E p_1 \in Pods : \/ SyncPod(p_1) \/ CreatePod(p_1) \/ SchedulePod(p_1)
                             \/ FinishPod(p_1) \/ DeletePod(p_1) \/ EndPod(p_1)
  BY <1>7 DEF SyncPod, CreatePod, SchedulePod, FinishPod, DeletePod, EndPod,
              PodChanges
<1>8. CASE UNCHANGED vars
  BY <1>8 DEF vars
<1> QED
  BY <1>1, <1>2, <1>3, <1>4, <1>5, <1>6, <1>7, <1>8 DEF Next

\* The owner of an entry keeps its finalizer, unless it is the one CR whose
\* entries are gone.
LEMMA EntriesStep ==
    ASSUME LifecycleInv, [Next]_vars
    PROVE  EntriesHaveCR'
<1> SUFFICES ASSUME NEW p \in Pods, booked'[p] # {}
             PROVE  \E c \in CRs : PodOf[c] = p /\ Held(cr'[c])
  BY DEF EntriesHaveCR, Held
<1>1. TypeOK
  BY DEF LifecycleInv
<1>2. CASE Book /\ p = PodOf[self]
  <2>1. self \in CRs /\ Held(cr[self])
    BY <1>2 DEF Book, Next_, LifecycleInv, WorkerHolds, TypeOK, WorkerTypeOK
  <2> QED
    BY <1>2, <2>1 DEF Book, crVars
<1>3. CASE booked[p] # {} /\ ~Book
  <2>1. PICK c \in CRs : PodOf[c] = p /\ Held(cr[c])
    BY <1>3 DEF LifecycleInv, EntriesHaveCR, Held
  <2>2. CASE Held(cr'[c])
    BY <2>1, <2>2
  <2>3. CASE ~Held(cr'[c])
    BY <1>3, <2>1, <2>3, FinalizerGoes
  <2> QED
    BY <2>2, <2>3
<1>4. CASE booked[p] # {} /\ Book
  BY <1>4 DEF Book, crVars, LifecycleInv, EntriesHaveCR, Held
<1> QED
  BY <1>1, <1>2, <1>3, <1>4, OnlyBookBooks

\* A change of a CR is put down as news for the cache.
LEMMA ChangesAreNews ==
    ASSUME TypeOK, [Next]_vars, NEW c \in CRs, cr'[c] # cr[c]
    PROVE  c \in crNews' /\ crSeen'[c] = crSeen[c]
<1>1. CASE WorkerStep
  <2>1. UNCHANGED crSeen
    BY <1>1 DEF WorkerStep, Done, RemoveFinalizer, AddFinalizer, FindNode, SetNode,
                ReadPod, InitAllocatedCore, Book, crVars
  <2>2. cr' = cr \/ \E object : Store(self, object)
    BY <1>1 DEF WorkerStep, Done, RemoveFinalizer, AddFinalizer, FindNode, SetNode,
                ReadPod, InitAllocatedCore, Book, crVars, Accepted, Conflict, Fails
  <2> QED
    BY <2>1, <2>2 DEF Store, TypeOK, CRTypeOK
<1>2. ASSUME NEW d \in CRs, CreateCR(d) \/ DeleteCR(d) \/ EditCR(d)
      PROVE  c \in crNews' /\ crSeen'[c] = crSeen[c]
  <2>1. PICK object : UserWrites(d, object)
    BY <1>2, UsersKeepFinalizers DEF TypeOK
  <2> QED
    BY <2>1 DEF UserWrites, Store, TypeOK, CRTypeOK
<1> QED
  BY <1>1, <1>2, OthersKeepCRs DEF Next

\* News are taken away, and the cache changes, only by bringing it up to date.
LEMMA NewsStay ==
    ASSUME TypeOK, [Next]_vars, NEW c \in CRs,
           crSeen'[c] # crSeen[c] \/ (c \in crNews /\ c \notin crNews')
    PROVE  crSeen'[c] = cr[c] /\ cr'[c] = cr[c]
<1>1. CASE WorkerStep
  <2>1. UNCHANGED crSeen
    BY <1>1 DEF WorkerStep, Done, RemoveFinalizer, AddFinalizer, FindNode, SetNode,
                ReadPod, InitAllocatedCore, Book, crVars
  <2>2. crNews \subseteq crNews'
    BY <1>1 DEF WorkerStep, Done, RemoveFinalizer, AddFinalizer, FindNode, SetNode,
                ReadPod, InitAllocatedCore, Book, crVars, Accepted, Conflict, Fails,
                Store
  <2> QED
    BY <2>1, <2>2
<1>2. ASSUME NEW d \in CRs, CreateCR(d) \/ DeleteCR(d) \/ EditCR(d)
      PROVE  crSeen' = crSeen /\ crNews \subseteq crNews'
  <2>1. PICK object : UserWrites(d, object)
    BY <1>2, UsersKeepFinalizers DEF TypeOK
  <2> QED
    BY <2>1 DEF UserWrites, Store
<1>3. ASSUME NEW d \in CRs, DeliverCR(d)
      PROVE  crSeen'[c] = cr[c] /\ cr'[c] = cr[c]
  BY <1>3 DEF DeliverCR, TypeOK, CRTypeOK
<1>4. CASE Restart
  BY <1>4 DEF Restart
<1>5. CASE \/ \E d \in CRs : Fetch(d) \/ Fire(d)
           \/ \E p \in Pods : SyncPod(p)
           \/ HandlePod
           \/ \E p \in Pods : \/ CreatePod(p) \/ SchedulePod(p) \/ FinishPod(p)
                              \/ DeletePod(p) \/ EndPod(p)
           \/ UNCHANGED vars
  BY <1>5 DEF Fetch, Fire, SyncPod, HandlePod, CreatePod, SchedulePod,
              FinishPod, DeletePod, EndPod, PodChanges, crVars, vars
<1> QED
  BY <1>1, <1>2, <1>3, <1>4, <1>5 DEF Next

LEMMA CacheStep ==
    ASSUME LifecycleInv, [Next]_vars
    PROVE  CacheIsCurrent' /\ SeenAreHeld'
<1>1. TypeOK /\ CacheIsCurrent /\ SeenAreHeld
  BY DEF LifecycleInv
<1>2. ASSUME NEW c \in CRs, c \notin crNews'
      PROVE  crSeen'[c] = cr'[c]
  BY <1>1, <1>2, ChangesAreNews, NewsStay DEF CacheIsCurrent
<1>3. ASSUME NEW c \in CRs, Held(crSeen'[c]), ~crSeen'[c].deleting, ~Held(cr'[c])
      PROVE  FALSE
  <2>1. crSeen'[c] = crSeen[c]
    BY <1>1, <1>3, NewsStay
  <2>2. Held(cr[c])
    BY <1>1, <1>3, <2>1 DEF SeenAreHeld
  <2> QED
    BY <1>3, <2>1, <2>2, FinalizerGoes
<1> QED
  BY <1>2, <1>3 DEF CacheIsCurrent, SeenAreHeld, Held

\* Steps that are not the worker's leave its place and copy alone, or forget
\* them all.
LEMMA OthersLeaveWorker ==
    ASSUME [Next]_vars, ~WorkerStep, ~(\E c \in CRs : Fetch(c))
    PROVE  \/ pc' = "idle" /\ ~fresh'
           \/ UNCHANGED <<pc, self, copy>> /\ (fresh' => fresh)
<1>1. ASSUME NEW c \in CRs, CreateCR(c) \/ DeleteCR(c) \/ EditCR(c)
      PROVE  UNCHANGED <<pc, self, copy>> /\ (fresh' => fresh)
  BY <1>1 DEF CreateCR, DeleteCR, EditCR, UserWrites
<1>2. CASE Restart
  BY <1>2 DEF Restart, WorkerIdle
<1>3. CASE \/ \E c \in CRs : Fire(c) \/ DeliverCR(c)
           \/ \E p \in Pods : SyncPod(p)
           \/ HandlePod
           \/ \E p \in Pods : \/ CreatePod(p) \/ SchedulePod(p) \/ FinishPod(p)
                              \/ DeletePod(p) \/ EndPod(p)
           \/ UNCHANGED vars
  BY <1>3 DEF Fire, DeliverCR, SyncPod, HandlePod, CreatePod, SchedulePod,
              FinishPod, DeletePod, EndPod, PodChanges, worker, vars
<1> QED
  BY <1>1, <1>2, <1>3 DEF Next

\* A worker on its way to book stays with its CR, which keeps its finalizer.
LEMMA HoldsStep ==
    ASSUME LifecycleInv, [Next]_vars
    PROVE  WorkerHolds'
<1> DEFINE OnTheWay == {"findNode", "setNode", "readPod", "initAlloc", "book"}
<1> SUFFICES ASSUME pc' \in OnTheWay
             PROVE  Held(cr'[self'])
  BY DEF WorkerHolds, Held
<1>1. ASSUME NEW c \in CRs, Fetch(c)
      PROVE  Held(cr'[self'])
  <2>1. Held(crSeen[c]) /\ ~crSeen[c].deleting
    BY <1>1 DEF Fetch, FetchMissing, FetchDeleting, FetchActive, Held,
                LifecycleInv, TypeOK, CRTypeOK, CRStates
  <2> QED
    BY <1>1, <2>1 DEF Fetch, crVars, LifecycleInv, SeenAreHeld
<1>2. CASE ~\E c \in CRs : Fetch(c)
  <2>1. pc \in OnTheWay /\ self' = self /\ ~RemoveFinalizer
    BY <1>2, OthersLeaveWorker
    DEF WorkerStep, Done, RemoveFinalizer, AddFinalizer, FindNode, SetNode,
        ReadPod, InitAllocatedCore, Book, Next_, WorkerIdle
  <2>2. self \in CRs /\ Held(cr[self])
    BY <2>1 DEF LifecycleInv, WorkerHolds, TypeOK, WorkerTypeOK
  <2> QED
    BY <2>1, <2>2, FinalizerGoes
<1> QED
  BY <1>1, <1>2

\* Whoever writes a CR makes the worker's copy of it old.
LEMMA CopyStep ==
    ASSUME LifecycleInv, [Next]_vars
    PROVE  CopyIsCurrent'
<1> SUFFICES ASSUME fresh', pc' # "idle"
             PROVE  copy' = cr'[self'] /\ crSeen'[self'] = cr'[self']
  BY DEF CopyIsCurrent
<1>1. ASSUME NEW c \in CRs, Fetch(c)
      PROVE  copy' = cr'[self'] /\ crSeen'[self'] = cr'[self']
  BY <1>1 DEF Fetch, crVars, LifecycleInv, CacheIsCurrent
<1>2. CASE ~\E c \in CRs : Fetch(c)
  <2>1. /\ fresh /\ pc # "idle" /\ UNCHANGED <<self, copy>>
        /\ WorkerStep => UNCHANGED <<cr, crSeen>>
    BY <1>2, OthersLeaveWorker
    DEF WorkerStep, Done, RemoveFinalizer, AddFinalizer, FindNode, SetNode,
        ReadPod, InitAllocatedCore, Book, Next_, WorkerIdle, crVars,
        LifecycleInv, TypeOK, WorkerTypeOK
  <2>2. self \in CRs /\ copy = cr[self] /\ crSeen[self] = cr[self] /\ TypeOK
    BY <2>1 DEF LifecycleInv, CopyIsCurrent, TypeOK, WorkerTypeOK
  <2>3. cr'[self] = cr[self]
    <3>1. ASSUME NEW d \in CRs, CreateCR(d) \/ DeleteCR(d) \/ EditCR(d)
          PROVE  cr'[self] = cr[self]
      <4>1. PICK object : UserWrites(d, object)
        BY <3>1, UsersKeepFinalizers DEF LifecycleInv, TypeOK
      <4> QED
        BY <4>1, <2>2 DEF UserWrites, Store, TypeOK, CRTypeOK
    <3> QED
      BY <2>1, <3>1, OthersKeepCRs DEF Next
  <2>4. crSeen'[self] = cr[self]
    BY <2>2, NewsStay
  <2> QED
    BY <2>1, <2>2, <2>3, <2>4
<1> QED
  BY <1>1, <1>2

\* Between the cleanup and the removal of the finalizer nobody books.
LEMMA RemovalStep ==
    ASSUME LifecycleInv, [Next]_vars
    PROVE  RemovalIsCleared'
<1> SUFFICES ASSUME pc' = "removeFin"
             PROVE  copy'.deleting /\ booked'[PodOf[self']] = {}
  BY DEF RemovalIsCleared
<1>1. ASSUME NEW c \in CRs, Fetch(c)
      PROVE  copy'.deleting /\ booked'[PodOf[self']] = {}
  <2>1. PodOf[c] \in Pods
    BY LifecycleAssumption
  <2> QED
    BY <1>1, <2>1 DEF Fetch, FetchMissing, FetchDeleting, FetchActive,
                      cleanupPodState, LifecycleInv, TypeOK
<1>2. CASE ~\E c \in CRs : Fetch(c)
  <2>1. pc = "removeFin" /\ UNCHANGED <<self, copy>> /\ ~Book
    BY <1>2, OthersLeaveWorker
    DEF WorkerStep, Done, RemoveFinalizer, AddFinalizer, FindNode, SetNode,
        ReadPod, InitAllocatedCore, Book, Next_, WorkerIdle
  <2>2. self \in CRs /\ PodOf[self] \in Pods /\ TypeOK
    BY <2>1, LifecycleAssumption DEF LifecycleInv, TypeOK, WorkerTypeOK
  <2> QED
    BY <2>1, <2>2, OnlyBookBooks DEF LifecycleInv, RemovalIsCleared
<1> QED
  BY <1>1, <1>2

\* The removal of the finalizer is decided for CRs being deleted, its addition
\* for active ones.
LEMMA ActiveStep ==
    ASSUME LifecycleInv, [Next]_vars
    PROVE  FinalizerIsForActive'
<1> SUFFICES ASSUME pc' = "addFin"
             PROVE  copy'.exists /\ ~copy'.deleting
  BY DEF FinalizerIsForActive
<1>1. ASSUME NEW c \in CRs, Fetch(c)
      PROVE  copy'.exists /\ ~copy'.deleting
  BY <1>1 DEF Fetch, FetchMissing, FetchDeleting, FetchActive
<1>2. CASE ~\E c \in CRs : Fetch(c)
  <2>1. pc = "addFin" /\ UNCHANGED copy
    BY <1>2, OthersLeaveWorker
    DEF WorkerStep, Done, RemoveFinalizer, AddFinalizer, FindNode, SetNode,
        ReadPod, InitAllocatedCore, Book, Next_, WorkerIdle
  <2> QED
    BY <2>1 DEF LifecycleInv, FinalizerIsForActive
<1> QED
  BY <1>1, <1>2

-----------------------------------------------------------------------------
\* The life of a CR.

LEMMA LifeIs ==
    ASSUME NEW object \in CRStates
    PROVE  /\ LifeOf(object) = "absent" <=> ~object.exists
           /\ LifeOf(object) = "open" <=> object.exists /\ ~object.fin
           /\ LifeOf(object) = "held" <=> Held(object) /\ ~object.deleting
           /\ LifeOf(object) = "leaving" <=> Held(object) /\ object.deleting
           /\ LifeOf(object) \in {"absent", "open", "held", "leaving"}
<1>1. object.exists \in BOOLEAN /\ object.fin \in BOOLEAN /\ object.deleting \in BOOLEAN
  BY DEF CRStates
<1>2. CASE ~object.exists
  BY <1>1, <1>2 DEF LifeOf, Held
<1>3. CASE object.exists /\ ~object.fin
  BY <1>1, <1>3 DEF LifeOf, Held
<1>4. CASE object.exists /\ object.fin /\ ~object.deleting
  BY <1>1, <1>4 DEF LifeOf, Held
<1>5. CASE object.exists /\ object.fin /\ object.deleting
  BY <1>1, <1>5 DEF LifeOf, Held
<1> QED
  BY <1>1, <1>2, <1>3, <1>4, <1>5

\* What may become of a CR in one step.
MayBecome(c, object) ==
    /\ object.exists /\ object.deleting => object.fin
    /\ \/ LifeOf(object) = LifeOf(cr[c])
       \/ LifeOf(cr[c]) = "absent" /\ LifeOf(object) = "open"
       \/ LifeOf(cr[c]) = "open" /\ LifeOf(object) = "absent"
       \/ LifeOf(cr[c]) = "open" /\ LifeOf(object) = "held"
       \/ LifeOf(cr[c]) = "held" /\ LifeOf(object) = "leaving"
       \/ /\ LifeOf(cr[c]) = "leaving" /\ LifeOf(object) = "absent"
          /\ booked[PodOf[c]] = {}

Becomes(c, object) ==
    cr' = [cr EXCEPT ![c] = object] /\ UNCHANGED booked

LEMMA UserMoves ==
    ASSUME LifecycleInv, NEW c \in CRs, CreateCR(c) \/ DeleteCR(c) \/ EditCR(c)
    PROVE  \E object \in CRStates : Becomes(c, object) /\ MayBecome(c, object)
<1>1. cr[c] \in CRStates /\ (cr[c].exists /\ cr[c].deleting => cr[c].fin)
  BY DEF LifecycleInv, TypeOK, CRTypeOK, DeletedAreHeld
<1>2. CASE CreateCR(c)
  <2>1. PICK n \in Places : UserWrites(c, NewCR(n))
    BY <1>2 DEF CreateCR
  <2>2. /\ NewCR(n) \in CRStates
        /\ NewCR(n).exists /\ ~NewCR(n).fin /\ ~NewCR(n).deleting
    BY NewCRTypes DEF NewCR
  <2>3. LifeOf(NewCR(n)) = "open" /\ LifeOf(cr[c]) = "absent"
    BY <1>1, <1>2, <2>2, LifeIs DEF CreateCR
  <2> QED
    BY <2>1, <2>2, <2>3 DEF UserWrites, Store, Becomes, MayBecome
<1>3. CASE DeleteCR(c) /\ cr[c].fin
  <2> DEFINE object == [cr[c] EXCEPT !.deleting = TRUE]
  <2>1. /\ object \in CRStates
        /\ object.exists /\ object.fin /\ object.deleting
    BY <1>1, <1>3 DEF CRStates, DeleteCR
  <2>2. LifeOf(object) = "leaving" /\ LifeOf(cr[c]) = "held"
    BY <1>1, <1>3, <2>1, LifeIs DEF DeleteCR, Held
  <2>3. Becomes(c, object)
    BY <1>3 DEF DeleteCR, UserWrites, Store, Becomes
  <2> HIDE DEF object
  <2> QED
    BY <2>1, <2>2, <2>3 DEF MayBecome
<1>4. CASE DeleteCR(c) /\ ~cr[c].fin
  <2>1. ~Gone.exists
    BY DEF Gone, NewCR
  <2>2. LifeOf(Gone) = "absent" /\ LifeOf(cr[c]) = "open"
    BY <1>1, <1>4, <2>1, GoneTypes, LifeIs DEF DeleteCR
  <2>3. Becomes(c, Gone)
    BY <1>4 DEF DeleteCR, UserWrites, Store, Becomes
  <2> QED
    BY <2>1, <2>2, <2>3, GoneTypes DEF MayBecome
<1>5. CASE EditCR(c)
  BY <1>1, <1>5 DEF EditCR, UserWrites, Store, Becomes, MayBecome
<1> QED
  BY <1>2, <1>3, <1>4, <1>5

\* The worker's write of an object that differs from its copy in what the
\* worker changes.
LEMMA WorkerMoves ==
    ASSUME LifecycleInv, NEW object,
           \/ AddFinalizer /\ object = [copy EXCEPT !.fin = TRUE]
           \/ SetNode /\ object = [copy EXCEPT !.node = place]
           \/ InitAllocatedCore /\ object = [copy EXCEPT !.alloc = TRUE]
           \/ RemoveFinalizer /\ object = Gone,
           fresh, cr' = [cr EXCEPT ![self] = object]
    PROVE  self \in CRs /\ object \in CRStates /\ Becomes(self, object)
           /\ MayBecome(self, object)
<1>1. /\ self \in CRs /\ copy = cr[self] /\ copy \in CRStates /\ place \in Places
      /\ copy.exists /\ copy.deleting => copy.fin
  BY DEF LifecycleInv, TypeOK, WorkerTypeOK, CopyIsCurrent, DeletedAreHeld,
         AddFinalizer, SetNode, InitAllocatedCore, RemoveFinalizer
<1>2. Becomes(self, object)
  BY DEF AddFinalizer, SetNode, InitAllocatedCore, RemoveFinalizer, Becomes
<1>3. CASE AddFinalizer /\ object = [copy EXCEPT !.fin = TRUE]
  <2>1. copy.exists /\ ~copy.deleting
    BY <1>3 DEF AddFinalizer, LifecycleInv, FinalizerIsForActive
  <2>2. /\ object \in CRStates
        /\ object.exists /\ object.fin /\ ~object.deleting
    BY <1>1, <1>3, <2>1 DEF CRStates
  <2>3. LifeOf(object) = "held" /\ LifeOf(copy) \in {"open", "held"}
    BY <1>1, <2>1, <2>2, LifeIs DEF Held
  <2> QED
    BY <1>1, <1>2, <2>2, <2>3 DEF MayBecome
<1>4. CASE \/ SetNode /\ object = [copy EXCEPT !.node = place]
           \/ InitAllocatedCore /\ object = [copy EXCEPT !.alloc = TRUE]
  <2>1. /\ object \in CRStates /\ object.exists = copy.exists
        /\ object.fin = copy.fin /\ object.deleting = copy.deleting
    BY <1>1, <1>4 DEF CRStates
  <2>2. LifeOf(object) = LifeOf(copy)
    BY <2>1 DEF LifeOf
  <2> QED
    BY <1>1, <1>2, <2>1, <2>2 DEF MayBecome
<1>5. CASE RemoveFinalizer /\ object = Gone
  <2>1. copy.deleting /\ booked[PodOf[self]] = {}
    BY <1>5 DEF RemoveFinalizer, LifecycleInv, RemovalIsCleared
  <2>2. ~Gone.exists
    BY DEF Gone, NewCR
  <2>3. LifeOf(Gone) = "absent" /\ LifeOf(copy) \in {"absent", "leaving"}
    BY <1>1, <2>1, <2>2, GoneTypes, LifeIs DEF Held
  <2> QED
    BY <1>1, <1>2, <1>5, <2>1, <2>2, <2>3, GoneTypes DEF MayBecome
<1> QED
  BY <1>1, <1>2, <1>3, <1>4, <1>5

LEMMA CRMoves ==
    ASSUME LifecycleInv, [Next]_vars, cr' # cr
    PROVE  \E c \in CRs, object \in CRStates :
               Becomes(c, object) /\ MayBecome(c, object)
<1>1. CASE WorkerStep
  <2>1. events \in 0 .. MaxEvents
    BY DEF LifecycleInv, TypeOK
  <2>2. PICK object : /\ \/ AddFinalizer /\ object = [copy EXCEPT !.fin = TRUE]
                         \/ SetNode /\ object = [copy EXCEPT !.node = place]
                         \/ InitAllocatedCore /\ object = [copy EXCEPT !.alloc = TRUE]
                         \/ RemoveFinalizer /\ object = Gone
                      /\ Accepted(object) \/ Conflict \/ Fails(object)
    BY <1>1 DEF WorkerStep, Done, RemoveFinalizer, AddFinalizer, FindNode, SetNode,
                ReadPod, InitAllocatedCore, Book, crVars
  <2>3. fresh /\ cr' = [cr EXCEPT ![self] = object]
    BY <2>1, <2>2, WriteOutcomes DEF Store
  <2> QED
    BY <2>2, <2>3, WorkerMoves
<1>2. ASSUME NEW c \in CRs, CreateCR(c) \/ DeleteCR(c) \/ EditCR(c)
      PROVE  \E object \in CRStates : Becomes(c, object) /\ MayBecome(c, object)
  BY <1>2, UserMoves
<1> QED
  BY <1>1, <1>2, OthersKeepCRs DEF Next

LEMMA DeletedStep ==
    ASSUME LifecycleInv, [Next]_vars
    PROVE  DeletedAreHeld'
<1> SUFFICES ASSUME NEW d \in CRs, cr'[d].exists, cr'[d].deleting
             PROVE  cr'[d].fin
  BY DEF DeletedAreHeld
<1>1. CASE cr' = cr
  BY <1>1 DEF LifecycleInv, DeletedAreHeld
<1>2. CASE cr' # cr
  <2>1. PICK c \in CRs, object \in CRStates : Becomes(c, object) /\ MayBecome(c, object)
    BY <1>2, CRMoves
  <2> QED
    BY <2>1 DEF Becomes, MayBecome, LifecycleInv, TypeOK, CRTypeOK, DeletedAreHeld
<1> QED
  BY <1>1, <1>2

LEMMA LifecycleInvInit ==
    ASSUME Init
    PROVE  LifecycleInv
<1>1. /\ booked = [p \in Pods |-> {}] /\ crSeen = cr
      /\ pc = "idle" /\ ~fresh
  BY DEF Init
<1>2. \A c \in CRs : cr[c].deleting /\ cr[c].exists => cr[c].fin
  <2>1. ~Gone.exists
    BY DEF Gone, NewCR
  <2> QED
    BY <2>1 DEF Init, FoundCRs
<1> QED
  BY <1>1, <1>2, InitTypes
  DEF LifecycleInv, EntriesHaveCR, CacheIsCurrent, SeenAreHeld, WorkerHolds,
      CopyIsCurrent, RemovalIsCleared, DeletedAreHeld, FinalizerIsForActive

\* The invariant behind EntriesHaveCR: who holds what between the read of a CR
\* and the writes that follow (Reconcile, cleanupPodState).
THEOREM LifecycleInvariant == Spec => []LifecycleInv
<1>1. Init => LifecycleInv
  BY LifecycleInvInit
<1>2. LifecycleInv /\ [Next]_vars => LifecycleInv'
  <2> SUFFICES ASSUME LifecycleInv, [Next]_vars
               PROVE  LifecycleInv'
    OBVIOUS
  <2>1. TypeOK'
    BY StepTypes DEF LifecycleInv
  <2> QED
    BY <2>1, EntriesStep, CacheStep, HoldsStep, CopyStep, RemovalStep,
       ActiveStep, DeletedStep
    DEF LifecycleInv
<1> QED
  BY <1>1, <1>2, PTL DEF Spec

\* Whatever is deleted, created again, conflicts, fails or restarts, an entry
\* in a CPU pool has a CR whose deletion will release it (the finalizer of
\* Reconcile and cleanupPodState).
THEOREM EntriesAlwaysHaveCR == Spec => []EntriesHaveCR
<1>1. LifecycleInv => EntriesHaveCR
  BY DEF LifecycleInv
<1> QED
  BY <1>1, LifecycleInvariant, PTL

-----------------------------------------------------------------------------
\* The refinement.

\* A step that changes what is booked leaves the CRs alone, and books for one
\* of those the worker holds, or releases.
LEMMA BookingMoves ==
    ASSUME LifecycleInv, [Next]_vars, booked' # booked
    PROVE  F!Next
<1> USE DEF TypeOK
<1>1. TypeOK
  BY DEF LifecycleInv
<1>2. ASSUME NEW p \in Pods, cleanupPodState(p), cr' = cr
      PROVE  F!Next
  <2>1. F!Release(p)
    BY <1>2 DEF F!Release, cleanupPodState
  <2> QED
    BY <2>1 DEF F!Next
<1>3. ASSUME NEW c \in CRs, Fetch(c)
      PROVE  F!Next
  <2>1. cleanupPodState(PodOf[c]) /\ PodOf[c] \in Pods /\ cr' = cr
    BY <1>3, LifecycleAssumption
    DEF Fetch, FetchMissing, FetchDeleting, FetchActive, crVars
  <2> QED
    BY <1>2, <2>1
<1>4. CASE HandlePod
  <2>1. podEvents \in Seq(PodEvents) /\ podEvents # <<>>
    BY <1>1, <1>4 DEF PodTypeOK, HandlePod
  <2>2. Head(podEvents).pod \in Pods
    <3>1. Head(podEvents) \in PodEvents
      BY <2>1
    <3> QED
      BY <3>1 DEF PodEvents
  <2>3. cleanupPodState(Head(podEvents).pod) /\ cr' = cr
    BY <1>4 DEF HandlePod, crVars
  <2> QED
    BY <1>2, <2>2, <2>3
<1>5. CASE Book
  <2>1. self \in CRs /\ place \in Nodes /\ Held(cr[self]) /\ cr[self] \in CRStates
    BY <1>5 DEF Book, Next_, LifecycleInv, WorkerHolds, WorkerTypeOK, CRTypeOK
  <2>2. LifeOf(cr[self]) \in {"held", "leaving"}
    BY <2>1, LifeIs
  <2>3. F!Book(self, place)
    BY <1>5, <2>1, <2>2 DEF Book, F!Book, crVars
  <2> QED
    BY <2>1, <2>3 DEF F!Next
<1>6. CASE Restart
  <2>1. F!Forget
    BY <1>6 DEF Restart, F!Forget
  <2> QED
    BY <2>1 DEF F!Next
<1>7. CASE WorkerStep /\ ~Book
  BY <1>7 DEF WorkerStep, Done, RemoveFinalizer, AddFinalizer, FindNode, SetNode,
              ReadPod, InitAllocatedCore
<1>8. CASE \E c \in CRs : \/ Fire(c) \/ DeliverCR(c)
                          \/ CreateCR(c) \/ DeleteCR(c) \/ EditCR(c)
  BY <1>8 DEF Fire, DeliverCR, CreateCR, DeleteCR, EditCR, UserWrites
<1>9. CASE \E p \in Pods : \/ SyncPod(p) \/ CreatePod(p) \/ SchedulePod(p)
                           \/ FinishPod(p) \/ DeletePod(p) \/ EndPod(p)
  BY <1>9 DEF SyncPod, CreatePod, SchedulePod, FinishPod, DeletePod, EndPod,
              PodChanges
<1> QED
  BY <1>3, <1>4, <1>5, <1>6, <1>7, <1>8, <1>9 DEF Next, vars

\* A step that changes a CR moves it on in its life, or changes what its life
\* does not depend on.
LEMMA LifeMoves ==
    ASSUME LifecycleInv, [Next]_vars, cr' # cr
    PROVE  [F!Next]_(F!vars)
<1>1. PICK c \in CRs, object \in CRStates : Becomes(c, object) /\ MayBecome(c, object)
  BY CRMoves
<1> DEFINE life == [d \in CRs |-> LifeOf(cr[d])]
<1>2. life' = [life EXCEPT ![c] = LifeOf(object)] /\ booked' = booked
  BY <1>1 DEF Becomes, LifecycleInv, TypeOK, CRTypeOK
<1>3. life[c] = LifeOf(cr[c])
  OBVIOUS
<1>4. CASE LifeOf(object) = LifeOf(cr[c])
  BY <1>2, <1>4 DEF F!vars
<1>5. CASE LifeOf(cr[c]) = "absent" /\ LifeOf(object) = "open"
  <2>1. F!Create(c)
    BY <1>2, <1>3, <1>5 DEF F!Create, F!Moves
  <2> QED
    BY <2>1 DEF F!Next
<1>6. CASE LifeOf(cr[c]) = "open" /\ LifeOf(object) = "absent"
  <2>1. F!Withdraw(c)
    BY <1>2, <1>3, <1>6 DEF F!Withdraw, F!Moves
  <2> QED
    BY <2>1 DEF F!Next
<1>7. CASE LifeOf(cr[c]) = "open" /\ LifeOf(object) = "held"
  <2>1. F!AddFinalizer(c)
    BY <1>2, <1>3, <1>7 DEF F!AddFinalizer, F!Moves
  <2> QED
    BY <2>1 DEF F!Next
<1>8. CASE LifeOf(cr[c]) = "held" /\ LifeOf(object) = "leaving"
  <2>1. F!Delete(c)
    BY <1>2, <1>3, <1>8 DEF F!Delete, F!Moves
  <2> QED
    BY <2>1 DEF F!Next
<1>9. CASE /\ LifeOf(cr[c]) = "leaving" /\ LifeOf(object) = "absent"
           /\ booked[PodOf[c]] = {}
  <2>1. F!RemoveFinalizer(c)
    BY <1>2, <1>3, <1>9 DEF F!RemoveFinalizer, F!Moves
  <2> QED
    BY <2>1 DEF F!Next
<1> QED
  BY <1>1, <1>4, <1>5, <1>6, <1>7, <1>8, <1>9 DEF MayBecome

\* The controller, its caches and its retries implement what the finalizer is
\* for: booked is only the pod of a CR that is held, and a CR that was deleted
\* goes when nothing is booked for its pod (Reconcile, cleanupPodState).
THEOREM LifecycleImplementsFinalizer == Spec => ImplementsFinalizer
<1>1. Init => F!Init
  <2> SUFFICES ASSUME Init
               PROVE  F!Init
    OBVIOUS
  <2>1. \A c \in CRs : LifeOf(cr[c]) \in {"absent", "open", "held", "leaving"}
    BY InitTypes, LifeIs DEF TypeOK, CRTypeOK
  <2> QED
    BY <2>1 DEF Init, F!Init, F!Lives
<1>2. LifecycleInv /\ [Next]_vars => [F!Next]_(F!vars)
  <2> SUFFICES ASSUME LifecycleInv, [Next]_vars
               PROVE  [F!Next]_(F!vars)
    OBVIOUS
  <2>1. CASE cr' = cr /\ booked' = booked
    BY <2>1 DEF F!vars
  <2>2. CASE cr' # cr
    BY <2>2, LifeMoves
  <2>3. CASE booked' # booked
    BY <2>3, BookingMoves
  <2> QED
    BY <2>1, <2>2, <2>3
<1> QED
  BY <1>1, <1>2, LifecycleInvariant, PTL DEF Spec, ImplementsFinalizer, F!Spec

-----------------------------------------------------------------------------
\* Nobody is forgotten.

\* The pods change in one way only, and it is put down as news; nobody but
\* Restart and SyncPod fills the cache.
LEMMA PodNewsStep ==
    ASSUME TypeOK, [Next]_vars, ~Restart, NEW p \in Pods
    PROVE  /\ pod'[p] # pod[p] => p \in podNews'
           /\ podSeen'[p] # podSeen[p] \/ (p \in podNews /\ p \notin podNews')
                => SyncPod(p)
<1>1. CASE WorkerStep
  BY <1>1 DEF WorkerStep, Done, RemoveFinalizer, AddFinalizer, FindNode, SetNode,
              ReadPod, InitAllocatedCore, Book, podVars
<1>2. ASSUME NEW q \in Pods, SyncPod(q)
      PROVE  /\ UNCHANGED pod
             /\ q # p => podSeen'[p] = podSeen[p] /\ (p \in podNews => p \in podNews')
  BY <1>2 DEF SyncPod, TypeOK, PodTypeOK
<1>3. ASSUME NEW q \in Pods,
             \/ CreatePod(q) \/ SchedulePod(q) \/ FinishPod(q)
             \/ DeletePod(q) \/ EndPod(q)
      PROVE  /\ pod'[p] # pod[p] => p \in podNews'
             /\ podSeen' = podSeen /\ podNews \subseteq podNews'
  <2>1. PICK object : PodChanges(q, object)
    BY <1>3, PodStepChanges DEF TypeOK
  <2> QED
    BY <2>1 DEF PodChanges, TypeOK, PodTypeOK
<1>4. CASE \/ \E c \in CRs : \/ Fetch(c) \/ Fire(c) \/ DeliverCR(c)
                           \/ CreateCR(c) \/ DeleteCR(c) \/ EditCR(c)
           \/ HandlePod \/ UNCHANGED vars
  BY <1>4 DEF Fetch, Fire, DeliverCR, CreateCR, DeleteCR, EditCR, UserWrites,
              HandlePod, podVars, vars
<1> QED
  BY <1>1, <1>2, <1>3, <1>4 DEF Next

LEMMA PodCacheStep ==
    ASSUME TypeOK, PodCacheIsCurrent, [Next]_vars
    PROVE  PodCacheIsCurrent'
<1> SUFFICES ASSUME NEW p \in Pods, p \notin podNews'
             PROVE  podSeen'[p] = pod'[p]
  BY DEF PodCacheIsCurrent
<1>1. CASE Restart
  BY <1>1 DEF Restart
<1>2. CASE SyncPod(p)
  BY <1>2 DEF SyncPod, TypeOK, PodTypeOK
<1>3. CASE ~Restart /\ ~SyncPod(p)
  BY <1>3, PodNewsStep DEF PodCacheIsCurrent
<1> QED
  BY <1>1, <1>2, <1>3

\* A request leaves the queue by being fetched; a timer that fires and news
\* that are delivered become requests in the queue.
LEMMA RequestsStay ==
    ASSUME TypeOK, [Next]_vars, NEW c \in CRs, Requested(c), cr[c].exists
    PROVE  Requested(c)' \/ (Fetch(c) /\ c \notin crNews)
<1>1. ASSUME NEW d \in CRs, Fetch(d)
      PROVE  Requested(c)' \/ (Fetch(c) /\ c \notin crNews)
  BY <1>1 DEF Fetch, Requested, crVars
<1>2. CASE WorkerStep
  BY <1>2 DEF WorkerStep, Done, RemoveFinalizer, AddFinalizer, FindNode, SetNode,
              ReadPod, InitAllocatedCore, Book, crVars, Accepted, Conflict, Fails,
              Store, ComeBack, Requested
<1>3. ASSUME NEW d \in CRs, Fire(d) \/ DeliverCR(d)
      PROVE  Requested(c)'
  BY <1>3 DEF Fire, DeliverCR, Requested, crVars
<1>4. ASSUME NEW d \in CRs, CreateCR(d) \/ DeleteCR(d) \/ EditCR(d)
      PROVE  Requested(c)'
  BY <1>4 DEF CreateCR, DeleteCR, EditCR, UserWrites, Store, Requested
<1>5. CASE Restart
  BY <1>5 DEF Restart, Requested
<1>6. CASE \/ \E p \in Pods : SyncPod(p)
           \/ HandlePod
           \/ \E p \in Pods : \/ CreatePod(p) \/ SchedulePod(p) \/ FinishPod(p)
                              \/ DeletePod(p) \/ EndPod(p)
           \/ UNCHANGED vars
  BY <1>6 DEF SyncPod, HandlePod, CreatePod, SchedulePod, FinishPod, DeletePod,
              EndPod, PodChanges, crVars, vars, Requested
<1> QED
  BY <1>1, <1>2, <1>3, <1>4, <1>5, <1>6 DEF Next

\* Steps that are not the worker's keep its place, or Restart asks for every CR.
LEMMA WorkerStays ==
    ASSUME TypeOK, [Next]_vars, ~WorkerStep, ~Restart, pc # "idle"
    PROVE  UNCHANGED <<pc, self, place>>
<1>1. ASSUME NEW c \in CRs, CreateCR(c) \/ DeleteCR(c) \/ EditCR(c)
      PROVE  UNCHANGED <<pc, self, place>>
  BY <1>1 DEF CreateCR, DeleteCR, EditCR, UserWrites
<1>2. CASE \/ \E c \in CRs : Fetch(c) \/ Fire(c) \/ DeliverCR(c)
           \/ \E p \in Pods : SyncPod(p)
           \/ HandlePod
           \/ \E p \in Pods : \/ CreatePod(p) \/ SchedulePod(p) \/ FinishPod(p)
                              \/ DeletePod(p) \/ EndPod(p)
           \/ UNCHANGED vars
  BY <1>2 DEF Fetch, Fire, DeliverCR, SyncPod, HandlePod, CreatePod, SchedulePod,
              FinishPod, DeletePod, EndPod, PodChanges, worker, vars
<1> QED
  BY <1>1, <1>2 DEF Next

LEMMA RestartRequests ==
    ASSUME Restart, NEW c \in CRs, cr[c].exists
    PROVE  Requested(c)'
  BY DEF Restart, Requested

\* Every way out of these steps of Reconcile asks for the CR again, or stores
\* it, which the cache will notify.
LEMMA ReturnsStay ==
    ASSUME TypeOK, [Next]_vars, NEW c \in CRs, Returns(c), cr[c].exists
    PROVE  Requested(c)' \/ Returns(c)'
<1>1. CASE WorkerStep
  BY <1>1 DEF WorkerStep, Done, RemoveFinalizer, AddFinalizer, FindNode, SetNode,
              ReadPod, InitAllocatedCore, Book, Accepted, Store, ComeBack, Next_,
              Requested, Returns
<1>2. CASE Restart
  BY <1>2, RestartRequests
<1>3. CASE ~WorkerStep /\ ~Restart
  BY <1>3, WorkerStays DEF Returns
<1> QED
  BY <1>1, <1>2, <1>3

\* A reconciliation that sees the CR as it is comes back, or goes on to read
\* the pod of a CR with finalizer and node.
LEMMA FetchOutcomes ==
    ASSUME LifecycleInv, NEW c \in CRs, Fetch(c), cr[c].exists
    PROVE  \/ Requested(c)' \/ Returns(c)'
           \/ SettledCR(c)' /\ WillBook(c)'
<1> SUFFICES ASSUME c \notin crNews
             PROVE  Returns(c)' \/ (SettledCR(c)' /\ WillBook(c)')
  BY DEF Fetch, crVars, Requested
<1>1. crSeen[c] = cr[c] /\ cr[c] \in CRStates /\ cr' = cr /\ self' = c
  BY DEF Fetch, crVars, LifecycleInv, CacheIsCurrent, TypeOK, CRTypeOK
<1>2. CASE cr[c].deleting
  <2>1. cr[c].fin
    BY <1>2 DEF LifecycleInv, DeletedAreHeld
  <2>2. pc' = "removeFin"
    BY <1>1, <1>2, <2>1
    DEF Fetch, FetchMissing, FetchDeleting, FetchActive
  <2> QED
    BY <1>1, <2>2 DEF Returns
<1>3. CASE ~cr[c].deleting /\ (~cr[c].fin \/ cr[c].node = NoNode)
  <2>1. pc' \in {"addFin", "findNode"}
    BY <1>1, <1>3 DEF Fetch, FetchMissing, FetchDeleting, FetchActive, CRStates
  <2> QED
    BY <1>1, <2>1 DEF Returns
<1>4. CASE ~cr[c].deleting /\ cr[c].fin /\ cr[c].node # NoNode
  <2>1. pc' = "readPod"
    BY <1>1, <1>4 DEF Fetch, FetchMissing, FetchDeleting, FetchActive
  <2>2. LifeOf(cr[c]) = "held"
    BY <1>1, <1>4, LifeIs DEF Held
  <2> QED
    BY <1>1, <1>4, <2>1, <2>2 DEF WillBook, SettledCR
<1> QED
  BY <1>1, <1>2, <1>3, <1>4 DEF CRStates

LEMMA CRRequestsStep ==
    ASSUME LifecycleInv, CRsAreRequested, [Next]_vars
    PROVE  CRsAreRequested'
<1> SUFFICES ASSUME NEW c \in CRs, ~SettledCR(c)'
             PROVE  Requested(c)' \/ Returns(c)'
  BY DEF CRsAreRequested
<1>1. TypeOK
  BY DEF LifecycleInv
<1>2. CASE cr'[c] # cr[c]
  BY <1>1, <1>2, ChangesAreNews DEF Requested
<1>3. CASE cr'[c] = cr[c]
  <2>1. cr[c].exists /\ (Requested(c) \/ Returns(c))
    BY <1>3 DEF CRsAreRequested, SettledCR
  <2>2. CASE Fetch(c)
    BY <2>1, <2>2, FetchOutcomes
  <2>3. CASE ~Fetch(c)
    BY <1>1, <2>1, <2>3, RequestsStay, ReturnsStay
  <2> QED
    BY <2>2, <2>3
<1> QED
  BY <1>2, <1>3

\* An announcement lasts until the handler has taken up an event of the pod.
LEMMA AnnouncedStay ==
    ASSUME TypeOK, [Next]_vars, ~Restart, NEW p \in Pods, Announced(p),
           ~(HandlePod /\ Head(podEvents).pod = p)
    PROVE  Announced(p)'
<1>1. podEvents \in Seq(PodEvents)
  BY DEF TypeOK, PodTypeOK
<1>2. ASSUME NEW q \in Pods, SyncPod(q)
      PROVE  Announced(p)'
  <2> DEFINE e == [pod |-> q, deleting |-> pod[q].deleting \/ pod[q].phase = "absent"]
  <2>1. podEvents' = Append(podEvents, e) /\ podNews' = podNews \ {q}
    BY <1>2 DEF SyncPod
  <2>2. e.pod = q
    OBVIOUS
  <2> HIDE DEF e
  <2>3. /\ DOMAIN podEvents' = 1 .. Len(podEvents) + 1
        /\ podEvents'[Len(podEvents) + 1] = e
        /\ \A i \in 1 .. Len(podEvents) : podEvents'[i] = podEvents[i]
    BY <1>1, <2>1
  <2>4. DOMAIN podEvents = 1 .. Len(podEvents) /\ Len(podEvents) \in Nat
    BY <1>1
  <2>5. CASE p = q
    <3>1. Len(podEvents) + 1 \in DOMAIN podEvents'
      BY <2>3, <2>4
    <3> QED
      BY <2>2, <2>3, <2>5, <3>1 DEF Announced
  <2>6. CASE p # q /\ p \in podNews
    BY <2>1, <2>6 DEF Announced
  <2>7. ASSUME NEW i \in DOMAIN podEvents, podEvents[i].pod = p
        PROVE  Announced(p)'
    <3>1. i \in DOMAIN podEvents' /\ podEvents'[i].pod = p
      BY <2>3, <2>4, <2>7
    <3> QED
      BY <3>1 DEF Announced
  <2> QED
    BY <2>5, <2>6, <2>7 DEF Announced
<1>3. CASE HandlePod /\ Head(podEvents).pod # p
  <2>1. podEvents # <<>> /\ podEvents' = Tail(podEvents) /\ podNews' = podNews
    BY <1>3 DEF HandlePod
  <2>2. ASSUME NEW i \in DOMAIN podEvents, podEvents[i].pod = p
        PROVE  Announced(p)'
    <3>1. i \in 1 .. Len(podEvents) /\ i # 1 /\ Len(podEvents) \in Nat
      BY <1>1, <1>3, <2>1, <2>2
    <3>2. i - 1 \in DOMAIN Tail(podEvents) /\ Tail(podEvents)[i - 1] = podEvents[i]
      BY <1>1, <2>1, <3>1
    <3> QED
      BY <2>1, <2>2, <3>2 DEF Announced
  <2> QED
    BY <2>1, <2>2 DEF Announced
<1>4. CASE WorkerStep
  BY <1>4 DEF WorkerStep, Done, RemoveFinalizer, AddFinalizer, FindNode, SetNode,
              ReadPod, InitAllocatedCore, Book, podVars, Announced
<1>5. CASE \/ \E c \in CRs : \/ Fetch(c) \/ Fire(c) \/ DeliverCR(c)
                           \/ CreateCR(c) \/ DeleteCR(c) \/ EditCR(c)
           \/ \E q \in Pods : \/ CreatePod(q) \/ SchedulePod(q) \/ FinishPod(q)
                              \/ DeletePod(q) \/ EndPod(q)
           \/ UNCHANGED vars
  BY <1>5 DEF Fetch, Fire, DeliverCR, CreateCR, DeleteCR, EditCR, UserWrites,
              CreatePod, SchedulePod, FinishPod, DeletePod, EndPod, PodChanges,
              podVars, vars, Announced
<1> QED
  BY <1>2, <1>3, <1>4, <1>5 DEF Next

\* Whoever takes an event of the pod, which may clear its entries, asks for its
\* only CR, unless that is news to the cache.
LEMMA HandledAreRequested ==
    ASSUME LifecycleInv, HandlePod, NEW c \in CRs, OnlyCR(c), cr[c].exists,
           Head(podEvents).pod = PodOf[c]
    PROVE  Requested(c)'
<1>1. CASE c \in crNews
  BY <1>1 DEF HandlePod, crVars, Requested
<1>2. CASE c \notin crNews
  <2>1. crSeen[c].exists
    BY <1>2 DEF LifecycleInv, CacheIsCurrent
  <2>2. CRsOf(PodOf[c]) = {c}
    BY <2>1 DEF CRsOf, OnlyCR
  <2> QED
    BY <2>2 DEF HandlePod, Requested
<1> QED
  BY <1>1, <1>2

\* Nobody else takes a pod's entries away.
LEMMA EntriesStay ==
    ASSUME LifecycleInv, [Next]_vars, NEW c \in CRs, OnlyCR(c), ~Fetch(c), ~Restart,
           ~(HandlePod /\ Head(podEvents).pod = PodOf[c])
    PROVE  booked[PodOf[c]] \subseteq booked'[PodOf[c]]
<1>1. booked \in [Pods -> SUBSET Nodes] /\ PodOf \in [CRs -> Pods]
  BY LifecycleAssumption DEF LifecycleInv, TypeOK
<1>2. ASSUME NEW d \in CRs, Fetch(d)
      PROVE  booked[PodOf[c]] \subseteq booked'[PodOf[c]]
  <2>1. PodOf[d] # PodOf[c]
    BY <1>2 DEF OnlyCR
  <2> QED
    BY <1>1, <1>2, <2>1 DEF Fetch, FetchMissing, FetchDeleting, FetchActive,
                            cleanupPodState
<1>3. CASE HandlePod
  BY <1>1, <1>3 DEF HandlePod, cleanupPodState
<1>4. CASE WorkerStep
  BY <1>1, <1>4 DEF WorkerStep, Done, RemoveFinalizer, AddFinalizer, FindNode,
                    SetNode, ReadPod, InitAllocatedCore, Book
<1>5. CASE \/ \E d \in CRs : \/ Fire(d) \/ DeliverCR(d)
                           \/ CreateCR(d) \/ DeleteCR(d) \/ EditCR(d)
           \/ \E q \in Pods : \/ SyncPod(q) \/ CreatePod(q) \/ SchedulePod(q)
                              \/ FinishPod(q) \/ DeletePod(q) \/ EndPod(q)
           \/ UNCHANGED vars
  BY <1>5 DEF Fire, DeliverCR, CreateCR, DeleteCR, EditCR, UserWrites, SyncPod,
              CreatePod, SchedulePod, FinishPod, DeletePod, EndPod, PodChanges, vars
<1> QED
  BY <1>2, <1>3, <1>4, <1>5 DEF Next

\* A worker that read the pod books it, on the node it runs on, or the cache of
\* pods was late.
LEMMA WillBookStay ==
    ASSUME TypeOK, PodCacheIsCurrent, [Next]_vars, NEW c \in CRs, WillBook(c),
           cr[c].exists
    PROVE  \/ IsBooked(PodOf[c])' \/ Announced(PodOf[c])'
           \/ Requested(c)' \/ WillBook(c)'
<1>1. PodOf[c] \in Pods /\ booked \in [Pods -> SUBSET Nodes]
  BY LifecycleAssumption DEF TypeOK
<1>2. CASE ReadPod
  <2>1. CASE PodOf[c] \in podNews
    BY <1>2, <2>1 DEF ReadPod, podVars, Announced
  <2>2. CASE PodOf[c] \notin podNews
    <3>1. podSeen[PodOf[c]] = pod[PodOf[c]]
      BY <1>1, <2>2 DEF PodCacheIsCurrent
    <3> QED
      BY <1>2, <3>1 DEF ReadPod, Next_, WillBook, IsBooked, podVars
  <2> QED
    BY <2>1, <2>2
<1>3. CASE InitAllocatedCore
  BY <1>3 DEF InitAllocatedCore, WillBook, podVars
<1>4. CASE Book
  <2>1. self = c /\ place = pod[PodOf[c]].node /\ pod' = pod
    BY <1>4 DEF Book, Next_, WillBook, podVars
  <2>2. place \in booked'[PodOf[c]]
    BY <1>1, <1>4, <2>1 DEF Book
  <2> QED
    BY <2>1, <2>2 DEF IsBooked
<1>5. CASE Restart
  BY <1>5, RestartRequests
<1>6. CASE ~WorkerStep /\ ~Restart
  <2>1. UNCHANGED <<pc, self, place>>
    BY <1>6, WorkerStays DEF WillBook
  <2>2. pod'[PodOf[c]] # pod[PodOf[c]] => Announced(PodOf[c])'
    BY <1>1, <1>6, PodNewsStep DEF Announced
  <2> QED
    BY <2>1, <2>2 DEF WillBook
<1>7. CASE Done \/ RemoveFinalizer \/ AddFinalizer \/ FindNode \/ SetNode
  BY <1>7 DEF Done, RemoveFinalizer, AddFinalizer, FindNode, SetNode, Next_,
              WillBook
<1> QED
  BY <1>2, <1>3, <1>4, <1>5, <1>6, <1>7 DEF WorkerStep

LEMMA PodRequestsStep ==
    ASSUME LifecycleInv, PodCacheIsCurrent, PodsAreRequested, [Next]_vars
    PROVE  PodsAreRequested'
<1> SUFFICES ASSUME NEW c \in CRs, cr'[c].exists, OnlyCR(c)
             PROVE  \/ IsBooked(PodOf[c])' \/ Announced(PodOf[c])'
                    \/ Requested(c)' \/ Returns(c)' \/ WillBook(c)'
  BY DEF PodsAreRequested, OnlyCR
<1>1. TypeOK /\ PodOf[c] \in Pods
  BY LifecycleAssumption DEF LifecycleInv
<1>2. CASE cr'[c] # cr[c]
  BY <1>1, <1>2, ChangesAreNews DEF Requested
<1>3. CASE cr'[c] = cr[c] /\ Fetch(c)
  BY <1>3, FetchOutcomes
<1>4. CASE cr'[c] = cr[c] /\ Restart
  BY <1>4, RestartRequests
<1>5. CASE cr'[c] = cr[c] /\ HandlePod /\ Head(podEvents).pod = PodOf[c]
  BY <1>5, HandledAreRequested
<1>6. CASE /\ cr'[c] = cr[c] /\ ~Fetch(c) /\ ~Restart
           /\ ~(HandlePod /\ Head(podEvents).pod = PodOf[c])
  <2>1. \/ IsBooked(PodOf[c]) \/ Announced(PodOf[c])
        \/ Requested(c) \/ Returns(c) \/ WillBook(c)
    BY <1>6 DEF PodsAreRequested
  <2>2. CASE IsBooked(PodOf[c])
    <3>1. CASE pod'[PodOf[c]] # pod[PodOf[c]]
      BY <1>1, <1>6, <3>1, PodNewsStep DEF Announced
    <3>2. CASE pod'[PodOf[c]] = pod[PodOf[c]]
      BY <1>6, <2>2, <3>2, EntriesStay DEF IsBooked
    <3> QED
      BY <3>1, <3>2
  <2>3. CASE Announced(PodOf[c])
    BY <1>1, <1>6, <2>3, AnnouncedStay
  <2>4. CASE Requested(c)
    BY <1>1, <1>6, <2>4, RequestsStay
  <2>5. CASE Returns(c)
    BY <1>1, <1>6, <2>5, ReturnsStay
  <2>6. CASE WillBook(c)
    BY <1>1, <1>6, <2>6, WillBookStay DEF LifecycleInv
  <2> QED
    BY <2>1, <2>2, <2>3, <2>4, <2>5, <2>6
<1> QED
  BY <1>2, <1>3, <1>4, <1>5, <1>6

\* The invariant behind SettledAtRest: whoever is not settled is asked for,
\* announced, or in the hands of a worker that will not drop it (Reconcile's
\* requeues and errors, findObjectsForPod).
THEOREM NobodyIsDropped == Spec => []RequestInv
<1>1. Init => RequestInv
  <2> SUFFICES ASSUME Init
               PROVE  RequestInv
    OBVIOUS
  <2>1. \A c \in CRs : cr[c].exists => Requested(c)
    BY DEF Init, Requested
  <2>2. CRsAreRequested /\ PodsAreRequested
    BY <2>1 DEF CRsAreRequested, PodsAreRequested, SettledCR
  <2>3. PodCacheIsCurrent
    BY DEF Init, PodCacheIsCurrent
  <2> QED
    BY <2>2, <2>3, LifecycleInvInit DEF RequestInv
<1>2. RequestInv /\ LifecycleInv' /\ [Next]_vars => RequestInv'
  BY PodCacheStep, CRRequestsStep, PodRequestsStep DEF RequestInv, LifecycleInv
<1> QED
  BY <1>1, <1>2, LifecycleInvariant, PTL DEF Spec

\* At rest every CR is settled and every running pod with a CR of its own is
\* booked where it runs, whatever conflicts, failures, late events and restarts
\* came before (Reconcile, findObjectsForPod).
THEOREM LifecycleSettles == Spec => []SettledAtRest
<1>1. RequestInv => SettledAtRest
  <2> SUFFICES ASSUME RequestInv, AtRest, NEW c \in CRs
               PROVE  /\ SettledCR(c)
                      /\ cr[c].exists /\ OnlyCR(c) => IsBooked(PodOf[c])
    BY DEF SettledAtRest
  <2>1. ~Requested(c) /\ ~Returns(c) /\ ~WillBook(c) /\ ~Announced(PodOf[c])
    BY DEF AtRest, Requested, Returns, WillBook, Announced
  <2> QED
    BY <2>1 DEF RequestInv, CRsAreRequested, PodsAreRequested
<1> QED
  BY <1>1, NobodyIsDropped, PTL
=============================================================================
