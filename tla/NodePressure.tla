---------------------------- MODULE NodePressure ----------------------------
(***************************************************************************)
(* How the controller relieves a node whose CPU is busy                    *)
(* (internal/ipvs/event_handler.go, pod_spec_handler.go): node updates     *)
(* start a goroutine each, unless ProcessingNodes says that one is at      *)
(* work; the reconcile worker calls the same handler when it sees the      *)
(* isCpuBusy annotation change, and clears the node's state on recovery.   *)
(* A handler works from the annotations and pods it read at its start, but *)
(* for the pod it lowers itself, which the answer to its patch refreshes;  *)
(* the state of the node, PressureState, is shared and not locked.         *)
(*                                                                         *)
(* Every pod here has the sdv.com label and a McKubeRealtime resource.     *)
(* Caches are taken as current; what makes a handler's view old is the     *)
(* time that passes while it works.                                        *)
(***************************************************************************)
EXTENDS Naturals, FiniteSets, Sequences, SequencesExt

CONSTANTS Pods,
          Tier,       \* pod -> its criticality
          StartMilli, \* pod -> CPU requests of its containers, as created
          MinMilli,
          Goroutines, \* slots for the goroutines of node updates
          OverSecs,   \* values of the annotation cpu-over90-duration-s
          Allowed,    \* what the surroundings may do besides node updates
          MaxEvents   \* bound: how often the surroundings act

Criticalities == {"Low", "Middle", "High"}
CriticalityRank == [Low |-> 0, Middle |-> 1, High |-> 2]

ASSUME PressureAssumption ==
    /\ Tier \in [Pods -> Criticalities]
    /\ StartMilli \in [Pods -> Seq(Nat)]
    /\ MinMilli \in Nat /\ MaxEvents \in Nat
    /\ OverSecs \subseteq Nat
    /\ Allowed \subseteq {"busyChange", "podChange", "apiFails"}
    /\ "worker" \notin Goroutines /\ IsFiniteSet(Goroutines)

Actors == Goroutines \cup {"worker"}
Ids == 1 .. Cardinality(Actors) + 1   \* enough for the states in use
NoId == 0

VARIABLES present,    \* the pods on the node
          leaving,    \* those whose eviction was accepted
          milli,      \* pod -> CPU requests of its containers
          over, busy, \* the node's annotations
          calls,      \* isCpuBusy in calls of FindObjectsForNode to come
          processing, \* ProcessingNodes has the node
          lastBusy,   \* lastCpuBusyState of the node
          current,    \* the NodePressureState in PressureState, or NoId
          states,     \* what the NodePressureStates hold
          pc,         \* actor -> where it is, or "idle"
          snap,       \* actor -> the annotations and pods it read
          mine,       \* actor -> its NodePressureState
          curTier     \* actor -> the tier it works on

nodeVars == <<over, busy, calls, lastBusy>>
podVars  == <<present, leaving, milli>>
actorVars == <<pc, snap, mine, curTier>>
VARIABLE events       \* how often the surroundings have acted
vars == <<podVars, nodeVars, processing, current, states, actorVars, events>>

\* A PerTierState: degraded is DegradeCount > 0, missing counts up to the
\* tolerance of two.
FreshTier == [degraded |-> FALSE, evictTried |-> FALSE, missing |-> 0, last |-> 0]
FreshState == [tiers |-> {}, tier |-> "", per |-> [t \in Criticalities |-> FreshTier]]
\* What a handler read: podMilli, which stays as it was read, and the specs of
\* nodePods, which a resize patch brings up to date.
NoSnap == [pods |-> {}, milli |-> StartMilli, specs |-> StartMilli, over |-> 0]

Init ==
    /\ present \in SUBSET Pods /\ leaving = {} /\ milli = StartMilli
    /\ over \in OverSecs /\ busy \in BOOLEAN
    /\ lastBusy \in IF "busyChange" \in Allowed THEN BOOLEAN ELSE {busy}
    /\ calls = <<>> /\ processing = FALSE
    /\ current = NoId /\ states = [i \in Ids |-> FreshState]
    /\ pc = [a \in Actors |-> "idle"]
    /\ snap = [a \in Actors |-> NoSnap]
    /\ mine = [a \in Actors |-> NoId]
    /\ curTier = [a \in Actors |-> "Low"]
    /\ events = 0

-----------------------------------------------------------------------------
\* Pure parts.

\* ListPodMilliCPUByNode and PickHighestCPUFromMilli; ties go either way.
Total(requests) == FoldSeq(LAMBDA r, sum : r + sum, 0, requests)

PickHighest(pods, requests) ==
    {p \in pods : \A q \in pods : Total(requests[q]) <= Total(requests[p])}

DegradedAll(requests) ==                  \* mutant: containers without requests too
    [i \in DOMAIN requests |->
        IF (requests[i] * 8) \div 10 < MinMilli THEN MinMilli
        ELSE (requests[i] * 8) \div 10]

\* DegradePodRequests: 20 % less for each container that requests CPU, but
\* never below MinMilli.
Degraded(requests) ==
    [i \in DOMAIN requests |->
        IF requests[i] = 0 THEN 0
        ELSE IF (requests[i] * 8) \div 10 < MinMilli THEN MinMilli
        ELSE (requests[i] * 8) \div 10]

FilterPodsByCriticality(s, tier) == {p \in s.pods : Tier[p] = tier}

HasActionableInTier(s, tier) ==
    \E p \in FilterPodsByCriticality(s, tier) :
        \E i \in DOMAIN s.specs[p] : s.specs[p][i] > MinMilli

Lowest(tiers) ==
    CHOOSE t \in tiers :
        \A u \in tiers : CriticalityRank[t] <= CriticalityRank[u]

HigherTiers(tier, tiers) ==
    {t \in tiers : CriticalityRank[t] > CriticalityRank[tier]}

ReindexedOnce(state, tiers) ==            \* mutant: a tier once set is kept
    [state EXCEPT
        !.tiers = tiers,
        !.tier = IF @ = "" /\ tiers # {} THEN Lowest(tiers) ELSE @]

\* ReindexCurrentTier and the initialisation after it: a tier that is not
\* among the node's any more gives way to the lowest one.
Reindexed(state, tiers) ==
    [state EXCEPT
        !.tiers = tiers,
        !.tier = IF tiers = {} THEN ""
                 ELSE IF @ \in tiers THEN @ ELSE Lowest(tiers)]

\* Moving on to NextHigherTier, if there is one.
Escalated(state, tier) ==
    IF HigherTiers(tier, state.tiers) = {} THEN state
    ELSE [state EXCEPT !.tier = Lowest(HigherTiers(tier, state.tiers))]

-----------------------------------------------------------------------------
\* Parts of the steps of HandleNodeCPUPressure, for actor a.

Goto(a, here, there) == pc[a] = here /\ pc' = [pc EXCEPT ![a] = there]
Per(a) == states[mine[a]].per[curTier[a]]
SetPer(a, per) ==
    states' = [states EXCEPT ![mine[a]].per[curTier[a]] = per]
Targets(a) == FilterPodsByCriticality(snap[a], curTier[a])

ReadNode(a) ==
    /\ Goto(a, "read", IF present = {} THEN "finish" ELSE "state")
    /\ snap' = [snap EXCEPT ![a] =
          [pods |-> present, milli |-> milli, specs |-> milli, over |-> over]]
    /\ UNCHANGED <<podVars, processing, current, states, mine, curTier>>

\* A failed read ends the handler.
ReadFails(a) ==
    /\ "apiFails" \in Allowed
    /\ Goto(a, "read", "finish")
    /\ UNCHANGED <<podVars, processing, current, states, snap, mine, curTier>>

\* The node's state is looked up or made, and its tiers brought up to date.
UseState(a) ==
    /\ Goto(a, "state", "tier")
    /\ LET unused == Ids \ ({current} \cup {mine[b] : b \in Actors})
           id == IF current # NoId THEN current ELSE CHOOSE i \in unused : TRUE
           old == IF current # NoId THEN states[current] ELSE FreshState
       IN /\ current' = id
          /\ mine' = [mine EXCEPT ![a] = id]
          /\ states' = [states EXCEPT
                ![id] = Reindexed(old, {Tier[p] : p \in snap[a].pods})]
    /\ UNCHANGED <<podVars, processing, snap, curTier>>

\* ProcessCurrentTier begins with the tier the state names now.
EnterTier(a) ==
    /\ Goto(a, "tier", "targets")
    /\ curTier' = [curTier EXCEPT ![a] = states[mine[a]].tier]
    /\ UNCHANGED <<podVars, processing, current, states, snap, mine>>

\* Another handler has moved the state to a tier this one saw no pods of: the
\* second time it goes on to the next, and starts over there.
NoTargets(a) ==
    /\ pc[a] = "targets" /\ Targets(a) = {}
    /\ LET missing == IF Per(a).missing < 2 THEN Per(a).missing + 1 ELSE 2
           counted == [states[mine[a]] EXCEPT !.per[curTier[a]].missing = missing]
           moved == missing = 2 /\ HigherTiers(curTier[a], counted.tiers) # {}
       IN /\ states' = [states EXCEPT ![mine[a]] =
                IF moved THEN Escalated(counted, curTier[a]) ELSE counted]
          /\ Goto(a, "targets", IF moved THEN "tier" ELSE "finish")
    /\ UNCHANGED <<podVars, processing, current, snap, mine, curTier>>

ShouldDegrade(a) ==
    /\ snap[a].over >= 1 /\ ~Per(a).evictTried
    /\ ~Per(a).degraded \/ snap[a].over >= Per(a).last + 3

\* The pod with the highest requests is degraded, or counts as degraded when
\* it has no more than MinMilli.
FindTop(a) ==
    /\ pc[a] = "targets" /\ Targets(a) # {}
    /\ LET per == [Per(a) EXCEPT !.missing = 0]
           top == CHOOSE p \in PickHighest(Targets(a), snap[a].milli) : TRUE
           spent == Total(snap[a].milli[top]) <= MinMilli
       IN /\ SetPer(a, [per EXCEPT !.degraded = @ \/ (ShouldDegrade(a) /\ spent)])
          /\ Goto(a, "targets",
                  IF ShouldDegrade(a) /\ ~spent THEN "degrade" ELSE "evict")
    /\ UNCHANGED <<podVars, processing, current, snap, mine, curTier>>

\* The resize patch: absolute amounts, worked out from the pod as it was read.
\* The server's answer is decoded into that pod, so that the rest of the handling
\* sees what it did itself; a failure may be that of the answer only.
Degrade(a) ==
    /\ Goto(a, "degrade", "evict")
    /\ \E p \in PickHighest(Targets(a), snap[a].milli) :
        \/ /\ p \in present
           /\ milli' = [milli EXCEPT ![p] = Degraded(snap[a].specs[p])]
           /\ snap' = [snap EXCEPT ![a].specs[p] = Degraded(snap[a].specs[p])]
           /\ SetPer(a, [Per(a) EXCEPT !.degraded = TRUE, !.last = snap[a].over])
        \/ /\ p \in present /\ "apiFails" \in Allowed
           /\ milli' = [milli EXCEPT ![p] = Degraded(snap[a].specs[p])]
           /\ UNCHANGED <<states, snap>>
        \/ /\ p \notin present \/ "apiFails" \in Allowed
           /\ UNCHANGED <<milli, states, snap>>
    /\ UNCHANGED <<present, leaving, processing, current, mine, curTier>>

\* Ten seconds, and something was degraded: one eviction is tried in a tier.
ShouldEvictAgain(a) ==                          \* mutant: EvictTried forgotten
    snap[a].over >= 10 /\ Per(a).degraded

ShouldEvict(a) ==
    snap[a].over >= 10 /\ Per(a).degraded /\ ~Per(a).evictTried

CheckEvict(a) ==
    /\ Goto(a, "evict", IF ShouldEvict(a) THEN "evicting" ELSE "escalate")
    /\ UNCHANGED <<podVars, processing, current, states, snap, mine, curTier>>

\* The label update before it refreshes nothing: it succeeds only with a pod that
\* is as it was read.
Evict(a) ==
    /\ Goto(a, "evicting", "escalate")
    /\ \E p \in PickHighest(Targets(a), snap[a].milli) :
        \/ p \in present /\ leaving' = leaving \cup {p}
        \/ (p \notin present \/ "apiFails" \in Allowed) /\ UNCHANGED leaving
    /\ SetPer(a, [Per(a) EXCEPT !.evictTried = TRUE])
    /\ UNCHANGED <<present, milli, processing, current, snap, mine, curTier>>

\* The next tier's turn comes when this one has nothing left to take, for all
\* that the handler knows: what it has just lowered itself counts.
EscalateAtOnce(a) ==                            \* mutant: any pods left or not
    /\ Goto(a, "escalate", "finish")
    /\ states' = [states EXCEPT ![mine[a]] =
            IF Per(a).degraded /\ Per(a).evictTried
            THEN Escalated(@, curTier[a]) ELSE @]
    /\ UNCHANGED <<podVars, processing, current, snap, mine, curTier>>

EscalateUntried(a) ==                           \* mutant: EvictTried not asked
    /\ Goto(a, "escalate", "finish")
    /\ states' = [states EXCEPT ![mine[a]] =
            IF Per(a).degraded /\ ~HasActionableInTier(snap[a], curTier[a])
            THEN Escalated(@, curTier[a]) ELSE @]
    /\ UNCHANGED <<podVars, processing, current, snap, mine, curTier>>

Escalate(a) ==
    /\ Goto(a, "escalate", "finish")
    /\ states' = [states EXCEPT ![mine[a]] =
            IF /\ Per(a).degraded /\ Per(a).evictTried
               /\ ~HasActionableInTier(snap[a], curTier[a])
            THEN Escalated(@, curTier[a]) ELSE @]
    /\ UNCHANGED <<podVars, processing, current, snap, mine, curTier>>

\* The handler returns; the deferred function of a goroutine takes the mark
\* away, whoever set it.
Forget(a) ==
    /\ snap' = [snap EXCEPT ![a] = NoSnap]
    /\ mine' = [mine EXCEPT ![a] = NoId]
    /\ curTier' = [curTier EXCEPT ![a] = "Low"]

FinishKeepsMark(a) ==                           \* mutant: the mark stays
    /\ Goto(a, "finish", "idle")
    /\ Forget(a)
    /\ UNCHANGED <<podVars, processing, current, states>>

Finish(a) ==
    /\ Goto(a, "finish", "idle")
    /\ Forget(a)
    /\ processing' = (processing /\ a = "worker")
    /\ UNCHANGED <<podVars, current, states>>

Handle(a) ==
    /\ \/ ReadNode(a) \/ ReadFails(a) \/ UseState(a) \/ EnterTier(a)
       \/ NoTargets(a) \/ FindTop(a) \/ Degrade(a)
       \/ CheckEvict(a) \/ Evict(a) \/ Escalate(a) \/ Finish(a)
    /\ UNCHANGED <<nodeVars, events>>

-----------------------------------------------------------------------------
\* What starts a handler.

\* FindObjectsForNode, for the node as it was and then as it is, of an update.
StartUnmarked(g) ==                             \* mutant: the mark not looked at
    /\ calls # <<>> /\ calls' = Tail(calls)
    /\ processing' = TRUE
    /\ Goto(g, "idle", IF Head(calls) THEN "read" ELSE "finish")
    /\ UNCHANGED <<podVars, over, busy, lastBusy, current, states, snap, mine,
                   curTier, events>>

Start(g) ==
    /\ calls # <<>> /\ calls' = Tail(calls)
    /\ ~processing /\ processing' = TRUE
    /\ Goto(g, "idle", IF Head(calls) THEN "read" ELSE "finish")
    /\ UNCHANGED <<podVars, over, busy, lastBusy, current, states, snap, mine,
                   curTier, events>>

Skip ==
    /\ calls # <<>> /\ calls' = Tail(calls)
    /\ processing
    /\ UNCHANGED <<podVars, over, busy, lastBusy, processing, current, states,
                   actorVars, events>>

\* The end of Reconcile, when isCpuBusy is not what it was the last time.
CheckBusy ==
    /\ busy # lastBusy /\ lastBusy' = busy
    /\ busy /\ Goto("worker", "idle", "read")
    /\ UNCHANGED <<podVars, over, busy, calls, processing, current, states, snap,
                   mine, curTier, events>>

\* handleCPURecovery's last part, which a node without RT pods does not reach.
CheckRecovered ==
    /\ busy # lastBusy /\ lastBusy' = busy
    /\ ~busy /\ pc["worker"] = "idle"
    /\ IF present = {} THEN UNCHANGED <<current, processing>>
       ELSE current' = NoId /\ processing' = FALSE
    /\ UNCHANGED <<podVars, over, busy, calls, states, actorVars, events>>

-----------------------------------------------------------------------------
\* The surroundings, MaxEvents times.

Surroundings ==
    /\ events < MaxEvents /\ events' = events + 1
    /\ UNCHANGED <<processing, lastBusy, current, states, actorVars>>

\* The node is updated: the utilisation sender writes its annotations.
UpdateNode(o, b) ==
    /\ Surroundings
    /\ b = busy \/ "busyChange" \in Allowed
    /\ over' = o /\ busy' = b
    /\ calls' = calls \o <<busy, b>>
    /\ UNCHANGED podVars

AddPod(p) ==
    /\ Surroundings
    /\ "podChange" \in Allowed
    /\ p \notin present
    /\ present' = present \cup {p}
    /\ milli' = [milli EXCEPT ![p] = StartMilli[p]]
    /\ UNCHANGED <<leaving, over, busy, calls>>

\* An evicted pod ends, at no cost in events.
RemovePod(p) ==
    /\ p \in leaving
    /\ present' = present \ {p} /\ leaving' = leaving \ {p}
    /\ UNCHANGED <<milli, nodeVars, processing, current, states, actorVars,
                   events>>

Next ==
    \/ \E a \in Actors : Handle(a)
    \/ \E g \in Goroutines : Start(g)
    \/ Skip \/ CheckBusy \/ CheckRecovered
    \/ \E o \in OverSecs, b \in BOOLEAN : UpdateNode(o, b)
    \/ \E p \in Pods : AddPod(p) \/ RemovePod(p)

\* Informers and goroutines keep going; nothing makes the worker reconcile.
Fairness ==
    /\ \A a \in Actors : WF_vars(Handle(a))
    /\ WF_vars(Skip \/ \E g \in Goroutines : Start(g))

Spec == Init /\ [][Next]_vars

FairSpec == Spec /\ Fairness

-----------------------------------------------------------------------------
(***************************************************************************)
(* Properties                                                              *)
(***************************************************************************)

TypeOK ==
    /\ present \subseteq Pods /\ leaving \subseteq present
    /\ milli \in [Pods -> Seq(Nat)]
    /\ over \in OverSecs /\ busy \in BOOLEAN /\ lastBusy \in BOOLEAN
    /\ calls \in Seq(BOOLEAN) /\ processing \in BOOLEAN
    /\ current \in Ids \cup {NoId}
    /\ \A i \in Ids : /\ states[i].tiers \subseteq Criticalities
                      /\ states[i].tier \in states[i].tiers \cup {""}
    /\ mine \in [Actors -> Ids \cup {NoId}]
    /\ events \in 0 .. MaxEvents

AtWork == {a \in Actors : pc[a] \notin {"idle", "finish"}}

\* The pressure of the node is handled by one actor at a time; the handlers
\* share its state without a lock (FindObjectsForNode: "skip a node that is
\* already being processed").
OneHandlerPerNode == Cardinality(AtWork) <= 1

\* DegradePodRequests lowers requests: a pod's container never gets more.
DegradationNeverRaises ==
    [][\A p \in present : p \in present' =>
          \A i \in DOMAIN milli[p] : milli'[p][i] <= milli[p][i]]_vars

\* Pressure takes from a pod only when the pods of lower criticality have
\* nothing more to give (ProcessCurrentTier: "the pod with the lowest
\* criticality among those deployed").
LowestFirst ==
    [][\A p \in present, q \in present \ leaving :
          /\ CriticalityRank[Tier[q]] < CriticalityRank[Tier[p]]
          /\ milli'[p] # milli[p] \/ p \in leaving' \ leaving
          => \A i \in DOMAIN milli[q] : milli[q][i] <= MinMilli]_vars

Ladder == INSTANCE PressureLadder WITH
    rung  <- IF current = NoId THEN "" ELSE states[current].tier,
    tried <- IF current = NoId THEN {}
             ELSE {t \in Criticalities : states[current].per[t].evictTried}

\* The handling of a spell of pressure climbs the tiers one at a time: it takes
\* from the one it stands on only, tries one eviction there, and goes up when
\* that was tried and nothing is left to lower (comments of ProcessCurrentTier).
ImplementsLadder == Ladder!LadderSpec

\* A pod that is evicted was degraded before (ProcessCurrentTier: eviction
\* "for the pods degradation was applied to").
EvictsTheDegraded ==
    [][\A p \in leaving' \ leaving :
          \/ milli[p] # StartMilli[p]
          \/ \A i \in DOMAIN milli[p] : milli[p][i] <= MinMilli]_vars

\* The mark is there only while some goroutine that takes it away at its end is
\* under way, whatever recoveries and late goroutines do to it: the node is
\* never shut off from its own updates for good (event_handler.go:332-350).
MarkHasOwner == processing => \E g \in Goroutines : pc[g] # "idle"

\* The mark that keeps node updates from being handled goes away again.
MarkIsTakenAway == processing ~> ~processing

\* A node update that says the CPU is busy gets the node handled.
BusyIsHandled ==
    (\E i \in DOMAIN calls : calls[i]) ~> (~busy \/ AtWork # {})
=============================================================================
