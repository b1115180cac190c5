------------------------- MODULE NodePressureProofs -------------------------
(* Proofs about NodePressure for any pods and any number of goroutines.     *)
EXTENDS NodePressure, FiniteSetTheorems, TLAPS

-----------------------------------------------------------------------------
(***************************************************************************)
(* The pure parts                                                          *)
(***************************************************************************)

TierStates == [degraded : BOOLEAN, evictTried : BOOLEAN, missing : 0 .. 2, last : Nat]

NodeStates == [tiers : SUBSET Criticalities, tier : Criticalities \cup {""},
               per : [Criticalities -> TierStates]]

Snaps == [pods : SUBSET Pods, milli : [Pods -> Seq(Nat)],
          specs : [Pods -> Seq(Nat)], over : Nat]

\* Lowest returns a member of lowest rank.
LEMMA LowestIsLowest ==
    ASSUME NEW tiers \in SUBSET Criticalities, tiers # {}
    PROVE  /\ Lowest(tiers) \in tiers
           /\ \A u \in tiers : CriticalityRank[Lowest(tiers)] <= CriticalityRank[u]
<1>1. /\ CriticalityRank["Low"] = 0 /\ CriticalityRank["Middle"] = 1
      /\ CriticalityRank["High"] = 2
  BY DEF CriticalityRank
<1>2. \E t \in tiers : \A u \in tiers : CriticalityRank[t] <= CriticalityRank[u]
  <2>1. \A u \in tiers : u = "Low" \/ u = "Middle" \/ u = "High"
    BY DEF Criticalities
  <2>2. CASE "Low" \in tiers
    BY <1>1, <2>1, <2>2
  <2>3. CASE "Low" \notin tiers /\ "Middle" \in tiers
    BY <1>1, <2>1, <2>3
  <2>4. CASE "Low" \notin tiers /\ "Middle" \notin tiers
    BY <1>1, <2>1, <2>4
  <2>. QED BY <2>2, <2>3, <2>4
<1>. QED BY <1>2 DEF Lowest

\* ReindexCurrentTier keeps the tier if it is there, or starts at the lowest.
LEMMA ReindexedTypes ==
    ASSUME NEW state \in NodeStates, NEW tiers \in SUBSET Criticalities, tiers # {}
    PROVE  /\ Reindexed(state, tiers) \in NodeStates
           /\ Reindexed(state, tiers).tiers = tiers
           /\ Reindexed(state, tiers).tier =
                 IF state.tier \in tiers THEN state.tier ELSE Lowest(tiers)
           /\ Reindexed(state, tiers).tier \in tiers
           /\ Reindexed(state, tiers).per = state.per
  BY LowestIsLowest DEF Reindexed, NodeStates

\* The next tier is one of the node's, or the one it is at.
LEMMA EscalatedTypes ==
    ASSUME NEW state \in NodeStates, NEW tier \in Criticalities
    PROVE  /\ Escalated(state, tier) \in NodeStates
           /\ Escalated(state, tier).tiers = state.tiers
           /\ Escalated(state, tier).per = state.per
           /\ \/ Escalated(state, tier).tier = state.tier
              \/ /\ HigherTiers(tier, state.tiers) # {}
                 /\ Escalated(state, tier).tier = Lowest(HigherTiers(tier, state.tiers))
                 /\ Escalated(state, tier).tier \in state.tiers
<1>1. HigherTiers(tier, state.tiers) \subseteq state.tiers
      /\ state.tiers \subseteq Criticalities
  BY DEF HigherTiers, NodeStates
<1>. QED BY <1>1, LowestIsLowest DEF Escalated, NodeStates

\* DegradePodRequests keeps the containers and their number.
LEMMA DegradedTypes ==
    ASSUME NEW requests \in Seq(Nat)
    PROVE  /\ Degraded(requests) \in Seq(Nat)
           /\ DOMAIN Degraded(requests) = DOMAIN requests
<1>1. \A r \in Nat : (r * 8) \div 10 \in Nat
  OBVIOUS
<1>2. \A i \in DOMAIN requests : Degraded(requests)[i] \in Nat
  BY <1>1, PressureAssumption DEF Degraded
<1>3. DOMAIN requests = 1 .. Len(requests) /\ Len(requests) \in Nat
  OBVIOUS
<1>. QED BY <1>2, <1>3 DEF Degraded

-----------------------------------------------------------------------------
(***************************************************************************)
(* Types                                                                   *)
(***************************************************************************)

Steps == {"idle", "read", "state", "tier", "targets", "degrade", "evict",
          "evicting", "escalate", "finish"}

\* Where a handler has a NodePressureState and works on one of its tiers.
Later == {"tier", "targets", "degrade", "evict", "evicting", "escalate"}

\* TypeOK, and the types of what a handler holds: it has read some pods, and the
\* state it works on names a tier, whoever else works on it.
PressureInv ==
    /\ present \subseteq Pods /\ leaving \subseteq present
    /\ milli \in [Pods -> Seq(Nat)]
    /\ over \in OverSecs /\ busy \in BOOLEAN /\ lastBusy \in BOOLEAN
    /\ calls \in Seq(BOOLEAN) /\ processing \in BOOLEAN
    /\ current \in Ids \cup {NoId}
    /\ states \in [Ids -> NodeStates]
    /\ \A i \in Ids : states[i].tier \in states[i].tiers \cup {""}
    /\ pc \in [Actors -> Steps]
    /\ snap \in [Actors -> Snaps]
    /\ mine \in [Actors -> Ids \cup {NoId}]
    /\ curTier \in [Actors -> Criticalities]
    /\ \A a \in Actors :
          /\ pc[a] = "state" => snap[a].pods # {}
          /\ pc[a] \in Later =>
                mine[a] \in Ids /\ states[mine[a]].tier \in Criticalities
    /\ events \in 0 .. MaxEvents

LEMMA PressureTypes == PressureInv => TypeOK
  BY DEF PressureInv, TypeOK, NodeStates

LEMMA ActorsFinite == IsFiniteSet(Actors) /\ Cardinality(Actors) \in Nat
<1>1. IsFiniteSet(Actors)
  BY PressureAssumption, FS_AddElement DEF Actors
<1>. QED BY <1>1, FS_CardinalityType

LEMMA FreshTypes == FreshState \in NodeStates /\ NoSnap \in Snaps
  BY PressureAssumption DEF FreshState, FreshTier, NodeStates, TierStates, NoSnap, Snaps

LEMMA PressureInit == Init => PressureInv
<1>1. SUFFICES ASSUME Init PROVE PressureInv
  OBVIOUS
<1>2. /\ states \in [Ids -> NodeStates]
      /\ \A i \in Ids : states[i].tier \in states[i].tiers \cup {""}
  BY <1>1, FreshTypes DEF Init, FreshState
<1>3. /\ present \subseteq Pods /\ leaving \subseteq present
      /\ milli \in [Pods -> Seq(Nat)] /\ over \in OverSecs
  BY <1>1, PressureAssumption DEF Init
<1>4. current \in Ids \cup {NoId} /\ events \in 0 .. MaxEvents
  BY <1>1, PressureAssumption DEF Init
<1>5. busy \in BOOLEAN /\ lastBusy \in BOOLEAN /\ processing \in BOOLEAN
  BY <1>1 DEF Init
<1>6. calls \in Seq(BOOLEAN)
  BY <1>1 DEF Init
<1>7. "idle" \in Steps /\ "Low" \in Criticalities /\ "idle" \notin Later
  BY DEF Steps, Criticalities, Later
<1>8. /\ pc \in [Actors -> Steps] /\ snap \in [Actors -> Snaps]
      /\ mine \in [Actors -> Ids \cup {NoId}] /\ curTier \in [Actors -> Criticalities]
      /\ \A a \in Actors : pc[a] # "state" /\ pc[a] \notin Later
  BY <1>1, <1>7, FreshTypes DEF Init
<1>. QED
  BY <1>2, <1>3, <1>4, <1>5, <1>6, <1>8 DEF PressureInv

\* The handlers together cannot use up the identities of states.
LEMMA UnusedId ==
    ASSUME PressureInv, current = NoId
    PROVE  Ids \ ({current} \cup {mine[b] : b \in Actors}) # {}
<1>. DEFINE used == {mine[b] : b \in Actors}
<1>1. mine \in Surjection(Actors, used)
  BY DEF PressureInv, Surjection
<1>2. IsFiniteSet(used) /\ Cardinality(used) <= Cardinality(Actors)
  BY <1>1, ActorsFinite, FS_Surjection
<1>3. Cardinality(used) \in Nat
  BY <1>2, FS_CardinalityType
<1>4. Cardinality(Ids) = Cardinality(Actors) + 1 /\ IsFiniteSet(Ids)
  BY ActorsFinite, FS_Interval DEF Ids
<1>5. CASE Ids \subseteq used
  <2>1. Cardinality(Ids) <= Cardinality(used)
    BY <1>2, <1>5, FS_Subset
  <2>. QED BY <2>1, <1>2, <1>3, <1>4, ActorsFinite
<1>6. CASE ~(Ids \subseteq used)
  BY <1>6, ActorsFinite DEF Ids, NoId
<1>. QED BY <1>5, <1>6

\* A step of a handler that changes its state only, to one that names a tier.
LEMMA TierStep ==
    ASSUME PressureInv, NEW a \in Actors, pc[a] \in Later,
           NEW there \in Steps \ {"state"}, pc' = [pc EXCEPT ![a] = there],
           NEW new \in NodeStates, states' = [states EXCEPT ![mine[a]] = new],
           new.tier \in Criticalities, new.tier \in new.tiers \cup {""},
           UNCHANGED <<present, nodeVars, processing, current, mine, curTier, events>>,
           leaving' \subseteq present, milli' \in [Pods -> Seq(Nat)],
           snap' \in [Actors -> Snaps], \A b \in Actors : snap'[b].pods = snap[b].pods
    PROVE  PressureInv'
<1>1. mine[a] \in Ids
  BY DEF PressureInv
<1>2. /\ states' \in [Ids -> NodeStates]
      /\ \A i \in Ids : states'[i].tier \in states'[i].tiers \cup {""}
      /\ \A i \in Ids : states[i].tier \in Criticalities
                          => states'[i].tier \in Criticalities
      /\ states'[mine[a]].tier \in Criticalities
  BY <1>1 DEF PressureInv
<1>3. \A b \in Actors :
         /\ pc'[b] = "state" => snap'[b].pods # {}
         /\ pc'[b] \in Later =>
               mine'[b] \in Ids /\ states'[mine'[b]].tier \in Criticalities
  <2>1. SUFFICES ASSUME NEW b \in Actors
                 PROVE  /\ pc'[b] = "state" => snap'[b].pods # {}
                        /\ pc'[b] \in Later =>
                             mine[b] \in Ids /\ states'[mine[b]].tier \in Criticalities
    OBVIOUS
  <2>2. CASE b = a
    BY <1>1, <1>2, <2>2 DEF PressureInv
  <2>3. CASE b # a
    <3>1. pc'[b] = pc[b]
      BY <2>3 DEF PressureInv
    <3>. QED BY <1>2, <3>1 DEF PressureInv
  <2>. QED BY <2>2, <2>3
<1>4. pc' \in [Actors -> Steps]
  BY DEF PressureInv
<1>. QED
  BY <1>2, <1>3, <1>4 DEF PressureInv, nodeVars

\* What a handler past UseState holds.
LEMMA HeldTypes ==
    ASSUME PressureInv, NEW a \in Actors, pc[a] \in Later
    PROVE  /\ mine[a] \in Ids /\ states[mine[a]] \in NodeStates
           /\ states[mine[a]].tier \in Criticalities
           /\ states[mine[a]].tier \in states[mine[a]].tiers \cup {""}
           /\ curTier[a] \in Criticalities
           /\ Per(a) \in TierStates
           /\ snap[a] \in Snaps
           /\ states = [states EXCEPT ![mine[a]] = states[mine[a]]]
<1>1. /\ mine[a] \in Ids /\ states[mine[a]] \in NodeStates
      /\ states[mine[a]].tier \in Criticalities
      /\ states[mine[a]].tier \in states[mine[a]].tiers \cup {""}
      /\ curTier[a] \in Criticalities /\ snap[a] \in Snaps
  BY DEF PressureInv
<1>2. Per(a) \in TierStates
  BY <1>1 DEF Per, NodeStates
<1>3. states = [states EXCEPT ![mine[a]] = states[mine[a]]]
  BY DEF PressureInv
<1>. QED BY <1>1, <1>2, <1>3

\* Writing one tier's state leaves the rest of the node's state.
LEMMA SetPerTypes ==
    ASSUME PressureInv, NEW a \in Actors, pc[a] \in Later,
           NEW per \in TierStates, SetPer(a, per)
    PROVE  \E new \in NodeStates :
              /\ states' = [states EXCEPT ![mine[a]] = new]
              /\ new.tier = states[mine[a]].tier
              /\ new.tiers = states[mine[a]].tiers
<1>. DEFINE new == [states[mine[a]] EXCEPT !.per[curTier[a]] = per]
<1>1. new \in NodeStates
  BY HeldTypes DEF NodeStates
<1>2. states' = [states EXCEPT ![mine[a]] = new]
  BY DEF SetPer
<1>3. new.tier = states[mine[a]].tier /\ new.tiers = states[mine[a]].tiers
  BY HeldTypes DEF NodeStates
<1>. QED BY <1>1, <1>2, <1>3

\* A handler that has read the node, or could not.
LEMMA ReadTypes ==
    ASSUME PressureInv, NEW a \in Actors, ReadNode(a) \/ ReadFails(a),
           UNCHANGED <<nodeVars, events>>
    PROVE  PressureInv'
<1>1. CASE ReadNode(a)
  <2>1. PICK there \in {"state", "finish"} :
           /\ pc' = [pc EXCEPT ![a] = there]
           /\ there = "state" => present # {}
    BY <1>1 DEF ReadNode, Goto
  <2>2. [pods |-> present, milli |-> milli, specs |-> milli, over |-> over] \in Snaps
    BY PressureAssumption DEF PressureInv, Snaps
  <2>3. /\ snap' = [snap EXCEPT ![a] =
               [pods |-> present, milli |-> milli, specs |-> milli, over |-> over]]
        /\ snap' \in [Actors -> Snaps] /\ pc' \in [Actors -> Steps]
    BY <1>1, <2>1, <2>2 DEF ReadNode, PressureInv, Steps
  <2>4. \A b \in Actors :
           /\ pc'[b] = "state" => snap'[b].pods # {}
           /\ pc'[b] \in Later =>
                 mine[b] \in Ids /\ states[mine[b]].tier \in Criticalities
    BY <2>1, <2>3 DEF PressureInv, Later
  <2>. QED
    BY <1>1, <2>3, <2>4 DEF ReadNode, PressureInv, podVars, nodeVars
<1>2. CASE ReadFails(a)
  <2>1. pc' = [pc EXCEPT ![a] = "finish"]
    BY <1>2 DEF ReadFails, Goto
  <2>2. pc' \in [Actors -> Steps]
    BY <2>1 DEF PressureInv, Steps
  <2>3. \A b \in Actors :
           /\ pc'[b] = "state" => snap[b].pods # {}
           /\ pc'[b] \in Later =>
                 mine[b] \in Ids /\ states[mine[b]].tier \in Criticalities
    BY <2>1 DEF PressureInv, Later
  <2>. QED
    BY <1>2, <2>2, <2>3 DEF ReadFails, PressureInv, podVars, nodeVars
<1>. QED BY <1>1, <1>2

\* The state of the node, looked up or made, with its tiers.
LEMMA UseStateTypes ==
    ASSUME PressureInv, NEW a \in Actors, UseState(a), UNCHANGED <<nodeVars, events>>
    PROVE  PressureInv'
<1>. DEFINE unused == Ids \ ({current} \cup {mine[b] : b \in Actors})
            id == IF current # NoId THEN current ELSE CHOOSE i \in unused : TRUE
            old == IF current # NoId THEN states[current] ELSE FreshState
            tiers == {Tier[p] : p \in snap[a].pods}
            new == Reindexed(old, tiers)
<1>1. /\ pc[a] = "state" /\ pc' = [pc EXCEPT ![a] = "tier"]
      /\ current' = id /\ mine' = [mine EXCEPT ![a] = id]
      /\ states' = [states EXCEPT ![id] = new]
      /\ UNCHANGED <<podVars, processing, snap, curTier>>
  BY DEF UseState, Goto
<1>2. id \in Ids
  <2>1. CASE current = NoId
    <3>1. unused # {}
      BY <2>1, UnusedId
    <3>. QED BY <2>1, <3>1
  <2>2. CASE current # NoId
    BY <2>2 DEF PressureInv
  <2>. QED BY <2>1, <2>2
<1>3. old \in NodeStates
  BY FreshTypes DEF PressureInv
<1>4. tiers \in SUBSET Criticalities /\ tiers # {}
  <2>1. snap[a].pods \in SUBSET Pods /\ snap[a].pods # {}
    BY <1>1 DEF PressureInv, Snaps
  <2>2. Tier \in [Pods -> Criticalities]
    BY PressureAssumption
  <2>. QED BY <2>1, <2>2
<1>5. new \in NodeStates /\ new.tier \in new.tiers /\ new.tier \in Criticalities
  BY <1>3, <1>4, ReindexedTypes
<1>. HIDE DEF unused, id, old, tiers, new
<1>6. /\ states' \in [Ids -> NodeStates]
      /\ \A i \in Ids : states'[i].tier \in states'[i].tiers \cup {""}
      /\ \A i \in Ids : states[i].tier \in Criticalities
                          => states'[i].tier \in Criticalities
      /\ states'[id].tier \in Criticalities
  BY <1>1, <1>2, <1>5 DEF PressureInv
<1>7. \A b \in Actors :
         /\ pc'[b] = "state" => snap[b].pods # {}
         /\ pc'[b] \in Later =>
               mine'[b] \in Ids /\ states'[mine'[b]].tier \in Criticalities
  <2>1. \A b \in Actors : b # a => pc'[b] = pc[b] /\ mine'[b] = mine[b]
    BY <1>1 DEF PressureInv
  <2>2. pc'[a] = "tier" /\ mine'[a] = id
    BY <1>1 DEF PressureInv
  <2>. QED BY <1>2, <1>6, <2>1, <2>2 DEF PressureInv
<1>8. pc' \in [Actors -> Steps] /\ mine' \in [Actors -> Ids \cup {NoId}]
  BY <1>1, <1>2 DEF PressureInv, Steps
<1>. QED
  BY <1>1, <1>2, <1>6, <1>7, <1>8 DEF PressureInv, podVars, nodeVars

LEMMA EnterFinishTypes ==
    ASSUME PressureInv, NEW a \in Actors, EnterTier(a) \/ Finish(a),
           UNCHANGED <<nodeVars, events>>
    PROVE  PressureInv'
<1>1. CASE EnterTier(a)
  <2>1. /\ pc[a] = "tier" /\ pc' = [pc EXCEPT ![a] = "targets"]
        /\ curTier' = [curTier EXCEPT ![a] = states[mine[a]].tier]
    BY <1>1 DEF EnterTier, Goto
  <2>2. pc' \in [Actors -> Steps] /\ curTier' \in [Actors -> Criticalities]
    BY <2>1 DEF PressureInv, Steps, Later
  <2>3. \A b \in Actors :
           /\ pc'[b] = "state" => snap[b].pods # {}
           /\ pc'[b] \in Later =>
                 mine[b] \in Ids /\ states[mine[b]].tier \in Criticalities
    BY <2>1 DEF PressureInv, Later
  <2>. QED
    BY <1>1, <2>2, <2>3 DEF EnterTier, PressureInv, podVars, nodeVars
<1>2. CASE Finish(a)
  <2>1. /\ pc' = [pc EXCEPT ![a] = "idle"]
        /\ snap' = [snap EXCEPT ![a] = NoSnap]
        /\ mine' = [mine EXCEPT ![a] = NoId]
        /\ curTier' = [curTier EXCEPT ![a] = "Low"]
        /\ processing' \in BOOLEAN
    BY <1>2 DEF Finish, Goto, Forget
  <2>2. /\ pc' \in [Actors -> Steps] /\ curTier' \in [Actors -> Criticalities]
        /\ snap' \in [Actors -> Snaps] /\ mine' \in [Actors -> Ids \cup {NoId}]
    BY <2>1, FreshTypes DEF PressureInv, Steps, Criticalities
  <2>3. \A b \in Actors :
           /\ pc'[b] = "state" => snap'[b].pods # {}
           /\ pc'[b] \in Later =>
                 mine'[b] \in Ids /\ states[mine'[b]].tier \in Criticalities
    <3>1. \A b \in Actors :
             b # a => pc'[b] = pc[b] /\ snap'[b] = snap[b] /\ mine'[b] = mine[b]
      BY <2>1 DEF PressureInv
    <3>2. pc'[a] = "idle"
      BY <2>1 DEF PressureInv
    <3>. QED BY <3>1, <3>2 DEF PressureInv, Later
  <2>. QED
    BY <1>2, <2>1, <2>2, <2>3 DEF Finish, PressureInv, podVars, nodeVars
<1>. QED BY <1>1, <1>2

LEMMA SequenceTypes ==
    ASSUME NEW S, NEW s \in Seq(S)
    PROVE  /\ s # <<>> => Tail(s) \in Seq(S)
           /\ \A x, y \in S : s \o <<x, y>> \in Seq(S)
  OBVIOUS

LEMMA TierTypes ==
    ASSUME NEW per \in TierStates
    PROVE  /\ (IF per.missing < 2 THEN per.missing + 1 ELSE 2) \in 0 .. 2
           /\ \A m \in 0 .. 2 : [per EXCEPT !.missing = m] \in TierStates
           /\ \A d \in BOOLEAN :
                 [[per EXCEPT !.missing = 0] EXCEPT !.degraded = d] \in TierStates
           /\ \A o \in Nat :
                 [per EXCEPT !.degraded = TRUE, !.last = o] \in TierStates
           /\ [per EXCEPT !.evictTried = TRUE] \in TierStates
<1>1. per.missing \in 0 .. 2
  BY DEF TierStates
<1>2. (IF per.missing < 2 THEN per.missing + 1 ELSE 2) \in 0 .. 2
  BY <1>1
<1>3. 0 \in 0 .. 2
  OBVIOUS
<1>. DEFINE M == 0 .. 2
<1>4. per \in [degraded : BOOLEAN, evictTried : BOOLEAN, missing : M, last : Nat]
  BY DEF TierStates
<1>5. 0 \in M
  BY <1>3
<1>. HIDE DEF M
<1>6. /\ \A m \in M : [per EXCEPT !.missing = m] \in
             [degraded : BOOLEAN, evictTried : BOOLEAN, missing : M, last : Nat]
      /\ \A d \in BOOLEAN : [[per EXCEPT !.missing = 0] EXCEPT !.degraded = d] \in
             [degraded : BOOLEAN, evictTried : BOOLEAN, missing : M, last : Nat]
      /\ \A o \in Nat : [per EXCEPT !.degraded = TRUE, !.last = o] \in
             [degraded : BOOLEAN, evictTried : BOOLEAN, missing : M, last : Nat]
      /\ [per EXCEPT !.evictTried = TRUE] \in
             [degraded : BOOLEAN, evictTried : BOOLEAN, missing : M, last : Nat]
  BY <1>4, <1>5
<1>. QED BY <1>2, <1>6 DEF TierStates, M

\* The steps on a tier.
LEMMA WorkTypes ==
    ASSUME PressureInv, NEW a \in Actors, UNCHANGED <<nodeVars, events>>,
           \/ NoTargets(a) \/ FindTop(a) \/ Degrade(a)
           \/ CheckEvict(a) \/ Evict(a) \/ Escalate(a)
    PROVE  PressureInv'
<1>. DEFINE held == states[mine[a]]
<1>1. leaving \subseteq present /\ milli \in [Pods -> Seq(Nat)] /\ snap \in [Actors -> Snaps]
  BY DEF PressureInv
<1>2. CASE NoTargets(a)
  <2>. DEFINE missing == IF Per(a).missing < 2 THEN Per(a).missing + 1 ELSE 2
              counted == [held EXCEPT !.per[curTier[a]].missing = missing]
              moved == missing = 2 /\ HigherTiers(curTier[a], counted.tiers) # {}
              new == IF moved THEN Escalated(counted, curTier[a]) ELSE counted
              there == IF moved THEN "tier" ELSE "finish"
  <2>1. /\ pc[a] = "targets" /\ pc' = [pc EXCEPT ![a] = there]
        /\ states' = [states EXCEPT ![mine[a]] = new]
        /\ UNCHANGED <<podVars, processing, current, snap, mine, curTier>>
    BY <1>2 DEF NoTargets, Goto
  <2>2. pc[a] \in Later /\ there \in Steps \ {"state"}
    BY <2>1 DEF Later, Steps
  <2>3. missing \in 0 .. 2 /\ [Per(a) EXCEPT !.missing = missing] \in TierStates
    BY <2>2, HeldTypes, TierTypes
  <2>4. counted \in NodeStates /\ counted.tier = held.tier /\ counted.tiers = held.tiers
    <3>. DEFINE per == [Per(a) EXCEPT !.missing = missing]
    <3>1. counted = [held EXCEPT !.per[curTier[a]] = per]
      BY DEF Per
    <3>2. per \in TierStates
      BY <2>3
    <3>. HIDE DEF missing, per, counted
    <3>. QED BY <2>2, <3>1, <3>2, HeldTypes DEF NodeStates
  <2>. HIDE DEF counted, moved, missing
  <2>5. new \in NodeStates /\ new.tier \in Criticalities /\ new.tier \in new.tiers \cup {""}
    <3>1. counted.tier \in Criticalities /\ counted.tier \in counted.tiers \cup {""}
      BY <2>2, <2>4, HeldTypes
    <3>2. Escalated(counted, curTier[a]) \in NodeStates
      BY <2>2, <2>4, HeldTypes, EscalatedTypes
    <3>3. counted.tiers \subseteq Criticalities
      BY <2>4 DEF NodeStates
    <3>4. LET e == Escalated(counted, curTier[a])
          IN  e.tier \in Criticalities /\ e.tier \in e.tiers \cup {""}
      BY <2>2, <2>4, <3>1, <3>3, HeldTypes, EscalatedTypes
    <3>. QED BY <2>4, <3>1, <3>2, <3>4
  <2>. HIDE DEF new, there
  <2>. QED
    BY <1>1, <2>1, <2>2, <2>5, TierStep DEF podVars
<1>3. CASE FindTop(a)
  <2>1. PICK degraded \in BOOLEAN, there \in {"degrade", "evict"} :
           /\ SetPer(a, [[Per(a) EXCEPT !.missing = 0] EXCEPT !.degraded = degraded])
           /\ pc[a] = "targets" /\ pc' = [pc EXCEPT ![a] = there]
           /\ UNCHANGED <<podVars, processing, current, snap, mine, curTier>>
    BY <1>3 DEF FindTop, Goto
  <2>2. pc[a] \in Later /\ there \in Steps \ {"state"}
    BY <2>1 DEF Later, Steps
  <2>3. [[Per(a) EXCEPT !.missing = 0] EXCEPT !.degraded = degraded] \in TierStates
    BY <2>2, HeldTypes, TierTypes
  <2>4. PICK new \in NodeStates :
           /\ states' = [states EXCEPT ![mine[a]] = new]
           /\ new.tier = held.tier /\ new.tiers = held.tiers
    BY <2>1, <2>2, <2>3, SetPerTypes
  <2>. QED
    BY <1>1, <2>1, <2>2, <2>4, HeldTypes, TierStep DEF podVars
<1>4. CASE Degrade(a)
  <2>1. /\ pc[a] = "degrade" /\ pc' = [pc EXCEPT ![a] = "evict"]
        /\ UNCHANGED <<present, leaving, processing, current, mine, curTier>>
    BY <1>4 DEF Degrade, Goto
  <2>2. pc[a] \in Later /\ "evict" \in Steps \ {"state"}
    BY <2>1 DEF Later, Steps
  <2>3. PICK p \in PickHighest(Targets(a), snap[a].milli) :
           \/ /\ milli' = [milli EXCEPT ![p] = Degraded(snap[a].specs[p])]
              /\ snap' = [snap EXCEPT ![a].specs[p] = Degraded(snap[a].specs[p])]
              /\ SetPer(a, [Per(a) EXCEPT !.degraded = TRUE, !.last = snap[a].over])
           \/ /\ milli' = [milli EXCEPT ![p] = Degraded(snap[a].specs[p])]
              /\ UNCHANGED <<states, snap>>
           \/ UNCHANGED <<milli, states, snap>>
    BY <1>4 DEF Degrade
  <2>4. p \in Pods /\ snap[a].specs[p] \in Seq(Nat) /\ snap[a].over \in Nat
    BY <2>2, HeldTypes DEF PickHighest, Targets, FilterPodsByCriticality, Snaps
  <2>5. milli' \in [Pods -> Seq(Nat)]
    BY <1>1, <2>3, <2>4, DegradedTypes
  <2>6. snap' \in [Actors -> Snaps] /\ \A b \in Actors : snap'[b].pods = snap[b].pods
    <3>1. CASE UNCHANGED snap
      BY <1>1, <3>1
    <3>2. CASE snap' = [snap EXCEPT ![a].specs[p] = Degraded(snap[a].specs[p])]
      <4>1. [snap[a] EXCEPT !.specs[p] = Degraded(snap[a].specs[p])] \in Snaps
        BY <1>1, <2>4, DegradedTypes DEF Snaps
      <4>2. snap' = [snap EXCEPT ![a] =
                        [snap[a] EXCEPT !.specs[p] = Degraded(snap[a].specs[p])]]
        BY <3>2
      <4>3. [snap[a] EXCEPT !.specs[p] = Degraded(snap[a].specs[p])].pods = snap[a].pods
        BY <1>1 DEF Snaps
      <4>. QED BY <1>1, <4>1, <4>2, <4>3
    <3>. QED BY <2>3, <3>1, <3>2
  <2>7. PICK new \in NodeStates :
           /\ states' = [states EXCEPT ![mine[a]] = new]
           /\ new.tier = held.tier /\ new.tiers = held.tiers
    <3>1. CASE UNCHANGED states
      BY <2>2, <3>1, HeldTypes
    <3>2. CASE SetPer(a, [Per(a) EXCEPT !.degraded = TRUE, !.last = snap[a].over])
      <4>1. [Per(a) EXCEPT !.degraded = TRUE, !.last = snap[a].over] \in TierStates
        BY <2>2, <2>4, HeldTypes, TierTypes
      <4>. QED BY <2>2, <3>2, <4>1, SetPerTypes
    <3>. QED BY <2>3, <3>1, <3>2
  <2>. QED
    BY <1>1, <2>1, <2>2, <2>5, <2>6, <2>7, HeldTypes, TierStep
<1>5. CASE CheckEvict(a)
  <2>1. PICK there \in {"evicting", "escalate"} :
           /\ pc[a] = "evict" /\ pc' = [pc EXCEPT ![a] = there]
           /\ UNCHANGED <<podVars, processing, current, states, snap, mine, curTier>>
    BY <1>5 DEF CheckEvict, Goto
  <2>2. pc[a] \in Later /\ there \in Steps \ {"state"}
    BY <2>1 DEF Later, Steps
  <2>. QED
    BY <1>1, <2>1, <2>2, HeldTypes, TierStep DEF podVars
<1>6. CASE Evict(a)
  <2>1. /\ pc[a] = "evicting" /\ pc' = [pc EXCEPT ![a] = "escalate"]
        /\ SetPer(a, [Per(a) EXCEPT !.evictTried = TRUE])
        /\ leaving' \subseteq present
        /\ UNCHANGED <<present, milli, processing, current, snap, mine, curTier>>
    BY <1>1, <1>6 DEF Evict, Goto
  <2>2. pc[a] \in Later /\ "escalate" \in Steps \ {"state"}
    BY <2>1 DEF Later, Steps
  <2>3. [Per(a) EXCEPT !.evictTried = TRUE] \in TierStates
    BY <2>2, HeldTypes, TierTypes
  <2>4. PICK new \in NodeStates :
           /\ states' = [states EXCEPT ![mine[a]] = new]
           /\ new.tier = held.tier /\ new.tiers = held.tiers
    BY <2>1, <2>2, <2>3, SetPerTypes
  <2>. QED
    BY <1>1, <2>1, <2>2, <2>4, HeldTypes, TierStep
<1>7. CASE Escalate(a)
  <2>1. /\ pc[a] = "escalate" /\ pc' = [pc EXCEPT ![a] = "finish"]
        /\ UNCHANGED <<podVars, processing, current, snap, mine, curTier>>
    BY <1>7 DEF Escalate, Goto
  <2>2. pc[a] \in Later /\ "finish" \in Steps \ {"state"}
    BY <2>1 DEF Later, Steps
  <2>3. PICK new \in {held, Escalated(held, curTier[a])} :
           states' = [states EXCEPT ![mine[a]] = new]
    BY <1>7 DEF Escalate
  <2>4. held.tiers \subseteq Criticalities
    BY <2>2, HeldTypes DEF NodeStates
  <2>5. new \in NodeStates /\ new.tier \in Criticalities /\ new.tier \in new.tiers \cup {""}
    <3>. DEFINE up == Escalated(held, curTier[a])
    <3>1. held \in NodeStates /\ held.tier \in Criticalities
          /\ held.tier \in held.tiers \cup {""} /\ curTier[a] \in Criticalities
      BY <2>2, HeldTypes
    <3>2. up \in NodeStates /\ up.tier \in Criticalities /\ up.tier \in up.tiers \cup {""}
      BY <2>4, <3>1, EscalatedTypes
    <3>. QED BY <2>3, <3>1, <3>2
  <2>. QED
    BY <1>1, <2>1, <2>2, <2>3, <2>5, TierStep DEF podVars
<1>. QED BY <1>2, <1>3, <1>4, <1>5, <1>6, <1>7

\* What starts a handler, and the surroundings.
LEMMA OutsideTypes ==
    ASSUME PressureInv,
           \/ \E g \in Goroutines : Start(g)
           \/ Skip \/ CheckBusy \/ CheckRecovered
           \/ \E o \in OverSecs, b \in BOOLEAN : UpdateNode(o, b)
           \/ \E p \in Pods : AddPod(p) \/ RemovePod(p)
    PROVE  PressureInv'
<1>1. ASSUME NEW a \in Actors, NEW there \in {"read", "finish"},
             pc' = [pc EXCEPT ![a] = there], UNCHANGED <<snap, mine, states>>
      PROVE  /\ pc' \in [Actors -> Steps]
             /\ \A b \in Actors :
                   /\ pc'[b] = "state" => snap'[b].pods # {}
                   /\ pc'[b] \in Later =>
                         mine'[b] \in Ids /\ states'[mine'[b]].tier \in Criticalities
  BY <1>1 DEF PressureInv, Steps, Later
<1>2. Surroundings => events' \in 0 .. MaxEvents
  <2>1. events \in 0 .. MaxEvents /\ MaxEvents \in Nat
    BY PressureAssumption DEF PressureInv
  <2>. QED BY <2>1 DEF Surroundings
<1>3. ASSUME NEW g \in Goroutines, Start(g)
      PROVE  PressureInv'
  <2>1. PICK there \in {"read", "finish"} : pc' = [pc EXCEPT ![g] = there]
    BY <1>3 DEF Start, Goto
  <2>2. calls' \in Seq(BOOLEAN) /\ processing' = TRUE
    BY <1>3, SequenceTypes DEF Start, PressureInv
  <2>3. UNCHANGED <<podVars, over, busy, lastBusy, current, states, snap, mine,
                    curTier, events>>
    BY <1>3 DEF Start
  <2>4. g \in Actors
    BY DEF Actors
  <2>5. /\ pc' \in [Actors -> Steps]
        /\ \A b \in Actors :
              /\ pc'[b] = "state" => snap'[b].pods # {}
              /\ pc'[b] \in Later =>
                    mine'[b] \in Ids /\ states'[mine'[b]].tier \in Criticalities
    BY <1>1, <2>1, <2>3, <2>4
  <2>. QED
    BY <2>2, <2>3, <2>5 DEF PressureInv, podVars
<1>4. CASE Skip
  <2>1. calls' \in Seq(BOOLEAN)
    BY <1>4, SequenceTypes DEF Skip, PressureInv
  <2>. QED
    BY <1>4, <2>1 DEF Skip, PressureInv, podVars, actorVars
<1>5. CASE CheckBusy
  <2>1. /\ pc' = [pc EXCEPT !["worker"] = "read"] /\ lastBusy' = busy
        /\ UNCHANGED <<podVars, over, busy, calls, processing, current, states,
                       snap, mine, curTier, events>>
    BY <1>5 DEF CheckBusy, Goto
  <2>2. "worker" \in Actors
    BY DEF Actors
  <2>3. /\ pc' \in [Actors -> Steps]
        /\ \A b \in Actors :
              /\ pc'[b] = "state" => snap'[b].pods # {}
              /\ pc'[b] \in Later =>
                    mine'[b] \in Ids /\ states'[mine'[b]].tier \in Criticalities
    BY <1>1, <2>1, <2>2
  <2>. QED
    BY <2>1, <2>3 DEF PressureInv, podVars
<1>6. CASE CheckRecovered
  BY <1>6 DEF CheckRecovered, PressureInv, podVars, actorVars
<1>7. ASSUME NEW o \in OverSecs, NEW b \in BOOLEAN, UpdateNode(o, b)
      PROVE  PressureInv'
  <2>1. /\ events' \in 0 .. MaxEvents /\ over' \in OverSecs /\ busy' \in BOOLEAN
        /\ UNCHANGED <<processing, lastBusy, current, states, actorVars, podVars>>
    BY <1>7, <1>2 DEF UpdateNode, Surroundings, PressureInv
  <2>2. calls' \in Seq(BOOLEAN)
    <3>1. calls \in Seq(BOOLEAN) /\ busy \in BOOLEAN /\ calls' = calls \o <<busy, b>>
      BY <1>7 DEF UpdateNode, PressureInv
    <3>. QED BY <3>1, SequenceTypes
  <2>. QED
    BY <2>1, <2>2 DEF PressureInv, podVars, actorVars
<1>8. ASSUME NEW p \in Pods, AddPod(p) PROVE PressureInv'
  <2>1. events' \in 0 .. MaxEvents /\ present' \subseteq Pods /\ leaving' \subseteq present'
    BY <1>8, <1>2 DEF AddPod, PressureInv
  <2>2. milli' \in [Pods -> Seq(Nat)]
    <3>1. StartMilli \in [Pods -> Seq(Nat)]
      BY PressureAssumption
    <3>. QED BY <1>8, <3>1 DEF AddPod, PressureInv
  <2>3. UNCHANGED <<processing, nodeVars, current, states, actorVars>>
    BY <1>8 DEF AddPod, Surroundings, nodeVars
  <2>. QED
    BY <2>1, <2>2, <2>3 DEF PressureInv, nodeVars, actorVars
<1>9. ASSUME NEW p \in Pods, RemovePod(p) PROVE PressureInv'
  <2>1. /\ present' \subseteq Pods /\ leaving' \subseteq present'
        /\ UNCHANGED <<milli, nodeVars, processing, current, states, actorVars,
                       events>>
    BY <1>9 DEF RemovePod, PressureInv
  <2>. QED
    BY <2>1 DEF PressureInv, nodeVars, actorVars
<1>. QED BY <1>3, <1>4, <1>5, <1>6, <1>7, <1>8, <1>9

LEMMA PressureStep == PressureInv /\ [Next]_vars => PressureInv'
<1>1. SUFFICES ASSUME PressureInv, [Next]_vars PROVE PressureInv'
  OBVIOUS
<1>2. CASE UNCHANGED vars
  BY <1>1, <1>2 DEF PressureInv, vars, podVars, nodeVars, actorVars
<1>3. ASSUME NEW a \in Actors, Handle(a) PROVE PressureInv'
  BY <1>1, <1>3, ReadTypes, UseStateTypes, EnterFinishTypes, WorkTypes DEF Handle
<1>. QED
  BY <1>1, <1>2, <1>3, OutsideTypes DEF Next

\* Whatever the surroundings do, and however handlers interleave on the state
\* they share without a lock, the state of a node names one of the node's tiers or
\* none, and evictions under way are of pods on the node (HandleNodeCPUPressure,
\* event_handler.go:82-178).
THEOREM PressureTyping == Spec => []TypeOK
<1>1. Init => PressureInv
  BY PressureInit
<1>2. PressureInv /\ [Next]_vars => PressureInv'
  BY PressureStep
<1>. QED
  BY <1>1, <1>2, PressureTypes, PTL DEF Spec

-----------------------------------------------------------------------------
(***************************************************************************)
(* One handler at a time                                                   *)
(***************************************************************************)

\* While isCpuBusy is what the worker last saw, the worker has no reason to
\* handle the node, and the mark is there as long as some goroutine is not idle.
HandlersInv ==
    /\ lastBusy = busy
    /\ processing \in BOOLEAN /\ pc \in [Actors -> Steps]
    /\ pc["worker"] = "idle"
    /\ \A g \in Goroutines : pc[g] # "idle" => processing
    /\ \A g, h \in Goroutines : pc[g] # "idle" /\ pc[h] # "idle" => g = h

LEMMA HandlersInit ==
    ASSUME "busyChange" \notin Allowed, Init
    PROVE  HandlersInv
  BY PressureAssumption DEF Init, HandlersInv, Actors, Steps

LEMMA HandleStep ==
    ASSUME HandlersInv, NEW a \in Actors, Handle(a)
    PROVE  HandlersInv'
<1>1. pc[a] # "idle" /\ a \in Goroutines /\ UNCHANGED <<busy, lastBusy>>
  BY DEF Handle, ReadNode, ReadFails, UseState, EnterTier, NoTargets, FindTop,
         Degrade, CheckEvict, Evict, Escalate, Finish, Goto, HandlersInv,
         nodeVars, Actors
<1>2. CASE Finish(a)
  BY <1>1, <1>2, PressureAssumption DEF Finish, Goto, HandlersInv, Actors
<1>3. CASE ~Finish(a)
  <2>1. processing' = processing
    BY <1>3 DEF Handle, ReadNode, ReadFails, UseState, EnterTier, NoTargets, FindTop,
         Degrade, CheckEvict, Evict, Escalate
  <2>2. \E there \in Steps : pc' = [pc EXCEPT ![a] = there]
    <3>1. CASE ReadNode(a) \/ ReadFails(a) \/ UseState(a) \/ EnterTier(a)
      BY <3>1 DEF ReadNode, ReadFails, UseState, EnterTier, Goto, Steps
    <3>2. CASE NoTargets(a)
      BY <3>2 DEF NoTargets, Goto, Steps
    <3>3. CASE FindTop(a)
      BY <3>3 DEF FindTop, Goto, Steps
    <3>4. CASE Degrade(a) \/ CheckEvict(a) \/ Evict(a) \/ Escalate(a)
      BY <3>4 DEF Degrade, CheckEvict, Evict, Escalate, Goto, Steps
    <3>. QED BY <1>3, <3>1, <3>2, <3>3, <3>4 DEF Handle
  <2>. QED
    BY <1>1, <2>1, <2>2, PressureAssumption DEF HandlersInv, Actors
<1>. QED BY <1>2, <1>3

LEMMA StartStep ==
    ASSUME HandlersInv, NEW g \in Goroutines, Start(g)
    PROVE  HandlersInv'
<1>1. /\ pc[g] = "idle" /\ ~processing /\ processing' = TRUE
      /\ UNCHANGED <<busy, lastBusy>>
  BY DEF Start, Goto
<1>2. PICK there \in Steps : pc' = [pc EXCEPT ![g] = there]
  BY DEF Start, Goto, Steps
<1>. QED
  BY <1>1, <1>2, PressureAssumption DEF HandlersInv, Actors

LEMMA HandlersStep ==
    ASSUME "busyChange" \notin Allowed, HandlersInv, [Next]_vars
    PROVE  HandlersInv'
<1>1. ASSUME UNCHANGED <<busy, lastBusy, pc, processing>>
      PROVE  HandlersInv'
  BY <1>1 DEF HandlersInv
<1>2. CASE UNCHANGED vars
  BY <1>1, <1>2 DEF vars, nodeVars, actorVars
<1>3. CASE Skip
  BY <1>1, <1>3 DEF Skip, actorVars
<1>4. CASE CheckBusy \/ CheckRecovered
  BY <1>4 DEF CheckBusy, CheckRecovered, HandlersInv
<1>5. ASSUME NEW o \in OverSecs, NEW b \in BOOLEAN, UpdateNode(o, b)
      PROVE  HandlersInv'
  BY <1>1, <1>5 DEF UpdateNode, Surroundings, actorVars
<1>6. ASSUME NEW p \in Pods, AddPod(p) \/ RemovePod(p)
      PROVE  HandlersInv'
  BY <1>1, <1>6 DEF AddPod, RemovePod, Surroundings, actorVars, nodeVars
<1>. QED
  BY <1>2, <1>3, <1>4, <1>5, <1>6, HandleStep, StartStep DEF Next

LEMMA AloneAtWork == HandlersInv => OneHandlerPerNode
<1>1. SUFFICES ASSUME HandlersInv PROVE Cardinality(AtWork) <= 1
  BY DEF OneHandlerPerNode
<1>2. AtWork \subseteq Goroutines /\ \A g, h \in AtWork : g = h
  BY <1>1 DEF AtWork, HandlersInv, Actors
<1>3. CASE AtWork = {}
  BY <1>3, FS_EmptySet
<1>4. ASSUME NEW g \in AtWork PROVE Cardinality(AtWork) = 1
  <2>1. AtWork = {g}
    BY <1>2, <1>4
  <2>. QED BY <2>1, FS_Singleton
<1>. QED BY <1>3, <1>4

\* However many goroutines node updates could start, one handler at a time works
\* on a node, as long as the worker sees isCpuBusy as it is (FindObjectsForNode:
\* check and set of the mark in one critical section, event_handler.go:331-352).
THEOREM OneHandlerAtATime ==
    "busyChange" \notin Allowed => (Spec => []OneHandlerPerNode)
<1>1. SUFFICES ASSUME "busyChange" \notin Allowed
               PROVE  Spec => []OneHandlerPerNode
  OBVIOUS
<1>2. Init => HandlersInv
  BY <1>1, HandlersInit
<1>3. HandlersInv /\ [Next]_vars => HandlersInv'
  BY <1>1, HandlersStep
<1>. QED
  BY <1>2, <1>3, AloneAtWork, PTL DEF Spec

-----------------------------------------------------------------------------
(***************************************************************************)
(* The mark has an owner                                                   *)
(***************************************************************************)

\* A handler leaves the mark alone until its end, and is not idle before.
LEMMA HandlerKeepsMark ==
    ASSUME NEW a \in Actors, Handle(a)
    PROVE  \/ Finish(a)
           \/ processing' = processing
              /\ \E there \in Steps \ {"idle"} : pc' = [pc EXCEPT ![a] = there]
<1>1. SUFFICES ASSUME ~Finish(a)
               PROVE  /\ processing' = processing
                      /\ \E there \in Steps \ {"idle"} : pc' = [pc EXCEPT ![a] = there]
  OBVIOUS
<1>2. CASE ReadNode(a) \/ ReadFails(a) \/ UseState(a) \/ EnterTier(a)
  BY <1>2 DEF ReadNode, ReadFails, UseState, EnterTier, Goto, Steps
<1>3. CASE NoTargets(a)
  BY <1>3 DEF NoTargets, Goto, Steps
<1>4. CASE FindTop(a)
  BY <1>4 DEF FindTop, Goto, Steps
<1>5. CASE Degrade(a) \/ CheckEvict(a) \/ Evict(a) \/ Escalate(a)
  BY <1>5 DEF Degrade, CheckEvict, Evict, Escalate, Goto, Steps
<1>. QED BY <1>1, <1>2, <1>3, <1>4, <1>5 DEF Handle

LEMMA OwnerStep ==
    ASSUME pc \in [Actors -> Steps], MarkHasOwner, [Next]_vars
    PROVE  MarkHasOwner'
<1>1. ASSUME UNCHANGED pc, processing' => processing PROVE MarkHasOwner'
  BY <1>1 DEF MarkHasOwner
<1>2. ASSUME NEW a \in Actors, Handle(a) PROVE MarkHasOwner'
  <2>1. CASE Finish(a)
    BY <2>1, PressureAssumption DEF Finish, Goto, MarkHasOwner, Actors
  <2>2. CASE \E there \in Steps \ {"idle"} : pc' = [pc EXCEPT ![a] = there]
    <3>1. CASE processing' = processing
      BY <2>2, <3>1 DEF MarkHasOwner, Actors
    <3>. QED BY <1>2, <2>1, <3>1, HandlerKeepsMark
  <2>. QED BY <1>2, <2>1, <2>2, HandlerKeepsMark
<1>3. ASSUME NEW g \in Goroutines, Start(g) PROVE MarkHasOwner'
  BY <1>3 DEF Start, Goto, MarkHasOwner, Actors
<1>4. CASE Skip \/ UNCHANGED vars
  BY <1>1, <1>4 DEF Skip, vars, actorVars
<1>5. CASE CheckBusy
  BY <1>5, PressureAssumption DEF CheckBusy, Goto, MarkHasOwner, Actors
<1>6. CASE CheckRecovered
  BY <1>1, <1>6 DEF CheckRecovered, actorVars
<1>7. ASSUME NEW o \in OverSecs, NEW b \in BOOLEAN, UpdateNode(o, b)
      PROVE  MarkHasOwner'
  BY <1>1, <1>7 DEF UpdateNode, Surroundings, actorVars
<1>8. ASSUME NEW p \in Pods, AddPod(p) \/ RemovePod(p)
      PROVE  MarkHasOwner'
  BY <1>1, <1>8 DEF AddPod, RemovePod, Surroundings, actorVars
<1>. QED
  BY <1>2, <1>3, <1>4, <1>5, <1>6, <1>7, <1>8 DEF Next

\* Whatever isCpuBusy, pods and API do: as long as a node is marked as being
\* handled, a goroutine is under way whose deferred function takes the mark
\* away (event_handler.go:331-352).
THEOREM MarkAlwaysHasOwner == Spec => []MarkHasOwner
<1>1. Init => PressureInv /\ MarkHasOwner
  BY PressureInit DEF Init, MarkHasOwner
<1>2. (PressureInv /\ MarkHasOwner) /\ [Next]_vars => (PressureInv /\ MarkHasOwner)'
  <2>1. PressureInv => pc \in [Actors -> Steps]
    BY DEF PressureInv
  <2>. QED BY <2>1, PressureStep, OwnerStep
<1>. QED BY <1>1, <1>2, PTL DEF Spec
=============================================================================
