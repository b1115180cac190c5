---------------------- MODULE NodePressureLadderProofs ----------------------
(* That the handling of a node's pressure climbs the ladder of              *)
(* PressureLadder, for any pods, any number of goroutines and any           *)
(* durations, as long as the worker sees isCpuBusy as it is and no pods     *)
(* come to the node.                                                        *)
EXTENDS NodePressureProofs, NodePressureSpells

Undisturbed ==
    /\ "busyChange" \notin Allowed /\ "podChange" \notin Allowed
    /\ \A p \in Pods : \A i \in DOMAIN StartMilli[p] :
          StartMilli[p][i] = 0 \/ StartMilli[p][i] >= MinMilli

Rung == IF current = NoId THEN "" ELSE states[current].tier
Tried == IF current = NoId THEN {}
         ELSE {t \in Criticalities : states[current].per[t].evictTried}

-----------------------------------------------------------------------------
(***************************************************************************)
(* What a handler relies on                                                *)
(***************************************************************************)

\* The amounts DegradePodRequests lowers are never between 0 and MinMilli.
Amounts ==
    \A p \in Pods : \A i \in DOMAIN milli[p] :
        milli[p][i] = 0 \/ milli[p][i] >= MinMilli

AtOnce == {"state", "tier", "targets", "degrade"}
OnTier == {"targets", "degrade", "evict", "evicting", "escalate"}

\* What a handler knows of the pods' requests is no less than what they are, and
\* what they are until it has sent a patch, whose answer may be lost; the state it works on is the one
\* in PressureState, indexed for the pods it read.
Held(a) ==
    /\ pc[a] \in Later \cup {"state"} =>
          /\ present \subseteq snap[a].pods /\ snap[a].pods # {}
          /\ \A p \in Pods :
                /\ DOMAIN milli[p] = DOMAIN snap[a].specs[p]
                /\ \A i \in DOMAIN milli[p] : milli[p][i] <= snap[a].specs[p][i]
    /\ pc[a] \in AtOnce => milli = snap[a].specs
    /\ pc[a] \in Later =>
          /\ mine[a] = current /\ current # NoId
          /\ states[current].tiers = {Tier[p] : p \in snap[a].pods}
          /\ states[current].tier \in states[current].tiers
    /\ pc[a] \in OnTier => curTier[a] = states[current].tier
    /\ pc[a] \in {"degrade", "evicting"} => ~Per(a).evictTried

ClimbInv ==
    /\ PressureInv /\ HandlersInv /\ Amounts
    /\ \A a \in Actors : Held(a)

Climbs ==
    /\ Amounts' /\ \A a \in Actors : Held(a)'
    /\ [Ladder!LadderNext]_(Ladder!ladderVars)

\* DegradePodRequests only goes down when requests are nothing or at least MinMilli.
LEMMA DegradedLowers ==
    ASSUME NEW requests \in Seq(Nat),
           \A i \in DOMAIN requests : requests[i] = 0 \/ requests[i] >= MinMilli
    PROVE  \A i \in DOMAIN requests :
              /\ Degraded(requests)[i] <= requests[i]
              /\ Degraded(requests)[i] = 0 \/ Degraded(requests)[i] >= MinMilli
<1>1. \A r \in Nat : (r * 8) \div 10 \in Nat /\ (r * 8) \div 10 <= r
  OBVIOUS
<1>2. \A i \in DOMAIN requests : requests[i] \in Nat
  OBVIOUS
<1>. QED BY <1>1, <1>2, PressureAssumption DEF Degraded

\* Whoever is at work is alone, so that only what it holds itself matters.
LEMMA AloneHeld ==
    ASSUME ClimbInv, NEW a \in Actors, pc[a] # "idle",
           NEW there, pc' = [pc EXCEPT ![a] = there], Held(a)'
    PROVE  \A b \in Actors : Held(b)'
<1>1. SUFFICES ASSUME NEW b \in Actors, b # a PROVE Held(b)'
  OBVIOUS
<1>2. pc[b] = "idle"
  BY <1>1 DEF ClimbInv, HandlersInv, Actors
<1>3. pc'[b] = "idle"
  BY <1>1, <1>2 DEF ClimbInv, PressureInv
<1>. QED BY <1>3 DEF Held, Later, AtOnce, OnTier

LEMMA Stays ==
    ASSUME UNCHANGED <<podVars, current, states>>
    PROVE  UNCHANGED Ladder!ladderVars
  BY DEF Ladder!ladderVars, podVars

LEMMA ClimbInit == Undisturbed /\ Init => ClimbInv /\ Ladder!LadderInit
<1>1. SUFFICES ASSUME Undisturbed, Init PROVE ClimbInv /\ Ladder!LadderInit
  OBVIOUS
<1>2. PressureInv /\ HandlersInv
  BY <1>1, PressureInit, HandlersInit DEF Undisturbed
<1>3. Amounts
  BY <1>1 DEF Init, Undisturbed, Amounts
<1>4. \A a \in Actors : Held(a)
  BY <1>1 DEF Init, Held, Later, AtOnce, OnTier
<1>5. Ladder!LadderInit
  BY <1>1, PressureAssumption DEF Init, Ladder!LadderInit
<1>. QED BY <1>2, <1>3, <1>4, <1>5 DEF ClimbInv

-----------------------------------------------------------------------------
(***************************************************************************)
(* The steps of a handler                                                  *)
(***************************************************************************)

\* Reading the node and letting go of it leave the ladder alone.
LEMMA ReadClimbs ==
    ASSUME ClimbInv, NEW a \in Actors, ReadNode(a) \/ ReadFails(a) \/ Finish(a)
    PROVE  Climbs
<1>1. UNCHANGED <<podVars, current, states>> /\ pc[a] # "idle"
  BY DEF ReadNode, ReadFails, Finish, Goto
<1>2. Amounts'
  BY <1>1 DEF ClimbInv, Amounts, podVars
<1>3. PICK there \in {"state", "finish", "idle"} : pc' = [pc EXCEPT ![a] = there]
  BY DEF ReadNode, ReadFails, Finish, Goto
<1>4. pc'[a] = there
  BY <1>3 DEF ClimbInv, PressureInv
<1>5. CASE there = "state"
  <2>1. ReadNode(a) /\ present # {}
    BY <1>4, <1>5 DEF ReadNode, ReadFails, Finish, Goto, ClimbInv, PressureInv
  <2>2. snap'[a] = [pods |-> present, milli |-> milli, specs |-> milli, over |-> over]
    BY <2>1 DEF ReadNode, ClimbInv, PressureInv
  <2>3. \A p \in Pods : \A i \in DOMAIN milli[p] : milli[p][i] <= milli[p][i]
    <3>1. milli \in [Pods -> Seq(Nat)]
      BY DEF ClimbInv, PressureInv
    <3>2. \A s \in Seq(Nat) : \A i \in DOMAIN s : s[i] <= s[i]
      OBVIOUS
    <3>. QED BY <3>1, <3>2
  <2>4. Held(a)'
    BY <1>1, <1>4, <1>5, <2>1, <2>2, <2>3 DEF Held, Later, AtOnce, OnTier, podVars
  <2>. QED BY <1>1, <1>2, <1>3, <2>4, AloneHeld, Stays DEF Climbs
<1>6. CASE there \in {"finish", "idle"}
  <2>1. Held(a)'
    BY <1>4, <1>6 DEF Held, Later, AtOnce, OnTier
  <2>. QED BY <1>1, <1>2, <1>3, <2>1, AloneHeld, Stays DEF Climbs
<1>. QED BY <1>5, <1>6

\* A state that is made, or indexed anew, stands on the lowest of the tiers when
\* the one it stood on has gone.
LEMMA UseStateClimbs ==
    ASSUME ClimbInv, NEW a \in Actors, UseState(a)
    PROVE  Climbs
<1>. DEFINE unused == Ids \ ({current} \cup {mine[b] : b \in Actors})
            id == IF current # NoId THEN current ELSE CHOOSE i \in unused : TRUE
            old == IF current # NoId THEN states[current] ELSE FreshState
            tiers == {Tier[p] : p \in snap[a].pods}
            new == Reindexed(old, tiers)
<1>1. /\ pc[a] = "state" /\ pc' = [pc EXCEPT ![a] = "tier"]
      /\ current' = id /\ mine' = [mine EXCEPT ![a] = id]
      /\ states' = [states EXCEPT ![id] = new]
      /\ UNCHANGED <<podVars, processing, snap, curTier>>
  BY DEF UseState, Goto
<1>2. id \in Ids /\ id # NoId
  <2>1. CASE current = NoId
    <3>1. unused # {}
      BY <2>1, UnusedId DEF ClimbInv
    <3>2. id \in unused
      BY <2>1, <3>1
    <3>. QED BY <3>2, <2>1
  <2>2. CASE current # NoId
    BY <2>2 DEF ClimbInv, PressureInv
  <2>. QED BY <2>1, <2>2
<1>3. old \in NodeStates
  BY FreshTypes DEF ClimbInv, PressureInv
<1>4. tiers \in SUBSET Criticalities /\ tiers # {} /\ \A p \in present : Tier[p] \in tiers
  <2>1. snap[a].pods \in SUBSET Pods /\ snap[a].pods # {} /\ present \subseteq snap[a].pods
    BY <1>1 DEF ClimbInv, PressureInv, Snaps, Held
  <2>2. Tier \in [Pods -> Criticalities]
    BY PressureAssumption
  <2>. QED BY <2>1, <2>2
<1>5. /\ new.tiers = tiers /\ new.tier \in tiers /\ new.per = old.per
      /\ new.tier = IF old.tier \in tiers THEN old.tier ELSE Lowest(tiers)
  <2>. HIDE DEF old, tiers
  <2>. QED BY <1>3, <1>4, ReindexedTypes
<1>6. old.tier = Rung
  BY DEF Rung, FreshState
<1>. HIDE DEF unused, id, old, tiers, new
<1>7. states'[current'] = new /\ current' # NoId /\ mine'[a] = current' /\ pc'[a] = "tier"
  BY <1>1, <1>2 DEF ClimbInv, PressureInv
<1>8. Amounts'
  BY <1>1 DEF ClimbInv, Amounts, podVars
<1>9. Held(a)'
  <2>1. Held(a) /\ milli' = milli /\ present' = present /\ snap' = snap
    BY <1>1 DEF ClimbInv, podVars
  <2>. QED
    BY <1>1, <1>5, <1>7, <2>1 DEF Held, Later, AtOnce, OnTier, tiers
<1>10. Rung' = new.tier
  BY <1>7 DEF Rung
<1>11. Tried' = Tried
  <2>1. Tried = {t \in Criticalities : old.per[t].evictTried}
    BY DEF Tried, old, FreshState, FreshTier
  <2>2. Tried' = {t \in Criticalities : new.per[t].evictTried}
    BY <1>7 DEF Tried
  <2>. QED BY <1>5, <2>1, <2>2
<1>12. UNCHANGED <<present, leaving, milli>>
  BY <1>1 DEF podVars
<1>13. [Ladder!LadderNext]_(Ladder!ladderVars)
  <2>1. CASE Rung \in tiers
    <3>1. Rung' = Rung
      BY <1>5, <1>6, <1>10, <2>1
    <3>. QED BY <1>11, <1>12, <3>1 DEF Ladder!ladderVars, Rung, Tried
  <2>2. CASE Rung \notin tiers
    <3>1. Rung' = Lowest(tiers)
      BY <1>5, <1>6, <1>10, <2>2
    <3>2. Rung' \in Criticalities /\ \A p \in present : Tier[p] # Rung
      BY <1>4, <1>5, <1>10, <2>2
    <3>3. \A p \in present : ~(CriticalityRank[Tier[p]] < CriticalityRank[Rung'])
      <4>1. \A t \in Criticalities : CriticalityRank[t] \in Nat
        BY DEF Criticalities, CriticalityRank
      <4>. QED BY <1>4, <3>1, <3>2, <4>1, LowestIsLowest
    <3>4. Ladder!StepOn
      BY <1>11, <1>12, <3>2, <3>3 DEF Ladder!StepOn, Ladder!IsLowest, Ladder!Below, Rung, Tried
    <3>. QED BY <3>4 DEF Ladder!LadderNext
  <2>. QED BY <2>1, <2>2
<1>. QED
  BY <1>1, <1>8, <1>9, <1>13, AloneHeld DEF Climbs

\* Taking up the current tier leaves the ladder alone.
LEMMA EnterClimbs ==
    ASSUME ClimbInv, NEW a \in Actors, EnterTier(a)
    PROVE  Climbs
<1>1. /\ pc[a] = "tier" /\ pc' = [pc EXCEPT ![a] = "targets"]
      /\ curTier' = [curTier EXCEPT ![a] = states[mine[a]].tier]
      /\ UNCHANGED <<podVars, current, states, snap, mine>>
  BY DEF EnterTier, Goto
<1>2. Amounts'
  BY <1>1 DEF ClimbInv, Amounts, podVars
<1>3. pc'[a] = "targets" /\ curTier'[a] = states[mine[a]].tier /\ Held(a)
  BY <1>1 DEF ClimbInv, PressureInv
<1>4. Held(a)'
  BY <1>1, <1>3 DEF Held, Later, AtOnce, OnTier, podVars
<1>. QED BY <1>1, <1>2, <1>4, AloneHeld, Stays DEF Climbs

\* A handler on a tier has read pods of that tier.
LEMMA HasTargets ==
    ASSUME ClimbInv, NEW a \in Actors, pc[a] \in OnTier
    PROVE  /\ Targets(a) # {} /\ Targets(a) \subseteq Pods
           /\ \A p \in Targets(a) : Tier[p] = Rung
           /\ Rung = curTier[a] /\ Rung \in Criticalities
           /\ \A p \in present : Tier[p] = Rung => p \in Targets(a)
<1>1. pc[a] \in Later
  BY DEF OnTier, Later
<1>2. /\ curTier[a] = states[current].tier /\ current # NoId
      /\ states[current].tier \in {Tier[p] : p \in snap[a].pods}
      /\ present \subseteq snap[a].pods
  BY <1>1 DEF ClimbInv, Held
<1>3. curTier[a] \in Criticalities /\ snap[a].pods \subseteq Pods
  BY DEF ClimbInv, PressureInv, Snaps
<1>4. Rung = curTier[a]
  BY <1>2 DEF Rung
<1>. QED
  BY <1>2, <1>3, <1>4 DEF Targets, FilterPodsByCriticality

\* A tier that is indexed has pods in what the handler read.
LEMMA NeverWithoutTargets ==
    ASSUME ClimbInv, NEW a \in Actors
    PROVE  ~NoTargets(a)
  BY HasTargets DEF NoTargets, OnTier

\* What SetPer does to the ladder when it may only set EvictTried of the tier.
LEMMA PerClimbs ==
    ASSUME ClimbInv, NEW a \in Actors, pc[a] \in OnTier,
           NEW per \in TierStates, SetPer(a, per), current' = current
    PROVE  /\ Rung' = Rung
           /\ states'[current].tier = states[current].tier
           /\ states'[current].tiers = states[current].tiers
           /\ states'[current].per[curTier[a]] = per
           /\ Tried' = IF per.evictTried THEN Tried \cup {Rung} ELSE Tried \ {Rung}
<1>1. pc[a] \in Later
  BY DEF OnTier, Later
<1>2. /\ mine[a] = current /\ current # NoId /\ current \in Ids
      /\ states[current] \in NodeStates /\ curTier[a] = Rung /\ Rung \in Criticalities
  BY <1>1, HasTargets, HeldTypes DEF ClimbInv, Held
<1>. DEFINE new == [states[current] EXCEPT !.per[curTier[a]] = per]
<1>3. states'[current] = new
  BY <1>2 DEF SetPer, ClimbInv, PressureInv
<1>4. /\ new.tier = states[current].tier /\ new.tiers = states[current].tiers
      /\ new.per = [states[current].per EXCEPT ![curTier[a]] = per]
  BY <1>2 DEF NodeStates
<1>5. DOMAIN states[current].per = Criticalities
  BY <1>2 DEF NodeStates
<1>6. \A t \in Criticalities :
         new.per[t] = IF t = Rung THEN per ELSE states[current].per[t]
  BY <1>2, <1>4, <1>5
<1>. HIDE DEF new
<1>7. Rung' = Rung
  BY <1>2, <1>3, <1>4 DEF Rung
<1>8. Tried' = IF per.evictTried THEN Tried \cup {Rung} ELSE Tried \ {Rung}
  <2>1. Tried' = {t \in Criticalities : new.per[t].evictTried}
    BY <1>2, <1>3 DEF Tried
  <2>2. Tried = {t \in Criticalities : states[current].per[t].evictTried}
    BY <1>2 DEF Tried
  <2>. QED BY <1>2, <1>6, <2>1, <2>2
<1>. QED BY <1>2, <1>3, <1>4, <1>6, <1>7, <1>8

\* The tier of the handler is the rung.
LEMMA TriedHere ==
    ASSUME ClimbInv, NEW a \in Actors, pc[a] \in OnTier
    PROVE  Per(a).evictTried <=> Rung \in Tried
<1>1. pc[a] \in Later
  BY DEF OnTier, Later
<1>2. mine[a] = current /\ current # NoId /\ curTier[a] = Rung /\ Rung \in Criticalities
  BY <1>1, HasTargets DEF ClimbInv, Held
<1>. QED BY <1>2 DEF Per, Tried

\* The choice of the pod to degrade, and of what to do, keeps to the ladder.
LEMMA FindTopClimbs ==
    ASSUME ClimbInv, NEW a \in Actors, FindTop(a)
    PROVE  Climbs
<1>1. PICK degraded \in BOOLEAN, there \in {"degrade", "evict"} :
         /\ SetPer(a, [[Per(a) EXCEPT !.missing = 0] EXCEPT !.degraded = degraded])
         /\ pc[a] = "targets" /\ pc' = [pc EXCEPT ![a] = there]
         /\ there = "degrade" => ShouldDegrade(a)
         /\ UNCHANGED <<podVars, processing, current, snap, mine, curTier>>
  BY DEF FindTop, Goto
<1>. DEFINE per == [[Per(a) EXCEPT !.missing = 0] EXCEPT !.degraded = degraded]
<1>2. pc[a] \in OnTier /\ pc[a] \in Later
  BY <1>1 DEF OnTier, Later
<1>3. Per(a) \in TierStates /\ per \in TierStates
  BY <1>2, HeldTypes, TierTypes DEF ClimbInv
<1>4. per.evictTried = Per(a).evictTried
  BY <1>3 DEF TierStates
<1>. HIDE DEF per
<1>5. /\ Rung' = Rung
      /\ states'[current].tier = states[current].tier
      /\ states'[current].tiers = states[current].tiers
      /\ states'[current].per[curTier[a]] = per
      /\ Tried' = IF per.evictTried THEN Tried \cup {Rung} ELSE Tried \ {Rung}
  BY <1>1, <1>2, <1>3, PerClimbs DEF per
<1>6. Held(a) /\ mine[a] = current /\ pc'[a] = there
  BY <1>1, <1>2 DEF ClimbInv, Held, PressureInv
<1>7. Tried' = Tried
  BY <1>2, <1>4, <1>5, TriedHere
<1>8. Held(a)'
  <2>1. there = "degrade" => ~Per(a)'.evictTried
    BY <1>1, <1>4, <1>5, <1>6 DEF Per, ShouldDegrade
  <2>. QED
    BY <1>1, <1>2, <1>5, <1>6, <2>1 DEF Held, Later, AtOnce, OnTier, podVars
<1>9. Amounts' /\ UNCHANGED Ladder!ladderVars
  BY <1>1, <1>5, <1>7 DEF ClimbInv, Amounts, podVars, Ladder!ladderVars, Rung, Tried
<1>. QED BY <1>1, <1>8, <1>9, AloneHeld DEF Climbs

\* The resize patch lowers a pod of the rung, where no eviction was tried yet.
LEMMA DegradeClimbs ==
    ASSUME ClimbInv, NEW a \in Actors, Degrade(a)
    PROVE  Climbs
<1>1. /\ pc[a] = "degrade" /\ pc' = [pc EXCEPT ![a] = "evict"]
      /\ UNCHANGED <<present, leaving, processing, current, mine, curTier>>
  BY DEF Degrade, Goto
<1>2. pc[a] \in OnTier /\ pc[a] \in Later
  BY <1>1 DEF OnTier, Later
<1>3. /\ Held(a) /\ milli = snap[a].specs /\ mine[a] = current
      /\ ~Per(a).evictTried /\ Rung \notin Tried /\ pc'[a] = "evict"
  BY <1>1, <1>2, TriedHere DEF ClimbInv, Held, AtOnce, PressureInv
<1>4. PICK p \in PickHighest(Targets(a), snap[a].milli) :
         \/ /\ p \in present
            /\ milli' = [milli EXCEPT ![p] = Degraded(snap[a].specs[p])]
            /\ snap' = [snap EXCEPT ![a].specs[p] = Degraded(snap[a].specs[p])]
            /\ SetPer(a, [Per(a) EXCEPT !.degraded = TRUE, !.last = snap[a].over])
         \/ /\ p \in present
            /\ milli' = [milli EXCEPT ![p] = Degraded(snap[a].specs[p])]
            /\ UNCHANGED <<states, snap>>
         \/ UNCHANGED <<milli, states, snap>>
  BY DEF Degrade
<1>5. p \in Pods /\ Tier[p] = Rung
  BY <1>2, HasTargets DEF PickHighest
<1>6. CASE UNCHANGED <<milli, states, snap>>
  <2>1. Held(a)'
    BY <1>1, <1>3, <1>6 DEF Held, Later, AtOnce, OnTier
  <2>2. Amounts' /\ UNCHANGED Ladder!ladderVars
    BY <1>1, <1>6, Stays DEF ClimbInv, Amounts, podVars
  <2>. QED BY <1>1, <2>1, <2>2, AloneHeld DEF Climbs
<1>7. ASSUME p \in present, milli' = [milli EXCEPT ![p] = Degraded(snap[a].specs[p])]
      PROVE  /\ Amounts' /\ milli' \in [Pods -> Seq(Nat)]
             /\ \A q \in Pods \ {p} : milli'[q] = milli[q]
             /\ \A i \in DOMAIN milli[p] : milli'[p][i] <= milli[p][i]
             /\ \A q \in Pods :
                   /\ DOMAIN milli'[q] = DOMAIN snap[a].specs[q]
                   /\ \A i \in DOMAIN milli'[q] : milli'[q][i] <= snap[a].specs[q][i]
  <2>1. milli \in [Pods -> Seq(Nat)]
    BY DEF ClimbInv, PressureInv
  <2>2. milli'[p] = Degraded(milli[p]) /\ \A q \in Pods \ {p} : milli'[q] = milli[q]
    BY <1>3, <1>5, <1>7, <2>1
  <2>3. /\ DOMAIN milli'[p] = DOMAIN milli[p]
        /\ \A i \in DOMAIN milli[p] :
              /\ milli'[p][i] <= milli[p][i]
              /\ milli'[p][i] = 0 \/ milli'[p][i] >= MinMilli
    BY <1>5, <2>1, <2>2, DegradedLowers, DegradedTypes DEF ClimbInv, Amounts
  <2>4. Amounts'
    BY <2>2, <2>3 DEF ClimbInv, Amounts
  <2>5. milli' \in [Pods -> Seq(Nat)]
    BY <1>5, <1>7, <2>1, <2>2, DegradedTypes
  <2>6. \A q \in Pods : \A i \in DOMAIN milli[q] : milli[q][i] <= milli[q][i]
    BY <1>2, <1>3 DEF Held
  <2>. QED BY <1>3, <2>2, <2>3, <2>4, <2>5, <2>6
<1>8. CASE /\ p \in present
           /\ milli' = [milli EXCEPT ![p] = Degraded(snap[a].specs[p])]
           /\ UNCHANGED <<states, snap>>
  <2>1. Held(a)'
    BY <1>1, <1>2, <1>3, <1>7, <1>8 DEF Held, Later, AtOnce, OnTier
  <2>2. Ladder!Lower(p)
    BY <1>1, <1>3, <1>5, <1>7, <1>8 DEF Ladder!Lower, Rung, Tried
  <2>. QED BY <1>1, <1>5, <1>7, <1>8, <2>1, <2>2, AloneHeld DEF Climbs, Ladder!LadderNext
<1>9. CASE /\ p \in present
           /\ milli' = [milli EXCEPT ![p] = Degraded(snap[a].specs[p])]
           /\ snap' = [snap EXCEPT ![a].specs[p] = Degraded(snap[a].specs[p])]
           /\ SetPer(a, [Per(a) EXCEPT !.degraded = TRUE, !.last = snap[a].over])
  <2>. DEFINE per == [Per(a) EXCEPT !.degraded = TRUE, !.last = snap[a].over]
  <2>1. Per(a) \in TierStates /\ snap[a].over \in Nat
    BY <1>2, HeldTypes DEF ClimbInv, Snaps
  <2>2. per \in TierStates /\ ~per.evictTried
    BY <1>3, <2>1, TierTypes DEF TierStates
  <2>. HIDE DEF per
  <2>3. /\ Rung' = Rung /\ Tried' = Tried
        /\ states'[current].tier = states[current].tier
        /\ states'[current].tiers = states[current].tiers
    BY <1>1, <1>2, <1>3, <1>9, <2>2, PerClimbs DEF per
  <2>4. snap'[a].pods = snap[a].pods /\ snap'[a].specs = milli'
    <3>1. snap \in [Actors -> Snaps]
      BY DEF ClimbInv, PressureInv
    <3>2. snap'[a] = [snap[a] EXCEPT !.specs[p] = Degraded(snap[a].specs[p])]
      BY <1>9, <3>1
    <3>3. /\ snap'[a].pods = snap[a].pods
          /\ snap'[a].specs = [snap[a].specs EXCEPT ![p] = Degraded(snap[a].specs[p])]
      BY <3>1, <3>2 DEF Snaps
    <3>. QED BY <1>3, <1>9, <3>3
  <2>5. Held(a)'
    <3>1. \A q \in Pods : \A i \in DOMAIN milli'[q] : milli'[q][i] <= milli'[q][i]
      <4>1. \A requests \in Seq(Nat) : \A i \in DOMAIN requests : requests[i] <= requests[i]
        OBVIOUS
      <4>. QED BY <1>7, <1>9, <4>1
    <3>. QED
      BY <1>1, <1>2, <1>3, <2>3, <2>4, <3>1 DEF Held, Later, AtOnce, OnTier
  <2>6. Ladder!Lower(p)
    BY <1>1, <1>3, <1>5, <1>7, <1>9, <2>3 DEF Ladder!Lower, Rung, Tried
  <2>. QED BY <1>1, <1>5, <1>7, <1>9, <2>5, <2>6, AloneHeld DEF Climbs, Ladder!LadderNext
<1>. QED BY <1>4, <1>6, <1>8, <1>9

\* A handler that goes on to evict has seen that the tier has not been tried.
LEMMA CheckEvictClimbs ==
    ASSUME ClimbInv, NEW a \in Actors, CheckEvict(a)
    PROVE  Climbs
<1>1. PICK there \in {"evicting", "escalate"} :
         /\ pc[a] = "evict" /\ pc' = [pc EXCEPT ![a] = there]
         /\ there = "evicting" => ~Per(a).evictTried
         /\ UNCHANGED <<podVars, current, states, snap, mine, curTier>>
  BY DEF CheckEvict, ShouldEvict, Goto
<1>2. Held(a) /\ pc'[a] = there
  BY <1>1 DEF ClimbInv, PressureInv
<1>3. Held(a)'
  BY <1>1, <1>2 DEF Held, Later, AtOnce, OnTier, podVars, Per
<1>4. Amounts' /\ UNCHANGED Ladder!ladderVars
  BY <1>1, Stays DEF ClimbInv, Amounts, podVars
<1>. QED BY <1>1, <1>3, <1>4, AloneHeld DEF Climbs

\* The eviction is the ladder's TryEviction, whether it fails or not.
LEMMA EvictClimbs ==
    ASSUME ClimbInv, NEW a \in Actors, Evict(a)
    PROVE  Climbs
<1>1. /\ pc[a] = "evicting" /\ pc' = [pc EXCEPT ![a] = "escalate"]
      /\ SetPer(a, [Per(a) EXCEPT !.evictTried = TRUE])
      /\ UNCHANGED <<present, milli, processing, current, snap, mine, curTier>>
  BY DEF Evict, Goto
<1>. DEFINE per == [Per(a) EXCEPT !.evictTried = TRUE]
<1>2. pc[a] \in OnTier /\ pc[a] \in Later
  BY <1>1 DEF OnTier, Later
<1>3. Held(a) /\ mine[a] = current /\ Rung \notin Tried /\ pc'[a] = "escalate"
  BY <1>1, <1>2, TriedHere DEF ClimbInv, Held, PressureInv
<1>4. per \in TierStates /\ per.evictTried
  BY <1>2, HeldTypes, TierTypes DEF ClimbInv, TierStates
<1>. HIDE DEF per
<1>5. /\ Rung' = Rung /\ Tried' = Tried \cup {Rung}
      /\ states'[current].tier = states[current].tier
      /\ states'[current].tiers = states[current].tiers
  BY <1>1, <1>2, <1>4, PerClimbs DEF per
<1>6. \/ \E p \in present : Tier[p] = Rung /\ leaving' = leaving \cup {p}
      \/ UNCHANGED leaving
  BY <1>2, HasTargets DEF Evict, PickHighest
<1>7. Ladder!TryEviction
  BY <1>1, <1>3, <1>5, <1>6 DEF Ladder!TryEviction, Rung, Tried
<1>8. Held(a)'
  BY <1>1, <1>2, <1>3, <1>5 DEF Held, Later, AtOnce, OnTier
<1>9. Amounts'
  BY <1>1 DEF ClimbInv, Amounts
<1>. QED BY <1>1, <1>7, <1>8, <1>9, AloneHeld DEF Climbs, Ladder!LadderNext

\* What the handler saw left in its tier is no less than what is left there.
LEMMA EscalateClimbs ==
    ASSUME ClimbInv, NEW a \in Actors, Escalate(a)
    PROVE  Climbs
<1>. DEFINE due == /\ Per(a).degraded /\ Per(a).evictTried
                   /\ ~HasActionableInTier(snap[a], curTier[a])
            held == states[mine[a]]
            higher == HigherTiers(curTier[a], held.tiers)
<1>1. /\ pc[a] = "escalate" /\ pc' = [pc EXCEPT ![a] = "finish"]
      /\ states' = [states EXCEPT ![mine[a]] =
                       IF due THEN Escalated(held, curTier[a]) ELSE held]
      /\ UNCHANGED <<podVars, processing, current, snap, mine, curTier>>
  BY DEF Escalate, Goto
<1>2. pc[a] \in OnTier /\ pc[a] \in Later
  BY <1>1 DEF OnTier, Later
<1>3. /\ Held(a) /\ mine[a] = current /\ current # NoId /\ current \in Ids
      /\ held \in NodeStates /\ held.tiers = {Tier[p] : p \in snap[a].pods}
      /\ curTier[a] = Rung /\ Rung \in Criticalities /\ pc'[a] = "finish"
  BY <1>1, <1>2, HeldTypes, HasTargets DEF ClimbInv, Held, PressureInv
<1>4. Held(a)' /\ Amounts'
  BY <1>1, <1>3 DEF Held, Later, AtOnce, OnTier, ClimbInv, Amounts, podVars
<1>. HIDE DEF due
<1>5. CASE due /\ higher # {}
  <2>1. Escalated(held, curTier[a]) = [held EXCEPT !.tier = Lowest(higher)]
    BY <1>5 DEF Escalated
  <2>2. states'[current] = [held EXCEPT !.tier = Lowest(higher)]
    BY <1>1, <1>3, <1>5, <2>1 DEF ClimbInv, PressureInv
  <2>3. Rung' = Lowest(higher) /\ states'[current].per = held.per
    BY <1>1, <1>3, <2>2 DEF Rung, NodeStates
  <2>4. Tried' = Tried
    BY <1>1, <1>3, <2>3 DEF Tried
  <2>5. /\ higher \in SUBSET Criticalities
        /\ \A t \in higher : CriticalityRank[Rung] < CriticalityRank[t]
        /\ \A p \in present : CriticalityRank[Rung] < CriticalityRank[Tier[p]]
                                => Tier[p] \in higher
    <3>1. present \subseteq snap[a].pods /\ held.tiers \subseteq Criticalities
      BY <1>2, <1>3 DEF Held, NodeStates
    <3>2. \A p \in present : Tier[p] \in held.tiers
      BY <1>3, <3>1
    <3>3. \A t \in Criticalities : CriticalityRank[t] \in Nat
      BY DEF Criticalities, CriticalityRank
    <3>. QED BY <1>3, <3>1, <3>2, <3>3 DEF HigherTiers
  <2>6. /\ Rung' \in Criticalities /\ CriticalityRank[Rung] < CriticalityRank[Rung']
        /\ \A p \in present : ~(/\ CriticalityRank[Rung] < CriticalityRank[Tier[p]]
                                 /\ CriticalityRank[Tier[p]] < CriticalityRank[Rung'])
    <3>. HIDE DEF higher
    <3>1. /\ Lowest(higher) \in higher
          /\ \A u \in higher : CriticalityRank[Lowest(higher)] <= CriticalityRank[u]
      BY <1>5, <2>5, LowestIsLowest
    <3>2. \A t \in Criticalities : CriticalityRank[t] \in Nat
      BY DEF Criticalities, CriticalityRank
    <3>. QED BY <2>3, <2>5, <3>1, <3>2
  <2>7. Rung \in Tried
    BY <1>2, <1>5, TriedHere DEF due
  <2>8. \A p \in present : Tier[p] = Rung =>
           \A i \in DOMAIN milli[p] : milli[p][i] <= MinMilli
    <3>1. SUFFICES ASSUME NEW p \in present, Tier[p] = Rung, NEW i \in DOMAIN milli[p]
                   PROVE  milli[p][i] <= MinMilli
      OBVIOUS
    <3>2. p \in Targets(a) /\ p \in Pods
      BY <1>2, <3>1, HasTargets
    <3>3. i \in DOMAIN snap[a].specs[p] /\ milli[p][i] <= snap[a].specs[p][i]
      BY <1>2, <1>3, <3>1, <3>2 DEF Held
    <3>4. ~(snap[a].specs[p][i] > MinMilli)
      BY <1>5, <3>2, <3>3 DEF due, HasActionableInTier, Targets
    <3>5. milli[p] \in Seq(Nat) /\ snap[a].specs[p] \in Seq(Nat) /\ MinMilli \in Nat
      BY <3>2, PressureAssumption DEF ClimbInv, PressureInv, Snaps
    <3>6. milli[p][i] \in Nat /\ snap[a].specs[p][i] \in Nat
      BY <3>1, <3>3, <3>5
    <3>. QED BY <3>3, <3>4, <3>5, <3>6
  <2>9. Ladder!Climb
    BY <1>1, <2>4, <2>6, <2>7, <2>8
       DEF Ladder!Climb, Ladder!Spent, Ladder!Below, Rung, Tried, podVars
  <2>. QED BY <1>1, <1>4, <2>9, AloneHeld DEF Climbs, Ladder!LadderNext
<1>6. CASE ~(due /\ higher # {})
  <2>1. (IF due THEN Escalated(held, curTier[a]) ELSE held) = held
    BY <1>6 DEF Escalated
  <2>2. UNCHANGED states
    BY <1>1, <2>1 DEF ClimbInv, PressureInv
  <2>. QED BY <1>1, <1>4, <2>2, AloneHeld, Stays DEF Climbs
<1>. QED BY <1>5, <1>6

-----------------------------------------------------------------------------
(***************************************************************************)
(* The other steps, and the whole                                          *)
(***************************************************************************)

\* Node updates, the worker and pods that go keep to the ladder.
LEMMA OutsideClimbs ==
    ASSUME Undisturbed, ClimbInv,
           \/ \E g \in Goroutines : Start(g)
           \/ Skip \/ CheckBusy \/ CheckRecovered
           \/ \E o \in OverSecs, b \in BOOLEAN : UpdateNode(o, b)
           \/ \E p \in Pods : AddPod(p) \/ RemovePod(p)
    PROVE  Climbs
<1>1. lastBusy = busy
  BY DEF ClimbInv, HandlersInv
<1>2. ASSUME UNCHANGED <<podVars, current, states, actorVars>> PROVE Climbs
  <2>1. \A b \in Actors : Held(b)'
    BY <1>2 DEF ClimbInv, Held, Per, podVars, actorVars
  <2>2. Amounts' /\ UNCHANGED Ladder!ladderVars
    BY <1>2, Stays DEF ClimbInv, Amounts, podVars
  <2>. QED BY <2>1, <2>2 DEF Climbs
<1>3. ASSUME NEW g \in Goroutines, Start(g) PROVE Climbs
  <2>1. PICK there \in {"read", "finish"} : pc' = [pc EXCEPT ![g] = there]
    BY <1>3 DEF Start, Goto
  <2>2. UNCHANGED <<podVars, current, states, snap, mine, curTier>>
    BY <1>3 DEF Start
  <2>3. \A b \in Actors : Held(b)'
    <3>1. SUFFICES ASSUME NEW b \in Actors PROVE Held(b)'
      OBVIOUS
    <3>2. CASE b = g
      <4>1. pc'[b] \in {"read", "finish"}
        BY <2>1, <3>2 DEF ClimbInv, PressureInv
      <4>. QED BY <4>1 DEF Held, Later, AtOnce, OnTier
    <3>3. CASE b # g
      <4>1. pc'[b] = pc[b] /\ Held(b)
        BY <2>1, <3>3 DEF ClimbInv, PressureInv
      <4>. QED BY <2>2, <4>1 DEF Held, Per, podVars
    <3>. QED BY <3>2, <3>3
  <2>4. Amounts' /\ UNCHANGED Ladder!ladderVars
    BY <2>2, Stays DEF ClimbInv, Amounts, podVars
  <2>. QED BY <2>3, <2>4 DEF Climbs
<1>4. CASE Skip
  BY <1>2, <1>4 DEF Skip
<1>5. ~CheckBusy /\ ~CheckRecovered
  BY <1>1 DEF CheckBusy, CheckRecovered
<1>6. ASSUME NEW o \in OverSecs, NEW b \in BOOLEAN, UpdateNode(o, b) PROVE Climbs
  BY <1>2, <1>6 DEF UpdateNode, Surroundings
<1>7. \A p \in Pods : ~AddPod(p)
  BY DEF AddPod, Undisturbed
<1>8. ASSUME NEW p \in Pods, RemovePod(p) PROVE Climbs
  <2>1. /\ p \in leaving /\ present' = present \ {p} /\ leaving' = leaving \ {p}
        /\ UNCHANGED <<milli, current, states, pc, snap, mine, curTier>>
    BY <1>8 DEF RemovePod, actorVars
  <2>2. Ladder!Leave(p)
    BY <2>1 DEF Ladder!Leave
  <2>3. \A b \in Actors : Held(b)'
    BY <2>1 DEF ClimbInv, Held, Per
  <2>4. Amounts'
    BY <2>1 DEF ClimbInv, Amounts
  <2>. QED BY <2>2, <2>3, <2>4 DEF Climbs, Ladder!LadderNext
<1>. QED BY <1>3, <1>4, <1>5, <1>6, <1>7, <1>8

\* Every step keeps the invariant and is a step of the ladder, or none.
LEMMA ClimbStep ==
    ASSUME Undisturbed, ClimbInv, [Next]_vars
    PROVE  ClimbInv' /\ [Ladder!LadderNext]_(Ladder!ladderVars)
<1>1. PressureInv' /\ HandlersInv'
  BY PressureStep, HandlersStep DEF ClimbInv, Undisturbed
<1>2. Climbs
  <2>1. CASE UNCHANGED vars
    <3>1. \A b \in Actors : Held(b)'
      BY <2>1 DEF vars, podVars, actorVars, ClimbInv, Held, Per
    <3>2. Amounts' /\ UNCHANGED Ladder!ladderVars
      BY <2>1, Stays DEF vars, podVars, ClimbInv, Amounts
    <3>. QED BY <3>1, <3>2 DEF Climbs
  <2>2. ASSUME NEW a \in Actors, Handle(a) PROVE Climbs
    BY <2>2, ReadClimbs, UseStateClimbs, EnterClimbs, NeverWithoutTargets, FindTopClimbs,
       DegradeClimbs, CheckEvictClimbs, EvictClimbs, EscalateClimbs DEF Handle
  <2>. QED BY <2>1, <2>2, OutsideClimbs DEF Next
<1>. QED BY <1>1, <1>2 DEF ClimbInv, Climbs

\* Whatever node updates say and however long handlers take, with failures of the
\* API at any time: as long as isCpuBusy stays as the worker last saw it, no pod
\* comes to the node, and containers request nothing or at least MinMilli, what the
\* handlers do to a node is a climb of PressureLadder (ProcessCurrentTier,
\* event_handler.go:191-301).
THEOREM HandlersClimb == Undisturbed => (Spec => ImplementsLadder)
<1>1. SUFFICES ASSUME Undisturbed PROVE Spec => ImplementsLadder
  OBVIOUS
<1>2. Init => ClimbInv /\ Ladder!LadderInit
  BY <1>1, ClimbInit
<1>3. ClimbInv /\ [Next]_vars => ClimbInv' /\ [Ladder!LadderNext]_(Ladder!ladderVars)
  BY <1>1, ClimbStep
<1>. QED
  BY <1>2, <1>3, PTL DEF Spec, ImplementsLadder, Ladder!LadderSpec

-----------------------------------------------------------------------------
(***************************************************************************)
(* What a climb of the ladder means for the pods                           *)
(***************************************************************************)

\* Below the rung there is nothing left to lower.
Climbed ==
    /\ milli \in [Pods -> Seq(Nat)] /\ present \subseteq Pods
    /\ Rung # "" =>
          \A p \in present : CriticalityRank[Tier[p]] < CriticalityRank[Rung] =>
              \A i \in DOMAIN milli[p] : milli[p][i] <= MinMilli

InOrder ==
    /\ \A p \in present : p \in present' =>
          \A i \in DOMAIN milli[p] : milli'[p][i] <= milli[p][i]
    /\ \A p \in present, q \in present \ leaving :
          /\ CriticalityRank[Tier[q]] < CriticalityRank[Tier[p]]
          /\ milli'[p] # milli[p] \/ p \in leaving' \ leaving
          => \A i \in DOMAIN milli[q] : milli[q][i] <= MinMilli

\* What follows from the ladder alone: pods give in order.
LEMMA LadderKeeps ==
    ASSUME Climbed, [Ladder!LadderNext]_(Ladder!ladderVars),
           (milli \in [Pods -> Seq(Nat)] /\ present \subseteq Pods)'
    PROVE  Climbed' /\ InOrder
<1>1. /\ \A t \in Criticalities : CriticalityRank[t] \in Nat
      /\ \A t, u \in Criticalities : CriticalityRank[t] = CriticalityRank[u] => t = u
  BY DEF Criticalities, CriticalityRank
<1>2. Tier \in [Pods -> Criticalities] /\ MinMilli \in Nat /\ Tried \subseteq Criticalities
  BY PressureAssumption DEF Tried
<1>3. \A p \in Pods : \A i \in DOMAIN milli[p] :
         milli[p][i] \in Nat /\ milli[p][i] <= milli[p][i]
  <2>1. \A s \in Seq(Nat) : \A i \in DOMAIN s : s[i] \in Nat /\ s[i] <= s[i]
    OBVIOUS
  <2>. QED BY <2>1 DEF Climbed
<1>4. CASE UNCHANGED Ladder!ladderVars
  BY <1>3, <1>4 DEF Ladder!ladderVars, Climbed, InOrder, Rung, Tried
<1>5. CASE Ladder!StepOn
  <2>1. /\ UNCHANGED <<present, leaving, milli>> /\ Tried' = Tried
        /\ \A p \in present : ~(CriticalityRank[Tier[p]] < CriticalityRank[Rung'])
    BY <1>5 DEF Ladder!StepOn, Ladder!IsLowest, Ladder!Below, Rung, Tried
  <2>. QED BY <1>3, <2>1 DEF Climbed, InOrder
<1>6. ASSUME NEW p \in Pods, Ladder!Lower(p) PROVE Climbed' /\ InOrder
  <2>1. /\ p \in present /\ Tier[p] = Rung /\ UNCHANGED <<present, leaving>>
        /\ Rung' = Rung /\ Tried' = Tried
        /\ \A q \in Pods \ {p} : milli'[q] = milli[q]
        /\ \A i \in DOMAIN milli[p] : milli'[p][i] <= milli[p][i]
    BY <1>6 DEF Ladder!Lower, Rung, Tried
  <2>2. ~(CriticalityRank[Tier[p]] < CriticalityRank[Rung]) /\ Rung # ""
    <3>1. Rung \in Criticalities
      BY <1>2, <2>1
    <3>2. CriticalityRank[Rung] \in Nat /\ Rung # ""
      BY <1>1, <3>1 DEF Criticalities
    <3>3. CriticalityRank[Tier[p]] = CriticalityRank[Rung]
      BY <2>1
    <3>4. \A n \in Nat : ~(n < n)
      OBVIOUS
    <3>. QED BY <3>2, <3>3, <3>4
  <2>3. InOrder
    BY <1>3, <2>1, <2>2 DEF Climbed, InOrder
  <2>4. Climbed'
    BY <2>1, <2>2 DEF Climbed
  <2>. QED BY <2>3, <2>4
<1>7. CASE Ladder!TryEviction
  <2>1. /\ Rung \notin Tried /\ Tried' = Tried \cup {Rung} /\ Rung' = Rung
        /\ UNCHANGED <<present, milli>>
        /\ \A p \in leaving' \ leaving : p \in present /\ Tier[p] = Rung
        /\ \A p, q \in leaving' \ leaving : p = q
        /\ leaving \subseteq leaving'
    BY <1>7 DEF Ladder!TryEviction, Rung, Tried
  <2>2. \A p \in present : Tier[p] # ""
    BY <1>2 DEF Climbed, Criticalities
  <2>3. InOrder
    BY <1>3, <2>1, <2>2 DEF Climbed, InOrder
  <2>4. Climbed'
    BY <2>1 DEF Climbed
  <2>. QED BY <2>3, <2>4
<1>8. CASE Ladder!Climb
  <2>1. /\ Rung \in Tried /\ Rung' \in Criticalities /\ Tried' = Tried
        /\ UNCHANGED <<present, leaving, milli>>
        /\ \A p \in present : ~(/\ CriticalityRank[Rung] < CriticalityRank[Tier[p]]
                                 /\ CriticalityRank[Tier[p]] < CriticalityRank[Rung'])
        /\ \A p \in present : Tier[p] = Rung =>
              \A i \in DOMAIN milli[p] : milli[p][i] <= MinMilli
    BY <1>8 DEF Ladder!Climb, Ladder!Spent, Ladder!Below, Rung, Tried
  <2>2. Rung \in Criticalities /\ Rung # ""
    BY <1>2, <2>1 DEF Criticalities
  <2>3. \A p \in present : CriticalityRank[Tier[p]] < CriticalityRank[Rung'] =>
           \A i \in DOMAIN milli[p] : milli[p][i] <= MinMilli
    <3>1. SUFFICES ASSUME NEW p \in present,
                          CriticalityRank[Tier[p]] < CriticalityRank[Rung']
                   PROVE  \A i \in DOMAIN milli[p] : milli[p][i] <= MinMilli
      OBVIOUS
    <3>2. Tier[p] \in Criticalities
      BY <1>2 DEF Climbed
    <3>3. Tier[p] = Rung \/ CriticalityRank[Tier[p]] < CriticalityRank[Rung]
      <4>. DEFINE x == CriticalityRank[Tier[p]]
                  y == CriticalityRank[Rung]
                  z == CriticalityRank[Rung']
      <4>1. x \in Nat /\ y \in Nat /\ z \in Nat /\ x < z /\ ~(y < x /\ x < z)
        BY <1>1, <2>1, <2>2, <3>1, <3>2
      <4>2. x < y \/ x = y
        <5>. HIDE DEF x, y, z
        <5>. QED BY <4>1
      <4>. QED BY <1>1, <2>2, <3>2, <4>2
    <3>. QED BY <2>1, <2>2, <3>3 DEF Climbed
  <2>. QED BY <1>3, <2>1, <2>3 DEF Climbed, InOrder
<1>9. ASSUME NEW p \in Pods, Ladder!Leave(p) PROVE Climbed' /\ InOrder
  <2>1. /\ present' \subseteq present /\ leaving' \subseteq leaving
        /\ milli' = milli /\ Rung' = Rung /\ Tried' = Tried
    BY <1>9 DEF Ladder!Leave, Rung, Tried
  <2>. QED BY <1>3, <2>1 DEF Climbed, InOrder
<1>. QED
  BY <1>4, <1>5, <1>6, <1>7, <1>8, <1>9 DEF Ladder!LadderNext

\* So the handlers take in that order too.
LEMMA ClimbsInOrder == Undisturbed => (Spec => [][InOrder]_vars)
<1>1. SUFFICES ASSUME Undisturbed PROVE Spec => [][InOrder]_vars
  OBVIOUS
<1>. DEFINE Inv == ClimbInv /\ Climbed
<1>2. Init => Inv
  <2>1. SUFFICES ASSUME Init PROVE Climbed
    BY <1>1, ClimbInit
  <2>2. leaving = {} /\ Rung = ""
    BY <2>1 DEF Init, Rung
  <2>. QED BY <1>1, <2>1, <2>2, ClimbInit DEF Climbed, ClimbInv, PressureInv
<1>3. Inv /\ [Next]_vars => Inv' /\ InOrder
  <2>1. SUFFICES ASSUME Inv, [Next]_vars PROVE Inv' /\ InOrder
    OBVIOUS
  <2>2. ClimbInv' /\ [Ladder!LadderNext]_(Ladder!ladderVars)
    BY <1>1, <2>1, ClimbStep
  <2>3. (milli \in [Pods -> Seq(Nat)] /\ present \subseteq Pods)'
    BY <2>2 DEF ClimbInv, PressureInv
  <2>. QED BY <2>1, <2>2, <2>3, LadderKeeps
<1>. QED
  BY <1>2, <1>3, PTL DEF Spec

\* Handling pressure never gives a pod's container more than it requested
\* (DegradePodRequests, pod_spec_handler.go).
THEOREM NeverRaised == Undisturbed => (Spec => DegradationNeverRaises)
<1>1. InOrder => \A p \in present : p \in present' =>
                   \A i \in DOMAIN milli[p] : milli'[p][i] <= milli[p][i]
  BY DEF InOrder
<1>. QED
  BY <1>1, ClimbsInOrder, PTL DEF DegradationNeverRaises

\* Pods of higher criticality give nothing while a lower one has something to give,
\* although handlers decide that with pods as they read them (ProcessCurrentTier,
\* event_handler.go:283-300).
THEOREM LowestGiveFirst == Undisturbed => (Spec => LowestFirst)
<1>1. InOrder => \A p \in present, q \in present \ leaving :
                   /\ CriticalityRank[Tier[q]] < CriticalityRank[Tier[p]]
                   /\ milli'[p] # milli[p] \/ p \in leaving' \ leaving
                   => \A i \in DOMAIN milli[q] : milli[q][i] <= MinMilli
  BY DEF InOrder
<1>. QED
  BY <1>1, ClimbsInOrder, PTL DEF LowestFirst
-----------------------------------------------------------------------------
(***************************************************************************)
(* One eviction per tier and spell                                         *)
(***************************************************************************)

\* A tier has lost a pod only if its eviction was tried.
Counted ==
    /\ evictions \in [Criticalities -> Nat]
    /\ \A t \in Criticalities : evictions[t] <= IF t \in Tried THEN 1 ELSE 0

\* While isCpuBusy stays, an eviction is noted for good.
LEMMA TriedGrows ==
    ASSUME [Ladder!LadderNext]_(Ladder!ladderVars)
    PROVE  /\ Tried \subseteq Tried'
           /\ \/ leaving' \subseteq leaving
              \/ \E p \in present :
                    /\ leaving' = leaving \cup {p}
                    /\ Tier[p] \notin Tried /\ Tier[p] \in Tried'
<1>1. CASE UNCHANGED Ladder!ladderVars
  BY <1>1 DEF Ladder!ladderVars, Tried
<1>2. CASE Ladder!StepOn \/ Ladder!Climb
  BY <1>2 DEF Ladder!StepOn, Ladder!Climb, Tried
<1>3. CASE Ladder!TryEviction
  BY <1>3 DEF Ladder!TryEviction, Tried, Rung
<1>4. ASSUME NEW p \in Pods, Ladder!Lower(p) \/ Ladder!Leave(p)
      PROVE  Tried \subseteq Tried' /\ leaving' \subseteq leaving
  BY <1>4 DEF Ladder!Lower, Ladder!Leave, Tried
<1>. QED BY <1>1, <1>2, <1>3, <1>4 DEF Ladder!LadderNext

\* Counting keeps to one.
LEMMA CountStep ==
    ASSUME Counted, present \subseteq Pods, Count, Tried \subseteq Tried',
           \/ leaving' \subseteq leaving
           \/ \E p \in present :
                 /\ leaving' = leaving \cup {p}
                 /\ Tier[p] \notin Tried /\ Tier[p] \in Tried'
    PROVE  Counted'
<1>1. CASE current # NoId /\ current' = NoId
  BY <1>1 DEF Count, NoEvictions, Counted
<1>2. CASE ~(current # NoId /\ current' = NoId)
  <2>1. evictions' = [t \in Criticalities |-> evictions[t] + Cardinality(LostTo(t))]
    BY <1>2 DEF Count
  <2>2. ASSUME NEW t \in Criticalities
        PROVE  /\ evictions'[t] \in Nat
               /\ evictions'[t] <= IF t \in Tried' THEN 1 ELSE 0
    <3>1. evictions[t] \in Nat /\ evictions[t] <= IF t \in Tried THEN 1 ELSE 0
      BY DEF Counted
    <3>2. evictions'[t] = evictions[t] + Cardinality(LostTo(t))
      BY <2>1
    <3>3. CASE LostTo(t) = {}
      <4>1. evictions'[t] = evictions[t]
        BY <3>1, <3>2, <3>3, FS_EmptySet
      <4>. QED BY <3>1, <4>1
    <3>4. CASE LostTo(t) # {}
      <4>1. PICK p \in present :
               /\ leaving' = leaving \cup {p}
               /\ Tier[p] \notin Tried /\ Tier[p] \in Tried'
        BY <3>4 DEF LostTo
      <4>2. LostTo(t) = {p} /\ t = Tier[p]
        BY <3>4, <4>1 DEF LostTo
      <4>3. Cardinality(LostTo(t)) = 1
        BY <4>2, FS_Singleton
      <4>4. evictions[t] = 0 /\ t \in Tried'
        BY <3>1, <4>1, <4>2
      <4>5. evictions'[t] = 1
        BY <3>2, <4>3, <4>4
      <4>. QED BY <4>4, <4>5
    <3>. QED BY <3>3, <3>4
  <2>. QED BY <2>1, <2>2 DEF Counted
<1>. QED BY <1>1, <1>2

\* Under the conditions of HandlersClimb no tier loses a second pod in a spell,
\* however many handlings it takes, whatever fails and whichever pods have ended
\* since: EvictTried is set before the mark lets another handler in
\* (event_handler.go:268-280).
THEOREM OneEviction == Undisturbed => (SpellSpec => []OneEvictionPerTier)
<1>1. SUFFICES ASSUME Undisturbed PROVE SpellSpec => []OneEvictionPerTier
  OBVIOUS
<1>. DEFINE Inv == ClimbInv /\ Counted
            Step == [Next /\ Count]_<<vars, evictions>>
<1>2. Init /\ evictions = NoEvictions => Inv
  <2>1. ASSUME Init, evictions = NoEvictions PROVE Counted
    BY <2>1 DEF Counted, NoEvictions
  <2>. QED BY <1>1, <2>1, ClimbInit
<1>3. Inv /\ Step => Inv'
  <2>1. SUFFICES ASSUME Inv, Step PROVE Inv'
    OBVIOUS
  <2>2. ClimbInv' /\ [Ladder!LadderNext]_(Ladder!ladderVars)
    BY <1>1, <2>1, ClimbStep
  <2>3. CASE Next /\ Count
    BY <2>1, <2>2, <2>3, TriedGrows, CountStep DEF ClimbInv, PressureInv
  <2>4. CASE UNCHANGED <<vars, evictions>>
    BY <2>1, <2>2, <2>4 DEF Counted, Tried, vars
  <2>. QED BY <2>1, <2>3, <2>4
<1>4. Inv => OneEvictionPerTier
  <2>1. SUFFICES ASSUME Counted, NEW t \in Criticalities PROVE evictions[t] <= 1
    BY DEF OneEvictionPerTier
  <2>2. evictions[t] \in Nat /\ evictions[t] <= IF t \in Tried THEN 1 ELSE 0
    BY <2>1 DEF Counted
  <2>. QED BY <2>2
<1>. QED
  BY <1>2, <1>3, <1>4, PTL DEF SpellSpec
=============================================================================
