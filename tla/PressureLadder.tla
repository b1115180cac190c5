--------------------------- MODULE PressureLadder ---------------------------
(***************************************************************************)
(* What the handling of a node's CPU pressure promises, without handlers,  *)
(* snapshots or durations (the comments of ProcessCurrentTier,             *)
(* internal/ipvs/event_handler.go:180-191): it stands on one tier, the     *)
(* lowest of the node's pods at first.  There it lowers requests until it  *)
(* has tried its one eviction, and it goes up when that was tried and the  *)
(* tier has nothing left to lower.                                         *)
(***************************************************************************)
EXTENDS Integers, Sequences

CONSTANTS Pods, Tier, Criticalities, CriticalityRank, MinMilli

VARIABLES present,  \* the pods on the node
          leaving,  \* those that were evicted and still run
          milli,    \* pod -> CPU requests of its containers
          rung,     \* the tier the handling stands on, "" before the first
          tried     \* the tiers an eviction was tried in

ladderVars == <<present, leaving, milli, rung, tried>>

Below(t, u) == CriticalityRank[t] < CriticalityRank[u]

\* No pod on the node ranks below this tier.
IsLowest(t) == \A p \in present : ~Below(Tier[p], t)

Spent(t) ==
    \A p \in present : Tier[p] = t =>
        \A i \in DOMAIN milli[p] : milli[p][i] <= MinMilli

LadderInit ==
    /\ present \subseteq Pods /\ leaving = {}
    /\ milli \in [Pods -> Seq(Nat)]
    /\ rung = "" /\ tried = {}

\* The first step, and a new start when the rung has no pods any more.
StepOn ==
    /\ \A p \in present : Tier[p] # rung
    /\ rung' \in Criticalities /\ IsLowest(rung')
    /\ UNCHANGED <<present, leaving, milli, tried>>

Lower(p) ==
    /\ p \in present /\ Tier[p] = rung /\ rung \notin tried
    /\ \A q \in Pods \ {p} : milli'[q] = milli[q]
    /\ \A i \in DOMAIN milli[p] : milli'[p][i] <= milli[p][i]
    /\ UNCHANGED <<present, leaving, rung, tried>>

\* One pod of the tier, or nothing when the eviction fails.
TryEviction ==
    /\ rung \notin tried /\ tried' = tried \cup {rung}
    /\ \/ \E p \in present : Tier[p] = rung /\ leaving' = leaving \cup {p}
       \/ UNCHANGED leaving
    /\ UNCHANGED <<present, milli, rung>>

Climb ==
    /\ rung \in tried /\ Spent(rung)
    /\ rung' \in Criticalities /\ Below(rung, rung')
    /\ \A p \in present : ~(Below(rung, Tier[p]) /\ Below(Tier[p], rung'))
    /\ UNCHANGED <<present, leaving, milli, tried>>

Leave(p) ==
    /\ p \in leaving
    /\ present' = present \ {p} /\ leaving' = leaving \ {p}
    /\ UNCHANGED <<milli, rung, tried>>

LadderNext ==
    \/ StepOn \/ TryEviction \/ Climb
    \/ \E p \in Pods : Lower(p) \/ Leave(p)

LadderSpec == LadderInit /\ [][LadderNext]_ladderVars
=============================================================================
