------------------------- MODULE NodePressureSpells -------------------------
(***************************************************************************)
(* NodePressure with a history of its evictions: how many a spell of       *)
(* pressure has seen, in each tier.  A spell lasts until a recovery clears *)
(* the state of the node (handleCPURecovery's delete on PressureState,     *)
(* internal/controller/mckube_controller.go).  The history is only         *)
(* written, so that what NodePressure does is as it was.                   *)
(***************************************************************************)
EXTENDS NodePressure

VARIABLE evictions    \* tier -> pods it lost to eviction in this spell

NoEvictions == [t \in Criticalities |-> 0]

LostTo(t) == {p \in leaving' \ leaving : Tier[p] = t}

Count ==
    evictions' =
        IF current # NoId /\ current' = NoId THEN NoEvictions
        ELSE [t \in Criticalities |-> evictions[t] + Cardinality(LostTo(t))]

SpellSpec ==
    Init /\ evictions = NoEvictions /\ [][Next /\ Count]_<<vars, evictions>>

\* Within a spell a tier loses one pod to eviction, however many handlings the
\* spell takes, also when the pod evicted first has ended long ago (EvictTried,
\* event_handler.go:268-280).
OneEvictionPerTier == \A t \in Criticalities : evictions[t] <= 1
=============================================================================
