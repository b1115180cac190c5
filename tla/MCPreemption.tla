---------------------------- MODULE MCPreemption ----------------------------
(* The pods of test-preemption-scenario.yaml for TLC, with their amounts in  *)
(* units of 50 millicores (the threshold is 18), on a node of two cores.     *)
EXTENDS Preemption, TLC

CONSTANTS low, middle, high   \* the pods

ThreePods == {low, middle, high}
TwoPods   == {low, middle}
OuterPods == {low, high}

MCCrit == [p \in Pods |->
    CASE p = low -> "Low" [] p = middle -> "Middle" [] p = high -> "High"]

\* All want the same core, as in the scenario; or their core sets span both
\* cores and, for one of them, a core the node lacks.
SameCore  == [p \in Pods |-> <<0>>]
MixedCores == [p \in Pods |->
    CASE p = low -> <<0, 1>> [] p = middle -> <<0>> [] p = high -> <<0, 2>>]
BothCores == [p \in Pods |-> IF p = low THEN <<0, 1>> ELSE <<1, 2, 0>>]

MCLowMillis == [p \in Pods |->      \* 35 %, 40 %, 25 %
    CASE p = low -> 7 [] p = middle -> 8 [] p = high -> 5]
MCHiMillis == [p \in Pods |->       \* 50 %, 60 %, 40 %
    CASE p = low -> 10 [] p = middle -> 12 [] p = high -> 8]
=============================================================================
