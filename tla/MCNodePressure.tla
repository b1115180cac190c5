--------------------------- MODULE MCNodePressure ---------------------------
(* A node with two pods of the lowest criticality and one of each other for *)
(* TLC, with requests a step or two above MinMilli = 10.                    *)
EXTENDS NodePressure

CONSTANTS a, b, m, h, \* the pods
          g1, g2      \* goroutine slots

MCTier == [p \in Pods |->
    CASE p = m -> "Middle" [] p = h -> "High" [] OTHER -> "Low"]

\* One pod has a container without requests; or one with small ones.
EmptySidecar == [p \in Pods |-> IF p = b THEN <<14, 0>> ELSE <<12>>]
SmallSidecar == [p \in Pods |-> IF p = b THEN <<14, 5>> ELSE <<12>>]
=============================================================================
