------------------------ MODULE MCNodePressureSpells ------------------------
(* The instances of MCNodePressure, with the history of evictions.          *)
EXTENDS MCNodePressure, NodePressureSpells
=============================================================================
