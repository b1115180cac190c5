------------------------ MODULE MCRuntimeEscalation ------------------------
(* One pod of two containers for TLC, with two overrun requests at a time.   *)
EXTENDS RuntimeEscalation, TLC

CONSTANTS h1, h2   \* request slots

OneHandler  == {h1}
TwoHandlers == {h1, h2}
Slots == Permutations(TwoHandlers)
=============================================================================
