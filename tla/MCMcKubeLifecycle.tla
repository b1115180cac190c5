------------------------- MODULE MCMcKubeLifecycle -------------------------
(* CRs and the one pod they name, for TLC.                                  *)
EXTENDS McKubeLifecycle

CONSTANT theirPod

MCPodOf == [c \in CRs |-> theirPod]
=============================================================================
