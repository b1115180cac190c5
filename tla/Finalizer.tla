------------------------------ MODULE Finalizer ------------------------------
(***************************************************************************)
(* What the finalizer of a McKube CR is for: a CR is held from the moment  *)
(* the controller adds it, only a pod of such a CR is booked, and a CR     *)
(* that users have deleted stays until nothing is booked for its pod.      *)
(* Module McKubeLifecycle implements this with caches, copies, conflicts,  *)
(* failing writes and restarts.                                            *)
(***************************************************************************)
CONSTANTS CRs, Pods, Nodes, PodOf

VARIABLES life,   \* CR -> where it is in its life
          booked  \* pod -> the nodes whose CPU pool has an entry of it

vars == <<life, booked>>

\* open: no finalizer yet; held: active, with the finalizer; leaving: deleted
\* by a user, held by the finalizer.
Lives == {"absent", "open", "held", "leaving"}

Init ==
    /\ life \in [CRs -> Lives]
    /\ booked = [p \in Pods |-> {}]

Moves(c, from, to) ==
    /\ life[c] = from /\ life' = [life EXCEPT ![c] = to]
    /\ UNCHANGED booked

Create(c)       == Moves(c, "absent", "open")
Withdraw(c)     == Moves(c, "open", "absent")
AddFinalizer(c) == Moves(c, "open", "held")
Delete(c)       == Moves(c, "held", "leaving")

RemoveFinalizer(c) == booked[PodOf[c]] = {} /\ Moves(c, "leaving", "absent")

Book(c, n) ==
    /\ life[c] \in {"held", "leaving"}
    /\ booked' = [booked EXCEPT ![PodOf[c]] = @ \cup {n}]
    /\ UNCHANGED life

Release(p) == booked' = [booked EXCEPT ![p] = {}] /\ UNCHANGED life

\* The controller starts again with empty pools.
Forget == booked' = [p \in Pods |-> {}] /\ UNCHANGED life

Next ==
    \/ \E c \in CRs : \/ Create(c) \/ Withdraw(c) \/ Delete(c)
                      \/ AddFinalizer(c) \/ RemoveFinalizer(c)
                      \/ \E n \in Nodes : Book(c, n)
    \/ \E p \in Pods : Release(p)
    \/ Forget

Spec == Init /\ [][Next]_vars
=============================================================================
