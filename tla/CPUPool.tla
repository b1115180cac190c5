------------------------------- MODULE CPUPool -------------------------------
(***************************************************************************)
(* The CPU pool the controller keeps for one node, as its methods change   *)
(* it (internal/controller/mckube_controller.go): for every core a running *)
(* total UsageMillis and a map from pod names to PodInfo.  Each action is  *)
(* one method under the pool's lock, so an action is atomic and the        *)
(* interleavings are those of the methods' callers.                        *)
(*                                                                         *)
(* The total and the map are two records of one fact.  addPodToCore adds   *)
(* to the total without looking at the entry it overwrites, while every    *)
(* removal subtracts what the entry says, so the two can drift apart: this *)
(* module says in which direction, and that the drift is for good.         *)
(***************************************************************************)
EXTENDS Integers, FiniteSets

CONSTANTS Pods,        \* names of the pods with the sdv.com label
          Cores,       \* the core numbers of the pool (0..7 in the code)
          OtherCores,  \* core numbers a core set may name and the pool lacks
          MaxMillis,   \* bound: the largest CPUMillis a PodInfo carries
          NoEntry      \* "this pod is not in core.Pods"

\* Pod names and cores are finite sets; the core numbers asked for that are
\* not in the pool are others; the largest amount is a positive number.
ASSUME PoolAssumption ==
    /\ IsFiniteSet(Pods)
    /\ OtherCores \cap Cores = {}
    /\ MaxMillis \in Nat \ {0}

Criticalities == {"", "Low", "Middle", "High"}

\* A missing key of the Go map reads as 0, the rank of "Low".
criticalityRank == [k \in Criticalities |->
    CASE k = "High" -> 2 [] k = "Middle" -> 1 [] OTHER -> 0]

\* What PodInfo keeps besides the name: the map's key.  Amounts are positive:
\* the caller replaces 0 by a default.
PodInfo == [criticality : Criticalities, millis : 1 .. MaxMillis]

ASSUME NoEntryAssumption == NoEntry \notin PodInfo

VARIABLES usage,   \* core -> UsageMillis
          entry    \* core -> pod -> PodInfo or NoEntry

poolVars == <<usage, entry>>

\* The core as getOrCreateCPUPool makes it.
emptyCore == [p \in Pods |-> NoEntry]

PoolInit ==
    /\ usage = [c \in Cores |-> 0]
    /\ entry = [c \in Cores |-> emptyCore]

Holds(c, p) == entry[c][p] # NoEntry

\* What a removal subtracts: nothing when the pod is not on the core.
Released(c, p) == IF Holds(c, p) THEN entry[c][p].millis ELSE 0

-----------------------------------------------------------------------------
\* The methods that read.

getPodsOnCore(c) == IF c \in Cores THEN {p \in Pods : Holds(c, p)} ELSE {}

getCoreUtilization(c) == IF c \in Cores THEN usage[c] ELSE 0

\* Go's map order is random: any core with the least total may be returned.
findLeastLoadedCore == {c \in Cores : \A d \in Cores : usage[c] <= usage[d]}

-----------------------------------------------------------------------------
\* The methods that write.

addPodToCore(c, p, info) ==
    IF c \in Cores
    THEN /\ entry' = [entry EXCEPT ![c][p] = info]
         /\ usage' = [usage EXCEPT ![c] = @ + info.millis]
    ELSE UNCHANGED poolVars

removePodFromCore(c, p) ==
    IF c \in Cores
    THEN /\ entry' = [entry EXCEPT ![c][p] = NoEntry]
         /\ usage' = [usage EXCEPT ![c] = @ - Released(c, p)]
    ELSE UNCHANGED poolVars

cleanupKeepsEntry(p) ==                 \* mutant: no delete from core.Pods
    /\ usage' = [c \in Cores |-> usage[c] - Released(c, p)]
    /\ UNCHANGED entry

\* The pool's part of cleanupPodState: off every core.
cleanupPool(p) ==
    /\ entry' = [c \in Cores |-> [entry[c] EXCEPT ![p] = NoEntry]]
    /\ usage' = [c \in Cores |-> usage[c] - Released(c, p)]

\* The process starts again and getOrCreateCPUPool makes the pool anew.
newPool ==
    /\ usage' = [c \in Cores |-> 0]
    /\ entry' = [c \in Cores |-> emptyCore]

PoolNext ==
    \/ \E c \in Cores \cup OtherCores, p \in Pods :
         \/ \E info \in PodInfo : addPodToCore(c, p, info)
         \/ removePodFromCore(c, p)
    \/ \E p \in Pods : cleanupPool(p)
    \/ newPool

PoolSpec == PoolInit /\ [][PoolNext]_poolVars

-----------------------------------------------------------------------------
(***************************************************************************)
(* Properties                                                              *)
(***************************************************************************)

\* The sum of the millis in a core's map e, as the number of units they book:
\* no recursion, so that it can be reasoned about.
Units(e) == {u \in Pods \X (1 .. MaxMillis) :
                e[u[1]] # NoEntry /\ u[2] <= e[u[1]].millis}

Booked(c) == Cardinality(Units(entry[c]))

Leaked(c) == usage[c] - Booked(c)

\* A total is an integer and an entry a PodInfo, for every core and pod: the
\* state of CPUCoreInfo (UsageMillis is an int64, far from its limits here).
PoolTypeOK ==
    /\ usage \in [Cores -> Int]
    /\ entry \in [Cores -> [Pods -> PodInfo \cup {NoEntry}]]

\* A core's total never falls below what its entries add up to, so it is
\* never negative and the threshold check never overbooks because of it:
\* every subtraction of removePodFromCore and cleanupPodState takes away no
\* more than some addPodToCore has added.
NeverUndercounts == \A c \in Cores : usage[c] >= Booked(c)

\* Capacity that addPodToCore leaks by overwriting an entry never comes back:
\* no removal or cleanup releases it, only a new pool does.
LeakIsForGood ==
    [][newPool \/ \A c \in Cores : Leaked(c)' >= Leaked(c)]_poolVars
==============================================================================
