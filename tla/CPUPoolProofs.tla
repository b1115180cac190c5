---------------------------- MODULE CPUPoolProofs ----------------------------
(***************************************************************************)
(* What the pool's methods do to the difference between a core's total and *)
(* what its entries add up to, for every set of pods and cores.            *)
(*                                                                         *)
(* The whole argument is two facts about one core's map: clearing an entry *)
(* books exactly its millis less, writing one exactly its millis more than *)
(* clearing what was there.  Both are counted on Units(e), the set of      *)
(* booked units, in which a pod with an entry of m millis owns the row     *)
(* Row(p, m).                                                              *)
(***************************************************************************)
EXTENDS CPUPool, TLAPS, FiniteSetTheorems

CoreMap == [Pods -> PodInfo \cup {NoEntry}]

Row(p, m) == {p} \X (1 .. m)

\* A row of m units has m elements.
LEMMA RowSize ==
    ASSUME NEW p, NEW m \in Nat
    PROVE  IsFiniteSet(Row(p, m)) /\ Cardinality(Row(p, m)) = m
<1>1. IsFiniteSet({p}) /\ Cardinality({p}) = 1
  BY FS_Singleton
<1>2. IsFiniteSet(1 .. m) /\ Cardinality(1 .. m) = m
  BY FS_Interval
<1>3. IsFiniteSet({p} \X (1 .. m))
      /\ Cardinality({p} \X (1 .. m)) = Cardinality({p}) * Cardinality(1 .. m)
  BY <1>1, <1>2, FS_Product
<1> QED
  BY <1>1, <1>2, <1>3 DEF Row

\* A core's map books finitely many units: Booked is a number.
LEMMA UnitsFinite ==
    ASSUME NEW e
    PROVE  IsFiniteSet(Units(e)) /\ Cardinality(Units(e)) \in Nat
<1>1. IsFiniteSet(Pods) /\ MaxMillis \in Nat
  BY PoolAssumption
<1>2. IsFiniteSet(1 .. MaxMillis)
  BY <1>1, FS_Interval
<1>3. IsFiniteSet(Pods \X (1 .. MaxMillis))
  BY <1>1, <1>2, FS_Product
<1>4. Units(e) \in SUBSET (Pods \X (1 .. MaxMillis))
  BY DEF Units
<1> QED
  BY <1>3, <1>4, FS_Subset, FS_CardinalityType

\* removePodFromCore and cleanupPodState on a core's map: exactly the entry's
\* millis are no longer booked, none when there is no entry.
LEMMA ClearReleases ==
    ASSUME NEW e \in CoreMap, NEW p \in Pods
    PROVE  Cardinality(Units([e EXCEPT ![p] = NoEntry]))
             = Cardinality(Units(e)) - (IF e[p] # NoEntry THEN e[p].millis ELSE 0)
<1> DEFINE f == [e EXCEPT ![p] = NoEntry]
<1>1. IsFiniteSet(Units(e)) /\ Cardinality(Units(e)) \in Nat
  BY UnitsFinite
<1>2. CASE e[p] = NoEntry
  <2>1. f = e
    BY <1>2 DEF CoreMap
  <2> QED
    BY <2>1, <1>1, <1>2
<1>3. CASE e[p] # NoEntry
  <2> DEFINE R == Row(p, e[p].millis)
  <2>1. e[p] \in PodInfo
    BY <1>3 DEF CoreMap
  <2>2. e[p].millis \in 1 .. MaxMillis /\ MaxMillis \in Nat
    BY <2>1, PoolAssumption DEF PodInfo
  <2>3. e[p].millis \in Nat
    BY <2>2
  <2>4. IsFiniteSet(R) /\ Cardinality(R) = e[p].millis
    BY <2>3, RowSize
  <2>5. R \subseteq Units(e)
    <3> SUFFICES ASSUME NEW u \in R
                 PROVE  u \in Units(e)
      OBVIOUS
    <3>1. u[1] = p /\ u[2] \in 1 .. e[p].millis /\ u = <<p, u[2]>>
      BY DEF Row
    <3>2. u \in Pods \X (1 .. MaxMillis)
      BY <3>1, <2>2
    <3> QED
      BY <3>1, <3>2, <2>2, <1>3 DEF Units
  <2>6. Units(f) = Units(e) \ R
    <3>1. ASSUME NEW u \in Pods \X (1 .. MaxMillis), u[1] # p
          PROVE  f[u[1]] = e[u[1]] /\ u \notin R
      BY <3>1 DEF CoreMap, Row
    <3>2. ASSUME NEW u \in Pods \X (1 .. MaxMillis), u[1] = p
          PROVE  f[u[1]] = NoEntry
      BY <3>2 DEF CoreMap
    <3>3. ASSUME NEW u \in Units(e), u[1] = p
          PROVE  u \in R
      <4>1. u \in Pods \X (1 .. MaxMillis) /\ u[2] <= e[p].millis
        BY <3>3 DEF Units
      <4> QED
        BY <4>1, <3>3, <2>2 DEF Row
    <3>4. ASSUME NEW u \in Units(f)
          PROVE  u \in Units(e) /\ u \notin R
      <4>1. u \in Pods \X (1 .. MaxMillis) /\ f[u[1]] # NoEntry
            /\ u[2] <= f[u[1]].millis
        BY <3>4 DEF Units
      <4>2. u[1] # p
        BY <4>1, <3>2
      <4> QED
        BY <4>1, <4>2, <3>1 DEF Units
    <3>5. ASSUME NEW u \in Units(e), u \notin R
          PROVE  u \in Units(f)
      <4>1. u \in Pods \X (1 .. MaxMillis) /\ e[u[1]] # NoEntry
            /\ u[2] <= e[u[1]].millis
        BY <3>5 DEF Units
      <4>2. u[1] # p
        BY <3>3, <3>5
      <4> QED
        BY <4>1, <4>2, <3>1 DEF Units
    <3> QED
      BY <3>4, <3>5
  <2>7. Cardinality(Units(e) \ R) =
          Cardinality(Units(e)) - Cardinality(Units(e) \cap R)
    BY <1>1, FS_Difference
  <2>8. Units(e) \cap R = R
    BY <2>5
  <2> QED
    BY <2>4, <2>6, <2>7, <2>8, <1>3
<1> QED
  BY <1>2, <1>3

\* addPodToCore on a core's map: what an entry that was there booked goes, and
\* exactly info.millis units come.  Both maps are the same once cleared.
LEMMA WriteBooks ==
    ASSUME NEW e \in CoreMap, NEW p \in Pods, NEW info \in PodInfo
    PROVE  Cardinality(Units([e EXCEPT ![p] = info]))
             = Cardinality(Units(e))
                 - (IF e[p] # NoEntry THEN e[p].millis ELSE 0) + info.millis
<1> DEFINE f == [e EXCEPT ![p] = info]
<1>1. f \in CoreMap /\ f[p] = info /\ info # NoEntry
  BY NoEntryAssumption DEF CoreMap
<1>2. [f EXCEPT ![p] = NoEntry] = [e EXCEPT ![p] = NoEntry]
  BY DEF CoreMap
<1>3. /\ Cardinality(Units(e)) \in Nat /\ Cardinality(Units(f)) \in Nat
      /\ info.millis \in Nat
  BY UnitsFinite, PoolAssumption DEF PodInfo
<1>4. e[p] # NoEntry => e[p].millis \in Nat
  BY PoolAssumption DEF CoreMap, PodInfo
<1>5. Cardinality(Units([f EXCEPT ![p] = NoEntry])) = Cardinality(Units(f)) - info.millis
  BY <1>1, ClearReleases
<1>6. Cardinality(Units([e EXCEPT ![p] = NoEntry]))
        = Cardinality(Units(e)) - (IF e[p] # NoEntry THEN e[p].millis ELSE 0)
  BY ClearReleases
<1> HIDE DEF f
<1>7. Cardinality(Units(f))
        = Cardinality(Units(e))
            - (IF e[p] # NoEntry THEN e[p].millis ELSE 0) + info.millis
  BY <1>2, <1>3, <1>4, <1>5, <1>6
<1> QED
  BY <1>7 DEF f

\* A new pool books nothing.
LEMMA EmptyBooksNothing == Cardinality(Units(emptyCore)) = 0
<1>1. Units(emptyCore) = {}
  BY DEF Units, emptyCore
<1> QED
  BY <1>1, FS_EmptySet

\* The pool starts well typed and books nothing.
LEMMA PoolInitTypes ==
    ASSUME PoolInit
    PROVE  PoolTypeOK /\ \A c \in Cores : usage[c] = 0 /\ Booked(c) = 0
  BY EmptyBooksNothing DEF PoolInit, PoolTypeOK, emptyCore, Booked

\* In a well-typed pool the drift of every core is an integer.
LEMMA DriftIsInt ==
    ASSUME PoolTypeOK, NEW c \in Cores
    PROVE  usage[c] \in Int /\ entry[c] \in CoreMap /\ Booked(c) \in Nat
  BY UnitsFinite DEF PoolTypeOK, CoreMap, Booked

-----------------------------------------------------------------------------
\* One lemma per method: it keeps the pool well typed, and what it does to
\* each core's drift.  Callers of the methods cite these.

LEMMA ReleasedIsInt ==
    ASSUME PoolTypeOK, NEW d \in Cores, NEW p \in Pods
    PROVE  Released(d, p) \in Nat
  BY PoolAssumption DEF PoolTypeOK, Released, Holds, PodInfo

\* addPodToCore leaks what it overwrites, to the millicore, and nothing on any
\* other core: a pod that is booked on a core already is counted on it twice.
THEOREM AddLeaksTheOverwritten ==
    ASSUME PoolTypeOK, NEW c, NEW p \in Pods, NEW info \in PodInfo,
           addPodToCore(c, p, info)
    PROVE  /\ PoolTypeOK'
           /\ \A d \in Cores :
                 Leaked(d)' = Leaked(d) + (IF d = c THEN Released(d, p) ELSE 0)
<1>1. CASE c \notin Cores
  BY <1>1, DriftIsInt DEF addPodToCore, poolVars, PoolTypeOK, Leaked, Booked
<1>2. CASE c \in Cores
  <2>1. /\ entry' = [entry EXCEPT ![c][p] = info]
        /\ usage' = [usage EXCEPT ![c] = @ + info.millis]
    BY <1>2 DEF addPodToCore
  <2>2. info.millis \in Nat
    BY PoolAssumption DEF PodInfo
  <2>3. PoolTypeOK'
    BY <1>2, <2>1, <2>2 DEF PoolTypeOK
  <2>4. ASSUME NEW d \in Cores
        PROVE  Leaked(d)' = Leaked(d) + (IF d = c THEN Released(d, p) ELSE 0)
    <3>1. usage[d] \in Int /\ entry[d] \in CoreMap /\ Booked(d) \in Nat
      BY DriftIsInt
    <3>2. CASE d # c
      <4>1. usage'[d] = usage[d] /\ entry'[d] = entry[d]
        BY <2>1, <3>2 DEF PoolTypeOK
      <4> QED
        BY <3>1, <3>2, <4>1 DEF Leaked, Booked
    <3>3. CASE d = c
      <4>1. /\ usage'[d] = usage[d] + info.millis
            /\ entry'[d] = [entry[d] EXCEPT ![p] = info]
        BY <2>1, <3>3 DEF PoolTypeOK
      <4>2. Booked(d)' = Booked(d) - Released(d, p) + info.millis
        BY <3>1, <4>1, WriteBooks DEF Booked, Released, Holds
      <4>3. Released(d, p) \in Int
        BY ReleasedIsInt
      <4> QED
        BY <2>2, <3>1, <3>3, <4>1, <4>2, <4>3 DEF Leaked
    <3> QED
      BY <3>2, <3>3
  <2> QED
    BY <2>3, <2>4
<1> QED
  BY <1>1, <1>2

\* The common part of the two removals: core d loses what p's entry says.
LEMMA ReleaseKeepsLeak ==
    ASSUME PoolTypeOK, NEW d \in Cores, NEW p \in Pods,
           usage'[d] = usage[d] - Released(d, p),
           entry'[d] = [entry[d] EXCEPT ![p] = NoEntry]
    PROVE  Leaked(d)' = Leaked(d)
<1>1. usage[d] \in Int /\ entry[d] \in CoreMap /\ Booked(d) \in Nat
  BY DriftIsInt
<1>2. Released(d, p) \in Int
  BY <1>1, PoolAssumption DEF Released, Holds, CoreMap, PodInfo
<1>3. Booked(d)' = Booked(d) - Released(d, p)
  BY <1>1, ClearReleases DEF Booked, Released, Holds
<1> QED
  BY <1>1, <1>2, <1>3 DEF Leaked

LEMMA RemoveKeepsLeak ==
    ASSUME PoolTypeOK, NEW c, NEW p \in Pods, removePodFromCore(c, p)
    PROVE  PoolTypeOK' /\ \A d \in Cores : Leaked(d)' = Leaked(d)
<1>1. CASE c \notin Cores
  BY <1>1, DriftIsInt DEF removePodFromCore, poolVars, PoolTypeOK, Leaked, Booked
<1>2. CASE c \in Cores
  <2>1. /\ entry' = [entry EXCEPT ![c][p] = NoEntry]
        /\ usage' = [usage EXCEPT ![c] = @ - Released(c, p)]
    BY <1>2 DEF removePodFromCore
  <2>2. Released(c, p) \in Int
    BY <1>2, ReleasedIsInt
  <2>3. PoolTypeOK'
    BY <1>2, <2>1, <2>2 DEF PoolTypeOK
  <2>4. ASSUME NEW d \in Cores
        PROVE  Leaked(d)' = Leaked(d)
    <3>1. usage[d] \in Int /\ entry[d] \in CoreMap /\ Booked(d) \in Nat
      BY DriftIsInt
    <3>2. CASE d # c
      <4>1. usage'[d] = usage[d] /\ entry'[d] = entry[d]
        BY <2>1, <3>2 DEF PoolTypeOK
      <4> QED
        BY <3>1, <4>1 DEF Leaked, Booked
    <3>3. CASE d = c
      <4>1. /\ usage'[d] = usage[d] - Released(d, p)
            /\ entry'[d] = [entry[d] EXCEPT ![p] = NoEntry]
        BY <2>1, <3>3 DEF PoolTypeOK
      <4>2. Leaked(d)' = Leaked(d) /\ Leaked(d) \in Int
        BY <3>1, <4>1, ReleaseKeepsLeak DEF Leaked
      <4> QED
        BY <4>2
    <3> QED
      BY <3>2, <3>3
  <2> QED
    BY <2>3, <2>4
<1> QED
  BY <1>1, <1>2

LEMMA CleanupKeepsLeak ==
    ASSUME PoolTypeOK, NEW p \in Pods, cleanupPool(p)
    PROVE  PoolTypeOK' /\ \A d \in Cores : Leaked(d)' = Leaked(d)
<1>1. ASSUME NEW d \in Cores
      PROVE  /\ usage'[d] = usage[d] - Released(d, p)
             /\ entry'[d] = [entry[d] EXCEPT ![p] = NoEntry]
             /\ usage'[d] \in Int
             /\ entry'[d] \in [Pods -> PodInfo \cup {NoEntry}]
  <2>1. Released(d, p) \in Int
    BY ReleasedIsInt
  <2> QED
    BY <2>1 DEF cleanupPool, PoolTypeOK
<1>2. PoolTypeOK'
  BY <1>1 DEF cleanupPool, PoolTypeOK
<1>3. ASSUME NEW d \in Cores
      PROVE  Leaked(d)' = Leaked(d)
  <2>1. Leaked(d) \in Int
    BY DriftIsInt DEF Leaked
  <2>2. /\ usage'[d] = usage[d] - Released(d, p)
        /\ entry'[d] = [entry[d] EXCEPT ![p] = NoEntry]
    BY <1>1
  <2>3. Leaked(d)' = Leaked(d)
    BY <2>2, ReleaseKeepsLeak
  <2> QED
    BY <2>1, <2>3
<1> QED
  BY <1>2, <1>3

\* A new pool is well typed and has no drift.
LEMMA NewPoolHasNoLeak ==
    ASSUME newPool
    PROVE  PoolTypeOK' /\ \A d \in Cores : Leaked(d)' = 0
<1>1. PoolTypeOK'
  BY DEF newPool, PoolTypeOK, emptyCore
<1>2. \A d \in Cores : usage'[d] = 0 /\ Booked(d)' = 0
  BY EmptyBooksNothing DEF newPool, Booked
<1> QED
  BY <1>1, <1>2 DEF Leaked

-----------------------------------------------------------------------------
\* Every step of the pool keeps it well typed, and drops no core's drift
\* unless it is a new pool.
LEMMA PoolStep ==
    ASSUME PoolTypeOK, [PoolNext]_poolVars
    PROVE  /\ PoolTypeOK'
           /\ newPool \/ \A d \in Cores : Leaked(d)' >= Leaked(d)
<1>1. CASE UNCHANGED poolVars
  BY <1>1, DriftIsInt DEF poolVars, PoolTypeOK, Leaked, Booked
<1>2. ASSUME NEW c \in Cores \cup OtherCores, NEW p \in Pods, NEW info \in PodInfo,
             addPodToCore(c, p, info)
      PROVE  PoolTypeOK' /\ \A d \in Cores : Leaked(d)' >= Leaked(d)
  <2>1. \A d \in Cores : Leaked(d) \in Int /\ Released(d, p) \in Nat
    BY DriftIsInt, ReleasedIsInt DEF Leaked
  <2> QED
    BY <1>2, <2>1, AddLeaksTheOverwritten
<1>3. ASSUME NEW c \in Cores \cup OtherCores, NEW p \in Pods, removePodFromCore(c, p)
      PROVE  PoolTypeOK' /\ \A d \in Cores : Leaked(d)' >= Leaked(d)
  BY <1>3, RemoveKeepsLeak, DriftIsInt DEF Leaked
<1>4. ASSUME NEW p \in Pods, cleanupPool(p)
      PROVE  PoolTypeOK' /\ \A d \in Cores : Leaked(d)' >= Leaked(d)
  BY <1>4, CleanupKeepsLeak, DriftIsInt DEF Leaked
<1>5. CASE newPool
  BY <1>5, NewPoolHasNoLeak
<1> QED
  BY <1>1, <1>2, <1>3, <1>4, <1>5 DEF PoolNext

\* The totals and entries of CPUCoreInfo stay well typed.
THEOREM PoolTyping == PoolSpec => []PoolTypeOK
<1>1. PoolInit => PoolTypeOK
  BY PoolInitTypes
<1>2. PoolTypeOK /\ [PoolNext]_poolVars => PoolTypeOK'
  BY PoolStep
<1> QED
  BY <1>1, <1>2, PTL DEF PoolSpec

\* UsageMillis never falls below the sum of the CPUMillis in core.Pods: the
\* threshold check may refuse capacity that is free, never grant capacity
\* that is taken because of the bookkeeping of the methods.
THEOREM PoolNeverUndercounts == PoolSpec => []NeverUndercounts
<1>1. PoolInit => PoolTypeOK /\ NeverUndercounts
  BY PoolInitTypes DEF NeverUndercounts
<1>2. PoolTypeOK /\ NeverUndercounts /\ [PoolNext]_poolVars
        => PoolTypeOK' /\ NeverUndercounts'
  <2> SUFFICES ASSUME PoolTypeOK, NeverUndercounts, [PoolNext]_poolVars
               PROVE  PoolTypeOK' /\ NeverUndercounts'
    OBVIOUS
  <2>1. PoolTypeOK'
    BY PoolStep
  <2>2. ASSUME NEW d \in Cores
        PROVE  Leaked(d)' >= 0
    <3>1. Leaked(d) >= 0 /\ Leaked(d) \in Int
      BY DriftIsInt DEF NeverUndercounts, Leaked
    <3>2. usage'[d] \in Int /\ Booked(d)' \in Nat
      BY <2>1, UnitsFinite DEF PoolTypeOK, Booked
    <3>3. CASE newPool
      BY <3>3, NewPoolHasNoLeak
    <3>4. CASE \A c \in Cores : Leaked(c)' >= Leaked(c)
      <4>1. Leaked(d)' \in Int
        BY <3>2 DEF Leaked
      <4> QED
        BY <3>1, <3>4, <4>1
    <3> QED
      BY <3>3, <3>4, PoolStep
  <2>3. ASSUME NEW d \in Cores
        PROVE  usage'[d] >= Booked(d)'
    <3>1. usage'[d] \in Int /\ Booked(d)' \in Nat
      BY <2>1, UnitsFinite DEF PoolTypeOK, Booked
    <3> QED
      BY <2>2, <3>1 DEF Leaked
  <2> QED
    BY <2>1, <2>3 DEF NeverUndercounts
<1> QED
  BY <1>1, <1>2, PTL DEF PoolSpec

\* Capacity leaked by overwriting an entry in addPodToCore is never released
\* again, whatever removePodFromCore and cleanupPodState do.
THEOREM PoolLeakIsForGood == PoolSpec => LeakIsForGood
<1>1. PoolTypeOK /\ [PoolNext]_poolVars
        => [newPool \/ \A c \in Cores : Leaked(c)' >= Leaked(c)]_poolVars
  BY PoolStep
<1> QED
  BY <1>1, PoolTyping, PTL DEF PoolSpec, LeakIsForGood
==============================================================================
