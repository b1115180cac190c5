--------------------------- MODULE AdmissionProofs ---------------------------
(* What the two webhooks promise of an admitted pod, for any set of         *)
(* RTSettings, any number of goroutines and any bound.                      *)
EXTENDS Admission, SequenceTheorems, WellFoundedInduction, TLAPS

\* A quotient is bounded by what bounds the dividend.
LEMMA QuotientBound ==
    ASSUME NEW a \in Nat, NEW b \in Nat \ {0}, a <= 950 * b
    PROVE  a \div b \in 0 .. 950
<1>1. a \div b \in Int /\ 0 <= (a % b) /\ a = b * (a \div b) + (a % b)
  BY SMT
<1>2. a \div b >= 0
  BY SMT
<1>3. a \div b <= 950
  <2>1. SUFFICES ASSUME a \div b >= 951 PROVE FALSE
    BY <1>1
  <2>. DEFINE q == a \div b
  <2>2. q \in Int /\ q >= 951
    BY <1>1, <2>1
  <2>. HIDE DEF q
  <2>3. b * q >= 951 * b
    BY <2>2, SMT
  <2>. QED BY <1>1, <2>3 DEF q
<1>. QED BY <1>1, <1>2, <1>3

LEMMA AmountBound ==
    ASSUME NEW s \in RTSettingsType, NEW r \in Nat \ {0},
           s.period > 0, 100 * r <= 95 * s.period
    PROVE  cpuMillis(s, r) \in 1 .. 950
<1>. DEFINE a == 1000 * r
<1>1. s.period \in Nat \ {0} /\ a \in Nat /\ a <= 950 * s.period
  BY DEF RTSettingsType
<1>. HIDE DEF a
<1>2. a \div s.period \in 0 .. 950
  BY <1>1, QuotientBound
<1>3. Truncated(a, s.period) = a \div s.period
  BY <1>1 DEF Truncated
<1>4. cpuMillis(s, r) = IF a \div s.period = 0 THEN 100 ELSE a \div s.period
  BY <1>1, <1>3 DEF cpuMillis, DefaultMillis, a
<1>. QED
  BY <1>2, <1>4

\* RTSettings the validator lets through book between 1 and 950 millicores
\* (rt_validator.go:65-98, mckube_controller.go:1405-1421).
THEOREM ValidatedAmounts ==
    ASSUME NEW s \in RTSettingsType, validateRTSettings(s)
    PROVE  /\ s.period > 0
           /\ cpuMillis(s, s.low) \in 1 .. 950
           /\ cpuMillis(s, s.hi) \in 1 .. 950
<1>1. s.period \in Nat \ {0} /\ s.low \in Nat \ {0} /\ s.hi \in Nat \ {0}
  BY DEF validateRTSettings, RTSettingsType
<1>2. 100 * ((95 * s.period) \div 100) <= 95 * s.period
  BY <1>1
<1>3. 100 * s.hi <= 95 * s.period /\ 100 * s.low <= 95 * s.period
  BY <1>1, <1>2 DEF validateRTSettings
<1>4. s.period > 0
  BY <1>1
<1>5. cpuMillis(s, s.low) \in 1 .. 950 /\ cpuMillis(s, s.hi) \in 1 .. 950
  BY <1>1, <1>3, <1>4, AmountBound, SMTT(30)
<1>. QED
  BY <1>4, <1>5

-----------------------------------------------------------------------------
(***************************************************************************)
(* The core set of a CR.  What holds of every string is proved from the    *)
(* least part of one for which it would not.                               *)
(***************************************************************************)

\* Every non-empty set of naturals has a least element.
LEMMA LeastNat ==
    ASSUME NEW T \in SUBSET Nat, T # {}
    PROVE  \E n \in T : \A m \in T : n <= m
<1>1. PICK n \in T : \A m \in T : <<m, n>> \notin OpToRel(<, Nat)
  BY NatLessThanWellFounded, WFMin, Zenon
<1>2. \A m \in T : m \in Nat /\ ~(m < n)
  BY <1>1, Zenon DEF OpToRel
<1>. QED
  BY <1>2

\* f[i] is the concatenation of the first i sequences of ss, for i up to n.
Concatenates(f, ss, n) ==
    f = [i \in 1 .. n |-> IF i = 1 THEN ss[i] ELSE f[i - 1] \o ss[i]]

\* The recursive function FlattenSeq is written with exists, for any sequences.
LEMMA ConcatenationExists ==
    ASSUME NEW ss, NEW n \in Nat
    PROVE  \E f : Concatenates(f, ss, n)
<1>. DEFINE Lacking == {k \in Nat : ~\E f : Concatenates(f, ss, k)}
<1>1. SUFFICES ASSUME Lacking # {} PROVE FALSE
  OBVIOUS
<1>2. PICK k \in Lacking : \A m \in Lacking : k <= m
  BY <1>1, LeastNat
<1>3. CASE k = 0
  <2>1. Concatenates([i \in 1 .. 0 |-> ss[i]], ss, 0)
    BY DEF Concatenates
  <2>. QED BY <1>2, <1>3, <2>1
<1>4. CASE k # 0
  <2>1. k - 1 \in Nat /\ k - 1 \notin Lacking
    BY <1>2, <1>4
  <2>2. PICK g : Concatenates(g, ss, k - 1)
    BY <2>1
  <2>. DEFINE f == [i \in 1 .. k |-> IF i < k THEN g[i]
                                    ELSE IF i = 1 THEN ss[i] ELSE g[i - 1] \o ss[i]]
  <2>3. \A i \in 1 .. k - 1 : g[i] = IF i = 1 THEN ss[i] ELSE g[i - 1] \o ss[i]
    BY <2>1, <2>2 DEF Concatenates
  <2>4. \A i \in 1 .. k : f[i] = IF i = 1 THEN ss[i] ELSE f[i - 1] \o ss[i]
    <3>1. TAKE i \in 1 .. k
    <3>2. CASE i < k
      BY <1>2, <2>3, <3>2
    <3>3. CASE i = k
      BY <1>2, <1>4, <3>3
    <3>. QED BY <1>2, <3>2, <3>3
  <2>. HIDE DEF f
  <2>5. f = [i \in 1 .. k |-> f[i]]
    BY DEF f
  <2>6. Concatenates(f, ss, k)
    BY <2>4, <2>5 DEF Concatenates
  <2>. QED BY <1>2, <2>6
<1>. QED BY <1>3, <1>4

LEMMA FlattenIsConcatenation ==
    ASSUME NEW ss, Len(ss) \in Nat \ {0}
    PROVE  \E f : Concatenates(f, ss, Len(ss)) /\ FlattenSeq(ss) = f[Len(ss)]
<1>. DEFINE f == CHOOSE g : g = [i \in 1 .. Len(ss) |->
                               IF i = 1 THEN ss[i] ELSE g[i - 1] \o ss[i]]
<1>1. FlattenSeq(ss) = f[Len(ss)]
  BY DEF FlattenSeq
<1>2. \E g : g = [i \in 1 .. Len(ss) |->
                               IF i = 1 THEN ss[i] ELSE g[i - 1] \o ss[i]]
  BY ConcatenationExists DEF Concatenates
<1>3. Concatenates(f, ss, Len(ss))
  BY <1>2 DEF Concatenates
<1>. QED BY <1>1, <1>3

LEMMA ConcatenationNumbers ==
    ASSUME NEW s \in Seq(Int), NEW t \in Seq(Int)
    PROVE  s \o t \in Seq(Int) /\ ToSet(s \o t) = ToSet(s) \cup ToSet(t)
<1>1. /\ s \o t \in Seq(Int) /\ Len(s \o t) = Len(s) + Len(t)
      /\ \A i \in 1 .. Len(s) + Len(t) :
            (s \o t)[i] = IF i <= Len(s) THEN s[i] ELSE t[i - Len(s)]
  BY ConcatProperties
<1>2. ASSUME NEW x, x \in ToSet(s \o t) PROVE x \in ToSet(s) \cup ToSet(t)
  BY <1>1, <1>2 DEF ToSet
<1>3. ASSUME NEW x, x \in ToSet(s) PROVE x \in ToSet(s \o t)
  <2>1. PICK j \in 1 .. Len(s) : x = s[j]
    BY <1>3 DEF ToSet
  <2>2. j \in 1 .. Len(s \o t) /\ (s \o t)[j] = x
    BY <1>1, <2>1
  <2>. QED BY <1>1, <2>2 DEF ToSet
<1>4. ASSUME NEW x, x \in ToSet(t) PROVE x \in ToSet(s \o t)
  <2>1. PICK j \in 1 .. Len(t) : x = t[j]
    BY <1>4 DEF ToSet
  <2>2. j + Len(s) \in 1 .. Len(s \o t) /\ (s \o t)[j + Len(s)] = x
    BY <1>1, <2>1
  <2>. QED BY <1>1, <2>2 DEF ToSet
<1>. QED BY <1>1, <1>2, <1>3, <1>4

\* The numbers in the first k sequences of ss.
Gathered(ss, k) == UNION {ToSet(ss[i]) : i \in 1 .. k}

\* By the least prefix that would lack a number, or have one too many.
LEMMA ConcatenationGathers ==
    ASSUME NEW n \in Nat, NEW ss \in [1 .. n -> Seq(Int)], NEW f,
           Concatenates(f, ss, n), NEW k \in 1 .. n
    PROVE  f[k] \in Seq(Int) /\ ToSet(f[k]) = Gathered(ss, k)
<1>. DEFINE Gathers(j) == f[j] \in Seq(Int) /\ ToSet(f[j]) = Gathered(ss, j)
            Lacking == {j \in 1 .. n : ~Gathers(j)}
<1>1. \A i \in 1 .. n : f[i] = IF i = 1 THEN ss[i] ELSE f[i - 1] \o ss[i]
  BY DEF Concatenates
<1>2. Gathers(1)
  <2>1. 1 .. 1 = {1} /\ f[1] = ss[1] /\ ss[1] \in Seq(Int)
    BY <1>1
  <2>. QED BY <2>1 DEF Gathered
<1>3. ASSUME NEW j \in 2 .. n, Gathers(j - 1) PROVE Gathers(j)
  <2>. j \in 1 .. n /\ j # 1
    OBVIOUS
  <2>1. f[j] = f[j - 1] \o ss[j] /\ ss[j] \in Seq(Int)
    BY <1>1
  <2>2. f[j] \in Seq(Int) /\ ToSet(f[j]) = ToSet(f[j - 1]) \cup ToSet(ss[j])
    BY <1>3, <2>1, ConcatenationNumbers
  <2>3. 1 .. j = (1 .. j - 1) \cup {j}
    OBVIOUS
  <2>4. Gathered(ss, j) = Gathered(ss, j - 1) \cup ToSet(ss[j])
    BY <2>3, Zenon DEF Gathered
  <2>. QED BY <1>3, <2>2, <2>4
<1>. HIDE DEF Gathers
<1>4. SUFFICES ASSUME Lacking # {} PROVE FALSE
  BY DEF Gathers
<1>5. Lacking \in SUBSET Nat
  OBVIOUS
<1>. HIDE DEF Lacking
<1>6. PICK j \in Lacking : \A m \in Lacking : j <= m
  BY <1>4, <1>5, LeastNat
<1>7. j \in 2 .. n /\ ~Gathers(j)
  BY <1>2, <1>6 DEF Lacking
<1>8. j - 1 \in 1 .. n /\ j - 1 \notin Lacking
  BY <1>5, <1>6, <1>7
<1>9. Gathers(j - 1)
  BY <1>8 DEF Lacking
<1>. QED BY <1>3, <1>7, <1>9

LEMMA PartNumbers ==
    ASSUME NEW part \in Parts
    PROVE  CoresOfPart(part) \in Seq(Int)
<1>1. CASE part.dashes = 1
  <2>. DEFINE n == Number(part.last) - Number(part.first) + 1
  <2>1. n \in Int /\ Number(part.first) \in Int
    BY DEF Parts, Number, NoNumber
  <2>2. CASE n \in Nat
    BY <1>1, <2>1, <2>2, IsASeq DEF CoresOfPart, CoresOfRange
  <2>3. CASE n < 0
    <3>1. CoresOfPart(part) = [i \in 1 .. 0 |-> Number(part.first) + i - 1]
      BY <1>1, <2>1, <2>3 DEF CoresOfPart, CoresOfRange
    <3>. QED BY <2>1, <3>1, IsASeq
  <2>. QED BY <2>1, <2>2, <2>3
<1>2. CASE part.dashes = 0 /\ part.first # NoNumber
  BY <1>2 DEF CoresOfPart, Parts
<1>3. CASE ~(part.dashes = 1) /\ ~(part.dashes = 0 /\ part.first # NoNumber)
  BY <1>3 DEF CoresOfPart
<1>. QED BY <1>1, <1>2, <1>3

\* Sscanf and the loop of parseCoreSet, for one part of the string
\* (mckube_controller.go:1357-1378).
LEMMA PartAsWritten ==
    ASSUME NEW part \in Parts, part.dashes \in {0, 1}, part.first # NoNumber,
           part.dashes = 1 => part.first <= part.last
    PROVE  ToSet(CoresOfPart(part))
             = IF part.dashes = 1 THEN part.first .. part.last ELSE {part.first}
<1>1. CASE part.dashes = 1
  <2>1. part.first \in Nat /\ part.last \in Nat /\ part.first <= part.last
    BY <1>1 DEF Parts, NoNumber
  <2>2. CoresOfPart(part) = [i \in 1 .. part.last - part.first + 1 |-> part.first + i - 1]
    BY <1>1, <2>1 DEF CoresOfPart, CoresOfRange, Number, NoNumber
  <2>3. ASSUME NEW x \in part.first .. part.last PROVE x \in ToSet(CoresOfPart(part))
    <3>1. x - part.first + 1 \in 1 .. part.last - part.first + 1
      BY <2>1
    <3>2. CoresOfPart(part)[x - part.first + 1] = x
      BY <2>1, <2>2, <3>1
    <3>. QED BY <2>2, <3>1, <3>2 DEF ToSet
  <2>4. ASSUME NEW x \in ToSet(CoresOfPart(part)) PROVE x \in part.first .. part.last
    BY <2>1, <2>2 DEF ToSet
  <2>. QED BY <1>1, <2>3, <2>4
<1>2. CASE part.dashes = 0
  <2>1. CoresOfPart(part) = <<part.first>>
    BY <1>2 DEF CoresOfPart
  <2>. QED BY <1>2, <2>1 DEF ToSet
<1>. QED BY <1>1, <1>2

\* parseCoreSet reads from a core set of numbers and ranges, of any length, the
\* cores it names and no other (mckube_controller.go:1345-1382).
THEOREM CoreSetIsReadAsWritten ==
    ASSUME NEW core \in Seq(Parts), WellFormed(core)
    PROVE  ToSet(parseCoreSet(core)) = Named(core)
<1>. DEFINE ss == [i \in DOMAIN core |-> CoresOfPart(core[i])]
            n  == Len(core)
<1>1. n \in Nat /\ DOMAIN core = 1 .. n /\ \A i \in 1 .. n : core[i] \in Parts
  OBVIOUS
<1>2. ss \in [1 .. n -> Seq(Int)] /\ Len(ss) = n
  <2>1. \A i \in 1 .. n : CoresOfPart(core[i]) \in Seq(Int)
    BY <1>1, PartNumbers
  <2>2. ss \in [1 .. n -> Seq(Int)]
    BY <1>1, <2>1
  <2>. QED BY <1>1, <2>2, LenProperties
<1>3. \A i \in 1 .. n :
         ToSet(ss[i]) = IF core[i].dashes = 1 THEN core[i].first .. core[i].last
                                              ELSE {core[i].first}
  BY <1>1, PartAsWritten DEF WellFormed
<1>4. Named(core) = Gathered(ss, n)
  BY <1>1, <1>3 DEF Named, Gathered
<1>5. parseCoreSet(core) = FlattenSeq(ss)
  BY DEF parseCoreSet
<1>. HIDE DEF ss
<1>6. CASE n = 0
  <2>1. FlattenSeq(ss) = ss /\ ss \in Seq(Int)
    BY <1>2, <1>6 DEF FlattenSeq
  <2>2. ToSet(ss) = {} /\ Gathered(ss, n) = {}
    BY <1>2, <1>6 DEF ToSet, Gathered
  <2>. QED BY <1>4, <1>5, <2>1, <2>2
<1>7. CASE n # 0
  <2>1. PICK f : Concatenates(f, ss, n) /\ FlattenSeq(ss) = f[n]
    BY <1>1, <1>2, <1>7, FlattenIsConcatenation
  <2>2. ToSet(f[n]) = Gathered(ss, n)
    <3>1. n \in 1 .. n
      BY <1>1, <1>7
    <3>. HIDE DEF n
    <3>. QED BY <1>1, <1>2, <2>1, <3>1, ConcatenationGathers
  <2>. QED BY <1>4, <1>5, <2>1, <2>2
<1>. QED BY <1>6, <1>7

-----------------------------------------------------------------------------
(***************************************************************************)
(* Types                                                                   *)
(***************************************************************************)

TaskTypeOK ==
    /\ task \in [Tasks -> TaskRecords]
    /\ \A t \in Tasks : task[t].at # "idle" => task[t].settings \in Settings

LEMMA IdleTypes == Idle \in TaskRecords /\ Idle.at = "idle" /\ Idle.fate = "none"
  BY DEF Idle, TaskRecords, Places, MaybeSettings, Fates

\* A goroutine whose request was stored, or that works on a running container,
\* has the pod to go with it.
Attached == \A t \in Tasks : Own(t) \/ task[t].at = "posting" => Exists

LEMMA EventTypes ==
    ASSUME events \in 0 .. MaxEvents, Event \/ UNCHANGED events
    PROVE  events' \in 0 .. MaxEvents
  BY AdmissionAssumption DEF Event

LEMMA AnsweredTypes ==
    ASSUME TypeOK, NEW fate \in Fates, Answered(fate)
    PROVE  request' = NoRequest /\ TaskTypeOK'
<1>. QED
  BY DEF Answered, TypeOK, TaskTypeOK, TaskRecords

LEMMA EndedTypes ==
    ASSUME TypeOK, NEW t \in Tasks, Ended(t)
    PROVE  TaskTypeOK'
  BY IdleTypes DEF Ended, TypeOK, TaskTypeOK

LEMMA GoToTypes ==
    ASSUME TypeOK, NEW t \in Tasks, NEW place \in Places,
           task[t].at # "idle", GoTo(t, place)
    PROVE  TaskTypeOK'
  BY DEF GoTo, TypeOK, TaskTypeOK, TaskRecords

LEMMA RequestTypes ==
    ASSUME TypeOK, request # NoRequest
    PROVE  request \in Requests
  BY DEF TypeOK

LEMMA PodTypes ==
    ASSUME TypeOK, Exists
    PROVE  pod \in Pods
  BY DEF TypeOK, Exists

LEMMA TypeInit == Init => TypeOK
  BY AdmissionAssumption, IdleTypes DEF Init, TypeOK

LEMMA MutateTypes ==
    ASSUME TypeOK, MutateNothing \/ Mutate
    PROVE  TypeOK'
<1>1. CASE MutateNothing
  <2>1. \A dry \in BOOLEAN : NewRequest(dry, NoSettings, NoTask, FALSE) \in Requests
    BY DEF NewRequest, Requests, MaybeSettings
  <2>. QED
    BY <1>1, <2>1, EventTypes DEF MutateNothing, TypeOK
<1>2. CASE Mutate
  <2>1. cr \in Settings
    BY <1>2 DEF Mutate, TypeOK, MaybeSettings
  <2>2. \A dry \in BOOLEAN, t \in Tasks : NewRequest(dry, cr, t, TRUE) \in Requests
    BY <2>1 DEF NewRequest, Requests, MaybeSettings
  <2>3. [at |-> "polling", settings |-> cr, fate |-> "open"] \in TaskRecords
    BY <2>1 DEF TaskRecords, Places, Fates, MaybeSettings
  <2>4. PICK dry \in BOOLEAN, t \in Tasks :
           /\ request' = NewRequest(dry, cr, t, TRUE)
           /\ task' = [task EXCEPT ![t] =
                          [at |-> "polling", settings |-> cr, fate |-> "open"]]
    BY <1>2 DEF Mutate
  <2>5. request' \in Requests /\ TaskTypeOK'
    BY <2>1, <2>2, <2>3, <2>4 DEF TypeOK, TaskTypeOK
  <2>6. cr' = cr /\ pod' = pod /\ events' \in 0 .. MaxEvents
    BY <1>2, EventTypes DEF Mutate, TypeOK
  <2>. QED
    BY <2>5, <2>6 DEF TypeOK, TaskTypeOK
<1>. QED BY <1>1, <1>2

LEMMA ReviewTypes ==
    ASSUME TypeOK, Deny \/ Allow \/ AllowUnread
    PROVE  TypeOK'
<1>1. CASE Deny
  <2>1. request' = NoRequest /\ TaskTypeOK'
    BY <1>1, AnsweredTypes DEF Deny, Fates
  <2>. QED
    BY <1>1, <2>1 DEF Deny, TypeOK, TaskTypeOK
<1>2. CASE Allow
  <2>1. request' \in Requests
    BY <1>2, RequestTypes DEF Allow, Requests
  <2>. QED
    BY <1>2, <2>1 DEF Allow, TypeOK
<1>3. CASE AllowUnread
  <2>1. request' \in Requests
    BY <1>3, RequestTypes DEF AllowUnread, Requests
  <2>. QED
    BY <1>3, <2>1, EventTypes DEF AllowUnread, TypeOK
<1>. QED BY <1>1, <1>2, <1>3

LEMMA StoreTypes ==
    ASSUME TypeOK, Store \/ StoreNothing
    PROVE  TypeOK'
<1>1. CASE Store
  <2>1. request \in Requests
    BY <1>1, RequestTypes DEF Store
  <2>2. pod' \in Pods
    BY <1>1, <2>1 DEF Store, Pods, Requests
  <2>3. request' = NoRequest /\ TaskTypeOK'
    BY <1>1, AnsweredTypes DEF Store, Fates
  <2>. QED
    BY <1>1, <2>2, <2>3 DEF Store, TypeOK, TaskTypeOK
<1>2. CASE StoreNothing
  <2>1. request' = NoRequest /\ TaskTypeOK'
    BY <1>2, AnsweredTypes DEF StoreNothing, Fates
  <2>. QED
    BY <1>2, <2>1 DEF StoreNothing, TypeOK, TaskTypeOK
<1>. QED BY <1>1, <1>2

\* The steps of a goroutine that change the pod leave it a pod.
LEMMA PodStays ==
    ASSUME TypeOK, Attached, NEW t \in Tasks, Timeout(t) \/ Post(t) \/ Mark(t)
    PROVE  pod' = pod \/ (Exists /\ pod' \in Pods)
<1>1. CASE Timeout(t)
  BY <1>1, PodTypes DEF Timeout, Attached, Pods
<1>2. CASE Post(t)
  <2>1. task[t].settings \in Settings /\ task[t].fate \in Fates
    BY <1>2 DEF Post, TypeOK, TaskRecords
  <2>. QED
    BY <1>2, <2>1, PodTypes DEF Post, Attached, Pods
<1>3. CASE Mark(t)
  BY <1>3, PodTypes DEF Mark, Pods
<1>. QED BY <1>1, <1>2, <1>3

LEMMA TaskTypes ==
    ASSUME TypeOK, Attached, NEW t \in Tasks, Task(t)
    PROVE  TypeOK'
<1>1. TaskTypeOK'
  <2>1. CASE PollEnds(t) \/ Timeout(t) \/ Mark(t)
    BY <2>1, EndedTypes DEF PollEnds, Timeout, Mark
  <2>2. CASE PollFinds(t)
    BY <2>2, GoToTypes DEF PollFinds, Places
  <2>3. CASE Post(t)
    BY <2>3, GoToTypes DEF Post, Places
  <2>4. CASE PostFails(t)
    BY <2>4, GoToTypes DEF PostFails, Places
  <2>. QED BY <2>1, <2>2, <2>3, <2>4 DEF Task
<1>2. pod' \in Pods \cup {NoPod}
  <2>1. CASE Timeout(t) \/ Post(t) \/ Mark(t)
    BY <2>1, PodStays DEF TypeOK
  <2>2. CASE PollEnds(t) \/ PollFinds(t) \/ PostFails(t)
    BY <2>2 DEF PollEnds, PollFinds, PostFails, TypeOK
  <2>. QED BY <2>1, <2>2 DEF Task
<1>3. /\ cr' = cr /\ request' = request
      /\ Event \/ UNCHANGED events
  BY DEF Task, PollEnds, PollFinds, PostFails, Timeout, Post, Mark
<1>. QED
  BY <1>1, <1>2, <1>3, EventTypes DEF TypeOK, TaskTypeOK

LEMMA SurroundingTypes ==
    ASSUME TypeOK, EditCR \/ Run \/ DeletePod \/ Restart
    PROVE  TypeOK'
<1>1. CASE EditCR
  <2>1. request' \in Requests \cup {NoRequest}
    BY <1>1, RequestTypes DEF EditCR, Requests, TypeOK
  <2>. QED
    BY <1>1, <2>1, EventTypes DEF EditCR, TypeOK
<1>2. CASE Run
  BY <1>2, PodTypes DEF Run, TypeOK, Pods
<1>3. CASE DeletePod
  <2>1. TaskTypeOK'
    BY <1>3 DEF DeletePod, TypeOK, TaskTypeOK, TaskRecords, Places, Fates
  <2>. QED
    BY <1>3, <2>1, EventTypes DEF DeletePod, TypeOK, TaskTypeOK
<1>4. CASE Restart
  <2>1. pod' \in Pods \cup {NoPod}
    BY <1>4 DEF Restart, TypeOK, Pods, Exists
  <2>2. TaskTypeOK'
    BY <1>4, IdleTypes DEF Restart, TaskTypeOK
  <2>. QED
    BY <1>4, <2>1, <2>2, EventTypes DEF Restart, TypeOK, TaskTypeOK
<1>. QED BY <1>1, <1>2, <1>3, <1>4

LEMMA AttachedStep ==
    ASSUME TypeOK, Attached, TypeOK', [Next]_vars
    PROVE  Attached'
<1>1. CASE UNCHANGED vars
  BY <1>1 DEF vars, Attached, Own, Exists
<1>2. CASE MutateNothing
  BY <1>2 DEF MutateNothing, Attached, Own, Exists
<1>3. CASE Mutate
  BY <1>3 DEF Mutate, TypeOK, Attached, Own, Exists
<1>4. CASE Deny \/ StoreNothing
  <2>1. PICK fate \in {"denied", "dry", "refused"} : Answered(fate)
    BY <1>4 DEF Deny, StoreNothing
  <2>. QED
    BY <1>4, <2>1
    DEF Deny, StoreNothing, Answered, TypeOK, TaskRecords, Attached, Own, Exists
<1>5. CASE Allow \/ AllowUnread
  BY <1>5 DEF Allow, AllowUnread, Attached, Own, Exists
<1>6. CASE Store
  <2>1. request \in Requests
    BY <1>6, RequestTypes DEF Store
  <2>2. pod' \in Pods
    BY <1>6, <2>1 DEF Store, Requests, Pods
  <2>. QED
    BY <2>2, NoPodAssumption DEF Attached, Exists
<1>7. ASSUME NEW t \in Tasks, Task(t) PROVE Attached'
  <2>1. Exists => Exists'
    <3>1. CASE PollEnds(t) \/ PollFinds(t) \/ PostFails(t)
      BY <3>1 DEF PollEnds, PollFinds, PostFails, Exists
    <3>2. CASE Timeout(t) \/ Post(t) \/ Mark(t)
      BY <3>2, PodStays, NoPodAssumption DEF Exists
    <3>. QED BY <1>7, <3>1, <3>2 DEF Task
  <2>2. CASE Ended(t)
    BY <2>1, <2>2, IdleTypes DEF Ended, TypeOK, Attached, Own
  <2>3. CASE GoTo(t, "marking") \/ GoTo(t, "polling")
    BY <2>1, <2>3 DEF GoTo, TypeOK, TaskRecords, Attached, Own
  <2>4. CASE GoTo(t, "posting") /\ Exists
    BY <2>1, <2>4 DEF Attached
  <2>. QED
    BY <1>7, <2>2, <2>3, <2>4
    DEF Task, PollEnds, PollFinds, Timeout, Post, PostFails, Mark, Runs
<1>8. CASE EditCR
  BY <1>8 DEF EditCR, Attached, Own, Exists
<1>9. CASE Run
  <2>1. pod' \in Pods
    BY <1>9, PodTypes DEF Run, Pods
  <2>. QED
    BY <2>1, NoPodAssumption DEF Attached, Exists
<1>10. CASE DeletePod
  BY <1>10 DEF DeletePod, TypeOK, TaskRecords, Attached, Own
<1>11. CASE Restart
  BY <1>11, IdleTypes DEF Restart, Attached, Own
<1>. QED
  BY <1>1, <1>2, <1>3, <1>4, <1>5, <1>6, <1>7, <1>8, <1>9, <1>10, <1>11 DEF Next

LEMMA TypeStep == TypeOK /\ Attached /\ [Next]_vars => TypeOK' /\ Attached'
<1>1. ASSUME TypeOK, UNCHANGED vars PROVE TypeOK'
  BY <1>1 DEF vars, TypeOK
<1>2. ASSUME TypeOK, Attached, [Next]_vars PROVE TypeOK'
  BY <1>1, <1>2, MutateTypes, ReviewTypes, StoreTypes, TaskTypes, SurroundingTypes
  DEF Next
<1>. QED
  BY <1>2, AttachedStep

\* Requests, pods and goroutines keep their types; in particular a goroutine
\* never runs without settings (PodMutator.Handle).
THEOREM AdmissionTyping == Spec => []TypeOK
<1>1. Init => TypeOK /\ Attached
  BY TypeInit, IdleTypes DEF Init, Attached, Own
<1>. QED
  BY <1>1, TypeStep, PTL DEF Spec

-----------------------------------------------------------------------------
(***************************************************************************)
(* What the two webhooks know of a request                                 *)
(***************************************************************************)

\* While both see the same settings, those the mutating one started a goroutine
\* with are the CR's until the validating one has passed them.
RequestKnown ==
    request # NoRequest /\ request.known =>
        /\ request.settings \in Settings
        /\ ~request.validated => request.settings = cr
        /\ request.validated => validateRTSettings(request.settings)

PodKnown ==
    Exists /\ pod.known =>
        pod.settings \in Settings /\ validateRTSettings(pod.settings)

AdmissionInv == TypeOK /\ Attached /\ RequestKnown /\ PodKnown

LEMMA RequestKnownStep ==
    ASSUME AdmissionInv, [Next]_vars
    PROVE  RequestKnown'
<1>. USE DEF AdmissionInv
<1>1. CASE UNCHANGED <<request, cr>>
  BY <1>1 DEF RequestKnown
<1>2. CASE MutateNothing
  BY <1>2 DEF MutateNothing, NewRequest, RequestKnown
<1>3. CASE Mutate
  <2>1. cr \in Settings /\ cr' = cr
    BY <1>3 DEF Mutate, TypeOK, MaybeSettings
  <2>. QED
    BY <1>3, <2>1 DEF Mutate, NewRequest, RequestKnown
<1>4. CASE request' = NoRequest
  BY <1>4 DEF RequestKnown
<1>5. CASE Allow
  <2>1. request \in Requests
    BY <1>5, RequestTypes DEF Allow
  <2>2. request.known => request.settings = cr /\ cr # NoSettings
    BY <1>5, AdmissionAssumption DEF Allow, RequestKnown
  <2>. QED
    BY <1>5, <2>1, <2>2 DEF Allow, RequestKnown, Requests
<1>6. CASE AllowUnread
  <2>1. request \in Requests
    BY <1>6, RequestTypes DEF AllowUnread
  <2>. QED
    BY <1>6, <2>1 DEF AllowUnread, RequestKnown, Requests
<1>7. CASE EditCR
  <2>1. CASE request = NoRequest
    BY <1>7, <2>1 DEF EditCR, RequestKnown
  <2>2. CASE request # NoRequest
    <3>1. request \in Requests
      BY <2>2, RequestTypes
    <3>. QED
      BY <1>7, <2>2, <3>1 DEF EditCR, RequestKnown, Requests
  <2>. QED BY <2>1, <2>2
<1>8. ASSUME NEW t \in Tasks, Task(t) PROVE UNCHANGED <<request, cr>>
  BY <1>8 DEF Task, PollEnds, PollFinds, Timeout, Post, PostFails, Mark
<1>9. CASE Deny \/ Store \/ StoreNothing \/ Run \/ DeletePod \/ Restart
  BY <1>1, <1>4, <1>9 DEF Deny, Store, StoreNothing, Answered, Run, DeletePod, Restart
<1>. QED
  BY <1>1, <1>2, <1>3, <1>5, <1>6, <1>7, <1>8, <1>9 DEF Next, vars

LEMMA PodKnownStep ==
    ASSUME AdmissionInv, [Next]_vars
    PROVE  PodKnown'
<1>. USE DEF AdmissionInv
<1>1. CASE UNCHANGED pod \/ pod' = NoPod
  BY <1>1 DEF PodKnown, Exists
<1>2. CASE Store
  BY <1>2 DEF Store, RequestKnown, PodKnown
<1>3. ASSUME Exists, pod'.settings = pod.settings, pod'.known = pod.known
      PROVE  PodKnown'
  BY <1>3 DEF PodKnown
<1>4. ASSUME NEW t \in Tasks, Task(t) PROVE PodKnown'
  <2>1. CASE Timeout(t) /\ Own(t)
    BY <1>3, <2>1, PodTypes DEF Timeout, Attached, Pods
  <2>2. CASE Post(t) /\ task[t].at = "posting"
    BY <1>3, <2>2, PodTypes DEF Post, Attached, Pods
  <2>3. CASE Mark(t)
    BY <1>1, <1>3, <2>3, PodTypes DEF Mark, Pods
  <2>. QED
    BY <1>1, <1>4, <2>1, <2>2, <2>3
    DEF Task, PollEnds, PollFinds, Timeout, Post, PostFails
<1>5. CASE Run \/ Restart
  BY <1>1, <1>3, <1>5, PodTypes DEF Run, Restart, Pods
<1>6. CASE MutateNothing \/ Mutate \/ Deny \/ Allow \/ AllowUnread \/ StoreNothing
           \/ EditCR \/ DeletePod \/ UNCHANGED vars
  BY <1>1, <1>6
  DEF MutateNothing, Mutate, Deny, Allow, AllowUnread, StoreNothing, EditCR,
      DeletePod, vars
<1>. QED
  BY <1>2, <1>4, <1>5, <1>6 DEF Next

\* The inductive invariant: what the mutating webhook read stays what the CR
\* says, and what the validating one lets through, unless one of them is told
\* otherwise.
THEOREM AdmissionInvariant == Spec => []AdmissionInv
<1>1. Init => AdmissionInv
  BY TypeInit, IdleTypes
  DEF Init, AdmissionInv, Attached, Own, RequestKnown, PodKnown, Exists
<1>2. AdmissionInv /\ [Next]_vars => AdmissionInv'
  BY TypeStep, RequestKnownStep, PodKnownStep DEF AdmissionInv
<1>. QED
  BY <1>1, <1>2, PTL DEF Spec

\* A pod both webhooks saw the same settings for books between 1 and 950
\* millicores on a core, whatever settings there are (RTValidator.Handle,
\* updateCPUPoolForPod).
THEOREM AdmittedAmountsHold == Spec => []AdmittedAmounts
<1>1. AdmissionInv => AdmittedAmounts
  BY ValidatedAmounts, AdmissionAssumption
  DEF AdmissionInv, PodKnown, AdmittedAmounts
<1>. QED
  BY <1>1, AdmissionInvariant, PTL

\* Whatever core sets the CR is given, what is read of a well-formed one is what
\* it says (parseCoreSet).
THEOREM CoresReadAsWritten == Spec => []CoresAsWritten
<1>1. TypeOK => CoresAsWritten
  <2>1. SUFFICES ASSUME TypeOK, cr # NoSettings, WellFormed(cr.core)
                 PROVE  ToSet(parseCoreSet(cr.core)) = Named(cr.core)
    BY DEF CoresAsWritten
  <2>2. cr \in RTSettingsType
    BY <2>1, AdmissionAssumption DEF TypeOK, MaybeSettings
  <2>3. cr.core \in Seq(Parts)
    BY <2>2 DEF RTSettingsType
  <2>. QED BY <2>1, <2>3, CoreSetIsReadAsWritten
<1>. QED
  BY <1>1, AdmissionTyping, PTL

-----------------------------------------------------------------------------
(***************************************************************************)
(* A pod and the goroutine that was started for it                         *)
(***************************************************************************)

\* While a request is open, so is its goroutine, if it has not ended, and has
\* the settings of the request.
RequestTask ==
    request # NoRequest =>
        \A t \in Tasks : t = request.task /\ ~Idling(t) =>
            task[t].fate = "open" /\ task[t].settings = request.settings

OwnInv == TypeOK /\ Attached /\ RequestTask /\ OwnGoroutineAttends

\* What a goroutine's step does to goroutines.
LEMMA TaskMoves ==
    ASSUME TypeOK, NEW t \in Tasks, Task(t)
    PROVE  /\ request' = request /\ ~Idling(t)
           /\ \/ task' = [task EXCEPT ![t] = Idle]
              \/ \E place \in Places : /\ place # "idle"
                                     /\ task' = [task EXCEPT ![t].at = place]
  BY DEF Task, PollEnds, PollFinds, Timeout, Post, PostFails, Mark, Ended, GoTo,
         Places, Idling

LEMMA RequestTaskStep ==
    ASSUME TypeOK, RequestTask, [Next]_vars
    PROVE  RequestTask'
<1>1. CASE UNCHANGED <<request, task>>
  BY <1>1 DEF RequestTask, Idling
<1>2. CASE request' = NoRequest
  BY <1>2 DEF RequestTask
<1>3. CASE MutateNothing
  BY <1>3, AdmissionAssumption DEF MutateNothing, NewRequest, RequestTask
<1>4. CASE Mutate
  BY <1>4 DEF Mutate, NewRequest, RequestTask, TypeOK
<1>5. CASE Allow \/ AllowUnread
  <2>1. request \in Requests /\ request # NoRequest /\ task' = task
    BY <1>5, RequestTypes DEF Allow, AllowUnread
  <2>2. request'.task = request.task /\ request'.settings = request.settings
    BY <1>5, <2>1 DEF Allow, AllowUnread, Requests
  <2>. QED BY <2>1, <2>2 DEF RequestTask, Idling
<1>6. CASE EditCR
  <2>1. CASE request' = request
    BY <1>1, <1>6, <2>1 DEF EditCR
  <2>2. CASE request' # request
    <3>1. request \in Requests /\ request # NoRequest
      BY <1>6, <2>2, RequestTypes DEF EditCR
    <3>2. /\ task' = task
          /\ request'.task = request.task /\ request'.settings = request.settings
      BY <1>6, <2>2, <3>1 DEF EditCR, Requests
    <3>. QED BY <3>1, <3>2 DEF RequestTask, Idling
  <2>. QED BY <2>1, <2>2
<1>7. ASSUME NEW t \in Tasks, Task(t) PROVE RequestTask'
  <2>1. task \in [Tasks -> TaskRecords]
    BY DEF TypeOK
  <2>2. \A u \in Tasks : \/ task'[u].at = "idle"
                         \/ /\ ~Idling(u) \/ task'[u] = task[u]
                            /\ task'[u].fate = task[u].fate
                            /\ task'[u].settings = task[u].settings
    BY <1>7, <2>1, TaskMoves, IdleTypes DEF TaskRecords
  <2>3. request' = request
    BY <1>7, TaskMoves
  <2>. QED BY <2>2, <2>3 DEF RequestTask, Idling
<1>8. CASE DeletePod
  BY <1>8 DEF DeletePod, TypeOK, TaskRecords, RequestTask, Idling
<1>9. CASE Restart
  BY <1>9, IdleTypes DEF Restart, RequestTask, Idling
<1>10. CASE Deny \/ Store \/ StoreNothing \/ Run
  BY <1>1, <1>2, <1>10 DEF Deny, Store, StoreNothing, Answered, Run
<1>. QED
  BY <1>1, <1>3, <1>4, <1>5, <1>6, <1>7, <1>8, <1>9, <1>10 DEF Next, vars

\* The three parts of OwnGoroutineAttends, by name.
Attends ==
    \/ pod.unattended \/ pod.configured \/ pod.told # NoSettings
    \/ \E t \in Tasks : Own(t) /\ task[t].at \in {"polling", "posting"}

OwnHaveSettings == \A t \in Tasks : Own(t) => task[t].settings = pod.settings

OwnTells ==
    pod.told # NoSettings /\ pod.told.fate = "created"
        => pod.told.settings = pod.settings

LEMMA OwnParts ==
    OwnGoroutineAttends <=>
        (Exists /\ pod.settings # NoSettings => Attends /\ OwnHaveSettings /\ OwnTells)
  BY DEF OwnGoroutineAttends, Attends, OwnHaveSettings, OwnTells

\* The pod is stored, with the goroutine of its request if that still polls.
LEMMA StoredAttends ==
    ASSUME OwnInv, Store
    PROVE  OwnGoroutineAttends'
<1>1. /\ request \in Requests /\ request # NoRequest
      /\ \A t \in Tasks : ~Own(t)
      /\ task \in [Tasks -> TaskRecords]
  BY RequestTypes DEF Store, OwnInv, Attached, TypeOK
<1>2. /\ pod'.settings = request.settings /\ pod'.told = NoSettings
      /\ pod'.unattended <=>
            request.task = NoTask \/ task[request.task].at # "polling"
  BY DEF Store
<1>3. task' = [t \in Tasks |->
                   IF t = request.task /\ ~Idling(t)
                   THEN [task[t] EXCEPT !.fate = "created"] ELSE task[t]]
  BY DEF Store, Answered
<1>4. \A t \in Tasks : task'[t].at = task[t].at /\ task'[t].settings = task[t].settings
  BY <1>1, <1>3 DEF TaskRecords
<1>5. \A t \in Tasks : Own(t)' <=> t = request.task /\ ~Idling(t)
  BY <1>1, <1>3 DEF Own, TaskRecords
<1>6. Attends'
  <2>1. CASE request.task = NoTask \/ task[request.task].at # "polling"
    BY <1>2, <2>1 DEF Attends
  <2>2. CASE request.task # NoTask /\ task[request.task].at = "polling"
    <3>1. request.task \in Tasks /\ ~Idling(request.task)
      BY <1>1, <2>2 DEF Requests, Idling
    <3>. QED BY <1>4, <1>5, <2>2, <3>1 DEF Attends
  <2>. QED BY <2>1, <2>2
<1>7. OwnHaveSettings'
  BY <1>1, <1>2, <1>4, <1>5 DEF OwnHaveSettings, OwnInv, RequestTask
<1>. QED BY <1>2, <1>6, <1>7, OwnParts DEF OwnTells, OwnGoroutineAttends, Attends, OwnHaveSettings

\* A goroutine's step.
LEMMA TaskAttends ==
    ASSUME OwnInv, NEW t \in Tasks, Task(t)
    PROVE  OwnGoroutineAttends'
<1>. USE DEF OwnInv
<1>1. SUFFICES ASSUME Exists', pod'.settings # NoSettings
               PROVE  Attends' /\ OwnHaveSettings' /\ OwnTells'
  BY DEF OwnGoroutineAttends, Attends, OwnHaveSettings, OwnTells
<1>2. task \in [Tasks -> TaskRecords] /\ ~Idling(t)
  BY TaskMoves DEF TypeOK
<1>3. /\ Exists /\ pod \in Pods /\ pod'.settings = pod.settings
      /\ pod.unattended => pod'.unattended
      /\ pod.configured => pod'.configured
      /\ pod'.told = pod.told \/ Post(t)
  <2>1. CASE PollEnds(t) \/ PollFinds(t) \/ PostFails(t)
    BY <1>1, <2>1, PodTypes DEF PollEnds, PollFinds, PostFails, Exists
  <2>2. CASE Timeout(t)
    BY <1>1, <2>2, PodTypes DEF Timeout, Exists, Attached, Pods
  <2>3. CASE Post(t)
    BY <1>1, <2>3, PodTypes DEF Post, Exists, Attached, Pods
  <2>4. CASE Mark(t)
    BY <1>1, <2>4, PodTypes DEF Mark, Exists, Pods
  <2>. QED BY <2>1, <2>2, <2>3, <2>4 DEF Task
<1>4. Attends /\ OwnHaveSettings /\ OwnTells
  BY <1>1, <1>3, OwnParts
<1>5. \A u \in Tasks : u # t => task'[u] = task[u]
  BY <1>2, TaskMoves
<1>6. Own(t)' => Own(t) /\ task'[t].settings = task[t].settings
  BY <1>2, TaskMoves, IdleTypes DEF Own, TaskRecords
<1>7. OwnHaveSettings'
  BY <1>3, <1>4, <1>5, <1>6 DEF OwnHaveSettings, Own
<1>8. OwnTells'
  <2>1. CASE pod'.told = pod.told
    BY <1>3, <1>4, <2>1 DEF OwnTells
  <2>2. CASE Post(t) /\ pod'.told # pod.told
    <3>1. pod'.told = [settings |-> task[t].settings, fate |-> task[t].fate]
      BY <1>3, <2>2 DEF Post, Pods
    <3>. QED BY <1>3, <1>4, <3>1 DEF OwnTells, OwnHaveSettings, Own
  <2>. QED BY <1>3, <2>1, <2>2
<1>9. Attends'
  <2>1. CASE Post(t) /\ task[t].at = "posting"
    <3>1. pod'.told = [settings |-> task[t].settings, fate |-> task[t].fate]
      BY <1>3, <2>1 DEF Post, Pods
    <3>2. task[t].settings \in Settings /\ task[t].fate \in Fates
      BY <1>2 DEF TypeOK, TaskRecords, Idling
    <3>3. pod'.told # NoSettings
      BY <3>1, <3>2, NoPodAssumption
    <3>. QED BY <3>3 DEF Attends
  <2>2. CASE /\ ~(Post(t) /\ task[t].at = "posting")
             /\ pod.unattended \/ pod.configured \/ pod.told # NoSettings
    <3>1. pod'.told = pod.told
      BY <1>3, <2>2 DEF Post
    <3>. QED BY <1>3, <2>2, <3>1 DEF Attends
  <2>3. ASSUME NEW u \in Tasks, Own(u), task[u].at \in {"polling", "posting"}, u # t
        PROVE  Attends'
    BY <1>5, <2>3 DEF Attends, Own
  <2>4. CASE /\ Own(t) /\ task[t].at \in {"polling", "posting"}
             /\ ~(Post(t) /\ task[t].at = "posting")
    <3>1. CASE PollEnds(t)
      BY <1>3, <3>1 DEF PollEnds, Attends
    <3>2. CASE Timeout(t)
      <4>1. pod'.unattended
        BY <1>3, <2>4, <3>2 DEF Timeout, Pods
      <4>. QED BY <4>1 DEF Attends
    <3>3. CASE GoTo(t, "polling") \/ GoTo(t, "posting")
      BY <1>2, <2>4, <3>3 DEF GoTo, Attends, Own, TaskRecords
    <3>4. CASE Post(t) \/ Mark(t)
      BY <2>4, <3>4 DEF Post, Mark
    <3>. QED BY <3>1, <3>2, <3>3, <3>4 DEF Task, PollFinds, PostFails
  <2>. QED BY <1>4, <2>1, <2>2, <2>3, <2>4 DEF Attends
<1>. QED BY <1>7, <1>8, <1>9

LEMMA OwnStep ==
    ASSUME OwnInv, [Next]_vars
    PROVE  OwnGoroutineAttends'
<1>. USE DEF OwnInv
<1>1. CASE UNCHANGED <<pod, task>>
  BY <1>1 DEF OwnGoroutineAttends, Exists, Own
<1>2. CASE Mutate
  <2>1. PICK t \in Tasks : /\ Idling(t)
                           /\ task' = [task EXCEPT ![t] =
                                 [at |-> "polling", settings |-> cr, fate |-> "open"]]
    BY <1>2 DEF Mutate
  <2>2. \A u \in Tasks : u # t => task'[u] = task[u]
    BY <2>1 DEF TypeOK
  <2>3. ~Own(t)' /\ task[t].at = "idle" /\ pod' = pod
    BY <1>2, <2>1 DEF Own, Idling, TypeOK, Mutate
  <2>. QED BY <2>2, <2>3 DEF OwnGoroutineAttends, Exists, Own
<1>3. CASE Deny \/ StoreNothing
  <2>1. PICK fate \in {"denied", "dry", "refused"} : Answered(fate)
    BY <1>3 DEF Deny, StoreNothing
  <2>2. \A u \in Tasks : /\ task'[u].at = task[u].at
                         /\ task'[u].settings = task[u].settings
                         /\ Own(u)' <=> Own(u)
    <3>1. request # NoRequest /\ task \in [Tasks -> TaskRecords]
      BY <1>3 DEF Deny, StoreNothing, TypeOK
    <3>. QED BY <2>1, <3>1 DEF Answered, RequestTask, Own, TaskRecords
  <2>3. pod' = pod
    BY <1>3 DEF Deny, StoreNothing
  <2>. QED BY <2>2, <2>3 DEF OwnGoroutineAttends, Exists
<1>4. CASE Run
  <2>1. Exists /\ pod \in Pods /\ task' = task
    BY <1>4, PodTypes DEF Run
  <2>2. /\ pod'.settings = pod.settings /\ pod'.told = pod.told
        /\ pod'.unattended = pod.unattended /\ pod'.configured = pod.configured
    BY <1>4, <2>1 DEF Run, Pods
  <2>. QED BY <2>1, <2>2 DEF OwnGoroutineAttends, Own
<1>5. CASE DeletePod
  BY <1>5 DEF DeletePod, OwnGoroutineAttends, Exists
<1>6. CASE Restart
  <2>1. \A t \in Tasks : ~Own(t)'
    BY <1>6, IdleTypes DEF Restart, Own
  <2>2. CASE Exists
    <3>1. /\ pod'.settings = pod.settings /\ pod'.told = pod.told /\ pod'.unattended
      BY <1>6, <2>2, PodTypes DEF Restart, Pods
    <3>. QED BY <2>1, <2>2, <3>1 DEF OwnGoroutineAttends
  <2>3. CASE ~Exists
    BY <1>6, <2>3 DEF Restart, Exists, OwnGoroutineAttends
  <2>. QED BY <2>2, <2>3
<1>7. CASE MutateNothing \/ Allow \/ AllowUnread \/ EditCR \/ UNCHANGED vars
  BY <1>1, <1>7 DEF MutateNothing, Allow, AllowUnread, EditCR, vars
<1>. QED
  BY <1>2, <1>3, <1>4, <1>5, <1>6, <1>7, StoredAttends, TaskAttends DEF Next

\* The goroutine that was started for a pod attends to it until it has been
\* told something, and tells it the settings of its own annotations, for any
\* number of goroutines (scheduleRTConfiguration).
THEOREM OwnGoroutineAttendsAlways == Spec => []OwnGoroutineAttends
<1>1. Init => OwnInv
  BY TypeInit, IdleTypes
  DEF Init, OwnInv, Attached, Own, RequestTask, OwnGoroutineAttends, Exists
<1>2. OwnInv /\ [Next]_vars => OwnInv'
  BY TypeStep, RequestTaskStep, OwnStep DEF OwnInv
<1>3. OwnInv => OwnGoroutineAttends
  BY DEF OwnInv
<1>. QED
  BY <1>1, <1>2, <1>3, PTL DEF Spec

==============================================================================
