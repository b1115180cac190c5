----------------------- MODULE RuntimeEscalationProofs -----------------------
(* Proofs about RuntimeEscalation, for any number of overrun requests at a   *)
(* time, any number of containers and anything the surroundings may do.      *)
EXTENDS RuntimeEscalation, TLAPS

-----------------------------------------------------------------------------
(***************************************************************************)
(* Types                                                                   *)
(***************************************************************************)

LEMMA ContainerTypes ==
    /\ 1 \in Containers
    /\ \A c \in Containers : c < LastContainer => c + 1 \in Containers
  BY EscalationAssumption DEF Containers

LEMMA SettingTypes ==
    /\ NoSetting \in Settings
    /\ \A r \in {"low", "hi"}, core \in {"spec", "allocated"} : Setting(r, core) \in Settings
  BY DEF Settings, Setting, NoSetting

LEMMA SendTypes ==
    ASSUME TypeOK, NEW a, NEW c \in Containers, NEW setting \in Settings, NEW ok \in BOOLEAN,
           SendRTRequest(a, c, setting, ok)
    PROVE  applied' \in [Containers -> Settings] /\ refused' \in BOOLEAN
<1>1. applied \in [Containers -> Settings] /\ refused \in BOOLEAN
  BY DEF TypeOK
<1>2. applied' \in [Containers -> Settings]
  BY <1>1 DEF SendRTRequest
<1>3. refused' \in BOOLEAN
  BY DEF SendRTRequest
<1>. QED BY <1>2, <1>3

LEMMA CopyTypes ==
    ASSUME TypeOK, NEW a \in Actors
    PROVE  /\ CopyCR(a) => fresh' \subseteq Actors \cup {"cache"}
           /\ CopyPod(a) => holders' \subseteq Actors
  BY DEF CopyCR, CopyPod, TypeOK

LEMMA StatusTypes ==
    ASSUME TypeOK, NEW a, NEW value \in {"low", "hi"}, NEW changes,
           UpdateStatus(a, value, changes)
    PROVE  /\ fresh' \subseteq Actors \cup {"cache"} /\ refused' \in BOOLEAN
           /\ status' \in {"", "low", "hi"}
  BY DEF UpdateStatus, TypeOK

LEMMA EscalationInitTypes == Init => TypeOK
<1>1. SUFFICES ASSUME Init PROVE TypeOK
  OBVIOUS
<1>2. 1 \in Containers /\ MaxEvents \in Nat
  BY ContainerTypes, EscalationAssumption
<1>3. applied \in [Containers -> Settings]
  BY <1>1, SettingTypes DEF Init
<1>4. /\ hpc \in [Handlers -> HandlerSteps] /\ container \in [Handlers -> Containers]
      /\ pc \in WorkerSteps
  <2>1. "idle" \in HandlerSteps /\ "idle" \in WorkerSteps
    BY DEF HandlerSteps, WorkerSteps
  <2>. QED BY <1>1, <1>2, <2>1 DEF Init
<1>5. events \in 0 .. MaxEvents
  <2>1. events = 0
    BY <1>1 DEF Init
  <2>. QED BY <1>2, <2>1
<1>. QED
  BY <1>1, <1>2, <1>3, <1>4, <1>5 DEF Init, TypeOK, Phases

LEMMA HandlerTypes ==
    ASSUME TypeOK, NEW h \in Handlers, HandlerStep(h)
    PROVE  TypeOK'
<1>1. h \in Actors
  BY DEF Actors
<1>2. UNCHANGED <<busy, queued, workerVars, wh, events>>
  BY DEF HandlerStep
<1>3. CASE ListCR(h) \/ AlreadyHi(h) \/ NotHi(h) \/ SetHi(h)
  <2>1. /\ fresh' \subseteq Actors \cup {"cache"} /\ runtime' \in {"", "low", "hi"}
        /\ UNCHANGED <<podVars, statusVars, holders, container>>
    BY <1>1, <1>3, CopyTypes DEF ListCR, AlreadyHi, NotHi, SetHi, TypeOK
  <2>2. hpc' \in [Handlers -> HandlerSteps]
    BY <1>3 DEF ListCR, AlreadyHi, NotHi, SetHi, At, TypeOK, HandlerSteps
  <2>. QED
    BY <1>2, <2>1, <2>2 DEF TypeOK, podVars, statusVars, workerVars
<1>4. CASE SendHi(h)
  <2>1. hpc' \in [Handlers -> HandlerSteps]
    BY <1>4 DEF SendHi, At, TypeOK, HandlerSteps
  <2>2. PICK ok \in BOOLEAN : SendRTRequest(h, container[h], Setting("hi", "spec"), ok)
    BY <1>4 DEF SendHi
  <2>3. container[h] \in Containers /\ Setting("hi", "spec") \in Settings
    BY SettingTypes DEF TypeOK
  <2>4. applied' \in [Containers -> Settings] /\ refused' \in BOOLEAN
    BY <2>2, <2>3, SendTypes
  <2>. QED
    BY <1>2, <1>4, <2>1, <2>4 DEF SendHi, TypeOK, workerVars
<1>5. CASE StatusHi(h)
  <2>1. hpc' \in [Handlers -> HandlerSteps]
    BY <1>5 DEF StatusHi, At, TypeOK, HandlerSteps
  <2>2. /\ fresh' \subseteq Actors \cup {"cache"} /\ refused' \in BOOLEAN
        /\ status' \in {"", "low", "hi"}
    BY <1>5, StatusTypes DEF StatusHi
  <2>. QED
    BY <1>2, <1>5, <2>1, <2>2 DEF StatusHi, TypeOK, podVars, workerVars
<1>. QED BY <1>3, <1>4, <1>5 DEF HandlerStep

\* The loops over the containers stay within them.
LEMMA WorkerTypes ==
    ASSUME TypeOK, WorkerStep
    PROVE  TypeOK'
<1>1. "worker" \in Actors
  BY DEF Actors
<1>2. UNCHANGED <<phase, configured, cleanups, busy, handlerVars, wh, events>>
  BY DEF WorkerStep
<1>3. CASE Fetch
  <2>1. /\ queued' = FALSE /\ pc' \in WorkerSteps /\ runtime' \in {"", "low", "hi"}
        /\ holders' \subseteq Actors
    BY <1>1, <1>3, CopyTypes DEF Fetch, Goto, TypeOK, WorkerSteps
  <2>. QED
    BY <1>2, <1>3, <2>1 DEF Fetch, TypeOK, statusVars, handlerVars
<1>4. CASE ReadState
  <2>1. pc' \in WorkerSteps /\ effective' \in {"low", "hi"} /\ next' \in Containers
    BY <1>4, ContainerTypes DEF ReadState, Goto, Effective, WorkerSteps
  <2>. QED
    BY <1>2, <1>4, <2>1 DEF ReadState, TypeOK, handlerVars
<1>5. CASE ApplyNext \/ RevertNext \/ MoveNext
  <2>1. PICK ok \in BOOLEAN, setting \in Settings : SendRTRequest("worker", next, setting, ok)
    BY <1>5, SettingTypes DEF ApplyNext, RevertNext, MoveNext, TypeOK
  <2>2. next \in Containers /\ pc' \in WorkerSteps
    BY <1>5 DEF ApplyNext, RevertNext, MoveNext, Goto, TypeOK, WorkerSteps
  <2>3. applied' \in [Containers -> Settings] /\ refused' \in BOOLEAN
    BY <2>1, <2>2, SendTypes
  <2>4. next' \in Containers
    BY <1>5, <2>2, ContainerTypes DEF ApplyNext, RevertNext, MoveNext
  <2>5. UNCHANGED <<status, fresh, holders, runtime, queued, effective, seenBusy>>
    BY <1>5 DEF ApplyNext, RevertNext, MoveNext
  <2>. QED
    BY <1>2, <2>2, <2>3, <2>4, <2>5 DEF TypeOK, handlerVars
<1>6. CASE NodeCheck
  <2>1. pc' \in WorkerSteps /\ seenBusy' \in {"unset", "true", "false"}
    BY <1>6 DEF NodeCheck, Goto, TypeOK, WorkerSteps
  <2>. QED
    BY <1>2, <1>6, <2>1 DEF NodeCheck, TypeOK, statusVars, handlerVars
<1>7. CASE Recover \/ RecoverList
  <2>1. /\ pc' \in WorkerSteps /\ holders' \subseteq Actors /\ next' \in Containers
        /\ fresh' \subseteq Actors \cup {"cache"}
    BY <1>1, <1>7, CopyTypes, ContainerTypes
    DEF Recover, RecoverList, Goto, TypeOK, WorkerSteps
  <2>. QED
    BY <1>2, <1>7, <2>1 DEF Recover, RecoverList, TypeOK, statusVars, handlerVars
<1>8. CASE SetLow
  BY <1>2, <1>8 DEF SetLow, Goto, TypeOK, statusVars, handlerVars, WorkerSteps
<1>9. CASE StatusLow
  <2>1. /\ fresh' \subseteq Actors \cup {"cache"} /\ refused' \in BOOLEAN
        /\ status' \in {"", "low", "hi"} /\ pc' \in WorkerSteps
    BY <1>9, StatusTypes DEF StatusLow, Goto, WorkerSteps
  <2>. QED
    BY <1>2, <1>9, <2>1 DEF StatusLow, TypeOK, handlerVars
<1>10. CASE Affinity
  <2>1. /\ pc' \in WorkerSteps /\ next' \in Containers
        /\ fresh' \subseteq Actors \cup {"cache"}
    BY <1>10, ContainerTypes DEF Affinity, Goto, TypeOK, WorkerSteps
  <2>. QED
    BY <1>2, <1>10, <2>1 DEF Affinity, TypeOK, statusVars, handlerVars
<1>. QED
  BY <1>3, <1>4, <1>5, <1>6, <1>7, <1>8, <1>9, <1>10 DEF WorkerStep

LEMMA WebhookTypes ==
    ASSUME TypeOK, WebhookStep
    PROVE  TypeOK'
<1>1. "webhook" \in Actors
  BY DEF Actors
<1>2. UNCHANGED <<busy, status, fresh, runtime, workerVars, handlerVars, events>>
  BY DEF WebhookStep
<1>3. CASE Tick \/ GiveUp
  <2>1. /\ wh' \in {"idle", "wait", "send", "annotate"} /\ holders' \subseteq Actors
        /\ UNCHANGED <<podVars, queued, refused>>
    BY <1>1, <1>3, CopyTypes DEF Tick, GiveUp, TypeOK
  <2>. QED
    BY <1>2, <2>1 DEF TypeOK, podVars, workerVars, handlerVars
<1>4. CASE SendLow
  <2>1. PICK ok \in BOOLEAN : SendRTRequest("webhook", 1, Setting("low", "spec"), ok)
    BY <1>4 DEF SendLow
  <2>2. applied' \in [Containers -> Settings] /\ refused' \in BOOLEAN
    BY <2>1, SendTypes, ContainerTypes, SettingTypes
  <2>3. wh' \in {"idle", "wait", "send", "annotate"}
    BY <1>4 DEF SendLow
  <2>. QED
    BY <1>2, <1>4, <2>2, <2>3 DEF SendLow, TypeOK, workerVars, handlerVars
<1>5. CASE Annotate
  <2>1. /\ wh' = "idle" /\ configured' \in BOOLEAN /\ queued' \in BOOLEAN
        /\ refused' \in BOOLEAN
    BY <1>5 DEF Annotate, TypeOK
  <2>. QED
    BY <1>2, <1>5, <2>1 DEF Annotate, TypeOK, workerVars, handlerVars
<1>. QED BY <1>3, <1>4, <1>5 DEF WebhookStep

LEMMA SurroundingTypes ==
    ASSUME TypeOK,
           \/ InformerStep \/ StartPod
           \/ \E h \in Handlers, c \in Containers : Overrun(h, c)
           \/ SetBusy \/ FetchOther \/ Preempted \/ ChangeCR
           \/ CreatePod \/ DeletePod \/ EndPod \/ Restart
    PROVE  TypeOK'
<1>1. Surroundings => events' \in 0 .. MaxEvents
  <2>1. events \in 0 .. MaxEvents /\ MaxEvents \in Nat
    BY EscalationAssumption DEF TypeOK
  <2>. QED BY <2>1 DEF Surroundings
<1>2. "worker" \in Actors
  BY DEF Actors
<1>3. CASE InformerStep
  <2>1. /\ fresh' \subseteq Actors \cup {"cache"} /\ runtime' \in {"", "low", "hi"}
        /\ queued' = TRUE
    BY <1>3 DEF InformerStep, DeliverCR, CleanupPodState, TypeOK
  <2>2. cleanups' \in Nat
    <3>1. cleanups \in Nat
      BY DEF TypeOK
    <3>2. cleanups' = cleanups \/ (cleanups > 0 /\ cleanups' = cleanups - 1)
      BY <1>3 DEF InformerStep, DeliverCR, CleanupPodState
    <3>. QED BY <3>1, <3>2
  <2>. QED
    BY <1>3, <2>1, <2>2 DEF InformerStep, TypeOK, statusVars, workerVars, handlerVars
<1>4. CASE StartPod
  BY <1>4 DEF StartPod, TypeOK, Phases, statusVars, workerVars, handlerVars
<1>5. ASSUME NEW h \in Handlers, NEW c \in Containers, Overrun(h, c) PROVE TypeOK'
  <2>1. h \in Actors
    BY DEF Actors
  <2>2. /\ hpc' \in [Handlers -> HandlerSteps] /\ container' \in [Handlers -> Containers]
        /\ holders' \subseteq Actors
    BY <1>5, <2>1, CopyTypes DEF Overrun, At, TypeOK, HandlerSteps
  <2>. QED
    BY <1>1, <1>5, <2>2 DEF Overrun, TypeOK, podVars, statusVars, workerVars
<1>6. CASE SetBusy
  BY <1>1, <1>6 DEF SetBusy, TypeOK, podVars, statusVars, workerVars, handlerVars
<1>7. CASE FetchOther
  BY <1>1, <1>7
     DEF FetchOther, Goto, TypeOK, WorkerSteps, podVars, statusVars, handlerVars
<1>8. CASE Preempted
  <2>1. /\ fresh' \subseteq Actors \cup {"cache"} /\ holders' \subseteq Actors
        /\ pc' \in WorkerSteps
    BY <1>2, <1>8, CopyTypes DEF Preempted, Goto, WorkerSteps
  <2>. QED
    BY <1>1, <1>8, <2>1 DEF Preempted, TypeOK, podVars, statusVars, handlerVars
<1>9. CASE ChangeCR
  BY <1>1, <1>9 DEF ChangeCR, TypeOK, podVars, statusVars, workerVars, handlerVars
<1>10. CASE CreatePod \/ DeletePod
  <2>1. cleanups \in Nat /\ wh \in {"idle", "wait", "send", "annotate"}
    BY DEF TypeOK
  <2>2. cleanups' \in Nat /\ wh' \in {"idle", "wait", "send", "annotate"}
    BY <1>10, <2>1 DEF CreatePod, DeletePod
  <2>3. /\ events' \in 0 .. MaxEvents /\ phase' \in Phases /\ queued' = TRUE
        /\ UNCHANGED <<applied, configured, holders, busy, statusVars, fresh, runtime,
                       workerVars, handlerVars>>
    BY <1>1, <1>10 DEF CreatePod, DeletePod, PodChanges, Phases
  <2>. QED
    BY <2>2, <2>3 DEF TypeOK, statusVars, workerVars, handlerVars
<1>11. CASE EndPod
  <2>1. cleanups' \in Nat
    <3>1. cleanups \in Nat
      BY DEF TypeOK
    <3>. QED BY <1>11, <3>1 DEF EndPod
  <2>2. /\ events' \in 0 .. MaxEvents /\ phase' \in Phases
        /\ applied' \in [Containers -> Settings]
    BY <1>1, <1>11, SettingTypes DEF EndPod, PodChanges, Phases
  <2>. QED
    BY <1>11, <2>1, <2>2 DEF EndPod, PodChanges, TypeOK, statusVars, workerVars, handlerVars
<1>12. CASE Restart
  <2>1. events' \in 0 .. MaxEvents /\ cleanups' \in Nat /\ next' \in Containers
    BY <1>1, <1>12, ContainerTypes DEF Restart
  <2>2. hpc' \in [Handlers -> HandlerSteps] /\ pc' \in WorkerSteps
    BY <1>12 DEF Restart, HandlerSteps, WorkerSteps
  <2>. QED
    BY <1>12, <2>1, <2>2 DEF Restart, TypeOK, statusVars
<1>. QED
  BY <1>3, <1>4, <1>5, <1>6, <1>7, <1>8, <1>9, <1>10, <1>11, <1>12

LEMMA EscalationTypes == TypeOK /\ [Next]_vars => TypeOK'
<1>1. SUFFICES ASSUME TypeOK, [Next]_vars PROVE TypeOK'
  OBVIOUS
<1>2. CASE UNCHANGED vars
  BY <1>1, <1>2 DEF TypeOK, vars, podVars, statusVars, workerVars, handlerVars
<1>. QED
  BY <1>1, <1>2, HandlerTypes, WorkerTypes, WebhookTypes, SurroundingTypes DEF Next

\* Type correctness of pod, daemon, copies, worker, handlers and webhook; the loops
\* over a pod's containers address containers of it (mckube_controller.go).
THEOREM EscalationTyping == Spec => []TypeOK
  BY EscalationInitTypes, EscalationTypes, PTL DEF Spec

-----------------------------------------------------------------------------
(***************************************************************************)
(* What a refusal parts                                                    *)
(***************************************************************************)

Everywhere(r) == \A c \in Containers : applied[c].runtime = r

\* Something is under way that brings the worker back, or was refused.
Covered ==
    \/ refused \/ queued \/ "cache" \notin fresh \/ wh = "annotate"
    \/ \E h \in Handlers : hpc[h] \in {"set", "status"}

\* What the containers have got when nothing else is under way, by the place of
\* the worker: its loops have done the containers before next.
InStep ==
    /\ pc \in {"idle", "node", "recover", "affinity"} => Everywhere(Effective(runtime))
    /\ pc \in {"apply", "list", "revert"} => "worker" \in holders
    /\ pc = "apply" =>
          /\ effective = Effective(runtime)
          /\ \A c \in Containers : c < next => applied[c].runtime = effective
    /\ pc = "revert" =>
          \A c \in Containers : c < next => applied[c].runtime = "low"
    /\ pc \in {"set", "status"} => Everywhere("low")
    /\ pc = "status" => Effective(runtime) = "low"
    /\ pc # "move"

\* TypeOK, and that the containers and the state are in step; a worker that is
\* about to apply the settings has the pod that runs.
RefusalInv ==
    /\ TypeOK
    /\ phase = "running" => Covered \/ pc = "read" \/ InStep
    /\ phase = "running" /\ pc = "read" /\ ~queued => "worker" \in holders

\* What a daemon request does to a container, and when it counts as refused.
LEMMA Sent ==
    ASSUME NEW a, NEW c, NEW setting, NEW ok \in BOOLEAN, SendRTRequest(a, c, setting, ok)
    PROVE  /\ refused => refused'
           /\ ok /\ a \in holders => applied' = [applied EXCEPT ![c] = setting]
           /\ ~ok /\ a \in holders => refused'
           /\ a \notin holders => UNCHANGED applied
  BY DEF SendRTRequest

\* What leaves containers, state and the worker alone keeps them in step.
LEMMA InStepStays ==
    ASSUME InStep, UNCHANGED <<applied, runtime, pc, effective, next>>,
           "worker" \in holders => "worker" \in holders'
    PROVE  InStep'
  BY DEF InStep, Everywhere

LEMMA RefusalInit == Init => RefusalInv
  BY EscalationInitTypes DEF Init, RefusalInv, Covered

\* What a handler does to a container or the state it follows by a status update.
LEMMA HandlerParts ==
    ASSUME RefusalInv, NEW h \in Handlers, HandlerStep(h)
    PROVE  RefusalInv'
<1>1. TypeOK'
  BY HandlerTypes DEF RefusalInv
<1>2. UNCHANGED <<phase, pc, effective, next, queued, holders, wh>>
  BY DEF HandlerStep, ListCR, AlreadyHi, NotHi, SendHi, SetHi, StatusHi, podVars, workerVars
<1>3. h # "cache" /\ hpc \in [Handlers -> HandlerSteps]
  BY EscalationAssumption DEF RefusalInv, TypeOK
<1>4. SUFFICES Covered' \/ (~Covered /\ UNCHANGED <<applied, runtime>>)
  BY <1>1, <1>2, InStepStays DEF RefusalInv
<1>5. CASE ListCR(h) \/ AlreadyHi(h) \/ NotHi(h)
  <2>1. /\ UNCHANGED <<applied, runtime, refused>>
        /\ "cache" \in fresh' => "cache" \in fresh
    BY <1>3, <1>5 DEF ListCR, AlreadyHi, NotHi, CopyCR, podVars, statusVars
  <2>2. \A g \in Handlers : hpc[g] \in {"set", "status"} => hpc'[g] = hpc[g]
    BY <1>3, <1>5 DEF ListCR, AlreadyHi, NotHi, At
  <2>. QED BY <1>2, <2>1, <2>2 DEF Covered
<1>6. CASE SendHi(h)
  <2>1. PICK ok \in BOOLEAN :
           /\ SendRTRequest(h, container[h], Setting("hi", "spec"), ok)
           /\ At(h, "send", IF ok THEN "set" ELSE "idle")
    BY <1>6 DEF SendHi
  <2>2. UNCHANGED <<fresh, runtime>>
    BY <1>6 DEF SendHi
  <2>3. /\ ok => hpc'[h] = "set"
        /\ \A g \in Handlers : hpc[g] \in {"set", "status"} => hpc'[g] = hpc[g]
    BY <1>3, <2>1 DEF At
  <2>. QED BY <1>2, <2>1, <2>2, <2>3, Sent DEF Covered
<1>7. CASE SetHi(h)
  <2>1. hpc'[h] = "status"
    BY <1>3, <1>7 DEF SetHi, At
  <2>. QED BY <2>1 DEF Covered
<1>8. CASE StatusHi(h)
  <2>1. fresh' = {} \/ refused'
    BY <1>8 DEF StatusHi, UpdateStatus
  <2>. QED BY <2>1 DEF Covered
<1>. QED BY <1>5, <1>6, <1>7, <1>8 DEF HandlerStep

\* A reconciliation brings the containers in step, and a recovery keeps them so.
LEMMA WorkerParts ==
    ASSUME RefusalInv, WorkerStep
    PROVE  RefusalInv'
<1>1. TypeOK'
  BY WorkerTypes DEF RefusalInv
<1>2. UNCHANGED <<phase, hpc, wh>>
  BY DEF WorkerStep, handlerVars
<1>3. /\ applied \in [Containers -> Settings] /\ next \in Containers
      /\ phase = "running" => Covered \/ pc = "read" \/ InStep
      /\ phase = "running" /\ pc = "read" /\ ~queued => "worker" \in holders
  BY DEF RefusalInv, TypeOK
<1>4. \A c \in Containers : 1 <= c /\ c <= LastContainer /\ c \in Nat
  BY EscalationAssumption DEF Containers
<1>5. SUFFICES ASSUME phase = "running"
               PROVE  /\ Covered' \/ pc' = "read" \/ InStep'
                      /\ pc' = "read" /\ ~queued' => ("worker" \in holders)'
  BY <1>1, <1>2 DEF RefusalInv
<1>6. CASE Fetch
  BY <1>5, <1>6 DEF Fetch, Goto, Running, CopyPod
<1>7. CASE ReadState
  <2>1. /\ pc = "read" /\ pc' = "apply" /\ effective' = Effective(runtime) /\ next' = 1
        /\ UNCHANGED <<queued, holders, runtime>>
    BY <1>7 DEF ReadState, Goto
  <2>2. queued' \/ "worker" \in holders'
    BY <1>3, <1>5, <2>1
  <2>. QED BY <1>4, <2>1, <2>2 DEF Covered, InStep
<1>8. ASSUME UNCHANGED <<refused, fresh, queued>> PROVE Covered => Covered'
  BY <1>2, <1>8 DEF Covered
<1>9. CASE ApplyNext
  <2>1. PICK ok \in BOOLEAN :
           /\ SendRTRequest("worker", next, Setting(effective, "allocated"), ok)
           /\ pc = "apply"
           /\ pc' = IF ok /\ next < LastContainer THEN "apply" ELSE "node"
           /\ next' = IF ok /\ next < LastContainer THEN next + 1 ELSE 1
    BY <1>9 DEF ApplyNext, Goto
  <2>2. UNCHANGED <<fresh, holders, runtime, queued, effective>>
    BY <1>9 DEF ApplyNext
  <2>3. Covered => Covered'
    BY <1>2, <2>1, <2>2, Sent DEF Covered
  <2>4. ASSUME InStep, ~Covered' PROVE InStep'
    <3>1. /\ "worker" \in holders /\ effective = Effective(runtime)
          /\ \A c \in Containers : c < next => applied[c].runtime = effective
      BY <2>1, <2>4 DEF InStep
    <3>2. ok /\ applied' = [applied EXCEPT ![next] = Setting(effective, "allocated")]
      BY <2>1, <2>4, <3>1, Sent DEF Covered
    <3>3. \A c \in Containers : c < next \/ c = next => applied'[c].runtime = effective
      BY <1>3, <3>1, <3>2 DEF Setting
    <3>4. CASE next < LastContainer
      <4>1. next' = next + 1 /\ pc' = "apply"
        BY <2>1, <3>2, <3>4
      <4>2. \A c \in Containers : c < next' => applied'[c].runtime = effective
        BY <1>3, <1>4, <3>3, <4>1
      <4>. QED BY <2>2, <3>1, <4>1, <4>2 DEF InStep
    <3>5. CASE ~(next < LastContainer)
      <4>1. pc' = "node" /\ \A c \in Containers : c < next \/ c = next
        BY <1>3, <1>4, <2>1, <3>5, EscalationAssumption
      <4>. QED BY <2>2, <3>1, <3>3, <4>1 DEF InStep, Everywhere
    <3>. QED BY <3>4, <3>5
  <2>. QED BY <1>3, <1>5, <2>1, <2>3, <2>4
<1>10. CASE NodeCheck
  <2>1. /\ pc = "node" /\ pc' \in {"recover", "idle"}
        /\ UNCHANGED <<applied, refused, fresh, holders, runtime, queued>>
    BY <1>10 DEF NodeCheck, Goto, statusVars
  <2>. QED BY <1>3, <1>5, <1>8, <2>1 DEF InStep, Everywhere
<1>11. CASE Recover
  <2>1. /\ pc = "recover" /\ pc' \in {"list", "idle"} /\ "worker" \in holders'
        /\ UNCHANGED <<applied, refused, fresh, runtime, queued>>
    BY <1>5, <1>11 DEF Recover, Goto, CopyPod, statusVars
  <2>. QED BY <1>3, <1>5, <1>8, <2>1 DEF InStep, Everywhere
<1>12. CASE RecoverList
  <2>1. /\ pc = "list" /\ pc' = "revert" /\ next' = 1
        /\ UNCHANGED <<applied, refused, holders, runtime, queued>>
        /\ "cache" \in fresh' => "cache" \in fresh
    BY <1>12 DEF RecoverList, Goto, CopyCR, statusVars
  <2>2. Covered => Covered'
    BY <1>2, <2>1 DEF Covered
  <2>. QED BY <1>3, <1>4, <1>5, <2>1, <2>2 DEF InStep
<1>13. CASE RevertNext
  <2>1. PICK ok \in BOOLEAN : SendRTRequest("worker", next, Setting("low", "spec"), ok)
    BY <1>13 DEF RevertNext
  <2>2. /\ pc = "revert"
        /\ pc' = IF next < LastContainer THEN "revert" ELSE "set"
        /\ next' = IF next < LastContainer THEN next + 1 ELSE 1
        /\ UNCHANGED <<fresh, holders, runtime, queued, effective>>
    BY <1>13 DEF RevertNext, Goto
  <2>3. Covered => Covered'
    BY <1>2, <2>1, <2>2, Sent DEF Covered
  <2>4. ASSUME InStep, ~Covered' PROVE InStep'
    <3>1. /\ "worker" \in holders
          /\ \A c \in Containers : c < next => applied[c].runtime = "low"
      BY <2>2, <2>4 DEF InStep
    <3>2. ok /\ applied' = [applied EXCEPT ![next] = Setting("low", "spec")]
      BY <2>1, <2>4, <3>1, Sent DEF Covered
    <3>3. \A c \in Containers : c < next \/ c = next => applied'[c].runtime = "low"
      BY <1>3, <3>1, <3>2 DEF Setting
    <3>4. CASE next < LastContainer
      <4>1. next' = next + 1 /\ pc' = "revert"
        BY <2>2, <3>4
      <4>2. \A c \in Containers : c < next' => applied'[c].runtime = "low"
        BY <1>3, <1>4, <3>3, <4>1
      <4>. QED BY <2>2, <3>1, <4>1, <4>2 DEF InStep
    <3>5. CASE ~(next < LastContainer)
      <4>1. pc' = "set" /\ \A c \in Containers : c < next \/ c = next
        BY <1>3, <1>4, <2>2, <3>5, EscalationAssumption
      <4>. QED BY <3>3, <4>1 DEF InStep, Everywhere
    <3>. QED BY <3>4, <3>5
  <2>. QED BY <1>3, <1>5, <2>2, <2>3, <2>4
<1>14. CASE SetLow
  <2>1. /\ pc = "set" /\ pc' = "status" /\ runtime' = "low"
        /\ UNCHANGED <<applied, refused, fresh, queued>>
    BY <1>14 DEF SetLow, Goto, statusVars
  <2>. QED BY <1>3, <1>5, <1>8, <2>1 DEF InStep, Everywhere, Effective
<1>15. CASE StatusLow
  <2>1. /\ pc = "status" /\ pc' = "idle"
        /\ UNCHANGED <<applied, holders, runtime, queued>>
        /\ refused' \/ fresh' = {} \/ UNCHANGED <<fresh, refused>>
    BY <1>15 DEF StatusLow, UpdateStatus, Goto
  <2>2. Covered => Covered'
    BY <1>2, <2>1 DEF Covered
  <2>. QED BY <1>3, <1>5, <2>1, <2>2 DEF InStep, Everywhere
<1>16. CASE Affinity
  <2>1. /\ pc = "affinity"
        /\ fresh' = {} \/ (pc' = "node" /\ UNCHANGED fresh)
        /\ UNCHANGED <<applied, refused, holders, runtime, queued>>
        /\ pc' \in {"node", "move"}
    BY <1>16 DEF Affinity, Goto, statusVars
  <2>2. CASE fresh' = {}
    BY <2>1, <2>2 DEF Covered
  <2>3. CASE pc' = "node" /\ UNCHANGED fresh
    BY <1>3, <1>5, <1>8, <2>1, <2>3 DEF InStep, Everywhere
  <2>. QED BY <2>1, <2>2, <2>3
<1>17. CASE MoveNext
  <2>1. PICK ok \in BOOLEAN : SendRTRequest("worker", next, Setting("low", "allocated"), ok)
    BY <1>17 DEF MoveNext
  <2>2. /\ pc = "move" /\ pc' \in {"move", "node"}
        /\ UNCHANGED <<fresh, queued>>
    BY <1>17 DEF MoveNext, Goto
  <2>3. Covered
    BY <1>3, <1>5, <2>2 DEF InStep
  <2>. QED BY <1>2, <2>1, <2>2, <2>3, Sent DEF Covered
<1>. QED
  BY <1>6, <1>7, <1>9, <1>10, <1>11, <1>12, <1>13, <1>14, <1>15, <1>16, <1>17
     DEF WorkerStep

\* The webhook's request is followed by its annotation, or was refused.
LEMMA WebhookParts ==
    ASSUME RefusalInv, WebhookStep
    PROVE  RefusalInv'
<1>1. TypeOK'
  BY WebhookTypes DEF RefusalInv
<1>2. UNCHANGED <<fresh, runtime, pc, effective, next, hpc>>
  BY DEF WebhookStep, workerVars, handlerVars
<1>3. phase' = phase /\ ("worker" \in holders => "worker" \in holders')
  BY DEF WebhookStep, Tick, GiveUp, SendLow, Annotate, CopyPod, podVars
<1>4. SUFFICES Covered' \/ (~Covered /\ UNCHANGED <<applied, queued>>)
  <2>1. (phase = "running" /\ pc = "read" /\ ~queued => "worker" \in holders)'
    <3>1. queued => queued'
      BY DEF WebhookStep, Tick, GiveUp, SendLow, Annotate
    <3>. QED BY <1>2, <1>3, <3>1 DEF RefusalInv
  <2>2. (phase = "running" => Covered \/ pc = "read" \/ InStep)'
    BY <1>2, <1>3, <1>4, InStepStays DEF RefusalInv
  <2>. QED BY <1>1, <2>1, <2>2 DEF RefusalInv
<1>5. CASE Tick \/ GiveUp
  <2>1. wh # "annotate" /\ UNCHANGED <<applied, queued, refused>>
    BY <1>5 DEF Tick, GiveUp, podVars
  <2>. QED BY <1>2, <2>1 DEF Covered
<1>6. CASE SendLow
  <2>1. PICK ok \in BOOLEAN :
           /\ SendRTRequest("webhook", 1, Setting("low", "spec"), ok)
           /\ wh = "send" /\ wh' = IF ok THEN "annotate" ELSE "wait"
    BY <1>6 DEF SendLow
  <2>2. UNCHANGED queued
    BY <1>6 DEF SendLow
  <2>. QED BY <1>2, <2>1, <2>2, Sent DEF Covered
<1>7. CASE Annotate
  BY <1>7 DEF Annotate, Covered
<1>. QED BY <1>5, <1>6, <1>7 DEF WebhookStep

\* The surroundings that change a running pod's fate leave the CR in the queue.
LEMMA SurroundingParts ==
    ASSUME RefusalInv,
           \/ InformerStep \/ StartPod
           \/ \E h \in Handlers, c \in Containers : Overrun(h, c)
           \/ SetBusy \/ FetchOther \/ Preempted \/ ChangeCR
           \/ CreatePod \/ DeletePod \/ EndPod \/ Restart
    PROVE  RefusalInv'
<1>1. TypeOK'
  BY SurroundingTypes DEF RefusalInv
<1>2. SUFFICES ASSUME phase' = "running"
               PROVE  /\ Covered' \/ pc' = "read" \/ InStep'
                      /\ pc' = "read" /\ ~queued' => ("worker" \in holders)'
  BY <1>1 DEF RefusalInv
<1>3. ASSUME queued' PROVE Covered'
  BY <1>3 DEF Covered
<1>4. CASE InformerStep
  <2>1. queued'
    BY <1>4 DEF InformerStep, DeliverCR, CleanupPodState
  <2>. QED BY <1>3, <2>1
<1>5. CASE StartPod
  BY <1>3, <1>5 DEF StartPod
<1>6. ASSUME NEW h \in Handlers, NEW c \in Containers, Overrun(h, c)
      PROVE  /\ Covered' \/ pc' = "read" \/ InStep'
             /\ pc' = "read" /\ ~queued' => ("worker" \in holders)'
  <2>1. /\ UNCHANGED <<phase, applied, refused, fresh, runtime, queued, pc, effective,
                       next, wh>>
        /\ hpc[h] = "idle" /\ hpc' = [hpc EXCEPT ![h] = "list"]
        /\ holders' = holders \cup {h}
    BY <1>6 DEF Overrun, At, CopyPod, podVars, statusVars, workerVars
  <2>2. \A g \in Handlers : hpc[g] \in {"set", "status"} => hpc'[g] = hpc[g]
    BY <2>1 DEF RefusalInv, TypeOK
  <2>3. Covered => Covered'
    BY <2>1, <2>2 DEF Covered
  <2>. QED BY <1>2, <2>1, <2>3, InStepStays DEF RefusalInv
<1>7. CASE SetBusy
  <2>1. UNCHANGED <<phase, applied, refused, fresh, holders, runtime, queued, pc,
                    effective, next, wh, hpc>>
    BY <1>7 DEF SetBusy, podVars, statusVars, workerVars, handlerVars
  <2>2. Covered => Covered'
    BY <2>1 DEF Covered
  <2>. QED BY <1>2, <2>1, <2>2, InStepStays DEF RefusalInv
<1>8. CASE FetchOther \/ Preempted
  <2>1. /\ UNCHANGED <<phase, applied, refused, runtime, queued, wh, hpc>>
        /\ pc = "idle" /\ pc' \in {"node", "affinity"}
        /\ "cache" \in fresh' => "cache" \in fresh
    BY <1>8 DEF FetchOther, Preempted, Goto, CopyCR, podVars, statusVars, handlerVars
  <2>2. Covered => Covered'
    BY <2>1 DEF Covered
  <2>. QED BY <1>2, <2>1, <2>2 DEF RefusalInv, InStep, Everywhere
<1>9. CASE ChangeCR
  <2>1. Covered'
    BY <1>9 DEF ChangeCR, Covered
  <2>2. UNCHANGED <<phase, pc, queued, holders>>
    BY <1>9 DEF ChangeCR, podVars, workerVars
  <2>. QED BY <1>2, <2>1, <2>2 DEF RefusalInv
<1>10. ~CreatePod /\ ~DeletePod /\ ~EndPod
  BY <1>2 DEF CreatePod, DeletePod, EndPod, PodChanges
<1>11. CASE Restart
  BY <1>3, <1>11 DEF Restart
<1>. QED BY <1>4, <1>5, <1>6, <1>7, <1>8, <1>9, <1>10, <1>11

\* Every step keeps the invariant.
LEMMA RefusalStep == RefusalInv /\ [Next]_vars => RefusalInv'
<1>1. SUFFICES ASSUME RefusalInv, [Next]_vars PROVE RefusalInv'
  OBVIOUS
<1>2. CASE UNCHANGED vars
  <2>1. TypeOK'
    BY <1>1, EscalationTypes DEF RefusalInv
  <2>2. UNCHANGED <<phase, applied, refused, fresh, holders, runtime, queued, pc,
                    effective, next, wh, hpc>>
    BY <1>2 DEF vars, podVars, statusVars, workerVars, handlerVars
  <2>3. Covered => Covered'
    BY <2>2 DEF Covered
  <2>. QED BY <1>1, <2>1, <2>2, <2>3, InStepStays DEF RefusalInv
<1>. QED
  BY <1>1, <1>2, HandlerParts, WorkerParts, WebhookParts, SurroundingParts DEF Next

\* The invariant: as long as nothing was refused since the worker last began to
\* apply the settings, and nothing is under way that brings it back, the containers
\* are in step with podRuntimeState.
THEOREM EscalationInvariant == Spec => []RefusalInv
  BY RefusalInit, RefusalStep, PTL DEF Spec

\* With any number of overruns, containers and events of every kind, failures and
\* restarts included, the runtime of the containers and podRuntimeState part for
\* good only where an update was refused or a daemon failed (handleOverrunEvent,
\* applyRTSettingsToContainers, handleCPURecovery and scheduleRTConfiguration).
THEOREM OnlyRefusalsPart == Spec => []OnlyARefusalParts
<1>1. RefusalInv => OnlyARefusalParts
  BY DEF RefusalInv, OnlyARefusalParts, AtRest, Quiet, Covered, InStep, Everywhere
<1>. QED
  BY <1>1, EscalationInvariant, PTL

-----------------------------------------------------------------------------
(***************************************************************************)
(* Reports of low                                                          *)
(***************************************************************************)

\* At its report the worker has set the state to low.  If it is hi again, some
\* handler has set it, and until it reports that, or failed to, the worker's
\* copy may be current.
ReportInv ==
    pc = "status" /\ runtime = "hi" /\ "worker" \in fresh
        => refused \/ \E h \in Handlers : hpc[h] = "status"

LEMMA ReportOfHandlers ==
    ASSUME TypeOK, ReportInv, NEW h \in Handlers, HandlerStep(h)
    PROVE  ReportInv'
<1>1. /\ pc' = pc /\ h # "worker" /\ "cache" # "worker"
      /\ hpc \in [Handlers -> HandlerSteps]
  BY EscalationAssumption DEF HandlerStep, workerVars, TypeOK
<1>2. CASE ListCR(h)
  <2>1. "worker" \in fresh' => "worker" \in fresh
    BY <1>1, <1>2 DEF ListCR, CopyCR
  <2>. QED BY <1>1, <1>2, <2>1 DEF ListCR, At, statusVars, ReportInv
<1>3. CASE AlreadyHi(h) \/ NotHi(h)
  BY <1>1, <1>3 DEF AlreadyHi, NotHi, At, statusVars, ReportInv
<1>4. CASE SendHi(h)
  <2>1. refused => refused'
    BY <1>4 DEF SendHi, SendRTRequest
  <2>. QED BY <1>1, <1>4, <2>1 DEF SendHi, At, ReportInv
<1>5. CASE SetHi(h)
  BY <1>1, <1>5 DEF SetHi, At, ReportInv
<1>6. CASE StatusHi(h)
  BY <1>1, <1>6 DEF StatusHi, UpdateStatus, ReportInv
<1>. QED
  BY <1>2, <1>3, <1>4, <1>5, <1>6 DEF HandlerStep

LEMMA ReportOfWorker ==
    ASSUME TypeOK, ReportInv, WorkerStep
    PROVE  ReportInv'
<1>1. CASE SetLow
  BY <1>1 DEF SetLow, ReportInv
<1>2. CASE ~SetLow
  <2>1. pc' # "status"
    BY <1>2 DEF WorkerStep, Fetch, ReadState, ApplyNext, NodeCheck, Recover, RecoverList,
       RevertNext, StatusLow, Affinity, MoveNext, Goto
  <2>. QED BY <2>1 DEF ReportInv
<1>. QED BY <1>1, <1>2

LEMMA ReportStep == TypeOK /\ ReportInv /\ [Next]_vars => ReportInv'
<1>1. SUFFICES ASSUME TypeOK, ReportInv, [Next]_vars PROVE ReportInv'
  OBVIOUS
<1>2. ASSUME pc' = "status" => pc = "status", hpc' = hpc,
             "worker" \in fresh' => "worker" \in fresh,
             runtime' = "hi" => runtime = "hi", refused => refused'
      PROVE  ReportInv'
  BY <1>1, <1>2 DEF ReportInv
<1>3. CASE WebhookStep
  BY <1>2, <1>3
  DEF WebhookStep, Tick, GiveUp, SendLow, Annotate, SendRTRequest, workerVars,
      handlerVars
<1>4. CASE InformerStep \/ StartPod
  <2>1. CASE InformerStep /\ DeliverCR
    <3>1. "worker" \in fresh' => "worker" \in fresh
      BY <2>1 DEF DeliverCR
    <3>. QED
      BY <1>2, <2>1, <3>1
      DEF InformerStep, DeliverCR, statusVars, workerVars, handlerVars
  <2>2. CASE InformerStep /\ CleanupPodState
    <3>1. runtime' # "hi"
      BY <2>2 DEF CleanupPodState
    <3>. QED BY <3>1 DEF ReportInv
  <2>3. CASE StartPod
    BY <1>2, <2>3 DEF StartPod, statusVars, workerVars, handlerVars
  <2>. QED BY <1>4, <2>1, <2>2, <2>3 DEF InformerStep
<1>5. ASSUME NEW h \in Handlers, NEW c \in Containers, Overrun(h, c)
      PROVE  ReportInv'
  <2>1. hpc[h] = "idle" /\ hpc' = [hpc EXCEPT ![h] = "list"]
        /\ hpc \in [Handlers -> HandlerSteps]
    BY <1>1, <1>5 DEF Overrun, At, TypeOK
  <2>. QED BY <1>1, <1>5, <2>1 DEF Overrun, statusVars, workerVars, ReportInv
<1>6. CASE SetBusy \/ FetchOther \/ ChangeCR
  BY <1>2, <1>6
  DEF SetBusy, FetchOther, ChangeCR, Goto, statusVars, workerVars, handlerVars
<1>7. CASE Preempted \/ Restart
  <2>1. pc' # "status"
    BY <1>7 DEF Preempted, Restart, Goto
  <2>. QED BY <2>1 DEF ReportInv
<1>8. CASE CreatePod \/ DeletePod \/ EndPod
  BY <1>2, <1>8
  DEF CreatePod, DeletePod, EndPod, PodChanges, statusVars, workerVars, handlerVars
<1>9. CASE UNCHANGED vars
  BY <1>2, <1>9 DEF vars, statusVars, workerVars, handlerVars
<1>. QED
  BY <1>1, <1>3, <1>4, <1>5, <1>6, <1>7, <1>8, <1>9, ReportOfHandlers,
     ReportOfWorker DEF Next

LEMMA ReportsOfLow ==
    ASSUME TypeOK, ReportInv, Next, status' = "low", status # "low", runtime = "hi"
    PROVE  refused \/ \E h \in Handlers : hpc[h] = "status"
<1>1. CASE WorkerStep
  <2>1. StatusLow
    BY <1>1 DEF WorkerStep, Fetch, ReadState, ApplyNext, NodeCheck, Recover,
       RecoverList, RevertNext, SetLow, Affinity, MoveNext, statusVars
  <2>2. pc = "status" /\ "worker" \in fresh
    BY <2>1 DEF StatusLow, Goto, UpdateStatus
  <2>. QED BY <2>2 DEF ReportInv
<1>2. ASSUME NEW h \in Handlers, HandlerStep(h) PROVE FALSE
  BY <1>2 DEF HandlerStep, ListCR, AlreadyHi, NotHi, SendHi, SetHi, StatusHi,
     UpdateStatus, statusVars
<1>3. CASE WebhookStep \/ InformerStep \/ StartPod
  BY <1>3 DEF WebhookStep, InformerStep, StartPod, statusVars
<1>4. CASE \/ \E h \in Handlers, c \in Containers : Overrun(h, c)
           \/ SetBusy \/ FetchOther \/ Preempted \/ ChangeCR
           \/ CreatePod \/ DeletePod \/ EndPod \/ Restart
  BY <1>4 DEF Overrun, SetBusy, FetchOther, Preempted, ChangeCR, CreatePod,
     DeletePod, EndPod, PodChanges, Restart, statusVars
<1>. QED BY <1>1, <1>2, <1>3, <1>4 DEF Next

\* With any number of overruns and events of every kind: the recovery's "low"
\* never replaces the report of an overrun that has set the state since, however
\* the two interleave, unless the API server or the daemon refused something.
\* The conflict of the older copy is what keeps it from that.
THEOREM LowIsNeverReportedOfHi == Spec => LowIsNotReportedOfHi
<1>1. Init => TypeOK /\ ReportInv
  BY EscalationInitTypes DEF Init, ReportInv
<1>2. (TypeOK /\ ReportInv) /\ [Next]_vars => (TypeOK /\ ReportInv)'
  BY EscalationTypes, ReportStep
<1>3. TypeOK /\ ReportInv /\ [Next]_vars
        => [status' = "low" /\ status # "low" /\ runtime = "hi"
              => refused \/ \E h \in Handlers : hpc[h] = "status"]_vars
  BY ReportsOfLow DEF vars, statusVars
<1>. QED BY <1>1, <1>2, <1>3, PTL DEF Spec, LowIsNotReportedOfHi
=============================================================================
