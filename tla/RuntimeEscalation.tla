-------------------------- MODULE RuntimeEscalation --------------------------
(***************************************************************************)
(* How one RT pod's containers get runtime_low and runtime_hi: the         *)
(* handlers of overrun events, one goroutine per request; the reconcile    *)
(* worker, which applies the settings and reverts them when the node's     *)
(* isCpuBusy annotation turns false; the mutating webhook's goroutine,     *)
(* which sends the first runtime_low; the informer's cleanup after a       *)
(* deleted pod (internal/controller/mckube_controller.go and               *)
(* internal/webhook/pod_mutator.go).  Each reads the state under a lock,   *)
(* then talks to the node's daemon without one, then writes the state.     *)
(*                                                                         *)
(* The pod and its CR are read from caches; an actor's copy may be old by  *)
(* the time it is used, which "holders" (of the present pod) and "fresh"   *)
(* (copies of the CR as the API server has it) keep track of.  The CR has  *)
(* RTSettings with Core and, after a migration, another AllocatedCore.     *)
(***************************************************************************)
EXTENDS Naturals, FiniteSets

CONSTANTS Handlers,      \* slots for overrun requests in progress
          LastContainer, \* the pod's containers are 1 .. LastContainer
          Allowed,       \* what the surroundings may do, see below
          MaxEvents      \* bound: how often the surroundings act

ASSUME EscalationAssumption ==
    /\ LastContainer \in Nat \ {0}
    /\ MaxEvents \in Nat
    /\ Allowed \subseteq {"restart", "busy", "crChange", "preempted",
                          "podChange", "daemonFails", "apiFails",
                          "contextEnds"}
    /\ Handlers \cap {"worker", "webhook", "cache"} = {}

Containers == 1 .. LastContainer
Actors == Handlers \cup {"worker", "webhook"}

VARIABLES phase,      \* the pod, "absent" to "terminating"
          applied,    \* container -> what the daemon has set for it
          configured, \* the pod's annotation rt-configured
          busy,       \* the node's annotation isCpuBusy
          status,     \* Status.CurrentRuntime at the API server
          refused,    \* history: an update that should have led to a
                      \* reconciliation was refused, or a daemon request for a
                      \* container that is there failed, and no reconciliation
                      \* has begun since
          fresh,      \* who has the CR as it is now
          holders,    \* who has the pod as it is now
          cleanups,   \* events of the pod's deletion not handled yet
          runtime,    \* podRuntimeState of the pod
          queued,     \* the CR is in the workqueue
          pc,         \* where the worker is, or "idle"
          effective,  \* effectiveRuntime in applyRTSettingsToContainers
          next,       \* the container the worker's loop is at
          seenBusy,   \* lastCpuBusyState of the node
          hpc,        \* handler -> where it is, or "idle"
          container,  \* handler -> the container that overran
          wh,         \* where the webhook's goroutine is, or "idle"
          events      \* how often the surroundings have acted

podVars    == <<phase, applied, configured, cleanups>>
statusVars == <<status, refused>>
workerVars == <<pc, effective, next, seenBusy>>
handlerVars == <<hpc, container>>
vars == <<podVars, busy, statusVars, fresh, holders, runtime, queued,
          workerVars, handlerVars, wh, events>>

Phases == {"absent", "pending", "running", "terminating"}
Running == phase \in {"running", "terminating"}   \* Status.Phase is Running

NoSetting == [runtime |-> "none", core |-> "none"]
Setting(r, core) == [runtime |-> r, core |-> core]
Settings == {NoSetting} \cup
            [runtime : {"low", "hi"}, core : {"spec", "allocated"}]

WorkerSteps == {"idle", "read", "apply", "node", "recover", "list", "revert",
                "set", "status", "affinity", "move"}
HandlerSteps == {"idle", "list", "read", "send", "set", "status"}

Init ==
    /\ phase \in {"absent", "running"} /\ cleanups = 0
    /\ applied = [c \in Containers |-> NoSetting]
    /\ configured = FALSE
    /\ busy = "unset" /\ seenBusy = "unset"
    /\ status = "" /\ refused = FALSE /\ fresh = {"cache"} /\ holders = {}
    /\ runtime = "" /\ queued = TRUE
    /\ pc = "idle" /\ effective = "low" /\ next = 1
    /\ hpc = [h \in Handlers |-> "idle"]
    /\ container = [h \in Handlers |-> 1]
    /\ wh = IF phase = "running" THEN "wait" ELSE "idle"
    /\ events = 0

-----------------------------------------------------------------------------
\* Parts of the steps.

\* The runtime a state stands for: anything but "hi" is low.
Effective(state) == IF state = "hi" THEN "hi" ELSE "low"

\* A request to the daemon of a's node for container c of a's pod: it may take
\* effect and still be reported as failed; it has none once the pod is gone.
SendRTRequest(a, c, setting, ok) ==
    /\ ok \/ a \notin holders \/ "daemonFails" \in Allowed
    /\ \/ a \in holders /\ applied' = [applied EXCEPT ![c] = setting]
       \/ ~(ok /\ a \in holders) /\ UNCHANGED applied
    /\ refused' = (refused \/ (~ok /\ a \in holders))

\* a reads the CR from the cache, or the pod.
CopyCR(a) ==
    fresh' = IF "cache" \in fresh THEN fresh \cup {a} ELSE fresh \ {a}
CopyPod(a) == holders' = holders \cup {a}

\* r.Status().Update with a's copy: a conflict when it is old, which is only
\* logged; a change makes every other copy old.
UpdateStatus(a, value, changes) ==
    \/ /\ a \in fresh
       /\ status' = value
       /\ fresh' = IF changes THEN {} ELSE fresh
       /\ UNCHANGED refused
    \/ /\ a \notin fresh \/ "apiFails" \in Allowed
       /\ refused' = TRUE
       /\ UNCHANGED <<status, fresh>>

-----------------------------------------------------------------------------
\* handleOverrunEvent, in the goroutine of request h.

At(h, here, there) == hpc[h] = here /\ hpc' = [hpc EXCEPT ![h] = there]

ListCR(h) ==
    /\ At(h, "list", "read")
    /\ CopyCR(h)
    /\ UNCHANGED <<podVars, statusVars, holders, runtime, container>>

\* A pod that runs hi needs nothing, whichever container the event is about.
AlreadyHi(h) ==
    /\ runtime = "hi"
    /\ At(h, "read", "idle")
    /\ UNCHANGED <<podVars, statusVars, fresh, holders, runtime, container>>

NotHi(h) ==
    /\ runtime # "hi"
    /\ At(h, "read", "send")
    /\ UNCHANGED <<podVars, statusVars, fresh, holders, runtime, container>>

\* runtime_hi on the core of the spec, to the one container.
SendHi(h) ==
    /\ \/ /\ SendRTRequest(h, container[h], Setting("hi", "spec"), TRUE)
          /\ At(h, "send", "set")
       \/ /\ SendRTRequest(h, container[h], Setting("hi", "spec"), FALSE)
          /\ At(h, "send", "idle")
    /\ UNCHANGED <<phase, configured, cleanups, status, fresh, holders,
                   runtime, container>>

SetHi(h) ==
    /\ At(h, "set", "status")
    /\ runtime' = "hi"
    /\ UNCHANGED <<podVars, statusVars, fresh, holders, container>>

\* LastOverrunTime makes this a change whatever CurrentRuntime was.
StatusHiLeftOut(h) ==                     \* mutant: no status update at all
    /\ At(h, "status", "idle")
    /\ UNCHANGED <<podVars, statusVars, fresh, holders, runtime, container>>

StatusHi(h) ==
    /\ At(h, "status", "idle")
    /\ UpdateStatus(h, "hi", TRUE)
    /\ UNCHANGED <<podVars, holders, runtime, container>>

HandlerStep(h) ==
    /\ \/ ListCR(h) \/ AlreadyHi(h) \/ NotHi(h)
       \/ SendHi(h) \/ SetHi(h) \/ StatusHi(h)
    /\ UNCHANGED <<busy, queued, workerVars, wh, events>>

-----------------------------------------------------------------------------
\* The reconcile worker, from Reconcile's view of this pod; the booking of
\* cores between "read" and "apply" is the subject of module Preemption.

Goto(here, there) == pc = here /\ pc' = there

\* ensurePodRuntimeStateInitialized for a pod on a node; the settings are
\* applied to one that is Running.
Fetch ==
    /\ queued /\ queued' = FALSE
    /\ IF phase = "absent"
         THEN Goto("idle", "node") /\ UNCHANGED <<runtime, holders>>
         ELSE /\ Goto("idle", IF Running THEN "read" ELSE "node")
              /\ CopyPod("worker")
              /\ runtime' = IF runtime = "" THEN "low" ELSE runtime
    /\ UNCHANGED <<applied, statusVars, fresh, effective, next, seenBusy>>

ReadState ==
    /\ Goto("read", "apply")
    /\ effective' = Effective(runtime) /\ next' = 1
    /\ refused' = FALSE
    /\ UNCHANGED <<applied, status, fresh, holders, runtime, queued, seenBusy>>

\* One container after the other; the first failure ends the loop.
ApplyNext ==
    /\ \E ok \in BOOLEAN :
        /\ SendRTRequest("worker", next, Setting(effective, "allocated"), ok)
        /\ Goto("apply", IF ok /\ next < LastContainer THEN "apply" ELSE "node")
        /\ next' = IF ok /\ next < LastContainer THEN next + 1 ELSE 1
    /\ UNCHANGED <<status, fresh, holders, runtime, queued, effective,
                   seenBusy>>

\* Pressure is EventHandler's; an isCpuBusy that turned false is a recovery.
NodeCheck ==
    /\ LET changed == busy # "unset" /\ busy # seenBusy IN
       /\ seenBusy' = IF changed THEN busy ELSE seenBusy
       /\ Goto("node", IF changed /\ busy = "false" THEN "recover" ELSE "idle")
    /\ UNCHANGED <<applied, statusVars, fresh, holders, runtime, queued,
                   effective, next>>

\* handleCPURecovery for this pod: only when its state is "hi".
Recover ==
    /\ Goto("recover",
            IF phase # "absent" /\ runtime = "hi" THEN "list" ELSE "idle")
    /\ IF phase # "absent" THEN CopyPod("worker") ELSE UNCHANGED holders
    /\ UNCHANGED <<applied, statusVars, fresh, runtime, queued, effective,
                   next, seenBusy>>

RecoverList ==
    /\ Goto("list", "revert")
    /\ CopyCR("worker") /\ next' = 1
    /\ UNCHANGED <<applied, statusVars, holders, runtime, queued, effective,
                   seenBusy>>

\* runtime_low on the core of the spec; a failure does not end the loop.
RevertPastTheEnd ==                       \* mutant: the loop is one too long
    /\ \E ok \in BOOLEAN :
          SendRTRequest("worker", next, Setting("low", "spec"), ok)
    /\ Goto("revert", IF next <= LastContainer THEN "revert" ELSE "set")
    /\ next' = IF next <= LastContainer THEN next + 1 ELSE 1
    /\ UNCHANGED <<status, fresh, holders, runtime, queued, effective,
                   seenBusy>>

RevertNext ==
    /\ \E ok \in BOOLEAN :
          SendRTRequest("worker", next, Setting("low", "spec"), ok)
    /\ Goto("revert", IF next < LastContainer THEN "revert" ELSE "set")
    /\ next' = IF next < LastContainer THEN next + 1 ELSE 1
    /\ UNCHANGED <<status, fresh, holders, runtime, queued, effective,
                   seenBusy>>

SetLow ==
    /\ Goto("set", "status")
    /\ runtime' = "low"
    /\ UNCHANGED <<applied, statusVars, fresh, holders, queued, effective,
                   next, seenBusy>>

StatusLowOfLatest ==                      \* mutant: a conflict is tried again
    /\ Goto("status", "idle")
    /\ status' = "low"
    /\ fresh' = IF status # "low" THEN {} ELSE fresh
    /\ UNCHANGED <<applied, refused, holders, runtime, queued, effective, next,
                   seenBusy>>

StatusLow ==
    /\ Goto("status", "idle")
    /\ UpdateStatus("worker", "low", status # "low")
    /\ UNCHANGED <<applied, holders, runtime, queued, effective, next,
                   seenBusy>>

\* updatePodCoreAffinity, when another CR's reconciliation migrates this pod:
\* the new AllocatedCore, then runtime_low for every container, whatever the
\* state says.  A refused status update ends it.
Affinity ==
    /\ \/ "worker" \in fresh /\ fresh' = {} /\ Goto("affinity", "move")
       \/ /\ "worker" \notin fresh \/ "apiFails" \in Allowed
          /\ Goto("affinity", "node") /\ UNCHANGED fresh
    /\ next' = 1
    /\ UNCHANGED <<applied, statusVars, holders, runtime, queued, effective,
                   seenBusy>>

MoveNext ==
    /\ \E ok \in BOOLEAN :
          SendRTRequest("worker", next, Setting("low", "allocated"), ok)
    /\ Goto("move", IF next < LastContainer THEN "move" ELSE "node")
    /\ next' = IF next < LastContainer THEN next + 1 ELSE 1
    /\ UNCHANGED <<status, fresh, holders, runtime, queued, effective,
                   seenBusy>>

WorkerStep ==
    /\ \/ Fetch \/ ReadState \/ ApplyNext \/ NodeCheck
       \/ Recover \/ RecoverList \/ RevertNext \/ SetLow \/ StatusLow
       \/ Affinity \/ MoveNext
    /\ UNCHANGED <<phase, configured, cleanups, busy, handlerVars, wh, events>>

-----------------------------------------------------------------------------
\* scheduleRTConfiguration, started when the pod was admitted: a tick every
\* five seconds, for five minutes.

Tick ==
    /\ wh = "wait" /\ Running
    /\ wh' = IF configured THEN "idle" ELSE "send"
    /\ CopyPod("webhook")
    /\ UNCHANGED <<podVars, queued, refused>>

\* The pod is not found any more, or the five minutes are over.
GiveUpWhenGone ==                         \* mutant: without the timeout
    /\ wh = "wait" /\ phase = "absent" /\ wh' = "idle"
    /\ UNCHANGED <<podVars, queued, holders, refused>>

GiveUp ==
    /\ wh = "wait" /\ wh' = "idle"
    /\ UNCHANGED <<podVars, queued, holders, refused>>

\* runtime_low on the core of the spec, to the first container.
SendLow ==
    /\ wh = "send"
    /\ \E ok \in BOOLEAN :
        /\ SendRTRequest("webhook", 1, Setting("low", "spec"), ok)
        /\ wh' = IF ok THEN "annotate" ELSE "wait"
    /\ UNCHANGED <<phase, configured, cleanups, queued, holders>>

\* The two annotations; an update of the pod is an event for the worker.  The
\* patches carry the context of the admission request, which the server cancels
\* once the request is answered, as a rule long before; a failed patch is only
\* logged.
Annotate ==
    /\ wh = "annotate" /\ wh' = "idle"
    /\ \/ /\ "webhook" \in holders
          /\ configured' = TRUE /\ queued' = TRUE
          /\ UNCHANGED refused
       \/ /\ "webhook" \notin holders \/ "contextEnds" \in Allowed
          /\ refused' = TRUE
          /\ UNCHANGED <<configured, queued>>
    /\ UNCHANGED <<phase, applied, cleanups, holders>>

WebhookStep ==
    /\ Tick \/ GiveUp \/ SendLow \/ Annotate
    /\ UNCHANGED <<busy, status, fresh, runtime, workerVars, handlerVars,
                   events>>

-----------------------------------------------------------------------------
\* The informers: the CR's changes reach the cache and the queue; the events
\* of a pod that is being deleted clear its state.

DeliverCR ==
    /\ "cache" \notin fresh
    /\ fresh' = fresh \cup {"cache"} /\ queued' = TRUE
    /\ UNCHANGED <<cleanups, runtime>>

CleanupPodState ==
    /\ cleanups > 0 /\ cleanups' = cleanups - 1
    /\ runtime' = "" /\ queued' = TRUE
    /\ UNCHANGED fresh

InformerStep ==
    /\ DeliverCR \/ CleanupPodState
    /\ UNCHANGED <<phase, applied, configured, busy, statusVars, holders,
                   workerVars, handlerVars, wh, events>>

\* The kubelet starts the pod's containers.
StartPod ==
    /\ phase = "pending" /\ phase' = "running"
    /\ queued' = TRUE
    /\ UNCHANGED <<applied, configured, cleanups, busy, statusVars, fresh,
                   holders, runtime, workerVars, handlerVars, wh, events>>

-----------------------------------------------------------------------------
\* The surroundings, MaxEvents times.

Surroundings == events < MaxEvents /\ events' = events + 1

\* The node's monitor reports an overrun of container c; the pod is found by it.
Overrun(h, c) ==
    /\ Surroundings
    /\ Running
    /\ At(h, "idle", "list")
    /\ container' = [container EXCEPT ![h] = c]
    /\ CopyPod(h)
    /\ UNCHANGED <<podVars, busy, statusVars, fresh, runtime, queued,
                   workerVars, wh>>

\* The utilisation sender sets the node's annotation.
SetBusy ==
    /\ Surroundings
    /\ "busy" \in Allowed
    /\ busy' = IF busy = "true" THEN "false" ELSE "true"
    /\ UNCHANGED <<podVars, statusVars, fresh, holders, runtime, queued,
                   workerVars, handlerVars, wh>>

\* Another CR of the node is reconciled: only the node matters to this pod.
FetchOther ==
    /\ Surroundings
    /\ "busy" \in Allowed
    /\ Goto("idle", "node")
    /\ UNCHANGED <<podVars, busy, statusVars, fresh, holders, runtime, queued,
                   effective, next, seenBusy, handlerVars, wh>>

\* Another CR's reconciliation preempts this pod and finds room elsewhere.
Preempted ==
    /\ Surroundings
    /\ "preempted" \in Allowed
    /\ phase # "absent"
    /\ Goto("idle", "affinity")
    /\ CopyPod("worker") /\ CopyCR("worker")
    /\ UNCHANGED <<podVars, busy, statusVars, runtime, queued, effective, next,
                   seenBusy, handlerVars, wh>>

\* Someone else changes the CR: a first AllocatedCore, a user's edit.
ChangeCR ==
    /\ Surroundings
    /\ "crChange" \in Allowed
    /\ fresh' = {}
    /\ UNCHANGED <<podVars, busy, statusVars, holders, runtime, queued,
                   workerVars, handlerVars, wh>>

\* The pod is created, through the webhook; is deleted; its containers end.
PodChanges(from, to) ==
    /\ Surroundings
    /\ "podChange" \in Allowed
    /\ phase = from /\ phase' = to
    /\ UNCHANGED <<busy, statusVars, fresh, runtime, workerVars, handlerVars>>

CreatePod ==
    /\ PodChanges("absent", "pending")
    /\ wh = "idle" /\ wh' = "wait"
    /\ queued' = TRUE
    /\ UNCHANGED <<applied, configured, cleanups, holders>>

DeletePod ==
    /\ PodChanges("running", "terminating")
    /\ cleanups' = cleanups + 1 /\ queued' = TRUE
    /\ UNCHANGED <<applied, configured, holders, wh>>

EndPod ==
    /\ PodChanges("terminating", "absent")
    /\ cleanups' = cleanups + 1
    /\ applied' = [c \in Containers |-> NoSetting]
    /\ configured' = FALSE /\ holders' = {}
    /\ UNCHANGED <<queued, wh>>

\* The controller's process ends and starts again, with its memory gone and
\* everything listed anew.
Restart ==
    /\ Surroundings
    /\ "restart" \in Allowed
    /\ fresh' = {"cache"} /\ holders' = {}
    /\ cleanups' = IF phase = "terminating" THEN 1 ELSE 0
    /\ runtime' = "" /\ queued' = TRUE
    /\ pc' = "idle" /\ effective' = "low" /\ next' = 1 /\ seenBusy' = "unset"
    /\ hpc' = [h \in Handlers |-> "idle"] /\ wh' = "idle"
    /\ UNCHANGED <<phase, applied, configured, busy, statusVars, container>>

Next ==
    \/ \E h \in Handlers : HandlerStep(h)
    \/ WorkerStep \/ WebhookStep \/ InformerStep \/ StartPod
    \/ \E h \in Handlers, c \in Containers : Overrun(h, c)
    \/ SetBusy \/ FetchOther \/ Preempted \/ ChangeCR
    \/ CreatePod \/ DeletePod \/ EndPod \/ Restart

\* Goroutines keep running and informers keep delivering; the surroundings
\* owe nothing.
Fairness ==
    /\ \A h \in Handlers : WF_vars(HandlerStep(h))
    /\ WF_vars(WorkerStep) /\ WF_vars(WebhookStep)
    /\ WF_vars(InformerStep) /\ WF_vars(StartPod)
    /\ SF_vars(WebhookStep /\ GiveUp)   \* the five minutes pass

Spec == Init /\ [][Next]_vars

FairSpec == Spec /\ Fairness

-----------------------------------------------------------------------------
(***************************************************************************)
(* Properties                                                              *)
(***************************************************************************)

TypeOK ==
    /\ phase \in Phases /\ cleanups \in Nat
    /\ applied \in [Containers -> Settings]
    /\ configured \in BOOLEAN
    /\ {busy, seenBusy} \subseteq {"unset", "true", "false"}
    /\ status \in {"", "low", "hi"} /\ refused \in BOOLEAN
    /\ fresh \subseteq Actors \cup {"cache"}
    /\ holders \subseteq Actors
    /\ runtime \in {"", "low", "hi"}
    /\ queued \in BOOLEAN
    /\ pc \in WorkerSteps /\ effective \in {"low", "hi"} /\ next \in Containers
    /\ hpc \in [Handlers -> HandlerSteps]
    /\ container \in [Handlers -> Containers]
    /\ wh \in {"idle", "wait", "send", "annotate"}
    /\ events \in 0 .. MaxEvents

\* A recovery does not report low over the hi of an overrun that came while it
\* ran: its copy of the CR is older than the overrun's report and conflicts.
\* But for a request or update that was refused, the one way to it is to come
\* between the state and the report of the overrun, which conflicts in its turn
\* (mckube_controller.go:438-505, 924-945).
LowIsNotReportedOfHi ==
    [][status' = "low" /\ status # "low" /\ runtime = "hi"
         => refused \/ \E h \in Handlers : hpc[h] = "status"]_vars

\* Nothing is under way; and that for a pod that runs.
Quiet ==
    /\ cleanups = 0 /\ "cache" \in fresh
    /\ ~queued /\ pc = "idle" /\ wh = "idle"
    /\ \A h \in Handlers : hpc[h] = "idle"

AtRest == Quiet /\ phase = "running"

\* The containers and the state part ways for good only where a status update
\* or the webhook's annotation was refused, each of which is what brings the
\* worker back, or a daemon failed, and nothing tries again.
OnlyARefusalParts ==
    AtRest /\ ~refused
        => \A c \in Containers : applied[c].runtime = Effective(runtime)

\* Once nothing is under way, every container of the pod has the runtime that
\* podRuntimeState stands for, so that an overrun was answered with runtime_hi
\* (docs/RUNTIME_ESCALATION.md, step 3).
SettledRuntimeIsApplied ==
    AtRest => \A c \in Containers : applied[c].runtime = Effective(runtime)

\* Once nothing is under way, an escalated pod has the "hi" of StatusHi in its
\* Status.CurrentRuntime.
EscalationIsReported ==
    AtRest /\ runtime = "hi" => status = "hi"

\* Once nothing is under way, the containers are on the allocated core.
SettledCoreIsAllocated ==
    AtRest => \A c \in Containers : applied[c].core = "allocated"

\* A pod that has not started yet, so that no container of it can have
\* overrun, is not in the hi state of an earlier pod of its name.
FreshPodIsNotHi == phase = "pending" => runtime # "hi"

\* The status updates of handlers and worker, each an event for the worker,
\* and the webhook's retries come to an end, whatever fails.
EventuallyQuiet == <>[]Quiet

\* Once nothing is under way, a pod of a node that recovered, isCpuBusy having
\* turned false after the controller saw it true, does not run hi
\* (docs/RUNTIME_ESCALATION.md, step 4).
RecoveryReverts ==
    AtRest /\ busy = "false" /\ seenBusy = "true" => runtime # "hi"
=============================================================================
