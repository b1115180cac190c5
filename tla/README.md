# MC-Kube in TLA+

MC-Kube is a Kubernetes controller for mixed-criticality real-time pods. A
`McKube` resource names a pod, its criticality and its real-time settings; the
controller books the pod on CPU cores of its node, preempts pods of lower
criticality when a core gets too full, sends the settings to a daemon on the
node, raises the runtime of a pod that overruns, takes it back when the node
recovers, and degrades or evicts pods of a node whose CPU stays busy.

This directory holds a TLA+ model of that program, the TLC configurations
that check it on small instances, and theorems proved with TLAPS. Paths below
are relative to the repository (`src/` of the working tree); line numbers of
every definition are in `PROJECT.json` under `map`.

## 1. Inventory

| Component | Source | State | Operations |
|---|---|---|---|
| CPU pool | `internal/controller/mckube_controller.go`, type `CPUPool` | per core: `UsageMillis`, map `Pods` of `PodInfo` | `addPodToCore`, `removePodFromCore`, `getCoreUtilization`, `getPodsOnCore`, `findLeastLoadedCore`, the loop of `cleanupPodState` |
| Reconcile worker | same file, `Reconcile` to `updateCPUPoolForPod` | locals of one reconciliation; CR status; `podRuntimeState` | fetch, check, preempt, migrate, evict, book |
| Pod informer | `findObjectsForPod`, `cleanupPodState` | events of the cache | clean up after a deleted pod, enqueue its CR |
| Overrun listener | `handleOverrunEvent` | `podRuntimeState`, `Status.CurrentRuntime` | one goroutine per HTTP request |
| CPU recovery, application of settings | `handleCPURecovery`, `applyRTSettingsToContainers`, `updatePodCoreAffinity` | `lastCpuBusyState` | one daemon request per container |
| Mutating webhook | `internal/webhook/pod_mutator.go` | annotations; the goroutines it started | annotates a pod that a CR has settings for; a goroutine per request waits up to five minutes for the pod, sends the first settings, marks the pod |
| RT validator | `internal/webhook/rt_validator.go` | none | denies a pod whose `RTSettings` are not consistent or take more than 95 % of a core |
| Node pressure | `internal/ipvs/event_handler.go` | `PressureState`, `ProcessingNodes` | `FindObjectsForNode`, `HandleNodeCPUPressure`, `ProcessCurrentTier`, `EvictPod` |
| PodSpecHandler, DataCollector | `internal/ipvs/pod_spec_handler.go`, `data_collector.go` | none | choice of the pod to degrade, new requests, reads of node and pods |
| CR lifecycle | start of `Reconcile` | finalizer, `spec.Node`, requeues | put the finalizer on, find the pod's node, clean up after a deleted CR and let it go |
| Taint thread | `StartTaintThread` | map `Timers`, never filled | none that happens |
| API types, process set-up, manifests, tests | `api/v1`, `cmd/main.go`, `config`, `test` | | |

**How they interact.** Pod, CR and node changes reach the controller through
informer caches; pod and CR changes enqueue CRs for one reconcile worker.
`findObjectsForPod` also cleans up in the informer's goroutine, before the
request it returns is queued. The overrun listener, the webhook and node
updates start goroutines of their own. These share with the worker the maps
`podRuntimeState` and the pools (locked), `PressureState` (not locked), and,
through the API server, CR statuses and pods. Every status write is an event
and so a further reconciliation; an update of a *node* enqueues nothing, since
`FindObjectsForNode` returns no requests.

**What is hard.** A lock is held for one map access, never across an API call
or a daemon request, so each actor works from something it read earlier: the
snapshot of victims, the copy of the CR, the runtime state, the pods of the
node. Writes with an old copy conflict, are logged and not tried again. What
the controller knows of bookings and runtimes is in memory only and made anew
after a restart. Pods and CRs are known by name, and a name may come back. The
mutating webhook starts its goroutine before anyone knows what becomes of the
request. The hazards,
line by line, are in `PROJECT.json` under `hazards`.

**What makes each component correct.**
- *Pool*: a core's total never says less than its entries add up to, or the
  threshold check lets a core overfill.
- *Worker*: a pod loses its core only to a higher criticality; a migration
  fits; the controller comes to rest; every running pod is then booked.
- *Escalation, recovery, webhook*: once all is quiet, the containers run with
  the runtime the controller remembers for the pod.
- *CR lifecycle*: what is booked belongs to a CR whose deletion will release
  it; deletions end; at rest every CR that is left is held and its running pod
  booked, and a CR and a running pod that stay get there, whatever went before.
- *Webhooks*: what is admitted books a sensible amount; goroutines end, and
  not before their pod is configured or given up; nothing is sent for a
  request that came to nothing.
- *Node pressure*: one handler per node; requests only go down; lower tiers
  first; one eviction per tier and spell of pressure; the mark that keeps
  others out goes away.

## 2. Modules

| Module | What it is | State and actions against the code |
|---|---|---|
| `CPUPool` | the pool of one node; the abstract specification `PoolSpec` of what its callers may do to it | `usage`, `entry` are `UsageMillis`, `Pods`; one action per method, atomic since a method runs under the pool's lock |
| `Preemption` | the reconcile worker between one lock section or API call and the next, with the informer, API server, caches, overruns, recovery, restart | `pc` is the place in `Reconcile`; `self`, `targets`, `millis`, `todo`, `victim`, `dest` are its locals; `pod`/`podSeen`, `alloc`/`allocSeen` are API server and cache |
| `RuntimeEscalation` | one pod and what sets the runtime of its containers | `hpc` the overrun goroutines, `pc` the worker, `wh` the webhook's goroutine, `applied` what the daemon has set, `runtime` the remembered state |
| `NodePressure` | one node and the handlers of its pressure | `processing`, `current`/`states`, `lastBusy` are `ProcessingNodes`, `PressureState`, `lastCpuBusyState`; `pc`, `snap`, `mine`, `curTier` each handler's place and what it read; in `snap`, `milli` is `podMilli`, which stays as read, and `specs` the requests in `nodePods`, of which the answer to the resize patch brings one up to date |
| `NodePressureSpells` | `NodePressure` with a history of its evictions | `evictions` counts, per tier, the pods lost since the node's state was last cleared |
| `PressureLadder` | the abstract specification of node pressure: one ladder of tiers, no handlers, snapshots or durations | `rung` is the current tier, `tried` the tiers an eviction was tried in |
| `McKubeLifecycle` | CRs and the pods they name from creation to deletion, and the worker from the fetch of the CR to the booking | `pc` is the place in `Reconcile`, `copy` its `rt`, `fresh` whether that is the stored version; `cr`/`crSeen`/`crNews` and `pod`/`podSeen`/`podNews` are API server, cache and what lies between; `queue`, `timers` the workqueue; `booked` the nodes with an entry of the pod |
| `Finalizer` | the abstract specification of what the finalizer is for: a CR is held once it has it, only the pod of such a CR is booked, and a deleted CR goes when nothing is booked for its pod | `life` is a CR without and with finalizer, then deleted; `booked` the nodes with an entry of a pod |
| `RTSettings` | pure: `validateRTSettings`, the millicore amount, `parseCoreSet` | a core string is the sequence of its parts |
| `Admission` | CREATE requests for pods of one name through both webhooks, and the goroutines they leave behind | `request` is the one under way, `task` the goroutines of `scheduleRTConfiguration` with the settings and the request they were started for |
| `CPUPoolProofs`, `PreemptionProofs`, `McKubeLifecycleProofs`, `AdmissionProofs`, `NodePressureProofs`, `RuntimeEscalationProofs` | theorems about the module of that name | |
| `PreemptionBookingProofs` | extends `PreemptionProofs`: that running pods are booked at rest | |
| `NodePressureLadderProofs` | extends `NodePressureProofs`: that `NodePressure` implements `PressureLadder` | |
| `MC…` | instances for TLC | pods, amounts, core sets, settings |

`Preemption` extends `CPUPool` and acts on its variables; that every step of
it is a step of `PoolSpec` is the property `ImplementsPool`, checked and
proved. `McKubeLifecycle` has an instance of `Finalizer` (`F`, with `life` read
off the stored CRs; caches, copies, queue and timers are gone), and implements
it without conditions (`ImplementsFinalizer`). `NodePressure` has an instance of `PressureLadder` (`Ladder ==
INSTANCE PressureLadder WITH rung <- …, tried <- …`, read off the state in
`PressureState`), and `ImplementsLadder`, checked and proved, says that it
implements it as long as `isCpuBusy` stays as the controller last saw it.
`Admission` extends
`RTSettings`. `RuntimeEscalation`, `McKubeLifecycle` and `NodePressure` stand
alone: what they share
with the booking (migrations, evictions, the recovery) is an action of their
surroundings, as `Overrun` and `Recover` are of `Preemption`'s. `McKubeLifecycle` abstracts
a pool to "has an entry of the pod"; `Preemption` starts where it books.

A definition marked `mutant:` is a deliberately broken variant of the one that
follows it: a dropped guard, a step left out, an off-by-one. No specification
uses it; substituted for the real definition it makes TLC refute the property
`PROJECT.json` lists beside it under `mutants`, which shows that the property
can fail.

### Abstractions

- *All*: formatting, logging and annotations nobody reads are left out; a
  failed read ends the handler, as the early return does. `MaxEvents` bounds
  how often the surroundings act, never the controller; what the controller
  does on its own account is unbounded.
- *CPUPool*: amounts are integers.
- *Threshold*: the code adds floats of cores and compares with 0.9. Away from
  900 millicores that is the comparison of the integers; at exactly 900 the
  operands decide (338 + 562 comes out above), so there `Preemption` may go
  either way (`MayExceed`, `MayFit`).
- *Preemption*: one node; a CR and its pod share a name; criticality is
  constant; the cache is at most one pod change behind; a status copy is read
  and written in one step; a status write conflicts when the cache is behind.
  Left out: CRs without RTSettings or Core, the empty core set; finished pods
  are in `McKubeLifecycle`.
- *RuntimeEscalation*: one pod, at most one webhook goroutine. `holders` are
  the actors whose copy of the pod is the present pod, `fresh` those whose copy
  of the CR is the present one, so that a request to a pod that is gone has no
  effect and an update with an old copy conflicts. Container restarts are left
  out. A daemon request may take effect and still be reported as failed.
- *McKubeLifecycle*: every CR names a pod and has RTSettings with a Core in the
  pool, and cores have room, so that a booking is one step. The cache of pods
  is at most one change behind, since the watch keeps the order of changes and
  only the age of what a handler sees matters; the cache of CRs may skip
  versions. A write with an old copy conflicts, one with the stored version
  may fail and still have had its effect. Requeues, after whatever time, are
  `timers`. A new start of the process finds CRs and pods in any state
  that users or an earlier process can have left.
- *Admission*: pods of one name, of which one CR is the first to name it; one
  request at a time, since requests share nothing but the goroutines they
  leave; caches of the webhook are current, except that a List may fail. The
  patch that marks a pod uses the context of a request that has ended and may
  be refused (`Mark`). A goroutine works on the pod it found even if that has
  gone (`late`). Settings are integers of any size; `float64(period) * 0.95`
  truncated is the integer quotient for all periods up to a second.
- *NodePressure*: caches are current, so what makes a handler's view old is
  the time it works. Only its own resize patch refreshes it: controller-runtime
  decodes the server's answer into the pod it was given, an element of
  `nodePods`, so `HasActionableInTier` at the end of the same handling sees
  what the handling lowered, and may move on at once. `podMilli`, by which pods
  are ranked, stays as read. A patch may take effect and its answer be lost.
  `DegradeCount` is kept as "positive or not", the
  tolerance counter stops at its limit of 2. A goroutine needs a slot in
  `Goroutines`. An update of the node leads to two calls of
  `FindObjectsForNode`, for the old and for the new object, as
  `EnqueueRequestsFromMapFunc` of controller-runtime makes them. The eviction
  label is left out: its update succeeds only with the current version of the
  pod, which is the one the handler has.
- The informers' resync, every ten hours or so, is left out: "at rest" means
  until then.

Code of controller-runtime, the API server and the daemon is modelled from how
the controller uses it and marked `external` in the map.

## 3. Runs

Run one with `tlc -config <cfg> <module>`. The largest, `escalation_refusals`,
has 5.0 million distinct states; `preemption_rest` has 1.9 million,
`preemption_order` has 1.4 million, `pressure_mark` and `pressure_alone`
nearly a million, the others fewer.

### Runs that pass

| Run | Configuration | Question |
|---|---|---|
| `preemption_order` | `MCPreemptionOrder.cfg` | Three pods of three criticalities, overlapping core sets of which one names a core the pool lacks, one disturbance anywhere. Pods lose their place only to strictly higher ones (`PreemptionOrder`); a migration never fills a core beyond the threshold though the room is read under one lock and used under another (`MigrationWithinThreshold`); each step is a step of the pool's methods or leaves the pool alone (`ImplementsPool`); totals are exact or too large (`NeverUndercounts`), a surplus is for good (`LeakIsForGood`), and the only step that makes one is a migration to a core the victim still has an entry of (`LeaksOnlyByMigration`). |
| `preemption_rest` | `MCPreemptionRest.cfg` | Three creations, deletions, overruns, recoveries or restarts, and writes to the API server that fail: the controller comes to rest (`EventuallyQuiet`), and then every running pod is booked but those whose eviction failed and that were not reconciled since (`LivePodsAreBooked`). |
| `escalation_refusals` | `MCRuntimeEscalationRefusals.cfg` | Two requests, a restart, busy changes, CR changes, a migration, pod changes: what the containers run with and what the controller remembers part for good only where a status or annotation update was refused (`OnlyARefusalParts`), and a recovery does not report low over the report of an overrun that came while it ran (`LowIsNotReportedOfHi`). |
| `escalation_quiet` | `MCRuntimeEscalationQuiet.cfg` | One request, everything of the above, and daemon requests that fail: worker, handlers, webhook and informers do not keep each other busy (`EventuallyQuiet`), and runtime and state part for good only after a refused update or a failed request (`OnlyARefusalParts`). |
| `pressure_alone` | `MCNodePressureAlone.cfg` | While `isCpuBusy` stays as the controller last saw it: one handler at a time, requests only go down, one eviction per tier over all handlings of the spell (`OneEvictionPerTier`, which counts them), lower tiers first, and in all a climb of `PressureLadder` through three tiers (`ImplementsLadder`). |
| `pressure_mark` | `MCNodePressureMark.cfg` | With `isCpuBusy` changing and recoveries clearing the state under a handler, the mark of a node in progress belongs to a goroutine that will take it away (`MarkHasOwner`), and goes away again (`MarkIsTakenAway`). |
| `lifecycle` | `MCMcKubeLifecycle.cfg` | A CR and its pod, two nodes, four times one of: create, delete, edit, schedule, finish, end, a failing write, a restart. What is booked has a CR with its finalizer (`EntriesHaveCR`), the steps are those of `Finalizer` (`ImplementsFinalizer`), at rest every CR left has finalizer and node and its running pod is booked there (`SettledAtRest`), a CR's deletion ends (`DeletionEnds`), and when CR and running pod stay the pod is booked on its node in the end (`LiveIsBooked`). |
| `admission` | `MCAdmission.cfg` | Two goroutines, four requests, dry runs, edits, deletions, failures or restarts. What is admitted books between 1 and 950 millicores (`AdmittedAmounts`), core sets written as documented are read as written (`CoresAsWritten`), a pod is not lost sight of by the goroutine started for it before it is configured, told something or given up (`OwnGoroutineAttends`), and goroutines end (`TasksEnd`). |

### Runs that show a divergence

Each checks one property that states what a comment or document of the
repository says; TLC's trace shows what the code does instead.

| Run | Source | What happens |
|---|---|---|
| `usage_exact` | `mckube_controller.go:1076` | The total "CPU usage allocated at present" (125) exceeds the sum of the entries: a victim booked on cores 0 and 1 moves from one to the other, where `addPodToCore` overwrites its entry and adds its amount again. |
| `settled_applied` | `mckube_controller.go:939` | `docs/RUNTIME_ESCALATION.md:20`: on an overrun the pod goes over to `runtime_hi`. The handler sends it to one container and leaves the others to the reconciliation its status update leads to. When the update conflicts there is none: the pod rests with state hi and a container at `runtime_low`. |
| `recovery_reverts` | `event_handler.go:365` | `docs/RUNTIME_ESCALATION.md:27`: the controller detects the recovery and takes all RT pods back. The node's update enqueues no CR, so the pod goes on with `runtime_hi` until one is reconciled for another reason. |
| `dry_run_applied` | `pod_mutator.go:101` | `sideEffects=NoneOnDryRun` (`pod_mutator.go:21`): `Handle` starts its goroutine for a dry run as for any request, and when a pod of the name is created otherwise, the daemon is sent the dry run's settings for it. |

### Further divergences

The modules state a few more properties of this kind, each with a
configuration under which TLC finds the counterexample. They are kept as a
record of what the code does.

| Property | Configuration | What happens |
|---|---|---|
| `PreemptionMovesElsewhere` | `MCPreemptionElsewhere.cfg` | the least loaded core may be the one the victim was just taken from |
| `PreemptsOnlyBeyondThreshold` | `MCPreemptionNeedless.cfg` | a pod booked already is counted with its old and its new amount when its runtime changes, and preempts without need |
| `DeletedPodsLeaveNothing` | `MCPreemptionDeleted.cfg` | a reconciliation that read the pod before it went books it after the last cleanup |
| `AllocatedCoreIsActual` | `MCPreemptionAllocated.cfg` | after a restart a migrated pod is booked on the cores of its spec, and runs on the one of its status |
| `SettledRuntimeIsApplied` | `MCRuntimeEscalationWebhook.cfg` | the webhook's first `runtime_low` comes after an overrun was answered; its annotations, patched with the context of an admission request that has ended, are refused, and no event follows |
| `EscalationIsReported` | `MCRuntimeEscalationReported.cfg` | a refused update leaves `CurrentRuntime` behind, and later overruns return early |
| `SettledCoreIsAllocated` | `MCRuntimeEscalationCore.cfg` | the second of two overruns sends the spec's core after the reconciliation that sent the allocated one |
| `FreshPodIsNotHi` | `MCRuntimeEscalationFresh.cfg` | a late handler writes the state of a pod that is gone, and the next pod of the name inherits it |
| `OneHandlerPerNode` | `MCNodePressureTwo.cfg` | the worker calls `HandleNodeCPUPressure` (`mckube_controller.go:377`) without a look at `ProcessingNodes`, and works beside a goroutine on one unlocked state |
| `OneEvictionPerTier` with two handlers | `MCNodePressureEvictions.cfg` (module `MCNodePressureSpells`) | goroutine and worker both find `EvictTried` not set before either evicts, and a tier loses two pods |
| `DegradationNeverRaises` | `MCNodePressureRaises.cfg` | a container that requests less than `MinMilli` is raised to it beside a larger one |
| `LowestFirst` | `MCNodePressureLowest.cfg` | once at a higher tier the node stays there when a pod of a lower one comes |
| `EvictsTheDegraded` | `MCNodePressureUndegraded.cfg` | the victim is the pod with the highest requests now, perhaps because the other one was degraded |
| `BusyIsHandled` | `MCNodePressureUnseen.cfg` | the goroutine started for the old object of an update, with nothing to do, still holds the mark when the new object says busy |
| `LiveIsBooked` with two CRs | `MCMcKubeLifecycleTwo.cfg` | `findObjectsForPod` cleans up for the pod and enqueues the first CR that names it only; when that one is on its way out the other's booking is gone for good |
| `DeniedIsNotSent` | `MCAdmissionDenied.cfg` | the goroutine of a denied request polls on and, when the CR was edited and the pod created again, sends it the settings the first request was denied for |
| `AdmittedCoresAreWellFormed` | `MCAdmissionCoreFormat.cfg` | "should be valid format" (`rt_validator.go:101`) is followed by a check that cannot fail: `-1` is admitted and read as cores 0 and 1 |

The sample `config/samples/invalid-rt-example.yaml` gives a field `runtime`
that the schema does not have; it is not a model's business, but it is not the
invalid example it means to be either.

### Bounds

- *Preemption*: amounts in units of 50 millicores, the ones of
  `test-preemption-scenario.yaml` (threshold 18 units = 900 millicores). Two
  cores are enough for a migration, a full destination and the choice between
  them; three pods for two victims of one preemptor and for every pair of
  criticalities. With all three after core 0 the scenario's preemption and
  migration happen; between them the runs take every step of the worker, the
  eviction included. One disturbance with three pods, two or three with two
  pods, keep the runs within minutes; a deletion and recreation of a pod with
  something else in between needs three.
- *RuntimeEscalation*: two containers tell "the one that overran" from "the
  others"; two requests are enough for both to pass the check before one
  writes. `escalation_refusals` allows four events, and finished without error
  at five as well (21 million states) when run by hand. Failing daemon
  requests are left out of it for its size; `escalation_quiet`
  has them, with one request. `refused` is a history variable, set by a
  refused update, a refused mark, and a failed request to a container that is
  there. The stronger "at rest a pod in
  state low runs low" without it does not hold in long runs with two spells
  of recovery.
- *NodePressure*: two pods of one tier and, in `pressure_alone`, one of each of
  the others, so that the whole ladder is climbed; requests one or
  two degradations above `MinMilli`, one container without requests; three
  updates of the node, that is six handlings one after the other, two for each
  tier; durations 1, 8 and 10 seconds reach each branch of `ShouldDegrade` and
  `ShouldEvict`; two goroutines and the worker. States of `PressureState` have identities and
  are reused when nobody refers to them. With `isCpuBusy` changing the bound
  is two events and one pod per tier, which is enough for a recovery under a
  handler, but not for a handler that misses the pods of its tier twice and
  moves on from there.
- *McKubeLifecycle*: one CR and one pod, since CRs of different pods share
  only the worker; two nodes for a pod that comes back elsewhere; four events
  are a deletion and creation of both. Any state may be the first, so these
  four come on top of whatever happened before. `RequestInv` and what follows
  from it also held, when run by hand, for two CRs of one pod and for two CRs
  of two pods (18 and 14 million states explored).
- *Admission*: two goroutines for two requests of one name; settings at exactly
  95 %, above it, with an amount that rounds to nothing, with period 0, and
  core sets of single cores, ranges and malformed parts.
- Symmetry: of the request slots in `escalation_refusals`; never with a
  liveness property.

`CHECK_DEADLOCK FALSE`: when the surroundings have used up their events and
the controller is at rest, nothing happens any more.

### Fairness

Weak fairness of the worker's steps, of each handler's, of the informers'
deliveries and of the event handlers: these are goroutines the Go scheduler
runs and loops that end only with the process. Strong fairness of the
webhook's `GiveUp`: its timeout of five minutes fires whatever the polls in
between say. The surroundings (users, the node's agent, overruns, restarts,
failures) owe nothing. In `NodePressure` nothing makes the worker reconcile,
since a node's update does not. In `McKubeLifecycle` a fetch of a CR is
strongly fair: the workqueue is first in, first out, so that a CR in it gets
its turn though the worker is not idle all the time; timers fire. In
`Admission` the API server takes requests to an end, and ticker, timeout and
the HTTP client's 30 seconds end each wait of a goroutine.

## 4. Proofs

`tlapm` on the eight `…Proofs` modules checks every theorem for all values of
the constants that satisfy the named assumptions of the modules
(`PoolAssumption`, `NoEntryAssumption`, `PreemptionAssumption`,
`LifecycleAssumption`, `AdmissionAssumption`, `NoPodAssumption`,
`PressureAssumption`, `EscalationAssumption`). These say that names are
distinct, sets of pods and of goroutines finite where they are counted, and
constants of their types; `Preemption` also assumes positive amounts, which
`ValidatedAmounts` derives from the validator's checks.

- **`PoolTyping`, `PoolNeverUndercounts`, `PoolLeakIsForGood`.** What a core's
  entries add up to is a sum over a map, which the provers cannot unfold for
  an arbitrary set of pods. `CPUPool` counts it instead: `Units(row)` is the set
  of pairs of a pod and one of its units of CPU, `Booked` its cardinality.
  Writing an entry adds at most its amount, since the old pairs of the pod are
  overwritten (`WriteBooks` says by how much); clearing one takes away exactly what
  `Released` says (`ClearReleases`). Each method then changes the leak, total
  minus booked, by nothing or upwards.
- **`PreemptionTyping`.** `TypeOK` is inductive as it stands, because it relates
  the worker's place to what it holds: a victim in hand is a snapshot, a core
  in hand exists, an event is there for `cleanupPodState`.
- **`PreemptionImplementsPool`**, by cases over the actions, and from it
  `PreemptionNeverUndercounts`.
- **`PreemptionInvariant`** is the inductive strengthening behind the two
  properties that matter most:
  - `EntriesCarryCriticality`: an entry of the pool carries the criticality of
    its pod's CR. Needed since victims are ranked by the entry, not by the CR.
  - `VictimsAreBelow`: the victims still to come rank strictly below the pod
    under reconciliation, and every snapshot carries its pod's criticality,
    however old it is.
  - `RoomIsKept`: at `migrate` the destination still has the room `CheckRoom`
    found. Nobody but the worker adds; informer and restart only make room
    (`OthersMakeRoom`).
  - `IdleWorkerHasNoVictims`: the next reconciliation does not inherit victims
    found for another pod.

  From it follow `PreemptionWithinThreshold` (`MigrationWithinThreshold`) and
  `PreemptionRespectsOrder` (`PreemptionOrder`).

- **`PreemptionLeaksOnlyByMigration`** (`LeaksOnlyByMigration`).
  `AddLeaksTheOverwritten` says exactly what `addPodToCore` loses: what the
  entry it overwrites held. When the worker books the pod under reconciliation
  it has taken the pod off that very core in the step before, and informer and
  restart, the only ones to come in between, only make room
  (`PlaceIsCleared`). What is left is `Migrate`, to the destination
  `findLeastLoadedCore` chose without a look at the entries.
- **`PodsAreBookedAtRest`** (`LivePodsAreBooked`), under `BookingAllowed`: every
  core set names a core of the node, since a pod for which no core is in the
  pool is never booked. Writes to the API server may fail. A pod whose
  eviction failed then runs on without a place until it is reconciled again,
  and nothing tries again; these pods, in the history variable `spared`, are
  the only exception, and without failing writes there are none
  (`FailingWritesSparePods`). `preemption_rest` is an instance. The invariant,
  `BookingInv`, follows a live pod: it has a place; or it is spared; or it is
  `Announced` (a change the cache has not seen, an event the handler has not
  seen, a request in the queue); or it is under reconciliation, up to the add
  that gives it a core; or it is `Displaced`, and will be placed or evicted.
  Each way out of one of these is a way into another (`PlaceStep`,
  `AnnouncedStep`, `FetchStarts`, `ReconciliationStep`, `DisplacedStep`); that a
  late cleanup is followed by a request, and that a live pod missing from the
  cache is on its way there (`CacheLagsInNews`), are the two that carry it.

- **`LifecycleTyping`, `LifecycleInvariant`, `EntriesAlwaysHaveCR`.** That every
  entry has a CR with its finalizer is not inductive, since the worker books
  and cleans up on what it read long ago. `LifecycleInv` adds what an old copy
  may still be trusted for:
  - `CacheIsCurrent`: a CR with no news is in the cache as it is stored.
  - `SeenAreHeld`: a CR that is active and has the finalizer in the cache has
    it at the API server, since only a worker with a current copy of a CR being
    deleted takes it away, and a CR of the same name created anew comes
    without.
  - `WorkerHolds`: so the CR of a worker on its way to book has it too.
  - `CopyIsCurrent`, `RemovalIsCleared`: a removal that is accepted comes from
    a current copy that is being deleted, after a cleanup nobody has booked
    after.
  - `DeletedAreHeld`, `FinalizerIsForActive`: a stored CR that is being deleted
    has its finalizer, and the worker puts none on such a CR.
- **`LifecycleImplementsFinalizer`** (`ImplementsFinalizer`): from `LifecycleInv`
  each step of worker, informers and users is one step of `Finalizer` or
  leaves `life` and `booked` alone. The two steps that need the invariant most
  are the booking (`Book` wants a CR that is held, the worker has only its copy)
  and the removal (`RemoveFinalizer` wants no entry left).
- **`NobodyIsDropped`, `LifecycleSettles`** (`SettledAtRest`). The safety behind
  "in the end": the controller never comes to rest too early. `RequestInv`
  says at any time who brings an unsettled CR back: a request, a timer or a
  change the cache has not seen (`Requested`), or a worker on it whose way out
  asks for it again (`Returns`); and the same of a running pod that is not
  booked on its node, which a pod event may announce as well, or the worker is
  about to book (`PodsAreRequested`). A worker that finds the pod as cached
  finds it as stored, unless there is news of it (`PodCacheIsCurrent`).
- **`ValidatedAmounts`** is arithmetic over all integers: from the validator's
  checks, the quotient of 1000 times the runtime by the period lies in 0 to 950, and
  the default takes the place of 0. **`AdmissionInvariant`** carries it over
  the two webhooks and an edit in between: `RequestKnown` (the settings a
  goroutine was started with are the CR's until they are validated) and
  `PodKnown`; **`AdmittedAmountsHold`** follows. `AdmissionTyping` needs
  `Attached`, by which a goroutine that believes its pod created finds one.
- **`CoreSetIsReadAsWritten`, `CoresReadAsWritten`** (`CoresAsWritten`), for
  strings of any number of parts. `FlattenSeq` is a recursive function on the
  naturals; that it exists and what it holds after `n` parts is shown from the
  least number for which it would not (`LeastNat`, by the well-foundedness of
  the naturals), which needs no theorem with an operator as a parameter.
- **`OwnGoroutineAttendsAlways`** (`OwnGoroutineAttends`): `OwnInv` adds to
  `Attached` that the goroutine of the request under way, if it has not ended,
  has the settings of the request (`RequestTask`).
- **`PressureTyping`.** `PressureInv` ties each handler's place to what it
  holds: a handler past `UseState` has a state of its own, whose tier is one of
  those it is indexed for or none. With finitely many goroutines an identity
  for a new state is always free (`UnusedId`: they refer to no more states than
  there are of them).
- **`OneHandlerAtATime`**: `HandlersInv` says that the mark is there as long as
  some goroutine is not idle and that no two are; without changes of
  `isCpuBusy` nobody else touches it. The theorem is conditional on
  that, since with such changes two handlers do meet.
- **`MarkAlwaysHasOwner`** (`MarkHasOwner`) has no such condition: whatever
  `isCpuBusy` and recoveries do, a marked node has a goroutine whose deferred
  function takes the mark away. It is inductive with the types alone: taking
  away a mark another goroutine set lets too many in, never nobody.
- **`HandlersClimb`** (`ImplementsLadder`), the refinement, under `Undisturbed`:
  `isCpuBusy` does not change, no pods come, and no container requests
  something below `MinMilli`. Without any of the three TLC refutes it or a
  property below (*Further divergences*). Calls to the API may fail, handlers
  may take any time, evicted pods go. `ClimbInv` adds `Held` to the invariants above, what a handler may
  trust although it read it long ago: the pods it read include those that are
  there; requests are no larger now than it knows, and as it knows them until it
  sends its patch, whose answer may be lost; the state it works on is still the
  node's; and the tier has not been tried when it sets out to evict. What it
  lowers itself it knows at once, so the step up that follows in the same
  handling is one of the steps proved: `EscalateClimbs` concludes from what the
  handler knows that nothing is left in the tier.
  One lemma per action shows a step of the ladder or none.
- **`NeverRaised`, `LowestGiveFirst`** follow from the ladder
  alone: `Climbed` (below the rung nothing is left to lower) is an invariant of
  it, and `LadderKeeps` reads the two action properties off its steps.
- **`OneEviction`** (`OneEvictionPerTier`) is about `NodePressureSpells`, whose
  history counts the evictions of a spell. `Counted` says that a tier has lost
  at most one pod, and none if its eviction was not tried; a step of the ladder
  that evicts is in a tier not tried before and makes it a tried one
  (`TriedGrows`), and under `Undisturbed` no recovery takes that away.
- **`EscalationTyping`, `EscalationInvariant`, `OnlyRefusalsPart`.** When all is
  quiet, containers and `podRuntimeState` agree unless something was refused;
  in between they need not. `RefusalInv` says when they may not: either the
  worker is about to begin or something brings it back (`Covered`: a request, a
  CR the cache has not seen, the webhook or a handler about to write), or the
  containers are in step as far as the worker's loop has come (`InStep`). So a
  handler that changes the state under the worker's loop is excused only
  because its own status update comes after, which is the reason the code gets
  away without a lock, and why a refused update is what parts the two.
- **`LowIsNeverReportedOfHi`** (`LowIsNotReportedOfHi`). The recovery reads the
  CR, sends to every container, sets the state and reports, with no lock
  around it. `ReportInv`: when the state is hi again at its report and its copy
  still current, an overrun has set the state and not reported it yet, or
  something was refused. An accepted report of the overrun makes the copy old;
  that conflict is the only thing that keeps the recovery from overwriting it.

Only model-checked: liveness (`EventuallyQuiet` of the worker and of the
escalation, `MarkIsTakenAway`, `DeletionEnds`, `LiveIsBooked`, `TasksEnd`), which is out of the prover's reach. Every other
property of a passing run is stated by a theorem. What these rest on is
safety, and `LivePodsAreBooked`, `SettledAtRest`, `MarkHasOwner` and
`OwnGoroutineAttends` prove that nobody is left waiting with no one on the way;
that those on the way arrive is left to TLC. The properties TLC refutes have
nothing to prove.

## 5. Not modelled

- CRs without RTSettings or Core, or without a name of a pod: `Reconcile` books
  nothing for them. Edits of a CR's criticality or of the pod it names: nothing
  in the repository makes them, and what they leak is listed as a hazard.
- `cleanupPodStateByMcKubeName`: nothing calls it.
- `StartTaintThread`: nothing fills its map.
- TLS, probes, leader election, manifests, RBAC, generated deep copies, the
  scaffold's tests: configuration, generated code, no state of their own.
- The daemon on the node and the agent that writes its annotations are not in
  the repository; they are the surroundings.
- What an unsynchronised access to `PressureState` may do to the map itself:
  the model has the outcomes of whole accesses in any order.

## 6. Plan

Done, in this order: `CPUPool`, `Preemption` (the core: concurrency around the
pool), their proofs, `RuntimeEscalation`, `NodePressure`; then
`McKubeLifecycle`, `RTSettings` and `Admission` with their proofs,
`PressureLadder` and the proof that `NodePressure` implements it, the typing
and the main invariant of `RuntimeEscalation`, and the booking of running pods;
then `Finalizer` and its refinement, the safety behind the liveness properties
(`SettledAtRest`, `OwnGoroutineAttends`, `MarkHasOwner`), booking with writes
that fail, where capacity leaks, how core strings are read, and what a
recovery may report.

Left:
1. An abstract specification of escalation with the remembered state as the
   only state, for a run in which nothing is refused.
2. `Preemption` and `McKubeLifecycle` in one module: a CR that is deleted while
   its pod is some other reconciliation's victim.
3. `spec.Node` against the pod's node at the end of `Reconcile`.
