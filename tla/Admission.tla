----------------------------- MODULE Admission -----------------------------
(***************************************************************************)
(* The admission of pods of one name that a McKube CR has RTSettings for:  *)
(* a CREATE request passes the mutating webhook                            *)
(* (internal/webhook/pod_mutator.go), which starts a goroutine for it,     *)
(* then the validating one (internal/webhook/rt_validator.go), and is then *)
(* stored, refused, or forgotten because it was a dry run.  The goroutine  *)
(* looks every five seconds, for five minutes, whether the pod runs, and   *)
(* sends the runtime_low it was started with to the daemon of its node.    *)
(*                                                                         *)
(* Requests come one at a time; their goroutines outlive them and meet     *)
(* each other, the pod's deletion, the next pod of the name, changes of    *)
(* the CR and a new start of the process.  What the controller does with   *)
(* the pod afterwards is in module RuntimeEscalation.                      *)
(***************************************************************************)
EXTENDS RTSettings

CONSTANTS Settings,   \* RTSettings the CR may have
          NoSettings, \* the CR has none, or there is no CR
          Tasks,      \* bound: goroutines of scheduleRTConfiguration at once
          NoTask,
          NoRequest, NoPod,
          MaxEvents   \* bound: how often the surroundings act

ASSUME AdmissionAssumption ==
    /\ Settings \subseteq RTSettingsType
    /\ NoSettings \notin Settings
    /\ NoTask \notin Tasks
    /\ MaxEvents \in Nat

VARIABLES cr,       \* RTSettings of the first CR that names the pod
          request,  \* the CREATE request under way
          pod,      \* the pod of the name
          task,     \* goroutine -> where it is and what it was started with
          events    \* how often the surroundings have acted

vars == <<cr, request, pod, task, events>>

\* What became of the request a goroutine was started for; "outlived" when
\* its pod is gone, "none" for a goroutine that has not been started.
Fates == {"none", "open", "created", "outlived", "denied", "refused", "dry"}

\* "late": it works on a container of a pod that is gone.
Places == {"idle", "polling", "posting", "late", "marking"}

MaybeSettings == Settings \cup {NoSettings}

\* known: the webhooks saw one and the same value of the CR's settings.
Requests == [dry : BOOLEAN, validated : BOOLEAN, settings : MaybeSettings,
             task : Tasks \cup {NoTask}, known : BOOLEAN]

\* settings: what the webhook put on it in annotations; told: what the daemon
\* was last sent for it and why; unattended: no goroutine looks for it.
Pods == [running : BOOLEAN, configured : BOOLEAN, settings : MaybeSettings,
         known : BOOLEAN, unattended : BOOLEAN,
         told : {NoSettings} \cup [settings : Settings, fate : Fates]]

ASSUME NoPodAssumption ==
    /\ NoPod \notin Pods
    /\ NoSettings \notin [settings : Settings, fate : Fates]

TaskRecords == [at : Places, settings : MaybeSettings, fate : Fates]

Idle == [at |-> "idle", settings |-> NoSettings, fate |-> "none"]

TypeOK ==
    /\ cr \in MaybeSettings
    /\ request \in Requests \cup {NoRequest}
    /\ pod \in Pods \cup {NoPod}
    /\ task \in [Tasks -> TaskRecords]
    /\ \A t \in Tasks : task[t].at # "idle" => task[t].settings \in Settings
    /\ events \in 0 .. MaxEvents

Init ==
    /\ cr \in MaybeSettings
    /\ request = NoRequest
    /\ pod = NoPod
    /\ task = [t \in Tasks |-> Idle]
    /\ events = 0

Event == events < MaxEvents /\ events' = events + 1

Exists  == pod # NoPod
Runs    == Exists /\ pod.running
Idling(t) == task[t].at = "idle"
-----------------------------------------------------------------------------
(***************************************************************************)
(* PodMutator.Handle                                                       *)
(***************************************************************************)

NewRequest(dry, s, t, known) ==
    [dry |-> dry, validated |-> FALSE, settings |-> s, task |-> t, known |-> known]

\* Already marked in the manifest, the List failed, or no CR has settings.
MutateNothing ==
    /\ request = NoRequest
    /\ Event
    /\ \E dry \in BOOLEAN : request' = NewRequest(dry, NoSettings, NoTask, FALSE)
    /\ UNCHANGED <<cr, pod, task>>

MutateUnchecked ==                    \* mutant: rtSettings == nil goes on
    /\ request = NoRequest
    /\ Event
    /\ \E dry \in BOOLEAN, t \in Tasks :
          /\ Idling(t)
          /\ request' = NewRequest(dry, cr, t, TRUE)
          /\ task' = [task EXCEPT ![t] =
                         [at |-> "polling", settings |-> cr, fate |-> "open"]]
    /\ UNCHANGED <<cr, pod>>

Mutate ==
    /\ request = NoRequest
    /\ cr # NoSettings
    /\ Event
    /\ \E dry \in BOOLEAN, t \in Tasks :
          /\ Idling(t)
          /\ request' = NewRequest(dry, cr, t, TRUE)
          /\ task' = [task EXCEPT ![t] =
                         [at |-> "polling", settings |-> cr, fate |-> "open"]]
    /\ UNCHANGED <<cr, pod>>

-----------------------------------------------------------------------------
(***************************************************************************)
(* RTValidator.Handle, and what the API server does with the request       *)
(***************************************************************************)

\* The request ends with this fate of its goroutine, if that still runs.
Answered(fate) ==
    /\ request' = NoRequest
    /\ task' = [t \in Tasks |->
                   IF t = request.task /\ ~Idling(t)
                   THEN [task[t] EXCEPT !.fate = fate] ELSE task[t]]

Deny ==
    /\ request # NoRequest /\ ~request.validated
    /\ cr # NoSettings /\ ~validateRTSettings(cr)
    /\ Answered("denied")
    /\ UNCHANGED <<cr, pod, events>>

Allow ==
    /\ request # NoRequest /\ ~request.validated
    /\ cr # NoSettings => validateRTSettings(cr)
    /\ request' = [request EXCEPT !.validated = TRUE]
    /\ UNCHANGED <<cr, pod, task, events>>

\* A List that fails allows the pod.
AllowUnread ==
    /\ request # NoRequest /\ ~request.validated
    /\ Event
    /\ request' = [request EXCEPT !.validated = TRUE, !.known = FALSE]
    /\ UNCHANGED <<cr, pod, task>>

Store ==
    /\ request # NoRequest /\ request.validated
    /\ ~request.dry /\ ~Exists
    /\ pod' = [running |-> FALSE, configured |-> FALSE,
               settings |-> request.settings, known |-> request.known,
               unattended |-> request.task = NoTask \/ task[request.task].at # "polling",
               told |-> NoSettings]
    /\ Answered("created")
    /\ UNCHANGED <<cr, events>>

\* A pod of the name exists, or the request was a dry run.
StoreNothing ==
    /\ request # NoRequest /\ request.validated
    /\ request.dry \/ Exists
    /\ Answered(IF request.dry THEN "dry" ELSE "refused")
    /\ UNCHANGED <<cr, pod, events>>

-----------------------------------------------------------------------------
(***************************************************************************)
(* scheduleRTConfiguration                                                 *)
(***************************************************************************)

Own(t) == task[t].fate = "created"

Ended(t) == task' = [task EXCEPT ![t] = Idle]

GoTo(t, place) == task' = [task EXCEPT ![t].at = place]

PollEndsIfNotRunning(t) ==            \* mutant: return instead of continue
    /\ task[t].at = "polling"
    /\ Exists => (pod.running => pod.configured)
    /\ Ended(t)
    /\ UNCHANGED <<cr, request, pod, events>>

\* A tick that finds no pod, or one that is configured.
PollEnds(t) ==
    /\ task[t].at = "polling"
    /\ Exists => pod.running /\ pod.configured
    /\ Ended(t)
    /\ UNCHANGED <<cr, request, pod, events>>

PollFinds(t) ==
    /\ task[t].at = "polling"
    /\ Runs /\ ~pod.configured
    /\ GoTo(t, "posting")
    /\ UNCHANGED <<cr, request, pod, events>>

\* applyRTSettingsViaDaemon: the daemon takes them ...
Post(t) ==
    /\ task[t].at \in {"posting", "late"}
    /\ pod' = IF task[t].at = "late" THEN pod
              ELSE [pod EXCEPT !.told =
                       [settings |-> task[t].settings, fate |-> task[t].fate]]
    /\ GoTo(t, "marking")
    /\ UNCHANGED <<cr, request, events>>

\* ... or the node cannot be read, the daemon fails or knows no such container.
PostFails(t) ==
    /\ \/ task[t].at = "posting" /\ Event
       \/ task[t].at = "late" /\ UNCHANGED events
    /\ GoTo(t, "polling")
    /\ UNCHANGED <<cr, request, pod>>

\* updatePodRTAnnotation: the patch names the pod; its context is the request's,
\* which has ended, so that it may well be refused.
Mark(t) ==
    /\ task[t].at = "marking"
    /\ \/ Exists /\ pod' = [pod EXCEPT !.configured = TRUE]
       \/ UNCHANGED pod
    /\ Ended(t)
    /\ UNCHANGED <<cr, request, events>>

TimeoutOfRunning(t) ==                \* mutant: looked at after the pod runs
    /\ task[t].at = "polling"
    /\ Runs
    /\ pod' = [pod EXCEPT !.unattended = @ \/ Own(t)]
    /\ Ended(t)
    /\ UNCHANGED <<cr, request, events>>

Timeout(t) ==
    /\ task[t].at = "polling"
    /\ pod' = IF Own(t) THEN [pod EXCEPT !.unattended = TRUE] ELSE pod
    /\ Ended(t)
    /\ UNCHANGED <<cr, request, events>>

Task(t) == \/ PollEnds(t) \/ PollFinds(t) \/ Timeout(t)
           \/ Post(t) \/ PostFails(t) \/ Mark(t)

-----------------------------------------------------------------------------
(***************************************************************************)
(* The surroundings                                                        *)
(***************************************************************************)

\* The CR's settings are edited, the CR is created or deleted.
EditCR ==
    /\ Event
    /\ \E s \in MaybeSettings \ {cr} : cr' = s
    /\ request' = IF request = NoRequest \/ request.validated THEN request
                  ELSE [request EXCEPT !.known = FALSE]
    /\ UNCHANGED <<pod, task>>

\* It is scheduled and its containers start.
Run ==
    /\ Exists /\ ~pod.running
    /\ pod' = [pod EXCEPT !.running = TRUE]
    /\ UNCHANGED <<cr, request, task, events>>

DeletePod ==
    /\ Exists
    /\ Event
    /\ pod' = NoPod
    /\ task' = [t \in Tasks |->
                   [task[t] EXCEPT !.at = IF @ = "posting" THEN "late" ELSE @,
                                   !.fate = IF @ = "created" THEN "outlived" ELSE @]]
    /\ UNCHANGED <<cr, request>>

\* The process ends and its goroutines do; with failurePolicy=fail a request that
\* needs it meanwhile fails.
Restart ==
    /\ Event
    /\ \/ UNCHANGED request
       \/ request # NoRequest /\ ~request.validated /\ request' = NoRequest
    /\ pod' = IF Exists THEN [pod EXCEPT !.unattended = TRUE] ELSE pod
    /\ task' = [t \in Tasks |-> Idle]
    /\ UNCHANGED cr

-----------------------------------------------------------------------------
Next ==
    \/ MutateNothing \/ Mutate
    \/ Deny \/ Allow \/ AllowUnread \/ Store \/ StoreNothing
    \/ \E t \in Tasks : Task(t)
    \/ EditCR \/ Run \/ DeletePod \/ Restart

Spec == Init /\ [][Next]_vars

\* The API server takes its requests to an end; a goroutine's ticker, its
\* timeout and the 30 seconds of its HTTP client end each of its waits.
Fairness ==
    /\ WF_vars(Deny \/ Allow) /\ WF_vars(Store \/ StoreNothing)
    /\ \A t \in Tasks : /\ WF_vars(PollEnds(t) \/ PollFinds(t))
                        /\ WF_vars(Post(t) \/ PostFails(t))
                        /\ WF_vars(Mark(t))
                        /\ WF_vars(Timeout(t))

FairSpec == Spec /\ Fairness

-----------------------------------------------------------------------------
(***************************************************************************)
(* Properties                                                              *)
(***************************************************************************)

\* What a pod that was admitted books is an amount the pool can count with,
\* low or hi: at least a millicore and at most 95 % of a core, provided that
\* both webhooks saw the same settings (rt_validator.go:65-98,
\* mckube_controller.go:1413-1421).
AdmittedAmounts ==
    Exists /\ pod.known =>
        /\ pod.settings.period > 0
        /\ cpuMillis(pod.settings, pod.settings.low) \in 1 .. 950
        /\ cpuMillis(pod.settings, pod.settings.hi) \in 1 .. 950

\* A core set written the way the comment of parseCoreSet has it books the
\* cores it names and no other (mckube_controller.go:1345-1382).
CoresAsWritten ==
    cr # NoSettings /\ WellFormed(cr.core) =>
        ToSet(parseCoreSet(cr.core)) = Named(cr.core)

\* A pod that was given settings is not lost sight of: the goroutine that was
\* started for it looks for it until it has been configured or told something,
\* unless that timed out, ended with the process, or ended before the pod was
\* stored (pod_mutator.go:157-206).  And what it has for the pod, and tells
\* it, are the settings of the pod's own annotations, though goroutines of
\* other requests of the name may tell it others.
OwnGoroutineAttends ==
    Exists /\ pod.settings # NoSettings =>
        /\ \/ pod.unattended \/ pod.configured \/ pod.told # NoSettings
           \/ \E t \in Tasks : Own(t) /\ task[t].at \in {"polling", "posting"}
        /\ \A t \in Tasks : Own(t) => task[t].settings = pod.settings
        /\ pod.told # NoSettings /\ pod.told.fate = "created"
             => pod.told.settings = pod.settings

\* No goroutine waits for ever for a pod that is never created or never runs
\* (pod_mutator.go:157-163).
TasksEnd == \A t \in Tasks : task[t].at # "idle" ~> task[t].at = "idle"

-----------------------------------------------------------------------------
(***************************************************************************)
(* What markers and comments say and the code does not do                  *)
(***************************************************************************)

\* "sideEffects=NoneOnDryRun" (pod_mutator.go:21): nothing is sent to a daemon
\* for a request that was a dry run.
DryRunsSendNothing == Exists /\ pod.told # NoSettings => pod.told.fate # "dry"

\* "Denied(Invalid RT settings)" (rt_validator.go:44): settings a request was
\* denied for are not sent to a daemon.
DeniedIsNotSent == Exists /\ pod.told # NoSettings => pod.told.fate # "denied"

\* "if provided, should be valid format" (rt_validator.go:100): the core set of
\* a pod that was admitted is one parseCoreSet reads as a whole.
AdmittedCoresAreWellFormed ==
    Exists /\ pod.known => WellFormed(pod.settings.core)
=============================================================================
