--------------------------- MODULE StepLifecycle ---------------------------
(***************************************************************************)
(* One container step from its first attempt to the end of the process:    *)
(* Retry, GarbageCollector, Timeout and Run (internal/processor), the      *)
(* two drivers (internal/runtime), and the goroutine that executes         *)
(* teardowns (internal/run/teardown.go).  What a container is made from is *)
(* PodSpec.                                                                *)
(*                                                                         *)
(* Timeout runs the rest of the chain in a goroutine that it leaves behind *)
(* when the time is up.  The goroutine goes on creating its container and  *)
(* records it in ctx.Containers, a map that all attempts share, while      *)
(* GarbageCollector reads it.  A step with `await: Ready` does not wait for *)
(* its container and hands over a teardown of its own.  A teardown is      *)
(* executed in a goroutine that counts itself in the WaitGroup the end of  *)
(* the process waits for.                                                  *)
(***************************************************************************)
EXTENDS PodSpec

CONSTANTS Attempts,      \* retry.maxRetries + 1; 1 without retry
          Timers,        \* how the timer of the step may start out: "armed",
                         \* or "none" for a step without a timeout
          Drivers,       \* the container runtime: "docker" or "kubernetes"
          Awaits,        \* spec.run.await: "Exit" or "Ready"
          Policies,      \* --pull: "Always", "Missing" or "Never"
          Image,         \* the image of the step
          StartMayFail,  \* attaching to, starting or inspecting a container
                         \* may fail
          GracePeriods,  \* whether --grace-period is given: by default it is not
                         \* (DefaultOptions, runner.go:97-107)
          MayCancel      \* the context above may be cancelled

Attempt == 1..Attempts

ASSUME LifecycleAssumption ==
    /\ Attempts \in Nat \ {0}
    /\ Timers \subseteq {"none", "armed"}
    /\ Drivers \subseteq {"docker", "kubernetes"}
    /\ Awaits \subseteq {"Exit", "Ready"}
    /\ Policies \subseteq {"Always", "Missing", "Never"}
    /\ GracePeriods \subseteq BOOLEAN
    /\ {StartMayFail, MayCancel} \subseteq BOOLEAN

VARIABLES
    driver,     \* the container runtime
    await,      \* what the step waits for
    policy,     \* when the image is pulled
    grace,      \* the time that a teardown may take is bounded
    images,     \* the images that the docker daemon has
    pc,         \* "try", "select" (Timeout waits), "gc", "finished" (the run
                \* is through), "left" (Lifecycle is), "waited" (for the
                \* teardowns), "exited"
    attempt,    \* the attempt the step is in
    run,        \* per attempt, the chain from Timeout on: "none", "creating",
                \* "pulling", "created", "started", "waiting", "done"
    returned,   \* what that chain returned, "none" before
    container,  \* its container: "none", "created", "running", "ended",
                \* "deleted"
    entry,      \* whose container ctx.Containers[stepName] is, 0 for none
    recorded,   \* history: the attempts whose container has been put there
    timer,      \* "none", "armed", "fired" (a value is in its channel), "drained"
    aborted,    \* attempts whose context Timeout has cancelled
    parent,     \* the context of the step
    verdict,    \* what the last attempt returned to Retry
    teardown,   \* the function GarbageCollector sent: "none", "handed"
                \* (its goroutine exists), "counted" (wg.Add), "done", "failed"
    target,     \* the container that function deletes
    released,   \* the function that Run sent for await Ready: as teardown, and
                \* "joining" when it waits for the end of its container
    waiter      \* the goroutine of Run that waits for the container: "none",
                \* "waiting", "sending" (on `done`), "received"

stepVars == <<pc, attempt, verdict>>
mapVars == <<entry, recorded>>
runVars == <<run, returned, container, mapVars>>
settings == <<driver, await, policy, grace>>
readyVars == <<released, waiter>>
teardownVars == <<teardown, target, readyVars>>
vars == <<settings, stepVars, runVars, images, teardownVars, timer, aborted, parent>>

Init ==
    /\ driver \in Drivers
    /\ await \in Awaits
    /\ policy \in Policies
    /\ grace \in GracePeriods
    /\ images \in SUBSET {FullName(Image)}
    /\ pc = "try"
    /\ attempt = 0
    /\ run = [a \in Attempt |-> "none"]
    /\ returned = [a \in Attempt |-> "none"]
    /\ container = [a \in Attempt |-> "none"]
    /\ entry = 0
    /\ recorded = {}
    /\ timer \in Timers
    /\ aborted = {}
    /\ parent = FALSE
    /\ verdict = "none"
    /\ teardown = [a \in Attempt |-> "none"]
    /\ target = [a \in Attempt |-> 0]
    /\ released = [a \in Attempt |-> "none"]
    /\ waiter = [a \in Attempt |-> "none"]

Alive == pc # "exited"
Cancelled(a) == parent \/ a \in aborted

-----------------------------------------------------------------------------
(* The chain below Timeout, in a goroutine of its own.                     *)

ReturnFrom(a, r) ==
    /\ run' = [run EXCEPT ![a] = "done"]
    /\ returned' = [returned EXCEPT ![a] = r]

\* The step fails before it has a container: its context is cancelled, its
\* expressions, its image or the daemon are at fault.
CreateFails(a) == ReturnFrom(a, "failed") /\ UNCHANGED <<container, images>>

\* docker's pullImage
Pull == images' = images \cup {FullName(Image)}

\* The driver for docker pulls the image first, or not.
PullImage(a) ==
    /\ Alive /\ driver = "docker" /\ run[a] = "creating"
    /\ Pulls(policy, images, Image)
    /\ \/ /\ Pull
          /\ run' = [run EXCEPT ![a] = "pulling"]
          /\ UNCHANGED <<container, returned>>
       \/ CreateFails(a)
    /\ UNCHANGED <<settings, stepVars, mapVars, teardownVars, timer, aborted,
                   parent>>

\* The container is created from the image that is there.
Create(a) ==
    /\ Alive /\ driver = "docker"
    /\ \/ run[a] = "creating" /\ ~Pulls(policy, images, Image)
       \/ run[a] = "pulling"
    /\ \/ /\ FullName(Image) \in images
          /\ run' = [run EXCEPT ![a] = "created"]
          /\ container' = [container EXCEPT ![a] = "created"]
          /\ UNCHANGED <<returned, images>>
       \/ CreateFails(a)
    /\ UNCHANGED <<settings, stepVars, mapVars, teardownVars, timer, aborted,
                   parent>>

\* Attach, start and inspect.  An error leaves the container where it is: created
\* if attaching or starting fails, running if inspecting does.  With the error
\* nobody learns its id.
StartContainer(a) ==
    /\ Alive /\ driver = "docker" /\ run[a] = "created"
    /\ \/ /\ run' = [run EXCEPT ![a] = "started"]
          /\ container' = [container EXCEPT ![a] = "running"]
          /\ UNCHANGED returned
       \/ /\ StartMayFail \/ Cancelled(a)
          /\ ReturnFrom(a, "failed")
          /\ \/ UNCHANGED container
             \/ container' = [container EXCEPT ![a] = "running"]
    /\ UNCHANGED <<settings, images, stepVars, mapVars, teardownVars, timer, aborted,
                   parent>>

\* The driver for kubernetes builds the pod and creates it: it starts by itself.
CreatePod(a) ==
    /\ Alive /\ driver = "kubernetes" /\ run[a] = "creating"
    /\ \/ /\ run' = [run EXCEPT ![a] = "created"]
          /\ container' = [container EXCEPT ![a] = "running"]
          /\ UNCHANGED <<returned, images>>
       \/ CreateFails(a)
    /\ UNCHANGED <<settings, stepVars, mapVars, teardownVars, timer, aborted,
                   parent>>

\* Building the pod panics (a group without a user: SpecPanics), and since the
\* step stays the same that shows at the first pod.  In the goroutine of Timeout
\* a panic ends the process; without a timeout Recover takes it at the top of the
\* chain, and neither Retry nor GarbageCollector see an error.
PodPanics(a) ==
    /\ Alive /\ driver = "kubernetes" /\ run[a] = "creating"
    /\ \A b \in Attempt : container[b] = "none"
    /\ ReturnFrom(a, "failed")
    /\ IF timer = "none" THEN pc' = "finished" /\ verdict' = "failed"
       ELSE pc' = "exited" /\ UNCHANGED verdict
    /\ UNCHANGED <<settings, images, attempt, container, mapVars, teardownVars, timer,
                   aborted, parent>>

\* Without a watch the step fails and the pod is left behind.
WatchPod(a) ==
    /\ Alive /\ driver = "kubernetes" /\ run[a] = "created"
    /\ \/ run' = [run EXCEPT ![a] = "started"] /\ UNCHANGED returned
       \/ /\ StartMayFail \/ Cancelled(a)
          /\ ReturnFrom(a, "failed")
    /\ UNCHANGED <<settings, images, stepVars, container, mapVars, teardownVars, timer,
                   aborted, parent>>

\* Mutant: the first container of the step stays in the map.
RecordOnce(a) ==
    /\ Alive /\ run[a] = "started"
    /\ run' = [run EXCEPT ![a] = "waiting"]
    /\ IF driver = "docker"
       THEN entry' = (IF entry = 0 THEN a ELSE entry) /\ recorded' = recorded \cup {a}
       ELSE UNCHANGED mapVars
    /\ UNCHANGED <<settings, images, stepVars, returned, container, teardownVars,
                   timer, aborted, parent>>

\* ctx.Containers[v.Name] = v, of the containers that the driver tells of: the
\* one for kubernetes tells of none.
Record(a) ==
    /\ Alive /\ run[a] = "started"
    /\ run' = [run EXCEPT ![a] = "waiting"]
    /\ IF driver = "docker" THEN entry' = a /\ recorded' = recorded \cup {a}
       ELSE UNCHANGED mapVars
    /\ UNCHANGED <<settings, images, stepVars, returned, container, teardownVars,
                   timer, aborted, parent>>

ContainerEnds(a) ==
    /\ Alive /\ container[a] = "running"
    /\ container' = [container EXCEPT ![a] = "ended"]
    /\ UNCHANGED <<settings, images, stepVars, run, returned, mapVars, teardownVars,
                   timer, aborted, parent>>

\* await.Wait: the container is through, well or not and by itself or by a
\* teardown, or the context is done.
Waited(a, r) ==
    \/ driver = "docker" /\ container[a] \in {"ended", "deleted"}
    \/ driver = "docker" /\ Cancelled(a) /\ r = "failed"

\* kubeWait.Wait: any change of the pod is a failure, its start included; when
\* the watch ends, with the context too, all is well.
Watched(a, r) ==
    /\ driver = "kubernetes"
    /\ r = "ok" \/ container[a] \in {"running", "ended"}

WaitReturns(a) ==
    /\ Alive /\ run[a] = "waiting" /\ await = "Exit"
    /\ \E r \in {"ok", "failed"} :
          /\ Waited(a, r) \/ Watched(a, r)
          /\ ReturnFrom(a, r)
    /\ UNCHANGED <<settings, images, stepVars, container, mapVars, teardownVars, timer,
                   aborted, parent>>

\* With await Ready a goroutine waits instead, a teardown is handed over and
\* the step is through.
HandOver(a) ==
    /\ Alive /\ run[a] = "waiting" /\ await = "Ready"
    /\ waiter' = [waiter EXCEPT ![a] = "waiting"]
    /\ released' = [released EXCEPT ![a] = "handed"]
    /\ ReturnFrom(a, "ok")
    /\ UNCHANGED <<settings, images, stepVars, container, mapVars, teardown, target,
                   timer, aborted, parent>>

\* Its await.Wait returns.
WaiterReturns(a) ==
    /\ Alive /\ waiter[a] = "waiting"
    /\ \E r \in {"ok", "failed"} : Waited(a, r) \/ Watched(a, r)
    /\ waiter' = [waiter EXCEPT ![a] = "sending"]
    /\ UNCHANGED <<settings, images, stepVars, runVars, teardown, target, released,
                   timer, aborted, parent>>

-----------------------------------------------------------------------------
(* Timeout, GarbageCollector and Retry, in the goroutine of the step.      *)

BeginAttempt ==
    /\ pc = "try"
    /\ ~parent
    /\ attempt' = attempt + 1
    /\ run' = [run EXCEPT ![attempt + 1] = "creating"]
    /\ pc' = "select"
    /\ UNCHANGED <<settings, images, verdict, returned, container, mapVars, teardownVars,
                   timer, aborted, parent>>

\* retry.Do finds the context cancelled.
GiveUp ==
    /\ pc = "try"
    /\ parent
    /\ pc' = "finished"
    /\ verdict' = "failed"
    /\ UNCHANGED <<settings, images, attempt, runVars, teardownVars, timer, aborted,
                   parent>>

\* The timer was started when the step was built, fires once and is read once,
\* whatever the number of attempts.
TimerFires ==
    /\ Alive
    /\ timer = "armed"
    /\ timer' = "fired"
    /\ UNCHANGED <<settings, images, stepVars, runVars, teardownVars, aborted, parent>>

\* result := <-done, and the deferred cancel(); without a timeout the step runs
\* without Timeout.
InnerDone ==
    /\ pc = "select"
    /\ run[attempt] = "done"
    /\ verdict' = returned[attempt]
    /\ aborted' = IF timer = "none" THEN aborted ELSE aborted \cup {attempt}
    /\ pc' = "gc"
    /\ UNCHANGED <<settings, images, attempt, runVars, teardownVars, timer, parent>>

\* Mutant: when the time is up the chain is cancelled, and waited for.
TimedOutWaits ==
    /\ pc = "select"
    /\ timer = "fired"
    /\ timer' = "drained"
    /\ aborted' = aborted \cup {attempt}
    /\ UNCHANGED <<settings, images, stepVars, runVars, teardownVars, parent>>

\* <-s.timer.C: the chain is cancelled and left behind.
TimedOut ==
    /\ pc = "select"
    /\ timer = "fired"
    /\ timer' = "drained"
    /\ verdict' = "failed"
    /\ aborted' = aborted \cup {attempt}
    /\ pc' = "gc"
    /\ UNCHANGED <<settings, images, attempt, runVars, teardownVars, parent>>

\* <-ctx.Done()
ContextDone ==
    /\ pc = "select"
    /\ timer # "none" /\ parent
    /\ verdict' = "failed"
    /\ aborted' = aborted \cup {attempt}
    /\ pc' = "gc"
    /\ UNCHANGED <<settings, images, attempt, runVars, teardownVars, timer, parent>>

\* Mutant: one retry more than the step asks for.
CollectRetriesMore ==
    /\ pc = "gc"
    /\ IF entry # 0
       THEN /\ teardown' = [teardown EXCEPT ![attempt] = "handed"]
            /\ target' = [target EXCEPT ![attempt] = entry]
       ELSE UNCHANGED <<teardown, target>>
    /\ pc' = IF verdict = "ok" \/ attempt > Attempts THEN "finished" ELSE "try"
    /\ UNCHANGED <<settings, images, attempt, verdict, runVars, readyVars, timer,
                   aborted, parent>>

\* GarbageCollector sends a teardown for the container it finds in the map,
\* be it of this attempt or of an earlier one; then Retry decides.
Collect ==
    /\ pc = "gc"
    /\ IF entry # 0
       THEN /\ teardown' = [teardown EXCEPT ![attempt] = "handed"]
            /\ target' = [target EXCEPT ![attempt] = entry]
       ELSE UNCHANGED <<teardown, target>>
    /\ pc' = IF verdict = "ok" \/ attempt = Attempts THEN "finished" ELSE "try"
    /\ UNCHANGED <<settings, images, attempt, verdict, runVars, readyVars, timer,
                   aborted, parent>>

-----------------------------------------------------------------------------
(* The teardowns and the end of the process.                               *)

\* DeletePod stops and removes a container, or fails: always, if another
\* teardown has removed it.  An error is only logged.
DeletePod(b, Deleted, Failed) ==
    \/ /\ container[b] # "deleted"
       /\ container' = [container EXCEPT ![b] = "deleted"]
       /\ Deleted
    \/ Failed /\ UNCHANGED container

TeardownCounts(a) ==
    /\ Alive /\ teardown[a] = "handed"
    /\ teardown' = [teardown EXCEPT ![a] = "counted"]
    /\ UNCHANGED <<settings, images, stepVars, runVars, target, readyVars, timer,
                   aborted, parent>>

\* Mutant: the function looks the container up when it is executed.
TeardownLooksUp(a) ==
    /\ Alive /\ teardown[a] = "counted"
    /\ container' = [container EXCEPT ![entry] = "deleted"]
    /\ teardown' = [teardown EXCEPT ![a] = "done"]
    /\ UNCHANGED <<settings, images, stepVars, run, returned, mapVars, target, readyVars,
                   timer, aborted, parent>>

\* wg.Done either way.
TeardownDeletes(a) ==
    /\ Alive /\ teardown[a] = "counted"
    /\ DeletePod(target[a], teardown' = [teardown EXCEPT ![a] = "done"],
                            teardown' = [teardown EXCEPT ![a] = "failed"])
    /\ UNCHANGED <<settings, images, stepVars, run, returned, mapVars, target, readyVars,
                   timer, aborted, parent>>

ReleaseCounts(a) ==
    /\ Alive /\ released[a] = "handed"
    /\ released' = [released EXCEPT ![a] = "counted"]
    /\ UNCHANGED <<settings, images, stepVars, runVars, teardown, target, waiter,
                   timer, aborted, parent>>

\* The function that Run sent looks the container up when it is executed, be
\* it of this attempt or not, and waits for its own.
ReleaseDeletes(a) ==
    /\ Alive /\ released[a] = "counted"
    /\ IF entry = 0 THEN released' = [released EXCEPT ![a] = "joining"] /\ UNCHANGED container
       ELSE DeletePod(entry, released' = [released EXCEPT ![a] = "joining"],
                             released' = [released EXCEPT ![a] = "failed"])
    /\ UNCHANGED <<settings, images, stepVars, run, returned, mapVars, teardown, target,
                   waiter, timer, aborted, parent>>

\* return <-done
ReleaseJoins(a) ==
    /\ Alive /\ released[a] = "joining" /\ waiter[a] = "sending"
    /\ released' = [released EXCEPT ![a] = "done"]
    /\ waiter' = [waiter EXCEPT ![a] = "received"]
    /\ UNCHANGED <<settings, images, stepVars, runVars, teardown, target, timer,
                   aborted, parent>>

Release(a) == ReleaseCounts(a) \/ ReleaseDeletes(a) \/ ReleaseJoins(a)

\* Lifecycle returns: its deferred cancel().
LeaveLifecycle ==
    /\ pc = "finished"
    /\ pc' = "left"
    /\ parent' = TRUE
    /\ UNCHANGED <<settings, images, attempt, verdict, runVars, teardownVars, timer,
                   aborted>>

\* The deferred wg.Wait() of Teardown.Run sees no teardown that has counted
\* itself.
WaitGroupWaits ==
    /\ pc = "left"
    /\ \A a \in Attempt : teardown[a] # "counted" /\ released[a] \notin {"counted", "joining"}
    /\ pc' = "waited"
    /\ UNCHANGED <<settings, images, attempt, verdict, runVars, teardownVars, timer,
                   aborted, parent>>

\* The process ends, and all its goroutines.
Exit ==
    /\ pc = "waited"
    /\ pc' = "exited"
    /\ UNCHANGED <<settings, images, attempt, verdict, runVars, teardownVars, timer,
                   aborted, parent>>

-----------------------------------------------------------------------------
CancelParent ==
    /\ MayCancel
    /\ Alive /\ ~parent
    /\ parent' = TRUE
    /\ UNCHANGED <<settings, images, stepVars, runVars, teardownVars, timer, aborted>>

Step ==
    \/ BeginAttempt
    \/ GiveUp
    \/ InnerDone
    \/ TimedOut
    \/ ContextDone
    \/ Collect
    \/ LeaveLifecycle
    \/ WaitGroupWaits
    \/ Exit

Chain(a) ==
    \/ PullImage(a) \/ Create(a) \/ StartContainer(a) \/ CreatePod(a) \/ WatchPod(a)
    \/ Record(a) \/ WaitReturns(a) \/ HandOver(a) \/ WaiterReturns(a)

Next ==
    \/ Step
    \/ TimerFires
    \/ \E a \in Attempt :
           Chain(a) \/ PodPanics(a) \/ ContainerEnds(a) \/ TeardownCounts(a) \/ TeardownDeletes(a) \/ Release(a)
    \/ CancelParent

Spec == Init /\ [][Next]_vars

(* The step is scheduled and its timer fires.  A removal ends if a grace   *)
(* period bounds it (teardown.go:64-69), or if there is nothing to remove. *)
(* The wait for a container that is removed, or whose context is done,     *)
(* returns (ResultChan is closed with the context).  Nothing else is       *)
(* assumed of the daemon, the cluster or the container.                    *)
FairSpec ==
    /\ Spec
    /\ WF_vars(Step)
    /\ WF_vars(TimerFires)
    /\ \A a \in Attempt :
          /\ WF_vars(TeardownCounts(a))
          /\ WF_vars(grace /\ TeardownDeletes(a))
          /\ WF_vars(ReleaseCounts(a))
          /\ WF_vars((grace \/ entry = 0) /\ ReleaseDeletes(a))
          /\ WF_vars(ReleaseJoins(a))
          /\ WF_vars((Cancelled(a) \/ container[a] = "deleted") /\ WaiterReturns(a))

-----------------------------------------------------------------------------
(* Properties.                                                             *)

TypeOK ==
    /\ pc \in {"try", "select", "gc", "finished", "left", "waited", "exited"}
    /\ attempt \in 0..Attempts
    /\ run \in [Attempt -> {"none", "creating", "pulling", "created", "started",
                            "waiting", "done"}]
    /\ images \subseteq {FullName(Image)}
    /\ returned \in [Attempt -> {"none", "ok", "failed"}]
    /\ container \in [Attempt -> {"none", "created", "running", "ended", "deleted"}]
    /\ entry \in {0} \cup Attempt
    /\ recorded \subseteq Attempt
    /\ timer \in {"none", "armed", "fired", "drained"}
    /\ aborted \subseteq Attempt
    /\ parent \in BOOLEAN
    /\ verdict \in {"none", "ok", "failed"}
    /\ teardown \in [Attempt -> {"none", "handed", "counted", "done", "failed"}]
    /\ target \in [Attempt -> {0} \cup Attempt]
    /\ driver = "kubernetes" => entry = 0
    /\ await = "Exit" => released = [a \in Attempt |-> "none"]
    /\ \A a \in Attempt : released[a] # "none" <=> waiter[a] # "none"

(* A teardown never deletes the container of the attempt in progress,      *)
(* however late it is executed and whichever attempt the map entry is from *)
(* by then.  (With await Ready the step's own teardown does.)              *)
NeverKilledInProgress ==
    pc = "select" /\ await = "Exit" => container[attempt] # "deleted"

(* Without a timeout, every container that an attempt recorded and is      *)
(* through with, finished or cancelled, has been handed to a teardown: no  *)
(* attempt hides the container of another in the map they share.  (One     *)
(* that could not be attached to, started or inspected is not recorded,    *)
(* running or not, and no teardown knows of it: docker.go:182-196.)        *)
EveryAttemptCollected ==
    \A a \in recorded :
        timer = "none" /\ run[a] = "done" /\ (pc \notin {"select", "gc"} \/ attempt # a) =>
            \E b \in Attempt : teardown[b] # "none" /\ target[b] = a

\* A removal is under way, and nothing bounds the time it takes.
Removing ==
    /\ ~grace
    /\ \E a \in Attempt : teardown[a] = "counted" \/ (released[a] = "counted" /\ entry # 0)

(* A timeout ends the first attempt even if the daemon never answers and   *)
(* the container never ends.  The timer fires once: of later attempts that *)
(* cannot be said.  When the step is finished the process ends, as no      *)
(* teardown waits for a container that nobody removes (run.go:291-309),    *)
(* but without a grace period a removal may hold it up for ever.           *)
TimeoutEndsAttempt ==
    /\ timer = "armed" ~> attempt > 1 \/ pc \in {"finished", "left", "waited", "exited"}
    /\ (pc = "finished" ~> pc = "exited") \/ <>[]Removing

(* What teardown.go:18 says of --skip-gc, "Keep all containers and         *)
(* temporary files after execution.": without it none is kept, unless the  *)
(* daemon refuses to remove it.  A container that no teardown knows about  *)
(* is kept as well.                                                        *)
NoneKept ==
    pc = "exited" =>
        \A a \in Attempt :
            container[a] \notin {"none", "deleted"} =>
                \E b \in Attempt : teardown[b] = "failed" /\ target[b] = a

=============================================================================
