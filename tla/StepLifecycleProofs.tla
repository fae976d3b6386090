------------------------- MODULE StepLifecycleProofs -------------------------
(***************************************************************************)
(* Proofs about the lifecycle of a container step, for every number of     *)
(* attempts, both drivers, with and without a timeout, whatever the step   *)
(* waits for and wherever the daemon fails.                                *)
(***************************************************************************)
EXTENDS StepLifecycle, TLAPS

Recorded(a) == a \in recorded

(* The inductive invariant, part by part.                                  *)

ReadyInv ==
    /\ released \in [Attempt -> {"none", "handed", "counted", "joining", "done", "failed"}]
    /\ waiter \in [Attempt -> {"none", "waiting", "sending", "received"}]

\* Attempts begin one after the other.
BegunInv ==
    /\ \A a \in Attempt : run[a] # "none" <=> a <= attempt
    /\ pc \in {"select", "gc"} => attempt > 0
    /\ pc = "try" => attempt < Attempts

\* The container of a chain goes where the chain is.
ContainerInv ==
    \A a \in Attempt :
        /\ run[a] \in {"none", "creating", "pulling"} => container[a] = "none"
        /\ run[a] = "created" /\ driver = "docker" => container[a] = "created"
        /\ run[a] = "created" /\ driver # "docker" => container[a] \in {"running", "ended"}
        /\ run[a] \in {"started", "waiting"} => container[a] \notin {"none", "created"}

\* Only the driver for docker tells of a container, and what a chain records is
\* what it then waits for.
RecordedInv ==
    \A a \in recorded : driver = "docker" /\ run[a] \in {"waiting", "done"}

\* The map has a container that was recorded.
EntryInv == entry # 0 => Recorded(entry)

\* A teardown is for a container of its own attempt or of an earlier one, and
\* handed over when that attempt is through.
TargetInv ==
    \A b \in Attempt :
        teardown[b] # "none" =>
            /\ target[b] \in 1..b
            /\ Recorded(target[b])
            /\ b <= attempt
            /\ b = attempt => pc \notin {"select", "gc"}

\* Without a timeout no chain is left behind, and until the attempt is
\* collected the map has its container.
AloneInv ==
    timer = "none" =>
        /\ \A a \in Attempt : a < attempt \/ (a = attempt /\ pc # "select") => run[a] = "done"
        /\ pc \in {"select", "gc"} /\ Recorded(attempt) => entry = attempt

IInv == /\ TypeOK /\ ReadyInv /\ BegunInv /\ ContainerInv /\ RecordedInv /\ EntryInv /\ TargetInv
        /\ AloneInv /\ NeverKilledInProgress /\ EveryAttemptCollected

-----------------------------------------------------------------------------
(* Init.                                                                   *)

LEMMA InitIInv == Init => IInv
<1> SUFFICES ASSUME Init PROVE IInv
  OBVIOUS
<1> USE LifecycleAssumption DEF LifecycleAssumption
<1>1. TypeOK
  <2>1. /\ pc \in {"try", "select", "gc", "finished", "left", "waited", "exited"}
        /\ attempt \in 0..Attempts
        /\ run \in [Attempt -> {"none", "creating", "pulling", "created", "started",
                                "waiting", "done"}]
        /\ images \subseteq {FullName(Image)}
    BY DEF Init
  <2>2. /\ returned \in [Attempt -> {"none", "ok", "failed"}]
        /\ container \in [Attempt -> {"none", "created", "running", "ended", "deleted"}]
        /\ entry \in {0} \cup Attempt
        /\ recorded \subseteq Attempt
        /\ timer \in {"none", "armed", "fired", "drained"}
        /\ aborted \subseteq Attempt
    BY DEF Init
  <2>3. parent \in BOOLEAN
    BY DEF Init
  <2>4. /\ verdict \in {"none", "ok", "failed"}
        /\ teardown \in [Attempt -> {"none", "handed", "counted", "done", "failed"}]
        /\ target \in [Attempt -> {0} \cup Attempt]
        /\ driver = "kubernetes" => entry = 0
        /\ released = [a \in Attempt |-> "none"]
        /\ \A a \in Attempt : released[a] # "none" <=> waiter[a] # "none"
    BY DEF Init
  <2>5. QED
    BY <2>1, <2>2, <2>3, <2>4 DEF TypeOK
<1>2. ReadyInv /\ BegunInv /\ ContainerInv
  BY DEF Init, ReadyInv, BegunInv, ContainerInv, Attempt
<1>3. RecordedInv /\ EntryInv /\ TargetInv /\ AloneInv
  BY DEF Init, RecordedInv, EntryInv, TargetInv, AloneInv, Attempt
<1>4. NeverKilledInProgress /\ EveryAttemptCollected
  BY DEF Init, NeverKilledInProgress, EveryAttemptCollected, Attempt
<1>5. QED
  BY <1>1, <1>2, <1>3, <1>4 DEF IInv

-----------------------------------------------------------------------------
(* Types.                                                                  *)

\* The step of a goroutine of the attempt, or of its container.
Runs(a) == Chain(a) \/ ContainerEnds(a)

LEMMA ChainTypes ==
    ASSUME IInv, NEW a \in Attempt, Runs(a)
    PROVE  TypeOK' /\ ReadyInv'
<1> USE DEF TypeOK, ReadyInv, ReturnFrom, CreateFails, settings, stepVars,
            teardownVars, readyVars, mapVars, Pull, Attempt
<1>0. TypeOK /\ ReadyInv
  BY DEF IInv
<1>1. CASE PullImage(a)
  BY <1>0, <1>1 DEF PullImage
<1>2. CASE Create(a)
  BY <1>0, <1>2 DEF Create
<1>3. CASE StartContainer(a)
  BY <1>0, <1>3 DEF StartContainer
<1>4. CASE CreatePod(a)
  BY <1>0, <1>4 DEF CreatePod
<1>5. CASE WatchPod(a)
  BY <1>0, <1>5 DEF WatchPod
<1>6. CASE Record(a)
  <2>1. CASE driver = "docker"
    <3>1. entry' = a /\ recorded' \subseteq Attempt
      <4>1. entry' = a /\ recorded' = recorded \cup {a}
        BY <1>6, <2>1 DEF Record
      <4>2. QED
        BY <1>0, <4>1
    <3>2. /\ run' = [run EXCEPT ![a] = "waiting"]
          /\ UNCHANGED <<settings, images, stepVars, returned, container, teardownVars,
                         timer, aborted, parent>>
      BY <1>6 DEF Record
    <3>3. run' \in [Attempt -> {"none", "creating", "pulling", "created", "started",
                                "waiting", "done"}]
      BY <1>0, <3>2
    <3>4. QED
      BY <1>0, <2>1, <3>1, <3>2, <3>3
  <2>2. CASE driver # "docker"
    BY <1>0, <1>6, <2>2 DEF Record
  <2>3. QED
    BY <2>1, <2>2
<1>7. CASE WaitReturns(a)
  BY <1>0, <1>7 DEF WaitReturns
<1>8. CASE HandOver(a)
  BY <1>0, <1>8 DEF HandOver
<1>9. CASE WaiterReturns(a)
  BY <1>0, <1>9 DEF WaiterReturns, runVars
<1>10. CASE ContainerEnds(a)
  BY <1>0, <1>10 DEF ContainerEnds
<1>11. QED
  BY <1>1, <1>2, <1>3, <1>4, <1>5, <1>6, <1>7, <1>8, <1>9, <1>10 DEF Runs, Chain

LEMMA TypeStep == IInv /\ [Next]_vars => TypeOK' /\ ReadyInv'
<1> SUFFICES ASSUME IInv, [Next]_vars PROVE TypeOK' /\ ReadyInv'
  OBVIOUS
<1> USE DEF TypeOK, ReadyInv, settings, stepVars, runVars, mapVars, teardownVars, readyVars
<1>0. TypeOK /\ ReadyInv
  BY DEF IInv
<1>1. ASSUME NEW a \in Attempt, Runs(a) PROVE TypeOK' /\ ReadyInv'
  BY <1>1, ChainTypes
<1>2. CASE BeginAttempt
  <2>1. attempt + 1 \in Attempt
    BY <1>0, <1>2, LifecycleAssumption DEF BeginAttempt, IInv, BegunInv, Attempt, LifecycleAssumption
  <2>2. QED
    BY <1>0, <1>2, <2>1 DEF BeginAttempt, Attempt
<1>3. CASE GiveUp \/ WaitGroupWaits \/ Exit \/ TimerFires
  BY <1>0, <1>3 DEF GiveUp, WaitGroupWaits, Exit, TimerFires
<1>4. ASSUME InnerDone \/ TimedOut \/ ContextDone PROVE TypeOK' /\ ReadyInv'
  <2>1. attempt \in Attempt
    BY <1>0, <1>4, LifecycleAssumption
       DEF InnerDone, TimedOut, ContextDone, IInv, BegunInv, Attempt, LifecycleAssumption
  <2>2. verdict' \in {"none", "ok", "failed"} /\ aborted' \subseteq Attempt
    <3>1. CASE InnerDone
      BY <1>0, <2>1, <3>1 DEF InnerDone
    <3>2. CASE TimedOut \/ ContextDone
      <4>1. verdict' = "failed" /\ aborted' = aborted \cup {attempt}
        BY <3>2 DEF TimedOut, ContextDone
      <4>2. QED
        BY <1>0, <2>1, <4>1
    <3>3. QED
      BY <1>4, <3>1, <3>2
  <2>3. QED
    BY <1>0, <1>4, <2>2 DEF InnerDone, TimedOut, ContextDone
<1>5. CASE Collect
  BY <1>0, <1>5 DEF Collect
<1>6. CASE LeaveLifecycle
  <2>1. parent' \in BOOLEAN
    BY <1>6 DEF LeaveLifecycle
  <2>2. QED
    BY <1>0, <1>6, <2>1 DEF LeaveLifecycle
<1>7. ASSUME NEW a \in Attempt, TeardownCounts(a) \/ TeardownDeletes(a)
      PROVE  TypeOK' /\ ReadyInv'
  BY <1>0, <1>7 DEF TeardownCounts, TeardownDeletes, DeletePod
<1>8. ASSUME NEW a \in Attempt, Release(a) PROVE TypeOK' /\ ReadyInv'
  BY <1>0, <1>8 DEF Release, ReleaseCounts, ReleaseDeletes, ReleaseJoins, DeletePod
<1>9. CASE CancelParent
  <2>1. parent' \in BOOLEAN
    BY <1>9 DEF CancelParent
  <2>2. QED
    BY <1>0, <1>9, <2>1 DEF CancelParent
<1>10. CASE UNCHANGED vars
  BY <1>0, <1>10 DEF vars
<1>11. ASSUME NEW a \in Attempt, PodPanics(a) PROVE TypeOK' /\ ReadyInv'
  BY <1>0, <1>11 DEF PodPanics, ReturnFrom
<1>12. QED
  BY <1>1, <1>2, <1>3, <1>4, <1>5, <1>6, <1>7, <1>8, <1>9, <1>10, <1>11 DEF Next, Step, Runs

-----------------------------------------------------------------------------
(* What the goroutines of an attempt and the teardowns do, as far as the   *)
(* rest of the invariant is concerned.                                     *)

LEMMA RunsSteps ==
    ASSUME IInv, NEW a \in Attempt, Runs(a)
    PROVE  /\ UNCHANGED <<driver, await, pc, attempt, teardown, target, timer>>
           /\ \A b \in Attempt \ {a} : run'[b] = run[b] /\ container'[b] = container[b]
           /\ run'[a] # "none" <=> run[a] # "none"
           /\ run[a] = "done" => run'[a] = "done"
           /\ run[a] \in {"waiting", "done"} => run'[a] \in {"waiting", "done"}
           /\ container'[a] = "deleted" <=> container[a] = "deleted"
           /\ \/ UNCHANGED <<entry, recorded>>
              \/ /\ entry' = a /\ recorded' = recorded \cup {a}
                 /\ driver = "docker" /\ run[a] = "started" /\ run'[a] = "waiting"
<1> USE DEF TypeOK, ReturnFrom, CreateFails, settings, stepVars, teardownVars,
            readyVars, runVars, mapVars
<1>0. TypeOK /\ ContainerInv
  BY DEF IInv
<1>1. CASE PullImage(a)
  BY <1>0, <1>1 DEF PullImage
<1>2. CASE Create(a)
  BY <1>0, <1>2 DEF Create, ContainerInv
<1>3. CASE StartContainer(a)
  BY <1>0, <1>3 DEF StartContainer, ContainerInv
<1>4. CASE CreatePod(a)
  BY <1>0, <1>4 DEF CreatePod, ContainerInv
<1>5. CASE WatchPod(a)
  BY <1>0, <1>5 DEF WatchPod
<1>6. CASE Record(a)
  BY <1>0, <1>6 DEF Record, ContainerInv
<1>7. CASE WaitReturns(a)
  BY <1>0, <1>7 DEF WaitReturns
<1>8. CASE HandOver(a)
  BY <1>0, <1>8 DEF HandOver
<1>9. CASE WaiterReturns(a)
  BY <1>0, <1>9 DEF WaiterReturns
<1>10. CASE ContainerEnds(a)
  BY <1>0, <1>10 DEF ContainerEnds, ContainerInv
<1>11. QED
  BY <1>1, <1>2, <1>3, <1>4, <1>5, <1>6, <1>7, <1>8, <1>9, <1>10 DEF Runs, Chain

\* A teardown touches a recorded container only, and whose it is.
LEMMA TeardownSteps ==
    ASSUME IInv, NEW a \in Attempt,
           TeardownCounts(a) \/ TeardownDeletes(a) \/ Release(a)
    PROVE  /\ UNCHANGED <<driver, await, pc, attempt, run, entry, recorded, target, timer>>
           /\ teardown'[a] = "none" <=> teardown[a] = "none"
           /\ \A b \in Attempt \ {a} : teardown'[b] = teardown[b]
           /\ container' = container
              \/ \E b \in Attempt :
                    /\ container' = [container EXCEPT ![b] = "deleted"]
                    /\ Recorded(b)
                    /\ (teardown[a] # "none" /\ b = target[a]) \/ await # "Exit"
<1> USE DEF TypeOK, settings, stepVars, readyVars, runVars, mapVars
<1>0. TypeOK /\ TargetInv /\ EntryInv
  BY DEF IInv
<1>1. CASE TeardownCounts(a)
  BY <1>0, <1>1 DEF TeardownCounts
<1>2. CASE TeardownDeletes(a)
  <2>1. target[a] \in Attempt /\ Recorded(target[a]) /\ teardown[a] # "none"
    BY <1>0, <1>2 DEF TeardownDeletes, TargetInv, Attempt
  <2>2. container' = container \/ container' = [container EXCEPT ![target[a]] = "deleted"]
    BY <1>2 DEF TeardownDeletes, DeletePod
  <2>3. /\ UNCHANGED <<driver, await, pc, attempt, run, entry, recorded, target, timer>>
        /\ teardown'[a] = "none" <=> teardown[a] = "none"
        /\ \A b \in Attempt \ {a} : teardown'[b] = teardown[b]
    BY <1>0, <1>2 DEF TeardownDeletes, DeletePod
  <2>4. QED
    BY <2>1, <2>2, <2>3
<1>3. CASE Release(a)
  <2>1. /\ UNCHANGED <<driver, await, pc, attempt, run, entry, recorded, target, timer>>
        /\ teardown' = teardown
    BY <1>3 DEF Release, ReleaseCounts, ReleaseDeletes, ReleaseJoins
  <2>2. container' = container
        \/ (container' = [container EXCEPT ![entry] = "deleted"] /\ entry # 0 /\ released[a] # "none")
    <3>1. CASE ReleaseDeletes(a)
      BY <3>1 DEF ReleaseDeletes, DeletePod
    <3>2. CASE ReleaseCounts(a) \/ ReleaseJoins(a)
      BY <3>2 DEF ReleaseCounts, ReleaseJoins
    <3>3. QED
      BY <1>3, <3>1, <3>2 DEF Release
  <2>3. released[a] # "none" => await # "Exit"
    BY <1>0
  <2>4. entry # 0 => entry \in Attempt /\ Recorded(entry)
    BY <1>0 DEF EntryInv
  <2>5. QED
    BY <2>1, <2>2, <2>3, <2>4
<1>4. QED
  BY <1>1, <1>2, <1>3

\* Whatever else happens leaves the chains and their containers alone.
Elsewhere ==
    \/ GiveUp \/ InnerDone \/ TimedOut \/ ContextDone \/ LeaveLifecycle
    \/ WaitGroupWaits \/ Exit \/ TimerFires \/ CancelParent \/ UNCHANGED vars

LEMMA ElsewhereSteps ==
    ASSUME IInv, Elsewhere
    PROVE  /\ UNCHANGED <<driver, await, attempt, run, container, entry, recorded,
                          teardown, target>>
           /\ timer' = "none" <=> timer = "none"
           /\ pc' = "select" => pc = "select"
           /\ pc' = "try" => pc = "try"
           /\ pc' \in {"select", "gc"} => pc = pc' \/ pc = "select"
           /\ pc = "select" /\ pc' # "select" /\ timer = "none" => run[attempt] = "done"
           /\ pc = "gc" => pc' = "gc"
           /\ pc = "select" => pc' \in {"select", "gc"}
<1> USE DEF settings, stepVars, teardownVars, readyVars, runVars, mapVars
<1>1. CASE InnerDone \/ TimedOut \/ ContextDone
  BY <1>1 DEF InnerDone, TimedOut, ContextDone
<1>2. CASE GiveUp \/ LeaveLifecycle \/ WaitGroupWaits \/ Exit
  BY <1>2 DEF GiveUp, LeaveLifecycle, WaitGroupWaits, Exit
<1>3. CASE TimerFires \/ CancelParent
  BY <1>3 DEF TimerFires, CancelParent
<1>4. CASE UNCHANGED vars
  BY <1>4 DEF vars
<1>5. QED
  BY <1>1, <1>2, <1>3, <1>4 DEF Elsewhere

\* Nor does a panic touch a container, or what is known of it.
LEMMA PanicSteps ==
    ASSUME IInv, NEW a \in Attempt, PodPanics(a)
    PROVE  /\ UNCHANGED <<driver, await, attempt, container, entry, recorded, teardown,
                          target, timer>>
           /\ pc' \notin {"try", "select", "gc"}
           /\ driver = "kubernetes" /\ run[a] = "creating"
           /\ run' = [run EXCEPT ![a] = "done"]
BY DEF PodPanics, ReturnFrom, settings, teardownVars, mapVars

LEMMA NextSplits ==
    ASSUME [Next]_vars
    PROVE  \/ \E a \in Attempt : Runs(a)
           \/ \E a \in Attempt : PodPanics(a)
           \/ \E a \in Attempt : TeardownCounts(a) \/ TeardownDeletes(a) \/ Release(a)
           \/ BeginAttempt \/ Collect \/ Elsewhere
BY DEF Next, Step, Runs, Elsewhere

-----------------------------------------------------------------------------
(* One step, part by part.                                                 *)

LEMMA BegunStep == IInv /\ [Next]_vars => BegunInv'
<1> SUFFICES ASSUME IInv, [Next]_vars PROVE BegunInv'
  OBVIOUS
<1> USE LifecycleAssumption DEF LifecycleAssumption
<1>0. TypeOK /\ BegunInv
  BY DEF IInv
<1>1. ASSUME NEW a \in Attempt, Runs(a) PROVE BegunInv'
  BY <1>0, <1>1, RunsSteps DEF BegunInv
<1>2. ASSUME NEW a \in Attempt, TeardownCounts(a) \/ TeardownDeletes(a) \/ Release(a)
      PROVE  BegunInv'
  BY <1>0, <1>2, TeardownSteps DEF BegunInv
<1>3. CASE BeginAttempt
  BY <1>0, <1>3 DEF BeginAttempt, BegunInv, TypeOK, Attempt
<1>4. CASE Collect
  BY <1>0, <1>4 DEF Collect, BegunInv, TypeOK, Attempt, runVars
<1>5. CASE Elsewhere
  BY <1>0, <1>5, ElsewhereSteps DEF BegunInv
<1>6. ASSUME NEW a \in Attempt, PodPanics(a) PROVE BegunInv'
  BY <1>0, <1>6, PanicSteps DEF BegunInv, TypeOK
<1>7. QED
  BY <1>1, <1>2, <1>3, <1>4, <1>5, <1>6, NextSplits

LEMMA ContainerStep == IInv /\ [Next]_vars => ContainerInv'
<1> SUFFICES ASSUME IInv, [Next]_vars PROVE ContainerInv'
  OBVIOUS
<1>0. TypeOK /\ ContainerInv /\ RecordedInv
  BY DEF IInv
<1>1. ASSUME NEW a \in Attempt, Runs(a) PROVE ContainerInv'
  <2>1. /\ driver' = driver
        /\ \A b \in Attempt \ {a} : run'[b] = run[b] /\ container'[b] = container[b]
    BY <1>1, RunsSteps
  <2>2. /\ run'[a] \in {"none", "creating", "pulling"} => container'[a] = "none"
        /\ run'[a] = "created" /\ driver = "docker" => container'[a] = "created"
        /\ run'[a] = "created" /\ driver # "docker" => container'[a] \in {"running", "ended"}
        /\ run'[a] \in {"started", "waiting"} => container'[a] \notin {"none", "created"}
    <3> USE DEF TypeOK, ReturnFrom, CreateFails, ContainerInv
    <3>1. CASE PullImage(a) \/ Create(a)
      BY <1>0, <3>1 DEF PullImage, Create
    <3>2. CASE StartContainer(a) \/ CreatePod(a) \/ WatchPod(a)
      BY <1>0, <3>2 DEF StartContainer, CreatePod, WatchPod
    <3>3. CASE Record(a) \/ WaitReturns(a) \/ HandOver(a) \/ WaiterReturns(a)
      BY <1>0, <3>3 DEF Record, WaitReturns, HandOver, WaiterReturns, runVars
    <3>4. CASE ContainerEnds(a)
      BY <1>0, <3>4 DEF ContainerEnds
    <3>5. QED
      BY <1>1, <3>1, <3>2, <3>3, <3>4 DEF Runs, Chain
  <2>3. QED
    BY <1>0, <2>1, <2>2 DEF ContainerInv
<1>2. ASSUME NEW a \in Attempt, TeardownCounts(a) \/ TeardownDeletes(a) \/ Release(a)
      PROVE  ContainerInv'
  <2>1. UNCHANGED <<driver, run>>
    BY <1>2, TeardownSteps
  <2>2. container' = container
        \/ (\E b \in Attempt : container' = [container EXCEPT ![b] = "deleted"] /\ Recorded(b))
    BY <1>2, TeardownSteps
  <2>3. QED
    BY <1>0, <2>1, <2>2 DEF ContainerInv, RecordedInv, Recorded, TypeOK
<1>3. CASE BeginAttempt
  <2>1. run[attempt + 1] = "none"
    BY <1>0, <1>3, LifecycleAssumption
       DEF BeginAttempt, IInv, BegunInv, TypeOK, Attempt, LifecycleAssumption
  <2>2. QED
    BY <1>0, <1>3, <2>1 DEF BeginAttempt, ContainerInv, TypeOK, settings
<1>4. CASE Collect
  BY <1>0, <1>4 DEF Collect, ContainerInv, runVars, settings
<1>5. CASE Elsewhere
  BY <1>0, <1>5, ElsewhereSteps DEF ContainerInv
<1>6. ASSUME NEW a \in Attempt, PodPanics(a) PROVE ContainerInv'
  BY <1>0, <1>6, PanicSteps DEF ContainerInv, TypeOK
<1>7. QED
  BY <1>1, <1>2, <1>3, <1>4, <1>5, <1>6, NextSplits

\* What has been recorded stays recorded.
LEMMA RecordedStays ==
    ASSUME IInv, [Next]_vars, NEW b \in Attempt, Recorded(b)
    PROVE  Recorded(b)'
<1>1. ASSUME NEW a \in Attempt, Runs(a) PROVE Recorded(b)'
  BY <1>1, RunsSteps DEF Recorded
<1>2. ASSUME NEW a \in Attempt, TeardownCounts(a) \/ TeardownDeletes(a) \/ Release(a)
      PROVE  Recorded(b)'
  BY <1>2, TeardownSteps DEF Recorded
<1>3. CASE BeginAttempt \/ Collect
  BY <1>3 DEF BeginAttempt, Collect, Recorded, runVars, mapVars
<1>4. ASSUME NEW a \in Attempt, PodPanics(a) PROVE Recorded(b)'
  BY <1>4, PanicSteps DEF Recorded
<1>5. CASE Elsewhere
  BY <1>5, ElsewhereSteps DEF Recorded
<1>6. QED
  BY <1>1, <1>2, <1>3, <1>4, <1>5, NextSplits

LEMMA RecordedStep == IInv /\ [Next]_vars => RecordedInv'
<1> SUFFICES ASSUME IInv, [Next]_vars PROVE RecordedInv'
  OBVIOUS
<1>0. TypeOK /\ RecordedInv
  BY DEF IInv
<1>1. ASSUME NEW a \in Attempt, Runs(a) PROVE RecordedInv'
  <2>1. /\ driver' = driver
        /\ \A b \in Attempt \ {a} : run'[b] = run[b]
        /\ run[a] \in {"waiting", "done"} => run'[a] \in {"waiting", "done"}
        /\ \/ recorded' = recorded
           \/ recorded' = recorded \cup {a} /\ driver = "docker" /\ run'[a] = "waiting"
    BY <1>1, RunsSteps
  <2>2. QED
    BY <1>0, <2>1 DEF RecordedInv, TypeOK
<1>2. ASSUME NEW a \in Attempt, TeardownCounts(a) \/ TeardownDeletes(a) \/ Release(a)
      PROVE  RecordedInv'
  BY <1>0, <1>2, TeardownSteps DEF RecordedInv
<1>3. CASE BeginAttempt
  <2>1. run[attempt + 1] = "none"
    BY <1>0, <1>3, LifecycleAssumption
       DEF BeginAttempt, IInv, BegunInv, TypeOK, Attempt, LifecycleAssumption
  <2>2. /\ UNCHANGED <<driver, recorded>>
        /\ run' = [run EXCEPT ![attempt + 1] = "creating"]
    BY <1>3 DEF BeginAttempt, settings, mapVars
  <2>3. QED
    BY <1>0, <2>1, <2>2 DEF RecordedInv, TypeOK
<1>4. CASE Collect
  BY <1>0, <1>4 DEF Collect, RecordedInv, runVars, mapVars, settings
<1>5. CASE Elsewhere
  BY <1>0, <1>5, ElsewhereSteps DEF RecordedInv
<1>6. ASSUME NEW a \in Attempt, PodPanics(a) PROVE RecordedInv'
  BY <1>0, <1>6, PanicSteps DEF RecordedInv
<1>7. QED
  BY <1>1, <1>2, <1>3, <1>4, <1>5, <1>6, NextSplits

LEMMA EntryStep == IInv /\ [Next]_vars => EntryInv'
<1> SUFFICES ASSUME IInv, [Next]_vars PROVE EntryInv'
  OBVIOUS
<1>0. TypeOK /\ EntryInv
  BY DEF IInv
<1>1. ASSUME entry' = entry PROVE EntryInv'
  BY <1>0, <1>1, RecordedStays DEF EntryInv, TypeOK, Recorded
<1>2. ASSUME NEW a \in Attempt, Runs(a) PROVE EntryInv'
  BY <1>1, <1>2, RunsSteps DEF EntryInv, Recorded
<1>3. ASSUME NEW a \in Attempt, TeardownCounts(a) \/ TeardownDeletes(a) \/ Release(a)
      PROVE  EntryInv'
  BY <1>1, <1>3, TeardownSteps
<1>4. CASE BeginAttempt \/ Collect
  BY <1>1, <1>4 DEF BeginAttempt, Collect, runVars, mapVars
<1>5. CASE Elsewhere
  BY <1>1, <1>5, ElsewhereSteps
<1>6. ASSUME NEW a \in Attempt, PodPanics(a) PROVE EntryInv'
  BY <1>1, <1>6, PanicSteps
<1>7. QED
  BY <1>2, <1>3, <1>4, <1>5, <1>6, NextSplits

LEMMA TargetStep == IInv /\ [Next]_vars => TargetInv'
<1> SUFFICES ASSUME IInv, [Next]_vars PROVE TargetInv'
  OBVIOUS
<1> USE LifecycleAssumption DEF LifecycleAssumption
<1>0. TypeOK /\ TargetInv /\ BegunInv /\ EntryInv /\ RecordedInv
  BY DEF IInv
<1>1. \A c \in Attempt : Recorded(c) => Recorded(c)'
  BY RecordedStays
<1>2. ASSUME UNCHANGED <<target, attempt>>,
             \A b \in Attempt : teardown'[b] = "none" <=> teardown[b] = "none",
             pc' \in {"select", "gc"} => pc \in {"select", "gc"}
      PROVE  TargetInv'
  <2> SUFFICES ASSUME NEW b \in Attempt, teardown'[b] # "none"
               PROVE  /\ target'[b] \in 1..b /\ Recorded(target[b])'
                      /\ b <= attempt'
                      /\ b = attempt' => pc' \notin {"select", "gc"}
    BY DEF TargetInv
  <2>1. /\ target[b] \in 1..b /\ Recorded(target[b]) /\ b <= attempt
        /\ b = attempt => pc \notin {"select", "gc"}
    BY <1>0, <1>2 DEF TargetInv
  <2>2. PICK c \in Attempt : c = target[b]
    BY <2>1 DEF Attempt
  <2>3. Recorded(target[b])'
    BY <1>1, <1>2, <2>1, <2>2
  <2>4. QED
    BY <1>2, <2>1, <2>3
<1>3. ASSUME NEW a \in Attempt, Runs(a) PROVE TargetInv'
  BY <1>2, <1>3, RunsSteps
<1>4. ASSUME NEW a \in Attempt, TeardownCounts(a) \/ TeardownDeletes(a) \/ Release(a)
      PROVE  TargetInv'
  <2>1. /\ UNCHANGED <<target, attempt, pc>>
        /\ \A b \in Attempt : teardown'[b] = "none" <=> teardown[b] = "none"
    BY <1>4, TeardownSteps
  <2>2. QED
    BY <1>2, <2>1
<1>5. CASE BeginAttempt
  <2>1. UNCHANGED <<teardown, target>> /\ attempt' = attempt + 1
    BY <1>5 DEF BeginAttempt, teardownVars
  <2> SUFFICES ASSUME NEW b \in Attempt, teardown[b] # "none"
               PROVE  /\ target[b] \in 1..b /\ Recorded(target[b])'
                      /\ b < attempt'
    BY <1>0, <2>1 DEF TargetInv, TypeOK, Attempt
  <2>2. target[b] \in 1..b /\ Recorded(target[b]) /\ b <= attempt
    BY <1>0 DEF TargetInv
  <2>3. PICK c \in Attempt : c = target[b]
    BY <2>2 DEF Attempt
  <2>4. Recorded(target[b])'
    BY <1>1, <2>1, <2>2, <2>3
  <2>5. QED
    BY <1>0, <2>1, <2>2, <2>4 DEF TypeOK, Attempt
<1>6. CASE Collect
  <2>1. attempt \in Attempt /\ attempt' = attempt /\ pc' \notin {"select", "gc"}
    BY <1>0, <1>6 DEF Collect, BegunInv, TypeOK, Attempt
  <2>2. CASE entry = 0
    <3>1. UNCHANGED <<teardown, target>>
      BY <1>6, <2>2 DEF Collect
    <3>2. QED
      BY <1>2, <2>1, <3>1
  <2>3. CASE entry # 0
    <3>1. /\ teardown' = [teardown EXCEPT ![attempt] = "handed"]
          /\ target' = [target EXCEPT ![attempt] = entry]
      BY <1>6, <2>3 DEF Collect
    <3>2. PICK e \in 1..attempt : e = entry /\ Recorded(e)'
      <4>1. entry \in Attempt /\ Recorded(entry)
        BY <1>0, <2>3 DEF EntryInv, TypeOK
      <4>2. entry <= attempt
        BY <1>0, <4>1 DEF BegunInv, RecordedInv, Recorded
      <4>3. PICK e \in Attempt : e = entry
        BY <4>1
      <4>4. e \in 1..attempt /\ Recorded(e)'
        BY <1>0, <1>1, <4>1, <4>2, <4>3 DEF TypeOK, Attempt
      <4>5. QED
        BY <4>3, <4>4
    <3>3. ASSUME NEW b \in Attempt, teardown'[b] # "none"
          PROVE  /\ target'[b] \in 1..b /\ Recorded(target[b])'
                 /\ b <= attempt
      <4>1. CASE b = attempt
        <5>1. target'[b] = e
          BY <1>0, <2>1, <3>1, <3>2, <4>1 DEF TypeOK
        <5>2. Recorded(target[b])'
          BY <3>2, <5>1
        <5>3. QED
          BY <1>0, <3>2, <4>1, <5>1, <5>2 DEF TypeOK
      <4>2. CASE b # attempt
        <5>1. target'[b] = target[b] /\ teardown'[b] = teardown[b]
          BY <1>0, <2>1, <3>1, <4>2 DEF TypeOK
        <5>2. target[b] \in 1..b /\ Recorded(target[b]) /\ b <= attempt
          BY <1>0, <3>3, <5>1 DEF TargetInv
        <5>3. PICK c \in Attempt : c = target[b]
          BY <5>2 DEF Attempt
        <5>4. Recorded(target[b])'
          BY <1>1, <5>1, <5>2, <5>3
        <5>5. QED
          BY <5>1, <5>2, <5>4
      <4>3. QED
        BY <4>1, <4>2
    <3>4. QED
      BY <2>1, <3>3 DEF TargetInv
  <2>4. QED
    BY <2>2, <2>3
<1>7. CASE Elsewhere
  BY <1>2, <1>7, ElsewhereSteps
<1>8. ASSUME NEW a \in Attempt, PodPanics(a) PROVE TargetInv'
  BY <1>2, <1>8, PanicSteps
<1>9. QED
  BY <1>3, <1>4, <1>5, <1>6, <1>7, <1>8, NextSplits

LEMMA AloneStep == IInv /\ [Next]_vars => AloneInv'
<1> SUFFICES ASSUME IInv, [Next]_vars PROVE AloneInv'
  OBVIOUS
<1> USE LifecycleAssumption DEF LifecycleAssumption
<1>0. TypeOK /\ AloneInv /\ BegunInv /\ RecordedInv
  BY DEF IInv
<1>1. ASSUME NEW a \in Attempt, Runs(a) PROVE AloneInv'
  <2>1. /\ UNCHANGED <<driver, pc, attempt, timer>>
        /\ \A b \in Attempt \ {a} : run'[b] = run[b] /\ container'[b] = container[b]
        /\ run'[a] # "none" <=> run[a] # "none"
        /\ run[a] = "done" => run'[a] = "done"
    BY <1>1, RunsSteps
  <2>2. ASSUME timer = "none", NEW b \in Attempt, b < attempt \/ (b = attempt /\ pc # "select")
        PROVE  run'[b] = "done"
    BY <1>0, <2>1, <2>2 DEF AloneInv
  <2>3. ASSUME timer = "none", pc \in {"select", "gc"}, Recorded(attempt)'
        PROVE  entry' = attempt
    <3>1. CASE UNCHANGED <<entry, recorded>>
      BY <1>0, <2>1, <2>3, <3>1 DEF AloneInv, Recorded
    <3>2. CASE entry' = a /\ run[a] = "started"
      <4>1. a <= attempt
        BY <1>0, <3>2 DEF BegunInv
      <4>2. a = attempt
        BY <1>0, <2>3, <3>2, <4>1 DEF AloneInv, TypeOK, Attempt
      <4>3. QED
        BY <3>2, <4>2
    <3>3. QED
      BY <1>1, <3>1, <3>2, RunsSteps
  <2>4. QED
    BY <2>1, <2>2, <2>3 DEF AloneInv, Recorded
<1>2. ASSUME NEW a \in Attempt, TeardownCounts(a) \/ TeardownDeletes(a) \/ Release(a)
      PROVE  AloneInv'
  <2>1. UNCHANGED <<driver, pc, attempt, run, entry, recorded, timer>>
    BY <1>2, TeardownSteps
  <2>2. QED
    BY <1>0, <2>1 DEF AloneInv, Recorded
<1>3. CASE BeginAttempt
  <2>1. /\ UNCHANGED <<driver, container, entry, recorded, timer>> /\ attempt' = attempt + 1
        /\ attempt + 1 \in Attempt /\ pc = "try" /\ pc' = "select"
        /\ run' = [run EXCEPT ![attempt + 1] = "creating"]
    BY <1>0, <1>3 DEF BeginAttempt, BegunInv, TypeOK, Attempt, settings, mapVars
  <2>2. run'[attempt'] = "creating"
    BY <1>0, <2>1 DEF TypeOK
  <2>3. timer = "none" => \A b \in Attempt : b < attempt' => run'[b] = "done"
    BY <1>0, <2>1 DEF AloneInv, TypeOK, Attempt
  <2>4. attempt' \notin recorded'
    <3>1. run[attempt + 1] = "none"
      BY <1>0, <2>1 DEF BegunInv, TypeOK, Attempt
    <3>2. QED
      BY <1>0, <2>1, <3>1 DEF RecordedInv
  <2>5. QED
    BY <2>1, <2>2, <2>3, <2>4 DEF AloneInv, Recorded
<1>4. CASE Collect
  <2>1. UNCHANGED <<timer, run, attempt>> /\ pc = "gc" /\ pc' \notin {"select", "gc"}
    BY <1>4 DEF Collect, runVars
  <2>2. QED
    BY <1>0, <2>1 DEF AloneInv
<1>5. CASE Elsewhere
  <2>1. /\ UNCHANGED <<driver, attempt, run, container, entry, recorded>>
        /\ timer' = "none" <=> timer = "none"
        /\ pc' = "select" => pc = "select"
        /\ pc' \in {"select", "gc"} => pc = pc' \/ pc = "select"
        /\ pc = "select" /\ pc' # "select" /\ timer = "none" => run[attempt] = "done"
    BY <1>5, ElsewhereSteps
  <2>2. QED
    BY <1>0, <2>1 DEF AloneInv, Recorded
<1>6. ASSUME NEW a \in Attempt, PodPanics(a) PROVE AloneInv'
  <2>1. timer' = "none" => \A b \in Attempt : b <= attempt => run'[b] = "done"
    BY <1>0, <1>6, PanicSteps DEF AloneInv, BegunInv, TypeOK, Attempt
  <2>2. attempt' = attempt /\ pc' \notin {"select", "gc"}
    BY <1>6, PanicSteps
  <2>3. QED
    BY <1>0, <2>1, <2>2 DEF AloneInv, TypeOK, Attempt
<1>7. QED
  BY <1>1, <1>2, <1>3, <1>4, <1>5, <1>6, NextSplits

LEMMA NeverKilledStep == IInv /\ [Next]_vars => NeverKilledInProgress'
<1> SUFFICES ASSUME IInv, [Next]_vars, pc' = "select", await' = "Exit"
             PROVE  container'[attempt'] # "deleted"
  BY DEF NeverKilledInProgress
<1> USE LifecycleAssumption DEF LifecycleAssumption
<1>0. TypeOK /\ NeverKilledInProgress /\ BegunInv /\ TargetInv
  BY DEF IInv
<1>1. ASSUME NEW a \in Attempt, Runs(a) PROVE container'[attempt'] # "deleted"
  <2>1. /\ UNCHANGED <<await, pc, attempt>>
        /\ \A b \in Attempt \ {a} : container'[b] = container[b]
        /\ container'[a] = "deleted" <=> container[a] = "deleted"
    BY <1>1, RunsSteps
  <2>2. attempt \in Attempt
    BY <1>0, <2>1 DEF BegunInv, TypeOK, Attempt
  <2>3. QED
    BY <1>0, <2>1, <2>2 DEF NeverKilledInProgress
<1>2. ASSUME NEW a \in Attempt, TeardownCounts(a) \/ TeardownDeletes(a) \/ Release(a)
      PROVE  container'[attempt'] # "deleted"
  <2>1. UNCHANGED <<await, pc, attempt>>
    BY <1>2, TeardownSteps
  <2>2. attempt \in Attempt /\ container[attempt] # "deleted"
    BY <1>0, <2>1 DEF BegunInv, NeverKilledInProgress, TypeOK, Attempt
  <2>3. container' = container
        \/ (\E b \in Attempt : /\ container' = [container EXCEPT ![b] = "deleted"]
                               /\ teardown[a] # "none" /\ b = target[a])
    BY <1>2, <2>1, TeardownSteps
  <2>4. teardown[a] # "none" => target[a] # attempt
    BY <1>0, <2>1 DEF TargetInv, TypeOK, Attempt
  <2>5. QED
    BY <1>0, <2>1, <2>2, <2>3, <2>4 DEF TypeOK
<1>3. CASE BeginAttempt
  <2>1. attempt + 1 \in Attempt /\ attempt' = attempt + 1 /\ container' = container
    BY <1>0, <1>3 DEF BeginAttempt, BegunInv, TypeOK, Attempt
  <2>2. container[attempt + 1] = "none"
    BY <1>0, <2>1 DEF BegunInv, IInv, ContainerInv, TypeOK
  <2>3. QED
    BY <2>1, <2>2
<1>4. CASE Collect
  BY <1>4 DEF Collect
<1>5. CASE Elsewhere
  BY <1>0, <1>5, ElsewhereSteps DEF NeverKilledInProgress
<1>6. ASSUME NEW a \in Attempt, PodPanics(a) PROVE container'[attempt'] # "deleted"
  BY <1>6, PanicSteps
<1>7. QED
  BY <1>1, <1>2, <1>3, <1>4, <1>5, <1>6, NextSplits

\* What EveryAttemptCollected asks of one attempt.
Through(a) ==
    /\ Recorded(a)
    /\ timer = "none" /\ run[a] = "done"
    /\ pc \notin {"select", "gc"} \/ attempt # a
Collected(a) == \E b \in Attempt : teardown[b] # "none" /\ target[b] = a

LEMMA CollectedStep == IInv /\ [Next]_vars => EveryAttemptCollected'
<1> SUFFICES ASSUME IInv, [Next]_vars PROVE EveryAttemptCollected'
  OBVIOUS
<1>t. recorded' \subseteq Attempt
  BY TypeStep DEF TypeOK
<1> SUFFICES ASSUME NEW a \in Attempt, Through(a)' PROVE Collected(a)'
  BY <1>t DEF EveryAttemptCollected, Through, Collected, Recorded
<1> USE LifecycleAssumption DEF LifecycleAssumption
<1>0. /\ TypeOK /\ BegunInv /\ AloneInv /\ TargetInv /\ RecordedInv
      /\ Through(a) => Collected(a)
  BY DEF IInv, EveryAttemptCollected, Through, Collected, Recorded
<1>1. ASSUME Through(a), UNCHANGED target,
             \A b \in Attempt : teardown[b] # "none" => teardown'[b] # "none"
      PROVE  Collected(a)'
  BY <1>0, <1>1 DEF Collected
<1>2. ASSUME NEW c \in Attempt, Runs(c) PROVE Collected(a)'
  <2>1. /\ UNCHANGED <<driver, pc, attempt, teardown, target, timer>>
        /\ \A b \in Attempt \ {c} : run'[b] = run[b]
        /\ run'[c] # "none" <=> run[c] # "none"
        /\ recorded' = recorded \/ (recorded' = recorded \cup {c} /\ run'[c] = "waiting")
    BY <1>2, RunsSteps
  <2>2. timer = "none" /\ run'[a] = "done" /\ (pc \notin {"select", "gc"} \/ attempt # a)
    BY <2>1 DEF Through
  <2>3. run[a] = "done"
    <3>1. a <= attempt
      BY <1>0, <2>1, <2>2 DEF BegunInv
    <3>2. QED
      BY <1>0, <2>2, <3>1 DEF AloneInv, TypeOK, Attempt
  <2>4. Recorded(a)
    BY <2>1, <2>2 DEF Through, Recorded
  <2>5. Through(a)
    BY <2>2, <2>3, <2>4 DEF Through
  <2>6. QED
    BY <1>1, <2>1, <2>5
<1>3. ASSUME NEW c \in Attempt, TeardownCounts(c) \/ TeardownDeletes(c) \/ Release(c)
      PROVE  Collected(a)'
  <2>1. /\ UNCHANGED <<driver, pc, attempt, run, recorded, target, timer>>
        /\ \A b \in Attempt : teardown'[b] = "none" <=> teardown[b] = "none"
    BY <1>3, TeardownSteps
  <2>2. Through(a)
    BY <2>1 DEF Through, Recorded
  <2>3. QED
    BY <1>1, <2>1, <2>2
<1>4. CASE BeginAttempt
  <2>1. /\ UNCHANGED <<recorded, teardown, target, timer>>
        /\ pc = "try" /\ run' = [run EXCEPT ![attempt + 1] = "creating"]
    BY <1>4 DEF BeginAttempt, mapVars, teardownVars
  <2>2. Through(a)
    BY <1>0, <2>1 DEF Through, Recorded, TypeOK
  <2>3. QED
    BY <1>1, <2>1, <2>2
<1>5. CASE Collect
  <2>1. /\ UNCHANGED <<run, recorded, timer, attempt>> /\ pc = "gc"
        /\ attempt \in Attempt
    BY <1>0, <1>5 DEF Collect, runVars, mapVars, BegunInv, TypeOK, Attempt
  <2>2. timer = "none" /\ run[a] = "done" /\ Recorded(a)
    BY <2>1 DEF Through, Recorded
  <2>3. CASE a = attempt
    <3>1. entry = attempt
      BY <1>0, <2>1, <2>2, <2>3 DEF AloneInv, Recorded
    <3>2. teardown'[attempt] = "handed" /\ target'[attempt] = attempt
      BY <1>0, <1>5, <2>1, <3>1 DEF Collect, TypeOK, Attempt
    <3>3. QED
      BY <2>1, <2>3, <3>2 DEF Collected
  <2>4. CASE a # attempt
    <3>1. PICK b \in Attempt : teardown[b] # "none" /\ target[b] = a
      BY <1>0, <2>2, <2>4 DEF Through, Collected
    <3>2. b # attempt
      BY <1>0, <2>1, <3>1 DEF TargetInv
    <3>3. teardown'[b] = teardown[b] /\ target'[b] = target[b]
      BY <1>0, <1>5, <3>2 DEF Collect, TypeOK
    <3>4. QED
      BY <3>1, <3>3 DEF Collected
  <2>5. QED
    BY <2>3, <2>4
<1>6. CASE Elsewhere
  <2>1. /\ UNCHANGED <<attempt, run, recorded, teardown, target>>
        /\ timer' = "none" <=> timer = "none"
        /\ pc = "gc" => pc' = "gc"
        /\ pc = "select" => pc' \in {"select", "gc"}
    BY <1>6, ElsewhereSteps
  <2>2. Through(a)
    BY <2>1 DEF Through, Recorded
  <2>3. QED
    BY <1>1, <2>1, <2>2
<1>7. ASSUME NEW c \in Attempt, PodPanics(c) PROVE Collected(a)'
  <2>1. driver = "kubernetes" /\ recorded' = recorded
    BY <1>7, PanicSteps
  <2>2. QED
    BY <1>0, <2>1 DEF RecordedInv, Through, Recorded
<1>8. QED
  BY <1>2, <1>3, <1>4, <1>5, <1>6, <1>7, NextSplits

-----------------------------------------------------------------------------
(* The theorems.                                                           *)

LEMMA Invariance == Spec => []IInv
<1>1. IInv /\ [Next]_vars => IInv'
  BY TypeStep, BegunStep, ContainerStep, RecordedStep, EntryStep, TargetStep, AloneStep,
     NeverKilledStep, CollectedStep DEF IInv
<1>2. QED
  BY InitIInv, <1>1, PTL DEF Spec

(* Every variable keeps its type; only the driver for docker puts a        *)
(* container into the map, and a teardown of the step's own comes with a   *)
(* goroutine that waits.                                                   *)
THEOREM TypeCorrect == Spec => []TypeOK
<1>1. IInv => TypeOK
  BY DEF IInv
<1>2. QED
  BY <1>1, Invariance, PTL

(* Whatever the number of attempts, and however late a teardown is         *)
(* executed, it deletes a container of an earlier attempt: chains that a   *)
(* timeout left behind may write the map of containers at any time, but    *)
(* what a teardown deletes is settled when its attempt is collected.       *)
THEOREM NoTeardownTooLate == Spec => []NeverKilledInProgress
<1>1. IInv => NeverKilledInProgress
  BY DEF IInv
<1>2. QED
  BY <1>1, Invariance, PTL

(* Without a timeout the map that all attempts share never loses a         *)
(* container: each that was recorded is handed to a teardown before the    *)
(* next attempt, or the end of the step, can overwrite its entry.          *)
THEOREM NothingLeftBehind == Spec => []EveryAttemptCollected
<1>1. IInv => EveryAttemptCollected
  BY DEF IInv
<1>2. QED
  BY <1>1, Invariance, PTL

=============================================================================
