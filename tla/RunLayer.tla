------------------------------ MODULE RunLayer ------------------------------
(* One "rageta run" (cmd/cli/run.go, internal/run): twenty-two nested      *)
(* steps, each of which sets something up, calls the next and may do       *)
(* something when that has returned.  "phase" is the step the goroutine of *)
(* the run is in, on its way "down" or "up"; the pipeline runs in the      *)
(* innermost, Execute, and tells the user interface what it does.          *)
EXTENDS Interface, Inputs, FiniteSets

CONSTANTS Options,     \* the command lines
          MaxRetries   \* bound: the greatest --retry of Options

\* What is asked of a run, and of its pipeline "goroutines": that the chain of a
\* step leaves the goroutine it was called in (a timeout, a matrix, concurrent).
Option == {"skipSummary", "collect", "report", "fork", "retries", "ui", "fault",
           "goroutines", "env", "profile", "changed", "params", "given", "flags"}
Profile == {"default", "debug", "github-actions"}

ASSUME OptionsAssumption ==
    /\ MaxRetries \in Nat
    /\ \A o \in Options : /\ DOMAIN o = Option
                         /\ o.retries \in 0 .. MaxRetries
                         /\ o.env \in Profile /\ o.profile \in Profile

Phases == <<"summary", "context dir", "step context", "secrets", "report",
            "otel", "logging", "envs", "image policy", "template", "teardown",
            "events", "cel", "tags", "runtime", "fork", "lifecycle",
            "provider", "pipeline", "inputs", "output", "execute">>
Phase == ToSet(Phases)
Fallible == Phase \ {"summary", "secrets", "envs", "teardown", "tags",
                     "lifecycle", "pipeline"}

VARIABLES options,     \* the command line
          phase, way,  \* where the run is, and its direction
          err,         \* the error that is being returned
          cancelled,   \* rc.Context is cancelled
          dir,         \* the context directory: "none", "there", "removed"
          stepContext, \* the attempt whose context rc.Execution.StepContext is
          stored,      \* the attempt whose context context.json holds, NoFile or Partial
          attempts,    \* attempts of the pipeline begun
          step,        \* what the steps of each attempt do
          sent,        \* history: the status that each step sent last
          revived,     \* history: the steps that started after PipelineDoneMsg
          rows,        \* the entries of the report
          late,        \* history: the entries made after Report had returned
          published,   \* the entries Finalize has written; NotPublished before
          notified,    \* PipelineDoneMsg has been sent
          printed,     \* what the summary has written: "nothing", "error", "success"
          exit         \* "running", "ok", "failed", "crashed" (in the summary)
                       \* or "panicked" (in a step)

flow == <<phase, way, err>>
results == <<dir, stored, published, printed, exit>>
told == <<sent, revived>>
reported == <<rows, late>>
pipelineVars == <<stepContext, attempts, step, told, reported>>
vars == <<options, flow, results, pipelineVars, cancelled, notified, uiVars>>

NotPublished == {<<0, "none">>}
NoFile == -1
Partial == -2          \* truncated, and not written, or not all of it
Attempt == 1 .. MaxRetries + 1
Ended == {"done", "failed", "skipped"}

(* An error: none; of a step of the run itself; or of the pipeline.  The   *)
(* last has a cause: a container's exit, another error of a step, or one   *)
(* that wraps nothing.  errors.Join puts one above either.                 *)
NoError == [of |-> "none", cause |-> "none", joined |-> FALSE]
RunError == [of |-> "run", cause |-> "none", joined |-> FALSE]
PipelineError(cause) == [of |-> "pipeline", cause |-> cause, joined |-> FALSE]
Joined(e) == IF e = NoError THEN [RunError EXCEPT !.joined = TRUE]
             ELSE [e EXCEPT !.joined = TRUE]

(* A profile of flags stands for those that the user did not give.         *)
DebugProfile(o) ==
    [o EXCEPT !.report = @ \/ "report" \notin o.changed]
GithubActionsProfile(o) ==
    [o EXCEPT !.report = @ \/ "report" \notin o.changed,
              !.ui = @ /\ "output" \in o.changed]

FlagProfile(profile, o) ==
    CASE profile = "debug" -> DebugProfile(o)
      [] profile = "github-actions" -> GithubActionsProfile(o)
      [] profile = "default" -> o

(* The profile of the environment is applied when the program starts,      *)
(* before the flags are read, and stays in force under the one they name.  *)
ApplyFlagProfile(o) ==
    FlagProfile(o.profile, FlagProfile(o.env, o))

Init ==
    /\ options \in {ApplyFlagProfile(o) : o \in Options}
    /\ phase = "summary" /\ way = "down" /\ err = NoError
    /\ cancelled = FALSE /\ dir = "none" /\ stepContext = 0 /\ stored = NoFile
    /\ attempts = 0 /\ step = [a \in Attempt |-> [s \in Step |-> "idle"]]
    /\ sent = [s \in Step |-> "none"] /\ revived = {}
    /\ rows = {} /\ late = {} /\ published = NotPublished
    /\ notified = FALSE /\ printed = "nothing" /\ exit = "running"
    /\ InitInterface

Place(p) == CHOOSE i \in DOMAIN Phases : Phases[i] = p
Inner(p) == Phases[Place(p) + 1]
Outer(p) == Phases[Place(p) - 1]

Down(p) == exit = "running" /\ way = "down" /\ phase = p
Up(p) == exit = "running" /\ way = "up" /\ phase = p
CallNext(p) == phase' = Inner(p) /\ way' = "down" /\ UNCHANGED err
Return(p, e) == phase' = Outer(p) /\ way' = "up" /\ err' = e

(* A step whose configuration or surroundings are at fault returns at once. *)
SetUpFails(p) ==
    /\ Down(p) /\ p \in Fallible /\ options.fault = p
    /\ Return(p, RunError)
    /\ UNCHANGED <<options, results, pipelineVars, cancelled, notified, uiVars>>

Sound(p) == Down(p) /\ options.fault # p

(* A step that sets something up for those inside it, in the context they  *)
(* share, and whose clean-up, if any, changes nothing here.                *)
Passes(p) ==
    /\ \/ Sound(p) /\ CallNext(p)
       \/ Up(p) /\ Return(p, err)
    /\ UNCHANGED <<options, results, pipelineVars, cancelled, notified, uiVars>>
SetsUp(p) == SetUpFails(p) \/ Passes(p)

Secrets == Passes("secrets")              \* and masks both streams
Envs == Passes("envs")
Tags == Passes("tags")
Teardown == Passes("teardown")            \* waits: StepLifecycle
PipelineStep == Passes("pipeline")        \* the chain of a step: StepChain
Otel == SetsUp("otel")                    \* an exporter; shut down on the way up
Logging == SetsUp("logging")              \* the file main.log
ImagePolicy == SetsUp("image policy")     \* one of three
Template == SetsUp("template")            \* volumes, the user and the group
Events == SetsUp("events")                \* their file; closed on the way up
CEL == SetsUp("cel")
ContainerRuntime == SetsUp("runtime")     \* a client
Provider == SetsUp("provider")            \* resolves and persists: ProviderStore
InputsStep == SetsUp("inputs")            \* -i without "=", flags unknown

Surroundings ==
    \/ Secrets \/ Envs \/ Tags \/ Teardown \/ PipelineStep \/ Otel \/ Logging
    \/ ImagePolicy \/ Template \/ Events \/ CEL \/ ContainerRuntime \/ Provider
    \/ InputsStep

EnterSummary ==
    /\ Down("summary")
    /\ CallNext("summary")
    /\ UNCHANGED <<options, results, pipelineVars, cancelled, notified, uiVars>>

EnterContextDir ==
    /\ Sound("context dir")
    /\ dir' = "there"
    /\ CallNext("context dir")
    /\ UNCHANGED <<options, stored, published, printed, exit, pipelineVars,
                   cancelled, notified, uiVars>>

(* What --recover reads is dropped by the builder (build.go:118): it only  *)
(* can fail.                                                               *)
EnterStepContext ==
    /\ Sound("step context")
    /\ stepContext' = 0
    /\ CallNext("step context")
    /\ UNCHANGED <<options, results, attempts, step, told, reported, cancelled,
                   notified, uiVars>>

EnterReport ==
    /\ Sound("report")
    /\ CallNext("report")
    /\ UNCHANGED <<options, results, pipelineVars, cancelled, notified, uiVars>>

(* With --fork a container runs the pipeline and nothing below is called.  *)
Fork ==
    /\ Sound("fork")
    /\ \/ ~options.fork /\ CallNext("fork")
       \/ options.fork /\ \E e \in {NoError, RunError} : Return("fork", e)
    /\ UNCHANGED <<options, results, pipelineVars, cancelled, notified, uiVars>>

LeaveFork ==
    /\ Up("fork")
    /\ Return("fork", err)
    /\ UNCHANGED <<options, results, pipelineVars, cancelled, notified, uiVars>>

EnterLifecycle ==
    /\ Down("lifecycle")
    /\ CallNext("lifecycle")
    /\ UNCHANGED <<options, results, pipelineVars, cancelled, notified, uiVars>>

LeaveLifecycle ==
    /\ Up("lifecycle")
    /\ cancelled' = TRUE
    /\ Return("lifecycle", err)
    /\ UNCHANGED <<options, results, pipelineVars, notified, uiVars>>

(* A signal, or --timeout, while the context of Lifecycle is alive.  The   *)
(* user interface has a handler of its own for signals.                    *)
Cancel ==
    /\ exit = "running" /\ ~cancelled
    /\ phase \in {Phases[i] : i \in (Place("lifecycle") + 1) .. Len(Phases)}
    /\ cancelled' = TRUE
    /\ UNCHANGED uiVars \/ (loop = "up" /\ Quit)
    /\ UNCHANGED <<options, flow, results, pipelineVars, notified>>

(* Only the "ui" output has a program, which runs beside the pipeline and   *)
(* is sent a tick every 100 ms.                                            *)
UIOutput == IF options.ui THEN "up" ELSE "off"

EnterOutput ==
    /\ Sound("output")
    /\ loop' = UIOutput
    /\ CallNext("output")
    /\ UNCHANGED <<options, results, pipelineVars, cancelled, notified, items,
                   status, cursor, last, panel, filter, filtered>>

(* Execute builds the pipeline: the inputs, the steps, of which no two have *)
(* one name, and the entry point.                                          *)
Inputted == ParseInputs(options.params, options.given, options.flags)

Built == Accepted(options.params, Inputted) /\ options.fault # "execute"

Build ==
    /\ Down("execute") /\ ~Built
    /\ Return("execute", RunError)
    /\ UNCHANGED <<options, results, pipelineVars, cancelled, notified, uiVars>>

StillUp(a) == {s \in Step : step[a][s] = "up"}
Attempting == Down("execute") /\ attempts > stepContext

(* The chains of an attempt go on until it returns, and what it has left   *)
(* behind after that: a composite step whose timeout is over, or one of    *)
(* whose references cannot be built, returns before those that it called   *)
(* (timeout.go:44-48, concurrent.go:46).                                   *)
Alive(a) == exit = "running" /\ (a > stepContext \/ StillUp(a) # {})

(* retry.Do looks at the context before every attempt.                     *)
BeginAttempt ==
    /\ Down("execute") /\ Built
    /\ attempts = stepContext /\ ~cancelled
    /\ attempts' = attempts + 1
    /\ UNCHANGED <<options, flow, results, stepContext, step, told, reported,
                   cancelled, notified, uiVars>>

GiveUp ==
    /\ Down("execute") /\ Built
    /\ attempts = stepContext /\ cancelled
    /\ Return("execute", PipelineError("bare"))
    /\ UNCHANGED <<options, results, pipelineVars, cancelled, notified, uiVars>>

Send(Message) == IF loop = "up" THEN Message ELSE UNCHANGED uiVars

StartStep(a, s) ==
    /\ Alive(a) /\ step[a][s] = "idle"
    /\ step' = [step EXCEPT ![a][s] = "up"]
    /\ sent' = [sent EXCEPT ![s] = "running"]
    /\ revived' = IF notified THEN revived \cup {s} ELSE revived
    /\ Send(HandleStepMessage(s, "running"))
    /\ UNCHANGED <<options, flow, results, stepContext, attempts, reported,
                   cancelled, notified>>

\* Report has not returned yet.
Reporting == way = "down" \/ Place(phase) >= Place("report")

(* A step ends, is recorded and tells the user interface how.              *)
EndStep(a, s, outcome) ==
    /\ Alive(a) /\ step[a][s] = "up"
    /\ step' = [step EXCEPT ![a][s] = outcome]
    /\ sent' = [sent EXCEPT ![s] = outcome]
    /\ rows' = IF options.report THEN rows \cup {<<a, s>>} ELSE rows
    /\ late' = IF Reporting THEN late ELSE late \cup {<<a, s>>}
    /\ Send(HandleStepMessage(s, outcome))
    /\ UNCHANGED <<options, flow, results, stepContext, attempts, revived,
                   cancelled, notified>>

(* A panic unwinds the chain of the step up to Recover: nothing is recorded *)
(* (report.go:31) and nobody is told (output.go:64).                       *)
PanicStep(a, s) ==
    /\ Alive(a) /\ step[a][s] = "up"
    /\ step' = [step EXCEPT ![a][s] = "panicked"]
    /\ UNCHANGED <<options, flow, results, stepContext, attempts, told, reported,
                   cancelled, notified, uiVars>>

(* In a goroutine of a matrix or of a timeout there is no Recover above it: *)
(* the process ends.                                                       *)
PanicProcess(a, s) ==
    /\ Alive(a) /\ step[a][s] = "up" /\ options.goroutines
    /\ exit' = "panicked"
    /\ IF loop = "up" THEN Quit ELSE UNCHANGED uiVars
    /\ UNCHANGED <<options, flow, dir, stored, published, printed, pipelineVars,
                   cancelled, notified>>

(* The entry point returns when no step of the attempt runs any more, or   *)
(* before that with a step that has left others behind; with the error of  *)
(* one that failed, with none if that was allowed, or, bare, with a panic  *)
(* that Recover caught or with the end of the context or of the timeout.   *)
Outcomes == {step[attempts][s] : s \in Step}

Causes ==
    (IF "failed" \in Outcomes THEN {"container", "step"} ELSE {})
        \cup (IF "skipped" \in Outcomes \/ Outcomes \cap {"failed", "panicked"} = {}
              THEN {"none"} ELSE {})
        \cup {"bare"}

LeavesBehind ==
    options.goroutines /\ Outcomes \cap {"failed", "skipped", "panicked"} # {}

(* The context of an attempt is kept however it ended; retries are left    *)
(* or the error, or its success, is returned.  Of its steps matters only   *)
(* which have ended and, if some were left behind, which may still start.  *)
Settled(outcome) ==
    CASE outcome \in Ended -> "done"
      [] outcome \notin Ended /\ StillUp(attempts) = {} -> "idle"
      [] outcome \notin Ended /\ StillUp(attempts) # {} -> outcome

EndAttempt ==
    /\ Attempting
    /\ StillUp(attempts) = {} \/ LeavesBehind
    /\ stepContext' = attempts
    /\ step' = [step EXCEPT ![attempts] = [s \in Step |-> Settled(step[attempts][s])]]
    /\ \E cause \in Causes :
          IF cause = "none" THEN Return("execute", NoError)
          ELSE IF attempts <= options.retries THEN UNCHANGED flow
          ELSE Return("execute", PipelineError(cause))
    /\ UNCHANGED <<options, results, attempts, told, reported, cancelled, notified,
                   uiVars>>

(* The end of the run is told to the interface, and waited for: leaving it *)
(* before does not end the run (output.go:172).                            *)
NotifyUI ==
    /\ Up("output") /\ loop # "off" /\ ~notified
    /\ notified' = TRUE
    /\ IF loop = "up" THEN HandlePipelineDone(IF err = NoError THEN "done" ELSE "failed")
       ELSE UNCHANGED uiVars
    /\ UNCHANGED <<options, flow, results, pipelineVars, cancelled>>

LeaveOutput ==
    /\ Up("output") /\ (loop = "off" \/ (notified /\ loop = "quit"))
    /\ Return("output", err)
    /\ UNCHANGED <<options, results, pipelineVars, cancelled, notified, uiVars>>

(* The report is written when the pipeline ended, with success or not; an  *)
(* error of the run itself leaves none.                                    *)
PublishesSuccess(e) == e.of = "none"                        \* mutant
Publishes(e) == e.of \in {"none", "pipeline"}

LeaveReport ==
    /\ Up("report")
    /\ \/ options.report /\ Publishes(err)
          /\ \/ published' = rows /\ Return("report", err)
             \/ UNCHANGED published /\ Return("report", Joined(err))
       \/ ~(options.report /\ Publishes(err))
          /\ UNCHANGED published /\ Return("report", err)
    /\ UNCHANGED <<options, dir, stored, printed, exit, pipelineVars, cancelled,
                   notified, uiVars>>

\* Mutant: the context that was taken before the pipeline ran is written.
LeaveStepContextEarly ==
    /\ Up("step context")
    /\ \/ stored' = 0 /\ Return("step context", err)
       \/ stored' \in {stored, Partial} /\ Return("step context", Joined(err))
    /\ UNCHANGED <<options, dir, published, printed, exit, pipelineVars,
                   cancelled, notified, uiVars>>

(* context.json gets the context of the last attempt, whatever it ended    *)
(* with.  A file that cannot be opened is left as it was; what is opened is *)
(* truncated, and the context or the disk may then be at fault.            *)
LeaveStepContext ==
    /\ Up("step context")
    /\ \/ stored' = stepContext /\ Return("step context", err)
       \/ stored' \in {stored, Partial} /\ Return("step context", Joined(err))
    /\ UNCHANGED <<options, dir, published, printed, exit, pipelineVars,
                   cancelled, notified, uiVars>>

LeaveContextDir ==
    /\ Up("context dir")
    /\ dir' = IF options.collect THEN "removed" ELSE dir
    /\ Return("context dir", err)
    /\ UNCHANGED <<options, stored, published, printed, exit, pipelineVars,
                   cancelled, notified, uiVars>>

(* The summary replaces the error of the run by its text, and "rageta run" *)
(* succeeds; an error that wraps nothing, or the two halves of a joined    *)
(* one, has no text (summary.go:51, 112).                                  *)
Unprintable(e) == e.of = "pipeline" /\ (e.joined \/ e.cause = "bare")

Finish(how, text) ==
    /\ exit' = how /\ printed' = text /\ way' = "done"
    /\ UNCHANGED <<phase, err>>

LeaveSummary ==
    /\ Up("summary")
    /\ IF options.skipSummary THEN Finish(IF err = NoError THEN "ok" ELSE "failed", printed)
       ELSE IF err = NoError THEN Finish("ok", "success")
       ELSE IF Unprintable(err) THEN Finish("crashed", printed)
       ELSE Finish("ok", "error")
    /\ UNCHANGED <<options, dir, stored, published, pipelineVars, cancelled,
                   notified, uiVars>>

ByUser ==
    /\ User
    /\ UNCHANGED <<options, flow, results, pipelineVars, cancelled, notified>>

Enter ==
    \/ Surroundings
    \/ \E p \in {"context dir", "step context", "report", "fork", "output"} : SetUpFails(p)
    \/ EnterSummary \/ EnterContextDir \/ EnterStepContext \/ EnterReport
    \/ Fork \/ EnterLifecycle \/ EnterOutput
Leave ==
    \/ LeaveFork \/ LeaveLifecycle \/ NotifyUI \/ LeaveOutput \/ LeaveReport
    \/ LeaveStepContext \/ LeaveContextDir \/ LeaveSummary
Execute ==
    \/ Build \/ BeginAttempt \/ GiveUp \/ EndAttempt
    \/ \E a \in 1 .. attempts, s \in Step : StartStep(a, s)
Steps ==
    \E a \in 1 .. attempts, s \in Step :
        PanicStep(a, s) \/ \E outcome \in Ended : EndStep(a, s, outcome)
Panic == \E a \in 1 .. attempts, s \in Step : PanicProcess(a, s)

Next == Enter \/ Leave \/ Execute \/ Steps \/ Panic \/ Cancel \/ ByUser
Spec == Init /\ [][Next]_vars

(* The goroutine of the run goes on, and every step ends, well or with a   *)
(* panic.  Nothing is asked of the user.                                   *)
FairSpec == Spec /\ WF_vars(Enter \/ Leave \/ Execute) /\ WF_vars(Steps)

-----------------------------------------------------------------------------
TypeOK ==
    /\ phase \in Phase /\ way \in {"down", "up", "done"}
    /\ err.of \in {"none", "run", "pipeline"}
    /\ dir \in {"none", "there", "removed"}
    /\ stepContext \in 0 .. MaxRetries + 1 /\ attempts \in 0 .. MaxRetries + 1
    /\ stored \in {Partial, NoFile} \cup (0 .. MaxRetries + 1)
    /\ step \in [Attempt -> [Step -> {"idle", "up", "panicked"} \cup Ended]]
    /\ sent \in [Step -> {"none", "running"} \cup Ended] /\ revived \subseteq Step
    /\ rows \subseteq Attempt \X Step /\ late \subseteq Attempt \X Step
    /\ printed \in {"nothing", "error", "success"}
    /\ exit \in {"running", "ok", "failed", "crashed", "panicked"}
    /\ loop \in {"off", "up", "quit"} /\ items \in Seq(Item)
    /\ cursor \in (IF items = <<>> THEN {0} ELSE DOMAIN items)
    /\ last \in Item \cup {NoItem}

\* The run has unwound; a panic in a goroutine leaves no time for it.
Over == exit \in {"ok", "failed", "crashed"}

(* However a run ended, the context.json that it left behind holds what    *)
(* the last attempt of the pipeline left, and if an attempt was begun and  *)
(* there is no such file, or a part of one, the error says so              *)
(* (step_context.go:44-51): a recovery from an older context would run     *)
(* again what has been done.  A panic that ends the process is excepted.   *)
StoredIsLast ==
    Over =>
        /\ stored \notin {NoFile, Partial} => stored = attempts
        /\ attempts > 0 \/ stored = Partial => stored = attempts \/ err.joined

(* The report lists the steps that ended in any attempt, though the        *)
(* pipeline failed or was cancelled, or the error says that it could not   *)
(* be written (report.go:84-89).  Not in it are the steps that panicked,   *)
(* which add no entry, and those that an attempt left behind and that      *)
(* ended after the report was written; without a goroutine of its own no   *)
(* step does.                                                              *)
ReportComplete ==
    Over /\ options.report =>
        /\ attempts > 0 =>
              \/ published = {c \in Attempt \X Step : step[c[1]][c[2]] \in Ended} \ late
              \/ err.joined
        /\ late # {} => options.goroutines

(* The status that a step has in the list after the end: the one that it   *)
(* told last.  Whoever told of no end - a step that panicked or was left   *)
(* behind - has failed with the pipeline (ui.go:229), unless it started    *)
(* after that.                                                             *)
Shown(s) ==
    IF notified /\ sent[s] = "running" /\ err # NoError /\ s \notin revived
    THEN "failed" ELSE sent[s]

(* When the user still looks at the interface after the run has ended, the *)
(* list has every step as Shown, and no other, though keys, ticks and      *)
(* messages came in any order; and the pipeline how it ended, unless a     *)
(* chain that was left behind has started a step since, which puts it back *)
(* to running (ui.go:277).  A filter is excepted, under which the copy of  *)
(* the selection may be stale (ui.go:267, 398).                            *)
StatusShown ==
    loop = "up" /\ notified /\ ~filtered =>
        /\ View.screen = "main"
        /\ View.status = (IF revived # {} THEN "running"
                          ELSE IF err = NoError THEN "done" ELSE "failed")
        /\ Names(View.list) = {s \in Step : sent[s] # "none"}
        /\ \A i \in DOMAIN View.list : View.list[i].status = Shown(View.list[i].name)
        /\ revived # {} => options.goroutines

(* A run whose steps end comes to its end, or has told the user interface  *)
(* so and waits for the user to leave it: if no step was started, nobody   *)
(* would see that, and it does not wait (output.go:104-110, ui.go:224).    *)
Ends == <>(exit # "running" \/ (notified /\ loop = "up" /\ items # <<>>))

=============================================================================
