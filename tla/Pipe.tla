-------------------------------- MODULE Pipe --------------------------------
(***************************************************************************)
(* The `pipe` step (internal/processor/pipe.go) over container stages as   *)
(* the docker driver runs them (internal/runtime/docker.go).               *)
(*                                                                         *)
(* Stage i writes to io.Pipe i and stage i+1 reads from it; an io.Pipe has *)
(* no buffer, a chunk passes when writer and reader meet.  A stage that    *)
(* runs has a program and two copy goroutines, one from its standard       *)
(* output into the pipe, one from the pipe to its standard input, and its  *)
(* chain returns when all three are through or its context has ended.      *)
(* In place of a stage that its `if` skips the collector of the results    *)
(* copies from pipe i-1 to pipe i, and receives no result meanwhile.       *)
(***************************************************************************)
EXTENDS Naturals, Sequences, FiniteSets

CONSTANTS Stages,       \* number of referenced steps
          Chunks,       \* how many chunks a program writes at most
          Settings      \* the pipelines and pools to look at

Stage == 1..Stages

(* A setting says which stages have a false `if` (skipped) or allowFailure *)
(* (allowed), which run a program that reads all its input and succeeds    *)
(* (filters), the capacity of the pool of MaxConcurrent (pool), whether    *)
(* the context above may end (interrupts) and whether there is a stage     *)
(* whose chain cannot be built (broken).                                   *)
ASSUME PipeAssumption ==
    /\ Stages \in Nat \ {0}
    /\ Chunks \in Nat
    /\ Settings \subseteq [skipped : SUBSET Stage, allowed : SUBSET Stage,
                          filters : SUBSET Stage, pool : 1..Stages,
                          interrupts : BOOLEAN, broken : BOOLEAN]

VARIABLES
    setting,    \* one of Settings
    pc,         \* the collector: "spawn", "collect", "copy", "next", "returned"
    spawned,    \* stages whose goroutine was started
    stage,      \* "none", "queued", "up", "sending", "received"
    program,    \* "none", "up", "ok", "failed"
    wrote,      \* chunks that the program has written
    got,        \* chunks handed to the program's standard input
    outCopy,    \* "idle", "write" (blocked in the pipe), "done", "failed"
    inCopy,     \* "none", "read", "stray" (left behind), "done", "failed";
                \* "nil", a reader that is a nil pointer
    verdict,    \* what the chain of the stage returned
    wclosed,    \* pipes whose writer is closed
    shut,       \* the collector closed both ends of every pipe
    copying,    \* the skipped stage the collector copies for, 0 for none
    holding,    \* it has read a chunk and is blocked writing it
    pool,       \* tokens in the pool
    cancelled,  \* the deferred cancel was called before the parent ended
    parent,     \* Err() of the context above: "none", "canceled", "deadline"
    errs,       \* errors to join, by stage
    outcome     \* "running", "next", "failed", "broken"

collectorVars == <<pc, spawned, copying, holding, errs, outcome>>
vars == <<setting, collectorVars, stage, program, wrote, got, outCopy, inCopy,
          verdict, wclosed, shut, pool, cancelled, parent>>

Soft == {"ok", "soft", "skipped"}
Hard == {"hard", "canceled"}

Skipped == setting.skipped
AllowFailure == setting.allowed
Filters == setting.filters
PoolSize == setting.pool

Init ==
    /\ setting \in Settings
    /\ pc = "spawn"
    /\ spawned = 0
    /\ stage = [i \in Stage |-> "none"]
    /\ program = [i \in Stage |-> "none"]
    /\ wrote = [i \in Stage |-> 0]
    /\ got = [i \in Stage |-> 0]
    /\ outCopy = [i \in Stage |-> "idle"]
    /\ inCopy = [i \in Stage |-> "none"]
    /\ verdict = [i \in Stage |-> "none"]
    /\ wclosed = {}
    /\ shut = FALSE
    /\ copying = 0
    /\ holding = FALSE
    /\ pool = 0
    /\ cancelled = FALSE
    /\ parent = "none"
    /\ errs = <<>>
    /\ outcome = "running"

Cancelled == cancelled \/ parent # "none"
\* cancelCtx.Err() is context.Canceled, and an error is kept: results are not
\* looked at any more.  A deadline that came first is no cancellation here.
Ignoring == (cancelled \/ parent = "canceled") /\ errs # <<>>

\* What AllowFailure makes of an error of stage i.
Allowed(i, r) == IF i \in AllowFailure THEN "soft" ELSE r

-----------------------------------------------------------------------------
(* The stages.                                                             *)

\* The `if` of the stage is false; its writer stays open.
Skip(i) ==
    /\ stage[i] = "queued"
    /\ i \in Skipped
    /\ stage' = [stage EXCEPT ![i] = "sending"]
    /\ verdict' = [verdict EXCEPT ![i] = "skipped"]
    /\ UNCHANGED <<setting, collectorVars, program, wrote, got, outCopy,
                   inCopy, wclosed, shut, pool, cancelled, parent>>

\* A token of the pool is free and CreatePod starts the container; the first
\* stage reads nothing.  But the last stage is given the reader of the stage
\* before it without a test for there being one: the stage of a pipe of one
\* has a nil pointer for its standard input, and the goroutine that reads it
\* takes the process down.
Start(i) ==
    /\ stage[i] = "queued"
    /\ i \notin Skipped
    /\ pool < PoolSize
    /\ pool' = pool + 1
    /\ stage' = [stage EXCEPT ![i] = "up"]
    /\ program' = [program EXCEPT ![i] = "up"]
    /\ inCopy' = [inCopy EXCEPT ![i] = CASE i > 1 -> "read"
                                           [] i = 1 /\ i < Stages -> "none"
                                           [] OTHER -> "nil"]
    /\ UNCHANGED <<setting, collectorVars, wrote, got, outCopy, verdict,
                   wclosed, shut, cancelled, parent>>

\* A token is taken but there is no container: CreatePod fails, or finds the
\* context cancelled.  Writer and token go with the return of the chain.
StartFails(i) ==
    /\ stage[i] = "queued"
    /\ i \notin Skipped
    /\ i \notin Filters \/ Cancelled
    /\ pool < PoolSize
    /\ stage' = [stage EXCEPT ![i] = "sending"]
    /\ verdict' = [verdict EXCEPT ![i] =
                      Allowed(i, IF Cancelled THEN "canceled" ELSE "hard")]
    /\ wclosed' = wclosed \cup ({i} \ {Stages})
    /\ UNCHANGED <<setting, collectorVars, program, wrote, got, outCopy,
                   inCopy, shut, pool, cancelled, parent>>

\* The program writes a chunk; in the last stage it leaves the pipe at once.
Write(i) ==
    /\ program[i] = "up"
    /\ outCopy[i] = "idle"
    /\ wrote[i] < Chunks
    /\ i < Stages
    /\ wrote' = [wrote EXCEPT ![i] = @ + 1]
    /\ outCopy' = [outCopy EXCEPT ![i] = "write"]
    /\ UNCHANGED <<setting, collectorVars, stage, program, got, inCopy,
                   verdict, wclosed, shut, pool, cancelled, parent>>

\* The program ends.  A filter ends well, after the end of its input.
Exit(i, code) ==
    /\ program[i] = "up"
    /\ i \in Filters => code = "ok" /\ inCopy[i] \notin {"read", "stray"}
    /\ program' = [program EXCEPT ![i] = code]
    /\ UNCHANGED <<setting, collectorVars, stage, wrote, got, outCopy, inCopy,
                   verdict, wclosed, shut, pool, cancelled, parent>>

\* StdCopy sees the end of the output, or its write fails on a closed pipe.
OutCopyEnds(i) ==
    /\ \/ /\ outCopy[i] = "idle"
          /\ program[i] \in {"ok", "failed"}
          /\ outCopy' = [outCopy EXCEPT ![i] = "done"]
       \/ /\ outCopy[i] = "write"
          /\ shut
          /\ outCopy' = [outCopy EXCEPT ![i] = "failed"]
    /\ UNCHANGED <<setting, collectorVars, stage, program, wrote, got, inCopy,
                   verdict, wclosed, shut, pool, cancelled, parent>>

\* A chunk is waiting in pipe p: a copy goroutine or the collector offers it.
Offered(p) ==
    ~shut /\ (outCopy[p] = "write" \/ (copying = p /\ holding))

\* The reader of stage i takes the chunk and hands it to the connection of
\* the container.  With no program behind it any more that may fail.
Read(i) ==
    /\ inCopy[i] \in {"read", "stray"}
    /\ Offered(i - 1)
    /\ outCopy' = IF outCopy[i - 1] = "write"
                  THEN [outCopy EXCEPT ![i - 1] = "idle"] ELSE outCopy
    /\ holding' = (holding /\ copying # i - 1)
    /\ \/ /\ inCopy[i] = "read"
          /\ got' = [got EXCEPT ![i] = @ + 1]
          /\ inCopy' = inCopy
       \/ /\ inCopy[i] = "stray" \/ program[i] \in {"ok", "failed"}
          /\ got' = got
          /\ inCopy' = [inCopy EXCEPT ![i] = "failed"]
    /\ UNCHANGED <<setting, pc, spawned, copying, errs, outcome, stage,
                   program, wrote, verdict, wclosed, shut, pool, cancelled,
                   parent>>

\* The reader sees the end of its input, or ErrClosedPipe, which is no error.
ReadEnds(i) ==
    /\ inCopy[i] \in {"read", "stray"}
    /\ shut \/ i - 1 \in wclosed
    /\ inCopy' = [inCopy EXCEPT ![i] = "done"]
    /\ UNCHANGED <<setting, collectorVars, stage, program, wrote, got, outCopy,
                   verdict, wclosed, shut, pool, cancelled, parent>>

\* Mutant: the writer stays open when the error does not abort.
ReturnKeepsWriter(i) ==
    /\ stage[i] = "up"
    /\ program[i] \in {"ok", "failed"}
    /\ outCopy[i] \in {"done", "failed"}
    /\ inCopy[i] \in {"none", "done", "failed"}
    /\ LET failed == program[i] = "failed" \/ outCopy[i] = "failed"
                     \/ inCopy[i] = "failed"
           r == IF failed THEN Allowed(i, "hard") ELSE "ok"
       IN /\ verdict' = [verdict EXCEPT ![i] = r]
          /\ wclosed' = IF r = "soft" THEN wclosed ELSE wclosed \cup ({i} \ {Stages})
    /\ stage' = [stage EXCEPT ![i] = "sending"]
    /\ pool' = pool - 1
    /\ UNCHANGED <<setting, collectorVars, program, wrote, got, outCopy,
                   inCopy, shut, cancelled, parent>>

\* Program and copies are through: Wait returns their first error, the chain
\* gives the token back and the goroutine of the stage closes the writer.
Return(i) ==
    /\ stage[i] = "up"
    /\ program[i] \in {"ok", "failed"}
    /\ outCopy[i] \in {"done", "failed"}
    /\ inCopy[i] \in {"none", "done", "failed"}
    /\ verdict' = [verdict EXCEPT ![i] =
                      IF program[i] = "failed" \/ outCopy[i] = "failed"
                         \/ inCopy[i] = "failed"
                      THEN Allowed(i, "hard") ELSE "ok"]
    /\ stage' = [stage EXCEPT ![i] = "sending"]
    /\ wclosed' = wclosed \cup ({i} \ {Stages})
    /\ pool' = pool - 1
    /\ UNCHANGED <<setting, collectorVars, program, wrote, got, outCopy,
                   inCopy, shut, cancelled, parent>>

\* Wait sees ctx.Done() first: the chain returns and leaves the goroutines
\* behind, on a closed connection.
ReturnCancelled(i) ==
    /\ stage[i] = "up"
    /\ Cancelled
    /\ verdict' = [verdict EXCEPT ![i] = Allowed(i, "canceled")]
    /\ stage' = [stage EXCEPT ![i] = "sending"]
    /\ program' = [program EXCEPT ![i] = IF @ = "up" THEN "failed" ELSE @]
    /\ outCopy' = [outCopy EXCEPT ![i] = "done"]
    /\ inCopy' = [inCopy EXCEPT ![i] = IF @ = "read" THEN "stray" ELSE @]
    /\ wclosed' = wclosed \cup ({i} \ {Stages})
    /\ pool' = pool - 1
    /\ UNCHANGED <<setting, collectorVars, wrote, got, shut, cancelled,
                   parent>>

-----------------------------------------------------------------------------
(* The collector.                                                          *)

\* The chain of a stage cannot be built: no stage is started.
EntrypointFails ==
    /\ pc = "spawn"
    /\ setting.broken
    /\ pc' = "returned"
    /\ outcome' = "broken"
    /\ UNCHANGED <<setting, spawned, copying, holding, errs, stage, program,
                   wrote, got, outCopy, inCopy, verdict, wclosed, shut, pool,
                   cancelled, parent>>

\* All chains are built, and the goroutine of the next stage is started.
Spawn ==
    /\ pc = "spawn"
    /\ ~setting.broken
    /\ spawned' = spawned + 1
    /\ stage' = [stage EXCEPT ![spawned + 1] = "queued"]
    /\ pc' = IF spawned + 1 = Stages THEN "collect" ELSE "spawn"
    /\ UNCHANGED <<setting, copying, holding, errs, outcome, program, wrote,
                   got, outCopy, inCopy, verdict, wclosed, shut, pool,
                   cancelled, parent>>

\* The loop ends with the last result; on a failure the deferred cancel runs.
Conclude(last, failed) ==
    IF last
    THEN /\ pc' = IF failed THEN "returned" ELSE "next"
         /\ outcome' = IF failed THEN "failed" ELSE "next"
    ELSE UNCHANGED <<pc, outcome>>

\* Whether stage i has the last result to be received.
IsLast(i) == \A j \in Stage \ {i} : stage[j] = "received"

\* Mutant: the first failure is returned at once.
ReceiveReturnsEarly(i) ==
    LET fails == ~Ignoring /\ verdict[i] \in Hard IN
    /\ pc = "collect"
    /\ stage[i] = "sending"
    /\ verdict[i] # "skipped" \/ Ignoring
    /\ stage' = [stage EXCEPT ![i] = "received"]
    /\ errs' = IF fails THEN Append(errs, i) ELSE errs
    /\ cancelled' = (cancelled \/ (fails /\ parent = "none"))
    /\ shut' = (shut \/ fails)
    /\ wclosed' = IF Ignoring THEN wclosed ELSE wclosed \cup ({i} \ {Stages})
    /\ Conclude(fails \/ IsLast(i), errs' # <<>>)
    /\ UNCHANGED <<setting, spawned, copying, holding, program, wrote, got,
                   outCopy, inCopy, verdict, pool, parent>>

\* Mutant: the last stage is taken to have a writer, too.
ReceiveClosesLast(i) ==
    LET fails == ~Ignoring /\ verdict[i] \in Hard IN
    /\ pc = "collect"
    /\ stage[i] = "sending"
    /\ verdict[i] # "skipped" \/ Ignoring
    /\ stage' = [stage EXCEPT ![i] = "received"]
    /\ errs' = IF fails THEN Append(errs, i) ELSE errs
    /\ cancelled' = (cancelled \/ (fails /\ parent = "none"))
    /\ shut' = (shut \/ fails)
    /\ wclosed' = IF Ignoring THEN wclosed ELSE wclosed \cup {i}
    /\ Conclude(IsLast(i), errs' # <<>>)
    /\ UNCHANGED <<setting, spawned, copying, holding, program, wrote, got,
                   outCopy, inCopy, verdict, pool, parent>>

\* A result that is no skip is received.  An aborting error cancels the other
\* stages and closes both ends of every pipe; once that has happened no result
\* is looked at any more, unless it was the deadline that ended cancelCtx.
Receive(i) ==
    LET fails == ~Ignoring /\ verdict[i] \in Hard IN
    /\ pc = "collect"
    /\ stage[i] = "sending"
    /\ verdict[i] # "skipped" \/ Ignoring
    /\ stage' = [stage EXCEPT ![i] = "received"]
    /\ errs' = IF fails THEN Append(errs, i) ELSE errs
    /\ cancelled' = (cancelled \/ (fails /\ parent = "none"))
    /\ shut' = (shut \/ fails)
    /\ wclosed' = IF Ignoring THEN wclosed ELSE wclosed \cup ({i} \ {Stages})
    /\ Conclude(IsLast(i), errs' # <<>>)
    /\ UNCHANGED <<setting, spawned, copying, holding, program, wrote, got,
                   outCopy, inCopy, verdict, pool, parent>>

\* A skip is received.  Between two pipes the collector starts to copy; the
\* first stage has nothing to read from, the last nowhere to write to.
ReceiveSkip(i) ==
    /\ pc = "collect"
    /\ stage[i] = "sending"
    /\ verdict[i] = "skipped"
    /\ ~shut
    /\ stage' = [stage EXCEPT ![i] = "received"]
    /\ IF i \in 2..(Stages - 1)
       THEN /\ pc' = "copy"
            /\ copying' = i
            /\ UNCHANGED <<outcome, wclosed>>
       ELSE /\ wclosed' = wclosed \cup ({i} \ {Stages})
            /\ Conclude(IsLast(i), errs # <<>>)
            /\ UNCHANGED copying
    /\ UNCHANGED <<setting, spawned, holding, errs, program, wrote, got,
                   outCopy, inCopy, verdict, shut, pool, cancelled, parent>>

\* A skip is received after a failure, the deadline having ended cancelCtx:
\* the pipes are closed and the copy between two of them fails at once.
ReceiveSkipShut(i) ==
    /\ pc = "collect"
    /\ stage[i] = "sending"
    /\ verdict[i] = "skipped"
    /\ shut
    /\ ~Ignoring
    /\ stage' = [stage EXCEPT ![i] = "received"]
    /\ errs' = IF i \in 2..(Stages - 1) THEN Append(errs, i) ELSE errs
    /\ Conclude(IsLast(i), TRUE)
    /\ UNCHANGED <<setting, spawned, copying, holding, program, wrote, got,
                   outCopy, inCopy, verdict, wclosed, shut, pool, cancelled,
                   parent>>

\* io.Copy reads a chunk of the stage before the skipped one.
CopyRead ==
    /\ pc = "copy"
    /\ ~holding
    /\ outCopy[copying - 1] = "write"
    /\ outCopy' = [outCopy EXCEPT ![copying - 1] = "idle"]
    /\ holding' = TRUE
    /\ UNCHANGED <<setting, pc, spawned, copying, errs, outcome, stage,
                   program, wrote, got, inCopy, verdict, wclosed, shut, pool,
                   cancelled, parent>>

\* Mutant: the end of the input ends the copy with a chunk still to write.
CopyEndsUnflushed ==
    /\ pc = "copy"
    /\ copying - 1 \in wclosed
    /\ wclosed' = wclosed \cup {copying}
    /\ copying' = 0
    /\ IF \A j \in Stage : stage[j] = "received"
       THEN Conclude(TRUE, errs # <<>>)
       ELSE pc' = "collect" /\ UNCHANGED outcome
    /\ UNCHANGED <<setting, spawned, holding, errs, stage, program, wrote, got,
                   outCopy, inCopy, verdict, shut, pool, cancelled, parent>>

\* io.Copy sees EOF and the writer of the skipped stage is closed.  Once it
\* has begun it does not fail: nobody but the collector closes a reader.
CopyEnds ==
    /\ pc = "copy"
    /\ ~holding
    /\ copying - 1 \in wclosed
    /\ wclosed' = wclosed \cup {copying}
    /\ copying' = 0
    /\ IF \A j \in Stage : stage[j] = "received"
       THEN Conclude(TRUE, errs # <<>>)
       ELSE pc' = "collect" /\ UNCHANGED outcome
    /\ UNCHANGED <<setting, spawned, holding, errs, stage, program, wrote, got,
                   outCopy, inCopy, verdict, shut, pool, cancelled, parent>>

CallNext ==
    /\ pc = "next"
    /\ pc' = "returned"
    /\ UNCHANGED <<setting, spawned, copying, holding, errs, outcome, stage,
                   program, wrote, got, outCopy, inCopy, verdict, wclosed,
                   shut, pool, cancelled, parent>>

(* The context of the caller ends: cancelled by a signal or an outer       *)
(* failure, or by the deadline of the run's timeout.                       *)
ParentEnds(reason) ==
    /\ setting.interrupts
    /\ parent = "none"
    /\ outcome = "running"
    /\ parent' = reason
    /\ UNCHANGED <<setting, collectorVars, stage, program, wrote, got, outCopy,
                   inCopy, verdict, wclosed, shut, pool, cancelled>>

Reason == {"canceled", "deadline"}
CancelParent == ParentEnds("canceled")
ParentExpires == ParentEnds("deadline")

Collector ==
    \/ EntrypointFails
    \/ Spawn
    \/ \E i \in Stage : Receive(i) \/ ReceiveSkip(i) \/ ReceiveSkipShut(i)
    \/ CopyRead
    \/ CopyEnds
    \/ CallNext

\* What a stage does without the help of its program.
Machinery(i) ==
    \/ Skip(i)
    \/ OutCopyEnds(i)
    \/ i > 1 /\ (Read(i) \/ ReadEnds(i))
    \/ Return(i)
    \/ ReturnCancelled(i)

Admitted(i) == Start(i) \/ StartFails(i)

Next ==
    \/ Collector
    \/ \E i \in Stage :
           \/ Machinery(i)
           \/ Admitted(i)
           \/ Write(i)
           \/ \E code \in {"ok", "failed"} : Exit(i, code)
    \/ CancelParent
    \/ ParentExpires

(* Goroutines run; blocked senders of the pool are served in turn; and a   *)
(* program whose input has ended ends, whatever it writes before.          *)
InputEnded(i) == inCopy[i] \notin {"read", "stray"}
Fairness ==
    /\ WF_vars(Collector)
    /\ \A i \in Stage :
           /\ WF_vars(Machinery(i))
           /\ SF_vars(Admitted(i))
           /\ WF_vars(InputEnded(i) /\ \E code \in {"ok", "failed"} : Exit(i, code))

Spec == Init /\ [][Next]_vars
FairSpec == Spec /\ Fairness

-----------------------------------------------------------------------------
(* Properties.                                                             *)

TypeOK ==
    /\ setting \in Settings
    /\ pc \in {"spawn", "collect", "copy", "next", "returned"}
    /\ spawned \in 0..Stages
    /\ stage \in [Stage -> {"none", "queued", "up", "sending", "received"}]
    /\ program \in [Stage -> {"none", "up", "ok", "failed"}]
    /\ wrote \in [Stage -> 0..Chunks]
    /\ got \in [Stage -> 0..Chunks]
    /\ outCopy \in [Stage -> {"idle", "write", "done", "failed"}]
    /\ inCopy \in [Stage -> {"none", "nil", "read", "stray", "done", "failed"}]
    /\ verdict \in [Stage -> {"none"} \cup Soft \cup Hard]
    /\ wclosed \subseteq 1..(Stages - 1)
    /\ shut \in BOOLEAN /\ holding \in BOOLEAN
    /\ cancelled \in BOOLEAN /\ parent \in {"none"} \cup Reason
    /\ copying \in 0..Stages
    /\ pool \in 0..PoolSize
    /\ errs \in Seq(Stage)
    /\ outcome \in {"running", "next", "failed", "broken"}

(* The stage whose output stage i reads: the nearest one before it that is *)
(* not skipped, 0 if there is none.                                        *)
Source(i) ==
    LET before == {j \in 1..(i - 1) : j \notin Skipped}
    IN IF before = {} THEN 0 ELSE CHOOSE j \in before : \A k \in before : k <= j

(* A pipe that succeeds has lost nothing: every stage that succeeded was   *)
(* handed each chunk that its source wrote, through skipped stages too and *)
(* although nobody waits for the reader before the writer is closed.  (A   *)
(* stage with allowFailure that is cancelled does lose what it wrote.)     *)
NoDataLost ==
    outcome = "next" /\ parent = "none" =>
        \A i \in Stage : verdict[i] = "ok" /\ i > 1 =>
            got[i] = IF Source(i) = 0 THEN 0 ELSE wrote[Source(i)]

(* Where a pipe can hang.  A stage waits for a token that the others keep; *)
(* or its result waits for a collector that copies.                        *)
NoToken(i) == stage[i] = "queued" /\ pool = PoolSize
Unheard(i) == stage[i] = "sending" /\ pc = "copy"

\* A writer of pipe p is blocked: the reader has ended with an error that does
\* not abort, or that the collector cannot hear of, or has not begun.
WriterBlocked(p) ==
    /\ Offered(p)
    /\ verdict[p + 1] = "soft" \/ Unheard(p + 1) \/ NoToken(p + 1)

\* A reader of pipe p is blocked: the stage that writes is skipped and the
\* collector cannot hear of it, or has not begun.
ReaderBlocked(p) ==
    /\ p \notin wclosed
    /\ inCopy[p + 1] = "read" \/ copying = p + 1
    /\ (verdict[p] = "skipped" /\ Unheard(p)) \/ NoToken(p)

Blocked ==
    \/ inCopy[1] = "nil"
    \/ \E p \in 1..(Stages - 1) : WriterBlocked(p) \/ ReaderBlocked(p)

(* The pipe returns, or for ever one of its stages is blocked in one of    *)
(* the ways named above.  No other order of ends, failures, skips and      *)
(* cancellations leaves a stage on a pipe that nobody serves any more.     *)
Terminates == <>(pc = "returned") \/ <>[]Blocked

(* The pipe is a composite step whose children are the stages.             *)
Pipes == {"pipe"}
begunBar == [v \in Pipes |-> {i \in Stage : stage[i] # "none"}]
endedBar == [v \in Pipes |-> [i \in Stage |->
                IF stage[i] # "received" \/ i = copying THEN "none"
                ELSE IF verdict[i] = "skipped" THEN "soft" ELSE verdict[i]]]
Composite == INSTANCE CompositeStep WITH
                 Invocation <- Pipes, Child <- Stage, begun <- begunBar,
                 ended <- endedBar, outcome <- [v \in Pipes |-> outcome]

(* The pipe keeps the promise of a composite step.                         *)
ImplementsComposite == Composite!CompositeSpec

(* What pipe.go:131 says: "If one pipe step is skipped instead aborting    *)
(* the pipe the streams from the previous step are passed to the next      *)
(* after the skipped one".  The next step sees the end of what the         *)
(* previous one wrote.                                                     *)
StreamsPassedOn ==
    \A i \in Stage :
        i > 1 /\ stage[i] = "up" ~> stage[i] # "up" \/ InputEnded(i)

=============================================================================
