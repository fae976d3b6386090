----------------------------- MODULE Concurrent -----------------------------
(***************************************************************************)
(* The `concurrent` step (internal/processor/concurrent.go).               *)
(*                                                                         *)
(* An invocation starts one goroutine per referenced step and then         *)
(* collects their results over an unbuffered channel.  The channel `pool`  *)
(* that bounds the goroutines belongs to the step, not to the invocation:  *)
(* two invocations of the same step (two parents that both reference it)   *)
(* share it.  The context of an invocation ends by its collector (fail-    *)
(* fast), by its return (defer cancel()), or from above: with Canceled     *)
(* for a signal, with DeadlineExceeded for the run's timeout.              *)
(***************************************************************************)
EXTENDS Naturals, Sequences, FiniteSets

CONSTANTS Invocation,     \* concurrent invocations of the step
          Refs,           \* how many steps it references
          MaxConcurrent,  \* cap of the pool; 0 is no pool
          FailFast,       \* spec.concurrent.failFast
          Broken          \* references of which the chain of some cannot be built

Child == 1..Refs
Goroutine == Invocation \X Child

ASSUME ConcurrentAssumption ==
    /\ IsFiniteSet(Invocation)
    /\ Refs \in Nat \ {0}
    /\ MaxConcurrent \in Nat
    /\ FailFast \in BOOLEAN
    /\ Broken \subseteq Child

VARIABLES
    broken,     \* the references whose chain cannot be built
    pc,         \* the collector: "spawn", "collect", "next", "returned"
    spawned,    \* how many references its loop has started
    goroutine,  \* "none", "queued", "running", "sending", "sent", "gone"
    verdict,    \* what next() of the child returned
    pool,       \* tokens in the channel s.pool
    cause,      \* cancelCtx.Err() of the invocation: "none", "canceled", "deadline"
    parent,     \* the Err() of the context above all invocations
    done,       \* results received
    steps,      \* the children recorded in the invocation's ctx.Steps
    errs,       \* the errors to join, by child
    outcome     \* "running", "next", "failed", "broken"

vars == <<broken, pc, spawned, goroutine, verdict, pool, cause, parent, done,
          steps, errs, outcome>>

Soft == {"ok", "soft"}
Hard == {"hard", "canceled"}

Init ==
    /\ broken \in SUBSET Broken
    /\ pc = [v \in Invocation |-> "spawn"]
    /\ spawned = [v \in Invocation |-> 0]
    /\ goroutine = [g \in Goroutine |-> "none"]
    /\ verdict = [g \in Goroutine |-> "none"]
    /\ pool = 0
    /\ cause = [v \in Invocation |-> "none"]
    /\ parent = "none"
    /\ done = [v \in Invocation |-> 0]
    /\ steps = [v \in Invocation |-> {}]
    /\ errs = [v \in Invocation |-> <<>>]
    /\ outcome = [v \in Invocation |-> "running"]

(* Why contexts end; a context keeps the first reason.                     *)
Cause == {"canceled", "deadline"}
Ended(e, reason) == IF e = "none" THEN reason ELSE e

(* cancelCtx.Err() == context.Canceled, which the collector compares with. *)
Cancelled(v) == cause[v] = "canceled"

-----------------------------------------------------------------------------
(* The collector.                                                          *)

\* Mutant: the child runs without waiting for a token.
SpawnWithoutToken(v) ==
    LET c == spawned[v] + 1 IN
    /\ pc[v] = "spawn"
    /\ c \notin broken
    /\ goroutine' = [goroutine EXCEPT ![<<v, c>>] = "running"]
    /\ spawned' = [spawned EXCEPT ![v] = c]
    /\ pc' = [pc EXCEPT ![v] = IF c = Refs THEN "collect" ELSE "spawn"]
    /\ UNCHANGED <<broken, verdict, pool, cause, parent, done, steps, errs, outcome>>

\* The loop that starts the goroutines: one turn of it.
Spawn(v) ==
    LET c == spawned[v] + 1 IN
    /\ pc[v] = "spawn"
    /\ c \notin broken
    /\ goroutine' = [goroutine EXCEPT ![<<v, c>>] =
                        IF MaxConcurrent > 0 THEN "queued" ELSE "running"]
    /\ spawned' = [spawned EXCEPT ![v] = c]
    /\ pc' = [pc EXCEPT ![v] = IF c = Refs THEN "collect" ELSE "spawn"]
    /\ UNCHANGED <<broken, verdict, pool, cause, parent, done, steps, errs, outcome>>

\* step.Entrypoint() fails: return at once, the goroutines already started
\* are left behind with nobody to receive their results.
EntrypointFails(v) ==
    /\ pc[v] = "spawn"
    /\ spawned[v] + 1 \in broken
    /\ pc' = [pc EXCEPT ![v] = "returned"]
    /\ cause' = [cause EXCEPT ![v] = Ended(@, "canceled")]
    /\ outcome' = [outcome EXCEPT ![v] = "broken"]
    /\ UNCHANGED <<broken, spawned, goroutine, verdict, pool, parent, done, steps, errs>>

\* Mutant: every result that arrives after a cancellation is ignored.
ErrsIgnoredOnCancel(v, c) ==
    IF Cancelled(v) THEN errs[v]
    ELSE IF verdict[<<v, c>>] \in Hard THEN Append(errs[v], c)
    ELSE errs[v]

\* Mutant: an error is dropped whatever ended the context.
ErrsDroppedOnDeadline(v, c) ==
    IF cause[v] # "none" /\ errs[v] # <<>> THEN errs[v]
    ELSE IF verdict[<<v, c>>] \in Hard THEN Append(errs[v], c)
    ELSE errs[v]

\* Mutant: only the first error is kept.
ErrsFirstOnly(v, c) ==
    IF errs[v] = <<>> /\ verdict[<<v, c>>] \in Hard THEN <<c>> ELSE errs[v]

\* The errors after the result of child c has been looked at: dropped once
\* the context is cancelled and an error is known, else kept if it aborts.
\* A deadline is no cancellation here: Err() is not context.Canceled then.
ErrsAfter(v, c) ==
    IF Cancelled(v) /\ errs[v] # <<>> THEN errs[v]
    ELSE IF verdict[<<v, c>>] \in Hard THEN Append(errs[v], c)
    ELSE errs[v]

\* Mutant: fail-fast cancels on an error that does not abort, too.
CollectCancelsOnSoft(v, c) ==
    LET last == done[v] + 1 = Refs
        failed == ErrsAfter(v, c) # <<>>
    IN
    /\ pc[v] = "collect"
    /\ goroutine[<<v, c>>] = "sending"
    /\ goroutine' = [goroutine EXCEPT ![<<v, c>>] = "sent"]
    /\ done' = [done EXCEPT ![v] = @ + 1]
    /\ steps' = [steps EXCEPT ![v] = @ \cup {c}]
    /\ errs' = [errs EXCEPT ![v] = ErrsAfter(v, c)]
    /\ cause' = [cause EXCEPT ![v] =
                    IF (FailFast /\ verdict[<<v, c>>] # "ok") \/ (last /\ failed)
                    THEN Ended(@, "canceled") ELSE @]
    /\ pc' = [pc EXCEPT ![v] = IF ~last THEN "collect"
                               ELSE IF failed THEN "returned" ELSE "next"]
    /\ outcome' = [outcome EXCEPT ![v] = IF ~last THEN @
                                         ELSE IF failed THEN "failed" ELSE "next"]
    /\ UNCHANGED <<broken, spawned, verdict, pool, parent>>

\* Mutant: fail-fast returns with the first error and waits for nobody.
CollectReturnsEarly(v, c) ==
    LET failed == ErrsAfter(v, c) # <<>>
        last == done[v] + 1 = Refs \/ (FailFast /\ failed)
    IN
    /\ pc[v] = "collect"
    /\ goroutine[<<v, c>>] = "sending"
    /\ goroutine' = [goroutine EXCEPT ![<<v, c>>] = "sent"]
    /\ done' = [done EXCEPT ![v] = @ + 1]
    /\ steps' = [steps EXCEPT ![v] = @ \cup {c}]
    /\ errs' = [errs EXCEPT ![v] = ErrsAfter(v, c)]
    /\ cause' = [cause EXCEPT ![v] =
                    IF last /\ failed THEN Ended(@, "canceled") ELSE @]
    /\ pc' = [pc EXCEPT ![v] = IF ~last THEN "collect"
                               ELSE IF failed THEN "returned" ELSE "next"]
    /\ outcome' = [outcome EXCEPT ![v] = IF ~last THEN @
                                         ELSE IF failed THEN "failed" ELSE "next"]
    /\ UNCHANGED <<broken, spawned, verdict, pool, parent>>

\* One result is received; the sender is released by the rendezvous and the
\* last result ends the loop.
Collect(v, c) ==
    LET last == done[v] + 1 = Refs
        failed == ErrsAfter(v, c) # <<>>
    IN
    /\ pc[v] = "collect"
    /\ goroutine[<<v, c>>] = "sending"
    /\ goroutine' = [goroutine EXCEPT ![<<v, c>>] = "sent"]
    /\ done' = [done EXCEPT ![v] = @ + 1]
    /\ steps' = [steps EXCEPT ![v] = @ \cup {c}]
    /\ errs' = [errs EXCEPT ![v] = ErrsAfter(v, c)]
    /\ cause' = [cause EXCEPT ![v] =
                    IF (FailFast /\ ErrsAfter(v, c) # errs[v]) \/ (last /\ failed)
                    THEN Ended(@, "canceled") ELSE @]
    /\ pc' = [pc EXCEPT ![v] = IF ~last THEN "collect"
                               ELSE IF failed THEN "returned" ELSE "next"]
    /\ outcome' = [outcome EXCEPT ![v] = IF ~last THEN @
                                         ELSE IF failed THEN "failed" ELSE "next"]
    /\ UNCHANGED <<broken, spawned, verdict, pool, parent>>

\* return next(ctx): the rest of the chain, then the deferred cancel().
CallNext(v) ==
    /\ pc[v] = "next"
    /\ pc' = [pc EXCEPT ![v] = "returned"]
    /\ cause' = [cause EXCEPT ![v] = Ended(@, "canceled")]
    /\ UNCHANGED <<broken, spawned, goroutine, verdict, pool, parent, done, steps,
                   errs, outcome>>

-----------------------------------------------------------------------------
(* The goroutines.                                                         *)

\* Mutant: the pool has room for one more than maxConcurrent.
AcquireOneMore(g) ==
    /\ goroutine[g] = "queued"
    /\ pool <= MaxConcurrent
    /\ pool' = pool + 1
    /\ goroutine' = [goroutine EXCEPT ![g] = "running"]
    /\ UNCHANGED <<broken, pc, spawned, verdict, cause, parent, done, steps, errs,
                   outcome>>

\* s.pool <- struct{}{} has room.  Nothing looks at the context here.
Acquire(g) ==
    /\ goroutine[g] = "queued"
    /\ pool < MaxConcurrent
    /\ pool' = pool + 1
    /\ goroutine' = [goroutine EXCEPT ![g] = "running"]
    /\ UNCHANGED <<broken, pc, spawned, verdict, cause, parent, done, steps, errs,
                   outcome>>

\* next(copyCtx) returns; only a context that ended explains its own error.
Finish(g, r) ==
    /\ goroutine[g] = "running"
    /\ r = "canceled" => cause[g[1]] # "none"
    /\ goroutine' = [goroutine EXCEPT ![g] = "sending"]
    /\ verdict' = [verdict EXCEPT ![g] = r]
    /\ UNCHANGED <<broken, pc, spawned, pool, cause, parent, done, steps, errs,
                   outcome>>

\* Mutant: a child that was cancelled keeps its token.
ReleaseKeepsToken(g) ==
    /\ goroutine[g] = "sent"
    /\ goroutine' = [goroutine EXCEPT ![g] = "gone"]
    /\ pool' = IF MaxConcurrent > 0 /\ verdict[g] # "canceled" THEN pool - 1 ELSE pool
    /\ UNCHANGED <<broken, pc, spawned, verdict, cause, parent, done, steps, errs,
                   outcome>>

\* The deferred <-s.pool, after the result was handed over.
Release(g) ==
    /\ goroutine[g] = "sent"
    /\ goroutine' = [goroutine EXCEPT ![g] = "gone"]
    /\ pool' = IF MaxConcurrent > 0 THEN pool - 1 ELSE pool
    /\ UNCHANGED <<broken, pc, spawned, verdict, cause, parent, done, steps, errs,
                   outcome>>

-----------------------------------------------------------------------------
(* The context above ends and every invocation whose context is still      *)
(* alive with it: CancelParent is a signal or the failure of an outer      *)
(* step, ParentExpires the run's timeout (context.WithTimeout).            *)
ParentEnds(reason) ==
    /\ parent = "none"
    /\ parent' = reason
    /\ cause' = [v \in Invocation |-> Ended(cause[v], reason)]
    /\ UNCHANGED <<broken, pc, spawned, goroutine, verdict, pool, done, steps, errs,
                   outcome>>

CancelParent == ParentEnds("canceled")
ParentExpires == ParentEnds("deadline")

Collector(v) ==
    \/ Spawn(v)
    \/ EntrypointFails(v)
    \/ \E c \in Child : Collect(v, c)
    \/ CallNext(v)

Worker(g) ==
    \/ Acquire(g)
    \/ \E r \in Soft \cup Hard : Finish(g, r)
    \/ Release(g)

Next ==
    \/ \E v \in Invocation : Collector(v)
    \/ \E g \in Goroutine : Worker(g)
    \/ CancelParent
    \/ ParentExpires

(* A collector and a running goroutine are scheduled again and again and   *)
(* every child ends; that a queued goroutine gets a token needs that the   *)
(* channel is fair to its blocked senders, which Go's FIFO wait queue is.  *)
Fairness ==
    /\ \A v \in Invocation : WF_vars(Collector(v))
    /\ \A g \in Goroutine : WF_vars(\E r \in Soft \cup Hard : Finish(g, r))
                            /\ WF_vars(Release(g)) /\ SF_vars(Acquire(g))

Spec == Init /\ [][Next]_vars
FairSpec == Spec /\ Fairness

-----------------------------------------------------------------------------
(* Properties.                                                             *)

Holding == {g \in Goroutine : goroutine[g] \in {"running", "sending", "sent"}}

TypeOK ==
    /\ broken \subseteq Broken
    /\ pc \in [Invocation -> {"spawn", "collect", "next", "returned"}]
    /\ spawned \in [Invocation -> 0..Refs]
    /\ goroutine \in [Goroutine -> {"none", "queued", "running", "sending",
                                    "sent", "gone"}]
    /\ verdict \in [Goroutine -> {"none"} \cup Soft \cup Hard]
    /\ pool \in 0..MaxConcurrent
    /\ cause \in [Invocation -> {"none"} \cup Cause]
    /\ parent \in {"none"} \cup Cause
    /\ done \in [Invocation -> 0..Refs]
    /\ steps \in [Invocation -> SUBSET Child]
    /\ errs \in [Invocation -> Seq(Child)]
    /\ outcome \in [Invocation -> {"running", "next", "failed", "broken"}]

(* maxConcurrent bounds the children that run at the same time over all    *)
(* invocations of the step, not over one: a child keeps its token until    *)
(* its result has been received.                                           *)
PoolBound == MaxConcurrent > 0 => Cardinality(Holding) <= MaxConcurrent

(* The step fails if and only if some child failed, however cancellation,  *)
(* fail-fast and the order of the results interleave: an aborting error is *)
(* ignored only when another one is already going to be returned.          *)
NoFailureLost ==
    \A v \in Invocation :
        outcome[v] \in {"next", "failed"} =>
            (outcome[v] = "failed"
                <=> \E c \in Child : verdict[<<v, c>>] \in Hard)

(* Without fail-fast and unless a signal cancels it from above, the joined *)
(* error names every child that failed, once; a deadline loses none.       *)
AllFailuresJoined ==
    \A v \in Invocation :
        (outcome[v] = "failed" /\ ~FailFast /\ parent # "canceled") =>
            /\ {errs[v][k] : k \in DOMAIN errs[v]}
                   = {c \in Child : verdict[<<v, c>>] \in Hard}
            /\ \A j, k \in DOMAIN errs[v] : errs[v][j] = errs[v][k] => j = k

(* With fail-fast the step reports one error, unless the run's deadline    *)
(* passed before any child failed.  That error is the failure that set the *)
(* cancellation off, never the error of a sibling that the cancellation    *)
(* hit, unless a signal cancelled the step from above.                     *)
RootCauseReported ==
    \A v \in Invocation :
        (FailFast /\ cause[v] # "deadline") =>
            /\ Len(errs[v]) <= 1
            /\ parent # "canceled" => \A k \in DOMAIN errs[v] :
                                          verdict[<<v, errs[v][k]>>] = "hard"

(* A step whose context ends by the deadline does not hide one failure     *)
(* behind another, fail-fast or not: each child that was received and      *)
(* failed is in the joined error.                                          *)
DeadlineHidesNothing ==
    \A v \in Invocation :
        cause[v] = "deadline" =>
            \A c \in steps[v] : verdict[<<v, c>>] \in Hard =>
                \E k \in DOMAIN errs[v] : errs[v][k] = c

(* When the step returns, or runs the rest of its chain, no goroutine of   *)
(* the invocation is still running or blocked and every child is recorded  *)
(* in ctx.Steps.  The only exception is the early return for a reference   *)
(* that cannot be built.                                                   *)
Drained ==
    \A v \in Invocation :
        outcome[v] \in {"next", "failed"} =>
            /\ steps[v] = Child
            /\ \A c \in Child : goroutine[<<v, c>>] \in {"sent", "gone"}

(* Every invocation returns: no order of results, no cancellation and no   *)
(* contention on the shared pool leaves a collector waiting for ever.      *)
Terminates == \A v \in Invocation : <>(pc[v] = "returned")

(* Each invocation is a composite step: a child has begun with its         *)
(* goroutine and has ended when the collector has its result.              *)
begunBar == [v \in Invocation |-> {c \in Child : goroutine[<<v, c>>] # "none"}]
endedBar == [v \in Invocation |->
                [c \in Child |-> IF c \in steps[v] THEN verdict[<<v, c>>]
                                 ELSE "none"]]
Composite == INSTANCE CompositeStep WITH begun <- begunBar, ended <- endedBar

(* The concurrent step keeps the promise of a composite step: it goes on   *)
(* only after every child ended without an aborting error, and fails only  *)
(* when one did and nothing that was started is still running.             *)
ImplementsComposite == Composite!CompositeSpec

=============================================================================
