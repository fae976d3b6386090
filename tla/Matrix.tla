------------------------------- MODULE Matrix -------------------------------
(***************************************************************************)
(* A step with a `matrix`, wrapped by its own `retry`                      *)
(* (internal/processor/matrix.go, retry.go, output_vars.go).               *)
(*                                                                         *)
(* Every instance of the matrix runs the whole processor chain of the step *)
(* again, Retry included, and recognises itself by a mark in its context.  *)
(* The chain of the instances is built once per expansion, so that they    *)
(* share one backoff and its budget of retries.  When the matrix fails the *)
(* outer Retry expands it again.  The pool belongs to the step: goroutines *)
(* of an earlier attempt may still hold a token when the next one starts.  *)
(***************************************************************************)
EXTENDS Naturals, Sequences, SequencesExt, FiniteSetsExt, TLC

CONSTANTS Params,         \* spec.matrix.params, each [name, values]; a value is
                          \* a sequence of words and dashes
          Include,        \* spec.matrix.include: groups of [name, value]
          MaxConcurrent,  \* cap of the pool; 0 is no pool
          FailFast,       \* spec.matrix.failFast
          HasRetry,       \* spec.retry is given, with a backoff
          MaxRetries      \* spec.retry.maxRetries

ASSUME MatrixAssumption ==
    /\ Params \in Seq([name : STRING, values : Seq(Seq(STRING))])
    /\ Include \in Seq(Seq([name : STRING, value : Seq(STRING)]))
    /\ MaxConcurrent \in Nat
    /\ FailFast \in BOOLEAN
    /\ HasRetry \in BOOLEAN
    /\ MaxRetries \in Nat \ {0}

-----------------------------------------------------------------------------
(* The combinations of the parameters' values.                             *)

\* mapData: of parameters of one name the last one counts.
MapData(params, name) ==
    params[Max({i \in DOMAIN params : params[i].name = name})].values

(* In the order of the recursion.                                          *)
GenerateCombinations(params) ==
    LET combine(combinations, param) ==
            FlattenSeq([i \in DOMAIN combinations |->
                LET values == MapData(params, param.name) IN
                [j \in DOMAIN values |-> (param.name :> values[j]) @@ combinations[i]]])
    IN FoldLeft(combine, << <<>> >>, params)

UniqueKey(params, combination) ==
    FlattenSeq([i \in DOMAIN params |->
        (IF i = 1 THEN <<>> ELSE <<"-">>) \o combination[params[i].name]])

(* Of combinations with one key the last one is left.                      *)
MatrixesOf(params) ==
    FoldLeft(LAMBDA result, c : (UniqueKey(params, c) :> c) @@ result,
             <<>>, GenerateCombinations(params))

GroupParams(group) ==
    FoldLeft(LAMBDA result, p : (p.name :> p.value) @@ result, <<>>, group)

\* Mutant: a group applies to every combination that has its parameter.
CombinesByName(group, name, value) == \E i \in DOMAIN group : group[i].name = name

Combines(group, name, value) ==
    \E i \in DOMAIN group : group[i].name = name /\ group[i].value = value

(* extendMatrix, in any order of the Go map: what the groups say takes the *)
(* place of what the combination has.                                      *)
ExtendMatrix(combination, include) ==
    LET included(order) ==
            FoldLeft(LAMBDA result, name :
                FoldLeft(LAMBDA r, group :
                    IF Combines(group, name, combination[name])
                    THEN GroupParams(group) @@ r ELSE r, result, include),
                <<>>, order)
    IN {included(order) @@ combination : order \in SetToSeqs(DOMAIN combination)}

Matrixes == MatrixesOf(Params)
Keys == SetToSeq(DOMAIN Matrixes)

Instance == DOMAIN Keys

(* There is one at least; that the parameters may have no combination, in  *)
(* which case the step ends before it makes any, is a value of expansion.  *)
ASSUME InstanceAssumption == Instance # {}

Attempt == 1..(IF HasRetry THEN MaxRetries + 1 ELSE 1)
Goroutine == Attempt \X Instance

VARIABLES
    pc,         \* the step: "try", "matrix", "spawn", "collect", "backoff",
                \* "returned"
    attempt,    \* which attempt of the outer Retry it is in
    expansion,  \* what build() makes of the parameters: "combos", "empty" or
                \* "fails" (substitution)
    entry,      \* the mark is in the context that the step was called with
    marked,     \* the mark is in the context that Matrix is called with
    goroutine,  \* "none", "queued", "try", "running", "backoff", "sending",
                \* "sent", "gone"
    matrix,     \* copyCtx.Matrix.Params of a goroutine, <<>> before
    runs,       \* how often the rest of the chain ran for a goroutine
    verdict,    \* what next() of a goroutine returned
    spent,      \* retries taken from the backoff that the instances share
    retries,    \* retries taken from the backoff of the step
    pool,       \* tokens in s.pool
    cancelled,  \* cancelCtx of the attempt was cancelled by its own collector
    parent,     \* Err() of the context the step was called with: "none",
                \* "canceled" or "deadline"
    errs,       \* the errors to join
    outputs,    \* the output parameter of the step, 0 for a value that the
                \* step wrote itself
    outcome,    \* per attempt: "running", "next", "failed", "broken"
    plain,      \* the step ran without being expanded
    result      \* what the step returned, "none" before

vars == <<pc, attempt, expansion, entry, marked, goroutine, matrix, runs,
          verdict, spent, retries, pool, cancelled, parent, errs, outputs, outcome,
          plain, result>>

Soft == {"ok", "soft"}
Hard == {"hard", "canceled"}

Init ==
    /\ pc = "try"
    /\ attempt = 0
    /\ expansion \in {"combos", "empty", "fails"}
    /\ entry \in BOOLEAN
    /\ marked = entry
    /\ goroutine = [g \in Goroutine |-> "none"]
    /\ matrix = [g \in Goroutine |-> <<>>]
    /\ runs = [g \in Goroutine |-> 0]
    /\ verdict = [g \in Goroutine |-> "none"]
    /\ spent = 0
    /\ retries = 0
    /\ pool = 0
    /\ cancelled = FALSE
    /\ parent = "none"
    /\ errs = <<>>
    /\ outputs = <<>>
    /\ outcome = [a \in Attempt |-> "running"]
    /\ plain = FALSE
    /\ result = "none"

\* The context of the step, or that of its instances, is over.
ParentEnded == parent # "none"
Cancelled == cancelled \/ ParentEnded
\* cancelCtx.Err() is context.Canceled: it was not the deadline that came first.
DropsErrors == cancelled \/ parent = "canceled"

-----------------------------------------------------------------------------
(* retry.Do: what becomes of a pass that returned r when `used` retries    *)
(* are gone.  Every error is retryable.                                    *)

\* Mutant: one retry too many.
RetryOneMore(r, used, isCancelled) ==
    IF r = "ok" \/ ~HasRetry \/ used > MaxRetries
    THEN [again |-> FALSE, verdict |-> r, used |-> used]
    ELSE [again |-> ~isCancelled, used |-> used + 1,
          verdict |-> IF isCancelled THEN "canceled" ELSE r]

RetryAfter(r, used, isCancelled) ==
    IF r = "ok" \/ ~HasRetry \/ used = MaxRetries
    THEN [again |-> FALSE, verdict |-> r, used |-> used]
    ELSE [again |-> ~isCancelled, used |-> used + 1,
          verdict |-> IF isCancelled THEN "canceled" ELSE r]

-----------------------------------------------------------------------------
(* The step.                                                               *)

\* Mutant: the retried call gets the context that the last one returned.
AttemptKeepsContext ==
    /\ pc = "try"
    /\ ~(HasRetry /\ ParentEnded)
    /\ attempt' = attempt + 1
    /\ pc' = "matrix"
    /\ UNCHANGED <<matrix, marked, expansion, entry, goroutine, runs, verdict,
                   spent, retries, pool, cancelled, parent, errs, outputs,
                   outcome, plain, result>>

\* retry.Do calls the function again; stepCtx.Context = ctx takes the mark of
\* the last attempt away.
BeginAttempt ==
    /\ pc = "try"
    /\ ~(HasRetry /\ ParentEnded)
    /\ attempt' = attempt + 1
    /\ pc' = "matrix"
    /\ marked' = IF HasRetry THEN entry ELSE marked
    /\ UNCHANGED <<matrix, expansion, entry, goroutine, runs, verdict, spent,
                   retries, pool, cancelled, parent, errs, outputs, outcome,
                   plain, result>>

\* retry.Do finds its context cancelled, before an attempt or in the backoff.
GiveUp ==
    /\ HasRetry /\ ParentEnded
    /\ pc \in {"try", "backoff"}
    /\ pc' = "returned"
    /\ result' = "canceled"
    /\ UNCHANGED <<attempt, matrix, expansion, entry, marked, goroutine, runs,
                   verdict, spent, retries, pool, cancelled, parent, errs,
                   outputs, outcome, plain>>

BackoffOver ==
    /\ pc = "backoff"
    /\ pc' = "try"
    /\ UNCHANGED <<attempt, matrix, expansion, entry, marked, goroutine, runs,
                   verdict, spent, retries, pool, cancelled, parent, errs,
                   outputs, outcome, plain, result>>

\* The chain below the outer Retry returned r.
EndAttempt(r) ==
    LET after == RetryAfter(r, retries, ParentEnded) IN
    /\ retries' = after.used
    /\ pc' = IF after.again THEN "backoff" ELSE "returned"
    /\ result' = IF after.again THEN result ELSE after.verdict

\* Matrix finds its mark: the rest of the chain runs once, for itself.
RunPlain(r) ==
    /\ pc = "matrix"
    /\ marked
    /\ r = "canceled" => ParentEnded
    /\ plain' = TRUE
    /\ outputs' = IF r = "ok" THEN <<0>> ELSE outputs
    /\ EndAttempt(r)
    /\ UNCHANGED <<attempt, matrix, expansion, entry, marked, goroutine, runs,
                   verdict, spent, pool, cancelled, parent, errs, outcome>>

\* The parameters cannot be substituted, or they have no combination.
CannotExpand ==
    /\ pc = "matrix"
    /\ ~marked
    /\ expansion \in {"fails", "empty"}
    /\ marked' = (expansion = "empty")
    /\ outcome' = [outcome EXCEPT ![attempt] = "broken"]
    /\ EndAttempt(IF expansion = "empty" THEN "soft" ELSE "hard")
    /\ UNCHANGED <<attempt, matrix, expansion, entry, goroutine, runs,
                   verdict, spent, pool, cancelled, parent, errs, outputs,
                   plain>>

\* pipeline.Entrypoint() builds the chain of the instances, with a backoff of
\* its own, and cancelCtx is made.
Expand ==
    /\ pc = "matrix"
    /\ ~marked
    /\ expansion = "combos"
    /\ marked' = TRUE
    /\ pc' = "spawn"
    /\ spent' = 0
    /\ errs' = <<>>
    /\ cancelled' = FALSE
    /\ UNCHANGED <<attempt, matrix, expansion, entry, goroutine, runs,
                   verdict, retries, pool, parent, outputs, outcome, plain,
                   result>>

\* One turn of the loop over the combinations, in the order of a Go map.
Spawn(i) ==
    LET g == <<attempt, i>> IN
    /\ pc = "spawn"
    /\ goroutine[g] = "none"
    /\ goroutine' = [goroutine EXCEPT ![g] =
                        IF MaxConcurrent > 0 THEN "queued" ELSE "try"]
    /\ pc' = IF \A j \in Instance \ {i} : goroutine[<<attempt, j>>] # "none"
             THEN "collect" ELSE "spawn"
    /\ \E m \in ExtendMatrix(Matrixes[Keys[i]], Include) :
          matrix' = [matrix EXCEPT ![g] = m]
    /\ UNCHANGED <<attempt, expansion, entry, marked, runs, verdict,
                   spent, retries, pool, cancelled, parent, errs, outputs,
                   outcome, plain, result>>

\* The instances whose results have been received.
Received(a) == {i \in Instance : goroutine[<<a, i>>] \in {"sent", "gone"}}

\* An error is kept if it aborts, unless the context is cancelled and one is
\* known already.
ErrsAfter(i) ==
    IF DropsErrors /\ errs # <<>> THEN errs
    ELSE IF verdict[<<attempt, i>>] \in Hard THEN Append(errs, i)
    ELSE errs

\* Mutant: with failFast the first error ends the loop.
CollectReturnsEarly(i) ==
    LET failed == ErrsAfter(i) # <<>>
        last == Received(attempt) \cup {i} = Instance \/ (FailFast /\ failed)
    IN
    /\ pc = "collect"
    /\ goroutine[<<attempt, i>>] = "sending"
    /\ goroutine' = [goroutine EXCEPT ![<<attempt, i>>] = "sent"]
    /\ errs' = ErrsAfter(i)
    /\ cancelled' = (cancelled \/ (last /\ ~ParentEnded))
    /\ IF last
       THEN /\ EndAttempt(IF failed THEN "hard" ELSE "ok")
            /\ outcome' = [outcome EXCEPT ![attempt] =
                              IF failed THEN "failed" ELSE "next"]
       ELSE UNCHANGED <<pc, retries, result, outcome>>
    /\ outputs' = IF last /\ ~failed THEN <<>>
                  ELSE IF verdict[<<attempt, i>>] = "ok" THEN Append(outputs, i)
                  ELSE outputs
    /\ UNCHANGED <<attempt, matrix, expansion, entry, marked, runs, verdict,
                   spent, pool, parent, plain>>

\* One result is received.  An instance that succeeded adds its output to
\* the array; with the last one the step returns, and if it succeeded its
\* own OutputVars then reads the file that nobody but the instances' copies
\* wrote: the output becomes the empty string.
Collect(i) ==
    LET last == Received(attempt) \cup {i} = Instance
        failed == ErrsAfter(i) # <<>>
    IN
    /\ pc = "collect"
    /\ goroutine[<<attempt, i>>] = "sending"
    /\ goroutine' = [goroutine EXCEPT ![<<attempt, i>>] = "sent"]
    /\ errs' = ErrsAfter(i)
    /\ cancelled' = \/ cancelled
                    \/ ~ParentEnded /\ (last \/ (FailFast /\ ErrsAfter(i) # errs))
    /\ IF last
       THEN /\ EndAttempt(IF failed THEN "hard" ELSE "ok")
            /\ outcome' = [outcome EXCEPT ![attempt] =
                              IF failed THEN "failed" ELSE "next"]
       ELSE UNCHANGED <<pc, retries, result, outcome>>
    /\ outputs' = IF last /\ ~failed THEN <<>>
                  ELSE IF verdict[<<attempt, i>>] = "ok" THEN Append(outputs, i)
                  ELSE outputs
    /\ UNCHANGED <<attempt, matrix, expansion, entry, marked, runs, verdict,
                   spent, pool, parent, plain>>

-----------------------------------------------------------------------------
(* The goroutines: each runs the chain with Retry at its head.             *)

stepVars == <<pc, attempt, expansion, entry, marked, matrix, retries, cancelled,
              parent, errs, outputs, outcome, plain, result>>

Acquire(g) ==
    /\ goroutine[g] = "queued"
    /\ pool < MaxConcurrent
    /\ pool' = pool + 1
    /\ goroutine' = [goroutine EXCEPT ![g] = "try"]
    /\ UNCHANGED <<runs, verdict, spent, stepVars>>

Start(g) ==
    /\ goroutine[g] = "try"
    /\ ~(HasRetry /\ Cancelled)
    /\ goroutine' = [goroutine EXCEPT ![g] = "running"]
    /\ runs' = [runs EXCEPT ![g] = @ + 1]
    /\ UNCHANGED <<verdict, spent, pool, stepVars>>

\* retry.Do finds the context cancelled, before a pass or in the backoff.
Abandon(g) ==
    /\ HasRetry /\ Cancelled
    /\ goroutine[g] \in {"try", "backoff"}
    /\ goroutine' = [goroutine EXCEPT ![g] = "sending"]
    /\ verdict' = [verdict EXCEPT ![g] = "canceled"]
    /\ UNCHANGED <<runs, spent, pool, stepVars>>

\* Mutant: every instance has a budget of its own.
FinishOwnBudget(g, r) ==
    LET after == RetryAfter(r, runs[g] - 1, Cancelled) IN
    /\ goroutine[g] = "running"
    /\ r = "canceled" => Cancelled
    /\ spent' = spent
    /\ goroutine' = [goroutine EXCEPT ![g] =
                        IF after.again THEN "backoff" ELSE "sending"]
    /\ verdict' = [verdict EXCEPT ![g] = IF after.again THEN @ ELSE after.verdict]
    /\ UNCHANGED <<runs, pool, stepVars>>

\* A pass of an instance returns r.
Finish(g, r) ==
    LET after == RetryAfter(r, spent, Cancelled) IN
    /\ goroutine[g] = "running"
    /\ r = "canceled" => Cancelled
    /\ spent' = after.used
    /\ goroutine' = [goroutine EXCEPT ![g] =
                        IF after.again THEN "backoff" ELSE "sending"]
    /\ verdict' = [verdict EXCEPT ![g] = IF after.again THEN @ ELSE after.verdict]
    /\ UNCHANGED <<runs, pool, stepVars>>

Wake(g) ==
    /\ goroutine[g] = "backoff"
    /\ goroutine' = [goroutine EXCEPT ![g] = "try"]
    /\ UNCHANGED <<runs, verdict, spent, pool, stepVars>>

\* Mutant: the token of an instance that failed is lost.
ReleaseKeepsToken(g) ==
    /\ goroutine[g] = "sent"
    /\ goroutine' = [goroutine EXCEPT ![g] = "gone"]
    /\ pool' = IF MaxConcurrent > 0 /\ verdict[g] \in Soft THEN pool - 1 ELSE pool
    /\ UNCHANGED <<runs, verdict, spent, stepVars>>

Release(g) ==
    /\ goroutine[g] = "sent"
    /\ goroutine' = [goroutine EXCEPT ![g] = "gone"]
    /\ pool' = IF MaxConcurrent > 0 THEN pool - 1 ELSE pool
    /\ UNCHANGED <<runs, verdict, spent, stepVars>>

-----------------------------------------------------------------------------
ParentEnds(reason) ==
    /\ ~ParentEnded
    /\ pc # "returned"
    /\ parent' = reason
    /\ UNCHANGED <<pc, attempt, expansion, entry, marked, goroutine, matrix, runs,
                   verdict, spent, retries, pool, cancelled, errs, outputs, outcome, plain,
                   result>>

\* A signal or an outer failure; the run's timeout.
CancelParent == ParentEnds("canceled")
ParentExpires == ParentEnds("deadline")

Step ==
    \/ BeginAttempt
    \/ GiveUp
    \/ BackoffOver
    \/ \E r \in Soft \cup Hard : RunPlain(r)
    \/ CannotExpand
    \/ Expand
    \/ \E i \in Instance : Spawn(i) \/ Collect(i)

Worker(g) ==
    \/ Start(g)
    \/ Abandon(g)
    \/ \E r \in Soft \cup Hard : Finish(g, r)
    \/ Wake(g)
    \/ Release(g)

Next ==
    \/ Step
    \/ \E g \in Goroutine : Acquire(g) \/ Worker(g)
    \/ CancelParent
    \/ ParentExpires

(* Every pass of a step ends and every timer fires; the senders blocked on *)
(* the pool are served in turn.                                            *)
Fairness ==
    /\ WF_vars(Step)
    /\ \A g \in Goroutine : WF_vars(Worker(g)) /\ SF_vars(Acquire(g))

Spec == Init /\ [][Next]_vars
FairSpec == Spec /\ Fairness

-----------------------------------------------------------------------------
(* Properties.                                                             *)

TypeOK ==
    /\ pc \in {"try", "matrix", "spawn", "collect", "backoff", "returned"}
    /\ attempt \in {0} \cup Attempt
    /\ expansion \in {"combos", "empty", "fails"}
    /\ entry \in BOOLEAN /\ marked \in BOOLEAN /\ plain \in BOOLEAN
    /\ cancelled \in BOOLEAN /\ parent \in {"none", "canceled", "deadline"}
    /\ goroutine \in [Goroutine -> {"none", "queued", "try", "running", "backoff",
                                    "sending", "sent", "gone"}]
    /\ DOMAIN matrix = Goroutine
    /\ \A g \in Goroutine : goroutine[g] # "none" =>
           matrix[g] \in ExtendMatrix(Matrixes[Keys[g[2]]], Include)
    /\ runs \in [Goroutine -> 0..(MaxRetries + 1)]
    /\ verdict \in [Goroutine -> {"none"} \cup Soft \cup Hard]
    /\ spent \in 0..MaxRetries
    /\ retries \in 0..MaxRetries
    /\ pool \in 0..MaxConcurrent
    /\ errs \in Seq(Instance)
    /\ outputs \in Seq({0} \cup Instance)
    /\ outcome \in [Attempt -> {"running", "next", "failed", "broken"}]
    /\ result \in {"none"} \cup Soft \cup Hard

(* The passes of the instances of attempt a that were followed by another. *)
Repeated(a) ==
    {p \in Instance \X (1..MaxRetries + 1) : p[2] < runs[<<a, p[1]>>]}

(* All instances of one expansion together retry at most maxRetries times: *)
(* the chain they share was bootstrapped once and its backoff counts for   *)
(* all of them.                                                            *)
SharedBudget == \A a \in Attempt : Cardinality(Repeated(a)) <= MaxRetries

(* A step that was not called from inside its own matrix is expanded in    *)
(* every attempt, also after an attempt that left its mark in the context  *)
(* it returned.                                                            *)
ExpandsEveryAttempt == plain => entry

(* In an attempt that went well there was one instance for each key that   *)
(* the combinations of the parameters' values have (matrix.go:186-277).    *)
(* For every combination there is an instance that ran for it or for       *)
(* another one of the same key, with its values and with what the include  *)
(* groups that apply to it say, which takes the place of its values; where *)
(* two groups that apply disagree, either may win.                         *)
Names == {Params[k].name : k \in DOMAIN Params}
Combinations ==
    {c \in [Names -> UNION {ToSet(Params[k].values) : k \in DOMAIN Params}] :
        \A n \in Names : c[n] \in ToSet(MapData(Params, n))}
SameKey(c, d) == UniqueKey(Params, c) = UniqueKey(Params, d)

\* What the groups that apply to combination c make of parameter n.
Given(c, n) ==
    {q.value : q \in {e \in UNION {ToSet(group) : group \in
        {x \in ToSet(Include) : \E k \in DOMAIN x :
            x[k].name \in Names /\ c[x[k].name] = x[k].value}} : e.name = n}}
Has(g, c) ==
    /\ runs[g] > 0
    /\ \A n \in Names \cup {e.name : e \in UNION {ToSet(x) : x \in ToSet(Include)}} :
          IF Given(c, n) # {} THEN matrix[g][n] \in Given(c, n)
          ELSE n \in Names => matrix[g][n] = c[n]

EveryCombinationRan ==
    \A a \in Attempt : outcome[a] = "next" =>
        /\ \A c \in Combinations : \E d \in Combinations, i \in Instance :
              SameKey(c, d) /\ Has(<<a, i>>, d)
        /\ Cardinality({i \in Instance : runs[<<a, i>>] > 0})
              = Cardinality({UniqueKey(Params, c) : c \in Combinations})

(* The step returns, however attempts, backoffs and the pool interleave.   *)
Terminates == <>(pc = "returned")

(* Every attempt is a composite step whose children are the instances.     *)
begunBar == [a \in Attempt |-> {i \in Instance : goroutine[<<a, i>>] # "none"}]
endedBar == [a \in Attempt |-> [i \in Instance |->
                IF i \in Received(a) THEN verdict[<<a, i>>] ELSE "none"]]
Composite == INSTANCE CompositeStep WITH
                 Invocation <- Attempt, Child <- Instance,
                 begun <- begunBar, ended <- endedBar

(* Each attempt of a matrix keeps the promise of a composite step.         *)
ImplementsComposite == Composite!CompositeSpec

(* What matrix.go:143 promises, "Unify matrix outputs into an array output *)
(* for the current step": a step that succeeded has the output of every    *)
(* instance that succeeded.                                                *)
OutputsUnified ==
    result = "ok" /\ ~plain =>
        \A i \in Instance : verdict[<<attempt, i>>] = "ok"
            => \E k \in DOMAIN outputs : outputs[k] = i

=============================================================================
