---------------------------- MODULE MatrixProofs ----------------------------
(***************************************************************************)
(* Proofs about the matrix step under its retry, for all parameters and    *)
(* groups, every size of the pool and every number of retries.             *)
(***************************************************************************)
EXTENDS Matrix, FiniteSetTheorems, TLAPS

(* The inductive invariant, part by part.                                  *)

Busy == {"queued", "try", "running", "backoff", "sending"}
Over == {"sent", "gone"}

\* The pool holds one token for each goroutine between Acquire and Release,
\* those of earlier attempts included.
Holding == {g \in Goroutine :
               goroutine[g] \in {"try", "running", "backoff", "sending", "sent"}}
PoolInv ==
    MaxConcurrent > 0 => IsFiniteSet(Holding) /\ pool = Cardinality(Holding)

\* An attempt more than there were retries, unless it is still to begin.
AttemptInv ==
    /\ retries > 0 => HasRetry
    /\ pc \in {"try", "backoff"} => attempt = retries
    /\ pc \in {"matrix", "spawn", "collect"} => attempt = retries + 1
    /\ pc = "backoff" => attempt > 0
    /\ attempt = 0 => pc \in {"try", "returned"}

\* The mark of an attempt is taken away before the next one begins.
MarkInv ==
    /\ pc = "try" /\ ~HasRetry => marked = entry
    /\ pc = "matrix" => marked = entry
    /\ plain => entry

\* Goroutines are those of the attempts so far; those of earlier attempts
\* are over.
ExistInv ==
    \A a \in Attempt, i \in Instance :
        /\ a > attempt \/ (a = attempt /\ pc = "matrix") =>
               goroutine[<<a, i>>] = "none"
        /\ goroutine[<<a, i>>] \in Busy =>
               a = attempt /\ pc \in {"spawn", "collect"}
        /\ a = attempt /\ pc = "spawn" => goroutine[<<a, i>>] \notin Over
        /\ a = attempt /\ pc = "collect" => goroutine[<<a, i>>] # "none"

VerdictInv ==
    \A g \in Goroutine :
        verdict[g] # "none" <=> goroutine[g] \in {"sending"} \cup Over

\* The errors kept are of received instances, and one is kept if any of
\* them aborts.
ErrsInv ==
    /\ pc = "spawn" => errs = <<>>
    /\ pc = "collect" =>
           /\ \A k \in DOMAIN errs :
                  /\ errs[k] \in Received(attempt)
                  /\ verdict[<<attempt, errs[k]>>] \in Hard
           /\ \A i \in Received(attempt) :
                  verdict[<<attempt, i>>] \in Hard => errs # <<>>
           /\ Received(attempt) # Instance

OutcomeInv ==
    \A a \in Attempt :
        a > attempt \/ (a = attempt /\ pc \in {"matrix", "spawn", "collect"}) =>
            outcome[a] = "running"

\* What a goroutine has taken from the budget: a retry for each pass after
\* the first, also when it has not begun that pass.
Granted(g) ==
    IF goroutine[g] \in {"running", "sending", "sent", "gone"} /\ runs[g] > 0
    THEN runs[g] - 1 ELSE runs[g]

Grants(a) ==
    {p \in Instance \X (1..MaxRetries + 1) : p[2] <= Granted(<<a, p[1]>>)}

\* Together they have taken what the budget of the expansion has lost.
BudgetInv ==
    \A a \in Attempt :
        /\ IsFiniteSet(Grants(a))
        /\ Cardinality(Grants(a)) <= MaxRetries
        /\ \A i \in Instance : Granted(<<a, i>>) <= MaxRetries
        /\ a = attempt /\ pc \in {"spawn", "collect"} =>
               /\ Cardinality(Grants(a)) <= spent
               /\ \A i \in Instance : Granted(<<a, i>>) <= spent

RunsInv ==
    \A g \in Goroutine :
        /\ goroutine[g] \in {"none", "queued"} => runs[g] = 0
        /\ goroutine[g] = "running" => runs[g] > 0

IInv ==
    /\ TypeOK
    /\ PoolInv
    /\ AttemptInv
    /\ MarkInv
    /\ ExistInv
    /\ VerdictInv
    /\ ErrsInv
    /\ OutcomeInv
    /\ BudgetInv
    /\ RunsInv

-----------------------------------------------------------------------------

LEMMA Numbers ==
    /\ MaxConcurrent \in Nat /\ MaxRetries \in Nat \ {0}
    /\ HasRetry \in BOOLEAN /\ FailFast \in BOOLEAN
BY MatrixAssumption

\* What becomes of a pass, and of the budget.
LEMMA RetryFacts ==
    ASSUME NEW r \in Soft \cup Hard, NEW used \in 0..MaxRetries, NEW c \in BOOLEAN
    PROVE  LET after == RetryAfter(r, used, c) IN
           /\ after.used \in 0..MaxRetries
           /\ after.used = used \/ (HasRetry /\ after.used = used + 1)
           /\ after.verdict \in Soft \cup Hard
           /\ after.again => HasRetry /\ after.used = used + 1
<1> USE Numbers DEF Soft, Hard
<1>1. CASE r = "ok" \/ ~HasRetry \/ used = MaxRetries
  BY <1>1 DEF RetryAfter
<1>2. CASE ~(r = "ok" \/ ~HasRetry \/ used = MaxRetries)
  <2>1. RetryAfter(r, used, c) = [again |-> ~c, used |-> used + 1,
                                  verdict |-> IF c THEN "canceled" ELSE r]
    BY <1>2 DEF RetryAfter
  <2>2. HasRetry /\ used + 1 \in 0..MaxRetries
    BY <1>2
  <2>3. (IF c THEN "canceled" ELSE r) \in Soft \cup Hard
    OBVIOUS
  <2>4. QED
    BY <2>1, <2>2, <2>3
<1>3. QED
  BY <1>1, <1>2

\* While the step is in its matrix it is in one of its attempts.
LEMMA AttemptIsOne ==
    ASSUME IInv, pc \in {"matrix", "spawn", "collect"}
    PROVE  attempt \in Attempt
BY DEF IInv, TypeOK, AttemptInv

LEMMA EndAttemptFacts ==
    ASSUME TypeOK, NEW r \in Soft \cup Hard, EndAttempt(r)
    PROVE  /\ retries' \in 0..MaxRetries
           /\ retries' > 0 => retries > 0 \/ HasRetry
           /\ (pc' = "backoff" /\ HasRetry /\ retries' = retries + 1) \/ pc' = "returned"
           /\ result' \in {"none"} \cup Soft \cup Hard
<1>1. ParentEnded \in BOOLEAN /\ retries \in 0..MaxRetries
      /\ result \in {"none"} \cup Soft \cup Hard
  BY DEF TypeOK, ParentEnded
<1> DEFINE after == RetryAfter(r, retries, ParentEnded)
<1>2. /\ after.used \in 0..MaxRetries
      /\ after.used = retries \/ (HasRetry /\ after.used = retries + 1)
      /\ after.verdict \in Soft \cup Hard
      /\ after.again => HasRetry /\ after.used = retries + 1
  BY <1>1, RetryFacts
<1>3. /\ retries' = after.used
      /\ pc' = IF after.again THEN "backoff" ELSE "returned"
      /\ result' = IF after.again THEN result ELSE after.verdict
  BY DEF EndAttempt
<1> HIDE DEF after
<1>4. QED
  BY <1>1, <1>2, <1>3

LEMMA InitIInv == Init => IInv
<1> SUFFICES ASSUME Init PROVE IInv
  OBVIOUS
<1> USE Numbers DEF Init
<1>1. TypeOK
  <2>1. errs \in Seq(Instance) /\ outputs \in Seq({0} \cup Instance)
    OBVIOUS
  <2>2. /\ cancelled \in BOOLEAN /\ parent \in {"none", "canceled", "deadline"} /\ plain \in BOOLEAN
        /\ entry \in BOOLEAN /\ marked \in BOOLEAN
    OBVIOUS
  <2>3. /\ runs \in [Goroutine -> 0..(MaxRetries + 1)]
        /\ spent \in 0..MaxRetries /\ retries \in 0..MaxRetries
        /\ pool \in 0..MaxConcurrent
    OBVIOUS
  <2>4. DOMAIN matrix = Goroutine /\ \A g \in Goroutine : goroutine[g] = "none"
    OBVIOUS
  <2>5. QED
    BY <2>1, <2>2, <2>3, <2>4 DEF TypeOK
<1>2. PoolInv
  <2>1. Holding = {}
    BY DEF Holding
  <2>2. QED
    BY <2>1, FS_EmptySet DEF PoolInv
<1>3. AttemptInv /\ MarkInv
  BY DEF AttemptInv, MarkInv
<1>4. ExistInv /\ VerdictInv /\ RunsInv
  BY DEF ExistInv, VerdictInv, RunsInv, Busy, Over, Goroutine
<1>5. ErrsInv /\ OutcomeInv
  BY DEF ErrsInv, OutcomeInv
<1>6. BudgetInv
  <2>1. \A a \in Attempt, i \in Instance : Granted(<<a, i>>) = 0
    BY DEF Granted, Goroutine
  <2>2. \A a \in Attempt : Grants(a) = {}
    BY <2>1 DEF Grants
  <2>3. IsFiniteSet({}) /\ Cardinality({}) = 0
    BY FS_EmptySet
  <2>4. \A a \in Attempt :
            IsFiniteSet(Grants(a)) /\ Cardinality(Grants(a)) = 0
    BY <2>2, <2>3
  <2>5. 0 <= MaxRetries /\ 0 <= spent
    BY Numbers
  <2>6. QED
    BY <2>1, <2>4, <2>5 DEF BudgetInv
<1>7. QED
  BY <1>1, <1>2, <1>3, <1>4, <1>5, <1>6 DEF IInv

-----------------------------------------------------------------------------
(* One step, part by part.                                                 *)

LEMMA AttemptStep == IInv /\ [Next]_vars => AttemptInv'
<1> SUFFICES ASSUME IInv, [Next]_vars PROVE AttemptInv'
  OBVIOUS
<1>0. TypeOK /\ AttemptInv
  BY DEF IInv
<1> USE Numbers
<1>t. attempt \in Nat /\ retries \in Nat
  BY <1>0 DEF TypeOK, Attempt
<1>1. CASE BeginAttempt
  BY <1>0, <1>1, <1>t DEF BeginAttempt, AttemptInv
<1>2. CASE GiveUp
  BY <1>0, <1>2, <1>t DEF GiveUp, AttemptInv
<1>3. CASE BackoffOver
  BY <1>0, <1>3, <1>t DEF BackoffOver, AttemptInv
<1>4. ASSUME NEW r \in Soft \cup Hard, RunPlain(r) PROVE AttemptInv'
  <2>1. /\ pc = "matrix" /\ attempt' = attempt
        /\ EndAttempt(r)
    BY <1>4 DEF RunPlain
  <2>2. /\ (pc' = "backoff" /\ HasRetry /\ retries' = retries + 1) \/ pc' = "returned"
        /\ retries' \in Nat /\ (retries' > 0 => retries > 0 \/ HasRetry)
    BY <1>0, <2>1, EndAttemptFacts
  <2>3. retries' > 0 => HasRetry
    BY <1>0, <1>t, <2>1, <2>2 DEF AttemptInv
  <2>4. attempt' = retries + 1
    BY <1>0, <1>t, <2>1, <2>2 DEF AttemptInv
  <2>5. pc' = "backoff" => attempt' = retries' /\ attempt' > 0
    BY <1>t, <2>1, <2>2, <2>4
  <2>6. pc' \in {"backoff", "returned"} /\ attempt' # 0
    BY <1>t, <2>1, <2>2, <2>4
  <2>7. QED
    BY <2>3, <2>5, <2>6 DEF AttemptInv
<1>5. CASE CannotExpand
  <2>1. PICK r \in Soft \cup Hard : EndAttempt(r)
    BY <1>5 DEF CannotExpand, Soft, Hard
  <2>2. pc = "matrix" /\ attempt' = attempt
    BY <1>5 DEF CannotExpand
  <2>3. /\ (pc' = "backoff" /\ HasRetry /\ retries' = retries + 1) \/ pc' = "returned"
        /\ retries' \in Nat /\ (retries' > 0 => retries > 0 \/ HasRetry)
    BY <1>0, <2>1, EndAttemptFacts
  <2>4. retries' > 0 => HasRetry
    BY <1>0, <1>t, <2>2, <2>3 DEF AttemptInv
  <2>5. attempt' = retries + 1
    BY <1>0, <1>t, <2>2, <2>3 DEF AttemptInv
  <2>6. pc' = "backoff" => attempt' = retries' /\ attempt' > 0
    BY <1>t, <2>2, <2>3, <2>5
  <2>7. pc' \in {"backoff", "returned"} /\ attempt' # 0
    BY <1>t, <2>2, <2>3, <2>5
  <2>8. QED
    BY <2>4, <2>6, <2>7 DEF AttemptInv
<1>6. CASE Expand
  BY <1>0, <1>6, <1>t DEF Expand, AttemptInv
<1>7. ASSUME NEW i \in Instance, Spawn(i) PROVE AttemptInv'
  BY <1>0, <1>7, <1>t DEF Spawn, AttemptInv
<1>8. ASSUME NEW i \in Instance, Collect(i) PROVE AttemptInv'
  <2>1. pc = "collect" /\ attempt' = attempt
    BY <1>8 DEF Collect
  <2>2. CASE UNCHANGED <<pc, retries>>
    BY <1>0, <2>1, <2>2 DEF AttemptInv
  <2>3. ASSUME NEW r \in Soft \cup Hard, EndAttempt(r) PROVE AttemptInv'
    <3>1. /\ (pc' = "backoff" /\ HasRetry /\ retries' = retries + 1) \/ pc' = "returned"
          /\ retries' \in Nat /\ (retries' > 0 => retries > 0 \/ HasRetry)
      BY <1>0, <2>3, EndAttemptFacts
    <3>2. retries' > 0 => HasRetry
      BY <1>0, <1>t, <2>1, <3>1 DEF AttemptInv
    <3>3. attempt' = retries + 1
      BY <1>0, <1>t, <2>1, <3>1 DEF AttemptInv
    <3>4. pc' = "backoff" => attempt' = retries' /\ attempt' > 0
      BY <1>t, <2>1, <3>1, <3>3
    <3>5. pc' \in {"backoff", "returned"} /\ attempt' # 0
      BY <1>t, <2>1, <3>1, <3>3
    <3>6. QED
      BY <3>2, <3>4, <3>5 DEF AttemptInv
  <2>4. QED
    BY <1>8, <2>2, <2>3 DEF Collect, Soft, Hard
<1>9. ASSUME NEW g \in Goroutine, Acquire(g) PROVE AttemptInv'
  BY <1>0, <1>9, <1>t DEF Acquire, stepVars, AttemptInv
<1>10. ASSUME NEW g \in Goroutine, Start(g) PROVE AttemptInv'
  BY <1>0, <1>10, <1>t DEF Start, stepVars, AttemptInv
<1>11. ASSUME NEW g \in Goroutine, Abandon(g) PROVE AttemptInv'
  BY <1>0, <1>11, <1>t DEF Abandon, stepVars, AttemptInv
<1>12. ASSUME NEW g \in Goroutine, NEW r \in Soft \cup Hard, Finish(g, r)
       PROVE  AttemptInv'
  BY <1>0, <1>12, <1>t DEF Finish, stepVars, AttemptInv
<1>13. ASSUME NEW g \in Goroutine, Wake(g) PROVE AttemptInv'
  BY <1>0, <1>13, <1>t DEF Wake, stepVars, AttemptInv
<1>14. ASSUME NEW g \in Goroutine, Release(g) PROVE AttemptInv'
  BY <1>0, <1>14, <1>t DEF Release, stepVars, AttemptInv
<1>15. CASE CancelParent \/ ParentExpires
  BY <1>0, <1>15, <1>t DEF CancelParent, ParentExpires, ParentEnds, AttemptInv
<1>16. CASE UNCHANGED vars
  BY <1>0, <1>16, <1>t DEF vars, AttemptInv
<1>17. QED
  BY <1>1, <1>2, <1>3, <1>4, <1>5, <1>6, <1>7, <1>8, <1>9,
     <1>10, <1>11, <1>12, <1>13, <1>14, <1>15, <1>16
     DEF Next, Step, Worker

LEMMA MarkStep == IInv /\ [Next]_vars => MarkInv'
<1> SUFFICES ASSUME IInv, [Next]_vars PROVE MarkInv'
  OBVIOUS
<1>0. TypeOK /\ MarkInv /\ AttemptInv
  BY DEF IInv
<1>1. CASE BeginAttempt
  BY <1>0, <1>1 DEF BeginAttempt, MarkInv
<1>2. CASE GiveUp
  BY <1>0, <1>2 DEF GiveUp, MarkInv
<1>3. CASE BackoffOver
  <2>1. HasRetry
    BY <1>0, <1>3 DEF BackoffOver, AttemptInv, TypeOK, Attempt
  <2>2. QED
    BY <1>0, <1>3, <2>1 DEF BackoffOver, MarkInv
<1>4. ASSUME NEW r \in Soft \cup Hard, RunPlain(r) PROVE MarkInv'
  <2>1. pc' \in {"backoff", "returned"}
    BY <1>0, <1>4, EndAttemptFacts DEF RunPlain
  <2>2. pc = "matrix" /\ marked /\ UNCHANGED <<entry, marked>>
    BY <1>4 DEF RunPlain
  <2>3. QED
    BY <1>0, <2>1, <2>2 DEF MarkInv
<1>5. CASE CannotExpand
  <2>1. PICK r \in Soft \cup Hard : EndAttempt(r)
    BY <1>5 DEF CannotExpand, Soft, Hard
  <2>2. pc' \in {"backoff", "returned"}
    BY <1>0, <2>1, EndAttemptFacts
  <2>3. QED
    BY <1>0, <1>5, <2>2 DEF CannotExpand, MarkInv
<1>6. CASE Expand
  BY <1>0, <1>6 DEF Expand, MarkInv
<1>7. ASSUME NEW i \in Instance, Spawn(i) PROVE MarkInv'
  BY <1>0, <1>7 DEF Spawn, MarkInv
<1>8. ASSUME NEW i \in Instance, Collect(i) PROVE MarkInv'
  <2>1. pc = "collect" /\ UNCHANGED <<plain, entry>>
    BY <1>8 DEF Collect
  <2>2. CASE pc' = pc
    BY <1>0, <2>1, <2>2 DEF MarkInv
  <2>3. ASSUME NEW r \in Soft \cup Hard, EndAttempt(r) PROVE MarkInv'
    BY <1>0, <2>1, <2>3, EndAttemptFacts DEF MarkInv
  <2>4. QED
    BY <1>8, <2>2, <2>3 DEF Collect, Soft, Hard
<1>9. ASSUME NEW g \in Goroutine, Acquire(g) PROVE MarkInv'
  BY <1>0, <1>9 DEF Acquire, stepVars, MarkInv
<1>10. ASSUME NEW g \in Goroutine, Start(g) PROVE MarkInv'
  BY <1>0, <1>10 DEF Start, stepVars, MarkInv
<1>11. ASSUME NEW g \in Goroutine, Abandon(g) PROVE MarkInv'
  BY <1>0, <1>11 DEF Abandon, stepVars, MarkInv
<1>12. ASSUME NEW g \in Goroutine, NEW r \in Soft \cup Hard, Finish(g, r)
       PROVE  MarkInv'
  BY <1>0, <1>12 DEF Finish, stepVars, MarkInv
<1>13. ASSUME NEW g \in Goroutine, Wake(g) PROVE MarkInv'
  BY <1>0, <1>13 DEF Wake, stepVars, MarkInv
<1>14. ASSUME NEW g \in Goroutine, Release(g) PROVE MarkInv'
  BY <1>0, <1>14 DEF Release, stepVars, MarkInv
<1>15. CASE CancelParent \/ ParentExpires
  BY <1>0, <1>15 DEF CancelParent, ParentExpires, ParentEnds, MarkInv
<1>16. CASE UNCHANGED vars
  BY <1>0, <1>16 DEF vars, MarkInv
<1>17. QED
  BY <1>1, <1>2, <1>3, <1>4, <1>5, <1>6, <1>7, <1>8, <1>9,
     <1>10, <1>11, <1>12, <1>13, <1>14, <1>15, <1>16
     DEF Next, Step, Worker

LEMMA VerdictStep == IInv /\ [Next]_vars => VerdictInv'
<1> SUFFICES ASSUME IInv, [Next]_vars PROVE VerdictInv'
  OBVIOUS
<1>0. TypeOK /\ VerdictInv /\ ExistInv
  BY DEF IInv
\* A step of one goroutine.
<1>a. ASSUME NEW g \in Goroutine, NEW s, NEW v,
             goroutine' = [goroutine EXCEPT ![g] = s],
             \/ verdict' = verdict /\ v = verdict[g]
             \/ verdict' = [verdict EXCEPT ![g] = v],
             v # "none" <=> s \in {"sending"} \cup Over
      PROVE  VerdictInv'
  BY <1>0, <1>a DEF VerdictInv, TypeOK
<1>b. ASSUME UNCHANGED <<goroutine, verdict>> PROVE VerdictInv'
  BY <1>0, <1>b DEF VerdictInv
<1>1. CASE BeginAttempt
  BY <1>0, <1>1, <1>b DEF BeginAttempt, TypeOK
<1>2. CASE GiveUp
  BY <1>0, <1>2, <1>b DEF GiveUp, TypeOK
<1>3. CASE BackoffOver
  BY <1>0, <1>3, <1>b DEF BackoffOver, TypeOK
<1>4. ASSUME NEW r \in Soft \cup Hard, RunPlain(r) PROVE VerdictInv'
  BY <1>0, <1>4, <1>b DEF RunPlain, TypeOK
<1>5. CASE CannotExpand
  BY <1>0, <1>5, <1>b DEF CannotExpand, TypeOK
<1>6. CASE Expand
  BY <1>0, <1>6, <1>b DEF Expand, TypeOK
<1>7. ASSUME NEW i \in Instance, Spawn(i) PROVE VerdictInv'
  <2>1. <<attempt, i>> \in Goroutine /\ goroutine[<<attempt, i>>] = "none"
    BY <1>0, <1>7, AttemptIsOne DEF Spawn, Goroutine, IInv
  <2>2. verdict[<<attempt, i>>] = "none"
    BY <1>0, <2>1 DEF VerdictInv, Over
  <2>3. QED
    BY <1>0, <1>7, <1>a, <2>1, <2>2 DEF Spawn, Over
<1>8. ASSUME NEW i \in Instance, Collect(i) PROVE VerdictInv'
  <2>1. <<attempt, i>> \in Goroutine /\ goroutine[<<attempt, i>>] = "sending"
    BY <1>0, <1>8, AttemptIsOne DEF Collect, Goroutine
  <2>2. verdict[<<attempt, i>>] # "none"
    BY <1>0, <2>1 DEF VerdictInv
  <2>3. QED
    BY <1>0, <1>8, <1>a, <2>1, <2>2 DEF Collect, Over
<1>9. ASSUME NEW g \in Goroutine, Acquire(g) PROVE VerdictInv'
  <2>1. verdict[g] = "none" /\ verdict' = verdict
    BY <1>0, <1>9 DEF Acquire, VerdictInv, Over
  <2>2. QED
    BY <1>9, <1>a, <2>1 DEF Acquire, Over
<1>10. ASSUME NEW g \in Goroutine, Start(g) PROVE VerdictInv'
  <2>1. verdict[g] = "none" /\ verdict' = verdict
    BY <1>0, <1>10 DEF Start, VerdictInv, Over
  <2>2. QED
    BY <1>10, <1>a, <2>1 DEF Start, Over
<1>11. ASSUME NEW g \in Goroutine, Abandon(g) PROVE VerdictInv'
  BY <1>0, <1>11, <1>a DEF Abandon, Over
<1>12. ASSUME NEW g \in Goroutine, NEW r \in Soft \cup Hard, Finish(g, r)
       PROVE  VerdictInv'
  <2> DEFINE after == RetryAfter(r, spent, Cancelled)
  <2>1. /\ goroutine[g] = "running"
        /\ goroutine' = [goroutine EXCEPT ![g] =
                            IF after.again THEN "backoff" ELSE "sending"]
        /\ verdict' = [verdict EXCEPT ![g] =
                            IF after.again THEN verdict[g] ELSE after.verdict]
    BY <1>12 DEF Finish
  <2>2. verdict[g] = "none"
    BY <1>0, <2>1 DEF VerdictInv, Over
  <2>3. after.verdict # "none"
    BY <1>0, RetryFacts DEF TypeOK, Cancelled, ParentEnded, Soft, Hard
  <2> HIDE DEF after
  <2>4. QED
    BY <1>a, <2>1, <2>2, <2>3 DEF Over
<1>13. ASSUME NEW g \in Goroutine, Wake(g) PROVE VerdictInv'
  <2>1. verdict[g] = "none" /\ verdict' = verdict
    BY <1>0, <1>13 DEF Wake, VerdictInv, Over
  <2>2. QED
    BY <1>13, <1>a, <2>1 DEF Wake, Over
<1>14. ASSUME NEW g \in Goroutine, Release(g) PROVE VerdictInv'
  <2>1. verdict[g] # "none" /\ verdict' = verdict
    BY <1>0, <1>14 DEF Release, VerdictInv, Over
  <2>2. QED
    BY <1>14, <1>a, <2>1 DEF Release, Over
<1>15. CASE CancelParent \/ ParentExpires
  BY <1>0, <1>15, <1>b DEF CancelParent, ParentExpires, ParentEnds, TypeOK
<1>16. CASE UNCHANGED vars
  BY <1>0, <1>16, <1>b DEF vars, TypeOK
<1>17. QED
  BY <1>1, <1>2, <1>3, <1>4, <1>5, <1>6, <1>7, <1>8, <1>9,
     <1>10, <1>11, <1>12, <1>13, <1>14, <1>15, <1>16
     DEF Next, Step, Worker

LEMMA ExistStep == IInv /\ [Next]_vars => ExistInv'
<1> SUFFICES ASSUME IInv, [Next]_vars PROVE ExistInv'
  OBVIOUS
<1>0. TypeOK /\ ExistInv /\ AttemptInv /\ ErrsInv
  BY DEF IInv
<1>t. attempt \in Nat /\ \A a \in Attempt : a \in Nat
  BY <1>0, Numbers DEF TypeOK, Attempt
\* A goroutine of the attempt goes one step on.
<1>a. ASSUME NEW g \in Goroutine, NEW s,
             goroutine' = [goroutine EXCEPT ![g] = s],
             UNCHANGED <<attempt, pc>>,
             \/ goroutine[g] \in Busy /\ s \in Busy
             \/ goroutine[g] = "sent" /\ s = "gone"
      PROVE  ExistInv'
  <2>1. \A h \in Goroutine :
            /\ goroutine'[h] = "none" <=> goroutine[h] = "none"
            /\ goroutine'[h] \in Busy => goroutine[h] \in Busy
            /\ goroutine'[h] \in Over => goroutine[h] \in Over
    BY <1>0, <1>a DEF TypeOK, Busy, Over
  <2>2. QED
    BY <1>0, <1>a, <2>1 DEF ExistInv, Goroutine
\* The step goes from where none of its goroutines is busy to where none is.
<1>b. ASSUME goroutine' = goroutine, attempt' = attempt,
             pc \in {"try", "matrix", "backoff"},
             pc' \in {"try", "backoff", "returned"}
      PROVE  ExistInv'
  BY <1>0, <1>b, <1>t DEF ExistInv
<1>c. ASSUME UNCHANGED <<goroutine, attempt, pc>> PROVE ExistInv'
  BY <1>0, <1>c DEF ExistInv
<1>1. CASE BeginAttempt
  <2>1. /\ pc = "try" /\ pc' = "matrix"
        /\ attempt' = attempt + 1 /\ goroutine' = goroutine
    BY <1>1 DEF BeginAttempt
  <2>2. \A a \in Attempt : a > attempt' \/ a = attempt' => a > attempt
    BY <1>t, <2>1
  <2>3. \A a \in Attempt, i \in Instance :
            a > attempt => goroutine[<<a, i>>] = "none"
    BY <1>0 DEF ExistInv
  <2>4. \A a \in Attempt, i \in Instance : goroutine[<<a, i>>] \notin Busy
    BY <1>0, <2>1 DEF ExistInv
  <2>5. QED
    BY <2>1, <2>2, <2>3, <2>4 DEF ExistInv
<1>2. CASE GiveUp
  BY <1>0, <1>2, <1>b, <1>c DEF GiveUp, ExistInv
<1>3. CASE BackoffOver
  BY <1>0, <1>3, <1>b, <1>c DEF BackoffOver, ExistInv
<1>4. ASSUME NEW r \in Soft \cup Hard, RunPlain(r) PROVE ExistInv'
  <2>1. /\ pc = "matrix" /\ pc' \in {"backoff", "returned"}
        /\ UNCHANGED <<goroutine, attempt>>
    BY <1>0, <1>4, EndAttemptFacts DEF RunPlain
  <2>2. QED
    BY <1>b, <2>1
<1>5. CASE CannotExpand
  <2>1. PICK r \in Soft \cup Hard : EndAttempt(r)
    BY <1>5 DEF CannotExpand, Soft, Hard
  <2>2. pc' \in {"backoff", "returned"}
    BY <1>0, <2>1, EndAttemptFacts
  <2>3. QED
    BY <1>5, <1>b, <2>2 DEF CannotExpand
<1>6. CASE Expand
  BY <1>0, <1>6, <1>t DEF Expand, ExistInv, Over, Busy
<1>7. ASSUME NEW i \in Instance, Spawn(i) PROVE ExistInv'
  <2> DEFINE s == IF MaxConcurrent > 0 THEN "queued" ELSE "try"
  <2>1. /\ pc = "spawn" /\ attempt' = attempt
        /\ goroutine[<<attempt, i>>] = "none"
        /\ goroutine' = [goroutine EXCEPT ![<<attempt, i>>] = s]
        /\ pc' = IF \A j \in Instance \ {i} : goroutine[<<attempt, j>>] # "none"
                 THEN "collect" ELSE "spawn"
    BY <1>7 DEF Spawn
  <2>2. attempt \in Attempt /\ <<attempt, i>> \in Goroutine
    BY <2>1, AttemptIsOne DEF Goroutine
  <2>3. s \in Busy /\ s # "none" /\ s \notin Over
    BY DEF Busy, Over
  <2> HIDE DEF s
  <2>4. \A a \in Attempt, j \in Instance :
            goroutine'[<<a, j>>] = IF a = attempt /\ j = i THEN s
                                   ELSE goroutine[<<a, j>>]
    BY <1>0, <2>1, <2>2 DEF TypeOK, Goroutine
  <2>5. \A a \in Attempt, j \in Instance :
            /\ a > attempt => goroutine'[<<a, j>>] = "none"
            /\ goroutine'[<<a, j>>] \in Busy => a = attempt
            /\ a = attempt => goroutine'[<<a, j>>] \notin Over
    <3> TAKE a \in Attempt, j \in Instance
    <3>1. /\ a > attempt => goroutine[<<a, j>>] = "none"
          /\ goroutine[<<a, j>>] \in Busy => a = attempt
          /\ a = attempt => goroutine[<<a, j>>] \notin Over
      BY <1>0, <2>1 DEF ExistInv
    <3>2. a > attempt => a # attempt
      BY <1>t
    <3>3. QED
      BY <2>3, <2>4, <3>1, <3>2
  <2>6. pc' = "collect" => \A j \in Instance : goroutine'[<<attempt, j>>] # "none"
    BY <2>1, <2>2, <2>3, <2>4
  <2>7. QED
    BY <2>1, <2>5, <2>6 DEF ExistInv
<1>8. ASSUME NEW i \in Instance, Collect(i) PROVE ExistInv'
  <2>1. /\ pc = "collect" /\ attempt' = attempt
        /\ goroutine[<<attempt, i>>] = "sending"
        /\ goroutine' = [goroutine EXCEPT ![<<attempt, i>>] = "sent"]
    BY <1>8 DEF Collect
  <2>2. attempt \in Attempt /\ <<attempt, i>> \in Goroutine
    BY <2>1, AttemptIsOne DEF Goroutine
  <2>3. \A a \in Attempt, j \in Instance :
            goroutine'[<<a, j>>] = IF a = attempt /\ j = i THEN "sent"
                                   ELSE goroutine[<<a, j>>]
    BY <1>0, <2>1, <2>2 DEF TypeOK, Goroutine
  <2>4. \A a \in Attempt, j \in Instance :
            /\ a > attempt => goroutine'[<<a, j>>] = "none"
            /\ goroutine'[<<a, j>>] \in Busy =>
                   a = attempt /\ goroutine[<<a, j>>] \in Busy
            /\ a = attempt => goroutine'[<<a, j>>] # "none"
    <3> TAKE a \in Attempt, j \in Instance
    <3>1. /\ a > attempt => goroutine[<<a, j>>] = "none"
          /\ goroutine[<<a, j>>] \in Busy => a = attempt
          /\ a = attempt => goroutine[<<a, j>>] # "none"
      BY <1>0, <2>1 DEF ExistInv
    <3>2. /\ a > attempt => a # attempt
          /\ "sent" \notin Busy
      BY <1>t DEF Busy
    <3>3. QED
      BY <2>3, <3>1, <3>2
  <2>5. CASE pc' = pc
    BY <2>1, <2>4, <2>5 DEF ExistInv
  <2>6. CASE pc' # pc
    <3>1. Received(attempt) \cup {i} = Instance
      BY <1>8, <2>6 DEF Collect
    <3>2. pc' \in {"backoff", "returned"}
      <4>1. PICK r \in Soft \cup Hard : EndAttempt(r)
        BY <1>8, <3>1 DEF Collect, Soft, Hard
      <4>2. QED
        BY <1>0, <4>1, EndAttemptFacts
    <3>3. \A j \in Instance : goroutine'[<<attempt, j>>] \notin Busy
      <4>1. \A j \in Instance : j = i \/ j \in Received(attempt)
        BY <3>1
      <4>2. \A j \in Instance : goroutine'[<<attempt, j>>] \in Over
        BY <2>2, <2>3, <4>1 DEF Received, Over
      <4>3. QED
        BY <4>2 DEF Over, Busy
    <3>4. QED
      BY <2>1, <2>4, <3>2, <3>3 DEF ExistInv
  <2>7. QED
    BY <2>5, <2>6
<1>9. ASSUME NEW g \in Goroutine, Acquire(g) PROVE ExistInv'
  BY <1>9, <1>a DEF Acquire, stepVars, Busy
<1>10. ASSUME NEW g \in Goroutine, Start(g) PROVE ExistInv'
  BY <1>10, <1>a DEF Start, stepVars, Busy
<1>11. ASSUME NEW g \in Goroutine, Abandon(g) PROVE ExistInv'
  BY <1>11, <1>a DEF Abandon, stepVars, Busy
<1>12. ASSUME NEW g \in Goroutine, NEW r \in Soft \cup Hard, Finish(g, r)
       PROVE  ExistInv'
  <2> DEFINE s == IF RetryAfter(r, spent, Cancelled).again THEN "backoff" ELSE "sending"
  <2>1. /\ goroutine[g] = "running"
        /\ goroutine' = [goroutine EXCEPT ![g] = s]
        /\ UNCHANGED <<attempt, pc>>
    BY <1>12 DEF Finish, stepVars
  <2>2. s \in Busy /\ "running" \in Busy
    BY DEF Busy
  <2> HIDE DEF s
  <2>3. QED
    BY <1>a, <2>1, <2>2
<1>13. ASSUME NEW g \in Goroutine, Wake(g) PROVE ExistInv'
  BY <1>13, <1>a DEF Wake, stepVars, Busy
<1>14. ASSUME NEW g \in Goroutine, Release(g) PROVE ExistInv'
  BY <1>14, <1>a DEF Release, stepVars, Busy
<1>15. CASE CancelParent \/ ParentExpires
  BY <1>0, <1>15, <1>b, <1>c DEF CancelParent, ParentExpires, ParentEnds, ExistInv
<1>16. CASE UNCHANGED vars
  BY <1>0, <1>16, <1>b, <1>c DEF vars, ExistInv
<1>17. QED
  BY <1>1, <1>2, <1>3, <1>4, <1>5, <1>6, <1>7, <1>8, <1>9,
     <1>10, <1>11, <1>12, <1>13, <1>14, <1>15, <1>16
     DEF Next, Step, Worker

LEMMA OutcomeStep == IInv /\ [Next]_vars => OutcomeInv'
<1> SUFFICES ASSUME IInv, [Next]_vars PROVE OutcomeInv'
  OBVIOUS
<1>0. TypeOK /\ OutcomeInv /\ AttemptInv
  BY DEF IInv
<1>t. attempt \in Nat /\ \A a \in Attempt : a \in Nat
  BY <1>0, Numbers DEF TypeOK, Attempt
<1>a. ASSUME UNCHANGED <<outcome, attempt>>,
             pc' \in {"matrix", "spawn", "collect"} =>
                 pc \in {"matrix", "spawn", "collect"}
      PROVE  OutcomeInv'
  BY <1>0, <1>a DEF OutcomeInv
<1>1. CASE BeginAttempt
  BY <1>0, <1>1, <1>t DEF BeginAttempt, OutcomeInv
<1>2. CASE GiveUp
  BY <1>0, <1>2, <1>a DEF GiveUp, OutcomeInv
<1>3. CASE BackoffOver
  BY <1>0, <1>3, <1>a DEF BackoffOver, OutcomeInv
<1>4. ASSUME NEW r \in Soft \cup Hard, RunPlain(r) PROVE OutcomeInv'
  BY <1>0, <1>4, <1>a DEF RunPlain
<1>5. CASE CannotExpand
  <2>1. PICK r \in Soft \cup Hard : EndAttempt(r)
    BY <1>5 DEF CannotExpand, Soft, Hard
  <2>2. pc' \in {"backoff", "returned"}
    BY <1>0, <2>1, EndAttemptFacts
  <2>3. /\ attempt' = attempt
        /\ outcome' = [outcome EXCEPT ![attempt] = "broken"]
    BY <1>5 DEF CannotExpand
  <2>4. \A a \in Attempt : a > attempt => outcome'[a] = "running"
    BY <1>0, <1>t, <2>3 DEF OutcomeInv, TypeOK
  <2>5. QED
    BY <2>2, <2>3, <2>4 DEF OutcomeInv
<1>6. CASE Expand
  BY <1>0, <1>6, <1>a DEF Expand, OutcomeInv
<1>7. ASSUME NEW i \in Instance, Spawn(i) PROVE OutcomeInv'
  BY <1>0, <1>7, <1>a DEF Spawn, OutcomeInv
<1>8. ASSUME NEW i \in Instance, Collect(i) PROVE OutcomeInv'
  <2>1. pc = "collect" /\ attempt' = attempt
    BY <1>8 DEF Collect
  <2>2. CASE UNCHANGED <<pc, outcome>>
    BY <1>a, <2>1, <2>2
  <2>3. CASE ~(UNCHANGED <<pc, outcome>>)
    <3>1. PICK r \in Soft \cup Hard : EndAttempt(r)
      BY <1>8, <2>3 DEF Collect, Soft, Hard
    <3>2. pc' \in {"backoff", "returned"}
      BY <1>0, <3>1, EndAttemptFacts
    <3>3. PICK o : outcome' = [outcome EXCEPT ![attempt] = o]
      BY <1>8, <2>3 DEF Collect
    <3>4. \A a \in Attempt : a > attempt => outcome'[a] = "running"
      BY <1>0, <1>t, <3>3 DEF OutcomeInv, TypeOK
    <3>5. QED
      BY <2>1, <3>2, <3>4 DEF OutcomeInv
  <2>4. QED
    BY <2>2, <2>3
<1>9. ASSUME NEW g \in Goroutine, Acquire(g) PROVE OutcomeInv'
  BY <1>0, <1>9, <1>a DEF Acquire, stepVars, OutcomeInv
<1>10. ASSUME NEW g \in Goroutine, Start(g) PROVE OutcomeInv'
  BY <1>0, <1>10, <1>a DEF Start, stepVars, OutcomeInv
<1>11. ASSUME NEW g \in Goroutine, Abandon(g) PROVE OutcomeInv'
  BY <1>0, <1>11, <1>a DEF Abandon, stepVars, OutcomeInv
<1>12. ASSUME NEW g \in Goroutine, NEW r \in Soft \cup Hard, Finish(g, r)
       PROVE  OutcomeInv'
  BY <1>0, <1>12, <1>a DEF Finish, stepVars, OutcomeInv
<1>13. ASSUME NEW g \in Goroutine, Wake(g) PROVE OutcomeInv'
  BY <1>0, <1>13, <1>a DEF Wake, stepVars, OutcomeInv
<1>14. ASSUME NEW g \in Goroutine, Release(g) PROVE OutcomeInv'
  BY <1>0, <1>14, <1>a DEF Release, stepVars, OutcomeInv
<1>15. CASE CancelParent \/ ParentExpires
  BY <1>0, <1>15, <1>a DEF CancelParent, ParentExpires, ParentEnds, OutcomeInv
<1>16. CASE UNCHANGED vars
  BY <1>0, <1>16, <1>a DEF vars, OutcomeInv
<1>17. QED
  BY <1>1, <1>2, <1>3, <1>4, <1>5, <1>6, <1>7, <1>8, <1>9,
     <1>10, <1>11, <1>12, <1>13, <1>14, <1>15, <1>16
     DEF Next, Step, Worker

LEMMA RunsStep == IInv /\ [Next]_vars => RunsInv'
<1> SUFFICES ASSUME IInv, [Next]_vars PROVE RunsInv'
  OBVIOUS
<1>0. TypeOK /\ RunsInv
  BY DEF IInv
\* A step of one goroutine that is no pass.
<1>a. ASSUME NEW g \in Goroutine, NEW s, runs' = runs,
             goroutine' = [goroutine EXCEPT ![g] = s],
             s # "running", s \in {"none", "queued"} => runs[g] = 0
      PROVE  RunsInv'
  BY <1>0, <1>a DEF RunsInv, TypeOK
<1>b. ASSUME UNCHANGED <<goroutine, runs>> PROVE RunsInv'
  BY <1>0, <1>b DEF RunsInv
<1>1. CASE BeginAttempt
  BY <1>0, <1>1, <1>b DEF BeginAttempt, TypeOK
<1>2. CASE GiveUp
  BY <1>0, <1>2, <1>b DEF GiveUp, TypeOK
<1>3. CASE BackoffOver
  BY <1>0, <1>3, <1>b DEF BackoffOver, TypeOK
<1>4. ASSUME NEW r \in Soft \cup Hard, RunPlain(r) PROVE RunsInv'
  BY <1>0, <1>4, <1>b DEF RunPlain, TypeOK
<1>5. CASE CannotExpand
  BY <1>0, <1>5, <1>b DEF CannotExpand, TypeOK
<1>6. CASE Expand
  BY <1>0, <1>6, <1>b DEF Expand, TypeOK
<1>7. ASSUME NEW i \in Instance, Spawn(i) PROVE RunsInv'
  <2>1. <<attempt, i>> \in Goroutine /\ goroutine[<<attempt, i>>] = "none"
    BY <1>7, AttemptIsOne DEF Spawn, Goroutine
  <2>2. runs[<<attempt, i>>] = 0
    BY <1>0, <2>1 DEF RunsInv
  <2>3. QED
    BY <1>7, <1>a, <2>1, <2>2 DEF Spawn
<1>8. ASSUME NEW i \in Instance, Collect(i) PROVE RunsInv'
  <2>1. <<attempt, i>> \in Goroutine
    BY <1>8, AttemptIsOne DEF Collect, Goroutine
  <2>2. QED
    BY <1>8, <1>a, <2>1 DEF Collect
<1>9. ASSUME NEW g \in Goroutine, Acquire(g) PROVE RunsInv'
  BY <1>9, <1>a DEF Acquire, stepVars
<1>10. ASSUME NEW g \in Goroutine, Start(g) PROVE RunsInv'
  BY <1>0, <1>10 DEF Start, RunsInv, TypeOK
<1>11. ASSUME NEW g \in Goroutine, Abandon(g) PROVE RunsInv'
  BY <1>11, <1>a DEF Abandon, stepVars
<1>12. ASSUME NEW g \in Goroutine, NEW r \in Soft \cup Hard, Finish(g, r)
       PROVE  RunsInv'
  <2> DEFINE s == IF RetryAfter(r, spent, Cancelled).again THEN "backoff" ELSE "sending"
  <2>1. goroutine' = [goroutine EXCEPT ![g] = s] /\ runs' = runs
    BY <1>12 DEF Finish
  <2>2. s \notin {"running", "none", "queued"}
    OBVIOUS
  <2> HIDE DEF s
  <2>3. QED
    BY <1>a, <2>1, <2>2
<1>13. ASSUME NEW g \in Goroutine, Wake(g) PROVE RunsInv'
  BY <1>13, <1>a DEF Wake, stepVars
<1>14. ASSUME NEW g \in Goroutine, Release(g) PROVE RunsInv'
  BY <1>14, <1>a DEF Release, stepVars
<1>15. CASE CancelParent \/ ParentExpires
  BY <1>0, <1>15, <1>b DEF CancelParent, ParentExpires, ParentEnds, TypeOK
<1>16. CASE UNCHANGED vars
  BY <1>0, <1>16, <1>b DEF vars, TypeOK
<1>17. QED
  BY <1>1, <1>2, <1>3, <1>4, <1>5, <1>6, <1>7, <1>8, <1>9,
     <1>10, <1>11, <1>12, <1>13, <1>14, <1>15, <1>16
     DEF Next, Step, Worker

LEMMA TypeStep == IInv /\ [Next]_vars => TypeOK'
<1> SUFFICES ASSUME IInv, [Next]_vars PROVE TypeOK'
  OBVIOUS
<1>0. TypeOK /\ AttemptInv /\ PoolInv /\ BudgetInv
  BY DEF IInv
<1> USE Numbers
\* The combination that an instance was started with stays the same.
<1>m. ASSUME matrix' = matrix,
             \A g \in Goroutine : goroutine'[g] # "none" => goroutine[g] # "none"
      PROVE  /\ DOMAIN matrix' = Goroutine
             /\ \A g \in Goroutine : goroutine'[g] # "none" =>
                    matrix'[g] \in ExtendMatrix(Matrixes[Keys[g[2]]], Include)
  BY <1>0, <1>m DEF TypeOK
<1>e. ASSUME NEW r \in Soft \cup Hard, EndAttempt(r)
      PROVE  /\ retries' \in 0..MaxRetries
             /\ result' \in {"none"} \cup Soft \cup Hard
             /\ pc' \in {"try", "matrix", "spawn", "collect", "backoff", "returned"}
  BY <1>0, <1>e, EndAttemptFacts
<1>1. CASE BeginAttempt
  <2>1. attempt' \in {0} \cup Attempt
    <3>1. pc = "try" /\ attempt' = attempt + 1
      BY <1>1 DEF BeginAttempt
    <3>2. attempt = retries /\ (retries > 0 => HasRetry) /\ retries \in 0..MaxRetries
      BY <1>0, <3>1 DEF AttemptInv, TypeOK
    <3>3. CASE HasRetry
      BY <3>1, <3>2, <3>3 DEF Attempt
    <3>4. CASE ~HasRetry
      BY <3>1, <3>2, <3>4 DEF Attempt
    <3>5. QED
      BY <3>3, <3>4
  <2>2. marked' \in BOOLEAN
    BY <1>0, <1>1 DEF BeginAttempt, TypeOK
  <2>3. DOMAIN matrix' = Goroutine /\ \A h \in Goroutine : goroutine'[h] # "none" =>
            matrix'[h] \in ExtendMatrix(Matrixes[Keys[h[2]]], Include)
    BY <1>0, <1>1, <1>m DEF BeginAttempt, TypeOK
  <2>4. QED
    BY <1>0, <1>1, <2>1, <2>2, <2>3 DEF BeginAttempt, stepVars, TypeOK
<1>2. CASE GiveUp
  <2>1. result' \in {"none"} \cup Soft \cup Hard
    BY <1>2 DEF GiveUp, Hard
  <2>2. DOMAIN matrix' = Goroutine /\ \A h \in Goroutine : goroutine'[h] # "none" =>
            matrix'[h] \in ExtendMatrix(Matrixes[Keys[h[2]]], Include)
    BY <1>0, <1>2, <1>m DEF GiveUp, TypeOK
  <2>3. QED
    BY <1>0, <1>2, <2>1, <2>2 DEF GiveUp, stepVars, TypeOK
<1>3. CASE BackoffOver
  BY <1>0, <1>3, <1>m DEF BackoffOver, TypeOK
<1>4. ASSUME NEW r \in Soft \cup Hard, RunPlain(r) PROVE TypeOK'
  <2>1. retries' \in 0..MaxRetries /\ pc' \in {"try", "matrix", "spawn", "collect", "backoff", "returned"}
    BY <1>0, <1>4, <1>e DEF RunPlain, TypeOK
  <2>2. result' \in {"none"} \cup Soft \cup Hard
    BY <1>0, <1>4, <1>e DEF RunPlain, TypeOK
  <2>3. outputs' \in Seq({0} \cup Instance)
    <3>1. <<0>> \in Seq({0} \cup Instance)
      OBVIOUS
    <3>2. QED
      BY <1>0, <1>4, <3>1 DEF RunPlain, TypeOK
  <2>4. plain' \in BOOLEAN
    BY <1>0, <1>4 DEF RunPlain, TypeOK
  <2>5. DOMAIN matrix' = Goroutine /\ \A h \in Goroutine : goroutine'[h] # "none" =>
            matrix'[h] \in ExtendMatrix(Matrixes[Keys[h[2]]], Include)
    BY <1>0, <1>4, <1>m DEF RunPlain, TypeOK
  <2>6. QED
    BY <1>0, <1>4, <2>1, <2>2, <2>3, <2>4, <2>5 DEF RunPlain, stepVars, TypeOK
<1>5. CASE CannotExpand
  <2>1. PICK r \in Soft \cup Hard : EndAttempt(r)
    BY <1>5 DEF CannotExpand, Soft, Hard
  <2>2. retries' \in 0..MaxRetries /\ pc' \in {"try", "matrix", "spawn", "collect", "backoff", "returned"}
    BY <2>1, <1>e DEF CannotExpand, TypeOK
  <2>3. result' \in {"none"} \cup Soft \cup Hard
    BY <2>1, <1>e DEF CannotExpand, TypeOK
  <2>4. outcome' \in [Attempt -> {"running", "next", "failed", "broken"}]
    BY <1>0, <1>5 DEF CannotExpand, TypeOK
  <2>5. marked' \in BOOLEAN
    BY <1>0, <1>5 DEF CannotExpand, TypeOK
  <2>6. DOMAIN matrix' = Goroutine /\ \A h \in Goroutine : goroutine'[h] # "none" =>
            matrix'[h] \in ExtendMatrix(Matrixes[Keys[h[2]]], Include)
    BY <1>0, <1>5, <1>m DEF CannotExpand, TypeOK
  <2>7. QED
    BY <1>0, <1>5, <2>1, <2>2, <2>3, <2>4, <2>5, <2>6 DEF CannotExpand, stepVars, TypeOK
<1>6. CASE Expand
  <2>1. errs' \in Seq(Instance)
    BY <1>0, <1>6 DEF Expand, TypeOK
  <2>2. spent' \in 0..MaxRetries
    BY <1>0, <1>6 DEF Expand, TypeOK
  <2>3. marked' \in BOOLEAN /\ cancelled' \in BOOLEAN
    BY <1>0, <1>6 DEF Expand, TypeOK
  <2>4. DOMAIN matrix' = Goroutine /\ \A h \in Goroutine : goroutine'[h] # "none" =>
            matrix'[h] \in ExtendMatrix(Matrixes[Keys[h[2]]], Include)
    BY <1>0, <1>6, <1>m DEF Expand, TypeOK
  <2>5. QED
    BY <1>0, <1>6, <2>1, <2>2, <2>3, <2>4 DEF Expand, stepVars, TypeOK
<1>7. ASSUME NEW i \in Instance, Spawn(i) PROVE TypeOK'
  <2> DEFINE s == IF MaxConcurrent > 0 THEN "queued" ELSE "try"
             h == <<attempt, i>>
  <2>1. h \in Goroutine
    BY <1>7, AttemptIsOne DEF Spawn, Goroutine
  <2>2. PICK m \in ExtendMatrix(Matrixes[Keys[i]], Include) :
            matrix' = [matrix EXCEPT ![h] = m]
    BY <1>7 DEF Spawn
  <2>3. goroutine' = [goroutine EXCEPT ![h] = s]
    BY <1>7 DEF Spawn
  <2>4. h[2] = i
    OBVIOUS
  <2> HIDE DEF h
  <2>5. DOMAIN matrix' = Goroutine /\ \A g \in Goroutine : goroutine'[g] # "none" =>
            matrix'[g] \in ExtendMatrix(Matrixes[Keys[g[2]]], Include)
    <3>1. DOMAIN matrix' = Goroutine
      BY <1>0, <2>2 DEF TypeOK
    <3>2. matrix'[h] = m
      BY <1>0, <2>1, <2>2 DEF TypeOK
    <3>3. \A g \in Goroutine : g # h =>
              matrix'[g] = matrix[g] /\ goroutine'[g] = goroutine[g]
      BY <1>0, <2>1, <2>2, <2>3 DEF TypeOK
    <3>4. QED
      BY <1>0, <2>4, <3>1, <3>2, <3>3 DEF TypeOK
  <2>6. goroutine' \in [Goroutine -> {"none", "queued", "try", "running", "backoff",
                                     "sending", "sent", "gone"}]
    BY <1>0, <2>1, <2>3 DEF TypeOK
  <2>7. pc' \in {"spawn", "collect"}
    BY <1>7 DEF Spawn
  <2>8. QED
    BY <1>0, <1>7, <2>5, <2>6, <2>7 DEF Spawn, TypeOK
<1>8. ASSUME NEW i \in Instance, Collect(i) PROVE TypeOK'
  <2>1. <<attempt, i>> \in Goroutine
    BY <1>8, AttemptIsOne DEF Collect, Goroutine
  <2>2. goroutine' \in [Goroutine -> {"none", "queued", "try", "running", "backoff",
                                     "sending", "sent", "gone"}]
    BY <1>0, <1>8, <2>1 DEF Collect, TypeOK
  <2>3. DOMAIN matrix' = Goroutine /\ \A h \in Goroutine : goroutine'[h] # "none" =>
            matrix'[h] \in ExtendMatrix(Matrixes[Keys[h[2]]], Include)
    BY <1>0, <1>8, <1>m, <2>1 DEF Collect, TypeOK
  <2>4. errs' \in Seq(Instance)
    BY <1>0, <1>8 DEF Collect, ErrsAfter, TypeOK
  <2>5. outputs' \in Seq({0} \cup Instance)
    <3>1. outputs \in Seq({0} \cup Instance) /\ Append(outputs, i) \in Seq({0} \cup Instance)
      BY <1>0 DEF TypeOK
    <3>2. QED
      BY <1>8, <3>1 DEF Collect
  <2>6. cancelled' \in BOOLEAN
    BY <1>0, <1>8 DEF Collect, TypeOK
  <2>7. outcome' \in [Attempt -> {"running", "next", "failed", "broken"}]
    BY <1>0, <1>8 DEF Collect, TypeOK
  <2>8. retries' \in 0..MaxRetries /\ pc' \in {"try", "matrix", "spawn", "collect", "backoff", "returned"}
        /\ result' \in {"none"} \cup Soft \cup Hard
    <3>1. CASE UNCHANGED <<pc, retries, result>>
      BY <1>0, <3>1 DEF TypeOK
    <3>2. CASE \E r \in Soft \cup Hard : EndAttempt(r)
      BY <3>2, <1>e
    <3>3. QED
      BY <1>8, <3>1, <3>2 DEF Collect, Soft, Hard
  <2>9. QED
    BY <1>0, <1>8, <2>1, <2>2, <2>3, <2>4, <2>5, <2>6, <2>7, <2>8 DEF Collect, stepVars, TypeOK
<1>9. ASSUME NEW g \in Goroutine, Acquire(g) PROVE TypeOK'
  <2>1. goroutine' \in [Goroutine -> {"none", "queued", "try", "running", "backoff",
                                     "sending", "sent", "gone"}]
    BY <1>0, <1>9 DEF Acquire, TypeOK
  <2>2. pool' \in 0..MaxConcurrent
    BY <1>0, <1>9 DEF Acquire, TypeOK
  <2>3. DOMAIN matrix' = Goroutine /\ \A h \in Goroutine : goroutine'[h] # "none" =>
            matrix'[h] \in ExtendMatrix(Matrixes[Keys[h[2]]], Include)
    BY <1>0, <1>9, <1>m DEF Acquire, stepVars, TypeOK
  <2>4. QED
    BY <1>0, <1>9, <2>1, <2>2, <2>3 DEF Acquire, stepVars, TypeOK
<1>10. ASSUME NEW g \in Goroutine, Start(g) PROVE TypeOK'
  <2>1. goroutine' \in [Goroutine -> {"none", "queued", "try", "running", "backoff",
                                     "sending", "sent", "gone"}]
    BY <1>0, <1>10 DEF Start, TypeOK
  <2>2. runs' \in [Goroutine -> 0..(MaxRetries + 1)]
    <3>1. PICK a \in Attempt, i \in Instance : g = <<a, i>>
      BY DEF Goroutine
    <3>2. Granted(g) <= MaxRetries /\ Granted(g) = runs[g]
      BY <1>0, <1>10, <3>1 DEF Start, BudgetInv, Granted
    <3>3. runs[g] + 1 \in 0..(MaxRetries + 1)
      BY <1>0, <3>2 DEF TypeOK
    <3>4. QED
      BY <1>0, <1>10, <3>3 DEF Start, TypeOK
  <2>3. DOMAIN matrix' = Goroutine /\ \A h \in Goroutine : goroutine'[h] # "none" =>
            matrix'[h] \in ExtendMatrix(Matrixes[Keys[h[2]]], Include)
    BY <1>0, <1>10, <1>m DEF Start, stepVars, TypeOK
  <2>4. QED
    BY <1>0, <1>10, <2>1, <2>2, <2>3 DEF Start, stepVars, TypeOK
<1>11. ASSUME NEW g \in Goroutine, Abandon(g) PROVE TypeOK'
  <2>1. goroutine' \in [Goroutine -> {"none", "queued", "try", "running", "backoff",
                                     "sending", "sent", "gone"}]
    BY <1>0, <1>11 DEF Abandon, TypeOK
  <2>2. verdict' \in [Goroutine -> {"none"} \cup Soft \cup Hard]
    BY <1>0, <1>11 DEF Abandon, TypeOK, Hard
  <2>3. DOMAIN matrix' = Goroutine /\ \A h \in Goroutine : goroutine'[h] # "none" =>
            matrix'[h] \in ExtendMatrix(Matrixes[Keys[h[2]]], Include)
    BY <1>0, <1>11, <1>m DEF Abandon, stepVars, TypeOK
  <2>4. QED
    BY <1>0, <1>11, <2>1, <2>2, <2>3 DEF Abandon, stepVars, TypeOK
<1>12. ASSUME NEW g \in Goroutine, NEW r \in Soft \cup Hard, Finish(g, r)
       PROVE  TypeOK'
  <2> DEFINE after == RetryAfter(r, spent, Cancelled)
  <2>1. /\ goroutine[g] = "running"
        /\ spent' = after.used
        /\ goroutine' = [goroutine EXCEPT ![g] =
                            IF after.again THEN "backoff" ELSE "sending"]
        /\ verdict' = [verdict EXCEPT ![g] =
                            IF after.again THEN verdict[g] ELSE after.verdict]
        /\ UNCHANGED <<runs, pool, stepVars>>
    BY <1>12 DEF Finish
  <2>2. spent' \in 0..MaxRetries /\ after.verdict \in Soft \cup Hard
    BY <1>0, <2>1, RetryFacts DEF TypeOK, Cancelled, ParentEnded
  <2> HIDE DEF after
  <2>3. goroutine' \in [Goroutine -> {"none", "queued", "try", "running", "backoff",
                                     "sending", "sent", "gone"}]
    BY <1>0, <2>1 DEF TypeOK
  <2>4. verdict' \in [Goroutine -> {"none"} \cup Soft \cup Hard]
    BY <1>0, <2>1, <2>2 DEF TypeOK
  <2>5. DOMAIN matrix' = Goroutine /\ \A h \in Goroutine : goroutine'[h] # "none" =>
            matrix'[h] \in ExtendMatrix(Matrixes[Keys[h[2]]], Include)
    BY <1>0, <2>1, <1>m DEF TypeOK, stepVars
  <2>6. QED
    BY <1>0, <2>1, <2>2, <2>3, <2>4, <2>5 DEF TypeOK, stepVars
<1>13. ASSUME NEW g \in Goroutine, Wake(g) PROVE TypeOK'
  <2>1. goroutine' \in [Goroutine -> {"none", "queued", "try", "running", "backoff",
                                     "sending", "sent", "gone"}]
    BY <1>0, <1>13 DEF Wake, TypeOK
  <2>2. DOMAIN matrix' = Goroutine /\ \A h \in Goroutine : goroutine'[h] # "none" =>
            matrix'[h] \in ExtendMatrix(Matrixes[Keys[h[2]]], Include)
    BY <1>0, <1>13, <1>m DEF Wake, stepVars, TypeOK
  <2>3. QED
    BY <1>0, <1>13, <2>1, <2>2 DEF Wake, stepVars, TypeOK
<1>14. ASSUME NEW g \in Goroutine, Release(g) PROVE TypeOK'
  <2>1. goroutine' \in [Goroutine -> {"none", "queued", "try", "running", "backoff",
                                     "sending", "sent", "gone"}]
    BY <1>0, <1>14 DEF Release, TypeOK
  <2>2. pool' \in 0..MaxConcurrent
    <3>1. CASE MaxConcurrent > 0
      <4>1. IsFiniteSet(Holding) /\ pool = Cardinality(Holding) /\ g \in Holding
        BY <1>0, <1>14, <3>1 DEF PoolInv, Release, Holding
      <4>2. pool # 0
        BY <4>1, FS_EmptySet
      <4>3. QED
        BY <1>0, <1>14, <3>1, <4>2 DEF Release, TypeOK
    <3>2. CASE ~(MaxConcurrent > 0)
      BY <1>0, <1>14, <3>2 DEF Release, TypeOK
    <3>3. QED
      BY <3>1, <3>2
  <2>3. DOMAIN matrix' = Goroutine /\ \A h \in Goroutine : goroutine'[h] # "none" =>
            matrix'[h] \in ExtendMatrix(Matrixes[Keys[h[2]]], Include)
    BY <1>0, <1>14, <1>m DEF Release, stepVars, TypeOK
  <2>4. QED
    BY <1>0, <1>14, <2>1, <2>2, <2>3 DEF Release, stepVars, TypeOK
<1>15. CASE CancelParent \/ ParentExpires
  BY <1>0, <1>15, <1>m DEF CancelParent, ParentExpires, ParentEnds, TypeOK
<1>16. CASE UNCHANGED vars
  BY <1>0, <1>16, <1>m DEF vars, TypeOK
<1>17. QED
  BY <1>1, <1>2, <1>3, <1>4, <1>5, <1>6, <1>7, <1>8, <1>9,
     <1>10, <1>11, <1>12, <1>13, <1>14, <1>15, <1>16
     DEF Next, Step, Worker

\* A step of a goroutine that neither takes nor gives back a token.
LEMMA HoldingStays ==
    ASSUME TypeOK, NEW g \in Goroutine, NEW s,
           goroutine' = [goroutine EXCEPT ![g] = s],
           g \in Holding <=> s \in {"try", "running", "backoff", "sending", "sent"}
    PROVE  Holding' = Holding
BY DEF Holding, TypeOK

LEMMA PoolStep == IInv /\ [Next]_vars => PoolInv'
<1> SUFFICES ASSUME IInv, [Next]_vars PROVE PoolInv'
  OBVIOUS
<1>0. TypeOK /\ PoolInv
  BY DEF IInv
<1>a. ASSUME MaxConcurrent > 0 => pool' = pool /\ Holding' = Holding PROVE PoolInv'
  BY <1>0, <1>a DEF PoolInv
<1>b. ASSUME UNCHANGED <<pool, goroutine>> PROVE PoolInv'
  BY <1>a, <1>b DEF Holding
<1>1. CASE BeginAttempt
  BY <1>0, <1>1, <1>b DEF BeginAttempt, Holding, TypeOK
<1>2. CASE GiveUp
  BY <1>0, <1>2, <1>b DEF GiveUp, Holding, TypeOK
<1>3. CASE BackoffOver
  BY <1>0, <1>3, <1>b DEF BackoffOver, Holding, TypeOK
<1>4. ASSUME NEW r \in Soft \cup Hard, RunPlain(r) PROVE PoolInv'
  BY <1>0, <1>4, <1>b DEF RunPlain, Holding, TypeOK
<1>5. CASE CannotExpand
  BY <1>0, <1>5, <1>b DEF CannotExpand, Holding, TypeOK
<1>6. CASE Expand
  BY <1>0, <1>6, <1>b DEF Expand, Holding, TypeOK
<1>7. ASSUME NEW i \in Instance, Spawn(i) PROVE PoolInv'
  <2>1. <<attempt, i>> \in Goroutine /\ goroutine[<<attempt, i>>] = "none"
    BY <1>7, AttemptIsOne DEF Spawn, Goroutine
  <2>2. ASSUME MaxConcurrent > 0 PROVE Holding' = Holding
    <3>1. goroutine' = [goroutine EXCEPT ![<<attempt, i>>] = "queued"]
      BY <1>7, <2>2 DEF Spawn
    <3>2. <<attempt, i>> \notin Holding
      BY <2>1 DEF Holding
    <3>3. QED
      BY <1>0, <2>1, <3>1, <3>2, HoldingStays
  <2>3. QED
    BY <1>7, <1>a, <2>2 DEF Spawn
<1>8. ASSUME NEW i \in Instance, Collect(i) PROVE PoolInv'
  <2>1. <<attempt, i>> \in Goroutine /\ <<attempt, i>> \in Holding
    BY <1>8, AttemptIsOne DEF Collect, Goroutine, Holding
  <2>2. /\ goroutine' = [goroutine EXCEPT ![<<attempt, i>>] = "sent"]
        /\ pool' = pool
    BY <1>8 DEF Collect
  <2>3. Holding' = Holding
    BY <1>0, <2>1, <2>2, HoldingStays
  <2>4. QED
    BY <1>a, <2>2, <2>3
<1>9. ASSUME NEW g \in Goroutine, Acquire(g) PROVE PoolInv'
  <2>1. Holding' = Holding \cup {g} /\ g \notin Holding
    BY <1>0, <1>9 DEF Acquire, Holding, TypeOK
  <2>2. pool' = pool + 1
    BY <1>9 DEF Acquire
  <2>3. QED
    BY <1>0, <2>1, <2>2, FS_AddElement DEF PoolInv
<1>10. ASSUME NEW g \in Goroutine, Start(g) PROVE PoolInv'
  <2>1. Holding' = Holding
    BY <1>0, <1>10, HoldingStays DEF Start, Holding
  <2>2. QED
    BY <1>10, <1>a, <2>1 DEF Start
<1>11. ASSUME NEW g \in Goroutine, Abandon(g) PROVE PoolInv'
  <2>1. Holding' = Holding
    BY <1>0, <1>11, HoldingStays DEF Abandon, Holding
  <2>2. QED
    BY <1>11, <1>a, <2>1 DEF Abandon
<1>12. ASSUME NEW g \in Goroutine, NEW r \in Soft \cup Hard, Finish(g, r)
       PROVE  PoolInv'
  <2>1. Holding' = Holding
    BY <1>0, <1>12, HoldingStays DEF Finish, Holding
  <2>2. QED
    BY <1>12, <1>a, <2>1 DEF Finish
<1>13. ASSUME NEW g \in Goroutine, Wake(g) PROVE PoolInv'
  <2>1. Holding' = Holding
    BY <1>0, <1>13, HoldingStays DEF Wake, Holding
  <2>2. QED
    BY <1>13, <1>a, <2>1 DEF Wake
<1>14. ASSUME NEW g \in Goroutine, Release(g) PROVE PoolInv'
  <2>1. Holding' = Holding \ {g} /\ g \in Holding
    BY <1>0, <1>14 DEF Release, Holding, TypeOK
  <2>2. MaxConcurrent > 0 => pool' = pool - 1
    BY <1>14 DEF Release
  <2>3. QED
    BY <1>0, <2>1, <2>2, FS_RemoveElement DEF PoolInv
<1>15. CASE CancelParent \/ ParentExpires
  BY <1>0, <1>15, <1>b DEF CancelParent, ParentExpires, ParentEnds, Holding, TypeOK
<1>16. CASE UNCHANGED vars
  BY <1>0, <1>16, <1>b DEF vars, Holding, TypeOK
<1>17. QED
  BY <1>1, <1>2, <1>3, <1>4, <1>5, <1>6, <1>7, <1>8, <1>9,
     <1>10, <1>11, <1>12, <1>13, <1>14, <1>15, <1>16
     DEF Next, Step, Worker

LEMMA ErrsStep == IInv /\ [Next]_vars => ErrsInv'
<1> SUFFICES ASSUME IInv, [Next]_vars PROVE ErrsInv'
  OBVIOUS
<1>0. TypeOK /\ ErrsInv /\ ExistInv
  BY DEF IInv
\* What the collector knows of its attempt does not change.
<1>a. ASSUME UNCHANGED <<pc, attempt, errs>>,
             Received(attempt)' = Received(attempt),
             \A i \in Received(attempt) :
                 verdict'[<<attempt, i>>] = verdict[<<attempt, i>>]
      PROVE  ErrsInv'
  <2> SUFFICES ASSUME pc = "collect" \/ pc = "spawn" PROVE ErrsInv'
    BY <1>a DEF ErrsInv
  <2>1. CASE pc = "spawn"
    BY <1>0, <1>a, <2>1 DEF ErrsInv
  <2>2. CASE pc = "collect"
    <3>1. \A k \in DOMAIN errs' :
              /\ errs'[k] \in Received(attempt)'
              /\ verdict'[<<attempt, errs'[k]>>] \in Hard
      BY <1>0, <1>a, <2>2 DEF ErrsInv
    <3>2. \A i \in Received(attempt)' :
              verdict'[<<attempt, i>>] \in Hard => errs' # <<>>
      BY <1>0, <1>a, <2>2 DEF ErrsInv
    <3>3. Received(attempt)' # Instance
      BY <1>0, <1>a, <2>2 DEF ErrsInv
    <3>4. QED
      BY <1>a, <2>2, <3>1, <3>2, <3>3 DEF ErrsInv
  <2>3. QED
    BY <2>1, <2>2
\* A step of a goroutine is none of one whose result was received, but that
\* it goes.
<1>b. ASSUME NEW g \in Goroutine, NEW s, NEW v, UNCHANGED <<pc, attempt, errs>>,
             goroutine' = [goroutine EXCEPT ![g] = s],
             verdict' = verdict \/ verdict' = [verdict EXCEPT ![g] = v],
             \/ goroutine[g] \notin Over /\ s \notin Over
             \/ goroutine[g] = "sent" /\ s = "gone" /\ verdict' = verdict
      PROVE  ErrsInv'
  <2>1. \A h \in Goroutine : goroutine'[h] \in Over <=> goroutine[h] \in Over
    BY <1>0, <1>b DEF TypeOK, Over
  <2>2. \A h \in Goroutine : goroutine[h] \in Over => verdict'[h] = verdict[h]
    BY <1>0, <1>b DEF TypeOK, Over
  <2>3. CASE attempt \in Attempt
    <3>1. \A i \in Instance : <<attempt, i>> \in Goroutine
      BY <2>3 DEF Goroutine
    <3>2. Received(attempt)' = Received(attempt)
      BY <1>b, <2>1, <3>1 DEF Received, Over
    <3>3. \A i \in Received(attempt) :
              verdict'[<<attempt, i>>] = verdict[<<attempt, i>>]
      BY <2>2, <3>1 DEF Received, Over
    <3>4. QED
      BY <1>a, <1>b, <3>2, <3>3
  <2>4. CASE attempt \notin Attempt
    <3>1. pc \notin {"spawn", "collect"}
      BY <2>4, AttemptIsOne
    <3>2. QED
      BY <1>b, <3>1 DEF ErrsInv
  <2>5. QED
    BY <2>3, <2>4
<1>c. ASSUME pc' \notin {"spawn", "collect"} PROVE ErrsInv'
  BY <1>c DEF ErrsInv
<1>d. ASSUME UNCHANGED <<pc, attempt, errs, goroutine, verdict>> PROVE ErrsInv'
  BY <1>a, <1>d DEF Received
<1>1. CASE BeginAttempt
  BY <1>0, <1>1, <1>c, <1>d DEF BeginAttempt, TypeOK
<1>2. CASE GiveUp
  BY <1>0, <1>2, <1>c, <1>d DEF GiveUp, TypeOK
<1>3. CASE BackoffOver
  BY <1>0, <1>3, <1>c, <1>d DEF BackoffOver, TypeOK
<1>4. ASSUME NEW r \in Soft \cup Hard, RunPlain(r) PROVE ErrsInv'
  BY <1>0, <1>4, <1>c, EndAttemptFacts DEF RunPlain
<1>5. CASE CannotExpand
  <2>1. PICK r \in Soft \cup Hard : EndAttempt(r)
    BY <1>5 DEF CannotExpand, Soft, Hard
  <2>2. QED
    BY <1>0, <1>c, <2>1, EndAttemptFacts
<1>6. CASE Expand
  BY <1>6 DEF Expand, ErrsInv
<1>7. ASSUME NEW i \in Instance, Spawn(i) PROVE ErrsInv'
  <2> DEFINE s == IF MaxConcurrent > 0 THEN "queued" ELSE "try"
  <2>1. /\ pc = "spawn" /\ attempt' = attempt /\ errs' = errs
        /\ goroutine' = [goroutine EXCEPT ![<<attempt, i>>] = s]
        /\ pc' \in {"spawn", "collect"}
    BY <1>7 DEF Spawn
  <2>2. attempt \in Attempt /\ <<attempt, i>> \in Goroutine
    BY <2>1, AttemptIsOne DEF Goroutine
  <2>3. s \notin {"sent", "gone"}
    OBVIOUS
  <2> HIDE DEF s
  <2>4. \A j \in Instance : goroutine'[<<attempt, j>>] \notin {"sent", "gone"}
    BY <1>0, <2>1, <2>2, <2>3 DEF ExistInv, Over, TypeOK, Goroutine
  <2>5. Received(attempt)' = {} /\ errs' = <<>>
    BY <1>0, <2>1, <2>4 DEF Received, ErrsInv
  <2>6. QED
    BY <2>1, <2>5, InstanceAssumption DEF ErrsInv
<1>8. ASSUME NEW i \in Instance, Collect(i) PROVE ErrsInv'
  <2>1. /\ pc = "collect"
        /\ goroutine[<<attempt, i>>] = "sending"
        /\ goroutine' = [goroutine EXCEPT ![<<attempt, i>>] = "sent"]
        /\ errs' = ErrsAfter(i)
        /\ UNCHANGED <<attempt, verdict>>
    BY <1>8 DEF Collect
  <2>2. attempt \in Attempt /\ <<attempt, i>> \in Goroutine
    BY <2>1, AttemptIsOne DEF Goroutine
  <2>3. Received(attempt)' = Received(attempt) \cup {i}
    BY <1>0, <2>1, <2>2 DEF Received, TypeOK, Goroutine
  <2>4. CASE Received(attempt) \cup {i} = Instance
    <3>1. PICK r \in Soft \cup Hard : EndAttempt(r)
      BY <1>8, <2>4 DEF Collect, Soft, Hard
    <3>2. QED
      BY <1>0, <1>c, <3>1, EndAttemptFacts
  <2>5. CASE Received(attempt) \cup {i} # Instance
    <3>1. pc' = "collect"
      BY <1>8, <2>1, <2>5 DEF Collect
    <3>2. errs \in Seq(Instance)
      BY <1>0 DEF TypeOK
    <3>3. CASE errs' = errs /\ (verdict[<<attempt, i>>] \in Hard => errs # <<>>)
      BY <1>0, <2>1, <2>3, <2>5, <3>1, <3>3 DEF ErrsInv
    <3>4. CASE errs' = Append(errs, i) /\ verdict[<<attempt, i>>] \in Hard
      <4>1. errs' # <<>>
        BY <3>2, <3>4
      <4>2. \A k \in DOMAIN errs' :
                errs'[k] = i \/ (k \in DOMAIN errs /\ errs'[k] = errs[k])
        BY <3>2, <3>4
      <4>3. \A k \in DOMAIN errs : /\ errs[k] \in Received(attempt)
                                   /\ verdict[<<attempt, errs[k]>>] \in Hard
        BY <1>0, <2>1 DEF ErrsInv
      <4>4. \A k \in DOMAIN errs' : /\ errs'[k] \in Received(attempt)'
                                    /\ verdict'[<<attempt, errs'[k]>>] \in Hard
        BY <2>1, <2>3, <3>4, <4>2, <4>3
      <4>5. QED
        BY <2>1, <2>3, <2>5, <3>1, <4>1, <4>4 DEF ErrsInv
    <3>5. QED
      BY <2>1, <3>3, <3>4 DEF ErrsAfter
  <2>6. QED
    BY <2>4, <2>5
<1>9. ASSUME NEW g \in Goroutine, Acquire(g) PROVE ErrsInv'
  BY <1>9, <1>b DEF Acquire, stepVars, Over
<1>10. ASSUME NEW g \in Goroutine, Start(g) PROVE ErrsInv'
  BY <1>10, <1>b DEF Start, stepVars, Over
<1>11. ASSUME NEW g \in Goroutine, Abandon(g) PROVE ErrsInv'
  BY <1>11, <1>b DEF Abandon, stepVars, Over
<1>12. ASSUME NEW g \in Goroutine, NEW r \in Soft \cup Hard, Finish(g, r)
       PROVE  ErrsInv'
  <2> DEFINE after == RetryAfter(r, spent, Cancelled)
             s == IF after.again THEN "backoff" ELSE "sending"
             v == IF after.again THEN verdict[g] ELSE after.verdict
  <2>1. /\ goroutine[g] = "running"
        /\ goroutine' = [goroutine EXCEPT ![g] = s]
        /\ verdict' = [verdict EXCEPT ![g] = v]
        /\ UNCHANGED <<pc, attempt, errs>>
    BY <1>12 DEF Finish, stepVars
  <2>2. s \notin Over /\ "running" \notin Over
    BY DEF Over
  <2> HIDE DEF s, v
  <2>3. QED
    BY <1>b, <2>1, <2>2
<1>13. ASSUME NEW g \in Goroutine, Wake(g) PROVE ErrsInv'
  BY <1>13, <1>b DEF Wake, stepVars, Over
<1>14. ASSUME NEW g \in Goroutine, Release(g) PROVE ErrsInv'
  BY <1>14, <1>b DEF Release, stepVars, Over
<1>15. CASE CancelParent \/ ParentExpires
  BY <1>0, <1>15, <1>c, <1>d DEF CancelParent, ParentExpires, ParentEnds, TypeOK
<1>16. CASE UNCHANGED vars
  BY <1>0, <1>16, <1>c, <1>d DEF vars, TypeOK
<1>17. QED
  BY <1>1, <1>2, <1>3, <1>4, <1>5, <1>6, <1>7, <1>8, <1>9,
     <1>10, <1>11, <1>12, <1>13, <1>14, <1>15, <1>16
     DEF Next, Step, Worker

LEMMA BudgetStep == IInv /\ [Next]_vars => BudgetInv'
<1> SUFFICES ASSUME IInv, [Next]_vars PROVE BudgetInv'
  OBVIOUS
<1>0. TypeOK /\ BudgetInv /\ RunsInv /\ ExistInv
  BY DEF IInv
<1>t. /\ attempt \in Nat
      /\ \A g \in Goroutine : runs[g] \in 0..(MaxRetries + 1)
      /\ \A a \in Attempt, i \in Instance : <<a, i>> \in Goroutine
      /\ spent \in 0..MaxRetries
  BY <1>0, Numbers DEF TypeOK, Attempt, Goroutine
<1>n. \A g \in Goroutine : Granted(g) \in Nat /\ Granted(g) <= runs[g]
                           /\ Granted(g) + 1 >= runs[g]
  BY <1>t, Numbers DEF Granted
\* A step that grants no retry.
<1>a. ASSUME \A g \in Goroutine : Granted(g)' <= Granted(g),
             \A g \in Goroutine : Granted(g)' \in Nat,
             pc' \in {"spawn", "collect"} =>
                 /\ pc \in {"spawn", "collect"}
                 /\ attempt' = attempt /\ spent <= spent' /\ spent' \in Nat
      PROVE  BudgetInv'
  <2> SUFFICES ASSUME NEW a \in Attempt
               PROVE  /\ IsFiniteSet(Grants(a)')
                      /\ Cardinality(Grants(a)') <= MaxRetries
                      /\ \A i \in Instance : Granted(<<a, i>>)' <= MaxRetries
                      /\ a = attempt' /\ pc' \in {"spawn", "collect"} =>
                             /\ Cardinality(Grants(a)') <= spent'
                             /\ \A i \in Instance : Granted(<<a, i>>)' <= spent'
    BY DEF BudgetInv
  <2>1. Grants(a)' \subseteq Grants(a)
    <3> SUFFICES ASSUME NEW p \in Grants(a)' PROVE p \in Grants(a)
      OBVIOUS
    <3>1. /\ p \in Instance \X (1..MaxRetries + 1)
          /\ p[2] <= Granted(<<a, p[1]>>)'
      BY DEF Grants
    <3>2. <<a, p[1]>> \in Goroutine /\ p[2] \in Nat
      BY <1>t, <3>1, Numbers
    <3>3. p[2] <= Granted(<<a, p[1]>>)
      BY <1>a, <1>n, <3>1, <3>2
    <3>4. QED
      BY <3>1, <3>3 DEF Grants
  <2>2. IsFiniteSet(Grants(a)) /\ Cardinality(Grants(a)) <= MaxRetries
    BY <1>0 DEF BudgetInv
  <2>3. /\ IsFiniteSet(Grants(a)')
        /\ Cardinality(Grants(a)') <= Cardinality(Grants(a))
        /\ Cardinality(Grants(a)') \in Nat /\ Cardinality(Grants(a)) \in Nat
    BY <2>1, <2>2, FS_Subset, FS_CardinalityType
  <2>4. \A i \in Instance : Granted(<<a, i>>)' <= Granted(<<a, i>>)
        /\ Granted(<<a, i>>)' \in Nat /\ Granted(<<a, i>>) \in Nat
    BY <1>a, <1>n, <1>t
  <2>5. /\ \A i \in Instance : Granted(<<a, i>>) <= MaxRetries
        /\ a = attempt /\ pc \in {"spawn", "collect"} =>
               /\ Cardinality(Grants(a)) <= spent
               /\ \A i \in Instance : Granted(<<a, i>>) <= spent
    BY <1>0 DEF BudgetInv
  <2>6. \A i \in Instance : Granted(<<a, i>>)' <= MaxRetries
    BY <2>4, <2>5, Numbers
  <2>7. ASSUME a = attempt', pc' \in {"spawn", "collect"}
        PROVE  /\ Cardinality(Grants(a)') <= spent'
               /\ \A i \in Instance : Granted(<<a, i>>)' <= spent'
    <3>1. a = attempt /\ pc \in {"spawn", "collect"} /\ spent <= spent' /\ spent' \in Nat
      BY <1>a, <2>7
    <3>2. Cardinality(Grants(a)) <= spent /\ \A i \in Instance : Granted(<<a, i>>) <= spent
      BY <2>5, <3>1
    <3>3. QED
      BY <1>t, <2>3, <2>4, <3>1, <3>2
  <2>8. QED
    BY <2>2, <2>3, <2>6, <2>7, Numbers
<1>b. ASSUME UNCHANGED <<goroutine, runs>>,
             pc' \in {"spawn", "collect"} =>
                 pc \in {"spawn", "collect"} /\ attempt' = attempt /\ spent' = spent
      PROVE  BudgetInv'
  <2>1. \A g \in Goroutine : Granted(g)' = Granted(g)
    BY <1>b DEF Granted
  <2>2. \A g \in Goroutine : Granted(g)' <= Granted(g) /\ Granted(g)' \in Nat
    BY <1>n, <2>1
  <2>3. spent <= spent /\ spent \in Nat
    BY <1>t
  <2>4. QED
    BY <1>a, <1>b, <2>2, <2>3
\* A step of one goroutine that grants it nothing.
<1>c. ASSUME NEW g \in Goroutine, Granted(g)' <= Granted(g), Granted(g)' \in Nat,
             \A h \in Goroutine : h # g =>
                 goroutine'[h] = goroutine[h] /\ runs'[h] = runs[h],
             attempt' = attempt, pc' \in {"spawn", "collect"} =>
                 pc \in {"spawn", "collect"} /\ spent' \in {spent, spent + 1}
      PROVE  BudgetInv'
  <2>1. \A h \in Goroutine : h # g => Granted(h)' = Granted(h)
    BY <1>c DEF Granted
  <2>2. \A h \in Goroutine : Granted(h)' <= Granted(h) /\ Granted(h)' \in Nat
    BY <1>c, <1>n, <2>1
  <2>3. pc' \in {"spawn", "collect"} => spent <= spent' /\ spent' \in Nat
    BY <1>c, <1>t
  <2>4. QED
    BY <1>a, <1>c, <2>2, <2>3
<1>1. CASE BeginAttempt
  BY <1>0, <1>1, <1>b DEF BeginAttempt, TypeOK
<1>2. CASE GiveUp
  BY <1>0, <1>2, <1>b DEF GiveUp, TypeOK
<1>3. CASE BackoffOver
  BY <1>0, <1>3, <1>b DEF BackoffOver, TypeOK
<1>4. ASSUME NEW r \in Soft \cup Hard, RunPlain(r) PROVE BudgetInv'
  BY <1>0, <1>4, <1>b, EndAttemptFacts DEF RunPlain
<1>5. CASE CannotExpand
  <2>1. PICK r \in Soft \cup Hard : EndAttempt(r)
    BY <1>5 DEF CannotExpand, Soft, Hard
  <2>2. pc' \in {"backoff", "returned"}
    BY <1>0, <2>1, EndAttemptFacts
  <2>3. QED
    BY <1>5, <1>b, <2>2 DEF CannotExpand
<1>6. CASE Expand
  <2>1. /\ pc = "matrix" /\ spent' = 0
        /\ UNCHANGED <<goroutine, runs, attempt>>
    BY <1>6 DEF Expand
  <2>2. \A a \in Attempt, i \in Instance : Granted(<<a, i>>)' = Granted(<<a, i>>)
    BY <2>1 DEF Granted
  <2>3. \A a \in Attempt : Grants(a)' = Grants(a)
    BY <2>2 DEF Grants
  <2>4. \A a \in Attempt, i \in Instance : a = attempt => Granted(<<a, i>>) = 0
    BY <1>0, <1>t, <2>1 DEF ExistInv, RunsInv, Granted
  <2>5. \A a \in Attempt : a = attempt => Grants(a) = {}
    BY <2>4, Numbers DEF Grants
  <2>6. \A a \in Attempt : a = attempt => Cardinality(Grants(a)) = 0
    BY <2>5, FS_EmptySet
  <2>7. QED
    BY <1>0, <2>1, <2>2, <2>3, <2>4, <2>6 DEF BudgetInv
<1>7. ASSUME NEW i \in Instance, Spawn(i) PROVE BudgetInv'
  <2>1. /\ pc = "spawn" /\ goroutine[<<attempt, i>>] = "none"
        /\ goroutine' = [goroutine EXCEPT ![<<attempt, i>>] =
                            IF MaxConcurrent > 0 THEN "queued" ELSE "try"]
        /\ UNCHANGED <<attempt, runs, spent>>
    BY <1>7 DEF Spawn
  <2>2. PICK g \in Goroutine : g = <<attempt, i>>
    BY <2>1, AttemptIsOne DEF Goroutine
  <2>3. runs[g] = 0
    BY <1>0, <2>1, <2>2 DEF RunsInv
  <2>4. Granted(g)' <= Granted(g) /\ Granted(g)' \in Nat
    BY <1>t, <2>1, <2>2, <2>3 DEF Granted
  <2>5. \A h \in Goroutine : h # g =>
            goroutine'[h] = goroutine[h] /\ runs'[h] = runs[h]
    BY <1>0, <2>1, <2>2 DEF TypeOK
  <2>6. QED
    BY <1>c, <2>1, <2>4, <2>5
<1>8. ASSUME NEW i \in Instance, Collect(i) PROVE BudgetInv'
  <2>1. /\ pc = "collect" /\ goroutine[<<attempt, i>>] = "sending"
        /\ goroutine' = [goroutine EXCEPT ![<<attempt, i>>] = "sent"]
        /\ UNCHANGED <<attempt, runs, spent>>
    BY <1>8 DEF Collect
  <2>2. PICK g \in Goroutine : g = <<attempt, i>>
    BY <2>1, AttemptIsOne DEF Goroutine
  <2>3. goroutine'[g] = "sent" /\ goroutine[g] = "sending"
    BY <1>0, <2>1, <2>2 DEF TypeOK
  <2>4. Granted(g)' <= Granted(g) /\ Granted(g)' \in Nat
    BY <1>t, <2>1, <2>3, Numbers DEF Granted
  <2>5. \A h \in Goroutine : h # g =>
            goroutine'[h] = goroutine[h] /\ runs'[h] = runs[h]
    BY <1>0, <2>1, <2>2 DEF TypeOK
  <2>6. QED
    BY <1>c, <2>1, <2>4, <2>5
<1>9. ASSUME NEW g \in Goroutine, Acquire(g) PROVE BudgetInv'
  <2>1. /\ \A h \in Goroutine : h # g =>
               goroutine'[h] = goroutine[h] /\ runs'[h] = runs[h]
        /\ UNCHANGED <<attempt, pc, spent>>
    BY <1>0, <1>9 DEF Acquire, stepVars, TypeOK
  <2>2. Granted(g)' <= Granted(g) /\ Granted(g)' \in Nat
    BY <1>0, <1>9, <1>t, Numbers DEF Acquire, Granted, RunsInv, TypeOK
  <2>3. QED
    BY <1>c, <2>1, <2>2
<1>10. ASSUME NEW g \in Goroutine, Start(g) PROVE BudgetInv'
  <2>1. /\ \A h \in Goroutine : h # g =>
               goroutine'[h] = goroutine[h] /\ runs'[h] = runs[h]
        /\ UNCHANGED <<attempt, pc, spent>>
    BY <1>0, <1>10 DEF Start, stepVars, TypeOK
  <2>2. Granted(g)' <= Granted(g) /\ Granted(g)' \in Nat
    BY <1>0, <1>10, <1>t, Numbers DEF Start, Granted, RunsInv, TypeOK
  <2>3. QED
    BY <1>c, <2>1, <2>2
<1>11. ASSUME NEW g \in Goroutine, Abandon(g) PROVE BudgetInv'
  <2>1. /\ \A h \in Goroutine : h # g =>
               goroutine'[h] = goroutine[h] /\ runs'[h] = runs[h]
        /\ UNCHANGED <<attempt, pc, spent>>
    BY <1>0, <1>11 DEF Abandon, stepVars, TypeOK
  <2>2. Granted(g)' <= Granted(g) /\ Granted(g)' \in Nat
    BY <1>0, <1>11, <1>t, Numbers DEF Abandon, Granted, RunsInv, TypeOK
  <2>3. QED
    BY <1>c, <2>1, <2>2
<1>12. ASSUME NEW g \in Goroutine, NEW r \in Soft \cup Hard, Finish(g, r)
       PROVE  BudgetInv'
  <2> DEFINE after == RetryAfter(r, spent, Cancelled)
  <2>1. /\ goroutine[g] = "running"
        /\ spent' = after.used
        /\ goroutine' = [goroutine EXCEPT ![g] =
                            IF after.again THEN "backoff" ELSE "sending"]
        /\ UNCHANGED <<runs, attempt, pc>>
    BY <1>12 DEF Finish, stepVars
  <2>2. /\ spent' \in 0..MaxRetries
        /\ spent' = spent \/ spent' = spent + 1
        /\ after.again => spent' = spent + 1
    BY <1>0, <2>1, RetryFacts DEF TypeOK, Cancelled, ParentEnded
  <2> HIDE DEF after
  <2>3. runs[g] > 0 /\ runs[g] \in Nat /\ Granted(g) = runs[g] - 1
    BY <1>0, <1>t, <2>1 DEF RunsInv, Granted
  <2>4. \A h \in Goroutine : h # g =>
            goroutine'[h] = goroutine[h] /\ runs'[h] = runs[h]
    BY <1>0, <2>1 DEF TypeOK
  <2>5. CASE ~after.again
    <3>1. goroutine'[g] = "sending"
      BY <1>0, <2>1, <2>5 DEF TypeOK
    <3>2. Granted(g)' = Granted(g)
      BY <2>1, <2>3, <3>1 DEF Granted
    <3>3. QED
      BY <1>c, <1>n, <2>1, <2>2, <2>4, <3>2
  <2>6. CASE after.again
    <3>1. goroutine'[g] = "backoff"
      BY <1>0, <2>1, <2>6 DEF TypeOK
    <3>2. Granted(g)' = runs[g]
      BY <2>1, <3>1 DEF Granted
    <3>3. \A h \in Goroutine : h # g => Granted(h)' = Granted(h)
      BY <2>4 DEF Granted
    <3>4. PICK b \in Attempt, i \in Instance : g = <<b, i>>
      BY DEF Goroutine
    <3>5. b = attempt /\ pc \in {"spawn", "collect"} /\ spent' = spent + 1
      BY <1>0, <2>1, <2>2, <2>6, <3>4 DEF ExistInv, Busy
    <3>6. /\ IsFiniteSet(Grants(b)) /\ Cardinality(Grants(b)) <= spent
          /\ \A j \in Instance : Granted(<<b, j>>) <= spent
      BY <1>0, <3>5 DEF BudgetInv
    <3>7. \A j \in Instance : j # i => <<b, j>> \in Goroutine /\ <<b, j>> # g
      BY <1>t, <3>4
    <3>8. \A j \in Instance : j # i => Granted(<<b, j>>)' = Granted(<<b, j>>)
      BY <3>3, <3>7
    <3>9. Granted(<<b, i>>)' = runs[g] /\ Granted(<<b, i>>) = runs[g] - 1
      BY <2>3, <3>2, <3>4
    <3>10. <<i, runs[g]>> \in Instance \X (1..MaxRetries + 1)
      BY <1>t, <2>3, Numbers
    <3>11. \A p \in Instance \X (1..MaxRetries + 1) :
               p[2] <= Granted(<<b, p[1]>>)' <=>
                   p[2] <= Granted(<<b, p[1]>>) \/ p = <<i, runs[g]>>
      <4> SUFFICES ASSUME NEW j \in Instance, NEW k \in 1..MaxRetries + 1
                   PROVE  k <= Granted(<<b, j>>)' <=>
                              k <= Granted(<<b, j>>) \/ <<j, k>> = <<i, runs[g]>>
        OBVIOUS
      <4>1. CASE j = i
        <5>1. k \in Nat
          BY Numbers
        <5>2. k <= runs[g] <=> k <= runs[g] - 1 \/ k = runs[g]
          BY <2>3, <5>1
        <5>3. QED
          BY <3>9, <4>1, <5>2
      <4>2. CASE j # i
        BY <3>8, <4>2
      <4>3. QED
        BY <4>1, <4>2
    <3>12. Grants(b)' = Grants(b) \cup {<<i, runs[g]>>}
      BY <3>10, <3>11 DEF Grants
    <3>13. <<i, runs[g]>> \notin Grants(b)
      BY <2>3, <3>9 DEF Grants
    <3>14. /\ IsFiniteSet(Grants(b)')
           /\ Cardinality(Grants(b)') = Cardinality(Grants(b)) + 1
      BY <3>6, <3>12, <3>13, FS_AddElement
    <3>15. Cardinality(Grants(b)) \in Nat
      BY <3>6, FS_CardinalityType
    <3>16. Cardinality(Grants(b)') <= spent'
      BY <1>t, <3>5, <3>6, <3>14, <3>15
    <3>17. \A j \in Instance : Granted(<<b, j>>)' \in Nat /\ Granted(<<b, j>>)' <= spent'
      <4> SUFFICES ASSUME NEW j \in Instance
                   PROVE  Granted(<<b, j>>)' \in Nat /\ Granted(<<b, j>>)' <= spent'
        OBVIOUS
      <4>1. CASE j = i
        <5>1. runs[g] - 1 <= spent
          BY <3>6, <3>9
        <5>2. runs[g] <= spent'
          BY <1>t, <2>3, <3>5, <5>1
        <5>3. QED
          BY <2>3, <3>9, <4>1, <5>2
      <4>2. CASE j # i
        <5>1. Granted(<<b, j>>) \in Nat /\ Granted(<<b, j>>) <= spent
          BY <1>n, <3>6, <3>7, <4>2
        <5>2. Granted(<<b, j>>)' = Granted(<<b, j>>)
          BY <3>8, <4>2
        <5>3. QED
          BY <1>t, <3>5, <5>1, <5>2
      <4>3. QED
        BY <4>1, <4>2
    <3>18. /\ Cardinality(Grants(b)') <= MaxRetries
           /\ \A j \in Instance : Granted(<<b, j>>)' <= MaxRetries
      BY <2>2, <3>14, <3>15, <3>16, <3>17, Numbers
    <3>19. ASSUME NEW a \in Attempt, a # b
           PROVE  /\ IsFiniteSet(Grants(a)')
                  /\ Cardinality(Grants(a)') <= MaxRetries
                  /\ \A j \in Instance : Granted(<<a, j>>)' <= MaxRetries
      <4>1. \A j \in Instance : Granted(<<a, j>>)' = Granted(<<a, j>>)
        BY <1>t, <3>3, <3>4, <3>19
      <4>2. Grants(a)' = Grants(a)
        BY <4>1 DEF Grants
      <4>3. QED
        BY <1>0, <4>1, <4>2 DEF BudgetInv
    <3>20. attempt' = b
      BY <2>1, <3>5
    <3>21. QED
      BY <3>14, <3>16, <3>17, <3>18, <3>19, <3>20 DEF BudgetInv
  <2>7. QED
    BY <2>5, <2>6
<1>13. ASSUME NEW g \in Goroutine, Wake(g) PROVE BudgetInv'
  <2>1. /\ \A h \in Goroutine : h # g =>
               goroutine'[h] = goroutine[h] /\ runs'[h] = runs[h]
        /\ UNCHANGED <<attempt, pc, spent>>
    BY <1>0, <1>13 DEF Wake, stepVars, TypeOK
  <2>2. Granted(g)' <= Granted(g) /\ Granted(g)' \in Nat
    BY <1>0, <1>13, <1>t, Numbers DEF Wake, Granted, RunsInv, TypeOK
  <2>3. QED
    BY <1>c, <2>1, <2>2
<1>14. ASSUME NEW g \in Goroutine, Release(g) PROVE BudgetInv'
  <2>1. /\ \A h \in Goroutine : h # g =>
               goroutine'[h] = goroutine[h] /\ runs'[h] = runs[h]
        /\ UNCHANGED <<attempt, pc, spent>>
    BY <1>0, <1>14 DEF Release, stepVars, TypeOK
  <2>2. Granted(g)' <= Granted(g) /\ Granted(g)' \in Nat
    BY <1>0, <1>14, <1>t, Numbers DEF Release, Granted, RunsInv, TypeOK
  <2>3. QED
    BY <1>c, <2>1, <2>2
<1>15. CASE CancelParent \/ ParentExpires
  BY <1>0, <1>15, <1>b DEF CancelParent, ParentExpires, ParentEnds, TypeOK
<1>16. CASE UNCHANGED vars
  BY <1>0, <1>16, <1>b DEF vars, TypeOK
<1>17. QED
  BY <1>1, <1>2, <1>3, <1>4, <1>5, <1>6, <1>7, <1>8, <1>9,
     <1>10, <1>11, <1>12, <1>13, <1>14, <1>15, <1>16
     DEF Next, Step, Worker

-----------------------------------------------------------------------------

LEMMA Invariance == Spec => []IInv
<1>1. IInv /\ [Next]_vars => IInv'
  BY TypeStep, PoolStep, AttemptStep, MarkStep, ExistStep, VerdictStep,
     ErrsStep, OutcomeStep, BudgetStep, RunsStep DEF IInv
<1>2. QED
  BY InitIInv, <1>1, PTL DEF Spec

(* The state of a matrix keeps its type: neither backoff grants more than  *)
(* maxRetries, the pool is never overdrawn though goroutines of earlier    *)
(* attempts hold tokens of it.                                             *)
THEOREM TypeCorrect == Spec => []TypeOK
<1>1. IInv => TypeOK
  BY DEF IInv
<1>2. QED
  BY Invariance, <1>1, PTL

(* The instances of one expansion, whatever their number, retry maxRetries *)
(* times together: the chain they share has one backoff.                   *)
THEOREM BudgetShared == Spec => []SharedBudget
<1>1. IInv => SharedBudget
  <2> SUFFICES ASSUME IInv, NEW a \in Attempt
               PROVE  Cardinality(Repeated(a)) <= MaxRetries
    BY DEF SharedBudget
  <2>1. IsFiniteSet(Grants(a)) /\ Cardinality(Grants(a)) <= MaxRetries
    BY DEF IInv, BudgetInv
  <2>2. Repeated(a) \subseteq Grants(a)
    <3> SUFFICES ASSUME NEW i \in Instance, NEW k \in 1..MaxRetries + 1,
                        k < runs[<<a, i>>]
                 PROVE  k <= Granted(<<a, i>>)
      BY DEF Repeated, Grants
    <3>1. runs[<<a, i>>] \in Nat /\ k \in Nat
      BY Numbers DEF IInv, TypeOK, Goroutine
    <3>2. QED
      BY <3>1 DEF Granted
  <2>3. Cardinality(Repeated(a)) <= Cardinality(Grants(a))
        /\ Cardinality(Repeated(a)) \in Nat /\ Cardinality(Grants(a)) \in Nat
    BY <2>1, <2>2, FS_Subset, FS_CardinalityType
  <2>4. QED
    BY <2>1, <2>3, Numbers
<1>2. QED
  BY Invariance, <1>1, PTL

(* A matrix step runs without being expanded only when it was called from  *)
(* inside a matrix: the mark of one attempt never reaches the next one.    *)
THEOREM ExpandedEveryTime == Spec => []ExpandsEveryAttempt
<1>1. IInv => ExpandsEveryAttempt
  BY DEF IInv, MarkInv, ExpandsEveryAttempt
<1>2. QED
  BY Invariance, <1>1, PTL

-----------------------------------------------------------------------------
(* The matrix implements the composite step.                               *)

\* What the caller knows of the end of an instance.
Known(g) == goroutine[g] \in Over
Ending(g) == IF Known(g) THEN verdict[g] ELSE "none"

LEMMA Bars ==
    /\ begunBar = [a \in Attempt |-> {i \in Instance : goroutine[<<a, i>>] # "none"}]
    /\ endedBar = [a \in Attempt |-> [i \in Instance |-> Ending(<<a, i>>)]]
BY DEF begunBar, endedBar, Received, Ending, Known, Over

LEMMA RefineInit == Init => Composite!CompositeInit
<1> SUFFICES ASSUME Init PROVE Composite!CompositeInit
  OBVIOUS
<1>1. \A a \in Attempt, i \in Instance : goroutine[<<a, i>>] = "none"
  BY DEF Init, Goroutine
<1>2. begunBar = [a \in Attempt |-> {}]
  BY <1>1, Bars
<1>3. endedBar = [a \in Attempt |-> [i \in Instance |-> "none"]]
  BY <1>1, Bars DEF Ending, Known, Over
<1>4. QED
  BY <1>2, <1>3 DEF Init, Composite!CompositeInit

\* A step that begins no instance and makes no end known is not seen.
LEMMA RefineStutter ==
    ASSUME outcome' = outcome,
           \A g \in Goroutine : goroutine[g] = "none" <=> goroutine'[g] = "none",
           \A g \in Goroutine : Known(g) <=> Known(g)',
           \A g \in Goroutine : Known(g) => verdict'[g] = verdict[g]
    PROVE  UNCHANGED Composite!compositeVars
<1>1. \A a \in Attempt, i \in Instance : <<a, i>> \in Goroutine
  BY DEF Goroutine
<1>2. begunBar' = begunBar
  BY <1>1 DEF begunBar
<1>3. \A a \in Attempt, i \in Instance : Ending(<<a, i>>)' = Ending(<<a, i>>)
  BY <1>1 DEF Ending, Known
<1>4. endedBar' = endedBar
  <2>1. endedBar' = [a \in Attempt |-> [i \in Instance |-> Ending(<<a, i>>)']]
    BY DEF endedBar, Received, Ending, Known, Over
  <2>2. QED
    BY <1>3, <2>1, Bars
<1>5. QED
  BY <1>2, <1>4 DEF Composite!compositeVars

\* The goroutine of an instance is the beginning of a child.
LEMMA RefineSpawn ==
    ASSUME IInv, NEW i \in Instance, Spawn(i), NEW b \in Attempt, b = attempt
    PROVE  Composite!Begin(b, i)
<1>0. TypeOK /\ OutcomeInv
  BY DEF IInv
<1> DEFINE s == IF MaxConcurrent > 0 THEN "queued" ELSE "try"
<1>1. /\ pc = "spawn" /\ goroutine[<<b, i>>] = "none"
      /\ goroutine' = [goroutine EXCEPT ![<<b, i>>] = s]
      /\ outcome' = outcome /\ verdict' = verdict
  BY DEF Spawn
<1>2. s # "none" /\ s \notin Over
  BY DEF Over
<1> HIDE DEF s
<1>3. <<b, i>> \in Goroutine
  BY DEF Goroutine
<1>4. outcome[b] = "running"
  BY <1>0, <1>1 DEF OutcomeInv
<1>5. i \notin begunBar[b]
  BY <1>1 DEF begunBar
<1>6. \A g \in Goroutine : goroutine'[g] = IF g = <<b, i>> THEN s ELSE goroutine[g]
  BY <1>0, <1>1, <1>3 DEF TypeOK
<1>7. \A a \in Attempt, j \in Instance :
          goroutine'[<<a, j>>] # "none" <=>
              goroutine[<<a, j>>] # "none" \/ (a = b /\ j = i)
  <2> TAKE a \in Attempt, j \in Instance
  <2>1. <<a, j>> \in Goroutine
    BY DEF Goroutine
  <2>2. <<a, j>> = <<b, i>> <=> a = b /\ j = i
    OBVIOUS
  <2>3. QED
    BY <1>2, <1>6, <2>1, <2>2
<1>8. begunBar' = [begunBar EXCEPT ![b] = begunBar[b] \cup {i}]
  <2>1. \A a \in Attempt : begunBar'[a] = IF a = b THEN begunBar[b] \cup {i} ELSE begunBar[a]
    BY <1>7 DEF begunBar
  <2>2. begunBar' = [a \in Attempt |-> begunBar'[a]]
    BY DEF begunBar
  <2>3. begunBar = [a \in Attempt |-> begunBar[a]]
    BY DEF begunBar
  <2>4. QED
    BY <2>1, <2>2, <2>3
<1>9. \A g \in Goroutine : Ending(g)' = Ending(g)
  BY <1>1, <1>2, <1>6 DEF Ending, Known, Over
<1>10. endedBar' = endedBar
  <2>1. \A a \in Attempt, j \in Instance : Ending(<<a, j>>)' = Ending(<<a, j>>)
    BY <1>9 DEF Goroutine
  <2>2. endedBar' = [a \in Attempt |-> [j \in Instance |-> Ending(<<a, j>>)']]
    BY DEF endedBar, Received, Ending, Known, Over
  <2>3. QED
    BY <2>1, <2>2, Bars
<1>11. QED
  BY <1>1, <1>4, <1>5, <1>8, <1>10 DEF Composite!Begin

\* Which verdicts the errors that Collect has kept stand for.
LEMMA ErrsAfterFacts ==
    ASSUME IInv, NEW i \in Instance, pc = "collect"
    PROVE  /\ ErrsAfter(i) # <<>> =>
                  \E j \in Received(attempt) \cup {i} : verdict[<<attempt, j>>] \in Hard
           /\ ErrsAfter(i) = <<>> =>
                  \A j \in Received(attempt) \cup {i} : verdict[<<attempt, j>>] \notin Hard
<1>1. errs \in Seq(Instance)
  BY DEF IInv, TypeOK
<1>2. /\ \A k \in DOMAIN errs : /\ errs[k] \in Received(attempt)
                                /\ verdict[<<attempt, errs[k]>>] \in Hard
      /\ \A j \in Received(attempt) : verdict[<<attempt, j>>] \in Hard => errs # <<>>
  BY DEF IInv, ErrsInv
<1>3. errs # <<>> => \E j \in Received(attempt) : verdict[<<attempt, j>>] \in Hard
  <2>1. errs # <<>> => 1 \in DOMAIN errs
    BY <1>1
  <2>2. QED
    BY <1>2, <2>1
<1>4. Append(errs, i) # <<>>
  <2>1. Len(Append(errs, i)) = Len(errs) + 1 /\ Len(errs) \in Nat
    BY <1>1
  <2>2. QED
    BY <2>1
<1>5. CASE errs # <<>>
  BY <1>1, <1>3, <1>4, <1>5 DEF ErrsAfter
<1>6. CASE errs = <<>>
  <2>1. ErrsAfter(i) = IF verdict[<<attempt, i>>] \in Hard THEN Append(errs, i) ELSE errs
    BY <1>6 DEF ErrsAfter
  <2>2. \A j \in Received(attempt) : verdict[<<attempt, j>>] \notin Hard
    BY <1>2, <1>6
  <2>3. QED
    BY <1>4, <1>6, <2>1, <2>2
<1>7. QED
  BY <1>5, <1>6

\* The result of one more instance is received.  With the last one the
\* attempt is decided, by the errors that were kept.
LEMMA RefineCollect ==
    ASSUME IInv, NEW i \in Instance, Collect(i), NEW b \in Attempt, b = attempt
    PROVE  Composite!End(b, i)
<1>0. TypeOK /\ VerdictInv /\ ExistInv /\ OutcomeInv
  BY DEF IInv
<1> DEFINE last == Received(b) \cup {i} = Instance
           failed == ErrsAfter(i) # <<>>
           v == verdict[<<b, i>>]
<1>1. /\ pc = "collect"
      /\ goroutine[<<b, i>>] = "sending"
      /\ goroutine' = [goroutine EXCEPT ![<<b, i>>] = "sent"]
      /\ outcome' = IF last THEN [outcome EXCEPT ![b] = IF failed THEN "failed" ELSE "next"]
                    ELSE outcome
      /\ verdict' = verdict
  BY DEF Collect
<1>2. <<b, i>> \in Goroutine
  BY DEF Goroutine
<1>3. \A g \in Goroutine : goroutine'[g] = IF g = <<b, i>> THEN "sent" ELSE goroutine[g]
  BY <1>0, <1>1, <1>2 DEF TypeOK
<1>4. v \in Composite!Verdict
  BY <1>0, <1>1, <1>2 DEF VerdictInv, TypeOK, Soft, Hard, Composite!Verdict
<1>5. outcome[b] = "running"
  BY <1>0, <1>1 DEF OutcomeInv
<1>6. begunBar' = begunBar /\ i \in begunBar[b]
  <2>1. \A a \in Attempt, j \in Instance :
            goroutine'[<<a, j>>] # "none" <=> goroutine[<<a, j>>] # "none"
    BY <1>1, <1>3 DEF Goroutine
  <2>2. QED
    BY <1>1, <2>1 DEF begunBar
<1>7. endedBar[b][i] = "none"
  BY <1>1, Bars DEF Ending, Known, Over
<1>8. \A a \in Attempt, j \in Instance :
          Ending(<<a, j>>)' = IF a = b /\ j = i THEN v ELSE Ending(<<a, j>>)
  <2> TAKE a \in Attempt, j \in Instance
  <2>1. <<a, j>> \in Goroutine /\ (<<a, j>> = <<b, i>> <=> a = b /\ j = i)
    BY DEF Goroutine
  <2>2. CASE a = b /\ j = i
    BY <1>1, <1>3, <2>1, <2>2 DEF Ending, Known, Over
  <2>3. CASE ~(a = b /\ j = i)
    BY <1>1, <1>3, <2>1, <2>3 DEF Ending, Known, Over
  <2>4. QED
    BY <2>2, <2>3
<1>9. endedBar' = [a \in Attempt |-> [j \in Instance |-> Ending(<<a, j>>)']]
  BY DEF endedBar, Received, Ending, Known, Over
<1>10. endedBar' = [endedBar EXCEPT ![b][i] = v]
  <2> HIDE DEF v
  <2>1. \A a \in Attempt : endedBar'[a] =
            IF a = b THEN [endedBar[b] EXCEPT ![i] = v] ELSE endedBar[a]
    BY <1>8, <1>9, Bars
  <2>2. QED
    BY <1>9, <2>1, Bars
<1>11. CASE ~last
  BY <1>1, <1>4, <1>5, <1>6, <1>7, <1>10, <1>11 DEF Composite!End
<1>12. CASE last
  <2>1. begunBar[b] = Instance
    BY <1>0, <1>1 DEF ExistInv, begunBar
  <2>2. \A j \in Instance : j = i \/ Known(<<b, j>>)
    BY <1>12 DEF Received, Known, Over
  <2>3. \A j \in Instance : endedBar'[b][j] = verdict[<<b, j>>]
    BY <1>8, <1>9, <2>2 DEF Ending
  <2>4. \A j \in Instance : verdict[<<b, j>>] # "none"
    BY <1>0, <1>1, <2>2 DEF VerdictInv, Goroutine, Known
  <2>5. /\ failed => \E j \in Instance : verdict[<<b, j>>] \in Hard
        /\ ~failed => \A j \in Instance : verdict[<<b, j>>] \notin Hard
    BY <1>1, <1>12, ErrsAfterFacts
  <2> HIDE DEF failed, v
  <2>6. Composite!Decide(b, IF failed THEN "failed" ELSE "next")
    BY <2>1, <2>3, <2>4, <2>5 DEF Composite!Decide, Composite!Aborting, Hard
  <2>7. outcome' = [outcome EXCEPT ![b] = IF failed THEN "failed" ELSE "next"]
    BY <1>1, <1>12
  <2>8. QED
    BY <1>4, <1>5, <1>6, <1>7, <1>10, <2>6, <2>7 DEF Composite!End
<1>13. QED
  BY <1>11, <1>12

\* The one way out before the instances have begun.
LEMMA RefineBreak ==
    ASSUME IInv, CannotExpand, NEW b \in Attempt, b = attempt
    PROVE  Composite!Break(b)
<1>0. ExistInv /\ OutcomeInv
  BY DEF IInv
<1>1. /\ pc = "matrix" /\ outcome' = [outcome EXCEPT ![b] = "broken"]
      /\ UNCHANGED <<goroutine, verdict>>
  BY DEF CannotExpand
<1>2. outcome[b] = "running"
  BY <1>0, <1>1 DEF OutcomeInv
<1>3. begunBar[b] # Instance
  <2>1. begunBar[b] = {}
    BY <1>0, <1>1 DEF ExistInv, begunBar
  <2>2. QED
    BY <2>1, InstanceAssumption
<1>4. begunBar' = begunBar /\ endedBar' = endedBar
  BY <1>1 DEF begunBar, endedBar, Received
<1>5. QED
  BY <1>1, <1>2, <1>3, <1>4 DEF Composite!Break

LEMMA RefineStep ==
    IInv /\ [Next]_vars => [Composite!CompositeNext]_(Composite!compositeVars)
<1> SUFFICES ASSUME IInv, [Next]_vars
             PROVE  Composite!CompositeNext \/ UNCHANGED Composite!compositeVars
  OBVIOUS
<1>0. TypeOK /\ VerdictInv
  BY DEF IInv
<1>a. ASSUME UNCHANGED <<goroutine, verdict, outcome>>
      PROVE  UNCHANGED Composite!compositeVars
  BY <1>a, RefineStutter DEF Known
\* A step of a goroutine that its caller does not see.
<1>b. ASSUME NEW g \in Goroutine, NEW s, outcome' = outcome,
             goroutine' = [goroutine EXCEPT ![g] = s],
             \A h \in Goroutine : h # g => verdict'[h] = verdict[h],
             \/ goroutine[g] \in Busy /\ s \in Busy
             \/ goroutine[g] = "sent" /\ s = "gone" /\ verdict' = verdict
      PROVE  UNCHANGED Composite!compositeVars
  <2>1. \A h \in Goroutine : goroutine'[h] = IF h = g THEN s ELSE goroutine[h]
    BY <1>0, <1>b DEF TypeOK
  <2>2. \A h \in Goroutine : goroutine[h] = "none" <=> goroutine'[h] = "none"
    BY <1>b, <2>1 DEF Busy
  <2>3. \A h \in Goroutine : Known(h) <=> Known(h)'
    BY <1>b, <2>1 DEF Busy, Known, Over
  <2>4. \A h \in Goroutine : Known(h) => verdict'[h] = verdict[h]
    BY <1>b DEF Busy, Known, Over
  <2>5. QED
    BY <1>b, <2>2, <2>3, <2>4, RefineStutter
<1>1. CASE BeginAttempt
  BY <1>1, <1>a DEF BeginAttempt
<1>2. CASE GiveUp
  BY <1>2, <1>a DEF GiveUp
<1>3. CASE BackoffOver
  BY <1>3, <1>a DEF BackoffOver
<1>4. ASSUME NEW r \in Soft \cup Hard, RunPlain(r) PROVE UNCHANGED Composite!compositeVars
  BY <1>4, <1>a DEF RunPlain
<1>5. ASSUME CannotExpand PROVE Composite!CompositeNext
  <2>1. PICK b \in Attempt : b = attempt
    BY <1>5, AttemptIsOne DEF CannotExpand
  <2>2. Composite!Break(b)
    BY <1>5, <2>1, RefineBreak
  <2>3. QED
    BY <2>2 DEF Composite!CompositeNext
<1>6. CASE Expand
  BY <1>6, <1>a DEF Expand
<1>7. ASSUME NEW i \in Instance, Spawn(i) PROVE Composite!CompositeNext
  <2>1. PICK b \in Attempt : b = attempt
    BY <1>7, AttemptIsOne DEF Spawn
  <2>2. Composite!Begin(b, i)
    BY <1>7, <2>1, RefineSpawn
  <2>3. QED
    BY <2>2 DEF Composite!CompositeNext
<1>8. ASSUME NEW i \in Instance, Collect(i) PROVE Composite!CompositeNext
  <2>1. PICK b \in Attempt : b = attempt
    BY <1>8, AttemptIsOne DEF Collect
  <2>2. Composite!End(b, i)
    BY <1>8, <2>1, RefineCollect
  <2>3. QED
    BY <2>2 DEF Composite!CompositeNext
<1>9. ASSUME NEW g \in Goroutine, Acquire(g) PROVE UNCHANGED Composite!compositeVars
  BY <1>9, <1>b DEF Acquire, stepVars, Busy
<1>10. ASSUME NEW g \in Goroutine, Start(g) PROVE UNCHANGED Composite!compositeVars
  BY <1>10, <1>b DEF Start, stepVars, Busy
<1>11. ASSUME NEW g \in Goroutine, Abandon(g) PROVE UNCHANGED Composite!compositeVars
  <2>1. /\ goroutine' = [goroutine EXCEPT ![g] = "sending"]
        /\ goroutine[g] \in Busy /\ "sending" \in Busy /\ outcome' = outcome
        /\ verdict' = [verdict EXCEPT ![g] = "canceled"]
    BY <1>11 DEF Abandon, stepVars, Busy
  <2>2. \A h \in Goroutine : h # g => verdict'[h] = verdict[h]
    BY <1>0, <2>1 DEF TypeOK
  <2>3. QED
    BY <1>b, <2>1, <2>2
<1>12. ASSUME NEW g \in Goroutine, NEW r \in Soft \cup Hard, Finish(g, r)
       PROVE  UNCHANGED Composite!compositeVars
  <2> DEFINE after == RetryAfter(r, spent, Cancelled)
             s == IF after.again THEN "backoff" ELSE "sending"
             v == IF after.again THEN verdict[g] ELSE after.verdict
  <2>1. /\ goroutine[g] \in Busy
        /\ goroutine' = [goroutine EXCEPT ![g] = s]
        /\ verdict' = [verdict EXCEPT ![g] = v]
        /\ outcome' = outcome
    BY <1>12 DEF Finish, stepVars, Busy
  <2>2. s \in Busy
    BY DEF Busy
  <2> HIDE DEF s, v
  <2>3. \A h \in Goroutine : h # g => verdict'[h] = verdict[h]
    BY <1>0, <2>1 DEF TypeOK
  <2>4. QED
    BY <1>b, <2>1, <2>2, <2>3
<1>13. ASSUME NEW g \in Goroutine, Wake(g) PROVE UNCHANGED Composite!compositeVars
  BY <1>13, <1>b DEF Wake, stepVars, Busy
<1>14. ASSUME NEW g \in Goroutine, Release(g) PROVE UNCHANGED Composite!compositeVars
  BY <1>14, <1>b DEF Release, stepVars
<1>15. CASE CancelParent \/ ParentExpires
  BY <1>15, <1>a DEF CancelParent, ParentExpires, ParentEnds
<1>16. CASE UNCHANGED vars
  BY <1>16, <1>a DEF vars
<1>17. QED
  BY <1>1, <1>2, <1>3, <1>4, <1>5, <1>6, <1>7, <1>8, <1>9,
     <1>10, <1>11, <1>12, <1>13, <1>14, <1>15, <1>16
     DEF Next, Step, Worker

(* Each attempt of a matrix is a composite step: it goes on with its chain *)
(* when all instances have ended and none of them with an error that       *)
(* aborts, it fails only when one did and none is left running, and it     *)
(* gives up before the first instance only when it cannot be expanded.     *)
THEOREM Refinement == Spec => ImplementsComposite
<1>1. QED
  BY RefineInit, RefineStep, Invariance, PTL
     DEF Spec, ImplementsComposite, Composite!CompositeSpec

=============================================================================
