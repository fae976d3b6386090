-------------------------- MODULE ConcurrentProofs --------------------------
(***************************************************************************)
(* Proofs about the concurrent step, for every number of references, of    *)
(* invocations and of tokens in the pool.                                  *)
(***************************************************************************)
EXTENDS Concurrent, FiniteSetTheorems, TLAPS

(* The inductive invariant, part by part.                                  *)

\* The pool holds one token for each goroutine between Acquire and Release.
PoolInv == pool = IF MaxConcurrent > 0 THEN Cardinality(Holding) ELSE 0

\* Goroutines are started in the order of the references.
SpawnInv ==
    \A v \in Invocation :
        /\ \A c \in Child : goroutine[<<v, c>>] # "none" <=> c <= spawned[v]
        /\ pc[v] = "spawn" => spawned[v] < Refs
        /\ pc[v] \in {"collect", "next"} => spawned[v] = Refs

\* A verdict is known from the end of the child on, and received results
\* are the recorded children.
ResultInv ==
    \A v \in Invocation :
        /\ steps[v] = {c \in Child : goroutine[<<v, c>>] \in {"sent", "gone"}}
        /\ done[v] = Cardinality(steps[v])
        /\ \A c \in Child : verdict[<<v, c>>] # "none"
                <=> goroutine[<<v, c>>] \in {"sending", "sent", "gone"}

\* The errors kept are errors of received children, and none is kept only
\* if none was received.
ErrsInv ==
    \A v \in Invocation :
        /\ \A k \in DOMAIN errs[v] :
               errs[v][k] \in steps[v] /\ verdict[<<v, errs[v][k]>>] \in Hard
        /\ (\E c \in steps[v] : verdict[<<v, c>>] \in Hard) => errs[v] # <<>>

\* What each place of the collector knows.
PcInv ==
    \A v \in Invocation :
        /\ pc[v] = "spawn" => done[v] = 0 /\ outcome[v] = "running"
        /\ pc[v] = "collect" => done[v] < Refs /\ outcome[v] = "running"
        /\ pc[v] = "next" => outcome[v] = "next"
        /\ pc[v] = "returned" => outcome[v] \in {"next", "failed", "broken"}
        /\ outcome[v] \in {"next", "failed"} => done[v] = Refs
        /\ outcome[v] = "next" => errs[v] = <<>>
        /\ outcome[v] = "failed" => errs[v] # <<>>

IInv == TypeOK /\ PoolInv /\ SpawnInv /\ ResultInv /\ ErrsInv /\ PcInv

-----------------------------------------------------------------------------

LEMMA GoroutineFinite == IsFiniteSet(Goroutine)
<1>1. IsFiniteSet(Child)
  BY FS_Interval, ConcurrentAssumption DEF Child
<1>2. QED
  BY <1>1, FS_Product, ConcurrentAssumption DEF Goroutine

LEMMA ChildCardinality == IsFiniteSet(Child) /\ Cardinality(Child) = Refs
BY FS_Interval, ConcurrentAssumption DEF Child

\* The goroutines that hold a token grow and shrink by one.
LEMMA HoldingFinite == IsFiniteSet(Holding)
BY GoroutineFinite, FS_Subset DEF Holding

LEMMA InitIInv == Init => IInv
<1> SUFFICES ASSUME Init PROVE IInv
  OBVIOUS
<1> USE ConcurrentAssumption DEF ConcurrentAssumption
<1>1. TypeOK
  <2>1. errs \in [Invocation -> Seq(Child)]
    BY DEF Init
  <2>2. parent \in {"none"} \cup Cause /\ cause \in [Invocation -> {"none"} \cup Cause]
    BY DEF Init
  <2>3. pool \in 0..MaxConcurrent /\ spawned \in [Invocation -> 0..Refs] /\ done \in [Invocation -> 0..Refs]
    BY DEF Init
  <2>4. pc \in [Invocation -> {"spawn", "collect", "next", "returned"}] /\ steps \in [Invocation -> SUBSET Child]
    BY DEF Init
  <2>5. QED
    BY <2>1, <2>2, <2>3, <2>4 DEF Init, TypeOK
<1>2. PoolInv
  <2>1. Holding = {}
    BY DEF Init, Holding
  <2>2. QED
    BY <2>1, FS_EmptySet DEF Init, PoolInv
<1>3. SpawnInv
  BY DEF Init, SpawnInv, Child, Goroutine
<1>4. ResultInv
  <2>1. \A v \in Invocation : {c \in Child : goroutine[<<v, c>>] \in {"sent", "gone"}} = {}
    BY DEF Init, Child, Goroutine
  <2>2. QED
    BY <2>1, FS_EmptySet DEF Init, ResultInv, Goroutine
<1>5. ErrsInv
  BY DEF Init, ErrsInv
<1>6. PcInv
  BY DEF Init, PcInv
<1>7. QED
  BY <1>1, <1>2, <1>3, <1>4, <1>5, <1>6 DEF IInv

-----------------------------------------------------------------------------
(* One step, part by part.                                                 *)

\* A goroutine that takes or gives back a token changes Holding by itself.
LEMMA HoldingGrows ==
    ASSUME NEW g \in Goroutine, IInv, goroutine[g] = "queued",
           goroutine' = [goroutine EXCEPT ![g] = "running"]
    PROVE  /\ Cardinality(Holding') = Cardinality(Holding) + 1
           /\ Cardinality(Holding) \in Nat
<1>1. Holding' = Holding \cup {g} /\ g \notin Holding
  BY DEF Holding, IInv, TypeOK
<1>2. QED
  BY <1>1, HoldingFinite, FS_AddElement, FS_CardinalityType

LEMMA HoldingShrinks ==
    ASSUME NEW g \in Goroutine, IInv, goroutine[g] = "sent",
           goroutine' = [goroutine EXCEPT ![g] = "gone"]
    PROVE  /\ Cardinality(Holding') = Cardinality(Holding) - 1
           /\ Cardinality(Holding) \in Nat \ {0}
<1>1. Holding' = Holding \ {g} /\ g \in Holding
  BY DEF Holding, IInv, TypeOK
<1>2. Cardinality(Holding) # 0
  BY <1>1, HoldingFinite, FS_EmptySet
<1>3. QED
  BY <1>1, <1>2, HoldingFinite, FS_RemoveElement, FS_CardinalityType

\* Every other step of a goroutine or a collector leaves Holding as it is.
LEMMA HoldingStays ==
    ASSUME NEW g \in Goroutine, NEW s, IInv, MaxConcurrent > 0,
           goroutine' = [goroutine EXCEPT ![g] = s],
           g \in Holding <=> s \in {"running", "sending", "sent"}
    PROVE  Holding' = Holding
BY DEF Holding, IInv, TypeOK

LEMMA TypeStep == IInv /\ [Next]_vars => TypeOK'
<1> SUFFICES ASSUME IInv, [Next]_vars PROVE TypeOK'
  OBVIOUS
<1> USE ConcurrentAssumption DEF ConcurrentAssumption, TypeOK, Child, Goroutine
<1>0. TypeOK
  BY DEF IInv
<1>1. ASSUME NEW v \in Invocation, Spawn(v) PROVE TypeOK'
  <2>1. spawned[v] < Refs
    BY <1>1 DEF Spawn, IInv, SpawnInv
  <2>2. spawned[v] + 1 \in Child /\ <<v, spawned[v] + 1>> \in Goroutine
    BY <1>0, <2>1
  <2>3. QED
    BY <1>0, <1>1, <2>2 DEF Spawn
<1>2. ASSUME NEW v \in Invocation, EntrypointFails(v) PROVE TypeOK'
  BY <1>0, <1>2 DEF EntrypointFails, Ended, Cause
<1>3. ASSUME NEW v \in Invocation, NEW c \in Child, Collect(v, c) PROVE TypeOK'
  <2>1. done[v] < Refs
    BY <1>3 DEF Collect, IInv, PcInv
  <2>2. done' \in [Invocation -> 0..Refs]
    BY <1>0, <1>3, <2>1 DEF Collect
  <2>3. errs' \in [Invocation -> Seq(Child)]
    <3>1. errs[v] \in Seq(Child) /\ Append(errs[v], c) \in Seq(Child)
      BY <1>0
    <3>2. ErrsAfter(v, c) \in Seq(Child)
      BY <3>1 DEF ErrsAfter
    <3>3. QED
      BY <1>0, <1>3, <3>2 DEF Collect
  <2>4. cause' \in [Invocation -> {"none"} \cup Cause]
    BY <1>0, <1>3 DEF Collect, Ended, Cause
  <2>5. goroutine' \in [Goroutine -> {"none", "queued", "running", "sending",
                                      "sent", "gone"}]
    BY <1>0, <1>3 DEF Collect
  <2>6. pc' \in [Invocation -> {"spawn", "collect", "next", "returned"}]
    BY <1>0, <1>3 DEF Collect
  <2>7. outcome' \in [Invocation -> {"running", "next", "failed", "broken"}]
    BY <1>0, <1>3 DEF Collect
  <2>8. steps' \in [Invocation -> SUBSET Child]
    BY <1>0, <1>3 DEF Collect
  <2>9. QED
    BY <1>0, <1>3, <2>2, <2>3, <2>4, <2>5, <2>6, <2>7, <2>8 DEF Collect
<1>4. ASSUME NEW v \in Invocation, CallNext(v) PROVE TypeOK'
  BY <1>0, <1>4 DEF CallNext, Ended, Cause
<1>5. ASSUME NEW g \in Goroutine, Acquire(g) PROVE TypeOK'
  BY <1>0, <1>5 DEF Acquire
<1>6. ASSUME NEW g \in Goroutine, NEW r \in Soft \cup Hard, Finish(g, r) PROVE TypeOK'
  BY <1>0, <1>6 DEF Finish
<1>7. ASSUME NEW g \in Goroutine, Release(g) PROVE TypeOK'
  <2>1. MaxConcurrent > 0 => pool > 0
    <3>1. goroutine[g] = "sent" /\ goroutine' = [goroutine EXCEPT ![g] = "gone"]
      BY <1>7 DEF Release
    <3>2. Cardinality(Holding) \in Nat \ {0}
      BY <3>1, HoldingShrinks
    <3>3. QED
      BY <3>2 DEF IInv, PoolInv
  <2>2. pool' \in 0..MaxConcurrent
    BY <1>0, <1>7, <2>1 DEF Release
  <2>3. QED
    BY <1>0, <1>7, <2>2 DEF Release
<1>8. CASE CancelParent \/ ParentExpires
  BY <1>0, <1>8 DEF CancelParent, ParentExpires, ParentEnds, Ended, Cause
<1>9. CASE UNCHANGED vars
  BY <1>0, <1>9 DEF vars
<1>10. QED
  BY <1>1, <1>2, <1>3, <1>4, <1>5, <1>6, <1>7, <1>8, <1>9
     DEF Next, Collector, Worker

LEMMA PoolStep == IInv /\ [Next]_vars => PoolInv'
<1> SUFFICES ASSUME IInv, [Next]_vars PROVE PoolInv'
  OBVIOUS
<1> USE ConcurrentAssumption DEF ConcurrentAssumption
<1>0. TypeOK /\ PoolInv
  BY DEF IInv
<1>a. ASSUME pool' = pool, MaxConcurrent > 0 => Holding' = Holding PROVE PoolInv'
  BY <1>0, <1>a DEF PoolInv
<1>b. ASSUME UNCHANGED <<goroutine, pool>> PROVE PoolInv'
  BY <1>0, <1>b DEF PoolInv, Holding
<1>1. ASSUME NEW v \in Invocation, Spawn(v) PROVE PoolInv'
  <2>1. <<v, spawned[v] + 1>> \in Goroutine
    BY <1>0, <1>1 DEF Spawn, IInv, SpawnInv, TypeOK, Goroutine, Child
  <2>2. goroutine[<<v, spawned[v] + 1>>] = "none"
    BY <1>0, <1>1, <2>1 DEF Spawn, IInv, SpawnInv, TypeOK, Goroutine, Child
  <2>3. MaxConcurrent > 0 => Holding' = Holding
    <3> SUFFICES ASSUME MaxConcurrent > 0 PROVE Holding' = Holding
      OBVIOUS
    <3>1. goroutine' = [goroutine EXCEPT ![<<v, spawned[v] + 1>>] = "queued"]
      BY <1>1 DEF Spawn
    <3>2. <<v, spawned[v] + 1>> \notin Holding
      BY <2>2 DEF Holding
    <3>3. QED
      BY <2>1, <3>1, <3>2, HoldingStays
  <2>4. QED
    BY <1>1, <1>a, <2>3 DEF Spawn
<1>2. ASSUME NEW v \in Invocation, EntrypointFails(v) PROVE PoolInv'
  BY <1>2, <1>b DEF EntrypointFails
<1>3. ASSUME NEW v \in Invocation, NEW c \in Child, Collect(v, c) PROVE PoolInv'
  <2>1. <<v, c>> \in Goroutine /\ <<v, c>> \in Holding
    BY <1>3 DEF Collect, Goroutine, Holding
  <2>2. goroutine' = [goroutine EXCEPT ![<<v, c>>] = "sent"] /\ pool' = pool
    BY <1>3 DEF Collect
  <2>3. MaxConcurrent > 0 => Holding' = Holding
    BY <2>1, <2>2, HoldingStays
  <2>4. QED
    BY <1>a, <2>2, <2>3
<1>4. ASSUME NEW v \in Invocation, CallNext(v) PROVE PoolInv'
  BY <1>4, <1>b DEF CallNext
<1>5. ASSUME NEW g \in Goroutine, Acquire(g) PROVE PoolInv'
  <2>1. /\ goroutine[g] = "queued" /\ pool < MaxConcurrent /\ pool' = pool + 1
        /\ goroutine' = [goroutine EXCEPT ![g] = "running"]
    BY <1>5 DEF Acquire
  <2>2. Cardinality(Holding') = Cardinality(Holding) + 1
    BY <2>1, HoldingGrows
  <2>3. MaxConcurrent > 0
    BY <1>0, <2>1 DEF TypeOK
  <2>4. QED
    BY <1>0, <2>1, <2>2, <2>3 DEF PoolInv
<1>6. ASSUME NEW g \in Goroutine, NEW r \in Soft \cup Hard, Finish(g, r) PROVE PoolInv'
  <2>1. g \in Holding
    BY <1>6 DEF Finish, Holding
  <2>2. goroutine' = [goroutine EXCEPT ![g] = "sending"] /\ pool' = pool
    BY <1>6 DEF Finish
  <2>3. MaxConcurrent > 0 => Holding' = Holding
    BY <2>1, <2>2, HoldingStays
  <2>4. QED
    BY <1>a, <2>2, <2>3
<1>7. ASSUME NEW g \in Goroutine, Release(g) PROVE PoolInv'
  <2>1. /\ goroutine[g] = "sent"
        /\ goroutine' = [goroutine EXCEPT ![g] = "gone"]
        /\ pool' = IF MaxConcurrent > 0 THEN pool - 1 ELSE pool
    BY <1>7 DEF Release
  <2>2. Cardinality(Holding') = Cardinality(Holding) - 1
    BY <2>1, HoldingShrinks
  <2>3. QED
    BY <1>0, <2>1, <2>2 DEF PoolInv
<1>8. CASE CancelParent \/ ParentExpires
  BY <1>8, <1>b DEF CancelParent, ParentExpires, ParentEnds
<1>9. CASE UNCHANGED vars
  BY <1>9, <1>b DEF vars
<1>10. QED
  BY <1>1, <1>2, <1>3, <1>4, <1>5, <1>6, <1>7, <1>8, <1>9
     DEF Next, Collector, Worker

LEMMA SpawnStep == IInv /\ [Next]_vars => SpawnInv'
<1> SUFFICES ASSUME IInv, [Next]_vars PROVE SpawnInv'
  OBVIOUS
<1> USE ConcurrentAssumption DEF ConcurrentAssumption, Goroutine
<1>0. TypeOK /\ SpawnInv
  BY DEF IInv
\* A goroutine that exists goes on existing.
<1>a. ASSUME NEW g \in Goroutine, NEW s, goroutine[g] # "none", s # "none",
             goroutine' = [goroutine EXCEPT ![g] = s],
             spawned' = spawned,
             \A v \in Invocation : pc'[v] = pc[v] \/ pc'[v] = "returned"
                                   \/ (pc[v] = "collect" /\ pc'[v] = "next")
      PROVE  SpawnInv'
  BY <1>0, <1>a DEF SpawnInv, TypeOK
<1>b. ASSUME UNCHANGED <<goroutine, spawned>>,
             \A v \in Invocation : pc'[v] = pc[v] \/ pc'[v] = "returned"
      PROVE  SpawnInv'
  BY <1>0, <1>b DEF SpawnInv
<1>1. ASSUME NEW v \in Invocation, Spawn(v) PROVE SpawnInv'
  <2>1. spawned[v] \in Nat /\ spawned[v] < Refs
    BY <1>0, <1>1 DEF Spawn, SpawnInv, TypeOK
  <2>2. spawned' = [spawned EXCEPT ![v] = spawned[v] + 1]
    BY <1>1 DEF Spawn
  <2>3. \A w \in Invocation, c \in Child :
            goroutine'[<<w, c>>] # "none" <=> c <= spawned'[w]
    <3> TAKE w \in Invocation, c \in Child
    <3>1. goroutine' = [goroutine EXCEPT ![<<v, spawned[v] + 1>>] =
                           IF MaxConcurrent > 0 THEN "queued" ELSE "running"]
      BY <1>1 DEF Spawn
    <3>2. CASE w = v /\ c = spawned[v] + 1
      BY <1>0, <2>1, <2>2, <3>1, <3>2 DEF TypeOK, Child
    <3>3. CASE ~(w = v /\ c = spawned[v] + 1)
      <4>1. goroutine'[<<w, c>>] = goroutine[<<w, c>>]
        BY <1>0, <3>1, <3>3 DEF TypeOK
      <4>2. c \in Nat /\ spawned'[w] = IF w = v THEN spawned[v] + 1 ELSE spawned[w]
        BY <1>0, <2>2 DEF TypeOK, Child
      <4>3. QED
        BY <1>0, <2>1, <3>3, <4>1, <4>2 DEF SpawnInv, TypeOK
    <3>4. QED
      BY <3>2, <3>3
  <2>4. \A w \in Invocation : /\ pc'[w] = "spawn" => spawned'[w] < Refs
                              /\ pc'[w] \in {"collect", "next"} => spawned'[w] = Refs
    BY <1>0, <1>1, <2>1, <2>2 DEF Spawn, SpawnInv, TypeOK
  <2>5. QED
    BY <2>3, <2>4 DEF SpawnInv
<1>2. ASSUME NEW v \in Invocation, EntrypointFails(v) PROVE SpawnInv'
  BY <1>0, <1>2, <1>b DEF EntrypointFails, TypeOK
<1>3. ASSUME NEW v \in Invocation, NEW c \in Child, Collect(v, c) PROVE SpawnInv'
  BY <1>0, <1>3, <1>a DEF Collect, TypeOK
<1>4. ASSUME NEW v \in Invocation, CallNext(v) PROVE SpawnInv'
  BY <1>0, <1>4, <1>b DEF CallNext, TypeOK
<1>5. ASSUME NEW g \in Goroutine, Acquire(g) PROVE SpawnInv'
  BY <1>5, <1>a DEF Acquire
<1>6. ASSUME NEW g \in Goroutine, NEW r \in Soft \cup Hard, Finish(g, r) PROVE SpawnInv'
  BY <1>6, <1>a DEF Finish
<1>7. ASSUME NEW g \in Goroutine, Release(g) PROVE SpawnInv'
  BY <1>7, <1>a DEF Release
<1>8. CASE CancelParent \/ ParentExpires
  BY <1>8, <1>b DEF CancelParent, ParentExpires, ParentEnds
<1>9. CASE UNCHANGED vars
  BY <1>9, <1>b DEF vars
<1>10. QED
  BY <1>1, <1>2, <1>3, <1>4, <1>5, <1>6, <1>7, <1>8, <1>9
     DEF Next, Collector, Worker

LEMMA ResultStep == IInv /\ [Next]_vars => ResultInv'
<1> SUFFICES ASSUME IInv, [Next]_vars PROVE ResultInv'
  OBVIOUS
<1> USE ConcurrentAssumption DEF ConcurrentAssumption, Goroutine
<1>0. TypeOK /\ ResultInv
  BY DEF IInv
\* A step of a goroutine that neither ends its child nor hands over a result.
<1>a. ASSUME NEW g \in Goroutine, NEW s, UNCHANGED <<steps, done, verdict>>,
             goroutine' = [goroutine EXCEPT ![g] = s],
             \/ goroutine[g] \in {"none", "queued"} /\ s \in {"queued", "running"}
             \/ goroutine[g] = "sent" /\ s = "gone"
      PROVE  ResultInv'
  <2>1. \A w \in Invocation, d \in Child :
            /\ goroutine'[<<w, d>>] \in {"sent", "gone"}
                  <=> goroutine[<<w, d>>] \in {"sent", "gone"}
            /\ goroutine'[<<w, d>>] \in {"sending", "sent", "gone"}
                  <=> goroutine[<<w, d>>] \in {"sending", "sent", "gone"}
    BY <1>0, <1>a DEF TypeOK
  <2>2. QED
    BY <1>0, <1>a, <2>1 DEF ResultInv
<1>b. ASSUME UNCHANGED <<goroutine, steps, done, verdict>> PROVE ResultInv'
  BY <1>0, <1>b DEF ResultInv
<1>1. ASSUME NEW v \in Invocation, Spawn(v) PROVE ResultInv'
  <2>1. <<v, spawned[v] + 1>> \in Goroutine
        /\ goroutine[<<v, spawned[v] + 1>>] = "none"
    BY <1>0, <1>1 DEF Spawn, IInv, SpawnInv, TypeOK, Child
  <2> DEFINE s == IF MaxConcurrent > 0 THEN "queued" ELSE "running"
  <2>2. /\ goroutine' = [goroutine EXCEPT ![<<v, spawned[v] + 1>>] = s]
        /\ s \in {"queued", "running"}
        /\ UNCHANGED <<steps, done, verdict>>
    BY <1>1 DEF Spawn
  <2>3. QED
    BY <1>a, <2>1, <2>2
<1>2. ASSUME NEW v \in Invocation, EntrypointFails(v) PROVE ResultInv'
  BY <1>2, <1>b DEF EntrypointFails
<1>3. ASSUME NEW v \in Invocation, NEW c \in Child, Collect(v, c) PROVE ResultInv'
  <2>1. /\ goroutine[<<v, c>>] = "sending"
        /\ goroutine' = [goroutine EXCEPT ![<<v, c>>] = "sent"]
        /\ steps' = [steps EXCEPT ![v] = steps[v] \cup {c}]
        /\ done' = [done EXCEPT ![v] = done[v] + 1]
        /\ verdict' = verdict
    BY <1>3 DEF Collect
  <2>2. c \notin steps[v]
    BY <1>0, <2>1 DEF ResultInv
  <2>3. IsFiniteSet(steps[v])
    BY <1>0, ChildCardinality, FS_Subset DEF TypeOK
  <2>4. \A w \in Invocation : done'[w] = Cardinality(steps'[w])
    <3>1. Cardinality(steps[v] \cup {c}) = Cardinality(steps[v]) + 1
      BY <2>2, <2>3, FS_AddElement
    <3>2. QED
      BY <1>0, <2>1, <3>1 DEF ResultInv, TypeOK
  <2>5. \A w \in Invocation :
            steps'[w] = {d \in Child : goroutine'[<<w, d>>] \in {"sent", "gone"}}
    BY <1>0, <2>1 DEF ResultInv, TypeOK
  <2>6. \A w \in Invocation, d \in Child : verdict'[<<w, d>>] # "none"
                <=> goroutine'[<<w, d>>] \in {"sending", "sent", "gone"}
    BY <1>0, <2>1 DEF ResultInv, TypeOK
  <2>7. QED
    BY <2>4, <2>5, <2>6 DEF ResultInv
<1>4. ASSUME NEW v \in Invocation, CallNext(v) PROVE ResultInv'
  BY <1>4, <1>b DEF CallNext
<1>5. ASSUME NEW g \in Goroutine, Acquire(g) PROVE ResultInv'
  BY <1>5, <1>a DEF Acquire
<1>6. ASSUME NEW g \in Goroutine, NEW r \in Soft \cup Hard, Finish(g, r) PROVE ResultInv'
  <2>1. r # "none"
    BY DEF Soft, Hard
  <2>2. /\ goroutine[g] = "running"
        /\ goroutine' = [goroutine EXCEPT ![g] = "sending"]
        /\ verdict' = [verdict EXCEPT ![g] = r]
        /\ UNCHANGED <<steps, done>>
    BY <1>6 DEF Finish
  <2>3. \A w \in Invocation :
            steps'[w] = {d \in Child : goroutine'[<<w, d>>] \in {"sent", "gone"}}
    BY <1>0, <2>2 DEF ResultInv, TypeOK
  <2>4. \A w \in Invocation, d \in Child : verdict'[<<w, d>>] # "none"
                <=> goroutine'[<<w, d>>] \in {"sending", "sent", "gone"}
    BY <1>0, <2>1, <2>2 DEF ResultInv, TypeOK
  <2>5. QED
    BY <1>0, <2>2, <2>3, <2>4 DEF ResultInv
<1>7. ASSUME NEW g \in Goroutine, Release(g) PROVE ResultInv'
  BY <1>7, <1>a DEF Release
<1>8. CASE CancelParent \/ ParentExpires
  BY <1>8, <1>b DEF CancelParent, ParentExpires, ParentEnds
<1>9. CASE UNCHANGED vars
  BY <1>9, <1>b DEF vars
<1>10. QED
  BY <1>1, <1>2, <1>3, <1>4, <1>5, <1>6, <1>7, <1>8, <1>9
     DEF Next, Collector, Worker

LEMMA ErrsStep == IInv /\ [Next]_vars => ErrsInv'
<1> SUFFICES ASSUME IInv, [Next]_vars PROVE ErrsInv'
  OBVIOUS
<1> USE ConcurrentAssumption DEF ConcurrentAssumption, Goroutine
<1>0. TypeOK /\ ResultInv /\ ErrsInv
  BY DEF IInv
<1>b. ASSUME UNCHANGED <<errs, steps, verdict>> PROVE ErrsInv'
  BY <1>0, <1>b DEF ErrsInv
<1>3. ASSUME NEW v \in Invocation, NEW c \in Child, Collect(v, c) PROVE ErrsInv'
  <2>1. /\ steps' = [steps EXCEPT ![v] = steps[v] \cup {c}]
        /\ errs' = [errs EXCEPT ![v] = ErrsAfter(v, c)]
        /\ verdict' = verdict
    BY <1>3 DEF Collect
  <2>2. ASSUME NEW w \in Invocation, w # v
        PROVE  errs'[w] = errs[w] /\ steps'[w] = steps[w]
    BY <1>0, <2>1, <2>2 DEF TypeOK
  <2>3. errs'[v] = ErrsAfter(v, c) /\ steps'[v] = steps[v] \cup {c}
    BY <1>0, <2>1 DEF TypeOK
  <2>4. errs[v] \in Seq(Child)
    BY <1>0 DEF TypeOK
  <2>5. \/ errs'[v] = errs[v] /\ (verdict[<<v, c>>] \in Hard => errs[v] # <<>>)
        \/ errs'[v] = Append(errs[v], c) /\ verdict[<<v, c>>] \in Hard
    BY <2>3 DEF ErrsAfter
  <2>6. \A k \in DOMAIN errs'[v] :
            errs'[v][k] \in steps'[v] /\ verdict[<<v, errs'[v][k]>>] \in Hard
    <3>1. CASE errs'[v] = errs[v]
      BY <1>0, <2>3, <3>1 DEF ErrsInv
    <3>2. CASE errs'[v] = Append(errs[v], c) /\ verdict[<<v, c>>] \in Hard
      <4> SUFFICES ASSUME NEW k \in DOMAIN errs'[v]
                   PROVE  errs'[v][k] \in steps'[v] /\ verdict[<<v, errs'[v][k]>>] \in Hard
        OBVIOUS
      <4>1. CASE k \in DOMAIN errs[v]
        <5>1. errs'[v][k] = errs[v][k]
          BY <2>4, <3>2, <4>1
        <5>2. QED
          BY <1>0, <2>3, <4>1, <5>1 DEF ErrsInv
      <4>2. CASE k \notin DOMAIN errs[v]
        <5>1. errs'[v][k] = c
          BY <2>4, <3>2, <4>2
        <5>2. QED
          BY <2>3, <3>2, <5>1
      <4>3. QED
        BY <4>1, <4>2
    <3>3. QED
      BY <2>5, <3>1, <3>2
  <2>7. (\E d \in steps'[v] : verdict[<<v, d>>] \in Hard) => errs'[v] # <<>>
    <3>1. CASE errs'[v] = errs[v] /\ (verdict[<<v, c>>] \in Hard => errs[v] # <<>>)
      BY <1>0, <2>3, <3>1 DEF ErrsInv
    <3>2. CASE errs'[v] = Append(errs[v], c)
      BY <2>4, <3>2
    <3>3. QED
      BY <2>5, <3>1, <3>2
  <2>8. QED
    BY <1>0, <2>1, <2>2, <2>6, <2>7 DEF ErrsInv
<1>6. ASSUME NEW g \in Goroutine, NEW r \in Soft \cup Hard, Finish(g, r) PROVE ErrsInv'
  <2>1. /\ goroutine[g] = "running"
        /\ verdict' = [verdict EXCEPT ![g] = r]
        /\ UNCHANGED <<steps, errs>>
    BY <1>6 DEF Finish
  \* Only the verdict of a child nobody has recorded yet changes.
  <2>2. \A v \in Invocation : \A c \in steps[v] : verdict'[<<v, c>>] = verdict[<<v, c>>]
    <3> TAKE v \in Invocation
    <3> TAKE c \in steps[v]
    <3>1. c \in Child /\ goroutine[<<v, c>>] \in {"sent", "gone"}
      BY <1>0 DEF ResultInv
    <3>2. <<v, c>> # g
      BY <2>1, <3>1
    <3>3. QED
      BY <1>0, <2>1, <3>1, <3>2 DEF TypeOK
  <2>3. QED
    <3> SUFFICES ASSUME NEW v \in Invocation
                 PROVE  /\ \A k \in DOMAIN errs[v] :
                            /\ errs[v][k] \in steps[v]
                            /\ verdict'[<<v, errs[v][k]>>] \in Hard
                        /\ (\E c \in steps[v] : verdict'[<<v, c>>] \in Hard)
                               => errs[v] # <<>>
      BY <2>1 DEF ErrsInv
    <3>1. QED
      BY <1>0, <2>2 DEF ErrsInv
<1>7. CASE UNCHANGED vars
  BY <1>7, <1>b DEF vars
<1>8. QED
  BY <1>b, <1>3, <1>6, <1>7
     DEF Next, Collector, Worker, Spawn, EntrypointFails, CallNext, Acquire,
         Release, CancelParent, ParentExpires, ParentEnds

LEMMA PcStep == IInv /\ [Next]_vars => PcInv'
<1> SUFFICES ASSUME IInv, [Next]_vars PROVE PcInv'
  OBVIOUS
<1> USE ConcurrentAssumption DEF ConcurrentAssumption, Goroutine
<1>0. TypeOK /\ PcInv
  BY DEF IInv
<1>b. ASSUME UNCHANGED <<pc, done, outcome, errs>> PROVE PcInv'
  BY <1>0, <1>b DEF PcInv
<1>1. ASSUME NEW v \in Invocation, Spawn(v) PROVE PcInv'
  BY <1>0, <1>1 DEF Spawn, PcInv, TypeOK
<1>2. ASSUME NEW v \in Invocation, EntrypointFails(v) PROVE PcInv'
  BY <1>0, <1>2 DEF EntrypointFails, PcInv, TypeOK
<1>3. ASSUME NEW v \in Invocation, NEW c \in Child, Collect(v, c) PROVE PcInv'
  <2>1. pc[v] = "collect" /\ done[v] < Refs /\ outcome[v] = "running"
    BY <1>0, <1>3 DEF Collect, PcInv
  <2>2. /\ done'[v] = done[v] + 1
        /\ errs'[v] = ErrsAfter(v, c)
        /\ pc'[v] = IF done[v] + 1 # Refs THEN "collect"
                    ELSE IF ErrsAfter(v, c) # <<>> THEN "returned" ELSE "next"
        /\ outcome'[v] = IF done[v] + 1 # Refs THEN outcome[v]
                         ELSE IF ErrsAfter(v, c) # <<>> THEN "failed" ELSE "next"
    BY <1>0, <1>3 DEF Collect, TypeOK
  <2>3. done[v] \in Nat
    BY <1>0 DEF TypeOK
  <2>4. ASSUME NEW w \in Invocation, w # v
        PROVE  /\ done'[w] = done[w] /\ errs'[w] = errs[w]
               /\ pc'[w] = pc[w] /\ outcome'[w] = outcome[w]
    BY <1>0, <1>3, <2>4 DEF Collect, TypeOK
  <2>5. ASSUME NEW w \in Invocation, w = v
        PROVE  /\ pc'[w] = "spawn" => done'[w] = 0 /\ outcome'[w] = "running"
               /\ pc'[w] = "collect" => done'[w] < Refs /\ outcome'[w] = "running"
               /\ pc'[w] = "next" => outcome'[w] = "next"
               /\ pc'[w] = "returned" => outcome'[w] \in {"next", "failed", "broken"}
               /\ outcome'[w] \in {"next", "failed"} => done'[w] = Refs
               /\ outcome'[w] = "next" => errs'[w] = <<>>
               /\ outcome'[w] = "failed" => errs'[w] # <<>>
    BY <2>1, <2>2, <2>3, <2>5
  <2>6. QED
    BY <1>0, <2>4, <2>5 DEF PcInv
<1>4. ASSUME NEW v \in Invocation, CallNext(v) PROVE PcInv'
  BY <1>0, <1>4 DEF CallNext, PcInv, TypeOK
<1>5. CASE UNCHANGED vars
  BY <1>5, <1>b DEF vars
<1>6. QED
  BY <1>b, <1>1, <1>2, <1>3, <1>4, <1>5
     DEF Next, Collector, Worker, Acquire, Finish, Release, CancelParent, ParentExpires, ParentEnds

LEMMA IInvStep == IInv /\ [Next]_vars => IInv'
BY TypeStep, PoolStep, SpawnStep, ResultStep, ErrsStep, PcStep DEF IInv

LEMMA Invariance == Spec => []IInv
<1>1. QED
  BY InitIInv, IInvStep, PTL DEF Spec

-----------------------------------------------------------------------------
(* What the invariant gives.                                               *)

\* All results received means that every reference is recorded.
LEMMA AllRecorded ==
    ASSUME IInv, NEW v \in Invocation, done[v] = Refs
    PROVE  steps[v] = Child
<1>1. steps[v] \in SUBSET Child /\ Cardinality(steps[v]) = Cardinality(Child)
  BY ChildCardinality DEF IInv, TypeOK, ResultInv
<1>2. QED
  BY <1>1, ChildCardinality, FS_Subset

(* Type correctness of the concurrent step.                                *)
THEOREM TypeCorrect == Spec => []TypeOK
<1>1. IInv => TypeOK
  BY DEF IInv
<1>2. QED
  BY <1>1, Invariance, PTL

(* At no time do more children run than the pool of the step has tokens,   *)
(* over all its invocations.                                               *)
THEOREM PoolBounded == Spec => []PoolBound
<1>1. IInv => PoolBound
  BY ConcurrentAssumption DEF IInv, TypeOK, PoolInv, PoolBound, ConcurrentAssumption
<1>2. QED
  BY <1>1, Invariance, PTL

(* The step fails if and only if a child failed: cancellation and          *)
(* fail-fast never hide a failure.                                         *)
THEOREM FailureNotLost == Spec => []NoFailureLost
<1>1. IInv => NoFailureLost
  <2> SUFFICES ASSUME IInv, NEW v \in Invocation, outcome[v] \in {"next", "failed"}
               PROVE  outcome[v] = "failed" <=> \E c \in Child : verdict[<<v, c>>] \in Hard
    BY DEF NoFailureLost
  <2>1. steps[v] = Child
    BY AllRecorded DEF IInv, PcInv
  <2>2. errs[v] \in Seq(Child)
    BY DEF IInv, TypeOK
  <2>3. CASE outcome[v] = "next"
    BY <2>1, <2>3 DEF IInv, PcInv, ErrsInv
  <2>4. CASE outcome[v] = "failed"
    <3>1. 1 \in DOMAIN errs[v]
      BY <2>2, <2>4 DEF IInv, PcInv
    <3>2. QED
      BY <2>1, <2>4, <3>1 DEF IInv, ErrsInv
  <2>5. QED
    BY <2>3, <2>4
<1>2. QED
  BY <1>1, Invariance, PTL

(* On return nothing that was started is still running.                    *)
THEOREM DrainedOnReturn == Spec => []Drained
<1>1. IInv => Drained
  <2> SUFFICES ASSUME IInv, NEW v \in Invocation, outcome[v] \in {"next", "failed"}
               PROVE  /\ steps[v] = Child
                      /\ \A c \in Child : goroutine[<<v, c>>] \in {"sent", "gone"}
    BY DEF Drained
  <2>1. steps[v] = Child
    BY AllRecorded DEF IInv, PcInv
  <2>2. QED
    BY <2>1 DEF IInv, ResultInv
<1>2. QED
  BY <1>1, Invariance, PTL

-----------------------------------------------------------------------------
(* Which errors are reported.                                              *)

\* A context that ends from above ends every invocation; before the return
\* only fail-fast cancels, with the first error; and no child ends with the
\* error of a context that is alive.
CancelInv ==
    \A v \in Invocation :
        /\ parent # "none" => cause[v] # "none"
        /\ cause[v] = "canceled" => \/ pc[v] = "returned"
                                    \/ FailFast /\ errs[v] # <<>>
                                    \/ parent = "canceled"
        /\ \A c \in Child : verdict[<<v, c>>] = "canceled" => cause[v] # "none"

\* With fail-fast there is at most one error, the root cause, unless the
\* deadline came first.
RootInv ==
    FailFast =>
        \A v \in Invocation :
            (errs[v] # <<>> /\ cause[v] # "deadline") =>
                /\ cause[v] = "canceled"
                /\ Len(errs[v]) = 1
                /\ parent # "canceled" => verdict[<<v, errs[v][1]>>] = "hard"

\* Where nothing cancels the children, every failure is kept once.
Joins(v) == cause[v] # "canceled" \/ (~FailFast /\ parent # "canceled")

JoinInv ==
    \A v \in Invocation : Joins(v) =>
        /\ \A c \in steps[v] : verdict[<<v, c>>] \in Hard
                => \E k \in DOMAIN errs[v] : errs[v][k] = c
        /\ \A j, k \in DOMAIN errs[v] : errs[v][j] = errs[v][k] => j = k

ReportInv == CancelInv /\ RootInv /\ JoinInv

LEMMA InitReportInv == Init => ReportInv
BY DEF Init, ReportInv, CancelInv, RootInv, JoinInv, Goroutine

\* The context of an invocation keeps its first reason to end, and so does
\* the one above.
LEMMA CauseKept ==
    ASSUME IInv, [Next]_vars, NEW w \in Invocation
    PROVE  /\ cause[w] # "none" => cause'[w] = cause[w]
           /\ parent # "none" => parent' = parent
<1>0. TypeOK
  BY DEF IInv
<1>1. ASSUME NEW v \in Invocation, NEW c \in Child, Collect(v, c)
      PROVE  (cause[w] # "none" => cause'[w] = cause[w]) /\ parent' = parent
  BY <1>0, <1>1 DEF Collect, Ended, TypeOK
<1>2. ASSUME NEW v \in Invocation, Spawn(v) \/ EntrypointFails(v) \/ CallNext(v)
      PROVE  (cause[w] # "none" => cause'[w] = cause[w]) /\ parent' = parent
  BY <1>0, <1>2 DEF Spawn, EntrypointFails, CallNext, Ended, TypeOK
<1>3. ASSUME CancelParent \/ ParentExpires
      PROVE  (cause[w] # "none" => cause'[w] = cause[w]) /\ parent = "none"
  BY <1>0, <1>3 DEF CancelParent, ParentExpires, ParentEnds, Ended, TypeOK
<1>4. ASSUME NEW g \in Goroutine, Worker(g)
      PROVE  cause' = cause /\ parent' = parent
  BY <1>4 DEF Worker, Acquire, Finish, Release
<1>5. CASE UNCHANGED vars
  BY <1>5 DEF vars
<1>6. QED
  BY <1>1, <1>2, <1>3, <1>4, <1>5 DEF Next, Collector

LEMMA CancelStep == IInv /\ ReportInv /\ [Next]_vars => CancelInv'
<1> SUFFICES ASSUME IInv, ReportInv, [Next]_vars PROVE CancelInv'
  OBVIOUS
<1> USE ConcurrentAssumption DEF ConcurrentAssumption, Goroutine
<1>0. TypeOK /\ CancelInv
  BY DEF IInv, ReportInv
<1>b. ASSUME UNCHANGED <<pc, errs, verdict, cause, parent>> PROVE CancelInv'
  BY <1>0, <1>b DEF CancelInv
<1>1. ASSUME NEW v \in Invocation, Spawn(v) PROVE CancelInv'
  BY <1>0, <1>1 DEF Spawn, CancelInv, TypeOK
<1>2. ASSUME NEW v \in Invocation, EntrypointFails(v) \/ CallNext(v) PROVE CancelInv'
  BY <1>0, <1>2 DEF EntrypointFails, CallNext, CancelInv, TypeOK, Ended
<1>3. ASSUME NEW v \in Invocation, NEW c \in Child, Collect(v, c) PROVE CancelInv'
  <2> DEFINE last == done[v] + 1 = Refs
             failed == ErrsAfter(v, c) # <<>>
  <2>1. /\ pc[v] = "collect" /\ errs'[v] = ErrsAfter(v, c)
        /\ cause'[v] = IF \/ FailFast /\ ErrsAfter(v, c) # errs[v]
                          \/ last /\ failed
                       THEN Ended(cause[v], "canceled") ELSE cause[v]
        /\ last /\ failed => pc'[v] = "returned"
        /\ verdict' = verdict /\ parent' = parent
    BY <1>0, <1>3 DEF Collect, TypeOK
  <2>2. ASSUME NEW w \in Invocation, w # v
        PROVE  pc'[w] = pc[w] /\ errs'[w] = errs[w] /\ cause'[w] = cause[w]
    BY <1>0, <1>3, <2>2 DEF Collect, TypeOK
  <2>3. errs[v] \in Seq(Child)
    BY <1>0 DEF TypeOK
  <2>3a. Append(errs[v], c) # <<>>
    BY <2>3
  <2>4. ErrsAfter(v, c) = errs[v] \/ ErrsAfter(v, c) # <<>>
    BY <2>3a, Zenon DEF ErrsAfter
  <2>5. errs[v] # <<>> => ErrsAfter(v, c) # <<>>
    BY <2>3, <2>4
  <2>6. cause'[v] = "canceled" => \/ pc'[v] = "returned"
                                  \/ FailFast /\ errs'[v] # <<>>
                                  \/ parent' = "canceled"
    BY <1>0, <2>1, <2>4, <2>5 DEF CancelInv
  <2>7. cause[v] # "none" => cause'[v] # "none"
    BY <2>1 DEF Ended
  <2>8. QED
    BY <1>0, <2>1, <2>2, <2>6, <2>7 DEF CancelInv
<1>4. ASSUME NEW g \in Goroutine, NEW r \in Soft \cup Hard, Finish(g, r) PROVE CancelInv'
  <2>1. /\ r = "canceled" => cause[g[1]] # "none"
        /\ verdict' = [verdict EXCEPT ![g] = r]
        /\ UNCHANGED <<pc, errs, cause, parent>>
    BY <1>4 DEF Finish
  <2>2. \A v \in Invocation, c \in Child :
            verdict'[<<v, c>>] = IF <<v, c>> = g THEN r ELSE verdict[<<v, c>>]
    BY <1>0, <2>1 DEF TypeOK
  <2>3. \A v \in Invocation, c \in Child : <<v, c>> = g => g[1] = v
    OBVIOUS
  <2>4. QED
    BY <1>0, <2>1, <2>2, <2>3 DEF CancelInv
<1>5. ASSUME NEW reason \in Cause, ParentEnds(reason) PROVE CancelInv'
  <2>1. /\ parent = "none" /\ parent' = reason
        /\ cause' = [v \in Invocation |-> Ended(cause[v], reason)]
        /\ UNCHANGED <<pc, errs, verdict>>
    BY <1>5 DEF ParentEnds
  <2>2. \A v \in Invocation : cause'[v] = IF cause[v] = "none" THEN reason ELSE cause[v]
    BY <2>1 DEF Ended
  <2>3. QED
    BY <1>0, <2>1, <2>2 DEF CancelInv, Cause
<1>6. CASE UNCHANGED vars
  BY <1>b, <1>6 DEF vars
<1>7. "canceled" \in Cause /\ "deadline" \in Cause
  BY DEF Cause
<1>8. QED
  BY <1>b, <1>1, <1>2, <1>3, <1>4, <1>5, <1>6, <1>7
     DEF Next, Collector, Worker, Acquire, Release, CancelParent, ParentExpires

LEMMA RootStep == IInv /\ ReportInv /\ [Next]_vars => RootInv'
<1> SUFFICES ASSUME IInv, ReportInv, [Next]_vars, FailFast,
                    NEW w \in Invocation, errs'[w] # <<>>, cause'[w] # "deadline"
             PROVE  /\ cause'[w] = "canceled"
                    /\ Len(errs'[w]) = 1
                    /\ parent' # "canceled" => verdict'[<<w, errs'[w][1]>>] = "hard"
  BY DEF RootInv
<1> USE ConcurrentAssumption DEF ConcurrentAssumption, Goroutine
<1>0. TypeOK /\ ErrsInv /\ ResultInv /\ RootInv /\ CancelInv
  BY DEF IInv, ReportInv
<1>a. errs[w] \in Seq(Child)
  BY <1>0 DEF TypeOK
<1>k. (cause[w] # "none" => cause'[w] = cause[w]) /\ (parent = "canceled" => parent' = parent)
  BY CauseKept
<1>n. cause[w] # "deadline" /\ cause[w] \in {"none", "canceled"}
  BY <1>0, <1>k DEF TypeOK, Cause
\* An error that was there stays the one, whatever else happens.
<1>b. CASE /\ errs[w] # <<>> /\ errs'[w] = errs[w]
           /\ verdict'[<<w, errs[w][1]>>] = verdict[<<w, errs[w][1]>>]
  BY <1>0, <1>b, <1>k, <1>n DEF RootInv
<1>1. ASSUME NEW v \in Invocation,
             Spawn(v) \/ EntrypointFails(v) \/ CallNext(v)
      PROVE  <1>b!1
  BY <1>0, <1>1 DEF Spawn, EntrypointFails, CallNext, TypeOK
<1>2. ASSUME NEW v \in Invocation, NEW c \in Child, Collect(v, c), w # v PROVE <1>b!1
  BY <1>0, <1>2 DEF Collect, TypeOK
<1>3. ASSUME NEW c \in Child, Collect(w, c), errs[w] # <<>> PROVE <1>b!1
  <2>1. cause[w] = "canceled"
    BY <1>0, <1>3, <1>n DEF RootInv
  <2>2. errs'[w] = errs[w]
    BY <1>0, <1>3, <2>1 DEF Collect, ErrsAfter, Cancelled, TypeOK
  <2>3. QED
    BY <1>3, <2>2 DEF Collect
<1>4. ASSUME NEW c \in Child, Collect(w, c), errs[w] = <<>>
      PROVE  /\ cause'[w] = "canceled"
             /\ Len(errs'[w]) = 1
             /\ parent' # "canceled" => verdict'[<<w, errs'[w][1]>>] = "hard"
  <2>1. errs'[w] = ErrsAfter(w, c) /\ verdict' = verdict /\ parent' = parent
    BY <1>0, <1>4 DEF Collect, TypeOK
  <2>2. ErrsAfter(w, c) = <<c>> /\ verdict[<<w, c>>] \in Hard
    BY <1>4, <2>1, <1>a DEF ErrsAfter
  <2>3. cause'[w] = Ended(cause[w], "canceled")
    BY <1>0, <1>4, <2>2 DEF Collect, TypeOK
  <2>4. parent # "canceled" => verdict[<<w, c>>] # "canceled"
    <3>1. cause[w] = "canceled" => parent = "canceled"
      BY <1>0, <1>4 DEF CancelInv, Collect
    <3>2. QED
      BY <1>0, <1>n, <3>1 DEF CancelInv
  <2>5. Len(errs'[w]) = 1 /\ errs'[w][1] = c
    BY <2>1, <2>2
  <2>6. cause'[w] = "canceled"
    BY <1>n, <2>3 DEF Ended
  <2>7. QED
    BY <2>1, <2>2, <2>4, <2>5, <2>6 DEF Hard
<1>5. ASSUME NEW g \in Goroutine, NEW r \in Soft \cup Hard, Finish(g, r) PROVE <1>b!1
  <2>1. /\ goroutine[g] = "running"
        /\ verdict' = [verdict EXCEPT ![g] = r]
        /\ UNCHANGED <<errs, cause, parent>>
    BY <1>5 DEF Finish
  <2>2. 1 \in DOMAIN errs[w]
    BY <1>a, <2>1
  <2>3. errs[w][1] \in steps[w]
    BY <1>0, <2>2 DEF ErrsInv
  <2>3a. errs[w][1] \in Child
    BY <1>a, <2>2
  <2>4. <<w, errs[w][1]>> # g
    BY <1>0, <2>1, <2>3, <2>3a DEF ResultInv
  <2>5. QED
    BY <1>0, <2>1, <2>3, <2>3a, <2>4 DEF TypeOK
<1>6. ASSUME NEW g \in Goroutine, Acquire(g) \/ Release(g) PROVE <1>b!1
  BY <1>6 DEF Acquire, Release
<1>7. ASSUME CancelParent \/ ParentExpires PROVE <1>b!1
  BY <1>7 DEF CancelParent, ParentExpires, ParentEnds
<1>8. ASSUME UNCHANGED vars PROVE <1>b!1
  BY <1>8 DEF vars
<1>9. QED
  BY <1>b, <1>1, <1>2, <1>3, <1>4, <1>5, <1>6, <1>7, <1>8
     DEF Next, Collector, Worker

LEMMA JoinStep == IInv /\ ReportInv /\ [Next]_vars => JoinInv'
<1> SUFFICES ASSUME IInv, ReportInv, [Next]_vars,
                    NEW w \in Invocation, Joins(w)'
             PROVE  /\ \A c \in steps'[w] : verdict'[<<w, c>>] \in Hard
                            => \E k \in DOMAIN errs'[w] : errs'[w][k] = c
                    /\ \A j, k \in DOMAIN errs'[w] : errs'[w][j] = errs'[w][k] => j = k
  BY Zenon DEF JoinInv
<1> USE ConcurrentAssumption DEF ConcurrentAssumption, Goroutine
<1>0. TypeOK /\ ErrsInv /\ ResultInv /\ JoinInv /\ CancelInv
  BY DEF IInv, ReportInv
<1>a. errs[w] \in Seq(Child)
  BY <1>0 DEF TypeOK
<1>k. (cause[w] # "none" => cause'[w] = cause[w]) /\ (parent = "canceled" => parent' = parent)
  BY CauseKept
<1>p. Joins(w)
  BY <1>k DEF Joins
<1>b. CASE /\ errs'[w] = errs[w] /\ steps'[w] = steps[w]
           /\ \A c \in steps[w] : verdict'[<<w, c>>] = verdict[<<w, c>>]
  BY <1>0, <1>b, <1>p DEF JoinInv
<1>1. ASSUME NEW v \in Invocation,
             Spawn(v) \/ EntrypointFails(v) \/ CallNext(v)
      PROVE  <1>b!1
  BY <1>1 DEF Spawn, EntrypointFails, CallNext
<1>2. ASSUME NEW v \in Invocation, NEW c \in Child, Collect(v, c), w # v PROVE <1>b!1
  BY <1>0, <1>2 DEF Collect, TypeOK
<1>3. ASSUME NEW c \in Child, Collect(w, c)
      PROVE  /\ \A d \in steps'[w] : verdict'[<<w, d>>] \in Hard
                    => \E k \in DOMAIN errs'[w] : errs'[w][k] = d
             /\ \A j, k \in DOMAIN errs'[w] : errs'[w][j] = errs'[w][k] => j = k
  <2>1. /\ errs'[w] = ErrsAfter(w, c) /\ verdict' = verdict
        /\ steps'[w] = steps[w] \cup {c}
    BY <1>0, <1>3 DEF Collect, TypeOK
  <2>2. ~Cancelled(w)
    BY <1>3, <1>p, <1>0 DEF Collect, Joins, CancelInv, Cancelled
  <2>3. c \notin steps[w]
    BY <1>0, <1>3 DEF Collect, ResultInv
  <2>4. \A k \in DOMAIN errs[w] : errs[w][k] \in steps[w]
    BY <1>0 DEF ErrsInv
  <2>5. /\ \A d \in steps[w] : verdict[<<w, d>>] \in Hard
               => \E k \in DOMAIN errs[w] : errs[w][k] = d
        /\ \A j, k \in DOMAIN errs[w] : errs[w][j] = errs[w][k] => j = k
    BY <1>0, <1>p DEF JoinInv
  <2>6. CASE verdict[<<w, c>>] \notin Hard
    <3>1. errs'[w] = errs[w]
      BY <2>1, <2>2, <2>6 DEF ErrsAfter
    <3>2. QED
      BY <2>1, <2>5, <2>6, <3>1
  <2>7. CASE verdict[<<w, c>>] \in Hard
    <3>1. errs'[w] = Append(errs[w], c)
      BY <2>1, <2>2, <2>7 DEF ErrsAfter
    <3>2. /\ DOMAIN errs'[w] = 1..(Len(errs[w]) + 1)
          /\ DOMAIN errs[w] = 1..Len(errs[w]) /\ Len(errs[w]) \in Nat
          /\ \A k \in DOMAIN errs[w] : errs'[w][k] = errs[w][k]
          /\ errs'[w][Len(errs[w]) + 1] = c
      BY <1>a, <3>1
    <3>3. \A d \in steps'[w] : verdict'[<<w, d>>] \in Hard
              => \E k \in DOMAIN errs'[w] : errs'[w][k] = d
      <4> SUFFICES ASSUME NEW d \in steps'[w], verdict'[<<w, d>>] \in Hard
                   PROVE  \E k \in DOMAIN errs'[w] : errs'[w][k] = d
        OBVIOUS
      <4>1. CASE d = c
        BY <3>2, <4>1
      <4>2. CASE d # c
        <5>1. d \in steps[w] /\ verdict[<<w, d>>] \in Hard
          BY <2>1, <4>2
        <5>2. PICK k \in DOMAIN errs[w] : errs[w][k] = d
          BY <2>5, <5>1
        <5>3. k \in DOMAIN errs'[w] /\ errs'[w][k] = d
          BY <3>2, <5>2
        <5>4. QED
          BY <5>3
      <4>3. QED
        BY <4>1, <4>2
    <3>4. \A j, k \in DOMAIN errs'[w] : errs'[w][j] = errs'[w][k] => j = k
      <4>1. \A k \in DOMAIN errs[w] : errs'[w][k] # c
        BY <2>3, <2>4, <3>2
      <4>2. \A k \in DOMAIN errs'[w] : k \in DOMAIN errs[w] \/ k = Len(errs[w]) + 1
        BY <3>2
      <4>3. QED
        BY <2>5, <3>2, <4>1, <4>2
    <3>5. QED
      BY <3>3, <3>4
  <2>8. QED
    BY <2>6, <2>7
<1>4. ASSUME NEW g \in Goroutine, NEW r \in Soft \cup Hard, Finish(g, r) PROVE <1>b!1
  <2>1. /\ goroutine[g] = "running"
        /\ verdict' = [verdict EXCEPT ![g] = r]
        /\ UNCHANGED <<errs, steps>>
    BY <1>4 DEF Finish
  <2>2. \A c \in steps[w] : c \in Child /\ <<w, c>> # g
    BY <1>0, <2>1 DEF ResultInv
  <2>3. QED
    BY <1>0, <2>1, <2>2 DEF TypeOK
<1>5. ASSUME NEW g \in Goroutine, Acquire(g) \/ Release(g) PROVE <1>b!1
  BY <1>5 DEF Acquire, Release
<1>6. ASSUME CancelParent \/ ParentExpires PROVE <1>b!1
  BY <1>6 DEF CancelParent, ParentExpires, ParentEnds
<1>7. ASSUME UNCHANGED vars PROVE <1>b!1
  BY <1>7 DEF vars
<1>8. QED
  BY <1>b, <1>1, <1>2, <1>3, <1>4, <1>5, <1>6, <1>7 DEF Next, Collector, Worker

LEMMA ReportInvariance == Spec => [](IInv /\ ReportInv)
<1>1. ReportInv /\ IInv /\ [Next]_vars => ReportInv'
  BY CancelStep, RootStep, JoinStep DEF ReportInv
<1>2. QED
  BY <1>1, InitIInv, InitReportInv, IInvStep, PTL DEF Spec

(* With fail-fast the reported error is the failure that caused the        *)
(* cancellation, not the error of a sibling that it hit, unless the        *)
(* deadline came first or a signal cancelled the step from above.          *)
THEOREM RootCause == Spec => []RootCauseReported
<1>1. IInv /\ ReportInv => RootCauseReported
  <2> SUFFICES ASSUME IInv, ReportInv, FailFast, NEW v \in Invocation,
                      cause[v] # "deadline"
               PROVE  /\ Len(errs[v]) <= 1
                      /\ parent # "canceled" => \A k \in DOMAIN errs[v] :
                                                    verdict[<<v, errs[v][k]>>] = "hard"
    BY DEF RootCauseReported
  <2>1. errs[v] \in Seq(Child)
    BY DEF IInv, TypeOK
  <2>2. CASE errs[v] = <<>>
    BY <2>2
  <2>3. CASE errs[v] # <<>>
    <3>1. Len(errs[v]) = 1 /\ (parent # "canceled" => verdict[<<v, errs[v][1]>>] = "hard")
      BY <2>3 DEF ReportInv, RootInv
    <3>2. DOMAIN errs[v] = {1}
      BY <2>1, <3>1
    <3>3. QED
      BY <3>1, <3>2
  <2>4. QED
    BY <2>2, <2>3
<1>2. QED
  BY <1>1, ReportInvariance, PTL

(* A deadline hides no failure behind another one.                         *)
THEOREM DeadlineKeepsAll == Spec => []DeadlineHidesNothing
<1>1. IInv /\ ReportInv => DeadlineHidesNothing
  BY DEF ReportInv, JoinInv, Joins, DeadlineHidesNothing
<1>2. QED
  BY <1>1, ReportInvariance, PTL

(* Without fail-fast the joined error names every failed child once.       *)
THEOREM AllJoined == Spec => []AllFailuresJoined
<1>1. IInv /\ ReportInv => AllFailuresJoined
  <2> SUFFICES ASSUME IInv, ReportInv, ~FailFast, parent # "canceled",
                      NEW v \in Invocation, outcome[v] = "failed"
               PROVE  /\ {errs[v][k] : k \in DOMAIN errs[v]}
                             = {c \in Child : verdict[<<v, c>>] \in Hard}
                      /\ \A j, k \in DOMAIN errs[v] : errs[v][j] = errs[v][k] => j = k
    BY DEF AllFailuresJoined
  <2>1. steps[v] = Child
    BY AllRecorded DEF IInv, PcInv
  <2>2. QED
    BY <2>1 DEF ReportInv, JoinInv, Joins, IInv, ErrsInv
<1>2. QED
  BY <1>1, ReportInvariance, PTL

-----------------------------------------------------------------------------
(* The concurrent step implements the composite step.                      *)

LEMMA RefineInit == Init => Composite!CompositeInit
<1> SUFFICES ASSUME Init PROVE Composite!CompositeInit
  OBVIOUS
<1>1. begunBar = [v \in Invocation |-> {}]
  BY DEF Init, begunBar, Goroutine
<1>2. endedBar = [v \in Invocation |-> [c \in Child |-> "none"]]
  BY DEF Init, endedBar
<1>3. QED
  BY <1>1, <1>2 DEF Init, Composite!CompositeInit

\* A step that records no result and starts no child is invisible.
LEMMA RefineStutter ==
    ASSUME UNCHANGED <<steps, outcome>>,
           \A g \in Goroutine : (goroutine'[g] = "none") <=> (goroutine[g] = "none"),
           \A v \in Invocation : \A c \in Child \cap steps[v] :
               verdict'[<<v, c>>] = verdict[<<v, c>>]
    PROVE  UNCHANGED Composite!compositeVars
<1>1. begunBar' = begunBar
  BY DEF begunBar, Goroutine
<1>2. endedBar' = endedBar
  BY DEF endedBar
<1>3. QED
  BY <1>1, <1>2 DEF Composite!compositeVars

LEMMA RefineSpawn ==
    ASSUME IInv, NEW v \in Invocation, Spawn(v)
    PROVE  Composite!Begin(v, spawned[v] + 1)
<1> USE ConcurrentAssumption DEF ConcurrentAssumption, Goroutine
<1> DEFINE c == spawned[v] + 1
<1>1. /\ pc[v] = "spawn"
      /\ goroutine' = [goroutine EXCEPT ![<<v, c>>] =
                          IF MaxConcurrent > 0 THEN "queued" ELSE "running"]
      /\ UNCHANGED <<verdict, steps, outcome>>
  BY DEF Spawn
<1>2. TypeOK /\ SpawnInv /\ PcInv
  BY DEF IInv
<1>3. c \in Child
  BY <1>1, <1>2 DEF TypeOK, SpawnInv, Child
<1>4. outcome[v] = "running"
  BY <1>1, <1>2 DEF PcInv
<1>5. c \notin begunBar[v]
  BY <1>2, <1>3 DEF begunBar, SpawnInv, TypeOK
<1>6. begunBar' = [begunBar EXCEPT ![v] = @ \cup {c}]
  <2>1. \A w \in Invocation, d \in Child :
            goroutine'[<<w, d>>] # "none"
                <=> (goroutine[<<w, d>>] # "none" \/ (w = v /\ d = c))
    BY <1>1, <1>2, <1>3 DEF TypeOK
  <2>2. \A w \in Invocation :
            {d \in Child : goroutine'[<<w, d>>] # "none"}
                = IF w = v THEN {d \in Child : goroutine[<<w, d>>] # "none"} \cup {c}
                  ELSE {d \in Child : goroutine[<<w, d>>] # "none"}
    BY <2>1, <1>3
  <2> HIDE DEF c
  <2>3. QED
    BY <2>2 DEF begunBar
<1>7. endedBar' = endedBar
  BY <1>1 DEF endedBar
<1>8. QED
  BY <1>1, <1>4, <1>5, <1>6, <1>7 DEF Composite!Begin

LEMMA RefineBroken ==
    ASSUME IInv, NEW v \in Invocation, EntrypointFails(v)
    PROVE  Composite!Break(v)
<1> USE ConcurrentAssumption DEF ConcurrentAssumption, Goroutine
<1>1. TypeOK /\ SpawnInv /\ PcInv
  BY DEF IInv
<1>2. spawned[v] + 1 \in Child /\ spawned[v] + 1 \notin begunBar[v]
  BY <1>1 DEF EntrypointFails, begunBar, SpawnInv, TypeOK
<1>3. UNCHANGED <<begunBar, endedBar>>
  BY DEF EntrypointFails, begunBar, endedBar
<1>4. QED
  BY <1>1, <1>2, <1>3 DEF EntrypointFails, PcInv, Composite!Break

LEMMA RefineCollect ==
    ASSUME IInv, IInv', NEW v \in Invocation, NEW c \in Child, Collect(v, c)
    PROVE  Composite!End(v, c)
<1> USE ConcurrentAssumption DEF ConcurrentAssumption, Goroutine
<1>1. /\ pc[v] = "collect" /\ goroutine[<<v, c>>] = "sending"
      /\ goroutine' = [goroutine EXCEPT ![<<v, c>>] = "sent"]
      /\ steps' = [steps EXCEPT ![v] = @ \cup {c}]
      /\ verdict' = verdict
  BY DEF Collect
<1>2. TypeOK /\ SpawnInv /\ ResultInv /\ PcInv /\ TypeOK' /\ ResultInv' /\ ErrsInv' /\ PcInv'
  BY DEF IInv
<1>3. outcome[v] = "running"
  BY <1>1, <1>2 DEF PcInv
<1>4. c \notin steps[v] /\ verdict[<<v, c>>] # "none"
  BY <1>1, <1>2 DEF ResultInv
<1>5. c \in begunBar[v] /\ endedBar[v][c] = "none"
  BY <1>1, <1>4 DEF begunBar, endedBar
<1>6. verdict[<<v, c>>] \in Composite!Verdict
  BY <1>2, <1>4 DEF TypeOK, Soft, Hard, Composite!Verdict
<1>7. endedBar' = [endedBar EXCEPT ![v][c] = verdict[<<v, c>>]]
  <2>1. \A w \in Invocation :
            steps'[w] = IF w = v THEN steps[w] \cup {c} ELSE steps[w]
    BY <1>1, <1>2 DEF TypeOK
  <2>2. endedBar' = [w \in Invocation |->
                        [d \in Child |-> IF d \in steps'[w] THEN verdict[<<w, d>>]
                                         ELSE "none"]]
    BY <1>1 DEF endedBar
  <2>3. \A w \in Invocation, d \in Child :
            (IF d \in steps'[w] THEN verdict[<<w, d>>] ELSE "none")
                = IF w = v /\ d = c THEN verdict[<<v, c>>]
                  ELSE IF d \in steps[w] THEN verdict[<<w, d>>] ELSE "none"
    BY <2>1
  <2>4. endedBar' = [w \in Invocation |->
                        [d \in Child |-> IF w = v /\ d = c THEN verdict[<<v, c>>]
                                         ELSE endedBar[w][d]]]
    BY <2>2, <2>3 DEF endedBar
  <2>5. /\ DOMAIN endedBar = Invocation
        /\ \A w \in Invocation : endedBar[w] = [d \in Child |-> endedBar[w][d]]
        /\ endedBar = [w \in Invocation |-> endedBar[w]]
    BY DEF endedBar
  <2>6. [endedBar EXCEPT ![v][c] = verdict[<<v, c>>]] =
            [w \in Invocation |-> IF w = v
                THEN [d \in Child |-> IF d = c THEN verdict[<<v, c>>] ELSE endedBar[v][d]]
                ELSE endedBar[w]]
    BY <2>5
  <2>7. \A w \in Invocation :
            [d \in Child |-> IF w = v /\ d = c THEN verdict[<<v, c>>] ELSE endedBar[w][d]]
                = IF w = v
                  THEN [d \in Child |-> IF d = c THEN verdict[<<v, c>>] ELSE endedBar[v][d]]
                  ELSE endedBar[w]
    <3> SUFFICES ASSUME NEW w \in Invocation
                 PROVE  [d \in Child |-> IF w = v /\ d = c THEN verdict[<<v, c>>]
                                         ELSE endedBar[w][d]]
                          = IF w = v
                            THEN [d \in Child |-> IF d = c THEN verdict[<<v, c>>]
                                                  ELSE endedBar[v][d]]
                            ELSE endedBar[w]
      OBVIOUS
    <3>1. CASE w = v
      BY <3>1
    <3>2. CASE w # v
      BY <2>5, <3>2
    <3>3. QED
      BY <3>1, <3>2
  <2>8. QED
    BY <2>4, <2>6, <2>7
<1>8. begunBar' = begunBar
  <2>1. \A w \in Invocation, d \in Child :
            goroutine'[<<w, d>>] # "none" <=> goroutine[<<w, d>>] # "none"
    BY <1>1, <1>2 DEF TypeOK
  <2>2. QED
    BY <2>1 DEF begunBar
<1>9. CASE outcome' = outcome
  BY <1>3, <1>5, <1>6, <1>7, <1>8, <1>9 DEF Composite!End
<1>10. CASE outcome' # outcome
  <2> DEFINE r == IF ErrsAfter(v, c) # <<>> THEN "failed" ELSE "next"
  <2>1. done[v] + 1 = Refs /\ outcome' = [outcome EXCEPT ![v] = r]
    BY <1>2, <1>10 DEF Collect, TypeOK
  <2>2. errs'[v] = ErrsAfter(v, c) /\ done'[v] = Refs
    BY <1>2, <2>1 DEF Collect, TypeOK
  <2>3. steps'[v] = Child
    <3>1. steps'[v] \in SUBSET Child /\ Cardinality(steps'[v]) = Refs
      BY <1>2, <2>2 DEF TypeOK, ResultInv
    <3>2. QED
      BY <3>1, ChildCardinality, FS_Subset
  <2>4. \A d \in Child : endedBar'[v][d] = verdict'[<<v, d>>]
    BY <2>3 DEF endedBar
  <2>5. \A d \in Child : goroutine'[<<v, d>>] \in {"sent", "gone"}
                         /\ verdict'[<<v, d>>] # "none"
    BY <1>2, <2>3 DEF ResultInv
  <2>6. begunBar[v] = Child
    <3>1. begunBar'[v] = Child
      BY <2>5 DEF begunBar
    <3>2. QED
      BY <3>1, <1>8
  <2>7. Composite!Decide(v, r)
    <3>1. \A d \in begunBar[v] : endedBar'[v][d] # "none"
      BY <2>4, <2>5, <2>6
    <3>2. CASE errs'[v] # <<>>
      <4>1. r = "failed"
        BY <2>2, <3>2
      <4>2. 1 \in DOMAIN errs'[v]
        BY <1>2, <3>2 DEF TypeOK
      <4>3. errs'[v][1] \in Child /\ verdict'[<<v, errs'[v][1]>>] \in Hard
        BY <1>2, <2>3, <4>2 DEF ErrsInv
      <4>4. \E d \in begunBar[v] : endedBar'[v][d] \in Composite!Aborting
        BY <2>4, <2>6, <4>3 DEF Hard, Composite!Aborting
      <4>5. QED
        BY <3>1, <4>1, <4>4 DEF Composite!Decide
    <3>3. CASE errs'[v] = <<>>
      <4>1. r = "next"
        BY <2>2, <3>3
      <4>2. \A d \in Child : verdict'[<<v, d>>] \notin Hard
        BY <1>2, <2>3, <3>3 DEF ErrsInv
      <4>3. \A d \in Child : endedBar'[v][d] \notin Composite!Aborting
        BY <2>4, <4>2 DEF Hard, Composite!Aborting
      <4>4. QED
        BY <3>1, <4>1, <4>3, <2>6 DEF Composite!Decide
    <3>4. QED
      BY <3>2, <3>3
  <2>8. r \in {"failed", "next"}
    OBVIOUS
  <2> HIDE DEF r
  <2>9. QED
    BY <1>3, <1>5, <1>6, <1>7, <1>8, <2>1, <2>7, <2>8 DEF Composite!End
<1>11. QED
  BY <1>9, <1>10

LEMMA RefineStep ==
    IInv /\ IInv' /\ [Next]_vars => [Composite!CompositeNext]_(Composite!compositeVars)
<1> SUFFICES ASSUME IInv, IInv', [Next]_vars
             PROVE  Composite!CompositeNext \/ UNCHANGED Composite!compositeVars
  OBVIOUS
<1>1. ASSUME NEW v \in Invocation, Spawn(v) PROVE Composite!CompositeNext
  <2>1. spawned[v] + 1 \in Child
    BY <1>1, ConcurrentAssumption
       DEF IInv, TypeOK, SpawnInv, Spawn, Child, ConcurrentAssumption
  <2>2. QED
    BY <1>1, <2>1, RefineSpawn DEF Composite!CompositeNext
<1>2. ASSUME NEW v \in Invocation, EntrypointFails(v) PROVE Composite!CompositeNext
  BY <1>2, RefineBroken DEF Composite!CompositeNext
<1>3. ASSUME NEW v \in Invocation, NEW c \in Child, Collect(v, c)
      PROVE  Composite!CompositeNext
  BY <1>3, RefineCollect DEF Composite!CompositeNext
<1>4. ASSUME NEW v \in Invocation, CallNext(v) PROVE UNCHANGED Composite!compositeVars
  BY <1>4, RefineStutter DEF CallNext
<1>5. ASSUME NEW g \in Goroutine, Acquire(g) \/ Release(g)
      PROVE  UNCHANGED Composite!compositeVars
  <2>1. \A h \in Goroutine : goroutine'[h] = "none" <=> goroutine[h] = "none"
    BY <1>5 DEF Acquire, Release, IInv, TypeOK
  <2>2. QED
    BY <1>5, <2>1, RefineStutter DEF Acquire, Release
<1>6. ASSUME NEW g \in Goroutine, NEW r \in Soft \cup Hard, Finish(g, r)
      PROVE  UNCHANGED Composite!compositeVars
  <2>1. \A h \in Goroutine : goroutine'[h] = "none" <=> goroutine[h] = "none"
    BY <1>6 DEF Finish, IInv, TypeOK
  <2>2. \A v \in Invocation : \A c \in Child \cap steps[v] :
            <<v, c>> \in Goroutine /\ <<v, c>> # g
    <3> SUFFICES ASSUME NEW v \in Invocation, NEW c \in Child, c \in steps[v]
                 PROVE  <<v, c>> \in Goroutine /\ <<v, c>> # g
      OBVIOUS
    <3>1. goroutine[<<v, c>>] \in {"sent", "gone"}
      BY DEF IInv, ResultInv
    <3>2. goroutine[g] = "running"
      BY <1>6 DEF Finish
    <3>3. QED
      BY <3>1, <3>2 DEF Goroutine
  <2>3. \A v \in Invocation : \A c \in Child \cap steps[v] :
            verdict'[<<v, c>>] = verdict[<<v, c>>]
    BY <1>6, <2>2 DEF Finish, IInv, TypeOK
  <2>4. UNCHANGED <<steps, outcome>>
    BY <1>6 DEF Finish
  <2>5. QED
    BY <2>1, <2>3, <2>4, RefineStutter
<1>7. ASSUME CancelParent \/ ParentExpires PROVE UNCHANGED Composite!compositeVars
  BY <1>7, RefineStutter DEF CancelParent, ParentExpires, ParentEnds
<1>8. ASSUME UNCHANGED vars PROVE UNCHANGED Composite!compositeVars
  BY <1>8, RefineStutter DEF vars
<1>9. QED
  BY <1>1, <1>2, <1>3, <1>4, <1>5, <1>6, <1>7, <1>8 DEF Next, Collector, Worker

(* Every invocation of a concurrent step keeps the promise of a composite  *)
(* step: it goes on only when all children ended without an aborting       *)
(* error, and fails only when one did and none is still running.           *)
THEOREM Refinement == Spec => ImplementsComposite
<1>1. QED
  BY RefineInit, RefineStep, Invariance, PTL
     DEF Spec, ImplementsComposite, Composite!CompositeSpec

=============================================================================
