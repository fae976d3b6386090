----------------------------- MODULE PipeProofs -----------------------------
(***************************************************************************)
(* Proofs about the pipe step, for every number of stages and of chunks    *)
(* and every setting: that the composite step is implemented, and that a   *)
(* pipe that succeeds has lost nothing.                                    *)
(***************************************************************************)
EXTENDS Pipe, FiniteSetTheorems, TLAPS

(* The inductive invariant, part by part.                                  *)

Up == {i \in Stage : stage[i] = "up"}
Ended(i) == stage[i] \in {"sending", "received"}

\* The pool holds one token for each stage with a container.
PoolInv == pool = Cardinality(Up)

\* The goroutines are started in the order of the stages.
SpawnInv ==
    /\ \A i \in Stage : stage[i] # "none" <=> i <= spawned
    /\ pc = "spawn" => spawned < Stages
    /\ pc # "spawn" /\ outcome # "broken" => spawned = Stages
    /\ outcome = "broken" => setting.broken
    /\ setting.broken => spawned = 0

\* What is there of a stage before, while and after it runs.
StageInv ==
    \A i \in Stage :
        /\ stage[i] \in {"none", "queued"} =>
               /\ program[i] = "none"
               /\ outCopy[i] = "idle"
               /\ inCopy[i] = "none"
        /\ program[i] = "up" => stage[i] = "up"
        /\ Ended(i) => outCopy[i] # "write"
        /\ stage[i] = "up" => i \notin Skipped /\ (i > 1 => inCopy[i] # "none")
        /\ i \in Skipped =>
               program[i] = "none" /\ outCopy[i] = "idle" /\ inCopy[i] = "none"

\* What the verdict of a stage tells.
VerdictInv ==
    \A i \in Stage :
        /\ verdict[i] # "none" <=> Ended(i)
        /\ verdict[i] = "skipped" <=> i \in Skipped /\ Ended(i)
        /\ verdict[i] = "ok" /\ i > 1 => inCopy[i] = "done"

\* What each place of the collector knows.
PcInv ==
    /\ pc = "spawn" => \A i \in Stage : stage[i] # "received"
    /\ pc \in {"spawn", "collect", "copy"} => outcome = "running"
    /\ pc = "collect" => \E i \in Stage : stage[i] # "received"
    /\ pc \in {"next", "returned"} =>
           /\ outcome # "running"
           /\ outcome # "broken" => \A i \in Stage : stage[i] = "received"
    /\ pc = "next" => outcome = "next"
    /\ outcome = "next" => errs = <<>>
    /\ outcome = "failed" => errs # <<>>

\* What the collector copies: from a stage that wrote, for a skipped one.
CopyInv ==
    /\ pc = "copy" <=> copying # 0
    /\ copying # 0 =>
           /\ copying \in 2..(Stages - 1)
           /\ copying \in Skipped
           /\ stage[copying] = "received"
    /\ holding => copying # 0 /\ copying - 1 \notin Skipped

\* An error is kept when a stage that failed is received, and only then; the
\* context has ended by then, and the pipes are shut.
ErrsInv ==
    /\ errs # <<>> => \E i \in Stage :
           stage[i] = "received" /\ verdict[i] \in Hard
    /\ \A i \in Stage :
           stage[i] = "received" /\ verdict[i] \in Hard => errs # <<>>
    /\ cancelled => errs # <<>>
    /\ errs # <<>> => Cancelled
    /\ shut <=> errs # <<>>

(* The flow of the chunks.  Stage s writes what reaches pipe p.            *)
Nearest(s, p) ==
    /\ s \in Stage
    /\ s <= p
    /\ s \notin Skipped
    /\ \A k \in (s + 1)..p : k \in Skipped

\* A closed pipe has nothing more to come.
ClosedInv ==
    \A p \in wclosed, s \in Stage :
        Nearest(s, p) =>
            Ended(s) /\ (s < p => ~(holding /\ copying = s + 1))

\* The chunk that stage s, or the collector on its behalf, is writing.
Writing(s) == IF outCopy[s] = "write" THEN 1 ELSE 0
Carried(s) == IF holding /\ copying = s + 1 THEN 1 ELSE 0

\* Nothing comes from nowhere; and nothing is lost before the context is
\* cancelled, unless the reader has failed.
FlowInv ==
    \A i \in Stage, s \in Stage :
        i \notin Skipped /\ Nearest(s, i - 1) =>
            /\ got[i] + Writing(s) + Carried(s) <= wrote[s]
            /\ ~Cancelled /\ inCopy[i] # "failed" =>
                   got[i] + Writing(s) + Carried(s) = wrote[s]

SourceInv ==
    \A i \in Stage : (\A j \in 1..(i - 1) : j \in Skipped) => got[i] = 0

\* A reader that is done has seen the end, unless the context is cancelled.
ReaderInv ==
    \A i \in Stage :
        ~Cancelled => /\ inCopy[i] # "stray"
                      /\ inCopy[i] = "done" => i > 1 /\ i - 1 \in wclosed

IInv ==
    /\ TypeOK
    /\ PoolInv
    /\ SpawnInv
    /\ StageInv
    /\ VerdictInv
    /\ PcInv
    /\ CopyInv
    /\ ErrsInv
    /\ ClosedInv
    /\ FlowInv
    /\ SourceInv
    /\ ReaderInv

-----------------------------------------------------------------------------

LEMMA SettingType ==
    ASSUME TypeOK
    PROVE  /\ Skipped \subseteq Stage
           /\ PoolSize \in 1..Stages
BY PipeAssumption DEF TypeOK, Skipped, PoolSize

\* Among finitely many stages before i there is a last one.
LEMMA SourceNearest ==
    ASSUME NEW i \in Stage, {j \in 1..(i - 1) : j \notin Skipped} # {}
    PROVE  Source(i) \in Stage /\ Nearest(Source(i), i - 1)
<1> DEFINE before == {j \in 1..(i - 1) : j \notin Skipped}
           T == {d \in Nat : \E j \in before : d = i - j}
           R == OpToRel(<, Nat)
<1>0. Stages \in Nat /\ i \in Nat /\ i <= Stages
  BY PipeAssumption DEF Stage
<1>1. T \subseteq Nat /\ T # {}
  <2>1. PICK j \in before : TRUE
    OBVIOUS
  <2>2. i - j \in Nat
    BY <1>0
  <2>3. i - j \in T
    BY <2>2
  <2>4. QED
    BY <2>3
<1>2. IsWellFoundedOn(R, Nat)
  BY NatLessThanWellFounded
<1>3. PICK m \in T : \A y \in T : <<y, m>> \notin R
  <2> HIDE DEF T, R
  <2> QED
    BY <1>1, <1>2, WFMin
<1>4. \A y \in T : m <= y
  <2> TAKE y \in T
  <2>1. ~(y < m)
    BY <1>3 DEF OpToRel
  <2>2. QED
    BY <2>1
<1>5. PICK j \in before : m = i - j
  BY <1>3
<1>6. \A k \in before : k <= j
  <2> TAKE k \in before
  <2>1. i - k \in Nat
    BY <1>0
  <2>2. i - k \in T
    BY <2>1
  <2>3. m <= i - k
    BY <2>2, <1>4
  <2>4. j \in Nat /\ k \in Nat /\ m = i - j
    BY <1>5
  <2>5. QED
    BY <2>3, <2>4, <1>0
<1>7. Source(i) \in before /\ \A k \in before : k <= Source(i)
  BY <1>5, <1>6 DEF Source
<1>8. QED
  BY <1>0, <1>7 DEF Nearest, Stage

LEMMA UpFinite == IsFiniteSet(Up)
<1>1. IsFiniteSet(Stage)
  BY FS_Interval, PipeAssumption DEF Stage
<1>2. QED
  BY <1>1, FS_Subset DEF Up

LEMMA UpGrows ==
    ASSUME NEW i \in Stage, TypeOK, stage[i] # "up",
           stage' = [stage EXCEPT ![i] = "up"]
    PROVE  /\ Cardinality(Up') = Cardinality(Up) + 1
           /\ Cardinality(Up) \in Nat
<1>1. Up' = Up \cup {i} /\ i \notin Up
  BY DEF Up, TypeOK
<1>2. QED
  BY <1>1, UpFinite, FS_AddElement, FS_CardinalityType

LEMMA UpShrinks ==
    ASSUME NEW i \in Stage, TypeOK, stage[i] = "up",
           stage' = [stage EXCEPT ![i] = "sending"]
    PROVE  /\ Cardinality(Up') = Cardinality(Up) - 1
           /\ Cardinality(Up) \in Nat \ {0}
<1>1. Up' = Up \ {i} /\ i \in Up
  BY DEF Up, TypeOK
<1>2. Cardinality(Up) # 0
  BY <1>1, UpFinite, FS_EmptySet
<1>3. QED
  BY <1>1, <1>2, UpFinite, FS_RemoveElement, FS_CardinalityType

LEMMA UpStays ==
    ASSUME NEW i \in Stage, NEW s, TypeOK, stage[i] # "up", s # "up",
           stage' = [stage EXCEPT ![i] = s]
    PROVE  Up' = Up
BY DEF Up, TypeOK

LEMMA InitIInv == Init => IInv
<1> SUFFICES ASSUME Init PROVE IInv
  OBVIOUS
<1> USE PipeAssumption DEF Init
<1>0. Stages \in Nat \ {0} /\ Chunks \in Nat /\ PoolSize \in 1..Stages
  BY DEF PoolSize
<1>1. TypeOK
  <2>1. /\ shut \in BOOLEAN /\ holding \in BOOLEAN
        /\ cancelled \in BOOLEAN /\ parent \in {"none"} \cup Reason
    OBVIOUS
  <2>2. errs \in Seq(Stage)
    OBVIOUS
  <2>3. pool \in 0..PoolSize /\ copying \in 0..Stages /\ spawned \in 0..Stages
    BY <1>0
  <2>4. wrote \in [Stage -> 0..Chunks] /\ got \in [Stage -> 0..Chunks]
    BY <1>0
  <2>5. QED
    BY <2>1, <2>2, <2>3, <2>4 DEF TypeOK
<1>2. PoolInv
  <2>1. Up = {}
    BY DEF Up
  <2>2. QED
    BY <2>1, FS_EmptySet DEF PoolInv
<1>3. SpawnInv /\ PcInv /\ CopyInv
  BY <1>0 DEF SpawnInv, PcInv, CopyInv, Stage
<1>4. StageInv /\ VerdictInv
  BY DEF StageInv, VerdictInv, Ended
<1>5. ErrsInv
  BY DEF ErrsInv
<1>6. ClosedInv /\ SourceInv
  BY DEF ClosedInv, SourceInv
<1>7. FlowInv
  <2>1. \A s \in Stage : Writing(s) = 0 /\ Carried(s) = 0
    BY DEF Writing, Carried
  <2>2. \A s \in Stage : got[s] = 0 /\ wrote[s] = 0
    OBVIOUS
  <2>3. QED
    BY <2>1, <2>2 DEF FlowInv
<1>8. ReaderInv
  BY DEF ReaderInv
<1>9. QED
  BY <1>1, <1>2, <1>3, <1>4, <1>5, <1>6, <1>7, <1>8 DEF IInv

-----------------------------------------------------------------------------
(* One step, part by part.                                                 *)

LEMMA SpawnStep == IInv /\ [Next]_vars => SpawnInv'
<1> SUFFICES ASSUME IInv, [Next]_vars PROVE SpawnInv'
  OBVIOUS
<1>0. TypeOK /\ SpawnInv /\ PcInv /\ CopyInv
  BY DEF IInv
<1> USE PipeAssumption
<1>1. CASE Spawn
  BY <1>0, <1>1 DEF Spawn, collectorVars, SpawnInv, PcInv, CopyInv, Conclude, TypeOK, Stage
<1>2. ASSUME NEW i \in Stage, Receive(i) PROVE SpawnInv'
  BY <1>0, <1>2 DEF Receive, collectorVars, SpawnInv, PcInv, CopyInv, Conclude, TypeOK, Stage
<1>3. ASSUME NEW i \in Stage, ReceiveSkip(i) PROVE SpawnInv'
  BY <1>0, <1>3 DEF ReceiveSkip, collectorVars, SpawnInv, PcInv, CopyInv, Conclude, TypeOK, Stage
<1>4. CASE CopyRead
  BY <1>0, <1>4 DEF CopyRead, collectorVars, SpawnInv, PcInv, CopyInv, Conclude, TypeOK, Stage
<1>5. CASE CopyEnds
  BY <1>0, <1>5 DEF CopyEnds, collectorVars, SpawnInv, PcInv, CopyInv, Conclude, TypeOK, Stage
<1>6. CASE CallNext
  BY <1>0, <1>6 DEF CallNext, collectorVars, SpawnInv, PcInv, CopyInv, Conclude, TypeOK, Stage
<1>7. ASSUME NEW i \in Stage, Skip(i) PROVE SpawnInv'
  BY <1>0, <1>7 DEF Skip, collectorVars, SpawnInv, PcInv, CopyInv, Conclude, TypeOK, Stage
<1>8. ASSUME NEW i \in Stage, Start(i) PROVE SpawnInv'
  BY <1>0, <1>8 DEF Start, collectorVars, SpawnInv, PcInv, CopyInv, Conclude, TypeOK, Stage
<1>9. ASSUME NEW i \in Stage, StartFails(i) PROVE SpawnInv'
  BY <1>0, <1>9 DEF StartFails, collectorVars, SpawnInv, PcInv, CopyInv, Conclude, TypeOK, Stage
<1>10. ASSUME NEW i \in Stage, Write(i) PROVE SpawnInv'
  BY <1>0, <1>10 DEF Write, collectorVars, SpawnInv, PcInv, CopyInv, Conclude, TypeOK, Stage
<1>11. ASSUME NEW i \in Stage, NEW code \in {"ok", "failed"}, Exit(i, code)
       PROVE  SpawnInv'
  BY <1>0, <1>11 DEF Exit, collectorVars, SpawnInv, PcInv, CopyInv, Conclude, TypeOK, Stage
<1>12. ASSUME NEW i \in Stage, OutCopyEnds(i) PROVE SpawnInv'
  BY <1>0, <1>12 DEF OutCopyEnds, collectorVars, SpawnInv, PcInv, CopyInv, Conclude, TypeOK, Stage
<1>13. ASSUME NEW i \in Stage, i > 1, Read(i) PROVE SpawnInv'
  BY <1>0, <1>13 DEF Read, collectorVars, SpawnInv, PcInv, CopyInv, Conclude, TypeOK, Stage
<1>14. ASSUME NEW i \in Stage, i > 1, ReadEnds(i) PROVE SpawnInv'
  BY <1>0, <1>14 DEF ReadEnds, collectorVars, SpawnInv, PcInv, CopyInv, Conclude, TypeOK, Stage
<1>15. ASSUME NEW i \in Stage, Return(i) PROVE SpawnInv'
  BY <1>0, <1>15 DEF Return, collectorVars, SpawnInv, PcInv, CopyInv, Conclude, TypeOK, Stage
<1>16. ASSUME NEW i \in Stage, ReturnCancelled(i) PROVE SpawnInv'
  BY <1>0, <1>16 DEF ReturnCancelled, collectorVars, SpawnInv, PcInv, CopyInv, Conclude, TypeOK, Stage
<1>17. ASSUME NEW reason \in Reason, ParentEnds(reason) PROVE SpawnInv'
  BY <1>0, <1>17 DEF ParentEnds, collectorVars, SpawnInv, PcInv, CopyInv, Conclude, TypeOK, Stage
<1>18. CASE UNCHANGED vars
  BY <1>0, <1>18 DEF vars, collectorVars, SpawnInv, PcInv, CopyInv, Conclude, TypeOK, Stage
<1>19. CASE EntrypointFails
  BY <1>0, <1>19 DEF EntrypointFails, collectorVars, SpawnInv, PcInv, CopyInv, Conclude, TypeOK, Stage
<1>20. ASSUME NEW i \in Stage, ReceiveSkipShut(i) PROVE SpawnInv'
  BY <1>0, <1>20 DEF ReceiveSkipShut, collectorVars, SpawnInv, PcInv, CopyInv, Conclude, TypeOK, Stage
<1>21. QED
  BY <1>1, <1>2, <1>3, <1>4, <1>5, <1>6, <1>7, <1>8, <1>9,
     <1>10, <1>11, <1>12, <1>13, <1>14, <1>15, <1>16, <1>17, <1>18, <1>19,
     <1>20
     DEF Next, Collector, Machinery, Admitted, CancelParent, ParentExpires, Reason

LEMMA StageStep == IInv /\ [Next]_vars => StageInv'
<1> SUFFICES ASSUME IInv, [Next]_vars PROVE StageInv'
  OBVIOUS
<1>0. TypeOK /\ StageInv /\ SpawnInv
  BY DEF IInv
<1> USE PipeAssumption
<1>1. CASE Spawn
  BY <1>0, <1>1 DEF Spawn, collectorVars, StageInv, Ended, Skipped, SpawnInv, TypeOK, Stage
<1>2. ASSUME NEW i \in Stage, Receive(i) PROVE StageInv'
  BY <1>0, <1>2 DEF Receive, collectorVars, StageInv, Ended, Skipped, SpawnInv, TypeOK, Stage
<1>3. ASSUME NEW i \in Stage, ReceiveSkip(i) PROVE StageInv'
  BY <1>0, <1>3 DEF ReceiveSkip, collectorVars, StageInv, Ended, Skipped, SpawnInv, TypeOK, Stage
<1>4. CASE CopyRead
  BY <1>0, <1>4 DEF CopyRead, collectorVars, StageInv, Ended, Skipped, SpawnInv, TypeOK, Stage
<1>5. CASE CopyEnds
  BY <1>0, <1>5 DEF CopyEnds, collectorVars, StageInv, Ended, Skipped, SpawnInv, TypeOK, Stage
<1>6. CASE CallNext
  BY <1>0, <1>6 DEF CallNext, collectorVars, StageInv, Ended, Skipped, SpawnInv, TypeOK, Stage
<1>7. ASSUME NEW i \in Stage, Skip(i) PROVE StageInv'
  BY <1>0, <1>7 DEF Skip, collectorVars, StageInv, Ended, Skipped, SpawnInv, TypeOK, Stage
<1>8. ASSUME NEW i \in Stage, Start(i) PROVE StageInv'
  BY <1>0, <1>8 DEF Start, collectorVars, StageInv, Ended, Skipped, SpawnInv, TypeOK, Stage
<1>9. ASSUME NEW i \in Stage, StartFails(i) PROVE StageInv'
  BY <1>0, <1>9 DEF StartFails, collectorVars, StageInv, Ended, Skipped, SpawnInv, TypeOK, Stage
<1>10. ASSUME NEW i \in Stage, Write(i) PROVE StageInv'
  BY <1>0, <1>10 DEF Write, collectorVars, StageInv, Ended, Skipped, SpawnInv, TypeOK, Stage
<1>11. ASSUME NEW i \in Stage, NEW code \in {"ok", "failed"}, Exit(i, code)
       PROVE  StageInv'
  BY <1>0, <1>11 DEF Exit, collectorVars, StageInv, Ended, Skipped, SpawnInv, TypeOK, Stage
<1>12. ASSUME NEW i \in Stage, OutCopyEnds(i) PROVE StageInv'
  BY <1>0, <1>12 DEF OutCopyEnds, collectorVars, StageInv, Ended, Skipped, SpawnInv, TypeOK, Stage
<1>13. ASSUME NEW i \in Stage, i > 1, Read(i) PROVE StageInv'
  BY <1>0, <1>13 DEF Read, collectorVars, StageInv, Ended, Skipped, SpawnInv, TypeOK, Stage
<1>14. ASSUME NEW i \in Stage, i > 1, ReadEnds(i) PROVE StageInv'
  BY <1>0, <1>14 DEF ReadEnds, collectorVars, StageInv, Ended, Skipped, SpawnInv, TypeOK, Stage
<1>15. ASSUME NEW i \in Stage, Return(i) PROVE StageInv'
  BY <1>0, <1>15 DEF Return, collectorVars, StageInv, Ended, Skipped, SpawnInv, TypeOK, Stage
<1>16. ASSUME NEW i \in Stage, ReturnCancelled(i) PROVE StageInv'
  BY <1>0, <1>16 DEF ReturnCancelled, collectorVars, StageInv, Ended, Skipped, SpawnInv, TypeOK, Stage
<1>17. ASSUME NEW reason \in Reason, ParentEnds(reason) PROVE StageInv'
  BY <1>0, <1>17 DEF ParentEnds, collectorVars, StageInv, Ended, Skipped, SpawnInv, TypeOK, Stage
<1>18. CASE UNCHANGED vars
  BY <1>0, <1>18 DEF vars, collectorVars, StageInv, Ended, Skipped, SpawnInv, TypeOK, Stage
<1>19. CASE EntrypointFails
  BY <1>0, <1>19 DEF EntrypointFails, collectorVars, StageInv, Ended, Skipped, SpawnInv, TypeOK, Stage
<1>20. ASSUME NEW i \in Stage, ReceiveSkipShut(i) PROVE StageInv'
  BY <1>0, <1>20 DEF ReceiveSkipShut, collectorVars, StageInv, Ended, Skipped, SpawnInv, TypeOK, Stage
<1>21. QED
  BY <1>1, <1>2, <1>3, <1>4, <1>5, <1>6, <1>7, <1>8, <1>9,
     <1>10, <1>11, <1>12, <1>13, <1>14, <1>15, <1>16, <1>17, <1>18, <1>19,
     <1>20
     DEF Next, Collector, Machinery, Admitted, CancelParent, ParentExpires, Reason

LEMMA VerdictStep == IInv /\ [Next]_vars => VerdictInv'
<1> SUFFICES ASSUME IInv, [Next]_vars PROVE VerdictInv'
  OBVIOUS
<1>0. TypeOK /\ VerdictInv /\ StageInv /\ SpawnInv
  BY DEF IInv
<1>1. CASE Spawn
  BY <1>0, <1>1 DEF Spawn, collectorVars, VerdictInv, StageInv, SpawnInv, Allowed, Ended, Skipped, TypeOK, Soft, Hard
<1>2. ASSUME NEW i \in Stage, Receive(i) PROVE VerdictInv'
  BY <1>0, <1>2 DEF Receive, collectorVars, VerdictInv, StageInv, SpawnInv, Allowed, Ended, Skipped, TypeOK, Soft, Hard
<1>3. ASSUME NEW i \in Stage, ReceiveSkip(i) PROVE VerdictInv'
  BY <1>0, <1>3 DEF ReceiveSkip, collectorVars, VerdictInv, StageInv, SpawnInv, Allowed, Ended, Skipped, TypeOK, Soft, Hard
<1>4. CASE CopyRead
  BY <1>0, <1>4 DEF CopyRead, collectorVars, VerdictInv, StageInv, SpawnInv, Allowed, Ended, Skipped, TypeOK, Soft, Hard
<1>5. CASE CopyEnds
  BY <1>0, <1>5 DEF CopyEnds, collectorVars, VerdictInv, StageInv, SpawnInv, Allowed, Ended, Skipped, TypeOK, Soft, Hard
<1>6. CASE CallNext
  BY <1>0, <1>6 DEF CallNext, collectorVars, VerdictInv, StageInv, SpawnInv, Allowed, Ended, Skipped, TypeOK, Soft, Hard
<1>7. ASSUME NEW i \in Stage, Skip(i) PROVE VerdictInv'
  BY <1>0, <1>7 DEF Skip, collectorVars, VerdictInv, StageInv, SpawnInv, Allowed, Ended, Skipped, TypeOK, Soft, Hard
<1>8. ASSUME NEW i \in Stage, Start(i) PROVE VerdictInv'
  BY <1>0, <1>8 DEF Start, collectorVars, VerdictInv, StageInv, SpawnInv, Allowed, Ended, Skipped, TypeOK, Soft, Hard
<1>9. ASSUME NEW i \in Stage, StartFails(i) PROVE VerdictInv'
  BY <1>0, <1>9 DEF StartFails, collectorVars, VerdictInv, StageInv, SpawnInv, Allowed, Ended, Skipped, TypeOK, Soft, Hard
<1>10. ASSUME NEW i \in Stage, Write(i) PROVE VerdictInv'
  BY <1>0, <1>10 DEF Write, collectorVars, VerdictInv, StageInv, SpawnInv, Allowed, Ended, Skipped, TypeOK, Soft, Hard
<1>11. ASSUME NEW i \in Stage, NEW code \in {"ok", "failed"}, Exit(i, code)
       PROVE  VerdictInv'
  BY <1>0, <1>11 DEF Exit, collectorVars, VerdictInv, StageInv, SpawnInv, Allowed, Ended, Skipped, TypeOK, Soft, Hard
<1>12. ASSUME NEW i \in Stage, OutCopyEnds(i) PROVE VerdictInv'
  BY <1>0, <1>12 DEF OutCopyEnds, collectorVars, VerdictInv, StageInv, SpawnInv, Allowed, Ended, Skipped, TypeOK, Soft, Hard
<1>13. ASSUME NEW i \in Stage, i > 1, Read(i) PROVE VerdictInv'
  BY <1>0, <1>13 DEF Read, collectorVars, VerdictInv, StageInv, SpawnInv, Allowed, Ended, Skipped, TypeOK, Soft, Hard
<1>14. ASSUME NEW i \in Stage, i > 1, ReadEnds(i) PROVE VerdictInv'
  BY <1>0, <1>14 DEF ReadEnds, collectorVars, VerdictInv, StageInv, SpawnInv, Allowed, Ended, Skipped, TypeOK, Soft, Hard
<1>15. ASSUME NEW i \in Stage, Return(i) PROVE VerdictInv'
  BY <1>0, <1>15 DEF Return, collectorVars, VerdictInv, StageInv, SpawnInv, Allowed, Ended, Skipped, TypeOK, Soft, Hard
<1>16. ASSUME NEW i \in Stage, ReturnCancelled(i) PROVE VerdictInv'
  BY <1>0, <1>16 DEF ReturnCancelled, collectorVars, VerdictInv, StageInv, SpawnInv, Allowed, Ended, Skipped, TypeOK, Soft, Hard
<1>17. ASSUME NEW reason \in Reason, ParentEnds(reason) PROVE VerdictInv'
  BY <1>0, <1>17 DEF ParentEnds, collectorVars, VerdictInv, StageInv, SpawnInv, Allowed, Ended, Skipped, TypeOK, Soft, Hard
<1>18. CASE UNCHANGED vars
  BY <1>0, <1>18 DEF vars, collectorVars, VerdictInv, StageInv, SpawnInv, Allowed, Ended, Skipped, TypeOK, Soft, Hard
<1>19. CASE EntrypointFails
  BY <1>0, <1>19 DEF EntrypointFails, collectorVars, VerdictInv, StageInv, SpawnInv, Allowed, Ended, Skipped, TypeOK, Soft, Hard
<1>20. ASSUME NEW i \in Stage, ReceiveSkipShut(i) PROVE VerdictInv'
  BY <1>0, <1>20 DEF ReceiveSkipShut, collectorVars, VerdictInv, StageInv, SpawnInv, Allowed, Ended, Skipped, TypeOK, Soft, Hard
<1>21. QED
  BY <1>1, <1>2, <1>3, <1>4, <1>5, <1>6, <1>7, <1>8, <1>9,
     <1>10, <1>11, <1>12, <1>13, <1>14, <1>15, <1>16, <1>17, <1>18, <1>19,
     <1>20
     DEF Next, Collector, Machinery, Admitted, CancelParent, ParentExpires, Reason

LEMMA CopyStep == IInv /\ [Next]_vars => CopyInv'
<1> SUFFICES ASSUME IInv, [Next]_vars PROVE CopyInv'
  OBVIOUS
<1>0. TypeOK /\ CopyInv /\ StageInv /\ VerdictInv /\ PcInv
  BY DEF IInv
<1> USE PipeAssumption
<1>1. CASE Spawn
  BY <1>0, <1>1 DEF Spawn, collectorVars, CopyInv, StageInv, PcInv, Skipped, Conclude, TypeOK, Stage
<1>2. ASSUME NEW i \in Stage, Receive(i) PROVE CopyInv'
  BY <1>0, <1>2 DEF Receive, collectorVars, CopyInv, StageInv, PcInv, Skipped, Conclude, TypeOK, Stage
<1>3. ASSUME NEW i \in Stage, ReceiveSkip(i) PROVE CopyInv'
  <2>1. pc = "collect" /\ copying = 0 /\ ~holding
    BY <1>0, <1>3 DEF ReceiveSkip, CopyInv
  <2>2. i \in Skipped
    BY <1>0, <1>3 DEF ReceiveSkip, VerdictInv
  <2>3. stage'[i] = "received" /\ holding' = holding /\ setting' = setting
    BY <1>0, <1>3 DEF ReceiveSkip, TypeOK
  <2>4. CASE i \in 2..(Stages - 1)
    <3>1. pc' = "copy" /\ copying' = i
      BY <1>3, <2>4 DEF ReceiveSkip
    <3>2. QED
      BY <2>1, <2>2, <2>3, <2>4, <3>1 DEF CopyInv, Skipped
  <2>5. CASE i \notin 2..(Stages - 1)
    <3>1. copying' = 0 /\ pc' # "copy"
      BY <1>3, <2>1, <2>5 DEF ReceiveSkip, Conclude
    <3>2. QED
      BY <2>1, <2>3, <3>1 DEF CopyInv
  <2>6. QED
    BY <2>4, <2>5
<1>4. CASE CopyRead
  BY <1>0, <1>4 DEF CopyRead, collectorVars, CopyInv, StageInv, PcInv, Skipped, Conclude, TypeOK, Stage
<1>5. CASE CopyEnds
  BY <1>0, <1>5 DEF CopyEnds, collectorVars, CopyInv, StageInv, PcInv, Skipped, Conclude, TypeOK, Stage
<1>6. CASE CallNext
  BY <1>0, <1>6 DEF CallNext, collectorVars, CopyInv, StageInv, PcInv, Skipped, Conclude, TypeOK, Stage
<1>7. ASSUME NEW i \in Stage, Skip(i) PROVE CopyInv'
  BY <1>0, <1>7 DEF Skip, collectorVars, CopyInv, StageInv, PcInv, Skipped, Conclude, TypeOK, Stage
<1>8. ASSUME NEW i \in Stage, Start(i) PROVE CopyInv'
  BY <1>0, <1>8 DEF Start, collectorVars, CopyInv, StageInv, PcInv, Skipped, Conclude, TypeOK, Stage
<1>9. ASSUME NEW i \in Stage, StartFails(i) PROVE CopyInv'
  BY <1>0, <1>9 DEF StartFails, collectorVars, CopyInv, StageInv, PcInv, Skipped, Conclude, TypeOK, Stage
<1>10. ASSUME NEW i \in Stage, Write(i) PROVE CopyInv'
  BY <1>0, <1>10 DEF Write, collectorVars, CopyInv, StageInv, PcInv, Skipped, Conclude, TypeOK, Stage
<1>11. ASSUME NEW i \in Stage, NEW code \in {"ok", "failed"}, Exit(i, code)
       PROVE  CopyInv'
  BY <1>0, <1>11 DEF Exit, collectorVars, CopyInv, StageInv, PcInv, Skipped, Conclude, TypeOK, Stage
<1>12. ASSUME NEW i \in Stage, OutCopyEnds(i) PROVE CopyInv'
  BY <1>0, <1>12 DEF OutCopyEnds, collectorVars, CopyInv, StageInv, PcInv, Skipped, Conclude, TypeOK, Stage
<1>13. ASSUME NEW i \in Stage, i > 1, Read(i) PROVE CopyInv'
  BY <1>0, <1>13 DEF Read, collectorVars, CopyInv, StageInv, PcInv, Skipped, Conclude, TypeOK, Stage
<1>14. ASSUME NEW i \in Stage, i > 1, ReadEnds(i) PROVE CopyInv'
  BY <1>0, <1>14 DEF ReadEnds, collectorVars, CopyInv, StageInv, PcInv, Skipped, Conclude, TypeOK, Stage
<1>15. ASSUME NEW i \in Stage, Return(i) PROVE CopyInv'
  BY <1>0, <1>15 DEF Return, collectorVars, CopyInv, StageInv, PcInv, Skipped, Conclude, TypeOK, Stage
<1>16. ASSUME NEW i \in Stage, ReturnCancelled(i) PROVE CopyInv'
  BY <1>0, <1>16 DEF ReturnCancelled, collectorVars, CopyInv, StageInv, PcInv, Skipped, Conclude, TypeOK, Stage
<1>17. ASSUME NEW reason \in Reason, ParentEnds(reason) PROVE CopyInv'
  BY <1>0, <1>17 DEF ParentEnds, collectorVars, CopyInv, StageInv, PcInv, Skipped, Conclude, TypeOK, Stage
<1>18. CASE UNCHANGED vars
  BY <1>0, <1>18 DEF vars, collectorVars, CopyInv, StageInv, PcInv, Skipped, Conclude, TypeOK, Stage
<1>19. CASE EntrypointFails
  BY <1>0, <1>19 DEF EntrypointFails, collectorVars, CopyInv, StageInv, PcInv, Skipped, Conclude, TypeOK, Stage
<1>20. ASSUME NEW i \in Stage, ReceiveSkipShut(i) PROVE CopyInv'
  BY <1>0, <1>20 DEF ReceiveSkipShut, collectorVars, CopyInv, StageInv, PcInv, Skipped, Conclude, TypeOK, Stage
<1>21. QED
  BY <1>1, <1>2, <1>3, <1>4, <1>5, <1>6, <1>7, <1>8, <1>9,
     <1>10, <1>11, <1>12, <1>13, <1>14, <1>15, <1>16, <1>17, <1>18, <1>19,
     <1>20
     DEF Next, Collector, Machinery, Admitted, CancelParent, ParentExpires, Reason

LEMMA PcStep == IInv /\ [Next]_vars => PcInv'
<1> SUFFICES ASSUME IInv, [Next]_vars PROVE PcInv'
  OBVIOUS
<1>0. TypeOK /\ PcInv /\ CopyInv /\ SpawnInv
  BY DEF IInv
<1> USE PipeAssumption
<1>1. CASE Spawn
  BY <1>0, <1>1 DEF Spawn, collectorVars, PcInv, CopyInv, SpawnInv, Conclude, IsLast, TypeOK, Stage
<1>2. ASSUME NEW i \in Stage, Receive(i) PROVE PcInv'
  BY <1>0, <1>2 DEF Receive, collectorVars, PcInv, CopyInv, SpawnInv, Conclude, IsLast, TypeOK, Stage
<1>3. ASSUME NEW i \in Stage, ReceiveSkip(i) PROVE PcInv'
  BY <1>0, <1>3 DEF ReceiveSkip, collectorVars, PcInv, CopyInv, SpawnInv, Conclude, IsLast, TypeOK, Stage
<1>4. CASE CopyRead
  BY <1>0, <1>4 DEF CopyRead, collectorVars, PcInv, CopyInv, SpawnInv, Conclude, IsLast, TypeOK, Stage
<1>5. CASE CopyEnds
  BY <1>0, <1>5 DEF CopyEnds, collectorVars, PcInv, CopyInv, SpawnInv, Conclude, IsLast, TypeOK, Stage
<1>6. CASE CallNext
  BY <1>0, <1>6 DEF CallNext, collectorVars, PcInv, CopyInv, SpawnInv, Conclude, IsLast, TypeOK, Stage
<1>7. ASSUME NEW i \in Stage, Skip(i) PROVE PcInv'
  BY <1>0, <1>7 DEF Skip, collectorVars, PcInv, CopyInv, SpawnInv, Conclude, IsLast, TypeOK, Stage
<1>8. ASSUME NEW i \in Stage, Start(i) PROVE PcInv'
  BY <1>0, <1>8 DEF Start, collectorVars, PcInv, CopyInv, SpawnInv, Conclude, IsLast, TypeOK, Stage
<1>9. ASSUME NEW i \in Stage, StartFails(i) PROVE PcInv'
  BY <1>0, <1>9 DEF StartFails, collectorVars, PcInv, CopyInv, SpawnInv, Conclude, IsLast, TypeOK, Stage
<1>10. ASSUME NEW i \in Stage, Write(i) PROVE PcInv'
  BY <1>0, <1>10 DEF Write, collectorVars, PcInv, CopyInv, SpawnInv, Conclude, IsLast, TypeOK, Stage
<1>11. ASSUME NEW i \in Stage, NEW code \in {"ok", "failed"}, Exit(i, code)
       PROVE  PcInv'
  BY <1>0, <1>11 DEF Exit, collectorVars, PcInv, CopyInv, SpawnInv, Conclude, IsLast, TypeOK, Stage
<1>12. ASSUME NEW i \in Stage, OutCopyEnds(i) PROVE PcInv'
  BY <1>0, <1>12 DEF OutCopyEnds, collectorVars, PcInv, CopyInv, SpawnInv, Conclude, IsLast, TypeOK, Stage
<1>13. ASSUME NEW i \in Stage, i > 1, Read(i) PROVE PcInv'
  BY <1>0, <1>13 DEF Read, collectorVars, PcInv, CopyInv, SpawnInv, Conclude, IsLast, TypeOK, Stage
<1>14. ASSUME NEW i \in Stage, i > 1, ReadEnds(i) PROVE PcInv'
  BY <1>0, <1>14 DEF ReadEnds, collectorVars, PcInv, CopyInv, SpawnInv, Conclude, IsLast, TypeOK, Stage
<1>15. ASSUME NEW i \in Stage, Return(i) PROVE PcInv'
  BY <1>0, <1>15 DEF Return, collectorVars, PcInv, CopyInv, SpawnInv, Conclude, IsLast, TypeOK, Stage
<1>16. ASSUME NEW i \in Stage, ReturnCancelled(i) PROVE PcInv'
  BY <1>0, <1>16 DEF ReturnCancelled, collectorVars, PcInv, CopyInv, SpawnInv, Conclude, IsLast, TypeOK, Stage
<1>17. ASSUME NEW reason \in Reason, ParentEnds(reason) PROVE PcInv'
  BY <1>0, <1>17 DEF ParentEnds, collectorVars, PcInv, CopyInv, SpawnInv, Conclude, IsLast, TypeOK, Stage
<1>18. CASE UNCHANGED vars
  BY <1>0, <1>18 DEF vars, collectorVars, PcInv, CopyInv, SpawnInv, Conclude, IsLast, TypeOK, Stage
<1>19. CASE EntrypointFails
  BY <1>0, <1>19 DEF EntrypointFails, collectorVars, PcInv, CopyInv, SpawnInv, Conclude, IsLast, TypeOK, Stage
<1>20. ASSUME NEW i \in Stage, ReceiveSkipShut(i) PROVE PcInv'
  <2>1. errs' # <<>>
    <3>1. errs # <<>> /\ errs \in Seq(Stage)
      BY <1>0, <1>20 DEF ReceiveSkipShut, IInv, ErrsInv, TypeOK
    <3>2. errs' = errs \/ errs' = Append(errs, i)
      BY <1>20 DEF ReceiveSkipShut
    <3>3. QED
      BY <3>1, <3>2
  <2>2. pc = "collect" /\ outcome = "running"
    BY <1>0, <1>20 DEF ReceiveSkipShut, PcInv
  <2>3. \A j \in Stage : stage'[j] = IF j = i THEN "received" ELSE stage[j]
    BY <1>0, <1>20 DEF ReceiveSkipShut, TypeOK
  <2>4. CASE IsLast(i)
    <3>1. pc' = "returned" /\ outcome' = "failed"
      BY <1>20, <2>4 DEF ReceiveSkipShut, Conclude
    <3>2. QED
      BY <2>1, <2>3, <2>4, <3>1 DEF PcInv, IsLast
  <2>5. CASE ~IsLast(i)
    <3>1. pc' = "collect" /\ outcome' = "running"
      BY <1>20, <2>2, <2>5 DEF ReceiveSkipShut, Conclude
    <3>2. QED
      BY <2>1, <2>3, <2>5, <3>1 DEF PcInv, IsLast
  <2>6. QED
    BY <2>4, <2>5
<1>21. QED
  BY <1>1, <1>2, <1>3, <1>4, <1>5, <1>6, <1>7, <1>8, <1>9,
     <1>10, <1>11, <1>12, <1>13, <1>14, <1>15, <1>16, <1>17, <1>18, <1>19,
     <1>20
     DEF Next, Collector, Machinery, Admitted, CancelParent, ParentExpires, Reason

LEMMA ErrsStep == IInv /\ [Next]_vars => ErrsInv'
<1> SUFFICES ASSUME IInv, [Next]_vars PROVE ErrsInv'
  OBVIOUS
<1>0. TypeOK /\ ErrsInv /\ VerdictInv /\ StageInv /\ SpawnInv
  BY DEF IInv
\* Received stages stay received, with their verdicts, and a stage that is
\* received otherwise is not received with an error.
<1>a. ASSUME UNCHANGED <<errs, cancelled, shut>>, Cancelled => Cancelled',
             \A j \in Stage : stage[j] = "received" =>
                 stage'[j] = "received" /\ verdict'[j] = verdict[j],
             \A j \in Stage : stage'[j] = "received" /\ verdict'[j] \in Hard =>
                 stage[j] = "received"
      PROVE  ErrsInv'
  <2>1. errs # <<>> => \E j \in Stage : stage'[j] = "received" /\ verdict'[j] \in Hard
    BY <1>0, <1>a DEF ErrsInv
  <2>2. \A j \in Stage : stage'[j] = "received" /\ verdict'[j] \in Hard => errs # <<>>
    BY <1>0, <1>a DEF ErrsInv
  <2>3. (cancelled' => errs' # <<>>) /\ (errs' # <<>> => Cancelled')
        /\ (shut' <=> errs' # <<>>)
    BY <1>0, <1>a DEF ErrsInv
  <2>4. QED
    BY <1>a, <2>1, <2>2, <2>3 DEF ErrsInv
<1>1. CASE Spawn
  <2>1. spawned + 1 \in Stage /\ stage[spawned + 1] = "none"
    BY <1>0, <1>1, PipeAssumption DEF Spawn, SpawnInv, TypeOK, Stage
  <2>2. QED
    BY <1>0, <1>1, <1>a, <2>1 DEF Spawn, Cancelled, TypeOK
<1>2. ASSUME NEW i \in Stage, Receive(i) PROVE ErrsInv'
  <2> DEFINE fails == ~Ignoring /\ verdict[i] \in Hard
  <2>1. /\ stage[i] = "sending"
        /\ stage' = [stage EXCEPT ![i] = "received"]
        /\ errs' = IF fails THEN Append(errs, i) ELSE errs
        /\ cancelled' = (cancelled \/ (fails /\ parent = "none"))
        /\ shut' = (shut \/ fails)
        /\ verdict' = verdict
    BY <1>2 DEF Receive
  <2>2. errs \in Seq(Stage) /\ parent' = parent
    BY <1>0, <1>2 DEF TypeOK, Receive
  <2>3. stage'[i] = "received" /\ \A j \in Stage \ {i} : stage'[j] = stage[j]
    BY <1>0, <2>1 DEF TypeOK
  <2>4. CASE fails
    <3>1. errs' = Append(errs, i) /\ shut' /\ verdict[i] \in Hard
      BY <2>1, <2>4
    <3>2. errs' # <<>>
      BY <2>2, <3>1
    <3>3. Cancelled'
      BY <2>1, <2>2, <2>4 DEF Cancelled
    <3>4. stage'[i] = "received" /\ verdict'[i] \in Hard
      BY <2>1, <2>3, <3>1
    <3>5. QED
      BY <3>1, <3>2, <3>3, <3>4 DEF ErrsInv
  <2>5. CASE ~fails
    <3>1. errs' = errs /\ cancelled' = cancelled /\ shut' = shut
      BY <1>0, <2>1, <2>5 DEF TypeOK
    <3>2. verdict[i] \in Hard => errs # <<>>
      BY <2>5 DEF Ignoring
    <3>3. \A j \in Stage : stage'[j] = "received" /\ verdict'[j] \in Hard => errs' # <<>>
      BY <1>0, <2>1, <2>3, <3>1, <3>2 DEF ErrsInv
    <3>4. errs' # <<>> => \E j \in Stage : stage'[j] = "received" /\ verdict'[j] \in Hard
      BY <1>0, <2>1, <2>3, <3>1 DEF ErrsInv
    <3>5. Cancelled' = Cancelled
      BY <2>2, <3>1 DEF Cancelled
    <3>6. QED
      BY <1>0, <3>1, <3>3, <3>4, <3>5 DEF ErrsInv
  <2>6. QED
    BY <2>4, <2>5
<1>3. ASSUME NEW i \in Stage, ReceiveSkip(i) PROVE ErrsInv'
  <2>1. /\ stage[i] = "sending"
        /\ stage' = [stage EXCEPT ![i] = "received"]
        /\ verdict[i] = "skipped"
        /\ UNCHANGED <<errs, cancelled, parent, shut, verdict>>
    BY <1>3 DEF ReceiveSkip
  <2>2. verdict[i] \notin Hard
    BY <2>1 DEF Hard
  <2>3. QED
    BY <1>0, <1>a, <2>1, <2>2 DEF Cancelled, TypeOK
<1>4. CASE CopyRead
  BY <1>0, <1>4, <1>a DEF CopyRead, collectorVars, Cancelled, TypeOK
<1>5. CASE CopyEnds
  BY <1>0, <1>5, <1>a DEF CopyEnds, collectorVars, Cancelled, TypeOK
<1>6. CASE CallNext
  BY <1>0, <1>6, <1>a DEF CallNext, collectorVars, Cancelled, TypeOK
<1>7. ASSUME NEW i \in Stage, Skip(i) PROVE ErrsInv'
  BY <1>0, <1>7, <1>a DEF Skip, collectorVars, Cancelled, TypeOK
<1>8. ASSUME NEW i \in Stage, Start(i) PROVE ErrsInv'
  BY <1>0, <1>8, <1>a DEF Start, collectorVars, Cancelled, TypeOK
<1>9. ASSUME NEW i \in Stage, StartFails(i) PROVE ErrsInv'
  BY <1>0, <1>9, <1>a DEF StartFails, collectorVars, Cancelled, TypeOK
<1>10. ASSUME NEW i \in Stage, Write(i) PROVE ErrsInv'
  BY <1>0, <1>10, <1>a DEF Write, collectorVars, Cancelled, TypeOK
<1>11. ASSUME NEW i \in Stage, NEW code \in {"ok", "failed"}, Exit(i, code)
       PROVE  ErrsInv'
  BY <1>0, <1>11, <1>a DEF Exit, collectorVars, Cancelled, TypeOK
<1>12. ASSUME NEW i \in Stage, OutCopyEnds(i) PROVE ErrsInv'
  BY <1>0, <1>12, <1>a DEF OutCopyEnds, collectorVars, Cancelled, TypeOK
<1>13. ASSUME NEW i \in Stage, i > 1, Read(i) PROVE ErrsInv'
  BY <1>0, <1>13, <1>a DEF Read, collectorVars, Cancelled, TypeOK
<1>14. ASSUME NEW i \in Stage, i > 1, ReadEnds(i) PROVE ErrsInv'
  BY <1>0, <1>14, <1>a DEF ReadEnds, collectorVars, Cancelled, TypeOK
<1>15. ASSUME NEW i \in Stage, Return(i) PROVE ErrsInv'
  BY <1>0, <1>15, <1>a DEF Return, collectorVars, Cancelled, TypeOK
<1>16. ASSUME NEW i \in Stage, ReturnCancelled(i) PROVE ErrsInv'
  BY <1>0, <1>16, <1>a DEF ReturnCancelled, collectorVars, Cancelled, TypeOK
<1>17. ASSUME NEW reason \in Reason, ParentEnds(reason) PROVE ErrsInv'
  BY <1>0, <1>17, <1>a DEF ParentEnds, Reason, collectorVars, Cancelled, TypeOK
<1>18. CASE UNCHANGED vars
  BY <1>0, <1>18, <1>a DEF vars, collectorVars, Cancelled, TypeOK
<1>19. CASE EntrypointFails
  BY <1>0, <1>19, <1>a DEF EntrypointFails, collectorVars, Cancelled, TypeOK
<1>20. ASSUME NEW i \in Stage, ReceiveSkipShut(i) PROVE ErrsInv'
  <2>1. /\ stage' = [stage EXCEPT ![i] = "received"]
        /\ verdict[i] = "skipped"
        /\ shut
        /\ errs' = IF i \in 2..(Stages - 1) THEN Append(errs, i) ELSE errs
        /\ UNCHANGED <<verdict, shut, cancelled, parent>>
    BY <1>20 DEF ReceiveSkipShut
  <2>2. errs # <<>> /\ errs \in Seq(Stage)
    BY <1>0, <2>1 DEF ErrsInv, TypeOK
  <2>3. errs' # <<>>
    BY <2>1, <2>2
  <2>4. PICK j \in Stage : stage[j] = "received" /\ verdict[j] \in Hard
    BY <1>0, <2>2 DEF ErrsInv
  <2>5. stage'[j] = "received" /\ verdict'[j] \in Hard
    BY <1>0, <2>1, <2>4 DEF TypeOK
  <2>6. Cancelled'
    BY <1>0, <2>1, <2>2 DEF ErrsInv, Cancelled
  <2>7. QED
    BY <2>1, <2>3, <2>5, <2>6 DEF ErrsInv
<1>21. QED
  BY <1>1, <1>2, <1>3, <1>4, <1>5, <1>6, <1>7, <1>8, <1>9,
     <1>10, <1>11, <1>12, <1>13, <1>14, <1>15, <1>16, <1>17, <1>18, <1>19,
     <1>20
     DEF Next, Collector, Machinery, Admitted, CancelParent, ParentExpires, Reason

LEMMA PoolStep == IInv /\ [Next]_vars => PoolInv'
<1> SUFFICES ASSUME IInv, [Next]_vars PROVE PoolInv'
  OBVIOUS
<1>0. TypeOK /\ PoolInv /\ SpawnInv
  BY DEF IInv
<1>a. ASSUME pool' = pool, Up' = Up PROVE PoolInv'
  BY <1>0, <1>a DEF PoolInv
<1>1. CASE Spawn
  <2>1. spawned + 1 \in Stage /\ stage[spawned + 1] = "none"
    BY <1>0, <1>1, PipeAssumption DEF Spawn, SpawnInv, TypeOK, Stage
  <2>2. Up' = Up
    BY <1>0, <1>1, <2>1, UpStays DEF Spawn
  <2>3. QED
    BY <1>1, <1>a, <2>2 DEF Spawn
<1>2. ASSUME NEW i \in Stage, Receive(i) PROVE PoolInv'
  BY <1>0, <1>2, <1>a, UpStays DEF Receive, TypeOK
<1>3. ASSUME NEW i \in Stage, ReceiveSkip(i) PROVE PoolInv'
  BY <1>0, <1>3, <1>a, UpStays DEF ReceiveSkip, TypeOK
<1>4. CASE CopyRead
  BY <1>0, <1>4, <1>a DEF CopyRead, collectorVars, Up, TypeOK
<1>5. CASE CopyEnds
  BY <1>0, <1>5, <1>a DEF CopyEnds, collectorVars, Up, TypeOK
<1>6. CASE CallNext
  BY <1>0, <1>6, <1>a DEF CallNext, collectorVars, Up, TypeOK
<1>7. ASSUME NEW i \in Stage, Skip(i) PROVE PoolInv'
  BY <1>0, <1>7, <1>a, UpStays DEF Skip, TypeOK
<1>8. ASSUME NEW i \in Stage, Start(i) PROVE PoolInv'
  <2>1. stage[i] # "up" /\ stage' = [stage EXCEPT ![i] = "up"] /\ pool' = pool + 1
    BY <1>8 DEF Start
  <2>2. QED
    BY <1>0, <2>1, UpGrows DEF PoolInv
<1>9. ASSUME NEW i \in Stage, StartFails(i) PROVE PoolInv'
  BY <1>0, <1>9, <1>a, UpStays DEF StartFails, TypeOK
<1>10. ASSUME NEW i \in Stage, Write(i) PROVE PoolInv'
  BY <1>0, <1>10, <1>a DEF Write, collectorVars, Up, TypeOK
<1>11. ASSUME NEW i \in Stage, NEW code \in {"ok", "failed"}, Exit(i, code)
       PROVE  PoolInv'
  BY <1>0, <1>11, <1>a DEF Exit, collectorVars, Up, TypeOK
<1>12. ASSUME NEW i \in Stage, OutCopyEnds(i) PROVE PoolInv'
  BY <1>0, <1>12, <1>a DEF OutCopyEnds, collectorVars, Up, TypeOK
<1>13. ASSUME NEW i \in Stage, i > 1, Read(i) PROVE PoolInv'
  BY <1>0, <1>13, <1>a DEF Read, collectorVars, Up, TypeOK
<1>14. ASSUME NEW i \in Stage, i > 1, ReadEnds(i) PROVE PoolInv'
  BY <1>0, <1>14, <1>a DEF ReadEnds, collectorVars, Up, TypeOK
<1>15. ASSUME NEW i \in Stage, Return(i) PROVE PoolInv'
  <2>1. stage[i] = "up" /\ stage' = [stage EXCEPT ![i] = "sending"] /\ pool' = pool - 1
    BY <1>15 DEF Return
  <2>2. QED
    BY <1>0, <2>1, UpShrinks DEF PoolInv
<1>16. ASSUME NEW i \in Stage, ReturnCancelled(i) PROVE PoolInv'
  <2>1. stage[i] = "up" /\ stage' = [stage EXCEPT ![i] = "sending"] /\ pool' = pool - 1
    BY <1>16 DEF ReturnCancelled
  <2>2. QED
    BY <1>0, <2>1, UpShrinks DEF PoolInv
<1>17. ASSUME NEW reason \in Reason, ParentEnds(reason) PROVE PoolInv'
  BY <1>0, <1>17, <1>a DEF ParentEnds, collectorVars, Up, TypeOK
<1>18. CASE UNCHANGED vars
  BY <1>0, <1>18, <1>a DEF vars, collectorVars, Up, TypeOK
<1>19. CASE EntrypointFails
  BY <1>0, <1>19, <1>a DEF EntrypointFails, collectorVars, Up, TypeOK
<1>20. ASSUME NEW i \in Stage, ReceiveSkipShut(i) PROVE PoolInv'
  BY <1>0, <1>20, <1>a DEF ReceiveSkipShut, collectorVars, Up, TypeOK
<1>21. QED
  BY <1>1, <1>2, <1>3, <1>4, <1>5, <1>6, <1>7, <1>8, <1>9,
     <1>10, <1>11, <1>12, <1>13, <1>14, <1>15, <1>16, <1>17, <1>18, <1>19,
     <1>20
     DEF Next, Collector, Machinery, Admitted, CancelParent, ParentExpires, Reason

\* Whoever offers a chunk in the pipe of a reader does so for the stage whose
\* output it is.
LEMMA Feeder ==
    ASSUME IInv, NEW i \in Stage, i > 1, i \notin Skipped, Offered(i - 1)
    PROVE  \E s \in Stage :
               /\ Nearest(s, i - 1)
               /\ IF outCopy[i - 1] = "write"
                  THEN s = i - 1
                  ELSE holding /\ copying = i - 1 /\ s = i - 2
               /\ Writing(s) + Carried(s) >= 1
<1> USE PipeAssumption DEF Stage
<1>0. TypeOK /\ StageInv /\ CopyInv
  BY DEF IInv
<1>1. i - 1 \in Stage
  OBVIOUS
<1>2. CASE outCopy[i - 1] = "write"
  <2>1. i - 1 \notin Skipped
    BY <1>0, <1>1, <1>2 DEF StageInv
  <2>2. Nearest(i - 1, i - 1)
    BY <1>1, <2>1 DEF Nearest
  <2>3. Writing(i - 1) = 1 /\ Carried(i - 1) \in Nat
    BY <1>2 DEF Writing, Carried
  <2>4. QED
    BY <1>1, <1>2, <2>2, <2>3
<1>3. CASE outCopy[i - 1] # "write"
  <2>1. holding /\ copying = i - 1
    BY <1>3 DEF Offered
  <2>2. /\ i - 1 \in 2..(Stages - 1)
        /\ i - 1 \in Skipped
        /\ (i - 1) - 1 \notin Skipped
    BY <1>0, <2>1 DEF CopyInv
  <2>3. i - 2 \in Stage /\ i - 2 \notin Skipped /\ copying = (i - 2) + 1
    BY <2>1, <2>2
  <2>4. Nearest(i - 2, i - 1)
    BY <2>2, <2>3 DEF Nearest
  <2>5. Carried(i - 2) = 1 /\ Writing(i - 2) \in Nat
    BY <2>1, <2>3 DEF Writing, Carried
  <2>6. QED
    BY <1>3, <2>1, <2>3, <2>4, <2>5
<1>4. QED
  BY <1>2, <1>3

LEMMA TypeStep == IInv /\ [Next]_vars => TypeOK'
<1> SUFFICES ASSUME IInv, [Next]_vars PROVE TypeOK'
  OBVIOUS
<1>0. TypeOK /\ SpawnInv /\ StageInv /\ PoolInv /\ FlowInv
      /\ CopyInv /\ IInv
  BY DEF IInv
<1> USE PipeAssumption
<1>s. pc = "spawn" => spawned + 1 \in Stage
  BY <1>0 DEF SpawnInv, TypeOK, Stage
<1>r. Stage = 1..Stages
  BY DEF Stage
<1>w. \A i \in Stage : {i} \ {Stages} \subseteq 1..(Stages - 1)
  BY DEF Stage
<1>k. pc = "copy" => copying \in 1..(Stages - 1)
  BY <1>0 DEF CopyInv
<1>c. ASSUME NEW last, NEW failed, Conclude(last, failed)
      PROVE  /\ pc' \in {"spawn", "collect", "copy", "next", "returned"}
             /\ outcome' \in {"running", "next", "failed", "broken"}
  BY <1>0, <1>c DEF Conclude, TypeOK
<1>v. \A i \in Stage : /\ Allowed(i, "hard") \in Soft \cup Hard
                       /\ Allowed(i, "canceled") \in Soft \cup Hard
                       /\ "ok" \in Soft /\ "skipped" \in Soft
  BY DEF Allowed, Soft, Hard
<1>p. \A i \in Stage : stage[i] = "up" => pool \in Nat \ {0}
  <2> TAKE i \in Stage
  <2> HAVE stage[i] = "up"
  <2>1. i \in Up
    BY DEF Up
  <2>2. Cardinality(Up) \in Nat /\ Cardinality(Up) # 0
    BY <2>1, UpFinite, FS_CardinalityType, FS_EmptySet
  <2>3. QED
    BY <1>0, <2>2 DEF PoolInv
<1>1. CASE Spawn
  <2>1. spawned + 1 \in Stage
    BY <1>0, <1>1, <1>s DEF Spawn, TypeOK
  <2>2. stage' \in [Stage -> {"none", "queued", "up", "sending", "received"}]
    BY <1>0, <1>1, <2>1 DEF Spawn, TypeOK
  <2>3. spawned' \in 0..Stages
    BY <1>0, <1>1, <2>1, <1>r DEF Spawn, TypeOK
  <2>4. pc' \in {"spawn", "collect", "copy", "next", "returned"}
    BY <1>1 DEF Spawn, TypeOK
  <2>5. QED
    BY <1>0, <1>1, <2>1, <2>2, <2>3, <2>4 DEF Spawn, collectorVars, PoolSize, TypeOK
<1>2. ASSUME NEW i \in Stage, Receive(i) PROVE TypeOK'
  <2>1. stage' \in [Stage -> {"none", "queued", "up", "sending", "received"}]
    BY <1>0, <1>2 DEF Receive, TypeOK
  <2>2. errs' \in Seq(Stage)
    BY <1>0, <1>2 DEF Receive, TypeOK
  <2>3. wclosed' \subseteq 1..(Stages - 1)
    BY <1>0, <1>2, <1>w DEF Receive, TypeOK
  <2>4. cancelled' \in BOOLEAN /\ shut' \in BOOLEAN
    BY <1>0, <1>2 DEF Receive, TypeOK
  <2>5. pc' \in {"spawn", "collect", "copy", "next", "returned"}
        /\ outcome' \in {"running", "next", "failed", "broken"}
    BY <1>0, <1>2, <1>c DEF Receive, TypeOK
  <2>6. QED
    BY <1>0, <1>2, <2>1, <2>2, <2>3, <2>4, <2>5 DEF Receive, collectorVars, PoolSize, TypeOK
<1>3. ASSUME NEW i \in Stage, ReceiveSkip(i) PROVE TypeOK'
  <2>1. stage' \in [Stage -> {"none", "queued", "up", "sending", "received"}]
    BY <1>0, <1>3 DEF ReceiveSkip, TypeOK
  <2>2. copying' \in 0..Stages
    BY <1>0, <1>3 DEF ReceiveSkip, TypeOK
  <2>3. wclosed' \subseteq 1..(Stages - 1)
    BY <1>0, <1>3, <1>w DEF ReceiveSkip, TypeOK
  <2>4. pc' \in {"spawn", "collect", "copy", "next", "returned"}
        /\ outcome' \in {"running", "next", "failed", "broken"}
    BY <1>0, <1>3, <1>c DEF ReceiveSkip, TypeOK
  <2>5. QED
    BY <1>0, <1>3, <2>1, <2>2, <2>3, <2>4 DEF ReceiveSkip, collectorVars, PoolSize, TypeOK
<1>4. CASE CopyRead
  BY <1>0, <1>4 DEF CopyRead, collectorVars, PoolSize, TypeOK, Stage
<1>5. CASE CopyEnds
  <2>1. wclosed' \subseteq 1..(Stages - 1)
    BY <1>0, <1>5, <1>k DEF CopyEnds, TypeOK
  <2>2. pc' \in {"spawn", "collect", "copy", "next", "returned"}
        /\ outcome' \in {"running", "next", "failed", "broken"}
    BY <1>0, <1>5, <1>c DEF CopyEnds, TypeOK
  <2>3. QED
    BY <1>0, <1>5, <2>1, <2>2 DEF CopyEnds, collectorVars, PoolSize, TypeOK
<1>6. CASE CallNext
  BY <1>0, <1>6 DEF CallNext, collectorVars, PoolSize, TypeOK, Stage
<1>7. ASSUME NEW i \in Stage, Skip(i) PROVE TypeOK'
  <2>1. stage' \in [Stage -> {"none", "queued", "up", "sending", "received"}]
    BY <1>0, <1>7 DEF Skip, TypeOK
  <2>2. verdict' \in [Stage -> {"none"} \cup Soft \cup Hard]
    BY <1>0, <1>7, <1>v DEF Skip, TypeOK
  <2>3. QED
    BY <1>0, <1>7, <2>1, <2>2 DEF Skip, collectorVars, PoolSize, TypeOK
<1>8. ASSUME NEW i \in Stage, Start(i) PROVE TypeOK'
  <2>1. stage' \in [Stage -> {"none", "queued", "up", "sending", "received"}]
    BY <1>0, <1>8 DEF Start, TypeOK
  <2>2. pool' \in 0..PoolSize
    BY <1>0, <1>8, SettingType DEF Start, TypeOK
  <2>3. QED
    BY <1>0, <1>8, <2>1, <2>2 DEF Start, collectorVars, PoolSize, TypeOK
<1>9. ASSUME NEW i \in Stage, StartFails(i) PROVE TypeOK'
  <2>1. stage' \in [Stage -> {"none", "queued", "up", "sending", "received"}]
    BY <1>0, <1>9 DEF StartFails, TypeOK
  <2>2. verdict' \in [Stage -> {"none"} \cup Soft \cup Hard]
    BY <1>0, <1>9, <1>v DEF StartFails, TypeOK
  <2>3. wclosed' \subseteq 1..(Stages - 1)
    BY <1>0, <1>9, <1>w DEF StartFails, TypeOK
  <2>4. QED
    BY <1>0, <1>9, <2>1, <2>2, <2>3 DEF StartFails, collectorVars, PoolSize, TypeOK
<1>10. ASSUME NEW i \in Stage, Write(i) PROVE TypeOK'
  <2>1. wrote' \in [Stage -> 0..Chunks]
    BY <1>0, <1>10 DEF Write, TypeOK
  <2>2. QED
    BY <1>0, <1>10, <2>1 DEF Write, collectorVars, PoolSize, TypeOK
<1>11. ASSUME NEW i \in Stage, NEW code \in {"ok", "failed"}, Exit(i, code)
       PROVE  TypeOK'
  BY <1>0, <1>11 DEF Exit, collectorVars, PoolSize, TypeOK, Stage
<1>12. ASSUME NEW i \in Stage, OutCopyEnds(i) PROVE TypeOK'
  BY <1>0, <1>12 DEF OutCopyEnds, collectorVars, PoolSize, TypeOK, Stage
<1>13. ASSUME NEW i \in Stage, i > 1, Read(i) PROVE TypeOK'
  <2>1. /\ Offered(i - 1)
        /\ got' = got \/ (inCopy[i] = "read" /\ got' = [got EXCEPT ![i] = got[i] + 1])
    BY <1>13 DEF Read
  <2>2. inCopy[i] = "read" => got[i] + 1 \in 0..Chunks
    <3> SUFFICES ASSUME inCopy[i] = "read" PROVE got[i] + 1 \in 0..Chunks
      OBVIOUS
    <3>1. i \notin Skipped
      BY <1>0 DEF StageInv
    <3>2. PICK s \in Stage : Nearest(s, i - 1) /\ Writing(s) + Carried(s) >= 1
      BY <1>0, <1>13, <2>1, <3>1, Feeder
    <3>3. got[i] + Writing(s) + Carried(s) <= wrote[s]
      BY <1>0, <3>1, <3>2 DEF FlowInv
    <3>4. wrote[s] \in 0..Chunks /\ got[i] \in 0..Chunks
      BY <1>0 DEF TypeOK
    <3>5. Writing(s) \in Nat /\ Carried(s) \in Nat
      BY DEF Writing, Carried
    <3>6. QED
      BY <3>2, <3>3, <3>4, <3>5
  <2>3. got' \in [Stage -> 0..Chunks]
    BY <1>0, <2>1, <2>2 DEF TypeOK
  <2>4. outCopy' \in [Stage -> {"idle", "write", "done", "failed"}]
    BY <1>0, <1>13 DEF Read, TypeOK
  <2>5. inCopy' \in [Stage -> {"none", "nil", "read", "stray", "done", "failed"}]
    BY <1>0, <1>13 DEF Read, TypeOK
  <2>6. holding' \in BOOLEAN
    BY <1>0, <1>13 DEF Read, TypeOK
  <2>7. QED
    BY <1>0, <1>13, <2>3, <2>4, <2>5, <2>6 DEF Read, PoolSize, TypeOK
<1>14. ASSUME NEW i \in Stage, i > 1, ReadEnds(i) PROVE TypeOK'
  BY <1>0, <1>14 DEF ReadEnds, collectorVars, PoolSize, TypeOK, Stage
<1>15. ASSUME NEW i \in Stage, Return(i) PROVE TypeOK'
  <2>1. stage' \in [Stage -> {"none", "queued", "up", "sending", "received"}]
    BY <1>0, <1>15 DEF Return, TypeOK
  <2>2. verdict' \in [Stage -> {"none"} \cup Soft \cup Hard]
    BY <1>0, <1>15, <1>v DEF Return, TypeOK
  <2>3. wclosed' \subseteq 1..(Stages - 1)
    BY <1>0, <1>15, <1>w DEF Return, TypeOK
  <2>4. pool' \in 0..PoolSize
    BY <1>0, <1>15, <1>p, SettingType DEF Return, TypeOK
  <2>5. QED
    BY <1>0, <1>15, <2>1, <2>2, <2>3, <2>4 DEF Return, collectorVars, PoolSize, TypeOK
<1>16. ASSUME NEW i \in Stage, ReturnCancelled(i) PROVE TypeOK'
  <2>1. stage' \in [Stage -> {"none", "queued", "up", "sending", "received"}]
    BY <1>0, <1>16 DEF ReturnCancelled, TypeOK
  <2>2. verdict' \in [Stage -> {"none"} \cup Soft \cup Hard]
    BY <1>0, <1>16, <1>v DEF ReturnCancelled, TypeOK
  <2>3. wclosed' \subseteq 1..(Stages - 1)
    BY <1>0, <1>16, <1>w DEF ReturnCancelled, TypeOK
  <2>4. pool' \in 0..PoolSize
    BY <1>0, <1>16, <1>p, SettingType DEF ReturnCancelled, TypeOK
  <2>5. QED
    BY <1>0, <1>16, <2>1, <2>2, <2>3, <2>4 DEF ReturnCancelled, collectorVars, PoolSize, TypeOK
<1>17. ASSUME NEW reason \in Reason, ParentEnds(reason) PROVE TypeOK'
  BY <1>0, <1>17 DEF ParentEnds, collectorVars, PoolSize, TypeOK, Stage
<1>18. CASE UNCHANGED vars
  BY <1>0, <1>18 DEF vars, collectorVars, PoolSize, TypeOK, Stage
<1>19. CASE EntrypointFails
  BY <1>0, <1>19 DEF EntrypointFails, collectorVars, PoolSize, TypeOK, Stage
<1>20. ASSUME NEW i \in Stage, ReceiveSkipShut(i) PROVE TypeOK'
  <2>1. stage' \in [Stage -> {"none", "queued", "up", "sending", "received"}]
    BY <1>0, <1>20 DEF ReceiveSkipShut, TypeOK
  <2>2. errs' \in Seq(Stage)
    BY <1>0, <1>20 DEF ReceiveSkipShut, TypeOK
  <2>3. pc' \in {"spawn", "collect", "copy", "next", "returned"}
        /\ outcome' \in {"running", "next", "failed", "broken"}
    BY <1>0, <1>20, <1>c DEF ReceiveSkipShut, TypeOK
  <2>4. QED
    BY <1>0, <1>20, <2>1, <2>2, <2>3 DEF ReceiveSkipShut, collectorVars, PoolSize, TypeOK
<1>21. QED
  BY <1>1, <1>2, <1>3, <1>4, <1>5, <1>6, <1>7, <1>8, <1>9,
     <1>10, <1>11, <1>12, <1>13, <1>14, <1>15, <1>16, <1>17, <1>18, <1>19,
     <1>20
     DEF Next, Collector, Machinery, Admitted, CancelParent, ParentExpires, Reason

LEMMA ClosedStep == IInv /\ [Next]_vars => ClosedInv'
<1> SUFFICES ASSUME IInv, [Next]_vars PROVE ClosedInv'
  OBVIOUS
<1>0. TypeOK /\ ClosedInv /\ StageInv /\ VerdictInv /\ CopyInv /\ SpawnInv
  BY DEF IInv
<1> USE PipeAssumption
\* What closes further pipes is the end of stages that are not skipped, and
\* the collector begins to carry nothing.
<1>a. ASSUME setting' = setting,
             \A p \in wclosed' \ wclosed :
                 p \in Stage /\ p \notin Skipped /\ Ended(p)',
             \A s \in Stage : Ended(s) => Ended(s)',
             holding' => holding /\ copying' = copying
      PROVE  ClosedInv'
  <2> SUFFICES ASSUME NEW p \in wclosed', NEW s \in Stage, Nearest(s, p)'
               PROVE  Ended(s)' /\ (s < p => ~(holding' /\ copying' = s + 1))
    BY DEF ClosedInv
  <2>1. Nearest(s, p)
    BY <1>a DEF Nearest, Skipped
  <2>2. CASE p \in wclosed
    BY <1>0, <1>a, <2>1, <2>2 DEF ClosedInv
  <2>3. CASE p \notin wclosed
    <3>1. p \in Stage /\ p \notin Skipped /\ Ended(p)'
      BY <1>a, <2>3
    <3>2. s = p
      BY <2>1, <3>1 DEF Nearest, Stage
    <3>3. QED
      BY <3>1, <3>2 DEF Stage
  <2>4. QED
    BY <2>2, <2>3
<1>1. CASE Spawn
  <2>1. spawned + 1 \in Stage /\ stage[spawned + 1] = "none"
    BY <1>0, <1>1 DEF Spawn, SpawnInv, TypeOK, Stage
  <2>2. QED
    BY <1>0, <1>1, <1>a, <2>1 DEF Spawn, Ended, TypeOK
<1>2. ASSUME NEW i \in Stage, Receive(i) PROVE ClosedInv'
  <2>1. /\ stage[i] = "sending"
        /\ stage' = [stage EXCEPT ![i] = "received"]
        /\ verdict[i] # "skipped" \/ Ignoring
        /\ wclosed' = IF Ignoring THEN wclosed ELSE wclosed \cup ({i} \ {Stages})
        /\ UNCHANGED <<setting, holding, copying>>
    BY <1>2 DEF Receive
  <2>2. ~Ignoring => i \notin Skipped
    BY <1>0, <2>1 DEF VerdictInv, Ended
  <2>3. \A s \in Stage : Ended(s) => Ended(s)'
    BY <1>0, <2>1 DEF Ended, TypeOK
  <2>4. Ended(i)'
    BY <1>0, <2>1 DEF Ended, TypeOK
  <2>5. \A p \in wclosed' \ wclosed : p \in Stage /\ p \notin Skipped /\ Ended(p)'
    <3> TAKE p \in wclosed' \ wclosed
    <3>1. p = i /\ ~Ignoring
      BY <2>1
    <3>2. QED
      BY <2>2, <2>4, <3>1
  <2>6. QED
    BY <1>a, <2>1, <2>3, <2>5
<1>3. ASSUME NEW i \in Stage, ReceiveSkip(i) PROVE ClosedInv'
  <2>1. /\ pc = "collect"
        /\ stage[i] = "sending"
        /\ stage' = [stage EXCEPT ![i] = "received"]
        /\ verdict[i] = "skipped"
        /\ wclosed' \subseteq wclosed \cup {1}
        /\ 1 \in wclosed' \ wclosed => i = 1
        /\ UNCHANGED <<setting, holding>>
    <3>1. i \in 2..(Stages - 1) \/ i = 1 \/ i = Stages
      BY DEF Stage
    <3>2. QED
      BY <1>3, <3>1 DEF ReceiveSkip
  <2>2. i \in Skipped /\ ~holding
    BY <1>0, <2>1 DEF VerdictInv, CopyInv
  <2>3. \A s \in Stage : Ended(s) => Ended(s)'
    BY <1>0, <2>1 DEF Ended, TypeOK
  <2> SUFFICES ASSUME NEW p \in wclosed', NEW s \in Stage, Nearest(s, p)'
               PROVE  Ended(s)' /\ (s < p => ~(holding' /\ copying' = s + 1))
    BY DEF ClosedInv
  <2>4. Nearest(s, p)
    BY <2>1 DEF Nearest, Skipped
  <2>5. p \in wclosed
    <3> SUFFICES ASSUME p \notin wclosed PROVE FALSE
      OBVIOUS
    <3>1. p = 1 /\ i = 1
      BY <2>1
    <3>2. s = 1 /\ s \notin Skipped
      BY <2>4, <3>1 DEF Nearest, Stage
    <3>3. QED
      BY <2>2, <3>1, <3>2
  <2>6. QED
    BY <1>0, <2>1, <2>2, <2>3, <2>4, <2>5 DEF ClosedInv
<1>4. CASE CopyRead
  <2>1. /\ pc = "copy"
        /\ outCopy[copying - 1] = "write"
        /\ UNCHANGED <<setting, wclosed, stage, copying>>
    BY <1>4 DEF CopyRead
  <2> SUFFICES ASSUME NEW p \in wclosed', NEW s \in Stage, Nearest(s, p)'
               PROVE  Ended(s)' /\ (s < p => ~(holding' /\ copying' = s + 1))
    BY DEF ClosedInv
  <2>2. Nearest(s, p)
    BY <2>1 DEF Nearest, Skipped
  <2>3. Ended(s)
    BY <1>0, <2>1, <2>2 DEF ClosedInv
  <2>4. copying # s + 1
    <3> SUFFICES ASSUME copying = s + 1 PROVE FALSE
      OBVIOUS
    <3>1. outCopy[s] = "write"
      BY <2>1 DEF Stage
    <3>2. QED
      BY <1>0, <2>3, <3>1 DEF StageInv
  <2>5. QED
    BY <2>1, <2>3, <2>4 DEF Ended
<1>5. CASE CopyEnds
  <2>1. /\ pc = "copy"
        /\ ~holding
        /\ copying - 1 \in wclosed
        /\ wclosed' = wclosed \cup {copying}
        /\ UNCHANGED <<setting, stage, holding>>
    BY <1>5 DEF CopyEnds
  <2>2. copying \in 2..(Stages - 1) /\ copying \in Skipped
    BY <1>0, <2>1 DEF CopyInv
  <2> SUFFICES ASSUME NEW p \in wclosed', NEW s \in Stage, Nearest(s, p)'
               PROVE  Ended(s)' /\ (s < p => ~(holding' /\ copying' = s + 1))
    BY DEF ClosedInv
  <2>3. Nearest(s, p)
    BY <2>1 DEF Nearest, Skipped
  <2>4. Ended(s)
    <3>1. CASE p \in wclosed
      BY <1>0, <2>3, <3>1 DEF ClosedInv
    <3>2. CASE p = copying
      <4>1. s # copying
        BY <2>2, <2>3 DEF Nearest
      <4>2. Nearest(s, copying - 1)
        BY <2>2, <2>3, <3>2, <4>1 DEF Nearest, Stage
      <4>3. QED
        BY <1>0, <2>1, <4>2 DEF ClosedInv
    <3>3. QED
      BY <2>1, <3>1, <3>2
  <2>5. QED
    BY <2>1, <2>4 DEF Ended
<1>6. CASE CallNext
  BY <1>0, <1>6, <1>a DEF CallNext, collectorVars, Ended, TypeOK, Stage, Skipped
<1>7. ASSUME NEW i \in Stage, Skip(i) PROVE ClosedInv'
  BY <1>0, <1>7, <1>a DEF Skip, collectorVars, Ended, TypeOK, Stage, Skipped
<1>8. ASSUME NEW i \in Stage, Start(i) PROVE ClosedInv'
  BY <1>0, <1>8, <1>a DEF Start, collectorVars, Ended, TypeOK, Stage, Skipped
<1>9. ASSUME NEW i \in Stage, StartFails(i) PROVE ClosedInv'
  BY <1>0, <1>9, <1>a DEF StartFails, collectorVars, Ended, TypeOK, Stage, Skipped
<1>10. ASSUME NEW i \in Stage, Write(i) PROVE ClosedInv'
  BY <1>0, <1>10, <1>a DEF Write, collectorVars, Ended, TypeOK, Stage, Skipped
<1>11. ASSUME NEW i \in Stage, NEW code \in {"ok", "failed"}, Exit(i, code)
       PROVE  ClosedInv'
  BY <1>0, <1>11, <1>a DEF Exit, collectorVars, Ended, TypeOK, Stage, Skipped
<1>12. ASSUME NEW i \in Stage, OutCopyEnds(i) PROVE ClosedInv'
  BY <1>0, <1>12, <1>a DEF OutCopyEnds, collectorVars, Ended, TypeOK, Stage, Skipped
<1>13. ASSUME NEW i \in Stage, i > 1, Read(i) PROVE ClosedInv'
  BY <1>0, <1>13, <1>a DEF Read, collectorVars, Ended, TypeOK, Stage, Skipped
<1>14. ASSUME NEW i \in Stage, i > 1, ReadEnds(i) PROVE ClosedInv'
  BY <1>0, <1>14, <1>a DEF ReadEnds, collectorVars, Ended, TypeOK, Stage, Skipped
<1>15. ASSUME NEW i \in Stage, Return(i) PROVE ClosedInv'
  <2>1. i \notin Skipped
    BY <1>0, <1>15 DEF Return, StageInv
  <2>2. /\ setting' = setting
        /\ wclosed' = wclosed \cup ({i} \ {Stages})
        /\ stage' = [stage EXCEPT ![i] = "sending"]
        /\ holding' = holding /\ copying' = copying
    BY <1>15 DEF Return, collectorVars
  <2>3. Ended(i)' /\ \A s \in Stage : Ended(s) => Ended(s)'
    BY <1>0, <2>2 DEF Ended, TypeOK
  <2>4. QED
    BY <1>a, <2>1, <2>2, <2>3
<1>16. ASSUME NEW i \in Stage, ReturnCancelled(i) PROVE ClosedInv'
  <2>1. i \notin Skipped
    BY <1>0, <1>16 DEF ReturnCancelled, StageInv
  <2>2. /\ setting' = setting
        /\ wclosed' = wclosed \cup ({i} \ {Stages})
        /\ stage' = [stage EXCEPT ![i] = "sending"]
        /\ holding' = holding /\ copying' = copying
    BY <1>16 DEF ReturnCancelled, collectorVars
  <2>3. Ended(i)' /\ \A s \in Stage : Ended(s) => Ended(s)'
    BY <1>0, <2>2 DEF Ended, TypeOK
  <2>4. QED
    BY <1>a, <2>1, <2>2, <2>3
<1>17. ASSUME NEW reason \in Reason, ParentEnds(reason) PROVE ClosedInv'
  BY <1>0, <1>17, <1>a DEF ParentEnds, collectorVars, Ended, TypeOK, Stage, Skipped
<1>18. CASE UNCHANGED vars
  BY <1>0, <1>18, <1>a DEF vars, collectorVars, Ended, TypeOK, Stage, Skipped
<1>19. CASE EntrypointFails
  BY <1>0, <1>19, <1>a DEF EntrypointFails, collectorVars, Ended, TypeOK, Stage, Skipped
<1>20. ASSUME NEW i \in Stage, ReceiveSkipShut(i) PROVE ClosedInv'
  BY <1>0, <1>20, <1>a DEF ReceiveSkipShut, collectorVars, Ended, TypeOK, Stage, Skipped
<1>21. QED
  BY <1>1, <1>2, <1>3, <1>4, <1>5, <1>6, <1>7, <1>8, <1>9,
     <1>10, <1>11, <1>12, <1>13, <1>14, <1>15, <1>16, <1>17, <1>18, <1>19,
     <1>20
     DEF Next, Collector, Machinery, Admitted, CancelParent, ParentExpires, Reason

LEMMA SourceStep == IInv /\ [Next]_vars => SourceInv'
<1> SUFFICES ASSUME IInv, [Next]_vars PROVE SourceInv'
  OBVIOUS
<1>0. TypeOK /\ SourceInv /\ StageInv /\ CopyInv
  BY DEF IInv
<1> USE PipeAssumption
<1>a. ASSUME UNCHANGED <<setting, got>> PROVE SourceInv'
  BY <1>0, <1>a DEF SourceInv, Skipped
<1>1. CASE Spawn
  BY <1>0, <1>1, <1>a DEF Spawn, collectorVars, Stage
<1>2. ASSUME NEW i \in Stage, Receive(i) PROVE SourceInv'
  BY <1>0, <1>2, <1>a DEF Receive, collectorVars, Stage
<1>3. ASSUME NEW i \in Stage, ReceiveSkip(i) PROVE SourceInv'
  BY <1>0, <1>3, <1>a DEF ReceiveSkip, collectorVars, Stage
<1>4. CASE CopyRead
  BY <1>0, <1>4, <1>a DEF CopyRead, collectorVars, Stage
<1>5. CASE CopyEnds
  BY <1>0, <1>5, <1>a DEF CopyEnds, collectorVars, Stage
<1>6. CASE CallNext
  BY <1>0, <1>6, <1>a DEF CallNext, collectorVars, Stage
<1>7. ASSUME NEW i \in Stage, Skip(i) PROVE SourceInv'
  BY <1>0, <1>7, <1>a DEF Skip, collectorVars, Stage
<1>8. ASSUME NEW i \in Stage, Start(i) PROVE SourceInv'
  BY <1>0, <1>8, <1>a DEF Start, collectorVars, Stage
<1>9. ASSUME NEW i \in Stage, StartFails(i) PROVE SourceInv'
  BY <1>0, <1>9, <1>a DEF StartFails, collectorVars, Stage
<1>10. ASSUME NEW i \in Stage, Write(i) PROVE SourceInv'
  BY <1>0, <1>10, <1>a DEF Write, collectorVars, Stage
<1>11. ASSUME NEW i \in Stage, NEW code \in {"ok", "failed"}, Exit(i, code)
       PROVE  SourceInv'
  BY <1>0, <1>11, <1>a DEF Exit, collectorVars, Stage
<1>12. ASSUME NEW i \in Stage, OutCopyEnds(i) PROVE SourceInv'
  BY <1>0, <1>12, <1>a DEF OutCopyEnds, collectorVars, Stage
<1>13. ASSUME NEW i \in Stage, i > 1, Read(i) PROVE SourceInv'
  <2> SUFFICES ASSUME NEW j \in Stage, \A k \in 1..(j - 1) : k \in Skipped'
               PROVE  got'[j] = 0
    BY DEF SourceInv
  <2>1. /\ Offered(i - 1)
        /\ setting' = setting
        /\ got' = got \/ got' = [got EXCEPT ![i] = got[i] + 1]
    BY <1>13 DEF Read
  <2>2. \A k \in 1..(j - 1) : k \in Skipped
    BY <2>1 DEF Skipped
  <2>3. got[j] = 0
    BY <1>0, <2>2 DEF SourceInv
  <2>4. j # i
    <3> SUFFICES ASSUME j = i PROVE FALSE
      OBVIOUS
    <3>0. i - 1 \in Stage /\ i - 1 \in Skipped
      BY <1>13, <2>2 DEF Stage
    <3>1. CASE outCopy[i - 1] = "write"
      BY <1>0, <3>0, <3>1 DEF StageInv
    <3>2. CASE copying = i - 1 /\ holding
      <4>1. copying \in 2..(Stages - 1) /\ copying - 1 \notin Skipped
        BY <1>0, <3>2 DEF CopyInv
      <4>2. copying - 1 \in 1..(j - 1)
        BY <3>2, <4>1 DEF Stage
      <4>3. QED
        BY <2>2, <4>1, <4>2
    <3>3. QED
      BY <2>1, <3>1, <3>2 DEF Offered
  <2>5. QED
    BY <1>0, <2>1, <2>3, <2>4 DEF TypeOK
<1>14. ASSUME NEW i \in Stage, i > 1, ReadEnds(i) PROVE SourceInv'
  BY <1>0, <1>14, <1>a DEF ReadEnds, collectorVars, Stage
<1>15. ASSUME NEW i \in Stage, Return(i) PROVE SourceInv'
  BY <1>0, <1>15, <1>a DEF Return, collectorVars, Stage
<1>16. ASSUME NEW i \in Stage, ReturnCancelled(i) PROVE SourceInv'
  BY <1>0, <1>16, <1>a DEF ReturnCancelled, collectorVars, Stage
<1>17. ASSUME NEW reason \in Reason, ParentEnds(reason) PROVE SourceInv'
  BY <1>0, <1>17, <1>a DEF ParentEnds, collectorVars, Stage
<1>18. CASE UNCHANGED vars
  BY <1>0, <1>18, <1>a DEF vars, collectorVars, Stage
<1>19. CASE EntrypointFails
  BY <1>0, <1>19, <1>a DEF EntrypointFails, collectorVars, Stage
<1>20. ASSUME NEW i \in Stage, ReceiveSkipShut(i) PROVE SourceInv'
  BY <1>0, <1>20, <1>a DEF ReceiveSkipShut, collectorVars, Stage
<1>21. QED
  BY <1>1, <1>2, <1>3, <1>4, <1>5, <1>6, <1>7, <1>8, <1>9,
     <1>10, <1>11, <1>12, <1>13, <1>14, <1>15, <1>16, <1>17, <1>18, <1>19,
     <1>20
     DEF Next, Collector, Machinery, Admitted, CancelParent, ParentExpires, Reason

LEMMA ReaderStep == IInv /\ [Next]_vars => ReaderInv'
<1> SUFFICES ASSUME IInv, [Next]_vars PROVE ReaderInv'
  OBVIOUS
<1>0. TypeOK /\ ReaderInv /\ ErrsInv /\ StageInv
  BY DEF IInv
<1>a. ASSUME Cancelled => Cancelled', wclosed \subseteq wclosed',
             inCopy' = inCopy
      PROVE  ReaderInv'
  BY <1>0, <1>a DEF ReaderInv
<1>1. CASE Spawn
  BY <1>0, <1>1, <1>a DEF Spawn, collectorVars, Cancelled
<1>2. ASSUME NEW i \in Stage, Receive(i) PROVE ReaderInv'
  BY <1>0, <1>2, <1>a DEF Receive, collectorVars, Cancelled
<1>3. ASSUME NEW i \in Stage, ReceiveSkip(i) PROVE ReaderInv'
  BY <1>0, <1>3, <1>a DEF ReceiveSkip, collectorVars, Cancelled
<1>4. CASE CopyRead
  BY <1>0, <1>4, <1>a DEF CopyRead, collectorVars, Cancelled
<1>5. CASE CopyEnds
  BY <1>0, <1>5, <1>a DEF CopyEnds, collectorVars, Cancelled
<1>6. CASE CallNext
  BY <1>0, <1>6, <1>a DEF CallNext, collectorVars, Cancelled
<1>7. ASSUME NEW i \in Stage, Skip(i) PROVE ReaderInv'
  BY <1>0, <1>7, <1>a DEF Skip, collectorVars, Cancelled
<1>8. ASSUME NEW i \in Stage, Start(i) PROVE ReaderInv'
  BY <1>0, <1>8 DEF Start, ReaderInv, Cancelled, TypeOK
<1>9. ASSUME NEW i \in Stage, StartFails(i) PROVE ReaderInv'
  BY <1>0, <1>9, <1>a DEF StartFails, collectorVars, Cancelled
<1>10. ASSUME NEW i \in Stage, Write(i) PROVE ReaderInv'
  BY <1>0, <1>10, <1>a DEF Write, collectorVars, Cancelled
<1>11. ASSUME NEW i \in Stage, NEW code \in {"ok", "failed"}, Exit(i, code)
       PROVE  ReaderInv'
  BY <1>0, <1>11, <1>a DEF Exit, collectorVars, Cancelled
<1>12. ASSUME NEW i \in Stage, OutCopyEnds(i) PROVE ReaderInv'
  BY <1>0, <1>12, <1>a DEF OutCopyEnds, collectorVars, Cancelled
<1>13. ASSUME NEW i \in Stage, i > 1, Read(i) PROVE ReaderInv'
  BY <1>0, <1>13 DEF Read, ReaderInv, Cancelled, TypeOK
<1>14. ASSUME NEW i \in Stage, i > 1, ReadEnds(i) PROVE ReaderInv'
  BY <1>0, <1>14 DEF ReadEnds, ReaderInv, ErrsInv, Cancelled, TypeOK
<1>15. ASSUME NEW i \in Stage, Return(i) PROVE ReaderInv'
  BY <1>0, <1>15, <1>a DEF Return, collectorVars, Cancelled
<1>16. ASSUME NEW i \in Stage, ReturnCancelled(i) PROVE ReaderInv'
  BY <1>0, <1>16 DEF ReturnCancelled, ReaderInv, Cancelled, TypeOK
<1>17. ASSUME NEW reason \in Reason, ParentEnds(reason) PROVE ReaderInv'
  BY <1>0, <1>17, <1>a DEF ParentEnds, collectorVars, Cancelled
<1>18. CASE UNCHANGED vars
  BY <1>0, <1>18, <1>a DEF vars, collectorVars, Cancelled
<1>19. CASE EntrypointFails
  BY <1>0, <1>19, <1>a DEF EntrypointFails, collectorVars, Cancelled
<1>20. ASSUME NEW i \in Stage, ReceiveSkipShut(i) PROVE ReaderInv'
  BY <1>0, <1>20, <1>a DEF ReceiveSkipShut, collectorVars, Cancelled
<1>21. QED
  BY <1>1, <1>2, <1>3, <1>4, <1>5, <1>6, <1>7, <1>8, <1>9,
     <1>10, <1>11, <1>12, <1>13, <1>14, <1>15, <1>16, <1>17, <1>18, <1>19,
     <1>20
     DEF Next, Collector, Machinery, Admitted, CancelParent, ParentExpires, Reason

LEMMA FlowStep == IInv /\ [Next]_vars => FlowInv'
<1> SUFFICES ASSUME IInv, [Next]_vars PROVE FlowInv'
  OBVIOUS
<1>0. TypeOK /\ FlowInv /\ StageInv /\ CopyInv /\ ErrsInv
  BY DEF IInv
<1>i. IInv
  OBVIOUS
<1> USE PipeAssumption
\* A step that hands over nothing: what is being written is still being
\* written, unless the context is cancelled.
<1>a. ASSUME UNCHANGED <<setting, got, wrote>>,
             \A s \in Stage : \/ Writing(s)' = Writing(s)
                              \/ Cancelled' /\ Writing(s)' <= Writing(s),
             \A s \in Stage : Carried(s)' = Carried(s),
             Cancelled => Cancelled',
             \A i \in Stage : inCopy[i] = "failed" => inCopy'[i] = "failed"
      PROVE  FlowInv'
  <2> SUFFICES ASSUME NEW i \in Stage, NEW s \in Stage,
                      (i \notin Skipped)', Nearest(s, i - 1)'
               PROVE  /\ got'[i] + Writing(s)' + Carried(s)' <= wrote'[s]
                      /\ ~Cancelled' /\ inCopy'[i] # "failed" =>
                             got'[i] + Writing(s)' + Carried(s)' = wrote'[s]
    BY DEF FlowInv
  <2>1. i \notin Skipped /\ Nearest(s, i - 1)
    BY <1>a DEF Nearest, Skipped
  <2>2. /\ got[i] + Writing(s) + Carried(s) <= wrote[s]
        /\ ~Cancelled /\ inCopy[i] # "failed" =>
               got[i] + Writing(s) + Carried(s) = wrote[s]
    BY <1>0, <2>1 DEF FlowInv
  <2>3. got[i] \in Nat /\ wrote[s] \in Nat
    BY <1>0 DEF TypeOK
  <2>4. /\ Writing(s) \in {0, 1} /\ Carried(s) \in {0, 1}
        /\ Writing(s)' \in {0, 1} /\ Carried(s)' \in {0, 1}
    BY DEF Writing, Carried
  <2>5. QED
    BY <1>a, <2>2, <2>3, <2>4
\* What the collector carries does not change when it carries nothing.
<1>b. ASSUME ~holding, ~holding' PROVE \A s \in Stage : Carried(s)' = Carried(s)
  BY <1>b DEF Carried
<1>1. CASE Spawn
  BY <1>0, <1>1, <1>a DEF Spawn, collectorVars, Writing, Carried, Cancelled
<1>2. ASSUME NEW i \in Stage, Receive(i) PROVE FlowInv'
  BY <1>0, <1>2, <1>a DEF Receive, collectorVars, Writing, Carried, Cancelled
<1>3. ASSUME NEW i \in Stage, ReceiveSkip(i) PROVE FlowInv'
  <2>1. /\ pc = "collect"
        /\ UNCHANGED <<setting, got, wrote, outCopy, holding, inCopy, cancelled, parent>>
    BY <1>3 DEF ReceiveSkip
  <2>2. ~holding /\ ~holding'
    BY <1>0, <2>1 DEF CopyInv
  <2>3. QED
    BY <2>1, <2>2, <1>a, <1>b DEF Writing, Cancelled
<1>4. CASE CopyRead
  <2>1. /\ pc = "copy"
        /\ ~holding /\ holding'
        /\ outCopy[copying - 1] = "write"
        /\ outCopy' = [outCopy EXCEPT ![copying - 1] = "idle"]
        /\ UNCHANGED <<setting, got, wrote, copying, inCopy, cancelled, parent>>
    BY <1>4 DEF CopyRead
  <2> SUFFICES ASSUME NEW j \in Stage, NEW s \in Stage,
                      (j \notin Skipped)', Nearest(s, j - 1)'
               PROVE  /\ got'[j] + Writing(s)' + Carried(s)' <= wrote'[s]
                      /\ ~Cancelled' /\ inCopy'[j] # "failed" =>
                             got'[j] + Writing(s)' + Carried(s)' = wrote'[s]
    BY DEF FlowInv
  <2>2. j \notin Skipped /\ Nearest(s, j - 1)
    BY <2>1 DEF Nearest, Skipped
  <2>3. /\ got[j] + Writing(s) + Carried(s) <= wrote[s]
        /\ ~Cancelled /\ inCopy[j] # "failed" =>
               got[j] + Writing(s) + Carried(s) = wrote[s]
    BY <1>0, <2>2 DEF FlowInv
  <2>4. got[j] \in Nat /\ wrote[s] \in Nat
    BY <1>0 DEF TypeOK
  <2>5. copying \in 2..(Stages - 1)
    BY <1>0, <2>1 DEF CopyInv
  <2>6. CASE s = copying - 1
    <3>1. Writing(s) = 1 /\ Writing(s)' = 0 /\ Carried(s) = 0 /\ Carried(s)' = 1
      BY <1>0, <2>1, <2>5, <2>6 DEF Writing, Carried, TypeOK
    <3>2. QED
      BY <2>1, <2>3, <2>4, <3>1 DEF Cancelled
  <2>7. CASE s # copying - 1
    <3>1. Writing(s)' = Writing(s)
      BY <1>0, <2>1, <2>7 DEF Writing, TypeOK
    <3>2. copying # s + 1
      BY <2>5, <2>7 DEF Stage
    <3>3. Carried(s)' = 0 /\ Carried(s) = 0
      BY <2>1, <3>2 DEF Carried
    <3>4. QED
      BY <2>1, <2>3, <3>1, <3>3 DEF Cancelled
  <2>8. QED
    BY <2>6, <2>7
<1>5. CASE CopyEnds
  <2>1. /\ ~holding /\ ~holding'
        /\ UNCHANGED <<setting, got, wrote, outCopy, inCopy, cancelled, parent>>
    BY <1>5 DEF CopyEnds
  <2>2. QED
    BY <2>1, <1>a, <1>b DEF Writing, Cancelled
<1>6. CASE CallNext
  BY <1>0, <1>6, <1>a DEF CallNext, collectorVars, Writing, Carried, Cancelled
<1>7. ASSUME NEW i \in Stage, Skip(i) PROVE FlowInv'
  BY <1>0, <1>7, <1>a DEF Skip, collectorVars, Writing, Carried, Cancelled
<1>8. ASSUME NEW i \in Stage, Start(i) PROVE FlowInv'
  <2>1. /\ stage[i] = "queued"
        /\ UNCHANGED <<setting, got, wrote, outCopy, holding, copying, cancelled, parent>>
    BY <1>8 DEF Start, collectorVars
  <2>2. inCopy[i] = "none"
    BY <1>0, <2>1 DEF StageInv
  <2>3. \A j \in Stage : inCopy[j] = "failed" => inCopy'[j] = "failed"
    BY <1>0, <1>8, <2>2 DEF Start, TypeOK
  <2>4. QED
    BY <2>1, <2>3, <1>a DEF Writing, Carried, Cancelled
<1>9. ASSUME NEW i \in Stage, StartFails(i) PROVE FlowInv'
  BY <1>0, <1>9, <1>a DEF StartFails, collectorVars, Writing, Carried, Cancelled
<1>10. ASSUME NEW i \in Stage, Write(i) PROVE FlowInv'
  <2>1. /\ outCopy[i] = "idle"
        /\ outCopy' = [outCopy EXCEPT ![i] = "write"]
        /\ wrote' = [wrote EXCEPT ![i] = wrote[i] + 1]
        /\ UNCHANGED <<setting, got, holding, copying, inCopy, cancelled, parent>>
    BY <1>10 DEF Write, collectorVars
  <2> SUFFICES ASSUME NEW j \in Stage, NEW s \in Stage,
                      (j \notin Skipped)', Nearest(s, j - 1)'
               PROVE  /\ got'[j] + Writing(s)' + Carried(s)' <= wrote'[s]
                      /\ ~Cancelled' /\ inCopy'[j] # "failed" =>
                             got'[j] + Writing(s)' + Carried(s)' = wrote'[s]
    BY DEF FlowInv
  <2>2. j \notin Skipped /\ Nearest(s, j - 1)
    BY <2>1 DEF Nearest, Skipped
  <2>3. /\ got[j] + Writing(s) + Carried(s) <= wrote[s]
        /\ ~Cancelled /\ inCopy[j] # "failed" =>
               got[j] + Writing(s) + Carried(s) = wrote[s]
    BY <1>0, <2>2 DEF FlowInv
  <2>4. got[j] \in Nat /\ wrote[s] \in Nat
    BY <1>0 DEF TypeOK
  <2>5. Carried(s)' = Carried(s) /\ Carried(s) \in {0, 1}
    BY <2>1 DEF Carried
  <2>6. CASE s = i
    <3>1. Writing(s) = 0 /\ Writing(s)' = 1 /\ wrote'[s] = wrote[s] + 1
      BY <1>0, <2>1, <2>6 DEF Writing, TypeOK
    <3>2. QED
      BY <2>1, <2>3, <2>4, <2>5, <3>1 DEF Cancelled
  <2>7. CASE s # i
    <3>1. Writing(s)' = Writing(s) /\ wrote'[s] = wrote[s]
      BY <1>0, <2>1, <2>7 DEF Writing, TypeOK
    <3>2. QED
      BY <2>1, <2>3, <2>5, <3>1 DEF Cancelled
  <2>8. QED
    BY <2>6, <2>7
<1>11. ASSUME NEW i \in Stage, NEW code \in {"ok", "failed"}, Exit(i, code)
       PROVE  FlowInv'
  BY <1>0, <1>11, <1>a DEF Exit, collectorVars, Writing, Carried, Cancelled
<1>12. ASSUME NEW i \in Stage, OutCopyEnds(i) PROVE FlowInv'
  <2>1. UNCHANGED <<setting, got, wrote, holding, copying, inCopy, cancelled, parent>>
    BY <1>12 DEF OutCopyEnds, collectorVars
  <2>2. CASE outCopy[i] = "idle" /\ outCopy' = [outCopy EXCEPT ![i] = "done"]
    <3>1. \A s \in Stage : Writing(s)' = Writing(s)
      BY <1>0, <2>2 DEF Writing, TypeOK
    <3>2. QED
      BY <2>1, <3>1, <1>a DEF Carried, Cancelled
  <2>3. CASE shut /\ outCopy' = [outCopy EXCEPT ![i] = "failed"]
    <3>1. Cancelled'
      BY <1>0, <2>1, <2>3 DEF ErrsInv, Cancelled
    <3>2. \A s \in Stage : Writing(s)' <= Writing(s)
      BY <1>0, <2>3 DEF Writing, TypeOK
    <3>3. QED
      BY <2>1, <3>1, <3>2, <1>a DEF Carried, Cancelled
  <2>4. QED
    BY <1>12, <2>2, <2>3 DEF OutCopyEnds
<1>13. ASSUME NEW i \in Stage, i > 1, Read(i) PROVE FlowInv'
  <2>1. /\ inCopy[i] \in {"read", "stray"}
        /\ Offered(i - 1)
        /\ outCopy' = IF outCopy[i - 1] = "write"
                      THEN [outCopy EXCEPT ![i - 1] = "idle"] ELSE outCopy
        /\ holding' = (holding /\ copying # i - 1)
        /\ UNCHANGED <<setting, copying, wrote, cancelled, parent>>
    BY <1>13 DEF Read
\* Either the chunk is handed to the program or the reader fails.
  <2>a. \/ got' = [got EXCEPT ![i] = got[i] + 1] /\ inCopy' = inCopy
        \/ got' = got /\ inCopy' = [inCopy EXCEPT ![i] = "failed"]
    BY <1>13 DEF Read
  <2>b. i \notin Skipped
    BY <1>0, <2>1 DEF StageInv
  <2>c. PICK f \in Stage :
            /\ Nearest(f, i - 1)
            /\ IF outCopy[i - 1] = "write"
               THEN f = i - 1
               ELSE holding /\ copying = i - 1 /\ f = i - 2
            /\ Writing(f) + Carried(f) >= 1
    BY <1>0, <1>i, <1>13, <2>1, <2>b, Feeder
  <2> SUFFICES ASSUME NEW j \in Stage, NEW s \in Stage,
                      (j \notin Skipped)', Nearest(s, j - 1)'
               PROVE  /\ got'[j] + Writing(s)' + Carried(s)' <= wrote'[s]
                      /\ ~Cancelled' /\ inCopy'[j] # "failed" =>
                             got'[j] + Writing(s)' + Carried(s)' = wrote'[s]
    BY DEF FlowInv
  <2>2. j \notin Skipped /\ Nearest(s, j - 1)
    BY <2>1 DEF Nearest, Skipped
  <2>3. /\ got[j] + Writing(s) + Carried(s) <= wrote[s]
        /\ ~Cancelled /\ inCopy[j] # "failed" =>
               got[j] + Writing(s) + Carried(s) = wrote[s]
    BY <1>0, <2>2 DEF FlowInv
  <2>4. got[j] \in Nat /\ wrote[s] \in Nat
    BY <1>0 DEF TypeOK
  <2>5. got[i] \in Nat
    BY <1>0 DEF TypeOK
\* Only the reader of stage i is fed by f.
  <2>6. s = f <=> j = i
    BY <2>b, <2>c, <2>2 DEF Nearest, Stage
  <2>7. CASE s = f
    <3>1. Writing(s)' + Carried(s)' + 1 = Writing(s) + Carried(s)
      <4>1. CASE outCopy[i - 1] = "write"
        <5>1. i - 1 = s /\ copying # s + 1
          BY <1>0, <2>b, <2>c, <2>7, <4>1 DEF CopyInv, Stage
        <5>2. Writing(s) = 1 /\ Writing(s)' = 0
          BY <1>0, <2>1, <4>1, <5>1 DEF Writing, TypeOK
        <5>3. Carried(s) = 0 /\ Carried(s)' = 0
          BY <2>1, <5>1 DEF Carried
        <5>4. QED
          BY <5>2, <5>3
      <4>2. CASE outCopy[i - 1] # "write"
        <5>1. holding /\ copying = i - 1 /\ copying = s + 1 /\ ~holding'
          <6>1. holding /\ copying = i - 1 /\ s = i - 2
            BY <2>c, <2>7, <4>2
          <6>2. ~holding'
            BY <2>1, <6>1
          <6>3. QED
            BY <6>1, <6>2 DEF Stage
        <5>2. Carried(s) = 1 /\ Carried(s)' = 0
          BY <5>1 DEF Carried
        <5>3. Writing(s)' = Writing(s) /\ Writing(s) \in {0, 1}
          BY <2>1, <4>2 DEF Writing
        <5>4. QED
          BY <5>2, <5>3
      <4>3. QED
        BY <4>1, <4>2
    <3>2. /\ Writing(s) \in {0, 1} /\ Carried(s) \in {0, 1}
          /\ Writing(s)' \in {0, 1} /\ Carried(s)' \in {0, 1}
      BY DEF Writing, Carried
    <3>3. j = i
      BY <2>6, <2>7
    <3>4. CASE got' = [got EXCEPT ![i] = got[i] + 1] /\ inCopy' = inCopy
      <4>1. got'[j] = got[j] + 1
        BY <1>0, <3>3, <3>4 DEF TypeOK
      <4>2. QED
        BY <2>1, <2>3, <2>4, <3>1, <3>2, <3>4, <4>1 DEF Cancelled
    <3>5. CASE got' = got /\ inCopy' = [inCopy EXCEPT ![i] = "failed"]
      <4>1. inCopy'[j] = "failed"
        BY <1>0, <3>3, <3>5 DEF TypeOK
      <4>2. QED
        BY <2>1, <2>3, <2>4, <3>1, <3>2, <3>5, <4>1
    <3>6. QED
      BY <2>a, <3>4, <3>5
  <2>8. CASE s # f
    <3>1. got'[j] = got[j] /\ inCopy'[j] = inCopy[j]
      BY <1>0, <2>a, <2>6, <2>8 DEF TypeOK
    <3>2. Writing(s)' = Writing(s) /\ Carried(s)' = Carried(s)
      <4>1. CASE outCopy[i - 1] = "write"
        <5>1. s # i - 1
          BY <2>c, <2>8, <4>1
        <5>2. Writing(s)' = Writing(s)
          BY <1>0, <2>1, <4>1, <5>1 DEF Writing, TypeOK
        <5>3. ~(holding /\ copying = i - 1)
          <6>1. i - 1 \in Stage /\ i - 1 \notin Skipped
            BY <1>0, <2>c, <4>1 DEF Nearest
          <6>2. QED
            BY <1>0, <6>1 DEF CopyInv
        <5>4. holding' = holding
          BY <2>1, <5>3, <1>0 DEF TypeOK
        <5>5. QED
          BY <2>1, <5>2, <5>4 DEF Carried
      <4>2. CASE outCopy[i - 1] # "write"
        <5>1. copying = i - 1 /\ f = i - 2 /\ outCopy' = outCopy
          BY <2>1, <2>c, <4>2
        <5>2. copying # s + 1
          BY <2>8, <5>1 DEF Stage
        <5>3. QED
          BY <2>1, <5>1, <5>2 DEF Writing, Carried
      <4>3. QED
        BY <4>1, <4>2
    <3>3. QED
      BY <2>1, <2>3, <3>1, <3>2 DEF Cancelled
  <2>9. QED
    BY <2>7, <2>8
<1>14. ASSUME NEW i \in Stage, i > 1, ReadEnds(i) PROVE FlowInv'
  <2>1. /\ inCopy[i] # "failed"
        /\ inCopy' = [inCopy EXCEPT ![i] = "done"]
        /\ UNCHANGED <<setting, got, wrote, outCopy, holding, copying, cancelled, parent>>
    BY <1>14 DEF ReadEnds, collectorVars
  <2>2. \A j \in Stage : inCopy[j] = "failed" => inCopy'[j] = "failed"
    BY <1>0, <2>1 DEF TypeOK
  <2>3. QED
    BY <2>1, <2>2, <1>a DEF Writing, Carried, Cancelled
<1>15. ASSUME NEW i \in Stage, Return(i) PROVE FlowInv'
  BY <1>0, <1>15, <1>a DEF Return, collectorVars, Writing, Carried, Cancelled
<1>16. ASSUME NEW i \in Stage, ReturnCancelled(i) PROVE FlowInv'
  <2>1. /\ Cancelled /\ Cancelled'
        /\ outCopy' = [outCopy EXCEPT ![i] = "done"]
        /\ inCopy' = [inCopy EXCEPT ![i] = IF inCopy[i] = "read" THEN "stray" ELSE inCopy[i]]
        /\ UNCHANGED <<setting, got, wrote, holding, copying>>
    BY <1>16 DEF ReturnCancelled, collectorVars, Cancelled
  <2>2. \A s \in Stage : Writing(s)' <= Writing(s)
    BY <1>0, <2>1 DEF Writing, TypeOK
  <2>3. \A j \in Stage : inCopy[j] = "failed" => inCopy'[j] = "failed"
    BY <1>0, <2>1 DEF TypeOK
  <2>4. QED
    BY <2>1, <2>2, <2>3, <1>a DEF Carried
<1>17. ASSUME NEW reason \in Reason, ParentEnds(reason) PROVE FlowInv'
  BY <1>0, <1>17, <1>a DEF ParentEnds, collectorVars, Writing, Carried, Cancelled
<1>18. CASE UNCHANGED vars
  BY <1>0, <1>18, <1>a DEF vars, collectorVars, Writing, Carried, Cancelled
<1>19. CASE EntrypointFails
  BY <1>0, <1>19, <1>a DEF EntrypointFails, collectorVars, Writing, Carried, Cancelled
<1>20. ASSUME NEW i \in Stage, ReceiveSkipShut(i) PROVE FlowInv'
  BY <1>0, <1>20, <1>a DEF ReceiveSkipShut, collectorVars, Writing, Carried, Cancelled
<1>21. QED
  BY <1>1, <1>2, <1>3, <1>4, <1>5, <1>6, <1>7, <1>8, <1>9,
     <1>10, <1>11, <1>12, <1>13, <1>14, <1>15, <1>16, <1>17, <1>18, <1>19,
     <1>20
     DEF Next, Collector, Machinery, Admitted, CancelParent, ParentExpires, Reason

-----------------------------------------------------------------------------
(* The theorems.                                                           *)

LEMMA Invariance == Spec => []IInv
<1>1. IInv /\ [Next]_vars => IInv'
  BY TypeStep, PoolStep, SpawnStep, StageStep, VerdictStep, PcStep, CopyStep,
     ErrsStep, ClosedStep, FlowStep, SourceStep, ReaderStep DEF IInv
<1>2. QED
  BY InitIInv, <1>1, PTL DEF Spec

(* The state of a pipe keeps its type: the pool is never overdrawn, no     *)
(* reader is handed more chunks than one writes.                           *)
THEOREM TypeCorrect == Spec => []TypeOK
<1>1. IInv => TypeOK
  BY DEF IInv
<1>2. QED
  BY Invariance, <1>1, PTL

(* A pipe that goes on with its chain has lost nothing: each stage that    *)
(* succeeded was handed every chunk that the nearest stage before it which *)
(* is not skipped has written (pipe.go copies for the skipped ones).       *)
THEOREM NothingLost == Spec => []NoDataLost
<1>1. IInv => NoDataLost
  <2> SUFFICES ASSUME IInv, outcome = "next", parent = "none",
                      NEW i \in Stage, verdict[i] = "ok", i > 1
               PROVE  got[i] = IF Source(i) = 0 THEN 0 ELSE wrote[Source(i)]
    BY DEF NoDataLost
  <2>1. ~Cancelled
    BY DEF IInv, PcInv, ErrsInv, Cancelled
  <2>2. Ended(i) /\ i \notin Skipped /\ inCopy[i] = "done"
    BY DEF IInv, VerdictInv
  <2>3. i - 1 \in wclosed
    BY <2>1, <2>2 DEF IInv, ReaderInv
  <2>4. CASE {j \in 1..(i - 1) : j \notin Skipped} = {}
    <3>1. Source(i) = 0
      BY <2>4 DEF Source
    <3>2. got[i] = 0
      BY <2>4 DEF IInv, SourceInv
    <3>3. QED
      BY <3>1, <3>2
  <2>5. CASE {j \in 1..(i - 1) : j \notin Skipped} # {}
    <3> DEFINE s == Source(i)
    <3>1. s \in Stage /\ Nearest(s, i - 1)
      BY <2>5, SourceNearest
    <3> HIDE DEF s
    <3>2. s # 0
      BY <3>1 DEF Stage
    <3>3. got[i] + Writing(s) + Carried(s) = wrote[s]
      BY <2>1, <2>2, <3>1 DEF IInv, FlowInv
    <3>4. Ended(s) /\ (s < i - 1 => ~(holding /\ copying = s + 1))
      BY <2>3, <3>1 DEF IInv, ClosedInv
    <3>5. Writing(s) = 0
      BY <3>1, <3>4 DEF IInv, StageInv, Writing
    <3>6. Carried(s) = 0
      <4>1. s + 1 = i => copying # s + 1
        BY <2>2 DEF IInv, CopyInv, Stage
      <4>2. s <= i - 1 /\ s \in Nat /\ i \in Nat
        BY <3>1 DEF Nearest, Stage
      <4>3. QED
        BY <3>4, <4>1, <4>2 DEF Carried
    <3>7. got[i] \in Nat
      BY DEF IInv, TypeOK
    <3>8. got[i] = wrote[s]
      BY <3>3, <3>5, <3>6, <3>7
    <3>9. QED
      BY <3>2, <3>8 DEF s
  <2>6. QED
    BY <2>4, <2>5
<1>2. QED
  BY Invariance, <1>1, PTL

-----------------------------------------------------------------------------
(* The pipe implements the composite step.                                 *)

\* The end of stage j is known to the caller.
Known(j) == stage[j] = "received" /\ j # copying
Ending(j) == IF verdict[j] = "skipped" THEN "soft" ELSE verdict[j]

LEMMA EndedBar ==
    /\ \A j \in Stage : endedBar["pipe"][j] = IF Known(j) THEN Ending(j) ELSE "none"
    /\ endedBar = [v \in Pipes |-> endedBar["pipe"]]
    /\ endedBar["pipe"] = [j \in Stage |-> endedBar["pipe"][j]]
BY DEF endedBar, Known, Ending, Pipes

LEMMA RefineInit == Init => Composite!CompositeInit
<1> SUFFICES ASSUME Init PROVE Composite!CompositeInit
  OBVIOUS
<1>1. begunBar = [v \in Pipes |-> {}]
  BY DEF Init, begunBar
<1>2. endedBar = [v \in Pipes |-> [i \in Stage |-> "none"]]
  BY DEF Init, endedBar
<1>3. QED
  BY <1>1, <1>2 DEF Init, Composite!CompositeInit

\* A step that begins no stage and makes no end known is not seen.
LEMMA RefineStutter ==
    ASSUME outcome' = outcome,
           \A j \in Stage : stage[j] = "none" <=> stage'[j] = "none",
           \A j \in Stage : Known(j) <=> Known(j)',
           \A j \in Stage : Known(j) => verdict'[j] = verdict[j]
    PROVE  UNCHANGED Composite!compositeVars
<1>1. begunBar' = begunBar
  BY DEF begunBar
<1>2. endedBar' = endedBar
  BY DEF endedBar, Known
<1>3. QED
  BY <1>1, <1>2 DEF Composite!compositeVars

\* The goroutine of a stage is the beginning of a child.
LEMMA RefineSpawn ==
    ASSUME IInv, Spawn
    PROVE  Composite!Begin("pipe", spawned + 1)
<1> USE PipeAssumption
<1>0. TypeOK /\ SpawnInv /\ PcInv /\ CopyInv
  BY DEF IInv
<1>1. spawned + 1 \in Stage /\ stage[spawned + 1] = "none"
  BY <1>0 DEF Spawn, SpawnInv, TypeOK, Stage
<1>2. /\ stage' = [stage EXCEPT ![spawned + 1] = "queued"]
      /\ UNCHANGED <<outcome, copying, verdict>>
  BY DEF Spawn
<1>3. outcome = "running"
  BY <1>0 DEF Spawn, PcInv
<1>4. begunBar' = [begunBar EXCEPT !["pipe"] = begunBar["pipe"] \cup {spawned + 1}]
  <2>1. \A j \in Stage : stage'[j] # "none" <=> stage[j] # "none" \/ j = spawned + 1
    BY <1>0, <1>1, <1>2 DEF TypeOK
  <2>2. {j \in Stage : stage'[j] # "none"} =
            {j \in Stage : stage[j] # "none"} \cup {spawned + 1}
    BY <1>1, <2>1
  <2>3. QED
    BY <2>2 DEF begunBar, Pipes
<1>5. spawned + 1 \notin begunBar["pipe"]
  BY <1>1 DEF begunBar, Pipes
<1>6. \A j \in Stage : stage'[j] = "received" <=> stage[j] = "received"
  BY <1>0, <1>1, <1>2 DEF TypeOK
<1>7. endedBar' = endedBar
  BY <1>2, <1>6 DEF endedBar
<1>8. [v \in Pipes |-> outcome]["pipe"] = "running"
  BY <1>3 DEF Pipes
<1>9. QED
  BY <1>2, <1>4, <1>5, <1>7, <1>8 DEF Composite!Begin

\* The end of one more stage becomes known.  With the last one the pipe may
\* be decided, by the errors that were kept.
LEMMA RefineEnd ==
    ASSUME IInv, IInv', NEW i \in Stage, outcome = "running",
           stage[i] # "none", ~Known(i), Known(i)', verdict' = verdict,
           \A j \in Stage : stage[j] = "none" <=> stage'[j] = "none",
           \A j \in Stage \ {i} : Known(j) <=> Known(j)'
    PROVE  Composite!End("pipe", i)
<1>0. VerdictInv' /\ TypeOK'
  BY DEF IInv
<1>1. Ending(i)' \in Composite!Verdict
  BY <1>0 DEF VerdictInv, Ended, Known, Ending, TypeOK, Soft, Hard, Composite!Verdict
<1>2. begunBar' = begunBar /\ i \in begunBar["pipe"]
  BY DEF begunBar, Pipes
<1>3. endedBar["pipe"][i] = "none"
  BY EndedBar
<1>4. endedBar' = [endedBar EXCEPT !["pipe"][i] = Ending(i)']
  <2>1. \A j \in Stage : endedBar'["pipe"][j] =
                             IF j = i THEN Ending(i)' ELSE endedBar["pipe"][j]
    BY DEF endedBar, Pipes, Known, Ending
  <2>2. endedBar' = [v \in Pipes |-> endedBar'["pipe"]]
        /\ endedBar'["pipe"] = [j \in Stage |-> endedBar'["pipe"][j]]
    BY DEF endedBar, Pipes
  <2>3. endedBar'["pipe"] = [endedBar["pipe"] EXCEPT ![i] = Ending(i)']
    BY <2>1, <2>2, EndedBar
  <2>4. QED
    BY <2>2, <2>3, EndedBar DEF Pipes
<1>5. CASE outcome' = outcome
  BY <1>1, <1>2, <1>3, <1>4, <1>5 DEF Composite!End, Pipes
<1>6. CASE outcome' # outcome
  <2>1. outcome' \in {"failed", "next"} /\ pc' \in {"next", "returned"}
    <3>1. outcome' \in {"running", "next", "failed", "broken"}
          /\ pc' \in {"spawn", "collect", "copy", "next", "returned"}
      BY <1>0 DEF TypeOK
    <3>2. pc' \in {"spawn", "collect", "copy"} => outcome' = "running"
      BY DEF IInv, PcInv
    <3>3. outcome' # "broken"
      <4>1. SpawnInv' /\ stage'[i] # "none"
        BY DEF IInv
      <4>2. i <= spawned' /\ i >= 1 /\ i \in Nat
        BY <4>1, PipeAssumption DEF SpawnInv, Stage
      <4>3. spawned' # 0
        BY <4>2, <1>0 DEF TypeOK
      <4>4. QED
        BY <4>1, <4>3 DEF SpawnInv
    <3>4. QED
      BY <1>6, <3>1, <3>2, <3>3
  <2>2. \A j \in Stage : Known(j)'
    <3>1. \A j \in Stage : stage'[j] = "received"
      BY <2>1 DEF IInv, PcInv
    <3>2. copying' = 0
      BY <2>1 DEF IInv, CopyInv
    <3>3. QED
      BY <3>1, <3>2 DEF Known, Stage
  <2>3. \A j \in Stage : endedBar'["pipe"][j] = Ending(j)' /\ Ending(j)' # "none"
    <3>1. \A j \in Stage : endedBar'["pipe"][j] = Ending(j)'
      BY <2>2 DEF endedBar, Pipes, Known, Ending
    <3>2. \A j \in Stage : Ending(j)' # "none"
      BY <1>0, <2>2 DEF VerdictInv, Ended, Known, Ending
    <3>3. QED
      BY <3>1, <3>2
  <2>4. begunBar["pipe"] = Stage
    <3>1. \A j \in Stage : stage'[j] # "none"
      BY <2>2 DEF Known
    <3>2. QED
      BY <3>1 DEF begunBar, Pipes
  <2>5. CASE outcome' = "failed"
    <3>1. errs' \in Seq(Stage) /\ errs' # <<>>
      BY <1>0, <2>5 DEF IInv, PcInv, TypeOK
    <3>2. ErrsInv'
      BY DEF IInv
    <3>3. PICK j \in Stage : verdict'[j] \in Hard
      BY <3>1, <3>2 DEF ErrsInv
    <3>4. Ending(j)' \in Composite!Aborting
      BY <3>3 DEF Ending, Hard, Composite!Aborting
    <3>5. \E k \in begunBar["pipe"] : endedBar'["pipe"][k] \in Composite!Aborting
      BY <2>3, <2>4, <3>4
    <3>6. Composite!Decide("pipe", "failed")
      BY <2>3, <2>4, <3>5 DEF Composite!Decide
    <3>7. [v \in Pipes |-> outcome]' =
              [[v \in Pipes |-> outcome] EXCEPT !["pipe"] = "failed"]
      BY <2>5 DEF Pipes
    <3>8. QED
      BY <1>1, <1>2, <1>3, <1>4, <3>6, <3>7 DEF Composite!End, Pipes
  <2>6. CASE outcome' = "next"
    <3>1. errs' = <<>>
      BY <2>6 DEF IInv, PcInv
    <3>2. \A j \in Stage : verdict'[j] \notin Hard
      BY <2>2, <3>1 DEF IInv, ErrsInv, Known
    <3>3. \A j \in Stage : endedBar'["pipe"][j] \notin Composite!Aborting
      BY <2>3, <3>2 DEF Ending, Hard, Composite!Aborting
    <3>4. Composite!Decide("pipe", "next")
      BY <2>3, <2>4, <3>3 DEF Composite!Decide
    <3>5. [v \in Pipes |-> outcome]' =
              [[v \in Pipes |-> outcome] EXCEPT !["pipe"] = "next"]
      BY <2>6 DEF Pipes
    <3>6. QED
      BY <1>1, <1>2, <1>3, <1>4, <3>4, <3>5 DEF Composite!End, Pipes
  <2>7. QED
    BY <2>1, <2>5, <2>6
<1>7. QED
  BY <1>5, <1>6

LEMMA RefineStep ==
    IInv /\ IInv' /\ [Next]_vars =>
        [Composite!CompositeNext]_(Composite!compositeVars)
<1> SUFFICES ASSUME IInv, IInv', [Next]_vars
             PROVE  Composite!CompositeNext \/ UNCHANGED Composite!compositeVars
  OBVIOUS
<1>0. TypeOK /\ SpawnInv /\ StageInv /\ VerdictInv /\ PcInv /\ CopyInv
  BY DEF IInv
\* What happens to a stage that is there and not received yet.
<1>a. ASSUME NEW i \in Stage,
             stage[i] \in {"queued", "up"}, stage'[i] \in {"up", "sending"},
             \A j \in Stage : j # i =>
                 stage'[j] = stage[j] /\ verdict'[j] = verdict[j],
             outcome' = outcome, copying' = copying
      PROVE  UNCHANGED Composite!compositeVars
  <2>1. \A j \in Stage : /\ stage[j] = "none" <=> stage'[j] = "none"
                         /\ stage[j] = "received" <=> stage'[j] = "received"
                         /\ stage[j] = "received" => verdict'[j] = verdict[j]
    BY <1>0, <1>a DEF TypeOK
  <2>2. QED
    BY <1>a, <2>1, RefineStutter DEF Known
<1>b. ASSUME UNCHANGED <<stage, verdict, outcome, copying>>
      PROVE  UNCHANGED Composite!compositeVars
  BY <1>b, RefineStutter DEF Known
<1>e. ASSUME NEW i \in Stage, Composite!End("pipe", i) PROVE Composite!CompositeNext
  BY <1>e DEF Composite!CompositeNext, Pipes
<1>1. CASE Spawn
  <2>1. spawned + 1 \in Stage
    BY <1>0, <1>1, PipeAssumption DEF Spawn, SpawnInv, TypeOK, Stage
  <2>2. Composite!Begin("pipe", spawned + 1)
    BY <1>1, RefineSpawn
  <2>3. QED
    BY <2>1, <2>2 DEF Composite!CompositeNext, Pipes
<1>2. ASSUME NEW i \in Stage, Receive(i) PROVE Composite!CompositeNext
  <2>1. /\ pc = "collect"
        /\ stage[i] = "sending"
        /\ stage' = [stage EXCEPT ![i] = "received"]
        /\ UNCHANGED <<copying, verdict>>
    BY <1>2 DEF Receive
  <2>2. copying = 0 /\ outcome = "running"
    BY <1>0, <2>1 DEF CopyInv, PcInv
  <2>3. \A j \in Stage : stage'[j] = IF j = i THEN "received" ELSE stage[j]
    BY <1>0, <2>1 DEF TypeOK
  <2>4. ~Known(i) /\ Known(i)' /\ \A j \in Stage \ {i} : Known(j) <=> Known(j)'
    BY <2>1, <2>2, <2>3 DEF Known, Stage
  <2>5. \A j \in Stage : stage[j] = "none" <=> stage'[j] = "none"
    BY <2>1, <2>3
  <2>6. Composite!End("pipe", i)
    BY <2>1, <2>2, <2>4, <2>5, RefineEnd
  <2>7. QED
    BY <1>e, <2>6
<1>3. ASSUME NEW i \in Stage, ReceiveSkip(i)
      PROVE  Composite!CompositeNext \/ UNCHANGED Composite!compositeVars
  <2>1. /\ pc = "collect"
        /\ stage[i] = "sending"
        /\ stage' = [stage EXCEPT ![i] = "received"]
        /\ verdict' = verdict
    BY <1>3 DEF ReceiveSkip
  <2>2. copying = 0 /\ outcome = "running"
    BY <1>0, <2>1 DEF CopyInv, PcInv
  <2>3. \A j \in Stage : stage'[j] = IF j = i THEN "received" ELSE stage[j]
    BY <1>0, <2>1 DEF TypeOK
  <2>4. \A j \in Stage : stage[j] = "none" <=> stage'[j] = "none"
    BY <2>1, <2>3
  <2>5. CASE i \in 2..(Stages - 1)
    <3>1. copying' = i /\ outcome' = outcome
      BY <1>3, <2>5 DEF ReceiveSkip
    <3>2. \A j \in Stage : Known(j) <=> Known(j)'
      BY <2>1, <2>2, <2>3, <3>1 DEF Known, Stage
    <3>3. QED
      BY <2>1, <2>4, <3>1, <3>2, RefineStutter
  <2>6. CASE i \notin 2..(Stages - 1)
    <3>1. copying' = 0
      BY <1>3, <2>2, <2>6 DEF ReceiveSkip
    <3>2. ~Known(i) /\ Known(i)' /\ \A j \in Stage \ {i} : Known(j) <=> Known(j)'
      BY <2>1, <2>2, <2>3, <3>1 DEF Known, Stage
    <3>3. Composite!End("pipe", i)
      BY <2>1, <2>2, <2>4, <3>2, RefineEnd
    <3>4. QED
      BY <1>e, <3>3
  <2>7. QED
    BY <2>5, <2>6
<1>4. CASE CopyRead
  BY <1>4, <1>b DEF CopyRead
<1>5. ASSUME CopyEnds PROVE Composite!CompositeNext
  <2>1. /\ pc = "copy"
        /\ copying' = 0
        /\ UNCHANGED <<stage, verdict>>
    BY <1>5 DEF CopyEnds
  <2>2. /\ copying \in Stage /\ copying # 0
        /\ stage[copying] = "received"
        /\ outcome = "running"
    BY <1>0, <2>1, PipeAssumption DEF CopyInv, PcInv, Stage
  <2>3. PICK i \in Stage : i = copying
    BY <2>2
  <2>4. ~Known(i) /\ Known(i)' /\ \A j \in Stage \ {i} : Known(j) <=> Known(j)'
    BY <2>1, <2>2, <2>3 DEF Known, Stage
  <2>5. Composite!End("pipe", i)
    BY <2>1, <2>2, <2>3, <2>4, RefineEnd
  <2>6. QED
    BY <1>e, <2>5
<1>6. CASE CallNext
  BY <1>6, <1>b DEF CallNext
<1>7. ASSUME NEW i \in Stage, Skip(i) PROVE UNCHANGED Composite!compositeVars
  <2>1. /\ stage[i] \in {"queued", "up"} /\ stage'[i] \in {"up", "sending"}
        /\ outcome' = outcome /\ copying' = copying
    BY <1>0, <1>7 DEF Skip, collectorVars, TypeOK
  <2>2. \A j \in Stage : j # i => stage'[j] = stage[j] /\ verdict'[j] = verdict[j]
    BY <1>0, <1>7 DEF Skip, TypeOK
  <2>3. QED
    BY <1>a, <2>1, <2>2
<1>8. ASSUME NEW i \in Stage, Start(i) PROVE UNCHANGED Composite!compositeVars
  BY <1>0, <1>8, <1>a DEF Start, collectorVars, TypeOK
<1>9. ASSUME NEW i \in Stage, StartFails(i) PROVE UNCHANGED Composite!compositeVars
  <2>1. /\ stage[i] \in {"queued", "up"} /\ stage'[i] \in {"up", "sending"}
        /\ outcome' = outcome /\ copying' = copying
    BY <1>0, <1>9 DEF StartFails, collectorVars, TypeOK
  <2>2. \A j \in Stage : j # i => stage'[j] = stage[j] /\ verdict'[j] = verdict[j]
    BY <1>0, <1>9 DEF StartFails, TypeOK
  <2>3. QED
    BY <1>a, <2>1, <2>2
<1>10. ASSUME NEW i \in Stage,
              \/ Write(i) \/ OutCopyEnds(i) \/ Read(i) \/ ReadEnds(i)
              \/ \E code \in {"ok", "failed"} : Exit(i, code)
       PROVE  UNCHANGED Composite!compositeVars
  BY <1>10, <1>b DEF Write, OutCopyEnds, Read, ReadEnds, Exit, collectorVars
<1>11. ASSUME NEW i \in Stage, Return(i) PROVE UNCHANGED Composite!compositeVars
  <2>1. /\ stage[i] \in {"queued", "up"} /\ stage'[i] \in {"up", "sending"}
        /\ outcome' = outcome /\ copying' = copying
    BY <1>0, <1>11 DEF Return, collectorVars, TypeOK
  <2>2. \A j \in Stage : j # i => stage'[j] = stage[j] /\ verdict'[j] = verdict[j]
    BY <1>0, <1>11 DEF Return, TypeOK
  <2>3. QED
    BY <1>a, <2>1, <2>2
<1>12. ASSUME NEW i \in Stage, ReturnCancelled(i)
       PROVE  UNCHANGED Composite!compositeVars
  <2>1. /\ stage[i] \in {"queued", "up"} /\ stage'[i] \in {"up", "sending"}
        /\ outcome' = outcome /\ copying' = copying
    BY <1>0, <1>12 DEF ReturnCancelled, collectorVars, TypeOK
  <2>2. \A j \in Stage : j # i => stage'[j] = stage[j] /\ verdict'[j] = verdict[j]
    BY <1>0, <1>12 DEF ReturnCancelled, TypeOK
  <2>3. QED
    BY <1>a, <2>1, <2>2
<1>13. ASSUME NEW reason \in Reason, ParentEnds(reason)
       PROVE  UNCHANGED Composite!compositeVars
  BY <1>13, <1>b DEF ParentEnds, collectorVars
<1>14. CASE UNCHANGED vars
  BY <1>14, <1>b DEF vars, collectorVars
<1>15. ASSUME EntrypointFails PROVE Composite!CompositeNext
  <2>1. outcome = "running" /\ outcome' = "broken" /\ UNCHANGED <<stage, verdict, copying>>
    BY <1>0, <1>15 DEF EntrypointFails, PcInv
  <2>2. UNCHANGED <<begunBar, endedBar>>
    BY <2>1 DEF begunBar, endedBar
  <2>3. 1 \in Stage /\ stage[1] = "none"
    BY <1>0, <1>15, PipeAssumption DEF EntrypointFails, SpawnInv, TypeOK, Stage
  <2>4. begunBar["pipe"] # Stage
    BY <2>3 DEF begunBar, Pipes
  <2>5. /\ [v \in Pipes |-> outcome]["pipe"] = "running"
        /\ [v \in Pipes |-> outcome]' =
               [[v \in Pipes |-> outcome] EXCEPT !["pipe"] = "broken"]
    BY <2>1 DEF Pipes
  <2>6. Composite!Break("pipe")
    BY <2>2, <2>4, <2>5 DEF Composite!Break
  <2>7. QED
    BY <2>6 DEF Composite!CompositeNext, Pipes
<1>16. ASSUME NEW i \in Stage, ReceiveSkipShut(i) PROVE Composite!CompositeNext
  <2>1. /\ pc = "collect"
        /\ stage[i] = "sending"
        /\ stage' = [stage EXCEPT ![i] = "received"]
        /\ UNCHANGED <<copying, verdict>>
    BY <1>16 DEF ReceiveSkipShut
  <2>2. copying = 0 /\ outcome = "running"
    BY <1>0, <2>1 DEF CopyInv, PcInv
  <2>3. \A j \in Stage : stage'[j] = IF j = i THEN "received" ELSE stage[j]
    BY <1>0, <2>1 DEF TypeOK
  <2>4. ~Known(i) /\ Known(i)' /\ \A j \in Stage \ {i} : Known(j) <=> Known(j)'
    BY <2>1, <2>2, <2>3 DEF Known, Stage
  <2>5. \A j \in Stage : stage[j] = "none" <=> stage'[j] = "none"
    BY <2>1, <2>3
  <2>6. Composite!End("pipe", i)
    BY <2>1, <2>2, <2>4, <2>5, RefineEnd
  <2>7. QED
    BY <1>e, <2>6
<1>17. QED
  BY <1>1, <1>2, <1>3, <1>4, <1>5, <1>6, <1>7, <1>8, <1>9, <1>10, <1>11,
     <1>12, <1>13, <1>14, <1>15, <1>16
     DEF Next, Collector, Machinery, Admitted, CancelParent, ParentExpires, Reason

(* The pipe is a composite step: what it tells its caller about the stages *)
(* is decided once, by the last result, and by the errors of its stages.   *)
THEOREM Refinement == Spec => ImplementsComposite
<1>1. QED
  BY RefineInit, RefineStep, Invariance, PTL
     DEF Spec, ImplementsComposite, Composite!CompositeSpec

=============================================================================
