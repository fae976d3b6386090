------------------------- MODULE ProviderStoreProofs -------------------------
(***************************************************************************)
(* Proofs about the local pipeline store, for every number of processes,   *)
(* of goroutines and of references and for every bound.                    *)
(***************************************************************************)
EXTENDS ProviderStore, TLAPS

Saves == {"locked", "truncated", "written", "failed"}
Places == {"new", "resolving", "running", "persist", "locked", "truncated",
           "written", "failed", "ended", "crashed"}
Open(p) == db[p] # NotOpen

(* The inductive invariant, part by part.                                  *)

\* A process that is not done saving holds the lock, and finds the file as
\* it left it.
LockInv ==
    \A p \in Process :
        /\ pc[p] \in Saves <=> lock = p
        /\ pc[p] = "truncated" => file = Empty
        /\ pc[p] = "written" =>
               \A r \in Ref : db[p][r] # 0 => file[r] = db[p][r]

\* The database is open when it is used, and not before the process runs.
OpenInv ==
    \A p \in Process :
        /\ pc[p] = "new" => ~Open(p)
        /\ pc[p] \in Saves => Open(p)
        /\ \A g \in Goroutine : fetch[p][g].step \in {"get", "add"} => Open(p)

\* Nothing is resolved any more when the process saves, and only the main
\* goroutine resolves before the pipeline runs.
FetchInv ==
    \A p \in Process, g \in Goroutine :
        fetch[p][g] # Idle =>
            /\ pc[p] = "running" \/ (pc[p] = "resolving" /\ g = Main)
            /\ fetch[p][g].step \in {"pulled", "add"} => fetch[p][g].got # 0

RegistryInv == \A r \in Ref : registry[r] # 0

\* What a process was last given for a reference is what its database has, or
\* something that it could not decode.
AnswersInv ==
    \A p \in Process, r \in Ref :
        answers[p][r] # {} => Open(p) /\ db[p][r] \in answers[p][r] \cup Unreadable

\* A reference that was answered before is looked for in the database, and
\* found there.
KnownInv ==
    \A p \in Process, g \in Goroutine :
        fetch[p][g] # Idle /\ fetch[p][g].known =>
            /\ answers[p][fetch[p][g].ref] # {}
            /\ kind[p] = "missing" => fetch[p][g].step \in {"local", "get"}

\* A database lacks an entry of the store only if somebody wrote the entry
\* after the database was opened.
MissingInv ==
    \A p \in Process, r \in Ref :
        Open(p) /\ db[p][r] = 0 =>
            torn \/ acked[r] = 0 \/ r \in stale[p] \/ r \in overwritten

IInv == /\ TypeOK /\ LockInv /\ OpenInv /\ FetchInv /\ RegistryInv
        /\ AnswersInv /\ KnownInv /\ MissingInv /\ LossNeedsOverlap

-----------------------------------------------------------------------------
(* Facts about records and databases that every step needs.                *)

LEMMA FetchShape ==
    ASSUME NEW f \in Fetch \cup {Idle}
    PROVE  /\ f = Idle <=> f.step = "idle"
           /\ f # Idle => f \in Fetch
BY DEF Fetch, Idle

LEMMA ContentIsOpen ==
    ASSUME NEW d \in Content, NEW r \in Ref
    PROVE  d # NotOpen
<1>1. r \in DOMAIN d
  BY DEF Content
<1>2. DOMAIN NotOpen = {}
  BY DEF NotOpen
<1>3. QED
  BY <1>1, <1>2

LEMMA InitIInv == Init => IInv
<1> SUFFICES ASSUME Init PROVE IInv
  OBVIOUS
<1> USE StoreAssumption DEF StoreAssumption
<1>1. TypeOK
  <2>1. file \in Content /\ registry \in Content /\ acked \in Content
    <3>1. {0, 1} \subseteq Manifest
      BY DEF Manifest
    <3>2. \A x \in [Ref -> {0, 1}] : x \in Content
      BY <3>1 DEF Content
    <3>3. registry \in [Ref -> {0, 1}] /\ file \in [Ref -> {0, 1}] /\ acked = file
      BY DEF Init
    <3>4. QED
      BY <3>2, <3>3
  <2>2. kind \in [Process -> Kind]
    BY DEF Init
  <2>3. fetch \in [Process -> [Goroutine -> Fetch \cup {Idle}]]
    BY DEF Init
  <2>4. /\ made \in 1 .. MaxManifests /\ lock \in Process \cup {NoProcess}
        /\ resolves \in [Process -> 0 .. MaxResolves]
    BY DEF Init
  <2>8. torn \in BOOLEAN
    BY DEF Init
  <2>5. /\ answers \in [Process -> [Ref -> SUBSET (Manifest \ {0})]]
        /\ stale \in [Process -> SUBSET Ref] /\ overwritten \in SUBSET Ref
    BY DEF Init
  <2>6. /\ pc \in [Process -> {"new", "resolving", "running", "persist", "locked",
                           "truncated", "written", "failed", "ended", "crashed"}]
        /\ db \in [Process -> Content \cup {NotOpen}]
    BY DEF Init
  <2>7. QED
    BY <2>1, <2>2, <2>3, <2>4, <2>5, <2>6, <2>8 DEF TypeOK
<1>2. \A p \in Process, g \in Goroutine : fetch[p][g] = Idle
  BY DEF Init
<1>3. Idle.step = "idle"
  BY DEF Idle
<1>4. LockInv /\ OpenInv
  BY <1>2, <1>3 DEF Init, LockInv, OpenInv, Open, Saves
<1>5. FetchInv /\ KnownInv
  BY <1>2 DEF FetchInv, KnownInv
<1>6. RegistryInv /\ AnswersInv /\ MissingInv /\ LossNeedsOverlap
  BY DEF Init, RegistryInv, AnswersInv, MissingInv, LossNeedsOverlap, Open
<1>7. QED
  BY <1>1, <1>4, <1>5, <1>6 DEF IInv

-----------------------------------------------------------------------------
(* What a step of a call does to the calls and to the answers.             *)

LEMMA ExitTypes ==
    ASSUME TypeOK, NEW p \in Process, NEW how \in {"ended", "crashed"}, Exit(p, how)
    PROVE  /\ pc' = [pc EXCEPT ![p] = how]
           /\ db' \in [Process -> Content \cup {NotOpen}]
           /\ fetch' \in [Process -> [Goroutine -> Fetch \cup {Idle}]]
           /\ answers' \in [Process -> [Ref -> SUBSET (Manifest \ {0})]]
           /\ stale' \in [Process -> SUBSET Ref]
BY DEF Exit, TypeOK

LEMMA NextProviderTypes ==
    ASSUME TypeOK, NEW p \in Process, NEW g \in Goroutine,
           fetch[p][g] \in Fetch, NEW s \in {"local", "get", "oci", "pulled", "add"}
    PROVE  [fetch EXCEPT ![p][g].step = s]
               \in [Process -> [Goroutine -> Fetch \cup {Idle}]]
<1>1. [fetch[p][g] EXCEPT !.step = s] \in Fetch
  BY DEF Fetch
<1>2. QED
  BY <1>1 DEF TypeOK

LEMMA AnswerTypes ==
    ASSUME TypeOK, NEW p \in Process, NEW g \in Goroutine,
           fetch[p][g] \in Fetch, NEW m \in Manifest \ {0}, Answer(p, g, m)
    PROVE  /\ fetch' \in [Process -> [Goroutine -> Fetch \cup {Idle}]]
           /\ answers' \in [Process -> [Ref -> SUBSET (Manifest \ {0})]]
           /\ pc' \in [Process -> Places]
<1>1. fetch[p][g].ref \in Ref
  BY DEF Fetch
<1>2. pc' \in [Process -> Places] /\ fetch' \in [Process -> [Goroutine -> Fetch \cup {Idle}]]
  BY DEF Answer, TypeOK, Places
<1>3. answers' \in [Process -> [Ref -> SUBSET (Manifest \ {0})]]
  BY <1>1 DEF Answer, TypeOK
<1>4. QED
  BY <1>2, <1>3

LEMMA FailTypes ==
    ASSUME TypeOK, NEW p \in Process, NEW g \in Goroutine, Fail(p, g)
    PROVE  /\ fetch' \in [Process -> [Goroutine -> Fetch \cup {Idle}]]
           /\ pc' \in [Process -> Places]
           /\ answers' = answers
BY DEF Fail, TypeOK, Places

LEMMA DecodeTypes ==
    ASSUME TypeOK, NEW p \in Process, NEW g \in Goroutine,
           fetch[p][g] \in Fetch, NEW m \in Manifest \ {0}, Decode(p, g, m)
    PROVE  /\ fetch' \in [Process -> [Goroutine -> Fetch \cup {Idle}]]
           /\ answers' \in [Process -> [Ref -> SUBSET (Manifest \ {0})]]
           /\ pc' \in [Process -> Places]
<1>1. CASE Answer(p, g, m)
  BY <1>1, AnswerTypes
<1>2. CASE Fail(p, g)
  BY <1>2, FailTypes DEF TypeOK
<1>3. QED
  BY <1>1, <1>2 DEF Decode

(* One step, part by part.                                                 *)

LEMMA TypeStep == IInv /\ [Next]_vars => TypeOK'
<1> SUFFICES ASSUME IInv, [Next]_vars PROVE TypeOK'
  OBVIOUS
<1> USE StoreAssumption DEF StoreAssumption
<1>0. TypeOK
  BY DEF IInv
<1>1. ASSUME NEW p \in Process, Tag(p) PROVE TypeOK'
  <2>1. made' \in 1 .. MaxManifests /\ made' \in Manifest
    BY <1>0, <1>1 DEF Tag, TypeOK, Manifest
  <2>2. db' \in [Process -> Content \cup {NotOpen}]
    BY <1>0, <1>1, <2>1 DEF Tag, TypeOK, Content
  <2>3. stale' \in [Process -> SUBSET Ref]
    BY <1>0, <1>1 DEF Tag, MarkOpened, TypeOK
  <2>4. QED
    BY <1>0, <1>1, <2>1, <2>2, <2>3 DEF Tag, TypeOK, storeVars
<1>2. ASSUME NEW r \in Ref, Push(r) PROVE TypeOK'
  <2>1. made' \in 1 .. MaxManifests /\ made' \in Manifest
    BY <1>0, <1>2 DEF Push, TypeOK, Manifest
  <2>2. registry' \in Content
    BY <1>0, <1>2, <2>1 DEF Push, TypeOK, Content
  <2>3. QED
    BY <1>0, <1>2, <2>1, <2>2 DEF Push, TypeOK, storeVars, procVars, history
<1>3. ASSUME NEW p \in Process, NEW g \in Goroutine, Resolve(p, g) PROVE TypeOK'
  <2>1. PICK r \in Ref :
            fetch' = [fetch EXCEPT ![p][g] =
                      [step |-> IF LocalFirst(kind[p]) THEN "local" ELSE "oci",
                       ref |-> r, got |-> 0, known |-> answers[p][r] # {}]]
    BY <1>3 DEF Resolve
  <2>2. [step |-> IF LocalFirst(kind[p]) THEN "local" ELSE "oci",
         ref |-> r, got |-> 0, known |-> answers[p][r] # {}] \in Fetch
    BY DEF Fetch, Manifest
  <2>3. fetch' \in [Process -> [Goroutine -> Fetch \cup {Idle}]]
    BY <1>0, <2>1, <2>2 DEF TypeOK
  <2>4. resolves' \in [Process -> 0 .. MaxResolves]
    BY <1>0, <1>3 DEF Resolve, TypeOK
  <2>5. QED
    BY <1>0, <1>3, <2>3, <2>4 DEF Resolve, TypeOK, storeVars, history
<1>4. ASSUME NEW p \in Process, ResolveFile(p) PROVE TypeOK'
  BY <1>0, <1>4 DEF ResolveFile, TypeOK, storeVars, history
<1>5. ASSUME NEW p \in Process, NEW g \in Goroutine, OpenDB(p, g) PROVE TypeOK'
  <2>1. db' \in [Process -> Content \cup {NotOpen}]
    BY <1>0, <1>5 DEF OpenDB, Opened, TypeOK
  <2>2. stale' \in [Process -> SUBSET Ref]
    BY <1>0, <1>5 DEF OpenDB, MarkOpened, TypeOK
  <2>3. fetch[p][g] \in Fetch
    BY <1>0, <1>5, FetchShape DEF OpenDB, TypeOK
  <2>4. fetch' \in [Process -> [Goroutine -> Fetch \cup {Idle}]]
    <3>1. [fetch[p][g] EXCEPT !.step = IF @ = "local" THEN "get" ELSE "add"] \in Fetch
      BY <2>3 DEF Fetch
    <3>2. QED
      BY <1>0, <1>5, <3>1 DEF OpenDB, TypeOK
  <2>5. QED
    BY <1>0, <1>5, <2>1, <2>2, <2>4 DEF OpenDB, TypeOK, storeVars
<1>6. ASSUME NEW p \in Process, NEW g \in Goroutine, Get(p, g) PROVE TypeOK'
  <2>1. fetch[p][g] \in Fetch /\ fetch[p][g].ref \in Ref
    BY <1>0, <1>6, FetchShape DEF Get, TypeOK, Fetch
  <2>2. db[p] \in Content
    BY <1>0, <1>6 DEF Get, IInv, OpenInv, Open, TypeOK
  <2>3. db[p][fetch[p][g].ref] \in Manifest
    BY <2>1, <2>2 DEF Content
  <2>4. /\ fetch' \in [Process -> [Goroutine -> Fetch \cup {Idle}]]
        /\ answers' \in [Process -> [Ref -> SUBSET (Manifest \ {0})]]
        /\ pc' \in [Process -> Places]
    <3> DEFINE m == db[p][fetch[p][g].ref]
    <3>1. CASE m # 0 /\ Decode(p, g, m)
      BY <1>0, <2>1, <2>3, <3>1, DecodeTypes
    <3>2. CASE NextProvider(p, g, "oci")
      BY <1>0, <2>1, <3>2, NextProviderTypes DEF NextProvider, TypeOK, Places
    <3>3. CASE Fail(p, g)
      BY <1>0, <3>3, FailTypes DEF TypeOK
    <3>4. QED
      BY <1>6, <3>1, <3>2, <3>3 DEF Get
  <2>5. QED
    BY <1>0, <1>6, <2>4 DEF Get, TypeOK, storeVars, Places
<1>7. ASSUME NEW p \in Process, NEW g \in Goroutine, Pull(p, g) PROVE TypeOK'
  <2>1. fetch[p][g] \in Fetch
    BY <1>0, <1>7, FetchShape DEF Pull, TypeOK
  <2>2. [fetch[p][g] EXCEPT !.step = "pulled", !.got = registry[fetch[p][g].ref]] \in Fetch
    BY <1>0, <2>1 DEF Fetch, TypeOK, Content
  <2>3. fetch' \in [Process -> [Goroutine -> Fetch \cup {Idle}]]
    <3>1. fetch' = [fetch EXCEPT ![p][g] =
                       [fetch[p][g] EXCEPT !.step = "pulled",
                                           !.got = registry[fetch[p][g].ref]]]
      BY <1>0, <1>7 DEF Pull, TypeOK
    <3>2. QED
      BY <1>0, <2>2, <3>1 DEF TypeOK
  <2>4. QED
    BY <1>0, <1>7, <2>3 DEF Pull, TypeOK, storeVars, history
<1>8. ASSUME NEW p \in Process, NEW g \in Goroutine, PullFails(p, g) PROVE TypeOK'
  <2>1. fetch[p][g] \in Fetch
    BY <1>0, <1>8, FetchShape DEF PullFails, TypeOK
  <2>2. /\ fetch' \in [Process -> [Goroutine -> Fetch \cup {Idle}]]
        /\ answers' = answers
        /\ pc' \in [Process -> Places]
    <3>1. CASE NextProvider(p, g, "local")
      BY <1>0, <2>1, <3>1, NextProviderTypes DEF NextProvider, TypeOK, Places
    <3>2. CASE Fail(p, g)
      BY <1>0, <3>2, FailTypes
    <3>3. QED
      BY <1>8, <3>1, <3>2 DEF PullFails
  <2>3. QED
    BY <1>0, <1>8, <2>2 DEF PullFails, TypeOK, storeVars, Places
<1>9. ASSUME NEW p \in Process, NEW g \in Goroutine, Add(p, g) PROVE TypeOK'
  <2>1. fetch[p][g] \in Fetch /\ fetch[p][g].ref \in Ref
    BY <1>0, <1>9, FetchShape DEF Add, TypeOK, Fetch
  <2>2. db[p] \in Content
    BY <1>0, <1>9 DEF Add, IInv, OpenInv, Open, TypeOK
  <2>3. fetch[p][g].got \in Manifest \ {0}
    BY <1>9, <2>1, FetchShape DEF Add, IInv, FetchInv, Fetch
  <2>4. db' \in [Process -> Content \cup {NotOpen}]
    BY <1>0, <1>9, <2>1, <2>2, <2>3 DEF Add, TypeOK, Content
  <2>5. QED
    BY <1>0, <1>9, <2>1, <2>3, <2>4, DecodeTypes DEF Add, TypeOK, storeVars, Places
<1>10. ASSUME NEW p \in Process, EndRun(p) PROVE TypeOK'
  BY <1>0, <1>10 DEF EndRun, TypeOK, storeVars, history
<1>11. ASSUME NEW p \in Process, Persist(p) PROVE TypeOK'
  <2>1. CASE db[p] # NotOpen /\ CanLock
    BY <1>0, <1>11, <2>1 DEF Persist, TypeOK
  <2>2. CASE ~(db[p] # NotOpen /\ CanLock)
    BY <1>0, <1>11, <2>2, ExitTypes DEF Persist, TypeOK
  <2>3. QED
    BY <2>1, <2>2
<1>12. ASSUME NEW p \in Process, Truncate(p) PROVE TypeOK'
  BY <1>0, <1>12 DEF Truncate, TypeOK, Content, Manifest, Empty, history
<1>13. ASSUME NEW p \in Process, WriteBack(p) PROVE TypeOK'
  <2>1. db[p] \in Content
    BY <1>0, <1>13 DEF WriteBack, IInv, OpenInv, Open, Saves, TypeOK
  <2>2. file' \in Content /\ acked' \in Content
    BY <1>0, <1>13, <2>1 DEF WriteBack, Merge, TypeOK, Content
  <2>3. stale' \in [Process -> SUBSET Ref] /\ overwritten' \in SUBSET Ref
    BY <1>0, <1>13 DEF WriteBack, TypeOK
  <2>4. QED
    BY <1>0, <1>13, <2>2, <2>3 DEF WriteBack, TypeOK
<1>14. ASSUME NEW p \in Process, WriteFails(p) PROVE TypeOK'
  BY <1>0, <1>14 DEF WriteFails, TypeOK, storeVars
<1>15. ASSUME NEW p \in Process, Unlock(p) PROVE TypeOK'
  BY <1>0, <1>15, ExitTypes DEF Unlock, TypeOK
<1>16. ASSUME NEW p \in Process, Crash(p) PROVE TypeOK'
  <2>1. torn' \in BOOLEAN
    BY <1>16 DEF Crash
  <2>2. QED
    BY <1>0, <1>16, <2>1, ExitTypes DEF Crash, TypeOK
<1>17. CASE UNCHANGED vars
  BY <1>0, <1>17 DEF vars, storeVars, procVars, history, TypeOK
<1>18. QED
  BY <1>1, <1>2, <1>3, <1>4, <1>5, <1>6, <1>7, <1>8, <1>9, <1>10, <1>11, <1>12,
     <1>13, <1>14, <1>15, <1>16, <1>17 DEF Next, Saving, Resolving

\* The ends of a call, and what they leave alone.
LEMMA AnswerSteps ==
    ASSUME TypeOK, NEW p \in Process, NEW g \in Goroutine, NEW m, Answer(p, g, m)
    PROVE  /\ pc'[p] \in {pc[p], "persist", "running"}
           /\ pc[p] # "resolving" => pc'[p] = pc[p]
           /\ fetch'[p][g] = Idle
           /\ \A h \in Goroutine \ {g} : fetch'[p][h] = fetch[p][h]
           /\ \A q \in Process \ {p} :
                  pc'[q] = pc[q] /\ fetch'[q] = fetch[q] /\ answers'[q] = answers[q]
           /\ \A r \in Ref :
                  answers'[p][r] = IF r = fetch[p][g].ref THEN answers[p][r] \cup {m}
                                                          ELSE answers[p][r]
<1>1. pc' = [pc EXCEPT ![p] = IF pc[p] # "resolving" THEN pc[p]
                              ELSE IF kind[p] = "help" THEN "persist" ELSE "running"]
  BY DEF Answer, TypeOK
<1>2. /\ fetch'[p][g] = Idle
      /\ \A h \in Goroutine \ {g} : fetch'[p][h] = fetch[p][h]
      /\ \A q \in Process \ {p} : fetch'[q] = fetch[q]
  BY DEF Answer, TypeOK
<1>3. /\ \A q \in Process \ {p} : answers'[q] = answers[q]
      /\ \A r \in Ref :
             answers'[p][r] = IF r = fetch[p][g].ref THEN answers[p][r] \cup {m}
                                                     ELSE answers[p][r]
  BY DEF Answer, TypeOK
<1>4. /\ pc'[p] \in {pc[p], "persist", "running"}
      /\ pc[p] # "resolving" => pc'[p] = pc[p]
      /\ \A q \in Process \ {p} : pc'[q] = pc[q]
  BY <1>1 DEF TypeOK
<1>5. QED
  BY <1>2, <1>3, <1>4

LEMMA FailSteps ==
    ASSUME TypeOK, NEW p \in Process, NEW g \in Goroutine, Fail(p, g)
    PROVE  /\ pc'[p] \in {pc[p], "persist", "ended"}
           /\ pc[p] # "resolving" => pc'[p] = pc[p]
           /\ fetch'[p][g] = Idle
           /\ \A h \in Goroutine \ {g} : fetch'[p][h] = fetch[p][h]
           /\ \A q \in Process \ {p} : pc'[q] = pc[q] /\ fetch'[q] = fetch[q]
           /\ answers' = answers
<1>1. pc' = [pc EXCEPT ![p] = IF pc[p] # "resolving" THEN pc[p]
                              ELSE IF kind[p] = "help" THEN "ended" ELSE "persist"]
  BY DEF Fail, TypeOK
<1>2. /\ fetch'[p][g] = Idle
      /\ \A h \in Goroutine \ {g} : fetch'[p][h] = fetch[p][h]
      /\ \A q \in Process \ {p} : fetch'[q] = fetch[q]
  BY DEF Fail, TypeOK
<1>3. /\ pc'[p] \in {pc[p], "persist", "ended"}
      /\ pc[p] # "resolving" => pc'[p] = pc[p]
      /\ \A q \in Process \ {p} : pc'[q] = pc[q]
  BY <1>1 DEF TypeOK
<1>4. QED
  BY <1>2, <1>3 DEF Fail

LEMMA NextProviderSteps ==
    ASSUME TypeOK, NEW p \in Process, NEW g \in Goroutine, fetch[p][g] \in Fetch,
           NEW s \in {"local", "get", "oci", "pulled", "add"}, NextProvider(p, g, s)
    PROVE  /\ fetch'[p][g].step = s
           /\ fetch'[p][g].ref = fetch[p][g].ref
           /\ fetch'[p][g].got = fetch[p][g].got
           /\ fetch'[p][g].known = fetch[p][g].known
           /\ \A h \in Goroutine \ {g} : fetch'[p][h] = fetch[p][h]
           /\ \A q \in Process \ {p} : fetch'[q] = fetch[q]
           /\ UNCHANGED <<pc, answers>>
<1>1. fetch'[p][g] = [fetch[p][g] EXCEPT !.step = s]
  BY DEF NextProvider, TypeOK
<1>2. /\ fetch'[p][g].step = s
      /\ fetch'[p][g].ref = fetch[p][g].ref
      /\ fetch'[p][g].got = fetch[p][g].got
      /\ fetch'[p][g].known = fetch[p][g].known
  BY <1>1 DEF Fetch
<1>3. QED
  BY <1>2 DEF NextProvider, TypeOK

\* What a call of one process does to the places and databases of all.
LEMMA CallSteps ==
    ASSUME IInv, NEW p \in Process, NEW g \in Goroutine, Resolving(p, g)
    PROVE  /\ fetch[p][g] \in Fetch
           /\ pc[p] = "running" \/ (pc[p] = "resolving" /\ g = Main)
           /\ pc'[p] \in {pc[p], "running", "persist", "ended"}
           /\ pc[p] = "running" => pc'[p] = "running"
           /\ UNCHANGED <<storeVars, kind, acked, overwritten, torn, registry>>
           /\ \A q \in Process \ {p} :
                  /\ pc'[q] = pc[q]
                  /\ db'[q] = db[q]
                  /\ fetch'[q] = fetch[q]
                  /\ answers'[q] = answers[q]
                  /\ stale'[q] = stale[q]
           /\ \A h \in Goroutine \ {g} : fetch'[p][h] = fetch[p][h]
<1> DEFINE Effect ==
           /\ fetch[p][g] \in Fetch
           /\ pc[p] = "running" \/ (pc[p] = "resolving" /\ g = Main)
           /\ pc'[p] \in {pc[p], "running", "persist", "ended"}
           /\ pc[p] = "running" => pc'[p] = "running"
           /\ UNCHANGED <<storeVars, kind, acked, overwritten, torn, registry>>
           /\ \A q \in Process \ {p} :
                  /\ pc'[q] = pc[q]
                  /\ db'[q] = db[q]
                  /\ fetch'[q] = fetch[q]
                  /\ answers'[q] = answers[q]
                  /\ stale'[q] = stale[q]
           /\ \A h \in Goroutine \ {g} : fetch'[p][h] = fetch[p][h]
<1>0. TypeOK
  BY DEF IInv
<1>1. fetch[p][g] \in Fetch /\ fetch[p][g] # Idle
  BY <1>0, FetchShape
     DEF Resolving, OpenDB, Get, Pull, PullFails, Add, TypeOK
<1>2. pc[p] = "running" \/ (pc[p] = "resolving" /\ g = Main)
  BY <1>1 DEF IInv, FetchInv
<1>3. CASE OpenDB(p, g)
  BY <1>0, <1>1, <1>2, <1>3 DEF OpenDB, MarkOpened, TypeOK
<1>4. CASE Get(p, g)
  <2>1. CASE Answer(p, g, db[p][fetch[p][g].ref])
    BY <1>0, <1>1, <1>2, <1>4, <2>1, AnswerSteps DEF Get
  <2>2. CASE NextProvider(p, g, "oci")
    BY <1>0, <1>1, <1>2, <1>4, <2>2, NextProviderSteps DEF Get
  <2>3. CASE Fail(p, g)
    BY <1>0, <1>1, <1>2, <1>4, <2>3, FailSteps DEF Get
  <2>4. QED
    BY <1>4, <2>1, <2>2, <2>3 DEF Get, Decode
<1>5. CASE Pull(p, g)
  BY <1>0, <1>1, <1>2, <1>5 DEF Pull, TypeOK, history
<1>6. CASE PullFails(p, g)
  <2>1. CASE NextProvider(p, g, "local")
    BY <1>0, <1>1, <1>2, <1>6, <2>1, NextProviderSteps DEF PullFails
  <2>2. CASE Fail(p, g)
    BY <1>0, <1>1, <1>2, <1>6, <2>2, FailSteps DEF PullFails
  <2>3. QED
    BY <1>6, <2>1, <2>2 DEF PullFails
<1>7. CASE Add(p, g)
  <2>1. CASE Answer(p, g, fetch[p][g].got)
    BY <1>0, <1>1, <1>2, <1>7, <2>1, AnswerSteps DEF Add, TypeOK
  <2>2. CASE Fail(p, g)
    BY <1>0, <1>1, <1>2, <1>7, <2>2, FailSteps DEF Add, TypeOK
  <2>3. QED
    BY <1>7, <2>1, <2>2 DEF Add, Decode
<1>8. QED
  BY <1>3, <1>4, <1>5, <1>6, <1>7 DEF Resolving

\* A process that ends leaves the others alone.
LEMMA ExitSteps ==
    ASSUME TypeOK, NEW p \in Process, NEW how \in {"ended", "crashed"}, Exit(p, how)
    PROVE  /\ pc'[p] = how /\ ~Open(p)' /\ stale'[p] = {}
           /\ \A g \in Goroutine : fetch'[p][g] = Idle
           /\ \A r \in Ref : answers'[p][r] = {}
           /\ \A q \in Process \ {p} :
                  /\ pc'[q] = pc[q]
                  /\ db'[q] = db[q]
                  /\ fetch'[q] = fetch[q]
                  /\ answers'[q] = answers[q]
                  /\ stale'[q] = stale[q]
BY DEF Exit, TypeOK, Open

\* A step of a process that does not save.
LEMMA LockKept ==
    ASSUME TypeOK, LockInv, NEW p \in Process, UNCHANGED storeVars,
           pc[p] \notin Saves, pc'[p] \notin Saves,
           \A q \in Process \ {p} : pc'[q] = pc[q] /\ db'[q] = db[q]
    PROVE  LockInv'
BY DEF LockInv, Saves, storeVars

LEMMA LockStep == IInv /\ [Next]_vars => LockInv'
<1> SUFFICES ASSUME IInv, [Next]_vars PROVE LockInv'
  OBVIOUS
<1> USE StoreAssumption DEF StoreAssumption
<1>0. TypeOK /\ LockInv
  BY DEF IInv
<1>1. ASSUME NEW p \in Process, Tag(p) \/ ResolveFile(p) \/ EndRun(p) PROVE LockInv'
  BY <1>0, <1>1, LockKept DEF Tag, ResolveFile, EndRun, TypeOK, Saves
<1>2. ASSUME NEW r \in Ref, Push(r) PROVE LockInv'
  BY <1>0, <1>2 DEF Push, storeVars, procVars, LockInv
<1>3. ASSUME NEW p \in Process, NEW g \in Goroutine, Resolve(p, g) PROVE LockInv'
  BY <1>0, <1>3, LockKept DEF Resolve, TypeOK, Saves
<1>4. ASSUME NEW p \in Process, NEW g \in Goroutine, Resolving(p, g) PROVE LockInv'
  BY <1>0, <1>4, CallSteps, LockKept DEF Saves
<1>5. ASSUME NEW p \in Process, Persist(p) PROVE LockInv'
  <2>1. CASE db[p] # NotOpen /\ CanLock
    <3>1. /\ pc[p] = "persist" /\ lock = NoProcess /\ lock' = p
          /\ pc' = [pc EXCEPT ![p] = "locked"] /\ UNCHANGED <<file, db>>
      BY <1>5, <2>1 DEF Persist, CanLock
    <3>2. \A q \in Process : pc[q] \notin Saves
      BY <1>0, <3>1 DEF LockInv
    <3>3. QED
      BY <1>0, <3>1, <3>2 DEF LockInv, Saves, TypeOK
  <2>2. CASE ~(db[p] # NotOpen /\ CanLock)
    <3>1. Exit(p, "ended") /\ UNCHANGED storeVars /\ pc[p] \notin Saves
      BY <1>5, <2>2 DEF Persist, Saves, storeVars
    <3>2. QED
      BY <1>0, <3>1, ExitSteps, LockKept DEF Saves
  <2>3. QED
    BY <2>1, <2>2
<1>6. ASSUME NEW p \in Process, Truncate(p) PROVE LockInv'
  BY <1>0, <1>6 DEF Truncate, LockInv, Saves, TypeOK
<1>7. ASSUME NEW p \in Process, WriteBack(p) PROVE LockInv'
  <2>1. lock = p /\ file = Empty /\ file' = Merge(Empty, db[p]) /\ UNCHANGED <<lock, db>>
    BY <1>0, <1>7 DEF WriteBack, LockInv, Saves
  <2>2. \A r \in Ref : db[p][r] # 0 => file'[r] = db[p][r]
    BY <2>1 DEF Merge
  <2>3. pc' = [pc EXCEPT ![p] = "written"]
    BY <1>7 DEF WriteBack
  <2>4. QED
    BY <1>0, <2>1, <2>2, <2>3 DEF LockInv, Saves, TypeOK
<1>8. ASSUME NEW p \in Process, WriteFails(p) PROVE LockInv'
  BY <1>0, <1>8 DEF WriteFails, LockInv, Saves, TypeOK, storeVars
<1>9. ASSUME NEW p \in Process, Unlock(p) PROVE LockInv'
  BY <1>0, <1>9, ExitSteps DEF Unlock, LockInv, Saves, TypeOK
<1>10. ASSUME NEW p \in Process, Crash(p) PROVE LockInv'
  BY <1>0, <1>10, ExitSteps DEF Crash, LockInv, Saves, TypeOK
<1>11. CASE UNCHANGED vars
  BY <1>0, <1>11 DEF vars, storeVars, procVars, LockInv
<1>12. QED
  BY <1>1, <1>2, <1>3, <1>4, <1>5, <1>6, <1>7, <1>8, <1>9, <1>10, <1>11
     DEF Next, Saving

\* The two that touch the databases or the calls of one process.
LEMMA ResolveSteps ==
    ASSUME TypeOK, NEW p \in Process, NEW g \in Goroutine, Resolve(p, g)
    PROVE  /\ pc[p] \in {"new", "running"} /\ (pc[p] = "new" => g = Main)
           /\ pc' = [pc EXCEPT ![p] = IF @ = "new" THEN "resolving" ELSE @]
           /\ \E r \in Ref :
                  fetch'[p][g] = [step |-> IF LocalFirst(kind[p]) THEN "local" ELSE "oci",
                                  ref |-> r, got |-> 0, known |-> answers[p][r] # {}]
           /\ \A h \in Goroutine \ {g} : fetch'[p][h] = fetch[p][h]
           /\ \A q \in Process \ {p} : fetch'[q] = fetch[q]
           /\ UNCHANGED <<storeVars, kind, db, registry, history>>
<1>1. PICK r \in Ref :
          fetch' = [fetch EXCEPT ![p][g] =
                      [step |-> IF LocalFirst(kind[p]) THEN "local" ELSE "oci",
                       ref |-> r, got |-> 0, known |-> answers[p][r] # {}]]
  BY DEF Resolve
<1>2. /\ fetch'[p][g] = [step |-> IF LocalFirst(kind[p]) THEN "local" ELSE "oci",
                         ref |-> r, got |-> 0, known |-> answers[p][r] # {}]
      /\ \A h \in Goroutine \ {g} : fetch'[p][h] = fetch[p][h]
      /\ \A q \in Process \ {p} : fetch'[q] = fetch[q]
  BY <1>1 DEF TypeOK
<1>3. QED
  BY <1>2 DEF Resolve

LEMMA OpenStep == IInv /\ [Next]_vars => OpenInv'
<1> SUFFICES ASSUME IInv, [Next]_vars PROVE OpenInv'
  OBVIOUS
<1>0. TypeOK /\ OpenInv
  BY DEF IInv
<1>1. ASSUME NEW p \in Process, Tag(p) PROVE OpenInv'
  <2>1. \A q \in Process \ {p} : db'[q] = db[q] /\ pc'[q] = pc[q]
    BY <1>0, <1>1 DEF Tag, TypeOK
  <2>2. fetch' = fetch /\ pc'[p] = "persist"
    BY <1>0, <1>1 DEF Tag, TypeOK
  <2>3. \A g \in Goroutine : fetch[p][g].step \notin {"get", "add"}
    BY <1>0, <1>1 DEF Tag, OpenInv
  <2>4. QED
    BY <1>0, <2>1, <2>2, <2>3 DEF OpenInv, Open, Saves
<1>2. ASSUME NEW r \in Ref, Push(r) PROVE OpenInv'
  BY <1>0, <1>2 DEF Push, procVars, OpenInv, Open
<1>3. ASSUME NEW p \in Process, NEW g \in Goroutine, Resolve(p, g) PROVE OpenInv'
  <2>1. fetch'[p][g].step \in {"local", "oci"}
    <3>1. PICK r \in Ref :
              fetch'[p][g] = [step |-> IF LocalFirst(kind[p]) THEN "local" ELSE "oci",
                              ref |-> r, got |-> 0, known |-> answers[p][r] # {}]
      BY <1>0, <1>3, ResolveSteps
    <3>2. QED
      BY <3>1
  <2>2. \A q \in Process, h \in Goroutine : q # p \/ h # g => fetch'[q][h] = fetch[q][h]
    BY <1>0, <1>3, ResolveSteps
  <2>3. db' = db /\ \A q \in Process : pc'[q] = pc[q] \/ pc'[q] = "resolving"
    BY <1>0, <1>3, ResolveSteps DEF TypeOK
  <2>4. QED
    BY <1>0, <2>1, <2>2, <2>3 DEF OpenInv, Open, Saves
<1>4. ASSUME NEW p \in Process, ResolveFile(p) \/ EndRun(p) PROVE OpenInv'
  BY <1>0, <1>4 DEF ResolveFile, EndRun, TypeOK, OpenInv, Open, Saves
<1>5. ASSUME NEW p \in Process, NEW g \in Goroutine, Resolving(p, g) PROVE OpenInv'
  <2>1. /\ fetch[p][g] \in Fetch
        /\ pc'[p] \notin Saves \cup {"new"}
        /\ \A q \in Process \ {p} : pc'[q] = pc[q] /\ db'[q] = db[q] /\ fetch'[q] = fetch[q]
        /\ \A h \in Goroutine \ {g} : fetch'[p][h] = fetch[p][h]
    BY <1>5, CallSteps DEF Saves
  <2>2. /\ fetch'[p][g].step \in {"get", "add"} => Open(p)'
        /\ Open(p) => Open(p)'
    <3>1. CASE OpenDB(p, g)
      <4>1. fetch[p][g].ref \in Ref /\ file \in Content
        BY <1>0, <2>1 DEF Fetch, TypeOK
      <4>2. file # NotOpen
        BY <4>1, ContentIsOpen
      <4>3. QED
        BY <1>0, <3>1, <4>2 DEF OpenDB, Opened, Open, TypeOK
    <3>2. CASE Get(p, g)
      <4>1. db' = db
        BY <3>2 DEF Get
      <4>2. fetch'[p][g].step \in {"idle", "oci"}
        <5>1. CASE Answer(p, g, db[p][fetch[p][g].ref])
          BY <1>0, <5>1, AnswerSteps DEF Idle
        <5>2. CASE NextProvider(p, g, "oci")
          BY <1>0, <2>1, <5>2, NextProviderSteps DEF Fetch
        <5>3. CASE Fail(p, g)
          BY <1>0, <5>3, FailSteps DEF Idle
        <5>4. QED
          BY <3>2, <5>1, <5>2, <5>3 DEF Get, Decode
      <4>3. QED
        BY <4>1, <4>2 DEF Open
    <3>3. CASE Pull(p, g)
      <4>1. fetch'[p][g].step = "pulled" /\ db' = db
        BY <1>0, <2>1, <3>3 DEF Pull, TypeOK, Fetch
      <4>2. QED
        BY <4>1 DEF Open
    <3>4. CASE PullFails(p, g)
      <4>1. db' = db
        BY <3>4 DEF PullFails
      <4>2. fetch'[p][g].step \in {"idle", "local"}
        <5>1. CASE NextProvider(p, g, "local")
          BY <1>0, <2>1, <5>1, NextProviderSteps DEF Fetch
        <5>2. CASE Fail(p, g)
          BY <1>0, <5>2, FailSteps DEF Idle
        <5>3. QED
          BY <3>4, <5>1, <5>2 DEF PullFails
      <4>3. QED
        BY <4>1, <4>2 DEF Open
    <3>5. CASE Add(p, g)
      <4>1. db[p] \in Content /\ fetch[p][g].ref \in Ref
        BY <1>0, <2>1, <3>5 DEF Add, OpenInv, Open, TypeOK, Fetch
      <4>2. fetch[p][g].ref \in DOMAIN db'[p]
        BY <1>0, <3>5, <4>1 DEF Add, TypeOK, Content
      <4>3. Open(p)'
        BY <4>2 DEF Open, NotOpen
      <4>4. QED
        BY <4>3
    <3>6. QED
      BY <1>5, <3>1, <3>2, <3>3, <3>4, <3>5 DEF Resolving
  <2>3. \A h \in Goroutine : fetch'[p][h].step \in {"get", "add"} => Open(p)'
    BY <1>0, <2>1, <2>2 DEF OpenInv
  <2>4. QED
    BY <1>0, <2>1, <2>3 DEF OpenInv, Open, Saves
<1>6. ASSUME NEW p \in Process, NEW how \in {"ended", "crashed"}, Exit(p, how)
      PROVE  OpenInv'
  <2>1. \A g \in Goroutine : fetch'[p][g].step = "idle"
    BY <1>0, <1>6, ExitSteps DEF Idle
  <2>2. QED
    BY <1>0, <1>6, <2>1, ExitSteps DEF OpenInv, Open, Saves
<1>7. ASSUME NEW p \in Process, Persist(p) PROVE OpenInv'
  <2>1. CASE Exit(p, "ended")
    BY <1>6, <2>1
  <2>2. CASE ~Exit(p, "ended")
    <3>1. Open(p) /\ pc' = [pc EXCEPT ![p] = "locked"] /\ UNCHANGED <<db, fetch>>
      BY <1>7, <2>2 DEF Persist, Open
    <3>2. QED
      BY <1>0, <3>1 DEF OpenInv, Open, TypeOK
  <2>3. QED
    BY <2>1, <2>2
<1>8. ASSUME NEW p \in Process, Truncate(p) \/ WriteBack(p) \/ WriteFails(p)
      PROVE  OpenInv'
  <2>1. /\ pc[p] \in Saves /\ UNCHANGED <<db, fetch>>
        /\ pc'[p] \in Saves /\ \A q \in Process \ {p} : pc'[q] = pc[q]
    BY <1>0, <1>8 DEF Truncate, WriteBack, WriteFails, Saves, TypeOK
  <2>2. QED
    BY <1>0, <2>1 DEF OpenInv, Open, Saves
<1>9. ASSUME NEW p \in Process, Unlock(p) \/ Crash(p) PROVE OpenInv'
  BY <1>6, <1>9 DEF Unlock, Crash
<1>10. CASE UNCHANGED vars
  BY <1>0, <1>10 DEF vars, procVars, OpenInv, Open
<1>11. QED
  BY <1>1, <1>2, <1>3, <1>4, <1>5, <1>7, <1>8, <1>9, <1>10 DEF Next, Saving

LEMMA FetchStep == IInv /\ [Next]_vars => FetchInv'
<1> SUFFICES ASSUME IInv, [Next]_vars PROVE FetchInv'
  OBVIOUS
<1>0. TypeOK /\ FetchInv /\ RegistryInv
  BY DEF IInv
<1>1. ASSUME NEW p \in Process, Tag(p) \/ ResolveFile(p) PROVE FetchInv'
  <2>1. /\ fetch' = fetch /\ pc[p] = "new"
        /\ \A q \in Process \ {p} : pc'[q] = pc[q]
    BY <1>0, <1>1 DEF Tag, ResolveFile, TypeOK
  <2>2. QED
    BY <1>0, <2>1 DEF FetchInv
<1>2. ASSUME NEW p \in Process, EndRun(p) PROVE FetchInv'
  BY <1>0, <1>2 DEF EndRun, FetchInv, TypeOK
<1>3. ASSUME NEW r \in Ref, Push(r) PROVE FetchInv'
  BY <1>0, <1>3 DEF Push, procVars, FetchInv
<1>4. ASSUME NEW p \in Process, NEW g \in Goroutine, Resolve(p, g) PROVE FetchInv'
  <2>1. fetch'[p][g].step \in {"local", "oci"}
    <3>1. PICK r \in Ref :
              fetch'[p][g] = [step |-> IF LocalFirst(kind[p]) THEN "local" ELSE "oci",
                              ref |-> r, got |-> 0, known |-> answers[p][r] # {}]
      BY <1>0, <1>4, ResolveSteps
    <3>2. QED
      BY <3>1
  <2>2. \A q \in Process, h \in Goroutine : q # p \/ h # g => fetch'[q][h] = fetch[q][h]
    BY <1>0, <1>4, ResolveSteps
  <2>3. /\ pc'[p] = IF pc[p] = "new" THEN "resolving" ELSE "running"
        /\ pc[p] = "new" => g = Main
        /\ \A q \in Process \ {p} : pc'[q] = pc[q]
    BY <1>0, <1>4, ResolveSteps DEF TypeOK
  <2>4. pc[p] = "new" => \A h \in Goroutine : fetch[p][h] = Idle
    BY <1>0 DEF FetchInv
  <2>5. pc[p] # "new" => pc[p] = "running"
    BY <1>0, <1>4, ResolveSteps
  <2>6. QED
    BY <1>0, <2>1, <2>2, <2>3, <2>4, <2>5 DEF FetchInv
<1>5. ASSUME NEW p \in Process, NEW g \in Goroutine, Resolving(p, g) PROVE FetchInv'
  <2>1. /\ fetch[p][g] \in Fetch
        /\ pc[p] = "running" \/ (pc[p] = "resolving" /\ g = Main)
        /\ \A q \in Process \ {p} : pc'[q] = pc[q] /\ fetch'[q] = fetch[q]
        /\ \A h \in Goroutine \ {g} : fetch'[p][h] = fetch[p][h]
        /\ pc[p] = "running" => pc'[p] = "running"
    BY <1>5, CallSteps
  <2>2. fetch'[p][g] = Idle
        \/ /\ pc'[p] = pc[p]
           /\ fetch'[p][g].step \in {"pulled", "add"} => fetch'[p][g].got # 0
    <3>0. fetch[p][g].step \in {"pulled", "add"} => fetch[p][g].got # 0
      BY <1>0, <2>1, FetchShape DEF FetchInv, Fetch, Idle
    <3>1. CASE OpenDB(p, g)
      <4>1. fetch'[p][g] = [fetch[p][g] EXCEPT
                              !.step = IF @ = "local" THEN "get" ELSE "add"]
        BY <1>0, <3>1 DEF OpenDB, TypeOK
      <4>2. pc' = pc /\ fetch[p][g].step \in {"local", "pulled"}
        BY <3>1 DEF OpenDB
      <4>3. QED
        BY <2>1, <3>0, <4>1, <4>2 DEF Fetch
    <3>2. CASE Get(p, g)
      <4>1. CASE NextProvider(p, g, "oci")
        BY <1>0, <2>1, <4>1, NextProviderSteps DEF Fetch
      <4>2. CASE ~NextProvider(p, g, "oci")
        BY <1>0, <3>2, <4>2, AnswerSteps, FailSteps DEF Get, Decode
      <4>3. QED
        BY <4>1, <4>2
    <3>3. CASE Pull(p, g)
      <4>1. pc' = pc /\ fetch'[p][g].got = registry[fetch[p][g].ref]
        BY <1>0, <2>1, <3>3 DEF Pull, TypeOK, Fetch
      <4>2. QED
        BY <1>0, <2>1, <4>1 DEF RegistryInv, Fetch
    <3>4. CASE PullFails(p, g)
      <4>1. CASE NextProvider(p, g, "local")
        BY <1>0, <2>1, <4>1, NextProviderSteps DEF Fetch
      <4>2. CASE Fail(p, g)
        BY <1>0, <4>2, FailSteps
      <4>3. QED
        BY <3>4, <4>1, <4>2 DEF PullFails
    <3>5. CASE Add(p, g)
      BY <1>0, <3>5, AnswerSteps, FailSteps DEF Add, Decode
    <3>6. QED
      BY <1>5, <3>1, <3>2, <3>3, <3>4, <3>5 DEF Resolving
  <2>3. pc[p] = "resolving" => \A h \in Goroutine \ {g} : fetch[p][h] = Idle
    BY <1>0, <2>1 DEF FetchInv
  <2>4. QED
    BY <1>0, <2>1, <2>2, <2>3 DEF FetchInv
<1>6. ASSUME NEW p \in Process, NEW how \in {"ended", "crashed"}, Exit(p, how)
      PROVE  FetchInv'
  BY <1>0, <1>6, ExitSteps DEF FetchInv
<1>7. ASSUME NEW p \in Process, Saving(p) PROVE FetchInv'
  <2>1. CASE Exit(p, "ended")
    BY <1>6, <2>1
  <2>2. CASE ~Exit(p, "ended")
    <3>1. /\ fetch' = fetch /\ pc[p] \notin {"running", "resolving"}
          /\ \A q \in Process \ {p} : pc'[q] = pc[q]
      BY <1>0, <1>7, <2>2
         DEF Saving, Persist, Truncate, WriteBack, WriteFails, Unlock, TypeOK
    <3>2. QED
      BY <1>0, <3>1 DEF FetchInv
  <2>3. QED
    BY <2>1, <2>2
<1>8. ASSUME NEW p \in Process, Crash(p) PROVE FetchInv'
  BY <1>6, <1>8 DEF Crash
<1>9. CASE UNCHANGED vars
  BY <1>0, <1>9 DEF vars, procVars, FetchInv
<1>10. QED
  BY <1>1, <1>2, <1>3, <1>4, <1>5, <1>7, <1>8, <1>9 DEF Next

LEMMA RegistryStep == IInv /\ [Next]_vars => RegistryInv'
<1> SUFFICES ASSUME IInv, [Next]_vars PROVE RegistryInv'
  OBVIOUS
<1>0. TypeOK /\ RegistryInv
  BY DEF IInv
<1>1. ASSUME NEW r \in Ref, Push(r) PROVE RegistryInv'
  BY <1>0, <1>1, StoreAssumption DEF Push, RegistryInv, TypeOK, Content
<1>2. ASSUME registry' = registry PROVE RegistryInv'
  BY <1>0, <1>2 DEF RegistryInv
<1>3. QED
  BY <1>1, <1>2, CallSteps
     DEF Next, vars, Tag, ResolveFile, EndRun, Saving, Persist, Truncate,
         WriteBack, WriteFails, Unlock, Crash, Resolve

LEMMA AnswersStep == IInv /\ [Next]_vars => AnswersInv'
<1> SUFFICES ASSUME IInv, [Next]_vars PROVE AnswersInv'
  OBVIOUS
<1>0. TypeOK /\ AnswersInv
  BY DEF IInv
<1>1. ASSUME NEW p \in Process, Tag(p) PROVE AnswersInv'
  <2>1. answers' = answers /\ \A q \in Process \ {p} : db'[q] = db[q]
    BY <1>0, <1>1 DEF Tag, TypeOK
  <2>2. \A r \in Ref : answers[p][r] = {}
    BY <1>0, <1>1 DEF Tag, AnswersInv, IInv, OpenInv
  <2>3. QED
    BY <1>0, <2>1, <2>2 DEF AnswersInv, Open
<1>2. ASSUME NEW p \in Process, NEW g \in Goroutine, Resolving(p, g) PROVE AnswersInv'
  <2> DEFINE n == fetch[p][g].ref
  <2>1. /\ fetch[p][g] \in Fetch /\ n \in Ref
        /\ \A q \in Process \ {p} : answers'[q] = answers[q] /\ db'[q] = db[q]
    BY <1>2, CallSteps DEF Fetch
  <2> SUFFICES ASSUME NEW r \in Ref, answers'[p][r] # {}
               PROVE  Open(p)' /\ db'[p][r] \in answers'[p][r] \cup Unreadable
    BY <1>0, <2>1 DEF AnswersInv, Open
  <2>2. ASSUME UNCHANGED <<db, answers>>
        PROVE  Open(p)' /\ db'[p][r] \in answers'[p][r] \cup Unreadable
    BY <1>0, <2>2 DEF AnswersInv, Open
  <2>3. CASE OpenDB(p, g)
    <3>1. answers' = answers /\ db' = [db EXCEPT ![p] = Opened(p)]
      BY <2>3 DEF OpenDB
    <3>2. Opened(p) = db[p] /\ Open(p)
      BY <1>0, <3>1 DEF AnswersInv, Opened, Open
    <3>3. QED
      BY <1>0, <3>1, <3>2 DEF AnswersInv, Open, TypeOK
  <2>4. CASE Get(p, g)
    <3>1. db' = db /\ Open(p)
      BY <2>4 DEF Get, IInv, OpenInv
    <3>2. CASE Answer(p, g, db[p][n])
      <4>1. answers'[p][r] = IF r = n THEN answers[p][r] \cup {db[p][n]} ELSE answers[p][r]
        BY <1>0, <3>2, AnswerSteps
      <4>2. QED
        BY <1>0, <3>1, <4>1 DEF AnswersInv, Open
    <3>3. CASE ~Answer(p, g, db[p][n])
      <4>1. answers' = answers
        BY <2>4, <3>3 DEF Get, Decode, NextProvider, Fail
      <4>2. QED
        BY <2>2, <3>1, <4>1
    <3>4. QED
      BY <3>2, <3>3
  <2>5. CASE Pull(p, g) \/ PullFails(p, g)
    BY <2>2, <2>5 DEF Pull, PullFails, NextProvider, Fail, history
  <2>6. CASE Add(p, g)
    <3>1. db[p] \in Content /\ Decode(p, g, fetch[p][g].got)
      BY <1>0, <2>6 DEF Add, IInv, OpenInv, Open, TypeOK
    <3>2. \A x \in Ref : db'[p][x] = IF x = n THEN fetch[p][g].got ELSE db[p][x]
      BY <1>0, <2>1, <2>6, <3>1 DEF Add, TypeOK, Content
    <3>3. Open(p)'
      <4>1. db' \in [Process -> Content \cup {NotOpen}] /\ n \in DOMAIN db'[p]
        BY <1>0, <2>1, <2>6, <3>1, TypeStep DEF Add, TypeOK, Content
      <4>2. QED
        BY <4>1 DEF Open, NotOpen
    <3>4. CASE Answer(p, g, fetch[p][g].got)
      <4>1. answers'[p][r] = IF r = n THEN answers[p][r] \cup {fetch[p][g].got}
                                      ELSE answers[p][r]
        BY <1>0, <3>4, AnswerSteps
      <4>2. QED
        BY <1>0, <3>2, <3>3, <4>1 DEF AnswersInv
    <3>5. CASE fetch[p][g].got \in Unreadable /\ Fail(p, g)
      <4>1. answers' = answers
        BY <3>5 DEF Fail
      <4>2. QED
        BY <1>0, <3>2, <3>3, <3>5, <4>1 DEF AnswersInv
    <3>6. QED
      BY <3>1, <3>4, <3>5 DEF Decode
  <2>7. QED
    BY <1>2, <2>3, <2>4, <2>5, <2>6 DEF Resolving
<1>3. ASSUME NEW p \in Process, NEW how \in {"ended", "crashed"}, Exit(p, how)
      PROVE  AnswersInv'
  BY <1>0, <1>3, ExitSteps DEF AnswersInv, Open
<1>4. ASSUME UNCHANGED <<db, answers>> PROVE AnswersInv'
  BY <1>0, <1>4 DEF AnswersInv, Open
<1>5. ASSUME NEW p \in Process, Saving(p) \/ Crash(p) PROVE AnswersInv'
  <2>1. (\E how \in {"ended", "crashed"} : Exit(p, how)) \/ UNCHANGED <<db, answers>>
    BY <1>5 DEF Saving, Crash, Persist, Truncate, WriteBack, WriteFails, Unlock, history
  <2>2. QED
    BY <1>3, <1>4, <2>1
<1>6. ASSUME NEW p \in Process, ResolveFile(p) \/ EndRun(p) \/ (\E g \in Goroutine : Resolve(p, g))
      PROVE  AnswersInv'
  BY <1>4, <1>6 DEF ResolveFile, EndRun, Resolve, history
<1>7. ASSUME NEW r \in Ref, Push(r) PROVE AnswersInv'
  BY <1>4, <1>7 DEF Push, procVars, history
<1>8. CASE UNCHANGED vars
  BY <1>4, <1>8 DEF vars, procVars, history
<1>9. QED
  BY <1>1, <1>2, <1>5, <1>6, <1>7, <1>8 DEF Next

LEMMA KnownStep == IInv /\ [Next]_vars => KnownInv'
<1> SUFFICES ASSUME IInv, [Next]_vars PROVE KnownInv'
  OBVIOUS
<1>0. TypeOK /\ KnownInv /\ AnswersInv
  BY DEF IInv
<1>1. ASSUME NEW p \in Process, NEW g \in Goroutine, Resolve(p, g) PROVE KnownInv'
  <2>1. PICK r \in Ref :
            fetch'[p][g] = [step |-> IF LocalFirst(kind[p]) THEN "local" ELSE "oci",
                            ref |-> r, got |-> 0, known |-> answers[p][r] # {}]
    BY <1>0, <1>1, ResolveSteps
  <2>2. UNCHANGED <<kind, answers>>
    BY <1>0, <1>1, ResolveSteps DEF history
  <2>3. \A q \in Process, h \in Goroutine : q # p \/ h # g => fetch'[q][h] = fetch[q][h]
    BY <1>0, <1>1, ResolveSteps
  <2>4. fetch'[p][g].known => /\ answers[p][fetch'[p][g].ref] # {}
                              /\ kind[p] = "missing" => fetch'[p][g].step = "local"
    <3>1. fetch'[p][g].known = (answers[p][r] # {})
      BY <2>1
    <3>2. fetch'[p][g].ref = r
      BY <2>1
    <3>3. kind[p] = "missing" => fetch'[p][g].step = "local"
      BY <2>1 DEF LocalFirst
    <3>4. QED
      BY <3>1, <3>2, <3>3
  <2>5. QED
    BY <1>0, <2>2, <2>3, <2>4 DEF KnownInv
<1>2. ASSUME NEW p \in Process, NEW g \in Goroutine, Resolving(p, g) PROVE KnownInv'
  <2> DEFINE n == fetch[p][g].ref
  <2>1. /\ fetch[p][g] \in Fetch /\ n \in Ref /\ kind' = kind
        /\ \A q \in Process \ {p} : answers'[q] = answers[q] /\ fetch'[q] = fetch[q]
        /\ \A h \in Goroutine \ {g} : fetch'[p][h] = fetch[p][h]
    BY <1>2, CallSteps DEF Fetch
  <2>2. \A h \in Goroutine : fetch[p][h] # Idle => fetch[p][h].ref \in Ref
    BY <1>0, FetchShape DEF TypeOK, Fetch
  <2>3. \A r \in Ref : answers[p][r] \subseteq answers'[p][r]
    <3>1. CASE \E m : Answer(p, g, m)
      <4>1. PICK m : Answer(p, g, m)
        BY <3>1
      <4>2. QED
        BY <1>0, <4>1, AnswerSteps
    <3>2. CASE ~\E m : Answer(p, g, m)
      BY <1>2, <3>2
         DEF Resolving, OpenDB, Get, Pull, PullFails, Add, Decode, NextProvider, Fail, history
    <3>3. QED
      BY <3>1, <3>2
  <2>4. fetch'[p][g] = Idle
        \/ /\ fetch'[p][g].known = fetch[p][g].known /\ fetch'[p][g].ref = n
           /\ kind[p] = "missing" /\ fetch[p][g].known => fetch'[p][g].step \in {"local", "get"}
    <3>0. fetch[p][g].known =>
             answers[p][n] # {} /\ (kind[p] = "missing" => fetch[p][g].step \in {"local", "get"})
      BY <1>0, <2>1, FetchShape DEF KnownInv, Fetch, Idle
    <3>1. CASE OpenDB(p, g)
      <4>1. fetch'[p][g] = [fetch[p][g] EXCEPT
                              !.step = IF @ = "local" THEN "get" ELSE "add"]
        BY <1>0, <3>1 DEF OpenDB, TypeOK
      <4>2. QED
        BY <2>1, <3>0, <3>1, <4>1 DEF OpenDB, Fetch
    <3>2. CASE Get(p, g)
      <4>1. CASE NextProvider(p, g, "oci") /\ db[p][n] = 0
        <5>0. answers[p][n] \in SUBSET (Manifest \ {0})
          BY <1>0, <2>1 DEF TypeOK
        <5>1. ~fetch[p][g].known
          BY <1>0, <2>1, <3>0, <4>1, <5>0, StoreAssumption DEF AnswersInv, StoreAssumption
        <5>2. QED
          BY <1>0, <2>1, <4>1, <5>1, NextProviderSteps
      <4>2. CASE Answer(p, g, db[p][n]) \/ Fail(p, g)
        BY <1>0, <4>2, AnswerSteps, FailSteps
      <4>3. QED
        BY <3>2, <4>1, <4>2 DEF Get, Decode
    <3>3. CASE Pull(p, g)
      <4>1. fetch'[p][g] = [fetch[p][g] EXCEPT !.step = "pulled",
                                               !.got = registry[fetch[p][g].ref]]
        BY <1>0, <3>3 DEF Pull, TypeOK
      <4>2. fetch'[p][g].known = fetch[p][g].known /\ fetch'[p][g].ref = n
        BY <2>1, <4>1 DEF Fetch
      <4>3. QED
        BY <3>0, <3>3, <4>2 DEF Pull
    <3>4. CASE PullFails(p, g)
      <4>1. CASE NextProvider(p, g, "local")
        BY <1>0, <2>1, <3>0, <4>1, NextProviderSteps
      <4>2. CASE Fail(p, g)
        BY <1>0, <4>2, FailSteps
      <4>3. QED
        BY <3>4, <4>1, <4>2 DEF PullFails
    <3>5. CASE Add(p, g)
      BY <1>0, <3>5, AnswerSteps, FailSteps DEF Add, Decode
    <3>6. QED
      BY <1>2, <3>1, <3>2, <3>3, <3>4, <3>5 DEF Resolving
  <2>5. ASSUME NEW h \in Goroutine, fetch'[p][h] # Idle, fetch'[p][h].known
        PROVE  /\ answers'[p][fetch'[p][h].ref] # {}
               /\ kind'[p] = "missing" => fetch'[p][h].step \in {"local", "get"}
    <3>1. CASE h = g
      <4>1. fetch[p][g] # Idle /\ fetch[p][g].known /\ fetch'[p][g].ref = n
        BY <2>1, <2>4, <2>5, <3>1 DEF Fetch, Idle
      <4>2. answers[p][n] # {}
        BY <1>0, <4>1 DEF KnownInv
      <4>3. QED
        BY <2>1, <2>3, <2>4, <2>5, <3>1, <4>1, <4>2
    <3>2. CASE h # g
      BY <1>0, <2>1, <2>2, <2>3, <2>5, <3>2 DEF KnownInv
    <3>3. QED
      BY <3>1, <3>2
  <2>6. QED
    BY <1>0, <2>1, <2>5 DEF KnownInv
<1>3. ASSUME NEW p \in Process, NEW how \in {"ended", "crashed"}, Exit(p, how), kind' = kind
      PROVE  KnownInv'
  <2>1. /\ \A g \in Goroutine : fetch'[p][g] = Idle
        /\ \A q \in Process \ {p} : fetch'[q] = fetch[q] /\ answers'[q] = answers[q]
    BY <1>0, <1>3, ExitSteps
  <2>2. QED
    BY <1>0, <1>3, <2>1 DEF KnownInv
<1>4. ASSUME UNCHANGED <<kind, fetch, answers>> PROVE KnownInv'
  BY <1>0, <1>4 DEF KnownInv
<1>5. ASSUME NEW p \in Process, Saving(p) \/ Crash(p) PROVE KnownInv'
  <2>1. /\ kind' = kind
        /\ (\E how \in {"ended", "crashed"} : Exit(p, how)) \/ UNCHANGED <<fetch, answers>>
    BY <1>5 DEF Saving, Crash, Persist, Truncate, WriteBack, WriteFails, Unlock, history
  <2>2. QED
    BY <1>3, <1>4, <2>1
<1>6. ASSUME NEW p \in Process, Tag(p) \/ ResolveFile(p) \/ EndRun(p) PROVE KnownInv'
  BY <1>4, <1>6 DEF Tag, ResolveFile, EndRun, history
<1>7. ASSUME NEW r \in Ref, Push(r) PROVE KnownInv'
  BY <1>4, <1>7 DEF Push, procVars, history
<1>8. CASE UNCHANGED vars
  BY <1>4, <1>8 DEF vars, procVars, history
<1>9. QED
  BY <1>1, <1>2, <1>5, <1>6, <1>7, <1>8 DEF Next

\* A database that is read from the file now.
LEMMA ReadNow ==
    ASSUME IInv, NEW r \in Ref, file[r] = 0, ~Truncated
    PROVE  torn \/ acked[r] = 0 \/ r \in overwritten
BY DEF IInv, LossNeedsOverlap

LEMMA MissingStep == IInv /\ [Next]_vars => MissingInv'
<1> SUFFICES ASSUME IInv, [Next]_vars PROVE MissingInv'
  OBVIOUS
<1>0. TypeOK /\ MissingInv
  BY DEF IInv
<1>1. ASSUME NEW p \in Process, Tag(p) PROVE MissingInv'
  <2>1. /\ stale'[p] = IF Truncated THEN Ref ELSE {}
        /\ \A q \in Process \ {p} : stale'[q] = stale[q] /\ db'[q] = db[q]
        /\ UNCHANGED <<torn, acked, overwritten>>
    BY <1>0, <1>1 DEF Tag, MarkOpened, IInv, OpenInv, Open, TypeOK
  <2>2. made' # 0
    BY <1>0, <1>1 DEF Tag, TypeOK
  <2>3. \A r \in Ref : db'[p][r] = 0 => file[r] = 0
    BY <1>0, <1>1, <2>2 DEF Tag, TypeOK
  <2>4. \A r \in Ref : db'[p][r] = 0 =>
            torn \/ acked[r] = 0 \/ r \in stale'[p] \/ r \in overwritten
    BY <2>1, <2>3, ReadNow
  <2>5. QED
    BY <1>0, <2>1, <2>4 DEF MissingInv, Open
<1>2. ASSUME NEW p \in Process, NEW g \in Goroutine, Resolving(p, g) PROVE MissingInv'
  <2> DEFINE n == fetch[p][g].ref
  <2>1. /\ fetch[p][g] \in Fetch /\ n \in Ref
        /\ UNCHANGED <<torn, acked, overwritten>>
        /\ \A q \in Process \ {p} : stale'[q] = stale[q] /\ db'[q] = db[q]
    BY <1>2, CallSteps DEF Fetch
  <2>2. ASSUME NEW r \in Ref, Open(p)', db'[p][r] = 0
        PROVE  torn \/ acked[r] = 0 \/ r \in stale'[p] \/ r \in overwritten
    <3>1. CASE OpenDB(p, g) /\ Open(p)
      BY <1>0, <2>2, <3>1 DEF OpenDB, Opened, MarkOpened, MissingInv, Open, TypeOK
    <3>2. CASE OpenDB(p, g) /\ ~Open(p)
      <4>1. db'[p] = file /\ stale'[p] = IF Truncated THEN Ref ELSE {}
        BY <1>0, <3>2 DEF OpenDB, Opened, MarkOpened, Open, TypeOK
      <4>2. QED
        BY <2>2, <4>1, ReadNow
    <3>3. CASE Get(p, g) \/ Pull(p, g) \/ PullFails(p, g)
      <4>1. UNCHANGED <<db, stale>>
        BY <3>3 DEF Get, Pull, PullFails, history
      <4>2. QED
        BY <1>0, <2>2, <4>1 DEF MissingInv, Open
    <3>4. CASE Add(p, g)
      <4>1. db[p] \in Content /\ Open(p) /\ fetch[p][g].got # 0 /\ stale' = stale
        BY <1>0, <2>1, <3>4, FetchShape
           DEF Add, IInv, OpenInv, FetchInv, Open, Fetch, TypeOK
      <4>2. \A x \in Ref : db'[p][x] = IF x = n THEN fetch[p][g].got ELSE db[p][x]
        BY <1>0, <2>1, <3>4, <4>1 DEF Add, TypeOK, Content
      <4>3. QED
        BY <1>0, <2>2, <4>1, <4>2 DEF MissingInv
    <3>5. QED
      BY <1>2, <3>1, <3>2, <3>3, <3>4 DEF Resolving
  <2>3. QED
    BY <1>0, <2>1, <2>2 DEF MissingInv, Open
<1>3. ASSUME NEW p \in Process, WriteBack(p) PROVE MissingInv'
  <2> SUFFICES ASSUME NEW q \in Process, NEW r \in Ref, Open(q), db[q][r] = 0
               PROVE  torn \/ acked'[r] = 0 \/ r \in stale'[q] \/ r \in overwritten'
    BY <1>3 DEF WriteBack, MissingInv, Open
  <2>1. torn \/ acked[r] = 0 \/ r \in stale[q] \/ r \in overwritten
    BY <1>0 DEF MissingInv
  <2>2. /\ acked'[r] = IF db[p][r] # 0 THEN db[p][r] ELSE acked[r]
        /\ stale'[q] = IF q = p THEN stale[q] ELSE stale[q] \cup {x \in Ref : db[p][x] # 0}
        /\ overwritten \subseteq overwritten'
    BY <1>3 DEF WriteBack, Merge, Open
  <2>3. QED
    BY <2>1, <2>2
<1>4. ASSUME NEW p \in Process, NEW how \in {"ended", "crashed"}, Exit(p, how),
             UNCHANGED <<acked, overwritten>>, torn => torn'
      PROVE  MissingInv'
  <2>1. /\ ~Open(p)'
        /\ \A q \in Process \ {p} : db'[q] = db[q] /\ stale'[q] = stale[q]
    BY <1>0, <1>4, ExitSteps
  <2>2. QED
    BY <1>0, <1>4, <2>1 DEF MissingInv, Open
<1>5. ASSUME UNCHANGED <<acked, overwritten, db, stale>>, torn => torn' PROVE MissingInv'
  BY <1>0, <1>5 DEF MissingInv, Open
<1>6. ASSUME NEW p \in Process, Saving(p) \/ Crash(p), ~WriteBack(p) PROVE MissingInv'
  <2>1. /\ UNCHANGED <<acked, overwritten>> /\ (torn => torn')
        /\ (\E how \in {"ended", "crashed"} : Exit(p, how)) \/ UNCHANGED <<db, stale>>
    <3>1. CASE Crash(p)
      BY <3>1 DEF Crash
    <3>2. CASE WriteFails(p)
      BY <3>2 DEF WriteFails
    <3>3. CASE Persist(p) \/ Truncate(p) \/ Unlock(p)
      BY <3>3 DEF Persist, Truncate, Unlock, history
    <3>4. QED
      BY <1>6, <3>1, <3>2, <3>3 DEF Saving
  <2>2. QED
    BY <1>4, <1>5, <2>1
<1>7. ASSUME NEW p \in Process, ResolveFile(p) \/ EndRun(p) \/ (\E g \in Goroutine : Resolve(p, g))
      PROVE  MissingInv'
  BY <1>5, <1>7 DEF ResolveFile, EndRun, Resolve, history
<1>8. ASSUME NEW r \in Ref, Push(r) PROVE MissingInv'
  BY <1>5, <1>8 DEF Push, procVars, history
<1>9. CASE UNCHANGED vars
  BY <1>5, <1>9 DEF vars, procVars, history
<1>10. QED
  BY <1>1, <1>2, <1>3, <1>6, <1>7, <1>8, <1>9 DEF Next

LEMMA LossStep == IInv /\ [Next]_vars => LossNeedsOverlap'
<1> SUFFICES ASSUME IInv, [Next]_vars PROVE LossNeedsOverlap'
  OBVIOUS
<1> USE StoreAssumption DEF StoreAssumption
<1>0. TypeOK /\ LossNeedsOverlap /\ LockInv
  BY DEF IInv
<1>1. ASSUME UNCHANGED <<file, acked, overwritten>>, torn => torn',
             Truncated => Truncated' \/ torn'
      PROVE  LossNeedsOverlap'
  BY <1>0, <1>1 DEF LossNeedsOverlap
<1>2. ASSUME NEW p \in Process, Tag(p) \/ ResolveFile(p) \/ EndRun(p) PROVE LossNeedsOverlap'
  <2>1. /\ UNCHANGED <<file, acked, overwritten, torn>>
        /\ pc[p] # "truncated" /\ \A q \in Process \ {p} : pc'[q] = pc[q]
    BY <1>0, <1>2 DEF Tag, ResolveFile, EndRun, storeVars, history, TypeOK
  <2>2. QED
    BY <1>1, <2>1 DEF Truncated
<1>3. ASSUME NEW p \in Process, NEW g \in Goroutine, Resolve(p, g) \/ Resolving(p, g)
      PROVE  LossNeedsOverlap'
  <2>1. /\ UNCHANGED <<file, acked, overwritten, torn>>
        /\ pc[p] # "truncated" /\ \A q \in Process \ {p} : pc'[q] = pc[q]
    <3>1. CASE Resolve(p, g)
      BY <1>0, <3>1, ResolveSteps DEF storeVars, history, TypeOK
    <3>2. CASE Resolving(p, g)
      BY <3>2, CallSteps DEF storeVars
    <3>3. QED
      BY <1>3, <3>1, <3>2
  <2>2. QED
    BY <1>1, <2>1 DEF Truncated
<1>4. ASSUME NEW p \in Process, Persist(p) \/ Unlock(p) PROVE LossNeedsOverlap'
  <2>1. /\ UNCHANGED <<file, acked, overwritten, torn>>
        /\ pc[p] # "truncated" /\ \A q \in Process \ {p} : pc'[q] = pc[q]
    BY <1>0, <1>4 DEF Persist, Unlock, Exit, TypeOK
  <2>2. QED
    BY <1>1, <2>1 DEF Truncated
<1>5. ASSUME NEW p \in Process, Truncate(p) PROVE LossNeedsOverlap'
  BY <1>0, <1>5 DEF Truncate, LossNeedsOverlap, Truncated, TypeOK
<1>6. ASSUME NEW p \in Process, WriteBack(p) PROVE LossNeedsOverlap'
  <2>1. pc[p] = "truncated" /\ Open(p)
    BY <1>6 DEF WriteBack, IInv, OpenInv, Saves
  <2>2. file = Empty
    BY <1>0, <2>1 DEF LockInv
  <2> SUFFICES ASSUME NEW r \in Ref
               PROVE  torn' \/ file'[r] = acked'[r] \/ r \in overwritten'
    BY DEF LossNeedsOverlap
  <2>3. /\ file'[r] = db[p][r]
        /\ acked'[r] = IF db[p][r] # 0 THEN db[p][r] ELSE acked[r]
        /\ overwritten' = overwritten \cup stale[p] /\ torn' = torn
    BY <1>6, <2>2 DEF WriteBack, Merge, Empty
  <2>4. QED
    BY <2>1, <2>3 DEF IInv, MissingInv
<1>7. ASSUME NEW p \in Process, WriteFails(p) PROVE LossNeedsOverlap'
  BY <1>7 DEF WriteFails, LossNeedsOverlap
<1>8. ASSUME NEW p \in Process, Crash(p) PROVE LossNeedsOverlap'
  <2>1. \A q \in Process \ {p} : pc'[q] = pc[q]
    BY <1>0, <1>8, ExitSteps DEF Crash
  <2>2. /\ UNCHANGED <<file, acked, overwritten>>
        /\ torn' = (torn \/ pc[p] = "truncated")
    BY <1>8 DEF Crash
  <2>3. Truncated => Truncated' \/ torn'
    BY <2>1, <2>2 DEF Truncated
  <2>4. QED
    BY <1>1, <2>2, <2>3
<1>9. ASSUME NEW r \in Ref, Push(r) PROVE LossNeedsOverlap'
  BY <1>1, <1>9 DEF Push, storeVars, procVars, history, Truncated
<1>10. CASE UNCHANGED vars
  BY <1>1, <1>10 DEF vars, storeVars, procVars, history, Truncated
<1>11. QED
  BY <1>2, <1>3, <1>4, <1>5, <1>6, <1>7, <1>8, <1>9, <1>10 DEF Next, Saving

-----------------------------------------------------------------------------
(* The theorems.                                                           *)

LEMMA Invariance == Spec => []IInv
<1>1. IInv /\ [Next]_vars => IInv'
  BY TypeStep, LockStep, OpenStep, FetchStep, RegistryStep, AnswersStep,
     KnownStep, MissingStep, LossStep DEF IInv
<1>2. QED
  BY InitIInv, <1>1, PTL DEF Spec

(* Every variable of the store and of its processes keeps its type, and a  *)
(* call never reads or extends a database that was not opened.             *)
THEOREM TypeCorrect == Spec => []TypeOK
<1>1. IInv => TypeOK
  BY DEF IInv
<1>2. QED
  BY <1>1, Invariance, PTL

(* However many processes there are and wherever they crash, the file      *)
(* differs from what all completed writes amount to only in the middle of  *)
(* a write, after a writer that ended between truncating and writing, or   *)
(* at a reference that a process with an older copy has written over: the  *)
(* truncation in front of the merge (run/provider.go:182-195) loses        *)
(* nothing among processes that follow each other.                         *)
THEOREM LossOnlyByOverlap == Spec => []LossNeedsOverlap
<1>1. IInv => LossNeedsOverlap
  BY DEF IInv
<1>2. QED
  BY <1>1, Invariance, PTL

(* Whatever the goroutines of a process have resolved, in whichever order  *)
(* and from whichever provider, is in the file once the process has        *)
(* written, in a version that the process was given, or in one it pulled   *)
(* and could not decode (run/provider.go:112-145).                         *)
THEOREM AnswersStored == Spec => []AnswersAreStored
<1>1. IInv => AnswersAreStored
  <2> SUFFICES ASSUME IInv, NEW p \in Process, NEW r \in Ref,
                      pc[p] = "written", answers[p][r] # {}
               PROVE  file[r] \in answers[p][r] \cup Unreadable
    BY DEF AnswersAreStored
  <2>1. db[p][r] \in answers[p][r] \cup Unreadable /\ 0 \notin Unreadable
    BY StoreAssumption DEF IInv, AnswersInv, StoreAssumption
  <2>2. answers[p][r] \in SUBSET (Manifest \ {0})
    BY DEF IInv, TypeOK
  <2>3. file[r] = db[p][r]
    BY <2>1, <2>2 DEF IInv, LockInv
  <2>4. QED
    BY <2>1, <2>3
<1>2. QED
  BY <1>1, Invariance, PTL

(* A run that prefers the local store does not ask the registry again for  *)
(* a reference that one of its goroutines has been answered                *)
(* (run/provider.go:151-157).                                              *)
THEOREM KnownIsNotPulled == Spec => NoSecondPull
<1>1. IInv => \A p \in Process, g \in Goroutine :
                 Pull(p, g) /\ kind[p] = "missing" => ~fetch[p][g].known
  <2> SUFFICES ASSUME IInv, NEW p \in Process, NEW g \in Goroutine,
                      Pull(p, g), kind[p] = "missing", fetch[p][g].known
               PROVE  FALSE
    OBVIOUS
  <2>1. fetch[p][g].step = "oci"
    BY DEF Pull
  <2>2. fetch[p][g] # Idle
    BY <2>1 DEF Idle
  <2>3. QED
    BY <2>1, <2>2 DEF IInv, KnownInv
<1>2. QED
  BY <1>1, Invariance, PTL DEF NoSecondPull

=============================================================================
