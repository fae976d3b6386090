---------------------------- MODULE ProviderStore ----------------------------
(***************************************************************************)
(* The local pipeline store (internal/provider, internal/run/provider.go): *)
(* one file that every rageta process on the machine reads and rewrites.   *)
(*                                                                         *)
(* A process reads the file once, the first time it needs it, into its own *)
(* Database, answers references from that copy or from the registry, adds  *)
(* what it pulls to the copy, and writes the copy back when it ends, which *)
(* for `rageta run` is after the whole pipeline has run.  References are   *)
(* resolved by the main goroutine first and then, for inherited pipelines, *)
(* by any number of goroutines at the same time.                           *)
(*                                                                         *)
(* A manifest is the number it has in the order in which manifests were    *)
(* made, 0 stands for none.                                                *)
(***************************************************************************)
EXTENDS Naturals

CONSTANTS Process, Ref, Goroutine,
          Main,          \* the goroutine that resolves the pipeline to run
          NoProcess,     \* nobody holds the lock file
          Kinds,         \* what each process may be
          Unreadable,    \* the manifests that do not decode
          MaxManifests,  \* bound: manifests ever made
          MaxResolves    \* bound: references one process resolves

ASSUME StoreAssumption ==
    /\ NoProcess \notin Process
    /\ Main \in Goroutine
    /\ Kinds \in [Process -> SUBSET {"missing", "always", "help", "tag"}]
    /\ MaxManifests \in Nat \ {0}
    /\ Unreadable \subseteq 1 .. MaxManifests
    /\ MaxResolves \in Nat \ {0}

Manifest == 0 .. MaxManifests
Content == [Ref -> Manifest]
Empty == [r \in Ref |-> 0]
NotOpen == [r \in {} |-> 0]     \* localDB == nil

(* What a process is: `run` with a pull policy other than always, `run`    *)
(* with always, `help`, or `tag`.                                          *)
Kind == {"missing", "always", "help", "tag"}
LocalFirstSwapped(k) == k # "missing"          \* mutant
LocalFirst(k) == k = "missing"

Idle == [step |-> "idle"]
Fetch == [step : {"local", "get", "oci", "pulled", "add"},
          ref : Ref, got : Manifest, known : BOOLEAN]

VARIABLES
    made,       \* how many manifests have been made
    registry,   \* the manifest a reference has in the OCI registry
    file,       \* the store on disk; a truncated file decodes as Empty
    lock,       \* who holds the lock file
    kind,       \* what each process is
    pc,         \* where each process is
    db,         \* its Database, NotOpen until openDB
    fetch,      \* the Resolve call each of its goroutines is in
    resolves,   \* how many it has begun
    \* History, read by the properties only:
    answers,    \* the manifests each process was given for a reference
    acked,      \* what the store holds if every completed write counts
    stale,      \* references others have written since a process opened
    overwritten, \* references that a stale process has written over
    torn        \* a writer ended between truncating and writing

storeVars == <<file, lock>>
procVars == <<kind, pc, db, fetch, resolves>>
history == <<answers, acked, stale, overwritten, torn>>
vars == <<made, registry, storeVars, procVars, history>>

Init ==
    /\ made = 1
    /\ registry = [r \in Ref |-> 1]
    /\ file \in [Ref -> {0, 1}]
    /\ lock = NoProcess
    /\ kind \in {k \in [Process -> Kind] : \A p \in Process : k[p] \in Kinds[p]}
    /\ pc = [p \in Process |-> "new"]
    /\ db = [p \in Process |-> NotOpen]
    /\ fetch = [p \in Process |-> [g \in Goroutine |-> Idle]]
    /\ resolves = [p \in Process |-> 0]
    /\ answers = [p \in Process |-> [r \in Ref |-> {}]]
    /\ acked = file
    /\ stale = [p \in Process |-> {}]
    /\ overwritten = {}
    /\ torn = FALSE

(***************************************************************************)
(* Opening                                                                 *)
(***************************************************************************)

(* openDB reads the file if this process has not yet; it takes no lock, so *)
(* it may read the file in the middle of another process's write.          *)
Truncated == \E p \in Process : pc[p] = "truncated"
Opened(p) == IF db[p] = NotOpen THEN file ELSE db[p]
MarkOpened(p) ==
    stale' = IF db[p] = NotOpen
             THEN [stale EXCEPT ![p] = IF Truncated THEN Ref ELSE {}]
             ELSE stale

(* tag opens the store, and adds its manifest under the name it was given  *)
(* and under every further tag.                                            *)
Tag(p) ==
    /\ kind[p] = "tag"
    /\ pc[p] = "new"
    /\ made < MaxManifests
    /\ made' = made + 1
    /\ \E names \in SUBSET Ref \ {{}} :
          db' = [db EXCEPT ![p] = [r \in Ref |-> IF r \in names THEN made'
                                                 ELSE file[r]]]
    /\ MarkOpened(p)
    /\ pc' = [pc EXCEPT ![p] = "persist"]
    /\ UNCHANGED <<registry, storeVars, kind, fetch, resolves,
                   answers, acked, overwritten, torn>>

(* Somebody pushes a manifest to the registry.                             *)
Push(r) ==
    /\ made < MaxManifests
    /\ made' = made + 1
    /\ registry' = [registry EXCEPT ![r] = made']
    /\ UNCHANGED <<storeVars, procVars, history>>

(***************************************************************************)
(* Resolving: provider.Resolve tries the providers in the order of the     *)
(* pull policy until one answers.                                          *)
(***************************************************************************)

Resolve(p, g) ==
    /\ kind[p] # "tag"
    /\ \/ pc[p] = "new" /\ g = Main
       \/ pc[p] = "running"
    /\ fetch[p][g] = Idle
    /\ resolves[p] < MaxResolves
    /\ resolves' = [resolves EXCEPT ![p] = @ + 1]
    /\ \E r \in Ref :
          fetch' = [fetch EXCEPT ![p][g] =
                      [step |-> IF LocalFirst(kind[p]) THEN "local" ELSE "oci",
                       ref |-> r, got |-> 0,
                       known |-> answers[p][r] # {}]]
    /\ pc' = [pc EXCEPT ![p] = IF @ = "new" THEN "resolving" ELSE @]
    /\ UNCHANGED <<made, registry, storeVars, kind, db, history>>

(* The pipeline to run is a file: the first provider answers.              *)
ResolveFile(p) ==
    /\ kind[p] \in {"missing", "always"}
    /\ pc[p] = "new"
    /\ pc' = [pc EXCEPT ![p] = "running"]
    /\ UNCHANGED <<made, registry, storeVars, kind, db, fetch, resolves, history>>

(* openDB, on behalf of the lookup or of the pull.                         *)
OpenDB(p, g) ==
    /\ fetch[p][g].step \in {"local", "pulled"}
    /\ db' = [db EXCEPT ![p] = Opened(p)]
    /\ MarkOpened(p)
    /\ fetch' = [fetch EXCEPT ![p][g].step =
                                IF @ = "local" THEN "get" ELSE "add"]
    /\ UNCHANGED <<made, registry, storeVars, kind, pc, resolves,
                   answers, acked, overwritten, torn>>

(* The process ends, and with it all that it had in memory.                *)
Exit(p, how) ==
    /\ pc' = [pc EXCEPT ![p] = how]
    /\ db' = [db EXCEPT ![p] = NotOpen]
    /\ fetch' = [fetch EXCEPT ![p] = [g \in Goroutine |-> Idle]]
    /\ answers' = [answers EXCEPT ![p] = [r \in Ref |-> {}]]
    /\ stale' = [stale EXCEPT ![p] = {}]

(* The end of a call.  The first one decides whether a run goes on and     *)
(* whether help saves the store at all.                                    *)
Answer(p, g, m) ==
    /\ answers' = [answers EXCEPT ![p][fetch[p][g].ref] = @ \cup {m}]
    /\ fetch' = [fetch EXCEPT ![p][g] = Idle]
    /\ pc' = [pc EXCEPT ![p] = IF @ # "resolving" THEN @
                               ELSE IF kind[p] = "help" THEN "persist" ELSE "running"]

Fail(p, g) ==
    /\ fetch' = [fetch EXCEPT ![p][g] = Idle]
    /\ pc' = [pc EXCEPT ![p] = IF @ # "resolving" THEN @
                               ELSE IF kind[p] = "help" THEN "ended" ELSE "persist"]
    /\ UNCHANGED answers

(* What the provider has returned is decoded: if it cannot be, the call    *)
(* fails, and no other provider is asked.                                  *)
Decode(p, g, m) == IF m \in Unreadable THEN Fail(p, g) ELSE Answer(p, g, m)

NextProvider(p, g, step) ==
    /\ fetch' = [fetch EXCEPT ![p][g].step = step]
    /\ UNCHANGED <<pc, answers>>

(* Mutant: an entry without a manifest counts.                             *)
GetAnything(p, g) ==
    /\ fetch[p][g].step = "get"
    /\ Decode(p, g, db[p][fetch[p][g].ref])
    /\ UNCHANGED <<made, registry, storeVars, kind, db, resolves,
                   acked, stale, overwritten, torn>>

Get(p, g) ==
    /\ fetch[p][g].step = "get"
    /\ LET m == db[p][fetch[p][g].ref]
       IN  \/ m # 0 /\ Decode(p, g, m)
           \/ m = 0 /\ LocalFirst(kind[p]) /\ NextProvider(p, g, "oci")
           \/ m = 0 /\ ~LocalFirst(kind[p]) /\ Fail(p, g)
    /\ UNCHANGED <<made, registry, storeVars, kind, db, resolves,
                   acked, stale, overwritten, torn>>

(* The registry answers; or the client cannot be built or the pull fails,  *)
(* also because the client got the credentials of another registry: the    *)
(* goroutines write the URL they are for to one variable.                  *)
Pull(p, g) ==
    /\ fetch[p][g].step = "oci"
    /\ fetch' = [fetch EXCEPT ![p][g].step = "pulled",
                              ![p][g].got = registry[fetch[p][g].ref]]
    /\ UNCHANGED <<made, registry, storeVars, kind, pc, db, resolves, history>>

PullFails(p, g) ==
    /\ fetch[p][g].step = "oci"
    /\ IF LocalFirst(kind[p]) THEN Fail(p, g) ELSE NextProvider(p, g, "local")
    /\ UNCHANGED <<made, registry, storeVars, kind, db, resolves,
                   acked, stale, overwritten, torn>>

(* Mutants: the filter of Add keeps the wrong entries; an entry that is    *)
(* there is kept.                                                          *)
AddDropsOthers(p, g) ==
    /\ fetch[p][g].step = "add"
    /\ db' = [db EXCEPT ![p] = [Empty EXCEPT ![fetch[p][g].ref] = fetch[p][g].got]]
    /\ Decode(p, g, fetch[p][g].got)
    /\ UNCHANGED <<made, registry, storeVars, kind, resolves,
                   acked, stale, overwritten, torn>>

AddIfMissing(p, g) ==
    /\ fetch[p][g].step = "add"
    /\ db' = [db EXCEPT ![p][fetch[p][g].ref] = IF @ = 0 THEN fetch[p][g].got ELSE @]
    /\ Decode(p, g, fetch[p][g].got)
    /\ UNCHANGED <<made, registry, storeVars, kind, resolves,
                   acked, stale, overwritten, torn>>

Add(p, g) ==
    /\ fetch[p][g].step = "add"
    /\ db' = [db EXCEPT ![p][fetch[p][g].ref] = fetch[p][g].got]
    /\ Decode(p, g, fetch[p][g].got)
    /\ UNCHANGED <<made, registry, storeVars, kind, resolves,
                   acked, stale, overwritten, torn>>

(* The pipeline has run and every goroutine has come back.                 *)
EndRun(p) ==
    /\ pc[p] = "running"
    /\ \A g \in Goroutine : fetch[p][g] = Idle
    /\ pc' = [pc EXCEPT ![p] = "persist"]
    /\ UNCHANGED <<made, registry, storeVars, kind, db, fetch, resolves, history>>

(***************************************************************************)
(* PersistDatabase                                                         *)
(***************************************************************************)

(* A process that finds the lock taken does not wait: it gives up.         *)
CanLock == lock = NoProcess

Persist(p) ==
    /\ pc[p] = "persist"
    /\ IF db[p] # NotOpen /\ CanLock
       THEN /\ lock' = p
            /\ pc' = [pc EXCEPT ![p] = "locked"]
            /\ UNCHANGED <<db, fetch, answers, stale>>
       ELSE Exit(p, "ended") /\ UNCHANGED lock
    /\ UNCHANGED <<made, registry, file, kind, resolves,
                   acked, overwritten, torn>>

(* O_TRUNC: the file is emptied before it is read again for the merge.     *)
Truncate(p) ==
    /\ pc[p] = "locked"
    /\ file' = Empty
    /\ pc' = [pc EXCEPT ![p] = "truncated"]
    /\ UNCHANGED <<made, registry, lock, kind, db, fetch, resolves, history>>

(* Database.Merge: an entry of the second replaces that of the first.      *)
Merge(into, from) ==
    [r \in Ref |-> IF from[r] # 0 THEN from[r] ELSE into[r]]

WriteBack(p) ==
    /\ pc[p] = "truncated"
    /\ file' = Merge(file, db[p])
    /\ pc' = [pc EXCEPT ![p] = "written"]
    /\ acked' = Merge(acked, db[p])
    /\ overwritten' = overwritten \cup stale[p]
    /\ stale' = [q \in Process |->
                   IF q = p \/ db[q] = NotOpen THEN stale[q]
                   ELSE stale[q] \cup {r \in Ref : db[p][r] # 0}]
    /\ UNCHANGED <<made, registry, lock, kind, db, fetch, resolves,
                   answers, torn>>

WriteFails(p) ==
    /\ pc[p] = "truncated"
    /\ pc' = [pc EXCEPT ![p] = "failed"]
    /\ torn' = TRUE
    /\ UNCHANGED <<made, registry, storeVars, kind, db, fetch, resolves,
                   answers, acked, stale, overwritten>>

Unlock(p) ==
    /\ pc[p] \in {"written", "failed"}
    /\ Exit(p, "ended")
    /\ lock' = NoProcess
    /\ UNCHANGED <<made, registry, file, kind, resolves,
                   acked, overwritten, torn>>

(* The process is killed; the kernel releases its lock.                    *)
Crash(p) ==
    /\ pc[p] \notin {"new", "ended", "crashed"}
    /\ Exit(p, "crashed")
    /\ lock' = IF lock = p THEN NoProcess ELSE lock
    /\ torn' = (torn \/ pc[p] = "truncated")
    /\ UNCHANGED <<made, registry, file, kind, resolves, acked, overwritten>>

Saving(p) ==
    Persist(p) \/ Truncate(p) \/ WriteBack(p) \/ WriteFails(p) \/ Unlock(p)

Resolving(p, g) ==
    OpenDB(p, g) \/ Get(p, g) \/ Pull(p, g) \/ PullFails(p, g) \/ Add(p, g)

Next ==
    \/ \E r \in Ref : Push(r)
    \/ \E p \in Process :
          \/ Tag(p) \/ ResolveFile(p) \/ EndRun(p) \/ Saving(p) \/ Crash(p)
          \/ \E g \in Goroutine : Resolve(p, g) \/ Resolving(p, g)

Spec == Init /\ [][Next]_vars

(***************************************************************************)
(* Properties                                                              *)
(***************************************************************************)

(* Every variable has its type, and a database is open when it is used.    *)
TypeOK ==
    /\ made \in 1 .. MaxManifests
    /\ registry \in Content
    /\ file \in Content
    /\ lock \in Process \cup {NoProcess}
    /\ kind \in [Process -> Kind]
    /\ pc \in [Process -> {"new", "resolving", "running", "persist", "locked",
                           "truncated", "written", "failed", "ended", "crashed"}]
    /\ db \in [Process -> Content \cup {NotOpen}]
    /\ fetch \in [Process -> [Goroutine -> Fetch \cup {Idle}]]
    /\ resolves \in [Process -> 0 .. MaxResolves]
    /\ answers \in [Process -> [Ref -> SUBSET (Manifest \ {0})]]
    /\ acked \in Content
    /\ stale \in [Process -> SUBSET Ref]
    /\ overwritten \in SUBSET Ref
    /\ torn \in BOOLEAN

(* The store loses, or takes back to an older manifest, what a process has *)
(* written only through a process that had opened it before that write, or *)
(* in the middle of one, or through one that ended between truncating and  *)
(* writing: processes that follow each other lose nothing, although the    *)
(* file is truncated before it is merged (run/provider.go:182-195).        *)
LossNeedsOverlap ==
    Truncated \/ torn \/ \A r \in Ref : file[r] = acked[r] \/ r \in overwritten

(* A process that has written has saved every pipeline it was given, in a  *)
(* version it was given, whichever provider and goroutine got it           *)
(* (run/provider.go:112-145); or one that it pulled as well and could not  *)
(* decode, which is added all the same (run/provider.go:145).              *)
AnswersAreStored ==
    \A p \in Process, r \in Ref :
        pc[p] = "written" /\ answers[p][r] # {} => file[r] \in answers[p][r] \cup Unreadable

(* A run that is not told to pull always never asks the registry for a     *)
(* reference that was answered before the call began, in whichever         *)
(* goroutine (run/provider.go:151-157).                                    *)
NoSecondPull ==
    [][\A p \in Process, g \in Goroutine :
          Pull(p, g) /\ kind[p] = "missing"
              => ~fetch[p][g].known]_vars

=============================================================================
