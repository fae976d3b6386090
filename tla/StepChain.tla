------------------------------ MODULE StepChain ------------------------------
(***************************************************************************)
(* The chain of processors of a step (internal/run/pipeline.go) and the    *)
(* step context it passes on and gets back (internal/processor).           *)
(*                                                                         *)
(* A step context is a Go struct that is copied at every call, but its     *)
(* maps and its template are references: `heap` holds what they refer to,  *)
(* a context holds their addresses.  A thread is a goroutine; its stack    *)
(* has a frame for every step whose chain it is in, and a frame stands at  *)
(* one processor, on the way down to the container or on the way back.     *)
(* What a processor keeps in its closure meanwhile is in `saved`.          *)
(*                                                                         *)
(* Which errors cancel what, pools and the budget of retries are the       *)
(* subject of Concurrent, Matrix and Pipe; timeouts that of StepLifecycle. *)
(***************************************************************************)
EXTENDS Naturals, Sequences, FiniteSets

CONSTANT Programs   \* the pipelines explored, functions from names to steps

\* The steps that a pipeline refers to exist, and its entry point does.
ProgramsAssumption ==
    \A p \in Programs :
        /\ "main" \in DOMAIN p /\ "" \notin DOMAIN p /\ IsFiniteSet(DOMAIN p)
        /\ \A s \in DOMAIN p :
            /\ \A refs \in {p[s].and, p[s].concurrent, p[s].needs} : refs \in Seq(DOMAIN p)
            /\ p[s].inherit \in DOMAIN p \cup {""}
            /\ p[s].retry \in Nat /\ p[s].run \in BOOLEAN /\ IsFiniteSet(p[s].matrix)
ASSUME ProgramsAssumption

VARIABLES
    prog,       \* the pipeline
    heap,       \* what the maps and templates of the contexts hold
    threads,    \* the goroutines
    ran         \* history: what each container was given

vars == <<prog, heap, threads, ran>>

\* A step of which every option is left out.  `main` is the entry point;
\* an inherited pipeline is a name of its entry point in the same function.
Plain == [run |-> TRUE, and |-> <<>>, concurrent |-> <<>>, inherit |-> "",
          inputs |-> {}, env |-> {}, secret |-> {}, outputs |-> {},
          publishes |-> {}, matrix |-> {}, retry |-> 0, soft |-> FALSE,
          cond |-> FALSE, blacklisted |-> FALSE, image |-> "",
          needs |-> <<>>, redirect |-> {}]

Group == [Plain EXCEPT !.run = FALSE]

\* The order of stepPipeline, and the innermost `next`.
Order == [recover |-> 1, retry |-> 2, result |-> 3, inputs |-> 4, env |-> 5, secret |-> 6,
          outputs |-> 7, matrix |-> 8, output |-> 9, blacklist |-> 10, soft |-> 11,
          done |-> 12, if |-> 13, template |-> 14, needs |-> 15, redirect |-> 16,
          run |-> 17, inherit |-> 18, and |-> 19, concurrent |-> 20, end |-> 21]

\* The processors of a step; a builder that has nothing to do for the step
\* returns nil and Builder leaves it out.
Processors(step) ==
    {"recover", "result", "env", "secret", "blacklist", "done", "template", "end"}
        \cup {p \in {"retry"} : step.retry > 0}
        \cup {p \in {"inputs"} : step.inputs # {}}
        \cup {p \in {"outputs"} : step.outputs # {}}
        \cup {p \in {"matrix"} : step.matrix # {}}
        \cup {p \in {"output"} : step.run \/ step.inherit # ""}
        \cup {p \in {"soft"} : step.soft}
        \cup {p \in {"if"} : step.cond}
        \cup {p \in {"needs"} : step.needs # <<>>}
        \cup {p \in {"redirect"} : step.redirect # {}}
        \cup {p \in {"run"} : step.run}
        \cup {p \in {"inherit"} : step.inherit # ""}
        \cup {p \in {"and"} : step.and # <<>>}
        \cup {p \in {"concurrent"} : step.concurrent # <<>>}

\* The chain of a step: the processor that p calls, and the one that called p.
Inner(step, p) ==
    CHOOSE q \in Processors(step) :
        /\ Order[p] < Order[q]
        /\ \A r \in Processors(step) : Order[p] < Order[r] => Order[q] <= Order[r]
Outer(step, p) ==
    CHOOSE q \in Processors(step) :
        /\ Order[q] < Order[p]
        /\ \A r \in Processors(step) : Order[r] < Order[p] => Order[r] <= Order[q]

-----------------------------------------------------------------------------
(* Contexts and their maps.                                                *)

VarMaps == {"env", "secret", "inputs"}
Maps == VarMaps \cup {"outs", "steps", "containers"}
Kinds == Maps \cup {"template"}

EmptyMap == [x \in {} |-> x]

\* m[k] = v, and maps.Copy.
Assign(m, k, v) == [x \in DOMAIN m \cup {k} |-> IF x = k THEN v ELSE m[x]]
MapsCopy(dst, src) ==
    [x \in DOMAIN dst \cup DOMAIN src |-> IF x \in DOMAIN src THEN src[x] ELSE dst[x]]

Nil == <<"nil">>
Discard == <<"discard">>

\* The template that a Template processor was built with.
Global(s) == <<<<>>, "global", s>>

\* An address that thread t has not used for a map of this kind.
Fresh(t, k, h) ==
    <<t, k, CHOOSE n \in 0 .. Cardinality(DOMAIN h) : <<t, k, n>> \notin DOMAIN h>>

\* Make a map of kind k with content m.
Make(t, k, m, h) == Assign(h, Fresh(t, k, h), m)

\* NewContext, in thread t: its maps are new, it has no context.Context.  `whole`
\* is history: the namespace is that of every matrix and every inherited pipeline
\* that the context has come through.  The additional writers are files that are
\* open, `files`, and files that are not any more, `closed`.
NewContext(t, h) ==
    [env |-> Fresh(t, "env", h), secret |-> Fresh(t, "secret", h),
     inputs |-> Fresh(t, "inputs", h), outs |-> Fresh(t, "outs", h),
     steps |-> Fresh(t, "steps", h), containers |-> Fresh(t, "containers", h),
     template |-> Nil, ns |-> <<>>, uname |-> <<>>, expanding |-> "", alive |-> FALSE,
     outlist |-> {}, tags |-> {}, stdout |-> Nil, stderr |-> Nil, files |-> {},
     closed |-> {}, whole |-> FALSE]

NewHeap(t, h) == MapsCopy(h, [a \in {Fresh(t, k, h) : k \in Maps} |-> EmptyMap])

\* DeepCopy for thread t: the maps are cloned and the template is copied; the
\* entries of `steps` are pointers, their maps stay shared.
Cloned(c) == IF c.template = Nil THEN Maps ELSE Kinds

\* Mutant: the environment stays shared.
ClonedButEnv(c) == Cloned(c) \ {"env"}

Copied(c) == Cloned(c)
DeepCopy(t, c, h) ==
    [f \in DOMAIN c |-> IF f \in Copied(c) THEN Fresh(t, f, h) ELSE c[f]]
DeepCopyHeap(t, c, h) ==
    MapsCopy(h, [a \in {Fresh(t, k, h) : k \in Copied(c)} |-> h[c[a[2]]]])

\* Mutant: a second namespace replaces the first.
WithLastNamespace(c, n) == [c EXCEPT !.ns = <<n>>]

WithNamespace(c, n) == [c EXCEPT !.ns = Append(@, n)]

\* mergeTemplate: what is set stays.
MergeTemplate(to, from) == IF to = "" THEN from ELSE to

\* Merge: the entries of c's maps are copied into t's, except the outputs.
MergeHeap(t, c, h) ==
    [a \in DOMAIN h |->
        IF a = t.template /\ c.template # Nil THEN MergeTemplate(h[a], h[c.template])
        ELSE IF \E k \in VarMaps \cup {"steps", "containers"} : a = t[k]
             THEN LET k == CHOOSE k \in Maps : a = t[k] IN MapsCopy(h[a], h[c[k]])
             ELSE h[a]]

-----------------------------------------------------------------------------
(* Threads.                                                                *)

\* A frame: the step, the processor it stands at, what its processors saved,
\* what its container writes to the files of the step.  `given` and `unrestored`
\* are history: what the maps of variables held when the chain was entered, and
\* which of them an error has left as the step had changed them.
NewFrame(s, c, h) ==
    [step |-> s, at |-> "recover", saved |-> EmptyMap, published |-> [k \in {"env", "secret"} |-> {}],
     given |-> [k \in VarMaps |-> h[c[k]]], unrestored |-> {}]

NewThread(s, c, h, path) ==
    [stack |-> <<NewFrame(s, c, h)>>, ctx |-> c, err |-> "ok", dir |-> "down",
     path |-> path]

Top(th) == th.stack[Len(th.stack)]
SetTop(th, f) == [th EXCEPT !.stack[Len(th.stack)] = f]

\* The processor that thread t stands at.
Proc(t) == Top(threads[t]).at

At(t, dir, p) == threads[t].dir = dir /\ Proc(t) = p
Ctx(t) == threads[t].ctx
Err(t) == threads[t].err
Frame(t) == Top(threads[t])
Options(t) == prog[Frame(t).step]
Saved(t, p) == Frame(t).saved[p]

\* The steps that thread t is in, outermost first.
Path(t) == threads[t].path \o [i \in DOMAIN threads[t].stack |-> threads[t].stack[i].step]

Abort(e) == e \in {"hard", "panic"}

\* The frame goes on to the inner processor.
Onward(f) == [f EXCEPT !.at = Inner(prog[f.step], @)]

\* The processor keeps v while the inner ones run, and drops it when it returns.
Keep(f, v) == [f EXCEPT !.saved = Assign(@, f.at, v)]
Drop(f) == [f EXCEPT !.saved = [p \in DOMAIN @ \ {f.at} |-> @[p]]]

\* `return next(ctx)`, keeping v for the way back.
Forward(t, c, v) ==
    threads' = [threads EXCEPT ![t] =
        SetTop([@ EXCEPT !.ctx = c], Onward(Keep(Top(@), v)))]

\* `return c, e`: on to the processor before, or, from the first one, to the
\* step that called this one or to the end of the goroutine.
Returned(th, c, e) ==
    LET back == [th EXCEPT !.ctx = c, !.err = e, !.dir = "up"]
        f == Top(th)
    IN  IF f.at # "recover" THEN SetTop(back, [Drop(f) EXCEPT !.at = Outer(prog[f.step], @)])
        ELSE IF Len(th.stack) = 1 THEN [back EXCEPT !.dir = "done"]
        ELSE [back EXCEPT !.stack = SubSeq(@, 1, Len(@) - 1)]

Return(t, c, e) == threads' = [threads EXCEPT ![t] = Returned(@, c, e)]

\* A panic unwinds the chain to Recover, which returns the context it was
\* called with and makes it an error.
Panicked(th) ==
    Returned(SetTop(th, [Top(th) EXCEPT !.at = "recover"]), Top(th).saved["recover"], "panic")

Panic(t) == threads' = [threads EXCEPT ![t] = Panicked(@)]

\* Call the entry point of step s; v is kept by the calling processor.
Called(th, s, c, h, v) ==
    LET kept == SetTop(th, Keep(Top(th), v))
    IN  [kept EXCEPT !.ctx = c, !.dir = "down", !.stack = Append(@, NewFrame(s, c, h))]

Call(t, s, c, h, v) ==
    threads' = [threads EXCEPT ![t] = Called(@, s, c, h, v)]

-----------------------------------------------------------------------------
(* Recover, retry, result.                                                 *)

EnterRecover(t) ==
    /\ At(t, "down", "recover")
    /\ Forward(t, Ctx(t), Ctx(t))
    /\ UNCHANGED <<prog, heap, ran>>

LeaveRecover(t) ==
    /\ At(t, "up", "recover")
    /\ Return(t, Ctx(t), Err(t))
    /\ UNCHANGED <<prog, heap, ran>>

\* retry.Do asks the context for Done before the first attempt.
EnterRetry(t) ==
    /\ At(t, "down", "retry")
    /\ IF Ctx(t).alive THEN Forward(t, Ctx(t), [left |-> Options(t).retry, ctx |-> Ctx(t)])
                       ELSE Panic(t)
    /\ UNCHANGED <<prog, heap, ran>>

\* Any error is retried, on the context that the last attempt returned but
\* with the context.Context that retry.Do was called with.
LeaveRetry(t) ==
    /\ At(t, "up", "retry")
    /\ LET v == Saved(t, "retry")
           again == [Ctx(t) EXCEPT !.expanding = v.ctx.expanding]
       IN  \/ /\ Err(t) # "ok"
              /\ v.left > 0
              /\ threads' = [threads EXCEPT ![t] =
                    SetTop([@ EXCEPT !.dir = "down", !.err = "ok", !.ctx = again],
                           Onward(Keep(Top(@), [left |-> v.left - 1, ctx |-> v.ctx])))]
           \/ /\ Err(t) = "ok" \/ v.left = 0
              /\ Return(t, Ctx(t), Err(t))
    /\ UNCHANGED <<prog, heap, ran>>

EnterResult(t) ==
    /\ At(t, "down", "result")
    /\ Forward(t, [Ctx(t) EXCEPT !.uname = Append(Ctx(t).ns, Frame(t).step)], TRUE)
    /\ UNCHANGED <<prog, heap, ran>>

\* The step is recorded; its name and its namespace are cleared, also in the
\* record, which points to the same struct.
Cleared(c) == [c EXCEPT !.uname = <<>>, !.ns = <<>>, !.whole = FALSE]

LeaveResult(t) ==
    /\ At(t, "up", "result")
    /\ LET c == Cleared(Ctx(t))
       IN  /\ heap' = [heap EXCEPT ![c.steps] =
                          Assign(@, Frame(t).step, [outs |-> c.outs, uname |-> c.uname,
                                                    err |-> Err(t), ended |-> TRUE])]
           /\ Return(t, c, Err(t))
    /\ UNCHANGED <<prog, ran>>

-----------------------------------------------------------------------------
(* Variables: inputs, env, secrets, outputs.                               *)

\* The map of the caller is changed in place; a copy of it is kept.
Declared(s, names) == [x \in names |-> [by |-> s, how |-> "declared"]]
Published(s, names) == [x \in names |-> [by |-> s, how |-> "published"]]

EnterInputs(t) ==
    /\ At(t, "down", "inputs")
    /\ heap' = [heap EXCEPT ![Ctx(t).inputs] =
                               MapsCopy(Declared(Frame(t).step, Options(t).inputs), @)]
    /\ Forward(t, Ctx(t), heap[Ctx(t).inputs])
    /\ UNCHANGED <<prog, ran>>

LeaveInputs(t) ==
    /\ At(t, "up", "inputs")
    /\ heap' = Make(t, "inputs", Saved(t, "inputs"), heap)
    /\ Return(t, [Ctx(t) EXCEPT !.inputs = Fresh(t, "inputs", heap)], Err(t))
    /\ UNCHANGED <<prog, ran>>

\* Mutant: what is kept is the map itself, not a copy.
Aliased(t, k) == MapsCopy(heap[Ctx(t)[k]], Declared(Frame(t).step, Options(t)[k]))

Origin(t, k) == heap[Ctx(t)[k]]

\* EnvVars and SecretVars; what the step declares wins.
EnterVars(t, k) ==
    /\ At(t, "down", k)
    /\ heap' = [heap EXCEPT ![Ctx(t)[k]] = MapsCopy(@, Declared(Frame(t).step, Options(t)[k]))]
    /\ threads' = [threads EXCEPT ![t] =
          SetTop(@, Onward(Keep([Top(@) EXCEPT !.published[k] = {}], Origin(t, k))))]
    /\ UNCHANGED <<prog, ran>>

\* Mutant: what the container wrote is added to the map it was started with.
NotRestored(t, k) ==
    MapsCopy(heap[Ctx(t)[k]], Published(Frame(t).step, Frame(t).published[k]))

\* The copy that was kept, and what the container wrote to the file.
Restored(t, k) == MapsCopy(Saved(t, k), Published(Frame(t).step, Frame(t).published[k]))

LeaveVars(t, k) ==
    /\ At(t, "up", k)
    /\ heap' = Make(t, k, Restored(t, k), heap)
    /\ Return(t, [Ctx(t) EXCEPT ![k] = Fresh(t, k, heap)], Err(t))
    /\ UNCHANGED <<prog, ran>>

\* The file cannot be parsed: the map of the caller stays as it was changed.
LeaveVarsFails(t, k) ==
    /\ At(t, "up", k)
    /\ Frame(t).published[k] # {}
    /\ LET f == [Frame(t) EXCEPT !.unrestored = @ \cup {k}]
       IN  threads' = [threads EXCEPT ![t] = Returned(SetTop(@, f), Ctx(t), "hard")]
    /\ UNCHANGED <<prog, heap, ran>>

EnterOutputs(t) ==
    /\ At(t, "down", "outputs")
    /\ Forward(t, [Ctx(t) EXCEPT !.outlist = @ \cup {<<o, Ctx(t).uname>> : o \in Options(t).outputs}], TRUE)
    /\ UNCHANGED <<prog, heap, ran>>

\* The values are read from the files and written to the map of the caller.
LeaveOutputs(t) ==
    /\ At(t, "up", "outputs")
    /\ heap' = IF Err(t) # "ok" THEN heap
               ELSE [heap EXCEPT ![Ctx(t).outs] =
                        MapsCopy(@, [o \in Options(t).outputs |-> {Frame(t).step}])]
    /\ Return(t, Ctx(t), Err(t))
    /\ UNCHANGED <<prog, ran>>

\* A file cannot be created or read, a value or the name of a file cannot be
\* substituted or decoded, or there is none for an input: variables declared by
\* then stay declared.
PreparationFails(t) ==
    /\ \/ \E p \in VarMaps \cup {"outputs", "redirect"} : At(t, "down", p)
       \/ At(t, "down", "matrix") /\ Ctx(t).expanding # Frame(t).step
       \/ At(t, "up", "outputs") /\ Err(t) = "ok"
    /\ LET p == Proc(t)
           changed == p \in {"env", "secret"}
           f == [Frame(t) EXCEPT !.unrestored = @ \cup (IF changed THEN {p} ELSE {})]
       IN  /\ heap' = IF changed
                      THEN [heap EXCEPT ![Ctx(t)[p]] =
                               MapsCopy(@, Declared(Frame(t).step, Options(t)[p]))]
                      ELSE heap
           /\ threads' = [threads EXCEPT ![t] = Returned(SetTop(@, f), Ctx(t), "hard")]
    /\ UNCHANGED <<prog, ran>>

-----------------------------------------------------------------------------
(* Output, conditions, template.                                           *)

\* The steps of an inherited pipeline write to the output of the step that
\* inherits it.
EnterOutput(t) ==
    /\ At(t, "down", "output")
    /\ LET c == Ctx(t)
           own(w) == IF w = Discard THEN w ELSE <<"term", Frame(t).step>>
       IN  IF "pipeline" \in c.tags THEN Forward(t, c, FALSE)
           ELSE Forward(t, [c EXCEPT !.stdout = own(@), !.stderr = own(@)], TRUE)
    /\ UNCHANGED <<prog, heap, ran>>

LeaveOutput(t) ==
    /\ At(t, "up", "output")
    /\ LET c == IF Saved(t, "output") THEN [Ctx(t) EXCEPT !.stdout = Nil, !.stderr = Nil]
                ELSE Ctx(t)
       IN  Return(t, c, Err(t))
    /\ UNCHANGED <<prog, heap, ran>>

\* What the step wrote last cannot be flushed: its writers stay in the context.
LeaveOutputFails(t) ==
    /\ At(t, "up", "output")
    /\ Saved(t, "output")
    /\ Return(t, Ctx(t), "hard")
    /\ UNCHANGED <<prog, heap, ran>>

\* SkipDone: the context knows of the step that it has failed and not ended.
MarkedDone(t) ==
    LET steps == heap[Ctx(t).steps]
        s == Frame(t).step
    IN  s \in DOMAIN steps /\ steps[s].err # "ok" /\ ~steps[s].ended

\* The step is on the list of steps to skip, is marked, or its condition is
\* false; the condition is evaluated with the context.Context.
Skip(t) ==
    /\ \/ At(t, "down", "blacklist") /\ Options(t).blacklisted
       \/ At(t, "down", "done") /\ MarkedDone(t)
       \/ At(t, "down", "if") /\ Ctx(t).alive
    /\ Return(t, Ctx(t), "soft")
    /\ UNCHANGED <<prog, heap, ran>>

DoNotSkip(t) ==
    /\ \/ At(t, "down", "blacklist") /\ ~Options(t).blacklisted
       \/ At(t, "down", "done") /\ ~MarkedDone(t)
       \/ At(t, "down", "if") /\ Ctx(t).alive
       \/ At(t, "down", "soft")
    /\ Forward(t, Ctx(t), TRUE)
    /\ UNCHANGED <<prog, heap, ran>>

ConditionFails(t) ==
    /\ At(t, "down", "if")
    /\ IF Ctx(t).alive THEN Return(t, Ctx(t), "hard") ELSE Panic(t)
    /\ UNCHANGED <<prog, heap, ran>>

AllowFailure(t) ==
    /\ At(t, "up", "soft")
    /\ Return(t, Ctx(t), IF Err(t) = "ok" THEN "ok" ELSE "soft")
    /\ UNCHANGED <<prog, heap, ran>>

\* The outermost step of a flow takes the template of its own processor, every
\* step adds to it in place, and the pointer is put back.
EnterTemplate(t) ==
    /\ At(t, "down", "template")
    /\ LET a == IF Ctx(t).template = Nil THEN Global(Frame(t).step) ELSE Ctx(t).template
       IN  /\ heap' = [heap EXCEPT ![a] = MergeTemplate(@, Options(t).image)]
           /\ Forward(t, [Ctx(t) EXCEPT !.template = a], Ctx(t).template)
    /\ UNCHANGED <<prog, ran>>

LeaveTemplate(t) ==
    /\ At(t, "up", "template")
    /\ Return(t, [Ctx(t) EXCEPT !.template = Saved(t, "template")], Err(t))
    /\ UNCHANGED <<prog, heap, ran>>

\* The streams of the step go to files as well, and not to the terminal; for
\* either stream it is the standard output that is taken from the terminal.
EnterRedirect(t) ==
    /\ At(t, "down", "redirect")
    /\ LET c == Ctx(t)
       IN  Forward(t, [c EXCEPT !.stdout = Discard,
                                !.files = @ \cup {<<x, Frame(t).step>> : x \in Options(t).redirect}],
                   [stdout |-> c.stdout, stderr |-> c.stderr])
    /\ UNCHANGED <<prog, heap, ran>>

\* A file cannot be opened: the standard output stays taken from the terminal, and
\* the file of the first stream, which is closed, among the writers.
RedirectFails(t) ==
    /\ At(t, "down", "redirect")
    /\ \E stream \in Options(t).redirect :
         LET first == IF stream = "stderr" THEN Options(t).redirect \cap {"stdout"} ELSE {}
             c == [Ctx(t) EXCEPT !.stdout = Discard,
                                 !.closed = @ \cup {<<x, Frame(t).step>> : x \in first}]
         IN  Return(t, c, "hard")
    /\ UNCHANGED <<prog, heap, ran>>

\* Mutant: the files are closed and stay among the writers of the context.
StillRedirected(t) ==
    [Ctx(t) EXCEPT !.stdout = Saved(t, "redirect").stdout,
                   !.stderr = Saved(t, "redirect").stderr,
                   !.files = {f \in @ : f[2] # Frame(t).step},
                   !.closed = @ \cup {f \in Ctx(t).files : f[2] = Frame(t).step}]

Unredirected(t) ==
    [Ctx(t) EXCEPT !.stdout = Saved(t, "redirect").stdout,
                   !.stderr = Saved(t, "redirect").stderr,
                   !.files = {f \in @ : f[2] # Frame(t).step}]

LeaveRedirect(t) ==
    /\ At(t, "up", "redirect")
    /\ Return(t, Unredirected(t), Err(t))
    /\ UNCHANGED <<prog, heap, ran>>

-----------------------------------------------------------------------------
(* Needs, and, inherit: other steps are called.                            *)

\* The next needed step that the context knows no result of, from the i-th.
NextNeeded(t, c, i) ==
    LET needs == Options(t).needs
        left == {j \in i..Len(needs) : needs[j] \notin DOMAIN heap[c.steps]}
    IN  IF left = {} THEN 0 ELSE CHOOSE j \in left : \A k \in left : j <= k

\* It runs on a new context with a copy of the template.
CallNeeded(t, c, i) ==
    LET new == [NewContext(t, heap) EXCEPT !.template = Fresh(t, "template", heap)]
        h == Assign(NewHeap(t, heap), new.template, heap[c.template])
    IN  /\ heap' = h
        /\ Call(t, Options(t).needs[i], new, h, [next |-> i + 1, ctx |-> c])

EnterNeeds(t) ==
    /\ At(t, "down", "needs")
    /\ LET i == NextNeeded(t, Ctx(t), 1)
       IN  IF i = 0 THEN Forward(t, Ctx(t), [next |-> 0]) /\ UNCHANGED heap
                    ELSE CallNeeded(t, Ctx(t), i)
    /\ UNCHANGED <<prog, ran>>

\* What the needed step returned is merged, its outputs are not.
NeededReturns(t) ==
    /\ At(t, "up", "needs")
    /\ Saved(t, "needs").next > 0
    /\ LET c == Saved(t, "needs").ctx
       IN  /\ heap' = MergeHeap(c, [Ctx(t) EXCEPT !.inputs = c.inputs], heap)
           /\ threads' = [threads EXCEPT ![t] =
                  IF Err(t) # "ok" THEN Returned(@, c, Err(t))
                  ELSE SetTop([@ EXCEPT !.ctx = c, !.dir = "merged"], Top(@))]
    /\ UNCHANGED <<prog, ran>>

MoreNeeds(t) ==
    /\ At(t, "merged", "needs")
    /\ LET c == Ctx(t)
           i == NextNeeded(t, c, Saved(t, "needs").next)
           down == [threads[t] EXCEPT !.dir = "down"]
       IN  IF i # 0 THEN CallNeeded(t, c, i)
           ELSE /\ threads' = [threads EXCEPT ![t] =
                      SetTop(down, Onward(Keep(Top(down), [next |-> 0])))]
                /\ UNCHANGED heap
    /\ UNCHANGED <<prog, ran>>

LeaveNeeds(t) ==
    /\ At(t, "up", "needs")
    /\ Saved(t, "needs").next = 0
    /\ Return(t, Ctx(t), Err(t))
    /\ UNCHANGED <<prog, heap, ran>>

\* The references of an `and`, each on the context the one before returned.
EnterAnd(t) ==
    /\ At(t, "down", "and")
    /\ Call(t, Options(t).and[1], Ctx(t), heap, 1)
    /\ UNCHANGED <<prog, heap, ran>>

ReferenceReturns(t) ==
    /\ At(t, "up", "and")
    /\ LET i == Saved(t, "and")
           refs == Options(t).and
       IN  IF i > Len(refs) \/ Abort(Err(t)) THEN Return(t, Ctx(t), Err(t))
           ELSE IF i < Len(refs) THEN Call(t, refs[i + 1], Ctx(t), heap, i + 1)
           ELSE threads' = [threads EXCEPT ![t] =
                    SetTop([@ EXCEPT !.dir = "down"],
                           Onward(Keep(Top(@), i + 1)))]
    /\ UNCHANGED <<prog, heap, ran>>

\* The pipeline is resolved and built and runs on a copy of the context with
\* inputs, steps and containers of its own.
InheritContext(t, c, h) ==
    [WithNamespace(DeepCopy(t, c, h), Frame(t).step) EXCEPT !.tags = @ \cup {"pipeline"}]
InheritHeap(t, c, h) ==
    MapsCopy(DeepCopyHeap(t, c, h),
             [a \in {Fresh(t, k, h) : k \in {"inputs", "steps", "containers"}} |-> EmptyMap])

EnterInherit(t) ==
    /\ At(t, "down", "inherit")
    /\ LET c == Ctx(t)
           h == InheritHeap(t, c, heap)
       IN  \/ /\ heap' = h
              /\ Call(t, Options(t).inherit, InheritContext(t, c, heap), h,
                      [called |-> TRUE, ctx |-> c])
           \/ Return(t, c, "hard") /\ UNCHANGED heap
    /\ UNCHANGED <<prog, ran>>

\* Only the outputs come back.
InheritedReturns(t) ==
    /\ At(t, "up", "inherit")
    /\ Saved(t, "inherit").called
    /\ LET c == Saved(t, "inherit").ctx
       IN  IF Err(t) # "ok" THEN Return(t, c, Err(t)) /\ UNCHANGED heap
           ELSE /\ heap' = [heap EXCEPT ![c.outs] = MapsCopy(@, heap[Ctx(t).outs])]
                /\ threads' = [threads EXCEPT ![t] =
                      SetTop([@ EXCEPT !.dir = "down", !.ctx = c],
                             Onward(Keep(Top(@), [called |-> FALSE])))]
    /\ UNCHANGED <<prog, ran>>

LeaveInherit(t) ==
    /\ At(t, "up", "inherit")
    /\ ~Saved(t, "inherit").called
    /\ Return(t, Ctx(t), Err(t))
    /\ UNCHANGED <<prog, heap, ran>>

-----------------------------------------------------------------------------
(* Run, concurrent, matrix: a container, or goroutines with copies.        *)

\* CreatePod: the driver asks the context.Context.
StartContainer(t) ==
    /\ At(t, "down", "run")
    /\ LET c == Ctx(t)
       IN  IF c.alive
           THEN /\ threads' = [threads EXCEPT ![t].dir = "running"]
                /\ ran' = ran \cup {[step |-> Frame(t).step, path |-> Path(t), uname |-> c.uname,
                                     vars |-> [k \in VarMaps |-> heap[c[k]]],
                                     image |-> heap[c.template],
                                     stdout |-> c.stdout, files |-> c.files,
                                     closed |-> c.closed]}
           ELSE Panic(t) /\ UNCHANGED ran
    /\ UNCHANGED <<prog, heap>>

\* There is no container: nothing is recorded.
StartFails(t) ==
    /\ At(t, "down", "run")
    /\ Ctx(t).alive
    /\ Return(t, Ctx(t), "hard")
    /\ UNCHANGED <<prog, heap, ran>>

\* The container ends, having written to the files of its step or not.
ContainerEnds(t) ==
    /\ At(t, "running", "run")
    /\ heap' = [heap EXCEPT ![Ctx(t).containers] = Assign(@, Frame(t).step, TRUE)]
    /\ \E wrote \in {{}, Options(t).publishes} :
         LET f == [Frame(t) EXCEPT !.published = [k \in {"env", "secret"} |-> wrote]]
             th == SetTop([threads[t] EXCEPT !.dir = "down"], f)
         IN  \/ threads' = [threads EXCEPT ![t] = SetTop(th, Onward(Keep(f, TRUE)))]
             \/ threads' = [threads EXCEPT ![t] = Returned(th, Ctx(t), "hard")]
    /\ UNCHANGED <<prog, ran>>

LeaveRun(t) ==
    /\ At(t, "up", "run")
    /\ Return(t, Ctx(t), Err(t))
    /\ UNCHANGED <<prog, heap, ran>>

\* The innermost `next`.
End(t) ==
    /\ At(t, "down", "end")
    /\ Return(t, Ctx(t), "ok")
    /\ UNCHANGED <<prog, heap, ran>>

Children(t) == {u \in DOMAIN threads : Len(u) = Len(t) + 1 /\ SubSeq(u, 1, Len(t)) = t}

\* A goroutine for every x, with the step and the copy of the context of x.
Fork(t, step, context, c) ==
    LET forked == {Append(t, x) : x \in DOMAIN step}
        h == MapsCopy(heap, [a \in {Fresh(u, k, heap) : u \in forked, k \in Copied(c)} |->
                                heap[c[a[2]]]])
        new == [u \in forked |-> NewThread(step[u[Len(u)]], context[u[Len(u)]], h, Path(t))]
        waiting == SetTop([threads[t] EXCEPT !.ctx = c, !.dir = "waiting"],
                          Keep(Frame(t), "ok"))
    IN  /\ heap' = h
        /\ threads' = MapsCopy([threads EXCEPT ![t] = waiting], new)

EnterConcurrent(t) ==
    /\ At(t, "down", "concurrent")
    /\ LET refs == {Options(t).concurrent[i] : i \in DOMAIN Options(t).concurrent}
           c == Ctx(t)
       IN  IF ~c.alive THEN Panic(t) /\ UNCHANGED heap
           ELSE Fork(t, [x \in refs |-> x],
                     [x \in refs |-> DeepCopy(Append(t, x), c, heap)], c)
    /\ UNCHANGED <<prog, ran>>

\* Its context.Context tells a goroutine that it is an instance; the context of
\* the step itself keeps that value.
Instance(c, s) == [c EXCEPT !.expanding = s]

EnterMatrix(t) ==
    /\ At(t, "down", "matrix")
    /\ LET c == Ctx(t)
           s == Frame(t).step
       IN  IF ~c.alive THEN Panic(t) /\ UNCHANGED heap
           ELSE IF c.expanding = s THEN Forward(t, c, "instance") /\ UNCHANGED heap
           ELSE LET d == Instance(c, s)
                    params == Options(t).matrix
                IN  Fork(t, [x \in params |-> s],
                         [x \in params |->
                             WithNamespace(DeepCopy(Append(t, x), d, heap), x)], d)
    /\ UNCHANGED <<prog, ran>>

\* The outputs of an instance are appended to those of the step.
Unify(new, old) ==
    MapsCopy(old, [o \in DOMAIN new |-> new[o] \cup (IF o \in DOMAIN old THEN old[o] ELSE {})])

\* A result is received; with the last one the step goes on, or ends.
Receive(t, p) ==
    /\ At(t, "waiting", p)
    /\ \E u \in Children(t) :
         LET c == Ctx(t)
             child == threads[u]
             err == IF Abort(child.err) THEN "hard" ELSE Saved(t, p)
             kept == SetTop(threads[t], Keep(Frame(t), err))
             last == Children(t) = {u}
             rest == [v \in DOMAIN threads \ {u} |-> threads[v]]
         IN  /\ child.dir = "done"
             /\ heap' = IF p = "matrix"
                        THEN [heap EXCEPT ![c.steps] = MapsCopy(@, heap[child.ctx.steps]),
                                          ![c.outs] = Unify(heap[child.ctx.outs], @)]
                        ELSE MergeHeap(c, child.ctx, heap)
             /\ threads' = [rest EXCEPT ![t] =
                   IF ~last THEN kept
                   ELSE IF p = "matrix" \/ err # "ok" THEN Returned(kept, c, err)
                   ELSE SetTop([kept EXCEPT !.dir = "down"], Onward(Top(kept)))]
    /\ UNCHANGED <<prog, ran>>

LeaveGroup(t) ==
    /\ At(t, "up", "concurrent") \/ At(t, "up", "matrix")
    /\ Return(t, Ctx(t), Err(t))
    /\ UNCHANGED <<prog, heap, ran>>

\* On the way back the checks of a step do nothing.
LeaveCheck(t) ==
    /\ At(t, "up", "blacklist") \/ At(t, "up", "done") \/ At(t, "up", "if")
    /\ Return(t, Ctx(t), Err(t))
    /\ UNCHANGED <<prog, heap, ran>>

-----------------------------------------------------------------------------

Step(t) ==
    \/ EnterRecover(t) \/ LeaveRecover(t) \/ EnterRetry(t) \/ LeaveRetry(t)
    \/ EnterResult(t) \/ LeaveResult(t) \/ EnterInputs(t) \/ LeaveInputs(t)
    \/ \E k \in {"env", "secret"} :
         EnterVars(t, k) \/ LeaveVars(t, k) \/ LeaveVarsFails(t, k)
    \/ EnterOutputs(t) \/ LeaveOutputs(t) \/ PreparationFails(t)
    \/ EnterOutput(t) \/ LeaveOutput(t) \/ LeaveOutputFails(t)
    \/ Skip(t) \/ DoNotSkip(t) \/ ConditionFails(t) \/ LeaveCheck(t)
    \/ AllowFailure(t) \/ EnterTemplate(t) \/ LeaveTemplate(t)
    \/ EnterRedirect(t) \/ RedirectFails(t) \/ LeaveRedirect(t)
    \/ EnterNeeds(t) \/ NeededReturns(t) \/ MoreNeeds(t) \/ LeaveNeeds(t)
    \/ EnterAnd(t) \/ ReferenceReturns(t)
    \/ EnterInherit(t) \/ InheritedReturns(t) \/ LeaveInherit(t)
    \/ StartContainer(t) \/ StartFails(t) \/ ContainerEnds(t) \/ LeaveRun(t)
    \/ EnterConcurrent(t) \/ EnterMatrix(t) \/ LeaveGroup(t)
    \/ \E p \in {"concurrent", "matrix"} : Receive(t, p)
    \/ End(t)

\* The run layer calls the entry point with a new context.
Init ==
    /\ prog \in Programs
    /\ heap = MapsCopy([a \in {Global(s) : s \in DOMAIN prog} |-> ""],
                       [a \in {<<<<>>, k, 0>> : k \in Maps} |-> EmptyMap])
    /\ LET c == [NewContext(<<>>, EmptyMap) EXCEPT !.alive = TRUE, !.whole = TRUE]
       IN  threads = [t \in {<<>>} |-> NewThread("main", c, heap, <<>>)]
    /\ ran = {}

Finished == threads[<<>>].dir = "done" /\ UNCHANGED vars

Next == (\E t \in DOMAIN threads : Step(t)) \/ Finished

Spec == Init /\ [][Next]_vars

-----------------------------------------------------------------------------
(* Properties.                                                             *)

\* Step s and the steps it calls, directly or not.
Callees(s) ==
    {prog[s].and[i] : i \in DOMAIN prog[s].and}
        \cup {prog[s].concurrent[i] : i \in DOMAIN prog[s].concurrent}
        \cup {prog[s].needs[i] : i \in DOMAIN prog[s].needs}
        \cup ({prog[s].inherit} \ {""})

Below(s) ==
    {r \in DOMAIN prog :
        \A S \in SUBSET DOMAIN prog :
            (s \in S /\ \A x \in S : Callees(x) \subseteq S) => r \in S}

\* A step that does not abort the flow gives its caller the variables it was
\* given and those its own container published, and nothing of what it or the
\* steps it called declared, but for what an attempt left that failed when the
\* variables were to be taken back (env_vars.go:43, 63); and the template,
\* the tags and the files that the context came with (env_vars.go:37,
\* input_vars.go:59, template.go:30).  A file more it gives back if a redirect
\* within it failed, and then it or a step it called retried, or allowed that: the
\* standard output of the redirect, closed (stdio_redirect.go:77-83).
ContextHandedBack ==
    \A t \in DOMAIN threads :
        (At(t, "up", "recover") /\ ~Abort(Err(t))) =>
        LET c == Ctx(t)
            f == Frame(t)
            was == f.saved["recover"]
        IN  /\ heap[c.inputs] = f.given["inputs"]
            /\ \A k \in {"env", "secret"} :
                 /\ DOMAIN f.given[k] \cup f.published[k] \subseteq DOMAIN heap[c[k]]
                 /\ \A x \in DOMAIN heap[c[k]] :
                      \/ heap[c[k]][x] = [by |-> f.step, how |-> "published"]
                      \/ k \in f.unrestored /\ heap[c[k]][x].by \in Below(f.step)
                      \/ /\ x \in DOMAIN f.given[k] \ f.published[k]
                         /\ heap[c[k]][x] = f.given[k][x]
            /\ <<c.template, c.tags, c.files>> = <<was.template, was.tags, was.files>>
            /\ was.closed \subseteq c.closed
            /\ \A x \in c.closed \ was.closed :
                 \E s \in Below(f.step) :
                     x[2] \in Below(s) /\ (prog[s].retry > 0 \/ prog[s].soft)

\* What a container is given was declared by its own step or by a step that
\* called it, never by a sibling, and its own declaration wins over all but what
\* a step it needs has published (env_vars.go:39, needs.go:54).  The exception
\* to the former are steps within one that retries: an attempt that fails before
\* it takes declarations back leaves them to the next, which keeps them as what
\* it was given (env_vars.go:43, 63).
EnvScoped ==
    \A r \in ran, k \in VarMaps :
        /\ \A x \in DOMAIN r.vars[k] :
             LET by == r.vars[k][x].by
             IN  \/ r.vars[k][x].how = "published"
                 \/ \E i \in DOMAIN r.path : r.path[i] = by
                 \/ \E s \in DOMAIN prog : prog[s].retry > 0 /\ by \in Below(s)
        /\ k # "inputs" =>
             \A x \in prog[r.step][k] :
                 \/ r.vars[k][x] = [by |-> r.step, how |-> "declared"]
                 \/ prog[r.step].needs # <<>> /\ r.vars[k][x].how = "published"

\* What the next action of thread t reads and what it writes: ToV1Beta1 reads
\* every map and, through the records of the steps, the outputs of others.
Snapshot(c) ==
    {c[k] : k \in Maps \ {"outs"}} \cup {heap[c.steps][s].outs : s \in DOMAIN heap[c.steps]}

Reads(t) ==
    LET c == Ctx(t)
        snapshot == {"inputs", "env", "matrix", "if", "redirect", "inherit", "run"}
        copied == {"matrix", "needs", "inherit", "concurrent"}
    IN  (IF threads[t].dir = "down" /\ Proc(t) \in snapshot THEN Snapshot(c) ELSE {})
            \cup (IF threads[t].dir = "down" /\ Proc(t) \in copied
                  THEN {c[k] : k \in Kinds} ELSE {})
            \cup (IF At(t, "down", "run") THEN {c.template} ELSE {})

Writes(t) ==
    LET c == Ctx(t)
        merged(d) == {d[k] : k \in Kinds \ {"outs"}} \ {Nil}
    IN  CASE threads[t].dir = "down" /\ Proc(t) \in VarMaps -> {c[Proc(t)]}
          [] At(t, "down", "template") ->
                {IF c.template = Nil THEN Global(Frame(t).step) ELSE c.template}
          [] At(t, "up", "outputs") /\ Err(t) = "ok" -> {c.outs}
          [] At(t, "up", "result") -> {c.steps}
          [] At(t, "running", "run") -> {c.containers}
          [] At(t, "up", "needs") /\ Saved(t, "needs").next > 0 ->
                merged(Saved(t, "needs").ctx)
          [] At(t, "waiting", "concurrent") -> merged(c)
          [] At(t, "up", "inherit") /\ Saved(t, "inherit").called ->
                {Saved(t, "inherit").ctx.outs}
          [] OTHER -> {}

\* While a matrix collects its results it writes the outputs, which records of
\* earlier steps may refer to, and the records.
Collects(t) == IF At(t, "waiting", "matrix") THEN {Ctx(t).steps} ELSE {}

\* The instances of a matrix that is the outermost step start without a template
\* and all take that of the one processor (template.go:33).
Shared == IF prog["main"].matrix = {} THEN {} ELSE {Global("main")}

\* Two goroutines never use one map at the same time if one of them writes it,
\* but for the outputs that a matrix step collects and the template of an
\* outermost matrix (context.go:77).
MapsOwned ==
    \A t, u \in DOMAIN threads :
        t # u => (Writes(t) \cup Collects(t)) \cap
                    (Reads(u) \cup Writes(u) \cup Collects(u)) \subseteq Shared

\* Thread t belongs to instance x of the matrix that thread w waits for.
InstanceOf(t, w, x) ==
    /\ At(w, "waiting", "matrix")
    /\ Len(w) < Len(t) /\ SubSeq(t, 1, Len(w)) = w /\ t[Len(w) + 1] = x

\* The instances of a matrix, and the steps and pipelines that each calls, never
\* run two containers under one name, and so in one directory, at the same time
\* as long as neither has lost its namespace: the end of any step takes it from
\* those that follow (result.go:74, 110).
NamespacedUnique ==
    \A t, u, w \in DOMAIN threads :
        (/\ At(t, "running", "run") /\ Ctx(t).whole
         /\ At(u, "running", "run") /\ Ctx(u).whole
         /\ \E x, y \in prog[Frame(w).step].matrix :
              x # y /\ InstanceOf(t, w, x) /\ InstanceOf(u, w, y))
        => Ctx(t).uname # Ctx(u).uname

\* A container writes to the terminal as its own step or as one that called
\* it, and to no file that a step which is over has redirected to; with its
\* own standard output redirected, not to the terminal (stdio_redirect.go:93).
\* The exception is a step that redirects both streams and cannot open the file
\* of the second: that of its standard output, closed, stays among the writers
\* of those that follow (stdio_redirect.go:77-83).
StreamsOwn ==
    \A r \in ran :
        LET callers == {r.path[i] : i \in DOMAIN r.path}
        IN  /\ r.stdout \in {Discard} \cup {<<"term", s>> : s \in callers}
            /\ \A f \in r.files : f[2] \in callers
            /\ \A f \in r.closed :
                  f[1] = "stdout" /\ {"stdout", "stderr"} \subseteq prog[f[2]].redirect
            /\ "stdout" \in prog[r.step].redirect => r.stdout = Discard
=============================================================================
