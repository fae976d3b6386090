-------------------------- MODULE StepChainMapsProofs --------------------------
(***************************************************************************)
(* Proof that no two goroutines use one map of their contexts at the same  *)
(* time (StepChain), for every pipeline.                                   *)
(*                                                                         *)
(* MapsInv says whose maps a context holds, the contexts that processors   *)
(* keep while they wait included; whose outputs a record of a step refers  *)
(* to; which contexts have a template; and that a goroutine which has      *)
(* started others waits for them.  It is inductive with Shape.             *)
(*                                                                         *)
(* NamesInv says, on top of that, which namespaces and names contexts have *)
(* that have come down through a matrix, so that no two of its instances   *)
(* run a container under one name.                                         *)
(***************************************************************************)
EXTENDS StepChainProofs, FiniteSetTheorems

-----------------------------------------------------------------------------
(* The maps that contexts refer to.                                        *)

IsAddress(a, t, k) == Len(a) = 3 /\ a[1] = t /\ a[2] = k

\* The contexts that a processor holds while it waits, in what it has kept.
Holds(p, v) ==
    IF p = "recover" THEN {v}
    ELSE IF p = "retry" \/ Foreign(p, v) THEN {v.ctx}
    ELSE {}

FrameHolds(f) == UNION {Holds(p, f.saved[p]) : p \in DOMAIN f.saved}
Held(th) == {th.ctx} \cup UNION {FrameHolds(th.stack[i]) : i \in 1 .. Len(th.stack)}

\* The context has the maps of thread t, all of them in D.
OwnMaps(t, c, D) == \A k \in Maps : IsAddress(c[k], t, k) /\ c[k] \in D

HeldOwn(t, th, D) == \A c \in Held(th) : OwnMaps(t, c, D)

Prefix(v, u) == Len(v) <= Len(u) /\ \A i \in 1 .. Len(v) : v[i] = u[i]

\* The outputs that the record of a step refers to, found by thread v: when they are
\* those of a thread that lives, it is one that waits for v, or v.
HoldsOuts(th, r) == \E c \in Held(th) : c.outs = r
RecordOf(r, v, D, ths) ==
    /\ Len(r) = 3 /\ r[2] = "outs" /\ r \in D
    /\ \A w \in DOMAIN ths : HoldsOuts(ths[w], r) => Prefix(w, v)

IsSteps(a) == Len(a) = 3 /\ a[2] = "steps"
RecordsOf(h, ths) ==
    \A a \in DOMAIN h : IsSteps(a) =>
        \A s \in DOMAIN h[a] : RecordOf(h[a][s].outs, a[1], DOMAIN h, ths)

\* Templates: a thread has one of its own but where it is the first one, or an
\* instance of an outermost matrix, and then it may have none or that of the processor.
SharesTemplate(P, t) == t = <<>> \/ P["main"].matrix # {}

TemplateOf(P, t, x, i, s) ==
    \/ IsAddress(x, t, "template")
    \/ x = Global("main") /\ SharesTemplate(P, t)
    \/ x = Nil /\ SharesTemplate(P, t) /\ i = 1 /\ s = "main"

OwnTemplate(P, t, x) ==
    \/ IsAddress(x, t, "template")
    \/ x = Global("main") /\ SharesTemplate(P, t)

\* What processor p of the i-th frame, one of step s, has kept.
KeptTemplate(P, t, p, v, i, s) ==
    /\ p = "recover" => TemplateOf(P, t, v.template, i, s)
    /\ p = "template" => TemplateOf(P, t, v, i, s)
    /\ p \in {"needs", "inherit"} /\ Foreign(p, v) => OwnTemplate(P, t, v.ctx.template)

FrameTemplates(P, t, f, i) ==
    \A p \in DOMAIN f.saved : KeptTemplate(P, t, p, f.saved[p], i, f.step)

\* Below its template processor a step has a template.
TopTemplate(P, t, x, i, s, saved) ==
    /\ TemplateOf(P, t, x, i, s)
    /\ "template" \in saved => x # Nil

ThreadTemplates(P, t, th) ==
    th.dir # "done" =>
        /\ \A i \in 1 .. Len(th.stack) : FrameTemplates(P, t, th.stack[i], i)
        /\ TopTemplate(P, t, th.ctx.template, Len(th.stack), Top(th).step, DOMAIN Top(th).saved)

\* A thread that has started others waits for them, and lives as long as they do.
WaitsFor(ths, w) ==
    \A i \in 0 .. Len(w) - 1 :
        SubSeq(w, 1, i) \in DOMAIN ths /\ ths[SubSeq(w, 1, i)].dir = "waiting"

MapsInv ==
    /\ IsFiniteSet(DOMAIN heap)
    /\ \A t \in DOMAIN threads : HeldOwn(t, threads[t], DOMAIN heap)
    /\ \A t \in DOMAIN threads : ThreadTemplates(prog, t, threads[t])
    /\ RecordsOf(heap, threads)
    /\ \A t \in DOMAIN threads : WaitsFor(threads, t)

LEMMA AddressesDiffer ==
    /\ \A a, t, u, j, k : IsAddress(a, t, j) /\ IsAddress(a, u, k) => t = u /\ j = k
    /\ \A t, k : ~IsAddress(Nil, t, k)
    /\ \A s, t, k : k \in Kinds => ~IsAddress(Global(s), t, k)
    /\ \A s : Global(s) # Nil
<1>1. \A a, t, u, j, k : IsAddress(a, t, j) /\ IsAddress(a, u, k) => t = u /\ j = k
  BY DEF IsAddress
<1>2. Len(Nil) = 1 /\ \A s : Len(Global(s)) = 3 /\ Global(s)[2] = "global"
  BY DEF Nil, Global
<1>3. \A t, k : ~IsAddress(Nil, t, k)
  BY <1>2 DEF IsAddress
<1>4. "global" \notin Kinds
  BY DEF Kinds, Maps, VarMaps
<1>5. \A s, t, k : k \in Kinds => ~IsAddress(Global(s), t, k)
  BY <1>2, <1>4 DEF IsAddress
<1>6. \A s : Global(s) # Nil
  BY <1>2
<1> QED BY <1>1, <1>3, <1>5, <1>6

\* There is always an address that has not been used.
LEMMA FreshAddress ==
    ASSUME NEW t, NEW k, NEW h, IsFiniteSet(DOMAIN h)
    PROVE IsAddress(Fresh(t, k, h), t, k) /\ Fresh(t, k, h) \notin DOMAIN h
<1> DEFINE m == Cardinality(DOMAIN h)
           address == [n \in 0 .. m |-> <<t, k, n>>]
<1>1. m \in Nat
  BY FS_CardinalityType
<1>2. IsFiniteSet(0 .. m) /\ Cardinality(0 .. m) = m + 1
  BY <1>1, FS_Interval
<1>3. \E n \in 0 .. m : <<t, k, n>> \notin DOMAIN h
  <2> SUFFICES ASSUME \A n \in 0 .. m : <<t, k, n>> \in DOMAIN h
               PROVE FALSE
    OBVIOUS
  <2>1. address \in [0 .. m -> DOMAIN h]
    OBVIOUS
  <2>2. \A x, y \in 0 .. m : address[x] = address[y] => x = y
    OBVIOUS
  <2>3. Cardinality(DOMAIN h) < Cardinality(0 .. m)
    BY <1>1, <1>2
  <2> DEFINE S == 0 .. m
             T == DOMAIN h
  <2>4. IsFiniteSet(S) /\ IsFiniteSet(T) /\ Cardinality(T) < Cardinality(S)
          /\ address \in [S -> T]
    BY <1>2, <2>1, <2>3
  <2>5. \A x, y \in S : address[x] = address[y] => x = y
    BY <2>2
  <2> HIDE DEF address, S, T
  <2> QED BY <2>4, <2>5, FS_PigeonHole
<1> DEFINE n == CHOOSE n \in 0 .. m : <<t, k, n>> \notin DOMAIN h
<1>4. <<t, k, n>> \notin DOMAIN h
  BY <1>3
<1>5. Fresh(t, k, h) = <<t, k, n>>
  BY DEF Fresh
<1> HIDE DEF n
<1> QED BY <1>4, <1>5 DEF IsAddress

-----------------------------------------------------------------------------
(* What a thread holds.                                                    *)

LEMMA HeldStack ==
    ASSUME NEW new, NEW S,
           \A i \in 1 .. Len(new.stack) : FrameHolds(new.stack[i]) \subseteq S
    PROVE Held(new) \subseteq {new.ctx} \cup S
  BY DEF Held

LEMMA HeldOf ==
    ASSUME NEW th, IsSeq(th.stack), Len(th.stack) > 0
    PROVE /\ th.ctx \in Held(th)
          /\ \A i \in 1 .. Len(th.stack) : FrameHolds(th.stack[i]) \subseteq Held(th)
          /\ FrameHolds(Top(th)) \subseteq Held(th)
<1>1. Len(th.stack) \in 1 .. Len(th.stack)
  BY SeqType
<1> QED BY <1>1 DEF Held, Top

LEMMA FrameHoldsType ==
    ASSUME NEW f, DOMAIN f = FrameFields
    PROVE /\ \A v : FrameHolds(Keep(f, v)) \subseteq Holds(f.at, v) \cup FrameHolds(f)
          /\ FrameHolds(Drop(f)) \subseteq FrameHolds(f)
          /\ \A g : g.saved = f.saved => FrameHolds(g) = FrameHolds(f)
          /\ \A p \in DOMAIN f.saved : Holds(p, f.saved[p]) \subseteq FrameHolds(f)
          /\ \A s, c, h : FrameHolds(NewFrame(s, c, h)) = {}
<1>1. ASSUME NEW v
      PROVE FrameHolds(Keep(f, v)) \subseteq Holds(f.at, v) \cup FrameHolds(f)
  BY KeepType DEF FrameHolds
<1>2. FrameHolds(Drop(f)) \subseteq FrameHolds(f)
  BY DropType DEF FrameHolds
<1>3. \A g : g.saved = f.saved => FrameHolds(g) = FrameHolds(f)
  BY DEF FrameHolds
<1>4. \A p \in DOMAIN f.saved : Holds(p, f.saved[p]) \subseteq FrameHolds(f)
  BY DEF FrameHolds
<1>5. \A s, c, h : FrameHolds(NewFrame(s, c, h)) = {}
  BY DEF FrameHolds, NewFrame, EmptyMap
<1> QED BY <1>1, <1>2, <1>3, <1>4, <1>5

\* The frame on top goes on.
LEMMA OnwardHeld ==
    ASSUME NEW th, ThreadShape(prog, th), th.dir # "done",
           NEW old, NEW f, NEW v,
           old.stack = th.stack, old.path = th.path, DOMAIN old = ThreadFields,
           IsContext(old.ctx), old.dir = "down",
           FrameShape(prog, f), SameFrame(f, Top(th)), f.at # "end", Kept(f.at, v)
    PROVE Held(SetTop(old, Onward(Keep(f, v))))
             \subseteq {old.ctx} \cup Holds(f.at, v) \cup Held(th)
<1> DEFINE g == Onward(Keep(f, v))
           new == SetTop(old, g)
           S == Holds(f.at, v) \cup Held(th)
<1>1. /\ Top(new) = g
      /\ Len(new.stack) = Len(th.stack)
      /\ \A i \in 1 .. Len(th.stack) - 1 : new.stack[i] = th.stack[i]
      /\ new.ctx = old.ctx
  BY OnwardShape DEF SameFrame
<1>2. IsSeq(th.stack) /\ Len(th.stack) > 0 /\ Len(th.stack) \in Nat
  BY SeqType DEF ThreadShape, ThreadType
<1>3. FrameHolds(g) \subseteq S
  <2>1. DOMAIN f = FrameFields /\ DOMAIN Keep(f, v) = FrameFields
    BY KeepType DEF FrameShape, FrameFields
  <2>2. g.saved = Keep(f, v).saved
    BY <2>1 DEF Onward, FrameFields
  <2> HIDE DEF g
  <2>3. FrameHolds(g) = FrameHolds(Keep(f, v))
    BY <2>1, <2>2, FrameHoldsType
  <2>4. FrameHolds(Keep(f, v)) \subseteq Holds(f.at, v) \cup FrameHolds(f)
    BY <2>1, FrameHoldsType
  <2>5. FrameHolds(f) = FrameHolds(Top(th))
    BY DEF FrameHolds, SameFrame
  <2>6. FrameHolds(Top(th)) \subseteq Held(th)
    BY <1>2, HeldOf
  <2> QED BY <2>3, <2>4, <2>5, <2>6
<1> HIDE DEF g, new, S
<1>4. ASSUME NEW i \in 1 .. Len(new.stack)
      PROVE FrameHolds(new.stack[i]) \subseteq S
  <2>1. CASE i = Len(th.stack)
    BY <1>1, <1>3, <2>1 DEF Top
  <2>2. CASE i # Len(th.stack)
    <3>1. i \in 1 .. Len(th.stack) - 1 /\ i \in 1 .. Len(th.stack)
      BY <1>1, <1>2, <2>2
    <3> QED BY <1>1, <1>2, <3>1, HeldOf DEF S
  <2> QED BY <2>1, <2>2
<1>5. Held(new) \subseteq {new.ctx} \cup S
  BY <1>4, HeldStack
<1> QED BY <1>1, <1>5 DEF new, g, S

LEMMA FramesOf ==
    ASSUME NEW th, ThreadShape(prog, th)
    PROVE /\ DOMAIN th = ThreadFields /\ IsSeq(th.stack) /\ Len(th.stack) > 0
          /\ Len(th.stack) \in Nat /\ IsContext(th.ctx)
          /\ th.dir # "done" =>
                /\ FrameShape(prog, Top(th)) /\ TopShape(prog, Top(th), th.dir)
                /\ DOMAIN Top(th) = FrameFields
                /\ Top(th).at # "recover" => "recover" \in DOMAIN Top(th).saved
<1>1. /\ DOMAIN th = ThreadFields /\ IsSeq(th.stack) /\ Len(th.stack) > 0
      /\ Len(th.stack) \in Nat /\ IsContext(th.ctx)
  BY SeqType DEF ThreadShape, ThreadType
<1>2. ASSUME th.dir # "done"
      PROVE FrameShape(prog, Top(th)) /\ TopShape(prog, Top(th), th.dir)
              /\ DOMAIN Top(th) = FrameFields
  BY <1>2 DEF ThreadShape, FrameShape, FrameFields
<1>3. ASSUME th.dir # "done", Top(th).at # "recover"
      PROVE "recover" \in DOMAIN Top(th).saved
  <2> DEFINE f == Top(th)
  <2>1. FrameShape(prog, f) /\ TopShape(prog, f, th.dir) /\ f.at # "recover"
    BY <1>2, <1>3
  <2> HIDE DEF f
  <2>2. "recover" \in DOMAIN f.saved
    BY <2>1, SavedOrder
  <2> QED BY <2>2 DEF f
<1> QED BY <1>1, <1>2, <1>3

\* The step is over.
LEMMA OutHeld ==
    ASSUME NEW th, ThreadShape(prog, th), th.dir # "done",
           NEW old, DOMAIN old = ThreadFields, old.path = th.path,
           IsSeq(old.stack), Len(old.stack) = Len(th.stack), Top(old).at = "recover",
           \A i \in 1 .. Len(th.stack) - 1 : old.stack[i] = th.stack[i],
           FrameHolds(Top(old)) \subseteq Held(th),
           NEW c, IsContext(c), NEW e
    PROVE Held(Returned(old, c, e)) \subseteq {c} \cup Held(th)
<1> DEFINE back == [old EXCEPT !.ctx = c, !.err = e, !.dir = "up"]
           new == Returned(old, c, e)
<1>1. /\ DOMAIN back = ThreadFields /\ back.stack = old.stack /\ back.ctx = c
      /\ Len(th.stack) > 0 /\ Len(th.stack) \in Nat /\ IsSeq(th.stack)
  BY FramesOf DEF ThreadFields
<1> HIDE DEF back, new
<1>2. CASE Len(th.stack) = 1
  <2>1. new = [back EXCEPT !.dir = "done"]
    BY <1>2 DEF Returned, back, new
  <2>2. new.stack = old.stack /\ new.ctx = c /\ Len(new.stack) = 1
    BY <1>1, <1>2, <2>1 DEF ThreadFields
  <2>3. \A i \in 1 .. Len(new.stack) : FrameHolds(new.stack[i]) \subseteq Held(th)
    <3>1. \A i \in 1 .. Len(new.stack) : new.stack[i] = Top(old)
      BY <2>2 DEF Top
    <3> QED BY <3>1
  <2>4. Held(new) \subseteq {new.ctx} \cup Held(th)
    BY <2>3, HeldStack
  <2> QED BY <2>2, <2>4 DEF new
<1>3. CASE Len(th.stack) # 1
  <2>1. new = [back EXCEPT !.stack = SubSeq(@, 1, Len(@) - 1)]
    BY <1>3 DEF Returned, back, new
  <2>2. new.stack = SubSeq(old.stack, 1, Len(old.stack) - 1) /\ new.ctx = c
    BY <1>1, <2>1 DEF ThreadFields
  <2>3. /\ Len(new.stack) = Len(old.stack) - 1
        /\ \A i \in 1 .. Len(old.stack) - 1 : new.stack[i] = old.stack[i]
    BY <1>1, <2>2, Popped
  <2>4. \A i \in 1 .. Len(new.stack) : FrameHolds(new.stack[i]) \subseteq Held(th)
    <3>1. \A i \in 1 .. Len(new.stack) : new.stack[i] = th.stack[i] /\ i \in 1 .. Len(th.stack)
      BY <1>1, <2>3
    <3> QED BY <1>1, <3>1, HeldOf
  <2>5. Held(new) \subseteq {new.ctx} \cup Held(th)
    BY <2>4, HeldStack
  <2> QED BY <2>2, <2>5 DEF new
<1> QED BY <1>2, <1>3

LEMMA ReturnedHeld ==
    ASSUME NEW th, ThreadShape(prog, th), th.dir # "done", NEW c, IsContext(c), NEW e
    PROVE Held(Returned(th, c, e)) \subseteq {c} \cup Held(th)
<1> DEFINE f == Top(th)
           g == [Drop(f) EXCEPT !.at = Outer(prog[f.step], @)]
           new == Returned(th, c, e)
<1>0. /\ DOMAIN th = ThreadFields /\ IsSeq(th.stack) /\ Len(th.stack) > 0
      /\ Len(th.stack) \in Nat /\ DOMAIN f = FrameFields
  BY FramesOf
<1>1. CASE f.at = "recover"
  <2>1. FrameHolds(Top(th)) \subseteq Held(th)
    BY <1>0, HeldOf
  <2> QED BY <1>0, <1>1, <2>1, OutHeld
<1>2. CASE f.at # "recover"
  <2>1. /\ Top(new) = g /\ Len(new.stack) = Len(th.stack) /\ new.ctx = c
        /\ \A i \in 1 .. Len(th.stack) - 1 : new.stack[i] = th.stack[i]
    BY <1>2, ReturnedInside
  <2>2. FrameHolds(g) \subseteq Held(th)
    <3>1. g.saved = Drop(f).saved
      BY <1>0, DropType DEF FrameFields
    <3>2. FrameHolds(Drop(f)) \subseteq FrameHolds(f)
      BY <1>0, FrameHoldsType
    <3>3. FrameHolds(f) \subseteq Held(th)
      BY <1>0, HeldOf
    <3>4. FrameHolds(g) = FrameHolds(Drop(f))
      BY <3>1 DEF FrameHolds
    <3> QED BY <3>2, <3>3, <3>4
  <2> HIDE DEF new, g
  <2>3. ASSUME NEW i \in 1 .. Len(new.stack)
        PROVE FrameHolds(new.stack[i]) \subseteq Held(th)
    <3>1. CASE i = Len(th.stack)
      BY <2>1, <2>2, <3>1 DEF Top
    <3>2. CASE i # Len(th.stack)
      <4>1. i \in 1 .. Len(th.stack) - 1 /\ i \in 1 .. Len(th.stack)
        BY <1>0, <2>1, <3>2
      <4> QED BY <1>0, <2>1, <4>1, HeldOf
    <3> QED BY <3>1, <3>2
  <2>4. Held(new) \subseteq {new.ctx} \cup Held(th)
    BY <2>3, HeldStack
  <2> QED BY <2>1, <2>4 DEF new
<1> QED BY <1>1, <1>2

LEMMA PanickedHeld ==
    ASSUME NEW th, ThreadShape(prog, th), th.dir # "done", "recover" \in DOMAIN Top(th).saved
    PROVE Held(Panicked(th)) \subseteq Held(th)
<1> DEFINE f == Top(th)
           g == [f EXCEPT !.at = "recover"]
           old == SetTop(th, g)
           c == f.saved["recover"]
<1>0. /\ DOMAIN th = ThreadFields /\ IsSeq(th.stack) /\ Len(th.stack) > 0
      /\ Len(th.stack) \in Nat /\ DOMAIN f = FrameFields /\ FrameShape(prog, f)
  BY FramesOf
<1>1. IsContext(c)
  BY <1>0 DEF FrameShape, Kept
<1>2. g.at = "recover" /\ g.saved = f.saved
  BY <1>0 DEF FrameFields
<1>3. Panicked(th) = Returned(old, c, "panic")
  BY DEF Panicked
<1>4. FrameHolds(f) \subseteq Held(th) /\ c \in Held(th)
  <2>1. FrameHolds(f) \subseteq Held(th)
    BY <1>0, HeldOf
  <2>2. Holds("recover", c) \subseteq FrameHolds(f)
    BY <1>0, FrameHoldsType
  <2>3. c \in Holds("recover", c)
    BY DEF Holds
  <2> QED BY <2>1, <2>2, <2>3
<1> HIDE DEF g, f
<1>5. FrameHolds(g) = FrameHolds(f)
  BY <1>2 DEF FrameHolds
<1>6. /\ DOMAIN old = ThreadFields
      /\ IsSeq(old.stack) /\ Len(old.stack) = Len(th.stack)
      /\ Top(old) = g
      /\ \A i \in 1 .. Len(th.stack) - 1 : old.stack[i] = th.stack[i]
      /\ old.path = th.path
  BY TopReplaced
<1> HIDE DEF old, c
<1>7. Held(Returned(old, c, "panic")) \subseteq {c} \cup Held(th)
  BY <1>1, <1>2, <1>4, <1>5, <1>6, OutHeld
<1> QED BY <1>3, <1>4, <1>7

\* Another step is called.
LEMMA CalledFrames ==
    ASSUME NEW th, ThreadShape(prog, th), th.dir # "done",
           NEW v, Kept(Top(th).at, v), CalledFrom(Top(th).at, v),
           NEW s \in DOMAIN prog, NEW c, IsContext(c), NEW h
    PROVE LET new == Called(th, s, c, h, v)
          IN  /\ Len(new.stack) = Len(th.stack) + 1
              /\ SameUpTo(new.stack, th.stack, Len(th.stack) - 1)
              /\ new.stack[Len(th.stack)] = Keep(Top(th), v)
              /\ Top(new) = NewFrame(s, c, h)
              /\ new.ctx = c
<1> DEFINE new == Called(th, s, c, h, v)
<1>1. Len(new.stack) = Len(th.stack) + 1
  BY CalledShape
<1>2. \A i \in 1 .. Len(th.stack) - 1 : new.stack[i] = th.stack[i]
  BY CalledShape
<1>3. /\ new.stack[Len(th.stack)] = Keep(Top(th), v)
      /\ Top(new) = NewFrame(s, c, h)
      /\ new.ctx = c
  BY CalledShape
<1> HIDE DEF new
<1>4. SameUpTo(new.stack, th.stack, Len(th.stack) - 1)
  BY <1>2 DEF SameUpTo
<1> QED BY <1>1, <1>3, <1>4 DEF new

LEMMA CalledHeld ==
    ASSUME NEW th, ThreadShape(prog, th), th.dir # "done",
           NEW v, Kept(Top(th).at, v), CalledFrom(Top(th).at, v),
           NEW s \in DOMAIN prog, NEW c, IsContext(c), NEW h
    PROVE Held(Called(th, s, c, h, v)) \subseteq {c} \cup Holds(Top(th).at, v) \cup Held(th)
<1> DEFINE new == Called(th, s, c, h, v)
<1>1. /\ Len(new.stack) = Len(th.stack) + 1
      /\ SameUpTo(new.stack, th.stack, Len(th.stack) - 1)
      /\ new.stack[Len(th.stack)] = Keep(Top(th), v)
      /\ Top(new) = NewFrame(s, c, h)
      /\ new.ctx = c
  BY CalledFrames
<1> HIDE DEF new
<1> DEFINE f == Top(th)
           n == Len(th.stack)
           S == Holds(f.at, v) \cup Held(th)
<1>0. /\ IsSeq(th.stack) /\ n > 0 /\ n \in Nat /\ DOMAIN f = FrameFields
  BY FramesOf
<1>2. FrameHolds(Keep(f, v)) \subseteq S /\ FrameHolds(NewFrame(s, c, h)) = {}
  <2>1. FrameHolds(f) \subseteq Held(th)
    BY <1>0, HeldOf
  <2> QED BY <1>0, <2>1, FrameHoldsType
<1> HIDE DEF f, S
<1>3. ASSUME NEW i \in 1 .. Len(new.stack)
      PROVE FrameHolds(new.stack[i]) \subseteq S
  <2>1. CASE i = n + 1
    BY <1>1, <1>2, <2>1 DEF Top
  <2>2. CASE i = n
    BY <1>1, <1>2, <2>2 DEF f
  <2>3. CASE i # n + 1 /\ i # n
    <3>1. i \in 1 .. n - 1 /\ i \in 1 .. n
      BY <1>0, <1>1, <2>3
    <3> QED BY <1>0, <1>1, <3>1, HeldOf DEF S, SameUpTo
  <2> QED BY <2>1, <2>2, <2>3
<1>4. Held(new) \subseteq {new.ctx} \cup S
  BY <1>3, HeldStack
<1> QED BY <1>1, <1>4 DEF new, f, S

\* Only the history in the frame on top has changed.
LEMMA TouchedHeld ==
    ASSUME NEW th, ThreadShape(prog, th), th.dir # "done",
           NEW f, FrameShape(prog, f), SameFrame(f, Top(th))
    PROVE Held(SetTop(th, f)) \subseteq Held(th)
<1> DEFINE new == SetTop(th, f)
<1>0. /\ IsSeq(th.stack) /\ Len(th.stack) > 0 /\ Len(th.stack) \in Nat
  BY FramesOf
<1>1. /\ Len(new.stack) = Len(th.stack) /\ Top(new) = f
      /\ \A i \in 1 .. Len(th.stack) - 1 : new.stack[i] = th.stack[i]
      /\ new.ctx = th.ctx
  BY TopReplaced
<1>2. FrameHolds(f) \subseteq Held(th)
  <2>1. FrameHolds(f) = FrameHolds(Top(th))
    BY DEF FrameHolds, SameFrame
  <2> QED BY <1>0, <2>1, HeldOf
<1> HIDE DEF new
<1>3. ASSUME NEW i \in 1 .. Len(new.stack)
      PROVE FrameHolds(new.stack[i]) \subseteq Held(th)
  <2>1. CASE i = Len(th.stack)
    BY <1>1, <1>2, <2>1 DEF Top
  <2>2. CASE i # Len(th.stack)
    <3>1. i \in 1 .. Len(th.stack) - 1 /\ i \in 1 .. Len(th.stack)
      BY <1>0, <1>1, <2>2
    <3> QED BY <1>0, <1>1, <3>1, HeldOf
  <2> QED BY <2>1, <2>2
<1>4. Held(new) \subseteq {new.ctx} \cup Held(th)
  BY <1>3, HeldStack
<1> QED BY <1>0, <1>1, <1>4, HeldOf DEF new

-----------------------------------------------------------------------------
(* The template of a thread.                                               *)

LEMMA TemplateFacts ==
    ASSUME NEW P, NEW t, NEW x
    PROVE /\ OwnTemplate(P, t, x) => x # Nil
          /\ \A i, s : OwnTemplate(P, t, x) => TemplateOf(P, t, x, i, s)
          /\ \A i, s : TemplateOf(P, t, x, i, s) /\ x # Nil => OwnTemplate(P, t, x)
          /\ \A i, s : TemplateOf(P, t, x, i, s) /\ i # 1 => OwnTemplate(P, t, x)
          /\ \A i, s, saved : OwnTemplate(P, t, x) => TopTemplate(P, t, x, i, s, saved)
<1>1. OwnTemplate(P, t, x) => x # Nil
  BY AddressesDiffer DEF OwnTemplate
<1> QED BY <1>1 DEF OwnTemplate, TemplateOf, TopTemplate

\* The frame on top has changed, and the context.
LEMMA TemplatesMoved ==
    ASSUME NEW t, NEW th, ThreadShape(prog, th), ThreadTemplates(prog, t, th), th.dir # "done",
           NEW new, Len(new.stack) = Len(th.stack),
           \A i \in 1 .. Len(th.stack) - 1 : new.stack[i] = th.stack[i],
           FrameTemplates(prog, t, Top(new), Len(th.stack)),
           TopTemplate(prog, t, new.ctx.template, Len(th.stack), Top(new).step,
                       DOMAIN Top(new).saved)
    PROVE ThreadTemplates(prog, t, new)
<1>0. Len(th.stack) > 0 /\ Len(th.stack) \in Nat
  BY FramesOf
<1>1. \A i \in 1 .. Len(th.stack) : FrameTemplates(prog, t, th.stack[i], i)
  BY DEF ThreadTemplates
<1>2. ASSUME NEW i \in 1 .. Len(new.stack)
      PROVE FrameTemplates(prog, t, new.stack[i], i)
  <2>1. CASE i = Len(th.stack)
    BY <2>1 DEF Top
  <2>2. CASE i # Len(th.stack)
    <3>1. i \in 1 .. Len(th.stack) - 1 /\ i \in 1 .. Len(th.stack)
      BY <1>0, <2>2
    <3> QED BY <1>1, <3>1
  <2> QED BY <2>1, <2>2
<1> QED BY <1>2 DEF ThreadTemplates

LEMMA TemplatesOf ==
    ASSUME NEW t, NEW th, ThreadShape(prog, th), ThreadTemplates(prog, t, th), th.dir # "done"
    PROVE /\ FrameTemplates(prog, t, Top(th), Len(th.stack))
          /\ TopTemplate(prog, t, th.ctx.template, Len(th.stack), Top(th).step,
                         DOMAIN Top(th).saved)
<1>1. Len(th.stack) \in 1 .. Len(th.stack)
  BY FramesOf
<1> QED BY <1>1 DEF ThreadTemplates, Top

LEMMA OnwardTemplates ==
    ASSUME NEW t, NEW th, ThreadShape(prog, th), ThreadTemplates(prog, t, th), th.dir # "done",
           NEW old, NEW f, NEW v,
           old.stack = th.stack, old.path = th.path, DOMAIN old = ThreadFields,
           IsContext(old.ctx), old.dir = "down",
           FrameShape(prog, f), SameFrame(f, Top(th)), f.at # "end", Kept(f.at, v),
           KeptTemplate(prog, t, f.at, v, Len(th.stack), f.step),
           TopTemplate(prog, t, old.ctx.template, Len(th.stack), f.step, DOMAIN f.saved \cup {f.at})
    PROVE ThreadTemplates(prog, t, SetTop(old, Onward(Keep(f, v))))
<1> DEFINE g == Onward(Keep(f, v))
           new == SetTop(old, g)
           n == Len(th.stack)
<1>1. /\ Top(new) = g
      /\ Len(new.stack) = Len(th.stack)
      /\ \A i \in 1 .. Len(th.stack) - 1 : new.stack[i] = th.stack[i]
      /\ new.ctx = old.ctx
  BY OnwardShape DEF SameFrame
<1>2. /\ g.step = f.step /\ g.saved = Keep(f, v).saved
      /\ DOMAIN g.saved = DOMAIN f.saved \cup {f.at} /\ g.saved[f.at] = v
      /\ \A p \in DOMAIN f.saved \ {f.at} : g.saved[p] = f.saved[p]
  <2>1. DOMAIN f = FrameFields
    BY DEF FrameShape, FrameFields
  <2>2. g.step = Keep(f, v).step /\ g.saved = Keep(f, v).saved
    BY <2>1, KeepType DEF Onward, FrameFields
  <2> QED BY <2>1, <2>2, KeepType
<1>3. FrameTemplates(prog, t, f, n)
  BY TemplatesOf DEF FrameTemplates, SameFrame
<1> HIDE DEF g, n, new
<1>4. FrameTemplates(prog, t, g, n)
  BY <1>2, <1>3 DEF FrameTemplates, n
<1>5. TopTemplate(prog, t, new.ctx.template, n, g.step, DOMAIN g.saved)
  BY <1>1, <1>2 DEF n
<1>6. ThreadTemplates(prog, t, new)
  BY <1>1, <1>4, <1>5, TemplatesMoved DEF n
<1> QED BY <1>6 DEF new, g

LEMMA BackTemplates ==
    ASSUME NEW t, NEW th, ThreadShape(prog, th), ThreadTemplates(prog, t, th), th.dir # "done",
           Top(th).at # "recover", NEW c, IsContext(c), NEW e,
           TopTemplate(prog, t, c.template, Len(th.stack), Top(th).step,
                       DOMAIN Top(th).saved \ {Top(th).at})
    PROVE ThreadTemplates(prog, t, Returned(th, c, e))
<1> DEFINE f == Top(th)
           g == [Drop(f) EXCEPT !.at = Outer(prog[f.step], @)]
           new == Returned(th, c, e)
           n == Len(th.stack)
<1>1. /\ Top(new) = g
      /\ Len(new.stack) = Len(th.stack)
      /\ \A i \in 1 .. Len(th.stack) - 1 : new.stack[i] = th.stack[i]
      /\ new.ctx = c
  BY ReturnedInside
<1>2. /\ g.step = f.step /\ DOMAIN g.saved = DOMAIN f.saved \ {f.at}
      /\ \A p \in DOMAIN g.saved : g.saved[p] = f.saved[p]
  <2>1. DOMAIN f = FrameFields
    BY FramesOf
  <2>2. g.step = Drop(f).step /\ g.saved = Drop(f).saved
    BY <2>1, DropType DEF FrameFields
  <2> HIDE DEF g
  <2> QED BY <2>1, <2>2, DropType
<1>3. FrameTemplates(prog, t, f, n)
  BY TemplatesOf
<1> HIDE DEF g, n, new
<1>4. FrameTemplates(prog, t, g, n)
  BY <1>2, <1>3 DEF FrameTemplates
<1>5. TopTemplate(prog, t, new.ctx.template, n, g.step, DOMAIN g.saved)
  BY <1>1, <1>2 DEF n
<1>6. ThreadTemplates(prog, t, new)
  BY <1>1, <1>4, <1>5, TemplatesMoved DEF n
<1> QED BY <1>6 DEF new

\* The step is over.
LEMMA OutTemplates ==
    ASSUME NEW t, NEW th, ThreadShape(prog, th), ThreadTemplates(prog, t, th), th.dir # "done",
           NEW new, NEW c, TemplateOf(prog, t, c.template, Len(th.stack), Top(th).step),
           new.ctx = c,
           \/ new.dir = "done"
           \/ /\ Len(th.stack) # 1
              /\ Len(new.stack) = Len(th.stack) - 1
              /\ \A i \in 1 .. Len(th.stack) - 1 : new.stack[i] = th.stack[i]
    PROVE ThreadTemplates(prog, t, new)
<1>1. CASE new.dir = "done"
  BY <1>1 DEF ThreadTemplates
<1>2. CASE /\ Len(th.stack) # 1
           /\ Len(new.stack) = Len(th.stack) - 1
           /\ \A i \in 1 .. Len(th.stack) - 1 : new.stack[i] = th.stack[i]
  <2>0. Len(th.stack) > 0 /\ Len(th.stack) \in Nat
    BY FramesOf
  <2>1. \A i \in 1 .. Len(new.stack) : FrameTemplates(prog, t, new.stack[i], i)
    <3>1. \A i \in 1 .. Len(new.stack) : new.stack[i] = th.stack[i] /\ i \in 1 .. Len(th.stack)
      BY <1>2, <2>0
    <3> QED BY <3>1 DEF ThreadTemplates
  <2>2. OwnTemplate(prog, t, new.ctx.template)
    BY <1>2, TemplateFacts
  <2>3. TopTemplate(prog, t, new.ctx.template, Len(new.stack), Top(new).step,
                    DOMAIN Top(new).saved)
    BY <2>2, TemplateFacts
  <2> QED BY <2>1, <2>3 DEF ThreadTemplates
<1> QED BY <1>1, <1>2

LEMMA LastTemplates ==
    ASSUME NEW t, NEW th, ThreadShape(prog, th), ThreadTemplates(prog, t, th), th.dir # "done",
           Top(th).at = "recover", NEW e
    PROVE ThreadTemplates(prog, t, Returned(th, th.ctx, e))
<1> DEFINE c == th.ctx
           new == Returned(th, c, e)
<1>1. /\ DOMAIN th = ThreadFields /\ IsSeq(th.stack) /\ IsContext(c)
  BY FramesOf
<1>2. /\ new.ctx = c
      /\ \/ new.dir = "done"
         \/ /\ Len(th.stack) # 1
            /\ Len(new.stack) = Len(th.stack) - 1
            /\ \A i \in 1 .. Len(th.stack) - 1 : new.stack[i] = th.stack[i]
  BY <1>1, ReturnedOut
<1>3. TemplateOf(prog, t, c.template, Len(th.stack), Top(th).step)
  BY TemplatesOf DEF TopTemplate
<1> HIDE DEF new
<1>4. ThreadTemplates(prog, t, new)
  BY <1>2, <1>3, OutTemplates
<1> QED BY <1>4 DEF new

LEMMA PanickedTemplates ==
    ASSUME NEW t, NEW th, ThreadShape(prog, th), ThreadTemplates(prog, t, th), th.dir # "done",
           "recover" \in DOMAIN Top(th).saved
    PROVE ThreadTemplates(prog, t, Panicked(th))
<1> DEFINE c == Top(th).saved["recover"]
           new == Panicked(th)
<1>2. /\ new.ctx = c
      /\ \/ new.dir = "done"
         \/ /\ Len(th.stack) # 1
            /\ Len(new.stack) = Len(th.stack) - 1
            /\ \A i \in 1 .. Len(th.stack) - 1 : new.stack[i] = th.stack[i]
  BY PanickedShape
<1>3. TemplateOf(prog, t, c.template, Len(th.stack), Top(th).step)
  BY TemplatesOf DEF FrameTemplates, KeptTemplate
<1> HIDE DEF new, c
<1>4. ThreadTemplates(prog, t, new)
  BY <1>2, <1>3, OutTemplates
<1> QED BY <1>4 DEF new

LEMMA CalledTemplates ==
    ASSUME NEW t, NEW th, ThreadShape(prog, th), ThreadTemplates(prog, t, th), th.dir # "done",
           NEW v, Kept(Top(th).at, v), CalledFrom(Top(th).at, v),
           NEW s \in DOMAIN prog, NEW c, IsContext(c), NEW h,
           KeptTemplate(prog, t, Top(th).at, v, Len(th.stack), Top(th).step),
           OwnTemplate(prog, t, c.template)
    PROVE ThreadTemplates(prog, t, Called(th, s, c, h, v))
<1> DEFINE new == Called(th, s, c, h, v)
<1>1. /\ Len(new.stack) = Len(th.stack) + 1
      /\ SameUpTo(new.stack, th.stack, Len(th.stack) - 1)
      /\ new.stack[Len(th.stack)] = Keep(Top(th), v)
      /\ Top(new) = NewFrame(s, c, h)
      /\ new.ctx = c
  BY CalledFrames
<1> HIDE DEF new
<1> DEFINE f == Top(th)
           k == Keep(f, v)
           n == Len(th.stack)
<1>0. n > 0 /\ n \in Nat /\ DOMAIN f = FrameFields
  BY FramesOf
<1>2. FrameTemplates(prog, t, NewFrame(s, c, h), n + 1)
  BY DEF FrameTemplates, NewFrame, EmptyMap
<1>3. FrameTemplates(prog, t, k, n)
  <2>1. FrameTemplates(prog, t, f, n)
    BY TemplatesOf
  <2>2. /\ k.step = f.step /\ k.at = f.at
        /\ DOMAIN k.saved = DOMAIN f.saved \cup {f.at} /\ k.saved[f.at] = v
        /\ \A p \in DOMAIN f.saved \ {f.at} : k.saved[p] = f.saved[p]
    BY <1>0, KeepType
  <2> HIDE DEF k
  <2> QED BY <2>1, <2>2 DEF FrameTemplates
<1> HIDE DEF k, f
<1>4. ASSUME NEW i \in 1 .. Len(new.stack)
      PROVE FrameTemplates(prog, t, new.stack[i], i)
  <2>1. CASE i = n + 1
    BY <1>1, <1>2, <2>1 DEF Top
  <2>2. CASE i = n
    BY <1>1, <1>3, <2>2 DEF k, f
  <2>3. CASE i # n + 1 /\ i # n
    <3>1. i \in 1 .. n - 1 /\ i \in 1 .. n
      BY <1>0, <1>1, <2>3
    <3> QED BY <1>1, <3>1 DEF ThreadTemplates, SameUpTo
  <2> QED BY <2>1, <2>2, <2>3
<1>5. TopTemplate(prog, t, new.ctx.template, Len(new.stack), Top(new).step, DOMAIN Top(new).saved)
  BY <1>1, TemplateFacts
<1>6. ThreadTemplates(prog, t, new)
  BY <1>4, <1>5 DEF ThreadTemplates
<1> QED BY <1>6 DEF new

-----------------------------------------------------------------------------
(* What a step of a thread may do to the maps.                             *)

\* A record with these outputs may be in the steps of thread u after a step of t.
Recorded(t, u, r) ==
    \/ RecordOf(r, u, DOMAIN heap, threads)
    \/ u = t /\ HoldsOuts(threads[t], r)

\* The heap may become h.
HeapStep(t, h) ==
    /\ IsFiniteSet(DOMAIN h) /\ DOMAIN heap \subseteq DOMAIN h
    /\ \A a \in DOMAIN h : IsSteps(a) => \A s \in DOMAIN h[a] : Recorded(t, a[1], h[a][s].outs)

\* Every map of context c is one that thread th of t held, or a new one of its own.
Derived(t, th, c, h) ==
    \A k \in Maps :
        \/ \E d \in Held(th) : c[k] = d[k]
        \/ IsAddress(c[k], t, k) /\ c[k] \in DOMAIN h \ DOMAIN heap

\* Thread t may go from th to new.
MapsKept(t, th, new, h) ==
    /\ \A c \in Held(new) : Derived(t, th, c, h)
    /\ ThreadTemplates(prog, t, new)

MapsNext ==
    /\ IsFiniteSet(DOMAIN heap')
    /\ \A u \in DOMAIN threads' : HeldOwn(u, threads'[u], DOMAIN heap')
    /\ \A u \in DOMAIN threads' : ThreadTemplates(prog, u, threads'[u])
    /\ RecordsOf(heap', threads')
    /\ \A u \in DOMAIN threads' : WaitsFor(threads', u)

LEMMA PrefixSelf == \A t : Prefix(t, t)
  BY DEF Prefix

\* The outputs that a thread holds are its own.
LEMMA OutsOwned ==
    ASSUME NEW t, NEW th, NEW D, HeldOwn(t, th, D), NEW r, HoldsOuts(th, r)
    PROVE IsAddress(r, t, "outs") /\ r \in D
  BY DEF HoldsOuts, HeldOwn, OwnMaps, Maps

\* A context that is derived has maps of the thread.
LEMMA DerivedOwn ==
    ASSUME NEW t, NEW th, HeldOwn(t, th, DOMAIN heap), NEW h, DOMAIN heap \subseteq DOMAIN h,
           NEW c, Derived(t, th, c, h)
    PROVE /\ OwnMaps(t, c, DOMAIN h)
          /\ c.outs \in DOMAIN heap => HoldsOuts(th, c.outs)
<1>1. ASSUME NEW k \in Maps
      PROVE IsAddress(c[k], t, k) /\ c[k] \in DOMAIN h
  BY DEF Derived, HeldOwn, OwnMaps
<1>2. c.outs \in DOMAIN heap => \E d \in Held(th) : c.outs = d.outs
  BY DEF Derived, Maps
<1> QED BY <1>1, <1>2 DEF OwnMaps, HoldsOuts

\* One thread moves, and does not wait.
LEMMA OneMaps ==
    ASSUME MapsInv, NEW t \in DOMAIN threads, threads[t].dir # "waiting",
           HeapStep(t, heap'), NEW new, MapsKept(t, threads[t], new, heap'),
           threads' = [threads EXCEPT ![t] = new]
    PROVE MapsNext
<1>1. /\ DOMAIN threads' = DOMAIN threads /\ threads'[t] = new
      /\ \A u \in DOMAIN threads : u # t => threads'[u] = threads[u]
  OBVIOUS
<1>2. HeldOwn(t, threads[t], DOMAIN heap) /\ DOMAIN heap \subseteq DOMAIN heap'
  BY DEF MapsInv, HeapStep
<1>3. ASSUME NEW u \in DOMAIN threads'
      PROVE HeldOwn(u, threads'[u], DOMAIN heap')
  <2>1. CASE u = t
    <3>1. ASSUME NEW c \in Held(new)
          PROVE OwnMaps(t, c, DOMAIN heap')
      <4>1. Derived(t, threads[t], c, heap')
        BY DEF MapsKept
      <4> QED BY <1>2, <4>1, DerivedOwn
    <3> QED BY <1>1, <2>1, <3>1 DEF HeldOwn
  <2>2. CASE u # t
    <3>1. HeldOwn(u, threads[u], DOMAIN heap)
      BY <1>1 DEF MapsInv
    <3>2. HeldOwn(u, threads[u], DOMAIN heap')
      BY <1>2, <3>1 DEF HeldOwn, OwnMaps
    <3> QED BY <1>1, <2>2, <3>2
  <2> QED BY <2>1, <2>2
<1>4. ASSUME NEW u \in DOMAIN threads'
      PROVE ThreadTemplates(prog, u, threads'[u])
  BY <1>1 DEF MapsKept, MapsInv
<1>5. ASSUME NEW v, NEW r, Recorded(t, v, r)
      PROVE RecordOf(r, v, DOMAIN heap', threads')
  <2>1. /\ Len(r) = 3 /\ r[2] = "outs" /\ r \in DOMAIN heap
        /\ \A w \in DOMAIN threads : HoldsOuts(threads[w], r) => Prefix(w, v)
    <3>1. CASE RecordOf(r, v, DOMAIN heap, threads)
      BY <3>1 DEF RecordOf
    <3>2. CASE v = t /\ HoldsOuts(threads[t], r)
      <4>1. IsAddress(r, t, "outs") /\ r \in DOMAIN heap
        BY <1>2, <3>2, OutsOwned
      <4>2. ASSUME NEW w \in DOMAIN threads, HoldsOuts(threads[w], r)
            PROVE w = t
        <5>1. HeldOwn(w, threads[w], DOMAIN heap)
          BY DEF MapsInv
        <5>2. IsAddress(r, w, "outs")
          BY <4>2, <5>1, OutsOwned
        <5> QED BY <4>1, <5>2, AddressesDiffer
      <4> QED BY <3>2, <4>1, <4>2, PrefixSelf DEF IsAddress
    <3> QED BY <1>5, <3>1, <3>2 DEF Recorded
  <2>2. ASSUME NEW w \in DOMAIN threads', HoldsOuts(threads'[w], r)
        PROVE Prefix(w, v)
    <3>1. CASE w # t
      BY <1>1, <2>1, <2>2, <3>1
    <3>2. CASE w = t
      <4>1. PICK c \in Held(new) : c.outs = r
        BY <1>1, <2>2, <3>2 DEF HoldsOuts
      <4>2. Derived(t, threads[t], c, heap')
        BY DEF MapsKept
      <4>3. HoldsOuts(threads[t], r)
        BY <1>2, <2>1, <4>1, <4>2, DerivedOwn
      <4> QED BY <2>1, <3>2, <4>3
    <3> QED BY <3>1, <3>2
  <2> QED BY <1>2, <2>1, <2>2 DEF RecordOf
<1>6. RecordsOf(heap', threads')
  BY <1>5 DEF HeapStep, RecordsOf
<1>7. ASSUME NEW w \in DOMAIN threads'
      PROVE WaitsFor(threads', w)
  <2>1. WaitsFor(threads, w)
    BY <1>1 DEF MapsInv
  <2>2. ASSUME NEW v \in DOMAIN threads, threads[v].dir = "waiting"
        PROVE v \in DOMAIN threads' /\ threads'[v].dir = "waiting"
    BY <1>1, <2>2
  <2> QED BY <2>1, <2>2 DEF WaitsFor
<1>8. IsFiniteSet(DOMAIN heap')
  BY DEF HeapStep
<1> QED BY <1>3, <1>4, <1>6, <1>7, <1>8 DEF MapsNext

-----------------------------------------------------------------------------
(* The ways in which a step changes the maps.                              *)

LEMMA HeapSame ==
    ASSUME MapsInv, NEW t
    PROVE HeapStep(t, heap)
<1>1. ASSUME NEW a \in DOMAIN heap, IsSteps(a), NEW s \in DOMAIN heap[a]
      PROVE Recorded(t, a[1], heap[a][s].outs)
  BY <1>1 DEF MapsInv, RecordsOf, Recorded
<1> QED BY <1>1 DEF MapsInv, HeapStep

\* Maps are made, or replaced.
LEMMA HeapCopied ==
    ASSUME NEW t, NEW h, HeapStep(t, h), NEW g, IsFiniteSet(DOMAIN g),
           \A a \in DOMAIN g : IsSteps(a) =>
               \A s \in DOMAIN g[a] : Recorded(t, a[1], g[a][s].outs)
    PROVE HeapStep(t, MapsCopy(h, g))
<1> DEFINE n == MapsCopy(h, g)
<1>1. /\ DOMAIN n = DOMAIN h \cup DOMAIN g
      /\ \A a \in DOMAIN g : n[a] = g[a]
      /\ \A a \in DOMAIN h \ DOMAIN g : n[a] = h[a]
  BY DEF MapsCopy
<1> HIDE DEF n
<1>2. IsFiniteSet(DOMAIN n)
  BY <1>1, FS_Union DEF HeapStep
<1>3. ASSUME NEW a \in DOMAIN n, IsSteps(a), NEW s \in DOMAIN n[a]
      PROVE Recorded(t, a[1], n[a][s].outs)
  <2>1. CASE a \in DOMAIN g
    <3>1. n[a] = g[a]
      BY <1>1, <2>1
    <3> QED BY <1>3, <2>1, <3>1
  <2>2. CASE a \notin DOMAIN g
    <3>1. n[a] = h[a] /\ a \in DOMAIN h
      BY <1>1, <2>2
    <3> QED BY <1>3, <3>1 DEF HeapStep
  <2> QED BY <2>1, <2>2
<1>4. HeapStep(t, n)
  BY <1>1, <1>2, <1>3 DEF HeapStep
<1> QED BY <1>4 DEF n

LEMMA HeapAssigned ==
    ASSUME NEW t, NEW h, HeapStep(t, h), NEW a, NEW v,
           IsSteps(a) => \A s \in DOMAIN v : Recorded(t, a[1], v[s].outs)
    PROVE /\ HeapStep(t, Assign(h, a, v))
          /\ HeapStep(t, [h EXCEPT ![a] = v])
<1> DEFINE n == Assign(h, a, v)
           m == [h EXCEPT ![a] = v]
<1>1. /\ DOMAIN n = DOMAIN h \cup {a} /\ n[a] = v
      /\ \A b \in DOMAIN h \ {a} : n[b] = h[b]
  BY DEF Assign
<1>2. /\ DOMAIN m = DOMAIN h /\ (a \in DOMAIN h => m[a] = v)
      /\ \A b \in DOMAIN h \ {a} : m[b] = h[b]
  OBVIOUS
<1> HIDE DEF n, m
<1>3. IsFiniteSet(DOMAIN n)
  BY <1>1, FS_AddElement DEF HeapStep
<1>4. ASSUME NEW b \in DOMAIN n, IsSteps(b), NEW s \in DOMAIN n[b]
      PROVE Recorded(t, b[1], n[b][s].outs)
  <2>1. CASE b = a
    BY <1>1, <1>4, <2>1
  <2>2. CASE b # a
    <3>1. n[b] = h[b] /\ b \in DOMAIN h
      BY <1>1, <2>2
    <3> QED BY <1>4, <3>1 DEF HeapStep
  <2> QED BY <2>1, <2>2
<1>5. HeapStep(t, n)
  BY <1>1, <1>3, <1>4 DEF HeapStep
<1>6. ASSUME NEW b \in DOMAIN m, IsSteps(b), NEW s \in DOMAIN m[b]
      PROVE Recorded(t, b[1], m[b][s].outs)
  <2>1. CASE b = a
    BY <1>2, <1>6, <2>1
  <2>2. CASE b # a
    <3>1. m[b] = h[b] /\ b \in DOMAIN h
      BY <1>2, <1>6, <2>2
    <3> QED BY <1>6, <3>1 DEF HeapStep
  <2> QED BY <2>1, <2>2
<1>7. HeapStep(t, m)
  BY <1>2, <1>6 DEF HeapStep
<1> QED BY <1>5, <1>7 DEF n, m

\* Addresses that are not of records of steps.
LEMMA NotSteps ==
    /\ \A a, t, k : IsAddress(a, t, k) /\ k # "steps" => ~IsSteps(a)
    /\ \A a, t : IsAddress(a, t, "steps") => IsSteps(a) /\ a[1] = t
    /\ \A s : ~IsSteps(Global(s))
    /\ ~IsSteps(Nil)
    /\ \A P, t, x, i, s : TemplateOf(P, t, x, i, s) => ~IsSteps(x)
    /\ \A P, t, x : OwnTemplate(P, t, x) => ~IsSteps(x)
<1>1. \A a, t, k : IsAddress(a, t, k) /\ k # "steps" => ~IsSteps(a)
  BY DEF IsAddress, IsSteps
<1>2. \A a, t : IsAddress(a, t, "steps") => IsSteps(a) /\ a[1] = t
  BY DEF IsAddress, IsSteps
<1>3. \A s : ~IsSteps(Global(s))
  <2>1. \A s : Len(Global(s)) = 3 /\ Global(s)[2] = "global"
    BY DEF Global
  <2> QED BY <2>1 DEF IsSteps
<1>4. ~IsSteps(Nil)
  <2>1. Len(Nil) = 1
    BY DEF Nil
  <2> QED BY <2>1 DEF IsSteps
<1>5. \A P, t, x, i, s : TemplateOf(P, t, x, i, s) => ~IsSteps(x)
  BY <1>1, <1>3, <1>4 DEF TemplateOf
<1>6. \A P, t, x : OwnTemplate(P, t, x) => ~IsSteps(x)
  BY <1>1, <1>3 DEF OwnTemplate
<1> QED BY <1>1, <1>2, <1>3, <1>4, <1>5, <1>6

\* What Merge does to the records of steps: m is h with those of d merged into those of c.
RecordsMerged(m, h, c, d) ==
    /\ DOMAIN m = DOMAIN h
    /\ m[c.steps] = MapsCopy(h[c.steps], h[d.steps])
    /\ \A a \in DOMAIN h : IsSteps(a) /\ a # c.steps => m[a] = h[a]

LEMMA Merged ==
    ASSUME NEW t, NEW c, NEW h, OwnMaps(t, c, DOMAIN h), ~IsSteps(c.template), NEW d
    PROVE RecordsMerged(MergeHeap(c, d, h), h, c, d)
<1> DEFINE m == MergeHeap(c, d, h)
           copied == VarMaps \cup {"steps", "containers"}
<1>0. DOMAIN m = DOMAIN h
  BY DEF MergeHeap
<1>1. \A k \in Maps : IsAddress(c[k], t, k) /\ c[k] \in DOMAIN h
  BY DEF OwnMaps
<1>2. copied \subseteq Maps /\ "steps" \in copied
  BY DEF Maps
<1>3. IsSteps(c.steps) /\ c.steps \in DOMAIN h
  BY <1>1, <1>2, NotSteps
<1>4. \A k \in Maps : c[k] = c.steps => k = "steps"
  BY <1>1, <1>2, AddressesDiffer
<1>5. (CHOOSE k \in Maps : c.steps = c[k]) = "steps"
  BY <1>2, <1>4
<1>6. m[c.steps] = MapsCopy(h[c.steps], h[d.steps])
  <2>1. c.steps # c.template /\ \E k \in copied : c.steps = c[k]
    BY <1>2, <1>3
  <2> QED BY <1>3, <1>5, <2>1 DEF MergeHeap
<1>7. ASSUME NEW a \in DOMAIN h, IsSteps(a), a # c.steps
      PROVE m[a] = h[a]
  <2>1. a # c.template
    BY <1>7
  <2>2. ~\E k \in copied : a = c[k]
    <3> SUFFICES ASSUME NEW k \in copied, a = c[k]
                 PROVE FALSE
      OBVIOUS
    <3>1. IsAddress(a, t, k) /\ k # "steps"
      BY <1>1, <1>2, <1>7
    <3> QED BY <1>7, <3>1, NotSteps
  <2> QED BY <2>1, <2>2 DEF MergeHeap
<1> QED BY <1>0, <1>6, <1>7 DEF RecordsMerged

LEMMA HeapMerged ==
    ASSUME MapsInv, NEW t, NEW c, OwnMaps(t, c, DOMAIN heap), ~IsSteps(c.template),
           NEW d, OwnMaps(t, d, DOMAIN heap), NEW e, e.steps = d.steps
    PROVE HeapStep(t, MergeHeap(c, e, heap))
<1> DEFINE m == MergeHeap(c, e, heap)
<1>1. /\ DOMAIN m = DOMAIN heap
      /\ m[c.steps] = MapsCopy(heap[c.steps], heap[d.steps])
      /\ \A a \in DOMAIN heap : IsSteps(a) /\ a # c.steps => m[a] = heap[a]
  <2>1. RecordsMerged(m, heap, c, e)
    BY Merged
  <2> HIDE DEF m
  <2> QED BY <2>1 DEF RecordsMerged
<1> HIDE DEF m
<1>2. HeapStep(t, heap)
  BY HeapSame
<1>3. /\ IsSteps(c.steps) /\ c.steps \in DOMAIN heap /\ c.steps[1] = t
      /\ IsSteps(d.steps) /\ d.steps \in DOMAIN heap /\ d.steps[1] = t
  BY NotSteps DEF OwnMaps, Maps
<1>4. ASSUME NEW a \in DOMAIN m, IsSteps(a), NEW s \in DOMAIN m[a]
      PROVE Recorded(t, a[1], m[a][s].outs)
  <2>1. CASE a = c.steps
    <3>1. \/ s \in DOMAIN heap[d.steps] /\ m[a][s] = heap[d.steps][s]
          \/ s \in DOMAIN heap[c.steps] /\ m[a][s] = heap[c.steps][s]
      BY <1>1, <1>4, <2>1 DEF MapsCopy
    <3> QED BY <1>2, <1>3, <2>1, <3>1 DEF HeapStep
  <2>2. CASE a # c.steps
    BY <1>1, <1>2, <1>4, <2>2 DEF HeapStep
  <2> QED BY <2>1, <2>2
<1>5. HeapStep(t, m)
  BY <1>1, <1>2, <1>4 DEF HeapStep
<1> QED BY <1>5 DEF m

-----------------------------------------------------------------------------
(* A thread moves.                                                         *)

LEMMA DerivedHeld ==
    ASSUME NEW t, NEW th, NEW h, NEW c \in Held(th)
    PROVE Derived(t, th, c, h)
  BY DEF Derived

\* Contexts with the same maps.
SameMaps(c, d) == \A k \in Maps : c[k] = d[k]

LEMMA DerivedSame ==
    ASSUME NEW t, NEW th, NEW h, NEW c, NEW d, SameMaps(c, d), Derived(t, th, d, h)
    PROVE Derived(t, th, c, h)
  BY DEF Derived, SameMaps

LEMMA OnwardMaps ==
    ASSUME NEW t, NEW th, ThreadShape(prog, th), ThreadTemplates(prog, t, th), th.dir # "done",
           NEW old, NEW f, NEW v,
           old.stack = th.stack, old.path = th.path, DOMAIN old = ThreadFields,
           IsContext(old.ctx), old.dir = "down",
           FrameShape(prog, f), SameFrame(f, Top(th)), f.at # "end", Kept(f.at, v),
           NEW h, Derived(t, th, old.ctx, h), \A c \in Holds(f.at, v) : Derived(t, th, c, h),
           KeptTemplate(prog, t, f.at, v, Len(th.stack), f.step),
           TopTemplate(prog, t, old.ctx.template, Len(th.stack), f.step, DOMAIN f.saved \cup {f.at})
    PROVE MapsKept(t, th, SetTop(old, Onward(Keep(f, v))), h)
<1> DEFINE new == SetTop(old, Onward(Keep(f, v)))
<1>1. Held(new) \subseteq {old.ctx} \cup Holds(f.at, v) \cup Held(th)
  BY OnwardHeld
<1>2. ThreadTemplates(prog, t, new)
  BY OnwardTemplates
<1> HIDE DEF new
<1>3. \A c \in Held(new) : Derived(t, th, c, h)
  BY <1>1, DerivedHeld
<1> QED BY <1>2, <1>3 DEF MapsKept, new

LEMMA BackMaps ==
    ASSUME NEW t, NEW th, ThreadShape(prog, th), ThreadTemplates(prog, t, th), th.dir # "done",
           Top(th).at # "recover", NEW c, IsContext(c), NEW e, NEW h, Derived(t, th, c, h),
           TopTemplate(prog, t, c.template, Len(th.stack), Top(th).step,
                       DOMAIN Top(th).saved \ {Top(th).at})
    PROVE MapsKept(t, th, Returned(th, c, e), h)
<1> DEFINE new == Returned(th, c, e)
<1>1. Held(new) \subseteq {c} \cup Held(th)
  BY ReturnedHeld
<1>2. ThreadTemplates(prog, t, new)
  BY BackTemplates
<1> HIDE DEF new
<1>3. \A d \in Held(new) : Derived(t, th, d, h)
  BY <1>1, DerivedHeld
<1> QED BY <1>2, <1>3 DEF MapsKept, new

LEMMA LastMaps ==
    ASSUME NEW t, NEW th, ThreadShape(prog, th), ThreadTemplates(prog, t, th), th.dir # "done",
           Top(th).at = "recover", NEW e, NEW h
    PROVE MapsKept(t, th, Returned(th, th.ctx, e), h)
<1> DEFINE new == Returned(th, th.ctx, e)
<1>0. IsContext(th.ctx) /\ th.ctx \in Held(th)
  BY FramesOf, HeldOf
<1>1. Held(new) \subseteq {th.ctx} \cup Held(th)
  BY <1>0, ReturnedHeld
<1>2. ThreadTemplates(prog, t, new)
  BY LastTemplates
<1> HIDE DEF new
<1>3. \A d \in Held(new) : Derived(t, th, d, h)
  BY <1>0, <1>1, DerivedHeld
<1> QED BY <1>2, <1>3 DEF MapsKept, new

LEMMA PanickedMaps ==
    ASSUME NEW t, NEW th, ThreadShape(prog, th), ThreadTemplates(prog, t, th), th.dir # "done",
           Top(th).at # "recover", NEW h
    PROVE MapsKept(t, th, Panicked(th), h)
<1>0. "recover" \in DOMAIN Top(th).saved
  BY FramesOf
<1>1. Held(Panicked(th)) \subseteq Held(th)
  BY <1>0, PanickedHeld
<1>2. ThreadTemplates(prog, t, Panicked(th))
  BY <1>0, PanickedTemplates
<1>3. \A d \in Held(Panicked(th)) : Derived(t, th, d, h)
  BY <1>1, DerivedHeld
<1> QED BY <1>2, <1>3 DEF MapsKept

LEMMA CalledMaps ==
    ASSUME NEW t, NEW th, ThreadShape(prog, th), ThreadTemplates(prog, t, th), th.dir # "done",
           NEW v, Kept(Top(th).at, v), CalledFrom(Top(th).at, v),
           NEW s \in DOMAIN prog, NEW c, IsContext(c), NEW g, NEW h,
           Derived(t, th, c, h), \A d \in Holds(Top(th).at, v) : Derived(t, th, d, h),
           KeptTemplate(prog, t, Top(th).at, v, Len(th.stack), Top(th).step),
           OwnTemplate(prog, t, c.template)
    PROVE MapsKept(t, th, Called(th, s, c, g, v), h)
<1> DEFINE new == Called(th, s, c, g, v)
<1>1. Held(new) \subseteq {c} \cup Holds(Top(th).at, v) \cup Held(th)
  BY CalledHeld
<1>2. ThreadTemplates(prog, t, new)
  BY CalledTemplates
<1> HIDE DEF new
<1>3. \A d \in Held(new) : Derived(t, th, d, h)
  BY <1>1, DerivedHeld
<1> QED BY <1>2, <1>3 DEF MapsKept, new

\* Only the history in the frame on top changes.
LEMMA Touched ==
    ASSUME NEW t, NEW th, ThreadShape(prog, th), ThreadTemplates(prog, t, th), th.dir # "done",
           NEW f, FrameShape(prog, f), SameFrame(f, Top(th))
    PROVE LET new == SetTop(th, f)
          IN  /\ ThreadShape(prog, new) /\ ThreadTemplates(prog, t, new) /\ Top(new) = f
              /\ new.ctx = th.ctx /\ new.dir = th.dir /\ new.path = th.path
              /\ Len(new.stack) = Len(th.stack)
              /\ Held(new) \subseteq Held(th)
<1> DEFINE new == SetTop(th, f)
<1>1. DOMAIN th = ThreadFields /\ IsContext(th.ctx) /\ th.dir \in Directions \ {"done"}
  BY DEF ThreadShape, ThreadType
<1>2. TopShape(prog, f, th.dir)
  <2>1. TopShape(prog, Top(th), th.dir)
    BY FramesOf
  <2> QED BY <2>1 DEF TopShape, SameFrame
<1>3. /\ ThreadShape(prog, new) /\ Top(new) = f
      /\ Len(new.stack) = Len(th.stack)
      /\ \A i \in 1 .. Len(th.stack) - 1 : new.stack[i] = th.stack[i]
      /\ new.ctx = th.ctx /\ new.dir = th.dir /\ new.path = th.path
  BY <1>1, <1>2, TopMoved
<1>4. Held(new) \subseteq Held(th)
  BY TouchedHeld
<1> HIDE DEF new
<1>5. /\ FrameTemplates(prog, t, Top(th), Len(th.stack))
      /\ TopTemplate(prog, t, th.ctx.template, Len(th.stack), Top(th).step, DOMAIN Top(th).saved)
  BY TemplatesOf
<1>6. /\ FrameTemplates(prog, t, Top(new), Len(th.stack))
      /\ TopTemplate(prog, t, new.ctx.template, Len(th.stack), Top(new).step,
                     DOMAIN Top(new).saved)
  BY <1>3, <1>5 DEF FrameTemplates, SameFrame
<1>7. ThreadTemplates(prog, t, new)
  BY <1>3, <1>6, TemplatesMoved
<1> QED BY <1>3, <1>4, <1>7 DEF new

\* What the context of a thread is, and the template of its frame on top.
Fits(t, x, saved) == TopTemplate(prog, t, x, Len(threads[t].stack), Frame(t).step, saved)
Keeps(t, p, v) == KeptTemplate(prog, t, p, v, Len(threads[t].stack), Frame(t).step)

LEMMA MapsOf ==
    ASSUME Shape, MapsInv, NEW t \in DOMAIN threads
    PROVE /\ ThreadShape(prog, threads[t]) /\ ThreadTemplates(prog, t, threads[t])
          /\ HeldOwn(t, threads[t], DOMAIN heap) /\ Ctx(t) \in Held(threads[t])
          /\ OwnMaps(t, Ctx(t), DOMAIN heap)
          /\ IsFiniteSet(DOMAIN heap) /\ HeapStep(t, heap)
          /\ \A h : Derived(t, threads[t], Ctx(t), h)
          /\ threads[t].dir # "done" =>
                /\ Fits(t, Ctx(t).template, DOMAIN Frame(t).saved)
                /\ \A p \in DOMAIN Frame(t).saved : Keeps(t, p, Saved(t, p))
                /\ \A p \in DOMAIN Frame(t).saved :
                      Holds(p, Saved(t, p)) \subseteq Held(threads[t])
<1> DEFINE th == threads[t]
<1>1. /\ ThreadShape(prog, th) /\ ThreadTemplates(prog, t, th)
      /\ HeldOwn(t, th, DOMAIN heap) /\ IsFiniteSet(DOMAIN heap) /\ HeapStep(t, heap)
  BY HeapSame DEF Shape, MapsInv
<1>2. Ctx(t) \in Held(th)
  BY <1>1, FramesOf, HeldOf DEF Ctx
<1>3. OwnMaps(t, Ctx(t), DOMAIN heap)
  BY <1>1, <1>2 DEF HeldOwn
<1>4. \A h : Derived(t, th, Ctx(t), h)
  BY <1>2, DerivedHeld
<1>5. ASSUME th.dir # "done"
      PROVE /\ Fits(t, Ctx(t).template, DOMAIN Frame(t).saved)
            /\ \A p \in DOMAIN Frame(t).saved : Keeps(t, p, Saved(t, p))
            /\ \A p \in DOMAIN Frame(t).saved : Holds(p, Saved(t, p)) \subseteq Held(th)
  <2>1. /\ FrameTemplates(prog, t, Top(th), Len(th.stack))
        /\ TopTemplate(prog, t, th.ctx.template, Len(th.stack), Top(th).step,
                       DOMAIN Top(th).saved)
    BY <1>1, <1>5, TemplatesOf
  <2>2. \A p \in DOMAIN Top(th).saved :
           KeptTemplate(prog, t, p, Top(th).saved[p], Len(th.stack), Top(th).step)
    BY <2>1 DEF FrameTemplates
  <2>3. FrameHolds(Top(th)) \subseteq Held(th) /\ DOMAIN Top(th) = FrameFields
    BY <1>1, <1>5, FramesOf, HeldOf
  <2>4. \A p \in DOMAIN Top(th).saved : Holds(p, Top(th).saved[p]) \subseteq FrameHolds(Top(th))
    BY <2>3, FrameHoldsType
  <2> QED BY <2>1, <2>2, <2>3, <2>4 DEF Fits, Keeps, Ctx, Frame, Saved
<1> QED BY <1>1, <1>2, <1>3, <1>4, <1>5

LEMMA FitsKept ==
    ASSUME NEW t, NEW x, NEW saved, Fits(t, x, saved)
    PROVE /\ \A p : p # "template" => Fits(t, x, saved \cup {p})
          /\ \A p : Fits(t, x, saved \ {p})
          /\ "template" \in saved => OwnTemplate(prog, t, x)
<1>1. "template" \in saved => OwnTemplate(prog, t, x)
  BY TemplateFacts DEF Fits, TopTemplate
<1>2. \A p : p # "template" => Fits(t, x, saved \cup {p})
  BY DEF Fits, TopTemplate
<1>3. \A p : Fits(t, x, saved \ {p})
  BY DEF Fits, TopTemplate
<1> QED BY <1>1, <1>2, <1>3

\* Processors that keep no context and no template.
Plainly(p) == p \notin {"recover", "retry", "template", "needs", "inherit"}

LEMMA PlainlyKept ==
    ASSUME NEW t, NEW p, NEW v, Plainly(p) \/ (p \in {"needs", "inherit"} /\ ~Foreign(p, v))
    PROVE Holds(p, v) = {} /\ Keeps(t, p, v)
  BY AnyForeign DEF Plainly, Holds, Keeps, KeptTemplate

LEMMA ForwardMaps ==
    ASSUME Shape, MapsInv, NEW t \in DOMAIN threads, threads[t].dir = "down", Proc(t) # "end",
           NEW c, IsContext(c), NEW v, Kept(Proc(t), v), Forward(t, c, v),
           HeapStep(t, heap'), Derived(t, threads[t], c, heap'),
           \A d \in Holds(Proc(t), v) : Derived(t, threads[t], d, heap'),
           Keeps(t, Proc(t), v), Fits(t, c.template, DOMAIN Frame(t).saved \cup {Proc(t)})
    PROVE MapsNext
<1> DEFINE th == threads[t]
           f == Top(th)
           old == [th EXCEPT !.ctx = c]
           new == SetTop(old, Onward(Keep(f, v)))
<1>1. ThreadShape(prog, th) /\ ThreadTemplates(prog, t, th)
  BY MapsOf
<1>2. /\ old.stack = th.stack /\ old.path = th.path /\ DOMAIN old = ThreadFields
      /\ old.ctx = c /\ old.dir = "down" /\ FrameShape(prog, f)
  BY <1>1 DEF ThreadShape, ThreadType, ThreadFields
<1>3. Top(old) = f
  BY <1>2 DEF Top
<1>4. threads' = [threads EXCEPT ![t] = new]
  BY <1>3 DEF Forward
<1>5. /\ SameFrame(f, Top(th)) /\ th.dir # "done" /\ th.dir # "waiting"
      /\ f.at = Proc(t) /\ f = Frame(t)
  BY DEF SameFrame, Proc, Frame
<1>6. /\ KeptTemplate(prog, t, f.at, v, Len(th.stack), f.step)
      /\ TopTemplate(prog, t, c.template, Len(th.stack), f.step, DOMAIN f.saved \cup {f.at})
  BY <1>5 DEF Keeps, Fits
<1> HIDE DEF old, f
<1>7. /\ Derived(t, th, old.ctx, heap') /\ \A d \in Holds(f.at, v) : Derived(t, th, d, heap')
      /\ TopTemplate(prog, t, old.ctx.template, Len(th.stack), f.step, DOMAIN f.saved \cup {f.at})
      /\ IsContext(old.ctx) /\ Kept(f.at, v) /\ f.at # "end"
  BY <1>2, <1>5, <1>6
<1>8. MapsKept(t, th, new, heap')
  BY <1>1, <1>2, <1>5, <1>6, <1>7, OnwardMaps
<1> HIDE DEF new
<1> QED BY <1>4, <1>5, <1>8, OneMaps

LEMMA ForwardPlainly ==
    ASSUME Shape, MapsInv, NEW t \in DOMAIN threads, threads[t].dir = "down", Proc(t) # "end",
           NEW c, IsContext(c), SameMaps(c, Ctx(t)), c.template = Ctx(t).template,
           NEW v, Plainly(Proc(t)) \/ (Proc(t) = "needs" /\ v.next = 0),
           Kept(Proc(t), v), Forward(t, c, v), HeapStep(t, heap')
    PROVE MapsNext
<1>1. Plainly(Proc(t)) \/ (Proc(t) \in {"needs", "inherit"} /\ ~Foreign(Proc(t), v))
  BY DEF Foreign
<1>2. Holds(Proc(t), v) = {} /\ Keeps(t, Proc(t), v)
  BY <1>1, PlainlyKept
<1>3. Derived(t, threads[t], c, heap')
  BY MapsOf, DerivedSame
<1>4. Fits(t, c.template, DOMAIN Frame(t).saved \cup {Proc(t)})
  <2>1. Fits(t, c.template, DOMAIN Frame(t).saved) /\ Proc(t) # "template"
    BY MapsOf DEF Plainly
  <2> QED BY <2>1, FitsKept
<1> QED BY <1>2, <1>3, <1>4, ForwardMaps

LEMMA ReturnMaps ==
    ASSUME Shape, MapsInv, NEW t \in DOMAIN threads, threads[t].dir \notin {"done", "waiting"},
           Proc(t) # "recover", NEW c, IsContext(c), NEW e, Return(t, c, e),
           HeapStep(t, heap'), Derived(t, threads[t], c, heap'),
           Fits(t, c.template, DOMAIN Frame(t).saved \ {Proc(t)})
    PROVE MapsNext
<1> DEFINE th == threads[t]
           new == Returned(th, c, e)
<1>1. ThreadShape(prog, th) /\ ThreadTemplates(prog, t, th) /\ th.dir # "done"
  BY MapsOf
<1>2. /\ Top(th).at # "recover"
      /\ TopTemplate(prog, t, c.template, Len(th.stack), Top(th).step,
                     DOMAIN Top(th).saved \ {Top(th).at})
  BY DEF Fits, Frame, Proc
<1>3. MapsKept(t, th, new, heap')
  BY <1>1, <1>2, BackMaps
<1>4. threads' = [threads EXCEPT ![t] = new]
  BY DEF Return
<1> HIDE DEF new
<1> QED BY <1>3, <1>4, OneMaps

LEMMA ReturnPlainly ==
    ASSUME Shape, MapsInv, NEW t \in DOMAIN threads, threads[t].dir \notin {"done", "waiting"},
           Proc(t) # "recover", NEW c, IsContext(c), NEW e, Return(t, c, e),
           c.template = Ctx(t).template, HeapStep(t, heap'), Derived(t, threads[t], c, heap')
    PROVE MapsNext
<1>1. Fits(t, c.template, DOMAIN Frame(t).saved)
  BY MapsOf
<1>2. Fits(t, c.template, DOMAIN Frame(t).saved \ {Proc(t)})
  BY <1>1, FitsKept
<1> QED BY <1>2, ReturnMaps

LEMMA PanicMaps ==
    ASSUME Shape, MapsInv, NEW t \in DOMAIN threads, threads[t].dir \notin {"done", "waiting"},
           Proc(t) # "recover", Panic(t), heap' = heap
    PROVE MapsNext
<1>1. ThreadShape(prog, threads[t]) /\ ThreadTemplates(prog, t, threads[t])
        /\ HeapStep(t, heap)
  BY MapsOf
<1>2. MapsKept(t, threads[t], Panicked(threads[t]), heap')
  BY <1>1, PanickedMaps DEF Proc
<1> QED BY <1>1, <1>2, OneMaps DEF Panic

LEMMA CallMaps ==
    ASSUME Shape, MapsInv, NEW t \in DOMAIN threads, threads[t].dir \notin {"done", "waiting"},
           NEW s \in DOMAIN prog, NEW c, IsContext(c), NEW h, NEW v,
           Kept(Proc(t), v), CalledFrom(Proc(t), v), Call(t, s, c, h, v),
           HeapStep(t, heap'), Derived(t, threads[t], c, heap'),
           \A d \in Holds(Proc(t), v) : Derived(t, threads[t], d, heap'),
           Keeps(t, Proc(t), v), OwnTemplate(prog, t, c.template)
    PROVE MapsNext
<1> DEFINE th == threads[t]
           new == Called(th, s, c, h, v)
<1>1. ThreadShape(prog, th) /\ ThreadTemplates(prog, t, th) /\ th.dir # "done"
  BY MapsOf
<1>2. /\ Kept(Top(th).at, v) /\ CalledFrom(Top(th).at, v)
      /\ KeptTemplate(prog, t, Top(th).at, v, Len(th.stack), Top(th).step)
      /\ \A d \in Holds(Top(th).at, v) : Derived(t, th, d, heap')
  BY DEF Keeps, Frame, Proc
<1>3. MapsKept(t, th, new, heap')
  BY <1>1, <1>2, CalledMaps
<1>4. threads' = [threads EXCEPT ![t] = new]
  BY DEF Call
<1> HIDE DEF new
<1> QED BY <1>3, <1>4, OneMaps

\* It returns after a change of the history.
LEMMA TouchedReturn ==
    ASSUME Shape, MapsInv, NEW t \in DOMAIN threads, threads[t].dir \notin {"done", "waiting"},
           Proc(t) # "recover", NEW f, FrameShape(prog, f), SameFrame(f, Frame(t)), NEW e,
           threads' = [threads EXCEPT ![t] = Returned(SetTop(@, f), Ctx(t), e)],
           HeapStep(t, heap')
    PROVE MapsNext
<1> DEFINE th == threads[t]
           old == SetTop(th, f)
           new == Returned(old, Ctx(t), e)
<1>1. /\ ThreadShape(prog, th) /\ ThreadTemplates(prog, t, th) /\ th.dir # "done"
      /\ SameFrame(f, Top(th)) /\ IsContext(Ctx(t)) /\ Derived(t, th, Ctx(t), heap')
      /\ Top(th).at # "recover"
  BY MapsOf, ShapeOf DEF Frame, Proc
<1>2. /\ ThreadShape(prog, old) /\ ThreadTemplates(prog, t, old) /\ Top(old) = f
      /\ old.ctx = th.ctx /\ old.dir = th.dir
      /\ Held(old) \subseteq Held(th)
  BY <1>1, Touched
<1> HIDE DEF old
<1>3. TopTemplate(prog, t, Ctx(t).template, Len(old.stack), Top(old).step,
                  DOMAIN Top(old).saved \ {Top(old).at})
  <2>1. TopTemplate(prog, t, old.ctx.template, Len(old.stack), Top(old).step,
                    DOMAIN Top(old).saved)
    BY <1>1, <1>2, TemplatesOf
  <2> QED BY <1>2, <2>1 DEF TopTemplate, Ctx
<1>4. Top(old).at # "recover" /\ old.dir # "done"
  BY <1>1, <1>2 DEF SameFrame
<1>5. ThreadTemplates(prog, t, new) /\ Held(new) \subseteq {Ctx(t)} \cup Held(old)
  BY <1>1, <1>2, <1>3, <1>4, BackTemplates, ReturnedHeld
<1> HIDE DEF new
<1>6. \A d \in Held(new) : Derived(t, th, d, heap')
  BY <1>1, <1>2, <1>5, DerivedHeld
<1>7. MapsKept(t, th, new, heap')
  BY <1>5, <1>6 DEF MapsKept
<1>8. threads' = [threads EXCEPT ![t] = new]
  BY DEF new, old
<1> QED BY <1>7, <1>8, OneMaps

-----------------------------------------------------------------------------
(* Every step keeps the maps.                                              *)

\* Contexts with the same maps and template.
SameRefs(c, d) == SameMaps(c, d) /\ c.template = d.template

LEMMA SameRefsType ==
    ASSUME NEW c, IsContext(c)
    PROVE /\ SameRefs(c, c) /\ SameRefs(Cleared(c), c)
          /\ \A x : SameRefs([c EXCEPT !.expanding = x], c)
          /\ \A x : SameRefs([c EXCEPT !.uname = x], c)
          /\ \A x : SameRefs([c EXCEPT !.outlist = x], c)
<1>1. DOMAIN c = ContextFields
  BY DEF IsContext
<1>2. SameRefs(c, c)
  BY DEF SameRefs, SameMaps
<1>3. SameRefs(Cleared(c), c)
  BY <1>1 DEF SameRefs, SameMaps, Cleared, ContextFields, Maps, VarMaps
<1>4. \A x : SameRefs([c EXCEPT !.expanding = x], c)
  BY <1>1 DEF SameRefs, SameMaps, ContextFields, Maps, VarMaps
<1>5. \A x : SameRefs([c EXCEPT !.uname = x], c)
  BY <1>1 DEF SameRefs, SameMaps, ContextFields, Maps, VarMaps
<1>6. \A x : SameRefs([c EXCEPT !.outlist = x], c)
  BY <1>1 DEF SameRefs, SameMaps, ContextFields, Maps, VarMaps
<1> QED BY <1>2, <1>3, <1>4, <1>5, <1>6

\* Recover, retry, result.
LEMMA FirstMaps ==
    ASSUME Shape, MapsInv, NEW t \in DOMAIN threads,
           \/ EnterRecover(t) \/ LeaveRecover(t) \/ EnterRetry(t) \/ LeaveRetry(t)
           \/ EnterResult(t) \/ LeaveResult(t)
    PROVE MapsNext
<1> DEFINE th == threads[t]
<1>0. /\ ThreadShape(prog, th) /\ ThreadTemplates(prog, t, th) /\ IsContext(Ctx(t))
      /\ DOMAIN th = ThreadFields /\ HeapStep(t, heap) /\ Ctx(t) = th.ctx
      /\ \A h : Derived(t, th, Ctx(t), h)
  BY ShapeOf, MapsOf DEF Ctx
<1>f. th.dir # "done" => /\ FrameShape(prog, Top(th))
                         /\ Fits(t, Ctx(t).template, DOMAIN Frame(t).saved)
  BY ShapeOf, MapsOf DEF Frame
<1>1. CASE EnterRecover(t)
  <2> DEFINE c == Ctx(t)
  <2>1. th.dir = "down" /\ Proc(t) = "recover" /\ Forward(t, c, c) /\ heap' = heap
    BY <1>1 DEF EnterRecover, At
  <2>2. Kept("recover", c) /\ Holds("recover", c) = {c}
    BY <1>0 DEF Kept, Holds
  <2>3. Keeps(t, "recover", c)
    BY <1>f, <2>1 DEF Keeps, KeptTemplate, Fits, TopTemplate
  <2>4. Fits(t, c.template, DOMAIN Frame(t).saved \cup {"recover"})
    BY <1>f, <2>1, FitsKept
  <2> HIDE DEF c
  <2>5. IsContext(c) /\ Derived(t, th, c, heap') /\ HeapStep(t, heap')
    BY <1>0, <2>1 DEF c
  <2> QED BY <2>1, <2>2, <2>3, <2>4, <2>5, ForwardMaps
<1>2. CASE LeaveRecover(t)
  <2> DEFINE new == Returned(th, th.ctx, Err(t))
  <2>1. th.dir = "up" /\ Top(th).at = "recover" /\ heap' = heap
          /\ threads' = [threads EXCEPT ![t] = new]
    BY <1>0, <1>2 DEF LeaveRecover, At, Proc, Return
  <2>2. MapsKept(t, th, new, heap')
    BY <1>0, <2>1, LastMaps
  <2> HIDE DEF new
  <2> QED BY <1>0, <2>1, <2>2, OneMaps
<1>3. CASE EnterRetry(t)
  <2>1. th.dir = "down" /\ Proc(t) = "retry" /\ heap' = heap
    BY <1>3 DEF EnterRetry, At
  <2>2. CASE Ctx(t).alive
    <3> DEFINE v == [left |-> Options(t).retry, ctx |-> Ctx(t)]
    <3>1. Forward(t, Ctx(t), v)
      BY <1>3, <2>2 DEF EnterRetry
    <3>2. \A d \in Holds("retry", v) : Derived(t, th, d, heap')
      BY <1>0 DEF Holds
    <3>3. Keeps(t, "retry", v)
      BY DEF Keeps, KeptTemplate
    <3>4. Fits(t, Ctx(t).template, DOMAIN Frame(t).saved \cup {"retry"})
      BY <1>f, <2>1, FitsKept
    <3> HIDE DEF v
    <3>5. Kept("retry", v) /\ HeapStep(t, heap') /\ Derived(t, th, Ctx(t), heap')
      BY <1>0, <2>1, KeptAny
    <3> QED BY <1>0, <2>1, <3>1, <3>2, <3>3, <3>4, <3>5, ForwardMaps
  <2>3. CASE ~Ctx(t).alive
    BY <1>3, <2>1, <2>3, PanicMaps DEF EnterRetry
  <2> QED BY <2>2, <2>3
<1>4. CASE LeaveRetry(t)
  <2> DEFINE v == Saved(t, "retry")
             again == [Ctx(t) EXCEPT !.expanding = v.ctx.expanding]
             kept == [left |-> v.left - 1, ctx |-> v.ctx]
             f == Top(th)
             old == [th EXCEPT !.dir = "down", !.err = "ok", !.ctx = again]
             new == SetTop(old, Onward(Keep(f, kept)))
  <2>1. th.dir = "up" /\ Proc(t) = "retry" /\ f.at = "retry" /\ heap' = heap
    BY <1>4 DEF LeaveRetry, At, Proc
  <2>2. CASE Return(t, Ctx(t), Err(t))
    BY <1>0, <2>1, <2>2, ReturnPlainly
  <2>3. CASE threads' = [threads EXCEPT ![t] =
                SetTop([@ EXCEPT !.dir = "down", !.err = "ok", !.ctx = again],
                       Onward(Keep(Top(@), kept)))]
    <3>1. /\ old.stack = th.stack /\ old.path = th.path /\ DOMAIN old = ThreadFields
          /\ old.ctx = again /\ old.dir = "down"
      BY <1>0 DEF ThreadFields
    <3>2. IsContext(again) /\ SameMaps(again, Ctx(t)) /\ again.template = Ctx(t).template
      <4>1. SameRefs(again, Ctx(t))
        BY <1>0, SameRefsType
      <4>2. IsContext(again)
        BY <1>0 DEF IsContext
      <4> QED BY <4>1, <4>2 DEF SameRefs
    <3>3. \A d \in Holds("retry", kept) : Derived(t, th, d, heap')
      <4>1. "retry" \in DOMAIN Frame(t).saved
        BY <2>1, SavedShape
      <4>2. Holds("retry", v) \subseteq Held(th)
        BY <2>1, <4>1, MapsOf
      <4>3. Holds("retry", kept) = Holds("retry", v)
        BY DEF Holds
      <4> QED BY <4>2, <4>3, DerivedHeld
    <3>4. Keeps(t, "retry", kept)
      BY DEF Keeps, KeptTemplate
    <3>5. Fits(t, again.template, DOMAIN Frame(t).saved \cup {"retry"})
      BY <1>f, <2>1, <3>2, FitsKept
    <3>6. threads' = [threads EXCEPT ![t] = new]
      BY <2>3
    <3>7. Kept("retry", kept) /\ SameFrame(f, Top(th)) /\ f = Frame(t) /\ FrameShape(prog, f)
      BY <1>f, <2>1, KeptAny DEF SameFrame, Frame
    <3>8. Derived(t, th, again, heap')
      BY <1>0, <3>2, DerivedSame
    <3> HIDE DEF old, kept, again, v, f
    <3>9. /\ KeptTemplate(prog, t, f.at, kept, Len(th.stack), f.step)
          /\ TopTemplate(prog, t, old.ctx.template, Len(th.stack), f.step,
                         DOMAIN f.saved \cup {f.at})
          /\ IsContext(old.ctx) /\ Derived(t, th, old.ctx, heap')
          /\ \A d \in Holds(f.at, kept) : Derived(t, th, d, heap')
          /\ Kept(f.at, kept) /\ f.at # "end"
      BY <2>1, <3>1, <3>2, <3>3, <3>4, <3>5, <3>7, <3>8 DEF Keeps, Fits
    <3>10. MapsKept(t, th, new, heap')
      BY <1>0, <2>1, <3>1, <3>7, <3>9, OnwardMaps
    <3> HIDE DEF new
    <3> QED BY <1>0, <2>1, <3>6, <3>10, OneMaps
  <2> QED BY <1>4, <2>2, <2>3 DEF LeaveRetry
<1>5. CASE EnterResult(t)
  <2> DEFINE c == [Ctx(t) EXCEPT !.uname = Append(Ctx(t).ns, Frame(t).step)]
  <2>1. IsContext(c) /\ SameMaps(c, Ctx(t)) /\ c.template = Ctx(t).template
    <3>1. SameRefs(c, Ctx(t))
      BY <1>0, SameRefsType
    <3>2. IsContext(c)
      BY <1>0 DEF IsContext
    <3> QED BY <3>1, <3>2 DEF SameRefs
  <2>2. Forward(t, c, TRUE) /\ th.dir = "down" /\ Proc(t) = "result" /\ heap' = heap
    BY <1>5 DEF EnterResult, At
  <2> HIDE DEF c
  <2>3. Plainly(Proc(t)) /\ Kept(Proc(t), TRUE) /\ Proc(t) # "end" /\ HeapStep(t, heap')
    BY <1>0, <2>2, KeptAny DEF Plainly
  <2> QED BY <2>1, <2>2, <2>3, ForwardPlainly
<1>6. CASE LeaveResult(t)
  <2> DEFINE c == Cleared(Ctx(t))
             record == [outs |-> c.outs, uname |-> c.uname, err |-> Err(t), ended |-> TRUE]
             steps == Assign(heap[c.steps], Frame(t).step, record)
  <2>1. IsContext(c) /\ SameMaps(c, Ctx(t)) /\ c.template = Ctx(t).template
    <3>1. SameRefs(c, Ctx(t)) /\ IsContext(c)
      BY <1>0, SameRefsType, ContextType
    <3> QED BY <3>1 DEF SameRefs
  <2>2. /\ Return(t, c, Err(t)) /\ th.dir = "up" /\ Proc(t) = "result"
        /\ heap' = [heap EXCEPT ![c.steps] = steps]
    BY <1>6 DEF LeaveResult, At
  <2>3. record.outs = c.outs
    OBVIOUS
  <2> HIDE DEF c, record
  <2>4. /\ c.steps = Ctx(t).steps /\ c.outs = Ctx(t).outs
        /\ IsAddress(c.steps, t, "steps") /\ c.steps \in DOMAIN heap
    <3>1. OwnMaps(t, Ctx(t), DOMAIN heap) /\ {"steps", "outs"} \subseteq Maps
      BY MapsOf DEF Maps
    <3> QED BY <2>1, <3>1 DEF OwnMaps, SameMaps
  <2>5. \A s \in DOMAIN steps : Recorded(t, c.steps[1], steps[s].outs)
    <3>1. HoldsOuts(th, c.outs)
      BY <1>0, <2>4, MapsOf DEF HoldsOuts
    <3>2. c.steps[1] = t /\ IsSteps(c.steps)
      BY <2>4, NotSteps
    <3> TAKE s \in DOMAIN steps
    <3>3. CASE s = Frame(t).step
      <4>1. steps[s].outs = c.outs
        BY <2>3, <3>3 DEF Assign
      <4> QED BY <3>1, <3>2, <4>1 DEF Recorded
    <3>4. CASE s # Frame(t).step
      <4>1. s \in DOMAIN heap[c.steps] /\ steps[s] = heap[c.steps][s]
        BY <3>4 DEF Assign
      <4> QED BY <1>0, <2>4, <3>2, <4>1 DEF HeapStep
    <3> QED BY <3>3, <3>4
  <2> HIDE DEF steps
  <2>6. HeapStep(t, heap')
    BY <1>0, <2>2, <2>4, <2>5, HeapAssigned
  <2>7. Derived(t, th, c, heap')
    BY <1>0, <2>1, DerivedSame
  <2> QED BY <2>1, <2>2, <2>6, <2>7, ReturnPlainly
<1> QED BY <1>1, <1>2, <1>3, <1>4, <1>5, <1>6

\* A map of the context of a thread is changed in place, but for the records of steps.
LEMMA OwnChanged ==
    ASSUME Shape, MapsInv, NEW t \in DOMAIN threads, NEW k \in Maps \ {"steps"}, NEW v
    PROVE HeapStep(t, [heap EXCEPT ![Ctx(t)[k]] = v])
<1>1. HeapStep(t, heap) /\ OwnMaps(t, Ctx(t), DOMAIN heap)
  BY MapsOf
<1>2. ~IsSteps(Ctx(t)[k]) /\ Ctx(t)[k] \in DOMAIN heap
  BY <1>1, NotSteps DEF OwnMaps
<1> QED BY <1>1, <1>2, HeapAssigned

\* A map is made for it.
LEMMA OwnMade ==
    ASSUME Shape, MapsInv, NEW t \in DOMAIN threads, NEW k \in VarMaps, NEW v
    PROVE LET c == [Ctx(t) EXCEPT ![k] = Fresh(t, k, heap)]
          IN  /\ HeapStep(t, Make(t, k, v, heap))
              /\ IsContext(c) /\ c.template = Ctx(t).template
              /\ Derived(t, threads[t], c, Make(t, k, v, heap))
<1> DEFINE a == Fresh(t, k, heap)
           c == [Ctx(t) EXCEPT ![k] = a]
           h == Make(t, k, v, heap)
<1>1. /\ HeapStep(t, heap) /\ IsFiniteSet(DOMAIN heap) /\ DOMAIN Ctx(t) = ContextFields
      /\ Ctx(t) \in Held(threads[t])
  BY MapsOf, ShapeOf DEF IsContext
<1>2. IsAddress(a, t, k) /\ a \notin DOMAIN heap
  BY <1>1, FreshAddress
<1>3. h = Assign(heap, a, v)
  BY DEF Make
<1> HIDE DEF a, h
<1>4. ~IsSteps(a) /\ DOMAIN h = DOMAIN heap \cup {a}
  BY <1>2, <1>3, NotSteps, AssignType DEF VarMaps
<1>5. HeapStep(t, h)
  BY <1>1, <1>3, <1>4, HeapAssigned
<1>6. /\ DOMAIN c = ContextFields /\ c.template = Ctx(t).template /\ c[k] = a
      /\ \A j \in Maps \ {k} : c[j] = Ctx(t)[j]
  BY <1>1 DEF ContextFields, Maps, VarMaps
<1> HIDE DEF c
<1>7. Derived(t, threads[t], c, h)
  BY <1>1, <1>2, <1>4, <1>6 DEF Derived
<1> QED BY <1>5, <1>6, <1>7 DEF c, a, h, IsContext

\* The maps of variables, outputs.
LEMMA VariablesMaps ==
    ASSUME Shape, MapsInv, NEW t \in DOMAIN threads,
           \/ EnterInputs(t) \/ LeaveInputs(t)
           \/ \E k \in {"env", "secret"} : EnterVars(t, k) \/ LeaveVars(t, k) \/ LeaveVarsFails(t, k)
           \/ EnterOutputs(t) \/ LeaveOutputs(t) \/ PreparationFails(t)
    PROVE MapsNext
<1> DEFINE th == threads[t]
<1>0. /\ ThreadShape(prog, th) /\ ThreadTemplates(prog, t, th) /\ IsContext(Ctx(t))
      /\ DOMAIN th = ThreadFields /\ HeapStep(t, heap) /\ Ctx(t) = th.ctx
      /\ \A h : Derived(t, th, Ctx(t), h)
  BY ShapeOf, MapsOf DEF Ctx
<1>f. th.dir # "done" => /\ FrameShape(prog, Top(th))
                         /\ Fits(t, Ctx(t).template, DOMAIN Frame(t).saved)
  BY ShapeOf, MapsOf DEF Frame
<1>s. SameMaps(Ctx(t), Ctx(t))
  BY DEF SameMaps
<1>k. VarMaps \subseteq Maps \ {"steps"} /\ {"outs", "containers"} \subseteq Maps \ {"steps"}
        /\ {"env", "secret", "inputs"} \subseteq VarMaps
  BY DEF VarMaps, Maps
<1>1. CASE EnterInputs(t)
  <2> DEFINE v == MapsCopy(Declared(Frame(t).step, Options(t).inputs), heap[Ctx(t).inputs])
  <2>1. th.dir = "down" /\ Proc(t) = "inputs" /\ Forward(t, Ctx(t), heap[Ctx(t).inputs])
          /\ heap' = [heap EXCEPT ![Ctx(t).inputs] = v]
    BY <1>1 DEF EnterInputs, At
  <2> HIDE DEF v
  <2>2. HeapStep(t, [heap EXCEPT ![Ctx(t)["inputs"]] = v])
    BY <1>k, OwnChanged
  <2>3. HeapStep(t, heap') /\ Plainly(Proc(t)) /\ Kept(Proc(t), heap[Ctx(t).inputs])
    BY <2>1, <2>2, KeptAny DEF Plainly
  <2> QED BY <1>0, <1>s, <2>1, <2>3, ForwardPlainly
<1>2. CASE LeaveInputs(t)
  <2> DEFINE c == [Ctx(t) EXCEPT !["inputs"] = Fresh(t, "inputs", heap)]
             h == Make(t, "inputs", Saved(t, "inputs"), heap)
  <2>1. HeapStep(t, h) /\ IsContext(c) /\ c.template = Ctx(t).template /\ Derived(t, th, c, h)
    BY <1>k, OwnMade
  <2>2. Return(t, c, Err(t)) /\ th.dir = "up" /\ Proc(t) = "inputs" /\ heap' = h
    BY <1>2 DEF LeaveInputs, At
  <2> HIDE DEF c, h
  <2>3. HeapStep(t, heap') /\ Derived(t, th, c, heap')
    BY <2>1, <2>2
  <2> QED BY <2>1, <2>2, <2>3, ReturnPlainly
<1>3. ASSUME NEW k \in {"env", "secret"}, EnterVars(t, k)
      PROVE MapsNext
  <2> DEFINE f == [Top(th) EXCEPT !.published[k] = {}]
             v == Origin(t, k)
             new == SetTop(th, Onward(Keep(f, v)))
             m == MapsCopy(heap[Ctx(t)[k]], Declared(Frame(t).step, Options(t)[k]))
  <2>1. /\ At(t, "down", k) /\ threads' = [threads EXCEPT ![t] = new]
        /\ heap' = [heap EXCEPT ![Ctx(t)[k]] = m]
    BY <1>3 DEF EnterVars
  <2>2. FrameShape(prog, Top(th)) /\ th.dir = "down" /\ Top(th).at = k
    BY <1>f, <2>1 DEF At, Proc
  <2>3. /\ DOMAIN f = FrameFields /\ f.step = Top(th).step /\ f.at = k
        /\ f.saved = Top(th).saved
    BY <2>2 DEF FrameShape, FrameFields
  <2> HIDE DEF f, v, m
  <2>4. /\ FrameShape(prog, f) /\ Kept(f.at, v) /\ SameFrame(f, Top(th)) /\ f.at # "end"
        /\ Plainly(f.at) /\ f.at # "template"
    BY <2>2, <2>3, KeptAny DEF FrameShape, FrameFields, SameFrame, Plainly
  <2>5. HeapStep(t, heap')
    BY <1>k, <2>1, OwnChanged
  <2>6. Holds(f.at, v) = {} /\ KeptTemplate(prog, t, f.at, v, Len(th.stack), f.step)
    <3>1. Holds(f.at, v) = {} /\ Keeps(t, f.at, v)
      BY <2>4, PlainlyKept
    <3> QED BY <2>3, <3>1 DEF Keeps, Frame
  <2>7. TopTemplate(prog, t, th.ctx.template, Len(th.stack), f.step, DOMAIN f.saved \cup {f.at})
    <3>1. Fits(t, Ctx(t).template, DOMAIN Frame(t).saved \cup {f.at})
      BY <1>f, <2>2, <2>4, FitsKept
    <3> QED BY <1>0, <2>3, <3>1 DEF Fits, Frame
  <2>8. IsContext(th.ctx) /\ Derived(t, th, th.ctx, heap')
    BY <1>0
  <2>9. MapsKept(t, th, new, heap')
    BY <1>0, <2>2, <2>4, <2>6, <2>7, <2>8, OnwardMaps
  <2> HIDE DEF new
  <2> QED BY <2>1, <2>2, <2>5, <2>9, OneMaps
<1>4. ASSUME NEW k \in {"env", "secret"}, LeaveVars(t, k)
      PROVE MapsNext
  <2> DEFINE c == [Ctx(t) EXCEPT ![k] = Fresh(t, k, heap)]
             h == Make(t, k, Restored(t, k), heap)
  <2>1. HeapStep(t, h) /\ IsContext(c) /\ c.template = Ctx(t).template /\ Derived(t, th, c, h)
    BY <1>k, OwnMade
  <2>2. Return(t, c, Err(t)) /\ th.dir = "up" /\ Proc(t) = k /\ heap' = h
    BY <1>4 DEF LeaveVars, At
  <2> HIDE DEF c, h
  <2>3. HeapStep(t, heap') /\ Derived(t, th, c, heap')
    BY <2>1, <2>2
  <2> QED BY <2>1, <2>2, <2>3, ReturnPlainly
<1>5. ASSUME NEW dir \in {"down", "up"}, th.dir = dir, NEW r, Proc(t) # "recover",
             NEW f, f = [Frame(t) EXCEPT !.unrestored = r], HeapStep(t, heap'),
             threads' = [threads EXCEPT ![t] = Returned(SetTop(@, f), Ctx(t), "hard")]
      PROVE MapsNext
  <2>1. /\ FrameShape(prog, Frame(t)) /\ f.at = Frame(t).at
        /\ DOMAIN f = FrameFields /\ f.step = Frame(t).step /\ f.saved = Frame(t).saved
    BY <1>f, <1>5 DEF FrameShape, FrameFields, Frame
  <2>2. FrameShape(prog, f) /\ SameFrame(f, Frame(t))
    BY <2>1 DEF FrameShape, FrameFields, SameFrame
  <2>3. th.dir \notin {"done", "waiting"}
    BY <1>5
  <2> QED BY <1>5, <2>2, <2>3, TouchedReturn
<1>6. ASSUME NEW k \in {"env", "secret"}, LeaveVarsFails(t, k)
      PROVE MapsNext
  BY <1>0, <1>5, <1>6 DEF LeaveVarsFails, At
<1>7. CASE EnterOutputs(t)
  <2> DEFINE c == [Ctx(t) EXCEPT !.outlist = @ \cup {<<o, Ctx(t).uname>> : o \in Options(t).outputs}]
  <2>1. IsContext(c) /\ SameMaps(c, Ctx(t)) /\ c.template = Ctx(t).template
    <3>1. SameRefs(c, Ctx(t))
      BY <1>0, SameRefsType
    <3>2. IsContext(c)
      BY <1>0 DEF IsContext
    <3> QED BY <3>1, <3>2 DEF SameRefs
  <2>2. Forward(t, c, TRUE) /\ th.dir = "down" /\ Proc(t) = "outputs" /\ heap' = heap
    BY <1>7 DEF EnterOutputs, At
  <2> HIDE DEF c
  <2>3. Plainly(Proc(t)) /\ Kept(Proc(t), TRUE) /\ Proc(t) # "end" /\ HeapStep(t, heap')
    BY <1>0, <2>2, KeptAny DEF Plainly
  <2> QED BY <2>1, <2>2, <2>3, ForwardPlainly
<1>8. CASE LeaveOutputs(t)
  <2> DEFINE v == MapsCopy(heap[Ctx(t).outs], [o \in Options(t).outputs |-> {Frame(t).step}])
  <2>1. /\ Return(t, Ctx(t), Err(t)) /\ th.dir = "up" /\ Proc(t) = "outputs"
        /\ heap' = heap \/ heap' = [heap EXCEPT ![Ctx(t).outs] = v]
    BY <1>8 DEF LeaveOutputs, At
  <2> HIDE DEF v
  <2>2. HeapStep(t, [heap EXCEPT ![Ctx(t)["outs"]] = v])
    BY <1>k, OwnChanged
  <2>3. HeapStep(t, heap')
    BY <1>0, <2>1, <2>2
  <2> QED BY <1>0, <2>1, <2>3, ReturnPlainly
<1>9. CASE PreparationFails(t)
  <2>1. /\ th.dir \in {"down", "up"}
        /\ Proc(t) \in {"inputs", "env", "secret", "outputs", "redirect", "matrix"}
    BY <1>9 DEF PreparationFails, At, VarMaps
  <2>2. HeapStep(t, heap')
    <3> DEFINE p == Proc(t)
               v == MapsCopy(heap[Ctx(t)[p]], Declared(Frame(t).step, Options(t)[p]))
    <3>1. \/ heap' = heap
          \/ p \in {"env", "secret"} /\ heap' = [heap EXCEPT ![Ctx(t)[p]] = v]
      BY <1>9 DEF PreparationFails
    <3> HIDE DEF v, p
    <3>2. p \in {"env", "secret"} => HeapStep(t, [heap EXCEPT ![Ctx(t)[p]] = v])
      BY <1>k, OwnChanged
    <3> QED BY <1>0, <3>1, <3>2
  <2> QED BY <1>5, <1>9, <2>1, <2>2 DEF PreparationFails
<1> QED BY <1>1, <1>2, <1>3, <1>4, <1>6, <1>7, <1>8, <1>9

\* Writers, conditions, the template.
LEMMA ChecksMaps ==
    ASSUME Shape, MapsInv, NEW t \in DOMAIN threads,
           \/ EnterOutput(t) \/ LeaveOutput(t) \/ LeaveOutputFails(t)
           \/ Skip(t) \/ DoNotSkip(t) \/ ConditionFails(t) \/ LeaveCheck(t)
           \/ AllowFailure(t) \/ EnterTemplate(t) \/ LeaveTemplate(t)
           \/ EnterRedirect(t) \/ RedirectFails(t) \/ LeaveRedirect(t)
    PROVE MapsNext
<1> DEFINE th == threads[t]
<1>0. /\ IsContext(Ctx(t)) /\ DOMAIN Ctx(t) = ContextFields /\ HeapStep(t, heap)
      /\ \A h : Derived(t, th, Ctx(t), h)
  BY ShapeOf, MapsOf DEF IsContext
<1>f. th.dir # "done" => Fits(t, Ctx(t).template, DOMAIN Frame(t).saved)
  BY MapsOf
<1>s. SameMaps(Ctx(t), Ctx(t))
  BY DEF SameMaps
<1>c. ASSUME NEW c, SameRefs(c, Ctx(t)), IsContext(c)
      PROVE /\ SameMaps(c, Ctx(t)) /\ c.template = Ctx(t).template
            /\ \A h : Derived(t, th, c, h)
  BY <1>0, <1>c, DerivedSame DEF SameRefs
<1>1. CASE EnterOutput(t)
  <2> DEFINE own(w) == IF w = Discard THEN w ELSE <<"term", Frame(t).step>>
             c == [Ctx(t) EXCEPT !.stdout = own(@), !.stderr = own(@)]
  <2>1. IsContext(c) /\ SameRefs(c, Ctx(t))
    BY <1>0 DEF IsContext, SameRefs, SameMaps, ContextFields, Maps, VarMaps
  <2>2. /\ Forward(t, Ctx(t), FALSE) \/ Forward(t, c, TRUE)
        /\ th.dir = "down" /\ Proc(t) = "output" /\ heap' = heap
    BY <1>1 DEF EnterOutput, At
  <2>3. Kept("output", TRUE) /\ Kept("output", FALSE) /\ Plainly("output") /\ HeapStep(t, heap')
    BY <1>0, <2>2 DEF Kept, Plainly
  <2> HIDE DEF c
  <2>4. SameMaps(c, Ctx(t)) /\ c.template = Ctx(t).template
    BY <1>c, <2>1
  <2>5. CASE Forward(t, Ctx(t), FALSE)
    BY <1>0, <1>s, <2>2, <2>3, <2>5, ForwardPlainly
  <2>6. CASE Forward(t, c, TRUE)
    BY <2>1, <2>2, <2>3, <2>4, <2>6, ForwardPlainly
  <2> QED BY <2>2, <2>5, <2>6
<1>2. CASE LeaveOutput(t)
  <2> DEFINE c == [Ctx(t) EXCEPT !.stdout = Nil, !.stderr = Nil]
  <2>1. IsContext(c) /\ SameRefs(c, Ctx(t))
    BY <1>0 DEF IsContext, SameRefs, SameMaps, ContextFields, Maps, VarMaps
  <2>2. /\ Return(t, Ctx(t), Err(t)) \/ Return(t, c, Err(t))
        /\ th.dir = "up" /\ Proc(t) = "output" /\ heap' = heap
    BY <1>2 DEF LeaveOutput, At
  <2> HIDE DEF c
  <2>3. c.template = Ctx(t).template /\ HeapStep(t, heap') /\ Derived(t, th, c, heap')
          /\ Derived(t, th, Ctx(t), heap')
    BY <1>0, <1>c, <2>1, <2>2
  <2> QED BY <1>0, <2>1, <2>2, <2>3, ReturnPlainly
<1>3. CASE Skip(t)
  <2>1. /\ Return(t, Ctx(t), "soft") /\ th.dir = "down" /\ heap' = heap
        /\ Proc(t) \in {"blacklist", "done", "if"}
    BY <1>3 DEF Skip, At
  <2> QED BY <1>0, <2>1, ReturnPlainly
<1>4. CASE DoNotSkip(t)
  <2>1. /\ Forward(t, Ctx(t), TRUE) /\ th.dir = "down" /\ heap' = heap
        /\ Proc(t) \in {"blacklist", "done", "if", "soft"}
    BY <1>4 DEF DoNotSkip, At
  <2>2. Plainly(Proc(t)) /\ Kept(Proc(t), TRUE) /\ Proc(t) # "end" /\ HeapStep(t, heap')
    BY <1>0, <2>1, KeptAny DEF Plainly
  <2> QED BY <1>0, <1>s, <2>1, <2>2, ForwardPlainly
<1>5. CASE ConditionFails(t)
  <2>1. /\ Return(t, Ctx(t), "hard") \/ Panic(t)
        /\ th.dir = "down" /\ Proc(t) = "if" /\ heap' = heap
    BY <1>5 DEF ConditionFails, At
  <2>2. CASE Return(t, Ctx(t), "hard")
    BY <1>0, <2>1, <2>2, ReturnPlainly
  <2>3. CASE Panic(t)
    BY <2>1, <2>3, PanicMaps
  <2> QED BY <2>1, <2>2, <2>3
<1>6. CASE LeaveCheck(t)
  <2>1. /\ Return(t, Ctx(t), Err(t)) /\ th.dir = "up" /\ heap' = heap
        /\ Proc(t) \in {"blacklist", "done", "if"}
    BY <1>6 DEF LeaveCheck, At
  <2> QED BY <1>0, <2>1, ReturnPlainly
<1>7. CASE AllowFailure(t)
  <2> DEFINE e == IF Err(t) = "ok" THEN "ok" ELSE "soft"
  <2>1. Return(t, Ctx(t), e) /\ th.dir = "up" /\ heap' = heap /\ Proc(t) = "soft"
    BY <1>7 DEF AllowFailure, At
  <2> HIDE DEF e
  <2> QED BY <1>0, <2>1, ReturnPlainly
<1>8. CASE EnterTemplate(t)
  <2> DEFINE x == Ctx(t).template
             a == IF x = Nil THEN Global(Frame(t).step) ELSE x
             c == [Ctx(t) EXCEPT !.template = a]
             m == MergeTemplate(heap[a], Options(t).image)
  <2>1. /\ IsContext(c) /\ SameMaps(c, Ctx(t)) /\ c.template = a
    BY <1>0 DEF IsContext, SameMaps, ContextFields, Maps, VarMaps
  <2>2. /\ Forward(t, c, x) /\ th.dir = "down" /\ Proc(t) = "template"
        /\ heap' = [heap EXCEPT ![a] = m]
    BY <1>8 DEF EnterTemplate, At
  <2>3. Fits(t, x, DOMAIN Frame(t).saved)
    BY <1>f, <2>2
  <2>4. OwnTemplate(prog, t, a)
    <3>1. TemplateOf(prog, t, x, Len(th.stack), Frame(t).step)
      BY <2>3 DEF Fits, TopTemplate
    <3>2. CASE x = Nil
      <4>1. SharesTemplate(prog, t) /\ Frame(t).step = "main"
        BY <3>1, <3>2, AddressesDiffer DEF TemplateOf
      <4> QED BY <3>2, <4>1 DEF OwnTemplate
    <3>3. CASE x # Nil
      BY <3>1, <3>3, TemplateFacts
    <3> QED BY <3>2, <3>3
  <2>5. Keeps(t, "template", x)
    BY <2>3 DEF Keeps, KeptTemplate, Fits, TopTemplate
  <2> HIDE DEF a, c, m, x
  <2>6. Fits(t, c.template, DOMAIN Frame(t).saved \cup {"template"})
    BY <2>1, <2>4, TemplateFacts DEF Fits
  <2>7. HeapStep(t, heap')
    BY <1>0, <2>2, <2>4, NotSteps, HeapAssigned
  <2>8. Derived(t, th, c, heap') /\ Holds("template", x) = {} /\ Kept("template", x)
    BY <1>0, <2>1, DerivedSame, KeptAny, AnyForeign DEF Holds
  <2> QED BY <2>1, <2>2, <2>5, <2>6, <2>7, <2>8, ForwardMaps
<1>9. CASE LeaveTemplate(t)
  <2> DEFINE x == Saved(t, "template")
             c == [Ctx(t) EXCEPT !.template = x]
  <2>1. /\ IsContext(c) /\ SameMaps(c, Ctx(t)) /\ c.template = x
    BY <1>0 DEF IsContext, SameMaps, ContextFields, Maps, VarMaps
  <2>2. /\ Return(t, c, Err(t)) /\ th.dir = "up" /\ Proc(t) = "template" /\ heap' = heap
    BY <1>9 DEF LeaveTemplate, At
  <2>3. Keeps(t, "template", x)
    <3>1. "template" \in DOMAIN Frame(t).saved
      BY <2>2, SavedShape
    <3> QED BY <2>2, <3>1, MapsOf
  <2> HIDE DEF c, x
  <2>4. Fits(t, c.template, DOMAIN Frame(t).saved \ {"template"})
    BY <2>1, <2>3 DEF Keeps, KeptTemplate, Fits, TopTemplate
  <2>5. Derived(t, th, c, heap') /\ HeapStep(t, heap')
    BY <1>0, <2>1, <2>2, DerivedSame
  <2> QED BY <2>1, <2>2, <2>4, <2>5, ReturnMaps
<1>10. CASE EnterRedirect(t)
  <2> DEFINE c == [Ctx(t) EXCEPT !.stdout = Discard,
                                 !.files = @ \cup {<<x, Frame(t).step>> : x \in Options(t).redirect}]
             v == [stdout |-> Ctx(t).stdout, stderr |-> Ctx(t).stderr]
  <2>1. IsContext(c) /\ SameRefs(c, Ctx(t))
    BY <1>0 DEF IsContext, SameRefs, SameMaps, ContextFields, Maps, VarMaps
  <2>2. Forward(t, c, v) /\ th.dir = "down" /\ Proc(t) = "redirect" /\ heap' = heap
    BY <1>10 DEF EnterRedirect, At
  <2> HIDE DEF c, v
  <2>3. /\ Plainly(Proc(t)) /\ Kept(Proc(t), v) /\ Proc(t) # "end" /\ HeapStep(t, heap')
        /\ SameMaps(c, Ctx(t)) /\ c.template = Ctx(t).template
    BY <1>0, <1>c, <2>1, <2>2, KeptAny DEF Plainly
  <2> QED BY <2>1, <2>2, <2>3, ForwardPlainly
<1>11. CASE LeaveRedirect(t)
  <2> DEFINE c == Unredirected(t)
  <2>1. IsContext(c) /\ SameRefs(c, Ctx(t))
    <3>1. IsContext(c)
      BY <1>0, ContextType
    <3>2. SameRefs(c, Ctx(t))
      BY <1>0 DEF Unredirected, SameRefs, SameMaps, ContextFields, Maps, VarMaps
    <3> QED BY <3>1, <3>2
  <2>2. Return(t, c, Err(t)) /\ th.dir = "up" /\ Proc(t) = "redirect" /\ heap' = heap
    BY <1>11 DEF LeaveRedirect, At
  <2> HIDE DEF c
  <2>3. c.template = Ctx(t).template /\ HeapStep(t, heap') /\ Derived(t, th, c, heap')
    BY <1>0, <1>c, <2>1, <2>2
  <2> QED BY <2>1, <2>2, <2>3, ReturnPlainly
<1>12. CASE LeaveOutputFails(t)
  <2>1. /\ Return(t, Ctx(t), "hard") /\ th.dir = "up" /\ Proc(t) = "output" /\ heap' = heap
    BY <1>12 DEF LeaveOutputFails, At
  <2> QED BY <1>0, <2>1, ReturnPlainly
<1>13. CASE RedirectFails(t)
  <2>1. PICK stream \in Options(t).redirect :
           LET first == IF stream = "stderr" THEN Options(t).redirect \cap {"stdout"} ELSE {}
           IN  Return(t, [Ctx(t) EXCEPT !.stdout = Discard,
                             !.closed = @ \cup {<<x, Frame(t).step>> : x \in first}], "hard")
    BY <1>13 DEF RedirectFails
  <2> DEFINE first == IF stream = "stderr" THEN Options(t).redirect \cap {"stdout"} ELSE {}
             c == [Ctx(t) EXCEPT !.stdout = Discard,
                      !.closed = @ \cup {<<x, Frame(t).step>> : x \in first}]
  <2>2. IsContext(c) /\ SameRefs(c, Ctx(t))
    BY <1>0 DEF IsContext, SameRefs, SameMaps, ContextFields, Maps, VarMaps
  <2>3. Return(t, c, "hard") /\ th.dir = "down" /\ Proc(t) = "redirect" /\ heap' = heap
    BY <1>13, <2>1 DEF RedirectFails, At
  <2> HIDE DEF c
  <2>4. c.template = Ctx(t).template /\ HeapStep(t, heap') /\ Derived(t, th, c, heap')
    BY <1>0, <1>c, <2>2, <2>3
  <2> QED BY <2>2, <2>3, <2>4, ReturnPlainly
<1> QED BY <1>1, <1>2, <1>3, <1>4, <1>5, <1>6, <1>7, <1>8, <1>9, <1>10, <1>11, <1>12, <1>13

-----------------------------------------------------------------------------
(* Other steps are called.                                                 *)

LEMMA KindsFinite == IsFiniteSet(Maps) /\ IsFiniteSet(Kinds) /\ Maps \subseteq Kinds
<1>1. IsFiniteSet({"env"})
  BY FS_Singleton
<1>2. IsFiniteSet({"env"} \cup {"secret"})
  BY <1>1, FS_AddElement
<1>3. IsFiniteSet({"env"} \cup {"secret"} \cup {"inputs"})
  BY <1>2, FS_AddElement
<1>4. IsFiniteSet({"env"} \cup {"secret"} \cup {"inputs"} \cup {"outs"})
  BY <1>3, FS_AddElement
<1>5. IsFiniteSet({"env"} \cup {"secret"} \cup {"inputs"} \cup {"outs"} \cup {"steps"})
  BY <1>4, FS_AddElement
<1>6. IsFiniteSet({"env"} \cup {"secret"} \cup {"inputs"} \cup {"outs"} \cup {"steps"}
                    \cup {"containers"})
  BY <1>5, FS_AddElement
<1>7. Maps = {"env"} \cup {"secret"} \cup {"inputs"} \cup {"outs"} \cup {"steps"}
                    \cup {"containers"}
  BY DEF Maps, VarMaps
<1>8. IsFiniteSet(Maps)
  BY <1>6, <1>7
<1>9. IsFiniteSet(Kinds)
  BY <1>8, FS_AddElement DEF Kinds
<1> QED BY <1>8, <1>9 DEF Kinds

LEMMA FiniteImage ==
    ASSUME NEW S, IsFiniteSet(S), NEW f, f = [x \in S |-> f[x]]
    PROVE IsFiniteSet({f[x] : x \in S})
<1> DEFINE T == {f[x] : x \in S}
<1>1. f \in [S -> T]
  BY Zenon
<1>2. f \in Surjection(S, T)
  BY <1>1 DEF Surjection
<1> HIDE DEF T
<1>3. IsFiniteSet(T)
  BY <1>2, FS_Surjection
<1> QED BY <1>3 DEF T

\* The addresses of new maps of thread t.
News(t, K) == {Fresh(t, k, heap) : k \in K}

LEMMA NewsType ==
    ASSUME IsFiniteSet(DOMAIN heap), NEW t, NEW K \in SUBSET Kinds
    PROVE /\ IsFiniteSet(News(t, K))
          /\ \A k \in K : IsAddress(Fresh(t, k, heap), t, k) /\ Fresh(t, k, heap) \notin DOMAIN heap
          /\ \A a \in News(t, K) :
                /\ a[1] = t /\ a[2] \in K /\ a = Fresh(t, a[2], heap) /\ IsAddress(a, t, a[2])
                /\ a \notin DOMAIN heap
<1>1. \A k \in K : IsAddress(Fresh(t, k, heap), t, k) /\ Fresh(t, k, heap) \notin DOMAIN heap
  BY FreshAddress
<1>2. ASSUME NEW a \in News(t, K)
      PROVE /\ a[1] = t /\ a[2] \in K /\ a = Fresh(t, a[2], heap) /\ IsAddress(a, t, a[2])
            /\ a \notin DOMAIN heap
  BY <1>1 DEF News, IsAddress
<1>3. IsFiniteSet(News(t, K))
  <2> DEFINE f == [k \in K |-> Fresh(t, k, heap)]
  <2>1. IsFiniteSet(K)
    BY KindsFinite, FS_Subset
  <2>2. f = [k \in K |-> f[k]] /\ News(t, K) = {f[k] : k \in K}
    BY DEF News
  <2> HIDE DEF f
  <2> QED BY <2>1, <2>2, FiniteImage
<1> QED BY <1>1, <1>2, <1>3

\* Empty maps are made.
LEMMA HeapEmptied ==
    ASSUME MapsInv, NEW t, NEW h, HeapStep(t, h), NEW K \in SUBSET Kinds
    PROVE LET n == MapsCopy(h, [a \in News(t, K) |-> EmptyMap])
          IN  HeapStep(t, n) /\ DOMAIN n = DOMAIN h \cup News(t, K)
<1> DEFINE g == [a \in News(t, K) |-> EmptyMap]
<1>1. IsFiniteSet(DOMAIN g) /\ DOMAIN g = News(t, K)
  BY NewsType DEF MapsInv
<1>2. \A a \in DOMAIN g : DOMAIN g[a] = {}
  BY DEF EmptyMap
<1> HIDE DEF g
<1>3. HeapStep(t, MapsCopy(h, g))
  BY <1>1, <1>2, HeapCopied
<1>4. DOMAIN MapsCopy(h, g) = DOMAIN h \cup News(t, K)
  BY <1>1, MapsCopyType
<1> QED BY <1>3, <1>4 DEF g

\* The maps of a context are cloned.
LEMMA HeapCloned ==
    ASSUME MapsInv, NEW t, NEW c, OwnMaps(t, c, DOMAIN heap)
    PROVE LET n == DeepCopyHeap(t, c, heap)
          IN  HeapStep(t, n) /\ DOMAIN n = DOMAIN heap \cup News(t, Copied(c))
<1> DEFINE g == [a \in News(t, Copied(c)) |-> heap[c[a[2]]]]
<1>0. Copied(c) \in SUBSET Kinds
  BY DEF Copied, Cloned, Kinds
<1>1. IsFiniteSet(DOMAIN g) /\ DOMAIN g = News(t, Copied(c))
  BY <1>0, NewsType DEF MapsInv
<1>2. ASSUME NEW a \in DOMAIN g, IsSteps(a), NEW s \in DOMAIN g[a]
      PROVE Recorded(t, a[1], g[a][s].outs)
  <2>1. a[1] = t /\ a[2] = "steps" /\ g[a] = heap[c.steps]
    BY <1>0, <1>2, NewsType DEF MapsInv, IsSteps
  <2>2. IsSteps(c.steps) /\ c.steps \in DOMAIN heap /\ c.steps[1] = t
    BY NotSteps DEF OwnMaps, Maps
  <2>3. HeapStep(t, heap)
    BY HeapSame
  <2> QED BY <1>2, <2>1, <2>2, <2>3 DEF HeapStep
<1>3. DeepCopyHeap(t, c, heap) = MapsCopy(heap, g)
  BY DEF DeepCopyHeap, News
<1>4. HeapStep(t, heap)
  BY HeapSame
<1> HIDE DEF g
<1>5. HeapStep(t, MapsCopy(heap, g))
  BY <1>1, <1>2, <1>4, HeapCopied
<1>6. DOMAIN MapsCopy(heap, g) = DOMAIN heap \cup News(t, Copied(c))
  BY <1>1, MapsCopyType
<1> QED BY <1>3, <1>5, <1>6

\* Below its template processor a step has a template.
LEMMA BelowTemplate ==
    ASSUME Shape, MapsInv, NEW t \in DOMAIN threads, threads[t].dir # "done",
           Proc(t) \in {"needs", "redirect", "run", "inherit", "and", "concurrent", "end"}
    PROVE /\ "template" \in DOMAIN Frame(t).saved
          /\ OwnTemplate(prog, t, Ctx(t).template)
          /\ Ctx(t).template # Nil
<1> DEFINE f == Frame(t)
<1>1. FrameShape(prog, f) /\ TopShape(prog, f, threads[t].dir) /\ f.at = Proc(t)
  BY ShapeOf DEF Frame, Proc
<1> HIDE DEF f
<1>2. "template" \in Processors(prog[f.step]) /\ Order["template"] < Order[f.at]
  BY <1>1, ProcessorsType, Places
<1>3. "template" \in DOMAIN f.saved
  BY <1>1, <1>2, SavedOrder
<1>4. Fits(t, Ctx(t).template, DOMAIN f.saved)
  BY MapsOf DEF f
<1>5. OwnTemplate(prog, t, Ctx(t).template)
  BY <1>3, <1>4, FitsKept
<1> QED BY <1>3, <1>5, TemplateFacts DEF f

LEMMA CallNeededMaps ==
    ASSUME Shape, MapsInv, NEW t \in DOMAIN threads, threads[t].dir \in {"down", "merged"},
           Proc(t) = "needs", NEW i \in Nat, i > 0, Options(t).needs[i] \in DOMAIN prog,
           CallNeeded(t, Ctx(t), i)
    PROVE MapsNext
<1> DEFINE a == Fresh(t, "template", heap)
           new == [NewContext(t, heap) EXCEPT !.template = a]
           n == NewHeap(t, heap)
           h == Assign(n, new.template, heap[Ctx(t).template])
           c == Ctx(t)
           v == [next |-> i + 1, ctx |-> c]
           s == Options(t).needs[i]
<1>1. IsContext(new) /\ new.template = a
  BY NewContextType DEF IsContext, ContextFields
<1>2. Call(t, s, new, h, v) /\ s \in DOMAIN prog /\ heap' = h
  BY DEF CallNeeded
<1>3. v.next \in Nat /\ v.next > 0 /\ v.ctx = c
  <2>1. v.next = i + 1 /\ v.ctx = Ctx(t)
    OBVIOUS
  <2>2. i + 1 \in Nat /\ i + 1 > 0
    OBVIOUS
  <2> QED BY <2>1, <2>2
<1>4. /\ IsContext(c) /\ IsFiniteSet(DOMAIN heap) /\ HeapStep(t, heap)
      /\ \A g : Derived(t, threads[t], c, g)
  BY ShapeOf, MapsOf
<1>5. \A k \in Maps : new[k] = Fresh(t, k, heap)
  <2> DEFINE x == NewContext(t, heap)
  <2>0. /\ x.env = Fresh(t, "env", heap) /\ x.secret = Fresh(t, "secret", heap)
        /\ x.inputs = Fresh(t, "inputs", heap) /\ x.outs = Fresh(t, "outs", heap)
        /\ x.steps = Fresh(t, "steps", heap) /\ x.containers = Fresh(t, "containers", heap)
    BY DEF NewContext
  <2>2. DOMAIN x = ContextFields
    BY NewContextType DEF IsContext
  <2> HIDE DEF x
  <2>1. \A k \in Maps : x[k] = Fresh(t, k, heap)
    BY <2>0 DEF Maps, VarMaps
  <2>3. \A k \in Maps : new[k] = x[k]
    BY <2>2 DEF ContextFields, Maps, VarMaps, x
  <2> QED BY <2>1, <2>3
<1>6. HeapStep(t, n) /\ DOMAIN n = DOMAIN heap \cup News(t, Maps)
  <2>1. n = MapsCopy(heap, [x \in News(t, Maps) |-> EmptyMap])
    BY DEF NewHeap, News
  <2>2. Maps \in SUBSET Kinds
    BY KindsFinite
  <2> HIDE DEF n
  <2> QED BY <1>4, <2>1, <2>2, HeapEmptied
<1>7. IsAddress(a, t, "template") /\ ~IsSteps(a)
  BY <1>4, FreshAddress, NotSteps
<1> HIDE DEF new, v, s, n, a
<1>8. HeapStep(t, heap') /\ DOMAIN heap' = DOMAIN n \cup {a}
  <2> DEFINE m == heap[Ctx(t).template]
  <2>1. heap' = Assign(n, a, m)
    BY <1>1, <1>2
  <2> HIDE DEF m, h, c
  <2>2. HeapStep(t, Assign(n, a, m))
    BY <1>6, <1>7, HeapAssigned
  <2>3. DOMAIN Assign(n, a, m) = DOMAIN n \cup {a}
    BY DEF Assign
  <2> QED BY <2>1, <2>2, <2>3
<1> HIDE DEF c
<1> HIDE DEF h
<1>9. Derived(t, threads[t], new, heap')
  <2>1. \A k \in Maps : IsAddress(new[k], t, k) /\ new[k] \notin DOMAIN heap
    BY <1>4, <1>5, NewsType, KindsFinite
  <2>2. \A k \in Maps : new[k] \in DOMAIN heap'
    BY <1>5, <1>6, <1>8 DEF News
  <2> QED BY <2>1, <2>2 DEF Derived
<1>10. Kept("needs", v) /\ CalledFrom("needs", v) /\ Foreign("needs", v)
  BY <1>3, <1>4 DEF Kept, CalledFrom, Foreign
<1>11. \A d \in Holds("needs", v) : Derived(t, threads[t], d, heap')
  BY <1>3, <1>4, <1>10 DEF Holds
<1>12. Keeps(t, "needs", v)
  <2>1. OwnTemplate(prog, t, c.template)
    BY BelowTemplate DEF c
  <2> QED BY <1>3, <2>1 DEF Keeps, KeptTemplate
<1>13. OwnTemplate(prog, t, new.template)
  BY <1>1, <1>7 DEF OwnTemplate
<1> QED BY <1>1, <1>2, <1>8, <1>9, <1>10, <1>11, <1>12, <1>13, CallMaps

\* Needs, and, inherit.
LEMMA CallsMaps ==
    ASSUME Shape, MapsInv, NEW t \in DOMAIN threads,
           \/ EnterNeeds(t) \/ NeededReturns(t) \/ MoreNeeds(t) \/ LeaveNeeds(t)
           \/ EnterAnd(t) \/ ReferenceReturns(t)
           \/ EnterInherit(t) \/ InheritedReturns(t) \/ LeaveInherit(t)
    PROVE MapsNext
<1> DEFINE th == threads[t]
<1>0. /\ IsContext(Ctx(t)) /\ DOMAIN th = ThreadFields /\ ThreadShape(prog, th)
      /\ ThreadTemplates(prog, t, th) /\ SameMaps(Ctx(t), Ctx(t)) /\ Ctx(t) = th.ctx
      /\ HeldOwn(t, th, DOMAIN heap) /\ HeapStep(t, heap) /\ OwnMaps(t, Ctx(t), DOMAIN heap)
      /\ \A h : Derived(t, th, Ctx(t), h)
  BY ShapeOf, MapsOf DEF SameMaps, Ctx
<1>f. th.dir # "done" =>
            /\ Frame(t).step \in DOMAIN prog
            /\ Options(t).needs \in Seq(DOMAIN prog)
            /\ Options(t).inherit \in DOMAIN prog \cup {""}
            /\ Proc(t) \in Processors(Options(t))
            /\ FrameShape(prog, Top(th)) /\ TopShape(prog, Top(th), th.dir)
            /\ Fits(t, Ctx(t).template, DOMAIN Frame(t).saved)
  <2>1. ASSUME th.dir # "done"
        PROVE /\ FrameShape(prog, Top(th)) /\ TopShape(prog, Top(th), th.dir)
              /\ Frame(t).step \in DOMAIN prog
              /\ Proc(t) \in Processors(Options(t))
              /\ Fits(t, Ctx(t).template, DOMAIN Frame(t).saved)
    BY <2>1, ShapeOf, MapsOf DEF Options, Frame, Proc
  <2>2. ASSUME th.dir # "done"
        PROVE /\ Options(t).needs \in Seq(DOMAIN prog)
              /\ Options(t).inherit \in DOMAIN prog \cup {""}
    BY <2>1, <2>2, ReferencesType DEF Options
  <2> QED BY <2>1, <2>2
<1>r. th.dir # "done" => Options(t).and \in Seq(DOMAIN prog)
  BY <1>f, ReferencesType DEF Options
\* What a call has kept: a context the thread holds, which has a template.
<1>k. ASSUME NEW p \in {"needs", "inherit"}, th.dir = "up", Proc(t) = p, Foreign(p, Saved(t, p))
      PROVE /\ Saved(t, p).ctx \in Held(th) /\ IsContext(Saved(t, p).ctx)
            /\ OwnMaps(t, Saved(t, p).ctx, DOMAIN heap)
            /\ OwnTemplate(prog, t, Saved(t, p).ctx.template)
            /\ ~IsSteps(Saved(t, p).ctx.template)
            /\ \A saved : Fits(t, Saved(t, p).ctx.template, saved)
            /\ \A h : Derived(t, th, Saved(t, p).ctx, h)
  <2> DEFINE v == Saved(t, p)
  <2>1. p \in DOMAIN Frame(t).saved /\ Kept(p, v)
    BY <1>k, SavedShape
  <2>2. Holds(p, v) \subseteq Held(th) /\ Keeps(t, p, v)
    BY <1>k, <2>1, MapsOf
  <2>3. Foreign(p, v)
    BY <1>k
  <2> HIDE DEF v
  <2>4. v.ctx \in Held(th) /\ IsContext(v.ctx) /\ OwnTemplate(prog, t, v.ctx.template)
    BY <1>k, <2>1, <2>2, <2>3 DEF Holds, Kept, Foreign, Keeps, KeptTemplate
  <2>5. OwnMaps(t, v.ctx, DOMAIN heap) /\ ~IsSteps(v.ctx.template)
    BY <1>0, <1>f, <2>4, NotSteps DEF HeldOwn
  <2>6. \A saved : Fits(t, v.ctx.template, saved)
    BY <2>4, TemplateFacts DEF Fits
  <2>7. \A h : Derived(t, th, v.ctx, h)
    BY <2>4, DerivedHeld
  <2> QED BY <2>4, <2>5, <2>6, <2>7 DEF v
<1>2. CASE EnterNeeds(t)
  <2> DEFINE i == NextNeeded(t, Ctx(t), 1)
             v == [next |-> 0]
  <2>1. th.dir = "down" /\ Proc(t) = "needs"
    BY <1>2 DEF EnterNeeds, At
  <2>2. i = 0 \/ (i \in Nat /\ i > 0 /\ Options(t).needs[i] \in DOMAIN prog)
    <3>1. Options(t).needs \in Seq(DOMAIN prog)
      BY <1>0, <1>f, <2>1
    <3>2. 1 \in Nat \ {0}
      OBVIOUS
    <3> QED BY <3>1, <3>2, NextNeededType
  <2>3. \/ i = 0 /\ Forward(t, Ctx(t), v) /\ heap' = heap
        \/ i # 0 /\ CallNeeded(t, Ctx(t), i)
    BY <1>2 DEF EnterNeeds
  <2>4. v.next = 0
    OBVIOUS
  <2> HIDE DEF i, v
  <2>5. Kept("needs", v)
    BY <2>4 DEF Kept
  <2>6. CASE Forward(t, Ctx(t), v) /\ heap' = heap
    BY <1>0, <1>f, <2>1, <2>4, <2>5, <2>6, ForwardPlainly
  <2> QED BY <2>1, <2>2, <2>3, <2>6, CallNeededMaps
<1>3. CASE NeededReturns(t)
  <2> DEFINE c == Saved(t, "needs").ctx
             e == [Ctx(t) EXCEPT !.inputs = c.inputs]
             old == [th EXCEPT !.ctx = c, !.dir = "merged"]
             f == Top(th)
             new == SetTop(old, f)
  <2>1. /\ th.dir = "up" /\ Proc(t) = "needs" /\ Saved(t, "needs").next > 0
        /\ heap' = MergeHeap(c, e, heap)
    BY <1>3 DEF NeededReturns, At
  <2>2. /\ c \in Held(th) /\ IsContext(c) /\ OwnMaps(t, c, DOMAIN heap)
        /\ OwnTemplate(prog, t, c.template) /\ ~IsSteps(c.template)
        /\ \A saved : Fits(t, c.template, saved)
        /\ \A h : Derived(t, th, c, h)
    <3>1. Foreign("needs", Saved(t, "needs"))
      BY <2>1 DEF Foreign
    <3> QED BY <1>k, <2>1, <3>1
  <2>3. e.steps = Ctx(t).steps
    BY <1>0 DEF IsContext, ContextFields
  <2>4. \/ threads' = [threads EXCEPT ![t] = Returned(@, c, Err(t))]
        \/ threads' = [threads EXCEPT ![t] = SetTop([@ EXCEPT !.ctx = c, !.dir = "merged"], Top(@))]
    BY <1>3 DEF NeededReturns
  <2>5. HeapStep(t, heap')
    <3> HIDE DEF c, e
    <3> QED BY <1>0, <1>f, <2>1, <2>2, <2>3, HeapMerged
  <2>6. CASE threads' = [threads EXCEPT ![t] = Returned(@, c, Err(t))]
    <3>1. Return(t, c, Err(t))
      BY <2>6 DEF Return
    <3> HIDE DEF c, e
    <3> QED BY <2>1, <2>2, <2>5, <3>1, ReturnMaps
  <2>7. CASE threads' = [threads EXCEPT ![t] = SetTop([@ EXCEPT !.ctx = c, !.dir = "merged"], Top(@))]
    <3>1. threads' = [threads EXCEPT ![t] = new]
      BY <2>7
    <3>2. /\ old.stack = th.stack /\ old.path = th.path /\ DOMAIN old = ThreadFields
          /\ old.ctx = c /\ old.dir = "merged" /\ "merged" \in Directions \ {"done"}
      BY <1>0 DEF ThreadFields, Directions
    <3>3. TopShape(prog, f, "merged") /\ FrameShape(prog, f) /\ f.at = "needs" /\ f = Frame(t)
      BY <1>0, <1>f, <2>1 DEF TopShape, Saved, Proc, Frame
    <3>4. FrameHolds(f) \subseteq Held(th) /\ FrameTemplates(prog, t, f, Len(th.stack))
      BY <1>0, <1>f, <2>1, FramesOf, HeldOf, TemplatesOf
    <3>i. \A i \in 1 .. Len(th.stack) : FrameHolds(th.stack[i]) \subseteq Held(th)
      BY <1>0, FramesOf, HeldOf
    <3> HIDE DEF old, c, e
    <3>ctx. /\ IsContext(old.ctx) /\ old.dir \in Directions \ {"done"}
            /\ TopShape(prog, f, old.dir) /\ th.dir # "done"
      BY <2>1, <2>2, <3>2, <3>3
    <3> HIDE DEF f
    <3>5. /\ Top(new) = f
          /\ Len(new.stack) = Len(th.stack)
          /\ \A i \in 1 .. Len(th.stack) - 1 : new.stack[i] = th.stack[i]
          /\ new.ctx = c
      <4>1. ThreadShape(prog, th)
        BY <1>0
      <4> QED BY <3>2, <3>3, <3>ctx, <4>1, TopMoved
    <3>6. TopTemplate(prog, t, c.template, Len(th.stack), f.step, DOMAIN f.saved)
      BY <2>2, <3>3 DEF Fits
    <3> HIDE DEF new
    <3>7. ThreadTemplates(prog, t, new)
      BY <1>0, <1>f, <3>4, <3>5, <3>6, <3>ctx, TemplatesMoved
    <3>8. Held(new) \subseteq {c} \cup Held(th)
      <4>0. Len(th.stack) \in Nat /\ Len(th.stack) > 0
        BY <1>0, FramesOf
      <4>1. ASSUME NEW i \in 1 .. Len(new.stack)
            PROVE FrameHolds(new.stack[i]) \subseteq Held(th)
        <5>1. CASE i = Len(th.stack)
          BY <3>4, <3>5, <5>1 DEF Top
        <5>2. CASE i # Len(th.stack)
          <6>1. i \in 1 .. Len(th.stack) - 1 /\ i \in 1 .. Len(th.stack)
            BY <3>5, <4>0, <5>2
          <6> QED BY <3>5, <3>i, <6>1
        <5> QED BY <5>1, <5>2
      <4>2. Held(new) \subseteq {new.ctx} \cup Held(th)
        BY <4>1, HeldStack
      <4> QED BY <3>5, <4>2
    <3>9. \A d \in Held(new) : Derived(t, th, d, heap')
      BY <2>2, <3>8, DerivedHeld
    <3>10. MapsKept(t, th, new, heap')
      BY <3>7, <3>9 DEF MapsKept
    <3> QED BY <2>1, <2>5, <3>1, <3>10, OneMaps
  <2> QED BY <2>4, <2>6, <2>7
\* It goes on, with context c, and keeps v.
<1>on. ASSUME NEW dir \in {"up", "merged"}, th.dir = dir, NEW p \in {"needs", "and", "inherit"},
              Proc(t) = p, NEW c, IsContext(c), NEW v, Kept(p, v), ~Foreign(p, v),
              NEW old, old = [th EXCEPT !.dir = "down", !.ctx = c],
              threads' = [threads EXCEPT ![t] = SetTop(old, Onward(Keep(Top(th), v)))],
              HeapStep(t, heap'), Derived(t, th, c, heap'),
              Fits(t, c.template, DOMAIN Frame(t).saved \cup {p})
       PROVE MapsNext
  <2> DEFINE f == Top(th)
             new == SetTop(old, Onward(Keep(f, v)))
  <2>1. /\ old.stack = th.stack /\ old.path = th.path /\ DOMAIN old = ThreadFields
        /\ old.ctx = c /\ old.dir = "down"
    BY <1>0, <1>f, <1>on DEF ThreadFields
  <2>2. /\ FrameShape(prog, f) /\ f.at = p /\ f.at # "end" /\ f = Top(th) /\ f = Frame(t)
        /\ SameFrame(f, Top(th))
    BY <1>0, <1>f, <1>on DEF Proc, SameFrame, Frame
  <2>3. Holds(p, v) = {} /\ Keeps(t, p, v)
    BY <1>on, PlainlyKept DEF Plainly
  <2> HIDE DEF f
  <2>4. /\ IsContext(old.ctx) /\ Derived(t, th, old.ctx, heap')
        /\ KeptTemplate(prog, t, f.at, v, Len(th.stack), f.step)
        /\ TopTemplate(prog, t, old.ctx.template, Len(th.stack), f.step,
                       DOMAIN f.saved \cup {f.at})
        /\ Kept(f.at, v) /\ \A d \in Holds(f.at, v) : Derived(t, th, d, heap')
    BY <1>on, <2>1, <2>2, <2>3 DEF Keeps, Fits
  <2>5. th.dir # "done" /\ th.dir # "waiting"
    BY <1>on
  <2>6. MapsKept(t, th, new, heap')
    BY <1>0, <1>f, <2>1, <2>2, <2>4, <2>5, OnwardMaps
  <2>7. threads' = [threads EXCEPT ![t] = new]
    BY <1>on DEF f
  <2> HIDE DEF new
  <2> QED BY <1>on, <2>5, <2>6, <2>7, OneMaps
<1>4. CASE MoreNeeds(t)
  <2> DEFINE i == NextNeeded(t, Ctx(t), Saved(t, "needs").next)
             down == [th EXCEPT !.dir = "down"]
             old == [th EXCEPT !.dir = "down", !.ctx = Ctx(t)]
             v == [next |-> 0]
  <2>1. th.dir = "merged" /\ Proc(t) = "needs"
    BY <1>4 DEF MoreNeeds, At
  <2>2. \/ i # 0 /\ CallNeeded(t, Ctx(t), i)
        \/ /\ threads' = [threads EXCEPT ![t] = SetTop(down, Onward(Keep(Top(down), v)))]
           /\ heap' = heap
    BY <1>4 DEF MoreNeeds
  <2>3. Saved(t, "needs").next \in Nat \ {0}
    <3>1. Saved(t, "needs").next > 0
      BY <1>0, <1>f, <2>1 DEF TopShape, Saved, Frame
    <3>2. Kept("needs", Saved(t, "needs"))
      BY <2>1, SavedShape
    <3> QED BY <3>1, <3>2 DEF Kept
  <2>4. i = 0 \/ (i \in Nat /\ i > 0 /\ Options(t).needs[i] \in DOMAIN prog)
    <3> DEFINE n == Saved(t, "needs").next
    <3>1. Options(t).needs \in Seq(DOMAIN prog) /\ n \in Nat \ {0}
      BY <1>0, <1>f, <2>1, <2>3
    <3> HIDE DEF n
    <3>2. NextNeeded(t, Ctx(t), n) = 0
            \/ (NextNeeded(t, Ctx(t), n) \in Nat /\ NextNeeded(t, Ctx(t), n) > 0
                 /\ Options(t).needs[NextNeeded(t, Ctx(t), n)] \in DOMAIN prog)
      BY <3>1, NextNeededType
    <3> QED BY <3>2 DEF n
  <2> HIDE DEF i
  <2>5. CASE /\ threads' = [threads EXCEPT ![t] = SetTop(down, Onward(Keep(Top(down), v)))]
             /\ heap' = heap
    <3>1. down = old
      BY <1>0 DEF ThreadFields
    <3>2. Top(down) = Top(th)
      BY <1>0 DEF Top, ThreadFields
    <3>3. v.next = 0
      OBVIOUS
    <3> HIDE DEF v, down
    <3>4. Kept("needs", v) /\ ~Foreign("needs", v)
      BY <3>3 DEF Kept, Foreign
    <3>5. Fits(t, Ctx(t).template, DOMAIN Frame(t).saved \cup {"needs"})
      BY <1>0, <1>f, <2>1, FitsKept
    <3>6. threads' = [threads EXCEPT ![t] = SetTop(old, Onward(Keep(Top(th), v)))]
      BY <2>5, <3>1, <3>2
    <3>7. HeapStep(t, heap') /\ Derived(t, th, Ctx(t), heap')
      BY <1>0, <1>f, <2>5
    <3> QED BY <1>0, <1>f, <1>on, <2>1, <3>4, <3>5, <3>6, <3>7
  <2> QED BY <2>1, <2>2, <2>4, <2>5, CallNeededMaps
<1>5. CASE LeaveNeeds(t)
  <2>1. /\ Return(t, Ctx(t), Err(t)) /\ th.dir = "up" /\ Proc(t) = "needs" /\ heap' = heap
    BY <1>5 DEF LeaveNeeds, At
  <2> QED BY <1>0, <1>f, <2>1, ReturnPlainly
<1>and. ASSUME NEW s \in DOMAIN prog, NEW v \in Nat, Proc(t) = "and", th.dir \in {"down", "up"},
               Call(t, s, Ctx(t), heap, v), heap' = heap
        PROVE MapsNext
  <2>1. OwnTemplate(prog, t, Ctx(t).template)
    BY <1>and, BelowTemplate
  <2>2. Kept("and", v) /\ CalledFrom("and", v)
    BY DEF Kept, CalledFrom
  <2>3. Holds("and", v) = {} /\ Keeps(t, "and", v)
    BY PlainlyKept DEF Plainly
  <2> QED BY <1>0, <1>f, <1>and, <2>1, <2>2, <2>3, CallMaps
<1>6. CASE EnterAnd(t)
  <2>1. th.dir = "down" /\ Proc(t) = "and" /\ heap' = heap
    BY <1>6 DEF EnterAnd, At
  <2>2. Options(t).and \in Seq(DOMAIN prog) /\ Options(t).and # <<>>
    <3>1. "and" \in Processors(Options(t))
      BY <1>f, <2>1
    <3>2. Options(t).and # <<>>
      BY <3>1 DEF Processors
    <3> QED BY <1>r, <2>1, <3>2
  <2>3. Options(t).and[1] \in DOMAIN prog
    <3> DEFINE refs == Options(t).and
    <3>1. refs \in Seq(DOMAIN prog) /\ Len(refs) \in Nat \ {0}
      BY <2>2, EmptySeq
    <3> HIDE DEF refs
    <3>2. 1 \in 1 .. Len(refs)
      BY <3>1
    <3>3. refs[1] \in DOMAIN prog
      BY <3>1, <3>2, ElementOfSeq
    <3> QED BY <3>3 DEF refs
  <2>4. Call(t, Options(t).and[1], Ctx(t), heap, 1)
    BY <1>6 DEF EnterAnd
  <2> QED BY <1>and, <2>1, <2>3, <2>4
<1>7. CASE ReferenceReturns(t)
  <2> DEFINE i == Saved(t, "and")
             refs == Options(t).and
             down == [th EXCEPT !.dir = "down"]
             old == [th EXCEPT !.dir = "down", !.ctx = Ctx(t)]
  <2>1. th.dir = "up" /\ Proc(t) = "and" /\ heap' = heap
    BY <1>7 DEF ReferenceReturns, At
  <2>i. i \in Nat
    BY <2>1, SavedShape DEF Kept
  <2>2. i \in Nat /\ refs \in Seq(DOMAIN prog)
    BY <1>r, <2>1, <2>i
  <2>3. \/ Return(t, Ctx(t), Err(t))
        \/ i < Len(refs) /\ Call(t, refs[i + 1], Ctx(t), heap, i + 1)
        \/ threads' = [threads EXCEPT ![t] = SetTop(down, Onward(Keep(Top(th), i + 1)))]
    BY <1>7 DEF ReferenceReturns
  <2>4. i + 1 \in Nat
    BY <2>2
  <2>5. CASE i < Len(refs) /\ Call(t, refs[i + 1], Ctx(t), heap, i + 1)
    <3> HIDE DEF i, refs
    <3>1. i + 1 \in 1 .. Len(refs)
      BY <2>2, <2>5, LenProperties
    <3>2. refs[i + 1] \in DOMAIN prog
      BY <2>2, <3>1, ElementOfSeq
    <3> QED BY <1>and, <2>1, <2>4, <2>5, <3>2
  <2>6. CASE threads' = [threads EXCEPT ![t] = SetTop(down, Onward(Keep(Top(th), i + 1)))]
    <3>1. down = old
      BY <1>0 DEF ThreadFields
    <3>2. Kept("and", i + 1) /\ ~Foreign("and", i + 1)
      BY <2>4, AnyForeign DEF Kept
    <3>3. Fits(t, Ctx(t).template, DOMAIN Frame(t).saved \cup {"and"})
      BY <1>0, <1>f, <2>1, FitsKept
    <3>4. HeapStep(t, heap') /\ Derived(t, th, Ctx(t), heap')
      BY <1>0, <1>f, <2>1
    <3> HIDE DEF i, down
    <3>5. threads' = [threads EXCEPT ![t] = SetTop(old, Onward(Keep(Top(th), i + 1)))]
      BY <2>6, <3>1
    <3> QED BY <1>0, <1>f, <1>on, <2>1, <3>2, <3>3, <3>4, <3>5
  <2> QED BY <1>0, <1>f, <2>1, <2>3, <2>5, <2>6, ReturnPlainly
<1>8. CASE EnterInherit(t)
  <2> DEFINE c == Ctx(t)
             d == InheritContext(t, c, heap)
             x == DeepCopy(t, c, heap)
             n == DeepCopyHeap(t, c, heap)
             K == {"inputs", "steps", "containers"}
             h == InheritHeap(t, c, heap)
             v == [called |-> TRUE, ctx |-> c]
             s == Options(t).inherit
  <2>1. th.dir = "down" /\ Proc(t) = "inherit"
    BY <1>8 DEF EnterInherit, At
  <2>2. \/ Call(t, s, d, h, v) /\ heap' = h
        \/ Return(t, c, "hard") /\ heap' = heap
    BY <1>8 DEF EnterInherit
  <2>3. /\ IsContext(d) /\ d.template = x.template
        /\ \A k \in Maps : d[k] = x[k]
    <3>1. IsContext(x) /\ IsContext(d)
      BY <1>0, ContextType
    <3> HIDE DEF x
    <3>2. d = [WithNamespace(x, Frame(t).step) EXCEPT !.tags = @ \cup {"pipeline"}]
      BY DEF InheritContext, x
    <3>3. DOMAIN x = ContextFields
      BY <3>1 DEF IsContext
    <3> QED BY <3>1, <3>2, <3>3 DEF WithNamespace, ContextFields, Maps, VarMaps
  <2>4. s \in DOMAIN prog
    BY <1>0, <1>f, <2>1 DEF Processors
  <2>5. v.called = TRUE /\ v.ctx = c /\ IsContext(v.ctx)
    BY <1>0
  <2>6. /\ OwnTemplate(prog, t, c.template) /\ c.template # Nil
    BY <2>1, BelowTemplate
  <2>7. Copied(c) = Kinds /\ Maps \subseteq Kinds /\ "template" \in Kinds
          /\ Kinds \subseteq DOMAIN c /\ K \in SUBSET Kinds
    BY <1>0, <1>f, <2>6 DEF Copied, Cloned, Kinds, Maps, VarMaps, IsContext, ContextFields
  <2>8. \A k \in Kinds : x[k] = Fresh(t, k, heap)
    BY <2>7 DEF DeepCopy
  <2>9. IsFiniteSet(DOMAIN heap)
    BY MapsOf
  <2>10. HeapStep(t, n) /\ DOMAIN n = DOMAIN heap \cup News(t, Kinds)
    BY <1>0, <1>f, <2>7, HeapCloned
  <2>11. h = MapsCopy(n, [a \in News(t, K) |-> EmptyMap])
    BY DEF InheritHeap, News
  <2> HIDE DEF d, v, s, c, x, n, K
  <2>12. HeapStep(t, h) /\ DOMAIN h = DOMAIN n \cup News(t, K)
    BY <2>7, <2>10, <2>11, HeapEmptied
  <2> HIDE DEF h
  <2>a. \A k \in Kinds : IsAddress(Fresh(t, k, heap), t, k) /\ Fresh(t, k, heap) \notin DOMAIN heap
    BY <2>9, FreshAddress
  <2>13. Derived(t, th, d, h)
    <3>1. \A k \in Maps : IsAddress(d[k], t, k) /\ d[k] \notin DOMAIN heap
      BY <2>a, <2>3, <2>7, <2>8
    <3>2. \A k \in Maps : d[k] \in DOMAIN h
      BY <2>3, <2>7, <2>8, <2>10, <2>12 DEF News
    <3> QED BY <3>1, <3>2 DEF Derived
  <2>14. OwnTemplate(prog, t, d.template)
    <3>1. IsAddress(d.template, t, "template")
      BY <2>a, <2>3, <2>7, <2>8
    <3> QED BY <3>1 DEF OwnTemplate
  <2>15. /\ Kept("inherit", v) /\ CalledFrom("inherit", v) /\ Foreign("inherit", v)
    BY <2>5 DEF Kept, CalledFrom, Foreign
  <2>16. \A g \in Holds("inherit", v) : Derived(t, th, g, h)
    BY <1>0, <1>f, <2>5, <2>15 DEF Holds, c
  <2>17. Keeps(t, "inherit", v)
    BY <2>5, <2>6 DEF Keeps, KeptTemplate
  <2>18. CASE Call(t, s, d, h, v) /\ heap' = h
    BY <2>1, <2>3, <2>4, <2>12, <2>13, <2>14, <2>15, <2>16, <2>17, <2>18, CallMaps
  <2>19. CASE Return(t, c, "hard") /\ heap' = heap
    BY <1>0, <1>f, <2>1, <2>19, ReturnPlainly DEF c
  <2> QED BY <2>2, <2>18, <2>19
<1>9. CASE InheritedReturns(t)
  <2> DEFINE c == Saved(t, "inherit").ctx
             old == [th EXCEPT !.dir = "down", !.ctx = c]
             v == [called |-> FALSE]
             m == MapsCopy(heap[c.outs], heap[Ctx(t).outs])
  <2>1. th.dir = "up" /\ Proc(t) = "inherit" /\ Saved(t, "inherit").called
    BY <1>9 DEF InheritedReturns, At
  <2>2. /\ c \in Held(th) /\ IsContext(c) /\ OwnMaps(t, c, DOMAIN heap)
        /\ OwnTemplate(prog, t, c.template) /\ ~IsSteps(c.template)
        /\ \A saved : Fits(t, c.template, saved)
        /\ \A h : Derived(t, th, c, h)
    <3>1. Foreign("inherit", Saved(t, "inherit"))
      BY <2>1 DEF Foreign
    <3> QED BY <1>k, <2>1, <3>1
  <2>3. \/ Return(t, c, Err(t)) /\ heap' = heap
        \/ /\ threads' = [threads EXCEPT ![t] = SetTop(old, Onward(Keep(Top(th), v)))]
           /\ heap' = [heap EXCEPT ![c.outs] = m]
    BY <1>9 DEF InheritedReturns
  <2>4. v.called = FALSE
    OBVIOUS
  <2> HIDE DEF c, v, m
  <2>5. ~IsSteps(c.outs)
    BY <2>2, NotSteps DEF OwnMaps, Maps
  <2>6. HeapStep(t, heap')
    <3>1. HeapStep(t, heap) /\ HeapStep(t, [heap EXCEPT ![c.outs] = m])
      BY <1>0, <2>5, HeapAssigned
    <3> QED BY <2>3, <3>1
  <2>7. CASE Return(t, c, Err(t))
    BY <2>1, <2>2, <2>6, <2>7, ReturnMaps
  <2>8. CASE threads' = [threads EXCEPT ![t] = SetTop(old, Onward(Keep(Top(th), v)))]
    <3>1. Kept("inherit", v) /\ ~Foreign("inherit", v)
      BY <2>4 DEF Kept, Foreign
    <3>2. Fits(t, c.template, DOMAIN Frame(t).saved \cup {"inherit"}) /\ Derived(t, th, c, heap')
      BY <2>2
    <3> QED BY <1>on, <2>1, <2>2, <2>6, <2>8, <3>1, <3>2
  <2> QED BY <2>3, <2>7, <2>8
<1>10. CASE LeaveInherit(t)
  <2>1. /\ Return(t, Ctx(t), Err(t)) /\ th.dir = "up" /\ Proc(t) = "inherit" /\ heap' = heap
    BY <1>10 DEF LeaveInherit, At
  <2> QED BY <1>0, <1>f, <2>1, ReturnPlainly
<1> QED BY <1>2, <1>3, <1>4, <1>5, <1>6, <1>7, <1>8, <1>9, <1>10

\* What is derived from a thread that holds less.
LEMMA KeptMore ==
    ASSUME NEW t, NEW th, NEW old, Held(old) \subseteq Held(th), NEW new, NEW h,
           MapsKept(t, old, new, h)
    PROVE MapsKept(t, th, new, h)
  BY DEF MapsKept, Derived

\* A container starts, or ends.
LEMMA TurnedMaps ==
    ASSUME NEW t, NEW th, ThreadShape(prog, th), ThreadTemplates(prog, t, th),
           th.dir \in {"down", "running"}, Top(th).at = "run", NEW d \in {"down", "running"}
    PROVE LET new == [th EXCEPT !.dir = d]
          IN  /\ ThreadShape(prog, new) /\ ThreadTemplates(prog, t, new)
              /\ Held(new) \subseteq Held(th)
              /\ Top(new) = Top(th) /\ new.ctx = th.ctx /\ new.dir = d
<1> DEFINE new == [th EXCEPT !.dir = d]
<1>1. /\ DOMAIN th = ThreadFields /\ th.dir # "done"
      /\ FrameShape(prog, Top(th)) /\ TopShape(prog, Top(th), th.dir)
  BY FramesOf
<1>2. /\ new.stack = th.stack /\ new.path = th.path /\ DOMAIN new = ThreadFields
      /\ new.ctx = th.ctx /\ new.dir = d
  BY <1>1 DEF ThreadFields
<1> HIDE DEF new
<1>3. Top(new) = Top(th) /\ TopShape(prog, Top(th), d)
  BY <1>1, <1>2 DEF TopShape, Top
<1>4. ThreadShape(prog, new)
  BY <1>1, <1>2, <1>3 DEF ThreadShape, ThreadType, Directions
<1>5. ThreadTemplates(prog, t, new)
  BY <1>1, <1>2, <1>3 DEF ThreadTemplates
<1>6. Held(new) \subseteq Held(th)
  BY <1>2 DEF Held
<1> QED BY <1>2, <1>3, <1>4, <1>5, <1>6 DEF new

LEMMA ContainerEndsMaps ==
    ASSUME Shape, MapsInv, NEW t \in DOMAIN threads, ContainerEnds(t)
    PROVE MapsNext
<1> DEFINE th == threads[t]
<1>0. /\ th.dir = "running" /\ Top(th).at = "run" /\ Ctx(t) = th.ctx /\ Frame(t) = Top(th)
      /\ th.dir # "done" /\ th.dir # "waiting"
  BY DEF ContainerEnds, At, Proc, Ctx, Frame
<1>1. /\ ThreadShape(prog, th) /\ ThreadTemplates(prog, t, th) /\ IsContext(th.ctx)
      /\ FrameShape(prog, Top(th)) /\ \A h : Derived(t, th, th.ctx, h)
  BY <1>0, MapsOf, ShapeOf DEF Ctx
<1>2. PICK wrote \in {{}, Options(t).publishes} :
         LET f == [Frame(t) EXCEPT !.published = [k \in {"env", "secret"} |-> wrote]]
             new == SetTop([threads[t] EXCEPT !.dir = "down"], f)
         IN  \/ threads' = [threads EXCEPT ![t] = SetTop(new, Onward(Keep(f, TRUE)))]
             \/ threads' = [threads EXCEPT ![t] = Returned(new, Ctx(t), "hard")]
  BY DEF ContainerEnds
<1> DEFINE f == [Frame(t) EXCEPT !.published = [k \in {"env", "secret"} |-> wrote]]
           old == [th EXCEPT !.dir = "down"]
           new == SetTop(old, f)
           on == SetTop(new, Onward(Keep(f, TRUE)))
           back == Returned(new, Ctx(t), "hard")
<1>3. SameFrame(f, Top(th)) /\ DOMAIN f = FrameFields
  BY <1>0, <1>1 DEF FrameShape, FrameFields, SameFrame
<1>4. threads' = [threads EXCEPT ![t] = on] \/ threads' = [threads EXCEPT ![t] = back]
  BY <1>2
<1>h. HeapStep(t, heap')
  <2>1. "containers" \in Maps \ {"steps"}
    BY DEF Maps
  <2>2. heap' = [heap EXCEPT ![Ctx(t)["containers"]] =
                    Assign(heap[Ctx(t).containers], Frame(t).step, TRUE)]
    BY DEF ContainerEnds
  <2> QED BY <2>1, <2>2, OwnChanged
<1> HIDE DEF f
<1>5. f.at = "run" /\ FrameShape(prog, f)
  BY <1>0, <1>1, <1>3 DEF FrameShape, FrameFields, SameFrame
<1>6. /\ ThreadShape(prog, old) /\ ThreadTemplates(prog, t, old) /\ Top(old) = Top(th)
      /\ old.ctx = th.ctx /\ old.dir = "down" /\ Held(old) \subseteq Held(th)
  BY <1>0, <1>1, TurnedMaps
<1> HIDE DEF old
<1>7. /\ ThreadShape(prog, new) /\ ThreadTemplates(prog, t, new) /\ Top(new) = f
      /\ new.ctx = th.ctx /\ new.dir = "down" /\ Held(new) \subseteq Held(th)
  <2>1. SameFrame(f, Top(old)) /\ old.dir # "done"
    BY <1>3, <1>6
  <2>2. /\ ThreadShape(prog, new) /\ ThreadTemplates(prog, t, new) /\ Top(new) = f
        /\ new.ctx = old.ctx /\ new.dir = old.dir /\ Held(new) \subseteq Held(old)
    BY <1>5, <1>6, <2>1, Touched
  <2> QED BY <1>6, <2>2
<1> HIDE DEF new
<1>8. /\ DOMAIN new = ThreadFields /\ SameFrame(f, Top(new)) /\ new.dir # "done"
      /\ IsContext(new.ctx) /\ new.ctx \in Held(new)
      /\ TopTemplate(prog, t, new.ctx.template, Len(new.stack), f.step, DOMAIN f.saved)
  <2>1. DOMAIN new = ThreadFields /\ IsSeq(new.stack) /\ Len(new.stack) > 0
    BY <1>7, FramesOf
  <2>2. new.ctx \in Held(new)
    BY <2>1, HeldOf
  <2>3. TopTemplate(prog, t, new.ctx.template, Len(new.stack), f.step, DOMAIN f.saved)
    BY <1>7, TemplatesOf
  <2> QED BY <1>1, <1>7, <2>1, <2>2, <2>3 DEF SameFrame
<1>9. Derived(t, new, new.ctx, heap')
  BY <1>8, DerivedHeld
<1>10. MapsKept(t, th, on, heap')
  <2>1. f.at # "end" /\ Kept(f.at, TRUE)
    BY <1>5, KeptAny
  <2>2. Plainly(f.at)
    BY <1>5 DEF Plainly
  <2>3. /\ Holds(f.at, TRUE) = {}
        /\ KeptTemplate(prog, t, f.at, TRUE, Len(new.stack), f.step)
    BY <1>5, AnyForeign DEF Holds, KeptTemplate
  <2>4. TopTemplate(prog, t, new.ctx.template, Len(new.stack), f.step, DOMAIN f.saved \cup {f.at})
    BY <1>5, <1>8 DEF TopTemplate
  <2>5. MapsKept(t, new, on, heap')
    BY <1>5, <1>7, <1>8, <1>9, <2>1, <2>3, <2>4, OnwardMaps
  <2> HIDE DEF on
  <2> QED BY <1>7, <2>5, KeptMore
<1>11. MapsKept(t, th, back, heap')
  <2>1. Top(new).at # "recover" /\ IsContext(Ctx(t)) /\ Derived(t, new, Ctx(t), heap')
    BY <1>0, <1>1, <1>5, <1>7, <1>8, <1>9
  <2>2. TopTemplate(prog, t, Ctx(t).template, Len(new.stack), Top(new).step,
                    DOMAIN Top(new).saved \ {Top(new).at})
    BY <1>0, <1>7, <1>8 DEF TopTemplate
  <2>3. MapsKept(t, new, back, heap')
    BY <1>7, <1>8, <2>1, <2>2, BackMaps
  <2> HIDE DEF back
  <2> QED BY <1>7, <2>3, KeptMore
<1> HIDE DEF on, back
<1> QED BY <1>0, <1>4, <1>h, <1>10, <1>11, OneMaps

-----------------------------------------------------------------------------
(* Goroutines start and end.                                               *)

\* The names of a thread's callers.
LEMMA PrefixOn ==
    ASSUME NEW t, IsSeq(t), NEW x
    PROVE /\ \A w : IsSeq(w) /\ Prefix(w, t) => Prefix(w, Append(t, x))
          /\ SubSeq(Append(t, x), 1, Len(t)) = t
          /\ \A i \in 0 .. Len(t) - 1 : SubSeq(Append(t, x), 1, i) = SubSeq(t, 1, i)
<1> DEFINE u == Append(t, x)
           S == {t[i] : i \in DOMAIN t} \cup {x}
<1>1. /\ Len(t) \in Nat /\ Len(u) = Len(t) + 1 /\ IsSeq(u)
      /\ \A i \in 1 .. Len(t) : u[i] = t[i]
  BY Pushed, SeqType
<1>2. t \in Seq(S) /\ x \in S /\ <<x>> \in Seq(S)
  BY SeqMonotonic DEF IsSeq
<1>3. u = t \o <<x>>
  BY <1>2, AppendIsConcat
<1> HIDE DEF S, u
<1>4. \A i \in 1 .. Len(t) : SubSeq(u, 1, i) = SubSeq(t, 1, i)
  <2> TAKE i \in 1 .. Len(t)
  <2>1. 1 \in 1 .. Len(t)
    BY <1>1
  <2> QED BY <1>2, <1>3, <2>1, SubSeqOfConcat1
<1>5. ASSUME NEW w, IsSeq(w), Prefix(w, t)
      PROVE Prefix(w, u)
  <2>1. Len(w) \in Nat
    BY <1>5, SeqType
  <2> QED BY <1>1, <1>5, <2>1 DEF Prefix
<1>6. SubSeq(u, 1, Len(t)) = t
  <2>1. CASE Len(t) = 0
    <3>1. SubSeq(u, 1, Len(t)) = <<>>
      BY <2>1, SubSeqEmpty
    <3>2. t = <<>>
      BY <1>2, <2>1, EmptySeq
    <3> QED BY <3>1, <3>2
  <2>2. CASE Len(t) # 0
    <3>1. SubSeq(u, 1, Len(t)) = SubSeq(t, 1, Len(t))
      BY <1>1, <1>4, <2>2
    <3> QED BY <1>2, <3>1, SubSeqFull
  <2> QED BY <2>1, <2>2
<1>7. \A i \in 0 .. Len(t) - 1 : SubSeq(u, 1, i) = SubSeq(t, 1, i)
  <2> TAKE i \in 0 .. Len(t) - 1
  <2>1. CASE i = 0
    <3>1. SubSeq(u, 1, i) = <<>> /\ SubSeq(t, 1, i) = <<>>
      BY <2>1, SubSeqEmpty
    <3> QED BY <3>1
  <2>2. CASE i # 0
    <3>1. i \in 1 .. Len(t)
      BY <1>1, <2>2
    <3> QED BY <1>4, <3>1
  <2> QED BY <2>1, <2>2
<1> QED BY <1>5, <1>6, <1>7 DEF u

LEMMA PrefixIs ==
    ASSUME NEW w, IsSeq(w), NEW u, IsSeq(u), Prefix(w, u)
    PROVE /\ w = SubSeq(u, 1, Len(w))
          /\ Len(w) \in Nat /\ Len(u) \in Nat /\ Len(w) <= Len(u)
          /\ w # u => Len(w) \in 0 .. Len(u) - 1
<1> DEFINE S == {u[i] : i \in DOMAIN u}
           q == SubSeq(u, 1, Len(w))
<1>1. /\ Len(w) \in Nat /\ Len(u) \in Nat /\ Len(w) <= Len(u)
      /\ \A i \in 1 .. Len(w) : w[i] = u[i]
      /\ \A i \in 1 .. Len(u) : u[i] \in S
      /\ DOMAIN w = 1 .. Len(w) /\ u \in Seq(S)
  BY SeqType DEF Prefix, IsSeq
<1> HIDE DEF S
<1>2. /\ q \in Seq(S) /\ Len(q) = Len(w)
      /\ \A i \in 1 .. Len(w) : q[i] = u[i]
  <2>1. 1 \in Int /\ Len(w) \in Int /\ \A i \in 1 .. Len(w) : u[i] \in S
    BY <1>1
  <2>2. /\ q \in Seq(S)
        /\ Len(q) = IF 1 <= Len(w) THEN Len(w) - 1 + 1 ELSE 0
        /\ \A i \in 1 .. Len(w) - 1 + 1 : q[i] = u[1 + i - 1]
    BY <2>1, SubSeqProperties
  <2> QED BY <1>1, <2>2
<1> HIDE DEF q
<1>3. w \in Seq(S)
  <2>1. {w[i] : i \in DOMAIN w} \subseteq S
    BY <1>1
  <2> QED BY <2>1, SeqMonotonic DEF IsSeq
<1>4. w = q
  <2>1. Len(w) = Len(q) /\ \A i \in 1 .. Len(w) : w[i] = q[i]
    BY <1>1, <1>2
  <2> QED BY <1>2, <1>3, <2>1, SeqEqual
<1>5. w # u => Len(w) # Len(u)
  <2>1. ASSUME Len(w) = Len(u)
        PROVE w = u
    BY <1>1, <1>3, <2>1, SeqEqual
  <2> QED BY <2>1
<1>6. w # u => Len(w) \in 0 .. Len(u) - 1
  BY <1>1, <1>5
<1> QED BY <1>1, <1>4, <1>6 DEF q

\* A thread waits for its goroutines.
LEMMA WaitingMaps ==
    ASSUME NEW t, NEW th, ThreadShape(prog, th), ThreadTemplates(prog, t, th),
           th.dir \in {"down", "waiting"}, Top(th).at \in {"matrix", "concurrent"},
           NEW old, old.stack = th.stack, old.path = th.path, DOMAIN old = ThreadFields,
           IsContext(old.ctx), old.dir = "waiting", SameRefs(old.ctx, th.ctx), NEW v
    PROVE LET new == SetTop(old, Keep(Top(th), v))
          IN  /\ ThreadShape(prog, new) /\ ThreadTemplates(prog, t, new)
              /\ Held(new) \subseteq {old.ctx} \cup Held(th)
              /\ new.dir = "waiting" /\ new.ctx = old.ctx /\ Top(new) = Keep(Top(th), v)
<1> DEFINE f == Top(th)
           k == Keep(f, v)
           new == SetTop(old, k)
<1>1. /\ th.dir # "done" /\ FrameShape(prog, f) /\ TopShape(prog, f, th.dir)
      /\ DOMAIN f = FrameFields /\ f.at \in {"matrix", "concurrent"}
      /\ Len(th.stack) \in Nat /\ Len(th.stack) > 0
      /\ \A i \in 1 .. Len(th.stack) : FrameHolds(th.stack[i]) \subseteq Held(th)
      /\ FrameHolds(f) \subseteq Held(th)
  BY FramesOf, HeldOf
<1>2. /\ FrameTemplates(prog, t, f, Len(th.stack))
      /\ TopTemplate(prog, t, th.ctx.template, Len(th.stack), f.step, DOMAIN f.saved)
  BY <1>1, TemplatesOf
<1> HIDE DEF f
<1>3. /\ DOMAIN k = FrameFields /\ k.step = f.step /\ k.at = f.at
      /\ DOMAIN k.saved = DOMAIN f.saved \cup {f.at}
      /\ k.saved[f.at] = v
      /\ \A p \in DOMAIN f.saved \ {f.at} : k.saved[p] = f.saved[p]
  BY <1>1, KeepType
<1>4. FrameHolds(k) \subseteq FrameHolds(f)
  <2>1. Holds(f.at, v) = {}
    BY <1>1, AnyForeign DEF Holds
  <2> QED BY <1>1, <2>1, FrameHoldsType
<1> HIDE DEF k
<1>5. FrameShape(prog, k) /\ TopShape(prog, k, "waiting")
  <2>1. /\ f.step \in DOMAIN prog /\ f.at \in Processors(prog[f.step]) /\ f.at # "end"
        /\ \A p \in DOMAIN f.saved : Kept(p, f.saved[p])
    BY <1>1 DEF FrameShape
  <2>2. UpTo(prog[f.step], f.at) = Before(prog[f.step], f.at) \cup {f.at}
    BY <2>1, EnteredNext
  <2>3. Kept(f.at, v)
    BY <1>1, KeptAny
  <2>4. FrameShape(prog, k)
    BY <1>3, <2>1, <2>3 DEF FrameShape, FrameFields
  <2>5. DOMAIN k.saved = UpTo(prog[k.step], k.at)
    BY <1>1, <1>3, <2>2 DEF TopShape
  <2> QED BY <1>1, <1>3, <2>4, <2>5 DEF TopShape
<1>6. /\ ThreadShape(prog, new) /\ Top(new) = k
      /\ Len(new.stack) = Len(th.stack)
      /\ \A i \in 1 .. Len(th.stack) - 1 : new.stack[i] = th.stack[i]
      /\ new.ctx = old.ctx /\ new.dir = "waiting"
  <2>1. old.dir \in Directions \ {"done"} /\ TopShape(prog, k, old.dir)
    BY <1>5 DEF Directions
  <2> QED BY <1>1, <1>5, <2>1, TopMoved
<1> HIDE DEF new
<1>7. ThreadTemplates(prog, t, new)
  <2>1. FrameTemplates(prog, t, k, Len(th.stack))
    <3>1. KeptTemplate(prog, t, f.at, v, Len(th.stack), f.step)
      BY <1>1 DEF KeptTemplate
    <3> QED BY <1>2, <1>3, <3>1 DEF FrameTemplates
  <2>2. TopTemplate(prog, t, new.ctx.template, Len(th.stack), k.step, DOMAIN k.saved)
    <3>1. new.ctx.template = th.ctx.template
      BY <1>6 DEF SameRefs
    <3>2. "template" \in DOMAIN k.saved => "template" \in DOMAIN f.saved
      BY <1>1, <1>3
    <3> QED BY <1>2, <1>3, <3>1, <3>2 DEF TopTemplate
  <2> QED BY <1>1, <1>6, <2>1, <2>2, TemplatesMoved
<1>8. Held(new) \subseteq {old.ctx} \cup Held(th)
  <2>1. ASSUME NEW i \in 1 .. Len(new.stack)
        PROVE FrameHolds(new.stack[i]) \subseteq Held(th)
    <3>1. CASE i = Len(th.stack)
      BY <1>1, <1>4, <1>6, <3>1 DEF Top
    <3>2. CASE i # Len(th.stack)
      <4>1. i \in 1 .. Len(th.stack) - 1 /\ i \in 1 .. Len(th.stack)
        BY <1>1, <1>6, <3>2
      <4> QED BY <1>1, <1>6, <4>1
    <3> QED BY <3>1, <3>2
  <2>2. Held(new) \subseteq {new.ctx} \cup Held(th)
    BY <2>1, HeldStack
  <2> QED BY <1>6, <2>2
<1> QED BY <1>6, <1>7, <1>8 DEF new, k, f

\* The maps after a fork: those there were, and the copies for the goroutines.
ForkedHeap(t, step, c) ==
    /\ IsFiniteSet(DOMAIN heap') /\ DOMAIN heap \subseteq DOMAIN heap'
    /\ \A x \in DOMAIN step : \A k \in Copied(c) :
          Fresh(Append(t, x), k, heap) \in DOMAIN heap'
    /\ \A a \in DOMAIN heap' : IsSteps(a) =>
          \/ a \in DOMAIN heap /\ heap'[a] = heap[a]
          \/ \E x \in DOMAIN step : a[1] = Append(t, x) /\ heap'[a] = heap[c.steps]

LEMMA ForkHeap ==
    ASSUME MapsInv, NEW t, NEW step, IsFiniteSet(DOMAIN step), NEW context, NEW c,
           Fork(t, step, context, c)
    PROVE ForkedHeap(t, step, c)
<1> DEFINE forked == {Append(t, x) : x \in DOMAIN step}
           K == Copied(c)
           A == {Fresh(u, k, heap) : u \in forked, k \in K}
           g == [a \in A |-> heap[c[a[2]]]]
<1>0. IsFiniteSet(DOMAIN heap) /\ K \in SUBSET Kinds
  BY DEF MapsInv, Copied, Cloned, Kinds
<1>1. heap' = MapsCopy(heap, g)
  BY DEF Fork
<1>2. IsFiniteSet(forked)
  <2> DEFINE f == [x \in DOMAIN step |-> Append(t, x)]
  <2>1. f = [x \in DOMAIN step |-> f[x]] /\ forked = {f[x] : x \in DOMAIN step}
    OBVIOUS
  <2> HIDE DEF f
  <2> QED BY <2>1, FiniteImage
<1>3. A = UNION {News(u, K) : u \in forked}
  BY DEF News
<1>4. IsFiniteSet(A)
  <2> DEFINE f == [u \in forked |-> News(u, K)]
             SS == {News(u, K) : u \in forked}
  <2>1. f = [u \in forked |-> f[u]] /\ SS = {f[u] : u \in forked}
    OBVIOUS
  <2> HIDE DEF f, forked, A, K
  <2>2. IsFiniteSet(SS)
    BY <1>2, <2>1, FiniteImage
  <2>3. \A T \in SS : IsFiniteSet(T)
    BY <1>0, NewsType
  <2>4. IsFiniteSet(UNION SS)
    BY <2>2, <2>3, FS_UNION
  <2> QED BY <1>3, <2>4
<1>5. DOMAIN g = A /\ \A a \in A : g[a] = heap[c[a[2]]]
  OBVIOUS
<1> HIDE DEF g, A
<1>8. \A x \in DOMAIN step : \A k \in K : Fresh(Append(t, x), k, heap) \in A
  <2> TAKE x \in DOMAIN step
  <2>1. \A k \in K : Fresh(Append(t, x), k, heap) \in News(Append(t, x), K)
    BY DEF News
  <2>2. News(Append(t, x), K) \subseteq A
    BY <1>3
  <2> QED BY <2>1, <2>2
<1>p. \A a \in A : \E x \in DOMAIN step : \E k \in K : a = Fresh(Append(t, x), k, heap)
  BY <1>3 DEF News
<1>6. /\ DOMAIN heap' = DOMAIN heap \cup A
      /\ \A a \in A : heap'[a] = heap[c[a[2]]]
      /\ \A a \in DOMAIN heap \ A : heap'[a] = heap[a]
  <2>1. /\ DOMAIN MapsCopy(heap, g) = DOMAIN heap \cup DOMAIN g
        /\ \A a \in DOMAIN g : MapsCopy(heap, g)[a] = g[a]
        /\ \A a \in DOMAIN heap \ DOMAIN g : MapsCopy(heap, g)[a] = heap[a]
    BY MapsCopyType
  <2> QED BY <1>1, <1>5, <2>1
<1>7. IsFiniteSet(DOMAIN heap')
  <2> QED BY <1>0, <1>4, <1>6, FS_Union
<1>9. ASSUME NEW a \in A, IsSteps(a)
      PROVE \E x \in DOMAIN step : a[1] = Append(t, x) /\ heap'[a] = heap[c.steps]
  <2>0. PICK x \in DOMAIN step : \E k \in K : a = Fresh(Append(t, x), k, heap)
    BY <1>9, <1>p
  <2>1. PICK k \in K : a = Fresh(Append(t, x), k, heap)
    BY <2>0
  <2>2. IsAddress(a, Append(t, x), k)
    BY <1>0, <2>1, FreshAddress
  <2>3. a[2] = "steps" /\ a[1] = Append(t, x)
    BY <1>9, <2>2 DEF IsSteps, IsAddress
  <2> QED BY <1>6, <2>3
<1>10. \A a \in DOMAIN heap' : IsSteps(a) =>
          \/ a \in DOMAIN heap /\ heap'[a] = heap[a]
          \/ \E x \in DOMAIN step : a[1] = Append(t, x) /\ heap'[a] = heap[c.steps]
  BY <1>6, <1>9
<1>11. DOMAIN heap \subseteq DOMAIN heap' /\ A \subseteq DOMAIN heap'
  BY <1>6
<1> QED BY <1>7, <1>8, <1>10, <1>11 DEF ForkedHeap

\* A goroutine starts with a context of its own.
HoldsOnly(th, c) == \A d \in Held(th) : d = c

LEMMA NewThreadMaps ==
    ASSUME NEW u, NEW s \in DOMAIN prog, NEW c, IsContext(c), NEW h, NEW path, IsSeq(path),
           NEW saved, saved = {}, TopTemplate(prog, u, c.template, 1, s, saved),
           NEW th, th = NewThread(s, c, h, path)
    PROVE ThreadTemplates(prog, u, th) /\ HoldsOnly(th, c)
<1>1. /\ Len(th.stack) = 1 /\ Top(th) = NewFrame(s, c, h) /\ th.ctx = c /\ th.dir = "down"
      /\ ThreadShape(prog, th)
  BY NewThreadShape
<1>2. Top(th).step = s /\ DOMAIN Top(th).saved = {}
  BY <1>1 DEF NewFrame, EmptyMap
<1>3. \A i \in 1 .. Len(th.stack) : th.stack[i] = Top(th)
  BY <1>1 DEF Top
<1>4. ThreadTemplates(prog, u, th)
  BY <1>1, <1>2, <1>3 DEF ThreadTemplates, FrameTemplates
<1>5. \A d \in Held(th) : d = c
  <2>1. \A i \in 1 .. Len(th.stack) : FrameHolds(th.stack[i]) = {}
    BY <1>2, <1>3 DEF FrameHolds
  <2> QED BY <1>1, <2>1 DEF Held
<1> QED BY <1>4, <1>5 DEF HoldsOnly

\* Nobody has been started by a thread that does not wait.
LEMMA NoneStarted ==
    ASSUME Shape, MapsInv, NEW t \in DOMAIN threads, threads[t].dir # "waiting"
    PROVE /\ \A x : Append(t, x) \notin DOMAIN threads
          /\ \A w \in DOMAIN threads : Prefix(t, w) => w = t
<1>1. ASSUME NEW w \in DOMAIN threads, Prefix(t, w), w # t
      PROVE FALSE
  <2>1. IsSeq(t) /\ IsSeq(w) /\ WaitsFor(threads, w)
    BY DEF Shape, MapsInv
  <2>2. t = SubSeq(w, 1, Len(t)) /\ Len(t) \in 0 .. Len(w) - 1
    BY <1>1, <2>1, PrefixIs
  <2>3. threads[SubSeq(w, 1, Len(t))].dir = "waiting"
    BY <2>1, <2>2 DEF WaitsFor
  <2> QED BY <2>2, <2>3
<1>2. ASSUME NEW x
      PROVE Append(t, x) \notin DOMAIN threads
  <2>1. IsSeq(t)
    BY DEF Shape
  <2>2. Prefix(t, Append(t, x)) /\ Append(t, x) # t
    <3>1. Prefix(t, Append(t, x))
      BY <2>1, PrefixOn, PrefixSelf
    <3>2. Len(t) \in Nat /\ Len(Append(t, x)) = Len(t) + 1
      BY <2>1, SeqType, Pushed
    <3>3. Append(t, x) # t
      BY <3>2
    <3> QED BY <3>1, <3>3
  <2> QED BY <1>1, <2>2
<1> QED BY <1>1, <1>2

\* The context of a goroutine has a copy of every map.
ForkedContext(t, x, c, d) ==
    /\ \A k \in Maps : d[k] = Fresh(Append(t, x), k, heap)
    /\ d.template = IF c.template = Nil THEN Nil ELSE Fresh(Append(t, x), "template", heap)

LEMMA ForkMaps ==
    ASSUME Shape, MapsInv, NEW t \in DOMAIN threads, threads[t].dir = "down",
           Proc(t) \in {"matrix", "concurrent"},
           NEW step, IsFiniteSet(DOMAIN step), NEW context,
           NEW c, IsContext(c), SameRefs(c, Ctx(t)),
           \A x \in DOMAIN step :
              /\ step[x] \in DOMAIN prog /\ IsContext(context[x])
              /\ ForkedContext(t, x, c, context[x])
              /\ c.template = Nil => step[x] = "main" /\ SharesTemplate(prog, Append(t, x)),
           Fork(t, step, context, c)
    PROVE MapsNext
<1> DEFINE th == threads[t]
           old == [th EXCEPT !.ctx = c, !.dir = "waiting"]
           new == SetTop(old, Keep(Frame(t), "ok"))
           forked == {Append(t, x) : x \in DOMAIN step}
<1>0. /\ ThreadShape(prog, th) /\ ThreadTemplates(prog, t, th) /\ HeldOwn(t, th, DOMAIN heap)
      /\ Ctx(t) \in Held(th) /\ OwnMaps(t, Ctx(t), DOMAIN heap) /\ IsFiniteSet(DOMAIN heap)
      /\ IsSeq(t) /\ DOMAIN th = ThreadFields
  BY MapsOf, ShapeOf DEF Shape
<1>h. ForkedHeap(t, step, c)
  BY ForkHeap
<1>f. ForkEffect(t, step, context, c)
  BY Forked
<1>1. /\ t \notin forked
      /\ DOMAIN threads' = DOMAIN threads \cup forked
      /\ threads'[t] = new
      /\ \A x \in DOMAIN step :
            threads'[Append(t, x)] = NewThread(step[x], context[x], heap', Path(t))
      /\ \A x \in DOMAIN step : IsSeq(Append(t, x)) /\ Len(Append(t, x)) = Len(t) + 1
  BY <1>f DEF ForkEffect
<1>2. /\ DOMAIN threads \cap forked = {}
      /\ \A u \in DOMAIN threads \ {t} : threads'[u] = threads[u]
  <2>1. DOMAIN threads \cap forked = {}
    BY NoneStarted
  <2> QED BY <1>f, <2>1 DEF ForkEffect
<1>3. /\ ThreadTemplates(prog, t, new) /\ new.dir = "waiting"
      /\ Held(new) \subseteq {c} \cup Held(th)
  <2>1. /\ old.stack = th.stack /\ old.path = th.path /\ DOMAIN old = ThreadFields
        /\ old.ctx = c /\ old.dir = "waiting"
    BY <1>0 DEF ThreadFields
  <2>2. Top(th).at \in {"matrix", "concurrent"} /\ th.ctx = Ctx(t) /\ Frame(t) = Top(th)
    BY DEF Proc, Ctx, Frame
  <2> HIDE DEF old
  <2>3. new = SetTop(old, Keep(Top(th), "ok"))
    BY <2>2
  <2> HIDE DEF new
  <2> QED BY <1>0, <2>1, <2>2, <2>3, WaitingMaps
<1> HIDE DEF new
\* The goroutines.
<1>4. ASSUME NEW x \in DOMAIN step
      PROVE LET u == Append(t, x)
            IN  /\ ThreadTemplates(prog, u, threads'[u])
                /\ HoldsOnly(threads'[u], context[x])
                /\ OwnMaps(u, context[x], DOMAIN heap')
                /\ context[x].outs \notin DOMAIN heap
  <2> DEFINE u == Append(t, x)
             d == context[x]
  <2>1. TopTemplate(prog, u, d.template, 1, step[x], {})
    <3>1. CASE c.template = Nil
      BY <1>4, <3>1 DEF ForkedContext, TopTemplate, TemplateOf
    <3>2. CASE c.template # Nil
      <4>1. d.template = Fresh(u, "template", heap)
        BY <1>4, <3>2 DEF ForkedContext
      <4>2. IsAddress(d.template, u, "template")
        BY <1>0, <4>1, FreshAddress
      <4> QED BY <4>2 DEF TopTemplate, TemplateOf
    <3> QED BY <3>1, <3>2
  <2>2. threads'[u] = NewThread(step[x], d, heap', Path(t))
    BY <1>1, <1>4
  <2>3. \A k \in Maps : d[k] = Fresh(u, k, heap)
    BY <1>4 DEF ForkedContext
  <2>4. step[x] \in DOMAIN prog /\ IsContext(d) /\ IsSeq(Path(t))
    BY <1>4, PathType
  <2> HIDE DEF d
  <2>5. ThreadTemplates(prog, u, threads'[u]) /\ HoldsOnly(threads'[u], d)
    BY <2>1, <2>2, <2>4, NewThreadMaps
  <2>6. ASSUME NEW k \in Maps
        PROVE IsAddress(d[k], u, k) /\ d[k] \notin DOMAIN heap /\ d[k] \in DOMAIN heap'
    <3>1. IsAddress(Fresh(u, k, heap), u, k) /\ Fresh(u, k, heap) \notin DOMAIN heap
      BY <1>0, FreshAddress
    <3>2. k \in Copied(c)
      BY DEF Copied, Cloned, Kinds
    <3>3. Fresh(u, k, heap) \in DOMAIN heap'
      BY <1>h, <1>4, <3>2 DEF ForkedHeap
    <3> QED BY <2>3, <3>1, <3>3
  <2>7. OwnMaps(u, d, DOMAIN heap') /\ d.outs \notin DOMAIN heap
    BY <2>6 DEF OwnMaps, Maps
  <2> QED BY <2>5, <2>7 DEF d
<1>5. IsFiniteSet(DOMAIN heap') /\ DOMAIN heap \subseteq DOMAIN heap'
  BY <1>h DEF ForkedHeap
<1>6. \A d \in Held(new) : \E e \in Held(th) : SameMaps(d, e)
  BY <1>0, <1>3 DEF SameRefs, SameMaps
<1>7. ASSUME NEW u \in DOMAIN threads'
      PROVE HeldOwn(u, threads'[u], DOMAIN heap') /\ ThreadTemplates(prog, u, threads'[u])
  <2>1. CASE u = t
    <3>1. HeldOwn(t, new, DOMAIN heap')
      BY <1>0, <1>5, <1>6 DEF HeldOwn, OwnMaps, SameMaps
    <3> QED BY <1>1, <1>3, <2>1, <3>1
  <2>2. CASE u \in forked
    BY <1>4, <2>2 DEF HeldOwn, HoldsOnly
  <2>3. CASE u # t /\ u \notin forked
    <3>1. u \in DOMAIN threads /\ threads'[u] = threads[u]
      BY <1>1, <1>2, <2>3
    <3>2. HeldOwn(u, threads[u], DOMAIN heap) /\ ThreadTemplates(prog, u, threads[u])
      BY <3>1 DEF MapsInv
    <3> QED BY <1>5, <3>1, <3>2 DEF HeldOwn, OwnMaps
  <2> QED BY <2>1, <2>2, <2>3
\* The records.
<1>8. ASSUME NEW r, NEW v, RecordOf(r, v, DOMAIN heap, threads)
      PROVE RecordOf(r, v, DOMAIN heap', threads')
  <2>1. ASSUME NEW w \in DOMAIN threads', HoldsOuts(threads'[w], r)
        PROVE Prefix(w, v)
    <3>1. CASE w = t
      <4>1. HoldsOuts(th, r)
        BY <1>1, <1>6, <2>1, <3>1 DEF HoldsOuts, SameMaps, Maps
      <4> QED BY <1>8, <3>1, <4>1 DEF RecordOf
    <3>2. CASE w \in forked
      <4>1. PICK x \in DOMAIN step : w = Append(t, x)
        BY <3>2
      <4>2. r = context[x].outs
        BY <1>4, <2>1, <4>1 DEF HoldsOuts, HoldsOnly
      <4> QED BY <1>4, <1>8, <4>2 DEF RecordOf
    <3>3. CASE w # t /\ w \notin forked
      BY <1>1, <1>2, <1>8, <2>1, <3>3 DEF RecordOf
    <3> QED BY <3>1, <3>2, <3>3
  <2> QED BY <1>5, <1>8, <2>1 DEF RecordOf
<1>9. RecordsOf(heap', threads')
  <2> SUFFICES ASSUME NEW a \in DOMAIN heap', IsSteps(a), NEW s \in DOMAIN heap'[a]
               PROVE RecordOf(heap'[a][s].outs, a[1], DOMAIN heap', threads')
    BY DEF RecordsOf
  <2>1. CASE a \in DOMAIN heap /\ heap'[a] = heap[a]
    <3>1. RecordOf(heap[a][s].outs, a[1], DOMAIN heap, threads)
      BY <2>1 DEF MapsInv, RecordsOf
    <3> QED BY <1>8, <2>1, <3>1
  <2>2. ASSUME NEW x \in DOMAIN step, a[1] = Append(t, x), heap'[a] = heap[c.steps]
        PROVE RecordOf(heap'[a][s].outs, a[1], DOMAIN heap', threads')
    <3> DEFINE r == heap[c.steps][s].outs
    <3>1. IsAddress(c.steps, t, "steps") /\ c.steps \in DOMAIN heap
      BY <1>0 DEF OwnMaps, SameRefs, SameMaps, Maps
    <3>2. IsSteps(c.steps) /\ c.steps[1] = t
      BY <3>1, NotSteps
    <3>3. RecordOf(r, t, DOMAIN heap, threads)
      BY <2>2, <3>1, <3>2 DEF MapsInv, RecordsOf
    <3> HIDE DEF r
    <3>4. RecordOf(r, a[1], DOMAIN heap, threads)
      <4>1. ASSUME NEW w \in DOMAIN threads, HoldsOuts(threads[w], r)
            PROVE Prefix(w, a[1])
        <5>1. Prefix(w, t) /\ IsSeq(w)
          BY <3>3, <4>1 DEF RecordOf, Shape
        <5> QED BY <1>0, <2>2, <5>1, PrefixOn
      <4> QED BY <3>3, <4>1 DEF RecordOf
    <3>5. RecordOf(r, a[1], DOMAIN heap', threads')
      BY <1>8, <3>4
    <3> QED BY <2>2, <3>5 DEF r
  <2> QED BY <1>h, <2>1, <2>2 DEF ForkedHeap
\* Who waits for whom.
<1>10. \A v \in DOMAIN threads : threads[v].dir = "waiting" =>
          v \in DOMAIN threads' /\ threads'[v].dir = "waiting"
  BY <1>1, <1>2
<1>11. ASSUME NEW w \in DOMAIN threads'
       PROVE WaitsFor(threads', w)
  <2>1. CASE w \in DOMAIN threads
    <3>1. WaitsFor(threads, w)
      BY <2>1 DEF MapsInv
    <3> QED BY <1>10, <3>1 DEF WaitsFor
  <2>2. CASE w \in forked
    <3>1. PICK x \in DOMAIN step : w = Append(t, x)
      BY <2>2
    <3>2. WaitsFor(threads, t)
      BY DEF MapsInv
    <3>3. Len(t) \in Nat /\ Len(w) = Len(t) + 1
      BY <1>0, <1>1, <3>1, SeqType
    <3>4. SubSeq(w, 1, Len(t)) = t /\ \A i \in 0 .. Len(t) - 1 : SubSeq(w, 1, i) = SubSeq(t, 1, i)
      BY <1>0, <3>1, PrefixOn
    <3>5. t \in DOMAIN threads' /\ threads'[t].dir = "waiting"
      BY <1>1, <1>3
    <3>6. ASSUME NEW i \in 0 .. Len(w) - 1
          PROVE SubSeq(w, 1, i) \in DOMAIN threads' /\ threads'[SubSeq(w, 1, i)].dir = "waiting"
      <4>1. CASE i = Len(t)
        BY <3>4, <3>5, <4>1
      <4>2. CASE i # Len(t)
        <5>1. i \in 0 .. Len(t) - 1
          BY <3>3, <4>2
        <5>2. SubSeq(t, 1, i) \in DOMAIN threads /\ threads[SubSeq(t, 1, i)].dir = "waiting"
          BY <3>2, <5>1 DEF WaitsFor
        <5> QED BY <1>10, <3>4, <5>1, <5>2
      <4> QED BY <4>1, <4>2
    <3> QED BY <3>6 DEF WaitsFor
  <2> QED BY <1>1, <2>1, <2>2
<1> QED BY <1>5, <1>7, <1>9, <1>11 DEF MapsNext

\* The contexts of goroutines.
LEMMA ForkedContexts ==
    ASSUME NEW t, NEW x, NEW c, IsContext(c)
    PROVE /\ ForkedContext(t, x, c, DeepCopy(Append(t, x), c, heap))
          /\ \A n : ForkedContext(t, x, c, WithNamespace(DeepCopy(Append(t, x), c, heap), n))
<1> DEFINE u == Append(t, x)
           d == DeepCopy(u, c, heap)
<1>1. DOMAIN c = ContextFields /\ Kinds \subseteq ContextFields
      /\ Maps \subseteq Copied(c) /\ "template" \notin Maps /\ "template" \in ContextFields
      /\ ("template" \in Copied(c) <=> c.template # Nil)
  BY DEF IsContext, ContextFields, Copied, Cloned, Kinds, Maps, VarMaps
<1>2. IsContext(d)
  BY ContextType
<1>3. /\ \A k \in Maps : d[k] = Fresh(u, k, heap)
      /\ d.template = IF c.template = Nil THEN Nil ELSE Fresh(u, "template", heap)
  <2>1. \A k \in Maps : d[k] = Fresh(u, k, heap)
    BY <1>1 DEF DeepCopy, Kinds
  <2>2. d.template = IF "template" \in Copied(c) THEN Fresh(u, "template", heap) ELSE c.template
    BY <1>1 DEF DeepCopy
  <2> QED BY <1>1, <2>1, <2>2
<1> HIDE DEF d, u
<1>4. ASSUME NEW n
      PROVE /\ WithNamespace(d, n).template = d.template
            /\ \A k \in Maps : WithNamespace(d, n)[k] = d[k]
  BY <1>2 DEF WithNamespace, IsContext, ContextFields, Maps, VarMaps
<1>5. ForkedContext(t, x, c, d)
  BY <1>3 DEF ForkedContext, u
<1>6. \A n : ForkedContext(t, x, c, WithNamespace(d, n))
  BY <1>3, <1>4 DEF ForkedContext, u
<1> QED BY <1>5, <1>6 DEF d, u

\* Run, concurrent, matrix, the end of a chain.
LEMMA ContainerMaps ==
    ASSUME Shape, MapsInv, NEW t \in DOMAIN threads,
           \/ StartContainer(t) \/ StartFails(t) \/ ContainerEnds(t) \/ LeaveRun(t)
           \/ EnterConcurrent(t) \/ EnterMatrix(t) \/ LeaveGroup(t) \/ End(t)
    PROVE MapsNext
<1> DEFINE th == threads[t]
<1>0. /\ IsContext(Ctx(t)) /\ DOMAIN th = ThreadFields /\ ThreadShape(prog, th)
      /\ ThreadTemplates(prog, t, th) /\ HeapStep(t, heap) /\ SameMaps(Ctx(t), Ctx(t))
      /\ \A h : Derived(t, th, Ctx(t), h)
  BY ShapeOf, MapsOf DEF SameMaps
<1>f. th.dir # "done" =>
            /\ Frame(t).step \in DOMAIN prog /\ Proc(t) \in Processors(Options(t))
            /\ Options(t) = prog[Frame(t).step]
            /\ Fits(t, Ctx(t).template, DOMAIN Frame(t).saved)
  BY ShapeOf, MapsOf DEF Options
<1>1. CASE StartContainer(t)
  <2> DEFINE new == [th EXCEPT !.dir = "running"]
  <2>1. /\ th.dir = "down" /\ Top(th).at = "run" /\ Proc(t) = "run" /\ heap' = heap
    BY <1>1 DEF StartContainer, At, Proc
  <2>2. \/ threads' = [threads EXCEPT ![t].dir = "running"]
        \/ Panic(t)
    BY <1>1 DEF StartContainer
  <2>3. CASE threads' = [threads EXCEPT ![t].dir = "running"]
    <3>1. threads' = [threads EXCEPT ![t] = new]
      BY <2>3
    <3>2. ThreadTemplates(prog, t, new) /\ Held(new) \subseteq Held(th)
      BY <1>0, <2>1, TurnedMaps
    <3> HIDE DEF new
    <3>3. MapsKept(t, th, new, heap')
      BY <3>2, DerivedHeld DEF MapsKept
    <3> QED BY <1>0, <2>1, <3>1, <3>3, OneMaps
  <2> QED BY <2>1, <2>2, <2>3, PanicMaps
<1>2. CASE StartFails(t)
  BY <1>0, <1>2, ReturnPlainly DEF StartFails, At
<1>3. CASE ContainerEnds(t)
  BY <1>3, ContainerEndsMaps
<1>4. CASE LeaveRun(t)
  BY <1>0, <1>4, ReturnPlainly DEF LeaveRun, At
<1>5. CASE EnterConcurrent(t)
  <2> DEFINE refs == {Options(t).concurrent[i] : i \in DOMAIN Options(t).concurrent}
             c == Ctx(t)
             step == [x \in refs |-> x]
             context == [x \in refs |-> DeepCopy(Append(t, x), c, heap)]
  <2>1. th.dir = "down" /\ Proc(t) = "concurrent"
    BY <1>5 DEF EnterConcurrent, At
  <2>2. (Panic(t) /\ heap' = heap) \/ Fork(t, step, context, c)
    BY <1>5 DEF EnterConcurrent
  <2>3. Options(t).concurrent \in Seq(DOMAIN prog)
    BY <1>f, <2>1, ReferencesType DEF Options
  <2>4. refs \subseteq DOMAIN prog /\ IsFiniteSet(refs)
    <3> DEFINE s == Options(t).concurrent
    <3>1. s \in Seq(DOMAIN prog)
      BY <2>3
    <3> HIDE DEF s
    <3>2. /\ DOMAIN s = 1 .. Len(s) /\ Len(s) \in Nat /\ s = [i \in DOMAIN s |-> s[i]]
          /\ \A i \in DOMAIN s : s[i] \in DOMAIN prog
      BY <3>1, LenProperties, ElementOfSeq
    <3>i. 1 \in Int /\ Len(s) \in Int
      BY <3>2
    <3>j. IsFiniteSet(1 .. Len(s))
      BY <3>i, FS_Interval
    <3>3. IsFiniteSet(DOMAIN s)
      BY <3>2, <3>j
    <3>4. IsFiniteSet({s[i] : i \in DOMAIN s})
      BY <3>2, <3>3, FiniteImage
    <3> QED BY <3>2, <3>4 DEF s
  <2>5. Ctx(t).template # Nil
    BY <2>1, BelowTemplate
  <2>6. \A x \in DOMAIN step :
           /\ step[x] \in DOMAIN prog /\ IsContext(context[x])
           /\ ForkedContext(t, x, c, context[x])
    <3>1. \A u : IsContext(DeepCopy(u, c, heap))
      BY <1>0, ContextType
    <3>2. \A x : ForkedContext(t, x, c, DeepCopy(Append(t, x), c, heap))
      BY <1>0, ForkedContexts
    <3> QED BY <2>4, <3>1, <3>2
  <2>7. IsFiniteSet(DOMAIN step)
    BY <2>4
  <2>8. SameRefs(c, Ctx(t)) /\ IsContext(c) /\ c.template # Nil
    BY <1>0, <2>5, SameRefsType
  <2> HIDE DEF step, context, c
  <2>9. CASE Fork(t, step, context, c)
    BY <2>1, <2>6, <2>7, <2>8, <2>9, ForkMaps
  <2> QED BY <2>1, <2>2, <2>9, PanicMaps
<1>6. CASE EnterMatrix(t)
  <2> DEFINE c == Ctx(t)
             s == Frame(t).step
             d == Instance(c, s)
             params == Options(t).matrix
             step == [x \in params |-> s]
             context == [x \in params |-> WithNamespace(DeepCopy(Append(t, x), d, heap), x)]
  <2>1. th.dir = "down" /\ Proc(t) = "matrix"
    BY <1>6 DEF EnterMatrix, At
  <2>2. \/ Panic(t) /\ heap' = heap
        \/ Forward(t, c, "instance") /\ heap' = heap
        \/ Fork(t, step, context, d)
    BY <1>6 DEF EnterMatrix
  <2>3. IsContext(d) /\ SameRefs(d, c) /\ d.template = c.template
    <3>1. IsContext(d) /\ SameRefs(d, c)
      BY <1>0, ContextType, SameRefsType DEF Instance
    <3> QED BY <3>1 DEF SameRefs
  <2>4. /\ s \in DOMAIN prog /\ prog[s].matrix # {} /\ params = prog[s].matrix
        /\ IsFiniteSet(params)
    <3>1. "matrix" \in Processors(prog[s]) /\ s \in DOMAIN prog /\ params = prog[s].matrix
      BY <1>f, <2>1
    <3>2. prog[s].matrix # {}
      BY <3>1 DEF Processors
    <3>3. IsFiniteSet(prog[s].matrix)
      BY <3>1, ProgramsAssumption DEF ProgramsAssumption, Shape
    <3> QED BY <3>1, <3>2, <3>3
  <2>5. d.template = Nil => s = "main" /\ \A u : SharesTemplate(prog, u)
    <3> SUFFICES ASSUME c.template = Nil
                 PROVE s = "main" /\ \A u : SharesTemplate(prog, u)
      BY <2>3
    <3>1. TemplateOf(prog, t, Nil, Len(th.stack), s)
      BY <1>f, <2>1 DEF Fits, TopTemplate
    <3>2. s = "main"
      BY <3>1, AddressesDiffer DEF TemplateOf
    <3> QED BY <2>4, <3>2 DEF SharesTemplate
  <2>6. \A x \in DOMAIN step :
           /\ step[x] \in DOMAIN prog /\ IsContext(context[x])
           /\ ForkedContext(t, x, d, context[x])
    <3>1. \A u : IsContext(DeepCopy(u, d, heap))
      BY <2>3, ContextType
    <3>2. \A u, n : IsContext(WithNamespace(DeepCopy(u, d, heap), n))
      BY <3>1, ContextType
    <3>3. \A x, n : ForkedContext(t, x, d, WithNamespace(DeepCopy(Append(t, x), d, heap), n))
      BY <2>3, ForkedContexts
    <3> QED BY <2>4, <3>2, <3>3
  <2>7. IsFiniteSet(DOMAIN step) /\ \A x \in DOMAIN step : step[x] = s
    BY <2>4
  <2>8. Kept("matrix", "instance") /\ Plainly("matrix")
    BY KeptAny DEF Plainly
  <2>9. IsContext(c) /\ SameMaps(c, Ctx(t)) /\ c.template = Ctx(t).template
    BY <1>0
  <2> HIDE DEF step, context, d, c, s, params
  <2>10. CASE Fork(t, step, context, d)
    <3>1. SameRefs(d, Ctx(t))
      BY <2>3 DEF c
    <3>2. \A x \in DOMAIN step :
             /\ step[x] \in DOMAIN prog /\ IsContext(context[x])
             /\ ForkedContext(t, x, d, context[x])
             /\ d.template = Nil => step[x] = "main" /\ SharesTemplate(prog, Append(t, x))
      BY <2>5, <2>6, <2>7
    <3> QED BY <2>1, <2>3, <2>7, <2>10, <3>1, <3>2, ForkMaps
  <2>11. CASE Forward(t, c, "instance") /\ heap' = heap
    <3>1. HeapStep(t, heap')
      BY <1>0, <2>11
    <3> QED BY <2>1, <2>8, <2>9, <2>11, <3>1, ForwardPlainly
  <2> QED BY <2>1, <2>2, <2>10, <2>11, PanicMaps
<1>7. CASE LeaveGroup(t)
  BY <1>0, <1>7, ReturnPlainly DEF LeaveGroup, At
<1>8. CASE End(t)
  BY <1>0, <1>8, ReturnPlainly DEF End, At
<1> QED BY <1>1, <1>2, <1>3, <1>4, <1>5, <1>6, <1>7, <1>8

\* The beginnings of a sequence.
LEMMA Beginnings ==
    ASSUME NEW w, IsSeq(w), NEW n \in 0 .. Len(w) - 1
    PROVE LET v == SubSeq(w, 1, n + 1)
          IN  /\ Len(v) = n + 1 /\ SubSeq(v, 1, n) = SubSeq(w, 1, n)
              /\ Len(SubSeq(w, 1, n)) = n
              /\ n + 1 = Len(w) => v = w
<1> DEFINE S == {w[i] : i \in DOMAIN w}
<1>1. w \in Seq(S) /\ Len(w) \in Nat /\ \A i \in 1 .. Len(w) : w[i] \in S
  BY SeqType DEF IsSeq
<1> HIDE DEF S
<1>2. ASSUME NEW m \in 0 .. Len(w)
      PROVE Len(SubSeq(w, 1, m)) = m
  <2>1. 1 \in Int /\ m \in Int /\ \A i \in 1 .. m : w[i] \in S
    BY <1>1
  <2>2. Len(SubSeq(w, 1, m)) = IF 1 <= m THEN m - 1 + 1 ELSE 0
    BY <2>1, SubSeqProperties
  <2> QED BY <1>1, <2>2
<1>3. n \in 0 .. Len(w) /\ n + 1 \in 0 .. Len(w) /\ n + 1 \in 1 .. Len(w)
  BY <1>1
<1>4. SubSeq(SubSeq(w, 1, n + 1), 1, n) = SubSeq(w, 1, n)
  <2>1. CASE n = 0
    <3>1. SubSeq(SubSeq(w, 1, n + 1), 1, n) = <<>> /\ SubSeq(w, 1, n) = <<>>
      BY <2>1, SubSeqEmpty
    <3> QED BY <3>1
  <2>2. CASE n # 0
    <3>1. /\ 1 \in 1 .. Len(w) /\ n + 1 \in 1 .. Len(w)
          /\ 1 \in 1 .. (n + 1) - 1 + 1 /\ n \in 1 .. (n + 1) - 1 + 1
      BY <1>1, <1>3, <2>2
    <3>2. SubSeq(SubSeq(w, 1, n + 1), 1, n) = SubSeq(w, 1 + 1 - 1, 1 + n - 1)
      BY <1>1, <3>1, SubSeqOfSubSeq
    <3>3. 1 + 1 - 1 = 1 /\ 1 + n - 1 = n
      BY <1>3
    <3> QED BY <3>2, <3>3
  <2> QED BY <2>1, <2>2
<1>5. n + 1 = Len(w) => SubSeq(w, 1, n + 1) = w
  BY <1>1, SubSeqFull
<1> QED BY <1>2, <1>3, <1>4, <1>5

\* Of two changes to the frame on top the last one counts.
LEMMA TwiceTop ==
    ASSUME NEW th, DOMAIN th = ThreadFields, NEW k, NEW g,
           Len(SetTop(th, k).stack) = Len(th.stack)
    PROVE SetTop([SetTop(th, k) EXCEPT !.dir = "down"], g) = SetTop([th EXCEPT !.dir = "down"], g)
<1> DEFINE one == SetTop(th, k)
           n == Len(th.stack)
           a == [one EXCEPT !.dir = "down"]
           b == [th EXCEPT !.dir = "down"]
<1>1. DOMAIN one = ThreadFields /\ one.stack = [th.stack EXCEPT ![n] = k]
      /\ \A x \in ThreadFields \ {"stack"} : one[x] = th[x]
  BY DEF SetTop, ThreadFields
<1>2. Len(one.stack) = n
  OBVIOUS
<1> HIDE DEF one
<1>3. /\ DOMAIN a = ThreadFields /\ a.dir = "down" /\ a.stack = one.stack
      /\ \A x \in ThreadFields \ {"dir"} : a[x] = one[x]
      /\ DOMAIN b = ThreadFields /\ b.dir = "down" /\ b.stack = th.stack
      /\ \A x \in ThreadFields \ {"dir"} : b[x] = th[x]
  BY <1>1 DEF ThreadFields
<1>4. a = [x \in ThreadFields |-> a[x]] /\ b = [x \in ThreadFields |-> b[x]]
  BY <1>1, <1>3
<1> HIDE DEF a, b
<1> DEFINE A == SetTop(a, g)
           B == SetTop(b, g)
<1>5. /\ A = [a EXCEPT !.stack = [a.stack EXCEPT ![Len(a.stack)] = g]]
      /\ B = [b EXCEPT !.stack = [b.stack EXCEPT ![Len(b.stack)] = g]]
  BY <1>3 DEF SetTop, ThreadFields
<1>6. [a.stack EXCEPT ![Len(a.stack)] = g] = [b.stack EXCEPT ![Len(b.stack)] = g]
  <2>1. a.stack = [th.stack EXCEPT ![n] = k] /\ b.stack = th.stack /\ Len(a.stack) = n
    BY <1>1, <1>2, <1>3
  <2> HIDE DEF n
  <2>2. [[th.stack EXCEPT ![n] = k] EXCEPT ![n] = g] = [th.stack EXCEPT ![n] = g]
    OBVIOUS
  <2> QED BY <2>1, <2>2 DEF n
<1>7. A = B
  <2> DEFINE q == [b.stack EXCEPT ![Len(b.stack)] = g]
  <2>1. A = [a EXCEPT !.stack = q] /\ B = [b EXCEPT !.stack = q]
    BY <1>5, <1>6
  <2> HIDE DEF q, A, B
  <2>2. \A x \in ThreadFields \ {"stack"} : a[x] = b[x]
    BY <1>1, <1>3
  <2>3. A = [x \in ThreadFields |-> IF x = "stack" THEN q ELSE a[x]]
    BY <1>3, <1>4, <2>1
  <2>4. B = [x \in ThreadFields |-> IF x = "stack" THEN q ELSE b[x]]
    BY <1>3, <1>4, <2>1
  <2> QED BY <2>2, <2>3, <2>4
<1> QED BY <1>7 DEF a, b, one

\* The maps after a result: records are added to those of thread t, from the steps that
\* thread u has called.
ReceivedHeap(t, u) ==
    /\ DOMAIN heap' = DOMAIN heap
    /\ \A a \in DOMAIN heap : IsSteps(a) => \A s \in DOMAIN heap'[a] :
          \/ RecordOf(heap'[a][s].outs, a[1], DOMAIN heap, threads)
          \/ a[1] = t /\ RecordOf(heap'[a][s].outs, u, DOMAIN heap, threads)

LEMMA ReceiveHeap ==
    ASSUME MapsInv, NEW t, NEW u, NEW c, OwnMaps(t, c, DOMAIN heap), ~IsSteps(c.template),
           NEW d, OwnMaps(u, d, DOMAIN heap),
           \/ heap' = [heap EXCEPT ![c.steps] = MapsCopy(@, heap[d.steps]),
                                   ![c.outs] = Unify(heap[d.outs], @)]
           \/ heap' = MergeHeap(c, d, heap)
    PROVE ReceivedHeap(t, u)
<1>0. /\ IsSteps(c.steps) /\ c.steps \in DOMAIN heap /\ c.steps[1] = t
      /\ IsSteps(d.steps) /\ d.steps \in DOMAIN heap /\ d.steps[1] = u
      /\ c.outs # c.steps /\ ~IsSteps(c.outs)
  <2>1. /\ IsAddress(c.steps, t, "steps") /\ c.steps \in DOMAIN heap /\ IsAddress(c.outs, t, "outs")
        /\ IsAddress(d.steps, u, "steps") /\ d.steps \in DOMAIN heap
    BY DEF OwnMaps, Maps
  <2> QED BY <2>1, NotSteps
<1>1. /\ DOMAIN heap' = DOMAIN heap
      /\ heap'[c.steps] = MapsCopy(heap[c.steps], heap[d.steps])
      /\ \A a \in DOMAIN heap : IsSteps(a) /\ a # c.steps => heap'[a] = heap[a]
  <2>1. CASE heap' = [heap EXCEPT ![c.steps] = MapsCopy(@, heap[d.steps]),
                                  ![c.outs] = Unify(heap[d.outs], @)]
    <3> DEFINE x == MapsCopy(heap[c.steps], heap[d.steps])
    <3>1. PICK y : heap' = [heap EXCEPT ![c.steps] = x, ![c.outs] = y]
      BY <2>1
    <3> HIDE DEF x
    <3>2. /\ DOMAIN heap' = DOMAIN heap /\ heap'[c.steps] = x
          /\ \A a \in DOMAIN heap : IsSteps(a) /\ a # c.steps => heap'[a] = heap[a]
      BY <1>0, <3>1
    <3> QED BY <3>2 DEF x
  <2>2. CASE heap' = MergeHeap(c, d, heap)
    <3> DEFINE m == MergeHeap(c, d, heap)
    <3>1. RecordsMerged(m, heap, c, d)
      BY Merged
    <3> HIDE DEF m
    <3>2. heap' = m
      BY <2>2 DEF m
    <3> QED BY <3>1, <3>2 DEF RecordsMerged
  <2> QED BY <2>1, <2>2
<1>2. ASSUME NEW a \in DOMAIN heap, IsSteps(a), NEW s \in DOMAIN heap'[a]
      PROVE \/ RecordOf(heap'[a][s].outs, a[1], DOMAIN heap, threads)
            \/ a[1] = t /\ RecordOf(heap'[a][s].outs, u, DOMAIN heap, threads)
  <2>0. RecordsOf(heap, threads)
    BY DEF MapsInv
  <2>1. CASE a = c.steps
    <3>1. \/ s \in DOMAIN heap[d.steps] /\ heap'[a][s] = heap[d.steps][s]
          \/ s \in DOMAIN heap[c.steps] /\ heap'[a][s] = heap[c.steps][s]
      BY <1>1, <1>2, <2>1 DEF MapsCopy
    <3> QED BY <1>0, <2>0, <2>1, <3>1 DEF RecordsOf
  <2>2. CASE a # c.steps
    BY <1>1, <1>2, <2>0, <2>2 DEF RecordsOf
  <2> QED BY <2>1, <2>2
<1> QED BY <1>1, <1>2 DEF ReceivedHeap

\* The one goroutine that thread t waits for: nobody else was started below it.
LEMMA LastChild ==
    ASSUME Shape, MapsInv, NEW t \in DOMAIN threads, NEW u, threads[u].dir = "done",
           Children(t) = {u}, NEW w \in DOMAIN threads, w # u,
           NEW i \in 0 .. Len(w) - 1, SubSeq(w, 1, i) = t
    PROVE FALSE
<1> DEFINE v == SubSeq(w, 1, i + 1)
<1>1. IsSeq(w) /\ WaitsFor(threads, w) /\ Len(w) \in Nat
  BY SeqType DEF Shape, MapsInv
<1>2. /\ Len(v) = i + 1 /\ SubSeq(v, 1, i) = t /\ Len(t) = i
      /\ i + 1 = Len(w) => v = w
  BY <1>1, Beginnings
<1>3. CASE i + 1 = Len(w)
  <2>1. w \in Children(t)
    BY <1>2, <1>3 DEF Children
  <2> QED BY <2>1
<1>4. CASE i + 1 # Len(w)
  <2>1. i + 1 \in 0 .. Len(w) - 1
    BY <1>1, <1>4
  <2>2. v \in DOMAIN threads /\ threads[v].dir = "waiting"
    BY <1>1, <2>1 DEF WaitsFor
  <2> HIDE DEF v
  <2>3. v \in Children(t)
    BY <1>2, <2>2 DEF Children
  <2> QED BY <2>2, <2>3
<1> QED BY <1>3, <1>4

\* The thread that waits takes the result of goroutine u, which is over.
LEMMA ChildReceived ==
    ASSUME Shape, MapsInv, NEW t \in DOMAIN threads, threads[t].dir = "waiting",
           NEW u \in Children(t), threads[u].dir = "done", ReceivedHeap(t, u),
           NEW new, Held(new) \subseteq Held(threads[t]), ThreadTemplates(prog, t, new),
           new.dir = "waiting" \/ Children(t) = {u},
           DOMAIN threads' = DOMAIN threads \ {u}, threads'[t] = new,
           \A v \in DOMAIN threads \ {u, t} : threads'[v] = threads[v]
    PROVE MapsNext
<1>0. /\ IsFiniteSet(DOMAIN heap) /\ DOMAIN heap' = DOMAIN heap
  BY DEF MapsInv, ReceivedHeap
<1>1. u \in DOMAIN threads /\ u # t /\ IsSeq(t) /\ IsSeq(u)
      /\ Len(t) \in Nat /\ Len(u) = Len(t) + 1 /\ SubSeq(u, 1, Len(t)) = t
  BY SeqType DEF Children, Shape
<1>2. ASSUME NEW v \in DOMAIN threads'
      PROVE /\ HeldOwn(v, threads'[v], DOMAIN heap') /\ ThreadTemplates(prog, v, threads'[v])
            /\ Held(threads'[v]) \subseteq Held(threads[v])
            /\ v \in DOMAIN threads
  <2>1. v \in DOMAIN threads /\ v # u
    OBVIOUS
  <2>2. HeldOwn(v, threads[v], DOMAIN heap) /\ ThreadTemplates(prog, v, threads[v])
    BY <2>1 DEF MapsInv
  <2>3. CASE v = t
    BY <1>0, <2>2, <2>3 DEF HeldOwn
  <2>4. CASE v # t
    BY <1>0, <2>1, <2>2, <2>4
  <2> QED BY <2>1, <2>3, <2>4
<1>3. ASSUME NEW r, NEW v, RecordOf(r, v, DOMAIN heap, threads)
      PROVE RecordOf(r, v, DOMAIN heap', threads')
  BY <1>0, <1>2, <1>3 DEF RecordOf, HoldsOuts
<1>4. ASSUME NEW r, RecordOf(r, u, DOMAIN heap, threads)
      PROVE RecordOf(r, t, DOMAIN heap', threads')
  <2>1. ASSUME NEW w \in DOMAIN threads', HoldsOuts(threads'[w], r)
        PROVE Prefix(w, t)
    <3>1. HoldsOuts(threads[w], r) /\ w \in DOMAIN threads /\ w # u
      BY <1>2, <2>1 DEF HoldsOuts
    <3>2. Prefix(w, u) /\ IsSeq(w)
      BY <1>4, <3>1 DEF RecordOf, Shape
    <3>3. Len(w) \in 0 .. Len(u) - 1
      BY <1>1, <3>1, <3>2, PrefixIs
    <3>4. \A i \in 1 .. Len(t) : u[i] = t[i]
      <4> DEFINE S == {u[i] : i \in DOMAIN u}
      <4>1. 1 \in Int /\ Len(t) \in Int /\ \A i \in 1 .. Len(t) : u[i] \in S
        BY <1>1, SeqType
      <4> HIDE DEF S
      <4>2. \A i \in 1 .. Len(t) - 1 + 1 : SubSeq(u, 1, Len(t))[i] = u[1 + i - 1]
        BY <4>1, SubSeqProperties
      <4>3. \A i \in 1 .. Len(t) : t[i] = u[1 + i - 1] /\ 1 + i - 1 = i
        BY <1>1, <4>2
      <4> QED BY <4>3
    <3> QED BY <1>1, <3>2, <3>3, <3>4 DEF Prefix
  <2> QED BY <1>0, <1>4, <2>1 DEF RecordOf
<1>5. RecordsOf(heap', threads')
  <2> SUFFICES ASSUME NEW a \in DOMAIN heap', IsSteps(a), NEW s \in DOMAIN heap'[a]
               PROVE RecordOf(heap'[a][s].outs, a[1], DOMAIN heap', threads')
    BY DEF RecordsOf
  <2> DEFINE r == heap'[a][s].outs
  <2>1. \/ RecordOf(r, a[1], DOMAIN heap, threads)
        \/ a[1] = t /\ RecordOf(r, u, DOMAIN heap, threads)
    BY DEF ReceivedHeap
  <2> HIDE DEF r
  <2>2. RecordOf(r, a[1], DOMAIN heap', threads')
    BY <1>3, <1>4, <2>1
  <2> QED BY <2>2 DEF r
<1>6. ASSUME NEW w \in DOMAIN threads', NEW i \in 0 .. Len(w) - 1
      PROVE SubSeq(w, 1, i) \in DOMAIN threads' /\ threads'[SubSeq(w, 1, i)].dir = "waiting"
  <2> DEFINE v == SubSeq(w, 1, i)
  <2>1. w \in DOMAIN threads /\ w # u
    OBVIOUS
  <2>2. WaitsFor(threads, w)
    BY <2>1 DEF MapsInv
  <2>3. v \in DOMAIN threads /\ threads[v].dir = "waiting"
    BY <2>2 DEF WaitsFor
  <2>4. v = t => new.dir = "waiting"
    BY <2>1, LastChild
  <2> HIDE DEF v
  <2>5. v \in DOMAIN threads' /\ threads'[v].dir = "waiting"
    BY <2>3, <2>4
  <2> QED BY <2>5 DEF v
<1>7. \A w \in DOMAIN threads' : WaitsFor(threads', w)
  BY <1>6 DEF WaitsFor
<1> QED BY <1>0, <1>2, <1>5, <1>7 DEF MapsNext

LEMMA ReceiveMaps ==
    ASSUME Shape, MapsInv, NEW t \in DOMAIN threads, NEW p \in {"concurrent", "matrix"}, Receive(t, p)
    PROVE MapsNext
<1> DEFINE th == threads[t]
<1>1. PICK u \in Children(t) :
         /\ threads[u].dir = "done"
         /\ LET c == Ctx(t)
                child == threads[u]
                err == IF Abort(child.err) THEN "hard" ELSE Saved(t, p)
                kept == SetTop(threads[t], Keep(Frame(t), err))
                last == Children(t) = {u}
                rest == [v \in DOMAIN threads \ {u} |-> threads[v]]
            IN  /\ heap' = IF p = "matrix"
                           THEN [heap EXCEPT ![c.steps] = MapsCopy(@, heap[child.ctx.steps]),
                                             ![c.outs] = Unify(heap[child.ctx.outs], @)]
                           ELSE MergeHeap(c, child.ctx, heap)
                /\ threads' = [rest EXCEPT ![t] =
                      IF ~last THEN kept
                      ELSE IF p = "matrix" \/ err # "ok" THEN Returned(kept, c, err)
                      ELSE SetTop([kept EXCEPT !.dir = "down"], Onward(Top(kept)))]
  BY DEF Receive
<1> DEFINE c == Ctx(t)
           d == threads[u].ctx
           err == IF Abort(threads[u].err) THEN "hard" ELSE Saved(t, p)
           k == Keep(Frame(t), err)
           kept == SetTop(th, k)
           rest == [v \in DOMAIN threads \ {u} |-> threads[v]]
           back == Returned(kept, c, err)
           gone == SetTop([kept EXCEPT !.dir = "down"], Onward(Top(kept)))
           last == Children(t) = {u}
<1>2. /\ th.dir = "waiting" /\ Top(th).at = p /\ Frame(t) = Top(th) /\ c = th.ctx
  BY DEF Receive, At, Proc, Frame, Ctx
<1>3. /\ ThreadShape(prog, th) /\ ThreadTemplates(prog, t, th) /\ DOMAIN th = ThreadFields
      /\ IsContext(c) /\ FrameShape(prog, Top(th)) /\ OwnMaps(t, c, DOMAIN heap)
      /\ c \in Held(th) /\ \A h : Derived(t, th, c, h)
      /\ Fits(t, c.template, DOMAIN Frame(t).saved)
  BY <1>2, MapsOf, ShapeOf
<1>4. /\ u \in DOMAIN threads /\ u # t /\ threads[u].dir = "done" /\ OwnMaps(u, d, DOMAIN heap)
  <2>1. u \in DOMAIN threads
    BY DEF Children
  <2>2. OwnMaps(u, Ctx(u), DOMAIN heap)
    BY <2>1, MapsOf
  <2> QED BY <1>1, <1>2, <2>1, <2>2 DEF Ctx
<1>5. ReceivedHeap(t, u)
  <2>1. ~IsSteps(c.template)
    BY <1>3, NotSteps DEF Fits, TopTemplate
  <2>2. \/ heap' = [heap EXCEPT ![c.steps] = MapsCopy(@, heap[d.steps]),
                                ![c.outs] = Unify(heap[d.outs], @)]
        \/ heap' = MergeHeap(c, d, heap)
    BY <1>1
  <2> HIDE DEF c, d
  <2> QED BY <1>3, <1>4, <2>1, <2>2, ReceiveHeap
<1>6. \/ threads' = [rest EXCEPT ![t] = kept]
      \/ last /\ threads' = [rest EXCEPT ![t] = back]
      \/ last /\ threads' = [rest EXCEPT ![t] = gone]
  <2> HIDE DEF kept, rest, err, gone, back, c
  <2> QED BY <1>1 DEF kept, rest, err, gone, back, c
<1> HIDE DEF err
<1>7. /\ ThreadShape(prog, kept) /\ ThreadTemplates(prog, t, kept)
      /\ Held(kept) \subseteq Held(th)
      /\ kept.dir = "waiting" /\ kept.ctx = c /\ Top(kept) = k
  <2>1. SameRefs(th.ctx, th.ctx) /\ IsContext(th.ctx)
    BY <1>2, <1>3, SameRefsType
  <2>2. kept = SetTop(th, Keep(Top(th), err))
    BY <1>2
  <2>3. /\ ThreadShape(prog, kept) /\ ThreadTemplates(prog, t, kept)
        /\ Held(kept) \subseteq {th.ctx} \cup Held(th)
        /\ kept.dir = "waiting" /\ kept.ctx = th.ctx /\ Top(kept) = Keep(Top(th), err)
    <3> HIDE DEF kept
    <3> QED BY <1>2, <1>3, <2>1, <2>2, WaitingMaps
  <2> HIDE DEF kept
  <2> QED BY <1>2, <1>3, <2>3
<1>8. k.at = p /\ k.step = Frame(t).step
  <2>1. DOMAIN Frame(t) = FrameFields
    BY <1>2, <1>3 DEF FrameShape, FrameFields
  <2> QED BY <1>2, <2>1, KeepType
<1>9. Held(back) \subseteq Held(th) /\ ThreadTemplates(prog, t, back)
  <2> HIDE DEF kept, k
  <2>1. /\ kept.dir # "done" /\ Top(kept).at # "recover" /\ IsContext(c)
        /\ c \in Held(kept) \cup Held(th)
    BY <1>3, <1>7, <1>8
  <2>2. TopTemplate(prog, t, c.template, Len(kept.stack), Top(kept).step,
                    DOMAIN Top(kept).saved \ {Top(kept).at})
    <3>1. TopTemplate(prog, t, kept.ctx.template, Len(kept.stack), Top(kept).step,
                      DOMAIN Top(kept).saved)
      BY <1>7, <2>1, TemplatesOf
    <3> QED BY <1>7, <3>1 DEF TopTemplate
  <2>3. Held(back) \subseteq {c} \cup Held(kept)
    BY <1>7, <2>1, ReturnedHeld
  <2>4. ThreadTemplates(prog, t, back)
    BY <1>7, <2>1, <2>2, BackTemplates
  <2> HIDE DEF back
  <2> QED BY <1>3, <1>7, <2>3, <2>4
<1>10. Held(gone) \subseteq Held(th) /\ ThreadTemplates(prog, t, gone)
  <2> DEFINE old == [th EXCEPT !.dir = "down"]
             f == Top(th)
             on == SetTop(old, Onward(Keep(f, err)))
  <2>1. Len(kept.stack) = Len(th.stack)
    <3>1. k = Keep(Top(th), err) /\ IsContext(th.ctx) /\ th.dir \in Directions \ {"done"}
      BY <1>2, <1>3 DEF Directions
    <3>2. DOMAIN Keep(Top(th), err) = FrameFields
      BY <1>3, KeepType DEF FrameShape, FrameFields
    <3>3. FrameShape(prog, Top(kept)) /\ TopShape(prog, Top(kept), th.dir)
      BY <1>2, <1>7, FramesOf
    <3> HIDE DEF k
    <3>4. FrameShape(prog, k) /\ TopShape(prog, k, th.dir)
      BY <1>7, <3>3
    <3>5. Len(SetTop(th, k).stack) = Len(th.stack)
      BY <1>2, <1>3, <3>1, <3>4, TopMoved
    <3> QED BY <3>5
  <2>2. gone = on
    <3>1. gone = SetTop([kept EXCEPT !.dir = "down"], Onward(k))
      BY <1>7
    <3>2. SetTop([kept EXCEPT !.dir = "down"], Onward(k)) = SetTop(old, Onward(k))
      <4> HIDE DEF k
      <4> QED BY <1>3, <2>1, TwiceTop
    <3>3. k = Keep(f, err)
      BY <1>2
    <3> HIDE DEF gone, kept, k
    <3> QED BY <3>1, <3>2, <3>3
  <2>3. /\ old.stack = th.stack /\ old.path = th.path /\ DOMAIN old = ThreadFields
        /\ old.ctx = th.ctx /\ old.dir = "down" /\ IsContext(old.ctx)
    BY <1>2, <1>3 DEF ThreadFields
  <2>4. SameFrame(f, Top(th)) /\ f.at = p /\ f.at # "end" /\ Kept(f.at, err) /\ f = Frame(t)
    BY <1>2, KeptAny DEF SameFrame
  <2> HIDE DEF old, f, gone
  <2>5. /\ Holds(f.at, err) = {} /\ Keeps(t, f.at, err)
    <3>1. Plainly(f.at)
      BY <2>4 DEF Plainly
    <3> QED BY <3>1, PlainlyKept
  <2>6. /\ KeptTemplate(prog, t, f.at, err, Len(th.stack), f.step)
        /\ TopTemplate(prog, t, old.ctx.template, Len(th.stack), f.step, DOMAIN f.saved \cup {f.at})
    <3>1. Fits(t, c.template, DOMAIN Frame(t).saved \cup {f.at})
      BY <1>3, <2>4, FitsKept
    <3> QED BY <1>2, <2>3, <2>4, <2>5, <3>1 DEF Keeps, Fits
  <2>7. ThreadTemplates(prog, t, on)
    BY <1>2, <1>3, <2>3, <2>4, <2>6, OnwardTemplates DEF f
  <2>8. Held(on) \subseteq {old.ctx} \cup Holds(f.at, err) \cup Held(th)
    BY <1>2, <1>3, <2>3, <2>4, OnwardHeld DEF f
  <2> HIDE DEF on
  <2> QED BY <1>2, <1>3, <2>2, <2>3, <2>5, <2>7, <2>8
<1>11. ASSUME NEW new, Held(new) \subseteq Held(th), ThreadTemplates(prog, t, new),
              new.dir = "waiting" \/ last, threads' = [rest EXCEPT ![t] = new]
       PROVE MapsNext
  <2>1. /\ DOMAIN threads' = DOMAIN threads \ {u} /\ threads'[t] = new
        /\ \A v \in DOMAIN threads \ {u, t} : threads'[v] = threads[v]
    BY <1>4, <1>11
  <2> QED BY <1>2, <1>4, <1>5, <1>11, <2>1, ChildReceived
<1> HIDE DEF kept, back, gone, rest, last
<1> QED BY <1>6, <1>7, <1>9, <1>10, <1>11

LEMMA InitMaps == Init => MapsInv
<1> SUFFICES ASSUME Init PROVE MapsInv
  OBVIOUS
<1> DEFINE c == [NewContext(<<>>, EmptyMap) EXCEPT !.alive = TRUE, !.whole = TRUE]
           first == NewThread("main", c, heap, <<>>)
           G == {Global(s) : s \in DOMAIN prog}
           A == {<<<<>>, k, 0>> : k \in Maps}
           g == [a \in G |-> ""]
           m == [a \in A |-> EmptyMap]
<1>1. /\ prog \in Programs /\ threads = [t \in {<<>>} |-> first]
      /\ heap = MapsCopy(g, m)
  BY DEF Init
<1>2. "main" \in DOMAIN prog /\ IsFiniteSet(DOMAIN prog)
  BY <1>1, ProgramsAssumption DEF ProgramsAssumption
<1>3. \A k \in Maps : c[k] = <<<<>>, k, 0>>
  <2>1. \A k : Fresh(<<>>, k, EmptyMap) = <<<<>>, k, 0>>
    <3> TAKE k
    <3>1. DOMAIN EmptyMap = {} /\ Cardinality({}) = 0
      BY FS_EmptySet DEF EmptyMap
    <3>2. 0 .. 0 = {0}
      OBVIOUS
    <3>3. \E n \in {0} : <<<<>>, k, n>> \notin {}
      OBVIOUS
    <3>4. (CHOOSE n \in {0} : <<<<>>, k, n>> \notin {}) = 0
      BY <3>3
    <3> QED BY <3>1, <3>2, <3>4 DEF Fresh
  <2> DEFINE d == NewContext(<<>>, EmptyMap)
  <2>2. /\ d.env = Fresh(<<>>, "env", EmptyMap) /\ d.secret = Fresh(<<>>, "secret", EmptyMap)
        /\ d.inputs = Fresh(<<>>, "inputs", EmptyMap) /\ d.outs = Fresh(<<>>, "outs", EmptyMap)
        /\ d.steps = Fresh(<<>>, "steps", EmptyMap)
        /\ d.containers = Fresh(<<>>, "containers", EmptyMap)
    BY DEF NewContext
  <2>3. \A k \in Maps : d[k] = Fresh(<<>>, k, EmptyMap)
    <3> HIDE DEF d
    <3> QED BY <2>2 DEF Maps, VarMaps
  <2>4. DOMAIN d = ContextFields
    BY NewContextType DEF IsContext
  <2> HIDE DEF d
  <2>5. \A k \in Maps : [d EXCEPT !.alive = TRUE, !.whole = TRUE][k] = d[k]
    BY <2>4 DEF ContextFields, Maps, VarMaps
  <2>6. c = [d EXCEPT !.alive = TRUE, !.whole = TRUE]
    BY DEF d
  <2> HIDE DEF c
  <2> QED BY <2>1, <2>3, <2>5, <2>6
<1>4. IsContext(c) /\ c.template = Nil
  <2>1. IsContext(NewContext(<<>>, EmptyMap)) /\ NewContext(<<>>, EmptyMap).template = Nil
    BY NewContextType DEF NewContext
  <2> QED BY <2>1 DEF IsContext, ContextFields
<1> HIDE DEF c
<1>5. /\ DOMAIN heap = G \cup A
      /\ \A a \in A : heap[a] = EmptyMap
      /\ \A a \in DOMAIN heap \ A : a \in G
  <2>1. DOMAIN g = G /\ DOMAIN m = A /\ \A a \in A : m[a] = EmptyMap
    OBVIOUS
  <2> HIDE DEF g, m, G, A
  <2>2. /\ DOMAIN MapsCopy(g, m) = DOMAIN g \cup DOMAIN m
        /\ \A a \in DOMAIN m : MapsCopy(g, m)[a] = m[a]
    BY MapsCopyType
  <2> QED BY <1>1, <2>1, <2>2
<1>6. IsFiniteSet(DOMAIN heap)
  <2>1. IsFiniteSet(G)
    <3> DEFINE f == [s \in DOMAIN prog |-> Global(s)]
    <3>1. f = [s \in DOMAIN prog |-> f[s]] /\ G = {f[s] : s \in DOMAIN prog}
      OBVIOUS
    <3> HIDE DEF f, G
    <3> QED BY <1>2, <3>1, FiniteImage
  <2>2. IsFiniteSet(A)
    <3> DEFINE f == [k \in Maps |-> <<<<>>, k, 0>>]
    <3>1. f = [k \in Maps |-> f[k]] /\ A = {f[k] : k \in Maps}
      OBVIOUS
    <3> HIDE DEF f, A
    <3> QED BY <3>1, KindsFinite, FiniteImage
  <2> HIDE DEF G, A
  <2> QED BY <1>5, <2>1, <2>2, FS_Union
<1>7. OwnMaps(<<>>, c, DOMAIN heap)
  <2>1. \A k \in Maps : <<<<>>, k, 0>> \in DOMAIN heap
    BY <1>5
  <2>2. \A k : IsAddress(<<<<>>, k, 0>>, <<>>, k)
    BY DEF IsAddress
  <2> HIDE DEF G, A
  <2>3. ASSUME NEW k \in Maps
        PROVE IsAddress(c[k], <<>>, k) /\ c[k] \in DOMAIN heap
    <3>1. c[k] = <<<<>>, k, 0>>
      BY <1>3
    <3> QED BY <2>1, <2>2, <3>1
  <2> QED BY <2>3 DEF OwnMaps
<1>8. \A a \in DOMAIN heap : IsSteps(a) => DOMAIN heap[a] = {}
  <2>1. \A a \in G : ~IsSteps(a)
    BY NotSteps
  <2>2. DOMAIN EmptyMap = {}
    BY DEF EmptyMap
  <2> HIDE DEF G, A
  <2> QED BY <1>5, <2>1, <2>2
<1> HIDE DEF G, A, g, m
<1>9. RecordsOf(heap, threads)
  BY <1>8 DEF RecordsOf
<1>10. ThreadTemplates(prog, <<>>, first) /\ HoldsOnly(first, c)
  <2>1. TopTemplate(prog, <<>>, c.template, 1, "main", {})
    BY <1>4 DEF TopTemplate, TemplateOf, SharesTemplate
  <2>2. IsSeq(<<>>)
    <3>1. <<>> \in Seq({})
      OBVIOUS
    <3> QED BY <3>1, SeqOfElements
  <2> QED BY <1>2, <1>4, <2>1, <2>2, NewThreadMaps
<1> HIDE DEF first
<1>11. DOMAIN threads = {<<>>} /\ threads[<<>>] = first
  BY <1>1
<1>12. HeldOwn(<<>>, first, DOMAIN heap)
  BY <1>7, <1>10 DEF HeldOwn, HoldsOnly
<1>13. WaitsFor(threads, <<>>)
  <2>1. 0 .. Len(<<>>) - 1 = {}
    OBVIOUS
  <2> QED BY <2>1 DEF WaitsFor
<1> QED BY <1>6, <1>9, <1>10, <1>11, <1>12, <1>13 DEF MapsInv

LEMMA StepMaps ==
    ASSUME Shape, MapsInv, NEW t \in DOMAIN threads, Step(t)
    PROVE MapsNext
  BY FirstMaps, VariablesMaps, ChecksMaps, CallsMaps, ContainerMaps, ReceiveMaps DEF Step

LEMMA NextMaps == Shape /\ MapsInv /\ [Next]_vars => MapsInv'
<1> SUFFICES ASSUME Shape, MapsInv, [Next]_vars PROVE MapsInv'
  OBVIOUS
<1>1. CASE UNCHANGED vars
  BY <1>1 DEF vars, MapsInv
<1>2. ASSUME NEW t \in DOMAIN threads, Step(t)
      PROVE MapsInv'
  <2>1. prog' = prog
    BY <1>2, ProgUnchanged
  <2>2. MapsNext
    BY <1>2, StepMaps
  <2> QED BY <2>1, <2>2 DEF MapsInv, MapsNext
<1> QED BY <1>1, <1>2 DEF Next, Finished

-----------------------------------------------------------------------------
(* What a goroutine uses.                                                  *)

SharedTemplate(t, a) == a = Global("main") /\ SharesTemplate(prog, t)

\* A goroutine writes its own maps, the outputs as long as it does not wait.
MayWrite(t, a) ==
    \/ \E k \in Kinds \ {"outs"} : IsAddress(a, t, k)
    \/ /\ IsAddress(a, t, "outs") /\ HoldsOuts(threads[t], a)
       /\ threads[t].dir # "waiting"
    \/ SharedTemplate(t, a)

\* It reads its own maps and what the records of steps refer to.
MayUse(t, a) ==
    \/ \E k \in Kinds : IsAddress(a, t, k)
    \/ SharedTemplate(t, a)
    \/ a = Nil
    \/ RecordOf(a, t, DOMAIN heap, threads)

Merging(d) == {d[k] : k \in Kinds \ {"outs"}} \ {Nil}

LEMMA WritesCases ==
    ASSUME NEW t, NEW a \in Writes(t)
    PROVE \/ At(t, "down", Proc(t)) /\ Proc(t) \in VarMaps /\ a = Ctx(t)[Proc(t)]
          \/ /\ At(t, "down", "template")
             /\ a = IF Ctx(t).template = Nil THEN Global(Frame(t).step) ELSE Ctx(t).template
          \/ At(t, "up", "outputs") /\ a = Ctx(t).outs
          \/ At(t, "up", "result") /\ a = Ctx(t).steps
          \/ At(t, "running", "run") /\ a = Ctx(t).containers
          \/ At(t, "up", "needs") /\ Saved(t, "needs").next > 0 /\ a \in Merging(Saved(t, "needs").ctx)
          \/ At(t, "waiting", "concurrent") /\ a \in Merging(Ctx(t))
          \/ At(t, "up", "inherit") /\ Saved(t, "inherit").called /\ a = Saved(t, "inherit").ctx.outs
  BY DEF Writes, At, Merging

LEMMA ReadsCases ==
    ASSUME NEW t, NEW a \in Reads(t)
    PROVE /\ threads[t].dir = "down"
          /\ \/ \E k \in Maps : a = Ctx(t)[k]
             \/ a = Ctx(t).template
             \/ \E s \in DOMAIN heap[Ctx(t).steps] : a = heap[Ctx(t).steps][s].outs
<1>1. ASSUME a \in Snapshot(Ctx(t))
      PROVE \/ \E k \in Maps : a = Ctx(t)[k]
            \/ \E s \in DOMAIN heap[Ctx(t).steps] : a = heap[Ctx(t).steps][s].outs
  BY <1>1 DEF Snapshot
<1>2. ASSUME a \in {Ctx(t)[k] : k \in Kinds}
      PROVE (\E k \in Maps : a = Ctx(t)[k]) \/ a = Ctx(t).template
  BY <1>2 DEF Kinds
<1>3. /\ threads[t].dir = "down"
      /\ a \in Snapshot(Ctx(t)) \/ a \in {Ctx(t)[k] : k \in Kinds} \/ a = Ctx(t).template
  BY DEF Reads, At
<1> QED BY <1>1, <1>2, <1>3

LEMMA MergingOwn ==
    ASSUME NEW t, NEW d, OwnMaps(t, d, DOMAIN heap), OwnTemplate(prog, t, d.template),
           NEW a \in Merging(d)
    PROVE MayWrite(t, a)
<1>1. PICK k \in Kinds \ {"outs"} : a = d[k]
  BY DEF Merging
<1>2. CASE k = "template"
  BY <1>1, <1>2 DEF OwnTemplate, MayWrite, SharedTemplate
<1>3. CASE k # "template"
  <2>1. k \in Maps
    BY <1>1, <1>3 DEF Kinds
  <2> QED BY <1>1, <2>1 DEF OwnMaps, MayWrite
<1> QED BY <1>2, <1>3

LEMMA WritesOwn ==
    ASSUME Shape, MapsInv, NEW t \in DOMAIN threads, NEW a \in Writes(t) \cup Collects(t)
    PROVE MayWrite(t, a)
<1> DEFINE th == threads[t]
<1>0. /\ Ctx(t) \in Held(th) /\ OwnMaps(t, Ctx(t), DOMAIN heap)
      /\ \A k \in Maps : k # "outs" => MayWrite(t, Ctx(t)[k])
  <2>1. Ctx(t) \in Held(th) /\ OwnMaps(t, Ctx(t), DOMAIN heap)
    BY MapsOf
  <2>2. Maps \subseteq Kinds
    BY KindsFinite
  <2> QED BY <2>1, <2>2 DEF OwnMaps, MayWrite
<1>1. ASSUME NEW p \in {"needs", "inherit"}, th.dir = "up", Proc(t) = p, Foreign(p, Saved(t, p))
      PROVE /\ Saved(t, p).ctx \in Held(th)
            /\ OwnMaps(t, Saved(t, p).ctx, DOMAIN heap)
            /\ OwnTemplate(prog, t, Saved(t, p).ctx.template)
  <2> DEFINE v == Saved(t, p)
  <2>1. p \in DOMAIN Frame(t).saved
    BY <1>1, SavedShape
  <2>2. Holds(p, v) \subseteq Held(th) /\ Keeps(t, p, v) /\ HeldOwn(t, th, DOMAIN heap)
    BY <1>1, <2>1, MapsOf
  <2>3. Foreign(p, v)
    BY <1>1
  <2> HIDE DEF v
  <2>4. v.ctx \in Held(th) /\ OwnTemplate(prog, t, v.ctx.template)
    BY <1>1, <2>2, <2>3 DEF Holds, Keeps, KeptTemplate
  <2> QED BY <2>2, <2>4 DEF HeldOwn, v
<1>2. CASE At(t, "down", Proc(t)) /\ Proc(t) \in VarMaps /\ a = Ctx(t)[Proc(t)]
  BY <1>0, <1>2 DEF VarMaps, Maps
<1>3. CASE /\ At(t, "down", "template")
           /\ a = IF Ctx(t).template = Nil THEN Global(Frame(t).step) ELSE Ctx(t).template
  <2>1. th.dir # "done"
    BY <1>3 DEF At
  <2>2. TemplateOf(prog, t, Ctx(t).template, Len(th.stack), Frame(t).step)
    BY <2>1, MapsOf DEF Fits, TopTemplate
  <2>3. CASE Ctx(t).template = Nil
    BY <1>3, <2>2, <2>3, AddressesDiffer DEF TemplateOf, MayWrite, SharedTemplate
  <2>4. CASE Ctx(t).template # Nil
    BY <1>3, <2>2, <2>4 DEF TemplateOf, MayWrite, SharedTemplate, Kinds
  <2> QED BY <2>3, <2>4
<1>4. CASE At(t, "up", "outputs") /\ a = Ctx(t).outs
  BY <1>0, <1>4 DEF At, OwnMaps, Maps, MayWrite, HoldsOuts
<1>5. CASE At(t, "up", "result") /\ a = Ctx(t).steps
  BY <1>0, <1>5 DEF Maps
<1>6. CASE At(t, "running", "run") /\ a = Ctx(t).containers
  BY <1>0, <1>6 DEF Maps
<1>7. CASE /\ At(t, "up", "needs") /\ Saved(t, "needs").next > 0
           /\ a \in Merging(Saved(t, "needs").ctx)
  <2>1. th.dir = "up" /\ Proc(t) = "needs" /\ Foreign("needs", Saved(t, "needs"))
    BY <1>7 DEF At, Foreign
  <2> QED BY <1>1, <1>7, <2>1, MergingOwn
<1>8. CASE At(t, "waiting", "concurrent") /\ a \in Merging(Ctx(t))
  <2>1. th.dir # "done" /\ Proc(t) = "concurrent"
    BY <1>8 DEF At
  <2>2. OwnTemplate(prog, t, Ctx(t).template)
    BY <2>1, BelowTemplate
  <2> QED BY <1>0, <1>8, <2>2, MergingOwn
<1>9. CASE /\ At(t, "up", "inherit") /\ Saved(t, "inherit").called
           /\ a = Saved(t, "inherit").ctx.outs
  <2>1. th.dir = "up" /\ Proc(t) = "inherit" /\ Foreign("inherit", Saved(t, "inherit"))
    BY <1>9 DEF At, Foreign
  <2>2. /\ Saved(t, "inherit").ctx \in Held(th)
        /\ OwnMaps(t, Saved(t, "inherit").ctx, DOMAIN heap)
    BY <1>1, <2>1
  <2> QED BY <1>9, <2>1, <2>2 DEF OwnMaps, Maps, MayWrite, HoldsOuts
<1>10. CASE a \in Collects(t)
  <2>1. a = Ctx(t).steps
    BY <1>10 DEF Collects
  <2> QED BY <1>0, <2>1 DEF Maps
<1> QED BY <1>2, <1>3, <1>4, <1>5, <1>6, <1>7, <1>8, <1>9, <1>10, WritesCases

LEMMA UsesOwn ==
    ASSUME Shape, MapsInv, NEW t \in DOMAIN threads,
           NEW a \in Reads(t) \cup Writes(t) \cup Collects(t)
    PROVE MayUse(t, a)
<1> DEFINE c == Ctx(t)
<1>1. OwnMaps(t, c, DOMAIN heap)
  BY MapsOf
<1>2. CASE a \in Writes(t) \cup Collects(t)
  <2>1. MayWrite(t, a)
    BY <1>2, WritesOwn
  <2> QED BY <2>1 DEF MayWrite, MayUse, Kinds, Maps
<1>3. CASE a \in Reads(t)
  <2>1. /\ threads[t].dir = "down"
        /\ \/ \E k \in Maps : a = c[k]
           \/ a = c.template
           \/ \E s \in DOMAIN heap[c.steps] : a = heap[c.steps][s].outs
    BY <1>3, ReadsCases
  <2>2. CASE \E k \in Maps : a = c[k]
    BY <1>1, <2>2, KindsFinite DEF OwnMaps, MayUse
  <2>3. CASE a = c.template
    <3>1. TemplateOf(prog, t, c.template, Len(threads[t].stack), Frame(t).step)
      BY <2>1, MapsOf DEF Fits, TopTemplate
    <3> QED BY <2>3, <3>1 DEF TemplateOf, MayUse, SharedTemplate, Kinds
  <2>4. CASE \E s \in DOMAIN heap[c.steps] : a = heap[c.steps][s].outs
    <3>1. PICK s \in DOMAIN heap[c.steps] : a = heap[c.steps][s].outs
      BY <2>4
    <3>2. IsSteps(c.steps) /\ c.steps[1] = t /\ c.steps \in DOMAIN heap
      BY <1>1, NotSteps DEF OwnMaps, Maps
    <3>3. RecordOf(a, t, DOMAIN heap, threads)
      BY <3>1, <3>2 DEF MapsInv, RecordsOf
    <3> QED BY <3>3 DEF MayUse
  <2> HIDE DEF c
  <2> QED BY <2>1, <2>2, <2>3, <2>4
<1> QED BY <1>2, <1>3

LEMMA UsedByOne == Shape /\ MapsInv => MapsOwned
<1> SUFFICES ASSUME Shape, MapsInv, NEW t \in DOMAIN threads, NEW u \in DOMAIN threads, t # u,
                    NEW a \in Writes(t) \cup Collects(t),
                    a \in Reads(u) \cup Writes(u) \cup Collects(u)
             PROVE a \in Shared
  BY DEF MapsOwned
<1>1. MayWrite(t, a) /\ MayUse(u, a)
  BY WritesOwn, UsesOwn
<1>2. ASSUME SharedTemplate(t, a), SharedTemplate(u, a)
      PROVE a \in Shared
  BY <1>2 DEF SharedTemplate, SharesTemplate, Shared
<1>3. ASSUME RecordOf(a, u, DOMAIN heap, threads), HoldsOuts(threads[t], a)
      PROVE threads[t].dir = "waiting"
  <2>1. Prefix(t, u) /\ IsSeq(t) /\ IsSeq(u)
    BY <1>3 DEF RecordOf, Shape
  <2>2. t = SubSeq(u, 1, Len(t)) /\ Len(t) \in 0 .. Len(u) - 1
    BY <2>1, PrefixIs
  <2> QED BY <2>2 DEF MapsInv, WaitsFor
<1>4. ~SharedTemplate(u, a) \/ SharedTemplate(t, a)
  BY <1>1, AddressesDiffer DEF MayWrite, SharedTemplate, Kinds, Maps
<1>5. a # Nil
  BY <1>1, AddressesDiffer DEF MayWrite, SharedTemplate
<1>6. ~(\E k \in Kinds : IsAddress(a, u, k))
  <2> SUFFICES ASSUME NEW k \in Kinds, IsAddress(a, u, k) PROVE FALSE
    OBVIOUS
  <2>1. \A j : ~IsAddress(a, t, j)
    BY AddressesDiffer
  <2>2. a # Global("main")
    BY AddressesDiffer
  <2> QED BY <1>1, <2>1, <2>2 DEF MayWrite, SharedTemplate
<1>7. CASE RecordOf(a, u, DOMAIN heap, threads)
  <2>1. a[2] = "outs"
    BY <1>7 DEF RecordOf
  <2>2. \A k : IsAddress(a, t, k) => k = "outs"
    BY <2>1 DEF IsAddress
  <2>3. Global("main")[2] = "global"
    BY DEF Global
  <2>4. IsAddress(a, t, "outs") /\ HoldsOuts(threads[t], a) /\ threads[t].dir # "waiting"
    BY <1>1, <2>1, <2>2, <2>3 DEF MayWrite, SharedTemplate
  <2> QED BY <1>3, <1>7, <2>4
<1> QED BY <1>1, <1>2, <1>4, <1>5, <1>6, <1>7 DEF MayUse

-----------------------------------------------------------------------------
(* Theorems.                                                               *)

\* Every context that a goroutine holds has maps of that goroutine alone, and
\* below its template processor a template of its own, but for an outermost
\* matrix; the outputs that a record of a step refers to are those of a goroutine
\* that is over, of the one that finds the record or of one that waits for it
\* (context.go:77, DeepCopy; concurrent.go, matrix.go and inherit.go, which call it).
THEOREM MapsInvariant == Spec => [](Shape /\ MapsInv)
<1>1. Init => Shape /\ MapsInv
  BY InitShape, InitMaps
<1>2. Shape /\ MapsInv /\ [Next]_vars => (Shape /\ MapsInv)'
  BY NextShape, NextMaps
<1> QED BY <1>1, <1>2, PTL DEF Spec

\* Two goroutines never use one map at the same time if one of them writes it,
\* but for the outputs that a matrix step collects and the template of an
\* outermost matrix (context.go:77), in every pipeline.
THEOREM ChainMapsOwned == Spec => []MapsOwned
<1>1. Shape /\ MapsInv => MapsOwned
  BY UsedByOne
<1> QED BY <1>1, MapsInvariant, PTL

-----------------------------------------------------------------------------
(* The names of instances.                                                 *)

\* What the namespace of the goroutines below the one of th begins with.
Branch(th, x) == IF Top(th).at = "matrix" THEN Append(th.ctx.ns, x) ELSE th.ctx.ns

\* Name n tells thread t from those of every other instance of the matrices above it.
Rooted(ths, t, n) ==
    /\ IsSeq(n)
    /\ \A i \in 0 .. Len(t) - 1 :
          /\ IsSeq(ths[SubSeq(t, 1, i)].ctx.ns)
          /\ Prefix(Branch(ths[SubSeq(t, 1, i)], t[i + 1]), n)

\* The context has not lost its namespace: that and the name of its step are rooted;
\* the latter not yet where a goroutine begins, with the name of the step above.
Named(ths, t, c) == c.whole => Rooted(ths, t, c.ns) /\ Rooted(ths, t, c.uname)

NamesOf(ths, t, c, i) ==
    c.whole => Rooted(ths, t, c.ns) /\ (i # 1 => Rooted(ths, t, c.uname))

TopNames(ths, t, c, i, saved) ==
    /\ NamesOf(ths, t, c, i)
    /\ "result" \in saved => Named(ths, t, c)

\* What processor p of the i-th frame has kept.
KeptNames(ths, t, p, v, i) ==
    /\ p = "recover" => NamesOf(ths, t, v, i)
    /\ p \in {"needs", "inherit"} /\ Foreign(p, v) => Named(ths, t, v.ctx)

FrameNames(ths, t, f, i) ==
    \A p \in DOMAIN f.saved : KeptNames(ths, t, p, f.saved[p], i)

ThreadNames(ths, t, th) ==
    th.dir # "done" =>
        /\ \A i \in 1 .. Len(th.stack) : FrameNames(ths, t, th.stack[i], i)
        /\ TopNames(ths, t, th.ctx, Len(th.stack), DOMAIN Top(th).saved)

NamesInv == \A t \in DOMAIN threads : ThreadNames(threads, t, threads[t])

LEMMA NamesFacts ==
    ASSUME NEW ths, NEW t, NEW c
    PROVE /\ \A i : Named(ths, t, c) => NamesOf(ths, t, c, i)
          /\ \A i : NamesOf(ths, t, c, i) /\ i # 1 => Named(ths, t, c)
          /\ \A i, saved : Named(ths, t, c) => TopNames(ths, t, c, i, saved)
  BY DEF Named, NamesOf, TopNames

\* The goroutines above go on waiting, where they were and in their namespaces.
LEMMA RootsAlike ==
    ASSUME NEW a, NEW b, NEW t,
           \A i \in 0 .. Len(t) - 1 :
              /\ b[SubSeq(t, 1, i)].ctx.ns = a[SubSeq(t, 1, i)].ctx.ns
              /\ Top(b[SubSeq(t, 1, i)]).at = Top(a[SubSeq(t, 1, i)]).at
    PROVE \A th : ThreadNames(a, t, th) => ThreadNames(b, t, th)
<1>1. \A n : Rooted(a, t, n) => Rooted(b, t, n)
  BY DEF Rooted, Branch
<1>2. \A c : Named(a, t, c) => Named(b, t, c)
  BY <1>1 DEF Named
<1>3. \A c, i : NamesOf(a, t, c, i) => NamesOf(b, t, c, i)
  BY <1>1 DEF NamesOf
<1>4. \A c, i, saved : TopNames(a, t, c, i, saved) => TopNames(b, t, c, i, saved)
  BY <1>2, <1>3 DEF TopNames
<1>5. \A p, v, i : KeptNames(a, t, p, v, i) => KeptNames(b, t, p, v, i)
  BY <1>2, <1>3 DEF KeptNames
<1>6. \A f, i : FrameNames(a, t, f, i) => FrameNames(b, t, f, i)
  BY <1>5 DEF FrameNames
<1> QED BY <1>4, <1>6 DEF ThreadNames

LEMMA RootsStay ==
    ASSUME NEW a, NEW b, NEW t,
           \A i \in 0 .. Len(t) - 1 : b[SubSeq(t, 1, i)] = a[SubSeq(t, 1, i)]
    PROVE \A th : ThreadNames(a, t, th) => ThreadNames(b, t, th)
  BY RootsAlike

\* The frame on top has changed, and the context.
LEMMA NamesMoved ==
    ASSUME NEW t, NEW th, ThreadShape(prog, th), ThreadNames(threads, t, th), th.dir # "done",
           NEW new, Len(new.stack) = Len(th.stack),
           \A i \in 1 .. Len(th.stack) - 1 : new.stack[i] = th.stack[i],
           FrameNames(threads, t, Top(new), Len(th.stack)),
           TopNames(threads, t, new.ctx, Len(th.stack), DOMAIN Top(new).saved)
    PROVE ThreadNames(threads, t, new)
<1>0. Len(th.stack) > 0 /\ Len(th.stack) \in Nat
  BY FramesOf
<1>1. \A i \in 1 .. Len(th.stack) : FrameNames(threads, t, th.stack[i], i)
  BY DEF ThreadNames
<1>2. ASSUME NEW i \in 1 .. Len(new.stack)
      PROVE FrameNames(threads, t, new.stack[i], i)
  <2>1. CASE i = Len(th.stack)
    BY <2>1 DEF Top
  <2>2. CASE i # Len(th.stack)
    <3>1. i \in 1 .. Len(th.stack) - 1 /\ i \in 1 .. Len(th.stack)
      BY <1>0, <2>2
    <3> QED BY <1>1, <3>1
  <2> QED BY <2>1, <2>2
<1> QED BY <1>2 DEF ThreadNames

LEMMA NamesHere ==
    ASSUME NEW t, NEW th, ThreadShape(prog, th), ThreadNames(threads, t, th), th.dir # "done"
    PROVE /\ FrameNames(threads, t, Top(th), Len(th.stack))
          /\ TopNames(threads, t, th.ctx, Len(th.stack), DOMAIN Top(th).saved)
<1>1. Len(th.stack) \in 1 .. Len(th.stack)
  BY FramesOf
<1> QED BY <1>1 DEF ThreadNames, Top

LEMMA OnwardNames ==
    ASSUME NEW t, NEW th, ThreadShape(prog, th), ThreadNames(threads, t, th), th.dir # "done",
           NEW old, NEW f, NEW v,
           old.stack = th.stack, old.path = th.path, DOMAIN old = ThreadFields,
           IsContext(old.ctx), old.dir = "down",
           FrameShape(prog, f), SameFrame(f, Top(th)), f.at # "end", Kept(f.at, v),
           KeptNames(threads, t, f.at, v, Len(th.stack)),
           TopNames(threads, t, old.ctx, Len(th.stack), DOMAIN f.saved \cup {f.at})
    PROVE ThreadNames(threads, t, SetTop(old, Onward(Keep(f, v))))
<1> DEFINE g == Onward(Keep(f, v))
           new == SetTop(old, g)
           n == Len(th.stack)
<1>1. /\ Top(new) = g
      /\ Len(new.stack) = Len(th.stack)
      /\ \A i \in 1 .. Len(th.stack) - 1 : new.stack[i] = th.stack[i]
      /\ new.ctx = old.ctx
  BY OnwardShape DEF SameFrame
<1>2. /\ g.step = f.step /\ g.saved = Keep(f, v).saved
      /\ DOMAIN g.saved = DOMAIN f.saved \cup {f.at} /\ g.saved[f.at] = v
      /\ \A p \in DOMAIN f.saved \ {f.at} : g.saved[p] = f.saved[p]
  <2>1. DOMAIN f = FrameFields
    BY DEF FrameShape, FrameFields
  <2>2. g.step = Keep(f, v).step /\ g.saved = Keep(f, v).saved
    BY <2>1, KeepType DEF Onward, FrameFields
  <2> QED BY <2>1, <2>2, KeepType
<1>3. FrameNames(threads, t, f, n)
  BY NamesHere DEF FrameNames, SameFrame
<1> HIDE DEF g, n, new
<1>4. FrameNames(threads, t, g, n)
  BY <1>2, <1>3 DEF FrameNames, n
<1>5. TopNames(threads, t, new.ctx, n, DOMAIN g.saved)
  BY <1>1, <1>2 DEF n
<1>6. ThreadNames(threads, t, new)
  BY <1>1, <1>4, <1>5, NamesMoved DEF n
<1> QED BY <1>6 DEF new, g

LEMMA BackNames ==
    ASSUME NEW t, NEW th, ThreadShape(prog, th), ThreadNames(threads, t, th), th.dir # "done",
           Top(th).at # "recover", NEW c, IsContext(c), NEW e,
           TopNames(threads, t, c, Len(th.stack), DOMAIN Top(th).saved \ {Top(th).at})
    PROVE ThreadNames(threads, t, Returned(th, c, e))
<1> DEFINE f == Top(th)
           g == [Drop(f) EXCEPT !.at = Outer(prog[f.step], @)]
           new == Returned(th, c, e)
           n == Len(th.stack)
<1>1. /\ Top(new) = g
      /\ Len(new.stack) = Len(th.stack)
      /\ \A i \in 1 .. Len(th.stack) - 1 : new.stack[i] = th.stack[i]
      /\ new.ctx = c
  BY ReturnedInside
<1>2. /\ g.step = f.step /\ DOMAIN g.saved = DOMAIN f.saved \ {f.at}
      /\ \A p \in DOMAIN g.saved : g.saved[p] = f.saved[p]
  <2>1. DOMAIN f = FrameFields
    BY FramesOf
  <2>2. g.step = Drop(f).step /\ g.saved = Drop(f).saved
    BY <2>1, DropType DEF FrameFields
  <2> HIDE DEF g
  <2> QED BY <2>1, <2>2, DropType
<1>3. FrameNames(threads, t, f, n)
  BY NamesHere
<1> HIDE DEF g, n, new
<1>4. FrameNames(threads, t, g, n)
  BY <1>2, <1>3 DEF FrameNames
<1>5. TopNames(threads, t, new.ctx, n, DOMAIN g.saved)
  BY <1>1, <1>2 DEF n
<1>6. ThreadNames(threads, t, new)
  BY <1>1, <1>4, <1>5, NamesMoved DEF n
<1> QED BY <1>6 DEF new

\* The step is over.
LEMMA OutNames ==
    ASSUME NEW t, NEW th, ThreadShape(prog, th), ThreadNames(threads, t, th), th.dir # "done",
           NEW new, NEW c, NamesOf(threads, t, c, Len(th.stack)),
           new.ctx = c,
           \/ new.dir = "done"
           \/ /\ Len(th.stack) # 1
              /\ Len(new.stack) = Len(th.stack) - 1
              /\ \A i \in 1 .. Len(th.stack) - 1 : new.stack[i] = th.stack[i]
    PROVE ThreadNames(threads, t, new)
<1>1. CASE new.dir = "done"
  BY <1>1 DEF ThreadNames
<1>2. CASE /\ Len(th.stack) # 1
           /\ Len(new.stack) = Len(th.stack) - 1
           /\ \A i \in 1 .. Len(th.stack) - 1 : new.stack[i] = th.stack[i]
  <2>0. Len(th.stack) > 0 /\ Len(th.stack) \in Nat
    BY FramesOf
  <2>1. \A i \in 1 .. Len(new.stack) : FrameNames(threads, t, new.stack[i], i)
    <3>1. \A i \in 1 .. Len(new.stack) : new.stack[i] = th.stack[i] /\ i \in 1 .. Len(th.stack)
      BY <1>2, <2>0
    <3> QED BY <3>1 DEF ThreadNames
  <2>2. Named(threads, t, new.ctx)
    BY <1>2, NamesFacts
  <2>3. TopNames(threads, t, new.ctx, Len(new.stack), DOMAIN Top(new).saved)
    BY <2>2, NamesFacts
  <2> QED BY <2>1, <2>3 DEF ThreadNames
<1> QED BY <1>1, <1>2

LEMMA LastNames ==
    ASSUME NEW t, NEW th, ThreadShape(prog, th), ThreadNames(threads, t, th), th.dir # "done",
           Top(th).at = "recover", NEW e
    PROVE ThreadNames(threads, t, Returned(th, th.ctx, e))
<1> DEFINE c == th.ctx
           new == Returned(th, c, e)
<1>1. /\ DOMAIN th = ThreadFields /\ IsSeq(th.stack) /\ IsContext(c)
  BY FramesOf
<1>2. /\ new.ctx = c
      /\ \/ new.dir = "done"
         \/ /\ Len(th.stack) # 1
            /\ Len(new.stack) = Len(th.stack) - 1
            /\ \A i \in 1 .. Len(th.stack) - 1 : new.stack[i] = th.stack[i]
  BY <1>1, ReturnedOut
<1>3. NamesOf(threads, t, c, Len(th.stack))
  BY NamesHere DEF TopNames
<1> HIDE DEF new
<1>4. ThreadNames(threads, t, new)
  BY <1>2, <1>3, OutNames
<1> QED BY <1>4 DEF new

LEMMA PanickedNames ==
    ASSUME NEW t, NEW th, ThreadShape(prog, th), ThreadNames(threads, t, th), th.dir # "done",
           "recover" \in DOMAIN Top(th).saved
    PROVE ThreadNames(threads, t, Panicked(th))
<1> DEFINE c == Top(th).saved["recover"]
           new == Panicked(th)
<1>2. /\ new.ctx = c
      /\ \/ new.dir = "done"
         \/ /\ Len(th.stack) # 1
            /\ Len(new.stack) = Len(th.stack) - 1
            /\ \A i \in 1 .. Len(th.stack) - 1 : new.stack[i] = th.stack[i]
  BY PanickedShape
<1>3. NamesOf(threads, t, c, Len(th.stack))
  BY NamesHere DEF FrameNames, KeptNames
<1> HIDE DEF new, c
<1>4. ThreadNames(threads, t, new)
  BY <1>2, <1>3, OutNames
<1> QED BY <1>4 DEF new

LEMMA CalledNames ==
    ASSUME NEW t, NEW th, ThreadShape(prog, th), ThreadNames(threads, t, th), th.dir # "done",
           NEW v, Kept(Top(th).at, v), CalledFrom(Top(th).at, v),
           NEW s \in DOMAIN prog, NEW c, IsContext(c), NEW h,
           KeptNames(threads, t, Top(th).at, v, Len(th.stack)),
           Named(threads, t, c)
    PROVE ThreadNames(threads, t, Called(th, s, c, h, v))
<1> DEFINE new == Called(th, s, c, h, v)
<1>1. /\ Len(new.stack) = Len(th.stack) + 1
      /\ SameUpTo(new.stack, th.stack, Len(th.stack) - 1)
      /\ new.stack[Len(th.stack)] = Keep(Top(th), v)
      /\ Top(new) = NewFrame(s, c, h)
      /\ new.ctx = c
  BY CalledFrames
<1> HIDE DEF new
<1> DEFINE f == Top(th)
           k == Keep(f, v)
           n == Len(th.stack)
<1>0. n > 0 /\ n \in Nat /\ DOMAIN f = FrameFields
  BY FramesOf
<1>2. FrameNames(threads, t, NewFrame(s, c, h), n + 1)
  BY DEF FrameNames, NewFrame, EmptyMap
<1>3. FrameNames(threads, t, k, n)
  <2>1. FrameNames(threads, t, f, n)
    BY NamesHere
  <2>2. /\ k.step = f.step /\ k.at = f.at
        /\ DOMAIN k.saved = DOMAIN f.saved \cup {f.at} /\ k.saved[f.at] = v
        /\ \A p \in DOMAIN f.saved \ {f.at} : k.saved[p] = f.saved[p]
    BY <1>0, KeepType
  <2> HIDE DEF k
  <2> QED BY <2>1, <2>2 DEF FrameNames
<1> HIDE DEF k, f
<1>4. ASSUME NEW i \in 1 .. Len(new.stack)
      PROVE FrameNames(threads, t, new.stack[i], i)
  <2>1. CASE i = n + 1
    BY <1>1, <1>2, <2>1 DEF Top
  <2>2. CASE i = n
    BY <1>1, <1>3, <2>2 DEF k, f
  <2>3. CASE i # n + 1 /\ i # n
    <3>1. i \in 1 .. n - 1 /\ i \in 1 .. n
      BY <1>0, <1>1, <2>3
    <3> QED BY <1>1, <3>1 DEF ThreadNames, SameUpTo
  <2> QED BY <2>1, <2>2, <2>3
<1>5. TopNames(threads, t, new.ctx, Len(new.stack), DOMAIN Top(new).saved)
  BY <1>1, NamesFacts
<1>6. ThreadNames(threads, t, new)
  BY <1>4, <1>5 DEF ThreadNames
<1> QED BY <1>6 DEF new

\* The history of the frame on top changes.
LEMMA TouchedNames ==
    ASSUME NEW t, NEW th, ThreadShape(prog, th), ThreadNames(threads, t, th), th.dir # "done",
           NEW f, FrameShape(prog, f), SameFrame(f, Top(th))
    PROVE ThreadNames(threads, t, SetTop(th, f))
<1> DEFINE new == SetTop(th, f)
<1>1. DOMAIN th = ThreadFields /\ IsContext(th.ctx) /\ th.dir \in Directions \ {"done"}
  BY DEF ThreadShape, ThreadType
<1>2. TopShape(prog, f, th.dir)
  <2>1. TopShape(prog, Top(th), th.dir)
    BY FramesOf
  <2> QED BY <2>1 DEF TopShape, SameFrame
<1>3. /\ Top(new) = f
      /\ Len(new.stack) = Len(th.stack)
      /\ \A i \in 1 .. Len(th.stack) - 1 : new.stack[i] = th.stack[i]
      /\ new.ctx = th.ctx
  BY <1>1, <1>2, TopMoved
<1> HIDE DEF new
<1>4. /\ FrameNames(threads, t, Top(th), Len(th.stack))
      /\ TopNames(threads, t, th.ctx, Len(th.stack), DOMAIN Top(th).saved)
  BY NamesHere
<1>5. /\ FrameNames(threads, t, Top(new), Len(th.stack))
      /\ TopNames(threads, t, new.ctx, Len(th.stack), DOMAIN Top(new).saved)
  BY <1>3, <1>4 DEF FrameNames, SameFrame
<1>6. ThreadNames(threads, t, new)
  BY <1>3, <1>5, NamesMoved
<1> QED BY <1>6 DEF new

-----------------------------------------------------------------------------
(* A goroutine moves, and its names.                                       *)

NamesNext == \A u \in DOMAIN threads' : ThreadNames(threads', u, threads'[u])

NamesFit(t, c, saved) == TopNames(threads, t, c, Len(threads[t].stack), saved)
NamesKept(t, p, v) == KeptNames(threads, t, p, v, Len(threads[t].stack))

\* One that does not wait is above no other.
LEMMA OneNames ==
    ASSUME MapsInv, NamesInv, NEW t \in DOMAIN threads, threads[t].dir # "waiting",
           NEW new, ThreadNames(threads, t, new), threads' = [threads EXCEPT ![t] = new]
    PROVE NamesNext
<1>1. /\ DOMAIN threads' = DOMAIN threads /\ threads'[t] = new
      /\ \A u \in DOMAIN threads : u # t => threads'[u] = threads[u]
  OBVIOUS
<1>2. ASSUME NEW u \in DOMAIN threads'
      PROVE ThreadNames(threads', u, threads'[u])
  <2>1. WaitsFor(threads, u)
    BY <1>1 DEF MapsInv
  <2>2. \A i \in 0 .. Len(u) - 1 : threads'[SubSeq(u, 1, i)] = threads[SubSeq(u, 1, i)]
    <3> TAKE i \in 0 .. Len(u) - 1
    <3>1. SubSeq(u, 1, i) \in DOMAIN threads /\ threads[SubSeq(u, 1, i)].dir = "waiting"
      BY <2>1 DEF WaitsFor
    <3> QED BY <1>1, <3>1
  <2>3. ThreadNames(threads, u, threads'[u])
    BY <1>1 DEF NamesInv
  <2> QED BY <2>2, <2>3, RootsStay
<1> QED BY <1>2 DEF NamesNext

LEMMA NamesThere ==
    ASSUME Shape, NamesInv, NEW t \in DOMAIN threads
    PROVE /\ ThreadShape(prog, threads[t]) /\ ThreadNames(threads, t, threads[t])
          /\ threads[t].dir # "done" =>
                /\ NamesFit(t, Ctx(t), DOMAIN Frame(t).saved)
                /\ \A p \in DOMAIN Frame(t).saved : NamesKept(t, p, Saved(t, p))
<1> DEFINE th == threads[t]
<1>1. ThreadShape(prog, th) /\ ThreadNames(threads, t, th)
  BY DEF Shape, NamesInv
<1>2. ASSUME th.dir # "done"
      PROVE /\ NamesFit(t, Ctx(t), DOMAIN Frame(t).saved)
            /\ \A p \in DOMAIN Frame(t).saved : NamesKept(t, p, Saved(t, p))
  <2>1. /\ FrameNames(threads, t, Top(th), Len(th.stack))
        /\ TopNames(threads, t, th.ctx, Len(th.stack), DOMAIN Top(th).saved)
    BY <1>1, <1>2, NamesHere
  <2> QED BY <2>1 DEF FrameNames, NamesFit, NamesKept, Ctx, Frame, Saved
<1> QED BY <1>1, <1>2

\* Contexts with the same names.
SameNames(c, d) == c.ns = d.ns /\ c.uname = d.uname /\ c.whole = d.whole

LEMMA NamesFitting ==
    ASSUME NEW t, NEW c, NEW saved, NamesFit(t, c, saved)
    PROVE /\ \A p : p # "result" => NamesFit(t, c, saved \cup {p})
          /\ \A p : NamesFit(t, c, saved \ {p})
          /\ "result" \in saved => Named(threads, t, c)
          /\ \A d : SameNames(d, c) => NamesFit(t, d, saved)
          /\ \A d : ~d.whole => \A s : NamesFit(t, d, s)
<1>1. \A d : SameNames(d, c) => NamesFit(t, d, saved)
  BY DEF NamesFit, TopNames, NamesOf, Named, SameNames
<1>2. \A d : ~d.whole => \A s : NamesFit(t, d, s)
  BY DEF NamesFit, TopNames, NamesOf, Named
<1>3. "result" \in saved => Named(threads, t, c)
  BY DEF NamesFit, TopNames
<1>4. \A p : p # "result" => NamesFit(t, c, saved \cup {p})
  BY DEF NamesFit, TopNames
<1>5. \A p : NamesFit(t, c, saved \ {p})
  BY DEF NamesFit, TopNames
<1> QED BY <1>1, <1>2, <1>3, <1>4, <1>5

\* Processors that keep no context that is looked at again.
Nameless(p, v) == p # "recover" /\ ~(p \in {"needs", "inherit"} /\ Foreign(p, v))

LEMMA ForwardNames ==
    ASSUME Shape, MapsInv, NamesInv, NEW t \in DOMAIN threads,
           threads[t].dir = "down", Proc(t) # "end",
           NEW c, IsContext(c), NEW v, Kept(Proc(t), v), Forward(t, c, v),
           NamesKept(t, Proc(t), v), NamesFit(t, c, DOMAIN Frame(t).saved \cup {Proc(t)})
    PROVE NamesNext
<1> DEFINE th == threads[t]
           f == Top(th)
           old == [th EXCEPT !.ctx = c]
           new == SetTop(old, Onward(Keep(f, v)))
<1>1. ThreadShape(prog, th) /\ ThreadNames(threads, t, th)
  BY NamesThere
<1>2. /\ old.stack = th.stack /\ old.path = th.path /\ DOMAIN old = ThreadFields
      /\ old.ctx = c /\ old.dir = "down" /\ FrameShape(prog, f)
  BY <1>1 DEF ThreadShape, ThreadType, ThreadFields
<1>3. Top(old) = f
  BY <1>2 DEF Top
<1>4. threads' = [threads EXCEPT ![t] = new]
  BY <1>3 DEF Forward
<1>5. /\ SameFrame(f, Top(th)) /\ th.dir # "done" /\ th.dir # "waiting"
      /\ f.at = Proc(t) /\ f = Frame(t)
  BY DEF SameFrame, Proc, Frame
<1>6. /\ KeptNames(threads, t, f.at, v, Len(th.stack))
      /\ TopNames(threads, t, c, Len(th.stack), DOMAIN f.saved \cup {f.at})
  BY <1>5 DEF NamesKept, NamesFit
<1> HIDE DEF old, f
<1>7. /\ TopNames(threads, t, old.ctx, Len(th.stack), DOMAIN f.saved \cup {f.at})
      /\ IsContext(old.ctx) /\ Kept(f.at, v) /\ f.at # "end"
  BY <1>2, <1>5, <1>6
<1>8. ThreadNames(threads, t, new)
  BY <1>1, <1>2, <1>5, <1>6, <1>7, OnwardNames
<1> HIDE DEF new
<1> QED BY <1>4, <1>5, <1>8, OneNames

LEMMA ForwardNameless ==
    ASSUME Shape, MapsInv, NamesInv, NEW t \in DOMAIN threads,
           threads[t].dir = "down", Proc(t) \notin {"result", "end"},
           NEW c, IsContext(c), SameNames(c, Ctx(t)), NEW v, Nameless(Proc(t), v),
           Kept(Proc(t), v), Forward(t, c, v)
    PROVE NamesNext
<1> DEFINE d == threads[t].dir
<1>d. d = "down"
  OBVIOUS
<1> HIDE DEF d
<1>0. d # "done"
  BY <1>d
<1>1. NamesFit(t, Ctx(t), DOMAIN Frame(t).saved)
  BY <1>0, NamesThere DEF d
<1>2. NamesFit(t, Ctx(t), DOMAIN Frame(t).saved \cup {Proc(t)})
  BY <1>1, NamesFitting
<1>3. NamesFit(t, c, DOMAIN Frame(t).saved \cup {Proc(t)})
  BY <1>2, NamesFitting
<1>4. NamesKept(t, Proc(t), v)
  BY DEF NamesKept, KeptNames, Nameless
<1> QED BY <1>3, <1>4, ForwardNames

LEMMA ReturnNames ==
    ASSUME Shape, MapsInv, NamesInv, NEW t \in DOMAIN threads,
           threads[t].dir \notin {"done", "waiting"}, Proc(t) # "recover",
           NEW c, IsContext(c), NEW e, Return(t, c, e),
           NamesFit(t, c, DOMAIN Frame(t).saved)
    PROVE NamesNext
<1> DEFINE th == threads[t]
           new == Returned(th, c, e)
<1>1. ThreadShape(prog, th) /\ ThreadNames(threads, t, th) /\ th.dir # "done"
  BY NamesThere
<1>0. NamesFit(t, c, DOMAIN Frame(t).saved \ {Proc(t)})
  BY NamesFitting
<1>2. /\ Top(th).at # "recover"
      /\ TopNames(threads, t, c, Len(th.stack), DOMAIN Top(th).saved \ {Top(th).at})
  BY <1>0 DEF NamesFit, Frame, Proc
<1>3. ThreadNames(threads, t, new)
  BY <1>1, <1>2, BackNames
<1>4. threads' = [threads EXCEPT ![t] = new]
  BY DEF Return
<1> HIDE DEF new
<1> QED BY <1>3, <1>4, OneNames

LEMMA ReturnAlike ==
    ASSUME Shape, MapsInv, NamesInv, NEW t \in DOMAIN threads,
           threads[t].dir \notin {"done", "waiting"}, Proc(t) # "recover",
           NEW c, IsContext(c), SameNames(c, Ctx(t)), NEW e, Return(t, c, e)
    PROVE NamesNext
<1>0. threads[t].dir # "done"
  OBVIOUS
<1>1. NamesFit(t, Ctx(t), DOMAIN Frame(t).saved)
  BY <1>0, NamesThere
<1>2. NamesFit(t, c, DOMAIN Frame(t).saved)
  BY <1>1, NamesFitting
<1> QED BY <1>2, ReturnNames

LEMMA PanicNames ==
    ASSUME Shape, MapsInv, NamesInv, NEW t \in DOMAIN threads,
           threads[t].dir \notin {"done", "waiting"}, Proc(t) # "recover", Panic(t)
    PROVE NamesNext
<1> DEFINE th == threads[t]
<1>1. ThreadShape(prog, th) /\ ThreadNames(threads, t, th) /\ th.dir # "done"
  BY NamesThere
<1>2. "recover" \in DOMAIN Top(th).saved
  BY <1>1, FramesOf DEF Proc
<1>3. ThreadNames(threads, t, Panicked(th))
  BY <1>1, <1>2, PanickedNames
<1> QED BY <1>3, OneNames DEF Panic

LEMMA CallNames ==
    ASSUME Shape, MapsInv, NamesInv, NEW t \in DOMAIN threads,
           threads[t].dir \notin {"done", "waiting"},
           NEW s \in DOMAIN prog, NEW c, IsContext(c), NEW h, NEW v,
           Kept(Proc(t), v), CalledFrom(Proc(t), v), Call(t, s, c, h, v),
           NamesKept(t, Proc(t), v), Named(threads, t, c)
    PROVE NamesNext
<1> DEFINE th == threads[t]
           new == Called(th, s, c, h, v)
<1>1. ThreadShape(prog, th) /\ ThreadNames(threads, t, th) /\ th.dir # "done"
  BY NamesThere
<1>2. /\ Kept(Top(th).at, v) /\ CalledFrom(Top(th).at, v)
      /\ KeptNames(threads, t, Top(th).at, v, Len(th.stack))
  BY DEF NamesKept, Proc
<1>3. ThreadNames(threads, t, new)
  BY <1>1, <1>2, CalledNames
<1>4. threads' = [threads EXCEPT ![t] = new]
  BY DEF Call
<1> HIDE DEF new
<1> QED BY <1>3, <1>4, OneNames

\* It returns after a change of the history.
LEMMA TouchedBack ==
    ASSUME Shape, MapsInv, NamesInv, NEW t \in DOMAIN threads,
           threads[t].dir \notin {"done", "waiting"}, Proc(t) # "recover",
           NEW f, FrameShape(prog, f), SameFrame(f, Frame(t)), NEW e,
           threads' = [threads EXCEPT ![t] = Returned(SetTop(@, f), Ctx(t), e)]
    PROVE NamesNext
<1> DEFINE th == threads[t]
           old == SetTop(th, f)
           new == Returned(old, Ctx(t), e)
<1>1. /\ ThreadShape(prog, th) /\ ThreadTemplates(prog, t, th) /\ th.dir # "done"
      /\ SameFrame(f, Top(th)) /\ IsContext(Ctx(t)) /\ Top(th).at # "recover"
      /\ ThreadNames(threads, t, th)
  BY MapsOf, NamesThere, ShapeOf DEF Frame, Proc
<1>2. /\ ThreadShape(prog, old) /\ Top(old) = f
      /\ old.ctx = th.ctx /\ old.dir = th.dir
  BY <1>1, Touched
<1>6. ThreadNames(threads, t, old)
  BY <1>1, TouchedNames
<1> HIDE DEF old
<1>3. TopNames(threads, t, Ctx(t), Len(old.stack), DOMAIN Top(old).saved \ {Top(old).at})
  <2>1. TopNames(threads, t, old.ctx, Len(old.stack), DOMAIN Top(old).saved)
    BY <1>1, <1>2, <1>6, NamesHere
  <2> QED BY <1>2, <2>1 DEF TopNames, Ctx
<1>4. Top(old).at # "recover" /\ old.dir # "done"
  BY <1>1, <1>2 DEF SameFrame
<1>5. ThreadNames(threads, t, new)
  BY <1>1, <1>2, <1>3, <1>4, <1>6, BackNames
<1> HIDE DEF new
<1>8. threads' = [threads EXCEPT ![t] = new]
  BY DEF new, old
<1> QED BY <1>5, <1>8, OneNames

\* Names that begin as they must may go on as they like.
LEMMA RootedOn ==
    ASSUME NEW ths, NEW t, NEW n, Rooted(ths, t, n), NEW x
    PROVE Rooted(ths, t, Append(n, x))
<1>1. IsSeq(n) /\ IsSeq(Append(n, x))
  BY Pushed DEF Rooted
<1>2. ASSUME NEW i \in 0 .. Len(t) - 1
      PROVE /\ IsSeq(ths[SubSeq(t, 1, i)].ctx.ns)
            /\ Prefix(Branch(ths[SubSeq(t, 1, i)], t[i + 1]), Append(n, x))
  <2> DEFINE th == ths[SubSeq(t, 1, i)]
             b == Branch(th, t[i + 1])
  <2>1. IsSeq(th.ctx.ns) /\ Prefix(b, n)
    BY DEF Rooted
  <2>2. IsSeq(b)
    BY <2>1, Pushed DEF Branch
  <2> HIDE DEF b
  <2>3. Prefix(b, Append(n, x))
    BY <1>1, <2>1, <2>2, PrefixOn
  <2> QED BY <2>1, <2>3 DEF b
<1> QED BY <1>1, <1>2 DEF Rooted

LEMMA SameNamesType ==
    ASSUME NEW c, IsContext(c)
    PROVE /\ SameNames(c, c)
          /\ \A x : SameNames([c EXCEPT !.expanding = x], c)
          /\ \A x : SameNames([c EXCEPT !.outlist = x], c)
          /\ \A k \in VarMaps : \A x : SameNames([c EXCEPT ![k] = x], c)
          /\ \A x : SameNames([c EXCEPT !.template = x], c)
          /\ \A x, y : SameNames([c EXCEPT !.stdout = x, !.stderr = y], c)
          /\ \A x, y : SameNames([c EXCEPT !.stdout = x, !.files = y], c)
          /\ \A x, y, z : SameNames([c EXCEPT !.stdout = x, !.stderr = y, !.files = z], c)
          /\ \A x, y : SameNames([c EXCEPT !.stdout = x, !.closed = y], c)
<1>0. DOMAIN c = ContextFields
  BY DEF IsContext
<1>1. SameNames(c, c)
  BY DEF SameNames
<1>2. \A x : SameNames([c EXCEPT !.expanding = x], c)
  BY <1>0 DEF SameNames, ContextFields
<1>3. \A x : SameNames([c EXCEPT !.outlist = x], c)
  BY <1>0 DEF SameNames, ContextFields
<1>4. \A k \in VarMaps : \A x : SameNames([c EXCEPT ![k] = x], c)
  BY <1>0 DEF SameNames, ContextFields, VarMaps
<1>5. \A x : SameNames([c EXCEPT !.template = x], c)
  BY <1>0 DEF SameNames, ContextFields
<1>6. \A x, y : SameNames([c EXCEPT !.stdout = x, !.stderr = y], c)
  BY <1>0 DEF SameNames, ContextFields
<1>7. \A x, y : SameNames([c EXCEPT !.stdout = x, !.files = y], c)
  BY <1>0 DEF SameNames, ContextFields
<1>8. \A x, y, z : SameNames([c EXCEPT !.stdout = x, !.stderr = y, !.files = z], c)
  BY <1>0 DEF SameNames, ContextFields
<1>9. \A x, y : SameNames([c EXCEPT !.stdout = x, !.closed = y], c)
  BY <1>0 DEF SameNames, ContextFields
<1> QED BY <1>1, <1>2, <1>3, <1>4, <1>5, <1>6, <1>7, <1>8, <1>9

\* Recover, retry, result.
LEMMA FirstNames ==
    ASSUME Shape, MapsInv, NamesInv, NEW t \in DOMAIN threads,
           \/ EnterRecover(t) \/ LeaveRecover(t) \/ EnterRetry(t) \/ LeaveRetry(t)
           \/ EnterResult(t) \/ LeaveResult(t)
    PROVE NamesNext
<1> DEFINE th == threads[t]
<1>0. /\ ThreadShape(prog, th) /\ ThreadNames(threads, t, th) /\ IsContext(Ctx(t))
      /\ DOMAIN th = ThreadFields /\ Ctx(t) = th.ctx /\ SameNames(Ctx(t), Ctx(t))
  BY ShapeOf, NamesThere, SameNamesType DEF Ctx
<1>f. th.dir # "done" => /\ FrameShape(prog, Top(th))
                         /\ NamesFit(t, Ctx(t), DOMAIN Frame(t).saved)
  BY ShapeOf, NamesThere DEF Frame
<1>1. CASE EnterRecover(t)
  <2> DEFINE c == Ctx(t)
  <2>1. th.dir = "down" /\ Proc(t) = "recover" /\ Forward(t, c, c)
    BY <1>1 DEF EnterRecover, At
  <2>2. Kept("recover", c)
    BY <1>0 DEF Kept
  <2>3. NamesFit(t, c, DOMAIN Frame(t).saved)
    BY <1>f, <2>1
  <2>4. NamesKept(t, "recover", c)
    BY <2>3 DEF NamesKept, KeptNames, NamesFit, TopNames
  <2>5. NamesFit(t, c, DOMAIN Frame(t).saved \cup {"recover"})
    BY <2>3, NamesFitting
  <2>6. IsContext(c)
    BY <1>0
  <2> HIDE DEF c
  <2> QED BY <2>1, <2>2, <2>4, <2>5, <2>6, ForwardNames
<1>2. CASE LeaveRecover(t)
  <2> DEFINE new == Returned(th, th.ctx, Err(t))
  <2>1. th.dir = "up" /\ Top(th).at = "recover" /\ threads' = [threads EXCEPT ![t] = new]
    BY <1>0, <1>2 DEF LeaveRecover, At, Proc, Return
  <2>2. ThreadNames(threads, t, new)
    BY <1>0, <2>1, LastNames
  <2> HIDE DEF new
  <2> QED BY <2>1, <2>2, OneNames
<1>3. CASE EnterRetry(t)
  <2> DEFINE v == [left |-> Options(t).retry, ctx |-> Ctx(t)]
  <2>1. th.dir = "down" /\ Proc(t) = "retry" /\ (Forward(t, Ctx(t), v) \/ Panic(t))
    BY <1>3 DEF EnterRetry, At
  <2> HIDE DEF v
  <2>2. Nameless("retry", v) /\ Kept("retry", v)
    BY KeptAny DEF Nameless
  <2>3. CASE Forward(t, Ctx(t), v)
    BY <1>0, <2>1, <2>2, <2>3, ForwardNameless
  <2>4. CASE Panic(t)
    BY <2>1, <2>4, PanicNames
  <2> QED BY <2>1, <2>3, <2>4
<1>4. CASE LeaveRetry(t)
  <2> DEFINE v == Saved(t, "retry")
             again == [Ctx(t) EXCEPT !.expanding = v.ctx.expanding]
             kept == [left |-> v.left - 1, ctx |-> v.ctx]
             f == Top(th)
             old == [th EXCEPT !.dir = "down", !.err = "ok", !.ctx = again]
             new == SetTop(old, Onward(Keep(f, kept)))
  <2>1. th.dir = "up" /\ Proc(t) = "retry" /\ f.at = "retry"
    BY <1>4 DEF LeaveRetry, At, Proc
  <2>0. th.dir \notin {"done", "waiting"} /\ Proc(t) # "recover"
    BY <2>1
  <2>2. CASE Return(t, Ctx(t), Err(t))
    BY <1>0, <2>0, <2>2, ReturnAlike
  <2>3. CASE threads' = [threads EXCEPT ![t] =
                SetTop([@ EXCEPT !.dir = "down", !.err = "ok", !.ctx = again],
                       Onward(Keep(Top(@), kept)))]
    <3>1. /\ old.stack = th.stack /\ old.path = th.path /\ DOMAIN old = ThreadFields
          /\ old.ctx = again /\ old.dir = "down"
      BY <1>0 DEF ThreadFields
    <3>2. IsContext(again) /\ SameNames(again, Ctx(t))
      BY <1>0, SameNamesType DEF IsContext
    <3>5. NamesFit(t, again, DOMAIN Frame(t).saved \cup {"retry"})
      <4>1. NamesFit(t, Ctx(t), DOMAIN Frame(t).saved \cup {"retry"})
        BY <1>f, <2>1, NamesFitting
      <4> HIDE DEF again
      <4> QED BY <3>2, <4>1, NamesFitting
    <3>6. threads' = [threads EXCEPT ![t] = new]
      BY <2>3
    <3>7. Kept("retry", kept) /\ SameFrame(f, Top(th)) /\ f = Frame(t) /\ FrameShape(prog, f)
      BY <1>f, <2>1, KeptAny DEF SameFrame, Frame
    <3> HIDE DEF old, kept, again, v, f
    <3>9. /\ KeptNames(threads, t, f.at, kept, Len(th.stack))
          /\ TopNames(threads, t, old.ctx, Len(th.stack), DOMAIN f.saved \cup {f.at})
          /\ IsContext(old.ctx) /\ Kept(f.at, kept) /\ f.at # "end"
      BY <2>1, <3>1, <3>2, <3>5, <3>7 DEF KeptNames, NamesFit
    <3>10. ThreadNames(threads, t, new)
      BY <1>0, <2>1, <3>1, <3>7, <3>9, OnwardNames
    <3> HIDE DEF new
    <3> QED BY <2>1, <3>6, <3>10, OneNames
  <2> QED BY <1>4, <2>2, <2>3 DEF LeaveRetry
<1>5. CASE EnterResult(t)
  <2> DEFINE d == Ctx(t)
             n == Append(d.ns, Frame(t).step)
             c == [d EXCEPT !.uname = n]
  <2>1. IsContext(c) /\ c.ns = d.ns /\ c.uname = n /\ c.whole = d.whole
    BY <1>0 DEF IsContext, ContextFields
  <2>2. Forward(t, c, TRUE) /\ th.dir = "down" /\ Proc(t) = "result"
    BY <1>5 DEF EnterResult, At
  <2>3. Named(threads, t, c)
    <3>1. d.whole => Rooted(threads, t, d.ns)
      BY <1>f, <2>2 DEF NamesFit, TopNames, NamesOf
    <3> HIDE DEF c
    <3>2. d.whole => Rooted(threads, t, n)
      BY <3>1, RootedOn
    <3> QED BY <2>1, <3>1, <3>2 DEF Named
  <2> HIDE DEF c
  <2>4. NamesFit(t, c, DOMAIN Frame(t).saved \cup {"result"})
    BY <2>3, NamesFacts DEF NamesFit
  <2>5. NamesKept(t, "result", TRUE) /\ Kept("result", TRUE)
    BY KeptAny DEF NamesKept, KeptNames
  <2> QED BY <2>1, <2>2, <2>4, <2>5, ForwardNames
<1>6. CASE LeaveResult(t)
  <2> DEFINE c == Cleared(Ctx(t))
  <2>1. IsContext(c) /\ ~c.whole
    BY <1>0 DEF Cleared, IsContext, ContextFields
  <2>2. Return(t, c, Err(t)) /\ th.dir = "up" /\ Proc(t) = "result"
    BY <1>6 DEF LeaveResult, At
  <2> HIDE DEF c
  <2>3. NamesFit(t, c, DOMAIN Frame(t).saved)
    BY <1>f, <2>1, <2>2, NamesFitting
  <2> QED BY <2>1, <2>2, <2>3, ReturnNames
<1> QED BY <1>1, <1>2, <1>3, <1>4, <1>5, <1>6

\* The maps of variables, outputs.
LEMMA VariablesNames ==
    ASSUME Shape, MapsInv, NamesInv, NEW t \in DOMAIN threads,
           \/ EnterInputs(t) \/ LeaveInputs(t)
           \/ \E k \in {"env", "secret"} : EnterVars(t, k) \/ LeaveVars(t, k) \/ LeaveVarsFails(t, k)
           \/ EnterOutputs(t) \/ LeaveOutputs(t) \/ PreparationFails(t)
    PROVE NamesNext
<1> DEFINE th == threads[t]
<1>0. /\ ThreadShape(prog, th) /\ ThreadNames(threads, t, th) /\ IsContext(Ctx(t))
      /\ DOMAIN th = ThreadFields /\ Ctx(t) = th.ctx /\ SameNames(Ctx(t), Ctx(t))
  BY ShapeOf, NamesThere, SameNamesType DEF Ctx
<1>f. th.dir # "done" => /\ FrameShape(prog, Top(th))
                         /\ NamesFit(t, Ctx(t), DOMAIN Frame(t).saved)
  BY ShapeOf, NamesThere DEF Frame
<1>n. \A p, v : p \notin {"recover", "needs", "inherit"} => Nameless(p, v)
  BY DEF Nameless
\* A map of its context is replaced.
<1>m. ASSUME NEW k \in VarMaps, NEW a
      PROVE /\ IsContext([Ctx(t) EXCEPT ![k] = a])
            /\ SameNames([Ctx(t) EXCEPT ![k] = a], Ctx(t))
  BY <1>0, SameNamesType DEF IsContext
<1>1. CASE EnterInputs(t)
  <2> DEFINE v == heap[Ctx(t).inputs]
  <2>1. th.dir = "down" /\ Proc(t) = "inputs" /\ Forward(t, Ctx(t), v)
    BY <1>1 DEF EnterInputs, At
  <2> HIDE DEF v
  <2>2. Kept("inputs", v) /\ Nameless("inputs", v)
    BY <1>n, KeptAny
  <2> QED BY <1>0, <2>1, <2>2, ForwardNameless
<1>2. CASE LeaveInputs(t)
  <2> DEFINE c == [Ctx(t) EXCEPT !["inputs"] = Fresh(t, "inputs", heap)]
  <2>1. IsContext(c) /\ SameNames(c, Ctx(t))
    BY <1>m DEF VarMaps
  <2>2. Return(t, c, Err(t)) /\ th.dir = "up" /\ Proc(t) = "inputs"
    BY <1>2 DEF LeaveInputs, At
  <2> HIDE DEF c
  <2>3. th.dir \notin {"done", "waiting"} /\ Proc(t) # "recover"
    BY <2>2
  <2> QED BY <2>1, <2>2, <2>3, ReturnAlike
<1>3. ASSUME NEW k \in {"env", "secret"}, EnterVars(t, k)
      PROVE NamesNext
  <2> DEFINE f == [Top(th) EXCEPT !.published[k] = {}]
             v == Origin(t, k)
             new == SetTop(th, Onward(Keep(f, v)))
  <2>1. At(t, "down", k) /\ threads' = [threads EXCEPT ![t] = new]
    BY <1>3 DEF EnterVars
  <2>2. FrameShape(prog, Top(th)) /\ th.dir = "down" /\ Top(th).at = k
    BY <1>f, <2>1 DEF At, Proc
  <2>3. /\ DOMAIN f = FrameFields /\ f.step = Top(th).step /\ f.at = k
        /\ f.saved = Top(th).saved
    BY <2>2 DEF FrameShape, FrameFields
  <2> HIDE DEF f, v
  <2>4. /\ FrameShape(prog, f) /\ Kept(f.at, v) /\ SameFrame(f, Top(th)) /\ f.at # "end"
    BY <2>2, <2>3, KeptAny DEF FrameShape, FrameFields, SameFrame
  <2>5. KeptNames(threads, t, f.at, v, Len(th.stack))
    BY <2>3 DEF KeptNames
  <2>6. TopNames(threads, t, th.ctx, Len(th.stack), DOMAIN f.saved \cup {f.at})
    <3>1. NamesFit(t, Ctx(t), DOMAIN Frame(t).saved \cup {f.at})
      BY <1>f, <2>2, <2>3, NamesFitting
    <3> QED BY <1>0, <2>3, <3>1 DEF NamesFit, Frame
  <2>7. IsContext(th.ctx)
    BY <1>0
  <2>8. ThreadNames(threads, t, new)
    BY <1>0, <2>2, <2>4, <2>5, <2>6, <2>7, OnwardNames
  <2> HIDE DEF new
  <2> QED BY <2>1, <2>2, <2>8, OneNames
<1>4. ASSUME NEW k \in {"env", "secret"}, LeaveVars(t, k)
      PROVE NamesNext
  <2> DEFINE c == [Ctx(t) EXCEPT ![k] = Fresh(t, k, heap)]
  <2>1. IsContext(c) /\ SameNames(c, Ctx(t))
    BY <1>m DEF VarMaps
  <2>2. Return(t, c, Err(t)) /\ th.dir = "up" /\ Proc(t) = k
    BY <1>4 DEF LeaveVars, At
  <2> HIDE DEF c
  <2>3. th.dir \notin {"done", "waiting"} /\ Proc(t) # "recover"
    BY <2>2
  <2> QED BY <2>1, <2>2, <2>3, ReturnAlike
<1>5. ASSUME NEW dir \in {"down", "up"}, th.dir = dir, NEW r, Proc(t) # "recover",
             NEW f, f = [Frame(t) EXCEPT !.unrestored = r],
             threads' = [threads EXCEPT ![t] = Returned(SetTop(@, f), Ctx(t), "hard")]
      PROVE NamesNext
  <2>1. /\ FrameShape(prog, Frame(t)) /\ f.at = Frame(t).at
        /\ DOMAIN f = FrameFields /\ f.step = Frame(t).step /\ f.saved = Frame(t).saved
    BY <1>f, <1>5 DEF FrameShape, FrameFields, Frame
  <2>2. FrameShape(prog, f) /\ SameFrame(f, Frame(t))
    BY <2>1 DEF FrameShape, FrameFields, SameFrame
  <2>3. th.dir \notin {"done", "waiting"}
    BY <1>5
  <2> QED BY <1>5, <2>2, <2>3, TouchedBack
<1>6. ASSUME NEW k \in {"env", "secret"}, LeaveVarsFails(t, k)
      PROVE NamesNext
  BY <1>5, <1>6 DEF LeaveVarsFails, At
<1>7. CASE EnterOutputs(t)
  <2> DEFINE c == [Ctx(t) EXCEPT !.outlist = @ \cup {<<o, Ctx(t).uname>> : o \in Options(t).outputs}]
  <2>1. IsContext(c) /\ SameNames(c, Ctx(t))
    BY <1>0, SameNamesType DEF IsContext
  <2>2. Forward(t, c, TRUE) /\ th.dir = "down" /\ Proc(t) = "outputs"
    BY <1>7 DEF EnterOutputs, At
  <2> HIDE DEF c
  <2>3. Kept("outputs", TRUE) /\ Nameless("outputs", TRUE)
    BY DEF Kept, Nameless
  <2> QED BY <2>1, <2>2, <2>3, ForwardNameless
<1>8. CASE LeaveOutputs(t)
  <2>1. /\ Return(t, Ctx(t), Err(t)) /\ th.dir = "up" /\ Proc(t) = "outputs"
    BY <1>8 DEF LeaveOutputs, At
  <2>2. th.dir \notin {"done", "waiting"} /\ Proc(t) # "recover"
    BY <2>1
  <2> QED BY <1>0, <2>1, <2>2, ReturnAlike
<1>9. CASE PreparationFails(t)
  <2>1. /\ th.dir \in {"down", "up"}
        /\ Proc(t) \in {"inputs", "env", "secret", "outputs", "redirect", "matrix"}
    BY <1>9 DEF PreparationFails, At, VarMaps
  <2> QED BY <1>5, <1>9, <2>1 DEF PreparationFails
<1> QED BY <1>1, <1>2, <1>3, <1>4, <1>6, <1>7, <1>8, <1>9

\* Writers, conditions, the template.
LEMMA ChecksNames ==
    ASSUME Shape, MapsInv, NamesInv, NEW t \in DOMAIN threads,
           \/ EnterOutput(t) \/ LeaveOutput(t) \/ LeaveOutputFails(t)
           \/ Skip(t) \/ DoNotSkip(t) \/ ConditionFails(t) \/ LeaveCheck(t)
           \/ AllowFailure(t) \/ EnterTemplate(t) \/ LeaveTemplate(t)
           \/ EnterRedirect(t) \/ RedirectFails(t) \/ LeaveRedirect(t)
    PROVE NamesNext
<1> DEFINE th == threads[t]
<1>0. IsContext(Ctx(t)) /\ SameNames(Ctx(t), Ctx(t))
  BY ShapeOf, SameNamesType
<1>n. \A p, v : p \notin {"recover", "needs", "inherit"} => Nameless(p, v)
  BY DEF Nameless
\* It goes on or returns with the same names.
<1>on. ASSUME th.dir = "down",
              NEW p \in {"output", "blacklist", "done", "if", "soft", "template", "redirect"},
              Proc(t) = p, NEW c, IsContext(c), SameNames(c, Ctx(t)), NEW v, Kept(p, v),
              Forward(t, c, v)
       PROVE NamesNext
  BY <1>n, <1>on, ForwardNameless
<1>back. ASSUME NEW dir \in {"down", "up"}, th.dir = dir,
                NEW p \in {"output", "blacklist", "done", "if", "soft", "template", "redirect"},
                Proc(t) = p, NEW c, IsContext(c), SameNames(c, Ctx(t)), NEW e, Return(t, c, e)
         PROVE NamesNext
  <2>1. th.dir \notin {"done", "waiting"} /\ Proc(t) # "recover"
    BY <1>back
  <2> QED BY <1>back, <2>1, ReturnAlike
<1>1. CASE EnterOutput(t)
  <2> DEFINE own(w) == IF w = Discard THEN w ELSE <<"term", Frame(t).step>>
             c == [Ctx(t) EXCEPT !.stdout = own(@), !.stderr = own(@)]
  <2>1. IsContext(c) /\ SameNames(c, Ctx(t))
    BY <1>0, SameNamesType DEF IsContext
  <2>2. /\ Forward(t, Ctx(t), FALSE) \/ Forward(t, c, TRUE)
        /\ th.dir = "down" /\ Proc(t) = "output"
    BY <1>1 DEF EnterOutput, At
  <2>3. Kept("output", TRUE) /\ Kept("output", FALSE)
    BY DEF Kept
  <2> HIDE DEF c
  <2>4. CASE Forward(t, Ctx(t), FALSE)
    BY <1>0, <1>on, <2>2, <2>3, <2>4
  <2>5. CASE Forward(t, c, TRUE)
    BY <1>on, <2>1, <2>2, <2>3, <2>5
  <2> QED BY <2>2, <2>4, <2>5
<1>2. CASE LeaveOutput(t)
  <2> DEFINE c == [Ctx(t) EXCEPT !.stdout = Nil, !.stderr = Nil]
  <2>1. IsContext(c) /\ SameNames(c, Ctx(t))
    BY <1>0, SameNamesType DEF IsContext
  <2>2. /\ Return(t, Ctx(t), Err(t)) \/ Return(t, c, Err(t))
        /\ th.dir = "up" /\ Proc(t) = "output"
    BY <1>2 DEF LeaveOutput, At
  <2> HIDE DEF c
  <2> QED BY <1>0, <1>back, <2>1, <2>2
<1>3. CASE Skip(t)
  <2>1. /\ Return(t, Ctx(t), "soft") /\ th.dir = "down" /\ Proc(t) \in {"blacklist", "done", "if"}
    BY <1>3 DEF Skip, At
  <2> QED BY <1>0, <1>back, <2>1
<1>4. CASE DoNotSkip(t)
  <2>1. /\ Forward(t, Ctx(t), TRUE) /\ th.dir = "down"
        /\ Proc(t) \in {"blacklist", "done", "if", "soft"}
    BY <1>4 DEF DoNotSkip, At
  <2>2. Kept(Proc(t), TRUE)
    BY <2>1, KeptAny
  <2> QED BY <1>0, <1>on, <2>1, <2>2
<1>5. CASE ConditionFails(t)
  <2>1. /\ Return(t, Ctx(t), "hard") \/ Panic(t)
        /\ th.dir = "down" /\ Proc(t) = "if"
    BY <1>5 DEF ConditionFails, At
  <2>2. CASE Return(t, Ctx(t), "hard")
    BY <1>0, <1>back, <2>1, <2>2
  <2>3. CASE Panic(t)
    BY <2>1, <2>3, PanicNames
  <2> QED BY <2>1, <2>2, <2>3
<1>6. CASE LeaveCheck(t)
  <2>1. /\ Return(t, Ctx(t), Err(t)) /\ th.dir = "up" /\ Proc(t) \in {"blacklist", "done", "if"}
    BY <1>6 DEF LeaveCheck, At
  <2> QED BY <1>0, <1>back, <2>1
<1>7. CASE AllowFailure(t)
  <2> DEFINE e == IF Err(t) = "ok" THEN "ok" ELSE "soft"
  <2>1. Return(t, Ctx(t), e) /\ th.dir = "up" /\ Proc(t) = "soft"
    BY <1>7 DEF AllowFailure, At
  <2> HIDE DEF e
  <2> QED BY <1>0, <1>back, <2>1
<1>8. CASE EnterTemplate(t)
  <2> DEFINE x == Ctx(t).template
             a == IF x = Nil THEN Global(Frame(t).step) ELSE x
             c == [Ctx(t) EXCEPT !.template = a]
  <2>1. IsContext(c) /\ SameNames(c, Ctx(t))
    BY <1>0, SameNamesType DEF IsContext
  <2>2. Forward(t, c, x) /\ th.dir = "down" /\ Proc(t) = "template"
    BY <1>8 DEF EnterTemplate, At
  <2> HIDE DEF a, c, x
  <2>3. Kept("template", x)
    BY DEF Kept
  <2> QED BY <1>on, <2>1, <2>2, <2>3
<1>9. CASE LeaveTemplate(t)
  <2> DEFINE x == Saved(t, "template")
             c == [Ctx(t) EXCEPT !.template = x]
  <2>1. IsContext(c) /\ SameNames(c, Ctx(t))
    BY <1>0, SameNamesType DEF IsContext
  <2>2. Return(t, c, Err(t)) /\ th.dir = "up" /\ Proc(t) = "template"
    BY <1>9 DEF LeaveTemplate, At
  <2> HIDE DEF c, x
  <2> QED BY <1>back, <2>1, <2>2
<1>10. CASE EnterRedirect(t)
  <2> DEFINE c == [Ctx(t) EXCEPT !.stdout = Discard,
                                 !.files = @ \cup {<<x, Frame(t).step>> : x \in Options(t).redirect}]
             v == [stdout |-> Ctx(t).stdout, stderr |-> Ctx(t).stderr]
  <2>1. IsContext(c) /\ SameNames(c, Ctx(t))
    BY <1>0, SameNamesType DEF IsContext
  <2>2. Forward(t, c, v) /\ th.dir = "down" /\ Proc(t) = "redirect"
    BY <1>10 DEF EnterRedirect, At
  <2> HIDE DEF c, v
  <2>3. Kept("redirect", v)
    BY DEF Kept
  <2> QED BY <1>on, <2>1, <2>2, <2>3
<1>11. CASE LeaveRedirect(t)
  <2> DEFINE c == Unredirected(t)
  <2>1. IsContext(c) /\ SameNames(c, Ctx(t))
    BY <1>0, SameNamesType, ContextType DEF Unredirected
  <2>2. Return(t, c, Err(t)) /\ th.dir = "up" /\ Proc(t) = "redirect"
    BY <1>11 DEF LeaveRedirect, At
  <2> HIDE DEF c
  <2> QED BY <1>back, <2>1, <2>2
<1>12. CASE LeaveOutputFails(t)
  <2>1. Return(t, Ctx(t), "hard") /\ th.dir = "up" /\ Proc(t) = "output"
    BY <1>12 DEF LeaveOutputFails, At
  <2> QED BY <1>0, <1>back, <2>1
<1>13. CASE RedirectFails(t)
  <2>1. PICK stream \in Options(t).redirect :
           LET first == IF stream = "stderr" THEN Options(t).redirect \cap {"stdout"} ELSE {}
           IN  Return(t, [Ctx(t) EXCEPT !.stdout = Discard,
                             !.closed = @ \cup {<<x, Frame(t).step>> : x \in first}], "hard")
    BY <1>13 DEF RedirectFails
  <2> DEFINE first == IF stream = "stderr" THEN Options(t).redirect \cap {"stdout"} ELSE {}
             c == [Ctx(t) EXCEPT !.stdout = Discard,
                      !.closed = @ \cup {<<x, Frame(t).step>> : x \in first}]
  <2>2. IsContext(c) /\ SameNames(c, Ctx(t))
    BY <1>0, SameNamesType DEF IsContext
  <2>3. Return(t, c, "hard") /\ th.dir = "down" /\ Proc(t) = "redirect"
    BY <1>13, <2>1 DEF RedirectFails, At
  <2> HIDE DEF c
  <2> QED BY <1>back, <2>2, <2>3
<1> QED BY <1>1, <1>2, <1>3, <1>4, <1>5, <1>6, <1>7, <1>8, <1>9, <1>10, <1>11, <1>12, <1>13

\* Below its result processor a step has its name.
LEMMA BelowNames ==
    ASSUME Shape, MapsInv, NamesInv, NEW t \in DOMAIN threads, threads[t].dir # "done",
           Proc(t) \in {"matrix", "needs", "redirect", "run", "inherit", "and", "concurrent", "end"}
    PROVE Named(threads, t, Ctx(t)) /\ NamesFit(t, Ctx(t), DOMAIN Frame(t).saved)
<1> DEFINE f == Frame(t)
<1>1. FrameShape(prog, f) /\ TopShape(prog, f, threads[t].dir) /\ f.at = Proc(t)
  BY ShapeOf DEF Frame, Proc
<1> HIDE DEF f
<1>2. "result" \in Processors(prog[f.step]) /\ Order["result"] < Order[f.at]
  BY <1>1, ProcessorsType, Places
<1>3. "result" \in DOMAIN f.saved
  BY <1>1, <1>2, SavedOrder
<1>4. NamesFit(t, Ctx(t), DOMAIN f.saved)
  BY NamesThere DEF f
<1>5. Named(threads, t, Ctx(t))
  BY <1>3, <1>4, NamesFitting
<1> QED BY <1>4, <1>5 DEF f

\* What is called has lost its namespace, or has that of the caller and more.
LEMMA Nowhere ==
    ASSUME NEW ths, NEW t, NEW c, ~c.whole
    PROVE Named(ths, t, c)
  BY DEF Named

LEMMA CallNeededNames ==
    ASSUME Shape, MapsInv, NamesInv, NEW t \in DOMAIN threads,
           threads[t].dir \in {"down", "merged"},
           Proc(t) = "needs", NEW i \in Nat, i > 0, Options(t).needs[i] \in DOMAIN prog,
           CallNeeded(t, Ctx(t), i)
    PROVE NamesNext
<1> DEFINE a == Fresh(t, "template", heap)
           new == [NewContext(t, heap) EXCEPT !.template = a]
           n == NewHeap(t, heap)
           h == Assign(n, new.template, heap[Ctx(t).template])
           c == Ctx(t)
           v == [next |-> i + 1, ctx |-> c]
           s == Options(t).needs[i]
<1>1. IsContext(new) /\ ~new.whole
  <2> DEFINE x == NewContext(t, heap)
  <2>1. IsContext(x) /\ ~x.whole
    BY NewContextType DEF NewContext
  <2> HIDE DEF x
  <2> QED BY <2>1 DEF IsContext, ContextFields, x
<1>2. Call(t, s, new, h, v) /\ s \in DOMAIN prog
  BY DEF CallNeeded
<1>3. v.next \in Nat /\ v.next > 0 /\ v.ctx = c
  <2>1. v.next = i + 1 /\ v.ctx = Ctx(t)
    OBVIOUS
  <2>2. i + 1 \in Nat /\ i + 1 > 0
    OBVIOUS
  <2> QED BY <2>1, <2>2
<1>4. IsContext(c) /\ Named(threads, t, c) /\ threads[t].dir \notin {"done", "waiting"}
  BY ShapeOf, BelowNames
<1> HIDE DEF new, v, s, n, a, c, h
<1>5. Kept("needs", v) /\ CalledFrom("needs", v)
  BY <1>3, <1>4 DEF Kept, CalledFrom
<1>6. NamesKept(t, "needs", v)
  BY <1>3, <1>4 DEF NamesKept, KeptNames
<1>7. Named(threads, t, new)
  BY <1>1, Nowhere
<1> QED BY <1>1, <1>2, <1>4, <1>5, <1>6, <1>7, CallNames

\* Needs, and, inherit.
LEMMA CallsNames ==
    ASSUME Shape, MapsInv, NamesInv, NEW t \in DOMAIN threads,
           \/ EnterNeeds(t) \/ NeededReturns(t) \/ MoreNeeds(t) \/ LeaveNeeds(t)
           \/ EnterAnd(t) \/ ReferenceReturns(t)
           \/ EnterInherit(t) \/ InheritedReturns(t) \/ LeaveInherit(t)
    PROVE NamesNext
<1> DEFINE th == threads[t]
<1>0. /\ ThreadShape(prog, th) /\ ThreadNames(threads, t, th) /\ IsContext(Ctx(t))
      /\ DOMAIN th = ThreadFields /\ Ctx(t) = th.ctx /\ SameNames(Ctx(t), Ctx(t))
  BY ShapeOf, NamesThere, SameNamesType DEF Ctx
<1>f. th.dir # "done" =>
            /\ Options(t).needs \in Seq(DOMAIN prog)
            /\ Options(t).inherit \in DOMAIN prog \cup {""}
            /\ Proc(t) \in Processors(Options(t))
            /\ FrameShape(prog, Top(th)) /\ TopShape(prog, Top(th), th.dir)
            /\ NamesFit(t, Ctx(t), DOMAIN Frame(t).saved)
  <2>1. ASSUME th.dir # "done"
        PROVE /\ FrameShape(prog, Top(th)) /\ TopShape(prog, Top(th), th.dir)
              /\ Frame(t).step \in DOMAIN prog
              /\ Proc(t) \in Processors(Options(t))
              /\ NamesFit(t, Ctx(t), DOMAIN Frame(t).saved)
    BY <2>1, ShapeOf, NamesThere DEF Options, Frame, Proc
  <2>2. ASSUME th.dir # "done"
        PROVE /\ Options(t).needs \in Seq(DOMAIN prog)
              /\ Options(t).inherit \in DOMAIN prog \cup {""}
    BY <2>1, <2>2, ReferencesType DEF Options
  <2> QED BY <2>1, <2>2
<1>r. th.dir # "done" => Options(t).and \in Seq(DOMAIN prog)
  <2>1. ASSUME th.dir # "done"
        PROVE Frame(t).step \in DOMAIN prog
    BY <2>1, ShapeOf
  <2> QED BY <2>1, ReferencesType DEF Options
\* What a call has kept has its names.
<1>k. ASSUME NEW p \in {"needs", "inherit"}, th.dir = "up", Proc(t) = p, Foreign(p, Saved(t, p))
      PROVE /\ IsContext(Saved(t, p).ctx)
            /\ \A saved : NamesFit(t, Saved(t, p).ctx, saved)
  <2> DEFINE v == Saved(t, p)
  <2>1. p \in DOMAIN Frame(t).saved /\ Kept(p, v)
    BY <1>k, SavedShape
  <2>2. NamesKept(t, p, v)
    BY <1>k, <2>1, NamesThere
  <2>3. Foreign(p, v)
    BY <1>k
  <2> HIDE DEF v
  <2>4. IsContext(v.ctx) /\ Named(threads, t, v.ctx)
    BY <1>k, <2>1, <2>2, <2>3 DEF Kept, Foreign, NamesKept, KeptNames
  <2>5. \A saved : NamesFit(t, v.ctx, saved)
    BY <2>4, NamesFacts DEF NamesFit
  <2> QED BY <2>4, <2>5 DEF v
<1>back. ASSUME NEW p \in {"needs", "and", "inherit"}, NEW dir \in {"down", "up"}, th.dir = dir,
                Proc(t) = p, NEW e, Return(t, Ctx(t), e)
         PROVE NamesNext
  <2>1. th.dir \notin {"done", "waiting"} /\ Proc(t) # "recover"
    BY <1>back
  <2> QED BY <1>0, <1>back, <2>1, ReturnAlike
<1>2. CASE EnterNeeds(t)
  <2> DEFINE i == NextNeeded(t, Ctx(t), 1)
             v == [next |-> 0]
  <2>1. th.dir = "down" /\ Proc(t) = "needs"
    BY <1>2 DEF EnterNeeds, At
  <2>2. i = 0 \/ (i \in Nat /\ i > 0 /\ Options(t).needs[i] \in DOMAIN prog)
    <3>1. Options(t).needs \in Seq(DOMAIN prog)
      BY <1>f, <2>1
    <3>2. 1 \in Nat \ {0}
      OBVIOUS
    <3> QED BY <3>1, <3>2, NextNeededType
  <2>3. \/ i = 0 /\ Forward(t, Ctx(t), v)
        \/ i # 0 /\ CallNeeded(t, Ctx(t), i)
    BY <1>2 DEF EnterNeeds
  <2>4. v.next = 0
    OBVIOUS
  <2> HIDE DEF i, v
  <2>5. Kept("needs", v) /\ Nameless("needs", v)
    BY <2>4 DEF Kept, Nameless, Foreign
  <2>6. CASE Forward(t, Ctx(t), v)
    BY <1>0, <2>1, <2>5, <2>6, ForwardNameless
  <2> QED BY <2>1, <2>2, <2>3, <2>6, CallNeededNames
<1>3. CASE NeededReturns(t)
  <2> DEFINE c == Saved(t, "needs").ctx
             old == [th EXCEPT !.ctx = c, !.dir = "merged"]
             f == Top(th)
             new == SetTop(old, f)
  <2>1. th.dir = "up" /\ Proc(t) = "needs" /\ Saved(t, "needs").next > 0
    BY <1>3 DEF NeededReturns, At
  <2>2. IsContext(c) /\ \A saved : NamesFit(t, c, saved)
    <3>1. Foreign("needs", Saved(t, "needs"))
      BY <2>1 DEF Foreign
    <3> QED BY <1>k, <2>1, <3>1
  <2>4. \/ threads' = [threads EXCEPT ![t] = Returned(@, c, Err(t))]
        \/ threads' = [threads EXCEPT ![t] = SetTop([@ EXCEPT !.ctx = c, !.dir = "merged"], Top(@))]
    BY <1>3 DEF NeededReturns
  <2>6. CASE threads' = [threads EXCEPT ![t] = Returned(@, c, Err(t))]
    <3>1. Return(t, c, Err(t))
      BY <2>6 DEF Return
    <3> HIDE DEF c
    <3> QED BY <2>1, <2>2, <3>1, ReturnNames
  <2>7. CASE threads' = [threads EXCEPT ![t] = SetTop([@ EXCEPT !.ctx = c, !.dir = "merged"], Top(@))]
    <3>1. threads' = [threads EXCEPT ![t] = new]
      BY <2>7
    <3>2. /\ old.stack = th.stack /\ old.path = th.path /\ DOMAIN old = ThreadFields
          /\ old.ctx = c /\ old.dir = "merged" /\ "merged" \in Directions \ {"done"}
      BY <1>0 DEF ThreadFields, Directions
    <3>3. TopShape(prog, f, "merged") /\ FrameShape(prog, f) /\ f.at = "needs" /\ f = Frame(t)
      BY <1>0, <1>f, <2>1 DEF TopShape, Saved, Proc, Frame
    <3>4. FrameNames(threads, t, f, Len(th.stack))
      BY <1>0, <2>1, NamesHere
    <3> HIDE DEF old, c
    <3>ctx. /\ IsContext(old.ctx) /\ old.dir \in Directions \ {"done"}
            /\ TopShape(prog, f, old.dir) /\ th.dir # "done"
      BY <2>1, <2>2, <3>2, <3>3
    <3> HIDE DEF f
    <3>5. /\ Top(new) = f
          /\ Len(new.stack) = Len(th.stack)
          /\ \A i \in 1 .. Len(th.stack) - 1 : new.stack[i] = th.stack[i]
          /\ new.ctx = c
      <4>1. ThreadShape(prog, th)
        BY <1>0
      <4> QED BY <3>2, <3>3, <3>ctx, <4>1, TopMoved
    <3>6. TopNames(threads, t, c, Len(th.stack), DOMAIN f.saved)
      BY <2>2 DEF NamesFit
    <3> HIDE DEF new
    <3>7. ThreadNames(threads, t, new)
      BY <1>0, <3>4, <3>5, <3>6, <3>ctx, NamesMoved
    <3> QED BY <2>1, <3>1, <3>7, OneNames
  <2> QED BY <2>4, <2>6, <2>7
\* It goes on, with context c, and keeps v.
<1>on. ASSUME NEW dir \in {"up", "merged"}, th.dir = dir, NEW p \in {"needs", "and", "inherit"},
              Proc(t) = p, NEW c, IsContext(c), NEW v, Kept(p, v), ~Foreign(p, v),
              NEW old, old = [th EXCEPT !.dir = "down", !.ctx = c],
              threads' = [threads EXCEPT ![t] = SetTop(old, Onward(Keep(Top(th), v)))],
              NamesFit(t, c, DOMAIN Frame(t).saved \cup {p})
       PROVE NamesNext
  <2> DEFINE f == Top(th)
             new == SetTop(old, Onward(Keep(f, v)))
  <2>1. /\ old.stack = th.stack /\ old.path = th.path /\ DOMAIN old = ThreadFields
        /\ old.ctx = c /\ old.dir = "down"
    BY <1>0, <1>on DEF ThreadFields
  <2>2. /\ FrameShape(prog, f) /\ f.at = p /\ f.at # "end" /\ f = Top(th) /\ f = Frame(t)
        /\ SameFrame(f, Top(th))
    BY <1>0, <1>f, <1>on DEF Proc, SameFrame, Frame
  <2> HIDE DEF f
  <2>4. /\ IsContext(old.ctx)
        /\ KeptNames(threads, t, f.at, v, Len(th.stack))
        /\ TopNames(threads, t, old.ctx, Len(th.stack), DOMAIN f.saved \cup {f.at})
        /\ Kept(f.at, v)
    BY <1>on, <2>1, <2>2 DEF KeptNames, NamesFit
  <2>5. th.dir # "done" /\ th.dir # "waiting"
    BY <1>on
  <2>6. ThreadNames(threads, t, new)
    BY <1>0, <2>1, <2>2, <2>4, <2>5, OnwardNames
  <2>7. threads' = [threads EXCEPT ![t] = new]
    BY <1>on DEF f
  <2> HIDE DEF new
  <2> QED BY <2>5, <2>6, <2>7, OneNames
<1>4. CASE MoreNeeds(t)
  <2> DEFINE i == NextNeeded(t, Ctx(t), Saved(t, "needs").next)
             down == [th EXCEPT !.dir = "down"]
             old == [th EXCEPT !.dir = "down", !.ctx = Ctx(t)]
             v == [next |-> 0]
  <2>1. th.dir = "merged" /\ Proc(t) = "needs"
    BY <1>4 DEF MoreNeeds, At
  <2>2. \/ i # 0 /\ CallNeeded(t, Ctx(t), i)
        \/ threads' = [threads EXCEPT ![t] = SetTop(down, Onward(Keep(Top(down), v)))]
    BY <1>4 DEF MoreNeeds
  <2>3. Saved(t, "needs").next \in Nat \ {0}
    <3>1. Saved(t, "needs").next > 0
      BY <1>0, <1>f, <2>1 DEF TopShape, Saved, Frame
    <3>2. Kept("needs", Saved(t, "needs"))
      BY <2>1, SavedShape
    <3> QED BY <3>1, <3>2 DEF Kept
  <2>4. i = 0 \/ (i \in Nat /\ i > 0 /\ Options(t).needs[i] \in DOMAIN prog)
    <3> DEFINE n == Saved(t, "needs").next
    <3>1. Options(t).needs \in Seq(DOMAIN prog) /\ n \in Nat \ {0}
      BY <1>f, <2>1, <2>3
    <3> HIDE DEF n
    <3>2. NextNeeded(t, Ctx(t), n) = 0
            \/ (NextNeeded(t, Ctx(t), n) \in Nat /\ NextNeeded(t, Ctx(t), n) > 0
                 /\ Options(t).needs[NextNeeded(t, Ctx(t), n)] \in DOMAIN prog)
      BY <3>1, NextNeededType
    <3> QED BY <3>2 DEF n
  <2> HIDE DEF i
  <2>5. CASE threads' = [threads EXCEPT ![t] = SetTop(down, Onward(Keep(Top(down), v)))]
    <3>1. down = old
      BY <1>0 DEF ThreadFields
    <3>2. Top(down) = Top(th)
      BY <1>0 DEF Top, ThreadFields
    <3>3. v.next = 0
      OBVIOUS
    <3> HIDE DEF v, down
    <3>4. Kept("needs", v) /\ ~Foreign("needs", v)
      BY <3>3 DEF Kept, Foreign
    <3>5. NamesFit(t, Ctx(t), DOMAIN Frame(t).saved \cup {"needs"})
      BY <1>f, <2>1, NamesFitting
    <3>6. threads' = [threads EXCEPT ![t] = SetTop(old, Onward(Keep(Top(th), v)))]
      BY <2>5, <3>1, <3>2
    <3> QED BY <1>0, <1>on, <2>1, <3>4, <3>5, <3>6
  <2> QED BY <2>1, <2>2, <2>4, <2>5, CallNeededNames
<1>5. CASE LeaveNeeds(t)
  BY <1>5, <1>back DEF LeaveNeeds, At
<1>and. ASSUME NEW s \in DOMAIN prog, NEW v \in Nat, Proc(t) = "and",
               NEW dir \in {"down", "up"}, th.dir = dir, Call(t, s, Ctx(t), heap, v)
        PROVE NamesNext
  <2>0. th.dir \notin {"done", "waiting"}
    BY <1>and
  <2>1. Named(threads, t, Ctx(t))
    BY <1>and, <2>0, BelowNames
  <2>2. Kept("and", v) /\ CalledFrom("and", v)
    BY DEF Kept, CalledFrom
  <2>3. NamesKept(t, "and", v)
    BY DEF NamesKept, KeptNames
  <2> QED BY <1>0, <1>and, <2>0, <2>1, <2>2, <2>3, CallNames
<1>6. CASE EnterAnd(t)
  <2>1. th.dir = "down" /\ Proc(t) = "and"
    BY <1>6 DEF EnterAnd, At
  <2>2. Options(t).and \in Seq(DOMAIN prog) /\ Options(t).and # <<>>
    <3>1. "and" \in Processors(Options(t))
      BY <1>f, <2>1
    <3>2. Options(t).and # <<>>
      BY <3>1 DEF Processors
    <3> QED BY <1>r, <2>1, <3>2
  <2>3. Options(t).and[1] \in DOMAIN prog
    <3> DEFINE refs == Options(t).and
    <3>1. refs \in Seq(DOMAIN prog) /\ Len(refs) \in Nat \ {0}
      BY <2>2, EmptySeq
    <3> HIDE DEF refs
    <3>2. 1 \in 1 .. Len(refs)
      BY <3>1
    <3>3. refs[1] \in DOMAIN prog
      BY <3>1, <3>2, ElementOfSeq
    <3> QED BY <3>3 DEF refs
  <2>4. Call(t, Options(t).and[1], Ctx(t), heap, 1)
    BY <1>6 DEF EnterAnd
  <2> QED BY <1>and, <2>1, <2>3, <2>4
<1>7. CASE ReferenceReturns(t)
  <2> DEFINE i == Saved(t, "and")
             refs == Options(t).and
             down == [th EXCEPT !.dir = "down"]
             old == [th EXCEPT !.dir = "down", !.ctx = Ctx(t)]
  <2>1. th.dir = "up" /\ Proc(t) = "and"
    BY <1>7 DEF ReferenceReturns, At
  <2>i. i \in Nat
    BY <2>1, SavedShape DEF Kept
  <2>2. i \in Nat /\ refs \in Seq(DOMAIN prog)
    BY <1>r, <2>1, <2>i
  <2>3. \/ Return(t, Ctx(t), Err(t))
        \/ i < Len(refs) /\ Call(t, refs[i + 1], Ctx(t), heap, i + 1)
        \/ threads' = [threads EXCEPT ![t] = SetTop(down, Onward(Keep(Top(th), i + 1)))]
    BY <1>7 DEF ReferenceReturns
  <2>4. i + 1 \in Nat
    BY <2>2
  <2>5. CASE i < Len(refs) /\ Call(t, refs[i + 1], Ctx(t), heap, i + 1)
    <3> HIDE DEF i, refs
    <3>1. i + 1 \in 1 .. Len(refs)
      BY <2>2, <2>5, LenProperties
    <3>2. refs[i + 1] \in DOMAIN prog
      BY <2>2, <3>1, ElementOfSeq
    <3> QED BY <1>and, <2>1, <2>4, <2>5, <3>2
  <2>6. CASE threads' = [threads EXCEPT ![t] = SetTop(down, Onward(Keep(Top(th), i + 1)))]
    <3>1. down = old
      BY <1>0 DEF ThreadFields
    <3>2. Kept("and", i + 1) /\ ~Foreign("and", i + 1)
      BY <2>4, AnyForeign DEF Kept
    <3>3. NamesFit(t, Ctx(t), DOMAIN Frame(t).saved \cup {"and"})
      BY <1>f, <2>1, NamesFitting
    <3> HIDE DEF i, down
    <3>5. threads' = [threads EXCEPT ![t] = SetTop(old, Onward(Keep(Top(th), i + 1)))]
      BY <2>6, <3>1
    <3> QED BY <1>0, <1>on, <2>1, <3>2, <3>3, <3>5
  <2> HIDE DEF refs, i
  <2>7. CASE Return(t, Ctx(t), Err(t))
    BY <1>back, <2>1, <2>7
  <2> QED BY <2>3, <2>5, <2>6, <2>7
<1>8. CASE EnterInherit(t)
  <2> DEFINE c == Ctx(t)
             d == InheritContext(t, c, heap)
             x == DeepCopy(t, c, heap)
             h == InheritHeap(t, c, heap)
             v == [called |-> TRUE, ctx |-> c]
             s == Options(t).inherit
  <2>1. th.dir = "down" /\ Proc(t) = "inherit"
    BY <1>8 DEF EnterInherit, At
  <2>2. \/ Call(t, s, d, h, v)
        \/ Return(t, c, "hard")
    BY <1>8 DEF EnterInherit
  <2>3. /\ IsContext(d) /\ d.ns = Append(c.ns, Frame(t).step)
        /\ d.uname = c.uname /\ d.whole = c.whole
    <3>1. IsContext(x) /\ IsContext(d)
      BY <1>0, ContextType
    <3>2. x.ns = c.ns /\ x.uname = c.uname /\ x.whole = c.whole
      <4>1. {"ns", "uname", "whole"} \cap Copied(c) = {} /\ {"ns", "uname", "whole"} \subseteq DOMAIN c
        BY <1>0 DEF Copied, Cloned, Kinds, Maps, VarMaps, IsContext, ContextFields
      <4> QED BY <4>1 DEF DeepCopy
    <3> HIDE DEF x
    <3>3. d = [WithNamespace(x, Frame(t).step) EXCEPT !.tags = @ \cup {"pipeline"}]
      BY DEF InheritContext, x
    <3>4. DOMAIN x = ContextFields
      BY <3>1 DEF IsContext
    <3> QED BY <3>1, <3>2, <3>3, <3>4 DEF WithNamespace, ContextFields
  <2>4. s \in DOMAIN prog
    BY <1>0, <1>f, <2>1 DEF Processors
  <2>5. v.called = TRUE /\ v.ctx = c /\ IsContext(v.ctx)
    BY <1>0
  <2>6. Named(threads, t, c)
    BY <2>1, BelowNames
  <2> HIDE DEF d, v, s, c, x, h
  <2>7. Named(threads, t, d)
    BY <2>3, <2>6, RootedOn DEF Named
  <2>8. Kept("inherit", v) /\ CalledFrom("inherit", v)
    BY <2>5 DEF Kept, CalledFrom
  <2>9. NamesKept(t, "inherit", v)
    BY <2>5, <2>6 DEF NamesKept, KeptNames
  <2>10. CASE Call(t, s, d, h, v)
    BY <2>1, <2>3, <2>4, <2>7, <2>8, <2>9, <2>10, CallNames
  <2>11. CASE Return(t, c, "hard")
    BY <1>back, <2>1, <2>11 DEF c
  <2> QED BY <2>2, <2>10, <2>11
<1>9. CASE InheritedReturns(t)
  <2> DEFINE c == Saved(t, "inherit").ctx
             old == [th EXCEPT !.dir = "down", !.ctx = c]
             v == [called |-> FALSE]
  <2>1. th.dir = "up" /\ Proc(t) = "inherit" /\ Saved(t, "inherit").called
    BY <1>9 DEF InheritedReturns, At
  <2>2. IsContext(c) /\ \A saved : NamesFit(t, c, saved)
    <3>1. Foreign("inherit", Saved(t, "inherit"))
      BY <2>1 DEF Foreign
    <3> QED BY <1>k, <2>1, <3>1
  <2>3. \/ Return(t, c, Err(t))
        \/ threads' = [threads EXCEPT ![t] = SetTop(old, Onward(Keep(Top(th), v)))]
    BY <1>9 DEF InheritedReturns
  <2>4. v.called = FALSE
    OBVIOUS
  <2> HIDE DEF c, v
  <2>7. CASE Return(t, c, Err(t))
    BY <2>1, <2>2, <2>7, ReturnNames
  <2>8. CASE threads' = [threads EXCEPT ![t] = SetTop(old, Onward(Keep(Top(th), v)))]
    <3>1. Kept("inherit", v) /\ ~Foreign("inherit", v)
      BY <2>4 DEF Kept, Foreign
    <3> QED BY <1>on, <2>1, <2>2, <2>8, <3>1
  <2> QED BY <2>3, <2>7, <2>8
<1>10. CASE LeaveInherit(t)
  BY <1>10, <1>back DEF LeaveInherit, At
<1> QED BY <1>2, <1>3, <1>4, <1>5, <1>6, <1>7, <1>8, <1>9, <1>10

\* A container starts, or ends.
LEMMA TurnedNames ==
    ASSUME NEW t, NEW th, DOMAIN th = ThreadFields, ThreadNames(threads, t, th),
           th.dir # "done", NEW d
    PROVE ThreadNames(threads, t, [th EXCEPT !.dir = d])
<1> DEFINE new == [th EXCEPT !.dir = d]
<1>1. new.stack = th.stack /\ new.ctx = th.ctx /\ Top(new) = Top(th)
  BY DEF ThreadFields, Top
<1> HIDE DEF new
<1>2. ThreadNames(threads, t, new)
  BY <1>1 DEF ThreadNames
<1> QED BY <1>2 DEF new

LEMMA ContainerEndsNames ==
    ASSUME Shape, MapsInv, NamesInv, NEW t \in DOMAIN threads, ContainerEnds(t)
    PROVE NamesNext
<1> DEFINE th == threads[t]
<1>0. /\ th.dir = "running" /\ Top(th).at = "run" /\ Ctx(t) = th.ctx /\ Frame(t) = Top(th)
      /\ th.dir # "done" /\ th.dir # "waiting"
  BY DEF ContainerEnds, At, Proc, Ctx, Frame
<1>1. /\ ThreadShape(prog, th) /\ ThreadTemplates(prog, t, th) /\ IsContext(th.ctx)
      /\ FrameShape(prog, Top(th)) /\ ThreadNames(threads, t, th)
  BY <1>0, MapsOf, ShapeOf, NamesThere DEF Ctx
<1>2. PICK wrote \in {{}, Options(t).publishes} :
         LET f == [Frame(t) EXCEPT !.published = [k \in {"env", "secret"} |-> wrote]]
             new == SetTop([threads[t] EXCEPT !.dir = "down"], f)
         IN  \/ threads' = [threads EXCEPT ![t] = SetTop(new, Onward(Keep(f, TRUE)))]
             \/ threads' = [threads EXCEPT ![t] = Returned(new, Ctx(t), "hard")]
  BY DEF ContainerEnds
<1> DEFINE f == [Frame(t) EXCEPT !.published = [k \in {"env", "secret"} |-> wrote]]
           old == [th EXCEPT !.dir = "down"]
           new == SetTop(old, f)
           on == SetTop(new, Onward(Keep(f, TRUE)))
           back == Returned(new, Ctx(t), "hard")
<1>3. SameFrame(f, Top(th)) /\ DOMAIN f = FrameFields
  BY <1>0, <1>1 DEF FrameShape, FrameFields, SameFrame
<1>4. threads' = [threads EXCEPT ![t] = on] \/ threads' = [threads EXCEPT ![t] = back]
  BY <1>2
<1> HIDE DEF f
<1>5. f.at = "run" /\ FrameShape(prog, f)
  BY <1>0, <1>1, <1>3 DEF FrameShape, FrameFields, SameFrame
<1>6. /\ ThreadShape(prog, old) /\ ThreadTemplates(prog, t, old) /\ Top(old) = Top(th)
      /\ old.ctx = th.ctx /\ old.dir = "down"
  BY <1>0, <1>1, TurnedMaps
<1>n. ThreadNames(threads, t, old)
  <2>1. DOMAIN th = ThreadFields
    BY <1>1, FramesOf
  <2> QED BY <1>0, <1>1, <2>1, TurnedNames
<1> HIDE DEF old
<1>7. /\ ThreadShape(prog, new) /\ Top(new) = f /\ ThreadNames(threads, t, new)
      /\ new.ctx = th.ctx /\ new.dir = "down"
  <2>1. SameFrame(f, Top(old)) /\ old.dir # "done"
    BY <1>3, <1>6
  <2>2. ThreadShape(prog, new) /\ Top(new) = f /\ new.ctx = old.ctx /\ new.dir = old.dir
    BY <1>5, <1>6, <2>1, Touched
  <2>3. ThreadNames(threads, t, new)
    BY <1>5, <1>6, <1>n, <2>1, TouchedNames
  <2> QED BY <1>6, <2>2, <2>3
<1> HIDE DEF new
<1>8. /\ DOMAIN new = ThreadFields /\ SameFrame(f, Top(new)) /\ new.dir # "done"
      /\ IsContext(new.ctx) /\ new.stack = new.stack /\ new.path = new.path
      /\ TopNames(threads, t, new.ctx, Len(new.stack), DOMAIN f.saved)
  <2>1. DOMAIN new = ThreadFields
    BY <1>7, FramesOf
  <2>2. TopNames(threads, t, new.ctx, Len(new.stack), DOMAIN f.saved)
    BY <1>7, NamesHere
  <2> QED BY <1>1, <1>7, <2>1, <2>2 DEF SameFrame
<1>9. ThreadNames(threads, t, on)
  <2>1. f.at # "end" /\ Kept(f.at, TRUE)
    BY <1>5, KeptAny
  <2>2. KeptNames(threads, t, f.at, TRUE, Len(new.stack))
    BY <1>5 DEF KeptNames
  <2>3. TopNames(threads, t, new.ctx, Len(new.stack), DOMAIN f.saved \cup {f.at})
    BY <1>5, <1>8 DEF TopNames
  <2> QED BY <1>5, <1>7, <1>8, <2>1, <2>2, <2>3, OnwardNames
<1>10. ThreadNames(threads, t, back)
  <2>1. Top(new).at # "recover" /\ IsContext(Ctx(t))
    BY <1>0, <1>1, <1>5, <1>7
  <2>2. TopNames(threads, t, Ctx(t), Len(new.stack), DOMAIN Top(new).saved \ {Top(new).at})
    BY <1>0, <1>7, <1>8 DEF TopNames
  <2> QED BY <1>7, <1>8, <2>1, <2>2, BackNames
<1> HIDE DEF on, back
<1> QED BY <1>0, <1>4, <1>9, <1>10, OneNames

-----------------------------------------------------------------------------
(* Goroutines start and end, and their names.                              *)

LEMMA WaitingNames ==
    ASSUME NEW t, NEW th, ThreadShape(prog, th), ThreadTemplates(prog, t, th),
           ThreadNames(threads, t, th),
           th.dir \in {"down", "waiting"}, Top(th).at \in {"matrix", "concurrent"},
           NEW old, old.stack = th.stack, old.path = th.path, DOMAIN old = ThreadFields,
           IsContext(old.ctx), old.dir = "waiting",
           SameRefs(old.ctx, th.ctx), SameNames(old.ctx, th.ctx), NEW v
    PROVE LET new == SetTop(old, Keep(Top(th), v))
          IN  /\ ThreadShape(prog, new) /\ ThreadNames(threads, t, new)
              /\ Len(new.stack) = Len(th.stack)
              /\ new.dir = "waiting" /\ new.ctx = old.ctx /\ Top(new).at = Top(th).at
<1> DEFINE f == Top(th)
           k == Keep(f, v)
           new == SetTop(old, k)
<1>1. /\ ThreadShape(prog, new) /\ new.dir = "waiting" /\ new.ctx = old.ctx /\ Top(new) = k
  BY WaitingMaps
<1>2. /\ th.dir # "done" /\ DOMAIN f = FrameFields /\ f.at \in {"matrix", "concurrent"}
      /\ FrameNames(threads, t, f, Len(th.stack))
      /\ TopNames(threads, t, th.ctx, Len(th.stack), DOMAIN f.saved)
  BY FramesOf, NamesHere
<1> HIDE DEF f
<1>3. /\ k.step = f.step /\ k.at = f.at
      /\ DOMAIN k.saved = DOMAIN f.saved \cup {f.at}
      /\ k.saved[f.at] = v
      /\ \A p \in DOMAIN f.saved \ {f.at} : k.saved[p] = f.saved[p]
  BY <1>2, KeepType
<1> HIDE DEF k
<1>4. FrameShape(prog, k) /\ TopShape(prog, k, old.dir) /\ old.dir \in Directions \ {"done"}
  BY <1>1, FramesOf DEF Directions
<1>5. /\ Len(new.stack) = Len(th.stack)
      /\ \A i \in 1 .. Len(th.stack) - 1 : new.stack[i] = th.stack[i]
  BY <1>2, <1>4, TopMoved
<1>6. FrameNames(threads, t, k, Len(th.stack))
  <2>1. KeptNames(threads, t, f.at, v, Len(th.stack))
    BY <1>2 DEF KeptNames
  <2> QED BY <1>2, <1>3, <2>1 DEF FrameNames
<1>7. TopNames(threads, t, new.ctx, Len(th.stack), DOMAIN k.saved)
  BY <1>1, <1>2, <1>3 DEF TopNames, NamesOf, Named, SameNames
<1> HIDE DEF new
<1>8. ThreadNames(threads, t, new)
  BY <1>1, <1>2, <1>5, <1>6, <1>7, NamesMoved
<1> QED BY <1>1, <1>3, <1>5, <1>8 DEF new, k, f

\* What a goroutine that begins is called: as its parent, and as its instance.
LEMMA NewThreadNames ==
    ASSUME NEW ths, NEW u, NEW s, NEW c, IsContext(c), NEW h, NEW path,
           c.whole => Rooted(ths, u, c.ns),
           NEW th, th = NewThread(s, c, h, path)
    PROVE ThreadNames(ths, u, th)
<1> DEFINE f == NewFrame(s, c, h)
<1>1. th.stack = <<f>> /\ th.ctx = c
  BY DEF NewThread
<1>2. DOMAIN f.saved = {}
  BY DEF NewFrame, EmptyMap
<1> HIDE DEF f
<1>3. Len(th.stack) = 1 /\ th.stack[1] = f /\ Top(th) = f
  BY <1>1 DEF Top
<1>4. \A i \in 1 .. Len(th.stack) : FrameNames(ths, u, th.stack[i], i)
  BY <1>2, <1>3 DEF FrameNames
<1>5. TopNames(ths, u, th.ctx, Len(th.stack), DOMAIN Top(th).saved)
  BY <1>1, <1>2, <1>3 DEF TopNames, NamesOf
<1> QED BY <1>4, <1>5 DEF ThreadNames

\* The names below a goroutine that has just begun.
LEMMA RootedBelow ==
    ASSUME NEW a, NEW b, NEW t, IsSeq(t), NEW x, NEW n, Rooted(a, t, n),
           \A i \in 0 .. Len(t) - 1 : b[SubSeq(t, 1, i)] = a[SubSeq(t, 1, i)],
           b[t].ctx.ns = n
    PROVE Rooted(b, Append(t, x), Branch(b[t], x))
<1> DEFINE u == Append(t, x)
           m == Branch(b[t], x)
<1>1. /\ Len(t) \in Nat /\ Len(u) = Len(t) + 1 /\ u[Len(t) + 1] = x
      /\ \A i \in 1 .. Len(t) : u[i] = t[i]
  BY Pushed, SeqType
<1>2. /\ SubSeq(u, 1, Len(t)) = t
      /\ \A i \in 0 .. Len(t) - 1 : SubSeq(u, 1, i) = SubSeq(t, 1, i)
  BY PrefixOn
<1>3. IsSeq(n) /\ (m = Append(n, x) \/ m = n)
  BY DEF Rooted, Branch
<1>4. Rooted(a, t, m)
  BY <1>3, RootedOn
<1> HIDE DEF u, m
<1>5. ASSUME NEW i \in 0 .. Len(u) - 1
      PROVE IsSeq(b[SubSeq(u, 1, i)].ctx.ns) /\ Prefix(Branch(b[SubSeq(u, 1, i)], u[i + 1]), m)
  <2>1. CASE i = Len(t)
    <3>1. SubSeq(u, 1, i) = t /\ u[i + 1] = x
      BY <1>1, <1>2, <2>1
    <3> QED BY <1>3, <3>1, PrefixSelf DEF m
  <2>2. CASE i # Len(t)
    <3>1. i \in 0 .. Len(t) - 1 /\ i + 1 \in 1 .. Len(t)
      BY <1>1, <2>2
    <3>2. b[SubSeq(u, 1, i)] = a[SubSeq(t, 1, i)] /\ u[i + 1] = t[i + 1]
      BY <1>1, <1>2, <3>1
    <3> QED BY <1>4, <3>1, <3>2 DEF Rooted
  <2> QED BY <2>1, <2>2
<1>6. IsSeq(m)
  BY <1>4 DEF Rooted
<1> QED BY <1>5, <1>6 DEF Rooted, u, m

\* The context of a goroutine has the names of its parent's, in a matrix and its own.
ForkedNames(t, x, c, d) ==
    /\ d.whole = c.whole
    /\ d.ns = IF Proc(t) = "matrix" THEN Append(c.ns, x) ELSE c.ns

LEMMA ForkNames ==
    ASSUME Shape, MapsInv, NamesInv, NEW t \in DOMAIN threads, threads[t].dir = "down",
           Proc(t) \in {"matrix", "concurrent"},
           NEW step, NEW context,
           NEW c, IsContext(c), SameRefs(c, Ctx(t)), SameNames(c, Ctx(t)),
           \A x \in DOMAIN step : IsContext(context[x]) /\ ForkedNames(t, x, c, context[x]),
           Fork(t, step, context, c)
    PROVE NamesNext
<1> DEFINE th == threads[t]
           old == [th EXCEPT !.ctx = c, !.dir = "waiting"]
           new == SetTop(old, Keep(Frame(t), "ok"))
           forked == {Append(t, x) : x \in DOMAIN step}
<1>0. /\ ThreadShape(prog, th) /\ ThreadTemplates(prog, t, th) /\ ThreadNames(threads, t, th)
      /\ IsSeq(t) /\ DOMAIN th = ThreadFields /\ WaitsFor(threads, t)
  BY MapsOf, NamesThere, ShapeOf DEF Shape, MapsInv
<1>f. ForkEffect(t, step, context, c)
  BY Forked
<1>1. /\ t \notin forked
      /\ DOMAIN threads' = DOMAIN threads \cup forked
      /\ threads'[t] = new
      /\ \A x \in DOMAIN step :
            threads'[Append(t, x)] = NewThread(step[x], context[x], heap', Path(t))
  BY <1>f DEF ForkEffect
<1>2. /\ DOMAIN threads \cap forked = {}
      /\ \A u \in DOMAIN threads \ {t} : threads'[u] = threads[u]
  <2>1. DOMAIN threads \cap forked = {}
    BY NoneStarted
  <2> QED BY <1>f, <2>1 DEF ForkEffect
<1>3. ThreadNames(threads, t, new) /\ new.ctx = c /\ Top(new).at = Proc(t)
  <2>1. /\ old.stack = th.stack /\ old.path = th.path /\ DOMAIN old = ThreadFields
        /\ old.ctx = c /\ old.dir = "waiting"
    BY <1>0 DEF ThreadFields
  <2>2. /\ Top(th).at \in {"matrix", "concurrent"} /\ th.ctx = Ctx(t) /\ Frame(t) = Top(th)
        /\ Top(th).at = Proc(t)
    BY DEF Proc, Ctx, Frame
  <2> HIDE DEF old
  <2>3. new = SetTop(old, Keep(Top(th), "ok"))
    BY <2>2
  <2> HIDE DEF new
  <2> QED BY <1>0, <2>1, <2>2, <2>3, WaitingNames
<1> HIDE DEF new
\* Those above a thread that was there go on as they were.
<1>4. ASSUME NEW u \in DOMAIN threads, NEW i \in 0 .. Len(u) - 1
      PROVE threads'[SubSeq(u, 1, i)] = threads[SubSeq(u, 1, i)]
  <2>1. SubSeq(u, 1, i) \in DOMAIN threads /\ threads[SubSeq(u, 1, i)].dir = "waiting"
    BY DEF MapsInv, WaitsFor
  <2> QED BY <1>2, <2>1
<1>5. ASSUME NEW u \in DOMAIN threads
      PROVE ThreadNames(threads', u, threads'[u])
  <2>1. ThreadNames(threads, u, threads'[u])
    <3>1. CASE u = t
      BY <1>1, <1>3, <3>1
    <3>2. CASE u # t
      BY <1>2, <3>2 DEF NamesInv
    <3> QED BY <3>1, <3>2
  <2>2. \A i \in 0 .. Len(u) - 1 : threads'[SubSeq(u, 1, i)] = threads[SubSeq(u, 1, i)]
    BY <1>4
  <2> QED BY <2>1, <2>2, RootsStay
<1>6. ASSUME NEW x \in DOMAIN step
      PROVE ThreadNames(threads', Append(t, x), threads'[Append(t, x)])
  <2> DEFINE d == context[x]
             u == Append(t, x)
  <2>1. IsContext(d) /\ ForkedNames(t, x, c, d)
    OBVIOUS
  <2>2. threads'[u] = NewThread(step[x], d, heap', Path(t))
    BY <1>1
  <2> HIDE DEF d
  <2>3. d.whole => Rooted(threads', u, d.ns)
    <3> SUFFICES ASSUME d.whole PROVE Rooted(threads', u, d.ns)
      OBVIOUS
    <3>1. c.whole /\ Ctx(t).whole /\ Ctx(t).ns = c.ns
      BY <2>1 DEF ForkedNames, SameNames
    <3>2. Rooted(threads, t, c.ns)
      <4>1. th.dir # "done"
        OBVIOUS
      <4>2. Named(threads, t, Ctx(t))
        BY <4>1, BelowNames
      <4> QED BY <3>1, <4>2 DEF Named
    <3>3. threads'[t].ctx.ns = c.ns /\ Branch(threads'[t], x) = d.ns
      BY <1>1, <1>3, <2>1 DEF ForkedNames, Branch
    <3>4. \A i \in 0 .. Len(t) - 1 : threads'[SubSeq(t, 1, i)] = threads[SubSeq(t, 1, i)]
      BY <1>4
    <3> QED BY <1>0, <3>2, <3>3, <3>4, RootedBelow
  <2> QED BY <2>1, <2>2, <2>3, NewThreadNames
<1> QED BY <1>1, <1>5, <1>6 DEF NamesNext

\* A deep copy has the names of the original.
LEMMA CopiedNames ==
    ASSUME NEW c, IsContext(c), NEW u
    PROVE /\ DeepCopy(u, c, heap).ns = c.ns /\ DeepCopy(u, c, heap).whole = c.whole
          /\ \A n : /\ WithNamespace(DeepCopy(u, c, heap), n).ns = Append(c.ns, n)
                    /\ WithNamespace(DeepCopy(u, c, heap), n).whole = c.whole
<1> DEFINE d == DeepCopy(u, c, heap)
<1>1. {"ns", "whole"} \cap Copied(c) = {} /\ {"ns", "whole"} \subseteq DOMAIN c
  BY DEF Copied, Cloned, Kinds, Maps, VarMaps, IsContext, ContextFields
<1>2. d.ns = c.ns /\ d.whole = c.whole
  BY <1>1 DEF DeepCopy
<1>3. DOMAIN d = ContextFields
  BY ContextType DEF IsContext
<1> HIDE DEF d
<1>4. \A n : WithNamespace(d, n).ns = Append(c.ns, n) /\ WithNamespace(d, n).whole = c.whole
  BY <1>2, <1>3 DEF WithNamespace, ContextFields
<1> QED BY <1>2, <1>4 DEF d

\* Run, concurrent, matrix, the end of a chain.
LEMMA ContainerNames ==
    ASSUME Shape, MapsInv, NamesInv, NEW t \in DOMAIN threads,
           \/ StartContainer(t) \/ StartFails(t) \/ ContainerEnds(t) \/ LeaveRun(t)
           \/ EnterConcurrent(t) \/ EnterMatrix(t) \/ LeaveGroup(t) \/ End(t)
    PROVE NamesNext
<1> DEFINE th == threads[t]
<1>0. /\ IsContext(Ctx(t)) /\ DOMAIN th = ThreadFields /\ ThreadShape(prog, th)
      /\ ThreadNames(threads, t, th) /\ SameNames(Ctx(t), Ctx(t)) /\ SameRefs(Ctx(t), Ctx(t))
  BY ShapeOf, NamesThere, SameNamesType, SameRefsType
<1>back. ASSUME NEW dir \in {"down", "up"}, th.dir = dir,
                NEW p \in {"run", "concurrent", "matrix", "end"}, Proc(t) = p,
                NEW e, Return(t, Ctx(t), e)
         PROVE NamesNext
  <2>1. th.dir \notin {"done", "waiting"} /\ Proc(t) # "recover"
    BY <1>back
  <2> QED BY <1>0, <1>back, <2>1, ReturnAlike
<1>panic. ASSUME th.dir = "down", NEW p \in {"run", "concurrent", "matrix"}, Proc(t) = p, Panic(t)
          PROVE NamesNext
  <2>1. th.dir \notin {"done", "waiting"} /\ Proc(t) # "recover"
    BY <1>panic
  <2> QED BY <1>panic, <2>1, PanicNames
<1>1. CASE StartContainer(t)
  <2> DEFINE new == [th EXCEPT !.dir = "running"]
  <2>1. th.dir = "down" /\ Proc(t) = "run"
    BY <1>1 DEF StartContainer, At
  <2>2. threads' = [threads EXCEPT ![t].dir = "running"] \/ Panic(t)
    BY <1>1 DEF StartContainer
  <2>3. CASE threads' = [threads EXCEPT ![t].dir = "running"]
    <3>1. threads' = [threads EXCEPT ![t] = new]
      BY <2>3
    <3>2. th.dir # "done" /\ th.dir # "waiting"
      BY <2>1
    <3>3. ThreadNames(threads, t, new)
      BY <1>0, <3>2, TurnedNames
    <3> HIDE DEF new
    <3> QED BY <3>1, <3>2, <3>3, OneNames
  <2> QED BY <1>panic, <2>1, <2>2, <2>3
<1>2. CASE StartFails(t)
  BY <1>2, <1>back DEF StartFails, At
<1>3. CASE ContainerEnds(t)
  BY <1>3, ContainerEndsNames
<1>4. CASE LeaveRun(t)
  BY <1>4, <1>back DEF LeaveRun, At
<1>5. CASE EnterConcurrent(t)
  <2> DEFINE refs == {Options(t).concurrent[i] : i \in DOMAIN Options(t).concurrent}
             c == Ctx(t)
             step == [x \in refs |-> x]
             context == [x \in refs |-> DeepCopy(Append(t, x), c, heap)]
  <2>1. th.dir = "down" /\ Proc(t) = "concurrent"
    BY <1>5 DEF EnterConcurrent, At
  <2>2. Panic(t) \/ Fork(t, step, context, c)
    BY <1>5 DEF EnterConcurrent
  <2>3. \A x \in DOMAIN step : IsContext(context[x]) /\ ForkedNames(t, x, c, context[x])
    <3>1. \A u : IsContext(DeepCopy(u, c, heap))
      BY <1>0, ContextType
    <3>2. \A x : ForkedNames(t, x, c, DeepCopy(Append(t, x), c, heap))
      BY <1>0, <2>1, CopiedNames DEF ForkedNames
    <3> QED BY <3>1, <3>2
  <2>4. IsContext(c) /\ SameRefs(c, Ctx(t)) /\ SameNames(c, Ctx(t))
    BY <1>0
  <2> HIDE DEF step, context, c
  <2>5. CASE Fork(t, step, context, c)
    BY <2>1, <2>3, <2>4, <2>5, ForkNames
  <2> QED BY <1>panic, <2>1, <2>2, <2>5
<1>6. CASE EnterMatrix(t)
  <2> DEFINE c == Ctx(t)
             s == Frame(t).step
             d == Instance(c, s)
             params == Options(t).matrix
             step == [x \in params |-> s]
             context == [x \in params |-> WithNamespace(DeepCopy(Append(t, x), d, heap), x)]
  <2>1. th.dir = "down" /\ Proc(t) = "matrix"
    BY <1>6 DEF EnterMatrix, At
  <2>2. \/ Panic(t)
        \/ Forward(t, c, "instance")
        \/ Fork(t, step, context, d)
    BY <1>6 DEF EnterMatrix
  <2>3. IsContext(d) /\ SameRefs(d, c) /\ SameNames(d, c)
    BY <1>0, ContextType, SameRefsType, SameNamesType DEF Instance
  <2>4. \A x \in DOMAIN step : IsContext(context[x]) /\ ForkedNames(t, x, d, context[x])
    <3> HIDE DEF d
    <3>1. \A u : IsContext(DeepCopy(u, d, heap))
      BY <2>3, ContextType
    <3>2. \A u, n : IsContext(WithNamespace(DeepCopy(u, d, heap), n))
      BY <3>1, ContextType
    <3>3. \A x : ForkedNames(t, x, d, WithNamespace(DeepCopy(Append(t, x), d, heap), x))
      BY <2>1, <2>3, CopiedNames DEF ForkedNames
    <3> QED BY <3>2, <3>3
  <2>5. Kept("matrix", "instance") /\ Nameless("matrix", "instance")
    BY KeptAny DEF Nameless
  <2> HIDE DEF step, context, d
  <2>6. CASE Fork(t, step, context, d)
    BY <2>1, <2>3, <2>4, <2>6, ForkNames
  <2>7. CASE Forward(t, c, "instance")
    BY <1>0, <2>1, <2>5, <2>7, ForwardNameless
  <2> QED BY <1>panic, <2>1, <2>2, <2>6, <2>7
<1>7. CASE LeaveGroup(t)
  BY <1>7, <1>back DEF LeaveGroup, At
<1>8. CASE End(t)
  BY <1>8, <1>back DEF End, At
<1> QED BY <1>1, <1>2, <1>3, <1>4, <1>5, <1>6, <1>7, <1>8

\* A result is received.
LEMMA NamesReceived ==
    ASSUME Shape, MapsInv, NamesInv, NEW t \in DOMAIN threads, threads[t].dir = "waiting",
           NEW u \in Children(t), threads[u].dir = "done",
           NEW new, ThreadNames(threads, t, new),
           \/ new.ctx = threads[t].ctx /\ Top(new).at = Top(threads[t]).at
           \/ Children(t) = {u},
           DOMAIN threads' = DOMAIN threads \ {u}, threads'[t] = new,
           \A v \in DOMAIN threads \ {u, t} : threads'[v] = threads[v]
    PROVE NamesNext
<1>1. ASSUME NEW v \in DOMAIN threads', NEW i \in 0 .. Len(v) - 1
      PROVE LET w == SubSeq(v, 1, i)
            IN  /\ threads'[w].ctx.ns = threads[w].ctx.ns
                /\ Top(threads'[w]).at = Top(threads[w]).at
  <2> DEFINE w == SubSeq(v, 1, i)
  <2>1. v \in DOMAIN threads /\ v # u
    OBVIOUS
  <2>2. w \in DOMAIN threads /\ threads[w].dir = "waiting"
    BY <2>1 DEF MapsInv, WaitsFor
  <2>3. w = t => new.ctx = threads[t].ctx /\ Top(new).at = Top(threads[t]).at
    BY <2>1, LastChild
  <2> HIDE DEF w
  <2>4. w # u
    BY <2>2
  <2>5. threads'[w].ctx.ns = threads[w].ctx.ns /\ Top(threads'[w]).at = Top(threads[w]).at
    <3>1. CASE w = t
      BY <2>3, <3>1
    <3>2. CASE w # t
      <4>1. threads'[w] = threads[w]
        BY <2>2, <2>4, <3>2
      <4> QED BY <4>1
    <3> QED BY <3>1, <3>2
  <2> QED BY <2>5 DEF w
<1>2. ASSUME NEW v \in DOMAIN threads'
      PROVE ThreadNames(threads', v, threads'[v])
  <2>1. ThreadNames(threads, v, threads'[v])
    <3>1. CASE v = t
      BY <3>1
    <3>2. CASE v # t
      BY <3>2 DEF NamesInv
    <3> QED BY <3>1, <3>2
  <2>2. \A i \in 0 .. Len(v) - 1 :
           /\ threads'[SubSeq(v, 1, i)].ctx.ns = threads[SubSeq(v, 1, i)].ctx.ns
           /\ Top(threads'[SubSeq(v, 1, i)]).at = Top(threads[SubSeq(v, 1, i)]).at
    BY <1>1
  <2> QED BY <2>1, <2>2, RootsAlike
<1> QED BY <1>2 DEF NamesNext

LEMMA ReceiveNames ==
    ASSUME Shape, MapsInv, NamesInv, NEW t \in DOMAIN threads, NEW p \in {"concurrent", "matrix"},
           Receive(t, p)
    PROVE NamesNext
<1> DEFINE th == threads[t]
<1>1. PICK u \in Children(t) :
         /\ threads[u].dir = "done"
         /\ LET c == Ctx(t)
                child == threads[u]
                err == IF Abort(child.err) THEN "hard" ELSE Saved(t, p)
                kept == SetTop(threads[t], Keep(Frame(t), err))
                last == Children(t) = {u}
                rest == [v \in DOMAIN threads \ {u} |-> threads[v]]
            IN  threads' = [rest EXCEPT ![t] =
                      IF ~last THEN kept
                      ELSE IF p = "matrix" \/ err # "ok" THEN Returned(kept, c, err)
                      ELSE SetTop([kept EXCEPT !.dir = "down"], Onward(Top(kept)))]
  BY DEF Receive
<1> DEFINE c == Ctx(t)
           err == IF Abort(threads[u].err) THEN "hard" ELSE Saved(t, p)
           kept == SetTop(th, Keep(Frame(t), err))
           rest == [v \in DOMAIN threads \ {u} |-> threads[v]]
           back == Returned(kept, c, err)
           gone == SetTop([kept EXCEPT !.dir = "down"], Onward(Top(kept)))
           last == Children(t) = {u}
<1>2. /\ th.dir = "waiting" /\ Top(th).at = p /\ Frame(t) = Top(th) /\ c = th.ctx
  BY DEF Receive, At, Proc, Frame, Ctx
<1>3. /\ ThreadShape(prog, th) /\ ThreadTemplates(prog, t, th) /\ DOMAIN th = ThreadFields
      /\ IsContext(c) /\ FrameShape(prog, Top(th)) /\ ThreadNames(threads, t, th)
      /\ SameRefs(c, c) /\ SameNames(c, c)
      /\ TopNames(threads, t, c, Len(th.stack), DOMAIN Top(th).saved)
  <2>1. th.dir # "done"
    BY <1>2
  <2>2. /\ ThreadShape(prog, th) /\ ThreadTemplates(prog, t, th) /\ DOMAIN th = ThreadFields
        /\ IsContext(c) /\ FrameShape(prog, Top(th)) /\ ThreadNames(threads, t, th)
    BY <1>2, <2>1, MapsOf, ShapeOf, NamesThere
  <2>3. TopNames(threads, t, c, Len(th.stack), DOMAIN Top(th).saved)
    BY <1>2, <2>1, <2>2, NamesHere
  <2> QED BY <2>2, <2>3, SameRefsType, SameNamesType
<1>4. u \in DOMAIN threads /\ u # t /\ threads[u].dir = "done"
  BY <1>1, <1>2 DEF Children
<1>6. \/ threads' = [rest EXCEPT ![t] = kept]
      \/ last /\ threads' = [rest EXCEPT ![t] = back]
      \/ last /\ threads' = [rest EXCEPT ![t] = gone]
  <2> HIDE DEF kept, rest, err, gone, back, c
  <2> QED BY <1>1 DEF kept, rest, err, gone, back, c
<1> HIDE DEF err
<1>7. /\ ThreadShape(prog, kept) /\ ThreadNames(threads, t, kept)
      /\ Len(kept.stack) = Len(th.stack)
      /\ kept.dir = "waiting" /\ kept.ctx = c /\ Top(kept).at = p
  <2>1. kept = SetTop(th, Keep(Top(th), err))
    BY <1>2
  <2> HIDE DEF kept
  <2> QED BY <1>2, <1>3, <2>1, WaitingNames
<1>8. ThreadNames(threads, t, back)
  <2> HIDE DEF kept
  <2>1. kept.dir # "done" /\ Top(kept).at # "recover" /\ IsContext(c)
    BY <1>3, <1>7
  <2>2. TopNames(threads, t, c, Len(kept.stack), DOMAIN Top(kept).saved \ {Top(kept).at})
    <3>1. TopNames(threads, t, kept.ctx, Len(kept.stack), DOMAIN Top(kept).saved)
      BY <1>7, <2>1, NamesHere
    <3> QED BY <1>7, <3>1 DEF TopNames
  <2> QED BY <1>7, <2>1, <2>2, BackNames
<1>9. ThreadNames(threads, t, gone)
  <2> DEFINE old == [th EXCEPT !.dir = "down"]
             f == Top(th)
             k == Keep(f, err)
             on == SetTop(old, Onward(k))
  <2>2. gone = on
    <3>1. Top(kept) = k
      <4>1. kept = SetTop(th, k)
        BY <1>2
      <4> HIDE DEF kept
      <4> HIDE DEF k
      <4> QED BY <1>3, <4>1, TopReplaced
    <3>2. gone = SetTop([kept EXCEPT !.dir = "down"], Onward(k))
      BY <3>1
    <3>3. SetTop([kept EXCEPT !.dir = "down"], Onward(k)) = SetTop(old, Onward(k))
      <4>1. kept = SetTop(th, k)
        BY <1>2
      <4> HIDE DEF k
      <4> QED BY <1>3, <1>7, <4>1, TwiceTop
    <3> HIDE DEF gone, kept, k
    <3> QED BY <3>2, <3>3
  <2>3. /\ old.stack = th.stack /\ old.path = th.path /\ DOMAIN old = ThreadFields
        /\ old.ctx = c /\ old.dir = "down" /\ IsContext(old.ctx)
    BY <1>2, <1>3 DEF ThreadFields
  <2>4. SameFrame(f, Top(th)) /\ f.at = p /\ f.at # "end" /\ Kept(f.at, err)
    BY <1>2, KeptAny DEF SameFrame
  <2>5. KeptNames(threads, t, f.at, err, Len(th.stack))
    BY <2>4 DEF KeptNames
  <2>6. TopNames(threads, t, old.ctx, Len(th.stack), DOMAIN f.saved \cup {f.at})
    BY <1>3, <2>3, <2>4 DEF TopNames
  <2>7. FrameShape(prog, f) /\ th.dir # "done"
    BY <1>2, <1>3
  <2> HIDE DEF old, f, gone
  <2>8. ThreadNames(threads, t, on)
    BY <1>3, <2>3, <2>4, <2>5, <2>6, <2>7, OnwardNames
  <2> HIDE DEF on
  <2> QED BY <2>2, <2>8
<1>11. ASSUME NEW new, ThreadNames(threads, t, new),
              (new.ctx = th.ctx /\ Top(new).at = Top(th).at) \/ last,
              threads' = [rest EXCEPT ![t] = new]
       PROVE NamesNext
  <2>1. /\ DOMAIN threads' = DOMAIN threads \ {u} /\ threads'[t] = new
        /\ \A v \in DOMAIN threads \ {u, t} : threads'[v] = threads[v]
    BY <1>4, <1>11
  <2> QED BY <1>2, <1>4, <1>11, <2>1, NamesReceived
<1>12. kept.ctx = th.ctx /\ Top(kept).at = Top(th).at
  BY <1>2, <1>7
<1> HIDE DEF kept, back, gone, rest, last
<1> QED BY <1>6, <1>7, <1>8, <1>9, <1>11, <1>12

LEMMA InitNames == Init => NamesInv
<1> SUFFICES ASSUME Init PROVE NamesInv
  OBVIOUS
<1> DEFINE c == [NewContext(<<>>, EmptyMap) EXCEPT !.alive = TRUE, !.whole = TRUE]
           first == NewThread("main", c, heap, <<>>)
<1>1. threads = [t \in {<<>>} |-> first]
  BY DEF Init
<1>2. IsContext(c) /\ c.ns = <<>>
  <2>1. IsContext(NewContext(<<>>, EmptyMap)) /\ NewContext(<<>>, EmptyMap).ns = <<>>
    BY NewContextType DEF NewContext
  <2> QED BY <2>1 DEF IsContext, ContextFields
<1>3. Rooted(threads, <<>>, c.ns)
  <2>1. 0 .. Len(<<>>) - 1 = {}
    OBVIOUS
  <2>2. IsSeq(<<>>)
    <3>1. <<>> \in Seq({})
      OBVIOUS
    <3> QED BY <3>1, SeqOfElements
  <2> QED BY <1>2, <2>1, <2>2 DEF Rooted
<1> HIDE DEF c
<1>4. ThreadNames(threads, <<>>, first)
  BY <1>2, <1>3, NewThreadNames
<1> HIDE DEF first
<1> QED BY <1>1, <1>4 DEF NamesInv

LEMMA StepNames ==
    ASSUME Shape, MapsInv, NamesInv, NEW t \in DOMAIN threads, Step(t)
    PROVE NamesNext
  BY FirstNames, VariablesNames, ChecksNames, CallsNames, ContainerNames, ReceiveNames DEF Step

\* The program does not change, and the names do not depend on it.
LEMMA NextNames == Shape /\ MapsInv /\ NamesInv /\ [Next]_vars => NamesInv'
<1> SUFFICES ASSUME Shape, MapsInv, NamesInv, [Next]_vars PROVE NamesInv'
  OBVIOUS
<1>1. CASE UNCHANGED vars
  BY <1>1 DEF vars, NamesInv
<1>2. ASSUME NEW t \in DOMAIN threads, Step(t)
      PROVE NamesInv'
  BY <1>2, StepNames DEF NamesInv, NamesNext
<1> QED BY <1>1, <1>2 DEF Next, Finished

\* The name of the container that a thread runs begins as its place in a matrix says.
LEMMA RunningNames ==
    ASSUME Shape, MapsInv, NamesInv, NEW t \in DOMAIN threads, At(t, "running", "run"),
           Ctx(t).whole, NEW w, NEW x, InstanceOf(t, w, x), Len(w) \in Nat
    PROVE LET ns == threads[w].ctx.ns
              uname == Ctx(t).uname
          IN  /\ IsSeq(ns) /\ IsSeq(uname) /\ Len(ns) < Len(uname)
              /\ uname[Len(ns) + 1] = x
<1> DEFINE ns == threads[w].ctx.ns
           uname == Ctx(t).uname
<1>1. threads[t].dir # "done" /\ Proc(t) = "run"
  BY DEF At
<1>2. Rooted(threads, t, uname)
  BY <1>1, BelowNames DEF Named
<1>3. /\ SubSeq(t, 1, Len(w)) = w /\ t[Len(w) + 1] = x /\ Top(threads[w]).at = "matrix"
      /\ Len(w) \in 0 .. Len(t) - 1
  <2>1. Len(t) \in Nat
    BY SeqType DEF Shape
  <2> QED BY <2>1 DEF InstanceOf, At, Proc
<1>4. IsSeq(uname) /\ IsSeq(ns) /\ Prefix(Append(ns, x), uname)
  <2>1. Branch(threads[w], x) = Append(ns, x)
    BY <1>3 DEF Branch
  <2>2. IsSeq(ns) /\ Prefix(Branch(threads[w], x), uname)
    BY <1>2, <1>3 DEF Rooted
  <2>3. IsSeq(uname)
    BY <1>2 DEF Rooted
  <2> QED BY <2>1, <2>2, <2>3
<1> HIDE DEF ns, uname
<1>5. /\ Len(Append(ns, x)) = Len(ns) + 1 /\ Append(ns, x)[Len(ns) + 1] = x
      /\ Len(ns) \in Nat /\ Len(uname) \in Nat
  BY <1>4, Pushed, SeqType
<1>6. Len(ns) + 1 <= Len(uname) /\ uname[Len(ns) + 1] = x
  BY <1>4, <1>5 DEF Prefix
<1> QED BY <1>4, <1>5, <1>6 DEF ns, uname

LEMMA NamesDiffer == Shape /\ MapsInv /\ NamesInv => NamespacedUnique
<1> SUFFICES ASSUME Shape, MapsInv, NamesInv,
                    NEW t \in DOMAIN threads, NEW u \in DOMAIN threads, NEW w \in DOMAIN threads,
                    At(t, "running", "run"), Ctx(t).whole,
                    At(u, "running", "run"), Ctx(u).whole,
                    NEW x, NEW y, x # y, InstanceOf(t, w, x), InstanceOf(u, w, y)
             PROVE Ctx(t).uname # Ctx(u).uname
  BY DEF NamespacedUnique
<1>1. Len(w) \in Nat
  BY SeqType DEF Shape
<1> DEFINE n == Len(threads[w].ctx.ns) + 1
<1>2. Ctx(t).uname[n] = x
  BY <1>1, RunningNames
<1>3. Ctx(u).uname[n] = y
  BY <1>1, RunningNames
<1> QED BY <1>2, <1>3

-----------------------------------------------------------------------------
(* Theorems about names.                                                   *)

\* Beside the shape and the maps, a context that has not lost its namespace has, in
\* that and in the name of its step, every matrix it has come through and its own
\* instance of it (result.go:74, matrix.go:119, inherit.go:49).
THEOREM NamesInvariant == Spec => [](Shape /\ MapsInv /\ NamesInv)
<1>1. Init => Shape /\ MapsInv /\ NamesInv
  BY InitShape, InitMaps, InitNames
<1>2. Shape /\ MapsInv /\ NamesInv /\ [Next]_vars => (Shape /\ MapsInv /\ NamesInv)'
  BY NextShape, NextMaps, NextNames
<1> QED BY <1>1, <1>2, PTL DEF Spec

\* The instances of a matrix, with all that they call, never run two containers under
\* one name at the same time as long as neither has lost its namespace (result.go:74, 110).
THEOREM ChainNamespacedUnique == Spec => []NamespacedUnique
<1>1. Shape /\ MapsInv /\ NamesInv => NamespacedUnique
  BY NamesDiffer
<1> QED BY <1>1, NamesInvariant, PTL

================================================================================
